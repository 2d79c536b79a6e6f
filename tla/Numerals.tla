------------------------------ MODULE Numerals ------------------------------
(***************************************************************************)
(* Numbers and their digits in a base, as fmt writes them and strconv      *)
(* reads them; a digit is its value.                                       *)
(***************************************************************************)
EXTENDS Integers, Sequences

\* The digits of n, the first one the highest, without leading zeros.
Digits(base, n) ==
    LET d[m \in 0..n] == IF m < base THEN <<m>>
                         ELSE Append(d[m \div base], m % base)
    IN  d[n]

\* The number a text of digits stands for: ParseUint's loop over them.
Valued(base, digits) ==
    LET v[k \in 0..Len(digits)] ==
            IF k = 0 THEN 0 ELSE base * v[k - 1] + digits[k]
    IN  v[Len(digits)]
=============================================================================
