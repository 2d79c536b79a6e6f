------------------------------ MODULE Numbers ------------------------------
(***************************************************************************)
(* pkg/utils/hex.go: numbers on their way into a text and out of it again, *)
(* with the integers' width.  A number is written by one function, a hex   *)
(* string may get a leading zero on the way, and the text is read by one   *)
(* of the readers the program has.                                         *)
(*                                                                         *)
(* A text is what ParseInt tells apart: a sign and where it stands, a 0x,  *)
(* and the values of the digits.  ParseInt's 0b, 0o and underscores, which *)
(* nothing writes, are left out.                                           *)
(***************************************************************************)
EXTENDS Numerals

CONSTANT SignBit    \* the weight of an int64's highest bit: 2^63

VARIABLES
    num,    \* the number written
    by,     \* the function it was written by
    text,   \* the text on its way
    got     \* what was read: a number and an error, or nothing yet

vars == <<num, by, text, got>>

MaxInt == SignBit - 1
MinInt == -SignBit
Ints == MinInt..MaxInt
Uints == 0..(2 * SignBit - 1)

-----------------------------------------------------------------------------
(* Writing.                                                                *)

Text(sign, prefix, digits) ==
    [sign |-> sign, prefix |-> prefix, digits |-> digits]

EmptyText == Text("", "", <<>>)

Abs(n) == IF n < 0 THEN -n ELSE n

\* fmt.Sprintf("%d"), big.Int's String
IntToString(n) == Text(IF n < 0 THEN "-" ELSE "", "", Digits(10, Abs(n)))

\* fmt.Sprintf("0x%x"): the sign follows the 0x.
NumberToHex(n) ==
    Text(IF n < 0 THEN "inner -" ELSE "", "0x", Digits(16, Abs(n)))

\* Faulty variant: the sign bit is cut off.
ToIntUnsigned(u) == u % SignBit

\* int(u) of a uint64.
ToInt(u) == IF u > MaxInt THEN u - 2 * SignBit ELSE u

-----------------------------------------------------------------------------
(* Reading.                                                                *)

Ok(n) == [num |-> n, err |-> <<>>]
Bad(err) == [num |-> 0, err |-> err]

IsNumeral(base, t) ==
    /\ t.sign # "inner -"
    /\ t.digits # <<>>
    /\ \A n \in 1..Len(t.digits) : t.digits[n] < base

Signed(base, t) ==
    IF t.sign = "-" THEN -Valued(base, t.digits) ELSE Valued(base, t.digits)

\* strconv.ParseInt with 64 bits.
ParseInt(t, base, err) ==
    IF ~ IsNumeral(base, t) \/ Signed(base, t) \notin Ints THEN Bad(err)
    ELSE Ok(Signed(base, t))

\* Faulty variant: the leading zero is looked at before the 0x.
BaseOfZeroFirst(t) ==
    IF Len(t.digits) > 1 /\ t.digits[1] = 0 THEN 8
    ELSE IF t.prefix = "0x" THEN 16 ELSE 10

\* Base 0: what a text looks like decides; a leading zero makes it octal.
BaseOf(t) ==
    CASE t.prefix = "0x" -> 16
      [] t.prefix = "" /\ Len(t.digits) > 1 /\ t.digits[1] = 0 -> 8
      [] OTHER -> 10

\* Faulty variant: every text is read as hexadecimal.
HexToIntAlwaysHex(t) ==
    IF t = EmptyText THEN Bad(<<"InvalidHex">>)
    ELSE ParseInt(t, 16, <<"InvalidHex", "standard">>)

HexToInt(t) ==
    IF t = EmptyText THEN Bad(<<"InvalidHex">>)
    ELSE ParseInt(t, BaseOf(t), <<"InvalidHex", "standard">>)

StringToInt(t) ==
    IF t = EmptyText THEN Bad(<<"ParsingFailed">>)
    ELSE IF t.prefix = "0x" THEN Bad(<<"ParsingFailed", "standard">>)
    ELSE ParseInt(t, 10, <<"ParsingFailed", "standard">>)

\* The block number GetHighestBlockNumber finds as a string.
HighestNumber(t) ==
    IF t.prefix = "0x"
    THEN LET val == HexToInt(t)
         IN  IF val.err = <<>> THEN val
             ELSE Bad(<<"ParsingFailed">> \o val.err)
    ELSE ParseInt(t, 10, <<"DocumentNotFound">>)

-----------------------------------------------------------------------------
Readers == {"HexToInt", "StringToInt", "GetHighestBlockNumber"}

Reading(reader, t) == IF reader = "HexToInt" THEN HexToInt(t)
                      ELSE IF reader = "StringToInt" THEN StringToInt(t)
                      ELSE HighestNumber(t)

Nothing == [reader |-> "none", num |-> 0, err |-> <<>>]

Init == /\ num \in Ints \cup Uints
        /\ by = "none"
        /\ text = EmptyText
        /\ got = Nothing

\* A nonce is an int before it is written.
Write == /\ by = "none"
         /\ \/ by' = "IntToString" /\ text' = IntToString(num)
            \/ by' = "NumberToHex" /\ text' = NumberToHex(num)
            \/ /\ num \in Uints
               /\ by' = "nonce" /\ text' = IntToString(ToInt(num))
            \/ by' = "nothing" /\ text' = EmptyText
         /\ UNCHANGED <<num, got>>

\* What other programs do to hex strings.
Pad == /\ by = "NumberToHex" /\ got = Nothing
       /\ text.digits[1] # 0
       /\ text' = [text EXCEPT !.digits = <<0>> \o text.digits]
       /\ UNCHANGED <<num, by, got>>

Read == /\ by # "none"
        /\ got = Nothing
        /\ \E reader \in Readers :
              LET r == Reading(reader, text)
              IN  got' = [reader |-> reader, num |-> r.num, err |-> r.err]
        /\ UNCHANGED <<num, by, text>>

Next == Write \/ Pad \/ Read

Spec == Init /\ [][Next]_vars

-----------------------------------------------------------------------------
(* Properties.                                                             *)

Done == got # Nothing

\* The client writes the number of a block in decimal wherever it occurs, as a
\* uint64 or a big.Int, and every create function reads it with HexToInt: the
\* number comes out, or an error where it needs the 64th bit; never another
\* number, as if it were hexadecimal or wrapped round.
DecimalsSurvive ==
    Done /\ by = "IntToString" =>
        IF num \in Ints THEN got.num = num /\ got.err = <<>>
        ELSE got.err # <<>>

\* A number written with a 0x, padded or not, is read as itself or refused,
\* whichever function reads it.
HexSurvives ==
    Done /\ by = "NumberToHex" /\ got.err = <<>> => got.num = num

\* The nonce of a block or a transaction goes through int, and half of those
\* before the merge turn negative: none is refused, and each can be had back,
\* so that two that differ are stored as different numbers.
NoncesStayApart ==
    Done /\ by = "nonce" => got.err = <<>> /\ got.num % (2 * SignBit) = num
=============================================================================
