--------------------------- MODULE NumeralsProofs ---------------------------
(***************************************************************************)
(* Reading undoes writing, for every number in the bases the program uses. *)
(* Both functions are recursive: each is shown to be the one function that *)
(* solves its equation, by an induction over the set of the numbers a      *)
(* statement holds of.                                                     *)
(***************************************************************************)
EXTENDS Numerals, SequenceTheorems, WellFoundedInduction, TLAPS

Bases == {10, 16}

\* A set of naturals that has each number whose predecessors it has.
LEMMA SetInduction ==
    ASSUME NEW S \in SUBSET Nat,
           \A n \in Nat : (\A m \in 0..n - 1 : m \in S) => n \in S
    PROVE  S = Nat
<1> SUFFICES ASSUME Nat \ S # {} PROVE FALSE
  OBVIOUS
<1> DEFINE R == {ss \in Nat \X Nat : ss[1] < ss[2]}
<1>1. IsWellFoundedOn(R, Nat)
  BY NatLessThanWellFounded DEF OpToRel
<1> HIDE DEF R
<1>2. PICK n \in Nat \ S : \A m \in Nat \ S : ~ (<<m, n>> \in R)
  BY <1>1, WFMin
<1>3. \A m \in Nat \ S : ~ (m < n)
  BY <1>2 DEF R
<1> QED
  BY <1>3

-----------------------------------------------------------------------------
(* Reading.                                                                *)

\* The equation of Valued's loop.
Loop(base, digits, v) ==
    v = [k \in 0..Len(digits) |->
            IF k = 0 THEN 0 ELSE base * v[k - 1] + digits[k]]

\* What a solution of the equation holds, index by index.
LEMMA LoopValues ==
    \A base, v : \A digits \in Seq(Nat) :
        Loop(base, digits, v) =>
            /\ Len(digits) \in Nat
            /\ v[0] = 0
            /\ \A k \in 1..Len(digits) : v[k] = base * v[k - 1] + digits[k]
BY DEF Loop

\* A solution exists for any number of digits.
LEMMA LoopExists ==
    ASSUME NEW base \in Nat, NEW digits \in Seq(Nat)
    PROVE  \E v : Loop(base, digits, v)
<1> DEFINE Upto(n, v) ==
               v = [k \in 0..n |->
                       IF k = 0 THEN 0 ELSE base * v[k - 1] + digits[k]]
           S == {n \in Nat : \E v : Upto(n, v)}
<1>1. ASSUME NEW n \in Nat, \A m \in 0..n - 1 : m \in S
      PROVE  n \in S
  <2>1. CASE n = 0
    <3>1. Upto(0, [k \in 0..0 |-> 0])
      OBVIOUS
    <3> QED
      BY <2>1, <3>1
  <2>2. CASE n # 0
    <3>1. n - 1 \in Nat /\ n - 1 \in 0..n - 1
      BY <2>2
    <3>2. PICK v : Upto(n - 1, v)
      <4> HIDE DEF Upto
      <4> QED
        BY <1>1, <3>1
    <3> DEFINE w == [k \in 0..n |-> IF k = n THEN base * v[n - 1] + digits[n]
                                   ELSE v[k]]
    <3>3. /\ DOMAIN w = 0..n /\ w[n] = base * v[n - 1] + digits[n]
          /\ \A k \in 0..n - 1 : w[k] = v[k]
      OBVIOUS
    <3>4. \A k \in 0..n - 1 :
             v[k] = IF k = 0 THEN 0 ELSE base * v[k - 1] + digits[k]
      BY <3>1, <3>2
    <3>5. w = [k \in 0..n |-> w[k]]
      OBVIOUS
    <3> HIDE DEF w
    <3>6. ASSUME NEW k \in 0..n
          PROVE  w[k] = IF k = 0 THEN 0 ELSE base * w[k - 1] + digits[k]
      <4>1. CASE k = n
        BY <2>2, <3>3, <4>1
      <4>2. CASE k # n
        <5>1. k \in 0..n - 1 /\ (k # 0 => k - 1 \in 0..n - 1)
          BY <4>2
        <5> QED
          BY <3>3, <3>4, <5>1
      <4> QED
        BY <4>1, <4>2
    <3>7. Upto(n, w)
      BY <3>5, <3>6
    <3> QED
      BY <3>7
  <2> QED
    BY <2>1, <2>2
<1>2. S = Nat
  <2> HIDE DEF Upto
  <2>1. S \in SUBSET Nat
    OBVIOUS
  <2> HIDE DEF S
  <2> QED
    BY <1>1, <2>1, SetInduction
<1>3. Len(digits) \in Nat
  OBVIOUS
<1>4. PICK v : Upto(Len(digits), v)
  BY <1>2, <1>3
<1> QED
  BY <1>4 DEF Loop

\* What makes the steps of the loop comes to what it comes to.
LEMMA LoopUnique ==
    ASSUME NEW base \in Nat, NEW digits \in Seq(Nat), NEW w, w[0] = 0,
           \A k \in 1..Len(digits) : w[k] = base * w[k - 1] + digits[k]
    PROVE  Valued(base, digits) = w[Len(digits)]
<1> DEFINE v == CHOOSE f : Loop(base, digits, f)
<1>1. Valued(base, digits) = v[Len(digits)]
  BY Zenon DEF Valued, Loop
<1>2. Loop(base, digits, v)
  BY LoopExists, Zenon
<1> HIDE DEF v
<1>3. /\ Len(digits) \in Nat /\ v[0] = 0
      /\ \A k \in 1..Len(digits) : v[k] = base * v[k - 1] + digits[k]
  BY <1>2, LoopValues
<1> DEFINE S == {n \in Nat : n <= Len(digits) => v[n] = w[n]}
<1>4. ASSUME NEW n \in Nat, \A m \in 0..n - 1 : m \in S
      PROVE  n \in S
  <2> SUFFICES ASSUME n <= Len(digits) PROVE v[n] = w[n]
    OBVIOUS
  <2>1. CASE n = 0
    BY <1>3, <2>1
  <2>2. CASE n # 0
    <3>1. n \in 1..Len(digits) /\ n - 1 \in 0..n - 1 /\ n - 1 \in Nat
      BY <1>3, <2>2
    <3>2. v[n - 1] = w[n - 1]
      BY <1>3, <1>4, <3>1
    <3> QED
      BY <1>3, <3>1, <3>2
  <2> QED
    BY <2>1, <2>2
<1>5. S = Nat
  <2>1. S \in SUBSET Nat
    OBVIOUS
  <2> HIDE DEF S
  <2> QED
    BY <1>4, <2>1, SetInduction
<1> QED
  BY <1>1, <1>3, <1>5

\* Valued is the last value of the loop it is defined by.
LEMMA LoopRuns ==
    ASSUME NEW base \in Nat, NEW digits \in Seq(Nat)
    PROVE  \E v : /\ v[0] = 0
                  /\ \A k \in 1..Len(digits) :
                        v[k] = base * v[k - 1] + digits[k]
                  /\ v[Len(digits)] = Valued(base, digits)
<1>1. PICK v : Loop(base, digits, v)
  BY LoopExists
<1>2. /\ v[0] = 0
      /\ \A k \in 1..Len(digits) : v[k] = base * v[k - 1] + digits[k]
  BY <1>1, LoopValues
<1>3. v[Len(digits)] = Valued(base, digits)
  BY <1>2, LoopUnique
<1> QED
  BY <1>2, <1>3

\* One digit more at the end.
LEMMA ValuedAppend ==
    ASSUME NEW base \in Nat, NEW digits \in Seq(Nat), NEW d \in Nat
    PROVE  Valued(base, Append(digits, d)) = base * Valued(base, digits) + d
<1> DEFINE l == Len(digits)
           longer == Append(digits, d)
<1>1. /\ longer \in Seq(Nat) /\ Len(longer) = l + 1 /\ longer[l + 1] = d
      /\ \A k \in 1..l : longer[k] = digits[k]
      /\ l \in Nat
  OBVIOUS
<1>2. PICK v : /\ v[0] = 0
               /\ \A k \in 1..l : v[k] = base * v[k - 1] + digits[k]
               /\ v[l] = Valued(base, digits)
  BY LoopRuns
<1> HIDE DEF l, longer
<1> DEFINE w == [k \in 0..l + 1 |-> IF k = l + 1 THEN base * v[l] + d ELSE v[k]]
<1>3. w[l + 1] = base * v[l] + d /\ \A k \in 0..l : w[k] = v[k]
  BY <1>1
<1> HIDE DEF w
<1>4. w[0] = 0
  BY <1>1, <1>2, <1>3
<1>5. ASSUME NEW k \in 1..l + 1
      PROVE  w[k] = base * w[k - 1] + longer[k]
  <2>1. CASE k = l + 1
    <3>1. k - 1 = l /\ l \in 0..l
      BY <1>1, <2>1
    <3> QED
      BY <1>1, <1>3, <2>1, <3>1
  <2>2. CASE k # l + 1
    <3>1. k \in 1..l /\ k \in 0..l /\ k - 1 \in 0..l
      BY <1>1, <2>2
    <3> QED
      BY <1>1, <1>2, <1>3, <3>1
  <2> QED
    BY <2>1, <2>2
<1>6. Valued(base, longer) = w[l + 1]
  <2>1. /\ w[0] = 0
        /\ \A k \in 1..Len(longer) : w[k] = base * w[k - 1] + longer[k]
    BY <1>1, <1>4, <1>5
  <2>2. Valued(base, longer) = w[Len(longer)]
    BY <1>1, <2>1, LoopUnique, Zenon
  <2> QED
    BY <1>1, <2>2
<1> QED
  BY <1>2, <1>3, <1>6 DEF longer

\* A leading zero changes nothing.
LEMMA ValuedZeroFirst ==
    ASSUME NEW base \in Nat, NEW digits \in Seq(Nat)
    PROVE  Valued(base, <<0>> \o digits) = Valued(base, digits)
<1> DEFINE l == Len(digits)
           longer == <<0>> \o digits
<1>1. /\ longer \in Seq(Nat) /\ Len(longer) = l + 1 /\ longer[1] = 0
      /\ \A k \in 2..l + 1 : longer[k] = digits[k - 1]
      /\ l \in Nat
  <2>1. <<0>> \in Seq(Nat) /\ Len(<<0>>) = 1 /\ <<0>>[1] = 0
    OBVIOUS
  <2> QED
    BY <2>1, ConcatProperties
<1>2. PICK v : /\ v[0] = 0
               /\ \A k \in 1..l : v[k] = base * v[k - 1] + digits[k]
               /\ v[l] = Valued(base, digits)
  BY LoopRuns
<1> HIDE DEF l, longer
<1> DEFINE w == [k \in 0..l + 1 |-> IF k = 0 THEN 0 ELSE v[k - 1]]
<1>3. w[0] = 0 /\ \A k \in 1..l + 1 : w[k] = v[k - 1]
  BY <1>1
<1> HIDE DEF w
<1>4. ASSUME NEW k \in 1..l + 1
      PROVE  w[k] = base * w[k - 1] + longer[k]
  <2>1. CASE k = 1
    <3>1. w[1] = v[0] /\ 1 - 1 = 0
      BY <1>1, <1>3
    <3> QED
      BY <1>1, <1>2, <1>3, <2>1, <3>1
  <2>2. CASE k # 1
    <3>1. k \in 2..l + 1 /\ k - 1 \in 1..l /\ k - 1 \in 1..l + 1
      BY <1>1, <2>2
    <3>2. w[k] = v[k - 1] /\ w[k - 1] = v[(k - 1) - 1]
          /\ longer[k] = digits[k - 1]
      BY <1>1, <1>3, <3>1
    <3> QED
      BY <1>2, <3>1, <3>2
  <2> QED
    BY <2>1, <2>2
<1>5. Valued(base, longer) = w[l + 1]
  <2>1. /\ w[0] = 0
        /\ \A k \in 1..Len(longer) : w[k] = base * w[k - 1] + longer[k]
    BY <1>1, <1>3, <1>4
  <2>2. Valued(base, longer) = w[Len(longer)]
    BY <1>1, <2>1, LoopUnique, Zenon
  <2> QED
    BY <1>1, <2>2
<1>6. w[l + 1] = v[l]
  BY <1>1, <1>3
<1> QED
  BY <1>2, <1>5, <1>6 DEF longer

\* One digit stands for itself.
LEMMA ValuedOne ==
    ASSUME NEW base \in Nat, NEW d \in Nat
    PROVE  Valued(base, <<d>>) = d
<1>1. <<d>> \in Seq(Nat) /\ Len(<<d>>) = 1 /\ <<d>>[1] = d
  OBVIOUS
<1>2. PICK v : /\ v[0] = 0
               /\ \A k \in 1..1 : v[k] = base * v[k - 1] + <<d>>[k]
               /\ v[1] = Valued(base, <<d>>)
  BY <1>1, LoopRuns
<1>3. v[1] = base * v[0] + d
  BY <1>1, <1>2
<1> QED
  BY <1>2, <1>3

-----------------------------------------------------------------------------
(* Writing.                                                                *)

\* Division with remainder, in the bases hex.go uses.
LEMMA Division ==
    ASSUME NEW base \in Bases, NEW n \in Nat
    PROVE  /\ n \div base \in Nat
           /\ n % base \in 0..base - 1
           /\ n = (base * (n \div base)) + (n % base)
           /\ n >= base => n \div base \in 1..n - 1
<1>1. CASE base = 10
  BY <1>1
<1>2. CASE base = 16
  BY <1>2
<1> QED
  BY <1>1, <1>2 DEF Bases

\* The equation of Digits, for the numbers up to n.
Row(base, d, m) == IF m < base THEN <<m>> ELSE Append(d[m \div base], m % base)
Table(base, n, d) == d = [m \in 0..n |-> Row(base, d, m)]

\* The two cases of a row.
LEMMA Rows ==
    ASSUME NEW base, NEW d, NEW m
    PROVE  /\ m < base => Row(base, d, m) = <<m>>
           /\ ~ (m < base) => Row(base, d, m) = Append(d[m \div base], m % base)
BY Zenon DEF Row

\* A row depends on those above it only.
LEMMA SameRow ==
    ASSUME NEW base \in Bases, NEW m \in Nat, NEW d, NEW w,
           \A l \in 0..m - 1 : d[l] = w[l]
    PROVE  Row(base, d, m) = Row(base, w, m)
<1>1. CASE m < base
  BY <1>1, Rows, Zenon
<1>2. CASE ~ (m < base)
  <2>1. m \div base \in 0..m - 1
    BY <1>2, Division DEF Bases
  <2>2. d[m \div base] = w[m \div base]
    BY <2>1
  <2> QED
    BY <1>2, <2>2, Rows, Zenon
<1> QED
  BY <1>1, <1>2

\* The rows up to any number exist.
LEMMA TableExists ==
    ASSUME NEW base \in Bases, NEW n \in Nat
    PROVE  \E d : Table(base, n, d)
<1> DEFINE S == {l \in Nat : \E d : Table(base, l, d)}
<1>1. ASSUME NEW l \in Nat, \A m \in 0..l - 1 : m \in S
      PROVE  l \in S
  <2>1. \E d : \A m \in 0..l - 1 : d[m] = Row(base, d, m)
    <3>1. CASE l = 0
      BY <3>1
    <3>2. CASE l # 0
      <4>1. l - 1 \in 0..l - 1
        BY <3>2
      <4>2. PICK d : Table(base, l - 1, d)
        BY <1>1, <4>1
      <4> QED
        BY <4>2 DEF Table
    <3> QED
      BY <3>1, <3>2
  <2>2. PICK d : \A m \in 0..l - 1 : d[m] = Row(base, d, m)
    BY <2>1
  <2> DEFINE w == [m \in 0..l |-> Row(base, d, m)]
  <2>3. \A m \in 0..l : w[m] = Row(base, d, m)
    OBVIOUS
  <2>4. \A m \in 0..l - 1 : d[m] = w[m]
    BY <2>2
  <2> HIDE DEF w
  <2>5. ASSUME NEW m \in 0..l
        PROVE  Row(base, d, m) = Row(base, w, m)
    <3>1. m \in Nat /\ \A k \in 0..m - 1 : d[k] = w[k]
      BY <2>4
    <3> QED
      BY <3>1, SameRow
  <2>6. w = [m \in 0..l |-> Row(base, w, m)]
    BY <2>5 DEF w
  <2> QED
    BY <2>6 DEF Table
<1>2. S = Nat
  <2>1. S \in SUBSET Nat
    OBVIOUS
  <2> HIDE DEF S
  <2> QED
    BY <1>1, <2>1, SetInduction
<1> QED
  BY <1>2

\* Whatever has these rows is the table of Digits.
LEMMA TableUnique ==
    ASSUME NEW base \in Bases, NEW n \in Nat, NEW w,
           \A m \in 0..n : w[m] = Row(base, w, m)
    PROVE  Digits(base, n) = w[n]
<1> DEFINE d == CHOOSE f : Table(base, n, f)
<1>1. Digits(base, n) = d[n]
  BY Zenon DEF Digits, Table, Row
<1>2. Table(base, n, d)
  BY TableExists, Zenon
<1> HIDE DEF d
<1>3. \A m \in 0..n : d[m] = Row(base, d, m)
  BY <1>2 DEF Table
<1> DEFINE S == {m \in Nat : m <= n => d[m] = w[m]}
<1>4. ASSUME NEW m \in Nat, \A l \in 0..m - 1 : l \in S
      PROVE  m \in S
  <2> SUFFICES ASSUME m <= n PROVE d[m] = w[m]
    OBVIOUS
  <2>1. \A l \in 0..m - 1 : d[l] = w[l]
    BY <1>4
  <2>2. Row(base, d, m) = Row(base, w, m)
    BY <2>1, SameRow
  <2>3. m \in 0..n
    OBVIOUS
  <2> QED
    BY <1>3, <2>2, <2>3
<1>5. S = Nat
  <2>1. S \in SUBSET Nat
    OBVIOUS
  <2> HIDE DEF S
  <2> QED
    BY <1>4, <2>1, SetInduction
<1> QED
  BY <1>1, <1>5

\* The last digit is the remainder, the others are the quotient's.
LEMMA DigitsStep ==
    ASSUME NEW base \in Bases, NEW n \in Nat
    PROVE  /\ n < base => Digits(base, n) = <<n>>
           /\ ~ (n < base) =>
                 Digits(base, n) = Append(Digits(base, n \div base), n % base)
<1>1. PICK d : Table(base, n, d)
  BY TableExists
<1>2. \A m \in 0..n : d[m] = Row(base, d, m)
  BY <1>1 DEF Table
<1>3. Digits(base, n) = d[n] /\ d[n] = Row(base, d, n)
  BY <1>2, TableUnique
<1>4. CASE n < base
  BY <1>3, <1>4, Rows, Zenon
<1>5. CASE ~ (n < base)
  <2>1. n \div base \in 1..n - 1
    BY <1>5, Division DEF Bases
  <2>2. n \div base \in Nat /\ \A m \in 0..n \div base : d[m] = Row(base, d, m)
    <3> DEFINE q == n \div base
    <3>1. q \in 1..n - 1
      BY <2>1
    <3> HIDE DEF q
    <3>2. q \in Nat /\ \A m \in 0..q : d[m] = Row(base, d, m)
      BY <1>2, <3>1
    <3> QED
      BY <3>2 DEF q
  <2>3. Digits(base, n \div base) = d[n \div base]
    BY <2>2, TableUnique
  <2> QED
    BY <1>3, <1>5, <2>3, Rows, Zenon
<1> QED
  BY <1>4, <1>5

-----------------------------------------------------------------------------
\* What is written for n is digits of the base, the first no zero unless it is
\* the only one, and is read as n.
THEOREM ReadingUndoesWriting ==
    ASSUME NEW base \in Bases, NEW n \in Nat
    PROVE  /\ Digits(base, n) \in Seq(0..base - 1)
           /\ Digits(base, n) # <<>>
           /\ Len(Digits(base, n)) > 1 => Digits(base, n)[1] # 0
           /\ Valued(base, Digits(base, n)) = n
<1> DEFINE Good(m) ==
               /\ Digits(base, m) \in Seq(0..base - 1)
               /\ Digits(base, m) # <<>>
               /\ Digits(base, m)[1] = 0 => m = 0
               /\ Valued(base, Digits(base, m)) = m
           S == {m \in Nat : Good(m)}
<1>1. base \in Nat /\ base > 1
  BY DEF Bases
<1>2. ASSUME NEW m \in Nat, \A l \in 0..m - 1 : l \in S
      PROVE  m \in S
  <2>1. CASE m < base
    <3>1. Digits(base, m) = <<m>>
      BY <2>1, DigitsStep
    <3>2. /\ <<m>> \in Seq(0..base - 1) /\ <<m>> # <<>> /\ <<m>>[1] = m
      BY <1>1, <2>1
    <3>3. Valued(base, <<m>>) = m
      BY <1>1, ValuedOne
    <3> QED
      BY <3>1, <3>2, <3>3
  <2>2. CASE m >= base
    <3> DEFINE q == m \div base
               r == m % base
               s == Digits(base, q)
    <3>1. q \in 1..m - 1 /\ r \in 0..base - 1 /\ m = (base * q) + r
      BY <2>2, Division
    <3>2. Digits(base, m) = Append(s, r)
      <4>1. ~ (m < base)
        BY <1>1, <2>2
      <4> QED
        BY <4>1, DigitsStep, Zenon
    <3>3. Good(q)
      BY <1>2, <3>1
    <3> HIDE DEF q, r, s
    <3>4. /\ s \in Seq(0..base - 1) /\ s # <<>> /\ s[1] # 0
          /\ Valued(base, s) = q
      BY <3>1, <3>3 DEF s
    <3>5. /\ Append(s, r) \in Seq(0..base - 1) /\ Append(s, r) # <<>>
          /\ Append(s, r)[1] = s[1]
      BY <1>1, <3>1, <3>4
    <3>6. Valued(base, Append(s, r)) = (base * q) + r
      <4>1. s \in Seq(Nat) /\ r \in Nat
        BY <1>1, <3>1, <3>4
      <4> QED
        BY <1>1, <3>4, <4>1, ValuedAppend
    <3> QED
      BY <3>1, <3>2, <3>4, <3>5, <3>6
  <2> QED
    BY <1>1, <2>1, <2>2
<1>3. S = Nat
  <2>1. S \in SUBSET Nat
    OBVIOUS
  <2> HIDE DEF S
  <2> QED
    BY <1>2, <2>1, SetInduction
<1>4. Good(n)
  BY <1>3
<1>5. n = 0 => Digits(base, n) = <<n>>
  BY <1>1, DigitsStep
<1>6. Len(<<n>>) = 1
  OBVIOUS
<1> QED
  BY <1>4, <1>5, <1>6
=============================================================================
