--------------------------- MODULE EncodingProofs ---------------------------
(***************************************************************************)
(* What the generated code writes it counts and reads, for every integer,  *)
(* every field and every message: sovMetapb against encodeVarintMetapb,    *)
(* a term of Size against a block of MarshalTo, a block against the reader *)
(* of its field and skipMetapb, and from these Size against MarshalTo of   *)
(* whole messages, however deep they are nested.                           *)
(*                                                                         *)
(* Size and MarshalTo of the message in a field are the parameters SizeOf  *)
(* and BytesOf.  Induction is over sets of numbers: a set of naturals that *)
(* is not empty has a least member.                                        *)
(***************************************************************************)
EXTENDS Encoding, SequenceTheorems, WellFoundedInduction, TLAPS

\* A set of naturals that is not empty has a least member.
LEMMA Least ==
  ASSUME NEW T \in SUBSET Nat, T # {}
  PROVE  \E x \in T : \A y \in T : x <= y
<1> DEFINE R == {ss \in Nat \X Nat : ss[1] < ss[2]}
<1>1. IsWellFoundedOn(R, Nat)
  BY NatLessThanWellFounded DEF OpToRel
<1>2. \E x \in T : \A y \in T : ~ (<<y, x>> \in R)
  <2> HIDE DEF R
  <2> QED BY <1>1, WFMin
<1>3. \A x, y \in Nat : <<y, x>> \in R <=> y < x
  OBVIOUS
<1> HIDE DEF R
<1>4. PICK x \in T : \A y \in T : ~ (<<y, x>> \in R)
  BY <1>2
<1>5. ASSUME NEW y \in T PROVE x <= y
  <2>1. x \in Nat /\ y \in Nat
    OBVIOUS
  <2>2. ~ (y < x)
    BY <1>3, <1>4, <2>1
  <2> QED
    BY <2>1, <2>2
<1> QED
  BY <1>5

\* Induction, for the numbers with a property as a set.
LEMMA SetInduction ==
  ASSUME NEW S \in SUBSET Nat, 0 \in S, \A n \in S : n + 1 \in S
  PROVE  \A n \in Nat : n \in S
<1> SUFFICES ASSUME Nat \ S # {} PROVE FALSE
  OBVIOUS
<1>1. PICK x \in Nat \ S : \A y \in Nat \ S : x <= y
  BY Least
<1>2. x # 0 /\ x - 1 \in Nat
  BY <1>1
<1>3. x - 1 \in S
  BY <1>1, <1>2
<1> QED
  BY <1>1, <1>2, <1>3

-----------------------------------------------------------------------------
(* Varints.                                                                *)

\* A byte and its low seven bits.
Byte == 0..255
Septet == 0..127

\* n < 2^63: nine turns of the loop are enough.  The integers of int64.
Fits(n) == n \in Nat /\ Turns(n)[9] < 128
Int64 == {v \in Int : IF v >= 0 THEN Fits(v) ELSE Fits(-v - 1)}

\* A turn divides by 128.
LEMMA TurnsFacts ==
  ASSUME NEW n \in Nat
  PROVE  /\ Turns(n)[1] = n
         /\ \A k \in 1..9 : Turns(n)[k] \in Nat
         /\ \A k \in 1..8 : Turns(n)[k + 1] = Turns(n)[k] \div 128
<1>1. \A x \in Nat : x \div 128 \in Nat
  OBVIOUS
<1> DEFINE v1 == n \div 128
           v2 == v1 \div 128
           v3 == v2 \div 128
           v4 == v3 \div 128
           v5 == v4 \div 128
           v6 == v5 \div 128
           v7 == v6 \div 128
           v8 == v7 \div 128
<1>2. v1 \in Nat /\ v2 \in Nat /\ v3 \in Nat /\ v4 \in Nat
  BY <1>1
<1>3. v5 \in Nat /\ v6 \in Nat /\ v7 \in Nat /\ v8 \in Nat
  BY <1>1, <1>2
<1>4. /\ v2 = v1 \div 128 /\ v3 = v2 \div 128 /\ v4 = v3 \div 128 /\ v5 = v4 \div 128
      /\ v6 = v5 \div 128 /\ v7 = v6 \div 128 /\ v8 = v7 \div 128 /\ v1 = n \div 128
  OBVIOUS
<1> HIDE DEF v1, v2, v3, v4, v5, v6, v7, v8
<1> DEFINE t == <<n, v1, v2, v3, v4, v5, v6, v7, v8>>
           Def(v) == v = [k \in 1..9 |-> IF k = 1 THEN n ELSE v[k - 1] \div 128]
<1>5. \A k \in 1..8 : t[k + 1] = t[k] \div 128
  <2>1. /\ t[1] = n /\ t[2] = v1 /\ t[3] = v2 /\ t[4] = v3 /\ t[5] = v4
        /\ t[6] = v5 /\ t[7] = v6 /\ t[8] = v7 /\ t[9] = v8
    OBVIOUS
  <2> HIDE DEF t
  <2>2. /\ t[2] = t[1] \div 128 /\ t[3] = t[2] \div 128
        /\ t[4] = t[3] \div 128 /\ t[5] = t[4] \div 128
    BY <1>4, <2>1, Zenon
  <2>3. /\ t[6] = t[5] \div 128 /\ t[7] = t[6] \div 128
        /\ t[8] = t[7] \div 128 /\ t[9] = t[8] \div 128
    BY <1>4, <2>1, Zenon
  <2> TAKE k \in 1..8
  <2>4. CASE k \in 1..4
    <3>1. k = 1 \/ k = 2 \/ k = 3 \/ k = 4
      BY <2>4
    <3> QED
      BY <2>2, <3>1
  <2>5. CASE k \in 5..8
    <3>1. k = 5 \/ k = 6 \/ k = 7 \/ k = 8
      BY <2>5
    <3> QED
      BY <2>3, <3>1
  <2> QED
    BY <2>4, <2>5
<1>6. /\ t = [k \in 1..9 |-> t[k]]
      /\ t[1] = n
  OBVIOUS
<1>7. Def(t)
  <2> HIDE DEF t
  <2>1. \A k \in 1..9 : t[k] = IF k = 1 THEN n ELSE t[k - 1] \div 128
    <3> TAKE k \in 1..9
    <3>1. CASE k = 1
      BY <1>6, <3>1
    <3>2. CASE k # 1
      <4>1. k - 1 \in 1..8 /\ (k - 1) + 1 = k
        BY <3>2
      <4> QED
        BY <1>5, <3>2, <4>1
    <3> QED
      BY <3>1, <3>2
  <2> QED
    BY <1>6, <2>1
<1>8. Turns(n) = CHOOSE v : Def(v)
  BY DEF Turns
<1>9. Def(Turns(n))
  <2> HIDE DEF Def
  <2> QED
    BY <1>7, <1>8
<1> DEFINE T == Turns(n)
<1>10. \A k \in 1..9 : T[k] = IF k = 1 THEN n ELSE T[k - 1] \div 128
  <2> HIDE DEF T
  <2> QED
    BY <1>9 DEF T
<1> HIDE DEF T
<1>11. /\ T[1] = n
       /\ \A k \in 1..8 : T[k + 1] = T[k] \div 128
  <2>1. 1 \in 1..9 /\ \A k \in 1..8 : k + 1 \in 1..9 /\ k + 1 # 1 /\ (k + 1) - 1 = k
    OBVIOUS
  <2> QED
    BY <1>10, <2>1
<1>12. \A k \in 1..9 : T[k] \in Nat
  <2>1. T[1] \in Nat /\ T[2] \in Nat /\ T[3] \in Nat /\ T[4] \in Nat /\ T[5] \in Nat
    <3>1. 1 + 1 = 2 /\ 2 + 1 = 3 /\ 3 + 1 = 4 /\ 4 + 1 = 5
      OBVIOUS
    <3> QED
      BY <1>1, <1>11, <3>1
  <2>2. T[6] \in Nat /\ T[7] \in Nat /\ T[8] \in Nat /\ T[9] \in Nat
    <3>1. 5 + 1 = 6 /\ 6 + 1 = 7 /\ 7 + 1 = 8 /\ 8 + 1 = 9
      OBVIOUS
    <3> QED
      BY <1>1, <1>11, <2>1, <3>1
  <2>3. \A k \in 1..9 : k \in 1..4 \/ k \in 5..9
    OBVIOUS
  <2>4. /\ \A k \in 1..4 : k = 1 \/ k = 2 \/ k = 3 \/ k = 4
        /\ \A k \in 5..9 : k = 5 \/ k = 6 \/ k = 7 \/ k = 8 \/ k = 9
    OBVIOUS
  <2> QED
    BY <2>1, <2>2, <2>3, <2>4, Zenon
<1> QED
  BY <1>11, <1>12 DEF T

\* The loop ends in the first turn below 1 << 7.
LEMMA WidthFacts ==
  ASSUME NEW n, Fits(n)
  PROVE  /\ Width(Turns(n)) \in 1..9 /\ Turns(n)[Width(Turns(n))] < 128
         /\ \A j \in 1..(Width(Turns(n)) - 1) : Turns(n)[j] >= 128
<1> DEFINE vs == Turns(n)
           T == {k \in 1..9 : vs[k] < 128}
<1>1. \A k \in 1..9 : vs[k] \in Nat
  BY TurnsFacts DEF Fits
<1>2. 9 \in T
  BY DEF Fits
<1>3. PICK k \in T : \A j \in T : k <= j
  BY <1>2, Least
<1>4. vs[k] < 128 /\ \A j \in 1..(k - 1) : vs[j] >= 128
  BY <1>1, <1>3
<1>5. \E w \in 1..9 : vs[w] < 128 /\ \A j \in 1..(w - 1) : vs[j] >= 128
  BY <1>4
<1> HIDE DEF vs
<1> QED
  BY <1>5 DEF Width, vs

\* The seven bits of a turn and the rest.
LEMMA DivMod ==
  ASSUME NEW x \in Nat
  PROVE  /\ x \div 128 \in Nat /\ x % 128 \in 0..127 /\ x = (x % 128) + 128 * (x \div 128)
         /\ x < 128 => x \div 128 = 0 /\ x % 128 = x
OBVIOUS

\* Behind the last turn of the loop nothing is left of n.
LEMMA NothingLeft ==
  ASSUME NEW n, Fits(n), NEW k \in 1..9, k > Width(Turns(n))
  PROVE  Turns(n)[k] = 0
<1> DEFINE vs == Turns(n)
           w == Width(vs)
           T == {j \in 1..9 : j > w /\ vs[j] # 0}
<1>1. /\ \A j \in 1..9 : vs[j] \in Nat
      /\ \A j \in 1..8 : vs[j + 1] = vs[j] \div 128
  BY TurnsFacts DEF Fits
<1>2. w \in 1..9 /\ vs[w] < 128
  BY WidthFacts
<1> HIDE DEF vs, w
<1>3. ASSUME T # {} PROVE FALSE
  <2>1. PICK j \in T : \A i \in T : j <= i
    BY <1>3, Least
  <2>2. j - 1 \in 1..8 /\ vs[(j - 1) + 1] = vs[j - 1] \div 128 /\ (j - 1) + 1 = j
    BY <1>1, <1>2, <2>1
  <2>3. vs[j - 1] < 128
    <3>1. CASE j - 1 = w
      BY <1>2, <3>1
    <3>2. CASE j - 1 # w
      <4>1. j - 1 \in 1..9 /\ j - 1 > w /\ j - 1 \notin T
        BY <1>2, <2>1, <2>2, <3>2
      <4>2. vs[j - 1] = 0
        BY <4>1
      <4> QED
        BY <4>2
    <3> QED
      BY <3>1, <3>2
  <2>4. vs[j] = 0
    <3>1. vs[j - 1] \in Nat
      BY <1>1, <2>2
    <3> QED
      BY <2>2, <2>3, <3>1, DivMod
  <2> QED
    BY <2>1, <2>4
<1> QED
  BY <1>3 DEF vs, w

\* Every septet up to the ninth, those that are not written being zero.
LEMMA SeptetsFacts ==
  ASSUME NEW n, Fits(n)
  PROVE  /\ Septets(n) \in Seq(Septet) /\ Len(Septets(n)) = Width(Turns(n))
         /\ Width(Turns(n)) \in 1..9
         /\ \A k \in 1..9 : At(Septets(n), k) = Turns(n)[k] % 128
<1> DEFINE vs == Turns(n)
           w == Width(vs)
<1>1. \A j \in 1..9 : vs[j] \in Nat
  BY TurnsFacts DEF Fits
<1>2. w \in 1..9
  BY WidthFacts
<1>3. Septets(n) = [k \in 1..w |-> vs[k] % 128]
  BY DEF Septets
<1>4. \A k \in 1..9 : k > w => vs[k] = 0
  BY NothingLeft
<1> HIDE DEF vs, w
<1>5. \A k \in 1..w : vs[k] % 128 \in Septet
  BY <1>1, <1>2, DivMod DEF Septet
<1>6. Septets(n) \in Seq(Septet) /\ Len(Septets(n)) = w
  BY <1>2, <1>3, <1>5
<1>7. ASSUME NEW k \in 1..9 PROVE At(Septets(n), k) = vs[k] % 128
  <2>1. CASE k <= w
    BY <1>2, <1>3, <1>6, <2>1 DEF At
  <2>2. CASE k > w
    <3>1. At(Septets(n), k) = 0
      BY <1>2, <1>6, <2>2 DEF At
    <3>2. vs[k] = 0 /\ 0 % 128 = 0
      BY <1>4, <2>2
    <3> QED
      BY <3>1, <3>2
  <2> QED
    BY <1>2, <2>1, <2>2
<1> QED
  BY <1>2, <1>6, <1>7 DEF vs, w

\* The septets of n add up to n.
LEMMA SeptetsValue ==
  ASSUME NEW n, Fits(n), NEW ds, \A k \in 1..9 : At(ds, k) = At(Septets(n), k)
  PROVE  Value(ds) = n
<1> DEFINE vs == Turns(n)
           a(k) == At(ds, k)
<1>1. /\ \A j \in 1..9 : vs[j] \in Nat
      /\ \A j \in 1..8 : vs[j + 1] = vs[j] \div 128
      /\ vs[1] = n /\ vs[9] < 128
  BY TurnsFacts DEF Fits
<1>2. \A k \in 1..9 : a(k) = vs[k] % 128
  BY SeptetsFacts
<1> HIDE DEF vs
<1>3. ASSUME NEW k \in 1..8 PROVE vs[k] = a(k) + 128 * vs[k + 1]
  <2>1. vs[k] \in Nat /\ a(k) = vs[k] % 128 /\ vs[k + 1] = vs[k] \div 128
    BY <1>1, <1>2
  <2>2. vs[k] = (vs[k] % 128) + 128 * (vs[k] \div 128)
    BY <2>1, DivMod
  <2> QED
    BY <2>1, <2>2
<1>4. vs[9] = a(9)
  BY <1>1, <1>2, DivMod
<1> DEFINE Def(g) == g = [k \in 1..10 |-> IF k = 10 THEN 0 ELSE a(k) + 128 * g[k + 1]]
           rest == [k \in 1..10 |-> IF k = 10 THEN 0 ELSE vs[k]]
           value == CHOOSE g : Def(g)
<1>5. Value(ds) = value[1]
  BY DEF Value
<1> HIDE DEF a
<1>6. /\ \A k \in 1..9 : rest[k] = vs[k]
      /\ rest[10] = 0 /\ rest = [k \in 1..10 |-> rest[k]]
  OBVIOUS
<1> HIDE DEF rest
<1>7. \A k \in 1..10 : rest[k] = IF k = 10 THEN 0 ELSE a(k) + 128 * rest[k + 1]
  <2> TAKE k \in 1..10
  <2>1. CASE k = 10
    BY <1>6, <2>1
  <2>2. CASE k = 9
    <3>1. rest[9] = a(9) + 128 * 0
      <4>1. rest[9] = a(9) /\ a(9) \in Nat
        BY <1>1, <1>4, <1>6
      <4> QED
        BY <4>1
    <3> QED
      BY <1>6, <2>2, <3>1
  <2>3. CASE k \in 1..8
    <3>1. rest[k] = vs[k] /\ rest[k + 1] = vs[k + 1]
      BY <1>6, <2>3
    <3> QED
      BY <1>3, <2>3, <3>1
  <2> QED
    BY <2>1, <2>2, <2>3
<1>8. Def(rest)
  BY <1>6, <1>7
<1>9. Def(value)
  <2> HIDE DEF Def
  <2> QED
    BY <1>8
<1> HIDE DEF value
<1>10. /\ value[10] = 0
       /\ \A k \in 1..9 : value[k] = a(k) + 128 * value[k + 1]
  BY <1>9
<1> HIDE DEF Def
<1> DEFINE T == {j \in 0..8 : value[9 - j] # vs[9 - j]}
<1>11. value[9] = vs[9]
  <2>1. value[9] = a(9) + 128 * value[10]
    BY <1>10
  <2> QED
    BY <1>1, <1>4, <1>10, <2>1
<1>12. ASSUME T # {} PROVE FALSE
  <2>1. PICK j \in T : \A i \in T : j <= i
    <3>1. T \in SUBSET Nat
      OBVIOUS
    <3> HIDE DEF T
    <3> QED
      BY <1>12, <3>1, Least
  <2>2. j \in 1..8
    BY <1>11, <2>1
  <2>3. j - 1 \in 0..8 /\ j - 1 \notin T
    BY <2>1, <2>2
  <2>4. value[9 - (j - 1)] = vs[9 - (j - 1)]
    BY <2>3
  <2>5. 9 - j \in 1..8 /\ (9 - j) + 1 = 9 - (j - 1)
    BY <2>2
  <2>6. /\ value[9 - j] = a(9 - j) + 128 * value[(9 - j) + 1]
        /\ vs[9 - j] = a(9 - j) + 128 * vs[(9 - j) + 1]
    BY <1>3, <1>10, <2>5
  <2> QED
    BY <2>1, <2>4, <2>5, <2>6
<1>13. value[9 - 8] = vs[9 - 8] /\ 9 - 8 = 1
  <2>1. 8 \in 0..8 /\ 9 - 8 = 1
    OBVIOUS
  <2>2. 8 \notin T
    <3> HIDE DEF T
    <3> QED
      BY <1>12, Zenon
  <2> QED
    BY <2>1, <2>2, Zenon
<1> QED
  BY <1>1, <1>5, <1>13

\* The complement of nine septets is negative, and that of the complement is themselves.
LEMMA ComplementFacts ==
  ASSUME NEW w \in 1..9, NEW ds \in Seq(Septet), Len(ds) = w, NEW c, c = Complement(ds)
  PROVE  /\ c \in Seq(Septet) /\ Len(c) = 10 /\ At(c, 10) % 2 = 1
         /\ \A k \in 1..9 : At(Complement(c), k) = At(ds, k)
<1>0. /\ \A x \in Septet : 127 - x \in Septet /\ 127 - (127 - x) = x
      /\ 0 \in Septet /\ 1 \in Septet
  BY DEF Septet
<1>1. \A k \in 1..Len(ds) : ds[k] \in Septet
  BY ElementOfSeq
<1>2. /\ \A k \in 1..10 : At(ds, k) \in Septet
      /\ At(ds, 10) = 0
  <2>1. \A k \in 1..10 : k <= Len(ds) => k \in 1..Len(ds)
    OBVIOUS
  <2>2. ~ (10 <= Len(ds))
    OBVIOUS
  <2> QED
    BY <1>0, <1>1, <2>1, <2>2 DEF At
<1>3. c = [k \in 1..10 |-> IF k = 10 THEN 1 - At(ds, k) ELSE 127 - At(ds, k)]
  BY DEF Complement
<1>4. /\ \A k \in 1..10 : c[k] \in Septet
      /\ \A k \in 1..9 : c[k] = 127 - At(ds, k)
      /\ c[10] = 1
  <2>1. c[10] = 1 - 0 /\ 1 - 0 = 1
    BY <1>2, <1>3
  <2>2. \A k \in 1..9 : k \in 1..10 /\ k # 10 /\ c[k] = 127 - At(ds, k)
    BY <1>3
  <2>3. \A k \in 1..9 : c[k] \in Septet
    BY <1>0, <1>2, <2>2
  <2>4. \A k \in 1..10 : k = 10 \/ k \in 1..9
    OBVIOUS
  <2> QED
    BY <1>0, <2>1, <2>2, <2>3, <2>4
<1>5. c \in Seq(Septet) /\ Len(c) = 10
  BY <1>3, <1>4
<1>6. Complement(c) = [k \in 1..10 |-> IF k = 10 THEN 1 - At(c, k) ELSE 127 - At(c, k)]
  BY DEF Complement
<1>7. \A k \in 1..10 : At(c, k) = c[k]
  BY <1>5 DEF At
<1>8. Len(Complement(c)) = 10
  BY <1>6
<1>9. ASSUME NEW k \in 1..9 PROVE At(Complement(c), k) = At(ds, k)
  <2>1. At(Complement(c), k) = Complement(c)[k]
    BY <1>8 DEF At
  <2>2. Complement(c)[k] = 127 - (127 - At(ds, k))
    BY <1>4, <1>6, <1>7
  <2>3. At(ds, k) \in Septet
    BY <1>2
  <2> QED
    BY <1>0, <2>1, <2>2, <2>3
<1>10. At(c, 10) % 2 = 1
  BY <1>4, <1>7
<1> QED
  BY <1>5, <1>9, <1>10

\* The septets of an int64, in two's complement for a negative one, are its
\* integer again.
LEMMA DigitsFacts ==
  ASSUME NEW v \in Int64
  PROVE  /\ Digits(v) \in Seq(Septet) /\ Number(Digits(v)) = v
         /\ \E w \in 1..10 : Len(Digits(v)) = w
         /\ Len(Digits(v)) = IF v >= 0 THEN Width(Turns(v)) ELSE 10
<1>1. v \in Int /\ IF v >= 0 THEN Fits(v) ELSE Fits(-v - 1)
  BY DEF Int64
<1>2. CASE v >= 0
  <2>1. Fits(v) /\ Digits(v) = Septets(v)
    BY <1>1, <1>2 DEF Digits
  <2>2. /\ Septets(v) \in Seq(Septet) /\ Len(Septets(v)) = Width(Turns(v))
        /\ Width(Turns(v)) \in 1..9
    BY <2>1, SeptetsFacts
  <2>3. Value(Septets(v)) = v
    BY <2>1, SeptetsValue
  <2>4. PICK w \in 1..9 : w = Width(Turns(v))
    BY <2>2
  <2>5. At(Septets(v), 10) = 0 /\ 0 % 2 = 0
    BY <2>2, <2>4 DEF At
  <2>6. Number(Septets(v)) = Value(Septets(v))
    BY <2>5 DEF Number
  <2>7. w \in 1..10
    OBVIOUS
  <2> QED
    BY <1>2, <2>1, <2>2, <2>3, <2>4, <2>6, <2>7
<1>3. CASE ~ (v >= 0)
  <2> DEFINE n == -v - 1
             ds == Septets(n)
             c == Complement(ds)
  <2>1. Fits(n) /\ Digits(v) = c
    BY <1>1, <1>3 DEF Digits
  <2>2. ds \in Seq(Septet) /\ Len(ds) = Width(Turns(n)) /\ Width(Turns(n)) \in 1..9
    BY <2>1, SeptetsFacts
  <2>3. /\ c \in Seq(Septet) /\ Len(c) = 10 /\ At(c, 10) % 2 = 1
        /\ \A k \in 1..9 : At(Complement(c), k) = At(ds, k)
    <3> HIDE DEF ds, c, n
    <3> QED
      BY <2>2, ComplementFacts DEF c
  <2>4. Value(Complement(c)) = n
    <3> HIDE DEF c, n
    <3> QED
      BY <2>1, <2>3, SeptetsValue
  <2>5. Number(c) = -n - 1
    <3> HIDE DEF c, n
    <3> QED
      BY <2>3, <2>4 DEF Number
  <2>6. -n - 1 = v
    BY <1>1
  <2>7. 10 \in 1..10
    OBVIOUS
  <2> HIDE DEF c, n
  <2> QED
    BY <1>3, <2>1, <2>3, <2>5, <2>6, <2>7
<1> QED
  BY <1>2, <1>3

\* Seven bits have a length from one to seven.
LEMMA Len7Range == \A d \in 0..127 : Len7(d) \in 1..7
<1> SUFFICES ASSUME NEW d \in 0..127 PROVE Len7(d) \in 1..7
  OBVIOUS
<1> DEFINE power == <<2, 4, 8, 16, 32, 64, 128>>
<1>1. /\ power[1] = 2 /\ power[2] = 4 /\ power[3] = 8 /\ power[4] = 16 /\ power[5] = 32
      /\ power[6] = 64 /\ power[7] = 128
  OBVIOUS
<1> HIDE DEF power
<1>2. \E k \in 1..7 : d < power[k] /\ (k > 1 => d >= power[k - 1])
  <2>1. CASE d < 2
    BY <1>1, <2>1
  <2>2. CASE d >= 2 /\ d < 4
    BY <1>1, <2>2
  <2>3. CASE d >= 4 /\ d < 8
    BY <1>1, <2>3
  <2>4. CASE d >= 8 /\ d < 16
    BY <1>1, <2>4
  <2>5. CASE d >= 16 /\ d < 32
    BY <1>1, <2>5
  <2>6. CASE d >= 32 /\ d < 64
    BY <1>1, <2>6
  <2>7. CASE d >= 64 /\ d < 128
    BY <1>1, <2>7
  <2> QED
    BY <2>1, <2>2, <2>3, <2>4, <2>5, <2>6, <2>7
<1>3. Len7(d) = CHOOSE k \in 1..7 : d < power[k] /\ (k > 1 => d >= power[k - 1])
  BY DEF Len7, power
<1> QED
  BY <1>2, <1>3

\* sovMetapb counts the bytes that encodeVarintMetapb writes, for every int64.
LEMMA SovCounts ==
  ASSUME NEW v \in Int64
  PROVE  sov(v) = Len(Digits(v))
<1>1. v \in Int /\ IF v >= 0 THEN Fits(v) ELSE Fits(-v - 1)
  BY DEF Int64
<1>2. CASE v >= 0
  <2>1. PICK w \in 1..9 : w = Width(Turns(v)) /\ Turns(v)[w] < 128 /\ Turns(v)[w] \in Nat
    BY <1>1, <1>2, WidthFacts, TurnsFacts DEF Fits
  <2>2. PICK l \in 1..7 : l = Len7(Turns(v)[w])
    <3>1. Turns(v)[w] \in 0..127
      BY <2>1
    <3> QED
      BY <3>1, Len7Range
  <2>3. Len64(v) = 7 * (w - 1) + l
    BY <1>1, <1>2, <2>1, <2>2 DEF Len64
  <2>4. sov(v) = (7 * (w - 1) + l + 6) \div 7
    BY <2>3 DEF sov
  <2>5. (7 * (w - 1) + l + 6) \div 7 = w
    OBVIOUS
  <2> QED
    BY <1>2, <2>1, <2>4, <2>5, DigitsFacts
<1>3. CASE ~ (v >= 0)
  <2>1. v < 0
    BY <1>1, <1>3
  <2>2. sov(v) = (64 + 6) \div 7
    BY <2>1 DEF sov, Len64
  <2>3. (64 + 6) \div 7 = 10
    OBVIOUS
  <2> QED
    BY <1>3, <2>2, <2>3, DigitsFacts
<1> QED
  BY <1>2, <1>3

-----------------------------------------------------------------------------
(* Reading what was written.                                               *)

\* The bytes s stand in b from index i on.
Stands(b, i, s) ==
    /\ i \in Nat \ {0}
    /\ i + Len(s) - 1 <= Len(b)
    /\ \A k \in 1..Len(s) : b[i + k - 1] = s[k]

\* All bytes of a varint but the last ask for another.
LEMMA EncodeFacts ==
  ASSUME NEW v \in Int64
  PROVE  /\ encodeVarint(v) \in Seq(Byte) /\ Len(encodeVarint(v)) = sov(v)
         /\ sov(v) \in 1..10 /\ Digits(v) \in Seq(Septet) /\ Len(Digits(v)) = sov(v)
         /\ \A k \in 1..sov(v) : /\ encodeVarint(v)[k] % 128 = Digits(v)[k]
                                 /\ encodeVarint(v)[k] < 128 <=> k = sov(v)
<1> DEFINE ds == Digits(v)
           e == encodeVarint(v)
<1>1. PICK w \in 1..10 : Len(ds) = w /\ w = sov(v)
  BY DigitsFacts, SovCounts
<1>2. ds \in Seq(Septet)
  BY DigitsFacts
<1>3. e = [k \in 1..w |-> ds[k] + (IF k < w THEN 128 ELSE 0)]
  BY <1>1 DEF encodeVarint
<1> HIDE DEF ds, e
<1>4. \A k \in 1..w : ds[k] \in Septet
  BY <1>1, <1>2, ElementOfSeq
<1>5. \A x \in Septet : /\ x + 128 \in Byte /\ x + 0 \in Byte
                        /\ (x + 128) % 128 = x /\ (x + 0) % 128 = x
                        /\ ~ (x + 128 < 128) /\ x + 0 < 128
  BY DEF Septet, Byte
<1>6. ASSUME NEW k \in 1..w
      PROVE  e[k] \in Byte /\ e[k] % 128 = ds[k] /\ (e[k] < 128 <=> k = w)
  <2>1. CASE k < w
    <3>1. e[k] = ds[k] + 128 /\ k # w
      BY <1>3, <2>1
    <3> QED
      BY <1>4, <1>5, <3>1
  <2>2. CASE k = w
    <3>1. e[k] = ds[k] + 0
      BY <1>3, <2>2
    <3> QED
      BY <1>4, <1>5, <2>2, <3>1
  <2> QED
    BY <2>1, <2>2
<1>7. e \in Seq(Byte) /\ Len(e) = w
  BY <1>3, <1>6
<1> QED
  BY <1>1, <1>2, <1>6, <1>7 DEF ds, e

\* What encodeVarintMetapb writes for an int64, negative or not, the loop of
\* every Unmarshal and of skipMetapb reads as the same int64, wherever it
\* stands in the data, and goes on sovMetapb bytes behind its start.
THEOREM VarintRead ==
  ASSUME NEW v \in Int64, NEW b \in Seq(Byte), NEW i, Stands(b, i, encodeVarint(v))
  PROVE  /\ ReadVarint(b, i) = [ok |-> TRUE, next |-> i + sov(v), ds |-> Digits(v)]
         /\ Number(Digits(v)) = v
<1> DEFINE e == encodeVarint(v)
           ds == Digits(v)
           ends == {j \in i..(i + 9) : j <= Len(b) /\ b[j] < 128}
           first == CHOOSE j \in ends : \A k \in ends : j <= k
<1>1. PICK w \in 1..10 : w = sov(v) /\ Len(e) = w /\ Len(ds) = w
  BY EncodeFacts
<1>2. /\ ds \in Seq(Septet)
      /\ \A k \in 1..w : e[k] % 128 = ds[k] /\ (e[k] < 128 <=> k = w)
  BY <1>1, EncodeFacts
<1>3. /\ i \in Nat /\ i >= 1 /\ i + w - 1 <= Len(b) /\ Len(b) \in Nat
      /\ \A k \in 1..w : b[i + k - 1] = e[k]
  BY <1>1 DEF Stands
<1> HIDE DEF e, ds
<1>4. i + w - 1 \in ends
  <2>1. w \in 1..w
    OBVIOUS
  <2>2. b[i + w - 1] < 128
    BY <1>2, <1>3, <2>1
  <2>3. i + w - 1 \in i..(i + 9)
    BY <1>3
  <2> QED
    BY <1>3, <2>2, <2>3
<1>5. ASSUME NEW j \in ends PROVE i + w - 1 <= j
  <2>1. j \in Int /\ j >= i /\ b[j] < 128
    BY <1>3
  <2>2. ASSUME j < i + w - 1 PROVE FALSE
    <3>1. j - i + 1 \in 1..w /\ j - i + 1 # w /\ i + (j - i + 1) - 1 = j
      BY <1>3, <2>1, <2>2
    <3>2. b[i + (j - i + 1) - 1] = e[j - i + 1] /\ ~ (e[j - i + 1] < 128)
      BY <1>2, <1>3, <3>1
    <3> QED
      BY <2>1, <3>1, <3>2
  <2> QED
    BY <1>3, <2>1, <2>2
<1>6. \A j \in ends : j \in Int
  BY <1>3
<1> HIDE DEF ends
<1>7. first = i + w - 1
  <2>1. first \in ends /\ \A k \in ends : first <= k
    BY <1>4, <1>5
  <2>2. first <= i + w - 1 /\ i + w - 1 <= first /\ first \in Int
    BY <1>4, <1>5, <1>6, <2>1
  <2> HIDE DEF first
  <2> QED
    BY <1>3, <2>2
<1>8. ReadVarint(b, i) = [ok |-> TRUE, next |-> first + 1,
                          ds |-> [k \in 1..(first - i + 1) |-> b[i + k - 1] % 128]]
  BY <1>4 DEF ReadVarint, ends
<1> HIDE DEF first
<1>9. first + 1 = i + w /\ first - i + 1 = w
  BY <1>3, <1>7
<1>10. [k \in 1..w |-> b[i + k - 1] % 128] = ds
  <2>1. \A k \in 1..w : b[i + k - 1] % 128 = ds[k]
    BY <1>2, <1>3
  <2>2. ds = [k \in 1..w |-> ds[k]]
    BY <1>1, <1>2
  <2> QED
    BY <2>1, <2>2
<1>11. ReadVarint(b, i) = [ok |-> TRUE, next |-> i + w, ds |-> ds]
  BY <1>8, <1>9, <1>10
<1> QED
  BY <1>1, <1>11, DigitsFacts DEF ds

\* Data that ends inside a varint is never taken for a shorter one: the loop
\* of Unmarshal runs into its end and returns io.ErrUnexpectedEOF.
THEOREM CutVarintFails ==
  ASSUME NEW v \in Int64, NEW b \in Seq(Byte), NEW i \in Nat \ {0},
         Len(b) < i + sov(v) - 1,
         \A k \in 1..sov(v) : i + k - 1 <= Len(b) => b[i + k - 1] = encodeVarint(v)[k]
  PROVE  ReadVarint(b, i) = NotRead
<1> DEFINE e == encodeVarint(v)
           ends == {j \in i..(i + 9) : j <= Len(b) /\ b[j] < 128}
<1>1. PICK w \in 1..10 : w = sov(v)
  BY EncodeFacts
<1>2. \A k \in 1..w : e[k] < 128 <=> k = w
  BY <1>1, EncodeFacts
<1>3. /\ Len(b) < i + w - 1 /\ Len(b) \in Nat
      /\ \A k \in 1..w : i + k - 1 <= Len(b) => b[i + k - 1] = e[k]
  BY <1>1
<1> HIDE DEF e
<1>4. ASSUME NEW j \in ends PROVE FALSE
  <2>1. j \in Int /\ j >= i /\ j <= Len(b) /\ b[j] < 128
    OBVIOUS
  <2>2. j - i + 1 \in 1..w /\ j - i + 1 # w /\ i + (j - i + 1) - 1 = j
    BY <1>3, <2>1
  <2>3. b[i + (j - i + 1) - 1] = e[j - i + 1]
    BY <1>3, <2>1, <2>2
  <2>4. ~ (e[j - i + 1] < 128)
    BY <1>2, <2>2
  <2> QED
    BY <2>1, <2>2, <2>3, <2>4
<1>5. ends = {}
  BY <1>4
<1> HIDE DEF ends
<1> QED
  BY <1>5 DEF ReadVarint, ends

-----------------------------------------------------------------------------
(* Fields.                                                                 *)

\* Two parts one behind the other, and a part as it is cut out.
LEMMA StandsConcat ==
  ASSUME NEW s \in Seq(Byte), NEW t \in Seq(Byte), NEW b \in Seq(Byte), NEW i,
         Stands(b, i, s \o t)
  PROVE  /\ Stands(b, i, s) /\ Stands(b, i + Len(s), t)
         /\ Len(s \o t) = Len(s) + Len(t)
<1> DEFINE st == s \o t
<1>1. /\ Len(s) \in Nat /\ Len(t) \in Nat /\ Len(b) \in Nat /\ Len(st) = Len(s) + Len(t)
      /\ \A k \in 1..Len(s) : st[k] = s[k]
      /\ \A k \in 1..Len(t) : st[Len(s) + k] = t[k]
  BY ConcatProperties
<1>2. /\ i \in Nat /\ i >= 1 /\ i + Len(st) - 1 <= Len(b)
      /\ \A k \in 1..Len(st) : b[i + k - 1] = st[k]
  BY DEF Stands
<1> HIDE DEF st
<1>3. \A k \in 1..Len(s) : k \in 1..Len(st)
  BY <1>1
<1>4. Stands(b, i, s)
  BY <1>1, <1>2, <1>3 DEF Stands
<1>5. ASSUME NEW k \in 1..Len(t) PROVE b[(i + Len(s)) + k - 1] = t[k]
  <2>1. Len(s) + k \in 1..Len(st) /\ i + (Len(s) + k) - 1 = (i + Len(s)) + k - 1
    BY <1>1, <1>2
  <2> QED
    BY <1>1, <1>2, <2>1
<1>6. Stands(b, i + Len(s), t)
  BY <1>1, <1>2, <1>5 DEF Stands
<1> QED
  BY <1>1, <1>4, <1>6 DEF st

LEMMA StandsSubSeq ==
  ASSUME NEW s \in Seq(Byte), NEW b \in Seq(Byte), NEW i, Stands(b, i, s)
  PROVE  SubSeq(b, i, i + Len(s) - 1) = s
<1>1. /\ i \in Nat /\ i >= 1 /\ i + Len(s) - 1 <= Len(b)
      /\ \A k \in 1..Len(s) : b[i + k - 1] = s[k]
  BY DEF Stands
<1>2. Len(s) \in Nat /\ Len(b) \in Nat
  OBVIOUS
<1> DEFINE sub == SubSeq(b, i, i + Len(s) - 1)
<1>3. /\ sub \in Seq(Byte) /\ Len(sub) = Len(s)
      /\ \A k \in 1..Len(s) : sub[k] = b[i + k - 1]
  BY <1>1, <1>2
<1> HIDE DEF sub
<1>4. \A k \in 1..Len(s) : sub[k] = s[k]
  BY <1>1, <1>3
<1> QED
  BY <1>3, <1>4, SeqEqual DEF sub

\* Numbers of up to 35 bits, the tags among them.
LEMMA SmallFits ==
  ASSUME NEW n \in Nat, n < 34359738368
  PROVE  n \in Int64
<1> DEFINE vs == Turns(n)
<1>1. /\ \A j \in 1..9 : vs[j] \in Nat
      /\ \A j \in 1..8 : vs[j + 1] = vs[j] \div 128
      /\ vs[1] = n
  BY TurnsFacts
<1> HIDE DEF vs
<1>2. /\ vs[2] = vs[1] \div 128 /\ vs[3] = vs[2] \div 128 /\ vs[4] = vs[3] \div 128
      /\ vs[5] = vs[4] \div 128 /\ vs[6] = vs[5] \div 128
  <2>1. 1 + 1 = 2 /\ 2 + 1 = 3 /\ 3 + 1 = 4 /\ 4 + 1 = 5 /\ 5 + 1 = 6
    OBVIOUS
  <2> QED
    BY <1>1, <2>1
<1>3. vs[7] = vs[6] \div 128 /\ vs[8] = vs[7] \div 128 /\ vs[9] = vs[8] \div 128
  <2>1. 6 + 1 = 7 /\ 7 + 1 = 8 /\ 8 + 1 = 9
    OBVIOUS
  <2> QED
    BY <1>1, <2>1
<1>4. vs[2] < 268435456 /\ vs[2] \in Nat
  BY <1>1, <1>2
<1>5. vs[3] < 2097152 /\ vs[3] \in Nat
  BY <1>1, <1>2, <1>4
<1>6. vs[4] < 16384 /\ vs[4] \in Nat
  BY <1>1, <1>2, <1>5
<1>7. vs[5] < 128 /\ vs[5] \in Nat
  BY <1>1, <1>2, <1>6
<1>8. vs[6] = 0
  BY <1>2, <1>7
<1>9. vs[9] = 0
  <2>1. 0 \div 128 = 0
    OBVIOUS
  <2> QED
    BY <1>3, <1>8, <2>1
<1>10. Fits(n)
  BY <1>9 DEF Fits, vs
<1> QED
  BY <1>10 DEF Int64

\* A number below 128 is its byte: the bools, and small tags.
LEMMA OneByte ==
  ASSUME NEW n \in 0..127
  PROVE  encodeVarint(n) = <<n>> /\ n \in Int64
<1>1. n \in Int64 /\ n \in Nat /\ n >= 0
  BY SmallFits
<1>2. Turns(n)[1] = n /\ Fits(n)
  BY <1>1, TurnsFacts DEF Int64
<1>3. PICK w \in 1..9 : /\ w = Width(Turns(n))
                        /\ \A j \in 1..(w - 1) : Turns(n)[j] >= 128
  BY <1>2, WidthFacts
<1>4. w = 1
  <2>1. ASSUME w # 1 PROVE FALSE
    <3>1. 1 \in 1..(w - 1)
      BY <2>1
    <3> QED
      BY <1>2, <1>3, <3>1
  <2> QED
    BY <2>1
<1>5. Septets(n) = [k \in 1..1 |-> Turns(n)[k] % 128]
  BY <1>3, <1>4 DEF Septets
<1>6. Septets(n) = <<n>>
  BY <1>2, <1>5
<1>7. Digits(n) = <<n>>
  BY <1>1, <1>6 DEF Digits
<1>8. encodeVarint(n) = <<n>>
  BY <1>7 DEF encodeVarint
<1> QED
  BY <1>1, <1>8

\* The wire type of a tag is in its first byte.
LEMMA TagSeptet ==
  ASSUME NEW n \in Int64, n >= 0
  PROVE  Digits(n)[1] % 8 = n % 8
<1>1. Fits(n) /\ n \in Nat /\ Digits(n) = Septets(n)
  BY DEF Int64, Digits
<1>2. /\ At(Septets(n), 1) = Turns(n)[1] % 128 /\ Turns(n)[1] = n
      /\ Len(Septets(n)) = Width(Turns(n)) /\ Width(Turns(n)) \in 1..9
  BY <1>1, SeptetsFacts, TurnsFacts
<1>3. PICK w \in 1..9 : w = Len(Septets(n))
  BY <1>2
<1>4. At(Septets(n), 1) = Septets(n)[1]
  BY <1>3 DEF At
<1>5. Digits(n)[1] = n % 128
  BY <1>1, <1>2, <1>4
<1>6. (n % 128) % 8 = n % 8
  BY <1>1
<1> QED
  BY <1>5, <1>6

\* A tag n and the number v.
LEMMA NumberField ==
  ASSUME NEW n \in Int64, NEW v \in Int64, NEW b \in Seq(Byte), NEW i,
         Stands(b, i, encodeVarint(n) \o encodeVarint(v)), n % 8 = 0, n >= 0
  PROVE  /\ ReadVarint(b, i) = [ok |-> TRUE, next |-> i + sov(n), ds |-> Digits(n)]
         /\ ReadValue(0, b, i + sov(n)) = [ok |-> TRUE, next |-> i + sov(n) + sov(v), v |-> v]
         /\ skipField(b, i) = i + sov(n) + sov(v)
<1>1. /\ encodeVarint(n) \in Seq(Byte) /\ encodeVarint(v) \in Seq(Byte)
      /\ Len(encodeVarint(n)) = sov(n)
  BY EncodeFacts
<1>2. Stands(b, i, encodeVarint(n)) /\ Stands(b, i + sov(n), encodeVarint(v))
  BY <1>1, StandsConcat
<1>3. /\ ReadVarint(b, i) = [ok |-> TRUE, next |-> i + sov(n), ds |-> Digits(n)]
      /\ Number(Digits(n)) = n
  BY <1>2, VarintRead
<1>4. /\ ReadVarint(b, i + sov(n)) =
           [ok |-> TRUE, next |-> i + sov(n) + sov(v), ds |-> Digits(v)]
      /\ Number(Digits(v)) = v
  BY <1>2, VarintRead
<1>5. ReadValue(0, b, i + sov(n)) = [ok |-> TRUE, next |-> i + sov(n) + sov(v), v |-> v]
  <2> DEFINE num == ReadVarint(b, i + sov(n))
  <2>1. num.ok /\ num.next = i + sov(n) + sov(v) /\ Number(num.ds) = v
    BY <1>4
  <2> HIDE DEF num
  <2>2. ReadValue(0, b, i + sov(n)) = [ok |-> TRUE, next |-> num.next, v |-> Number(num.ds)]
    BY <2>1, Zenon DEF ReadValue, Taken, num
  <2> QED
    BY <2>1, <2>2, Zenon
<1>6. Digits(n)[1] % 8 = 0
  BY TagSeptet
<1>7. skipField(b, i) = i + sov(n) + sov(v)
  BY <1>3, <1>4, <1>6 DEF skipField
<1> QED
  BY <1>3, <1>5, <1>7

\* A tag n, a length and so many bytes.
LEMMA BytesField ==
  ASSUME NEW n \in Int64, NEW x \in Seq(Byte), Len(x) \in Int64, NEW b \in Seq(Byte), NEW i,
         Stands(b, i, encodeVarint(n) \o (encodeVarint(Len(x)) \o x)), n % 8 = 2, n >= 0
  PROVE  /\ ReadVarint(b, i) = [ok |-> TRUE, next |-> i + sov(n), ds |-> Digits(n)]
         /\ ReadValue(2, b, i + sov(n)) =
              [ok |-> TRUE, next |-> i + sov(n) + sov(Len(x)) + Len(x), v |-> x]
         /\ skipField(b, i) = i + sov(n) + sov(Len(x)) + Len(x)
<1> DEFINE l == Len(x)
           tail == encodeVarint(l) \o x
<1>0. l \in Nat /\ l \in Int64
  OBVIOUS
<1>1. /\ encodeVarint(n) \in Seq(Byte) /\ encodeVarint(l) \in Seq(Byte) /\ tail \in Seq(Byte)
      /\ Len(encodeVarint(n)) = sov(n) /\ Len(encodeVarint(l)) = sov(l)
      /\ sov(n) \in Nat /\ sov(l) \in Nat /\ i \in Nat
  <2>1. /\ encodeVarint(n) \in Seq(Byte) /\ Len(encodeVarint(n)) = sov(n) /\ sov(n) \in 1..10
    BY EncodeFacts
  <2>2. /\ encodeVarint(l) \in Seq(Byte) /\ Len(encodeVarint(l)) = sov(l) /\ sov(l) \in 1..10
    BY <1>0, EncodeFacts
  <2>3. \A k \in 1..10 : k \in Nat
    OBVIOUS
  <2>4. i \in Nat
    BY DEF Stands
  <2> HIDE DEF l
  <2> QED
    BY <2>1, <2>2, <2>3, <2>4, ConcatProperties
<1>2. Stands(b, i, encodeVarint(n)) /\ Stands(b, i + sov(n), tail)
  BY <1>1, StandsConcat
<1>3. Stands(b, i + sov(n), encodeVarint(l)) /\ Stands(b, i + sov(n) + sov(l), x)
  BY <1>1, <1>2, StandsConcat
<1>4. /\ ReadVarint(b, i) = [ok |-> TRUE, next |-> i + sov(n), ds |-> Digits(n)]
      /\ Number(Digits(n)) = n
  BY <1>2, VarintRead
<1>5. /\ ReadVarint(b, i + sov(n)) =
           [ok |-> TRUE, next |-> i + sov(n) + sov(l), ds |-> Digits(l)]
      /\ Number(Digits(l)) = l
  BY <1>0, <1>3, VarintRead
<1>6. /\ i + sov(n) + sov(l) + l - 1 <= Len(b)
      /\ SubSeq(b, i + sov(n) + sov(l), i + sov(n) + sov(l) + l - 1) = x
  BY <1>3, StandsSubSeq DEF Stands
<1>7. ReadValue(2, b, i + sov(n)) =
        [ok |-> TRUE, next |-> i + sov(n) + sov(l) + l, v |-> x]
  <2> HIDE DEF l
  <2>1. ~ (l < 0) /\ ~ (i + sov(n) + sov(l) + l > Len(b) + 1)
    <3>1. Len(b) \in Nat
      OBVIOUS
    <3> QED
      BY <1>0, <1>1, <1>6, <3>1
  <2>2. 2 # 0
    OBVIOUS
  <2> DEFINE num == ReadVarint(b, i + sov(n))
             bad == Number(num.ds) < 0 \/ num.next + Number(num.ds) > Len(b) + 1
             whole == [ok |-> TRUE, next |-> num.next + Number(num.ds),
                       v |-> SubSeq(b, num.next, (num.next + Number(num.ds)) - 1)]
  <2>3. num.ok /\ num.next = i + sov(n) + sov(l) /\ Number(num.ds) = l
    BY <1>5
  <2>4. ReadValue(2, b, i + sov(n)) =
          IF ~num.ok THEN [ok |-> FALSE]
          ELSE IF 2 = 0 THEN [ok |-> TRUE, next |-> num.next, v |-> Number(num.ds)]
          ELSE IF bad THEN [ok |-> FALSE] ELSE whole
    BY Zenon DEF ReadValue, Taken
  <2>5. ~bad
    <3> HIDE DEF num
    <3> QED
      BY <2>1, <2>3
  <2>6. ReadValue(2, b, i + sov(n)) = whole
    <3> HIDE DEF num, bad, whole
    <3> QED
      BY <2>2, <2>3, <2>4, <2>5, Zenon
  <2> HIDE DEF num
  <2>7. (i + sov(n) + sov(l) + l) - 1 = i + sov(n) + sov(l) + l - 1
    <3>1. i \in Nat /\ sov(n) \in Nat /\ sov(l) \in Nat /\ l \in Nat
      BY <1>0, <1>1
    <3>2. \A p, q, r, t \in Nat : (p + q + r + t) - 1 = p + q + r + t - 1
      OBVIOUS
    <3> QED
      BY <3>1, <3>2
  <2> QED
    BY <1>6, <2>3, <2>6, <2>7, Zenon
<1>8. Digits(n)[1] % 8 = 2
  BY TagSeptet
<1>9. skipField(b, i) = i + sov(n) + sov(l) + l
  <2> HIDE DEF l
  <2>1. l >= 0
    BY <1>0
  <2> QED
    BY <1>4, <1>5, <1>8, <2>1 DEF skipField
<1> QED
  BY <1>4, <1>7, <1>9

-----------------------------------------------------------------------------
(* Sums over the fields of a message.                                      *)

\* The recursive functions of Concat and Total exist and obey their
\* definitions.
LEMMA PrefixesDef ==
  ASSUME NEW f, NEW n \in Nat
  PROVE  /\ Prefixes(f, n)[0] = <<>>
         /\ \A k \in 1..n : Prefixes(f, n)[k] = Prefixes(f, n)[k - 1] \o f[k]
<1> DEFINE Def(g, m) == g = [k \in 0..m |-> IF k = 0 THEN <<>> ELSE g[k - 1] \o f[k]]
           S == {m \in Nat : \E g : Def(g, m)}
<1>1. 0 \in S
  <2> DEFINE g == [k \in 0..0 |-> <<>>]
  <2>1. Def(g, 0)
    OBVIOUS
  <2> HIDE DEF g
  <2> QED
    BY <2>1
<1>2. ASSUME NEW m \in S PROVE m + 1 \in S
  <2>1. m \in Nat /\ \E g : Def(g, m)
    OBVIOUS
  <2>2. PICK g : Def(g, m)
    BY <2>1
  <2> DEFINE h == [k \in 0..(m + 1) |-> IF k = m + 1 THEN g[m] \o f[m + 1] ELSE g[k]]
  <2>3. \A k \in 0..m : g[k] = IF k = 0 THEN <<>> ELSE g[k - 1] \o f[k]
    BY <2>1, <2>2
  <2>4. ASSUME NEW k \in 0..(m + 1)
        PROVE  h[k] = IF k = 0 THEN <<>> ELSE h[k - 1] \o f[k]
    <3>1. CASE k = m + 1
      <4>1. h[k] = g[m] \o f[k] /\ k # 0 /\ k - 1 = m /\ m \in 0..(m + 1) /\ m # m + 1
        BY <2>1, <3>1
      <4>2. h[m] = g[m]
        BY <2>1, <4>1
      <4> QED
        BY <4>1, <4>2
    <3>2. CASE k # m + 1
      <4>1. k \in 0..m /\ h[k] = g[k]
        BY <2>1, <3>2
      <4>2. k # 0 => k - 1 \in 0..(m + 1) /\ k - 1 # m + 1
        BY <2>1, <3>2
      <4>3. k # 0 => h[k - 1] = g[k - 1]
        BY <4>2
      <4> HIDE DEF h
      <4> QED
        BY <2>3, <4>1, <4>3
    <3> QED
      BY <3>1, <3>2
  <2>5. h = [k \in 0..(m + 1) |-> h[k]]
    OBVIOUS
  <2> HIDE DEF h
  <2>6. Def(h, m + 1)
    BY <2>4, <2>5
  <2>7. m + 1 \in Nat
    BY <2>1
  <2>8. \E g2 : Def(g2, m + 1)
    <3> HIDE DEF Def
    <3> QED
      BY <2>6, Zenon
  <2> QED
    BY <2>7, <2>8, Zenon
<1>3. n \in S
  <2> HIDE DEF S
  <2>1. S \subseteq Nat
    BY DEF S
  <2> QED
    BY <1>1, <1>2, <2>1, SetInduction
<1>4. \E g : Def(g, n)
  BY <1>3
<1>5. Prefixes(f, n) = CHOOSE g : Def(g, n)
  BY DEF Prefixes
<1>6. Def(Prefixes(f, n), n)
  <2> HIDE DEF Def
  <2> QED
    BY <1>4, <1>5
<1> QED
  BY <1>6

LEMMA SubtotalsDef ==
  ASSUME NEW f, NEW n \in Nat
  PROVE  /\ Subtotals(f, n)[0] = 0
         /\ \A k \in 1..n : Subtotals(f, n)[k] = Subtotals(f, n)[k - 1] + f[k]
<1> DEFINE Def(g, m) == g = [k \in 0..m |-> IF k = 0 THEN 0 ELSE g[k - 1] + f[k]]
           S == {m \in Nat : \E g : Def(g, m)}
<1>1. 0 \in S
  <2> DEFINE g == [k \in 0..0 |-> 0]
  <2>1. Def(g, 0)
    OBVIOUS
  <2> HIDE DEF g
  <2> QED
    BY <2>1
<1>2. ASSUME NEW m \in S PROVE m + 1 \in S
  <2>1. m \in Nat /\ \E g : Def(g, m)
    OBVIOUS
  <2>2. PICK g : Def(g, m)
    BY <2>1
  <2> DEFINE h == [k \in 0..(m + 1) |-> IF k = m + 1 THEN g[m] + f[m + 1] ELSE g[k]]
  <2>3. \A k \in 0..m : g[k] = IF k = 0 THEN 0 ELSE g[k - 1] + f[k]
    BY <2>1, <2>2
  <2>4. ASSUME NEW k \in 0..(m + 1)
        PROVE  h[k] = IF k = 0 THEN 0 ELSE h[k - 1] + f[k]
    <3>1. CASE k = m + 1
      <4>1. h[k] = g[m] + f[k] /\ k # 0 /\ k - 1 = m /\ m \in 0..(m + 1) /\ m # m + 1
        BY <2>1, <3>1
      <4>2. h[m] = g[m]
        BY <2>1, <4>1
      <4> QED
        BY <4>1, <4>2
    <3>2. CASE k # m + 1
      <4>1. k \in 0..m /\ h[k] = g[k]
        BY <2>1, <3>2
      <4>2. k # 0 => k - 1 \in 0..(m + 1) /\ k - 1 # m + 1
        BY <2>1, <3>2
      <4>3. k # 0 => h[k - 1] = g[k - 1]
        BY <4>2
      <4> HIDE DEF h
      <4> QED
        BY <2>3, <4>1, <4>3
    <3> QED
      BY <3>1, <3>2
  <2>5. h = [k \in 0..(m + 1) |-> h[k]]
    OBVIOUS
  <2> HIDE DEF h
  <2>6. Def(h, m + 1)
    BY <2>4, <2>5
  <2> QED
    BY <2>1, <2>6
<1>3. n \in S
  <2> HIDE DEF S
  <2>1. S \subseteq Nat
    BY DEF S
  <2> QED
    BY <1>1, <1>2, <2>1, SetInduction
<1>4. \E g : Def(g, n)
  BY <1>3
<1>5. Subtotals(f, n) = CHOOSE g : Def(g, n)
  BY DEF Subtotals
<1>6. Def(Subtotals(f, n), n)
  <2> HIDE DEF Def
  <2> QED
    BY <1>4, <1>5
<1> QED
  BY <1>6

\* The parts of a concatenation are together as long as it.
LEMMA ConcatLength ==
  ASSUME NEW n \in Nat, NEW f, NEW g,
         \A k \in 1..n : f[k] \in Seq(Byte) /\ g[k] = Len(f[k])
  PROVE  Concat(f, n) \in Seq(Byte) /\ Len(Concat(f, n)) = Total(g, n) /\ Total(g, n) \in Nat
<1> DEFINE p == Prefixes(f, n)
           t == Subtotals(g, n)
           Good(k) == p[k] \in Seq(Byte) /\ Len(p[k]) = t[k] /\ t[k] \in Nat
           S == {k \in Nat : k <= n => Good(k)}
<1>1. p[0] = <<>> /\ \A k \in 1..n : p[k] = p[k - 1] \o f[k]
  BY PrefixesDef
<1>2. t[0] = 0 /\ \A k \in 1..n : t[k] = t[k - 1] + g[k]
  BY SubtotalsDef
<1> HIDE DEF p, t
<1>3. 0 \in S
  <2>1. <<>> \in Seq(Byte) /\ Len(<<>>) = 0
    OBVIOUS
  <2>2. Good(0)
    BY <1>1, <1>2, <2>1
  <2> QED
    BY <2>2
<1>4. ASSUME NEW k \in S PROVE k + 1 \in S
  <2>1. k \in Nat /\ (k <= n => Good(k))
    OBVIOUS
  <2>2. ASSUME k + 1 <= n PROVE Good(k + 1)
    <3>1. k <= n /\ k + 1 \in 1..n /\ (k + 1) - 1 = k
      BY <2>1, <2>2
    <3>2. Good(k)
      BY <2>1, <3>1
    <3>3. p[k + 1] = p[k] \o f[k + 1] /\ t[k + 1] = t[k] + g[k + 1]
      BY <1>1, <1>2, <3>1
    <3>4. f[k + 1] \in Seq(Byte) /\ g[k + 1] = Len(f[k + 1]) /\ Len(f[k + 1]) \in Nat
      BY <3>1
    <3>5. p[k] \o f[k + 1] \in Seq(Byte) /\ Len(p[k] \o f[k + 1]) = Len(p[k]) + Len(f[k + 1])
      BY <3>2, <3>4, ConcatProperties
    <3> QED
      BY <3>2, <3>3, <3>4, <3>5
  <2> HIDE DEF Good
  <2> QED
    BY <2>1, <2>2
<1>5. n \in S
  <2> HIDE DEF S
  <2>1. S \subseteq Nat
    BY DEF S
  <2> QED
    BY <1>3, <1>4, <2>1, SetInduction
<1>6. Good(n)
  BY <1>5
<1> QED
  BY <1>6 DEF Concat, Total, p, t

-----------------------------------------------------------------------------
(* A field of a message, and a message.                                    *)

\* The values of Go that a block can meet.  A message in a field is exact:
\* its Size is the number of its bytes.
Plain(b, x) ==
    /\ b.kind = "var" => x \in Int64
    /\ b.kind = "bool" => x \in BOOLEAN
    /\ b.kind = "bytes" => x \in Seq(Byte) /\ Len(x) \in Int64
Writable(b, x, SizeOf(_, _), BytesOf(_, _)) ==
    /\ Plain(b, x)
    /\ b.kind = "msg" => /\ BytesOf(b.type, x) \in Seq(Byte)
                         /\ SizeOf(b.type, x) = Len(BytesOf(b.type, x))
                         /\ SizeOf(b.type, x) \in Int64

\* What a reader has to find for the value x of the block b: the number (a
\* bool is one or zero) or the bytes, from which an inner message is read.
Meaning(b, x, BytesOf(_, _)) ==
    CASE b.kind = "var" -> x
      [] b.kind = "bool" -> Bit(x)
      [] b.kind = "bytes" -> x
      [] OTHER -> BytesOf(b.type, x)

Kinds == {"var", "bool", "bytes", "msg"}

\* 2^29 - 1 is the largest: a tag is a uint32 with the wire type in it.
FieldNumbers == {n \in Nat : n > 0 /\ n < 536870912}

\* The two shapes of what a block writes behind the tag.
Shape(wt, got, put) ==
    \/ wt = 0 /\ got \in Int64 /\ put = encodeVarint(got)
    \/ /\ wt = 2 /\ got \in Seq(Byte) /\ Len(got) \in Int64
       /\ put = encodeVarint(Len(got)) \o got

\* The field at index i, of the given length, is read as the number num with
\* the wire type wt and the value got, or skipped as a whole.
ReadsBack(b, i, num, wt, got, length) ==
    LET tag == ReadVarint(b, i)
        value == ReadValue(wt, b, tag.next)
    IN  /\ tag.ok /\ Number(tag.ds) \div 8 = num /\ Number(tag.ds) % 8 = wt
        /\ value.ok /\ value.v = got /\ value.next = i + length
        /\ skipField(b, i) = i + length

\* Behind its tag a block writes a number or bytes with their length.
LEMMA ValueShape ==
  ASSUME NEW SizeOf(_, _), NEW BytesOf(_, _), NEW b, NEW x,
         b.kind \in Kinds, Writable(b, x, SizeOf, BytesOf)
  PROVE  Shape(WireType(b.kind), Meaning(b, x, BytesOf), PutValue(b, x, SizeOf, BytesOf))
<1> DEFINE put == PutValue(b, x, SizeOf, BytesOf)
           got == Meaning(b, x, BytesOf)
<1>1. CASE b.kind = "var"
  <2>1. x \in Int64 /\ put = encodeVarint(x) /\ got = x /\ WireType(b.kind) = 0
    BY <1>1 DEF Writable, Plain, PutValue, Meaning, WireType
  <2> QED
    BY <2>1, Zenon DEF Shape
<1>2. CASE b.kind = "bool"
  <2>1. encodeVarint(0) = <<0>> /\ encodeVarint(1) = <<1>> /\ 0 \in Int64 /\ 1 \in Int64
    BY OneByte
  <2>2. put = <<Bit(x)>> /\ got = Bit(x) /\ WireType(b.kind) = 0
    BY <1>2 DEF PutValue, Meaning, WireType
  <2> HIDE DEF put, got
  <2>3. got \in Int64 /\ put = encodeVarint(got)
    <3>1. Bit(x) = 0 \/ Bit(x) = 1
      BY Zenon DEF Bit
    <3> QED
      BY <2>1, <2>2, <3>1, Zenon
  <2> QED
    BY <2>2, <2>3, Zenon DEF put, got, Shape
<1>3. CASE b.kind = "bytes"
  <2>1. /\ x \in Seq(Byte) /\ Len(x) \in Int64 /\ put = encodeVarint(Len(x)) \o x
        /\ got = x /\ WireType(b.kind) = 2
    BY <1>3 DEF Writable, Plain, PutValue, Meaning, WireType
  <2> QED
    BY <2>1, Zenon DEF Shape
<1>4. CASE b.kind = "msg"
  <2> DEFINE y == BytesOf(b.type, x)
  <2>1. /\ y \in Seq(Byte) /\ SizeOf(b.type, x) = Len(y) /\ Len(y) \in Int64
        /\ put = encodeVarint(SizeOf(b.type, x)) \o y
        /\ got = y /\ WireType(b.kind) = 2
    BY <1>4 DEF Writable, Plain, PutValue, Meaning, WireType
  <2> QED
    BY <2>1, Zenon DEF Shape
<1> QED
  BY <1>1, <1>2, <1>3, <1>4 DEF Kinds

\* The tag of a field in a number.
LEMMA TagNumber ==
  ASSUME NEW num \in FieldNumbers, NEW wt \in {0, 2}
  PROVE  LET n == 8 * num + wt
         IN  n \in Int64 /\ n >= 0 /\ n \div 8 = num /\ n % 8 = wt
<1>1. num \in Nat /\ num < 536870912
  BY SMT DEF FieldNumbers
<1>2. 8 * num + wt \in Nat /\ 8 * num + wt < 34359738368
  BY <1>1, SMT
<1>3. 8 * num + wt \in Int64
  BY <1>2, SmallFits, SMT
<1> QED
  BY <1>1, <1>3, SMT

\* A field with the wire type wt, in whatever bytes surround it.
LEMMA FieldRead ==
  ASSUME NEW num \in FieldNumbers, NEW wt, NEW got, NEW put, NEW b \in Seq(Byte), NEW i,
         Shape(wt, got, put),
         Stands(b, i, encodeVarint(8 * num + wt) \o put)
  PROVE  ReadsBack(b, i, num, wt, got, Len(encodeVarint(8 * num + wt) \o put))
<1> DEFINE n == 8 * num + wt
<1>3. Stands(b, i, encodeVarint(n) \o put)
  OBVIOUS
<1>4. wt \in {0, 2}
  BY DEF Shape
<1>6. n \in Int64 /\ n >= 0 /\ n \div 8 = num /\ n % 8 = wt
  BY <1>4, TagNumber
<1> HIDE DEF n
<1>7. i \in Nat
  BY DEF Stands
<1>8. /\ encodeVarint(n) \in Seq(Byte) /\ Len(encodeVarint(n)) = sov(n)
      /\ sov(n) \in 1..10
  BY <1>6, EncodeFacts
<1>9. sov(n) \in Nat
  BY <1>8
<1>10. CASE wt = 0 /\ got \in Int64 /\ put = encodeVarint(got)
  <2>1. /\ ReadVarint(b, i) = [ok |-> TRUE, next |-> i + sov(n), ds |-> Digits(n)]
        /\ ReadValue(0, b, i + sov(n)) =
             [ok |-> TRUE, next |-> i + sov(n) + sov(got), v |-> got]
        /\ skipField(b, i) = i + sov(n) + sov(got)
    BY <1>3, <1>6, <1>10, NumberField
  <2>2. put \in Seq(Byte) /\ Len(put) = sov(got) /\ sov(got) \in 1..10
    BY <1>10, EncodeFacts
  <2>3. Len(encodeVarint(n) \o put) = sov(n) + sov(got) /\ sov(got) \in Nat
    BY <1>8, <2>2, ConcatProperties
  <2>4. i + (sov(n) + sov(got)) = i + sov(n) + sov(got)
    BY <1>7, <1>9, <2>3
  <2>5. Number(Digits(n)) = n
    BY <1>6, DigitsFacts
  <2> QED
    BY <1>6, <1>10, <2>1, <2>3, <2>4, <2>5 DEF ReadsBack, n
<1>11. CASE /\ wt = 2 /\ got \in Seq(Byte) /\ Len(got) \in Int64
            /\ put = encodeVarint(Len(got)) \o got
  <2>1. /\ ReadVarint(b, i) = [ok |-> TRUE, next |-> i + sov(n), ds |-> Digits(n)]
        /\ ReadValue(2, b, i + sov(n)) =
             [ok |-> TRUE, next |-> i + sov(n) + sov(Len(got)) + Len(got), v |-> got]
        /\ skipField(b, i) = i + sov(n) + sov(Len(got)) + Len(got)
    BY <1>3, <1>6, <1>11, BytesField
  <2>2. /\ encodeVarint(Len(got)) \in Seq(Byte) /\ Len(encodeVarint(Len(got))) = sov(Len(got))
        /\ sov(Len(got)) \in 1..10
    BY <1>11, EncodeFacts
  <2>3. put \in Seq(Byte) /\ Len(put) = sov(Len(got)) + Len(got)
    BY <1>11, <2>2, ConcatProperties
  <2>4. Len(encodeVarint(n) \o put) = sov(n) + (sov(Len(got)) + Len(got))
    BY <1>8, <2>3, ConcatProperties
  <2>5. sov(Len(got)) \in Nat /\ Len(got) \in Nat
    BY <1>11, <2>2
  <2>6. i + (sov(n) + (sov(Len(got)) + Len(got))) = i + sov(n) + sov(Len(got)) + Len(got)
    BY <1>7, <1>9, <2>5
  <2>7. Number(Digits(n)) = n
    BY <1>6, DigitsFacts
  <2> QED
    BY <1>6, <1>11, <2>1, <2>4, <2>6, <2>7 DEF ReadsBack, n
<1> QED
  BY <1>10, <1>11 DEF Shape

\* A value that a block of MarshalTo writes is read by the case of Unmarshal
\* that accords with it: the tag gives the field number and the wire type of
\* the case, the value is the one that was written, the reader goes on right
\* behind it, and skipMetapb of a version without the field stops there too.
THEOREM FieldReadBack ==
  ASSUME NEW SizeOf(_, _), NEW BytesOf(_, _), NEW c, NEW blk, NEW x,
         NEW b \in Seq(Byte), NEW i,
         blk.kind \in Kinds, c.num \in FieldNumbers, Accords(c, blk),
         Writable(blk, x, SizeOf, BytesOf),
         Stands(b, i, blk.tag \o PutValue(blk, x, SizeOf, BytesOf))
  PROVE  ReadsBack(b, i, c.num, WireType(blk.kind), Meaning(blk, x, BytesOf),
                   Len(blk.tag \o PutValue(blk, x, SizeOf, BytesOf)))
<1> DEFINE put == PutValue(blk, x, SizeOf, BytesOf)
           got == Meaning(blk, x, BytesOf)
           wt == WireType(blk.kind)
<1>1. Shape(wt, got, put)
  BY ValueShape, Zenon
<1>2. blk.tag = encodeVarint(8 * c.num + wt)
  BY Zenon DEF Accords
<1>3. Stands(b, i, encodeVarint(8 * c.num + wt) \o put)
  BY <1>2, Zenon
<1> HIDE DEF put, got, wt
<1>4. ReadsBack(b, i, c.num, wt, got, Len(encodeVarint(8 * c.num + wt) \o put))
  BY <1>1, <1>3, FieldRead, Zenon
<1> QED
  BY <1>2, <1>4, Zenon DEF put, got, wt

\* The field b of a message holds the values vs.
Holds(b, vs, SizeOf(_, _), BytesOf(_, _)) ==
    /\ b.kind \in Kinds /\ b.tag \in Seq(Byte)
    /\ Len(vs) \in Nat /\ (b.kind = "bool" => Len(vs) = 1)
    /\ \A j \in 1..Len(vs) : Writable(b, vs[j], SizeOf, BytesOf)

\* The length of a number or of bytes with their length before them, behind
\* a tag of k bytes.
FieldLength(k, wt, got) ==
    IF wt = 0 THEN k + sov(got) ELSE k + Len(got) + sov(Len(got))

LEMMA ShapeLength ==
  ASSUME NEW tag \in Seq(Byte), NEW wt, NEW got, NEW put, Shape(wt, got, put)
  PROVE  tag \o put \in Seq(Byte) /\ Len(tag \o put) = FieldLength(Len(tag), wt, got)
<1>1. CASE wt = 0 /\ got \in Int64 /\ put = encodeVarint(got)
  <2>1. put \in Seq(Byte) /\ Len(put) = sov(got)
    BY <1>1, EncodeFacts
  <2>2. tag \o put \in Seq(Byte) /\ Len(tag \o put) = Len(tag) + Len(put)
    BY <2>1, ConcatProperties
  <2> QED
    BY <1>1, <2>1, <2>2, Zenon DEF FieldLength
<1>2. CASE /\ wt = 2 /\ got \in Seq(Byte) /\ Len(got) \in Int64
           /\ put = encodeVarint(Len(got)) \o got
  <2>1. /\ encodeVarint(Len(got)) \in Seq(Byte) /\ Len(encodeVarint(Len(got))) = sov(Len(got))
        /\ sov(Len(got)) \in 1..10
    BY <1>2, EncodeFacts
  <2>2. put \in Seq(Byte) /\ Len(put) = sov(Len(got)) + Len(got)
    BY <1>2, <2>1, ConcatProperties
  <2>3. tag \o put \in Seq(Byte) /\ Len(tag \o put) = Len(tag) + Len(put)
    BY <2>2, ConcatProperties, Zenon
  <2>4. sov(Len(got)) \in Nat /\ Len(got) \in Nat /\ Len(tag) \in Nat
    BY <1>2, <2>1
  <2>5. Len(tag) + (sov(Len(got)) + Len(got)) = Len(tag) + Len(got) + sov(Len(got))
    BY <2>4
  <2>6. wt # 0
    BY <1>2
  <2> QED
    BY <2>2, <2>3, <2>5, <2>6, Zenon DEF FieldLength
<1> QED
  BY <1>1, <1>2, Zenon DEF Shape

\* A bool takes one byte.
LEMMA BitSize == \A x : sov(Bit(x)) = 1
<1>1. encodeVarint(0) = <<0>> /\ encodeVarint(1) = <<1>> /\ 0 \in Int64 /\ 1 \in Int64
  BY OneByte
<1>2. Len(encodeVarint(0)) = sov(0) /\ Len(encodeVarint(1)) = sov(1)
  BY <1>1, EncodeFacts
<1>3. sov(0) = 1 /\ sov(1) = 1
  BY <1>1, <1>2
<1> QED
  BY <1>3, Zenon DEF Bit

\* A term counts what the block writes for one value.
TermCounts(s, b, x, SizeOf(_, _), BytesOf(_, _)) ==
    LET put == b.tag \o PutValue(b, x, SizeOf, BytesOf)
    IN  /\ put \in Seq(Byte)
        /\ b.kind # "bool" => TermSize(s, x, SizeOf) = Len(put)
        /\ b.kind = "bool" => s.kind = "const" /\ s.k = Len(put)

LEMMA TermExact ==
  ASSUME NEW SizeOf(_, _), NEW BytesOf(_, _), NEW s, NEW b, NEW x,
         b.kind \in Kinds, b.tag \in Seq(Byte), Counts(s, b),
         Writable(b, x, SizeOf, BytesOf)
  PROVE  TermCounts(s, b, x, SizeOf, BytesOf)
<1> DEFINE got == Meaning(b, x, BytesOf)
           put == b.tag \o PutValue(b, x, SizeOf, BytesOf)
           wt == WireType(b.kind)
<1>1. put \in Seq(Byte) /\ Len(put) = FieldLength(Len(b.tag), wt, got)
  <2>1. Shape(WireType(b.kind), Meaning(b, x, BytesOf), PutValue(b, x, SizeOf, BytesOf))
    BY ValueShape
  <2> HIDE DEF got, wt
  <2> DEFINE y == PutValue(b, x, SizeOf, BytesOf)
  <2>2. Shape(wt, got, y)
    BY <2>1, Zenon DEF got, wt
  <2> HIDE DEF y
  <2>3. b.tag \o y \in Seq(Byte) /\ Len(b.tag \o y) = FieldLength(Len(b.tag), wt, got)
    BY <2>2, ShapeLength, Zenon
  <2> QED
    BY <2>3, Zenon DEF y, got, wt
<1>2. CASE b.kind = "var"
  <2>1. wt = 0 /\ got = x /\ TermSize(s, x, SizeOf) = s.k + sov(x) /\ s.k = Len(b.tag)
    BY <1>2, Zenon DEF WireType, Meaning, TermSize, Counts
  <2>2. b.kind # "bool"
    BY <1>2, Zenon
  <2> QED
    BY <1>1, <2>1, <2>2, Zenon DEF TermCounts, FieldLength
<1>3. CASE b.kind = "bool"
  <2>1. wt = 0 /\ got = Bit(x) /\ s.kind = "const" /\ s.k = Len(b.tag) + 1
    BY <1>3, Zenon DEF WireType, Meaning, Counts
  <2>2. sov(Bit(x)) = 1
    BY BitSize, Zenon
  <2> QED
    BY <1>1, <1>3, <2>1, <2>2, Zenon DEF TermCounts, FieldLength
<1>4. CASE b.kind = "bytes"
  <2>1. /\ wt = 2 /\ got = x /\ s.k = Len(b.tag)
        /\ TermSize(s, x, SizeOf) = s.k + Len(x) + sov(Len(x))
    BY <1>4, Zenon DEF WireType, Meaning, TermSize, Counts
  <2>2. b.kind # "bool"
    BY <1>4, Zenon
  <2>3. 2 # 0
    OBVIOUS
  <2> QED
    BY <1>1, <2>1, <2>2, <2>3, Zenon DEF TermCounts, FieldLength
<1>5. CASE b.kind = "msg"
  <2>1. wt = 2 /\ got = BytesOf(b.type, x) /\ s.k = Len(b.tag) /\ s.type = b.type
    BY <1>5, Zenon DEF WireType, Meaning, Counts
  <2>2. SizeOf(b.type, x) = Len(BytesOf(b.type, x))
    BY <1>5, Zenon DEF Writable
  <2>3. TermSize(s, x, SizeOf) = s.k + SizeOf(s.type, x) + sov(SizeOf(s.type, x))
    BY <1>5, Zenon DEF TermSize, Counts
  <2>4. b.kind # "bool"
    BY <1>5, Zenon
  <2>5. 2 # 0
    OBVIOUS
  <2> QED
    BY <1>1, <2>1, <2>2, <2>3, <2>4, <2>5, Zenon DEF TermCounts, FieldLength
<1> QED
  BY <1>2, <1>3, <1>4, <1>5, Zenon DEF Kinds

\* A sum of one number.
LEMMA TotalOne == \A f : f[1] \in Nat => Total(f, 1) = f[1]
<1> SUFFICES ASSUME NEW f, f[1] \in Nat PROVE Total(f, 1) = f[1]
  OBVIOUS
<1>1. Subtotals(f, 1)[0] = 0 /\ Subtotals(f, 1)[1] = Subtotals(f, 1)[1 - 1] + f[1]
  BY SubtotalsDef
<1>2. Subtotals(f, 1)[1] = f[1]
  BY <1>1
<1> QED
  BY <1>2 DEF Total

\* A term counts what the block writes for all the values of its field.
LEMMA FieldExact ==
  ASSUME NEW SizeOf(_, _), NEW BytesOf(_, _), NEW s, NEW b, NEW vs,
         Counts(s, b), Holds(b, vs, SizeOf, BytesOf)
  PROVE  /\ PutField(b, vs, SizeOf, BytesOf) \in Seq(Byte)
         /\ FieldSize(s, vs, SizeOf) = Len(PutField(b, vs, SizeOf, BytesOf))
         /\ FieldSize(s, vs, SizeOf) \in Nat
<1> DEFINE n == Len(vs)
           f == [j \in 1..n |-> b.tag \o PutValue(b, vs[j], SizeOf, BytesOf)]
           g == [j \in 1..n |-> Len(f[j])]
           h == [j \in 1..n |-> TermSize(s, vs[j], SizeOf)]
<1>1. n \in Nat
  BY Zenon DEF Holds
<1>2. \A j \in 1..n : /\ f[j] \in Seq(Byte)
                      /\ b.kind # "bool" => h[j] = Len(f[j])
                      /\ b.kind = "bool" => s.kind = "const" /\ s.k = Len(f[j])
  <2> SUFFICES ASSUME NEW j \in 1..n
               PROVE  /\ f[j] \in Seq(Byte)
                      /\ b.kind # "bool" => h[j] = Len(f[j])
                      /\ b.kind = "bool" => s.kind = "const" /\ s.k = Len(f[j])
    OBVIOUS
  <2>1. /\ f[j] = b.tag \o PutValue(b, vs[j], SizeOf, BytesOf)
        /\ h[j] = TermSize(s, vs[j], SizeOf)
    BY Zenon
  <2>2. b.kind \in Kinds /\ b.tag \in Seq(Byte) /\ Writable(b, vs[j], SizeOf, BytesOf)
    BY Zenon DEF Holds
  <2>3. TermCounts(s, b, vs[j], SizeOf, BytesOf)
    BY <2>2, TermExact
  <2> HIDE DEF f, h, n
  <2> QED
    BY <2>1, <2>3, Zenon DEF TermCounts
<1>3. /\ PutField(b, vs, SizeOf, BytesOf) = Concat(f, n)
      /\ s.kind # "const" => FieldSize(s, vs, SizeOf) = Total(h, n)
      /\ s.kind = "const" => FieldSize(s, vs, SizeOf) = s.k
  BY Zenon DEF PutField, FieldSize
<1>4. \A j \in 1..n : g[j] = Len(f[j])
  BY Zenon
<1>5. b.kind # "bool" => h = g
  BY <1>2, Zenon
<1> HIDE DEF f, g, h
<1>6. Concat(f, n) \in Seq(Byte) /\ Len(Concat(f, n)) = Total(g, n) /\ Total(g, n) \in Nat
  <2>1. \A k \in 1..n : f[k] \in Seq(Byte) /\ g[k] = Len(f[k])
    BY <1>2, <1>4, Zenon
  <2> HIDE DEF n
  <2> QED
    BY <1>1, <2>1, ConcatLength, Zenon
<1>7. CASE b.kind # "bool"
  <2>1. s.kind # "const"
    BY <1>7, Zenon DEF Counts, Holds, Kinds
  <2> QED
    BY <1>3, <1>5, <1>6, <1>7, <2>1, Zenon
<1>8. CASE b.kind = "bool"
  <2>1. n = 1
    BY <1>8, Zenon DEF Holds
  <2>2. 1 \in 1..1
    OBVIOUS
  <2>3. s.kind = "const" /\ s.k = Len(f[1]) /\ f[1] \in Seq(Byte) /\ g[1] = Len(f[1])
    BY <1>2, <1>4, <1>8, <2>1, <2>2, Zenon
  <2>4. Len(f[1]) \in Nat
    BY <2>3, LenProperties, Zenon
  <2>5. Total(g, 1) = g[1]
    BY <2>3, <2>4, TotalOne, Zenon
  <2> QED
    BY <1>3, <1>6, <2>1, <2>3, <2>5, Zenon
<1> QED
  BY <1>7, <1>8, Zenon

\* Marshal makes a slice of Size bytes and MarshalTo fills it without looking
\* at its end: if every term counts its block and the messages in the fields
\* are exact, MarshalTo writes Size bytes, neither fewer nor more.
THEOREM MessageExact ==
  ASSUME NEW SizeOf(_, _), NEW BytesOf(_, _), NEW terms, NEW blocks, NEW v,
         Len(blocks) \in Nat, Len(terms) = Len(blocks),
         \A k \in 1..Len(blocks) :
            /\ Counts(terms[k], blocks[k])
            /\ Holds(blocks[k], v[blocks[k].name], SizeOf, BytesOf),
         v[Unknown] \in Seq(Byte)
  PROVE  /\ PutFields(blocks, v, SizeOf, BytesOf) \in Seq(Byte)
         /\ SizeOfFields(terms, v, SizeOf) = Len(PutFields(blocks, v, SizeOf, BytesOf))
<1> DEFINE n == Len(blocks)
           f == [k \in 1..n |-> PutField(blocks[k], v[blocks[k].name], SizeOf, BytesOf)]
           g == [k \in 1..n |-> FieldSize(terms[k], v[terms[k].name], SizeOf)]
<1>1. \A k \in 1..n : f[k] \in Seq(Byte) /\ g[k] = Len(f[k])
  <2> SUFFICES ASSUME NEW k \in 1..n
               PROVE  f[k] \in Seq(Byte) /\ g[k] = Len(f[k])
    OBVIOUS
  <2>1. /\ f[k] = PutField(blocks[k], v[blocks[k].name], SizeOf, BytesOf)
        /\ g[k] = FieldSize(terms[k], v[terms[k].name], SizeOf)
    BY Zenon
  <2>2. /\ Counts(terms[k], blocks[k])
        /\ Holds(blocks[k], v[blocks[k].name], SizeOf, BytesOf)
    BY Zenon
  <2>3. terms[k].name = blocks[k].name
    BY <2>2, Zenon DEF Counts
  <2>4. LET vs == v[blocks[k].name]
            put == PutField(blocks[k], vs, SizeOf, BytesOf)
        IN  put \in Seq(Byte) /\ FieldSize(terms[k], vs, SizeOf) = Len(put)
    BY <2>2, FieldExact
  <2> HIDE DEF f, g, n
  <2> QED
    BY <2>1, <2>3, <2>4, Zenon
<1>2. /\ PutFields(blocks, v, SizeOf, BytesOf) = Concat(f, n) \o v[Unknown]
      /\ SizeOfFields(terms, v, SizeOf) = Total(g, n) + Len(v[Unknown])
  BY Zenon DEF PutFields, SizeOfFields
<1> HIDE DEF f, g
<1>3. Concat(f, n) \in Seq(Byte) /\ Len(Concat(f, n)) = Total(g, n)
  <2> HIDE DEF n
  <2>1. n \in Nat
    BY Zenon DEF n
  <2> QED
    BY <1>1, <2>1, ConcatLength, Zenon
<1> HIDE DEF n
<1>4. /\ Concat(f, n) \o v[Unknown] \in Seq(Byte)
      /\ Len(Concat(f, n) \o v[Unknown]) = Len(Concat(f, n)) + Len(v[Unknown])
  BY <1>3, ConcatProperties, Zenon
<1> QED
  BY <1>2, <1>3, <1>4, Zenon

\* A set M of messages, each a pair of its type and its value, with the
\* messages in their fields.  The depth of a message is above that of the
\* messages in it: a Go message is a tree.
Tree(M, depth, blocks) ==
    /\ depth \in [M -> Nat]
    /\ \A m \in M : \A k \in 1..Len(blocks[m[1]]) :
          LET b == blocks[m[1]][k]
              vs == m[2][b.name]
          IN  /\ b.kind \in Kinds /\ b.tag \in Seq(Byte)
              /\ Len(vs) \in Nat /\ (b.kind = "bool" => Len(vs) = 1)
              /\ \A j \in 1..Len(vs) :
                    /\ Plain(b, vs[j])
                    /\ b.kind = "msg" => /\ <<b.type, vs[j]>> \in M
                                         /\ depth[<<b.type, vs[j]>>] < depth[m]

\* Size is exact for messages of any nesting: any SizeOf and BytesOf that
\* obey the equations by which Size and MarshalTo call themselves for the
\* messages in their fields agree on every message of a set of trees, by
\* induction on its depth.
THEOREM SizeIsExact ==
  ASSUME NEW SizeOf(_, _), NEW BytesOf(_, _), NEW terms, NEW blocks, NEW M, NEW depth,
         Tree(M, depth, blocks),
         \A m \in M : /\ Len(blocks[m[1]]) \in Nat /\ Len(terms[m[1]]) = Len(blocks[m[1]])
                      /\ \A k \in 1..Len(blocks[m[1]]) :
                            Counts(terms[m[1]][k], blocks[m[1]][k]),
         \A m \in M : m[2][Unknown] \in Seq(Byte) /\ SizeOf(m[1], m[2]) \in Int64,
         \A m \in M : SizeOf(m[1], m[2]) = SizeOfFields(terms[m[1]], m[2], SizeOf),
         \A m \in M : BytesOf(m[1], m[2]) = PutFields(blocks[m[1]], m[2], SizeOf, BytesOf)
  PROVE  \A m \in M : /\ BytesOf(m[1], m[2]) \in Seq(Byte)
                      /\ SizeOf(m[1], m[2]) = Len(BytesOf(m[1], m[2]))
<1> DEFINE Exact(m) == /\ BytesOf(m[1], m[2]) \in Seq(Byte)
                       /\ SizeOf(m[1], m[2]) = Len(BytesOf(m[1], m[2]))
           Wrong == {d \in Nat : \E m \in M : depth[m] = d /\ ~Exact(m)}
<1>1. ASSUME NEW m \in M, \A w \in M : depth[w] < depth[m] => Exact(w)
      PROVE  Exact(m)
  <2> DEFINE bs == blocks[m[1]]
             ts == terms[m[1]]
             v == m[2]
  <2>1. /\ Len(bs) \in Nat /\ Len(ts) = Len(bs)
        /\ \A k \in 1..Len(bs) : Counts(ts[k], bs[k])
        /\ v[Unknown] \in Seq(Byte)
    BY Zenon
  <2>2. ASSUME NEW k \in 1..Len(bs)
        PROVE  Holds(bs[k], v[bs[k].name], SizeOf, BytesOf)
    <3> DEFINE b == bs[k]
               vs == v[b.name]
    <3>1. /\ b.kind \in Kinds /\ b.tag \in Seq(Byte)
          /\ Len(vs) \in Nat /\ (b.kind = "bool" => Len(vs) = 1)
          /\ \A j \in 1..Len(vs) :
                /\ Plain(b, vs[j])
                /\ b.kind = "msg" => /\ <<b.type, vs[j]>> \in M
                                     /\ depth[<<b.type, vs[j]>>] < depth[m]
      BY Zenon DEF Tree
    <3> HIDE DEF b, vs
    <3>2. ASSUME NEW j \in 1..Len(vs) PROVE Writable(b, vs[j], SizeOf, BytesOf)
      <4>1. ASSUME b.kind = "msg"
            PROVE  /\ BytesOf(b.type, vs[j]) \in Seq(Byte)
                   /\ SizeOf(b.type, vs[j]) = Len(BytesOf(b.type, vs[j]))
                   /\ SizeOf(b.type, vs[j]) \in Int64
        <5> DEFINE w == <<b.type, vs[j]>>
        <5>1. w \in M /\ depth[w] < depth[m]
          BY <3>1, <4>1, Zenon
        <5>2. w[1] = b.type /\ w[2] = vs[j]
          BY Zenon
        <5> HIDE DEF w
        <5>3. SizeOf(w[1], w[2]) \in Int64
          BY <5>1, Zenon
        <5>4. Exact(w)
          BY <1>1, <5>1, Zenon
        <5> QED
          BY <5>2, <5>3, <5>4, Zenon
      <4>2. Plain(b, vs[j])
        BY <3>1, Zenon
      <4> QED
        BY <4>1, <4>2, Zenon DEF Writable
    <3>3. Holds(b, vs, SizeOf, BytesOf)
      BY <3>1, <3>2, Zenon DEF Holds
    <3> QED
      BY <3>3, Zenon DEF b, vs
  <2>3. /\ PutFields(bs, v, SizeOf, BytesOf) \in Seq(Byte)
        /\ SizeOfFields(ts, v, SizeOf) = Len(PutFields(bs, v, SizeOf, BytesOf))
    <3> HIDE DEF bs, ts, v
    <3>1. \A k \in 1..Len(bs) :
             /\ Counts(ts[k], bs[k])
             /\ Holds(bs[k], v[bs[k].name], SizeOf, BytesOf)
      BY <2>1, <2>2, Zenon
    <3>2. Len(bs) \in Nat /\ Len(ts) = Len(bs) /\ v[Unknown] \in Seq(Byte)
      BY <2>1, Zenon
    <3> QED
      BY <3>1, <3>2, MessageExact
  <2>4. /\ SizeOf(m[1], m[2]) = SizeOfFields(ts, v, SizeOf)
        /\ BytesOf(m[1], m[2]) = PutFields(bs, v, SizeOf, BytesOf)
    BY Zenon
  <2> QED
    BY <2>3, <2>4, Zenon
<1> HIDE DEF Exact
<1>2. ASSUME NEW u \in M, ~Exact(u) PROVE FALSE
  <2>1. \A m \in M : depth[m] \in Nat
    BY Zenon DEF Tree
  <2>2. depth[u] \in Wrong
    BY <1>2, <2>1, Zenon
  <2>3. Wrong \in SUBSET Nat /\ Wrong # {}
    BY <2>2, Zenon
  <2>4. PICK d \in Wrong : \A y \in Wrong : d <= y
    <3> HIDE DEF Wrong
    <3> QED
      BY <2>3, Least, Zenon
  <2>5. PICK m \in M : depth[m] = d /\ ~Exact(m)
    BY <2>4, Zenon
  <2>6. ASSUME NEW w \in M, depth[w] < depth[m] PROVE Exact(w)
    <3>1. ASSUME ~Exact(w) PROVE FALSE
      <4>1. depth[w] \in Wrong
        BY <2>1, <3>1, Zenon
      <4>2. d <= depth[w]
        BY <2>4, <4>1, Zenon
      <4>3. \A p, q \in Nat : p < q => ~ (q <= p)
        OBVIOUS
      <4> QED
        BY <2>1, <2>5, <2>6, <4>2, <4>3, Zenon
    <3> QED
      BY <3>1, Zenon
  <2> QED
    BY <1>1, <2>5, <2>6, Zenon
<1> QED
  BY <1>2, Zenon DEF Exact

-----------------------------------------------------------------------------
(* The places of the fields in the bytes of a message.                     *)

\* Where the part k of the parts f stands when they stand at i.
LEMMA PartStands ==
  ASSUME NEW n \in Nat, NEW f, \A k \in 1..n : f[k] \in Seq(Byte),
         NEW b \in Seq(Byte), NEW i, Stands(b, i, Concat(f, n))
  PROVE  \A k \in 1..n : /\ Stands(b, i + Len(Prefixes(f, n)[k - 1]), f[k])
                         /\ Prefixes(f, n)[k - 1] \in Seq(Byte)
                         /\ Len(Prefixes(f, n)[k]) = Len(Prefixes(f, n)[k - 1]) + Len(f[k])
<1> DEFINE p == Prefixes(f, n)
           Up == {k \in Nat : k <= n => p[k] \in Seq(Byte)}
           Down == {d \in Nat : d <= n => Stands(b, i, p[n - d])}
<1>1. p[0] = <<>> /\ \A k \in 1..n : p[k] = p[k - 1] \o f[k]
  BY PrefixesDef
<1>2. Stands(b, i, p[n])
  BY DEF Concat
<1> HIDE DEF p
<1>3. 0 \in Up
  <2>1. <<>> \in Seq(Byte)
    OBVIOUS
  <2> QED
    BY <1>1, <2>1
<1>4. ASSUME NEW k \in Up PROVE k + 1 \in Up
  <2>1. k \in Nat /\ (k <= n => p[k] \in Seq(Byte))
    OBVIOUS
  <2>2. ASSUME k + 1 <= n PROVE p[k + 1] \in Seq(Byte)
    <3>1. k <= n /\ k + 1 \in 1..n /\ (k + 1) - 1 = k
      BY <2>1, <2>2
    <3>2. p[k + 1] = p[k] \o f[k + 1] /\ f[k + 1] \in Seq(Byte) /\ p[k] \in Seq(Byte)
      BY <1>1, <2>1, <3>1
    <3> QED
      BY <3>2, ConcatProperties
  <2> QED
    BY <2>1, <2>2
<1>5. \A k \in 0..n : p[k] \in Seq(Byte)
  <2> HIDE DEF Up
  <2>1. Up \subseteq Nat
    BY DEF Up
  <2>2. \A k \in Nat : k \in Up
    BY <1>3, <1>4, <2>1, SetInduction
  <2> QED
    BY <2>2 DEF Up
<1>6. 0 \in Down
  <2>1. n - 0 = n
    OBVIOUS
  <2> QED
    BY <1>2, <2>1
<1>7. ASSUME NEW d \in Down PROVE d + 1 \in Down
  <2>1. d \in Nat /\ (d <= n => Stands(b, i, p[n - d]))
    OBVIOUS
  <2>2. ASSUME d + 1 <= n PROVE Stands(b, i, p[n - (d + 1)])
    <3> DEFINE k == n - d
    <3>1. d <= n /\ k \in 1..n /\ k - 1 \in 0..n /\ n - (d + 1) = k - 1
      BY <2>1, <2>2
    <3> HIDE DEF k
    <3>2. /\ p[k] = p[k - 1] \o f[k] /\ f[k] \in Seq(Byte) /\ p[k - 1] \in Seq(Byte)
      BY <1>1, <1>5, <3>1
    <3>3. Stands(b, i, p[k - 1] \o f[k])
      BY <2>1, <3>1, <3>2 DEF k
    <3>4. Stands(b, i, p[k - 1])
      BY <3>2, <3>3, StandsConcat
    <3> QED
      BY <3>1, <3>4
  <2> QED
    BY <2>1, <2>2
<1>8. \A k \in 0..n : Stands(b, i, p[k])
  <2> HIDE DEF Down
  <2>1. Down \subseteq Nat
    BY DEF Down
  <2>2. \A d \in Nat : d \in Down
    BY <1>6, <1>7, <2>1, SetInduction
  <2>3. \A d \in Nat : d <= n => Stands(b, i, p[n - d])
    BY <2>2 DEF Down
  <2> TAKE k \in 0..n
  <2>4. n - k \in Nat /\ n - k <= n /\ n - (n - k) = k
    OBVIOUS
  <2> QED
    BY <2>3, <2>4, Zenon
<1> SUFFICES ASSUME NEW k \in 1..n
             PROVE  /\ Stands(b, i + Len(p[k - 1]), f[k]) /\ p[k - 1] \in Seq(Byte)
                    /\ Len(p[k]) = Len(p[k - 1]) + Len(f[k])
  BY DEF p
<1>9. k \in 0..n /\ k - 1 \in 0..n
  OBVIOUS
<1>10. p[k] = p[k - 1] \o f[k] /\ f[k] \in Seq(Byte) /\ p[k - 1] \in Seq(Byte)
  BY <1>1, <1>5, <1>9
<1>11. Stands(b, i, p[k - 1] \o f[k])
  BY <1>8, <1>9, <1>10
<1>12. Stands(b, i + Len(p[k - 1]), f[k])
  BY <1>10, <1>11, StandsConcat
<1>13. Len(p[k]) = Len(p[k - 1]) + Len(f[k])
  BY <1>10, ConcatProperties
<1> QED
  BY <1>10, <1>12, <1>13

\* An index is a natural.
LEMMA PartIndex == \A n \in Nat : \A j \in 1..n : j \in Nat
OBVIOUS

\* Bytes one behind the other are bytes.
LEMMA ConcatBytes ==
  ASSUME NEW n \in Nat, NEW f, \A k \in 1..n : f[k] \in Seq(Byte)
  PROVE  Concat(f, n) \in Seq(Byte)
<1> DEFINE g == [k \in 1..n |-> Len(f[k])]
<1>1. \A k \in 1..n : f[k] \in Seq(Byte) /\ g[k] = Len(f[k])
  BY Zenon
<1> HIDE DEF g
<1> QED
  BY <1>1, ConcatLength, Zenon

\* The first of two parts stands at the start.
LEMMA StandsFirst ==
  ASSUME NEW s \in Seq(Byte), NEW t \in Seq(Byte)
  PROVE  s \o t \in Seq(Byte) /\ Stands(s \o t, 1, s)
<1>1. s \o t \in Seq(Byte) /\ Len(s \o t) = Len(s) + Len(t) /\ Len(s) \in Nat /\ Len(t) \in Nat
  OBVIOUS
<1>2. \A k \in 1..Len(s) : (s \o t)[k] = s[k]
  OBVIOUS
<1>3. \A k \in 1..Len(s) : 1 + k - 1 = k
  BY <1>1
<1>4. 1 + Len(s) - 1 <= Len(s \o t)
  BY <1>1
<1>5. 1 \in Nat \ {0}
  OBVIOUS
<1> QED
  BY <1>1, <1>2, <1>3, <1>4, <1>5, Zenon DEF Stands

\* The bytes of the values of a field and of the fields of a message, and
\* where the field k of the message and its value j start.
Values(b, vs, SizeOf(_, _), BytesOf(_, _)) ==
    [j \in 1..Len(vs) |-> b.tag \o PutValue(b, vs[j], SizeOf, BytesOf)]
Fields(blocks, v, SizeOf(_, _), BytesOf(_, _)) ==
    [k \in 1..Len(blocks) |->
        PutField(blocks[k], v[blocks[k].name], SizeOf, BytesOf)]
Start(blocks, v, k, SizeOf(_, _), BytesOf(_, _)) ==
    1 + Len(Prefixes(Fields(blocks, v, SizeOf, BytesOf), Len(blocks))[k - 1])
Place(blocks, v, k, j, SizeOf(_, _), BytesOf(_, _)) ==
    LET vs == v[blocks[k].name]
    IN  Start(blocks, v, k, SizeOf, BytesOf)
          + Len(Prefixes(Values(blocks[k], vs, SizeOf, BytesOf), Len(vs))[j - 1])

\* A field is the bytes of its values one behind the other.
LEMMA FieldBytes ==
  ASSUME NEW SizeOf(_, _), NEW BytesOf(_, _), NEW b, NEW vs, Holds(b, vs, SizeOf, BytesOf)
  PROVE  /\ \A j \in 1..Len(vs) : Values(b, vs, SizeOf, BytesOf)[j] \in Seq(Byte)
         /\ PutField(b, vs, SizeOf, BytesOf) = Concat(Values(b, vs, SizeOf, BytesOf), Len(vs))
         /\ PutField(b, vs, SizeOf, BytesOf) \in Seq(Byte)
<1> DEFINE n == Len(vs)
           f == Values(b, vs, SizeOf, BytesOf)
           g == [j \in 1..n |-> Len(f[j])]
<1>1. n \in Nat
  BY Zenon DEF Holds
<1>2. ASSUME NEW j \in 1..n PROVE f[j] \in Seq(Byte)
  <2> DEFINE wt == WireType(b.kind)
             got == Meaning(b, vs[j], BytesOf)
             put == PutValue(b, vs[j], SizeOf, BytesOf)
  <2>1. b.kind \in Kinds /\ b.tag \in Seq(Byte) /\ Writable(b, vs[j], SizeOf, BytesOf)
    BY Zenon DEF Holds
  <2>2. Shape(WireType(b.kind), Meaning(b, vs[j], BytesOf), PutValue(b, vs[j], SizeOf, BytesOf))
    BY <2>1, ValueShape
  <2>3. f[j] = b.tag \o put
    BY Zenon DEF Values
  <2> HIDE DEF wt, got, put, f
  <2>4. Shape(wt, got, put)
    BY <2>2, Zenon DEF wt, got, put
  <2>5. b.tag \o put \in Seq(Byte)
    BY <2>1, <2>4, ShapeLength, Zenon
  <2> QED
    BY <2>3, <2>5, Zenon
<1>3. \A j \in 1..n : g[j] = Len(f[j])
  BY Zenon
<1>4. PutField(b, vs, SizeOf, BytesOf) = Concat(f, n)
  BY Zenon DEF PutField, Values
<1> HIDE DEF f, g, n
<1>5. Concat(f, n) \in Seq(Byte)
  <2>1. \A k \in 1..n : f[k] \in Seq(Byte) /\ g[k] = Len(f[k])
    BY <1>2, <1>3, Zenon
  <2> QED
    BY <1>1, <2>1, ConcatLength, Zenon
<1> QED
  BY <1>2, <1>4, <1>5, Zenon DEF f, n

\* The fields of a message follow each other from its first byte on, whatever
\* the number of their values: the place behind the last value of a field is
\* the start of the next field, and behind the last field start the bytes of
\* XXX_unrecognized.
THEOREM FieldsFollow ==
  ASSUME NEW SizeOf(_, _), NEW BytesOf(_, _), NEW blocks, NEW v,
         Len(blocks) \in Nat, v[Unknown] \in Seq(Byte),
         \A k \in 1..Len(blocks) : Holds(blocks[k], v[blocks[k].name], SizeOf, BytesOf),
         NEW k \in 1..Len(blocks)
  PROVE  /\ Start(blocks, v, 1, SizeOf, BytesOf) = 1
         /\ Place(blocks, v, k, 1, SizeOf, BytesOf) = Start(blocks, v, k, SizeOf, BytesOf)
         /\ Place(blocks, v, k, Len(v[blocks[k].name]) + 1, SizeOf, BytesOf)
              = Start(blocks, v, k + 1, SizeOf, BytesOf)
         /\ Len(PutFields(blocks, v, SizeOf, BytesOf)) + 1
              = Start(blocks, v, Len(blocks) + 1, SizeOf, BytesOf) + Len(v[Unknown])
<1> DEFINE n == Len(blocks)
           F == Fields(blocks, v, SizeOf, BytesOf)
           blk == blocks[k]
           vs == v[blk.name]
           m == Len(vs)
           G == Values(blk, vs, SizeOf, BytesOf)
           b == PutFields(blocks, v, SizeOf, BytesOf)
           s == Len(Prefixes(F, n)[k - 1])
           St(h) == Start(blocks, v, h, SizeOf, BytesOf)
           Pl(h) == Place(blocks, v, k, h, SizeOf, BytesOf)
<1>1. Holds(blk, vs, SizeOf, BytesOf)
  BY Zenon
<1>2. PutField(blk, vs, SizeOf, BytesOf) = Concat(G, m)
  BY <1>1, FieldBytes
<1>3. \A h \in 1..n : F[h] \in Seq(Byte)
  <2> SUFFICES ASSUME NEW h \in 1..n PROVE F[h] \in Seq(Byte)
    OBVIOUS
  <2>1. Holds(blocks[h], v[blocks[h].name], SizeOf, BytesOf)
    BY Zenon
  <2>2. PutField(blocks[h], v[blocks[h].name], SizeOf, BytesOf) \in Seq(Byte)
    BY <2>1, FieldBytes
  <2> QED
    BY <2>2, Zenon DEF Fields
<1>4. F[k] = Concat(G, m)
  BY <1>2, Zenon DEF Fields
<1>5. m \in Nat /\ n \in Nat /\ k \in 1..n
  BY <1>1, Zenon DEF Holds
<1>6. b = Concat(F, n) \o v[Unknown]
  BY Zenon DEF PutFields, Fields
<1>7. /\ \A h : St(h) = 1 + Len(Prefixes(F, n)[h - 1])
      /\ \A h : Pl(h) = St(k) + Len(Prefixes(G, m)[h - 1])
  BY Zenon DEF Place, Start
<1> HIDE DEF n, F, G, m, b, St, Pl
<1>8. 1 - 1 = 0 /\ (n + 1) - 1 = n /\ (m + 1) - 1 = m /\ (k + 1) - 1 = k
  <2>1. \A p \in Nat : (p + 1) - 1 = p
    OBVIOUS
  <2>2. k \in Nat
    BY <1>5, PartIndex, Zenon
  <2>3. 1 - 1 = 0
    OBVIOUS
  <2> QED
    BY <1>5, <2>1, <2>2, <2>3, Zenon
<1>9. Len(Prefixes(F, n)[0]) = 0 /\ Len(Prefixes(G, m)[0]) = 0
  <2>1. Len(<<>>) = 0
    OBVIOUS
  <2> QED
    BY <1>5, <2>1, PrefixesDef, Zenon
<1>10. Concat(F, n) \in Seq(Byte)
  BY <1>3, <1>5, ConcatBytes, Zenon
<1>11. b \in Seq(Byte) /\ Stands(b, 1, Concat(F, n))
  BY <1>6, <1>10, StandsFirst, Zenon
<1>12. /\ Prefixes(F, n)[k - 1] \in Seq(Byte)
       /\ Len(Prefixes(F, n)[k]) = s + Len(F[k])
  BY <1>3, <1>5, <1>11, PartStands, Zenon
<1>13. s \in Nat /\ Len(F[k]) \in Nat /\ Len(Concat(F, n)) \in Nat /\ Len(v[Unknown]) \in Nat
  BY <1>3, <1>5, <1>10, <1>12, LenProperties, Zenon
<1> HIDE DEF s
<1>14. St(1) = 1
  <2>1. 1 + 0 = 1
    OBVIOUS
  <2> QED
    BY <1>7, <1>8, <1>9, <2>1, Zenon
<1>15. St(k) = 1 + s
  BY <1>7, Zenon DEF s
<1>16. Pl(1) = St(k)
  <2>1. \A p \in Nat : (1 + p) + 0 = 1 + p
    OBVIOUS
  <2> QED
    BY <1>7, <1>8, <1>9, <1>13, <1>15, <2>1, Zenon
<1>17. Pl(m + 1) = St(k + 1)
  <2>1. Pl(m + 1) = (1 + s) + Len(F[k])
    BY <1>4, <1>7, <1>8, <1>15, Zenon DEF Concat
  <2>2. St(k + 1) = 1 + (s + Len(F[k]))
    BY <1>7, <1>8, <1>12, Zenon
  <2>3. \A p, q \in Nat : (1 + p) + q = 1 + (p + q)
    OBVIOUS
  <2> QED
    BY <1>13, <2>1, <2>2, <2>3, Zenon
<1>18. Len(b) + 1 = St(n + 1) + Len(v[Unknown])
  <2>1. Len(b) = Len(Concat(F, n)) + Len(v[Unknown])
    BY <1>6, <1>10, ConcatProperties, Zenon
  <2>2. St(n + 1) = 1 + Len(Concat(F, n))
    BY <1>7, <1>8, Zenon DEF Concat
  <2>3. \A p, q \in Nat : (p + q) + 1 = (1 + p) + q
    OBVIOUS
  <2> QED
    BY <1>13, <2>1, <2>2, <2>3, Zenon
<1> QED
  BY <1>14, <1>16, <1>17, <1>18, Zenon DEF St, Pl, m, n, b

\* The loop of Unmarshal finds every value of the message that MarshalTo
\* wrote: each stands where the value before it ended, is read there as the
\* field number, the wire type and the value of its block, and no value is
\* read as a part of another.
THEOREM MessageReadBack ==
  ASSUME NEW SizeOf(_, _), NEW BytesOf(_, _), NEW blocks, NEW cases, NEW v,
         Len(blocks) \in Nat, v[Unknown] \in Seq(Byte),
         \A k \in 1..Len(blocks) :
            /\ Holds(blocks[k], v[blocks[k].name], SizeOf, BytesOf)
            /\ cases[k].num \in FieldNumbers /\ Accords(cases[k], blocks[k]),
         NEW k \in 1..Len(blocks), NEW j \in 1..Len(v[blocks[k].name])
  PROVE  LET x == v[blocks[k].name][j]
             length == Len(blocks[k].tag \o PutValue(blocks[k], x, SizeOf, BytesOf))
         IN  /\ ReadsBack(PutFields(blocks, v, SizeOf, BytesOf),
                          Place(blocks, v, k, j, SizeOf, BytesOf), cases[k].num,
                          WireType(blocks[k].kind), Meaning(blocks[k], x, BytesOf), length)
             /\ Place(blocks, v, k, j, SizeOf, BytesOf) + length =
                  Place(blocks, v, k, j + 1, SizeOf, BytesOf)
<1> DEFINE n == Len(blocks)
           F == Fields(blocks, v, SizeOf, BytesOf)
           blk == blocks[k]
           vs == v[blk.name]
           m == Len(vs)
           G == Values(blk, vs, SizeOf, BytesOf)
           x == vs[j]
           b == PutFields(blocks, v, SizeOf, BytesOf)
           s == Len(Prefixes(F, n)[k - 1])
           r == Len(Prefixes(G, m)[j - 1])
<1>1. Holds(blk, vs, SizeOf, BytesOf) /\ cases[k].num \in FieldNumbers /\ Accords(cases[k], blk)
  BY Zenon
<1>2. /\ \A l \in 1..m : G[l] \in Seq(Byte)
      /\ PutField(blk, vs, SizeOf, BytesOf) = Concat(G, m)
  BY <1>1, FieldBytes
<1>3. \A h \in 1..n : F[h] \in Seq(Byte)
  <2> SUFFICES ASSUME NEW h \in 1..n PROVE F[h] \in Seq(Byte)
    OBVIOUS
  <2>1. Holds(blocks[h], v[blocks[h].name], SizeOf, BytesOf)
    BY Zenon
  <2>2. PutField(blocks[h], v[blocks[h].name], SizeOf, BytesOf) \in Seq(Byte)
    BY <2>1, FieldBytes
  <2> QED
    BY <2>2, Zenon DEF Fields
<1>4. F[k] = Concat(G, m)
  BY <1>2, Zenon DEF Fields
<1>5. G[j] = blk.tag \o PutValue(blk, x, SizeOf, BytesOf)
  BY Zenon DEF Values
<1>6. m \in Nat /\ blk.kind \in Kinds /\ Writable(blk, x, SizeOf, BytesOf)
  BY <1>1, Zenon DEF Holds
<1>7. b = Concat(F, n) \o v[Unknown] /\ n \in Nat
  BY Zenon DEF PutFields, Fields
<1>8. /\ Place(blocks, v, k, j, SizeOf, BytesOf) = 1 + s + r
      /\ Place(blocks, v, k, j + 1, SizeOf, BytesOf)
           = 1 + s + Len(Prefixes(G, m)[(j + 1) - 1])
  BY Zenon DEF Place, Start
<1>9. k \in 1..n /\ j \in 1..m
  BY Zenon
<1> DEFINE y == PutValue(blk, x, SizeOf, BytesOf)
<1>10. ASSUME Stands(b, 1 + s + r, blk.tag \o PutValue(blk, x, SizeOf, BytesOf)), b \in Seq(Byte)
       PROVE  ReadsBack(b, 1 + s + r, cases[k].num, WireType(blk.kind), Meaning(blk, x, BytesOf),
                        Len(blk.tag \o PutValue(blk, x, SizeOf, BytesOf)))
  BY <1>1, <1>6, <1>10, FieldReadBack
<1> HIDE DEF n, F, G, m, b, x
<1>11. Concat(F, n) \in Seq(Byte)
  BY <1>3, <1>7, ConcatBytes, Zenon
<1>12. b \in Seq(Byte) /\ Stands(b, 1, Concat(F, n))
  BY <1>7, <1>11, StandsFirst, Zenon
<1>13. Stands(b, 1 + s, Concat(G, m))
  BY <1>3, <1>4, <1>7, <1>9, <1>12, PartStands, Zenon
<1>14. Stands(b, 1 + s + r, G[j]) /\ Len(Prefixes(G, m)[j]) = r + Len(G[j])
       /\ Prefixes(G, m)[j - 1] \in Seq(Byte) /\ Prefixes(F, n)[k - 1] \in Seq(Byte)
  <2>1. Prefixes(F, n)[k - 1] \in Seq(Byte)
    BY <1>3, <1>7, <1>9, <1>12, PartStands, Zenon
  <2>2. /\ Stands(b, 1 + s + r, G[j]) /\ Len(Prefixes(G, m)[j]) = r + Len(G[j])
        /\ Prefixes(G, m)[j - 1] \in Seq(Byte)
    BY <1>2, <1>6, <1>9, <1>12, <1>13, PartStands, Zenon
  <2> QED
    BY <2>1, <2>2, Zenon
<1>15. r \in Nat /\ s \in Nat /\ Len(G[j]) \in Nat
  BY <1>2, <1>9, <1>14, LenProperties, Zenon
<1> HIDE DEF r, s
<1>16. 1 + s + r + Len(G[j]) = 1 + s + (r + Len(G[j])) /\ (j + 1) - 1 = j
  <2>1. \A p, q, t \in Nat : 1 + p + q + t = 1 + p + (q + t)
    OBVIOUS
  <2>2. j \in Nat
    BY <1>6, <1>9, PartIndex, Zenon
  <2>3. \A p \in Nat : (p + 1) - 1 = p
    OBVIOUS
  <2> QED
    BY <1>15, <2>1, <2>2, <2>3, Zenon
<1>17. ReadsBack(b, 1 + s + r, cases[k].num, WireType(blk.kind), Meaning(blk, x, BytesOf),
                 Len(G[j]))
  BY <1>5, <1>10, <1>12, <1>14, Zenon
<1>18. 1 + s + r + Len(G[j]) = 1 + s + Len(Prefixes(G, m)[(j + 1) - 1])
  BY <1>14, <1>16, Zenon
<1> QED
  BY <1>5, <1>8, <1>17, <1>18, Zenon DEF b, x
=============================================================================
