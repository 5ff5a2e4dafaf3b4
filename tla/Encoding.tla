------------------------------ MODULE Encoding ------------------------------
(***************************************************************************)
(* The bytes of the generated protocol buffer code: varints, the field     *)
(* that a block of MarshalTo writes, the term of Size that counts it and   *)
(* the readers of one field.  Codec puts fields and messages together.     *)
(*                                                                         *)
(* An integer is that of its int32, int64 or uint64 field; none is 2^63 or *)
(* more, and a negative one is written as its uint64, in ten bytes.        *)
(***************************************************************************)
EXTENDS Integers, Sequences

Unknown == "XXX_unrecognized"

\* The sequences f[1] to f[n] one behind the other, and the sum of numbers.
Prefixes(f, n) ==
    LET cat[k \in 0..n] == IF k = 0 THEN <<>> ELSE cat[k - 1] \o f[k]
    IN  cat
Concat(f, n) == Prefixes(f, n)[n]
Subtotals(f, n) ==
    LET sum[k \in 0..n] == IF k = 0 THEN 0 ELSE sum[k - 1] + f[k]
    IN  sum
Total(f, n) == Subtotals(f, n)[n]

(***************************************************************************)
(* Varints: seven bits a byte, the lowest first, 0x80 on all but the last. *)
(***************************************************************************)
\* What v is in each turn of the loop (v >>= 7), which ends below 1 << 7.
Turns(n) ==
    LET v[k \in 1..9] == IF k = 1 THEN n ELSE v[k - 1] \div 128 IN v
Width(vs) ==
    CHOOSE k \in 1..9 : vs[k] < 128 /\ \A j \in 1..(k - 1) : vs[j] >= 128
Septets(n) ==
    LET vs == Turns(n) IN [k \in 1..Width(vs) |-> vs[k] % 128]

\* uint64(v) of a negative integer: the complement, in all 64 bits.
At(ds, k) == IF k <= Len(ds) THEN ds[k] ELSE 0
Complement(ds) ==
    [k \in 1..10 |-> IF k = 10 THEN 1 - At(ds, k) ELSE 127 - At(ds, k)]
Digits(v) == IF v >= 0 THEN Septets(v) ELSE Complement(Septets(-v - 1))

encodeVarint(v) ==
    LET ds == Digits(v)
    IN  [k \in 1..Len(ds) |-> ds[k] + (IF k < Len(ds) THEN 128 ELSE 0)]

\* bits.Len64(x|1), from the highest seven bits that are not zero.
Len7(d) ==
    LET power == <<2, 4, 8, 16, 32, 64, 128>>
    IN  CHOOSE k \in 1..7 : d < power[k] /\ (k > 1 => d >= power[k - 1])
Len64(v) ==
    LET vs == Turns(v)
        w == Width(vs)
    IN  IF v < 0 THEN 64 ELSE 7 * (w - 1) + Len7(vs[w])

\* Mutant: a negative number is taken for one of 32 bits.
sov_32(v) == IF v < 0 THEN 5 ELSE (Len64(v) + 6) \div 7
sov(v) == (Len64(v) + 6) \div 7

\* The loop that every reader repeats: it fails on the end of the data, and
\* after ten bytes that all ask for another.  Otherwise the septets and the
\* index behind them.
NotRead == [ok |-> FALSE, ds |-> <<>>, next |-> 0]
ReadVarint(b, i) ==
    LET ends == {j \in i..(i + 9) : j <= Len(b) /\ b[j] < 128}
        e == CHOOSE j \in ends : \A k \in ends : j <= k
    IN  IF ends = {} THEN NotRead
        ELSE [ok |-> TRUE, next |-> e + 1,
              ds |-> [k \in 1..(e - i + 1) |-> b[i + k - 1] % 128]]

\* The integer in septets: bit 63 makes it a negative one.
Value(ds) ==
    LET value[k \in 1..10] ==
            IF k = 10 THEN 0 ELSE At(ds, k) + 128 * value[k + 1]
    IN  value[1]
Number(ds) ==
    IF At(ds, 10) % 2 = 1 THEN -Value(Complement(ds)) - 1 ELSE Value(ds)

(***************************************************************************)
(* Fields.  SizeOf and BytesOf are Size and MarshalTo of a message in the  *)
(* field: Codec closes the recursion, and its Size and MarshalTo consist   *)
(* of SizeOfFields and PutFields.                                          *)
(***************************************************************************)
\* Size: a term, and the whole sum.
TermSize(s, x, SizeOf(_, _)) ==
    CASE s.kind = "var" -> s.k + sov(x)
      [] s.kind = "bytes" -> s.k + Len(x) + sov(Len(x))
      [] OTHER -> LET l == SizeOf(s.type, x) IN s.k + l + sov(l)
FieldSize(s, vs, SizeOf(_, _)) ==
    IF s.kind = "const" THEN s.k
    ELSE Total([j \in 1..Len(vs) |-> TermSize(s, vs[j], SizeOf)], Len(vs))
SizeOfFields(terms, v, SizeOf(_, _)) ==
    Total([k \in 1..Len(terms) |->
              FieldSize(terms[k], v[terms[k].name], SizeOf)], Len(terms))
        + Len(v[Unknown])

\* MarshalTo: a block, and all of them.  The length that stands before a
\* message is its Size, not the number of bytes that are written for it.
Bit(x) == IF x THEN 1 ELSE 0
PutValue(b, x, SizeOf(_, _), BytesOf(_, _)) ==
    CASE b.kind = "var" -> encodeVarint(x)
      [] b.kind = "bool" -> <<Bit(x)>>
      [] b.kind = "bytes" -> encodeVarint(Len(x)) \o x
      [] OTHER -> encodeVarint(SizeOf(b.type, x)) \o BytesOf(b.type, x)
PutField(b, vs, SizeOf(_, _), BytesOf(_, _)) ==
    Concat([j \in 1..Len(vs) |->
               b.tag \o PutValue(b, vs[j], SizeOf, BytesOf)], Len(vs))
PutFields(blocks, v, SizeOf(_, _), BytesOf(_, _)) ==
    Concat([k \in 1..Len(blocks) |->
               PutField(blocks[k], v[blocks[k].name], SizeOf, BytesOf)],
           Len(blocks))
        \o v[Unknown]

\* The value at i behind a tag: a number, or a length and its bytes; Taken is
\* what follows from the varint that is read there.
Taken(wireType, b, read) ==
    LET num == read
        n == Number(num.ds)
        post == num.next + n
    IN  IF ~num.ok THEN [ok |-> FALSE]
        ELSE IF wireType = 0 THEN [ok |-> TRUE, next |-> num.next, v |-> n]
        ELSE IF n < 0 \/ post > Len(b) + 1 THEN [ok |-> FALSE]
        ELSE [ok |-> TRUE, next |-> post, v |-> SubSeq(b, num.next, post - 1)]
ReadValue(wireType, b, i) == Taken(wireType, b, ReadVarint(b, i))

\* The index behind the field at i that is no group, or 0 for an error:
\* skipMetapb, skipRpcpb.
skipField(b, i) ==
    LET tag == ReadVarint(b, i)
        body == ReadVarint(b, tag.next)
        Wire(w) == tag.ds[1] % 8 = w
    IN  CASE ~tag.ok -> 0
          [] tag.ok /\ Wire(0) -> body.next
          [] tag.ok /\ Wire(1) -> tag.next + 8
          [] tag.ok /\ Wire(2) ->
                IF body.ok /\ Number(body.ds) >= 0
                THEN body.next + Number(body.ds) ELSE 0
          [] tag.ok /\ Wire(4) -> tag.next
          [] tag.ok /\ Wire(5) -> tag.next + 4
          [] OTHER -> 0

(***************************************************************************)
(* What Size, MarshalTo and Unmarshal of a message have to agree on: the   *)
(* term s counts what the block b writes, and the case c reads it.         *)
(***************************************************************************)
WireType(kind) == IF kind \in {"var", "bool"} THEN 0 ELSE 2
Counts(s, b) ==
    /\ s.name = b.name
    /\ IF b.kind = "bool"
       THEN s.kind = "const" /\ s.k = Len(b.tag) + 1
       ELSE s.kind = b.kind /\ s.type = b.type /\ s.k = Len(b.tag)
Accords(c, b) ==
    /\ c.name = b.name /\ c.kind = b.kind
    /\ c.kind = "msg" => c.type = b.type
    /\ b.tag = encodeVarint(8 * c.num + WireType(b.kind))
=============================================================================
