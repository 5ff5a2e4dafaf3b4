------------------------------- MODULE Codec --------------------------------
(***************************************************************************)
(* The generated protocol buffer code: Size, MarshalTo and Unmarshal of a  *)
(* message, as the blocks of WireFields compose them.                      *)
(*                                                                         *)
(* A version m of the messages maps the types to what their MarshalTo      *)
(* writes (m.blocks), their Size adds up (m.terms) and their Unmarshal     *)
(* accepts (m.cases).  A message is a function from the names of its       *)
(* fields to sequences of values, with the bytes it did not recognise      *)
(* under XXX_unrecognized.  Integers are those of TLC: there is no uint64  *)
(* above 2^31 - 1; a negative int32 or int64 is written in ten bytes.      *)
(***************************************************************************)
EXTENDS Encoding, FiniteSets

(***************************************************************************)
(* Size, MarshalTo and Marshal.  Marshal allocates what Size says and      *)
(* MarshalTo fills it: the length of an inner message is its Size, not     *)
(* the number of bytes that are written for it.                            *)
(***************************************************************************)
RECURSIVE Size(_, _, _)
Size(m, t, v) ==
    SizeOfFields(m.terms[t], v, LAMBDA u, x : Size(m, u, x))

RECURSIVE MarshalTo(_, _, _)
MarshalTo(m, t, v) ==
    PutFields(m.blocks[t], v, LAMBDA u, x : Size(m, u, x),
                              LAMBDA u, x : MarshalTo(m, u, x))

(***************************************************************************)
(* Unmarshal.  A field number without a case is skipped, and its bytes     *)
(* are kept; a field with the wrong wire type, and data that ends early,   *)
(* are errors.                                                             *)
(***************************************************************************)
\* The index behind the field at i, a group included.
RECURSIVE skip(_, _), skipGroup(_, _)
skip(b, i) ==
    LET tag == ReadVarint(b, i)
    IN  IF tag.ok /\ tag.ds[1] % 8 = 3 THEN skipGroup(b, tag.next)
        ELSE skipField(b, i)
skipGroup(b, i) ==
    LET inner == ReadVarint(b, i)
    IN  IF ~inner.ok THEN 0
        ELSE IF inner.ds[1] % 8 = 4 THEN inner.next
        ELSE LET next == skip(b, i)
             IN  IF next = 0 THEN 0 ELSE skipGroup(b, next)

\* The zero value of the Go struct.
RECURSIVE Zero(_, _)
ZeroOf(m, c) ==
    IF c.card # "one" THEN <<>>
    ELSE CASE c.kind = "var" -> <<0>>
           [] c.kind = "bool" -> <<FALSE>>
           [] c.kind = "bytes" -> << <<>> >>
           [] c.kind = "msg" -> <<Zero(m, c.type)>>
Zero(m, t) ==
    LET names == {c.name : c \in m.cases[t]}
        CaseOf(n) == CHOOSE c \in m.cases[t] : c.name = n
    IN  [n \in names \union {Unknown} |->
            IF n = Unknown THEN <<>> ELSE ZeroOf(m, CaseOf(n))]

Failed == [ok |-> FALSE, v |-> <<>>]

\* Varints one behind the other: a packed repeated field, which MarshalTo
\* never writes and Unmarshal accepts.
RECURSIVE Unpack(_)
Unpack(b) ==
    IF b = <<>> THEN [ok |-> TRUE, v |-> <<>>]
    ELSE LET one == ReadVarint(b, 1)
         IN  IF ~one.ok THEN Failed
             ELSE LET rest == Unpack(SubSeq(b, one.next, Len(b)))
                  IN  [ok |-> rest.ok, v |-> <<Number(one.ds)>> \o rest.v]

RECURSIVE UnmarshalFrom(_, _, _, _, _)
\* What the case c makes of the length-delimited bytes x: a message is merged
\* into the one that is there (OptMsg, OneMsg) or into a new one (RepMsg).
Delimited(m, c, old, x) ==
    CASE c.kind = "bytes" -> [ok |-> TRUE, v |-> <<x>>]
      [] c.kind = "var" -> Unpack(x)
      [] c.kind = "msg" ->
            LET into == IF c.card = "rep" \/ old = <<>>
                        THEN Zero(m, c.type) ELSE old[1]
                inner == UnmarshalFrom(m, c.type, into, x, 1)
            IN  [ok |-> inner.ok, v |-> <<inner.v>>]

Accepts(c, wireType) ==
    \/ wireType = 0 /\ c.kind \in {"var", "bool"}
    \/ wireType = 2 /\ (c.kind \in {"bytes", "msg"} \/ c.card = "rep")

\* The values read for the case c from index i on and the index behind them:
\* what Unmarshal stores of the value that is read there.
Converted(m, c, wireType, old, value) ==
    LET read == value
        inner == Delimited(m, c, old, read.v)
    IN  IF ~Accepts(c, wireType) \/ ~read.ok THEN [ok |-> FALSE]
        ELSE IF wireType = 0
        THEN [ok |-> TRUE, next |-> read.next,
              v |-> <<IF c.kind = "bool" THEN read.v # 0 ELSE read.v>>]
        ELSE IF ~inner.ok THEN [ok |-> FALSE]
        ELSE [ok |-> TRUE, next |-> read.next, v |-> inner.v]
ReadCase(m, c, wireType, old, b, i) ==
    Converted(m, c, wireType, old, ReadValue(wireType, b, i))

\* Mutant: unrecognised fields are skipped and forgotten.
Keep_Nothing(v, b, i, next) == v
\* The bytes of an unrecognised field are appended to XXX_unrecognized.
Keep(v, b, i, next) == [v EXCEPT ![Unknown] = @ \o SubSeq(b, i, next - 1)]

\* One turn of the loop of Unmarshal for every field, from index i on.
UnmarshalFrom(m, t, v, b, i) ==
    IF i > Len(b) THEN [ok |-> TRUE, v |-> v]
    ELSE
    LET tag == ReadVarint(b, i)
        wire == Number(tag.ds)
        wireType == wire % 8
        fieldNum == wire \div 8
        known == {c \in m.cases[t] : c.num = fieldNum}
        c == CHOOSE c \in known : TRUE
        read == ReadCase(m, c, wireType, v[c.name], b, tag.next)
        skippy == skip(b, i)
    IN  IF ~tag.ok \/ wireType = 4 \/ fieldNum <= 0 THEN Failed
        ELSE IF known = {}
        THEN IF skippy = 0 \/ skippy > Len(b) + 1 THEN Failed
             ELSE UnmarshalFrom(m, t, Keep(v, b, i, skippy), b, skippy)
        ELSE IF ~read.ok THEN Failed
        ELSE UnmarshalFrom(m, t,
                 [v EXCEPT ![c.name] =
                     IF c.card = "rep" THEN @ \o read.v ELSE read.v],
                 b, read.next)

Unmarshal(m, t, b) == UnmarshalFrom(m, t, Zero(m, t), b, 1)
=============================================================================
