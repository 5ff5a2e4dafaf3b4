----------------------------- MODULE WireFields -----------------------------
(***************************************************************************)
(* The vocabulary of the generated protocol buffer code.  Every MarshalTo, *)
(* Size and Unmarshal of metapb.pb.go and rpcpb.pb.go is a sequence of a   *)
(* few fixed blocks of code, one per field; an operator below names a      *)
(* block.  A field holds a sequence of values: exactly one for a value     *)
(* field, none or one for a pointer or a []byte, any number for a          *)
(* repeated field, so that a block that is skipped for nil and a block     *)
(* that loops over a slice are both "for every value of the field".        *)
(***************************************************************************)
EXTENDS Integers, Sequences

\* A block of MarshalTo: the bytes of the tag, then the value.
VarTo(tag, name) == [tag |-> tag, name |-> name, kind |-> "var", type |-> ""]
BoolTo(tag, name) == [tag |-> tag, name |-> name, kind |-> "bool", type |-> ""]
BytesTo(tag, name) ==
    [tag |-> tag, name |-> name, kind |-> "bytes", type |-> ""]
MsgTo(tag, name, type) ==
    [tag |-> tag, name |-> name, kind |-> "msg", type |-> type]

\* A term of Size: the length k of the tag, then that of the value; for a
\* bool the code adds one number for both (the field is named here for the
\* versions that lack it).
SizeVar(k, name) == [k |-> k, name |-> name, kind |-> "var", type |-> ""]
SizeBytes(k, name) == [k |-> k, name |-> name, kind |-> "bytes", type |-> ""]
SizeMsg(k, name, type) ==
    [k |-> k, name |-> name, kind |-> "msg", type |-> type]
SizeConst(k, name) == [k |-> k, name |-> name, kind |-> "const", type |-> ""]

\* A case of Unmarshal: the field number, whether the value replaces ("one"),
\* is set or merged ("opt") or is appended ("rep"), and how it is read.
Case(num, name, card, kind, type) ==
    [num |-> num, name |-> name, card |-> card, kind |-> kind, type |-> type]
OneVar(num, name, width) == Case(num, name, "one", "var", width)
RepVar(num, name, width) == Case(num, name, "rep", "var", width)
OneBool(num, name) == Case(num, name, "one", "bool", "")
OneBytes(num, name) == Case(num, name, "one", "bytes", "")
OptBytes(num, name) == Case(num, name, "opt", "bytes", "")
RepBytes(num, name) == Case(num, name, "rep", "bytes", "")
OneMsg(num, name, type) == Case(num, name, "one", "msg", type)
OptMsg(num, name, type) == Case(num, name, "opt", "msg", type)
RepMsg(num, name, type) == Case(num, name, "rep", "msg", type)
=============================================================================
