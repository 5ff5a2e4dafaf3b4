-------------------------- MODULE RequestFlowProofs --------------------------
(***************************************************************************)
(* What holds of requests on their way through the proxy, for any number   *)
(* of requests, workers and pooled objects and any APIs: BatchesInOrder,   *)
(* WritesOwned, RenderedWhole, ResponsesReleased and DependComplete.       *)
(*                                                                         *)
(* The steps are first brought into shapes that say what they do to the    *)
(* records (StepCases).  All results rest on CoreInv: who has which node   *)
(* (OwnInv, HeldInv), that no node is in two places (PlacesInv), and that  *)
(* a wait group counts exactly the open nodes, those prepared and not      *)
(* completed, of the one request that has it (OpenInv, GroupInv,           *)
(* CountInv).  A group at zero then means that its request has no open     *)
(* node (Waited), which is what a new batch and rendering wait for.        *)
(***************************************************************************)
EXTENDS RequestFlow, FiniteSetTheorems, SequenceTheorems, TLAPS

-----------------------------------------------------------------------------
(* Types.                                                                  *)

NoApi == [nodes |-> <<>>, def |-> FALSE]
Apis == (UNION {Api[q] : q \in Request}) \cup {NoApi}
Parts == SUBSET Nat

Req == [pc : {"idle", "loop", "copy", "send", "put", "proxy", "render", "done"},
        api : Apis, dns : Seq(Object), idx : Nat, last : Nat, wg : Group \cup {0},
        to : Worker \cup {0},
        answer : {"none", "503", "404", "default", "error", "aggregate", "body"}]
Dn == [q : Request \cup {NoRequest}, idx : Nat, dest : BOOLEAN, copyTo : BOOLEAN,
       err : BOOLEAN, res : {"none", "empty", "body"}, wg : Group \cup {0},
       seen : Parts \cup {Torn, Unread}]
Ex == [pc : {"idle", "exit", "start", "do", "retry", "complete", "write"},
       o : Object \cup {0}, q : Request \cup {NoRequest}, times : Nat, old : Parts]

\* An execution has a node; a request is not a worker that exits.
Busy(e) == ex[e].pc \notin {"idle", "exit"}
ExTypes ==
    /\ \A e \in Executor : Busy(e) => ex[e].o \in Object
    /\ \A q \in Request : ex[q].pc # "exit"

\* A request has one of its APIs, or none; it puts its node in the channel of a worker.
ReqTypes ==
    \A q \in Request :
        /\ req[q].api \in Api[q] \cup {NoApi}
        /\ req[q].pc = "put" => req[q].to \in Worker

FlowTypes ==
    /\ req \in [Request -> Req] /\ ReqTypes
    /\ dn \in [Object -> Dn]
    /\ ex \in [Executor -> Ex] /\ ExTypes
    /\ queue \in [Worker -> Seq(Object)]
    /\ dispatchIndex \in Worker
    /\ wg \in [Group -> Int] /\ wgFree \in SUBSET Group
    /\ data \in [Request -> Parts]
    /\ mutex \in [Request -> BOOLEAN]
    /\ depend \in [Request -> Parts \cup {Torn}]
    /\ resp \in [Request \cup {NoRequest} -> Int]

LEMMA NotRequest == NoRequest \notin Request /\ \A w \in Worker : w \notin Request
  BY RequestFlowAssumption

\* The nodes of an API are in the order of their batches.
LEMMA ApiFacts ==
    ASSUME NEW q \in Request, NEW a \in Api[q] \cup {NoApi}
    PROVE  /\ a.nodes \in Seq(Node) /\ a.def \in BOOLEAN
           /\ Len(a.nodes) \in Nat /\ DOMAIN a.nodes = 1..Len(a.nodes)
           /\ \A i \in 1..Len(a.nodes) : a.nodes[i] \in Node
           /\ \A i, j \in 1..Len(a.nodes) : i <= j => a.nodes[i].batch <= a.nodes[j].batch
<1>1. CASE a \in Api[q]
  <2>1. a.nodes \in Seq(Node) /\ a.def \in BOOLEAN
    BY <1>1, RequestFlowAssumption
  <2>2. \A i, j \in DOMAIN a.nodes : i <= j => a.nodes[i].batch <= a.nodes[j].batch
    BY <1>1, RequestFlowAssumption
  <2> QED
    BY <2>1, <2>2
<1>2. CASE a = NoApi
  <2>1. a.nodes = <<>> /\ a.def = FALSE
    BY <1>2 DEF NoApi
  <2>2. a.nodes \in Seq(Node) /\ Len(a.nodes) = 0
    BY <2>1
  <2>3. DOMAIN a.nodes = 1..Len(a.nodes) /\ 1..Len(a.nodes) = {}
    BY <2>2
  <2> QED
    BY <2>1, <2>2, <2>3
<1> QED
  BY <1>1, <1>2

LEMMA NodesFacts ==
    ASSUME FlowTypes, NEW q \in Request
    PROVE  /\ Nodes(q) \in Seq(Node) /\ Len(Nodes(q)) \in Nat /\ Index(q) = 1..Len(Nodes(q))
           /\ \A i \in Index(q) : Nodes(q)[i] \in Node
           /\ \A i, j \in Index(q) : i <= j => Batch(Nodes(q)[i]) <= Batch(Nodes(q)[j])
<1>1. req[q].api \in Api[q] \cup {NoApi}
  BY DEF FlowTypes, ReqTypes
<1>2. /\ Nodes(q) \in Seq(Node) /\ Len(Nodes(q)) \in Nat /\ Index(q) = 1..Len(Nodes(q))
      /\ \A i \in Index(q) : Nodes(q)[i] \in Node
      /\ \A i, j \in Index(q) : i <= j => Nodes(q)[i].batch <= Nodes(q)[j].batch
  BY <1>1, ApiFacts DEF Nodes, Index
<1>3. \A i \in Index(q) : Nodes(q)[i].batch \in Int
  BY <1>2 DEF Node
<1> QED
  BY <1>2, <1>3 DEF Batch

LEMMA ConstantTypes ==
    /\ FreeDn \in Dn /\ NoReq \in Req /\ IdleEx \in Ex
    /\ NoReq.api = NoApi /\ NoReq.pc = "idle"
    /\ FreeDn.q = NoRequest /\ FreeDn.res = "none" /\ FreeDn.seen = Unread /\ FreeDn.wg = 0
    /\ IdleEx.pc = "idle"
<1>1. FreeDn \in Dn
  BY DEF FreeDn, Dn
<1>2. NoReq \in Req
  <2> DEFINE d == <<>>
  <2>1. d \in Seq(Object)
    OBVIOUS
  <2> HIDE DEF d
  <2>2. NoApi \in Apis
    BY DEF Apis
  <2>3. NoReq = [pc |-> "idle", api |-> NoApi, dns |-> d, idx |-> 0, last |-> 0, wg |-> 0,
                 to |-> 0, answer |-> "none"]
    BY DEF NoReq, NoApi, d
  <2> QED
    BY <2>1, <2>2, <2>3 DEF Req
<1>3. IdleEx \in Ex
  BY DEF IdleEx, Ex, Parts
<1> QED
  BY <1>1, <1>2, <1>3 DEF FreeDn, NoReq, IdleEx, NoApi

LEMMA InitTypes == Init => FlowTypes
<1> SUFFICES ASSUME Init PROVE FlowTypes
  OBVIOUS
<1>1. req \in [Request -> Req] /\ dn \in [Object -> Dn] /\ ex \in [Executor -> Ex]
  BY ConstantTypes DEF Init
<1>2. ReqTypes
  BY ConstantTypes DEF Init, ReqTypes
<1>3. ExTypes
  BY ConstantTypes DEF Init, ExTypes, Busy, Executor
<1>4. dispatchIndex \in Worker
  BY RequestFlowAssumption, FS_CardinalityType, FS_EmptySet DEF Init
<1> QED
  BY <1>1, <1>2, <1>3, <1>4 DEF Init, FlowTypes, Parts

-----------------------------------------------------------------------------
(* What the steps do to the records.                                       *)

\* The other requests, executions and nodes stay as they are.
ReqOthers(q) == \A r \in Request : r # q => req'[r] = req[r]
ExOthers(e) == \A f \in Executor : f # e => ex'[f] = ex[f]
DnOthers(o) == \A p \in Object : p # o => dn'[p] = dn[p]

Current(q) == req[q].dns[req[q].idx]

\* Request q goes to p, to index i, last batch l and group g.
Turns(q, p, i, l, g) ==
    /\ req' \in [Request -> Req]
    /\ ReqOthers(q)
    /\ req'[q].pc = p /\ req'[q].idx = i /\ req'[q].last = l /\ req'[q].wg = g
    /\ req'[q].api = req[q].api /\ req'[q].dns = req[q].dns

\* It stays at its index.
Moves(q, p) == Turns(q, p, req[q].idx, req[q].last, req[q].wg)

\* Execution e goes on with its node.
Continues(e, p) ==
    /\ ex' \in [Executor -> Ex]
    /\ ExOthers(e)
    /\ ex'[e].pc = p /\ ex'[e].o = ex[e].o /\ ex'[e].q = ex[e].q

\* Node o stays where it is and in the request that has it.
Changes(o) ==
    /\ dn' \in [Object -> Dn]
    /\ DnOthers(o)
    /\ dn'[o].q = dn[o].q /\ dn'[o].idx = dn[o].idx

LEMMA SendCopyShape ==
    ASSUME FlowTypes, NEW q \in Request, SendCopy(q)
    PROVE  /\ req[q].pc = "copy" /\ Moves(q, "send")
           /\ UNCHANGED <<dn, ex, queue, dispatchIndex, wg, wgFree, data, mutex, depend, resp>>
<1>1. req \in [Request -> Req] /\ req' = [req EXCEPT ![q].pc = "send"]
  BY DEF FlowTypes, SendCopy
<1>2. Moves(q, "send")
  BY <1>1 DEF Moves, Turns, ReqOthers, Req
<1> QED
  BY <1>2 DEF SendCopy

LEMMA WorkerCount == Cardinality(Worker) \in Nat \ {0} /\ Worker = 1..Cardinality(Worker)
  BY RequestFlowAssumption, FS_CardinalityType, FS_EmptySet

LEMMA NextWorker == ASSUME FlowTypes PROVE getIndex \in Worker
<1> DEFINE n == Cardinality(Worker)
<1>1. n \in Nat /\ n > 0 /\ Worker = 1..n /\ dispatchIndex \in Nat
  BY WorkerCount DEF FlowTypes
<1>2. getIndex = (dispatchIndex % n) + 1
  BY DEF getIndex
<1> HIDE DEF n
<1>3. dispatchIndex % n \in 0..(n - 1)
  BY <1>1
<1> QED
  BY <1>1, <1>2, <1>3

LEMMA StartedEx ==
    ASSUME NEW q \in Request, NEW o \in Object
    PROVE  \E x \in Ex : /\ x = [IdleEx EXCEPT !.pc = "start", !.q = q, !.o = o]
                         /\ x.pc = "start" /\ x.o = o /\ x.q = q
<1> DEFINE x == [IdleEx EXCEPT !.pc = "start", !.q = q, !.o = o]
<1>1. x \in Ex
  BY ConstantTypes DEF Ex
<1>2. x.pc = "start" /\ x.o = o /\ x.q = q
  BY ConstantTypes DEF Ex
<1> QED
  BY <1>1, <1>2

LEMMA DispatchShape ==
    ASSUME FlowTypes, NEW q \in Request, Dispatch(q), Current(q) \in Object
    PROVE  /\ req[q].pc = "send" /\ dispatchIndex' \in Worker
           /\ UNCHANGED <<dn, queue, wg, wgFree, data, mutex, depend, resp>>
           /\ \/ /\ req[q].wg # 0 /\ Moves(q, "put") /\ req'[q].to \in Worker /\ ex' = ex
              \/ /\ req[q].wg = 0 /\ Moves(q, "proxy")
                 /\ ex' \in [Executor -> Ex] /\ ExOthers(q)
                 /\ ex'[q].pc = "start" /\ ex'[q].o = Current(q) /\ ex'[q].q = q
<1>1. req \in [Request -> Req] /\ ex \in [Executor -> Ex] /\ dispatchIndex \in Worker
  BY DEF FlowTypes
<1>2. CASE req[q].wg # 0
  <2>1. req' = [req EXCEPT ![q].pc = "put", ![q].to = getIndex] /\ getIndex \in Worker
        /\ dispatchIndex' = getIndex /\ ex' = ex
    BY <1>2, NextWorker DEF Dispatch
  <2> HIDE DEF getIndex
  <2>2. Moves(q, "put") /\ req'[q].to \in Worker
    BY <1>1, <2>1 DEF Moves, Turns, ReqOthers, Req
  <2> QED
    BY <1>2, <2>1, <2>2 DEF Dispatch
<1>3. CASE req[q].wg = 0
  <2>1. /\ req' = [req EXCEPT ![q].pc = "proxy"] /\ dispatchIndex' = dispatchIndex
        /\ ex' = [ex EXCEPT ![q] = [IdleEx EXCEPT !.pc = "start", !.q = q, !.o = Current(q)]]
    BY <1>3 DEF Dispatch, Current
  <2>2. Moves(q, "proxy")
    BY <1>1, <2>1 DEF Moves, Turns, ReqOthers, Req
  <2>3. PICK x \in Ex : /\ x = [IdleEx EXCEPT !.pc = "start", !.q = q, !.o = Current(q)]
                        /\ x.pc = "start" /\ x.o = Current(q) /\ x.q = q
    BY StartedEx
  <2>4. ex' = [ex EXCEPT ![q] = x] /\ q \in Executor
    BY <2>1, <2>3 DEF Executor
  <2>5. ex' \in [Executor -> Ex] /\ ExOthers(q) /\ ex'[q] = x
    BY <1>1, <2>3, <2>4 DEF ExOthers
  <2> QED
    BY <1>1, <1>3, <2>1, <2>2, <2>3, <2>5 DEF Dispatch
<1> QED
  BY <1>1, <1>2, <1>3 DEF Req

LEMMA PutShape ==
    ASSUME FlowTypes, NEW q \in Request, Put(q), Current(q) \in Object
    PROVE  /\ req[q].pc = "put" /\ Turns(q, "loop", req[q].idx + 1, req[q].last, req[q].wg)
           /\ req[q].to \in Worker
           /\ queue' = [queue EXCEPT ![req[q].to] = Append(@, Current(q))]
           /\ queue' \in [Worker -> Seq(Object)]
           /\ UNCHANGED <<dn, ex, dispatchIndex, wg, wgFree, data, mutex, depend, resp>>
<1>1. req \in [Request -> Req] /\ queue \in [Worker -> Seq(Object)] /\ req[q].pc = "put"
      /\ req[q].to \in Worker
  BY DEF FlowTypes, ReqTypes, Put
<1>2. /\ req' = [req EXCEPT ![q].pc = "loop", ![q].to = 0, ![q].idx = @ + 1]
      /\ queue' = [queue EXCEPT ![req[q].to] = Append(@, Current(q))]
  BY DEF Put, Current
<1>3. Turns(q, "loop", req[q].idx + 1, req[q].last, req[q].wg)
  <2>1. PICK x \in Req : /\ x = [req[q] EXCEPT !.pc = "loop", !.to = 0, !.idx = @ + 1]
                         /\ x.pc = "loop" /\ x.idx = req[q].idx + 1 /\ x.last = req[q].last
                         /\ x.wg = req[q].wg /\ x.api = req[q].api /\ x.dns = req[q].dns
    <3>1. PICK y \in Req : y = req[q]
      BY <1>1
    <3>2. PICK i \in Nat : i = y.idx + 1
      BY DEF Req
    <3> DEFINE x == [y EXCEPT !.pc = "loop", !.to = 0, !.idx = i]
    <3>3. x \in Req
      BY DEF Req
    <3>4. /\ x.pc = "loop" /\ x.idx = i /\ x.last = y.last
          /\ x.wg = y.wg /\ x.api = y.api /\ x.dns = y.dns
      BY DEF Req
    <3> QED
      BY <3>1, <3>2, <3>3, <3>4
  <2>2. req' = [req EXCEPT ![q] = x]
    BY <1>2, <2>1
  <2> QED
    BY <1>1, <2>1, <2>2 DEF Turns, ReqOthers
<1>4. Append(queue[req[q].to], Current(q)) \in Seq(Object)
  BY <1>1
<1>5. queue' \in [Worker -> Seq(Object)]
  BY <1>1, <1>2, <1>4
<1> QED
  BY <1>1, <1>2, <1>3, <1>5 DEF Put

LEMMA ReturnedShape ==
    ASSUME FlowTypes, NEW q \in Request, Returned(q)
    PROVE  /\ req[q].pc = "proxy" /\ ~Busy(q)
           /\ Turns(q, "loop", req[q].idx + 1, req[q].last, req[q].wg)
           /\ UNCHANGED <<dn, ex, queue, dispatchIndex, wg, wgFree, data, mutex, depend, resp>>
<1>1. req \in [Request -> Req] /\ req' = [req EXCEPT ![q].pc = "loop", ![q].idx = @ + 1]
  BY DEF FlowTypes, Returned
<1>2. Turns(q, "loop", req[q].idx + 1, req[q].last, req[q].wg)
  BY <1>1 DEF Turns, ReqOthers, Req
<1> QED
  BY <1>2 DEF Returned, Busy

LEMMA RenderShape ==
    ASSUME FlowTypes, NEW q \in Request, Render(q)
    PROVE  /\ req[q].pc = "loop" /\ req[q].idx > Len(Nodes(q))
           /\ req[q].wg # 0 => wg[req[q].wg] = 0
           /\ Moves(q, "render")
           /\ wgFree' = wgFree \cup ({req[q].wg} \ {0})
           /\ resp' = [resp EXCEPT ![q] = @ - Responses(q)]
           /\ UNCHANGED <<dn, ex, queue, dispatchIndex, wg, data, mutex, depend>>
<1>1. Answer(q) \in {"none", "503", "404", "default", "error", "aggregate", "body"}
  BY DEF Answer
<1>2. req \in [Request -> Req] /\ req' = [req EXCEPT ![q].pc = "render", ![q].answer = Answer(q)]
  BY DEF FlowTypes, Render
<1>3. PICK x : x = Answer(q)
  OBVIOUS
<1>4. Moves(q, "render")
  BY <1>1, <1>2, <1>3 DEF Moves, Turns, ReqOthers, Req
<1> QED
  BY <1>4 DEF Render

LEMMA FinishShape ==
    ASSUME FlowTypes, NEW q \in Request, Finish(q)
    PROVE  /\ req[q].pc = "render" /\ req' \in [Request -> Req] /\ ReqOthers(q)
           /\ req'[q].pc = "done" /\ req'[q].api = NoApi
           /\ dn' = [o \in Object |->
                       IF \E i \in Index(q) : req[q].dns[i] = o THEN FreeDn ELSE dn[o]]
           /\ dn' \in [Object -> Dn]
           /\ data' = [data EXCEPT ![q] = {}]
           /\ depend' = [depend EXCEPT ![q] = {}]
           /\ UNCHANGED <<ex, queue, dispatchIndex, wg, wgFree, mutex, resp>>
<1>1. req \in [Request -> Req] /\ dn \in [Object -> Dn]
  BY DEF FlowTypes
<1>2. PICK x \in Req : /\ x = [NoReq EXCEPT !.pc = "done", !.answer = req[q].answer]
                       /\ x.pc = "done" /\ x.api = NoApi
  <2>1. PICK a : a = req[q].answer /\ a \in {"none", "503", "404", "default", "error",
                                              "aggregate", "body"}
    BY <1>1 DEF Req
  <2> DEFINE x == [NoReq EXCEPT !.pc = "done", !.answer = a]
  <2>2. x \in Req
    BY <2>1, ConstantTypes DEF Req
  <2>3. x.pc = "done" /\ x.api = NoApi
    BY <2>1, ConstantTypes DEF Req
  <2> QED
    BY <2>1, <2>2, <2>3
<1>3. req' = [req EXCEPT ![q] = x]
  BY <1>2 DEF Finish
<1>4. req' \in [Request -> Req] /\ ReqOthers(q) /\ req'[q] = x
  BY <1>1, <1>2, <1>3 DEF ReqOthers
<1>5. dn' = [o \in Object |->
                IF \E i \in Index(q) : req[q].dns[i] = o THEN FreeDn ELSE dn[o]]
  BY DEF Finish
<1>6. dn' \in [Object -> Dn]
  BY <1>1, <1>5, ConstantTypes
<1> QED
  BY <1>2, <1>4, <1>5, <1>6 DEF Finish

\* The group of the node that q prepares: that of the batch, or a new one.
Joins(q, g) ==
    \/ ~NewBatch(q) /\ g = req[q].wg
    \/ NewBatch(q) /\ wg[req[q].wg] = 0 /\ g \in NextGroup(q)

LEMMA PrepareShape ==
    ASSUME FlowTypes, NEW q \in Request, NEW g, Joins(q, g), PrepareNode(q, g),
           Current(q) \in Object
    PROVE  /\ req[q].pc = "loop" /\ req[q].idx <= Len(Nodes(q))
           /\ g \in Group \cup {0}
           /\ \E p \in {"copy", "send"} :
                 Turns(q, p, req[q].idx,
                       IF NewBatch(q) THEN Nodes(q)[req[q].idx].batch ELSE req[q].last, g)
           /\ Changes(Current(q))
           /\ dn' = [dn EXCEPT ![Current(q)].wg = g]
           /\ dn'[Current(q)].wg = g
           /\ dn'[Current(q)].res = dn[Current(q)].res
           /\ dn'[Current(q)].seen = dn[Current(q)].seen
           /\ dn'[Current(q)].err = dn[Current(q)].err
           /\ JoinGroup(g) /\ AssignDepend(q) /\ wgFree' = wgFree \ {g}
           /\ UNCHANGED <<ex, queue, dispatchIndex, data, mutex, resp>>
<1> DEFINE l == IF NewBatch(q) THEN Nodes(q)[req[q].idx].batch ELSE req[q].last
           o == Current(q)
           p == IF dn[o].copyTo THEN "copy" ELSE "send"
<1>1. req \in [Request -> Req] /\ dn \in [Object -> Dn] /\ wgFree \subseteq Group
  BY DEF FlowTypes
<1>2. g \in Group \cup {0}
  <2>1. req[q].wg \in Group \cup {0}
    BY <1>1 DEF Req
  <2> QED
    BY <1>1, <2>1 DEF Joins, NextGroup, AcquireGroup
<1>3. l \in Nat
  <2>1. CASE NewBatch(q)
    <3>1. Nodes(q)[req[q].idx] \in Node
      BY <2>1, NodesFacts DEF NewBatch
    <3>2. req[q].last \in Nat /\ Nodes(q)[req[q].idx].batch \in Int
      BY <1>1, <3>1 DEF Node, Req
    <3> QED
      BY <2>1, <3>2 DEF NewBatch
  <2>2. CASE ~NewBatch(q)
    BY <1>1, <2>2 DEF Req
  <2> QED
    BY <2>1, <2>2
<1>4. /\ req' = [req EXCEPT ![q].pc = p, ![q].wg = g, ![q].last = l]
      /\ dn' = [dn EXCEPT ![o].wg = g]
  BY DEF PrepareNode, Current
<1> HIDE DEF l, p
<1>5. PICK y \in Req : y = req[q]
  BY <1>1
<1>6. p \in {"copy", "send"}
  BY DEF p
<1> DEFINE x == [y EXCEPT !.pc = p, !.wg = g, !.last = l]
<1>7. x \in Req
  BY <1>2, <1>3, <1>6 DEF Req
<1>8. /\ x.pc = p /\ x.idx = y.idx /\ x.last = l /\ x.wg = g /\ x.api = y.api
      /\ x.dns = y.dns
  BY DEF Req
<1>9. req' = [req EXCEPT ![q] = x]
  BY <1>4, <1>5
<1> HIDE DEF x
<1>10. Turns(q, p, req[q].idx, l, g)
  BY <1>1, <1>5, <1>7, <1>8, <1>9 DEF Turns, ReqOthers
<1>11. /\ Changes(o) /\ dn'[o].wg = g /\ dn'[o].res = dn[o].res /\ dn'[o].seen = dn[o].seen
       /\ dn'[o].err = dn[o].err
  BY <1>1, <1>2, <1>4 DEF Changes, DnOthers, Dn
<1> QED
  BY <1>2, <1>4, <1>6, <1>10, <1>11 DEF PrepareNode, l

\* A request is refused.
Refused(q) ==
    /\ req[q].pc = "idle" /\ req' \in [Request -> Req] /\ ReqOthers(q)
    /\ req'[q].pc = "done" /\ req'[q].api = req[q].api
    /\ UNCHANGED <<dn, ex, queue, dispatchIndex, wg, wgFree, data, mutex, depend, resp>>

\* Request q gets API a, free nodes and a free group.
Accepted(q, a, objs, g) ==
    /\ req[q].pc = "idle" /\ req' \in [Request -> Req] /\ ReqOthers(q)
    /\ objs \in [1..Len(a.nodes) -> Object]
    /\ \A i \in 1..Len(a.nodes) : dn[objs[i]].q = NoRequest
    /\ \A i, j \in 1..Len(a.nodes) : objs[i] = objs[j] => i = j
    /\ IF Len(a.nodes) > 1 THEN g \in wgFree ELSE g = 0
    /\ req'[q].pc = "loop" /\ req'[q].api = a /\ req'[q].dns = objs /\ req'[q].idx = 1
    /\ req'[q].last = 0 /\ req'[q].wg = g
    /\ dn' \in [Object -> Dn]
    /\ \A i \in 1..Len(a.nodes) :
          /\ dn'[objs[i]].q = q /\ dn'[objs[i]].idx = i /\ dn'[objs[i]].wg = 0
          /\ dn'[objs[i]].res = "none" /\ dn'[objs[i]].seen = Unread
    /\ \A o \in Object : (\A i \in 1..Len(a.nodes) : objs[i] # o) => dn'[o] = dn[o]
    /\ wgFree' = wgFree \ {g}
    /\ UNCHANGED <<ex, queue, dispatchIndex, wg, data, mutex, depend, resp>>

LEMMA FirstFreeFacts ==
    ASSUME NEW S \in SUBSET Object, NEW n \in Nat, NEW s \in FirstFree(S, n)
    PROVE  s \in [1..n -> S] /\ \A i, j \in 1..n : s[i] = s[j] => i = j
<1>1. /\ s \in [1..n -> S]
      /\ \A i \in 1..n : \A x \in S : x < s[i] <=> \E j \in 1..(i - 1) : s[j] = x
  BY DEF FirstFree
<1>2. S \subseteq Nat
  BY RequestFlowAssumption
<1>3. ASSUME NEW i \in 1..n, NEW j \in 1..n, j < i PROVE s[i] # s[j]
  <2>1. j \in 1..(i - 1)
    BY <1>3
  <2>2. s[j] < s[i] /\ s[i] \in Nat /\ s[j] \in Nat
    BY <1>1, <1>2, <2>1
  <2> QED
    BY <2>2
<1>4. ASSUME NEW i \in 1..n, NEW j \in 1..n, s[i] = s[j] PROVE i = j
  BY <1>3, <1>4
<1> QED
  BY <1>1, <1>4

LEMMA ServeShape ==
    ASSUME FlowTypes, NEW q \in Request, Serve(q)
    PROVE  Refused(q) \/ \E a \in Api[q] : \E objs, g : Accepted(q, a, objs, g)
<1>1. req \in [Request -> Req] /\ dn \in [Object -> Dn] /\ wgFree \subseteq Group
  BY DEF FlowTypes
<1>2. ASSUME NEW s \in {"503", "404"},
             req' = [req EXCEPT ![q].pc = "done", ![q].answer = s], UNCHANGED <<dn, wgFree>>
      PROVE  Refused(q)
  <2>1. req' \in [Request -> Req] /\ ReqOthers(q) /\ req'[q].pc = "done"
        /\ req'[q].api = req[q].api
    BY <1>1, <1>2 DEF ReqOthers, Req
  <2> QED
    BY <1>2, <2>1 DEF Refused, Serve
<1>3. ASSUME NEW a \in Api[q],
             NEW objs \in FirstFree({o \in Object : dn[o].q = NoRequest}, Len(a.nodes)),
             NEW g \in IF Len(a.nodes) > 1 THEN AcquireGroup ELSE {0},
             Accept(q, a, objs, g)
      PROVE  Accepted(q, a, objs, g)
  <2> DEFINE n == Len(a.nodes)
             F == {o \in Object : dn[o].q = NoRequest}
             At(o) == CHOOSE i \in 1..n : objs[i] = o
  <2>1. n \in Nat /\ \A i \in 1..n : a.nodes[i] \in Node
    BY ApiFacts
  <2>2. objs \in [1..n -> F] /\ \A i, j \in 1..n : objs[i] = objs[j] => i = j
    BY <2>1, FirstFreeFacts
  <2>3. objs \in [1..n -> Object] /\ \A i \in 1..n : dn[objs[i]].q = NoRequest
    BY <2>2
  <2>4. IF n > 1 THEN g \in wgFree ELSE g = 0
    BY DEF AcquireGroup
  <2>5. g \in Group \cup {0}
    BY <1>1, <2>4
  <2>6. PICK x \in Req : /\ x = [NoReq EXCEPT !.pc = "loop", !.api = a, !.dns = objs,
                                              !.idx = 1, !.wg = g]
                         /\ x.pc = "loop" /\ x.api = a /\ x.dns = objs /\ x.idx = 1
                         /\ x.last = 0 /\ x.wg = g
    <3>1. objs \in Seq(Object)
      BY <2>1, <2>3, SeqDef
    <3>2. a \in Apis
      BY DEF Apis
    <3>3. PICK y \in Req : y = NoReq /\ y.last = 0
      BY ConstantTypes DEF NoReq
    <3> DEFINE z == [y EXCEPT !.pc = "loop", !.api = a, !.dns = objs]
               x == [z EXCEPT !.idx = 1, !.wg = g]
    <3>4. z \in Req /\ z.pc = "loop" /\ z.api = a /\ z.dns = objs /\ z.last = y.last
      BY <3>1, <3>2 DEF Req
    <3> HIDE DEF z
    <3>5. x \in Req /\ x.pc = z.pc /\ x.api = z.api /\ x.dns = z.dns /\ x.last = z.last
          /\ x.idx = 1 /\ x.wg = g
      BY <2>5, <3>4 DEF Req
    <3>6. x = [y EXCEPT !.pc = "loop", !.api = a, !.dns = objs, !.idx = 1, !.wg = g]
      BY DEF z
    <3> QED
      BY <3>3, <3>4, <3>5, <3>6
  <2>7. req' \in [Request -> Req] /\ ReqOthers(q) /\ req'[q] = x
    BY <1>1, <1>3, <2>6 DEF ReqOthers, Accept
  <2> DEFINE New(d, i) == [FreeDn EXCEPT !.q = q, !.idx = i, !.dest = d[i],
                                         !.copyTo = a.nodes[i].copy]
  <2>a. PICK dest \in [1..n -> BOOLEAN] :
           dn' = [o \in Object |->
                    IF \E i \in 1..n : objs[i] = o THEN New(dest, At(o)) ELSE dn[o]]
    <3> DEFINE D == DOMAIN objs
               AtD(o) == CHOOSE i \in D : objs[i] = o
    <3>1. D = 1..n
      BY <2>2
    <3>2. \E dest \in [D -> BOOLEAN] :
             dn' = [o \in Object |->
                      IF \E i \in D : objs[i] = o THEN New(dest, AtD(o)) ELSE dn[o]]
      BY <1>3 DEF Accept
    <3> HIDE DEF D, New, n
    <3> QED
      BY <3>1, <3>2
  <2>8. \A i \in 1..n : /\ New(dest, i) \in Dn /\ New(dest, i).q = q
                        /\ New(dest, i).idx = i /\ New(dest, i).wg = 0
                        /\ New(dest, i).res = "none" /\ New(dest, i).seen = Unread
    <3> TAKE i \in 1..n
    <3>1. dest[i] \in BOOLEAN /\ a.nodes[i].copy \in BOOLEAN /\ i \in Nat
      BY <2>1 DEF Node
    <3>2. PICK y \in Dn : y = FreeDn /\ y.wg = 0 /\ y.res = "none" /\ y.seen = Unread
      BY ConstantTypes
    <3> DEFINE z == [y EXCEPT !.q = q, !.idx = i]
               d == [z EXCEPT !.dest = dest[i], !.copyTo = a.nodes[i].copy]
    <3>3. z \in Dn /\ z.q = q /\ z.idx = i /\ z.wg = y.wg /\ z.res = y.res /\ z.seen = y.seen
      BY <3>1 DEF Dn
    <3> HIDE DEF z
    <3>4. d \in Dn /\ d.q = z.q /\ d.idx = z.idx /\ d.wg = z.wg /\ d.res = z.res
          /\ d.seen = z.seen
      BY <3>1, <3>3 DEF Dn
    <3>5. d = New(dest, i)
      BY <3>2 DEF z
    <3> QED
      BY <3>2, <3>3, <3>4, <3>5
  <2>9. \A o \in Object : dn'[o] = IF \E i \in 1..n : objs[i] = o THEN New(dest, At(o)) ELSE dn[o]
    BY <2>a
  <2> HIDE DEF New
  <2>10. \A i \in 1..n : At(objs[i]) = i
    BY <2>2
  <2> HIDE DEF At, F
  <2>11. \A i \in 1..n : dn'[objs[i]] = New(dest, i)
    BY <2>3, <2>9, <2>10
  <2>12. \A o \in Object : (\A i \in 1..n : objs[i] # o) => dn'[o] = dn[o]
    BY <2>9
  <2>13. dn' \in [Object -> Dn]
    <3>1. \A o \in Object : dn'[o] \in Dn
      BY <1>1, <2>8, <2>11, <2>12
    <3>2. PICK d : d = dn' /\ d = [o \in Object |-> d[o]]
      <4>1. PICK d : d = dn'
        OBVIOUS
      <4>2. d = [o \in Object |-> d[o]]
        BY <2>a, <4>1
      <4> QED
        BY <4>1, <4>2
    <3> QED
      BY <3>1, <3>2
  <2> HIDE DEF n
  <2>14. \A i \in 1..n : /\ dn'[objs[i]].q = q /\ dn'[objs[i]].idx = i /\ dn'[objs[i]].wg = 0
                         /\ dn'[objs[i]].res = "none" /\ dn'[objs[i]].seen = Unread
    BY <2>8, <2>11
  <2>15. /\ req[q].pc = "idle" /\ wgFree' = wgFree \ {g}
         /\ UNCHANGED <<ex, queue, dispatchIndex, wg, data, mutex, depend, resp>>
    BY <1>3 DEF Serve, Accept
  <2> QED
    BY <2>2, <2>3, <2>4, <2>6, <2>7, <2>12, <2>13, <2>14, <2>15 DEF Accepted, n
<1>4. CASE stopped
  BY <1>2, <1>4 DEF Serve
<1>5. CASE ~stopped
  <2>1. \/ /\ req' = [req EXCEPT ![q].pc = "done", ![q].answer = "404"]
           /\ UNCHANGED <<dn, wgFree>>
        \/ \E a \in Api[q] :
           \E objs \in FirstFree({o \in Object : dn[o].q = NoRequest}, Len(a.nodes)) :
           \E g \in IF Len(a.nodes) > 1 THEN AcquireGroup ELSE {0} : Accept(q, a, objs, g)
    BY <1>5 DEF Serve
  <2> QED
    BY <1>2, <1>3, <2>1
<1> QED
  BY <1>4, <1>5

\* Execution e of node o goes on.
Works(e, o) ==
    /\ ex[e].pc \in {"start", "do", "retry", "complete"}
    /\ \E p \in {"do", "retry", "complete", "write"} : Continues(e, p)
    /\ ex[e].pc = "complete" => ex'[e].pc = "write"
    /\ Changes(o) /\ dn'[o].wg = dn[o].wg
    /\ UNCHANGED <<req, queue, dispatchIndex, wg, wgFree, data, depend>>

\* What it reads of Depend.
Reads(e, o) ==
    \/ dn'[o].seen = dn[o].seen
    \/ ex[e].pc = "start" /\ (NodeOf(o).rewrite => dn'[o].seen \in Depends(dn[o].q))

\* The response that it may get.
Gets(e, o) ==
    \/ dn'[o].res = dn[o].res /\ resp' = resp
    \/ /\ ex[e].pc \in {"start", "do"} /\ ex'[e].pc = "complete"
       /\ dn'[o].res # "none"
       /\ resp' = [resp EXCEPT ![dn[o].q] = @ + 1]

\* The lock that it may take.
Locks(e, o) ==
    \/ ex'[e].pc # "write" /\ mutex' = mutex
    \/ /\ ex[e].pc = "complete" /\ ex'[e].pc = "write" /\ ex'[e].old = data[dn[o].q]
       /\ Multi(dn[o].q) /\ HasPart(o) /\ dn' = dn
       /\ ~mutex[dn[o].q] /\ mutex' = [mutex EXCEPT ![dn[o].q] = TRUE]

LEMMA ExRecord ==
    ASSUME FlowTypes, NEW e \in Executor, NEW p,
           p \in {"do", "retry", "complete", "write"}, ex' = [ex EXCEPT ![e].pc = p]
    PROVE  Continues(e, p)
  BY DEF FlowTypes, Continues, ExOthers, Ex

LEMMA StartShape ==
    ASSUME FlowTypes, NEW e \in Executor, Start(e), NEW o \in Object, o = ex[e].o,
           dn[o].q \in Request
    PROVE  Works(e, o) /\ Reads(e, o) /\ Gets(e, o) /\ Locks(e, o)
<1>1. ex \in [Executor -> Ex] /\ dn \in [Object -> Dn] /\ resp \in [Request \cup {NoRequest} -> Int]
      /\ depend \in [Request -> Parts \cup {Torn}]
  BY DEF FlowTypes
<1>2. /\ ex[e].pc = "start"
      /\ UNCHANGED <<req, queue, dispatchIndex, wg, wgFree, data, mutex, depend>>
  BY DEF Start
<1>3. ASSUME ex' = [ex EXCEPT ![e].pc = "complete"], UNCHANGED <<dn, resp>>
      PROVE  Works(e, o) /\ Reads(e, o) /\ Gets(e, o) /\ Locks(e, o)
  <2>1. Continues(e, "complete") /\ ex'[e].pc = "complete"
    BY <1>3, ExRecord DEF Continues
  <2>2. Changes(o) /\ dn'[o].wg = dn[o].wg
    BY <1>1, <1>3 DEF Changes, DnOthers
  <2> QED
    BY <1>2, <1>3, <2>1, <2>2 DEF Works, Reads, Gets, Locks
<1>4. ASSUME Fail(e), UNCHANGED resp
      PROVE  Works(e, o) /\ Reads(e, o) /\ Gets(e, o) /\ Locks(e, o)
  <2>1. Continues(e, "complete") /\ ex'[e].pc = "complete"
    BY <1>4, ExRecord DEF Continues, Fail
  <2>2. dn' = [dn EXCEPT ![o].err = TRUE]
    BY <1>4 DEF Fail
  <2>3. Changes(o) /\ dn'[o].wg = dn[o].wg /\ dn'[o].seen = dn[o].seen
        /\ dn'[o].res = dn[o].res
    BY <1>1, <2>2 DEF Changes, DnOthers, Dn
  <2> QED
    BY <1>2, <1>4, <2>1, <2>3 DEF Works, Reads, Gets, Locks
<1> DEFINE Value == IF NodeOf(o).rewrite THEN Depends(dn[o].q) ELSE {Unread}
           Written(seen, r, b) ==
             dn' = [dn EXCEPT ![o] = [dn[o] EXCEPT !.seen = seen, !.res = r, !.err = b]]
           Answered(p, r) ==
             /\ ex' = [ex EXCEPT ![e].pc = p]
             /\ \/ r = dn[o].res /\ resp' = resp
                \/ p = "complete" /\ r # "none" /\ resp' = [resp EXCEPT ![dn[o].q] = @ + 1]
<1>5. ASSUME NEW seen \in Value, NEW r \in {"none", "empty", "body"}, NEW b \in BOOLEAN,
             NEW p \in {"do", "complete"}, Written(seen, r, b), Answered(p, r)
      PROVE  Works(e, o) /\ Reads(e, o) /\ Gets(e, o) /\ Locks(e, o)
  <2>1. Continues(e, p) /\ ex'[e].pc = p
    BY <1>5, ExRecord DEF Continues
  <2>2. seen \in Parts \cup {Torn, Unread}
    BY <1>1, <1>5 DEF Depends
  <2>3. PICK y \in Dn : y = dn[o]
    BY <1>1
  <2> DEFINE x == [y EXCEPT !.seen = seen, !.res = r, !.err = b]
  <2>4. x \in Dn /\ x.q = y.q /\ x.idx = y.idx /\ x.wg = y.wg /\ x.seen = seen /\ x.res = r
    BY <2>2 DEF Dn
  <2>5. dn' = [dn EXCEPT ![o] = x]
    BY <1>5, <2>3
  <2> HIDE DEF x
  <2>6. Changes(o) /\ dn'[o].wg = dn[o].wg /\ dn'[o].seen = seen /\ dn'[o].res = r
    BY <1>1, <2>3, <2>4, <2>5 DEF Changes, DnOthers
  <2>7. Works(e, o)
    BY <1>2, <2>1, <2>6 DEF Works
  <2>8. Reads(e, o)
    BY <1>2, <1>5, <2>6 DEF Reads
  <2>9. Gets(e, o)
    BY <1>2, <1>5, <2>1, <2>6 DEF Gets
  <2> QED
    BY <1>2, <2>1, <2>7, <2>8, <2>9 DEF Locks
<1>6. CASE NodeOf(o).useDefault
  BY <1>3, <1>6 DEF Start
<1>7. CASE ~NodeOf(o).useDefault /\ ~dn[o].dest
  BY <1>4, <1>7 DEF Start
<1>8. CASE ~NodeOf(o).useDefault /\ dn[o].dest
  <2>1. PICK seen \in Value :
          \/ /\ dn' = [dn EXCEPT ![o].err = TRUE, ![o].seen = seen]
             /\ ex' = [ex EXCEPT ![e].pc = "complete"]
             /\ UNCHANGED resp
          \/ /\ dn' = [dn EXCEPT ![o].seen = seen]
             /\ ex' = [ex EXCEPT ![e].pc = "do"]
             /\ UNCHANGED resp
          \/ /\ \E postErr \in BOOLEAN :
                  dn' = [dn EXCEPT ![o].seen = seen, ![o].res = "body", ![o].err = postErr]
             /\ ex' = [ex EXCEPT ![e].pc = "complete"]
             /\ resp' = [resp EXCEPT ![dn[o].q] = @ + 1]
    BY <1>8 DEF Start
  <2>2. PICK y \in Dn : y = dn[o]
    BY <1>1
  <2>a. PICK r \in {"none", "empty", "body"} : r = y.res
    BY DEF Dn
  <2>b. PICK b \in BOOLEAN : b = y.err
    BY DEF Dn
  <2>3. CASE /\ dn' = [dn EXCEPT ![o].err = TRUE, ![o].seen = seen]
             /\ ex' = [ex EXCEPT ![e].pc = "complete"]
             /\ UNCHANGED resp
    <3>1. [y EXCEPT !.err = TRUE, !.seen = seen]
            = [y EXCEPT !.seen = seen, !.res = r, !.err = TRUE]
      BY <2>a DEF Dn
    <3>2. Written(seen, r, TRUE)
      BY <2>2, <2>3, <3>1
    <3>3. Answered("complete", r)
      BY <2>2, <2>3, <2>a
    <3> HIDE DEF Written, Answered, Value
    <3> QED
      BY <1>5, <3>2, <3>3
  <2>4. CASE /\ dn' = [dn EXCEPT ![o].seen = seen]
             /\ ex' = [ex EXCEPT ![e].pc = "do"]
             /\ UNCHANGED resp
    <3>1. [y EXCEPT !.seen = seen] = [y EXCEPT !.seen = seen, !.res = r, !.err = b]
      BY <2>a, <2>b DEF Dn
    <3>2. Written(seen, r, b)
      BY <2>2, <2>4, <3>1
    <3>3. Answered("do", r)
      BY <2>2, <2>4, <2>a
    <3> HIDE DEF Written, Answered, Value
    <3> QED
      BY <1>5, <3>2, <3>3
  <2>5. CASE /\ \E postErr \in BOOLEAN :
                  dn' = [dn EXCEPT ![o].seen = seen, ![o].res = "body", ![o].err = postErr]
             /\ ex' = [ex EXCEPT ![e].pc = "complete"]
             /\ resp' = [resp EXCEPT ![dn[o].q] = @ + 1]
    <3>1. PICK c \in BOOLEAN :
             dn' = [dn EXCEPT ![o].seen = seen, ![o].res = "body", ![o].err = c]
      BY <2>5
    <3>2. Written(seen, "body", c)
      BY <2>2, <3>1
    <3>3. Answered("complete", "body")
      BY <2>5
    <3> HIDE DEF Written, Answered, Value
    <3> QED
      BY <1>5, <3>2, <3>3
  <2> QED
    BY <2>1, <2>3, <2>4, <2>5
<1> QED
  BY <1>6, <1>7, <1>8

LEMMA ForwardShape ==
    ASSUME FlowTypes, NEW e \in Executor, Forward(e), NEW o \in Object, o = ex[e].o,
           dn[o].q \in Request
    PROVE  Works(e, o) /\ Reads(e, o) /\ Gets(e, o) /\ Locks(e, o)
<1>1. ex \in [Executor -> Ex] /\ dn \in [Object -> Dn]
  BY DEF FlowTypes
<1>2. /\ ex[e].pc = "do"
      /\ UNCHANGED <<req, queue, dispatchIndex, wg, wgFree, data, mutex, depend>>
  BY DEF Forward
<1>3. ASSUME NEW p \in {"retry", "complete"},
             ex' = [ex EXCEPT ![e].pc = p, ![e].times = @ + 1]
      PROVE  Continues(e, p) /\ ex'[e].pc = p
  BY <1>1, <1>3 DEF Continues, ExOthers, Ex
<1>4. ASSUME NEW outcome, Retries(e, outcome),
             ex' = [ex EXCEPT ![e].pc = "retry", ![e].times = @ + 1],
             Discard(dn[o].q), UNCHANGED dn
      PROVE  Works(e, o) /\ Reads(e, o) /\ Gets(e, o) /\ Locks(e, o)
  <2>1. Continues(e, "retry") /\ ex'[e].pc = "retry"
    BY <1>3, <1>4
  <2>2. Changes(o) /\ dn'[o].wg = dn[o].wg /\ resp' = resp
    BY <1>1, <1>4 DEF Changes, DnOthers, Discard
  <2> QED
    BY <1>2, <1>4, <2>1, <2>2 DEF Works, Reads, Gets, Locks
<1>5. ASSUME NEW r \in {"empty", "body"}, NEW b \in BOOLEAN,
             dn' = [dn EXCEPT ![o].res = r, ![o].err = b],
             ex' = [ex EXCEPT ![e].pc = "complete", ![e].times = @ + 1],
             resp' = [resp EXCEPT ![dn[o].q] = @ + 1]
      PROVE  Works(e, o) /\ Reads(e, o) /\ Gets(e, o) /\ Locks(e, o)
  <2>1. Continues(e, "complete") /\ ex'[e].pc = "complete"
    BY <1>3, <1>5
  <2>2. Changes(o) /\ dn'[o].wg = dn[o].wg /\ dn'[o].seen = dn[o].seen /\ dn'[o].res = r
    BY <1>1, <1>5 DEF Changes, DnOthers, Dn
  <2> QED
    BY <1>2, <1>5, <2>1, <2>2 DEF Works, Reads, Gets, Locks
<1>6. PICK outcome \in {"ok", "bad", "error"} \cap NodeOf(o).may :
         \/ /\ Retries(e, outcome)
            /\ ex' = [ex EXCEPT ![e].pc = "retry", ![e].times = @ + 1]
            /\ Discard(dn[o].q)
            /\ UNCHANGED dn
         \/ /\ \E b \in BOOLEAN :
                 dn' = [dn EXCEPT ![o].res = IF outcome = "error" THEN "empty" ELSE "body",
                                  ![o].err = b]
            /\ ex' = [ex EXCEPT ![e].pc = "complete", ![e].times = @ + 1]
            /\ resp' = [resp EXCEPT ![dn[o].q] = @ + 1]
  BY DEF Forward
<1>7. PICK r \in {"empty", "body"} : r = IF outcome = "error" THEN "empty" ELSE "body"
  OBVIOUS
<1>8. \/ /\ Retries(e, outcome)
         /\ ex' = [ex EXCEPT ![e].pc = "retry", ![e].times = @ + 1]
         /\ Discard(dn[o].q)
         /\ UNCHANGED dn
      \/ /\ \E b \in BOOLEAN : dn' = [dn EXCEPT ![o].res = r, ![o].err = b]
         /\ ex' = [ex EXCEPT ![e].pc = "complete", ![e].times = @ + 1]
         /\ resp' = [resp EXCEPT ![dn[o].q] = @ + 1]
  BY <1>6, <1>7
<1> QED
  BY <1>4, <1>5, <1>8

LEMMA ReselectShape ==
    ASSUME FlowTypes, NEW e \in Executor, Reselect(e), NEW o \in Object, o = ex[e].o
    PROVE  Works(e, o) /\ Reads(e, o) /\ Gets(e, o) /\ Locks(e, o)
<1>1. dn \in [Object -> Dn]
  BY DEF FlowTypes
<1>2. /\ ex[e].pc = "retry"
      /\ UNCHANGED <<req, queue, dispatchIndex, wg, wgFree, data, mutex, depend, resp>>
  BY DEF Reselect
<1>3. CASE /\ dn' = [dn EXCEPT ![o].dest = FALSE, ![o].err = TRUE]
           /\ ex' = [ex EXCEPT ![e].pc = "complete"]
  <2>1. Continues(e, "complete") /\ ex'[e].pc = "complete"
    BY <1>3, ExRecord DEF Continues
  <2>2. Changes(o) /\ dn'[o].wg = dn[o].wg /\ dn'[o].seen = dn[o].seen
        /\ dn'[o].res = dn[o].res
    <3>1. PICK y \in Dn : y = dn[o]
      BY <1>1
    <3> DEFINE x == [y EXCEPT !.dest = FALSE, !.err = TRUE]
    <3>2. x \in Dn /\ x.q = y.q /\ x.idx = y.idx /\ x.wg = y.wg /\ x.seen = y.seen
          /\ x.res = y.res
      BY DEF Dn
    <3>3. dn' = [dn EXCEPT ![o] = x]
      BY <1>3, <3>1
    <3> HIDE DEF x
    <3> QED
      BY <1>1, <3>1, <3>2, <3>3 DEF Changes, DnOthers
  <2> QED
    BY <1>2, <2>1, <2>2 DEF Works, Reads, Gets, Locks
<1>4. CASE UNCHANGED dn /\ ex' = [ex EXCEPT ![e].pc = "do"]
  <2>1. Continues(e, "do") /\ ex'[e].pc = "do"
    BY <1>4, ExRecord DEF Continues
  <2>2. Changes(o) /\ dn'[o].wg = dn[o].wg
    BY <1>1, <1>4 DEF Changes, DnOthers
  <2> QED
    BY <1>2, <1>4, <2>1, <2>2 DEF Works, Reads, Gets, Locks
<1> QED
  BY <1>3, <1>4 DEF Reselect

LEMMA LockShape ==
    ASSUME FlowTypes, NEW e \in Executor, LockPart(e), NEW o \in Object, o = ex[e].o,
           dn[o].q \in Request
    PROVE  Works(e, o) /\ Reads(e, o) /\ Gets(e, o) /\ Locks(e, o)
<1>1. ex \in [Executor -> Ex] /\ dn \in [Object -> Dn] /\ data[dn[o].q] \in Parts
  BY DEF FlowTypes
<1>2. /\ ex[e].pc = "complete" /\ Multi(dn[o].q) /\ HasPart(o) /\ ~mutex[dn[o].q]
      /\ mutex' = [mutex EXCEPT ![dn[o].q] = TRUE]
      /\ ex' = [ex EXCEPT ![e].pc = "write", ![e].old = data[dn[o].q]]
      /\ UNCHANGED <<req, dn, queue, dispatchIndex, wg, wgFree, data, depend, resp>>
  BY DEF LockPart
<1>3. Continues(e, "write") /\ ex'[e].pc = "write" /\ ex'[e].old = data[dn[o].q]
  BY <1>1, <1>2 DEF Continues, ExOthers, Ex
<1>4. Changes(o) /\ dn'[o].wg = dn[o].wg
  BY <1>1, <1>2 DEF Changes, DnOthers
<1> QED
  BY <1>2, <1>3, <1>4 DEF Works, Reads, Gets, Locks

\* Execution e completes its node o, with its part or without.
Completes(e, o) ==
    /\ ex' \in [Executor -> Ex] /\ ExOthers(e) /\ ex'[e].pc = "idle"
    /\ Done(o)
    /\ \/ /\ ex[e].pc = "write"
          /\ data' = [data EXCEPT ![dn[o].q] = ex[e].old \cup {dn[o].idx}]
          /\ mutex' = [mutex EXCEPT ![dn[o].q] = FALSE]
       \/ /\ ex[e].pc = "complete"
          /\ Multi(dn[o].q) => ~HasPart(o)
          /\ UNCHANGED <<data, mutex>>
    /\ UNCHANGED <<req, dn, queue, dispatchIndex, wgFree, depend, resp>>

LEMMA CompleteShape ==
    ASSUME FlowTypes, NEW e \in Executor, WritePart(e) \/ NoPart(e), NEW o, o = ex[e].o
    PROVE  Completes(e, o)
<1>1. ex \in [Executor -> Ex] /\ ex' = [ex EXCEPT ![e] = IdleEx]
  BY DEF FlowTypes, WritePart, NoPart
<1>2. ex' \in [Executor -> Ex] /\ ExOthers(e) /\ ex'[e].pc = "idle"
  BY <1>1, ConstantTypes DEF ExOthers
<1> QED
  BY <1>2 DEF Completes, WritePart, NoPart

LEMMA TakeShape ==
    ASSUME FlowTypes, NEW w \in Worker, TakeNode(w), dn[Taken(w)].q \in Request
    PROVE  /\ ex[w].pc = "idle" /\ queue[w] # <<>> /\ Taken(w) \in Object
           /\ ex' \in [Executor -> Ex] /\ ExOthers(w) /\ ex'[w].pc = "start"
           /\ ex'[w].o = Taken(w) /\ ex'[w].q = dn[Taken(w)].q
           /\ queue' = [queue EXCEPT ![w] = Tail(@)]
           /\ UNCHANGED <<req, dn, dispatchIndex, wg, wgFree, data, mutex, depend, resp>>
<1>1. /\ ex \in [Executor -> Ex] /\ w \in Executor /\ queue[w] \in Seq(Object)
      /\ queue[w] # <<>>
  BY DEF FlowTypes, Executor, TakeNode
<1>2. Taken(w) \in Object
  BY <1>1 DEF Taken
<1>3. ex' = [ex EXCEPT ![w] = [IdleEx EXCEPT !.pc = "start", !.o = Taken(w),
                                             !.q = dn[Taken(w)].q]]
  BY DEF TakeNode
<1>4. PICK y \in Ex : y = IdleEx
  BY ConstantTypes
<1>5. PICK o \in Object, q \in Request : o = Taken(w) /\ q = dn[Taken(w)].q
  BY <1>2
<1> DEFINE x == [y EXCEPT !.pc = "start", !.o = o, !.q = q]
<1>6. x \in Ex /\ x.pc = "start" /\ x.o = o /\ x.q = q
  BY DEF Ex
<1>7. ex' = [ex EXCEPT ![w] = x]
  BY <1>3, <1>4, <1>5
<1> HIDE DEF x
<1>8. ex' \in [Executor -> Ex] /\ ExOthers(w) /\ ex'[w] = x
  BY <1>1, <1>6, <1>7 DEF ExOthers
<1> QED
  BY <1>2, <1>5, <1>6, <1>8 DEF TakeNode

LEMMA ExitShape ==
    ASSUME FlowTypes, NEW w \in Worker, Exit(w)
    PROVE  /\ ex[w].pc = "idle" /\ ex' \in [Executor -> Ex] /\ ExOthers(w)
           /\ ex'[w].pc = "exit"
           /\ UNCHANGED <<req, dn, queue, dispatchIndex, wg, wgFree, data, mutex, depend,
                          resp>>
<1>1. ex \in [Executor -> Ex] /\ w \in Executor /\ ex' = [ex EXCEPT ![w].pc = "exit"]
  BY DEF FlowTypes, Executor, Exit
<1>2. ex' \in [Executor -> Ex] /\ ExOthers(w) /\ ex'[w].pc = "exit"
  BY <1>1 DEF ExOthers, Ex
<1> QED
  BY <1>2 DEF Exit

-----------------------------------------------------------------------------
(* Who has which node.                                                     *)

Live(q) == req[q].pc \notin {"idle", "done"}

\* Request q is with the node at its index: it holds it, or runs it itself.
Held(q) == req[q].pc \in {"copy", "send", "put"}
With(q) == Held(q) \/ req[q].pc = "proxy"

\* The nodes of a live request are its own, each at its index; a node that is not in
\* the pool is one of a live request.
OwnInv ==
    /\ \A q \in Request : Live(q) =>
          /\ req[q].dns \in [Index(q) -> Object]
          /\ \A i \in Index(q) : dn[req[q].dns[i]].q = q /\ dn[req[q].dns[i]].idx = i
          /\ req[q].idx \in 1..(Len(Nodes(q)) + 1)
          /\ With(q) => req[q].idx \in Index(q)
          /\ req[q].pc = "render" => req[q].idx = Len(Nodes(q)) + 1
    /\ \A o \in Object : dn[o].q # NoRequest =>
          /\ Live(dn[o].q) /\ dn[o].idx \in Index(dn[o].q)
          /\ req[dn[o].q].dns[dn[o].idx] = o

\* The request has given node o away, to the workers.
Away(o) == dn[o].q # NoRequest /\ dn[o].idx < req[dn[o].q].idx /\ dn[o].wg # 0

\* What workers have was given away, what a request runs is the node at its index, and
\* no node is in two places.
PlacesInv ==
    /\ \A w \in Worker : \A j \in 1..Len(queue[w]) : Away(queue[w][j])
    /\ \A w \in Worker : Busy(w) => Away(ex[w].o) /\ ex[w].q = dn[ex[w].o].q
    /\ \A q \in Request : Busy(q) =>
          req[q].pc = "proxy" /\ ex[q].o = Current(q) /\ ex[q].q = q
    /\ \A w, v \in Worker : \A j \in 1..Len(queue[w]), k \in 1..Len(queue[v]) :
          queue[w][j] = queue[v][k] => w = v /\ j = k
    /\ \A w, v \in Worker : Busy(w) /\ Busy(v) /\ ex[w].o = ex[v].o => w = v
    /\ \A w, v \in Worker : \A j \in 1..Len(queue[w]) : Busy(v) => queue[w][j] # ex[v].o

\* The steps, by what they do.
Rests ==
    /\ UNCHANGED <<req, dn, ex, queue, dispatchIndex, wg, wgFree, data, mutex, depend>>
    /\ resp' = resp \/ resp' = [resp EXCEPT ![NoRequest] = @ + 1]
Copies(q) ==
    /\ req[q].pc = "copy" /\ Moves(q, "send")
    /\ UNCHANGED <<dn, ex, queue, dispatchIndex, wg, wgFree, data, mutex, depend, resp>>
Hands(q) ==
    /\ req[q].pc = "send" /\ req[q].wg # 0 /\ Moves(q, "put") /\ req'[q].to \in Worker
    /\ dispatchIndex' \in Worker
    /\ UNCHANGED <<dn, ex, queue, wg, wgFree, data, mutex, depend, resp>>
Runs(q) ==
    /\ req[q].pc = "send" /\ req[q].wg = 0 /\ Moves(q, "proxy")
    /\ ex' \in [Executor -> Ex] /\ ExOthers(q)
    /\ ex'[q].pc = "start" /\ ex'[q].o = Current(q) /\ ex'[q].q = q
    /\ dispatchIndex' \in Worker
    /\ UNCHANGED <<dn, queue, wg, wgFree, data, mutex, depend, resp>>
Puts(q) ==
    /\ req[q].pc = "put" /\ Turns(q, "loop", req[q].idx + 1, req[q].last, req[q].wg)
    /\ req[q].to \in Worker
    /\ queue' = [queue EXCEPT ![req[q].to] = Append(@, Current(q))]
    /\ UNCHANGED <<dn, ex, dispatchIndex, wg, wgFree, data, mutex, depend, resp>>
Returns(q) ==
    /\ req[q].pc = "proxy" /\ ~Busy(q)
    /\ Turns(q, "loop", req[q].idx + 1, req[q].last, req[q].wg)
    /\ UNCHANGED <<dn, ex, queue, dispatchIndex, wg, wgFree, data, mutex, depend, resp>>
Renders(q) ==
    /\ req[q].pc = "loop" /\ req[q].idx > Len(Nodes(q))
    /\ req[q].wg # 0 => wg[req[q].wg] = 0
    /\ Moves(q, "render")
    /\ wgFree' = wgFree \cup ({req[q].wg} \ {0})
    /\ resp' = [resp EXCEPT ![q] = @ - Responses(q)]
    /\ UNCHANGED <<dn, ex, queue, dispatchIndex, wg, data, mutex, depend>>
Finishes(q) ==
    /\ req[q].pc = "render" /\ req' \in [Request -> Req] /\ ReqOthers(q)
    /\ req'[q].pc = "done" /\ req'[q].api = NoApi
    /\ dn' = [o \in Object |-> IF \E i \in Index(q) : req[q].dns[i] = o THEN FreeDn ELSE dn[o]]
    /\ dn' \in [Object -> Dn]
    /\ data' = [data EXCEPT ![q] = {}]
    /\ depend' = [depend EXCEPT ![q] = {}]
    /\ UNCHANGED <<ex, queue, dispatchIndex, wg, wgFree, mutex, resp>>
Prepares(q, g) ==
    /\ req[q].pc = "loop" /\ req[q].idx <= Len(Nodes(q))
    /\ Joins(q, g) /\ g \in Group \cup {0}
    /\ \E p \in {"copy", "send"} :
          Turns(q, p, req[q].idx,
                IF NewBatch(q) THEN Nodes(q)[req[q].idx].batch ELSE req[q].last, g)
    /\ Changes(Current(q))
    /\ dn' = [dn EXCEPT ![Current(q)].wg = g]
    /\ dn'[Current(q)].wg = g
    /\ dn'[Current(q)].res = dn[Current(q)].res
    /\ dn'[Current(q)].seen = dn[Current(q)].seen
    /\ dn'[Current(q)].err = dn[Current(q)].err
    /\ JoinGroup(g) /\ AssignDepend(q) /\ wgFree' = wgFree \ {g}
    /\ UNCHANGED <<ex, queue, dispatchIndex, data, mutex, resp>>
Goes(e, o) ==
    Busy(e) /\ o = ex[e].o /\ Works(e, o) /\ Reads(e, o) /\ Gets(e, o) /\ Locks(e, o)
Ends(e, o) == Busy(e) /\ o = ex[e].o /\ Completes(e, o)
Takes(w) ==
    /\ ex[w].pc = "idle" /\ queue[w] # <<>> /\ Taken(w) \in Object
    /\ ex' \in [Executor -> Ex] /\ ExOthers(w) /\ ex'[w].pc = "start"
    /\ ex'[w].o = Taken(w) /\ ex'[w].q = dn[Taken(w)].q
    /\ queue' = [queue EXCEPT ![w] = Tail(@)]
    /\ UNCHANGED <<req, dn, dispatchIndex, wg, wgFree, data, mutex, depend, resp>>
Exits(w) ==
    /\ ex[w].pc = "idle" /\ ex' \in [Executor -> Ex] /\ ExOthers(w) /\ ex'[w].pc = "exit"
    /\ UNCHANGED <<req, dn, queue, dispatchIndex, wg, wgFree, data, mutex, depend, resp>>

\* A live request has the node at its index, and an execution a node of a request.
LEMMA CurrentNode ==
    ASSUME FlowTypes, OwnInv, NEW q \in Request, Live(q), req[q].idx \in Index(q)
    PROVE  /\ Current(q) \in Object /\ dn[Current(q)].q = q
           /\ dn[Current(q)].idx = req[q].idx
  BY DEF OwnInv, Current

LEMMA BusyNode ==
    ASSUME FlowTypes, OwnInv, PlacesInv, NEW e \in Executor, Busy(e)
    PROVE  /\ ex[e].o \in Object /\ dn[ex[e].o].q \in Request /\ ex[e].q = dn[ex[e].o].q
           /\ Live(ex[e].q) /\ dn[ex[e].o].idx \in Index(ex[e].q)
           /\ req[ex[e].q].dns[dn[ex[e].o].idx] = ex[e].o
<1>1. ex[e].o \in Object /\ dn[ex[e].o].q \in Request \cup {NoRequest}
  BY DEF FlowTypes, ExTypes, Dn
<1>2. dn[ex[e].o].q # NoRequest /\ ex[e].q = dn[ex[e].o].q
  <2>1. CASE e \in Worker
    BY <2>1 DEF PlacesInv, Away
  <2>2. CASE e \in Request
    <3>1. req[e].pc = "proxy" /\ ex[e].o = Current(e) /\ ex[e].q = e
      BY <2>2 DEF PlacesInv
    <3>2. Live(e) /\ req[e].idx \in Index(e)
      BY <2>2, <3>1 DEF OwnInv, Live, With
    <3> QED
      BY <2>2, <3>1, <3>2, CurrentNode, RequestFlowAssumption
  <2> QED
    BY <2>1, <2>2 DEF Executor
<1> QED
  BY <1>1, <1>2 DEF OwnInv

LEMMA TakenNode ==
    ASSUME FlowTypes, PlacesInv, NEW w \in Worker, queue[w] # <<>>
    PROVE  /\ Taken(w) \in Object /\ Taken(w) = queue[w][1] /\ 1 \in 1..Len(queue[w])
           /\ Away(Taken(w)) /\ dn[Taken(w)].q \in Request
<1>1. queue[w] \in Seq(Object)
  BY DEF FlowTypes
<1>2. Taken(w) \in Object /\ Taken(w) = queue[w][1] /\ 1 \in 1..Len(queue[w])
  BY <1>1 DEF Taken
<1>3. Away(Taken(w))
  BY <1>2 DEF PlacesInv
<1> QED
  BY <1>2, <1>3 DEF Away, FlowTypes, Dn

\* Every step is one of these.
LEMMA StepCases ==
    ASSUME FlowTypes, OwnInv, PlacesInv, [Next]_vars
    PROVE  \/ Rests
           \/ \E q \in Request : \/ Refused(q) \/ Copies(q) \/ Hands(q) \/ Runs(q)
           \/ \E q \in Request : \/ Puts(q) \/ Returns(q) \/ Renders(q) \/ Finishes(q)
           \/ \E q \in Request : \E a \in Api[q] : \E objs, g : Accepted(q, a, objs, g)
           \/ \E q \in Request : \E g : Prepares(q, g)
           \/ \E e \in Executor, o \in Object : Goes(e, o) \/ Ends(e, o)
           \/ \E w \in Worker : Takes(w) \/ Exits(w)
<1>1. ASSUME NEW q \in Request, Serve(q)
      PROVE  Refused(q) \/ \E a \in Api[q] : \E objs, g : Accepted(q, a, objs, g)
  BY <1>1, ServeShape
<1>2. ASSUME NEW q \in Request, SameBatch(q) \/ NextBatch(q)
      PROVE  \E g : Prepares(q, g)
  <2>1. PICK g : Joins(q, g) /\ PrepareNode(q, g)
    BY <1>2 DEF SameBatch, NextBatch, Joins
  <2>2. Live(q) /\ req[q].idx <= Len(Nodes(q))
    BY <2>1 DEF PrepareNode, Live
  <2>3. req[q].idx \in Index(q)
    BY <2>2, NodesFacts DEF OwnInv
  <2>4. Current(q) \in Object
    BY <2>2, <2>3, CurrentNode
  <2> QED
    BY <2>1, <2>4, PrepareShape DEF Prepares
<1>3. ASSUME NEW q \in Request, SendCopy(q) PROVE Copies(q)
  BY <1>3, SendCopyShape DEF Copies
<1>4. ASSUME NEW q \in Request, With(q) PROVE Current(q) \in Object
  <2>1. Live(q)
    BY <1>4 DEF With, Held, Live
  <2> QED
    BY <1>4, <2>1, CurrentNode DEF OwnInv
<1>5. ASSUME NEW q \in Request, Dispatch(q) PROVE Hands(q) \/ Runs(q)
  <2>1. With(q)
    BY <1>5 DEF With, Held, Dispatch
  <2>2. Current(q) \in Object
    BY <1>4, <2>1
  <2> QED
    BY <1>5, <2>2, DispatchShape DEF Hands, Runs
<1>6. ASSUME NEW q \in Request, Put(q) PROVE Puts(q)
  <2>1. With(q)
    BY <1>6 DEF With, Held, Put
  <2>2. Current(q) \in Object
    BY <1>4, <2>1
  <2> QED
    BY <1>6, <2>2, PutShape DEF Puts
<1>7. ASSUME NEW q \in Request, Returned(q) PROVE Returns(q)
  BY <1>7, ReturnedShape DEF Returns
<1>8. ASSUME NEW q \in Request, Render(q) PROVE Renders(q)
  BY <1>8, RenderShape DEF Renders
<1>9. ASSUME NEW q \in Request, Finish(q) PROVE Finishes(q)
  BY <1>9, FinishShape DEF Finishes
<1>10. ASSUME NEW e \in Executor, ExecutorStep(e)
       PROVE  \E o \in Object : Goes(e, o) \/ Ends(e, o)
  <2>1. Busy(e)
    BY <1>10 DEF ExecutorStep, Start, Forward, Reselect, LockPart, WritePart, NoPart, Busy
  <2>2. PICK o \in Object : o = ex[e].o /\ dn[o].q \in Request
    BY <2>1, BusyNode
  <2>3. CASE Start(e) \/ Forward(e)
    BY <2>1, <2>2, <2>3, StartShape, ForwardShape DEF Goes
  <2>4. CASE Reselect(e) \/ LockPart(e)
    BY <2>1, <2>2, <2>4, ReselectShape, LockShape DEF Goes
  <2>5. CASE WritePart(e) \/ NoPart(e)
    BY <2>1, <2>2, <2>5, CompleteShape DEF Ends
  <2> QED
    BY <1>10, <2>3, <2>4, <2>5 DEF ExecutorStep
<1>11. ASSUME NEW w \in Worker, TakeNode(w) PROVE Takes(w)
  <2>1. dn[Taken(w)].q \in Request
    BY <1>11, TakenNode DEF TakeNode
  <2> QED
    BY <1>11, <2>1, TakeShape DEF Takes
<1>12. ASSUME NEW w \in Worker, Exit(w) PROVE Exits(w)
  BY <1>12, ExitShape DEF Exits
<1>13. ASSUME doCopy \/ Stop \/ UNCHANGED vars PROVE Rests
  BY <1>13 DEF doCopy, Stop, vars, Rests
<1>14. ASSUME NEW q \in Request, RequestStep(q)
       PROVE  \/ Copies(q) \/ Hands(q) \/ Runs(q) \/ Puts(q) \/ Returns(q) \/ Renders(q)
              \/ Finishes(q) \/ \E g : Prepares(q, g)
  BY <1>2, <1>3, <1>5, <1>6, <1>7, <1>8, <1>9, <1>14 DEF RequestStep
<1> QED
  BY <1>1, <1>10, <1>11, <1>12, <1>13, <1>14 DEF Next

LEMMA ResponsesType ==
    ASSUME FlowTypes, NEW q \in Request
    PROVE  Responses(q) \in Nat
<1>1. IsFiniteSet(Index(q))
  BY NodesFacts, FS_Interval
<1> QED
  BY <1>1, FS_Subset, FS_CardinalityType DEF Responses

\* A request that moves has the API it had.
LEMMA TurnsTypes ==
    ASSUME FlowTypes, NEW q \in Request, ReqOthers(q), req'[q].api \in Api[q] \cup {NoApi},
           req'[q].pc = "put" => req'[q].to \in Worker
    PROVE  ReqTypes'
  BY DEF FlowTypes, ReqTypes, ReqOthers

LEMMA ExKept ==
    ASSUME FlowTypes, NEW e \in Executor, ExOthers(e),
           ex'[e].pc \in {"idle", "exit"} \/ ex'[e].o \in Object,
           e \in Request => ex'[e].pc # "exit"
    PROVE  ExTypes'
  BY DEF FlowTypes, ExTypes, ExOthers, Busy, Executor

LEMMA NextTypes ==
    ASSUME FlowTypes, OwnInv, PlacesInv, [Next]_vars PROVE FlowTypes'
<1> USE DEF FlowTypes
<1>1. CASE Rests
  <2>1. resp' \in [Request \cup {NoRequest} -> Int]
    BY <1>1 DEF Rests
  <2> QED
    BY <1>1, <2>1 DEF Rests, ReqTypes, ExTypes, Busy
<1>2. ASSUME NEW q \in Request, Refused(q) PROVE FlowTypes'
  <2>1. ReqTypes'
    BY <1>2, TurnsTypes DEF Refused, ReqTypes
  <2> QED
    BY <1>2, <2>1 DEF Refused, ExTypes, Busy
<1>3. ASSUME NEW q \in Request, Copies(q) PROVE FlowTypes'
  <2>1. ReqTypes'
    BY <1>3, TurnsTypes DEF Copies, Moves, Turns, ReqTypes
  <2> QED
    BY <1>3, <2>1 DEF Copies, Moves, Turns, ExTypes, Busy
<1>4. ASSUME NEW q \in Request, Hands(q) PROVE FlowTypes'
  <2>1. ReqTypes'
    BY <1>4, TurnsTypes DEF Hands, Moves, Turns, ReqTypes
  <2> QED
    BY <1>4, <2>1 DEF Hands, Moves, Turns, ExTypes, Busy
<1>5. ASSUME NEW q \in Request, Runs(q) PROVE FlowTypes'
  <2>1. ReqTypes'
    BY <1>5, TurnsTypes DEF Runs, Moves, Turns, ReqTypes
  <2>2. With(q) /\ Live(q)
    BY <1>5 DEF Runs, With, Held, Live
  <2>3. Current(q) \in Object
    BY <2>2, CurrentNode DEF OwnInv
  <2>4. ExTypes'
    BY <1>5, <2>3, ExKept DEF Runs, Executor
  <2> QED
    BY <1>5, <2>1, <2>4 DEF Runs, Moves, Turns
<1>6. ASSUME NEW q \in Request, Puts(q) PROVE FlowTypes'
  <2>1. ReqTypes'
    BY <1>6, TurnsTypes DEF Puts, Turns, ReqTypes
  <2>2. With(q) /\ Live(q)
    BY <1>6 DEF Puts, With, Held, Live
  <2>3. Current(q) \in Object
    BY <2>2, CurrentNode DEF OwnInv
  <2>4. Append(queue[req[q].to], Current(q)) \in Seq(Object)
    BY <1>6, <2>3 DEF Puts
  <2>5. queue' \in [Worker -> Seq(Object)]
    BY <1>6, <2>4 DEF Puts
  <2> QED
    BY <1>6, <2>1, <2>5 DEF Puts, Turns, ExTypes, Busy
<1>7. ASSUME NEW q \in Request, Returns(q) PROVE FlowTypes'
  <2>1. ReqTypes'
    BY <1>7, TurnsTypes DEF Returns, Turns, ReqTypes
  <2> QED
    BY <1>7, <2>1 DEF Returns, Turns, ExTypes, Busy
<1>8. ASSUME NEW q \in Request, Renders(q) PROVE FlowTypes'
  <2>1. ReqTypes'
    BY <1>8, TurnsTypes DEF Renders, Moves, Turns, ReqTypes
  <2>2. req[q].wg \in Group \cup {0}
    BY DEF Req
  <2>3. wgFree' \in SUBSET Group
    BY <1>8, <2>2 DEF Renders
  <2>4. resp' \in [Request \cup {NoRequest} -> Int]
    BY <1>8, ResponsesType DEF Renders
  <2> QED
    BY <1>8, <2>1, <2>3, <2>4 DEF Renders, Moves, Turns, ExTypes, Busy
<1>9. ASSUME NEW q \in Request, Finishes(q) PROVE FlowTypes'
  <2>1. ReqTypes'
    BY <1>9, TurnsTypes DEF Finishes
  <2>2. data' \in [Request -> Parts] /\ depend' \in [Request -> Parts \cup {Torn}]
    BY <1>9 DEF Finishes, Parts
  <2> QED
    BY <1>9, <2>1, <2>2 DEF Finishes, ExTypes, Busy
<1>10. ASSUME NEW q \in Request, NEW a \in Api[q], NEW objs, NEW g, Accepted(q, a, objs, g)
       PROVE  FlowTypes'
  <2>1. ReqTypes'
    BY <1>10, TurnsTypes DEF Accepted
  <2> QED
    BY <1>10, <2>1 DEF Accepted, ExTypes, Busy
<1>11. ASSUME NEW q \in Request, NEW g, Prepares(q, g) PROVE FlowTypes'
  <2>1. ReqTypes'
    BY <1>11, TurnsTypes DEF Prepares, Turns, ReqTypes
  <2>2. wg' \in [Group -> Int]
    BY <1>11 DEF Prepares, JoinGroup
  <2>3. depend' \in [Request -> Parts \cup {Torn}]
    BY <1>11 DEF Prepares, AssignDepend
  <2>4. req' \in [Request -> Req] /\ dn' \in [Object -> Dn]
    BY <1>11 DEF Prepares, Turns, Changes
  <2> QED
    BY <1>11, <2>1, <2>2, <2>3, <2>4 DEF Prepares, ExTypes, Busy
<1>12. ASSUME NEW e \in Executor, NEW o \in Object, Goes(e, o) PROVE FlowTypes'
  <2>1. dn[o].q \in Request
    BY <1>12, BusyNode DEF Goes
  <2>2. ExTypes'
    <3>1. PICK p \in {"do", "retry", "complete", "write"} : Continues(e, p)
      BY <1>12 DEF Goes, Works
    <3> QED
      BY <1>12, <3>1, ExKept DEF Goes, Continues
  <2>3. resp' \in [Request \cup {NoRequest} -> Int]
    BY <1>12, <2>1 DEF Goes, Gets
  <2>4. mutex' \in [Request -> BOOLEAN]
    BY <1>12, <2>1 DEF Goes, Locks
  <2>5. ex' \in [Executor -> Ex] /\ dn' \in [Object -> Dn]
    BY <1>12 DEF Goes, Works, Continues, Changes
  <2> QED
    BY <1>12, <2>2, <2>3, <2>4, <2>5 DEF Goes, Works, ReqTypes
<1>13. ASSUME NEW e \in Executor, NEW o \in Object, Ends(e, o) PROVE FlowTypes'
  <2>1. dn[o].q \in Request /\ ex[e].old \in Parts /\ dn[o].idx \in Nat
        /\ dn[o].wg \in Group \cup {0}
    BY <1>13, BusyNode DEF Ends, Ex, Dn
  <2>2. ExTypes'
    BY <1>13, ExKept DEF Ends, Completes
  <2>3. data' \in [Request -> Parts]
    BY <1>13, <2>1 DEF Ends, Completes, Parts
  <2>4. mutex' \in [Request -> BOOLEAN]
    BY <1>13, <2>1 DEF Ends, Completes
  <2>5. wg' \in [Group -> Int]
    BY <1>13, <2>1 DEF Ends, Completes, Done
  <2> QED
    BY <1>13, <2>2, <2>3, <2>4, <2>5 DEF Ends, Completes, ReqTypes
<1>14. ASSUME NEW w \in Worker, Takes(w) PROVE FlowTypes'
  <2>1. w \in Executor /\ w \notin Request
    BY RequestFlowAssumption DEF Executor
  <2>2. ExTypes'
    BY <1>14, <2>1, ExKept DEF Takes
  <2>3. Tail(queue[w]) \in Seq(Object)
    BY <1>14 DEF Takes
  <2>4. queue' \in [Worker -> Seq(Object)]
    BY <1>14, <2>3 DEF Takes
  <2> QED
    BY <1>14, <2>2, <2>4 DEF Takes, ReqTypes
<1>15. ASSUME NEW w \in Worker, Exits(w) PROVE FlowTypes'
  <2>1. w \in Executor /\ w \notin Request
    BY RequestFlowAssumption DEF Executor
  <2>2. ExTypes'
    BY <1>15, <2>1, ExKept DEF Exits
  <2> QED
    BY <1>15, <2>2 DEF Exits, ReqTypes
<1> HIDE DEF FlowTypes
<1> QED
  BY StepCases, <1>1, <1>2, <1>3, <1>4, <1>5, <1>6, <1>7, <1>8, <1>9, <1>10, <1>11, <1>12,
     <1>13, <1>14, <1>15

\* Nothing changes of who has which node: requests, executions and nodes are where they
\* were, and the groups count what they counted.
SameReq(q) ==
    /\ req'[q].api = req[q].api /\ req'[q].dns = req[q].dns /\ req'[q].idx = req[q].idx
    /\ req'[q].last = req[q].last /\ req'[q].wg = req[q].wg
    /\ \/ req'[q].pc = req[q].pc
       \/ Held(q) /\ Held(q)' /\ (req'[q].pc = "put" => req[q].wg # 0)
SameEx(e) ==
    /\ Busy(e)' <=> Busy(e)
    /\ Busy(e) => ex'[e].o = ex[e].o /\ ex'[e].q = ex[e].q
SameDn(o) == dn'[o].q = dn[o].q /\ dn'[o].idx = dn[o].idx /\ dn'[o].wg = dn[o].wg
Same ==
    /\ \A q \in Request : SameReq(q)
    /\ \A e \in Executor : SameEx(e)
    /\ \A o \in Object : SameDn(o)
    /\ UNCHANGED <<queue, wg, wgFree>>

LEMMA SameSteps ==
    ASSUME FlowTypes,
           \/ Rests
           \/ \E q \in Request : Copies(q) \/ Hands(q)
           \/ \E e \in Executor, o \in Object : Goes(e, o)
           \/ \E w \in Worker : Exits(w)
    PROVE  Same
<1>1. CASE Rests
  BY <1>1 DEF Rests, Same, SameReq, SameEx, SameDn, Busy
<1>2. ASSUME NEW q \in Request, Copies(q) \/ Hands(q) PROVE Same
  <2>1. \A r \in Request : SameReq(r)
    BY <1>2 DEF Copies, Hands, Moves, Turns, ReqOthers, SameReq, Held
  <2> QED
    BY <1>2, <2>1 DEF Copies, Hands, Same, SameEx, SameDn, Busy
<1>3. ASSUME NEW e \in Executor, NEW o \in Object, Goes(e, o) PROVE Same
  <2>1. \A f \in Executor : SameEx(f)
    BY <1>3 DEF Goes, Works, Continues, ExOthers, SameEx, Busy
  <2>2. \A p \in Object : SameDn(p)
    BY <1>3 DEF Goes, Works, Changes, DnOthers, SameDn
  <2> QED
    BY <1>3, <2>1, <2>2 DEF Goes, Works, Same, SameReq
<1>4. ASSUME NEW w \in Worker, Exits(w) PROVE Same
  <2>1. \A f \in Executor : SameEx(f)
    BY <1>4 DEF Exits, ExOthers, SameEx, Busy
  <2> QED
    BY <1>4, <2>1 DEF Exits, Same, SameReq, SameDn
<1> QED
  BY <1>1, <1>2, <1>3, <1>4

LEMMA CoreCases ==
    ASSUME FlowTypes, OwnInv, PlacesInv, [Next]_vars
    PROVE  \/ Same
           \/ \E q \in Request : Refused(q) \/ Runs(q) \/ Puts(q) \/ Returns(q)
           \/ \E q \in Request : Renders(q) \/ Finishes(q)
           \/ \E q \in Request : \E a \in Api[q] : \E objs, g : Accepted(q, a, objs, g)
           \/ \E q \in Request : \E g : Prepares(q, g)
           \/ \E e \in Executor, o \in Object : Ends(e, o)
           \/ \E w \in Worker : Takes(w)
  BY StepCases, SameSteps

\* Nodes stay with their requests, and the indices of the requests are in range.
LEMMA OwnKept ==
    ASSUME FlowTypes, OwnInv,
           \A o \in Object : dn'[o].q = dn[o].q /\ dn'[o].idx = dn[o].idx,
           \A q \in Request :
              /\ Live(q)' <=> Live(q)
              /\ Live(q) =>
                   /\ req'[q].api = req[q].api /\ req'[q].dns = req[q].dns
                   /\ req'[q].idx \in 1..(Len(Nodes(q)) + 1)
                   /\ With(q)' => req'[q].idx \in Index(q)
                   /\ req'[q].pc = "render" => req'[q].idx = Len(Nodes(q)) + 1
    PROVE  OwnInv'
<1>1. ASSUME NEW q \in Request, Live(q)
      PROVE  Nodes(q)' = Nodes(q) /\ Index(q)' = Index(q)
  BY <1>1 DEF Nodes, Index
<1>2. ASSUME NEW q \in Request, Live(q)'
      PROVE  /\ req'[q].dns \in [Index(q)' -> Object]
             /\ \A i \in Index(q)' : dn'[req'[q].dns[i]].q = q /\ dn'[req'[q].dns[i]].idx = i
             /\ req'[q].idx \in 1..(Len(Nodes(q)') + 1)
             /\ With(q)' => req'[q].idx \in Index(q)'
             /\ req'[q].pc = "render" => req'[q].idx = Len(Nodes(q)') + 1
  <2>1. Live(q) /\ req'[q].dns = req[q].dns
    BY <1>2
  <2>2. /\ req[q].dns \in [Index(q) -> Object]
        /\ \A i \in Index(q) : dn[req[q].dns[i]].q = q /\ dn[req[q].dns[i]].idx = i
    BY <2>1 DEF OwnInv
  <2> QED
    BY <1>1, <2>1, <2>2
<1>3. ASSUME NEW o \in Object, dn'[o].q # NoRequest
      PROVE  /\ Live(dn[o].q)' /\ dn'[o].idx \in Index(dn[o].q)'
             /\ req'[dn'[o].q].dns[dn'[o].idx] = o
  <2>1. dn[o].q \in Request
    BY <1>3 DEF FlowTypes, Dn
  <2>2. /\ Live(dn[o].q) /\ dn[o].idx \in Index(dn[o].q)
        /\ req[dn[o].q].dns[dn[o].idx] = o
    BY <1>3 DEF OwnInv
  <2> QED
    BY <1>1, <2>1, <2>2
<1> QED
  BY <1>2, <1>3 DEF OwnInv

LEMMA NextOwn ==
    ASSUME FlowTypes, OwnInv, PlacesInv, [Next]_vars PROVE OwnInv'
<1>1. CASE Same
  <2>1. \A q \in Request : (Live(q)' <=> Live(q)) /\ (With(q)' <=> With(q))
    BY <1>1 DEF Same, SameReq, Live, With, Held
  <2>2. \A q \in Request : req'[q].pc = "render" => req[q].pc = "render"
    BY <1>1 DEF Same, SameReq, Held
  <2>3. ASSUME NEW q \in Request, Live(q)
        PROVE  /\ req'[q].api = req[q].api /\ req'[q].dns = req[q].dns
               /\ req'[q].idx \in 1..(Len(Nodes(q)) + 1)
               /\ With(q)' => req'[q].idx \in Index(q)
               /\ req'[q].pc = "render" => req'[q].idx = Len(Nodes(q)) + 1
    BY <1>1, <2>1, <2>2, <2>3 DEF Same, SameReq, OwnInv
  <2>4. \A o \in Object : dn'[o].q = dn[o].q /\ dn'[o].idx = dn[o].idx
    BY <1>1 DEF Same, SameDn
  <2> QED
    BY <2>1, <2>3, <2>4, OwnKept
<1>2. ASSUME NEW q \in Request, Refused(q) PROVE OwnInv'
  <2>1. \A r \in Request : r # q => req'[r] = req[r]
    BY <1>2 DEF Refused, ReqOthers
  <2>2. ~Live(q) /\ ~Live(q)'
    BY <1>2 DEF Refused, Live
  <2>3. \A r \in Request : Live(r)' <=> Live(r)
    BY <2>1, <2>2 DEF Live
  <2>4. ASSUME NEW r \in Request, Live(r)
        PROVE  /\ req'[r].api = req[r].api /\ req'[r].dns = req[r].dns
               /\ req'[r].idx \in 1..(Len(Nodes(r)) + 1)
               /\ With(r)' => req'[r].idx \in Index(r)
               /\ req'[r].pc = "render" => req'[r].idx = Len(Nodes(r)) + 1
    <3>1. req'[r] = req[r]
      BY <2>1, <2>2, <2>4
    <3> QED
      BY <2>4, <3>1 DEF OwnInv, With, Held
  <2> QED
    BY <1>2, <2>3, <2>4, OwnKept DEF Refused
<1>3. ASSUME NEW q \in Request, Live(q), Live(q)', ReqOthers(q),
             req'[q].api = req[q].api, req'[q].dns = req[q].dns,
             req'[q].idx \in 1..(Len(Nodes(q)) + 1),
             With(q)' => req'[q].idx \in Index(q),
             req'[q].pc = "render" => req'[q].idx = Len(Nodes(q)) + 1,
             \A o \in Object : dn'[o].q = dn[o].q /\ dn'[o].idx = dn[o].idx
      PROVE  OwnInv'
  <2>1. \A r \in Request : Live(r)' <=> Live(r)
    BY <1>3 DEF ReqOthers, Live
  <2>2. ASSUME NEW r \in Request, Live(r), r # q
        PROVE  /\ req'[r].api = req[r].api /\ req'[r].dns = req[r].dns
               /\ req'[r].idx \in 1..(Len(Nodes(r)) + 1)
               /\ With(r)' => req'[r].idx \in Index(r)
               /\ req'[r].pc = "render" => req'[r].idx = Len(Nodes(r)) + 1
    <3>1. req'[r] = req[r]
      BY <1>3, <2>2 DEF ReqOthers
    <3> QED
      BY <2>2, <3>1 DEF OwnInv, With, Held
  <2> QED
    BY <1>3, <2>1, <2>2, OwnKept
<1>4. ASSUME NEW q \in Request, Runs(q) PROVE OwnInv'
  <2>1. Live(q) /\ Live(q)' /\ With(q) /\ With(q)'
    BY <1>4 DEF Runs, Moves, Turns, Live, With, Held
  <2>2. req[q].idx \in Index(q) /\ req[q].idx \in 1..(Len(Nodes(q)) + 1)
    BY <2>1 DEF OwnInv
  <2> QED
    BY <1>3, <1>4, <2>1, <2>2 DEF Runs, Moves, Turns
<1>5. ASSUME NEW q \in Request, Puts(q) \/ Returns(q) PROVE OwnInv'
  <2>1. Live(q) /\ Live(q)' /\ With(q) /\ ~With(q)'
    BY <1>5 DEF Puts, Returns, Turns, Live, With, Held
  <2>2. req[q].idx \in 1..Len(Nodes(q)) /\ Len(Nodes(q)) \in Nat
    BY <2>1, NodesFacts DEF OwnInv
  <2>3. req'[q].idx \in 1..(Len(Nodes(q)) + 1) /\ req'[q].pc # "render"
    BY <1>5, <2>2 DEF Puts, Returns, Turns
  <2> QED
    BY <1>3, <1>5, <2>1, <2>3 DEF Puts, Returns, Turns
<1>6. ASSUME NEW q \in Request, Renders(q) PROVE OwnInv'
  <2>1. Live(q) /\ Live(q)' /\ ~With(q)'
    BY <1>6 DEF Renders, Moves, Turns, Live, With, Held
  <2>2. req[q].idx \in 1..(Len(Nodes(q)) + 1) /\ Len(Nodes(q)) \in Nat
        /\ req[q].idx > Len(Nodes(q))
    BY <1>6, <2>1, NodesFacts DEF OwnInv, Renders
  <2>3. req'[q].idx = Len(Nodes(q)) + 1 /\ req'[q].idx \in 1..(Len(Nodes(q)) + 1)
    BY <1>6, <2>2 DEF Renders, Moves, Turns
  <2> QED
    BY <1>3, <1>6, <2>1, <2>3 DEF Renders, Moves, Turns
<1>7. ASSUME NEW q \in Request, NEW g, Prepares(q, g) PROVE OwnInv'
  <2>1. Live(q) /\ Live(q)' /\ req'[q].pc # "render"
    BY <1>7 DEF Prepares, Turns, Live
  <2>2. req[q].idx \in 1..(Len(Nodes(q)) + 1) /\ req[q].idx \in Index(q)
    BY <1>7, <2>1, NodesFacts DEF OwnInv, Prepares
  <2>3. \A o \in Object : dn'[o].q = dn[o].q /\ dn'[o].idx = dn[o].idx
    BY <1>7 DEF Prepares, Changes, DnOthers
  <2> QED
    BY <1>3, <1>7, <2>1, <2>2, <2>3 DEF Prepares, Turns
<1>8. ASSUME UNCHANGED <<req, dn>> PROVE OwnInv'
  BY <1>8 DEF OwnInv, Live, With, Held, Index, Nodes
<1>9. ASSUME NEW q \in Request, Finishes(q) PROVE OwnInv'
  <2>1. ~Live(q)' /\ \A r \in Request : r # q => req'[r] = req[r]
    BY <1>9 DEF Finishes, ReqOthers, Live
  <2>2. Live(q)
    BY <1>9 DEF Finishes, Live
  <2>3. \A o \in Object : dn[o].q = q => dn'[o] = FreeDn
    BY <1>9, <2>2, RequestFlowAssumption DEF Finishes, OwnInv
  <2>4. \A o \in Object : dn[o].q # q => dn'[o] = dn[o]
    BY <1>9, <2>2 DEF Finishes, OwnInv
  <2>5. ASSUME NEW r \in Request, Live(r)'
        PROVE  /\ req'[r].dns \in [Index(r)' -> Object]
               /\ \A i \in Index(r)' : dn'[req'[r].dns[i]].q = r /\ dn'[req'[r].dns[i]].idx = i
               /\ req'[r].idx \in 1..(Len(Nodes(r)') + 1)
               /\ With(r)' => req'[r].idx \in Index(r)'
               /\ req'[r].pc = "render" => req'[r].idx = Len(Nodes(r)') + 1
    <3>1. r # q /\ req'[r] = req[r]
      BY <2>1, <2>5
    <3>2. Live(r) /\ Index(r)' = Index(r) /\ Nodes(r)' = Nodes(r) /\ (With(r)' <=> With(r))
      BY <2>5, <3>1 DEF Live, Index, Nodes, With, Held
    <3>3. /\ req[r].dns \in [Index(r) -> Object]
          /\ \A i \in Index(r) : dn[req[r].dns[i]].q = r /\ dn[req[r].dns[i]].idx = i
      BY <3>2 DEF OwnInv
    <3>4. \A i \in Index(r) : dn'[req[r].dns[i]] = dn[req[r].dns[i]]
      BY <2>4, <3>1, <3>3
    <3> QED
      BY <3>1, <3>2, <3>3, <3>4 DEF OwnInv
  <2>6. ASSUME NEW o \in Object, dn'[o].q # NoRequest
        PROVE  /\ Live(dn[o].q)' /\ dn'[o].idx \in Index(dn[o].q)'
               /\ req'[dn'[o].q].dns[dn'[o].idx] = o
    <3>1. dn[o].q # q /\ dn'[o] = dn[o]
      BY <2>3, <2>4, <2>6, ConstantTypes
    <3>2. dn[o].q \in Request /\ Live(dn[o].q) /\ dn[o].idx \in Index(dn[o].q)
          /\ req[dn[o].q].dns[dn[o].idx] = o
      BY <2>6, <3>1 DEF OwnInv, FlowTypes, Dn
    <3>3. req'[dn'[o].q] = req[dn[o].q]
      BY <2>1, <3>1, <3>2
    <3> QED
      BY <3>1, <3>2, <3>3 DEF Live, Index, Nodes
  <2> QED
    BY <2>5, <2>6 DEF OwnInv
<1>10. ASSUME NEW q \in Request, NEW a \in Api[q], NEW objs, NEW g, Accepted(q, a, objs, g)
       PROVE  OwnInv'
  <2>1. ~Live(q) /\ Live(q)' /\ \A r \in Request : r # q => req'[r] = req[r]
    BY <1>10 DEF Accepted, ReqOthers, Live
  <2>2. \A o \in Object : dn[o].q # NoRequest => dn'[o] = dn[o]
    BY <1>10 DEF Accepted
  <2>3. Nodes(q)' = a.nodes /\ Index(q)' = 1..Len(a.nodes) /\ Len(a.nodes) \in Nat
    BY <1>10, ApiFacts DEF Accepted, Nodes, Index
  <2>4. ASSUME NEW r \in Request, Live(r)'
        PROVE  /\ req'[r].dns \in [Index(r)' -> Object]
               /\ \A i \in Index(r)' : dn'[req'[r].dns[i]].q = r /\ dn'[req'[r].dns[i]].idx = i
               /\ req'[r].idx \in 1..(Len(Nodes(r)') + 1)
               /\ With(r)' => req'[r].idx \in Index(r)'
               /\ req'[r].pc = "render" => req'[r].idx = Len(Nodes(r)') + 1
    <3>1. CASE r = q
      <4>1. ~With(q)' /\ req'[q].pc # "render" /\ req'[q].idx = 1 /\ req'[q].dns = objs
        BY <1>10 DEF Accepted, With, Held
      <4> QED
        BY <1>10, <2>3, <3>1, <4>1 DEF Accepted
    <3>2. CASE r # q
      <4>1. req'[r] = req[r]
        BY <2>1, <3>2
      <4>2. Live(r) /\ Index(r)' = Index(r) /\ Nodes(r)' = Nodes(r) /\ (With(r)' <=> With(r))
        BY <2>4, <4>1 DEF Live, Index, Nodes, With, Held
      <4>3. /\ req[r].dns \in [Index(r) -> Object]
            /\ \A i \in Index(r) : dn[req[r].dns[i]].q = r /\ dn[req[r].dns[i]].idx = i
        BY <4>2 DEF OwnInv
      <4>4. \A i \in Index(r) : dn'[req[r].dns[i]] = dn[req[r].dns[i]]
        BY <2>2, <4>3, NotRequest
      <4> QED
        BY <4>1, <4>2, <4>3, <4>4 DEF OwnInv
    <3> QED
      BY <3>1, <3>2
  <2>5. ASSUME NEW o \in Object, dn'[o].q # NoRequest
        PROVE  /\ Live(dn[o].q)' /\ dn'[o].idx \in Index(dn[o].q)'
               /\ req'[dn'[o].q].dns[dn'[o].idx] = o
    <3>1. CASE \E i \in 1..Len(a.nodes) : objs[i] = o
      <4>1. PICK i \in 1..Len(a.nodes) : objs[i] = o
        BY <3>1
      <4>2. dn'[o].q = q /\ dn'[o].idx = i /\ req'[q].dns = objs
        BY <1>10, <4>1 DEF Accepted
      <4>3. Index(dn[o].q)' = Index(q)' /\ (Live(dn[o].q)' <=> Live(q)')
        BY <4>2 DEF Index, Nodes, Live
      <4> QED
        BY <2>1, <2>3, <4>1, <4>2, <4>3
    <3>2. CASE \A i \in 1..Len(a.nodes) : objs[i] # o
      <4>1. dn'[o] = dn[o]
        BY <1>10, <3>2 DEF Accepted
      <4>2. dn[o].q \in Request /\ Live(dn[o].q) /\ dn[o].idx \in Index(dn[o].q)
            /\ req[dn[o].q].dns[dn[o].idx] = o
        BY <2>5, <4>1 DEF OwnInv, FlowTypes, Dn
      <4>3. req'[dn'[o].q] = req[dn[o].q]
        BY <2>1, <4>1, <4>2
      <4> QED
        BY <4>1, <4>2, <4>3 DEF Live, Index, Nodes
    <3> QED
      BY <3>1, <3>2
  <2> QED
    BY <2>4, <2>5 DEF OwnInv
<1> QED
  BY CoreCases, <1>1, <1>2, <1>4, <1>5, <1>6, <1>7, <1>8, <1>9, <1>10
     DEF Ends, Completes, Takes

-----------------------------------------------------------------------------
(* What the wait groups count.                                             *)

\* The nodes that were prepared and are not completed: in a channel, executed, or held
\* by their request.
Queued(o) == \E w \in Worker : \E j \in 1..Len(queue[w]) : queue[w][j] = o
Executed(o) == \E e \in Executor : Busy(e) /\ ex[e].o = o
HeldBy(o) == \E q \in Request : Held(q) /\ Current(q) = o
Open == {o \in Object : Queued(o) \/ Executed(o) \/ HeldBy(o)}
OpenIn(g) == {o \in Open : dn[o].wg = g}

\* The node that a request is with is in its group; only a node of a group is put in a
\* channel, and only one of no group is run by the request.
HeldInv ==
    \A q \in Request :
        /\ With(q) => dn[Current(q)].wg = req[q].wg
        /\ req[q].pc = "put" => req[q].wg # 0
        /\ req[q].pc = "proxy" => req[q].wg = 0

\* Open nodes are in the group of their request, and it has not rendered.
OpenInv == \A o \in Open : req[dn[o].q].pc # "render" /\ dn[o].wg = req[dn[o].q].wg

LEMMA HeldNode ==
    ASSUME FlowTypes, OwnInv, NEW q \in Request, With(q)
    PROVE  /\ Live(q) /\ req[q].idx \in Index(q) /\ Current(q) \in Object
           /\ dn[Current(q)].q = q /\ dn[Current(q)].idx = req[q].idx
<1>1. Live(q)
  BY DEF With, Held, Live
<1>2. req[q].idx \in Index(q)
  BY <1>1 DEF OwnInv
<1> QED
  BY <1>1, <1>2, CurrentNode

\* A node has one index in its request.
LEMMA NodeIsCurrent ==
    ASSUME FlowTypes, OwnInv, NEW o \in Object, NEW q \in Request, dn[o].q = q,
           dn[o].idx = req[q].idx
    PROVE  o = Current(q) /\ Live(q)
  BY NotRequest DEF OwnInv, Current

LEMMA NextHeld ==
    ASSUME FlowTypes, OwnInv, PlacesInv, HeldInv, [Next]_vars PROVE HeldInv'
<1>1. ASSUME NEW q \in Request, UNCHANGED <<req[q]>>,
             With(q) => dn'[Current(q)].wg = dn[Current(q)].wg
      PROVE  /\ With(q)' => dn'[Current(q)'].wg = req'[q].wg
             /\ req'[q].pc = "put" => req'[q].wg # 0
             /\ req'[q].pc = "proxy" => req'[q].wg = 0
  BY <1>1 DEF HeldInv, With, Held, Current
<1>2. ASSUME NEW q \in Request, ReqOthers(q), ~With(q)',
             \A r \in Request : r # q /\ With(r) => dn'[Current(r)].wg = dn[Current(r)].wg
      PROVE  HeldInv'
  <2>1. req'[q].pc # "put" /\ req'[q].pc # "proxy"
    BY <1>2 DEF With, Held
  <2>2. \A r \in Request : r # q => req'[r] = req[r]
    BY <1>2 DEF ReqOthers
  <2> QED
    BY <1>1, <1>2, <2>1, <2>2 DEF HeldInv, Current
<1>3. CASE Same
  <2>1. \A q \in Request : (With(q)' <=> With(q)) /\ Current(q)' = Current(q)
    BY <1>3 DEF Same, SameReq, With, Held, Current
  <2>2. \A q \in Request : With(q) => dn'[Current(q)].wg = dn[Current(q)].wg
    BY <1>3, HeldNode DEF Same, SameDn
  <2> QED
    BY <1>3, <2>1, <2>2 DEF HeldInv, Same, SameReq, Held, Current
<1>4. ASSUME NEW q \in Request, Refused(q) \/ Puts(q) \/ Returns(q) \/ Renders(q)
      PROVE  HeldInv'
  <2>1. ~With(q)' /\ ReqOthers(q) /\ dn' = dn
    BY <1>4 DEF Refused, Puts, Returns, Renders, Moves, Turns, With, Held
  <2> QED
    BY <1>2, <2>1
<1>5. ASSUME NEW q \in Request, Runs(q) PROVE HeldInv'
  <2>1. /\ ReqOthers(q) /\ dn' = dn /\ req'[q].pc = "proxy" /\ req'[q].wg = 0
        /\ Current(q)' = Current(q) /\ With(q) /\ req[q].wg = 0
    BY <1>5 DEF Runs, Moves, Turns, Current, With, Held
  <2>2. dn[Current(q)].wg = 0
    BY <2>1 DEF HeldInv
  <2>3. ASSUME NEW r \in Request, r # q PROVE req'[r] = req[r]
    BY <2>1, <2>3 DEF ReqOthers
  <2> QED
    BY <1>1, <2>1, <2>2, <2>3 DEF HeldInv, Current
<1>6. ASSUME NEW q \in Request, Finishes(q) PROVE HeldInv'
  <2>1. ~With(q)' /\ ReqOthers(q) /\ Live(q)
    BY <1>6 DEF Finishes, With, Held, Live
  <2>2. ASSUME NEW r \in Request, r # q, With(r) PROVE dn'[Current(r)].wg = dn[Current(r)].wg
    <3>1. Current(r) \in Object /\ dn[Current(r)].q = r
      BY <2>2, HeldNode
    <3>2. \A i \in Index(q) : dn[req[q].dns[i]].q = q
      BY <2>1 DEF OwnInv
    <3> QED
      BY <1>6, <2>2, <3>1, <3>2 DEF Finishes
  <2> QED
    BY <1>2, <2>1, <2>2
<1>7. ASSUME NEW q \in Request, NEW a \in Api[q], NEW objs, NEW g, Accepted(q, a, objs, g)
      PROVE  HeldInv'
  <2>1. ~With(q)' /\ ReqOthers(q)
    BY <1>7 DEF Accepted, With, Held
  <2>2. ASSUME NEW r \in Request, With(r) PROVE dn'[Current(r)].wg = dn[Current(r)].wg
    <3>1. Current(r) \in Object /\ dn[Current(r)].q # NoRequest
      BY <2>2, HeldNode, NotRequest
    <3>2. \A i \in 1..Len(a.nodes) : objs[i] # Current(r)
      BY <1>7, <3>1 DEF Accepted
    <3>3. dn'[Current(r)] = dn[Current(r)]
      BY <1>7, <3>1, <3>2 DEF Accepted
    <3> QED
      BY <3>3
  <2> QED
    BY <1>2, <2>1, <2>2
<1>8. ASSUME NEW q \in Request, NEW g, Prepares(q, g) PROVE HeldInv'
  <2>1. /\ ReqOthers(q) /\ req'[q].pc \notin {"put", "proxy"} /\ req'[q].wg = g
        /\ Current(q)' = Current(q) /\ dn'[Current(q)].wg = g
    BY <1>8 DEF Prepares, Turns, Current
  <2>2. ASSUME NEW r \in Request, r # q
        PROVE  req'[r] = req[r] /\ (With(r) => dn'[Current(r)].wg = dn[Current(r)].wg)
    <3>1. req'[r] = req[r]
      BY <2>1, <2>2 DEF ReqOthers
    <3>2. ASSUME With(r) PROVE dn'[Current(r)].wg = dn[Current(r)].wg
      <4>1. Current(r) \in Object /\ dn[Current(r)].q = r
        BY <3>2, HeldNode
      <4>2. Live(q) /\ req[q].idx \in Index(q)
        BY <1>8, NodesFacts DEF Prepares, Live, OwnInv
      <4>3. dn[Current(q)].q = q
        BY <4>2, CurrentNode
      <4> QED
        BY <1>8, <2>2, <4>1, <4>3 DEF Prepares, Changes, DnOthers
    <3> QED
      BY <3>1, <3>2
  <2> QED
    BY <1>1, <2>1, <2>2 DEF HeldInv, Current
<1>9. ASSUME UNCHANGED <<req, dn>> PROVE HeldInv'
  BY <1>9 DEF HeldInv, With, Held, Current
<1> QED
  BY CoreCases, <1>3, <1>4, <1>5, <1>6, <1>7, <1>8, <1>9 DEF Ends, Completes, Takes

\* The channels stay as they are and no worker gets another node.
LEMMA PlacesStay ==
    ASSUME FlowTypes, PlacesInv, queue' = queue,
           \A w \in Worker : Busy(w)' => Busy(w) /\ ex'[w].o = ex[w].o /\ ex'[w].q = ex[w].q,
           \A o \in Open : Away(o) => Away(o)' /\ dn'[o].q = dn[o].q,
           \A q \in Request : Busy(q)' =>
              req'[q].pc = "proxy" /\ ex'[q].o = Current(q)' /\ ex'[q].q = q
    PROVE  PlacesInv'
<1>1. ASSUME NEW w \in Worker, NEW j \in 1..Len(queue[w]) PROVE Away(queue[w][j])'
  <2>1. queue[w][j] \in Open /\ Away(queue[w][j])
    BY DEF Open, Queued, PlacesInv, FlowTypes
  <2>2. PICK o \in Open : o = queue[w][j]
    BY <2>1
  <2>3. Away(o)'
    BY <2>1, <2>2
  <2> QED
    BY <2>2, <2>3 DEF Away
<1>2. ASSUME NEW w \in Worker, Busy(w)'
      PROVE  Away(ex[w].o)' /\ ex'[w].q = dn'[ex'[w].o].q
  <2>1. Busy(w) /\ ex'[w].o = ex[w].o /\ ex'[w].q = ex[w].q /\ w \in Executor
    BY <1>2 DEF Executor
  <2>2. ex[w].o \in Open /\ Away(ex[w].o) /\ ex[w].q = dn[ex[w].o].q
    BY <2>1 DEF Open, Executed, PlacesInv, FlowTypes, ExTypes
  <2>3. PICK o \in Open : o = ex[w].o
    BY <2>2
  <2>4. Away(o)' /\ dn'[o].q = dn[o].q
    BY <2>2, <2>3
  <2> QED
    BY <2>1, <2>2, <2>3, <2>4 DEF Away
<1>3. \A w, v \in Worker : Busy(w)' /\ Busy(v)' /\ ex'[w].o = ex'[v].o => w = v
  BY DEF PlacesInv
<1>4. \A w, v \in Worker : \A j \in 1..Len(queue[w]) : Busy(v)' => queue[w][j] # ex'[v].o
  BY DEF PlacesInv
<1>5. \A w, v \in Worker : \A j \in 1..Len(queue[w]), k \in 1..Len(queue[v]) :
          queue[w][j] = queue[v][k] => w = v /\ j = k
  BY DEF PlacesInv
<1> QED
  BY <1>1, <1>2, <1>3, <1>4, <1>5 DEF PlacesInv

\* An open node is one of a live request, at or before its index.
LEMMA OpenNode ==
    ASSUME FlowTypes, OwnInv, PlacesInv, NEW o \in Open
    PROVE  /\ o \in Object /\ dn[o].q \in Request /\ Live(dn[o].q)
           /\ dn[o].idx \in Index(dn[o].q) /\ req[dn[o].q].dns[dn[o].idx] = o
           /\ Away(o) \/ (With(dn[o].q) /\ o = Current(dn[o].q))
<1>1. o \in Object /\ dn[o].q \in Request \cup {NoRequest}
  BY DEF Open, FlowTypes, Dn
<1>2. CASE Queued(o)
  <2>1. Away(o)
    BY <1>2 DEF Queued, PlacesInv
  <2> QED
    BY <1>1, <2>1 DEF Away, OwnInv
<1>3. CASE Executed(o)
  <2>1. PICK e \in Executor : Busy(e) /\ ex[e].o = o
    BY <1>3 DEF Executed
  <2>2. /\ dn[o].q \in Request /\ Live(dn[o].q) /\ dn[o].idx \in Index(dn[o].q)
        /\ req[dn[o].q].dns[dn[o].idx] = o /\ ex[e].q = dn[o].q
    BY <2>1, BusyNode
  <2>3. CASE e \in Worker
    BY <1>1, <2>1, <2>2, <2>3 DEF PlacesInv
  <2>4. CASE e \in Request
    <3>1. req[e].pc = "proxy" /\ ex[e].o = Current(e) /\ ex[e].q = e
      BY <2>1, <2>4 DEF PlacesInv
    <3> QED
      BY <1>1, <2>1, <2>2, <3>1 DEF With
  <2> QED
    BY <2>3, <2>4 DEF Executor
<1>4. CASE HeldBy(o)
  <2>1. PICK q \in Request : Held(q) /\ Current(q) = o
    BY <1>4 DEF HeldBy
  <2>2. With(q)
    BY <2>1 DEF With
  <2> QED
    BY <1>1, <2>1, <2>2, HeldNode DEF OwnInv, Current
<1> QED
  BY <1>2, <1>3, <1>4 DEF Open

\* Nodes that were given away stay so when their request goes on.
LEMMA AwayStays ==
    ASSUME FlowTypes, OwnInv, PlacesInv, NEW o \in Open, Away(o),
           dn'[o].q = dn[o].q, dn'[o].idx = dn[o].idx, dn'[o].wg = dn[o].wg,
           req'[dn[o].q].idx \in {req[dn[o].q].idx, req[dn[o].q].idx + 1}
    PROVE  Away(o)'
<1>1. dn[o].q \in Request /\ o \in Object
  BY OpenNode
<1>2. req[dn[o].q].idx \in Nat /\ dn[o].idx \in Nat
  BY <1>1 DEF FlowTypes, Req, Dn
<1>3. PICK q : q = dn[o].q
  OBVIOUS
<1>4. dn'[o].idx < req'[q].idx
  BY <1>2, <1>3 DEF Away
<1> QED
  BY <1>3, <1>4 DEF Away

LEMMA OnePlace ==
    ASSUME PlacesInv, NEW w \in Worker, NEW v \in Worker, NEW j \in 1..Len(queue[w]),
           NEW k \in 1..Len(queue[v]), queue[w][j] = queue[v][k]
    PROVE  w = v /\ j = k
  BY DEF PlacesInv

LEMMA PutPlaces ==
    ASSUME FlowTypes, OwnInv, PlacesInv, HeldInv, NEW q \in Request, Puts(q)
    PROVE  PlacesInv'
<1>1. With(q)
  BY DEF Puts, With, Held
<1>2. PICK c \in Object : /\ c = Current(q) /\ dn[c].q = q /\ dn[c].idx = req[q].idx
                          /\ dn[c].wg # 0
  BY <1>1, HeldNode DEF HeldInv, Puts
<1>3. PICK t \in Worker : t = req[q].to /\ queue' = [queue EXCEPT ![t] = Append(@, c)]
  BY <1>2 DEF Puts
<1>4. \A w \in Worker : queue[w] \in Seq(Object)
  BY DEF FlowTypes
<1>5. /\ \A w \in Worker : w # t => queue'[w] = queue[w]
      /\ Len(queue'[t]) = Len(queue[t]) + 1
      /\ \A j \in 1..Len(queue[t]) : queue'[t][j] = queue[t][j]
      /\ queue'[t][Len(queue[t]) + 1] = c
      /\ Len(queue[t]) \in Nat
  <2>1. queue'[t] = Append(queue[t], c) /\ \A w \in Worker : w # t => queue'[w] = queue[w]
    BY <1>3 DEF FlowTypes
  <2> QED
    BY <1>4, <2>1
<1>6. ~Away(c)
  <2>1. req[q].idx \in Nat
    BY DEF FlowTypes, Req
  <2> QED
    BY <1>2, <2>1 DEF Away
<1>7. ASSUME NEW w \in Worker, NEW j \in 1..Len(queue'[w])
      PROVE  \/ j \in 1..Len(queue[w]) /\ queue'[w][j] = queue[w][j] /\ queue'[w][j] # c
             \/ w = t /\ j = Len(queue[t]) + 1 /\ queue'[w][j] = c
  <2>1. \A i \in 1..Len(queue[w]) : queue[w][i] # c
    BY <1>6 DEF PlacesInv
  <2>2. CASE w # t
    BY <1>5, <2>1, <2>2
  <2>3. CASE w = t
    BY <1>5, <2>1, <2>3
  <2> QED
    BY <2>2, <2>3
<1>8. ASSUME NEW o \in Object, Away(o) PROVE Away(o)'
  <2>1. dn[o].q \in Request /\ dn[o].idx \in Nat /\ req[dn[o].q].idx \in Nat
    BY <1>8 DEF Away, FlowTypes, Dn, Req
  <2>2. PICK r \in Request : r = dn[o].q
    BY <2>1
  <2>3. req'[r].idx \in {req[r].idx, req[r].idx + 1}
    BY DEF Puts, Turns, ReqOthers
  <2>4. dn' = dn
    BY DEF Puts
  <2>5. dn[o].idx < req'[r].idx
    BY <1>8, <2>1, <2>2, <2>3 DEF Away
  <2> QED
    BY <1>8, <2>2, <2>4, <2>5 DEF Away
<1>9. Away(c)'
  <2>1. dn' = dn /\ req'[q].idx = req[q].idx + 1 /\ req[q].idx \in Nat
    BY DEF Puts, Turns, FlowTypes, Req
  <2> QED
    BY <1>2, <2>1, NotRequest DEF Away
<1>10. ASSUME NEW w \in Worker, NEW j \in 1..Len(queue'[w]) PROVE Away(queue[w][j])'
  <2>1. CASE j \in 1..Len(queue[w]) /\ queue'[w][j] = queue[w][j]
    <3>1. PICK o \in Object : o = queue[w][j] /\ Away(o)
      BY <1>4, <2>1 DEF PlacesInv
    <3>2. Away(o)'
      BY <1>8, <3>1
    <3> QED
      BY <2>1, <3>1, <3>2 DEF Away
  <2>2. CASE queue'[w][j] = c
    BY <1>9, <2>2 DEF Away
  <2> QED
    BY <1>7, <2>1, <2>2
<1>11. \A e \in Executor : Busy(e)' <=> Busy(e)
  BY DEF Busy, Puts
<1>12. ex' = ex /\ dn' = dn
  BY DEF Puts
<1>13. ASSUME NEW w \in Worker, Busy(w)' PROVE Away(ex[w].o)' /\ ex'[w].q = dn'[ex'[w].o].q
  <2>1. Busy(w) /\ w \in Executor
    BY <1>11, <1>13 DEF Executor
  <2>2. PICK o \in Object : o = ex[w].o /\ Away(o) /\ ex[w].q = dn[o].q
    BY <2>1 DEF PlacesInv, FlowTypes, ExTypes
  <2>3. Away(o)'
    BY <1>8, <2>2
  <2> QED
    BY <1>12, <2>2, <2>3 DEF Away
<1>14. \A r \in Request : Busy(r)' =>
          req'[r].pc = "proxy" /\ ex'[r].o = Current(r)' /\ ex'[r].q = r
  <2> SUFFICES ASSUME NEW r \in Request, Busy(r)'
               PROVE  req'[r].pc = "proxy" /\ ex'[r].o = Current(r)' /\ ex'[r].q = r
    OBVIOUS
  <2>1. Busy(r) /\ req[r].pc = "proxy" /\ ex[r].o = Current(r) /\ ex[r].q = r
    BY <1>11 DEF PlacesInv, Executor
  <2>2. r # q
    BY <2>1 DEF Puts
  <2>3. req'[r] = req[r]
    BY <2>2 DEF Puts, Turns, ReqOthers
  <2> QED
    BY <1>12, <2>1, <2>3 DEF Current
<1>15. ASSUME NEW w \in Worker, NEW v \in Worker, NEW j \in 1..Len(queue'[w]),
              NEW k \in 1..Len(queue'[v]), queue'[w][j] = queue'[v][k]
       PROVE  w = v /\ j = k
  <2>1. CASE queue'[w][j] = c
    BY <1>7, <1>15, <2>1
  <2>2. CASE queue'[w][j] # c
    <3>1. /\ j \in 1..Len(queue[w]) /\ queue'[w][j] = queue[w][j]
          /\ k \in 1..Len(queue[v]) /\ queue'[v][k] = queue[v][k]
      BY <1>7, <1>15, <2>2
    <3>2. queue[w][j] = queue[v][k]
      BY <1>15, <3>1
    <3> QED
      BY <3>1, <3>2, OnePlace
  <2> QED
    BY <2>1, <2>2
<1>16. \A w, v \in Worker : Busy(w)' /\ Busy(v)' /\ ex'[w].o = ex'[v].o => w = v
  BY <1>11, <1>12 DEF PlacesInv, Executor
<1>17. ASSUME NEW w \in Worker, NEW v \in Worker, NEW j \in 1..Len(queue'[w]), Busy(v)'
       PROVE  queue'[w][j] # ex'[v].o
  <2>1. Busy(v)
    BY <1>11, <1>17 DEF Executor
  <2>2. ex[v].o # c
    BY <1>6, <2>1 DEF PlacesInv
  <2> QED
    BY <1>7, <1>12, <2>1, <2>2 DEF PlacesInv
<1> QED
  BY <1>10, <1>13, <1>14, <1>15, <1>16, <1>17 DEF PlacesInv

LEMMA TakePlaces ==
    ASSUME FlowTypes, OwnInv, PlacesInv, NEW t \in Worker, Takes(t)
    PROVE  PlacesInv'
<1>1. PICK c \in Object : c = Taken(t) /\ c = queue[t][1] /\ Away(c) /\ dn[c].q \in Request
  BY TakenNode DEF Takes
<1>2. \A w \in Worker : queue[w] \in Seq(Object) /\ Len(queue[w]) \in Nat
  BY DEF FlowTypes
<1>3. /\ \A w \in Worker : w # t => queue'[w] = queue[w]
      /\ Len(queue'[t]) = Len(queue[t]) - 1 /\ Len(queue[t]) > 0
      /\ \A j \in 1..(Len(queue[t]) - 1) : queue'[t][j] = queue[t][j + 1]
  <2>1. queue'[t] = Tail(queue[t]) /\ \A w \in Worker : w # t => queue'[w] = queue[w]
    BY DEF Takes, FlowTypes
  <2>2. queue[t] # <<>>
    BY DEF Takes
  <2> QED
    BY <1>2, <2>1, <2>2
<1>4. UNCHANGED <<req, dn>>
  BY DEF Takes
<1>5. \A o : Away(o)' <=> Away(o)
  BY <1>4 DEF Away
<1>6. ASSUME NEW w \in Worker, NEW j \in 1..Len(queue'[w])
      PROVE  \E i \in 1..Len(queue[w]) :
                /\ queue'[w][j] = queue[w][i] /\ i = IF w = t THEN j + 1 ELSE j
                /\ w = t => i # 1
  <2>1. CASE w # t
    BY <1>3, <2>1
  <2>2. CASE w = t
    <3>1. j \in 1..(Len(queue[t]) - 1) /\ j + 1 \in 1..Len(queue[t]) /\ j + 1 # 1
      BY <1>2, <1>3, <2>2
    <3> QED
      BY <1>3, <2>2, <3>1
  <2> QED
    BY <2>1, <2>2
<1>7. ASSUME NEW w \in Worker, NEW j \in 1..Len(queue'[w])
      PROVE  Away(queue[w][j])' /\ queue'[w][j] # c
  <2>1. PICK i \in 1..Len(queue[w]) : queue'[w][j] = queue[w][i] /\ (w = t => i # 1)
    BY <1>6
  <2>2. queue[w][i] # c
    <3>1. 1 \in 1..Len(queue[t])
      BY <1>2, <1>3
    <3> QED
      BY <1>1, <2>1, <3>1 DEF PlacesInv
  <2>3. Away(queue[w][i])
    BY <2>1 DEF PlacesInv
  <2> QED
    BY <1>4, <2>1, <2>2, <2>3 DEF Away
<1>8. ASSUME NEW w \in Worker, NEW v \in Worker, NEW j \in 1..Len(queue'[w]),
             NEW k \in 1..Len(queue'[v]), queue'[w][j] = queue'[v][k]
      PROVE  w = v /\ j = k
  <2>1. PICK i \in 1..Len(queue[w]) : /\ queue'[w][j] = queue[w][i]
                                      /\ i = IF w = t THEN j + 1 ELSE j
    BY <1>6
  <2>2. PICK m \in 1..Len(queue[v]) : /\ queue'[v][k] = queue[v][m]
                                      /\ m = IF v = t THEN k + 1 ELSE k
    BY <1>6
  <2>a. queue[w][i] = queue[v][m]
    BY <1>8, <2>1, <2>2
  <2>3. w = v /\ i = m
    BY <2>a, OnePlace
  <2>4. j \in Int /\ k \in Int
    BY <1>8
  <2> QED
    BY <2>1, <2>2, <2>3, <2>4
<1>9. /\ t \in Executor /\ t \notin Request /\ ~Busy(t) /\ Busy(t)'
      /\ ex'[t].o = c /\ ex'[t].q = dn[c].q
      /\ \A e \in Executor : e # t => ex'[e] = ex[e]
  BY <1>1, NotRequest DEF Takes, Busy, Executor, ExOthers
<1>10. \A w \in Worker : w # t => (Busy(w)' <=> Busy(w)) /\ ex'[w] = ex[w]
  BY <1>9 DEF Busy, Executor
<1>11. \A r \in Request : (Busy(r)' <=> Busy(r)) /\ ex'[r] = ex[r]
  BY <1>9 DEF Busy, Executor
<1>12. ASSUME NEW w \in Worker, Busy(w)' PROVE Away(ex[w].o)' /\ ex'[w].q = dn'[ex'[w].o].q
  <2>1. CASE w = t
    BY <1>1, <1>4, <1>9, <2>1 DEF Away
  <2>2. CASE w # t
    <3>1. Busy(w) /\ ex'[w] = ex[w]
      BY <1>10, <1>12, <2>2
    <3>2. Away(ex[w].o) /\ ex[w].q = dn[ex[w].o].q
      BY <3>1 DEF PlacesInv
    <3> QED
      BY <1>4, <3>1, <3>2 DEF Away
  <2> QED
    BY <2>1, <2>2
<1>13. \A r \in Request : Busy(r)' =>
          req'[r].pc = "proxy" /\ ex'[r].o = Current(r)' /\ ex'[r].q = r
  BY <1>4, <1>11 DEF PlacesInv, Current
<1>14. \A w \in Worker : Busy(w) => ex[w].o # c
  <2>1. 1 \in 1..Len(queue[t])
    BY <1>2, <1>3
  <2> QED
    BY <1>1, <2>1 DEF PlacesInv
<1>15. \A w, v \in Worker : Busy(w)' /\ Busy(v)' /\ ex'[w].o = ex'[v].o => w = v
  BY <1>9, <1>10, <1>14 DEF PlacesInv
<1>16. ASSUME NEW w \in Worker, NEW v \in Worker, NEW j \in 1..Len(queue'[w]), Busy(v)'
       PROVE  queue'[w][j] # ex'[v].o
  <2>1. CASE v = t
    BY <1>7, <1>9, <2>1
  <2>2. CASE v # t
    <3>1. Busy(v) /\ ex'[v].o = ex[v].o
      BY <1>10, <1>16, <2>2
    <3>2. PICK i \in 1..Len(queue[w]) : queue'[w][j] = queue[w][i]
      BY <1>6
    <3> QED
      BY <3>1, <3>2 DEF PlacesInv
  <2> QED
    BY <2>1, <2>2
<1> QED
  BY <1>7, <1>8, <1>12, <1>13, <1>15, <1>16 DEF PlacesInv

LEMMA NextPlaces ==
    ASSUME FlowTypes, OwnInv, PlacesInv, HeldInv, OpenInv, [Next]_vars PROVE PlacesInv'
<1>1. CASE Same
  <2>1. \A w \in Worker : Busy(w)' => Busy(w) /\ ex'[w].o = ex[w].o /\ ex'[w].q = ex[w].q
    BY <1>1 DEF Same, SameEx, Executor
  <2>2. \A o \in Open : Away(o) => Away(o)' /\ dn'[o].q = dn[o].q
    BY <1>1, OpenNode, AwayStays DEF Same, SameReq, SameDn
  <2>3. \A q \in Request : Busy(q)' =>
           req'[q].pc = "proxy" /\ ex'[q].o = Current(q)' /\ ex'[q].q = q
    BY <1>1 DEF Same, SameReq, SameEx, PlacesInv, Current, Held, Executor
  <2> QED
    BY <1>1, <2>1, <2>2, <2>3, PlacesStay DEF Same
\* A request that is not with a worker's node moves, and the executions are the same.
<1>2. ASSUME NEW q \in Request, ReqOthers(q), UNCHANGED <<ex, queue>>, ~Busy(q),
             \A o \in Open : Away(o) =>
                /\ dn'[o].q = dn[o].q /\ dn'[o].idx = dn[o].idx /\ dn'[o].wg = dn[o].wg
                /\ req'[dn[o].q].idx \in {req[dn[o].q].idx, req[dn[o].q].idx + 1}
      PROVE  PlacesInv'
  <2>1. \A e : Busy(e)' <=> Busy(e)
    BY <1>2 DEF Busy
  <2>2. \A o \in Open : Away(o) => Away(o)' /\ dn'[o].q = dn[o].q
    BY <1>2, AwayStays
  <2>3. ASSUME NEW r \in Request, Busy(r)'
        PROVE  req'[r].pc = "proxy" /\ ex'[r].o = Current(r)' /\ ex'[r].q = r
    <3>1. r # q /\ Busy(r)
      BY <1>2, <2>1, <2>3
    <3>2. req'[r] = req[r] /\ ex'[r] = ex[r]
      BY <1>2, <3>1 DEF ReqOthers
    <3> QED
      BY <3>1, <3>2 DEF PlacesInv, Current
  <2> QED
    BY <1>2, <2>1, <2>2, <2>3, PlacesStay
<1>3. ASSUME NEW q \in Request, Refused(q) \/ Returns(q) \/ Renders(q) PROVE PlacesInv'
  <2>1. ~Busy(q)
    BY <1>3 DEF Refused, Returns, Renders, PlacesInv
  <2>2. ReqOthers(q) /\ UNCHANGED <<dn, ex, queue>>
    BY <1>3 DEF Refused, Returns, Renders, Moves, Turns
  <2>3. ASSUME NEW o \in Open
        PROVE  req'[dn[o].q].idx \in {req[dn[o].q].idx, req[dn[o].q].idx + 1}
    <3>1. PICK r \in Request : r = dn[o].q /\ Live(r)
      BY <2>3, OpenNode
    <3>2. CASE r # q
      BY <2>2, <3>1, <3>2 DEF ReqOthers
    <3>3. CASE r = q
      BY <1>3, <3>1, <3>3 DEF Refused, Returns, Renders, Moves, Turns, Live
    <3> QED
      BY <3>2, <3>3
  <2> QED
    BY <1>2, <2>1, <2>2, <2>3
<1>4. ASSUME NEW q \in Request, Runs(q) PROVE PlacesInv'
  <2>1. \A w \in Worker : w # q /\ w \in Executor
    BY NotRequest DEF Executor
  <2>2. \A w \in Worker : Busy(w)' => Busy(w) /\ ex'[w].o = ex[w].o /\ ex'[w].q = ex[w].q
    BY <1>4, <2>1 DEF Runs, ExOthers, Busy
  <2>3. ASSUME NEW o \in Open, Away(o) PROVE Away(o)' /\ dn'[o].q = dn[o].q
    <3>1. PICK r \in Request : r = dn[o].q
      BY OpenNode
    <3>2. req'[r].idx = req[r].idx /\ dn' = dn
      BY <1>4 DEF Runs, Moves, Turns, ReqOthers
    <3> QED
      BY <2>3, <3>1, <3>2, AwayStays
  <2>4. ASSUME NEW r \in Request, Busy(r)'
        PROVE  req'[r].pc = "proxy" /\ ex'[r].o = Current(r)' /\ ex'[r].q = r
    <3>1. CASE r = q
      BY <1>4, <3>1 DEF Runs, Moves, Turns, Current
    <3>2. CASE r # q
      <4>1. req'[r] = req[r] /\ ex'[r] = ex[r]
        BY <1>4, <3>2 DEF Runs, Moves, Turns, ReqOthers, ExOthers, Executor
      <4>2. Busy(r)
        BY <2>4, <4>1 DEF Busy
      <4> QED
        BY <4>1, <4>2 DEF PlacesInv, Current
    <3> QED
      BY <3>1, <3>2
  <2> QED
    BY <1>4, <2>2, <2>3, <2>4, PlacesStay DEF Runs
<1>5. ASSUME NEW q \in Request, Finishes(q) PROVE PlacesInv'
  <2>1. ~Busy(q) /\ ReqOthers(q) /\ UNCHANGED <<ex, queue>>
    BY <1>5 DEF Finishes, PlacesInv
  <2>2. ASSUME NEW o \in Open
        PROVE  /\ dn'[o].q = dn[o].q /\ dn'[o].idx = dn[o].idx /\ dn'[o].wg = dn[o].wg
               /\ req'[dn[o].q].idx \in {req[dn[o].q].idx, req[dn[o].q].idx + 1}
    <3>1. PICK r \in Request : r = dn[o].q /\ o \in Object
      BY OpenNode
    <3>2. r # q
      BY <1>5, <2>2, <3>1 DEF OpenInv, Finishes
    <3>3. Live(q)
      BY <1>5 DEF Finishes, Live
    <3>4. \A i \in Index(q) : req[q].dns[i] # o
      BY <3>1, <3>2, <3>3 DEF OwnInv
    <3>5. dn'[o] = dn[o] /\ req'[r] = req[r]
      BY <1>5, <3>1, <3>2, <3>4 DEF Finishes, ReqOthers
    <3> QED
      BY <3>1, <3>5
  <2> QED
    BY <1>2, <2>1, <2>2
<1>6. ASSUME NEW q \in Request, NEW a \in Api[q], NEW objs, NEW g, Accepted(q, a, objs, g)
      PROVE  PlacesInv'
  <2>1. ~Busy(q) /\ ReqOthers(q) /\ UNCHANGED <<ex, queue>> /\ ~Live(q)
    BY <1>6 DEF Accepted, PlacesInv, Live
  <2>2. ASSUME NEW o \in Open
        PROVE  /\ dn'[o].q = dn[o].q /\ dn'[o].idx = dn[o].idx /\ dn'[o].wg = dn[o].wg
               /\ req'[dn[o].q].idx \in {req[dn[o].q].idx, req[dn[o].q].idx + 1}
    <3>1. PICK r \in Request : r = dn[o].q /\ Live(r) /\ o \in Object
      BY OpenNode
    <3>2. r # q /\ \A i \in 1..Len(a.nodes) : objs[i] # o
      BY <1>6, <2>1, <3>1, NotRequest DEF Accepted
    <3>3. dn'[o] = dn[o] /\ req'[r] = req[r]
      BY <1>6, <2>1, <3>1, <3>2 DEF Accepted, ReqOthers
    <3> QED
      BY <3>1, <3>3
  <2> QED
    BY <1>2, <2>1, <2>2
<1>7. ASSUME NEW q \in Request, NEW g, Prepares(q, g) PROVE PlacesInv'
  <2>1. ~Busy(q) /\ ReqOthers(q) /\ UNCHANGED <<ex, queue>> /\ req'[q].idx = req[q].idx
    BY <1>7 DEF Prepares, Turns, PlacesInv
  <2>2. Live(q) /\ req[q].idx \in Index(q) /\ req[q].idx \in Nat
    BY <1>7, NodesFacts DEF Prepares, Live, OwnInv
  <2>3. Current(q) \in Object /\ dn[Current(q)].q = q /\ dn[Current(q)].idx = req[q].idx
    BY <2>2, CurrentNode
  <2>4. ASSUME NEW o \in Open, Away(o)
        PROVE  /\ dn'[o].q = dn[o].q /\ dn'[o].idx = dn[o].idx /\ dn'[o].wg = dn[o].wg
               /\ req'[dn[o].q].idx \in {req[dn[o].q].idx, req[dn[o].q].idx + 1}
    <3>1. PICK r \in Request : r = dn[o].q /\ o \in Object
      BY OpenNode
    <3>2. o # Current(q)
      BY <2>2, <2>3, <2>4 DEF Away
    <3>3. dn'[o] = dn[o] /\ req'[r].idx = req[r].idx
      BY <1>7, <2>1, <3>1, <3>2 DEF Prepares, Changes, DnOthers, ReqOthers
    <3> QED
      BY <3>1, <3>3
  <2> QED
    BY <1>2, <2>1, <2>4
<1>8. ASSUME NEW e \in Executor, NEW o \in Object, Ends(e, o) PROVE PlacesInv'
  <2>1. UNCHANGED <<req, dn, queue>> /\ ~Busy(e)' /\ \A f \in Executor : f # e => ex'[f] = ex[f]
    BY <1>8 DEF Ends, Completes, ExOthers, Busy
  <2>2. \A f \in Executor : Busy(f)' => Busy(f) /\ ex'[f] = ex[f]
    BY <2>1 DEF Busy
  <2>3. \A p : Away(p)' <=> Away(p)
    BY <2>1 DEF Away
  <2>4. \A r \in Request : Busy(r)' =>
           req'[r].pc = "proxy" /\ ex'[r].o = Current(r)' /\ ex'[r].q = r
    BY <2>1, <2>2 DEF PlacesInv, Current, Executor
  <2> QED
    BY <2>1, <2>2, <2>3, <2>4, PlacesStay DEF Executor
<1> QED
  BY CoreCases, PutPlaces, TakePlaces, <1>1, <1>3, <1>4, <1>5, <1>6, <1>7, <1>8

LEMMA InitCore == Init => OwnInv /\ PlacesInv /\ HeldInv /\ OpenInv /\ Open = {}
<1> SUFFICES ASSUME Init PROVE OwnInv /\ PlacesInv /\ HeldInv /\ OpenInv /\ Open = {}
  OBVIOUS
<1>1. /\ \A q \in Request : req[q].pc = "idle"
      /\ \A o \in Object : dn[o].q = NoRequest
      /\ \A e \in Executor : ~Busy(e)
      /\ \A w \in Worker : queue[w] = <<>>
  BY ConstantTypes DEF Init, Busy
<1>2. \A w \in Worker : 1..Len(queue[w]) = {}
  BY <1>1
<1>3. OwnInv
  BY <1>1 DEF OwnInv, Live
<1>4. PlacesInv
  BY <1>1, <1>2 DEF PlacesInv, Executor
<1>5. HeldInv
  BY <1>1 DEF HeldInv, With, Held
<1>6. Open = {}
  BY <1>1, <1>2 DEF Open, Queued, Executed, HeldBy, Held
<1> QED
  BY <1>3, <1>4, <1>5, <1>6 DEF OpenInv

\* The steps that keep the open nodes.
Keeps ==
    \/ Same
    \/ \E q \in Request : Refused(q) \/ Runs(q) \/ Puts(q) \/ Returns(q)
    \/ \E q \in Request : Renders(q) \/ Finishes(q)
    \/ \E q \in Request : \E a \in Api[q] : \E objs, g : Accepted(q, a, objs, g)
    \/ \E w \in Worker : Takes(w)

LEMMA OpenCases ==
    ASSUME FlowTypes, OwnInv, PlacesInv, [Next]_vars
    PROVE  \/ Keeps
           \/ \E q \in Request : \E g : Prepares(q, g)
           \/ \E e \in Executor, o \in Object : Ends(e, o)
  BY CoreCases DEF Keeps

\* A request that holds no node, before and after, leaves the places as they are.
LEMMA HeldByOthers ==
    ASSUME NEW q \in Request, ReqOthers(q), ~Held(q), ~Held(q)', NEW o
    PROVE  HeldBy(o)' <=> HeldBy(o)
<1>1. \A r \in Request : r # q => req'[r] = req[r]
  BY DEF ReqOthers
<1>2. \A r \in Request : r # q => (Held(r)' <=> Held(r)) /\ Current(r)' = Current(r)
  BY <1>1 DEF Held, Current
<1> QED
  BY <1>2 DEF HeldBy

\* A request gives up the node that it holds.
LEMMA HeldByGives ==
    ASSUME NEW q \in Request, ReqOthers(q), Held(q), ~Held(q)', NEW o
    PROVE  HeldBy(o) <=> HeldBy(o)' \/ o = Current(q)
<1>1. \A r \in Request : r # q => req'[r] = req[r]
  BY DEF ReqOthers
<1>2. \A r \in Request : r # q => (Held(r)' <=> Held(r)) /\ Current(r)' = Current(r)
  BY <1>1 DEF Held, Current
<1> QED
  BY <1>2 DEF HeldBy

\* What the steps on channels do to what is in them.
LEMMA QueuedPut ==
    ASSUME FlowTypes, OwnInv, NEW q \in Request, Puts(q), NEW o
    PROVE  Queued(o)' <=> Queued(o) \/ o = Current(q)
<1>1. With(q)
  BY DEF Puts, With, Held
<1>2. PICK t \in Worker, c \in Object :
         c = Current(q) /\ queue' = [queue EXCEPT ![t] = Append(@, c)]
  BY <1>1, HeldNode DEF Puts
<1>3. \A w \in Worker : queue[w] \in Seq(Object)
  BY DEF FlowTypes
<1>4. queue'[t] = Append(queue[t], c) /\ \A w \in Worker : w # t => queue'[w] = queue[w]
  BY <1>2 DEF FlowTypes
<1>5. /\ Len(queue'[t]) = Len(queue[t]) + 1 /\ Len(queue[t]) \in Nat
      /\ \A j \in 1..Len(queue[t]) : queue'[t][j] = queue[t][j]
      /\ queue'[t][Len(queue[t]) + 1] = c
  BY <1>3, <1>4
<1>6. ASSUME NEW w \in Worker, w # t
      PROVE  (\E j \in 1..Len(queue'[w]) : queue'[w][j] = o)
                <=> (\E j \in 1..Len(queue[w]) : queue[w][j] = o)
  BY <1>4, <1>6
<1>7. (\E j \in 1..Len(queue'[t]) : queue'[t][j] = o)
         <=> (\E j \in 1..Len(queue[t]) : queue[t][j] = o) \/ o = c
  <2>1. 1..Len(queue'[t]) = 1..Len(queue[t]) \cup {Len(queue[t]) + 1}
    BY <1>5
  <2> QED
    BY <1>5, <2>1
<1> QED
  BY <1>2, <1>6, <1>7 DEF Queued

LEMMA QueuedTake ==
    ASSUME FlowTypes, NEW w \in Worker, Takes(w), NEW o
    PROVE  Queued(o) <=> Queued(o)' \/ o = Taken(w)
<1>1. queue[w] \in Seq(Object) /\ queue[w] # <<>>
  BY DEF FlowTypes, Takes
<1>2. queue'[w] = Tail(queue[w]) /\ \A v \in Worker : v # w => queue'[v] = queue[v]
  BY DEF FlowTypes, Takes
<1>3. /\ Len(queue[w]) \in Nat \ {0} /\ Len(queue'[w]) = Len(queue[w]) - 1
      /\ \A j \in 1..Len(queue'[w]) : queue'[w][j] = queue[w][j + 1]
      /\ Taken(w) = queue[w][1]
  BY <1>1, <1>2 DEF Taken
<1>4. ASSUME NEW v \in Worker, v # w
      PROVE  (\E j \in 1..Len(queue'[v]) : queue'[v][j] = o)
                <=> (\E j \in 1..Len(queue[v]) : queue[v][j] = o)
  BY <1>2, <1>4
<1>5. ASSUME NEW j \in 1..Len(queue[w]), queue[w][j] = o, o # Taken(w)
      PROVE  \E k \in 1..Len(queue'[w]) : queue'[w][k] = o
  <2>1. j - 1 \in 1..Len(queue'[w]) /\ queue'[w][j - 1] = queue[w][(j - 1) + 1]
    BY <1>3, <1>5
  <2> QED
    BY <1>5, <2>1
<1>6. ASSUME NEW j \in 1..Len(queue'[w]), queue'[w][j] = o
      PROVE  \E k \in 1..Len(queue[w]) : queue[w][k] = o
  <2>1. j + 1 \in 1..Len(queue[w])
    BY <1>3
  <2> QED
    BY <1>3, <1>6, <2>1
<1>7. \E k \in 1..Len(queue[w]) : queue[w][k] = Taken(w)
  BY <1>3
<1> QED
  BY <1>4, <1>5, <1>6, <1>7 DEF Queued

LEMMA KeepsOpen ==
    ASSUME FlowTypes, OwnInv, PlacesInv, HeldInv, OpenInv, Keeps
    PROVE  Open' = Open /\ \A o \in Open : SameDn(o)
<1>1. CASE Same
  <2>1. \A o : Queued(o)' <=> Queued(o)
    BY <1>1 DEF Same, Queued
  <2>2. \A o : Executed(o)' <=> Executed(o)
    BY <1>1 DEF Same, SameEx, Executed
  <2>3. \A q \in Request : (Held(q)' <=> Held(q)) /\ Current(q)' = Current(q)
    BY <1>1 DEF Same, SameReq, Held, Current
  <2>4. \A o : HeldBy(o)' <=> HeldBy(o)
    BY <2>3 DEF HeldBy
  <2>5. Open' = Open
    BY <2>1, <2>2, <2>4 DEF Open
  <2> QED
    BY <1>1, <2>5, OpenNode DEF Same
\* Channels and executions stay as they are.
<1>2. ASSUME NEW q \in Request, ReqOthers(q), ~Held(q), ~Held(q)', UNCHANGED <<ex, queue>>
      PROVE  Open' = Open
  <2>1. \A o : (Queued(o)' <=> Queued(o)) /\ (Executed(o)' <=> Executed(o))
    BY <1>2 DEF Queued, Executed, Busy
  <2>2. \A o : HeldBy(o)' <=> HeldBy(o)
    BY <1>2, HeldByOthers
  <2> QED
    BY <2>1, <2>2 DEF Open
<1>3. ASSUME NEW q \in Request, Refused(q) \/ Returns(q) \/ Renders(q)
      PROVE  Open' = Open /\ \A o \in Open : SameDn(o)
  <2>1. ReqOthers(q) /\ ~Held(q) /\ ~Held(q)' /\ UNCHANGED <<dn, ex, queue>>
    BY <1>3 DEF Refused, Returns, Renders, Moves, Turns, Held
  <2> QED
    BY <1>2, <2>1 DEF SameDn
<1>4. ASSUME NEW q \in Request, Runs(q) PROVE Open' = Open /\ \A o \in Open : SameDn(o)
  <2>1. /\ ReqOthers(q) /\ Held(q) /\ ~Held(q)' /\ UNCHANGED <<dn, queue>>
        /\ ExOthers(q) /\ q \in Executor
    BY <1>4 DEF Runs, Moves, Turns, Held, Executor
  <2>2. ~Busy(q)
    BY <2>1 DEF PlacesInv, Held
  <2>3. Busy(q)' /\ ex'[q].o = Current(q)
    BY <1>4 DEF Runs, Busy
  <2>4. \A f \in Executor : f # q => (Busy(f)' <=> Busy(f)) /\ ex'[f] = ex[f]
    BY <2>1 DEF ExOthers, Busy
  <2>5. \A o : Executed(o)' <=> Executed(o) \/ o = Current(q)
    BY <2>1, <2>2, <2>3, <2>4 DEF Executed
  <2>6. \A o : HeldBy(o) <=> HeldBy(o)' \/ o = Current(q)
    BY <2>1, HeldByGives
  <2>7. \A o : Queued(o)' <=> Queued(o)
    BY <2>1 DEF Queued
  <2> QED
    BY <2>1, <2>5, <2>6, <2>7 DEF Open, SameDn
<1>5. ASSUME NEW q \in Request, Puts(q) PROVE Open' = Open /\ \A o \in Open : SameDn(o)
  <2>1. ReqOthers(q) /\ Held(q) /\ ~Held(q)' /\ UNCHANGED <<dn, ex>>
    BY <1>5 DEF Puts, Turns, Held
  <2>7. \A o : Queued(o)' <=> Queued(o) \/ o = Current(q)
    BY <1>5, QueuedPut
  <2>8. \A o : HeldBy(o) <=> HeldBy(o)' \/ o = Current(q)
    BY <2>1, HeldByGives
  <2>9. \A o : Executed(o)' <=> Executed(o)
    BY <2>1 DEF Executed, Busy
  <2> QED
    BY <2>1, <2>7, <2>8, <2>9 DEF Open, SameDn
<1>6. ASSUME NEW q \in Request, Finishes(q) PROVE Open' = Open /\ \A o \in Open : SameDn(o)
  <2>1. ReqOthers(q) /\ ~Held(q) /\ ~Held(q)' /\ UNCHANGED <<ex, queue>> /\ Live(q)
    BY <1>6 DEF Finishes, Held, Live
  <2>2. ASSUME NEW o \in Open PROVE SameDn(o)
    <3>1. o \in Object /\ dn[o].q # q
      BY <1>6, OpenNode DEF OpenInv, Finishes
    <3>2. \A i \in Index(q) : req[q].dns[i] # o
      BY <2>1, <3>1 DEF OwnInv
    <3> QED
      BY <1>6, <3>1, <3>2 DEF Finishes, SameDn
  <2> QED
    BY <1>2, <2>1, <2>2
<1>7. ASSUME NEW q \in Request, NEW a \in Api[q], NEW objs, NEW g, Accepted(q, a, objs, g)
      PROVE  Open' = Open /\ \A o \in Open : SameDn(o)
  <2>1. ReqOthers(q) /\ ~Held(q) /\ ~Held(q)' /\ UNCHANGED <<ex, queue>>
    BY <1>7 DEF Accepted, Held
  <2>2. ASSUME NEW o \in Open PROVE SameDn(o)
    <3>1. o \in Object /\ dn[o].q # NoRequest
      BY OpenNode, NotRequest
    <3>2. \A i \in 1..Len(a.nodes) : objs[i] # o
      BY <1>7, <3>1 DEF Accepted
    <3>3. dn'[o] = dn[o]
      BY <1>7, <3>1, <3>2 DEF Accepted
    <3> QED
      BY <3>3 DEF SameDn
  <2> QED
    BY <1>2, <2>1, <2>2
<1>8. ASSUME NEW w \in Worker, Takes(w) PROVE Open' = Open /\ \A o \in Open : SameDn(o)
  <2>1. /\ UNCHANGED <<req, dn>> /\ ~Busy(w) /\ ExOthers(w) /\ w \in Executor
        /\ Busy(w)' /\ ex'[w].o = Taken(w)
    BY <1>8 DEF Takes, Busy, Executor
  <2>2. \A f \in Executor : f # w => (Busy(f)' <=> Busy(f)) /\ ex'[f] = ex[f]
    BY <2>1 DEF ExOthers, Busy
  <2>3. \A o : Executed(o)' <=> Executed(o) \/ o = Taken(w)
    BY <2>1, <2>2 DEF Executed
  <2>7. \A o : Queued(o) <=> Queued(o)' \/ o = Taken(w)
    BY <1>8, QueuedTake
  <2>8. \A o : HeldBy(o)' <=> HeldBy(o)
    BY <2>1 DEF HeldBy, Held, Current
  <2> QED
    BY <2>1, <2>3, <2>7, <2>8 DEF Open, SameDn
<1> QED
  BY <1>1, <1>3, <1>4, <1>5, <1>6, <1>7, <1>8 DEF Keeps

\* Preparing a node opens it.
LEMMA PrepareOpens ==
    ASSUME FlowTypes, OwnInv, PlacesInv, NEW q \in Request, NEW g, Prepares(q, g)
    PROVE  /\ Live(q) /\ req[q].idx \in Index(q) /\ Current(q) \in Object
           /\ dn[Current(q)].q = q /\ dn[Current(q)].idx = req[q].idx
           /\ Current(q) \notin Open /\ Open' = Open \cup {Current(q)}
           /\ \A o \in Object : dn'[o].q = dn[o].q /\ dn'[o].idx = dn[o].idx
           /\ \A o \in Object : o # Current(q) => dn'[o] = dn[o]
           /\ \A o : HeldBy(o)' <=> HeldBy(o) \/ o = Current(q)
<1>1. Live(q) /\ req[q].idx \in Index(q) /\ req[q].idx \in Nat
  BY NodesFacts DEF Prepares, Live, OwnInv
<1>2. Current(q) \in Object /\ dn[Current(q)].q = q /\ dn[Current(q)].idx = req[q].idx
  BY <1>1, CurrentNode
<1>3. Current(q) \notin Open
  <2>1. SUFFICES ASSUME Current(q) \in Open PROVE FALSE
    OBVIOUS
  <2>2. Away(Current(q)) \/ With(q)
    BY <1>2, <2>1, OpenNode
  <2> QED
    BY <1>1, <1>2, <2>2 DEF Away, With, Held, Prepares
<1>4. ReqOthers(q) /\ Held(q)' /\ ~Held(q) /\ Current(q)' = Current(q)
  BY DEF Prepares, Turns, Held, Current
<1>5. \A r \in Request : r # q => req'[r] = req[r]
  BY <1>4 DEF ReqOthers
<1>6. \A r \in Request : r # q => (Held(r)' <=> Held(r)) /\ Current(r)' = Current(r)
  BY <1>5 DEF Held, Current
<1>7. \A o : HeldBy(o)' <=> HeldBy(o) \/ o = Current(q)
  BY <1>4, <1>6 DEF HeldBy
<1>8. \A o : (Queued(o)' <=> Queued(o)) /\ (Executed(o)' <=> Executed(o))
  BY DEF Prepares, Queued, Executed, Busy
<1>9. Open' = Open \cup {Current(q)}
  BY <1>2, <1>7, <1>8 DEF Open
<1>10. \A o \in Object : o # Current(q) => dn'[o] = dn[o]
  BY DEF Prepares, Changes, DnOthers
<1>11. dn'[Current(q)].q = dn[Current(q)].q /\ dn'[Current(q)].idx = dn[Current(q)].idx
  BY DEF Prepares, Changes
<1>12. \A o \in Object : dn'[o].q = dn[o].q /\ dn'[o].idx = dn[o].idx
  BY <1>10, <1>11
<1> QED
  BY <1>1, <1>2, <1>3, <1>7, <1>9, <1>10, <1>12

\* An execution has its node alone.
LEMMA OnlyExecuted ==
    ASSUME FlowTypes, OwnInv, PlacesInv, NEW e \in Executor, Busy(e), NEW o, o = ex[e].o
    PROVE  /\ ~Queued(o) /\ ~HeldBy(o)
           /\ \A f \in Executor : Busy(f) /\ ex[f].o = o => f = e
<1>1. o \in Object /\ dn[o].q \in Request /\ ex[e].q = dn[o].q /\ dn[o].idx \in Nat
  BY BusyNode DEF FlowTypes, Dn
\* A node that a request is with was not given away.
<1>2. ASSUME NEW r \in Request, With(r), o = Current(r) PROVE ~Away(o) /\ dn[o].q = r
  <2>1. dn[o].q = r /\ dn[o].idx = req[r].idx
    BY <1>2, HeldNode
  <2> QED
    BY <1>1, <2>1 DEF Away
<1>3. ASSUME NEW r \in Request, Busy(r), ex[r].o = o
      PROVE  ~Away(o) /\ dn[o].q = r /\ req[r].pc = "proxy"
  <2>1. req[r].pc = "proxy" /\ o = Current(r)
    BY <1>3 DEF PlacesInv
  <2> QED
    BY <1>2, <2>1 DEF With
<1>4. \A w \in Worker : Busy(w) /\ ex[w].o = o => Away(o)
  BY DEF PlacesInv
<1>5. Queued(o) => Away(o) /\ \A w \in Worker : ~(Busy(w) /\ ex[w].o = o)
  BY DEF Queued, PlacesInv
<1>6. ~Queued(o)
  BY <1>3, <1>5 DEF Executor
<1>7. ASSUME HeldBy(o) PROVE FALSE
  <2>1. PICK r \in Request : Held(r) /\ o = Current(r)
    BY <1>7 DEF HeldBy
  <2>2. ~Away(o) /\ dn[o].q = r
    BY <1>2, <2>1 DEF With
  <2> QED
    BY <1>3, <1>4, <2>1, <2>2 DEF Executor, Held
<1>8. ASSUME NEW f \in Executor, Busy(f), ex[f].o = o PROVE f = e
  <2>1. CASE e \in Worker /\ f \in Worker
    BY <1>8, <2>1 DEF PlacesInv
  <2> QED
    BY <1>3, <1>4, <1>8, <2>1 DEF Executor
<1> QED
  BY <1>6, <1>7, <1>8

\* The end of an execution closes its node: it is nowhere else.
LEMMA EndCloses ==
    ASSUME FlowTypes, OwnInv, PlacesInv, NEW e \in Executor, NEW o \in Object, Ends(e, o)
    PROVE  o \in Open /\ Open' = Open \ {o} /\ dn' = dn /\ req' = req
<1>1. /\ UNCHANGED <<req, dn, queue>> /\ ~Busy(e)' /\ Busy(e) /\ ex[e].o = o
      /\ \A f \in Executor : f # e => ex'[f] = ex[f]
  BY DEF Ends, Completes, ExOthers, Busy
<1>2. /\ \A p : (Queued(p)' <=> Queued(p)) /\ (HeldBy(p)' <=> HeldBy(p))
      /\ \A f \in Executor : f # e => (Busy(f)' <=> Busy(f))
  BY <1>1 DEF Queued, HeldBy, Held, Current, Busy
<1>3. \A p : p # o => (Executed(p)' <=> Executed(p))
  BY <1>1, <1>2 DEF Executed
<1>4. ~Queued(o) /\ ~HeldBy(o) /\ ~Executed(o)'
  BY <1>1, <1>2, OnlyExecuted DEF Executed
<1> QED
  BY <1>1, <1>2, <1>3, <1>4 DEF Open, Executed

\* A request that is in its loop and has no open node in its group has none at all.
LEMMA NoneOpen ==
    ASSUME FlowTypes, OwnInv, PlacesInv, OpenInv, NEW q \in Request, req[q].pc = "loop",
           req[q].wg # 0 => OpenIn(req[q].wg) = {}, NEW o \in Open
    PROVE  dn[o].q # q
<1>1. SUFFICES ASSUME dn[o].q = q PROVE FALSE
  OBVIOUS
<1>2. dn[o].wg = req[q].wg
  BY <1>1 DEF OpenInv
<1>3. Away(o)
  BY <1>1, OpenNode DEF With, Held
<1> QED
  BY <1>2, <1>3 DEF Away, OpenIn

\* The loop of a request, up to the end of its last wait.
Active(q) == Live(q) /\ req[q].pc # "render"

\* The nodes up to this one were prepared.
Prepared(q) == IF With(q) THEN req[q].idx ELSE req[q].idx - 1

\* Groups are not shared: the group of a request is not in the pool and of no other
\* request.  A request of several nodes that is without a group has prepared them all.
GroupInv ==
    /\ \A q \in Request : Active(q) =>
          /\ req[q].wg \notin wgFree
          /\ Multi(q) /\ req[q].wg = 0 => Prepared(q) = Len(Nodes(q))
    /\ \A q, r \in Request :
          Active(q) /\ Active(r) /\ req[q].wg = req[r].wg /\ req[q].wg # 0 => q = r

\* A group counts the open nodes that are in it.
CountInv == \A g \in Group : IsFiniteSet(OpenIn(g)) /\ wg[g] = Cardinality(OpenIn(g))

LEMMA InitGroups == Init => GroupInv /\ CountInv
<1> SUFFICES ASSUME Init PROVE GroupInv /\ CountInv
  OBVIOUS
<1>1. GroupInv
  BY ConstantTypes DEF Init, GroupInv, Active, Live
<1>2. Open = {}
  BY InitCore
<1>3. \A g \in Group : OpenIn(g) = {} /\ wg[g] = 0
  BY <1>2 DEF OpenIn, Init
<1> QED
  BY <1>1, <1>3, FS_EmptySet DEF CountInv

LEMMA NextCount ==
    ASSUME FlowTypes, OwnInv, PlacesInv, HeldInv, OpenInv, CountInv, [Next]_vars
    PROVE  CountInv'
<1>1. CASE Keeps
  <2>1. wg' = wg
    BY <1>1 DEF Keeps, Same, Refused, Runs, Puts, Returns, Renders, Finishes, Accepted, Takes
  <2>2. Open' = Open /\ \A o \in Open : dn'[o].wg = dn[o].wg
    BY <1>1, KeepsOpen DEF SameDn
  <2>3. \A g \in Group : OpenIn(g)' = OpenIn(g)
    BY <2>2 DEF OpenIn
  <2> QED
    BY <2>1, <2>3 DEF CountInv
<1>2. ASSUME NEW q \in Request, NEW h, Prepares(q, h) PROVE CountInv'
  <2>1. PICK c \in Object : /\ c = Current(q) /\ c \notin Open /\ Open' = Open \cup {c}
                            /\ \A o \in Object : o # c => dn'[o] = dn[o]
    BY <1>2, PrepareOpens
  <2>2. dn'[c].wg = h /\ h \in Group \cup {0} /\ JoinGroup(h)
    BY <1>2, <2>1 DEF Prepares
  <2>3. Open \subseteq Object
    BY DEF Open
  <2>4. ASSUME NEW g \in Group, g # h PROVE OpenIn(g)' = OpenIn(g) /\ wg'[g] = wg[g]
    BY <2>1, <2>2, <2>3, <2>4 DEF OpenIn, JoinGroup, FlowTypes
  <2>5. ASSUME h \in Group PROVE OpenIn(h)' = OpenIn(h) \cup {c} /\ wg'[h] = wg[h] + 1
    <3>1. h # 0
      BY <2>5, RequestFlowAssumption
    <3>2. wg'[h] = wg[h] + 1
      BY <2>2, <2>5, <3>1 DEF JoinGroup, FlowTypes
    <3> QED
      BY <2>1, <2>2, <2>3, <3>2 DEF OpenIn
  <2>6. c \notin OpenIn(h)
    BY <2>1 DEF OpenIn
  <2>7. ASSUME h \in Group
        PROVE  IsFiniteSet(OpenIn(h)') /\ wg'[h] = Cardinality(OpenIn(h)')
    <3>1. IsFiniteSet(OpenIn(h)) /\ wg[h] = Cardinality(OpenIn(h))
      BY <2>7 DEF CountInv
    <3> QED
      BY <2>5, <2>6, <2>7, <3>1, FS_AddElement
  <2>8. ASSUME NEW g \in Group
        PROVE  IsFiniteSet(OpenIn(g)') /\ wg'[g] = Cardinality(OpenIn(g)')
    BY <2>4, <2>7 DEF CountInv
  <2> QED
    BY <2>8 DEF CountInv
<1>3. ASSUME NEW e \in Executor, NEW o \in Object, Ends(e, o) PROVE CountInv'
  <2>1. o \in Open /\ Open' = Open \ {o} /\ dn' = dn
    BY <1>3, EndCloses
  <2>2. PICK h : h = dn[o].wg
    OBVIOUS
  <2>3. Done(o)
    BY <1>3 DEF Ends, Completes
  <2>4. ASSUME NEW g \in Group, g # h PROVE OpenIn(g)' = OpenIn(g) /\ wg'[g] = wg[g]
    BY <2>1, <2>2, <2>3, <2>4 DEF OpenIn, Done, FlowTypes
  <2>5. ASSUME h \in Group
        PROVE  OpenIn(h)' = OpenIn(h) \ {o} /\ o \in OpenIn(h) /\ wg'[h] = wg[h] - 1
    <3>1. h # 0
      BY <2>5, RequestFlowAssumption
    <3>2. wg'[h] = wg[h] - 1
      BY <2>2, <2>3, <2>5, <3>1 DEF Done, FlowTypes
    <3> QED
      BY <2>1, <2>2, <3>2 DEF OpenIn
  <2>6. ASSUME h \in Group
        PROVE  IsFiniteSet(OpenIn(h)') /\ wg'[h] = Cardinality(OpenIn(h)')
    <3>1. IsFiniteSet(OpenIn(h)) /\ wg[h] = Cardinality(OpenIn(h))
      BY <2>6 DEF CountInv
    <3> QED
      BY <2>5, <2>6, <3>1, FS_RemoveElement
  <2>7. ASSUME NEW g \in Group
        PROVE  IsFiniteSet(OpenIn(g)') /\ wg'[g] = Cardinality(OpenIn(g)')
    BY <2>4, <2>6 DEF CountInv
  <2> QED
    BY <2>7 DEF CountInv
<1> QED
  BY OpenCases, <1>1, <1>2, <1>3

\* A group of count zero has no open node.
LEMMA ZeroCount ==
    ASSUME CountInv, NEW g \in Group, wg[g] = 0
    PROVE  OpenIn(g) = {}
  BY FS_EmptySet DEF CountInv

\* A request that begins a batch or renders has no open node.
LEMMA Waited ==
    ASSUME FlowTypes, OwnInv, PlacesInv, OpenInv, CountInv, NEW q \in Request,
           req[q].pc = "loop", req[q].wg # 0 => wg[req[q].wg] = 0
    PROVE  \A o \in Open : dn[o].q # q
<1>1. req[q].wg \in Group \cup {0}
  BY DEF FlowTypes, Req
<1>2. req[q].wg # 0 => OpenIn(req[q].wg) = {}
  BY <1>1, ZeroCount
<1> QED
  BY <1>2, NoneOpen

LEMMA NextOpenInv ==
    ASSUME FlowTypes, OwnInv, PlacesInv, HeldInv, OpenInv, CountInv, [Next]_vars
    PROVE  OpenInv'
\* The open nodes stay, and so do their requests as far as it matters.
<1>1. ASSUME Open' \subseteq Open, \A o \in Open : SameDn(o),
             \A o \in Open : LET r == dn[o].q IN
                (req'[r].pc = "render" => req[r].pc = "render") /\ req'[r].wg = req[r].wg
      PROVE  OpenInv'
  BY <1>1 DEF OpenInv, SameDn
<1>2. CASE Keeps
  <2>1. Open' = Open /\ \A o \in Open : SameDn(o)
    BY <1>2, KeepsOpen
  <2>2. ASSUME NEW o \in Open, NEW r \in Request, r = dn[o].q, Live(r)
        PROVE  (req'[r].pc = "render" => req[r].pc = "render") /\ req'[r].wg = req[r].wg
    <3>1. CASE Same
      BY <3>1 DEF Same, SameReq, Held
    <3>2. ASSUME NEW q \in Request, Runs(q) \/ Puts(q) \/ Returns(q)
          PROVE  (req'[r].pc = "render" => req[r].pc = "render") /\ req'[r].wg = req[r].wg
      BY <3>2 DEF Runs, Puts, Returns, Moves, Turns, ReqOthers
    <3>3. ASSUME NEW q \in Request, ReqOthers(q), r # q
          PROVE  (req'[r].pc = "render" => req[r].pc = "render") /\ req'[r].wg = req[r].wg
      BY <3>3 DEF ReqOthers
    <3>4. ASSUME NEW q \in Request, Renders(q) PROVE ReqOthers(q) /\ r # q
      BY <2>2, <3>4, Waited DEF Renders, Moves, Turns
    <3>5. ASSUME NEW q \in Request, Finishes(q) PROVE ReqOthers(q) /\ r # q
      BY <2>2, <3>5 DEF Finishes, OpenInv
    <3>6. ASSUME NEW q \in Request, Refused(q) PROVE ReqOthers(q) /\ r # q
      BY <2>2, <3>6 DEF Refused, Live
    <3>7. ASSUME NEW q \in Request, NEW a, NEW objs, NEW g, Accepted(q, a, objs, g)
          PROVE  ReqOthers(q) /\ r # q
      BY <2>2, <3>7 DEF Accepted, Live
    <3>8. CASE \E w \in Worker : Takes(w)
      BY <3>8 DEF Takes
    <3> QED
      BY <1>2, <3>1, <3>2, <3>3, <3>4, <3>5, <3>6, <3>7, <3>8 DEF Keeps
  <2>3. \A o \in Open : dn[o].q \in Request /\ Live(dn[o].q)
    BY OpenNode
  <2> QED
    BY <1>1, <2>1, <2>2, <2>3
<1>3. ASSUME NEW q \in Request, NEW g, Prepares(q, g) PROVE OpenInv'
  <2>1. PICK c \in Object : /\ c = Current(q) /\ Open' = Open \cup {c} /\ dn[c].q = q
                            /\ \A o \in Object : o # c => dn'[o] = dn[o]
                            /\ \A o \in Object : dn'[o].q = dn[o].q
                            /\ c \notin Open
    BY <1>3, PrepareOpens
  <2>2. /\ ReqOthers(q) /\ req'[q].pc # "render" /\ req'[q].wg = g /\ dn'[c].wg = g
        /\ req[q].pc = "loop" /\ Joins(q, g)
    BY <1>3, <2>1 DEF Prepares, Turns
  <2>3. ASSUME NEW o \in Open PROVE req'[dn'[o].q].pc # "render" /\ dn'[o].wg = req'[dn'[o].q].wg
    <3>1. PICK r \in Request : r = dn[o].q /\ o \in Object
      BY OpenNode
    <3>2. dn'[o] = dn[o] /\ req[r].pc # "render" /\ dn[o].wg = req[r].wg
      BY <2>1, <3>1 DEF OpenInv
    <3>3. CASE r # q
      BY <2>2, <3>1, <3>2, <3>3 DEF ReqOthers
    <3>4. CASE r = q
      <4>1. ~NewBatch(q) /\ g = req[q].wg
        BY <2>2, <3>1, <3>4, Waited DEF Joins
      <4> QED
        BY <2>2, <3>1, <3>2, <3>4, <4>1
    <3> QED
      BY <3>3, <3>4
  <2> QED
    BY <2>1, <2>2, <2>3 DEF OpenInv
<1>4. ASSUME NEW e \in Executor, NEW o \in Object, Ends(e, o) PROVE OpenInv'
  BY <1>4, EndCloses DEF OpenInv
<1> QED
  BY OpenCases, <1>2, <1>3, <1>4

LEMMA NextGroups ==
    ASSUME FlowTypes, OwnInv, PlacesInv, HeldInv, GroupInv, [Next]_vars
    PROVE  GroupInv'
<1> DEFINE Good(q) == Multi(q) /\ req[q].wg = 0 => Prepared(q) = Len(Nodes(q))
<1>1. wgFree \subseteq Group /\ 0 \notin Group /\ \A q \in Request : req[q].wg \in Group \cup {0}
  BY RequestFlowAssumption DEF FlowTypes, Req
\* One request moves, with a group that no other request has.
<1>2. ASSUME NEW q \in Request, ReqOthers(q),
             \A r \in Request : r # q /\ Active(r) => req[r].wg \notin wgFree',
             Active(q)' => req'[q].wg \notin wgFree' /\ Good(q)',
             \A r \in Request : r # q /\ Active(r) /\ Active(q)' /\ req'[q].wg # 0
                => req[r].wg # req'[q].wg
      PROVE  GroupInv'
  <2>1. \A r \in Request : r # q => req'[r] = req[r]
    BY <1>2 DEF ReqOthers
  <2>2. \A r \in Request : r # q => (Active(r)' <=> Active(r)) /\ (Good(r)' <=> Good(r))
    BY <2>1 DEF Active, Live, Multi, Nodes, Prepared, With, Held
  <2>3. \A r \in Request : Active(r)' => req'[r].wg \notin wgFree' /\ Good(r)'
    BY <1>2, <2>1, <2>2 DEF GroupInv
  <2>4. \A r, s \in Request :
           Active(r)' /\ Active(s)' /\ req'[r].wg = req'[s].wg /\ req'[r].wg # 0 => r = s
    BY <1>2, <2>1, <2>2 DEF GroupInv
  <2> QED
    BY <2>3, <2>4 DEF GroupInv
\* It keeps its group.
<1>3. ASSUME NEW q \in Request, ReqOthers(q), wgFree' \subseteq wgFree, Active(q)' => Active(q),
             Active(q)' => req'[q].wg = req[q].wg /\ Good(q)'
      PROVE  GroupInv'
  <2>1. \A r \in Request : r # q /\ Active(r) => req[r].wg \notin wgFree'
    BY <1>3 DEF GroupInv
  <2>2. Active(q)' => req'[q].wg \notin wgFree' /\ Good(q)'
    BY <1>3 DEF GroupInv
  <2>3. \A r \in Request : r # q /\ Active(r) /\ Active(q)' /\ req'[q].wg # 0
           => req[r].wg # req'[q].wg
    BY <1>3 DEF GroupInv
  <2> QED
    BY <1>2, <1>3, <2>1, <2>2, <2>3
<1>4. CASE Same
  <2>1. \A q \in Request :
           (Active(q)' <=> Active(q)) /\ Good(q)' = Good(q) /\ req'[q].wg = req[q].wg
    BY <1>4 DEF Same, SameReq, Active, Live, Held, With, Prepared, Multi, Nodes
  <2>2. wgFree' = wgFree
    BY <1>4 DEF Same
  <2> QED
    BY <2>1, <2>2 DEF GroupInv
<1>5. ASSUME NEW q \in Request, Refused(q) \/ Finishes(q) PROVE GroupInv'
  <2>1. ReqOthers(q) /\ ~Active(q)' /\ wgFree' = wgFree
    BY <1>5 DEF Refused, Finishes, Active, Live
  <2> QED
    BY <1>3, <2>1
<1>6. ASSUME NEW q \in Request, Runs(q) \/ Puts(q) \/ Returns(q) PROVE GroupInv'
  <2>1. /\ ReqOthers(q) /\ wgFree' = wgFree /\ Active(q) /\ req'[q].wg = req[q].wg
        /\ req'[q].api = req[q].api
    BY <1>6 DEF Runs, Puts, Returns, Moves, Turns, Active, Live
  <2>2. Prepared(q)' = Prepared(q)
    <3>1. req[q].idx \in Nat
      BY DEF FlowTypes, Req
    <3> QED
      BY <1>6, <3>1 DEF Runs, Puts, Returns, Moves, Turns, Prepared, With, Held
  <2>3. Good(q)' = Good(q)
    BY <2>1, <2>2 DEF Multi, Nodes
  <2> QED
    BY <1>3, <2>1, <2>3 DEF GroupInv
<1>7. ASSUME NEW q \in Request, Renders(q) PROVE GroupInv'
  <2>1. ReqOthers(q) /\ ~Active(q)' /\ wgFree' = wgFree \cup ({req[q].wg} \ {0}) /\ Active(q)
    BY <1>7 DEF Renders, Moves, Turns, Active, Live
  <2>2. \A r \in Request : r # q /\ Active(r) => req[r].wg \notin wgFree'
    BY <2>1 DEF GroupInv
  <2> QED
    BY <1>2, <2>1, <2>2
<1>8. ASSUME NEW q \in Request, NEW a \in Api[q], NEW objs, NEW g, Accepted(q, a, objs, g)
      PROVE  GroupInv'
  <2>1. /\ ReqOthers(q) /\ wgFree' = wgFree \ {g} /\ req'[q].wg = g /\ req'[q].api = a
        /\ g \in wgFree \/ g = 0
        /\ Len(a.nodes) > 1 => g \in wgFree
    BY <1>8 DEF Accepted
  <2>2. \A r \in Request : Active(r) => req[r].wg \notin wgFree
    BY DEF GroupInv
  <2>3. Good(q)'
    BY <1>1, <2>1 DEF Multi, Nodes
  <2> QED
    BY <1>2, <2>1, <2>2, <2>3
<1>9. ASSUME NEW q \in Request, NEW g, Prepares(q, g) PROVE GroupInv'
  <2>1. /\ ReqOthers(q) /\ wgFree' = wgFree \ {g} /\ req'[q].wg = g /\ Joins(q, g)
        /\ req'[q].api = req[q].api /\ req'[q].idx = req[q].idx /\ Active(q) /\ Active(q)'
        /\ Prepared(q)' = req[q].idx /\ Prepared(q) = req[q].idx - 1
    BY <1>9 DEF Prepares, Turns, Active, Live, Prepared, With, Held
  <2>2. /\ req[q].idx \in Index(q) /\ Index(q) = 1..Len(Nodes(q)) /\ Len(Nodes(q)) \in Nat
        /\ Nodes(q)' = Nodes(q) /\ Multi(q)' = Multi(q)
    BY <1>9, <2>1, PrepareOpens, NodesFacts DEF Nodes, Multi
  <2>3. CASE g = req[q].wg
    <3>1. ~(Multi(q) /\ g = 0)
      BY <2>1, <2>2, <2>3 DEF GroupInv
    <3>2. Good(q)'
      BY <2>1, <2>2, <3>1
    <3> QED
      BY <1>3, <2>1, <2>3, <3>2
  <2>4. CASE g \in NextGroup(q)
    <3>1. g \in wgFree \/ (g = 0 /\ req[q].idx = Len(Nodes(q)))
      BY <2>2, <2>4 DEF NextGroup, AcquireGroup
    <3>2. Good(q)'
      BY <1>1, <2>1, <2>2, <3>1
    <3>3. \A r \in Request : Active(r) => req[r].wg \notin wgFree
      BY DEF GroupInv
    <3> QED
      BY <1>2, <2>1, <3>1, <3>2, <3>3
  <2> QED
    BY <2>1, <2>3, <2>4 DEF Joins
<1>10. ASSUME UNCHANGED <<req, wgFree>> PROVE GroupInv'
  BY <1>10 DEF GroupInv, Active, Live, Prepared, With, Held, Multi, Nodes
<1> QED
  BY CoreCases, <1>4, <1>5, <1>6, <1>7, <1>8, <1>9, <1>10 DEF Ends, Completes, Takes

CoreInv ==
    /\ FlowTypes /\ OwnInv /\ PlacesInv /\ HeldInv /\ OpenInv /\ GroupInv /\ CountInv

LEMMA CoreStep == CoreInv /\ [Next]_vars => CoreInv'
  BY NextTypes, NextOwn, NextPlaces, NextHeld, NextOpenInv, NextGroups, NextCount DEF CoreInv

LEMMA CoreHolds == Spec => []CoreInv
<1>1. Init => CoreInv
  BY InitTypes, InitCore, InitGroups DEF CoreInv
<1> QED
  BY <1>1, CoreStep, PTL DEF Spec

\* Every record of requests, nodes and executions has its type, always.
THEOREM FlowTyped == Spec => []FlowTypes
<1>1. CoreInv => FlowTypes
  BY DEF CoreInv
<1> QED
  BY <1>1, CoreHolds, PTL

\* WritesOwned, for any number of requests and workers: an execution has a node of its
\* request, which neither renders nor is done, because a request waits for a group that
\* counts exactly the nodes that it has given away.
THEOREM WritesAreOwned == Spec => []WritesOwned
<1>1. CoreInv => WritesOwned
  <2> SUFFICES ASSUME CoreInv, NEW e \in Executor, Busy(e)
               PROVE  dn[ex[e].o].q = ex[e].q /\ req[ex[e].q].pc \notin {"render", "done"}
    BY DEF WritesOwned, Busy
  <2>1. ex[e].o \in Object /\ ex[e].q = dn[ex[e].o].q /\ Live(ex[e].q)
    BY BusyNode DEF CoreInv
  <2>2. ex[e].o \in Open
    BY <2>1 DEF Open, Executed
  <2> QED
    BY <2>1, <2>2 DEF CoreInv, OpenInv, Live
<1> QED
  BY <1>1, CoreHolds, PTL

\* A wait group never counts below zero, which would panic in Done, and one that is back
\* in the pool counts nothing: the request that acquires it next waits for its own nodes
\* only, whatever a worker is late with.
GroupsSound ==
    \A g \in Group : wg[g] >= 0 /\ (g \in wgFree => wg[g] = 0 /\ \A o \in Open : dn[o].wg # g)

\* GroupsSound (acquireWG, releaseWG, maybeDone): the group of every node that is open is
\* still with the node's request.
THEOREM GroupsAreSound == Spec => []GroupsSound
<1>1. CoreInv => GroupsSound
  <2> SUFFICES ASSUME CoreInv, NEW g \in Group
               PROVE  wg[g] >= 0 /\ (g \in wgFree => wg[g] = 0 /\ \A o \in Open : dn[o].wg # g)
    BY DEF GroupsSound
  <2>1. IsFiniteSet(OpenIn(g)) /\ wg[g] = Cardinality(OpenIn(g))
    BY DEF CoreInv, CountInv
  <2>2. Cardinality(OpenIn(g)) \in Nat
    BY <2>1, FS_CardinalityType
  <2>3. ASSUME NEW o \in Open, dn[o].wg = g PROVE g \notin wgFree
    <3>1. dn[o].q \in Request /\ Live(dn[o].q)
      BY OpenNode DEF CoreInv
    <3>2. req[dn[o].q].wg = g /\ Active(dn[o].q)
      BY <2>3, <3>1 DEF CoreInv, OpenInv, Active
    <3> QED
      BY <3>1, <3>2 DEF CoreInv, GroupInv
  <2>4. g \in wgFree => OpenIn(g) = {}
    BY <2>3 DEF OpenIn
  <2> QED
    BY <2>1, <2>2, <2>3, <2>4, FS_EmptySet
<1> QED
  BY <1>1, CoreHolds, PTL

-----------------------------------------------------------------------------
(* Batches.                                                                *)

\* Request r goes on with the nodes that it has prepared; of its nodes only the open
\* ones change.
Stays(r) ==
    /\ Live(r)' <=> Live(r)
    /\ Active(r)' <=> Active(r)
    /\ req'[r].api = req[r].api /\ req'[r].dns = req[r].dns /\ req'[r].last = req[r].last
    /\ Prepared(r)' = Prepared(r)
    /\ depend'[r] = depend[r]
    /\ \A o \in Object : dn[o].q = r =>
          dn'[o].q = r /\ dn'[o].idx = dn[o].idx /\ (o \notin Open => dn'[o] = dn[o])
    /\ \A o \in Object : dn'[o].q = r => dn[o].q = r
SameOpen(r) == \A o \in Object : dn[o].q = r => (o \in Open' <=> o \in Open)

\* A request that is not the one that moves stays.
LEMMA OthersStay ==
    ASSUME CoreInv, NEW q \in Request, NEW r \in Request, r # q, ReqOthers(q),
           depend'[r] = depend[r],
           \A o \in Object : dn[o].q = r \/ dn'[o].q = r => dn'[o] = dn[o]
    PROVE  Stays(r)
<1>1. req'[r] = req[r]
  BY DEF ReqOthers
<1>2. /\ Live(r)' <=> Live(r)
      /\ Active(r)' <=> Active(r)
      /\ Prepared(r)' = Prepared(r)
  BY <1>1 DEF Live, Active, Prepared, With, Held
<1> QED
  BY <1>1, <1>2 DEF Stays

LEMMA Steady ==
    ASSUME CoreInv, [Next]_vars, NEW r \in Request
    PROVE  \/ Stays(r) /\ SameOpen(r) /\ data'[r] = data[r]
           \/ Stays(r) /\ \E e \in Executor, o \in Object : Ends(e, o) /\ dn[o].q = r
           \/ Refused(r) \/ Renders(r) \/ Finishes(r)
           \/ \E a \in Api[r] : \E objs, g : Accepted(r, a, objs, g)
           \/ \E g : Prepares(r, g)
<1> DEFINE Quiet == Stays(r) /\ SameOpen(r) /\ data'[r] = data[r]
<1>1. FlowTypes /\ OwnInv /\ PlacesInv /\ HeldInv /\ OpenInv
  BY DEF CoreInv
<1>2. ASSUME Keeps PROVE SameOpen(r)
  BY <1>1, <1>2, KeepsOpen DEF SameOpen
<1>3. CASE Rests
  <2>1. Stays(r) /\ data' = data
    BY <1>3 DEF Rests, Stays, Live, Active, Prepared, With, Held
  <2> QED
    BY <1>1, <1>2, <1>3, <2>1, SameSteps DEF Keeps
<1>4. ASSUME NEW q \in Request, Copies(q) \/ Hands(q) \/ Runs(q) \/ Puts(q) \/ Returns(q)
      PROVE  Quiet
  <2>1. ReqOthers(q) /\ UNCHANGED <<dn, data, depend>>
    BY <1>4 DEF Copies, Hands, Runs, Puts, Returns, Moves, Turns
  <2>2. SameOpen(r)
    BY <1>1, <1>2, <1>4, SameSteps DEF Keeps
  <2>3. CASE r = q
    <3>1. /\ req'[q].api = req[q].api /\ req'[q].dns = req[q].dns /\ req'[q].last = req[q].last
          /\ Live(q) /\ Live(q)' /\ Active(q) /\ Active(q)'
      BY <1>4 DEF Copies, Hands, Runs, Puts, Returns, Moves, Turns, Live, Active
    <3>2. req[q].idx \in Nat
      BY <1>1 DEF FlowTypes, Req
    <3>3. Prepared(q)' = Prepared(q)
      BY <1>4, <3>2 DEF Copies, Hands, Runs, Puts, Returns, Moves, Turns, Prepared, With, Held
    <3> QED
      BY <2>1, <2>2, <2>3, <3>1, <3>3 DEF Stays
  <2>4. CASE r # q
    BY <2>1, <2>2, <2>4, OthersStay
  <2> QED
    BY <2>3, <2>4
<1>5. ASSUME NEW q \in Request, r # q, Refused(q) \/ Renders(q) PROVE Quiet
  <2>1. ReqOthers(q) /\ UNCHANGED <<dn, data, depend>>
    BY <1>5 DEF Refused, Renders, Moves, Turns
  <2> QED
    BY <1>2, <1>5, <2>1, OthersStay DEF Keeps
<1>6. ASSUME NEW q \in Request, r # q, Finishes(q) PROVE Quiet
  <2>1. ReqOthers(q) /\ depend'[r] = depend[r] /\ data'[r] = data[r] /\ Live(q)
    BY <1>1, <1>6 DEF Finishes, FlowTypes, Live
  <2>2. \A i \in Index(q) : dn[req[q].dns[i]].q = q
    BY <1>1, <2>1 DEF OwnInv
  <2>3. r # NoRequest /\ FreeDn.q = NoRequest
    BY NotRequest, ConstantTypes
  <2>4. \A o \in Object : dn[o].q = r \/ dn'[o].q = r => dn'[o] = dn[o]
    BY <1>6, <2>2, <2>3 DEF Finishes
  <2> QED
    BY <1>2, <1>6, <2>1, <2>4, OthersStay DEF Keeps
<1>7. ASSUME NEW q \in Request, r # q, NEW a \in Api[q], NEW objs, NEW g,
             Accepted(q, a, objs, g)
      PROVE  Quiet
  <2>1. ReqOthers(q) /\ UNCHANGED <<data, depend>>
    BY <1>7 DEF Accepted
  <2>2. ASSUME NEW o \in Object, dn[o].q = r \/ dn'[o].q = r PROVE dn'[o] = dn[o]
    <3>1. r # NoRequest
      BY NotRequest
    <3>2. \A i \in 1..Len(a.nodes) : objs[i] # o
      BY <1>7, <2>2, <3>1 DEF Accepted
    <3> QED
      BY <1>7, <3>2 DEF Accepted
  <2> QED
    BY <1>2, <1>7, <2>1, <2>2, OthersStay DEF Keeps
<1>8. ASSUME NEW q \in Request, r # q, NEW g, Prepares(q, g) PROVE Quiet
  <2>1. ReqOthers(q) /\ data' = data /\ depend'[r] = depend[r]
    BY <1>1, <1>8 DEF Prepares, Turns, AssignDepend, FlowTypes
  <2>2. /\ dn[Current(q)].q = q /\ Open' = Open \cup {Current(q)}
        /\ \A o \in Object : dn'[o].q = dn[o].q
        /\ \A o \in Object : o # Current(q) => dn'[o] = dn[o]
    BY <1>1, <1>8, PrepareOpens
  <2>3. \A o \in Object : dn[o].q = r \/ dn'[o].q = r => dn'[o] = dn[o]
    BY <1>8, <2>2
  <2>4. SameOpen(r)
    BY <1>8, <2>2 DEF SameOpen
  <2> QED
    BY <1>8, <2>1, <2>3, <2>4, OthersStay
<1>9. ASSUME NEW e \in Executor, NEW o \in Object, Goes(e, o) PROVE Quiet
  <2>1. UNCHANGED <<req, data, depend>>
    BY <1>9 DEF Goes, Works
  <2>2. o \in Open
    BY <1>9 DEF Goes, Open, Executed
  <2>3. /\ \A p \in Object : p # o => dn'[p] = dn[p]
        /\ dn'[o].q = dn[o].q /\ dn'[o].idx = dn[o].idx
    BY <1>9 DEF Goes, Works, Changes, DnOthers
  <2>4. Stays(r)
    BY <2>1, <2>2, <2>3 DEF Stays, Live, Active, Prepared, With, Held
  <2> QED
    BY <1>1, <1>2, <1>9, <2>1, <2>4, SameSteps DEF Keeps
<1>10. ASSUME NEW e \in Executor, NEW o \in Object, Ends(e, o)
       PROVE  Stays(r) /\ (dn[o].q # r => SameOpen(r) /\ data'[r] = data[r])
  <2>1. UNCHANGED <<req, dn, depend>> /\ Open' = Open \ {o}
    BY <1>1, <1>10, EndCloses DEF Ends, Completes
  <2>2. Stays(r)
    BY <2>1 DEF Stays, Live, Active, Prepared, With, Held
  <2>3. ASSUME dn[o].q # r PROVE data'[r] = data[r]
    BY <1>1, <1>10, <2>3 DEF Ends, Completes, FlowTypes
  <2> QED
    BY <2>1, <2>2, <2>3 DEF SameOpen
<1>11. ASSUME NEW w \in Worker, Takes(w) \/ Exits(w) PROVE Quiet
  <2>1. UNCHANGED <<req, dn, data, depend>>
    BY <1>11 DEF Takes, Exits
  <2>2. Stays(r)
    BY <2>1 DEF Stays, Live, Active, Prepared, With, Held
  <2> QED
    BY <1>1, <1>2, <1>11, <2>1, <2>2, SameSteps DEF Keeps
<1> HIDE DEF Quiet
<1>12. Quiet => Stays(r) /\ SameOpen(r) /\ data'[r] = data[r]
  BY DEF Quiet
<1>13. ASSUME NEW q \in Request, Refused(q) \/ Renders(q) \/ Finishes(q)
       PROVE  Quiet \/ Refused(r) \/ Renders(r) \/ Finishes(r)
  BY <1>5, <1>6, <1>13
<1>14. ASSUME NEW q \in Request, NEW a \in Api[q], NEW objs, NEW g, Accepted(q, a, objs, g)
       PROVE  Quiet \/ \E b \in Api[r] : \E o, h : Accepted(r, b, o, h)
  BY <1>7, <1>14
<1>15. ASSUME NEW q \in Request, NEW g, Prepares(q, g)
       PROVE  Quiet \/ \E h : Prepares(r, h)
  BY <1>8, <1>15
<1>16. ASSUME NEW e \in Executor, NEW o \in Object, Goes(e, o) \/ Ends(e, o)
       PROVE  \/ Quiet
              \/ Stays(r) /\ \E f \in Executor, p \in Object : Ends(f, p) /\ dn[p].q = r
  BY <1>9, <1>10, <1>16 DEF Quiet
<1> QED
  BY <1>1, StepCases, <1>3, <1>4, <1>11, <1>12, <1>13, <1>14, <1>15, <1>16

\* The last batch of a request is that of the node that it prepared last, and its open
\* nodes are all of that batch.
BatchOf(q) ==
    /\ req[q].last = IF Prepared(q) = 0 THEN 0 ELSE Batch(Nodes(q)[Prepared(q)])
    /\ \A o \in Open : dn[o].q = q => Batch(Nodes(q)[dn[o].idx]) = req[q].last
BatchInv == \A q \in Request : Active(q) /\ Multi(q) => BatchOf(q)

\* The node that q prepares is of the last batch, or the batch is a new one.
LEMMA PreparedBatch ==
    ASSUME CoreInv, BatchInv, NEW q \in Request, NEW g, Prepares(q, g), Multi(q)
    PROVE  /\ req'[q].last = Batch(Nodes(q)[req[q].idx])
           /\ \A o \in Open : dn[o].q = q => Batch(Nodes(q)[dn[o].idx]) = req'[q].last
<1>1. /\ FlowTypes /\ OwnInv /\ PlacesInv /\ OpenInv /\ CountInv
      /\ req[q].idx \in Index(q) /\ Live(q)
  BY PrepareOpens DEF CoreInv
<1>2. /\ Joins(q, g) /\ req[q].pc = "loop" /\ Active(q) /\ Prepared(q) = req[q].idx - 1
      /\ req'[q].last = IF NewBatch(q) THEN Nodes(q)[req[q].idx].batch ELSE req[q].last
  BY <1>1 DEF Prepares, Turns, Active, Prepared, With, Held
<1>3. CASE NewBatch(q)
  <2>1. req[q].wg # 0 => wg[req[q].wg] = 0
    BY <1>2, <1>3 DEF Joins
  <2>2. Nodes(q)[req[q].idx] \in Node
    BY <1>1, NodesFacts
  <2>3. req[q].last \in Nat /\ Nodes(q)[req[q].idx].batch \in Int
    BY <1>1, <2>2 DEF Node, FlowTypes, Req
  <2>4. Batch(Nodes(q)[req[q].idx]) = Nodes(q)[req[q].idx].batch
    BY <1>3, <2>3 DEF NewBatch, Batch
  <2> QED
    BY <1>1, <1>2, <1>3, <2>1, <2>4, Waited
<1>4. CASE ~NewBatch(q)
  <2>1. /\ req[q].last = IF Prepared(q) = 0 THEN 0 ELSE Batch(Nodes(q)[Prepared(q)])
        /\ \A o \in Open : dn[o].q = q => Batch(Nodes(q)[dn[o].idx]) = req[q].last
    BY <1>2 DEF BatchInv, BatchOf
  <2>2. /\ Len(Nodes(q)) \in Nat /\ Index(q) = 1..Len(Nodes(q))
        /\ \A i \in Index(q) : Nodes(q)[i] \in Node
        /\ \A i, j \in Index(q) : i <= j => Batch(Nodes(q)[i]) <= Batch(Nodes(q)[j])
    BY <1>1, NodesFacts
  <2>3. req[q].wg # 0
    BY <1>1, <1>2, <2>2 DEF CoreInv, GroupInv
  <2>4. PICK b \in Nat : b = Batch(Nodes(q)[req[q].idx])
    BY <1>1, <2>2 DEF Node, Batch
  <2>5. req[q].last \in Nat /\ ~(req[q].last < b)
    <3>1. req[q].last \in Nat /\ Nodes(q)[req[q].idx].batch \in Int
      BY <1>1, <2>2 DEF Node, FlowTypes, Req
    <3>2. ~(req[q].last < Nodes(q)[req[q].idx].batch)
      BY <1>1, <1>4, <2>3 DEF NewBatch
    <3> QED
      BY <2>4, <3>1, <3>2 DEF Batch
  <2>6. req[q].last <= b
    <3>1. CASE Prepared(q) = 0
      BY <2>1, <2>4, <3>1
    <3>2. CASE Prepared(q) # 0
      <4>1. req[q].idx - 1 \in Index(q) /\ req[q].idx - 1 <= req[q].idx
        BY <1>1, <1>2, <2>2, <3>2
      <4> QED
        BY <1>1, <1>2, <2>1, <2>2, <2>4, <3>2, <4>1
    <3> QED
      BY <3>1, <3>2
  <2> QED
    BY <1>2, <1>4, <2>1, <2>4, <2>5, <2>6
<1> QED
  BY <1>3, <1>4

LEMMA NextBatches ==
    ASSUME CoreInv, BatchInv, [Next]_vars PROVE BatchInv'
<1> SUFFICES ASSUME NEW r \in Request, Active(r)', Multi(r)' PROVE BatchOf(r)'
  BY DEF BatchInv
<1>1. FlowTypes /\ OwnInv /\ PlacesInv /\ HeldInv /\ OpenInv
  BY DEF CoreInv
<1>2. Open' \subseteq Object
  BY DEF Open
<1>3. ASSUME Stays(r), \A o \in Object : dn[o].q = r /\ o \in Open' => o \in Open
      PROVE  BatchOf(r)'
  <2>1. /\ Active(r) /\ Multi(r) /\ Nodes(r)' = Nodes(r) /\ req'[r].last = req[r].last
        /\ Prepared(r)' = Prepared(r)
    BY <1>3 DEF Stays, Multi, Nodes
  <2>2. BatchOf(r)
    BY <2>1 DEF BatchInv
  <2>3. \A o \in Open' : dn'[o].q = r => o \in Open /\ dn[o].q = r /\ dn'[o].idx = dn[o].idx
    BY <1>2, <1>3 DEF Stays
  <2> QED
    BY <2>1, <2>2, <2>3 DEF BatchOf
<1>4. ASSUME NEW e \in Executor, NEW o \in Object, Ends(e, o), Stays(r) PROVE BatchOf(r)'
  BY <1>1, <1>3, <1>4, EndCloses
<1>5. ASSUME Refused(r) \/ Renders(r) \/ Finishes(r) PROVE FALSE
  BY <1>5 DEF Refused, Renders, Finishes, Moves, Turns, Active, Live
<1>6. ASSUME NEW a \in Api[r], NEW objs, NEW g, Accepted(r, a, objs, g) PROVE BatchOf(r)'
  <2>1. Prepared(r)' = 0 /\ req'[r].last = 0
    BY <1>6 DEF Accepted, Prepared, With, Held
  <2>2. ASSUME NEW o \in Open', dn'[o].q = r PROVE FALSE
    <3>1. o \in Open /\ SameDn(o)
      BY <1>1, <1>6, KeepsOpen DEF Keeps
    <3>2. dn[o].q = r /\ Live(dn[o].q)
      BY <1>1, <2>2, <3>1, OpenNode DEF SameDn
    <3> QED
      BY <1>6, <3>2 DEF Accepted, Live
  <2> QED
    BY <2>1, <2>2 DEF BatchOf
<1>7. ASSUME NEW g, Prepares(r, g) PROVE BatchOf(r)'
  <2>1. /\ Nodes(r)' = Nodes(r) /\ Multi(r) /\ Prepared(r)' = req[r].idx
    BY <1>7 DEF Prepares, Turns, Nodes, Multi, Prepared, With, Held
  <2>2. /\ req[r].idx \in Index(r) /\ dn[Current(r)].idx = req[r].idx
        /\ Open' = Open \cup {Current(r)}
        /\ \A o \in Object : dn'[o].q = dn[o].q /\ dn'[o].idx = dn[o].idx
    BY <1>1, <1>7, PrepareOpens
  <2>3. /\ req'[r].last = Batch(Nodes(r)[req[r].idx])
        /\ \A o \in Open : dn[o].q = r => Batch(Nodes(r)[dn[o].idx]) = req'[r].last
    BY <1>7, <2>1, PreparedBatch
  <2>4. req[r].idx # 0
    BY <1>1, <2>2, NodesFacts
  <2> QED
    BY <1>2, <2>1, <2>2, <2>3, <2>4 DEF BatchOf
<1> QED
  BY Steady, <1>3, <1>4, <1>5, <1>6, <1>7 DEF SameOpen

LEMMA BatchHolds == Spec => []BatchInv
<1>1. Init => BatchInv
  BY ConstantTypes DEF Init, BatchInv, Active, Live
<1>2. CoreInv /\ BatchInv /\ [Next]_vars => BatchInv'
  BY NextBatches
<1> QED
  BY <1>1, <1>2, CoreHolds, PTL DEF Spec

\* BatchesInOrder, for any number of requests and workers and any batches: no node of a
\* batch is queued or executed before the last one of the batch before it is completed.
THEOREM BatchesAreInOrder == Spec => []BatchesInOrder
<1>1. CoreInv /\ BatchInv => BatchesInOrder
  <2> SUFFICES ASSUME CoreInv, BatchInv, NEW q \in Request, Live(q), NEW i \in Index(q),
                      NEW j \in Index(q), Pending(q, i), Pending(q, j)
               PROVE  Batch(Nodes(q)[i]) = Batch(Nodes(q)[j])
    BY DEF BatchesInOrder, Live
  <2>1. FlowTypes /\ OwnInv /\ OpenInv /\ \A w \in Worker : DOMAIN queue[w] = 1..Len(queue[w])
    BY DEF CoreInv, FlowTypes
  <2>2. ASSUME NEW k \in Index(q), Pending(q, k)
        PROVE  /\ req[q].dns[k] \in Open /\ dn[req[q].dns[k]].q = q
               /\ dn[req[q].dns[k]].idx = k
    <3>1. req[q].dns[k] \in Object /\ dn[req[q].dns[k]].q = q /\ dn[req[q].dns[k]].idx = k
      BY <2>1 DEF OwnInv
    <3>2. Queued(req[q].dns[k]) \/ Executed(req[q].dns[k])
      BY <2>1, <2>2 DEF Pending, Queued, Executed, Busy
    <3> QED
      BY <3>1, <3>2 DEF Open
  <2>3. CASE Multi(q)
    <3>1. Active(q)
      BY <2>1, <2>2 DEF OpenInv, Active
    <3>2. BatchOf(q)
      BY <2>3, <3>1 DEF BatchInv
    <3> QED
      BY <2>2, <3>2 DEF BatchOf
  <2>4. CASE ~Multi(q)
    <3>1. Index(q) = 1..Len(Nodes(q)) /\ Len(Nodes(q)) \in Nat
      BY <2>1, NodesFacts
    <3>2. i = j
      BY <2>4, <3>1 DEF Multi
    <3> QED
      BY <3>2
  <2> QED
    BY <2>3, <2>4
<1> QED
  BY <1>1, CoreHolds, BatchHolds, PTL

-----------------------------------------------------------------------------
(* The aggregate.                                                          *)

\* A request with an open node stays or prepares another one.
LEMMA WithOpen ==
    ASSUME CoreInv, [Next]_vars, NEW o \in Open, NEW r, r = dn[o].q
    PROVE  /\ r \in Request /\ Active(r) /\ Active(r)' /\ o \in Object
           /\ dn[o].idx <= Prepared(r)
           /\ req'[r].dns = req[r].dns /\ dn'[o].q = r /\ dn'[o].idx = dn[o].idx
           /\ Nodes(r)' = Nodes(r) /\ NodeOf(o)' = NodeOf(o)
<1>1. FlowTypes /\ OwnInv /\ PlacesInv /\ OpenInv /\ CountInv
  BY DEF CoreInv
<1>2. /\ r \in Request /\ Live(r) /\ o \in Object
      /\ Away(o) \/ (With(r) /\ o = Current(r))
  BY <1>1, OpenNode
<1>3. Active(r)
  BY <1>1, <1>2 DEF OpenInv, Active
<1>4. dn[o].idx <= Prepared(r)
  <2>1. dn[o].idx \in Nat /\ req[r].idx \in Nat
    BY <1>1, <1>2 DEF FlowTypes, Dn, Req
  <2>2. CASE Away(o)
    BY <2>1, <2>2 DEF Away, Prepared
  <2>3. CASE With(r) /\ o = Current(r)
    BY <1>1, <1>2, <2>1, <2>3, HeldNode DEF Prepared
  <2> QED
    BY <1>2, <2>2, <2>3
<1>5. Stays(r) \/ \E g : Prepares(r, g)
  <2>1. ~Renders(r)
    BY <1>1, <1>2, Waited DEF Renders
  <2>2. ~Refused(r) /\ ~Finishes(r) /\ \A a, objs, g : ~Accepted(r, a, objs, g)
    BY <1>3 DEF Refused, Finishes, Accepted, Active, Live
  <2> QED
    BY <1>2, <2>1, <2>2, Steady
<1>6. /\ Active(r)' /\ req'[r].api = req[r].api /\ req'[r].dns = req[r].dns
      /\ dn'[o].q = r /\ dn'[o].idx = dn[o].idx
  <2>1. CASE Stays(r)
    BY <1>2, <1>3, <2>1 DEF Stays
  <2>2. ASSUME NEW g, Prepares(r, g) PROVE <1>6
    <3>1. Active(r)' /\ req'[r].api = req[r].api /\ req'[r].dns = req[r].dns
      BY <2>2 DEF Prepares, Turns, Active, Live
    <3> QED
      BY <1>1, <1>2, <2>2, <3>1, PrepareOpens
  <2> QED
    BY <1>5, <2>1, <2>2
<1>7. Nodes(r)' = Nodes(r)
  BY <1>6 DEF Nodes
<1>8. NodeOf(o)' = NodeOf(o)
  BY <1>6, <1>7 DEF NodeOf
<1> QED
  BY <1>2, <1>3, <1>4, <1>6, <1>7, <1>8

\* An execution that writes has locked the aggregate, and the aggregate is what it read.
Writing(e) == ex[e].pc = "write"
LockOf(e) ==
    /\ Multi(ex[e].q) /\ mutex[ex[e].q] /\ ex[e].old = data[ex[e].q]
    /\ HasPart(ex[e].o)
LockInv ==
    /\ \A e \in Executor : Writing(e) => LockOf(e)
    /\ \A e, f \in Executor : Writing(e) /\ Writing(f) /\ ex[e].q = ex[f].q => e = f

\* The node of an execution is open.
LEMMA ExecutedOpen ==
    ASSUME CoreInv, NEW e \in Executor, Busy(e)
    PROVE  ex[e].o \in Open /\ ex[e].q = dn[ex[e].o].q /\ Active(ex[e].q) /\ ex[e].q \in Request
<1>1. /\ ex[e].o \in Object /\ ex[e].q = dn[ex[e].o].q /\ Live(ex[e].q)
      /\ dn[ex[e].o].q \in Request
  BY BusyNode DEF CoreInv
<1>2. ex[e].o \in Open
  BY <1>1 DEF Open, Executed
<1> QED
  BY <1>1, <1>2 DEF CoreInv, OpenInv, Active

\* Nothing that the execution has read changes.
Undisturbed(e) ==
    /\ Writing(e) /\ ex'[e] = ex[e]
    /\ data'[ex[e].q] = data[ex[e].q] /\ mutex'[ex[e].q] = mutex[ex[e].q]
    /\ dn'[ex[e].o].err = dn[ex[e].o].err /\ dn'[ex[e].o].res = dn[ex[e].o].res

LEMMA LockKept ==
    ASSUME CoreInv, LockInv, [Next]_vars, NEW e \in Executor, Undisturbed(e)
    PROVE  LockOf(e)'
<1>1. Busy(e) /\ LockOf(e)
  BY DEF Undisturbed, Writing, Busy, LockInv
<1>2. PICK o \in Open : o = ex[e].o /\ ex[e].q = dn[o].q
  BY <1>1, ExecutedOpen
<1>3. PICK r : r = dn[o].q
  OBVIOUS
<1>4. Nodes(r)' = Nodes(r) /\ NodeOf(o)' = NodeOf(o)
  BY <1>3, WithOpen
<1>5. Multi(r)' /\ mutex'[r] /\ ex'[e].old = data'[r] /\ ex'[e].q = r /\ ex'[e].o = o
  BY <1>1, <1>2, <1>3, <1>4 DEF LockOf, Undisturbed, Multi
<1>6. HasPart(o) /\ dn'[o].err = dn[o].err /\ dn'[o].res = dn[o].res
  BY <1>1, <1>2 DEF LockOf, Undisturbed
<1>7. HasPart(o)'
  BY <1>4, <1>6 DEF HasPart
<1> QED
  BY <1>5, <1>7 DEF LockOf

LEMMA NextLock ==
    ASSUME CoreInv, LockInv, [Next]_vars PROVE LockInv'
<1>1. FlowTypes /\ OwnInv /\ PlacesInv /\ HeldInv /\ OpenInv
  BY DEF CoreInv
<1>2. ASSUME \A f \in Executor : Writing(f)' => Undisturbed(f) PROVE LockInv'
  <2>1. \A f \in Executor : Writing(f)' => LockOf(f)'
    BY <1>2, LockKept
  <2>2. \A f \in Executor : Writing(f)' => Writing(f) /\ ex'[f].q = ex[f].q
    BY <1>2 DEF Undisturbed
  <2> QED
    BY <2>1, <2>2 DEF LockInv
<1>3. \A f \in Executor : Writing(f) =>
         ex[f].o \in Open /\ ex[f].q = dn[ex[f].o].q /\ Active(ex[f].q)
  BY ExecutedOpen DEF Writing, Busy
\* Executions and what they have read stay as they are.
<1>4. ASSUME UNCHANGED <<ex, data, mutex>>,
             \A o \in Open : dn'[o].err = dn[o].err /\ dn'[o].res = dn[o].res
      PROVE  LockInv'
  <2>1. \A f \in Executor : Writing(f)' => Undisturbed(f)
    BY <1>3, <1>4 DEF Undisturbed, Writing
  <2> QED
    BY <1>2, <2>1
\* An execution begins or exits.
<1>5. ASSUME NEW e \in Executor, ExOthers(e), ~Writing(e)', UNCHANGED <<dn, data, mutex>>
      PROVE  LockInv'
  <2>1. \A f \in Executor : Writing(f)' => Undisturbed(f)
    BY <1>5 DEF Undisturbed, Writing, ExOthers
  <2> QED
    BY <1>2, <2>1
<1>6. CASE Rests
  BY <1>4, <1>6 DEF Rests
<1>7. ASSUME NEW q \in Request,
             Refused(q) \/ Copies(q) \/ Hands(q) \/ Puts(q) \/ Returns(q) \/ Renders(q)
      PROVE  LockInv'
  <2>1. UNCHANGED <<ex, data, mutex, dn>>
    BY <1>7 DEF Refused, Copies, Hands, Puts, Returns, Renders
  <2> QED
    BY <1>4, <2>1
<1>8. ASSUME NEW q \in Request, Runs(q) PROVE LockInv'
  <2>1. q \in Executor /\ ExOthers(q) /\ ~Writing(q)' /\ UNCHANGED <<dn, data, mutex>>
    BY <1>8 DEF Runs, Writing, Executor
  <2> QED
    BY <1>5, <2>1
<1>9. ASSUME NEW w \in Worker, Takes(w) \/ Exits(w) PROVE LockInv'
  <2>1. w \in Executor /\ ExOthers(w) /\ ~Writing(w)' /\ UNCHANGED <<dn, data, mutex>>
    BY <1>9 DEF Takes, Exits, Writing, Executor
  <2> QED
    BY <1>5, <2>1
<1>10. ASSUME NEW q \in Request, Finishes(q) PROVE LockInv'
  <2>1. UNCHANGED <<ex, mutex>> /\ Live(q) /\ ~Active(q)
    BY <1>10 DEF Finishes, Active, Live
  <2>2. ASSUME NEW f \in Executor, Writing(f)' PROVE Undisturbed(f)
    <3>1. Writing(f) /\ ex'[f] = ex[f]
      BY <2>1, <2>2 DEF Writing
    <3>2. ex[f].o \in Open /\ ex[f].q = dn[ex[f].o].q /\ ex[f].q # q
      BY <1>3, <2>1, <3>1
    <3>3. data'[ex[f].q] = data[ex[f].q]
      BY <1>1, <1>10, <3>2 DEF Finishes, FlowTypes
    <3>4. ex[f].o \in Object /\ \A i \in Index(q) : req[q].dns[i] # ex[f].o
      BY <1>1, <2>1, <3>2 DEF OwnInv, Open
    <3>5. dn'[ex[f].o] = dn[ex[f].o]
      BY <1>10, <3>4 DEF Finishes
    <3> QED
      BY <2>1, <3>1, <3>3, <3>5 DEF Undisturbed
  <2> QED
    BY <1>2, <2>2
<1>11. ASSUME NEW q \in Request, NEW a \in Api[q], NEW objs, NEW g, Accepted(q, a, objs, g)
       PROVE  LockInv'
  <2>1. UNCHANGED <<ex, data, mutex>>
    BY <1>11 DEF Accepted
  <2>2. ASSUME NEW o \in Open PROVE dn'[o] = dn[o]
    <3>1. o \in Object /\ dn[o].q # NoRequest
      BY <1>1, OpenNode, NotRequest
    <3>2. \A i \in 1..Len(a.nodes) : objs[i] # o
      BY <1>11, <3>1 DEF Accepted
    <3> QED
      BY <1>11, <3>1, <3>2 DEF Accepted
  <2> QED
    BY <1>4, <2>1, <2>2
<1>12. ASSUME NEW q \in Request, NEW g, Prepares(q, g) PROVE LockInv'
  <2>1. UNCHANGED <<ex, data, mutex>>
    BY <1>12 DEF Prepares
  <2>2. \A o \in Object : o # Current(q) => dn'[o] = dn[o]
    BY <1>1, <1>12, PrepareOpens
  <2>3. Current(q) \notin Open /\ Open \subseteq Object
    BY <1>1, <1>12, PrepareOpens DEF Open
  <2> QED
    BY <1>4, <2>1, <2>2, <2>3
<1>13. ASSUME NEW e \in Executor, NEW o \in Object, Goes(e, o) PROVE LockInv'
  <2>1. /\ Busy(e) /\ o = ex[e].o /\ ~Writing(e) /\ ExOthers(e) /\ data' = data
        /\ \A p \in Object : p # o => dn'[p] = dn[p]
        /\ ex'[e].o = ex[e].o /\ ex'[e].q = ex[e].q
    BY <1>13 DEF Goes, Works, Continues, Writing, Changes, DnOthers
  <2>2. PICK r : r = dn[o].q /\ r = ex[e].q /\ r \in Request /\ o \in Open
    BY <2>1, ExecutedOpen
  <2>3. ASSUME NEW f \in Executor, f # e, Writing(f)'
        PROVE  Undisturbed(f) /\ (Writing(e)' => ex[f].q # r)
    <3>1. Writing(f) /\ ex'[f] = ex[f] /\ Busy(f)
      BY <2>1, <2>3 DEF ExOthers, Writing, Busy
    <3>2. ex[f].o # o /\ ex[f].o \in Object
      BY <1>1, <1>3, <2>1, <2>3, <3>1, OnlyExecuted DEF Open
    <3>3. mutex[ex[f].q]
      BY <3>1 DEF LockInv, LockOf
    <3>4. CASE mutex' = mutex /\ ~Writing(e)'
      BY <2>1, <3>1, <3>2, <3>4 DEF Undisturbed
    <3>5. CASE ~mutex[r] /\ mutex' = [mutex EXCEPT ![r] = TRUE]
      <4>1. ex[f].q # r
        BY <3>3, <3>5
      <4>2. mutex'[ex[f].q] = mutex[ex[f].q]
        BY <1>1, <3>1, <3>5, <4>1, ExecutedOpen DEF FlowTypes
      <4> QED
        BY <2>1, <3>1, <3>2, <4>1, <4>2 DEF Undisturbed
    <3> QED
      BY <1>13, <2>2, <3>4, <3>5 DEF Goes, Locks, Writing
  <2>4. ASSUME Writing(e)' PROVE LockOf(e)'
    <3>1. /\ ex'[e].old = data[r] /\ Multi(r) /\ HasPart(o) /\ dn' = dn
          /\ mutex' = [mutex EXCEPT ![r] = TRUE]
      BY <1>13, <2>2, <2>4 DEF Goes, Locks, Writing
    <3>2. mutex'[r]
      BY <1>1, <2>2, <3>1 DEF FlowTypes
    <3>3. Nodes(r)' = Nodes(r) /\ NodeOf(o)' = NodeOf(o)
      BY <2>2, WithOpen
    <3>4. Multi(r)' /\ HasPart(o)'
      BY <3>1, <3>3 DEF Multi, HasPart
    <3>5. ex'[e].q = r /\ ex'[e].o = o
      BY <2>1, <2>2
    <3> QED
      BY <2>1, <3>1, <3>2, <3>4, <3>5 DEF LockOf
  <2>5. \A f \in Executor : Writing(f)' => LockOf(f)'
    BY <2>3, <2>4, LockKept
  <2>6. ASSUME NEW f \in Executor, NEW h \in Executor, Writing(f)', Writing(h)',
               ex'[f].q = ex'[h].q
        PROVE  f = h
    <3>1. \A k \in Executor : k # e /\ Writing(k)' => Writing(k) /\ ex'[k] = ex[k]
      BY <2>3 DEF Undisturbed
    <3> QED
      BY <2>1, <2>2, <2>3, <2>6, <3>1 DEF LockInv
  <2> QED
    BY <2>5, <2>6 DEF LockInv
<1>14. ASSUME NEW e \in Executor, NEW o \in Object, Ends(e, o) PROVE LockInv'
  <2>1. /\ Busy(e) /\ o = ex[e].o /\ ~Writing(e)' /\ ExOthers(e) /\ dn' = dn
    BY <1>14 DEF Ends, Completes, Writing
  <2>2. PICK r : r = dn[o].q /\ r = ex[e].q /\ r \in Request
    BY <2>1, ExecutedOpen
  <2>3. ASSUME NEW f \in Executor, Writing(f)' PROVE Undisturbed(f)
    <3>1. f # e /\ Writing(f) /\ ex'[f] = ex[f] /\ ex[f].q \in Request
      BY <2>1, <2>3, ExecutedOpen DEF ExOthers, Writing, Busy
    <3>2. CASE UNCHANGED <<data, mutex>>
      BY <2>1, <3>1, <3>2 DEF Undisturbed
    <3>3. CASE /\ Writing(e) /\ mutex' = [mutex EXCEPT ![r] = FALSE]
               /\ data' = [data EXCEPT ![r] = ex[e].old \cup {dn[o].idx}]
      <4>1. ex[f].q # r
        BY <2>2, <3>1, <3>3 DEF LockInv
      <4>2. mutex'[ex[f].q] = mutex[ex[f].q] /\ data'[ex[f].q] = data[ex[f].q]
        BY <1>1, <3>1, <3>3, <4>1 DEF FlowTypes
      <4> QED
        BY <2>1, <3>1, <4>2 DEF Undisturbed
    <3> QED
      BY <1>14, <2>2, <3>2, <3>3 DEF Ends, Completes, Writing
  <2> QED
    BY <1>2, <2>3
<1> QED
  BY <1>1, StepCases, <1>6, <1>7, <1>8, <1>9, <1>10, <1>11, <1>12, <1>13, <1>14

\* The parts of the nodes of q that are completed.
PartsOf(q) ==
    {i \in Index(q) : /\ i <= Prepared(q) /\ req[q].dns[i] \notin Open
                      /\ HasPart(req[q].dns[i])}

\* The aggregate has those parts; that of a single node is not used.
PartsInv == \A q \in Request : data[q] = IF Live(q) /\ Multi(q) THEN PartsOf(q) ELSE {}

\* What the completed nodes have is not changed any more.
LEMMA ClosedNodes ==
    ASSUME CoreInv, [Next]_vars, NEW r \in Request, Live(r), Stays(r),
           NEW i \in Index(r), NEW o, o = req[r].dns[i], o \notin Open
    PROVE  o \in Object /\ dn'[o] = dn[o] /\ (HasPart(o)' <=> HasPart(o))
<1>1. o \in Object /\ dn[o].q = r /\ dn[o].idx = i
  BY DEF CoreInv, OwnInv
<1>2. dn'[o] = dn[o] /\ req'[r].api = req[r].api
  BY <1>1 DEF Stays
<1>3. NodeOf(o)' = NodeOf(o)
  BY <1>1, <1>2 DEF NodeOf, Nodes
<1> QED
  BY <1>1, <1>2, <1>3 DEF HasPart

LEMMA NextParts ==
    ASSUME CoreInv, LockInv, PartsInv, [Next]_vars PROVE PartsInv'
<1> SUFFICES ASSUME NEW r \in Request
             PROVE  data'[r] = IF Live(r)' /\ Multi(r)' THEN PartsOf(r)' ELSE {}
  BY DEF PartsInv
<1>1. FlowTypes /\ OwnInv /\ PlacesInv /\ HeldInv /\ OpenInv /\ CountInv
  BY DEF CoreInv
<1>2. data[r] = IF Live(r) /\ Multi(r) THEN PartsOf(r) ELSE {}
  BY DEF PartsInv
<1>3. \A i \in Index(r) : Live(r) =>
         req[r].dns[i] \in Object /\ dn[req[r].dns[i]].q = r /\ dn[req[r].dns[i]].idx = i
  BY <1>1 DEF OwnInv
<1>4. ASSUME Stays(r)
      PROVE  /\ Live(r)' <=> Live(r)
             /\ Multi(r)' <=> Multi(r)
             /\ Index(r)' = Index(r) /\ req'[r].dns = req[r].dns
             /\ Prepared(r)' = Prepared(r)
  BY <1>4 DEF Stays, Multi, Index, Nodes
<1>5. CASE Stays(r) /\ SameOpen(r) /\ data'[r] = data[r]
  <2>1. ASSUME Live(r) PROVE PartsOf(r)' = PartsOf(r)
    <3>1. ASSUME NEW i \in Index(r)
          PROVE  /\ req[r].dns[i] \in Open' <=> req[r].dns[i] \in Open
                 /\ req[r].dns[i] \notin Open =>
                       (HasPart(req[r].dns[i])' <=> HasPart(req[r].dns[i]))
      <4>1. PICK o \in Object : o = req[r].dns[i] /\ dn[o].q = r
        BY <1>3, <2>1
      <4>2. o \in Open' <=> o \in Open
        BY <1>5, <4>1 DEF SameOpen
      <4>3. ASSUME o \notin Open PROVE HasPart(o)' <=> HasPart(o)
        BY <1>5, <2>1, <4>1, <4>3, ClosedNodes
      <4>4. HasPart(req[r].dns[i])' <=> HasPart(o)'
        BY <1>4, <1>5, <4>1
      <4> QED
        BY <4>1, <4>2, <4>3, <4>4
    <3> QED
      BY <1>4, <1>5, <3>1 DEF PartsOf
  <2> QED
    BY <1>2, <1>4, <1>5, <2>1
<1>6. ASSUME Stays(r), NEW e \in Executor, NEW o \in Object, Ends(e, o), dn[o].q = r
      PROVE  data'[r] = IF Live(r)' /\ Multi(r)' THEN PartsOf(r)' ELSE {}
  <2>1. /\ o \in Open /\ Open' = Open \ {o} /\ dn' = dn /\ req' = req
        /\ Busy(e) /\ o = ex[e].o /\ ex[e].q = r
    BY <1>1, <1>6, EndCloses, ExecutedOpen DEF Ends
  <2>2. /\ Live(r) /\ dn[o].idx \in Index(r) /\ req[r].dns[dn[o].idx] = o
        /\ dn[o].idx <= Prepared(r)
    BY <1>1, <1>6, <2>1, OpenNode, WithOpen
  <2>3. \A p : HasPart(p)' <=> HasPart(p)
    BY <2>1 DEF HasPart, NodeOf, Nodes
  <2>4. PartsOf(r)' = PartsOf(r) \cup {i \in {dn[o].idx} : HasPart(o)}
    <3>1. ASSUME NEW i \in Index(r)
          PROVE  i \in PartsOf(r)' <=> i \in PartsOf(r) \/ (i = dn[o].idx /\ HasPart(o))
      <4>1. PICK p : p = req[r].dns[i] /\ dn[p].idx = i
        BY <1>3, <2>2
      <4>2. i \in PartsOf(r)' <=> i <= Prepared(r) /\ p \notin Open' /\ HasPart(p)
        BY <1>4, <1>6, <2>3, <4>1 DEF PartsOf
      <4>3. i \in PartsOf(r) <=> i <= Prepared(r) /\ p \notin Open /\ HasPart(p)
        BY <4>1 DEF PartsOf
      <4> QED
        BY <2>1, <2>2, <4>1, <4>2, <4>3
    <3>2. PartsOf(r)' \subseteq Index(r) /\ PartsOf(r) \subseteq Index(r)
      BY <1>4, <1>6 DEF PartsOf
    <3> QED
      BY <2>2, <3>1, <3>2
  <2>5. CASE Writing(e)
    <3>1. Multi(r) /\ ex[e].old = data[r] /\ HasPart(o)
      BY <2>1, <2>5 DEF LockInv, LockOf
    <3>2. data'[r] = ex[e].old \cup {dn[o].idx}
      BY <1>1, <1>6, <2>5 DEF Ends, Completes, Writing, FlowTypes
    <3> QED
      BY <1>2, <1>4, <1>6, <2>2, <2>4, <3>1, <3>2
  <2>6. CASE ~Writing(e)
    <3>1. data' = data /\ (Multi(r) => ~HasPart(o))
      BY <1>6, <2>6 DEF Ends, Completes, Writing
    <3> QED
      BY <1>2, <1>4, <1>6, <2>2, <2>4, <3>1
  <2> QED
    BY <2>5, <2>6
<1>7. CASE Refused(r)
  BY <1>2, <1>7 DEF Refused, Live
<1>8. CASE Finishes(r)
  BY <1>1, <1>8 DEF Finishes, Live, FlowTypes
<1>9. CASE Renders(r)
  <2>1. /\ Live(r) /\ Live(r)' /\ UNCHANGED <<dn, data>>
        /\ req'[r].api = req[r].api /\ req'[r].dns = req[r].dns
        /\ Prepared(r)' = Prepared(r)
    BY <1>9 DEF Renders, Moves, Turns, Live, Prepared, With, Held
  <2>2. Open' = Open
    BY <1>1, <1>9, KeepsOpen DEF Keeps
  <2>3. Nodes(r)' = Nodes(r) /\ Index(r)' = Index(r) /\ (Multi(r)' <=> Multi(r))
    BY <2>1 DEF Nodes, Index, Multi
  <2>4. ASSUME NEW i \in Index(r) PROVE HasPart(req[r].dns[i])' <=> HasPart(req[r].dns[i])
    <3>1. PICK o \in Object : o = req[r].dns[i] /\ dn[o].q = r
      BY <1>3, <2>1
    <3>2. NodeOf(o)' = NodeOf(o)
      BY <2>1, <2>3, <3>1 DEF NodeOf
    <3>3. HasPart(o)' <=> HasPart(o)
      BY <2>1, <3>2 DEF HasPart
    <3>4. HasPart(req[r].dns[i])' <=> HasPart(o)'
      BY <2>1, <3>1
    <3> QED
      BY <3>1, <3>3, <3>4
  <2>5. PartsOf(r)' = PartsOf(r)
    BY <2>1, <2>2, <2>3, <2>4 DEF PartsOf
  <2> QED
    BY <1>2, <2>1, <2>3, <2>5
<1>10. ASSUME NEW a \in Api[r], NEW objs, NEW g, Accepted(r, a, objs, g)
       PROVE  data'[r] = IF Live(r)' /\ Multi(r)' THEN PartsOf(r)' ELSE {}
  <2>1. ~Live(r) /\ data' = data /\ Prepared(r)' = 0 /\ req'[r].api = a
    BY <1>10 DEF Accepted, Live, Prepared, With, Held
  <2>2. Index(r)' = 1..Len(a.nodes) /\ Len(a.nodes) \in Nat
    BY <2>1, ApiFacts DEF Index, Nodes
  <2>3. PartsOf(r)' = {}
    BY <2>1, <2>2 DEF PartsOf
  <2> QED
    BY <1>2, <2>1, <2>3
<1>11. ASSUME NEW g, Prepares(r, g)
       PROVE  data'[r] = IF Live(r)' /\ Multi(r)' THEN PartsOf(r)' ELSE {}
  <2>1. /\ Live(r)' /\ req'[r].api = req[r].api /\ req'[r].dns = req[r].dns /\ data' = data
        /\ Prepared(r)' = req[r].idx /\ Prepared(r) = req[r].idx - 1
    BY <1>11 DEF Prepares, Turns, Live, Prepared, With, Held
  <2>2. PICK c \in Object :
           /\ c = req[r].dns[req[r].idx] /\ Live(r) /\ req[r].idx \in Index(r)
           /\ Open' = Open \cup {c} /\ dn[c].idx = req[r].idx
           /\ \A o \in Object : o # c => dn'[o] = dn[o]
    BY <1>1, <1>11, PrepareOpens DEF Current
  <2>3. Nodes(r)' = Nodes(r) /\ Index(r)' = Index(r) /\ (Multi(r)' <=> Multi(r))
    BY <2>1 DEF Nodes, Index, Multi
  <2>4. Index(r) \subseteq Nat
    BY <1>1, NodesFacts
  <2>5. ASSUME NEW i \in Index(r)
        PROVE  i \in PartsOf(r)' <=> i \in PartsOf(r)
    <3>1. PICK o \in Object : o = req[r].dns[i] /\ dn[o].q = r /\ dn[o].idx = i
      BY <1>3, <2>2
    <3>2. i \in PartsOf(r)' <=> i <= req[r].idx /\ o \notin Open' /\ HasPart(o)'
      BY <2>1, <2>3, <3>1 DEF PartsOf
    <3>3. i \in PartsOf(r) <=> i <= req[r].idx - 1 /\ o \notin Open /\ HasPart(o)
      BY <2>1, <3>1 DEF PartsOf
    <3>4. CASE i = req[r].idx
      BY <2>2, <2>4, <3>1, <3>2, <3>3, <3>4
    <3>5. CASE i # req[r].idx
      <4>1. o # c
        BY <2>2, <3>1, <3>5
      <4>2. dn'[o] = dn[o] /\ NodeOf(o)' = NodeOf(o)
        BY <2>2, <2>3, <3>1, <4>1 DEF NodeOf
      <4>3. HasPart(o)' <=> HasPart(o)
        BY <4>2 DEF HasPart
      <4> QED
        BY <2>2, <2>4, <3>2, <3>3, <3>5, <4>1, <4>3
    <3> QED
      BY <3>4, <3>5
  <2>6. PartsOf(r)' \subseteq Index(r) /\ PartsOf(r) \subseteq Index(r)
    BY <2>3 DEF PartsOf
  <2>7. PartsOf(r)' = PartsOf(r)
    BY <2>5, <2>6
  <2> QED
    BY <1>2, <2>1, <2>2, <2>3, <2>7
<1> QED
  BY Steady, <1>5, <1>6, <1>7, <1>8, <1>9, <1>10, <1>11

LEMMA PartsHold == Spec => [](LockInv /\ PartsInv)
<1>1. Init => LockInv /\ PartsInv
  <2> SUFFICES ASSUME Init PROVE LockInv /\ PartsInv
    OBVIOUS
  <2>1. LockInv
    BY ConstantTypes DEF Init, LockInv, Writing
  <2>2. PartsInv
    BY ConstantTypes DEF Init, PartsInv, Live
  <2> QED
    BY <2>1, <2>2
<1>2. CoreInv /\ (LockInv /\ PartsInv) /\ [Next]_vars => (LockInv /\ PartsInv)'
  BY NextLock, NextParts
<1> QED
  BY <1>1, <1>2, CoreHolds, PTL DEF Spec

\* RenderedWhole, for any requests, workers and APIs: the parts that are rendered are
\* those of all nodes that have one, because the lock keeps what was read and the last
\* wait leaves no node open.
THEOREM RenderedIsWhole == Spec => []RenderedWhole
<1>1. CoreInv /\ (LockInv /\ PartsInv) => RenderedWhole
  <2> SUFFICES ASSUME CoreInv, PartsInv, NEW q \in Request, req[q].pc = "render", Multi(q)
               PROVE  data[q] = {i \in Index(q) : HasPart(req[q].dns[i])}
    BY DEF RenderedWhole
  <2>1. Live(q) /\ FlowTypes /\ OwnInv /\ OpenInv
    BY DEF Live, CoreInv
  <2>2. data[q] = PartsOf(q)
    BY <2>1 DEF PartsInv
  <2>3. Prepared(q) = Len(Nodes(q)) /\ Index(q) = 1..Len(Nodes(q)) /\ Len(Nodes(q)) \in Nat
    BY <2>1, NodesFacts DEF OwnInv, Prepared, With, Held
  <2>4. \A i \in Index(q) : req[q].dns[i] \notin Open
    BY <2>1 DEF OwnInv, OpenInv
  <2> QED
    BY <2>2, <2>3, <2>4 DEF PartsOf
<1> QED
  BY <1>1, CoreHolds, PartsHold, PTL

-----------------------------------------------------------------------------
(* Responses.                                                              *)

\* Node o has not been forwarded to the end: its request has not prepared it or holds
\* it, it is in a channel, or an execution of it waits for an answer.
Asking(e) == ex[e].pc \in {"start", "do", "retry"}
Asked(o) == \E e \in Executor : Asking(e) /\ ex[e].o = o
Early(o) == dn[o].idx > Prepared(dn[o].q) \/ Queued(o) \/ HeldBy(o) \/ Asked(o)

\* Until then it has no response; it has not read Depend before it is prepared.
FreshInv ==
    \A o \in Object : dn[o].q # NoRequest =>
        /\ dn[o].idx > Prepared(dn[o].q) => dn[o].seen = Unread
        /\ Early(o) => dn[o].res = "none"

\* Nodes whose requests have prepared as many as before, or more.
LEMMA FreshKept ==
    ASSUME FreshInv, NEW o \in Object, NEW r, dn[o].q = r, r # NoRequest, dn'[o].q = r,
           dn'[o].idx = dn[o].idx, dn[o].idx \in Nat, Prepared(r) \in Int, Prepared(r)' \in Int,
           Prepared(r)' >= Prepared(r),
           dn'[o].seen = dn[o].seen \/ ~(dn[o].idx > Prepared(r)'),
           Early(o)' => Early(o) /\ dn'[o].res = dn[o].res
    PROVE  /\ dn'[o].idx > Prepared(dn[o].q)' => dn'[o].seen = Unread
           /\ Early(o)' => dn'[o].res = "none"
<1>1. Prepared(dn[o].q)' = Prepared(r)'
  OBVIOUS
<1>2. /\ dn[o].idx > Prepared(r) => dn[o].seen = Unread
      /\ Early(o) => dn[o].res = "none"
  BY DEF FreshInv
<1> QED
  BY <1>1, <1>2

LEMMA PreparedType ==
    ASSUME FlowTypes, NEW r \in Request PROVE Prepared(r) \in Int
<1>1. req[r].idx \in Nat
  BY DEF FlowTypes, Req
<1> QED
  BY <1>1 DEF Prepared

\* No step makes a node early again, or gives a response to one that still is.
LEMMA EarlySteps ==
    ASSUME CoreInv, [Next]_vars, NEW o \in Object, NEW r \in Request, dn[o].q = r,
           dn'[o].q = r, dn'[o].idx = dn[o].idx, Prepared(r)' >= Prepared(r), Early(o)'
    PROVE  Early(o) /\ dn'[o].res = dn[o].res
<1>1. FlowTypes /\ OwnInv /\ PlacesInv /\ HeldInv /\ OpenInv
  BY DEF CoreInv
<1>2. dn[o].idx \in Nat /\ Prepared(r) \in Int /\ Prepared(r)' \in Int
  <2>1. FlowTypes'
    BY CoreStep DEF CoreInv
  <2>2. req'[r].idx \in Nat
    BY <2>1 DEF FlowTypes, Req
  <2> QED
    BY <1>1, <2>2, PreparedType DEF Prepared, FlowTypes, Dn
<1>3. \/ dn[o].idx > Prepared(r)' \/ Queued(o)' \/ HeldBy(o)' \/ Asked(o)'
  <2>1. (dn[o].idx > Prepared(dn[o].q))' => dn[o].idx > Prepared(r)'
    OBVIOUS
  <2> QED
    BY <2>1 DEF Early
<1>4. ASSUME Queued(o)' => Early(o), HeldBy(o)' => Early(o), Asked(o)' => Early(o)
      PROVE  Early(o)
  <2>1. dn[o].idx > Prepared(r)' => dn[o].idx > Prepared(dn[o].q)
    BY <1>2
  <2> QED
    BY <1>3, <1>4, <2>1 DEF Early
<1>5. Queued(o) \/ HeldBy(o) \/ Asked(o) => Early(o)
  BY DEF Early
<1>6. ASSUME ex' = ex PROVE Asked(o)' => Asked(o)
  BY <1>6 DEF Asked, Asking
<1>7. ASSUME queue' = queue PROVE Queued(o)' => Queued(o)
  BY <1>7 DEF Queued
<1>8. ASSUME Same PROVE HeldBy(o)' => HeldBy(o)
  <2>1. \A q \in Request : (Held(q)' <=> Held(q)) /\ Current(q)' = Current(q)
    BY <1>8 DEF Same, SameReq, Held, Current
  <2> QED
    BY <2>1 DEF HeldBy
<1>9. ASSUME Rests \/ (\E q \in Request : Copies(q) \/ Hands(q)) PROVE Early(o) /\ dn' = dn
  <2>1. UNCHANGED <<ex, queue, dn>>
    BY <1>9 DEF Rests, Copies, Hands
  <2> QED
    BY <1>1, <1>4, <1>5, <1>6, <1>7, <1>8, <1>9, <2>1, SameSteps
<1>10. ASSUME NEW q \in Request, ReqOthers(q), ~Held(q), ~Held(q)', UNCHANGED <<ex, queue>>
       PROVE  Early(o)
  BY <1>4, <1>5, <1>6, <1>7, <1>10, HeldByOthers
<1>11. ASSUME NEW q \in Request, Refused(q) \/ Returns(q) \/ Renders(q)
       PROVE  Early(o) /\ dn' = dn
  <2>1. ReqOthers(q) /\ ~Held(q) /\ ~Held(q)' /\ UNCHANGED <<ex, queue, dn>>
    BY <1>11 DEF Refused, Returns, Renders, Moves, Turns, Held
  <2> QED
    BY <1>10, <2>1
<1>12. ASSUME NEW q \in Request, Finishes(q) PROVE Early(o) /\ dn'[o] = dn[o]
  <2>1. ReqOthers(q) /\ ~Held(q) /\ ~Held(q)' /\ UNCHANGED <<ex, queue>>
    BY <1>12 DEF Finishes, Held
  <2>2. dn'[o] = dn[o]
    BY <1>12, NotRequest, ConstantTypes DEF Finishes
  <2> QED
    BY <1>10, <2>1, <2>2
<1>13. ASSUME NEW q \in Request, NEW a \in Api[q], NEW objs, NEW g, Accepted(q, a, objs, g)
       PROVE  Early(o) /\ dn'[o] = dn[o]
  <2>1. ReqOthers(q) /\ ~Held(q) /\ ~Held(q)' /\ UNCHANGED <<ex, queue>>
    BY <1>13 DEF Accepted, Held
  <2>2. \A i \in 1..Len(a.nodes) : objs[i] # o
    BY <1>13, NotRequest DEF Accepted
  <2>3. dn'[o] = dn[o]
    BY <1>13, <2>2 DEF Accepted
  <2> QED
    BY <1>10, <2>1, <2>3
<1>14. ASSUME NEW q \in Request, Runs(q) PROVE Early(o) /\ dn' = dn
  <2>1. ReqOthers(q) /\ Held(q) /\ ~Held(q)' /\ UNCHANGED <<queue, dn>> /\ ExOthers(q)
    BY <1>14 DEF Runs, Moves, Turns, Held
  <2>2. HeldBy(o) <=> HeldBy(o)' \/ o = Current(q)
    BY <2>1, HeldByGives
  <2>3. ex'[q].o = Current(q)
    BY <1>14 DEF Runs
  <2>4. Asked(o)' => Asked(o) \/ o = Current(q)
    BY <2>1, <2>3 DEF Asked, Asking, ExOthers
  <2> QED
    BY <1>4, <1>5, <1>7, <2>1, <2>2, <2>4
<1>15. ASSUME NEW q \in Request, Puts(q) PROVE Early(o) /\ dn' = dn
  <2>1. ReqOthers(q) /\ Held(q) /\ ~Held(q)' /\ UNCHANGED <<ex, dn>>
    BY <1>15 DEF Puts, Turns, Held
  <2>2. HeldBy(o) <=> HeldBy(o)' \/ o = Current(q)
    BY <2>1, HeldByGives
  <2>3. Queued(o)' <=> Queued(o) \/ o = Current(q)
    BY <1>1, <1>15, QueuedPut
  <2> QED
    BY <1>4, <1>5, <1>6, <2>1, <2>2, <2>3
<1>16. ASSUME NEW q \in Request, NEW g, Prepares(q, g)
       PROVE  Early(o) /\ dn'[o].res = dn[o].res
  <2>1. UNCHANGED <<ex, queue>> /\ dn'[Current(q)].res = dn[Current(q)].res
    BY <1>16 DEF Prepares
  <2>2. /\ \A p \in Object : p # Current(q) => dn'[p] = dn[p]
        /\ HeldBy(o)' <=> HeldBy(o) \/ o = Current(q)
        /\ dn[Current(q)].q = q /\ dn[Current(q)].idx = req[q].idx
    BY <1>1, <1>16, PrepareOpens
  <2>3. o = Current(q) => Early(o)
    <3>1. Prepared(q) = req[q].idx - 1
      BY <1>16 DEF Prepares, Prepared, With, Held
    <3> QED
      BY <1>2, <2>2, <3>1 DEF Early
  <2> QED
    BY <1>4, <1>5, <1>6, <1>7, <2>1, <2>2, <2>3
<1>17. ASSUME NEW e \in Executor, NEW p \in Object, Goes(e, p)
       PROVE  Early(o) /\ dn'[o].res = dn[o].res
  <2>1. /\ queue' = queue /\ ExOthers(e) /\ Busy(e) /\ p = ex[e].o /\ ex'[e].o = p
        /\ ex'[e].pc # "start"
        /\ ex[e].pc \in {"start", "do", "retry", "complete"}
        /\ ex[e].pc = "complete" => ex'[e].pc = "write"
        /\ \A k \in Object : k # p => dn'[k] = dn[k]
    BY <1>17 DEF Goes, Works, Continues, Changes, DnOthers
  <2>2. HeldBy(o)' => HeldBy(o)
    BY <1>1, <1>8, <1>17, SameSteps
  <2>3. Asking(e)' => Asking(e)
    BY <2>1 DEF Asking
  <2>4. Asked(o)' => Asked(o)
    BY <2>1, <2>3 DEF Asked, Asking, ExOthers
  <2>5. Early(o)
    BY <1>4, <1>5, <1>7, <2>1, <2>2, <2>4
  <2>6. CASE p = o
    <3>0. Busy(e) /\ o = ex[e].o
      BY <2>1, <2>6
    <3>1. ~Queued(o) /\ ~HeldBy(o) /\ \A f \in Executor : Busy(f) /\ ex[f].o = o => f = e
      BY <1>1, <3>0, OnlyExecuted
    <3>2. o \in Open
      BY <2>1, <2>6 DEF Open, Executed
    <3>3. dn[o].idx <= Prepared(r)
      BY <3>2, WithOpen
    <3>4. Asked(o)'
      BY <1>2, <1>3, <1>7, <2>1, <2>2, <3>1, <3>3
    <3>5. PICK f \in Executor : Asking(f)' /\ ex'[f].o = o
      BY <3>4 DEF Asked
    <3>6. f # e => Busy(f) /\ ex[f].o = o
      BY <2>1, <3>5 DEF ExOthers, Asking, Busy
    <3>7. ex'[e].pc # "complete"
      BY <3>1, <3>5, <3>6 DEF Asking
    <3> QED
      BY <1>17, <2>5, <2>6, <3>7 DEF Goes, Gets
  <2> QED
    BY <2>1, <2>5, <2>6
<1>18. ASSUME NEW e \in Executor, NEW p \in Object, Ends(e, p) PROVE Early(o) /\ dn' = dn
  <2>1. UNCHANGED <<req, dn, queue>> /\ ExOthers(e) /\ ~Asking(e)'
    BY <1>18 DEF Ends, Completes, Asking
  <2>2. HeldBy(o)' => HeldBy(o)
    BY <2>1 DEF HeldBy, Held, Current
  <2>3. Asked(o)' => Asked(o)
    BY <2>1 DEF Asked, Asking, ExOthers
  <2> QED
    BY <1>4, <1>5, <1>7, <2>1, <2>2, <2>3
<1>19. ASSUME NEW w \in Worker, Takes(w) PROVE Early(o) /\ dn' = dn
  <2>1. UNCHANGED <<req, dn>> /\ ExOthers(w) /\ ex'[w].o = Taken(w)
    BY <1>19 DEF Takes
  <2>2. HeldBy(o)' => HeldBy(o)
    BY <2>1 DEF HeldBy, Held, Current
  <2>3. Asked(o)' => Asked(o) \/ o = Taken(w)
    BY <2>1 DEF Asked, Asking, ExOthers
  <2>4. Queued(o) <=> Queued(o)' \/ o = Taken(w)
    BY <1>1, <1>19, QueuedTake
  <2> QED
    BY <1>4, <1>5, <2>1, <2>2, <2>3, <2>4
<1>20. ASSUME NEW w \in Worker, Exits(w) PROVE Early(o) /\ dn' = dn
  <2>1. UNCHANGED <<req, dn, queue>> /\ ExOthers(w) /\ ~Asking(w)'
    BY <1>20 DEF Exits, Asking
  <2>2. HeldBy(o)' => HeldBy(o)
    BY <2>1 DEF HeldBy, Held, Current
  <2>3. Asked(o)' => Asked(o)
    BY <2>1 DEF Asked, Asking, ExOthers
  <2> QED
    BY <1>4, <1>5, <1>7, <2>1, <2>2, <2>3
<1> QED
  BY <1>1, StepCases, <1>9, <1>11, <1>12, <1>13, <1>14, <1>15, <1>16, <1>17, <1>18, <1>19,
     <1>20

LEMMA NextFresh ==
    ASSUME CoreInv, FreshInv, [Next]_vars PROVE FreshInv'
<1> SUFFICES ASSUME NEW o \in Object, dn'[o].q # NoRequest
             PROVE  /\ dn'[o].idx > Prepared(dn[o].q)' => dn'[o].seen = Unread
                    /\ Early(o)' => dn'[o].res = "none"
  BY DEF FreshInv
<1>1. FlowTypes /\ OwnInv /\ PlacesInv /\ FlowTypes' /\ OwnInv'
  BY CoreStep DEF CoreInv
<1>2. PICK r \in Request : r = dn'[o].q /\ Live(r)'
  <2>1. dn'[o].q \in Request
    BY <1>1 DEF FlowTypes, Dn
  <2>2. Live(dn[o].q)'
    BY <1>1 DEF OwnInv
  <2>3. PICK r \in Request : r = dn'[o].q
    BY <2>1
  <2>4. Live(r)'
    BY <2>2, <2>3
  <2> QED
    BY <2>3, <2>4
<1>3. r # NoRequest /\ Prepared(r) \in Int /\ Prepared(r)' \in Int /\ dn[o].idx \in Nat
  <2>1. req'[r].idx \in Nat /\ dn[o].idx \in Nat
    BY <1>1 DEF FlowTypes, Req, Dn
  <2>2. r # NoRequest /\ Prepared(r) \in Int
    BY <1>1, NotRequest, PreparedType
  <2> QED
    BY <2>1, <2>2 DEF Prepared
<1>4. CASE Stays(r)
  <2>1. dn[o].q = r /\ dn'[o].idx = dn[o].idx /\ Prepared(r)' = Prepared(r)
    BY <1>2, <1>4 DEF Stays
  <2>2. dn'[o].seen = dn[o].seen \/ ~(dn[o].idx > Prepared(r)')
    <3>1. CASE o \notin Open
      BY <1>4, <2>1, <3>1 DEF Stays
    <3>2. CASE o \in Open
      BY <1>3, <2>1, <3>2, WithOpen
    <3> QED
      BY <3>1, <3>2
  <2>3. Early(o)' => Early(o) /\ dn'[o].res = dn[o].res
    BY <1>2, <1>3, <2>1, EarlySteps
  <2> QED
    BY <1>2, <1>3, <2>1, <2>2, <2>3, FreshKept
<1>5. ~Refused(r) /\ ~Finishes(r)
  BY <1>2 DEF Refused, Finishes, Live
<1>6. CASE Renders(r)
  <2>1. dn' = dn /\ Prepared(r)' = Prepared(r)
    BY <1>6 DEF Renders, Moves, Turns, Prepared, With, Held
  <2>2. dn[o].q = r /\ Early(o)' => Early(o)
    BY <1>2, <1>3, <2>1, EarlySteps
  <2> QED
    BY <1>2, <1>3, <2>1, <2>2, FreshKept
<1>7. CASE \E a \in Api[r] : \E objs, g : Accepted(r, a, objs, g)
  <2>0. PICK a \in Api[r] : \E objs, g : Accepted(r, a, objs, g)
    BY <1>7
  <2>1. PICK objs, g : Accepted(r, a, objs, g)
    BY <2>0
  <2>2. ASSUME \A i \in 1..Len(a.nodes) : objs[i] # o PROVE FALSE
    <3>1. dn'[o] = dn[o]
      BY <2>1, <2>2 DEF Accepted
    <3>2. Live(r)
      BY <1>1, <1>2, <1>3, <3>1 DEF OwnInv
    <3> QED
      BY <2>1, <3>2 DEF Accepted, Live
  <2>3. dn'[o].res = "none" /\ dn'[o].seen = Unread
    BY <2>1, <2>2 DEF Accepted
  <2> QED
    BY <2>3
<1>8. ASSUME NEW g, Prepares(r, g)
      PROVE  /\ dn'[o].idx > Prepared(dn[o].q)' => dn'[o].seen = Unread
             /\ Early(o)' => dn'[o].res = "none"
  <2>1. Prepared(r)' = req[r].idx /\ Prepared(r) = req[r].idx - 1
    BY <1>8 DEF Prepares, Turns, Prepared, With, Held
  <2>2. Prepared(r)' >= Prepared(r)
    BY <1>3, <2>1
  <2>3. /\ dn'[o].q = dn[o].q /\ dn'[o].idx = dn[o].idx
        /\ o # Current(r) => dn'[o] = dn[o]
    BY <1>1, <1>8, PrepareOpens
  <2>4. dn'[o].seen = dn[o].seen
    BY <1>8, <2>3 DEF Prepares
  <2>5. Early(o)' => Early(o) /\ dn'[o].res = dn[o].res
    BY <1>2, <2>2, <2>3, EarlySteps
  <2> QED
    BY <1>2, <1>3, <2>2, <2>3, <2>4, <2>5, FreshKept
<1> QED
  BY Steady, <1>4, <1>5, <1>6, <1>7, <1>8

\* The responses of r that are not released are those of its nodes, until it renders.
RespInv == \A q \in Request : resp[q] = IF Active(q) THEN Responses(q) ELSE 0

Answered(q) == {i \in Index(q) : dn[req[q].dns[i]].res # "none"}

LEMMA ResponsesAnswered ==
    ASSUME FlowTypes, NEW q \in Request
    PROVE  Responses(q) = Cardinality(Answered(q)) /\ IsFiniteSet(Answered(q))
<1>1. Index(q) = 1..Len(Nodes(q)) /\ Len(Nodes(q)) \in Nat
  BY NodesFacts
<1>2. IsFiniteSet(Index(q))
  BY <1>1, FS_Interval
<1>3. IsFiniteSet(Answered(q))
  BY <1>2, FS_Subset DEF Answered
<1> QED
  BY <1>3 DEF Responses, Answered

\* Node o of r gets its response.
Acquires(r, o) ==
    /\ dn[o].q = r /\ dn[o].res = "none" /\ dn'[o].res # "none"
    /\ \A p \in Object : p # o => dn'[p] = dn[p]
    /\ resp'[r] = resp[r] + 1
    /\ UNCHANGED req

\* What the steps do to the responses of r.
LEMMA RespSteps ==
    ASSUME CoreInv, FreshInv, [Next]_vars, NEW r \in Request
    PROVE  \/ /\ resp'[r] = resp[r]
              /\ \A o \in Object : dn[o].q = r /\ dn'[o].q = r => dn'[o].res = dn[o].res
           \/ Renders(r)
           \/ \E o \in Object : Acquires(r, o)
<1>1. FlowTypes /\ OwnInv /\ PlacesInv
  BY DEF CoreInv
<1> DEFINE Calm == /\ resp'[r] = resp[r]
                   /\ \A o \in Object : dn[o].q = r /\ dn'[o].q = r => dn'[o].res = dn[o].res
<1>2. CASE UNCHANGED <<dn, resp>>
  BY <1>2
<1>3. ASSUME NEW q \in Request, Renders(q), q # r PROVE Calm
  BY <1>1, <1>3 DEF Renders, FlowTypes
<1>4. ASSUME NEW q \in Request, Finishes(q) PROVE Calm
  BY <1>4, NotRequest, ConstantTypes DEF Finishes
<1>5. ASSUME NEW q \in Request, NEW a, NEW objs, NEW g, Accepted(q, a, objs, g) PROVE Calm
  <2>1. ASSUME NEW o \in Object, dn[o].q = r PROVE dn'[o] = dn[o]
    <3>1. \A i \in 1..Len(a.nodes) : objs[i] # o
      BY <1>5, <2>1, NotRequest DEF Accepted
    <3> QED
      BY <1>5, <3>1 DEF Accepted
  <2> QED
    BY <1>5, <2>1 DEF Accepted
<1>6. ASSUME NEW q \in Request, NEW g, Prepares(q, g) PROVE Calm
  BY <1>6 DEF Prepares, Changes, DnOthers
<1>7. ASSUME NEW e \in Executor, NEW o \in Object, Goes(e, o)
      PROVE  Calm \/ Acquires(r, o)
  <2>1. (\A p \in Object : p # o => dn'[p] = dn[p]) /\ UNCHANGED req
    BY <1>7 DEF Goes, Works, Changes, DnOthers
  <2>2. CASE dn'[o].res = dn[o].res /\ resp' = resp
    BY <2>1, <2>2
  <2>3. CASE /\ ex[e].pc \in {"start", "do"} /\ dn'[o].res # "none"
             /\ resp' = [resp EXCEPT ![dn[o].q] = @ + 1]
    <3>1. CASE dn[o].q # r
      BY <1>1, <2>1, <2>3, <3>1 DEF FlowTypes
    <3>2. CASE dn[o].q = r
      <4>1. Early(o)
        BY <1>7, <2>3 DEF Goes, Early, Asked, Asking
      <4>2. dn[o].res = "none"
        BY <3>2, <4>1, NotRequest DEF FreshInv
      <4>3. resp'[r] = resp[r] + 1
        BY <1>1, <2>3, <3>2 DEF FlowTypes
      <4> QED
        BY <2>1, <2>3, <3>2, <4>2, <4>3 DEF Acquires
    <3> QED
      BY <3>1, <3>2
  <2> QED
    BY <1>7, <2>2, <2>3 DEF Goes, Gets
<1>8. ASSUME NEW q \in Request,
             \/ Refused(q) \/ Copies(q) \/ Hands(q) \/ Runs(q) \/ Puts(q) \/ Returns(q)
      PROVE  UNCHANGED <<dn, resp>>
  BY <1>8 DEF Refused, Copies, Hands, Runs, Puts, Returns
<1>9. ASSUME \E w \in Worker : Takes(w) \/ Exits(w) PROVE UNCHANGED <<dn, resp>>
  BY <1>9 DEF Takes, Exits
<1>10. ASSUME NEW e \in Executor, NEW o \in Object, Ends(e, o) PROVE UNCHANGED <<dn, resp>>
  BY <1>10 DEF Ends, Completes
<1>13. ASSUME Rests PROVE Calm
  BY <1>1, <1>13, NotRequest DEF Rests, FlowTypes
<1> HIDE DEF Calm
<1>11. (UNCHANGED <<dn, resp>> => Calm) /\ (Rests => Calm)
  BY <1>13 DEF Calm
<1>12. Calm \/ Renders(r) \/ \E e \in Executor, o \in Object : Goes(e, o)
  BY <1>1, StepCases, <1>3, <1>4, <1>5, <1>6, <1>8, <1>9, <1>10, <1>11
<1> QED
  BY <1>7, <1>12 DEF Calm

LEMMA NextResp ==
    ASSUME CoreInv, FreshInv, RespInv, [Next]_vars PROVE RespInv'
<1> SUFFICES ASSUME NEW r \in Request
             PROVE  resp'[r] = IF Active(r)' THEN Responses(r)' ELSE 0
  BY DEF RespInv
<1>1. FlowTypes /\ OwnInv /\ PlacesInv /\ FlowTypes'
  BY CoreStep DEF CoreInv
<1>2. /\ Responses(r) = Cardinality(Answered(r)) /\ IsFiniteSet(Answered(r))
      /\ Responses(r)' = Cardinality(Answered(r)')
  <2>1. Responses(r)' = Cardinality(Answered(r)')
    BY DEF Responses, Answered
  <2> QED
    BY <1>1, <2>1, ResponsesAnswered
<1>3. resp[r] = IF Active(r) THEN Responses(r) ELSE 0
  BY DEF RespInv
<1>4. \A i \in Index(r) : Live(r) =>
         req[r].dns[i] \in Object /\ dn[req[r].dns[i]].q = r /\ dn[req[r].dns[i]].idx = i
  BY <1>1 DEF OwnInv
\* The nodes of r are the same, with the same responses.
<1>5. ASSUME Live(r), req'[r].api = req[r].api, req'[r].dns = req[r].dns,
             \A o \in Object : dn[o].q = r => dn'[o].res = dn[o].res
      PROVE  Answered(r)' = Answered(r)
  <2>1. Index(r)' = Index(r)
    BY <1>5 DEF Index, Nodes
  <2>2. \A i \in Index(r) : dn'[req[r].dns[i]].res = dn[req[r].dns[i]].res
    BY <1>4, <1>5
  <2> QED
    BY <1>5, <2>1, <2>2 DEF Answered
<1>6. CASE Stays(r)
  <2>1. /\ Active(r)' <=> Active(r)
        /\ Active(r) => Live(r)
        /\ req'[r].api = req[r].api /\ req'[r].dns = req[r].dns
        /\ \A o \in Object : dn[o].q = r => dn'[o].q = r
    BY <1>6 DEF Stays, Active
  <2>2. ~Renders(r)
    BY <2>1 DEF Renders, Moves, Turns, Active, Live
  <2>3. CASE /\ resp'[r] = resp[r]
             /\ \A o \in Object : dn[o].q = r /\ dn'[o].q = r => dn'[o].res = dn[o].res
    BY <1>2, <1>3, <1>5, <2>1, <2>3
  <2>4. ASSUME NEW o \in Object, Acquires(r, o)
        PROVE  resp'[r] = IF Active(r)' THEN Responses(r)' ELSE 0
    <3>0. /\ dn[o].q = r /\ dn[o].res = "none" /\ dn'[o].res # "none"
          /\ \A p \in Object : p # o => dn'[p] = dn[p]
          /\ resp'[r] = resp[r] + 1 /\ o \in Open
      BY <1>6, <2>4 DEF Acquires, Stays
    <3>1. Active(r) /\ Live(r)
      BY <2>1, <3>0, WithOpen
    <3>2. dn[o].idx \in Index(r) /\ req[r].dns[dn[o].idx] = o
      BY <1>1, <3>0, NotRequest DEF OwnInv
    <3>3. Index(r)' = Index(r)
      BY <2>1 DEF Index, Nodes
    <3>4. ASSUME NEW i \in Index(r)
          PROVE  i \in Answered(r)' <=> i \in Answered(r) \/ i = dn[o].idx
      <4>1. PICK p \in Object : p = req[r].dns[i] /\ dn[p].idx = i
        BY <1>4, <3>1
      <4>2. i \in Answered(r)' <=> dn'[p].res # "none"
        BY <2>1, <3>3, <4>1 DEF Answered
      <4>3. i \in Answered(r) <=> dn[p].res # "none"
        BY <4>1 DEF Answered
      <4> QED
        BY <3>0, <3>2, <4>1, <4>2, <4>3
    <3>5. Answered(r)' \subseteq Index(r) /\ Answered(r) \subseteq Index(r)
      BY <3>3 DEF Answered
    <3>6. Answered(r)' = Answered(r) \cup {dn[o].idx}
      BY <3>2, <3>4, <3>5
    <3>7. dn[o].idx \notin Answered(r)
      BY <3>0, <3>2 DEF Answered
    <3>8. Cardinality(Answered(r)') = Cardinality(Answered(r)) + 1
      BY <1>2, <3>6, <3>7, FS_AddElement
    <3> QED
      BY <1>2, <1>3, <2>1, <3>0, <3>1, <3>8
  <2> QED
    BY <2>2, <2>3, <2>4, RespSteps
<1>7. CASE Refused(r)
  BY <1>3, <1>7 DEF Refused, Active, Live
<1>8. CASE Finishes(r)
  BY <1>3, <1>8 DEF Finishes, Active, Live
<1>9. CASE Renders(r)
  <2>1. Active(r) /\ ~Active(r)'
    BY <1>9 DEF Renders, Moves, Turns, Active, Live
  <2>2. resp'[r] = resp[r] - Responses(r)
    BY <1>1, <1>9 DEF Renders, FlowTypes
  <2>3. resp[r] \in Int
    BY <1>1 DEF FlowTypes
  <2> QED
    BY <1>3, <2>1, <2>2, <2>3
<1>10. ASSUME NEW a \in Api[r], NEW objs, NEW g, Accepted(r, a, objs, g)
       PROVE  resp'[r] = IF Active(r)' THEN Responses(r)' ELSE 0
  <2>1. /\ ~Active(r) /\ resp' = resp /\ req'[r].api = a /\ req'[r].dns = objs
        /\ \A i \in 1..Len(a.nodes) : dn'[objs[i]].res = "none"
    BY <1>10 DEF Accepted, Active, Live
  <2>2. Index(r)' = 1..Len(a.nodes)
    BY <2>1, ApiFacts DEF Index, Nodes
  <2>3. Answered(r)' = {}
    BY <2>1, <2>2 DEF Answered
  <2> QED
    BY <1>2, <1>3, <2>1, <2>3, FS_EmptySet
<1>11. ASSUME NEW g, Prepares(r, g)
       PROVE  resp'[r] = IF Active(r)' THEN Responses(r)' ELSE 0
  <2>1. /\ resp' = resp /\ Active(r) /\ Active(r)' /\ Live(r)
        /\ req'[r].api = req[r].api /\ req'[r].dns = req[r].dns
        /\ dn'[Current(r)].res = dn[Current(r)].res
    BY <1>11 DEF Prepares, Turns, Active, Live
  <2>2. \A o \in Object : o # Current(r) => dn'[o] = dn[o]
    BY <1>1, <1>11, PrepareOpens
  <2>3. \A o \in Object : dn'[o].res = dn[o].res
    BY <2>1, <2>2
  <2> QED
    BY <1>2, <1>3, <1>5, <2>1, <2>3
<1> QED
  BY Steady, <1>6, <1>7, <1>8, <1>9, <1>10, <1>11

LEMMA RespHolds == Spec => [](FreshInv /\ RespInv)
<1>1. Init => FreshInv /\ RespInv
  <2> SUFFICES ASSUME Init PROVE FreshInv /\ RespInv
    OBVIOUS
  <2>1. FreshInv
    BY ConstantTypes DEF Init, FreshInv
  <2>2. RespInv
    BY ConstantTypes DEF Init, RespInv, Active, Live
  <2> QED
    BY <2>1, <2>2
<1>2. CoreInv /\ (FreshInv /\ RespInv) /\ [Next]_vars => (FreshInv /\ RespInv)'
  BY NextFresh, NextResp
<1> QED
  BY <1>1, <1>2, CoreHolds, PTL DEF Spec

\* ResponsesReleased, for any requests, workers, APIs and retries: each node has at most
\* one response that is not released, and rendering releases exactly those.
THEOREM ResponsesAreReleased == Spec => []ResponsesReleased
<1>1. RespInv => ResponsesReleased
  BY DEF RespInv, ResponsesReleased, Active, Live
<1> QED
  BY <1>1, RespHolds, PTL

-----------------------------------------------------------------------------
(* Depend.                                                                 *)

\* Node i is the only one of its batch; the parts of the batches before it.
Alone(q, i) == \A j \in Index(q) : Batch(Nodes(q)[j]) = Batch(Nodes(q)[i]) => j = i
Earlier(q, i) ==
    {j \in Index(q) : Batch(Nodes(q)[j]) < Batch(Nodes(q)[i]) /\ HasPart(req[q].dns[j])}

\* A set of indices is not a torn slice.
LEMMA NotTorn ==
    ASSUME FlowTypes, NEW q \in Request, Index(q) # {}, NEW S \in SUBSET Index(q)
    PROVE  S # Torn
<1>1. req[q].api \in Api[q] \cup {NoApi}
  BY DEF FlowTypes, ReqTypes
<1>2. req[q].api # NoApi
  <2>1. SUFFICES ASSUME req[q].api = NoApi PROVE FALSE
    OBVIOUS
  <2>2. Nodes(q) = <<>>
    BY <2>1 DEF Nodes, NoApi
  <2>3. Index(q) = {}
    BY <2>2 DEF Index
  <2> QED
    BY <2>3
<1>3. \A a \in Api[q] : \A T \in SUBSET DOMAIN a.nodes : T # Torn
  BY RequestFlowAssumption
<1> QED
  BY <1>1, <1>2, <1>3 DEF Index, Nodes

\* The nodes of the batches before that of a prepared node are completed.
LEMMA EarlierClosed ==
    ASSUME CoreInv, BatchInv, NEW q \in Request, Live(q), NEW i \in Index(q),
           i <= Prepared(q), NEW j \in Index(q), Batch(Nodes(q)[j]) < Batch(Nodes(q)[i])
    PROVE  j < i /\ req[q].dns[j] \notin Open
<1>1. FlowTypes /\ OwnInv /\ OpenInv
  BY DEF CoreInv
<1>2. /\ Len(Nodes(q)) \in Nat /\ Index(q) = 1..Len(Nodes(q))
      /\ \A k \in Index(q) : Nodes(q)[k] \in Node
      /\ \A k, l \in Index(q) : k <= l => Batch(Nodes(q)[k]) <= Batch(Nodes(q)[l])
  BY <1>1, NodesFacts
<1>3. \A k \in Index(q) : Batch(Nodes(q)[k]) \in Nat
  BY <1>2 DEF Node, Batch
<1>4. j < i
  BY <1>2, <1>3
<1>5. ASSUME req[q].dns[j] \in Open PROVE FALSE
  <2>1. dn[req[q].dns[j]].q = q /\ dn[req[q].dns[j]].idx = j
    BY <1>1 DEF OwnInv
  <2>2. Active(q)
    BY <1>1, <1>5, <2>1 DEF OpenInv, Active
  <2>3. Multi(q)
    BY <1>2, <1>4 DEF Multi
  <2>4. BatchOf(q)
    BY <2>2, <2>3 DEF BatchInv
  <2>5. Prepared(q) \in Index(q)
    <3>1. req[q].idx \in 1..(Len(Nodes(q)) + 1) /\ (With(q) => req[q].idx \in Index(q))
      BY <1>1 DEF OwnInv
    <3>2. CASE With(q)
      BY <3>1, <3>2 DEF Prepared
    <3>3. CASE ~With(q)
      BY <1>2, <3>1, <3>3 DEF Prepared
    <3> QED
      BY <3>2, <3>3
  <2>6. Batch(Nodes(q)[j]) = Batch(Nodes(q)[Prepared(q)])
    BY <1>2, <1>5, <2>1, <2>4, <2>5 DEF BatchOf
  <2>7. Batch(Nodes(q)[i]) <= Batch(Nodes(q)[Prepared(q)])
    BY <1>2, <2>5
  <2> QED
    BY <1>3, <2>5, <2>6, <2>7
<1> QED
  BY <1>4, <1>5

\* So what a prepared node has to see does not change any more.
LEMMA EarlierStays ==
    ASSUME CoreInv, BatchInv, [Next]_vars, NEW r \in Request, Live(r), NEW i \in Index(r),
           i <= Prepared(r), Stays(r) \/ Renders(r) \/ \E g : Prepares(r, g)
    PROVE  /\ Nodes(r)' = Nodes(r) /\ Index(r)' = Index(r)
           /\ Earlier(r, i)' = Earlier(r, i)
           /\ Alone(r, i)' <=> Alone(r, i)
<1>1. FlowTypes /\ OwnInv /\ PlacesInv
  BY DEF CoreInv
<1>2. req'[r].api = req[r].api /\ req'[r].dns = req[r].dns
  BY DEF Stays, Renders, Moves, Prepares, Turns
<1>3. Nodes(r)' = Nodes(r) /\ Index(r)' = Index(r)
  BY <1>2 DEF Nodes, Index
<1>4. ASSUME NEW j \in Index(r), Batch(Nodes(r)[j]) < Batch(Nodes(r)[i])
      PROVE  HasPart(req[r].dns[j])' <=> HasPart(req[r].dns[j])
  <2>1. j < i /\ req[r].dns[j] \notin Open
    BY <1>4, EarlierClosed
  <2>2. PICK o \in Object : o = req[r].dns[j] /\ dn[o].q = r /\ dn[o].idx = j /\ o \notin Open
    BY <1>1, <2>1 DEF OwnInv
  <2>3. dn'[o] = dn[o]
    <3>1. CASE Stays(r)
      BY <2>2, <3>1 DEF Stays
    <3>2. CASE Renders(r)
      BY <3>2 DEF Renders
    <3>3. ASSUME NEW g, Prepares(r, g) PROVE dn'[o] = dn[o]
      <4>1. dn[Current(r)].idx = req[r].idx /\ \A p \in Object : p # Current(r) => dn'[p] = dn[p]
        BY <1>1, <3>3, PrepareOpens
      <4>2. Prepared(r) = req[r].idx - 1 /\ req[r].idx \in Nat
        BY <1>1, <3>3 DEF Prepares, Prepared, With, Held, FlowTypes, Req
      <4>3. Index(r) \subseteq Nat
        BY <1>1, NodesFacts
      <4>4. j # req[r].idx
        BY <2>1, <4>2, <4>3
      <4> QED
        BY <2>2, <4>1, <4>4
    <3> QED
      BY <3>1, <3>2, <3>3
  <2>4. NodeOf(o)' = NodeOf(o)
    BY <1>3, <2>2, <2>3 DEF NodeOf
  <2>5. HasPart(o)' <=> HasPart(o)
    BY <2>3, <2>4 DEF HasPart
  <2>6. HasPart(req[r].dns[j])' <=> HasPart(o)'
    BY <1>2, <2>2
  <2> QED
    BY <2>2, <2>5, <2>6
<1>5. Earlier(r, i)' = Earlier(r, i)
  BY <1>2, <1>3, <1>4 DEF Earlier
<1>6. Alone(r, i)' <=> Alone(r, i)
  BY <1>3 DEF Alone
<1> QED
  BY <1>3, <1>5, <1>6

\* Depend of a request, while i is the last node that it prepared: it has the parts of
\* the earlier batches, is torn only beside another node of the batch, and is what the
\* aggregate is while i runs alone.
DependAt(q, i) ==
    /\ depend[q] = Torn => ~Alone(q, i)
    /\ depend[q] # Torn => Earlier(q, i) \subseteq depend[q]
    /\ Alone(q, i) /\ req[q].dns[i] \in Open => depend[q] = data[q]

DependInv ==
    \A q \in Request :
        /\ ~(Live(q) /\ Multi(q)) => depend[q] = {}
        /\ Active(q) /\ Multi(q) => \A i \in Index(q) : i = Prepared(q) => DependAt(q, i)

\* The open nodes of a request are of the batch of the last node that it prepared.
LEMMA OpenBatch ==
    ASSUME CoreInv, BatchInv, [Next]_vars, NEW o \in Open, NEW r \in Request, dn[o].q = r,
           Multi(r)
    PROVE  /\ Active(r) /\ Live(r) /\ Prepared(r) \in Index(r) /\ dn[o].idx \in Index(r)
           /\ req[r].dns[dn[o].idx] = o /\ dn[o].idx <= Prepared(r)
           /\ Batch(Nodes(r)[dn[o].idx]) = Batch(Nodes(r)[Prepared(r)])
<1>1. FlowTypes /\ OwnInv /\ PlacesInv
  BY DEF CoreInv
<1>2. /\ Active(r) /\ Live(r) /\ dn[o].idx <= Prepared(r) /\ dn[o].idx \in Index(r)
      /\ req[r].dns[dn[o].idx] = o
  BY <1>1, OpenNode, WithOpen
<1>3. Len(Nodes(r)) \in Nat /\ Index(r) = 1..Len(Nodes(r))
  BY <1>1, NodesFacts
<1>4. Prepared(r) \in Index(r)
  <2>1. req[r].idx \in 1..(Len(Nodes(r)) + 1) /\ (With(r) => req[r].idx \in Index(r))
    BY <1>1, <1>2 DEF OwnInv
  <2> QED
    BY <1>2, <1>3, <2>1 DEF Prepared
<1>5. BatchOf(r)
  BY <1>2 DEF BatchInv
<1> QED
  BY <1>2, <1>3, <1>4, <1>5 DEF BatchOf

\* Preparing a node assigns Depend.
LEMMA PreparedDepend ==
    ASSUME CoreInv, BatchInv, LockInv, PartsInv, [Next]_vars, NEW r \in Request, NEW g,
           Prepares(r, g), Multi(r), NEW i, i = req[r].idx
    PROVE  DependAt(r, i)'
<1>1. FlowTypes /\ OwnInv /\ PlacesInv
  BY DEF CoreInv
<1>2. /\ i \in Index(r) /\ Live(r) /\ Prepared(r) = i - 1 /\ data' = data
      /\ req'[r].api = req[r].api /\ req'[r].dns = req[r].dns
  BY <1>1, PrepareOpens DEF Prepares, Turns, Prepared, With, Held
<1>3. /\ Len(Nodes(r)) \in Nat /\ Index(r) = 1..Len(Nodes(r))
      /\ \A k \in Index(r) : Nodes(r)[k] \in Node
      /\ \A k, l \in Index(r) : k <= l => Batch(Nodes(r)[k]) <= Batch(Nodes(r)[l])
      /\ Nodes(r)' = Nodes(r) /\ Index(r)' = Index(r)
  BY <1>1, <1>2, NodesFacts DEF Nodes, Index
<1>4. \A k \in Index(r) : Batch(Nodes(r)[k]) \in Nat
  BY <1>3 DEF Node, Batch
<1>5. \A o \in Open : dn[o].q = r => Batch(Nodes(r)[dn[o].idx]) = Batch(Nodes(r)[i])
  BY PreparedBatch
<1>6. \/ depend'[r] = data[r]
      \/ depend'[r] = Torn /\ Adding(r) # {}
  BY <1>1 DEF Prepares, AssignDepend, FlowTypes
<1>7. ASSUME Adding(r) # {} PROVE ~Alone(r, i)'
  <2>1. PICK e \in Executor : Writing(e) /\ ex[e].q = r
    BY <1>7 DEF Adding, Writing
  <2>2. PICK o \in Open : o = ex[e].o /\ dn[o].q = r
    BY <2>1, ExecutedOpen DEF Writing, Busy
  <2>3. /\ dn[o].idx \in Index(r) /\ dn[o].idx <= Prepared(r)
    BY <2>2, OpenBatch
  <2>4. dn[o].idx # i
    BY <1>2, <1>3, <2>3
  <2> QED
    BY <1>2, <1>3, <1>5, <2>2, <2>3, <2>4 DEF Alone
<1>8. data[r] = PartsOf(r)
  BY <1>2 DEF PartsInv
<1>9. data[r] # Torn
  <2>1. PartsOf(r) \in SUBSET Index(r)
    BY DEF PartsOf
  <2> QED
    BY <1>1, <1>2, <1>8, <2>1, NotTorn
<1>10. Earlier(r, i)' \subseteq data[r]
  <2>1. SUFFICES ASSUME NEW j \in Index(r), Batch(Nodes(r)[j]) < Batch(Nodes(r)[i]),
                        HasPart(req[r].dns[j])'
                 PROVE  j \in PartsOf(r)
    BY <1>2, <1>3, <1>8 DEF Earlier
  <2>2. j < i
    BY <1>2, <1>3, <1>4, <2>1
  <2>3. PICK o \in Object : o = req[r].dns[j] /\ dn[o].q = r /\ dn[o].idx = j
    BY <1>1, <1>2 DEF OwnInv
  <2>4. o \notin Open
    BY <1>2, <1>4, <1>5, <2>1, <2>3
  <2>5. /\ dn[Current(r)].idx = i
        /\ \A p \in Object : p # Current(r) => dn'[p] = dn[p]
    BY <1>1, PrepareOpens
  <2>6. dn'[o] = dn[o]
    BY <1>2, <1>3, <2>2, <2>3, <2>5
  <2>7. NodeOf(o)' = NodeOf(o)
    BY <1>3, <2>3, <2>6 DEF NodeOf
  <2>8. HasPart(o)'
    BY <1>2, <2>1, <2>3
  <2>9. HasPart(o)
    BY <2>6, <2>7, <2>8 DEF HasPart
  <2>10. j <= Prepared(r)
    BY <1>2, <1>3, <2>2
  <2> QED
    BY <2>3, <2>4, <2>9, <2>10 DEF PartsOf
<1> QED
  BY <1>2, <1>6, <1>7, <1>9, <1>10 DEF DependAt

LEMMA NextDepend ==
    ASSUME CoreInv, BatchInv, LockInv, PartsInv, DependInv, [Next]_vars PROVE DependInv'
<1> SUFFICES ASSUME NEW r \in Request
             PROVE  /\ ~(Live(r)' /\ Multi(r)') => depend'[r] = {}
                    /\ Active(r)' /\ Multi(r)' =>
                          \A i \in Index(r)' : i = Prepared(r)' => DependAt(r, i)'
  BY DEF DependInv
<1>1. FlowTypes /\ OwnInv /\ PlacesInv
  BY DEF CoreInv
<1>2. ~(Live(r) /\ Multi(r)) => depend[r] = {}
  BY DEF DependInv
<1>3. ASSUME Stays(r),
             \/ SameOpen(r) /\ data'[r] = data[r]
             \/ \E e \in Executor, o \in Object : Ends(e, o) /\ dn[o].q = r
      PROVE  /\ ~(Live(r)' /\ Multi(r)') => depend'[r] = {}
             /\ Active(r)' /\ Multi(r)' =>
                   \A i \in Index(r)' : i = Prepared(r)' => DependAt(r, i)'
  <2>1. /\ Live(r)' <=> Live(r)
        /\ Active(r)' <=> Active(r)
        /\ Multi(r)' <=> Multi(r)
        /\ Index(r)' = Index(r) /\ Prepared(r)' = Prepared(r) /\ depend'[r] = depend[r]
        /\ req'[r].dns = req[r].dns
    BY <1>3 DEF Stays, Multi, Index, Nodes
  <2>2. ASSUME Active(r), Multi(r), NEW i \in Index(r), i = Prepared(r) PROVE DependAt(r, i)'
    <3>1. DependAt(r, i) /\ Live(r) /\ i <= Prepared(r)
      BY <1>1, <2>2, NodesFacts DEF DependInv, Active
    <3>2. /\ Earlier(r, i)' = Earlier(r, i)
          /\ Alone(r, i)' <=> Alone(r, i)
      BY <1>3, <3>1, EarlierStays
    <3>3. ASSUME Alone(r, i), req[r].dns[i] \in Open' PROVE depend[r] = data'[r]
      <4>1. PICK o \in Object : o = req[r].dns[i] /\ dn[o].q = r
        BY <1>1, <3>1 DEF OwnInv
      <4>2. CASE SameOpen(r) /\ data'[r] = data[r]
        BY <3>1, <3>3, <4>1, <4>2 DEF SameOpen, DependAt
      <4>3. ASSUME NEW e \in Executor, NEW p \in Object, Ends(e, p), dn[p].q = r PROVE FALSE
        <5>1. p \in Open /\ Open' = Open \ {p}
          BY <1>1, <4>3, EndCloses
        <5>2. /\ dn[p].idx \in Index(r) /\ req[r].dns[dn[p].idx] = p
              /\ Batch(Nodes(r)[dn[p].idx]) = Batch(Nodes(r)[i])
          BY <2>2, <4>3, <5>1, OpenBatch
        <5>3. dn[p].idx = i
          BY <3>3, <5>2 DEF Alone
        <5> QED
          BY <3>3, <5>1, <5>2, <5>3
      <4> QED
        BY <1>3, <4>2, <4>3
    <3> QED
      BY <2>1, <3>1, <3>2, <3>3 DEF DependAt
  <2> QED
    BY <1>2, <2>1, <2>2
<1>4. CASE Refused(r)
  BY <1>2, <1>4 DEF Refused, Live, Active
<1>5. CASE Finishes(r)
  BY <1>1, <1>5 DEF Finishes, Live, Active, FlowTypes
<1>6. CASE Renders(r)
  <2>1. ~Active(r)' /\ depend' = depend /\ Live(r)' /\ Live(r) /\ req'[r].api = req[r].api
    BY <1>6 DEF Renders, Moves, Turns, Active, Live
  <2>2. Multi(r)' <=> Multi(r)
    BY <2>1 DEF Multi, Nodes
  <2> QED
    BY <1>2, <2>1, <2>2
<1>7. ASSUME NEW a \in Api[r], NEW objs, NEW g, Accepted(r, a, objs, g)
      PROVE  /\ ~(Live(r)' /\ Multi(r)') => depend'[r] = {}
             /\ Active(r)' /\ Multi(r)' =>
                   \A i \in Index(r)' : i = Prepared(r)' => DependAt(r, i)'
  <2>1. ~Live(r) /\ depend' = depend /\ Prepared(r)' = 0 /\ req'[r].api = a
    BY <1>7 DEF Accepted, Live, Prepared, With, Held
  <2>2. Index(r)' = 1..Len(a.nodes) /\ Len(a.nodes) \in Nat
    BY <2>1, ApiFacts DEF Index, Nodes
  <2>3. 0 \notin Index(r)'
    BY <2>2
  <2> QED
    BY <1>2, <2>1, <2>3
<1>8. ASSUME NEW g, Prepares(r, g)
      PROVE  /\ ~(Live(r)' /\ Multi(r)') => depend'[r] = {}
             /\ Active(r)' /\ Multi(r)' =>
                   \A i \in Index(r)' : i = Prepared(r)' => DependAt(r, i)'
  <2>1. /\ Live(r)' /\ Live(r) /\ req'[r].api = req[r].api /\ Prepared(r)' = req[r].idx
        /\ AssignDepend(r)
    BY <1>8 DEF Prepares, Turns, Live, Prepared, With, Held
  <2>2. Multi(r)' <=> Multi(r)
    BY <2>1 DEF Multi, Nodes
  <2>3. ~Multi(r) => depend' = depend
    BY <2>1 DEF AssignDepend
  <2>4. ASSUME Multi(r), NEW i, i = req[r].idx PROVE DependAt(r, i)'
    BY <1>8, <2>4, PreparedDepend
  <2> QED
    BY <1>2, <2>1, <2>2, <2>3, <2>4
<1> QED
  BY Steady, <1>3, <1>4, <1>5, <1>6, <1>7, <1>8

\* Depend is read by an execution that starts.
LEMMA SeenSteps ==
    ASSUME CoreInv, [Next]_vars, NEW o \in Object, NEW r \in Request, dn[o].q = r,
           dn'[o].q = r
    PROVE  \/ dn'[o].seen = dn[o].seen
           \/ \E e \in Executor : /\ Busy(e) /\ ex[e].o = o /\ ex[e].pc = "start"
                                  /\ NodeOf(o).rewrite => dn'[o].seen \in Depends(r)
<1>1. FlowTypes /\ OwnInv /\ PlacesInv
  BY DEF CoreInv
<1> DEFINE Blind == dn'[o].seen = dn[o].seen
           Sees == \E e \in Executor : /\ Busy(e) /\ ex[e].o = o /\ ex[e].pc = "start"
                                       /\ NodeOf(o).rewrite => dn'[o].seen \in Depends(r)
<1>2. dn' = dn => Blind
  OBVIOUS
<1>3. ASSUME NEW q \in Request, Finishes(q) PROVE Blind
  BY <1>3, NotRequest, ConstantTypes DEF Finishes
<1>4. ASSUME NEW q \in Request, NEW a, NEW objs, NEW g, Accepted(q, a, objs, g) PROVE Blind
  <2>1. \A i \in 1..Len(a.nodes) : objs[i] # o
    BY <1>4, NotRequest DEF Accepted
  <2> QED
    BY <1>4, <2>1 DEF Accepted
<1>5. ASSUME NEW q \in Request, NEW g, Prepares(q, g) PROVE Blind
  BY <1>5 DEF Prepares, Changes, DnOthers
<1>6. ASSUME NEW e \in Executor, NEW p \in Object, Goes(e, p) PROVE Blind \/ Sees
  <2>1. Busy(e) /\ p = ex[e].o /\ (p # o => dn'[o] = dn[o]) /\ Reads(e, p)
    BY <1>6 DEF Goes, Works, Changes, DnOthers
  <2> QED
    BY <2>1 DEF Reads
<1>7. ASSUME NEW q \in Request,
             \/ Refused(q) \/ Copies(q) \/ Hands(q) \/ Runs(q) \/ Puts(q) \/ Returns(q)
             \/ Renders(q)
      PROVE  dn' = dn
  BY <1>7 DEF Refused, Copies, Hands, Runs, Puts, Returns, Renders
<1>8. ASSUME Rests \/ (\E w \in Worker : Takes(w) \/ Exits(w)) PROVE dn' = dn
  BY <1>8 DEF Rests, Takes, Exits
<1>9. ASSUME NEW e \in Executor, NEW p \in Object, Ends(e, p) PROVE dn' = dn
  BY <1>9 DEF Ends, Completes
<1> HIDE DEF Blind, Sees
<1>10. Blind \/ Sees
  BY <1>1, StepCases, <1>2, <1>3, <1>4, <1>5, <1>6, <1>7, <1>8, <1>9
<1> QED
  BY <1>10 DEF Blind, Sees

\* What node i of q may have seen, when it is rewritten.
Sound(q, i, seen) == IF seen = Torn THEN ~Alone(q, i) ELSE Earlier(q, i) \subseteq seen

\* What an execution that starts may read is sound.
LEMMA ReadSound ==
    ASSUME CoreInv, BatchInv, LockInv, PartsInv, DependInv, [Next]_vars, NEW e \in Executor,
           Busy(e), ex[e].pc = "start", NEW o, ex[e].o = o, NEW r, dn[o].q = r, NEW i,
           dn[o].idx = i, NEW seen \in Depends(r)
    PROVE  Sound(r, i, seen)
<1>1. FlowTypes /\ OwnInv /\ PlacesInv
  BY DEF CoreInv
<1>2. o \in Open /\ r \in Request /\ Active(r) /\ Live(r) /\ i \in Index(r)
  BY <1>1, ExecutedOpen, OpenNode DEF Active
<1>3. /\ Len(Nodes(r)) \in Nat /\ Index(r) = 1..Len(Nodes(r))
      /\ \A k \in Index(r) : Batch(Nodes(r)[k]) \in Nat
  BY <1>1, <1>2, NodesFacts DEF Node, Batch
<1>4. CASE ~Multi(r)
  <2>1. depend[r] = {} /\ data[r] = {}
    BY <1>2, <1>4 DEF DependInv, PartsInv
  <2>2. Adding(r) = {}
    BY <1>4 DEF Adding, LockInv, LockOf, Writing
  <2>3. seen = {}
    BY <2>1, <2>2 DEF Depends
  <2>4. {} # Torn
    BY <1>1, <1>2, NotTorn
  <2>5. Earlier(r, i) = {}
    BY <1>2, <1>3, <1>4 DEF Earlier, Multi
  <2> QED
    BY <2>3, <2>4, <2>5 DEF Sound
<1>5. CASE Multi(r)
  <2>1. PICK k \in Index(r) : k = Prepared(r) /\ Batch(Nodes(r)[i]) = Batch(Nodes(r)[k])
    BY <1>2, <1>5, OpenBatch
  <2>2. DependAt(r, k)
    BY <1>2, <1>5, <2>1 DEF DependInv
  <2>3. Earlier(r, i) = Earlier(r, k)
    BY <2>1 DEF Earlier
  <2>4. Alone(r, i) => k = i
    BY <2>1 DEF Alone
  <2>5. CASE seen = Torn
    <3>1. SUFFICES ASSUME Alone(r, i) PROVE FALSE
      BY <2>5 DEF Sound
    <3>2. k = i /\ req[r].dns[k] = o
      BY <1>2, <1>5, <2>4, <3>1, OpenBatch
    <3>3. depend[r] # Torn /\ depend[r] = data[r]
      BY <1>2, <2>2, <3>1, <3>2 DEF DependAt
    <3>4. Adding(r) # {}
      BY <2>5, <3>3 DEF Depends
    <3>5. PICK f \in Executor : Writing(f) /\ ex[f].q = r
      BY <3>4 DEF Adding, Writing
    <3>6. PICK p \in Open : p = ex[f].o /\ dn[p].q = r /\ Busy(f)
      BY <3>5, ExecutedOpen DEF Writing, Busy
    <3>7. dn[p].idx \in Index(r) /\ req[r].dns[dn[p].idx] = p
          /\ Batch(Nodes(r)[dn[p].idx]) = Batch(Nodes(r)[k])
      BY <1>2, <1>5, <2>1, <3>6, OpenBatch
    <3>8. dn[p].idx = i
      BY <2>1, <3>1, <3>7 DEF Alone
    <3>9. p = o
      BY <3>2, <3>7, <3>8
    <3>10. f = e
      BY <1>1, <3>6, <3>9, OnlyExecuted
    <3> QED
      BY <3>5, <3>10 DEF Writing
  <2>6. CASE seen # Torn
    <3>1. seen = depend[r]
      BY <2>6 DEF Depends
    <3> QED
      BY <2>2, <2>3, <2>6, <3>1 DEF Sound, DependAt
  <2> QED
    BY <2>5, <2>6
<1> QED
  BY <1>4, <1>5

SeenInv ==
    \A o \in Object, q \in Request : \A i \in Index(q) :
        /\ dn[o].q = q /\ dn[o].idx = i
        /\ Nodes(q)[i].rewrite /\ dn[o].seen # Unread
        => Sound(q, i, dn[o].seen)

LEMMA NextSeen ==
    ASSUME CoreInv, BatchInv, LockInv, PartsInv, DependInv, FreshInv, SeenInv, [Next]_vars
    PROVE  SeenInv'
<1> SUFFICES ASSUME NEW o \in Object, NEW r \in Request, NEW i \in Index(r)', NEW s,
                    dn'[o].q = r, dn'[o].idx = i, Nodes(r)'[i].rewrite, s = dn'[o].seen,
                    s # Unread
             PROVE  Sound(r, i, s)'
  BY DEF SeenInv
<1>1. FlowTypes /\ OwnInv /\ PlacesInv /\ OwnInv'
  BY CoreStep DEF CoreInv
<1>2. Live(r)' /\ r # NoRequest
  <2>1. Live(dn[o].q)'
    BY <1>1, NotRequest DEF OwnInv
  <2> QED
    BY <2>1, NotRequest
<1>3. ASSUME Stays(r) \/ Renders(r) \/ \E g : Prepares(r, g), dn[o].q = r, dn[o].idx = i
      PROVE  Sound(r, i, s)'
  <2>1. Live(r) /\ i \in Index(r) /\ NodeOf(o) = Nodes(r)[i] /\ i \in Nat /\ Prepared(r) \in Int
    BY <1>1, <1>2, <1>3, NodesFacts, PreparedType DEF OwnInv, NodeOf
  <2>2. ASSUME i <= Prepared(r), Sound(r, i, s) PROVE Sound(r, i, s)'
    <3>1. /\ Earlier(r, i)' = Earlier(r, i)
          /\ Alone(r, i)' <=> Alone(r, i)
      BY <1>3, <2>1, <2>2, EarlierStays
    <3> QED
      BY <2>2, <3>1 DEF Sound
  <2>3. Nodes(r)' = Nodes(r)
    <3>1. req'[r].api = req[r].api
      BY <1>3 DEF Stays, Renders, Moves, Prepares, Turns
    <3> QED
      BY <3>1 DEF Nodes
  <2>4. CASE s = dn[o].seen
    <3>1. i <= Prepared(r)
      BY <1>2, <1>3, <2>1, <2>4 DEF FreshInv
    <3>2. Sound(r, i, s)
      BY <1>3, <2>1, <2>3, <2>4 DEF SeenInv
    <3> QED
      BY <2>2, <3>1, <3>2
  <2>5. CASE s # dn[o].seen
    <3>1. PICK e \in Executor : /\ Busy(e) /\ ex[e].o = o /\ ex[e].pc = "start"
                                /\ NodeOf(o).rewrite => s \in Depends(r)
      BY <1>3, <2>5, SeenSteps
    <3>2. s \in Depends(r)
      BY <2>1, <2>3, <3>1
    <3>3. Sound(r, i, s)
      BY <1>3, <3>1, <3>2, ReadSound
    <3>4. i <= Prepared(r)
      BY <1>3, <3>1, ExecutedOpen, WithOpen
    <3> QED
      BY <2>2, <3>3, <3>4
  <2> QED
    BY <2>4, <2>5
<1>4. CASE Stays(r)
  BY <1>3, <1>4 DEF Stays
<1>5. CASE Renders(r)
  BY <1>3, <1>5 DEF Renders
<1>6. ASSUME NEW g, Prepares(r, g) PROVE Sound(r, i, s)'
  BY <1>1, <1>3, <1>6, PrepareOpens
<1>7. ~Refused(r) /\ ~Finishes(r)
  BY <1>2 DEF Refused, Finishes, Live
<1>8. ASSUME NEW a \in Api[r], NEW objs, NEW g, Accepted(r, a, objs, g) PROVE FALSE
  <2>1. CASE \E k \in 1..Len(a.nodes) : objs[k] = o
    BY <1>8, <2>1 DEF Accepted
  <2>2. CASE \A k \in 1..Len(a.nodes) : objs[k] # o
    <3>1. dn'[o] = dn[o]
      BY <1>8, <2>2 DEF Accepted
    <3>2. Live(r)
      BY <1>1, <1>2, <3>1 DEF OwnInv
    <3> QED
      BY <1>8, <3>2 DEF Accepted, Live
  <2> QED
    BY <2>1, <2>2
<1> QED
  BY Steady, <1>4, <1>5, <1>6, <1>7, <1>8

LEMMA DependHolds == Spec => [](DependInv /\ SeenInv)
<1>1. Init => DependInv /\ SeenInv
  <2> SUFFICES ASSUME Init PROVE DependInv /\ SeenInv
    OBVIOUS
  <2>1. DependInv
    BY ConstantTypes DEF Init, DependInv, Active, Live
  <2>2. SeenInv
    BY ConstantTypes DEF Init, SeenInv
  <2> QED
    BY <2>1, <2>2
<1>2. /\ CoreInv /\ BatchInv /\ (LockInv /\ PartsInv) /\ (FreshInv /\ RespInv)
      /\ (DependInv /\ SeenInv) /\ [Next]_vars
      => (DependInv /\ SeenInv)'
  BY NextDepend, NextSeen
<1> QED
  BY <1>1, <1>2, CoreHolds, BatchHolds, PartsHold, RespHolds, PTL DEF Spec

\* DependComplete, for any requests, workers and APIs: a node that is rewritten has seen
\* the parts of all earlier batches, or a torn Depend, which only a batch of several
\* nodes can show it.
THEOREM DependIsComplete == Spec => []DependComplete
<1>1. CoreInv /\ (DependInv /\ SeenInv) => DependComplete
  <2> SUFFICES ASSUME CoreInv, SeenInv, NEW o \in Object, dn[o].q # NoRequest,
                      NodeOf(o).rewrite, dn[o].seen # Unread, NEW q, q = dn[o].q, NEW i,
                      i = dn[o].idx
               PROVE  IF dn[o].seen = Torn
                      THEN \E j \in Index(q) \ {i} : Batch(Nodes(q)[j]) = Batch(Nodes(q)[i])
                      ELSE \A j \in Index(q) :
                             Batch(Nodes(q)[j]) < Batch(Nodes(q)[i]) /\ HasPart(req[q].dns[j])
                               => j \in dn[o].seen
    BY DEF DependComplete
  <2>1. q \in Request /\ i \in Index(q) /\ Nodes(q)[i].rewrite
    BY DEF CoreInv, FlowTypes, Dn, OwnInv, NodeOf
  <2>2. Sound(q, i, dn[o].seen)
    BY <2>1 DEF SeenInv
  <2> QED
    BY <2>2 DEF Sound, Alone, Earlier
<1> QED
  BY <1>1, CoreHolds, DependHolds, PTL

=============================================================================
