------------------------------ MODULE RequestFlow ------------------------------
(***************************************************************************)
(* The way of a request through the proxy: ServeFastHTTP dispatches the    *)
(* nodes of the API it matches in batches, to workers over bounded         *)
(* channels or, when one node is left, by itself; doProxy forwards a node, *)
(* retries it on servers selected anew and completes its part of the       *)
(* aggregate; a WaitGroup holds the next batch and the rendering back.     *)
(* Nodes, wait groups and aggregates come from pools that all requests     *)
(* share.                                                                  *)
(*                                                                         *)
(* What servers, filters and the tables of the dispatcher answer is        *)
(* nondeterministic.  The aggregate is the set of the nodes whose parts it *)
(* holds.  Depend is a slice that is read and written without a lock: what *)
(* is read beside a write of it, or of the array it points to, may be Torn.*)
(***************************************************************************)
EXTENDS Integers, Sequences, FiniteSets

CONSTANTS
    Request,         \* connections, each with one request
    NoRequest,       \* owner of a pooled object
    Worker,          \* dispatch workers: 1..LimitCountDispatchWorker
    Api,             \* the APIs that a request may match: their nodes in order of
                     \* batchIndex, and a default value or not
    Object,          \* bound: dispatchNodes in the pool or in use
    Group,           \* bound: wait groups in the pool or in use; 0 is nil
    Torn,            \* a slice with the address of one value and the length of another
    Unread,          \* Depend of a node that has not read it
    MaxTimes,        \* of every retry strategy
    DispatchCap,     \* bound: nodes in the channel of a worker (1024)
    CopyCap          \* bound: copies in the channel of the copy worker (1024)

\* What may happen to a node: its cluster has no server, its URL or a pre filter
\* refuses it, a filter has the response, its server answers below 400, above, or not
\* at all, a post filter fails.  (Bound: each node meets a few of them.)
Event == {"noServer", "refused", "hit", "ok", "bad", "error", "postFailed"}
Strategy == {"none", "all", "codes"}      \* RetryStrategy: nil, no codes, codes
\* batch is BatchIndex, an int32 of either sign that nothing validates.
Node == [batch: Int, useDefault: BOOLEAN, def: BOOLEAN, rewrite: BOOLEAN,
         attr: BOOLEAN, copy: BOOLEAN, retry: Strategy, may: SUBSET Event]

ASSUME RequestFlowAssumption ==
    /\ NoRequest \notin Request
    /\ IsFiniteSet(Worker) /\ Worker # {} /\ Worker = 1..Cardinality(Worker)
    /\ Worker \cap Request = {}
    /\ Object \subseteq Nat /\ Group \subseteq Nat \ {0}
    /\ MaxTimes \in Nat \ {0}
    /\ DispatchCap \in Nat \ {0} /\ CopyCap \in Nat \ {0}
    /\ Torn # Unread
    /\ \A q \in Request : \A a \in Api[q] :
         /\ a.def \in BOOLEAN
         /\ a.nodes \in Seq(Node)
         /\ \A S \in SUBSET DOMAIN a.nodes : S # Torn /\ S # Unread
         /\ \A i \in DOMAIN a.nodes :
              /\ a.nodes[i].useDefault => a.nodes[i].def
              \* apiRuntime.init sorts the nodes (by the sign of an int32 difference:
              \* indexes are less than 2^31 apart)
              /\ \A j \in DOMAIN a.nodes : i <= j => a.nodes[i].batch <= a.nodes[j].batch

VARIABLES
    stopped,         \* p.stopped
    req,             \* the goroutines of ServeFastHTTP
    dn,              \* dispatchNodes
    ex,              \* executions of doProxy, by workers and by requests
    queue,           \* p.dispatches
    dispatchIndex,   \* p.dispatchIndex, modulo the number of workers
    copies,          \* copies waiting in the channel of the copy worker
    wg, wgFree,      \* counters of the wait groups; those in the pool
    data, mutex,     \* of the multiContext of a request: its parts; its lock
    depend,          \* exprCtx.Depend of a request
    resp             \* responses acquired for a request and not released; those that
                     \* copies acquired are NoRequest's

vars == <<stopped, req, dn, ex, queue, dispatchIndex, copies, wg, wgFree, data, mutex,
          depend, resp>>

Executor == Worker \cup Request
FreeDn == [q |-> NoRequest, idx |-> 0, dest |-> FALSE, copyTo |-> FALSE,
           err |-> FALSE, res |-> "none", wg |-> 0, seen |-> Unread]
NoReq == [pc |-> "idle", api |-> [nodes |-> <<>>, def |-> FALSE], dns |-> <<>>, idx |-> 0,
          last |-> 0, wg |-> 0, to |-> 0, answer |-> "none"]
IdleEx == [pc |-> "idle", o |-> 0, q |-> NoRequest, times |-> 0, old |-> {}]

Nodes(q) == req[q].api.nodes
NodeOf(o) == Nodes(dn[o].q)[dn[o].idx]
Multi(q) == Len(Nodes(q)) > 1
Index(q) == DOMAIN Nodes(q)

Init ==
    /\ stopped = FALSE
    /\ req = [q \in Request |-> NoReq]
    /\ dn = [o \in Object |-> FreeDn]
    /\ ex = [e \in Executor |-> IdleEx]
    /\ queue = [w \in Worker |-> <<>>]
    /\ dispatchIndex = 1
    /\ copies = 0
    /\ wg = [g \in Group |-> 0]
    /\ wgFree = Group
    /\ data = [q \in Request |-> {}]
    /\ mutex = [q \in Request |-> FALSE]
    /\ depend = [q \in Request |-> {}]
    /\ resp = [q \in Request \cup {NoRequest} |-> 0]

-----------------------------------------------------------------------------
(* ServeFastHTTP.                                                          *)

\* The pools: any free object may be handed out, so take the first ones.  A pool makes
\* new ones when it has none left; here a request waits for them.
FirstFree(S, n) ==
    {s \in [1..n -> S] :
        \A i \in 1..n : \A x \in S : x < s[i] <=> \E j \in 1..(i - 1) : s[j] = x}

AcquireGroup == {g \in wgFree : \A h \in wgFree : g <= h}

\* dispatch: a node for each of the nodes of the API, and a server for each node, as far
\* as the tables have one at that moment.
Accept(q, a, objs, g) ==
    /\ objs # <<>> \/ a.def
    /\ \E dest \in [DOMAIN objs -> BOOLEAN] :
         /\ \A i \in DOMAIN objs : dest[i] \/ "noServer" \in a.nodes[i].may
         /\ dn' = [o \in Object |->
              IF \E i \in DOMAIN objs : objs[i] = o
              THEN LET i == CHOOSE i \in DOMAIN objs : objs[i] = o
                   IN [FreeDn EXCEPT !.q = q, !.idx = i, !.dest = dest[i],
                                     !.copyTo = a.nodes[i].copy]
              ELSE dn[o]]
    /\ req' = [req EXCEPT ![q] = [NoReq EXCEPT !.pc = "loop", !.api = a, !.dns = objs,
                                               !.idx = 1, !.wg = g]]
    /\ wgFree' = wgFree \ {g}

\* The route has an API for the request, or none.
Serve(q) ==
    /\ req[q].pc = "idle"
    /\ IF stopped
       THEN /\ req' = [req EXCEPT ![q].pc = "done", ![q].answer = "503"]
            /\ UNCHANGED <<dn, wgFree>>
       ELSE \/ /\ req' = [req EXCEPT ![q].pc = "done", ![q].answer = "404"]
               /\ UNCHANGED <<dn, wgFree>>
            \/ \E a \in Api[q] :
               \E objs \in FirstFree({o \in Object : dn[o].q = NoRequest}, Len(a.nodes)) :
               \E g \in IF Len(a.nodes) > 1 THEN AcquireGroup ELSE {0} :
                  Accept(q, a, objs, g)
    /\ UNCHANGED <<stopped, ex, queue, dispatchIndex, copies, wg, data, mutex, depend, resp>>

\* Whether the loop is at the first node of a batch.  lastBatch starts at 0, so that
\* nodes with a negative index and nodes with index 0 are not told apart.
NewBatch(q) ==
    req[q].wg # 0 /\ req[q].idx \in Index(q) /\ req[q].last < Nodes(q)[req[q].idx].batch

\* The parts that executions are adding to the aggregate of q at this moment.
Adding(q) == {e \in Executor : ex[e].pc = "write" /\ ex[e].q = q}

\* wg.Add(1).
JoinGroup(g) == wg' = IF g # 0 THEN [wg EXCEPT ![g] = @ + 1] ELSE wg

\* Mutant of AssignDepend: Depend keeps what it was for the first node.
DependOnce(q) ==
    depend' = [depend EXCEPT ![q] = IF req[q].idx = 1 THEN data[q] ELSE @]

\* exprCtx.Depend = multiCtx.data, without the lock of the aggregate.
AssignDepend(q) ==
    IF Multi(q)
    THEN \E d \in {data[q]} \cup (IF Adding(q) # {} THEN {Torn} ELSE {}) :
           depend' = [depend EXCEPT ![q] = d]
    ELSE UNCHANGED depend

\* The next node of q, in group g.
PrepareNode(q, g) ==
    LET o == req[q].dns[req[q].idx] IN
    /\ req[q].pc = "loop"
    /\ req[q].idx <= Len(Nodes(q))
    /\ dn' = [dn EXCEPT ![o].wg = g]
    /\ JoinGroup(g)
    /\ AssignDepend(q)
    /\ wgFree' = wgFree \ {g}
    /\ req' = [req EXCEPT ![q].pc = IF dn[o].copyTo THEN "copy" ELSE "send", ![q].wg = g,
                          ![q].last = IF NewBatch(q) THEN Nodes(q)[req[q].idx].batch ELSE @]
    /\ UNCHANGED <<stopped, ex, queue, dispatchIndex, copies, data, mutex, resp>>

\* A node of the same batch.
SameBatch(q) == ~NewBatch(q) /\ PrepareNode(q, req[q].wg)

\* The group of a new batch: none for the last node.
NextGroup(q) == IF Len(Nodes(q)) - req[q].idx >= 1 THEN AcquireGroup ELSE {0}

\* Mutant of NextBatch: the wait group of the last batch is not waited for.
NextBatchAtOnce(q) ==
    /\ NewBatch(q)
    /\ \E g \in NextGroup(q) : PrepareNode(q, g)

\* Wait for the last batch, then a new group.
NextBatch(q) ==
    /\ NewBatch(q)
    /\ wg[req[q].wg] = 0
    /\ \E g \in NextGroup(q) : PrepareNode(q, g)

\* A routing of strategy Copy: clones go to a copy worker.
SendCopy(q) ==
    /\ req[q].pc = "copy"
    /\ copies < CopyCap
    /\ copies' = copies + 1
    /\ req' = [req EXCEPT ![q].pc = "send"]
    /\ UNCHANGED <<stopped, dn, ex, queue, dispatchIndex, wg, wgFree, data, mutex, depend,
                   resp>>

\* A copy worker sends a copy: it releases an answer, and does not release the empty
\* response that client.Do returns with an error.
doCopy ==
    /\ copies > 0
    /\ copies' = copies - 1
    /\ \/ UNCHANGED resp
       \/ resp' = [resp EXCEPT ![NoRequest] = @ + 1]
    /\ UNCHANGED <<stopped, req, dn, ex, queue, dispatchIndex, wg, wgFree, data, mutex,
                   depend>>

getIndex == (dispatchIndex % Cardinality(Worker)) + 1

\* A node of a group is for the next worker, round robin; the request itself runs the
\* other ones.
Dispatch(q) ==
    /\ req[q].pc = "send"
    /\ IF req[q].wg # 0
       THEN /\ dispatchIndex' = getIndex
            /\ req' = [req EXCEPT ![q].pc = "put", ![q].to = getIndex]
            /\ UNCHANGED ex
       ELSE /\ ex' = [ex EXCEPT ![q] = [IdleEx EXCEPT !.pc = "start", !.q = q,
                                        !.o = req[q].dns[req[q].idx]]]
            /\ req' = [req EXCEPT ![q].pc = "proxy"]
            /\ UNCHANGED dispatchIndex
    /\ UNCHANGED <<stopped, dn, queue, copies, wg, wgFree, data, mutex, depend, resp>>

\* The channel of the worker has room.
Put(q) ==
    LET w == req[q].to IN
    /\ req[q].pc = "put"
    /\ Len(queue[w]) < DispatchCap
    /\ queue' = [queue EXCEPT ![w] = Append(@, req[q].dns[req[q].idx])]
    /\ req' = [req EXCEPT ![q].pc = "loop", ![q].to = 0, ![q].idx = @ + 1]
    /\ UNCHANGED <<stopped, dn, ex, dispatchIndex, copies, wg, wgFree, data, mutex, depend,
                   resp>>

\* doProxy returned to the loop.
Returned(q) ==
    /\ req[q].pc = "proxy"
    /\ ex[q].pc = "idle"
    /\ req' = [req EXCEPT ![q].pc = "loop", ![q].idx = @ + 1]
    /\ UNCHANGED <<stopped, dn, ex, queue, dispatchIndex, copies, wg, wgFree, data, mutex,
                   depend, resp>>

-----------------------------------------------------------------------------
(* doProxy.                                                                *)

Taken(w) == Head(queue[w])

\* A dispatch worker takes a node from its channel.
TakeNode(w) ==
    /\ ex[w].pc = "idle"
    /\ queue[w] # <<>>
    /\ ex' = [ex EXCEPT ![w] = [IdleEx EXCEPT !.pc = "start", !.o = Taken(w),
                                              !.q = dn[Taken(w)].q]]
    /\ queue' = [queue EXCEPT ![w] = Tail(@)]
    /\ UNCHANGED <<stopped, req, dn, dispatchIndex, copies, wg, wgFree, data, mutex,
                   depend, resp>>

\* Ends execution e with an error of its node.
Fail(e) ==
    /\ dn' = [dn EXCEPT ![ex[e].o].err = TRUE]
    /\ ex' = [ex EXCEPT ![e].pc = "complete"]

\* The values that reading Depend may give: the request may be assigning it, and adding
\* a part to the aggregate may write to the array that an earlier Depend shares with it.
Depends(q) ==
    {depend[q]} \cup IF depend[q] # data[q] \/ Adding(q) # {} THEN {Torn} ELSE {}

\* Up to the filters: a default or no server ends it; the new URL is computed from
\* Depend and may be empty; a pre filter may refuse, or have the response, which its
\* status or a post filter may turn into an error.
Start(e) ==
    LET o == ex[e].o
        n == NodeOf(o)
    IN
    /\ ex[e].pc = "start"
    /\ \/ /\ n.useDefault
          /\ ex' = [ex EXCEPT ![e].pc = "complete"]
          /\ UNCHANGED <<dn, resp>>
       \/ /\ ~n.useDefault /\ ~dn[o].dest
          /\ Fail(e)
          /\ UNCHANGED resp
       \/ /\ ~n.useDefault /\ dn[o].dest
          /\ \E seen \in IF n.rewrite THEN Depends(dn[o].q) ELSE {Unread} :
               \/ /\ "refused" \in n.may
                  /\ dn' = [dn EXCEPT ![o].err = TRUE, ![o].seen = seen]
                  /\ ex' = [ex EXCEPT ![e].pc = "complete"]
                  /\ UNCHANGED resp
               \/ /\ n.may \cap {"ok", "bad", "error"} # {}
                  /\ dn' = [dn EXCEPT ![o].seen = seen]
                  /\ ex' = [ex EXCEPT ![e].pc = "do"]
                  /\ UNCHANGED resp
               \/ /\ "hit" \in n.may
                  /\ \E postErr \in BOOLEAN :
                       /\ postErr => "postFailed" \in n.may
                       /\ dn' = [dn EXCEPT ![o].seen = seen, ![o].res = "body",
                                           ![o].err = postErr]
                  /\ ex' = [ex EXCEPT ![e].pc = "complete"]
                  /\ resp' = [resp EXCEPT ![dn[o].q] = @ + 1]
    /\ UNCHANGED <<stopped, req, queue, dispatchIndex, copies, wg, wgFree, data, mutex,
                   depend>>

\* Whether the answer is retried.  An error has the status 200 of an empty response,
\* which no list of codes holds.
Retries(e, outcome) ==
    LET retry == NodeOf(ex[e].o).retry IN
    /\ outcome # "ok"
    /\ retry = "all" \/ (retry = "codes" /\ outcome = "bad")
    /\ ex[e].times + 1 < MaxTimes

\* Mutant of Discard: a response that is retried is kept.
DiscardNothing(q) == resp' = [resp EXCEPT ![q] = @ + 1]

\* The response of an attempt that is retried is acquired and released.
Discard(q) == UNCHANGED resp

\* client.Do returns a response in any case: empty with an error.  A response that is
\* retried is released; the last one becomes the node's, and the post filters run.
Forward(e) ==
    LET o == ex[e].o
        q == dn[o].q
    IN
    /\ ex[e].pc = "do"
    /\ \E outcome \in {"ok", "bad", "error"} \cap NodeOf(o).may :
         \/ /\ Retries(e, outcome)
            /\ ex' = [ex EXCEPT ![e].pc = "retry", ![e].times = @ + 1]
            /\ Discard(q)
            /\ UNCHANGED dn
         \/ /\ ~Retries(e, outcome)
            /\ \E postErr \in BOOLEAN :
                 /\ outcome # "ok" => postErr
                 /\ outcome = "ok" /\ postErr => "postFailed" \in NodeOf(o).may
                 /\ dn' = [dn EXCEPT ![o].res = IF outcome = "error" THEN "empty" ELSE "body",
                                     ![o].err = postErr]
            /\ ex' = [ex EXCEPT ![e].pc = "complete", ![e].times = @ + 1]
            /\ resp' = [resp EXCEPT ![q] = @ + 1]
    /\ UNCHANGED <<stopped, req, queue, dispatchIndex, copies, wg, wgFree, data, mutex,
                   depend>>

\* Another server is selected; none ends it.
Reselect(e) ==
    LET o == ex[e].o IN
    /\ ex[e].pc = "retry"
    /\ \/ /\ "noServer" \in NodeOf(o).may
          /\ dn' = [dn EXCEPT ![o].dest = FALSE, ![o].err = TRUE]
          /\ ex' = [ex EXCEPT ![e].pc = "complete"]
       \/ /\ UNCHANGED dn
          /\ ex' = [ex EXCEPT ![e].pc = "do"]
    /\ UNCHANGED <<stopped, req, queue, dispatchIndex, copies, wg, wgFree, data, mutex,
                   depend, resp>>

\* The body of a node's part: its default value, or that of its response.
HasPart(o) ==
    /\ NodeOf(o).attr
    /\ \/ NodeOf(o).useDefault \/ (dn[o].err /\ NodeOf(o).def)
       \/ dn[o].res = "body"

\* Mutant of LockPart: the aggregate is not locked.
UnlockedPart(e) ==
    LET q == dn[ex[e].o].q IN
    /\ ex[e].pc = "complete" /\ Multi(q) /\ HasPart(ex[e].o)
    /\ ex' = [ex EXCEPT ![e].pc = "write", ![e].old = data[q]]
    /\ UNCHANGED <<stopped, req, dn, queue, dispatchIndex, copies, wg, wgFree, data, mutex,
                   depend, resp>>

\* completePart locks the aggregate and reads it ...
LockPart(e) ==
    LET q == dn[ex[e].o].q IN
    /\ ex[e].pc = "complete" /\ Multi(q) /\ HasPart(ex[e].o)
    /\ ~mutex[q]
    /\ mutex' = [mutex EXCEPT ![q] = TRUE]
    /\ ex' = [ex EXCEPT ![e].pc = "write", ![e].old = data[q]]
    /\ UNCHANGED <<stopped, req, dn, queue, dispatchIndex, copies, wg, wgFree, data,
                   depend, resp>>

\* The group of node o counts it as done.
Done(o) == wg' = IF dn[o].wg # 0 THEN [wg EXCEPT ![dn[o].wg] = @ - 1] ELSE wg

\* ... and writes it with the part of the node, and unlocks it.  With the rest of
\* maybeDone; after it the node is only named in a log message.  Bodies are JSON values
\* and the attribute names of an API differ: jsonparser.Set, whose error would leave an
\* empty aggregate, does not fail and replaces no other part.
WritePart(e) ==
    LET o == ex[e].o
        q == dn[o].q
    IN
    /\ ex[e].pc = "write"
    /\ data' = [data EXCEPT ![q] = ex[e].old \cup {dn[o].idx}]
    /\ mutex' = [mutex EXCEPT ![q] = FALSE]
    /\ Done(o)
    /\ ex' = [ex EXCEPT ![e] = IdleEx]
    /\ UNCHANGED <<stopped, req, dn, queue, dispatchIndex, copies, wgFree, depend, resp>>

\* Mutant of NoPart: returns before wg.Done.
NoPartForgets(e) ==
    /\ ex[e].pc = "complete"
    /\ ~HasPart(ex[e].o)
    /\ ex' = [ex EXCEPT ![e] = IdleEx]
    /\ UNCHANGED <<stopped, req, dn, queue, dispatchIndex, copies, wg, wgFree, data, mutex,
                   depend, resp>>

\* maybeDone of a node without a part, or of a request with a single node.
NoPart(e) ==
    LET o == ex[e].o IN
    /\ ex[e].pc = "complete"
    /\ Multi(dn[o].q) => ~HasPart(o) /\ ~mutex[dn[o].q]
    /\ Done(o)
    /\ ex' = [ex EXCEPT ![e] = IdleEx]
    /\ UNCHANGED <<stopped, req, dn, queue, dispatchIndex, copies, wgFree, data, mutex,
                   depend, resp>>

-----------------------------------------------------------------------------
(* The answer, and the end.                                                *)

Failed(o) == dn[o].err /\ (Multi(dn[o].q) => ~NodeOf(o).def)

\* renderDefault, renderSingle, renderMulti.
Answer(q) ==
    IF Nodes(q) = <<>> THEN "default"
    ELSE IF \E i \in Index(q) : Failed(req[q].dns[i])
    THEN IF req[q].api.def THEN "default" ELSE "error"
    ELSE IF Multi(q) THEN "aggregate" ELSE "body"

Responses(q) == Cardinality({i \in Index(q) : dn[req[q].dns[i]].res # "none"})

\* Mutant of Render: does not wait for the last batch.
RenderAtOnce(q) ==
    /\ req[q].pc = "loop"
    /\ req[q].idx > Len(Nodes(q))
    /\ wgFree' = wgFree \cup ({req[q].wg} \ {0})
    /\ req' = [req EXCEPT ![q].pc = "render", ![q].answer = Answer(q)]
    /\ resp' = [resp EXCEPT ![q] = @ - Responses(q)]
    /\ UNCHANGED <<stopped, dn, ex, queue, dispatchIndex, copies, wg, data, mutex, depend>>

\* Wait for the last batch, put its group back, render, and release the responses.
Render(q) ==
    /\ req[q].pc = "loop"
    /\ req[q].idx > Len(Nodes(q))
    /\ req[q].wg # 0 => wg[req[q].wg] = 0
    /\ wgFree' = wgFree \cup ({req[q].wg} \ {0})
    /\ req' = [req EXCEPT ![q].pc = "render", ![q].answer = Answer(q)]
    /\ resp' = [resp EXCEPT ![q] = @ - Responses(q)]
    /\ UNCHANGED <<stopped, dn, ex, queue, dispatchIndex, copies, wg, data, mutex, depend>>

\* releaseMultiContext, postRequest (which puts the nodes back) and releaseExprCtx.
Finish(q) ==
    /\ req[q].pc = "render"
    /\ dn' = [o \in Object |-> IF \E i \in Index(q) : req[q].dns[i] = o THEN FreeDn ELSE dn[o]]
    /\ data' = [data EXCEPT ![q] = {}]
    /\ depend' = [depend EXCEPT ![q] = {}]
    /\ req' = [req EXCEPT ![q] = [NoReq EXCEPT !.pc = "done", !.answer = req[q].answer]]
    /\ UNCHANGED <<stopped, ex, queue, dispatchIndex, copies, wg, wgFree, mutex, resp>>

\* doStop: requests are refused and the tasks are cancelled ...
Stop ==
    /\ ~stopped
    /\ stopped' = TRUE
    /\ UNCHANGED <<req, dn, ex, queue, dispatchIndex, copies, wg, wgFree, data, mutex,
                   depend, resp>>

\* ... which a dispatch worker finds out between two nodes.
Exit(w) ==
    /\ stopped
    /\ ex[w].pc = "idle"
    /\ ex' = [ex EXCEPT ![w].pc = "exit"]
    /\ UNCHANGED <<stopped, req, dn, queue, dispatchIndex, copies, wg, wgFree, data, mutex,
                   depend, resp>>

-----------------------------------------------------------------------------
RequestStep(q) ==
    \/ SameBatch(q) \/ NextBatch(q) \/ SendCopy(q) \/ Dispatch(q) \/ Put(q)
    \/ Returned(q) \/ Render(q) \/ Finish(q)

ExecutorStep(e) ==
    \/ Start(e) \/ Forward(e) \/ Reselect(e) \/ LockPart(e) \/ WritePart(e) \/ NoPart(e)

Next ==
    \/ \E q \in Request : Serve(q) \/ RequestStep(q)
    \/ \E e \in Executor : ExecutorStep(e)
    \/ \E w \in Worker : TakeNode(w) \/ Exit(w)
    \/ doCopy \/ Stop

Spec == Init /\ [][Next]_vars

\* Goroutines run; a forwarded request is answered or times out; a mutex is granted.
Fairness ==
    /\ \A q \in Request : WF_vars(RequestStep(q))
    /\ \A e \in Executor : WF_vars(ExecutorStep(e))
    /\ \A w \in Worker : WF_vars(TakeNode(w))
    /\ WF_vars(doCopy)

FairSpec == Spec /\ Fairness

-----------------------------------------------------------------------------
(* Properties.                                                             *)

\* Node i of q has been handed out and is not completed.
Pending(q, i) ==
    LET o == req[q].dns[i] IN
    \/ \E w \in Worker : \E j \in DOMAIN queue[w] : queue[w][j] = o
    \/ \E e \in Executor : ex[e].pc \notin {"idle", "exit"} /\ ex[e].o = o

\* The batch that ServeFastHTTP takes a node for: the first one has index 0 and all
\* negative indexes.
Batch(n) == IF n.batch > 0 THEN n.batch ELSE 0

\* While a node is queued or executed no node of another batch of the request is,
\* whichever workers they are on.  (lastBatch starts at 0, so that ServeFastHTTP does
\* not wait between indexes that are not positive: those nodes run together.)
BatchesInOrder ==
    \A q \in Request : req[q].pc \notin {"idle", "done"} =>
        \A i, j \in Index(q) :
            Pending(q, i) /\ Pending(q, j) => Batch(Nodes(q)[i]) = Batch(Nodes(q)[j])

\* An execution only writes to a node that is still that of its request: nodes and
\* groups are put back to the pools when nobody works on them any more.
WritesOwned ==
    \A e \in Executor : ex[e].pc \notin {"idle", "exit"} =>
        /\ dn[ex[e].o].q = ex[e].q
        /\ req[ex[e].q].pc \notin {"render", "done"}

\* The aggregate that is rendered has the part of every node that has one, in whatever
\* order and however concurrently the nodes completed.
RenderedWhole ==
    \A q \in Request : req[q].pc = "render" /\ Multi(q) =>
        data[q] = {i \in Index(q) : HasPart(req[q].dns[i])}

\* A node that is rewritten sees the parts of all the earlier batches; a torn Depend
\* is only read in a batch of several nodes (where the code lets it happen).
DependComplete ==
    \A o \in Object : dn[o].q # NoRequest /\ NodeOf(o).rewrite /\ dn[o].seen # Unread =>
        LET q == dn[o].q
            i == dn[o].idx
        IN IF dn[o].seen = Torn
           THEN \E j \in Index(q) \ {i} : Batch(Nodes(q)[j]) = Batch(Nodes(q)[i])
           ELSE \A j \in Index(q) :
                  Batch(Nodes(q)[j]) < Batch(Nodes(q)[i]) /\ HasPart(req[q].dns[j])
                    => j \in dn[o].seen

\* Every response that doProxy acquired for a request is released once, also those of
\* retries and of nodes that failed after they were answered.
ResponsesReleased == \A q \in Request : req[q].pc \in {"render", "done"} => resp[q] = 0

\* A request that was dispatched is answered, unless the proxy is stopped.
RequestsAnswered == \A q \in Request : req[q].pc = "loop" ~> req[q].pc = "done" \/ stopped
=============================================================================
