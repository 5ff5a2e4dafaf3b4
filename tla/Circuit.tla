------------------------------- MODULE Circuit -------------------------------
(***************************************************************************)
(* The circuit breaker of the proxy (proxy/dispatcher_runtime.go and       *)
(* proxy/filter_circuit_breake.go).  Every protected resource, an API or a *)
(* server, has a breaker state that request goroutines read and change,    *)
(* that the timer wheel moves from Close to Half, and that the event loop  *)
(* wipes when a proxy joins or leaves (refreshAllQPS updates every runtime *)
(* object in place, without taking its lock).                              *)
(*                                                                         *)
(* In this code base "Open" lets traffic through and "Close" refuses it.   *)
(*                                                                         *)
(* The critical sections of the code (getCircuitStatus, circuitToClose,    *)
(* circuitToOpen, circuitToHalf) are single steps; a status that a request *)
(* read is kept in its record and may be stale when it is used.  The rates *)
(* of utils/analysis.go are inputs: both outcomes of a comparison are      *)
(* possible.                                                               *)
(***************************************************************************)
EXTENDS Integers, FiniteSets

CONSTANTS
    Api, Server,     \* ids of the protected resources
    HasCb,           \* the resources whose meta sets CircuitBreaker
    Request,         \* request goroutines
    CloseTicks,      \* CloseTimeout of a resource in ticks of the wheel, rounded up
    MaxLag,          \* ticks that may pass between Schedule's two reads of the wheel
    MaxRefresh       \* bound: in-place refreshes of one resource

Res == Api \cup Server
NoRes == "none"

ASSUME CircuitAssumption ==
    /\ Api \cap Server = {}
    /\ NoRes \notin Res
    /\ HasCb \subseteq Res
    /\ CloseTicks \in [Res -> Nat]
    /\ MaxLag \in Nat
    /\ MaxRefresh \in Nat

Status == {"Open", "Half", "Close"}
Pc == {"idle", "pre", "decide", "forward", "post", "postDecide",
       "closeApi", "closeDest", "openApi", "openDest", "hung"}
Stage == {"idle", "cb", "circuit", "barrier", "addToCheck"}

\* A goroutine between two requests.
Idle == [pc |-> "idle", api |-> NoRes, dest |-> NoRes, st |-> "Open",
         bar |-> FALSE, ok |-> FALSE]

\* A goroutine in the breaker's filters, with the status it read.
Busy == [pc: Pc \ {"idle"}, api: Api, dest: Server, st: Status,
         bar: BOOLEAN, ok: BOOLEAN]

NoUpdate == [stage |-> "idle", res |-> NoRes]

VARIABLES
    circuit,     \* abstractSupportProtectedRuntime.circuit
    cb,          \* resources whose field cb is not nil
    barrier,     \* resources whose field barrier is not nil
    timers,      \* pending circuitToHalf callbacks of a resource
    stuck,       \* resources whose lock is held by a goroutine that waits for it
    req,         \* the request goroutines
    upd,         \* the event loop inside updateMeta: stage and resource
    refreshes,   \* in-place refreshes so far
    crashed      \* the process died (nil dereference, unlock of a wiped mutex)

vars == <<circuit, cb, barrier, timers, stuck, req, upd, refreshes, crashed>>

TypeOK ==
    /\ circuit \in [Res -> Status]
    /\ cb \in SUBSET Res
    /\ barrier \in SUBSET Res
    /\ timers \in [Res -> Nat]
    /\ stuck \in SUBSET Res
    /\ req \in [Request -> Busy \cup {Idle}]
    /\ upd \in [stage: Stage \ {"idle"}, res: Res] \cup {NoUpdate}
    /\ refreshes \in [Res -> Nat]
    /\ crashed \in BOOLEAN

Init ==
    /\ circuit = [r \in Res |-> "Open"]
    /\ cb = HasCb
    /\ barrier = HasCb
    /\ timers = [r \in Res |-> 0]
    /\ stuck = {}
    /\ req = [q \in Request |-> Idle]
    /\ upd = NoUpdate
    /\ refreshes = [r \in Res |-> 0]
    /\ crashed = FALSE

\* The next step of a request; what the filter read is not used after it.
Goto(q, pc) ==
    req' = [req EXCEPT ![q] =
              IF pc = "idle" THEN Idle
              ELSE [@ EXCEPT !.pc = pc, !.st = "Open", !.bar = FALSE]]

At(q, pc) == ~crashed /\ req[q].pc = pc

-----------------------------------------------------------------------------
(* The locked transitions of one resource.                                 *)

\* Schedule runs the callback inline when the wheel has passed the deadline by
\* the time it locks the bucket; circuitToHalf then waits for the lock that
\* circuitToClose holds.
InlinePossible(r) == CloseTicks[r] <= MaxLag

\* Mutant of circuitToClose: forgets to schedule the half-open callback.
circuitToCloseNoTimer(r) ==
    /\ r \notin stuck
    /\ circuit' = IF r \in cb THEN [circuit EXCEPT ![r] = "Close"] ELSE circuit
    /\ UNCHANGED <<timers, stuck>>

\* Mutant of circuitToClose: does not check again under the lock.
circuitToCloseNoRecheck(r) ==
    /\ r \notin stuck
    /\ IF r \notin cb
       THEN UNCHANGED <<circuit, timers>>
       ELSE /\ circuit' = [circuit EXCEPT ![r] = "Close"]
            /\ timers' = [timers EXCEPT ![r] = @ + 1]
    /\ UNCHANGED stuck

\* Mutant of circuitToClose: the early return keeps the lock.
circuitToCloseLeaksLock(r) ==
    /\ r \notin stuck
    /\ IF r \notin cb \/ circuit[r] = "Close"
       THEN /\ stuck' = stuck \cup {r}
            /\ UNCHANGED <<circuit, timers>>
       ELSE /\ circuit' = [circuit EXCEPT ![r] = "Close"]
            /\ timers' = [timers EXCEPT ![r] = @ + 1]
            /\ UNCHANGED stuck

\* Locks, returns early without a breaker or when already closed, else closes
\* and schedules circuitToHalf while still holding the lock.
circuitToClose(r) ==
    /\ r \notin stuck
    /\ IF r \notin cb \/ circuit[r] = "Close"
       THEN UNCHANGED <<circuit, timers, stuck>>
       ELSE /\ circuit' = [circuit EXCEPT ![r] = "Close"]
            /\ \/ /\ timers' = [timers EXCEPT ![r] = @ + 1]
                  /\ UNCHANGED stuck
               \/ /\ InlinePossible(r)
                  /\ stuck' = stuck \cup {r}
                  /\ UNCHANGED timers

\* Mutant of circuitToOpen: trusts the status read before the lock.
circuitToOpenNoRecheck(r) ==
    /\ r \notin stuck
    /\ circuit' = IF r \in cb THEN [circuit EXCEPT ![r] = "Open"] ELSE circuit
    /\ UNCHANGED <<timers, stuck>>

\* Opens a half circuit only.
circuitToOpen(r) ==
    /\ r \notin stuck
    /\ circuit' = IF r \in cb /\ circuit[r] = "Half"
                  THEN [circuit EXCEPT ![r] = "Open"]
                  ELSE circuit
    /\ UNCHANGED <<timers, stuck>>

\* Mutant of circuitToHalf: the callback runs without having been scheduled.
circuitToHalfUnscheduled(r) ==
    /\ ~crashed
    /\ r \notin stuck
    /\ timers' = [timers EXCEPT ![r] = @ - 1]
    /\ circuit' = IF r \in cb THEN [circuit EXCEPT ![r] = "Half"] ELSE circuit
    /\ UNCHANGED <<cb, barrier, stuck, req, upd, refreshes, crashed>>

\* The timer wheel's goroutine runs circuitToHalf.
circuitToHalf(r) ==
    /\ ~crashed
    /\ timers[r] > 0
    /\ r \notin stuck
    /\ timers' = [timers EXCEPT ![r] = @ - 1]
    /\ circuit' = IF r \in cb THEN [circuit EXCEPT ![r] = "Half"] ELSE circuit
    /\ UNCHANGED <<cb, barrier, stuck, req, upd, refreshes, crashed>>

-----------------------------------------------------------------------------
(* A request: CircuitBreakeFilter.Pre, the forwarding, Post or PostErr.    *)

\* The resource that protects a request, the api's breaker before the server's
\* (circuitBreaker, circuitStatus, circuitResourceID).
Protecting(api, dest) ==
    IF api \in cb THEN api ELSE IF dest \in cb THEN dest ELSE NoRes

Start(q) ==
    /\ At(q, "idle")
    /\ \E api \in Api, dest \in Server :
         req' = [req EXCEPT ![q] = [@ EXCEPT !.pc = "pre", !.api = api, !.dest = dest]]
    /\ UNCHANGED <<circuit, cb, barrier, timers, stuck, upd, refreshes, crashed>>

\* Reads the breaker and its status; without one the filter passes.
ReadStatus(q, from, decide, skip) ==
    LET r == Protecting(req[q].api, req[q].dest) IN
    /\ At(q, from)
    /\ r \notin stuck
    /\ IF r = NoRes
       THEN Goto(q, skip)
       ELSE req' = [req EXCEPT ![q] = [@ EXCEPT !.pc = decide, !.st = circuit[r],
                                                !.bar = (r \in barrier)]]
    /\ UNCHANGED <<circuit, cb, barrier, timers, stuck, upd, refreshes, crashed>>

PreRead(q) == ReadStatus(q, "pre", "decide", "forward")

\* Open: pass, or close the circuit when the failure rate is reached.
PreOpen(q) ==
    /\ At(q, "decide")
    /\ req[q].st = "Open"
    /\ \E pc \in {"forward", "closeApi"} : Goto(q, pc)
    /\ UNCHANGED <<circuit, cb, barrier, timers, stuck, upd, refreshes, crashed>>

\* Half: the barrier lets a share of the traffic pass; a nil barrier panics.
PreHalf(q) ==
    /\ At(q, "decide")
    /\ req[q].st = "Half"
    /\ IF req[q].bar
       THEN /\ \E pc \in {"forward", "idle"} : Goto(q, pc)
            /\ UNCHANGED crashed
       ELSE /\ crashed' = TRUE
            /\ UNCHANGED req
    /\ UNCHANGED <<circuit, cb, barrier, timers, stuck, upd, refreshes>>

PreClose(q) ==
    /\ At(q, "decide")
    /\ req[q].st = "Close"
    /\ Goto(q, "idle")
    /\ UNCHANGED <<circuit, cb, barrier, timers, stuck, upd, refreshes, crashed>>

\* The backend answers, fails, or the user cancels; a retry may have selected
\* another server meanwhile (doProxy).
Forward(q) ==
    /\ At(q, "forward")
    /\ \/ \E dest \in Server, ok \in BOOLEAN :
            req' = [req EXCEPT ![q] = [@ EXCEPT !.pc = "post", !.dest = dest, !.ok = ok]]
       \/ Goto(q, "idle")
    /\ UNCHANGED <<circuit, cb, barrier, timers, stuck, upd, refreshes, crashed>>

PostRead(q) == ReadStatus(q, "post", "postDecide", "idle")

\* Post opens a half circuit on a good success rate, PostErr closes it on a
\* bad failure rate.
PostDecide(q) ==
    /\ At(q, "postDecide")
    /\ \/ Goto(q, "idle")
       \/ /\ req[q].st = "Half"
          /\ Goto(q, IF req[q].ok THEN "openApi" ELSE "closeApi")
    /\ UNCHANGED <<circuit, cb, barrier, timers, stuck, upd, refreshes, crashed>>

\* changeCircuitStatusToClose: the api's own circuit if it has a breaker, then
\* always the destination's.
CloseApi(q) ==
    LET a == req[q].api IN
    /\ At(q, "closeApi")
    /\ IF a \in cb THEN circuitToClose(a) ELSE UNCHANGED <<circuit, timers, stuck>>
    /\ Goto(q, IF a \in stuck' THEN "hung" ELSE "closeDest")
    /\ UNCHANGED <<cb, barrier, upd, refreshes, crashed>>

CloseDest(q) ==
    LET d == req[q].dest IN
    /\ At(q, "closeDest")
    /\ circuitToClose(d)
    /\ Goto(q, IF d \in stuck' THEN "hung" ELSE "idle")
    /\ UNCHANGED <<cb, barrier, upd, refreshes, crashed>>

\* changeCircuitStatusToOpen.
OpenApi(q) ==
    LET a == req[q].api IN
    /\ At(q, "openApi")
    /\ IF a \in cb THEN circuitToOpen(a) ELSE UNCHANGED <<circuit, timers, stuck>>
    /\ Goto(q, "openDest")
    /\ UNCHANGED <<cb, barrier, upd, refreshes, crashed>>

OpenDest(q) ==
    /\ At(q, "openDest")
    /\ circuitToOpen(req[q].dest)
    /\ Goto(q, "idle")
    /\ UNCHANGED <<cb, barrier, upd, refreshes, crashed>>
-----------------------------------------------------------------------------
(* The event loop refreshes a runtime object in place (refreshAllQPS,      *)
(* updateMeta, addToCheck): unlocked writes, one step each.                *)

\* Requests that are inside, or about to enter, a critical section of r.
Entering(r) ==
    \E q \in Request :
        \/ req[q].pc \in {"closeApi", "openApi"} /\ req[q].api = r
        \/ req[q].pc \in {"closeDest", "openDest"} /\ req[q].dest = r

\* Wiping the object zeroes its mutex: a goroutine inside the critical section
\* then unlocks an unlocked mutex, or calls the nil wheel, and the process dies.
Wipe(r) ==
    /\ ~crashed
    /\ upd.stage = "idle"
    /\ refreshes[r] < MaxRefresh
    /\ upd' = [stage |-> "cb", res |-> r]
    /\ refreshes' = [refreshes EXCEPT ![r] = @ + 1]
    /\ circuit' = [circuit EXCEPT ![r] = "Open"]
    /\ cb' = cb \ {r}
    /\ barrier' = barrier \ {r}
    /\ stuck' = stuck \ {r}
    /\ crashed' \in {FALSE, Entering(r)}
    /\ UNCHANGED <<timers, req>>

SetCb ==
    /\ ~crashed
    /\ upd.stage = "cb"
    /\ upd' = [upd EXCEPT !.stage = "circuit"]
    /\ cb' = IF upd.res \in HasCb THEN cb \cup {upd.res} ELSE cb
    /\ UNCHANGED <<circuit, barrier, timers, stuck, req, refreshes, crashed>>

SetCircuit ==
    /\ ~crashed
    /\ upd.stage = "circuit"
    /\ upd' = [upd EXCEPT !.stage = "barrier"]
    /\ circuit' = [circuit EXCEPT ![upd.res] = "Open"]
    /\ UNCHANGED <<cb, barrier, timers, stuck, req, refreshes, crashed>>

SetBarrier ==
    /\ ~crashed
    /\ upd.stage = "barrier"
    /\ upd' = IF upd.res \in Server THEN [upd EXCEPT !.stage = "addToCheck"] ELSE NoUpdate
    /\ barrier' = IF upd.res \in HasCb THEN barrier \cup {upd.res} ELSE barrier
    /\ UNCHANGED <<circuit, cb, timers, stuck, req, refreshes, crashed>>

AddToCheck ==
    /\ ~crashed
    /\ upd.stage = "addToCheck"
    /\ upd' = NoUpdate
    /\ circuit' = [circuit EXCEPT ![upd.res] = "Open"]
    /\ UNCHANGED <<cb, barrier, timers, stuck, req, refreshes, crashed>>
-----------------------------------------------------------------------------
RequestStep(q) ==
    \/ PreRead(q) \/ PreOpen(q) \/ PreHalf(q) \/ PreClose(q)
    \/ Forward(q) \/ PostRead(q) \/ PostDecide(q)
    \/ CloseApi(q) \/ CloseDest(q) \/ OpenApi(q) \/ OpenDest(q)

Refresh == SetCb \/ SetCircuit \/ SetBarrier \/ AddToCheck

Next ==
    \/ \E q \in Request : Start(q) \/ RequestStep(q)
    \/ \E r \in Res : circuitToHalf(r) \/ Wipe(r)
    \/ Refresh

Spec == Init /\ [][Next]_vars

\* The scheduler runs every goroutine: requests already started, the wheel's
\* callbacks and an update already begun.  New requests and updates need not come.
Fairness ==
    /\ \A q \in Request : WF_vars(RequestStep(q))
    /\ \A r \in Res : WF_vars(circuitToHalf(r))
    /\ WF_vars(Refresh)

FairSpec == Spec /\ Fairness
-----------------------------------------------------------------------------
(* Properties.                                                             *)

\* A closed circuit is never forgotten: while it refuses traffic a callback to
\* circuitToHalf is pending, whatever requests, timers and refreshes interleave.
\* Only a lock held across an inline callback breaks this.
CloseHasTimer ==
    \A r \in Res : circuit[r] = "Close" /\ r \notin stuck => timers[r] > 0

\* Racing closers schedule one callback between them (circuitToClose checks the
\* status again under the lock).  An in-place refresh writes the status up to three
\* times and each write can orphan one callback more.
TimersBounded ==
    \A r \in Res :
        timers[r] <= 3 * refreshes[r] + (IF circuit[r] = "Close" THEN 1 ELSE 0)

\* A request that read a half circuit cannot reopen one that another request has
\* closed since (circuitToOpen checks again under the lock): a closed circuit
\* becomes open only when the event loop resets it.
NeverCloseToOpen ==
    [][\A r \in Res :
         circuit[r] = "Close" /\ circuit'[r] = "Open" => upd # upd']_vars

\* A closed circuit does not stay closed: the timer moves it to half (or a
\* refresh resets it).  circuitToClose must not wait for its own lock for this,
\* which it does when Schedule runs circuitToHalf inline (InlinePossible).
CloseEnds ==
    \A r \in Res : circuit[r] = "Close" ~> (circuit[r] # "Close" \/ crashed)

\* Every request gets through the breaker filters.
RequestsFinish ==
    \A q \in Request : req[q].pc # "idle" ~> (req[q].pc = "idle" \/ crashed)

\* What the administration client documents of CloseTimeout: it is the "timeout
\* that close status convert to half", so a circuit becomes half from Close only.
HalfOnlyFromClose ==
    [][\A r \in Res :
         circuit[r] # "Half" /\ circuit'[r] = "Half" => circuit[r] = "Close"]_vars
-----------------------------------------------------------------------------
(* Strengthenings that make the invariants inductive.                      *)

\* A resource whose breaker field is nil is open, and only configured ones have one.
CbInv ==
    /\ cb \subseteq HasCb
    /\ \A r \in Res : r \notin cb => circuit[r] = "Open"

\* Resets of the status that the update in progress has still to write.
ResetsLeft(r) ==
    IF upd.res # r THEN 0
    ELSE IF upd.stage \in {"cb", "circuit"} THEN 2 ELSE 1

TimersInv ==
    \A r \in Res :
        timers[r] + ResetsLeft(r)
            <= 3 * refreshes[r] + (IF circuit[r] = "Close" THEN 1 ELSE 0)

IInv == TypeOK /\ CbInv /\ CloseHasTimer /\ TimersInv
=============================================================================
