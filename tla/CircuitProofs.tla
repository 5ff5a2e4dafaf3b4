---------------------------- MODULE CircuitProofs ----------------------------
(* Proofs of the safety properties of Circuit for any resources, requests, *)
(* timeouts and lags.                                                      *)
EXTENDS Circuit, TLAPS

LEMMA ResSplit == Api \subseteq Res /\ Server \subseteq Res
BY DEF Res

\* A goroutine that is past "idle" carries an api and a destination.
LEMMA BusyWhenNotIdle ==
  ASSUME TypeOK, NEW q \in Request, req[q].pc # "idle"
  PROVE  req[q] \in Busy
BY DEF TypeOK, Idle

\* Moving a busy goroutine keeps the request table well typed.
LEMMA GotoType ==
  ASSUME TypeOK, NEW q \in Request, req[q].pc # "idle",
         NEW pc \in Pc, Goto(q, pc)
  PROVE  req' \in [Request -> Busy \cup {Idle}]
<1>1. req[q] \in Busy
  BY BusyWhenNotIdle
<1>2. pc # "idle" => [req[q] EXCEPT !.pc = pc, !.st = "Open", !.bar = FALSE] \in Busy
  BY <1>1 DEF Busy, Status
<1>3. QED
  BY <1>2 DEF Goto, TypeOK

\* Reading a status keeps the request table well typed.
LEMMA ReadStatusType ==
  ASSUME TypeOK, NEW q \in Request, NEW from \in Pc \ {"idle"},
         NEW decide \in Pc \ {"idle"}, NEW skip \in Pc,
         ReadStatus(q, from, decide, skip)
  PROVE  req' \in [Request -> Busy \cup {Idle}]
<1> DEFINE r == Protecting(req[q].api, req[q].dest)
<1>1. req[q] \in Busy
  BY BusyWhenNotIdle DEF ReadStatus, At
<1>2. CASE r = NoRes
  BY <1>1, <1>2, GotoType DEF ReadStatus, At
<1>3. CASE r # NoRes
  <2>1. r \in Res
    BY <1>1, <1>3, ResSplit DEF Protecting, Busy
  <2>2. circuit[r] \in Status
    BY <2>1 DEF TypeOK
  <2> DEFINE new == [req[q] EXCEPT !.pc = decide, !.st = circuit[r], !.bar = (r \in barrier)]
  <2>3. new \in Busy
    <3>1. \A st \in Status, b \in BOOLEAN :
            [req[q] EXCEPT !.pc = decide, !.st = st, !.bar = b] \in Busy
      BY <1>1 DEF Busy
    <3>2. (r \in barrier) \in BOOLEAN
      OBVIOUS
    <3> HIDE DEF r
    <3>3. QED
      BY <2>2, <3>1, <3>2, Zenon
  <2>4. req' = [req EXCEPT ![q] = new]
    BY <1>3 DEF ReadStatus
  <2>5. QED
    BY <2>3, <2>4 DEF TypeOK
<1>4. QED
  BY <1>2, <1>3

\* Steps of a request that do not enter a critical section that writes.
ReadStep(q) ==
    \/ Start(q) \/ PreRead(q) \/ PreOpen(q) \/ PreHalf(q) \/ PreClose(q)
    \/ Forward(q) \/ PostRead(q) \/ PostDecide(q)

\* Steps of a request that run circuitToClose or circuitToOpen.
LockStep(q) == CloseApi(q) \/ CloseDest(q) \/ OpenApi(q) \/ OpenDest(q)

LEMMA ReadStepFrame ==
  ASSUME NEW q \in Request, ReadStep(q)
  PROVE  UNCHANGED <<circuit, cb, barrier, timers, stuck, upd, refreshes>>
BY DEF ReadStep, Start, PreRead, PreOpen, PreHalf, PreClose, Forward, PostRead,
       PostDecide, ReadStatus

LEMMA ReadStepType ==
  ASSUME TypeOK, NEW q \in Request, ReadStep(q)
  PROVE  req' \in [Request -> Busy \cup {Idle}] /\ crashed' \in BOOLEAN
<1>0. ASSUME NEW pc \in Pc, req[q].pc # "idle", Goto(q, pc)
      PROVE  req' \in [Request -> Busy \cup {Idle}]
  BY <1>0, GotoType
<1>1. CASE Start(q)
  <2>1. PICK api \in Api, dest \in Server :
          req' = [req EXCEPT ![q] = [@ EXCEPT !.pc = "pre", !.api = api, !.dest = dest]]
    BY <1>1 DEF Start
  <2>2. req[q] = Idle
    BY <1>1 DEF Start, At, TypeOK, Busy
  <2>3. [Idle EXCEPT !.pc = "pre", !.api = api, !.dest = dest] \in Busy
    BY DEF Idle, Busy, Pc, Status
  <2>4. req' \in [Request -> Busy \cup {Idle}]
    BY <2>1, <2>2, <2>3 DEF TypeOK
  <2>5. QED
    BY <1>1, <2>4 DEF Start, TypeOK
<1>2. CASE PreRead(q)
  BY <1>2, ReadStatusType DEF PreRead, Pc, TypeOK, ReadStatus
<1>3. CASE PreOpen(q)
  BY <1>3, <1>0 DEF PreOpen, At, Pc, TypeOK
<1>4. CASE PreHalf(q)
  <2>1. crashed' \in BOOLEAN
    BY <1>4 DEF PreHalf, TypeOK
  <2>2. req' \in [Request -> Busy \cup {Idle}]
    BY <1>4, <1>0 DEF PreHalf, At, Pc, TypeOK
  <2>3. QED
    BY <2>1, <2>2
<1>5. CASE PreClose(q)
  BY <1>5, <1>0 DEF PreClose, At, Pc, TypeOK
<1>6. CASE Forward(q)
  <2>1. CASE Goto(q, "idle")
    BY <1>6, <2>1, <1>0 DEF Forward, At, Pc, TypeOK
  <2>2. CASE \E dest \in Server, ok \in BOOLEAN :
               req' = [req EXCEPT ![q] = [@ EXCEPT !.pc = "post", !.dest = dest, !.ok = ok]]
    <3>1. PICK dest \in Server, ok \in BOOLEAN :
            req' = [req EXCEPT ![q] = [@ EXCEPT !.pc = "post", !.dest = dest, !.ok = ok]]
      BY <2>2
    <3>2. req[q] \in Busy
      BY <1>6, BusyWhenNotIdle DEF Forward, At
    <3>3. [req[q] EXCEPT !.pc = "post", !.dest = dest, !.ok = ok] \in Busy
      BY <3>2 DEF Busy, Pc
    <3>4. QED
      BY <1>6, <3>1, <3>3 DEF Forward, TypeOK
  <2>3. QED
    BY <1>6, <2>1, <2>2 DEF Forward
<1>7. CASE PostRead(q)
  BY <1>7, ReadStatusType DEF PostRead, Pc, TypeOK, ReadStatus
<1>8. CASE PostDecide(q)
  BY <1>8, <1>0 DEF PostDecide, At, Pc, TypeOK
<1>9. QED
  BY <1>1, <1>2, <1>3, <1>4, <1>5, <1>6, <1>7, <1>8 DEF ReadStep

\* A locked step of a request is circuitToClose or circuitToOpen of one resource,
\* or changes no breaker at all.
LEMMA LockStepFrame ==
  ASSUME TypeOK, NEW q \in Request, LockStep(q)
  PROVE  /\ UNCHANGED <<cb, barrier, upd, refreshes, crashed>>
         /\ \/ UNCHANGED <<circuit, timers, stuck>>
            \/ \E r \in Res : circuitToClose(r) \/ circuitToOpen(r)
         /\ \E pc \in Pc \ {"decide"} : Goto(q, pc)
         /\ req[q].pc # "idle"
<1>1. req[q].pc # "idle" /\ req[q].api \in Res /\ req[q].dest \in Res
  BY BusyWhenNotIdle, ResSplit
     DEF LockStep, CloseApi, CloseDest, OpenApi, OpenDest, At, Busy
<1>2. CASE CloseApi(q)
  BY <1>1, <1>2 DEF CloseApi, Pc
<1>3. CASE CloseDest(q)
  BY <1>1, <1>3 DEF CloseDest, Pc
<1>4. CASE OpenApi(q)
  BY <1>1, <1>4 DEF OpenApi, Pc
<1>5. CASE OpenDest(q)
  BY <1>1, <1>5 DEF OpenDest, Pc
<1>6. QED
  BY <1>2, <1>3, <1>4, <1>5 DEF LockStep

\* The locked transitions keep the breaker's fields well typed.
LEMMA TransitionType ==
  ASSUME TypeOK, NEW r \in Res, circuitToClose(r) \/ circuitToOpen(r)
  PROVE  circuit' \in [Res -> Status] /\ timers' \in [Res -> Nat] /\ stuck' \in SUBSET Res
<1>1. CASE circuitToClose(r)
  BY <1>1 DEF circuitToClose, TypeOK, Status
<1>2. CASE circuitToOpen(r)
  BY <1>2 DEF circuitToOpen, TypeOK, Status
<1>3. QED
  BY <1>1, <1>2

LEMMA UpdaterType ==
  ASSUME TypeOK, Refresh \/ \E r \in Res : Wipe(r)
  PROVE  TypeOK'
<1> USE CircuitAssumption, ResSplit
<1>1. ASSUME NEW r \in Res, Wipe(r) PROVE TypeOK'
  <2>1. crashed' \in BOOLEAN
    BY <1>1 DEF Wipe, Entering
  <2>2. upd' \in [stage: Stage \ {"idle"}, res: Res] \cup {NoUpdate}
    BY <1>1 DEF Wipe, Stage
  <2>3. QED
    BY <1>1, <2>1, <2>2 DEF Wipe, TypeOK, Status
<1>2. CASE SetCb
  <2>1. upd' \in [stage: Stage \ {"idle"}, res: Res] \cup {NoUpdate}
    BY <1>2 DEF SetCb, Stage, TypeOK, NoUpdate
  <2>2. QED
    BY <1>2, <2>1 DEF SetCb, TypeOK, NoUpdate
<1>3. CASE SetCircuit
  <2>1. upd' \in [stage: Stage \ {"idle"}, res: Res] \cup {NoUpdate}
    BY <1>3 DEF SetCircuit, Stage, TypeOK, NoUpdate
  <2>2. QED
    BY <1>3, <2>1 DEF SetCircuit, TypeOK, NoUpdate, Status
<1>4. CASE SetBarrier
  <2>1. upd' \in [stage: Stage \ {"idle"}, res: Res] \cup {NoUpdate}
    BY <1>4 DEF SetBarrier, Stage, TypeOK, NoUpdate
  <2>2. QED
    BY <1>4, <2>1 DEF SetBarrier, TypeOK, NoUpdate
<1>5. CASE AddToCheck
  BY <1>5 DEF AddToCheck, TypeOK, NoUpdate, Status
<1>6. QED
  BY <1>1, <1>2, <1>3, <1>4, <1>5 DEF Refresh

\* What every step is, for the proofs below.
LEMMA NextCases ==
  ASSUME Next
  PROVE  \/ \E q \in Request : ReadStep(q) \/ LockStep(q)
         \/ \E r \in Res : circuitToHalf(r)
         \/ Refresh \/ \E r \in Res : Wipe(r)
BY DEF Next, RequestStep, ReadStep, LockStep

LEMMA TypeStep ==
  ASSUME TypeOK, [Next]_vars
  PROVE  TypeOK'
<1>1. CASE UNCHANGED vars
  BY <1>1 DEF TypeOK, vars
<1>2. ASSUME NEW q \in Request, ReadStep(q) PROVE TypeOK'
  BY <1>2, ReadStepFrame, ReadStepType DEF TypeOK
<1>3. ASSUME NEW q \in Request, LockStep(q) PROVE TypeOK'
  <2>1. circuit' \in [Res -> Status] /\ timers' \in [Res -> Nat] /\ stuck' \in SUBSET Res
    BY <1>3, LockStepFrame, TransitionType DEF TypeOK
  <2>2. req' \in [Request -> Busy \cup {Idle}]
    BY <1>3, LockStepFrame, GotoType
  <2>3. QED
    BY <1>3, <2>1, <2>2, LockStepFrame DEF TypeOK
<1>4. ASSUME NEW r \in Res, circuitToHalf(r) PROVE TypeOK'
  BY <1>4 DEF circuitToHalf, TypeOK, Status
<1>5. QED
  BY <1>1, <1>2, <1>3, <1>4, UpdaterType, NextCases

LEMMA InitType ==
  ASSUME Init
  PROVE  TypeOK
<1>1. circuit \in [Res -> Status]
  BY DEF Init, Status
<1>2. cb \in SUBSET Res /\ barrier \in SUBSET Res /\ stuck \in SUBSET Res
  BY CircuitAssumption DEF Init
<1>3. timers \in [Res -> Nat] /\ refreshes \in [Res -> Nat]
  BY DEF Init
<1>4. req \in [Request -> Busy \cup {Idle}]
  BY DEF Init
<1>5. upd \in [stage: Stage \ {"idle"}, res: Res] \cup {NoUpdate} /\ crashed \in BOOLEAN
  BY DEF Init
<1>6. QED
  BY <1>1, <1>2, <1>3, <1>4, <1>5 DEF TypeOK

\* Type correctness: every field of every runtime keeps its type while requests,
\* timer callbacks and in-place updates interleave.
THEOREM TypeCorrect == Spec => []TypeOK
<1>1. Init => TypeOK
  BY InitType
<1>2. QED
  BY <1>1, TypeStep, PTL DEF Spec

-----------------------------------------------------------------------------
LEMMA CbStep ==
  ASSUME TypeOK, CbInv, [Next]_vars
  PROVE  CbInv'
<1> USE CircuitAssumption
<1>1. CASE UNCHANGED vars
  BY <1>1 DEF CbInv, vars
<1>2. ASSUME NEW q \in Request, ReadStep(q) PROVE CbInv'
  BY <1>2, ReadStepFrame DEF CbInv
<1>3. ASSUME NEW q \in Request, LockStep(q) PROVE CbInv'
  <2>1. ASSUME NEW r \in Res, circuitToClose(r) PROVE \A x \in Res : x \notin cb => circuit'[x] = "Open"
    BY <2>1 DEF circuitToClose, CbInv, TypeOK
  <2>2. ASSUME NEW r \in Res, circuitToOpen(r) PROVE \A x \in Res : x \notin cb => circuit'[x] = "Open"
    BY <2>2 DEF circuitToOpen, CbInv, TypeOK
  <2>3. QED
    BY <1>3, <2>1, <2>2, LockStepFrame DEF CbInv
<1>4. ASSUME NEW r \in Res, circuitToHalf(r) PROVE CbInv'
  BY <1>4 DEF circuitToHalf, CbInv, TypeOK
<1>5. ASSUME NEW r \in Res, Wipe(r) PROVE CbInv'
  BY <1>5 DEF Wipe, CbInv, TypeOK
<1>6. CASE Refresh
  BY <1>6 DEF Refresh, SetCb, SetCircuit, SetBarrier, AddToCheck, CbInv, TypeOK
<1>7. QED
  BY <1>1, <1>2, <1>3, <1>4, <1>5, <1>6, NextCases

LEMMA CloseTimerStep ==
  ASSUME TypeOK, CbInv, CloseHasTimer, [Next]_vars
  PROVE  CloseHasTimer'
<1> USE CircuitAssumption
<1>1. CASE UNCHANGED vars
  BY <1>1 DEF CloseHasTimer, vars
<1>2. ASSUME NEW q \in Request, ReadStep(q) PROVE CloseHasTimer'
  BY <1>2, ReadStepFrame DEF CloseHasTimer
<1>3. ASSUME NEW q \in Request, LockStep(q) PROVE CloseHasTimer'
  <2>1. ASSUME NEW r \in Res, circuitToClose(r) PROVE CloseHasTimer'
    BY <2>1 DEF circuitToClose, CloseHasTimer, TypeOK
  <2>2. ASSUME NEW r \in Res, circuitToOpen(r) PROVE CloseHasTimer'
    BY <2>2 DEF circuitToOpen, CloseHasTimer, TypeOK
  <2>3. QED
    BY <1>3, <2>1, <2>2, LockStepFrame DEF CloseHasTimer
<1>4. ASSUME NEW r \in Res, circuitToHalf(r) PROVE CloseHasTimer'
  BY <1>4 DEF circuitToHalf, CloseHasTimer, CbInv, TypeOK
<1>5. ASSUME NEW r \in Res, Wipe(r) PROVE CloseHasTimer'
  BY <1>5 DEF Wipe, CloseHasTimer, TypeOK
<1>6. CASE Refresh
  BY <1>6 DEF Refresh, SetCb, SetCircuit, SetBarrier, AddToCheck, CloseHasTimer, TypeOK
<1>7. QED
  BY <1>1, <1>2, <1>3, <1>4, <1>5, <1>6, NextCases

LEMMA TimersStep ==
  ASSUME TypeOK, CbInv, TimersInv, [Next]_vars
  PROVE  TimersInv'
<1> USE CircuitAssumption
<1>1. CASE UNCHANGED vars
  BY <1>1 DEF TimersInv, ResetsLeft, vars
<1>2. ASSUME NEW q \in Request, ReadStep(q) PROVE TimersInv'
  BY <1>2, ReadStepFrame DEF TimersInv, ResetsLeft
<1>3. ASSUME NEW q \in Request, LockStep(q) PROVE TimersInv'
  <2>0. UNCHANGED <<upd, refreshes>>
    BY <1>3, LockStepFrame
  <2>1. ASSUME NEW r \in Res, circuitToClose(r) PROVE TimersInv'
    BY <2>0, <2>1 DEF circuitToClose, TimersInv, ResetsLeft, TypeOK
  <2>2. ASSUME NEW r \in Res, circuitToOpen(r) PROVE TimersInv'
    BY <2>0, <2>2 DEF circuitToOpen, TimersInv, ResetsLeft, TypeOK
  <2>3. QED
    BY <1>3, <2>0, <2>1, <2>2, LockStepFrame DEF TimersInv, ResetsLeft
<1>4. ASSUME NEW r \in Res, circuitToHalf(r) PROVE TimersInv'
  BY <1>4 DEF circuitToHalf, TimersInv, ResetsLeft, CbInv, TypeOK
<1>5. ASSUME NEW r \in Res, Wipe(r) PROVE TimersInv'
  BY <1>5 DEF Wipe, TimersInv, ResetsLeft, TypeOK, NoUpdate, NoRes
<1>6. CASE Refresh
  <2>1. upd # NoUpdate /\ upd.res \in Res
    BY <1>6 DEF Refresh, SetCb, SetCircuit, SetBarrier, AddToCheck, TypeOK, NoUpdate
  <2>2. CASE SetCb
    BY <2>1, <2>2 DEF SetCb, TimersInv, ResetsLeft, TypeOK
  <2>3. CASE SetCircuit
    BY <2>1, <2>3 DEF SetCircuit, TimersInv, ResetsLeft, TypeOK
  <2>4. CASE SetBarrier
    BY <2>1, <2>4 DEF SetBarrier, TimersInv, ResetsLeft, TypeOK, NoUpdate
  <2>5. CASE AddToCheck
    BY <2>1, <2>5 DEF AddToCheck, TimersInv, ResetsLeft, TypeOK, NoUpdate
  <2>6. QED
    BY <1>6, <2>2, <2>3, <2>4, <2>5 DEF Refresh
<1>7. QED
  BY <1>1, <1>2, <1>3, <1>4, <1>5, <1>6, NextCases

-----------------------------------------------------------------------------
\* The conjunction is inductive.
LEMMA InductiveInvariant == Spec => []IInv
<1>1. Init => IInv
  <2> SUFFICES ASSUME Init PROVE IInv
    OBVIOUS
  <2>1. TypeOK
    BY InitType
  <2>2. CbInv /\ CloseHasTimer
    BY CircuitAssumption DEF Init, CbInv, CloseHasTimer
  <2>3. TimersInv
    BY CircuitAssumption DEF Init, TimersInv, ResetsLeft, NoUpdate
  <2>4. QED
    BY <2>1, <2>2, <2>3 DEF IInv
<1>2. IInv /\ [Next]_vars => IInv'
  BY TypeStep, CbStep, CloseTimerStep, TimersStep DEF IInv
<1>3. QED
  BY <1>1, <1>2, PTL DEF Spec

\* A closed circuit always has a pending circuitToHalf callback, unless
\* circuitToClose waits for its own lock.
THEOREM ClosedIsTimed == Spec => []CloseHasTimer
<1>1. IInv => CloseHasTimer
  BY DEF IInv
<1>2. QED
  BY <1>1, InductiveInvariant, PTL

\* Racing closers never accumulate callbacks beyond what in-place refreshes orphan.
THEOREM TimersAreBounded == Spec => []TimersBounded
<1>1. IInv => TimersBounded
  <2> SUFFICES ASSUME IInv, NEW r \in Res
               PROVE  timers[r] <= 3 * refreshes[r] + (IF circuit[r] = "Close" THEN 1 ELSE 0)
    BY DEF TimersBounded
  <2>1. timers[r] \in Nat /\ refreshes[r] \in Nat /\ ResetsLeft(r) \in {0, 1, 2}
    BY DEF IInv, TypeOK, ResetsLeft
  <2>2. timers[r] + ResetsLeft(r) <= 3 * refreshes[r] + (IF circuit[r] = "Close" THEN 1 ELSE 0)
    BY DEF IInv, TimersInv
  <2>3. QED
    BY <2>1, <2>2
<1>2. QED
  BY <1>1, InductiveInvariant, PTL

\* A stale success never reopens a circuit that was closed meanwhile.
THEOREM ClosedNeverReopens == Spec => NeverCloseToOpen
<1> DEFINE Step == \A r \in Res :
             circuit[r] = "Close" /\ circuit'[r] = "Open" => upd # upd'
<1>1. IInv /\ [Next]_vars => [Step]_vars
  <2> SUFFICES ASSUME IInv, Next, NEW r \in Res, circuit[r] = "Close", circuit'[r] = "Open"
               PROVE  upd # upd'
    OBVIOUS
  <2>0. TypeOK
    BY DEF IInv
  <2>1. ASSUME NEW x \in Res, circuitToClose(x) PROVE FALSE
    BY <2>0, <2>1 DEF circuitToClose, TypeOK
  <2>2. ASSUME NEW x \in Res, circuitToOpen(x) PROVE FALSE
    BY <2>0, <2>2 DEF circuitToOpen, TypeOK
  <2>3. ASSUME NEW q \in Request, ReadStep(q) \/ LockStep(q) PROVE FALSE
    BY <2>0, <2>1, <2>2, <2>3, ReadStepFrame, LockStepFrame
  <2>4. ASSUME NEW x \in Res, circuitToHalf(x) PROVE FALSE
    BY <2>0, <2>4 DEF circuitToHalf, TypeOK
  <2>5. ASSUME NEW x \in Res, Wipe(x) PROVE upd # upd'
    BY <2>5 DEF Wipe
  <2>6. CASE Refresh
    BY <2>0, <2>6 DEF Refresh, SetCb, SetCircuit, SetBarrier, AddToCheck, NoUpdate, TypeOK
  <2>7. QED
    BY <2>3, <2>4, <2>5, <2>6, NextCases
<1>2. QED
  BY <1>1, InductiveInvariant, PTL DEF Spec, NeverCloseToOpen
=============================================================================
