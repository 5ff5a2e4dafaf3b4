--------------------------- MODULE DispatcherProofs ---------------------------
(***************************************************************************)
(* Proofs of the safety properties of Dispatcher for any clusters, servers, *)
(* workers and channel capacity: the tables against the statuses and the   *)
(* store, and the absence of a wait cycle of event loop and check workers. *)
(***************************************************************************)
EXTENDS Dispatcher, FiniteSetTheorems, SequenceTheorems, TLAPS

\* Every step changes the binds like one of five operations.
BindsStep ==
    \/ UNCHANGED <<binds, actives>> /\ \A s \in Server : servers[s] # "absent" => servers'[s] # "absent"
    \/ \E s \in Server :
         /\ servers' = [servers EXCEPT ![s] = "absent"]
         /\ binds' = [c \in Cluster |-> [binds[c] EXCEPT ![s] = NoBind]]
         /\ actives' = [c \in Cluster |-> [actives[c] EXCEPT ![s] = 0]]
    \/ \E c \in Cluster, s \in Server :
         /\ servers[s] = "plain"
         /\ servers' = servers
         /\ binds' = [binds EXCEPT ![c][s]["Up"] = @ + 1]
         /\ actives' = [actives EXCEPT ![c][s] = @ + 1]
    \/ \E c \in Cluster, s \in Server :
         /\ servers[s] # "absent"
         /\ servers' = servers
         /\ binds' = [binds EXCEPT ![c][s]["Unknown"] = @ + 1]
         /\ actives' = actives
    \/ \E c \in Cluster, s \in Server :
         /\ servers' = servers
         /\ binds' = [binds EXCEPT ![c][s] = NoBind]
         /\ actives' = [actives EXCEPT ![c][s] = 0]
    \/ \E s \in Server, status \in Status :
         servers' = servers /\ ChangeStatus(s, status)

LEMMA WorkerSends ==
  ASSUME TypeOK, NEW w \in Worker, worker[w].pc = "send"
  PROVE  worker[w] \in [pc: {"send"}, id: Server, status: Status, hc: BOOLEAN, cur: BOOLEAN]
BY DEF TypeOK, WorkerType, Free

LEMMA StepCases ==
  ASSUME TypeOK, [Next]_vars
  PROVE  BindsStep
<1>1. CASE UNCHANGED vars \/ Admin
  BY <1>1 DEF vars, Admin, PutServer, RemoveServer, PutCluster, RemoveCluster, AddBind,
              RemoveBind, ProxyChange, Change, tables, BindsStep
<1>2. CASE StoreEvent
  <2>1. ASSUME NEW s \in Server, NEW m \in Meta \ {"absent"}, addServer(s, m) \/ updateServer(s, m)
        PROVE BindsStep
    BY <2>1 DEF addServer, updateServer, tables, BindsStep
  <2>2. ASSUME NEW s \in Server, removeServer(s) PROVE BindsStep
    BY <2>2 DEF removeServer, tables, BindsStep
  <2>3. ASSUME NEW c \in Cluster, addCluster(c) \/ updateCluster(c) \/ removeCluster(c)
        PROVE BindsStep
    BY <2>3 DEF addCluster, updateCluster, removeCluster, tables, BindsStep
  <2>4. ASSUME NEW c \in Cluster, NEW s \in Server, addBind(c, s) PROVE BindsStep
    BY <2>4 DEF addBind, tables, BindsStep
  <2>5. ASSUME NEW c \in Cluster, NEW s \in Server, ignoreBind(c, s) \/ removeBind(c, s)
        PROVE BindsStep
    BY <2>5 DEF ignoreBind, removeBind, tables, BindsStep
  <2>6. CASE refreshAllQPS
    BY <2>6 DEF refreshAllQPS, tables, BindsStep
  <2>7. QED
    BY <1>2, <2>1, <2>2, <2>3, <2>4, <2>5, <2>6 DEF StoreEvent
<1>3. CASE Handler
  BY <1>3 DEF Handler, addToCheck, InstallServers, RefreshServer, RefreshWipe,
              RefreshAddToCheck, tables, BindsStep, TypeOK
<1>4. ASSUME NEW w \in Worker, WorkerStep(w) PROVE BindsStep
  BY <1>4 DEF WorkerStep, Check, DoCheck, Reschedule, tables, BindsStep
<1>5. ASSUME NEW w \in Worker, doStatusChangedEvent(w) PROVE BindsStep
  <2>1. worker[w].id \in Server /\ worker[w].status \in Status
    BY <1>5, WorkerSends DEF doStatusChangedEvent
  <2>2. QED
    BY <1>5, <2>1 DEF doStatusChangedEvent, BindsStep
<1>6. ASSUME NEW s \in Server, heathCheckTimeout(s) PROVE BindsStep
  BY <1>6 DEF heathCheckTimeout, tables, BindsStep
<1>7. QED
  BY <1>1, <1>2, <1>3, <1>4, <1>5, <1>6 DEF Next

-----------------------------------------------------------------------------
(* The invariants on the binds.                                            *)

LEMMA ActivesStep ==
  ASSUME TypeOK, ActivesMatchUp, BindsStep
  PROVE  ActivesMatchUp'
<1> USE DEF TypeOK, ActivesMatchUp
<1>1. CASE UNCHANGED <<binds, actives>>
  BY <1>1
<1>2. ASSUME NEW s \in Server,
             binds' = [c \in Cluster |-> [binds[c] EXCEPT ![s] = NoBind]],
             actives' = [c \in Cluster |-> [actives[c] EXCEPT ![s] = 0]]
      PROVE  ActivesMatchUp'
  BY <1>2 DEF NoBind, Status
<1>3. ASSUME NEW c \in Cluster, NEW s \in Server,
             binds' = [binds EXCEPT ![c][s]["Up"] = @ + 1],
             actives' = [actives EXCEPT ![c][s] = @ + 1]
      PROVE  ActivesMatchUp'
  BY <1>3 DEF Status
<1>4. ASSUME NEW c \in Cluster, NEW s \in Server,
             binds' = [binds EXCEPT ![c][s]["Unknown"] = @ + 1],
             actives' = actives
      PROVE  ActivesMatchUp'
  <2>1. \A d \in Cluster, x \in Server : binds'[d][x]["Up"] = binds[d][x]["Up"]
    BY <1>4 DEF Status
  <2>2. QED
    BY <1>4, <2>1
<1>5. ASSUME NEW c \in Cluster, NEW s \in Server,
             binds' = [binds EXCEPT ![c][s] = NoBind],
             actives' = [actives EXCEPT ![c][s] = 0]
      PROVE  ActivesMatchUp'
  BY <1>5 DEF NoBind, Status
<1>6. ASSUME NEW s \in Server, NEW status \in Status, ChangeStatus(s, status)
      PROVE  ActivesMatchUp'
  <2> SUFFICES ASSUME NEW c \in Cluster, NEW x \in Server
               PROVE  actives'[c][x] > 0 <=> binds'[c][x]["Up"] > 0
    OBVIOUS
  <2>1. CASE x # s \/ ~Bound(c, s)
    <3>1. actives'[c][x] = actives[c][x] /\ binds'[c][x] = binds[c][x]
      BY <1>6, <2>1 DEF ChangeStatus
    <3>2. QED
      BY <3>1
  <2>2. CASE x = s /\ Bound(c, s)
    <3>1. /\ actives'[c][x] = (IF status = "Up" THEN actives[c][x] + 1 ELSE 0)
          /\ binds'[c][x]["Up"] = (IF status = "Up" THEN Entries(c, s) ELSE 0)
      BY <1>6, <2>2 DEF ChangeStatus, Status
    <3>2. Entries(c, s) > 0
      BY <2>2 DEF Bound, Entries, Status
    <3>3. QED
      BY <3>1, <3>2
  <2>3. QED
    BY <2>1, <2>2
<1>7. QED
  BY <1>1, <1>2, <1>3, <1>4, <1>5, <1>6 DEF BindsStep

LEMMA KnownStep ==
  ASSUME TypeOK, BindsOnKnownServers, BindsStep
  PROVE  BindsOnKnownServers'
<1> USE DEF TypeOK, BindsOnKnownServers, Bound
<1>1. CASE /\ UNCHANGED <<binds, actives>>
           /\ \A s \in Server : servers[s] # "absent" => servers'[s] # "absent"
  BY <1>1
<1>2. ASSUME NEW s \in Server,
             servers' = [servers EXCEPT ![s] = "absent"],
             binds' = [c \in Cluster |-> [binds[c] EXCEPT ![s] = NoBind]]
      PROVE  BindsOnKnownServers'
  BY <1>2 DEF NoBind
<1>3. ASSUME NEW c \in Cluster, NEW s \in Server, servers[s] # "absent", servers' = servers,
             NEW st \in Status, binds' = [binds EXCEPT ![c][s][st] = @ + 1]
      PROVE  BindsOnKnownServers'
  BY <1>3
<1>4. ASSUME NEW c \in Cluster, NEW s \in Server, servers' = servers,
             binds' = [binds EXCEPT ![c][s] = NoBind]
      PROVE  BindsOnKnownServers'
  BY <1>4 DEF NoBind
<1>5. ASSUME NEW s \in Server, NEW status \in Status, servers' = servers, ChangeStatus(s, status)
      PROVE  BindsOnKnownServers'
  <2> SUFFICES ASSUME NEW c \in Cluster, NEW x \in Server, ~Bound(c, x)
               PROVE  binds'[c][x] = binds[c][x]
    BY <1>5
  <2>1. QED
    BY <1>5 DEF ChangeStatus
<1>6. QED
  BY <1>1, <1>2, <1>3, <1>4, <1>5 DEF BindsStep, Status

-----------------------------------------------------------------------------
(* The type invariant.                                                     *)

LEMMA TablesStep ==
  ASSUME TypeOK, BindsStep
  PROVE  /\ binds' \in [Cluster -> [Server -> [Status -> Nat]]]
         /\ actives' \in [Cluster -> [Server -> Nat]]
<1> USE DEF TypeOK
<1>1. NoBind \in [Status -> Nat]
  BY DEF NoBind
<1>2. ASSUME NEW s \in Server,
             binds' = [c \in Cluster |-> [binds[c] EXCEPT ![s] = NoBind]],
             actives' = [c \in Cluster |-> [actives[c] EXCEPT ![s] = 0]]
      PROVE  /\ binds' \in [Cluster -> [Server -> [Status -> Nat]]]
             /\ actives' \in [Cluster -> [Server -> Nat]]
  BY <1>1, <1>2
<1>3. ASSUME NEW c \in Cluster, NEW s \in Server, NEW st \in Status,
             binds' = [binds EXCEPT ![c][s][st] = @ + 1],
             actives' = actives \/ actives' = [actives EXCEPT ![c][s] = @ + 1]
      PROVE  /\ binds' \in [Cluster -> [Server -> [Status -> Nat]]]
             /\ actives' \in [Cluster -> [Server -> Nat]]
  <2>1. [binds[c][s] EXCEPT ![st] = @ + 1] \in [Status -> Nat]
    OBVIOUS
  <2>2. binds' \in [Cluster -> [Server -> [Status -> Nat]]]
    BY <1>3, <2>1
  <2>3. actives' \in [Cluster -> [Server -> Nat]]
    <3>1. [actives[c] EXCEPT ![s] = @ + 1] \in [Server -> Nat]
      OBVIOUS
    <3>2. QED
      BY <1>3, <3>1
  <2>4. QED
    BY <2>2, <2>3
<1>4. ASSUME NEW c \in Cluster, NEW s \in Server,
             binds' = [binds EXCEPT ![c][s] = NoBind],
             actives' = [actives EXCEPT ![c][s] = 0]
      PROVE  /\ binds' \in [Cluster -> [Server -> [Status -> Nat]]]
             /\ actives' \in [Cluster -> [Server -> Nat]]
  BY <1>1, <1>4
<1>5. ASSUME NEW s \in Server, NEW status \in Status, ChangeStatus(s, status)
      PROVE  /\ binds' \in [Cluster -> [Server -> [Status -> Nat]]]
             /\ actives' \in [Cluster -> [Server -> Nat]]
  <2>1. \A c \in Cluster : Entries(c, s) \in Nat
    BY DEF Entries, Status
  <2>2. \A c \in Cluster : [st \in Status |-> IF st = status THEN Entries(c, s) ELSE 0] \in [Status -> Nat]
    BY <2>1
  <2>3. binds' \in [Cluster -> [Server -> [Status -> Nat]]]
    BY <1>5, <2>2 DEF ChangeStatus
  <2>4. actives' \in [Cluster -> [Server -> Nat]]
    BY <1>5 DEF ChangeStatus
  <2>5. QED
    BY <2>3, <2>4
<1>6. QED
  BY <1>2, <1>3, <1>4, <1>5 DEF BindsStep, Status

\* The administrator's changes append well-formed events.
LEMMA AdminType ==
  ASSUME TypeOK, Admin
  PROVE  TypeOK'
<1> USE DEF TypeOK
<1>0. ASSUME NEW e \in Seq(Event), Change(e)
      PROVE  evtQ' \in Seq(Event) /\ ops' \in Nat /\ UNCHANGED <<tables, loop, health>>
  BY <1>0 DEF Change
<1>1. ASSUME NEW e \in Event, Change(<<e>>)
      PROVE  evtQ' \in Seq(Event) /\ ops' \in Nat /\ UNCHANGED <<tables, loop, health>>
  <2>1. <<e>> \in Seq(Event)
    BY <1>1
  <2>2. QED
    BY <1>0, <1>1, <2>1
<1>2. ASSUME NEW s \in Server, NEW m \in Meta \ {"absent"}, PutServer(s, m) PROVE TypeOK'
  <2>1. \A t \in {"New", "Update"} : ServerEvt(t, s, m) \in Event
    BY DEF ServerEvt, Event
  <2>2. QED
    BY <1>1, <1>2, <2>1 DEF PutServer, tables, health
<1>3. ASSUME NEW s \in Server, RemoveServer(s) PROVE TypeOK'
  <2>1. ServerDel(s) \in Event
    BY DEF ServerDel, Event
  <2>2. QED
    BY <1>1, <1>3, <2>1 DEF RemoveServer, tables, health, Meta
<1>4. ASSUME NEW c \in Cluster, PutCluster(c) PROVE TypeOK'
  <2>1. \A t \in {"New", "Update"} : ClusterEvt(t, c) \in Event
    BY DEF ClusterEvt, Event
  <2>2. QED
    BY <1>1, <1>4, <2>1 DEF PutCluster, tables, health
<1>5. ASSUME NEW c \in Cluster, RemoveCluster(c) PROVE TypeOK'
  <2> DEFINE bound == {s \in Server : <<c, s>> \in stBinds}
             n == Cardinality(bound)
  <2>1. n \in Nat
    <3>1. IsFiniteSet(bound)
      BY DispatcherAssumption, FS_Subset
    <3>2. QED
      BY <3>1, FS_CardinalityType
  <2>2. PICK order \in [1..n -> bound] :
          Change(<<ClusterEvt("Delete", c)>> \o [i \in 1..n |-> BindEvt("Delete", c, order[i])])
    BY <1>5 DEF RemoveCluster
  <2>3. \A s \in Server : BindEvt("Delete", c, s) \in Event
    BY DEF BindEvt, Event
  <2>4. [i \in 1..n |-> BindEvt("Delete", c, order[i])] \in Seq(Event)
    <3>1. \A i \in 1..n : BindEvt("Delete", c, order[i]) \in Event
      BY <2>3
    <3> HIDE DEF n
    <3>2. QED
      BY <2>1, <3>1, IsASeq
  <2>5. <<ClusterEvt("Delete", c)>> \in Seq(Event)
    BY DEF ClusterEvt, Event
  <2>6. <<ClusterEvt("Delete", c)>> \o [i \in 1..n |-> BindEvt("Delete", c, order[i])] \in Seq(Event)
    <3> HIDE DEF n
    <3>1. QED
      BY <2>4, <2>5, ConcatProperties
  <2>7. evtQ' \in Seq(Event) /\ ops' \in Nat /\ UNCHANGED <<tables, loop, health>>
    BY <1>0, <2>2, <2>6
  <2>8. QED
    BY <1>5, <2>7 DEF RemoveCluster, tables, health
<1>6. ASSUME NEW c \in Cluster, NEW s \in Server, AddBind(c, s) \/ RemoveBind(c, s) PROVE TypeOK'
  <2>1. \A t \in {"New", "Update", "Delete"} : BindEvt(t, c, s) \in Event
    BY DEF BindEvt, Event
  <2>2. QED
    BY <1>1, <1>6, <2>1 DEF AddBind, RemoveBind, tables, health
<1>7. CASE ProxyChange
  <2>1. ProxyEvt \in Event
    BY DEF ProxyEvt, Event
  <2>2. QED
    BY <1>1, <1>7, <2>1 DEF ProxyChange, tables, health
<1>8. QED
  BY <1>2, <1>3, <1>4, <1>5, <1>6, <1>7 DEF Admin

\* Clearing cur keeps a worker well typed.
LEMMA CloneType ==
  ASSUME TypeOK, NEW stopped, CloneAll(stopped)
  PROVE  /\ worker' \in [Worker -> WorkerType]
         /\ armed' \in SUBSET Server
         /\ orphans' \in [Server -> Nat]
<1>1. \A x \in WorkerType : x # Free => [x EXCEPT !.cur = FALSE] \in WorkerType
  BY DEF WorkerType, Free
<1>2. worker' \in [Worker -> WorkerType]
  <2>1. Free \in WorkerType
    BY DEF WorkerType
  <2>2. QED
    BY <1>1, <2>1 DEF CloneAll, TypeOK
<1>3. armed' \in SUBSET Server /\ orphans' \in [Server -> Nat]
  BY DEF CloneAll, TypeOK
<1>4. QED
  BY <1>2, <1>3

LEMMA StoreEventType ==
  ASSUME TypeOK, StoreEvent
  PROVE  TypeOK'
<1> USE DEF TypeOK
<1>0. ASSUME NEW e, Receive(e)
      PROVE  evtQ' \in Seq(Event) /\ UNCHANGED store
  BY <1>0 DEF Receive
<1>1. /\ binds' \in [Cluster -> [Server -> [Status -> Nat]]]
      /\ actives' \in [Cluster -> [Server -> Nat]]
  BY StepCases, TablesStep DEF Next
<1>2. ASSUME NEW s \in Server, NEW m \in Meta \ {"absent"}, addServer(s, m) \/ updateServer(s, m)
      PROVE  TypeOK'
  <2>1. Pushing(s, m) \in LoopType /\ Waiting \in LoopType
    BY DEF Pushing, LoopType
  <2>2. QED
    BY <1>0, <1>2, <2>1 DEF addServer, updateServer, tables, health, store
<1>3. ASSUME NEW s \in Server, removeServer(s) PROVE TypeOK'
  <2>1. CASE servers[s] = "absent"
    BY <1>0, <1>3, <2>1 DEF removeServer, tables, health, store
  <2>2. CASE servers[s] # "absent"
    BY <1>0, <1>1, <1>3, <2>2, CloneType DEF removeServer, store, Meta
  <2>3. QED
    BY <2>1, <2>2
<1>4. ASSUME NEW c \in Cluster, addCluster(c) \/ updateCluster(c) \/ removeCluster(c) PROVE TypeOK'
  BY <1>0, <1>4 DEF addCluster, updateCluster, removeCluster, tables, health, store
<1>5. ASSUME NEW c \in Cluster, NEW s \in Server,
             addBind(c, s) \/ ignoreBind(c, s) \/ removeBind(c, s)
      PROVE  TypeOK'
  <2>1. UNCHANGED <<clusters, servers, loop, health>>
    BY <1>5 DEF addBind, ignoreBind, removeBind, tables
  <2>2. evtQ' \in Seq(Event) /\ UNCHANGED store
    BY <1>0, <1>5 DEF addBind, ignoreBind, removeBind
  <2>3. QED
    BY <1>1, <2>1, <2>2 DEF health, store
<1>6. CASE refreshAllQPS
  <2>1. Refreshing({s \in Server : servers[s] # "absent"}) \in LoopType
    BY DEF Refreshing, LoopType
  <2>2. QED
    BY <1>0, <1>6, <2>1 DEF refreshAllQPS, tables, health, store
<1>7. QED
  BY <1>2, <1>3, <1>4, <1>5, <1>6 DEF StoreEvent

LEMMA HandlerType ==
  ASSUME TypeOK, Handler
  PROVE  TypeOK'
<1> USE DEF TypeOK
<1>1. CASE addToCheck
  <2>1. PICK s \in Server, m \in Meta \ {"absent"} :
          checkerC' = Append(checkerC, s) /\ loop' = Installing(s, m)
    BY <1>1 DEF addToCheck
  <2>2. Installing(s, m) \in LoopType
    BY DEF Installing, LoopType
  <2>3. QED
    BY <1>1, <2>1, <2>2 DEF addToCheck, store, tables
<1>2. CASE InstallServers
  <2>1. Waiting \in LoopType
    BY DEF LoopType
  <2>2. /\ worker' \in [Worker -> WorkerType]
        /\ armed' \in SUBSET Server
        /\ orphans' \in [Server -> Nat]
    BY <1>2, CloneType DEF InstallServers
  <2>3. QED
    BY <1>2, <2>1, <2>2 DEF InstallServers, store
<1>3. CASE RefreshServer
  <2>1. loop.todo \in SUBSET Server
    BY <1>3 DEF RefreshServer, LoopType, Waiting
  <2>2. \A s \in loop.todo : RefreshWiping(s, loop.todo \ {s}) \in LoopType
    BY <2>1 DEF RefreshWiping, LoopType
  <2>3. Waiting \in LoopType
    BY DEF LoopType
  <2>4. loop' \in LoopType /\ armed' \in SUBSET Server
    BY <1>3, <2>2, <2>3 DEF RefreshServer
  <2>5. QED
    BY <1>3, <2>4 DEF RefreshServer, store, tables
<1>4. CASE RefreshAddToCheck
  <2>1. loop.todo \in SUBSET Server /\ loop.id \in Server
    BY <1>4 DEF RefreshAddToCheck, LoopType, Waiting
  <2>2. Refreshing(loop.todo) \in LoopType
    BY <2>1 DEF Refreshing, LoopType
  <2>3. QED
    BY <1>4, <2>1, <2>2 DEF RefreshAddToCheck, store, tables
<1>5. CASE RefreshWipe
  <2>1. loop.todo \in SUBSET Server /\ loop.id \in Server
    BY <1>5 DEF RefreshWipe, LoopType, Waiting
  <2>2. RefreshPush(loop.id, loop.todo) \in LoopType
    BY <2>1 DEF RefreshPush, LoopType
  <2>3. orphans' \in [Server -> Nat] /\ armed' \in SUBSET Server
    BY <1>5, <2>1 DEF RefreshWipe
  <2>4. QED
    BY <1>5, <2>2, <2>3 DEF RefreshWipe, store, tables
<1>6. QED
  BY <1>1, <1>2, <1>3, <1>4, <1>5 DEF Handler

LEMMA WorkerStepType ==
  ASSUME TypeOK, NEW w \in Worker, WorkerStep(w) \/ doStatusChangedEvent(w)
  PROVE  TypeOK'
<1> USE DEF TypeOK
<1>0. ASSUME NEW x \in WorkerType, worker' = [worker EXCEPT ![w] = x]
      PROVE  worker' \in [Worker -> WorkerType]
  BY <1>0
<1>1. CASE Check(w)
  <2> DEFINE s == Head(checkerC)
  <2>1. s \in Server /\ checkerC' \in Seq(Server)
    BY <1>1 DEF Check
  <2>2. [pc |-> "send", id |-> s, status |-> "Up", hc |-> FALSE, cur |-> TRUE] \in WorkerType
    BY <2>1 DEF WorkerType, Status
  <2>3. \A prev \in Status : [pc |-> "probe", id |-> s, prev |-> prev, cur |-> TRUE] \in WorkerType
    BY <2>1 DEF WorkerType
  <2>4. ServerStatus(s) \subseteq Status
    BY DEF ServerStatus, Status
  <2>5. worker' \in [Worker -> WorkerType]
    <3>1. CASE UNCHANGED worker
      BY <3>1
    <3>2. CASE servers[s] = "plain" /\ worker' = [worker EXCEPT ![w] =
                 [pc |-> "send", id |-> s, status |-> "Up", hc |-> FALSE, cur |-> TRUE]]
      BY <1>0, <2>2, <3>2
    <3>3. ASSUME NEW prev \in ServerStatus(s),
                 worker' = [worker EXCEPT ![w] =
                   [pc |-> "probe", id |-> s, prev |-> prev, cur |-> TRUE]]
          PROVE  worker' \in [Worker -> WorkerType]
      <4>1. [pc |-> "probe", id |-> s, prev |-> prev, cur |-> TRUE] \in WorkerType
        BY <2>3, <2>4
      <4>2. QED
        BY <1>0, <3>3, <4>1
    <3>4. QED
      BY <1>1, <3>1, <3>2, <3>3 DEF Check
  <2>6. QED
    BY <1>1, <2>1, <2>5 DEF Check, store, tables
<1>2. CASE DoCheck(w)
  <2>1. worker[w] \in [pc: {"probe"}, id: Server, prev: Status, cur: BOOLEAN]
    BY <1>2 DEF DoCheck, WorkerType, Free
  <2>2. \A status \in {"Up", "Down"} :
          [pc |-> "send", id |-> worker[w].id, status |-> status,
           hc |-> TRUE, cur |-> worker[w].cur] \in WorkerType
    BY <2>1 DEF WorkerType, Status
  <2>3. [pc |-> "resched", id |-> worker[w].id, cur |-> worker[w].cur] \in WorkerType
    BY <2>1 DEF WorkerType
  <2>4. worker' \in [Worker -> WorkerType]
    BY <1>2, <2>2, <2>3 DEF DoCheck
  <2>5. QED
    BY <1>2, <2>4 DEF DoCheck, store, tables
<1>3. CASE Reschedule(w)
  <2>1. worker[w] \in [pc: {"resched"}, id: Server, cur: BOOLEAN]
    BY <1>3 DEF Reschedule, WorkerType, Free
  <2>2. Free \in WorkerType
    BY DEF WorkerType
  <2>3. QED
    BY <1>3, <2>1, <2>2 DEF Reschedule, store, tables
<1>4. CASE doStatusChangedEvent(w)
  <2>1. worker[w] \in [pc: {"send"}, id: Server, status: Status, hc: BOOLEAN, cur: BOOLEAN]
    BY <1>4, WorkerSends DEF doStatusChangedEvent
  <2>2. [pc |-> "resched", id |-> worker[w].id, cur |-> worker[w].cur] \in WorkerType
    BY <2>1 DEF WorkerType
  <2>3. Free \in WorkerType
    BY DEF WorkerType
  <2>4. worker' \in [Worker -> WorkerType]
    BY <1>4, <2>2, <2>3 DEF doStatusChangedEvent
  <2>5. /\ binds' \in [Cluster -> [Server -> [Status -> Nat]]]
        /\ actives' \in [Cluster -> [Server -> Nat]]
    BY <1>4, StepCases, TablesStep DEF Next
  <2>6. QED
    BY <1>4, <2>4, <2>5 DEF doStatusChangedEvent, store
<1>5. QED
  BY <1>1, <1>2, <1>3, <1>4 DEF WorkerStep

LEMMA TypeStep ==
  ASSUME TypeOK, [Next]_vars
  PROVE  TypeOK'
<1>1. CASE UNCHANGED vars
  BY <1>1 DEF TypeOK, vars, store, tables, health
<1>2. ASSUME NEW s \in Server, heathCheckTimeout(s) PROVE TypeOK'
  <2>1. armed' \in SUBSET Server /\ orphans' \in [Server -> Nat]
    <3>1. CASE s \in armed /\ armed' = armed \ {s} /\ UNCHANGED orphans
      BY <3>1 DEF TypeOK
    <3>2. CASE /\ orphans[s] > 0
               /\ orphans' = [orphans EXCEPT ![s] = orphans[s] - 1]
               /\ UNCHANGED armed
      <4>1. orphans[s] - 1 \in Nat
        BY <3>2 DEF TypeOK
      <4>2. QED
        BY <3>2, <4>1 DEF TypeOK
    <3>3. QED
      BY <1>2, <3>1, <3>2 DEF heathCheckTimeout
  <2>2. checkerC' \in Seq(Server)
    <3>1. checkerC \in Seq(Server) /\ Append(checkerC, s) \in Seq(Server)
      BY AppendProperties DEF TypeOK
    <3>2. QED
      BY <1>2, <3>1 DEF heathCheckTimeout
  <2>3. UNCHANGED <<store, evtQ, tables, loop, worker>>
    BY <1>2 DEF heathCheckTimeout
  <2>4. QED
    BY <2>1, <2>2, <2>3 DEF TypeOK, store, tables
<1>3. QED
  BY <1>1, <1>2, AdminType, StoreEventType, HandlerType, WorkerStepType DEF Next

LEMMA InitType ==
  ASSUME Init
  PROVE  TypeOK /\ ActivesMatchUp /\ BindsOnKnownServers
<1>1. stServers \in [Server -> Meta] /\ servers \in [Server -> Meta]
  BY DEF Init, Meta
<1>2. binds \in [Cluster -> [Server -> [Status -> Nat]]] /\ actives \in [Cluster -> [Server -> Nat]]
  BY DEF Init, NoBind
<1>3. loop \in LoopType /\ worker \in [Worker -> WorkerType] /\ orphans \in [Server -> Nat]
  BY DEF Init, LoopType, WorkerType
<1>4. TypeOK
  BY <1>1, <1>2, <1>3 DEF Init, TypeOK
<1>5. ActivesMatchUp /\ BindsOnKnownServers
  BY DEF Init, ActivesMatchUp, BindsOnKnownServers, Bound, NoBind, Status
<1>6. QED
  BY <1>4, <1>5

\* Type correctness of the store, the tables, the event loop, the channel, the
\* workers and the timers.
THEOREM TypeCorrect == Spec => []TypeOK
<1>1. Init => TypeOK
  BY InitType
<1>2. QED
  BY <1>1, TypeStep, PTL DEF Spec

\* The list the load balancer reads holds exactly the servers with a bind that is
\* Up, for any interleaving of store events, status events and health checks.
THEOREM ActivesAreUp == Spec => []ActivesMatchUp
<1>1. Init => ActivesMatchUp
  BY InitType
<1>2. TypeOK /\ ActivesMatchUp /\ [Next]_vars => ActivesMatchUp'
  BY StepCases, ActivesStep
<1>3. QED
  BY <1>1, <1>2, TypeCorrect, PTL DEF Spec

\* A bind always names a server of the table: late status events never revive a
\* removed server.
THEOREM BindsAreKnown == Spec => []BindsOnKnownServers
<1>1. Init => BindsOnKnownServers
  BY InitType
<1>2. TypeOK /\ BindsOnKnownServers /\ [Next]_vars => BindsOnKnownServers'
  BY StepCases, KnownStep
<1>3. QED
  BY <1>1, <1>2, TypeCorrect, PTL DEF Spec
-----------------------------------------------------------------------------
(* Convergence.  A table alone does not say whether it is right: events    *)
(* that wait in the queue will still change it.  The invariant therefore   *)
(* speaks of a history, one state of a key per event waiting, that leads   *)
(* from the table to the store.                                            *)

\* What event e makes of key id of directory src: New finds it absent, Update and Delete
\* find it present; other events leave it.
Value == Meta \cup {"known"}
Becomes(e) ==
    IF e.type = "Delete" THEN "absent" ELSE IF e.src = "server" THEN e.meta ELSE "known"
Makes(e, src, id, v, w) ==
    IF e.src = src /\ e.id = id
    THEN (e.type = "New" <=> v = "absent") /\ w = Becomes(e)
    ELSE w = v

\* The events evts take the key from first to last.
History(evts, src, id, first, last) ==
    \E h \in [1..(Len(evts) + 1) -> Value] :
        /\ h[1] = first
        /\ h[Len(evts) + 1] = last
        /\ \A i \in 1..Len(evts) : Makes(evts[i], src, id, h[i], h[i + 1])

LEMMA EmptyHistory ==
  ASSUME NEW src, NEW id, NEW v \in Value
  PROVE  History(<<>>, src, id, v, v)
<1> DEFINE h == [i \in 1..1 |-> v]
<1>1. h \in [1..(Len(<<>>) + 1) -> Value] /\ h[1] = v /\ h[Len(<<>>) + 1] = v
  OBVIOUS
<1> HIDE DEF h
<1>2. \A i \in 1..Len(<<>>) : Makes(<<>>[i], src, id, h[i], h[i + 1])
  <2>1. 1..Len(<<>>) = {}
    OBVIOUS
  <2>2. QED
    BY <2>1
<1>3. QED
  BY <1>1, <1>2 DEF History

LEMMA EndOfHistory ==
  ASSUME NEW src, NEW id, NEW v, NEW w, History(<<>>, src, id, v, w)
  PROVE  v = w
BY DEF History

\* A change appends its event, and after it events of other directories.
LEMMA HistoryGrows ==
  ASSUME NEW q \in Seq(Event), NEW evts \in Seq(Event), Len(evts) >= 1, NEW src, NEW id,
         NEW v, NEW w, NEW u \in Value, History(q, src, id, v, w),
         Makes(evts[1], src, id, w, u), \A i \in 2..Len(evts) : evts[i].src # src
  PROVE  History(q \o evts, src, id, v, u)
<1> DEFINE n == Len(q)
           m == Len(evts)
           all == q \o evts
<1>1. /\ n \in Nat /\ m \in Nat /\ Len(all) = n + m
      /\ \A i \in 1..n : all[i] = q[i]
      /\ \A i \in 1..m : all[n + i] = evts[i]
  BY ConcatProperties
<1>2. PICK h \in [1..(n + 1) -> Value] :
        h[1] = v /\ h[n + 1] = w /\ \A i \in 1..n : Makes(q[i], src, id, h[i], h[i + 1])
  BY DEF History
<1> DEFINE k == [i \in 1..(n + m + 1) |-> IF i <= n + 1 THEN h[i] ELSE u]
<1> HIDE DEF n, m, all
<1>3. k \in [1..(n + m + 1) -> Value] /\ k[1] = v /\ k[n + m + 1] = u
  BY <1>1, <1>2 DEF m
<1>4. ASSUME NEW i \in 1..(n + m) PROVE Makes(all[i], src, id, k[i], k[i + 1])
  <2>1. CASE i <= n
    <3>1. all[i] = q[i] /\ k[i] = h[i] /\ k[i + 1] = h[i + 1] /\ i \in 1..n
      BY <1>1, <2>1
    <3>2. QED
      BY <1>2, <3>1
  <2>2. CASE i = n + 1
    <3>1. all[i] = evts[1] /\ k[i] = w /\ k[i + 1] = u
      BY <1>1, <1>2, <2>2
    <3>2. QED
      BY <3>1
  <2>3. CASE i > n + 1
    <3>1. i - n \in 2..m /\ i - n \in 1..m /\ i = n + (i - n)
      BY <1>1, <2>3
    <3>2. all[i].src # src
      BY <1>1, <3>1 DEF m
    <3>3. k[i] = u /\ k[i + 1] = u
      BY <1>1, <2>3
    <3>4. QED
      BY <3>2, <3>3 DEF Makes
  <2>4. QED
    BY <1>1, <2>1, <2>2, <2>3
<1>5. QED
  BY <1>1, <1>3, <1>4 DEF History, all

\* A receive takes the first event off.
LEMMA HistoryShrinks ==
  ASSUME NEW q \in Seq(Event), q # <<>>, NEW src, NEW id, NEW v, NEW w,
         History(q, src, id, v, w)
  PROVE  \E u \in Value : Makes(Head(q), src, id, v, u) /\ History(Tail(q), src, id, u, w)
<1> DEFINE n == Len(q)
<1>1. /\ n \in Nat \ {0} /\ Len(Tail(q)) = n - 1 /\ Head(q) = q[1]
      /\ \A i \in 1..(n - 1) : Tail(q)[i] = q[i + 1]
  BY EmptySeq, HeadTailProperties
<1>2. PICK h \in [1..(n + 1) -> Value] :
        h[1] = v /\ h[n + 1] = w /\ \A i \in 1..n : Makes(q[i], src, id, h[i], h[i + 1])
  BY DEF History
<1> DEFINE k == [i \in 1..n |-> h[i + 1]]
<1> HIDE DEF n
<1>3. k \in [1..n -> Value] /\ k[1] = h[2] /\ h[2] \in Value /\ k[n] = w
  BY <1>1, <1>2
<1>4. Makes(Head(q), src, id, v, h[2])
  <2>1. Makes(q[1], src, id, h[1], h[1 + 1])
    BY <1>1, <1>2
  <2>2. QED
    BY <1>1, <1>2, <2>1
<1>5. ASSUME NEW i \in 1..(n - 1) PROVE Makes(Tail(q)[i], src, id, k[i], k[i + 1])
  <2>1. i + 1 \in 1..n /\ i \in 1..n /\ k[i] = h[i + 1] /\ k[i + 1] = h[(i + 1) + 1]
    BY <1>1
  <2>2. QED
    BY <1>1, <1>2, <2>1
<1>6. (n - 1) + 1 = n
  BY <1>1
<1>7. History(Tail(q), src, id, h[2], w)
  BY <1>1, <1>3, <1>5, <1>6 DEF History
<1>8. QED
  BY <1>3, <1>4, <1>7

\* The meta that the table has of s, or will have when the handler that the event loop is
\* in installs it; whether c is known.
Heading(s) == IF loop.pc \in {"push", "install"} /\ loop.id = s THEN loop.meta ELSE servers[s]
Known(C, c) == IF c \in C THEN "known" ELSE "absent"

FollowInv ==
    /\ \A s \in Server : History(evtQ, "server", s, Heading(s), stServers[s])
    /\ \A c \in Cluster : History(evtQ, "cluster", c, Known(clusters, c), Known(stClusters, c))

\* The administrator changes the store and the watch brings the event; the event loop
\* does what an event says; or neither store nor tables change, except that a table is
\* installed.
Changes(evts) ==
    /\ evts \in Seq(Event) /\ Len(evts) >= 1
    /\ evtQ' = evtQ \o evts
    /\ \A s \in Server : Makes(evts[1], "server", s, stServers[s], stServers'[s])
    /\ \A c \in Cluster :
          Makes(evts[1], "cluster", c, Known(stClusters, c), Known(stClusters', c))
    /\ \A i \in 2..Len(evts) : evts[i].src = "bind"
    /\ UNCHANGED <<tables, loop>>
Receives(e) ==
    /\ Receive(e)
    /\ \A s \in Server, v \in Value : Makes(e, "server", s, Heading(s), v) => Heading(s)' = v
    /\ \A c \in Cluster, v \in Value :
          Makes(e, "cluster", c, Known(clusters, c), v) => Known(clusters', c) = v
Installs ==
    /\ UNCHANGED <<store, evtQ, clusters>>
    /\ \A s \in Server : Heading(s)' = Heading(s)

LEMMA OneFirst ==
  ASSUME NEW one \in Seq(Event), NEW rest \in Seq(Event), Len(one) = 1
  PROVE  /\ one \o rest \in Seq(Event) /\ Len(one \o rest) = 1 + Len(rest)
         /\ (one \o rest)[1] = one[1]
         /\ \A i \in 2..(1 + Len(rest)) : (one \o rest)[i] = rest[i - 1]
<1> DEFINE all == one \o rest
<1>0. Len(rest) \in Nat
  OBVIOUS
<1>1. /\ all \in Seq(Event)
      /\ Len(all) = Len(one) + Len(rest)
      /\ \A i \in 1..(Len(one) + Len(rest)) :
            all[i] = IF i <= Len(one) THEN one[i] ELSE rest[i - Len(one)]
  BY ConcatProperties, Zenon
<1> HIDE DEF all
<1>2. Len(all) = 1 + Len(rest) /\ all[1] = one[1]
  BY <1>0, <1>1
<1>3. \A i \in 2..(1 + Len(rest)) : all[i] = rest[i - 1]
  BY <1>0, <1>1
<1>4. QED
  BY <1>1, <1>2, <1>3 DEF all

LEMMA AdminChanges ==
  ASSUME TypeOK, Admin
  PROVE  \E evts : Changes(evts)
<1>1. ASSUME NEW e \in Event, Change(<<e>>),
             \A s \in Server : Makes(e, "server", s, stServers[s], stServers'[s]),
             \A c \in Cluster :
                Makes(e, "cluster", c, Known(stClusters, c), Known(stClusters', c))
      PROVE  Changes(<<e>>)
  <2>1. <<e>> \in Seq(Event) /\ Len(<<e>>) = 1 /\ <<e>>[1] = e
    OBVIOUS
  <2>2. QED
    BY <1>1, <2>1 DEF Changes, Change
<1>2. ASSUME NEW s \in Server, NEW m \in Meta \ {"absent"}, PutServer(s, m)
      PROVE  \E evts : Changes(evts)
  <2>1. PICK t \in {"New", "Update"} :
          /\ t = "New" <=> stServers[s] = "absent"
          /\ Change(<<ServerEvt(t, s, m)>>)
    BY <1>2 DEF PutServer
  <2>2. ServerEvt(t, s, m) \in Event
    BY DEF ServerEvt, Event
  <2>3. \A x \in Server : Makes(ServerEvt(t, s, m), "server", x, stServers[x], stServers'[x])
    BY <1>2, <2>1 DEF PutServer, Makes, Becomes, ServerEvt, TypeOK
  <2>4. \A c \in Cluster :
          Makes(ServerEvt(t, s, m), "cluster", c, Known(stClusters, c), Known(stClusters', c))
    BY <1>2 DEF PutServer, Makes, ServerEvt
  <2>5. QED
    BY <1>1, <2>1, <2>2, <2>3, <2>4
<1>3. ASSUME NEW s \in Server, RemoveServer(s) PROVE \E evts : Changes(evts)
  <2>1. ServerDel(s) \in Event
    BY DEF ServerDel, Event
  <2>2. \A x \in Server : Makes(ServerDel(s), "server", x, stServers[x], stServers'[x])
    BY <1>3 DEF RemoveServer, Makes, Becomes, ServerDel, TypeOK
  <2>3. \A c \in Cluster :
          Makes(ServerDel(s), "cluster", c, Known(stClusters, c), Known(stClusters', c))
    BY <1>3 DEF RemoveServer, Makes, ServerDel
  <2>4. QED
    BY <1>1, <1>3, <2>1, <2>2, <2>3 DEF RemoveServer
<1>4. ASSUME NEW c \in Cluster, PutCluster(c) PROVE \E evts : Changes(evts)
  <2>1. PICK t \in {"New", "Update"} :
          (t = "New" <=> c \notin stClusters) /\ Change(<<ClusterEvt(t, c)>>)
    BY <1>4 DEF PutCluster
  <2>2. ClusterEvt(t, c) \in Event
    BY DEF ClusterEvt, Event
  <2>3. \A x \in Cluster :
          Makes(ClusterEvt(t, c), "cluster", x, Known(stClusters, x), Known(stClusters', x))
    BY <1>4, <2>1 DEF PutCluster, Makes, Becomes, ClusterEvt, Known
  <2>4. \A s \in Server : Makes(ClusterEvt(t, c), "server", s, stServers[s], stServers'[s])
    BY <1>4 DEF PutCluster, Makes, ClusterEvt
  <2>5. QED
    BY <1>1, <2>1, <2>2, <2>3, <2>4
<1>5. ASSUME NEW c \in Cluster, RemoveCluster(c) PROVE \E evts : Changes(evts)
  <2> DEFINE bound == {s \in Server : <<c, s>> \in stBinds}
             n == Cardinality(bound)
  <2>1. n \in Nat
    <3>1. IsFiniteSet(bound)
      BY DispatcherAssumption, FS_Subset
    <3>2. QED
      BY <3>1, FS_CardinalityType
  <2>2. PICK order \in [1..n -> bound] :
          Change(<<ClusterEvt("Delete", c)>> \o [i \in 1..n |-> BindEvt("Delete", c, order[i])])
    BY <1>5 DEF RemoveCluster
  <2> DEFINE one == <<ClusterEvt("Delete", c)>>
             rest == [i \in 1..n |-> BindEvt("Delete", c, order[i])]
  <2>3. \A s \in Server : BindEvt("Delete", c, s) \in Event /\ BindEvt("Delete", c, s).src = "bind"
    BY DEF BindEvt, Event
  <2>4. /\ rest \in Seq(Event) /\ Len(rest) = n
        /\ \A i \in 1..n : rest[i].src = "bind"
    <3>1. \A i \in 1..n : BindEvt("Delete", c, order[i]) \in Event /\ order[i] \in Server
      BY <2>3
    <3> HIDE DEF n
    <3>2. QED
      BY <2>1, <2>3, <3>1, IsASeq
  <2>5. one \in Seq(Event) /\ Len(one) = 1 /\ one[1] = ClusterEvt("Delete", c)
    BY DEF ClusterEvt, Event
  <2>6. Change(one \o rest)
    BY <2>2
  <2> HIDE DEF n, one, rest
  <2>7. /\ one \o rest \in Seq(Event) /\ Len(one \o rest) = 1 + n
        /\ (one \o rest)[1] = ClusterEvt("Delete", c)
        /\ \A i \in 2..(1 + n) : (one \o rest)[i] = rest[i - 1]
    BY <2>4, <2>5, OneFirst
  <2>8. \A i \in 2..Len(one \o rest) : (one \o rest)[i].src = "bind"
    BY <2>1, <2>4, <2>7
  <2>9. \A x \in Cluster :
          Makes(ClusterEvt("Delete", c), "cluster", x, Known(stClusters, x), Known(stClusters', x))
    BY <1>5 DEF RemoveCluster, Makes, Becomes, ClusterEvt, Known
  <2>10. \A s \in Server : Makes(ClusterEvt("Delete", c), "server", s, stServers[s], stServers'[s])
    BY <1>5 DEF RemoveCluster, Makes, ClusterEvt
  <2>11. Changes(one \o rest)
    BY <2>1, <2>6, <2>7, <2>8, <2>9, <2>10 DEF Changes, Change
  <2>12. QED
    BY <2>11
<1>6. ASSUME NEW e \in Event, e.src \in {"bind", "proxy"}, Change(<<e>>),
             UNCHANGED <<stClusters, stServers>>
      PROVE  Changes(<<e>>)
  <2>1. /\ \A s \in Server : Makes(e, "server", s, stServers[s], stServers'[s])
        /\ \A c \in Cluster :
              Makes(e, "cluster", c, Known(stClusters, c), Known(stClusters', c))
    BY <1>6 DEF Makes
  <2>2. QED
    BY <1>1, <1>6, <2>1
<1>7. ASSUME NEW c \in Cluster, NEW s \in Server, AddBind(c, s) \/ RemoveBind(c, s)
      PROVE  \E evts : Changes(evts)
  <2>1. \A t \in {"New", "Update", "Delete"} :
          BindEvt(t, c, s) \in Event /\ BindEvt(t, c, s).src = "bind"
    BY DEF BindEvt, Event
  <2>2. \E t \in {"New", "Update", "Delete"} : Change(<<BindEvt(t, c, s)>>)
    BY <1>7 DEF AddBind, RemoveBind
  <2>3. UNCHANGED <<stClusters, stServers>>
    BY <1>7 DEF AddBind, RemoveBind
  <2>4. QED
    BY <1>6, <2>1, <2>2, <2>3
<1>8. CASE ProxyChange
  <2>1. ProxyEvt \in Event /\ ProxyEvt.src = "proxy"
    BY DEF ProxyEvt, Event
  <2>2. QED
    BY <1>6, <1>8, <2>1 DEF ProxyChange
<1>9. QED
  BY <1>2, <1>3, <1>4, <1>5, <1>7, <1>8 DEF Admin

LEMMA EventReceives ==
  ASSUME TypeOK, StoreEvent
  PROVE  \E e : Receives(e)
<1> USE DEF Makes, Becomes
<1>1. loop = Waiting => \A s \in Server : Heading(s) = servers[s]
  BY DEF Heading, Waiting
<1>2. ASSUME loop' = Waiting, NEW s \in Server PROVE Heading(s)' = servers'[s]
  BY <1>2 DEF Heading, Waiting
<1>3. ASSUME NEW s \in Server, NEW m \in Meta \ {"absent"}, addServer(s, m)
      PROVE  Receives(ServerEvt("New", s, m))
  <2>1. loop = Waiting /\ servers' = servers /\ clusters' = clusters
    BY <1>3 DEF addServer, Receive, tables
  <2>2. ASSUME NEW x \in Server, NEW v \in Value,
               Makes(ServerEvt("New", s, m), "server", x, Heading(x), v)
        PROVE  Heading(x)' = v
    <3>1. CASE x = s
      <4>1. servers[s] = "absent" /\ v = m
        BY <1>1, <2>1, <2>2, <3>1 DEF ServerEvt
      <4>2. loop' = Pushing(s, m)
        BY <1>3, <4>1 DEF addServer
      <4>3. QED
        BY <3>1, <4>1, <4>2 DEF Heading, Pushing
    <3>2. CASE x # s
      <4>1. v = servers[x]
        BY <1>1, <2>1, <2>2, <3>2 DEF ServerEvt
      <4>2. loop' = Pushing(s, m) \/ loop' = Waiting
        BY <1>3 DEF addServer
      <4>3. QED
        BY <2>1, <3>2, <4>1, <4>2 DEF Heading, Pushing, Waiting
    <3>3. QED
      BY <3>1, <3>2
  <2>3. QED
    BY <1>3, <2>1, <2>2 DEF Receives, addServer, ServerEvt
<1>4. ASSUME NEW s \in Server, NEW m \in Meta \ {"absent"}, updateServer(s, m)
      PROVE  Receives(ServerEvt("Update", s, m))
  <2>1. loop = Waiting /\ servers' = servers /\ clusters' = clusters
    BY <1>4 DEF updateServer, Receive, tables
  <2>2. ASSUME NEW x \in Server, NEW v \in Value,
               Makes(ServerEvt("Update", s, m), "server", x, Heading(x), v)
        PROVE  Heading(x)' = v
    <3>1. CASE x = s
      <4>1. servers[s] # "absent" /\ v = m
        BY <1>1, <2>1, <2>2, <3>1 DEF ServerEvt
      <4>2. loop' = Pushing(s, m)
        BY <1>4, <4>1 DEF updateServer
      <4>3. QED
        BY <3>1, <4>1, <4>2 DEF Heading, Pushing
    <3>2. CASE x # s
      <4>1. v = servers[x]
        BY <1>1, <2>1, <2>2, <3>2 DEF ServerEvt
      <4>2. loop' = Pushing(s, m) \/ loop' = Waiting
        BY <1>4, <2>1 DEF updateServer
      <4>3. QED
        BY <2>1, <3>2, <4>1, <4>2 DEF Heading, Pushing, Waiting
    <3>3. QED
      BY <3>1, <3>2
  <2>3. QED
    BY <1>4, <2>1, <2>2 DEF Receives, updateServer, ServerEvt
<1>5. ASSUME NEW s \in Server, removeServer(s) PROVE Receives(ServerDel(s))
  <2>1. loop = Waiting /\ loop' = Waiting /\ clusters' = clusters
    BY <1>5 DEF removeServer, Receive, tables
  <2>2. servers' = [servers EXCEPT ![s] = "absent"]
    BY <1>5 DEF removeServer, tables, TypeOK
  <2>3. \A x \in Server : Heading(x) = servers[x] /\ Heading(x)' = servers'[x]
    BY <1>1, <1>2, <2>1
  <2>4. QED
    BY <1>5, <2>1, <2>2, <2>3 DEF Receives, removeServer, ServerDel, TypeOK
<1>6. ASSUME NEW c \in Cluster, NEW t \in {"New", "Update", "Delete"}, Receive(ClusterEvt(t, c)),
             UNCHANGED <<servers, loop>>,
             clusters' = IF t = "New" THEN clusters \cup {c}
                         ELSE IF t = "Delete" THEN clusters \ {c} ELSE clusters
      PROVE  Receives(ClusterEvt(t, c))
  <2>1. \A x \in Server : Heading(x)' = Heading(x)
    BY <1>6 DEF Heading
  <2>2. ASSUME NEW x \in Cluster, NEW v \in Value,
               Makes(ClusterEvt(t, c), "cluster", x, Known(clusters, x), v)
        PROVE  Known(clusters', x) = v
    BY <1>6, <2>2 DEF ClusterEvt, Known
  <2>3. QED
    BY <1>6, <2>1, <2>2 DEF Receives, ClusterEvt
<1>7. ASSUME NEW c \in Cluster, addCluster(c) \/ updateCluster(c) \/ removeCluster(c)
      PROVE  \E e : Receives(e)
  <2>1. CASE addCluster(c)
    BY <1>6, <2>1 DEF addCluster
  <2>2. CASE updateCluster(c)
    BY <1>6, <2>2 DEF updateCluster, tables
  <2>3. CASE removeCluster(c)
    BY <1>6, <2>3 DEF removeCluster
  <2>4. QED
    BY <1>7, <2>1, <2>2, <2>3
<1>8. ASSUME NEW e, e.src \in {"bind", "proxy"}, Receive(e), UNCHANGED <<clusters, servers>>,
             loop' \in {Waiting} \cup {Refreshing(S) : S \in SUBSET Server}
      PROVE  Receives(e)
  <2>1. \A x \in Server : Heading(x) = servers[x]
    BY <1>1, <1>8 DEF Receive
  <2>2. \A x \in Server : Heading(x)' = servers[x]
    BY <1>8 DEF Heading, Refreshing, Waiting
  <2>3. QED
    BY <1>8, <2>1, <2>2 DEF Receives
<1>9. ASSUME NEW c \in Cluster, NEW s \in Server,
             addBind(c, s) \/ ignoreBind(c, s) \/ removeBind(c, s)
      PROVE  \E e : Receives(e)
  <2>1. PICK t : Receive(BindEvt(t, c, s))
    BY <1>9 DEF addBind, ignoreBind, removeBind
  <2>2. UNCHANGED <<clusters, servers, loop>>
    BY <1>9 DEF addBind, ignoreBind, removeBind, tables
  <2>3. BindEvt(t, c, s).src = "bind" /\ loop' = Waiting
    BY <2>1, <2>2 DEF BindEvt, Receive
  <2>4. QED
    BY <1>8, <2>1, <2>2, <2>3
<1>10. CASE refreshAllQPS
  <2>1. ProxyEvt.src = "proxy"
    BY DEF ProxyEvt
  <2>2. QED
    BY <1>8, <1>10, <2>1 DEF refreshAllQPS, tables
<1>11. QED
  BY <1>3, <1>4, <1>5, <1>7, <1>9, <1>10 DEF StoreEvent

LEMMA OthersInstall ==
  ASSUME TypeOK,
         \/ UNCHANGED vars \/ Handler
         \/ \E w \in Worker : WorkerStep(w) \/ doStatusChangedEvent(w)
         \/ \E s \in Server : heathCheckTimeout(s)
  PROVE  Installs
<1>1. ASSUME UNCHANGED <<store, evtQ, clusters, servers, loop>> PROVE Installs
  BY <1>1 DEF Installs, Heading
<1>2. CASE \/ UNCHANGED vars
           \/ \E w \in Worker : WorkerStep(w) \/ doStatusChangedEvent(w)
           \/ \E s \in Server : heathCheckTimeout(s)
  BY <1>1, <1>2 DEF vars, tables, WorkerStep, Check, DoCheck, Reschedule,
                    doStatusChangedEvent, heathCheckTimeout
<1>3. CASE addToCheck
  BY <1>3 DEF addToCheck, Installs, Heading, Pushing, Installing, tables
<1>4. CASE InstallServers
  BY <1>4 DEF InstallServers, Installs, Heading, Installing, Waiting, TypeOK
<1>5. CASE RefreshServer \/ RefreshWipe \/ RefreshAddToCheck
  <2>1. UNCHANGED <<store, evtQ, clusters, servers>>
    BY <1>5 DEF RefreshServer, RefreshWipe, RefreshAddToCheck, tables
  <2>2. loop.pc \notin {"push", "install"} /\ loop'.pc \notin {"push", "install"}
    BY <1>5 DEF RefreshServer, RefreshWipe, RefreshAddToCheck, Waiting, Refreshing,
                RefreshWiping, RefreshPush
  <2>3. QED
    BY <2>1, <2>2 DEF Installs, Heading
<1>6. QED
  BY <1>2, <1>3, <1>4, <1>5 DEF Handler

LEMMA FollowStep ==
  ASSUME TypeOK, FollowInv, [Next]_vars
  PROVE  FollowInv'
<1>1. /\ evtQ \in Seq(Event) /\ TypeOK'
      /\ \A s \in Server : stServers'[s] \in Value
      /\ \A C : \A c \in Cluster : Known(C, c) \in Value
  BY TypeStep DEF TypeOK, Value, Known, Meta
<1>2. ASSUME NEW evts, Changes(evts) PROVE FollowInv'
  <2>1. /\ \A s \in Server : Heading(s)' = Heading(s)
        /\ clusters' = clusters
        /\ \A i \in 2..Len(evts) : evts[i].src # "server" /\ evts[i].src # "cluster"
    BY <1>2 DEF Changes, Heading, tables
  <2>2. ASSUME NEW s \in Server
        PROVE  History(evtQ, "server", s, Heading(s), stServers[s])'
    <3>1. History(evtQ \o evts, "server", s, Heading(s), stServers'[s])
      BY <1>1, <1>2, <2>1, HistoryGrows DEF FollowInv, Changes
    <3>2. QED
      BY <1>2, <2>1, <3>1 DEF Changes
  <2>3. ASSUME NEW c \in Cluster
        PROVE  History(evtQ, "cluster", c, Known(clusters, c), Known(stClusters, c))'
    <3>1. History(evtQ \o evts, "cluster", c, Known(clusters, c), Known(stClusters', c))
      BY <1>1, <1>2, <2>1, HistoryGrows DEF FollowInv, Changes
    <3>2. QED
      BY <1>2, <2>1, <3>1 DEF Changes, Known
  <2>4. QED
    BY <2>2, <2>3 DEF FollowInv
<1>3. ASSUME NEW e, Receives(e) PROVE FollowInv'
  <2>1. evtQ # <<>> /\ e = Head(evtQ) /\ evtQ' = Tail(evtQ) /\ UNCHANGED store
    BY <1>3 DEF Receives, Receive
  <2>2. ASSUME NEW s \in Server
        PROVE  History(evtQ, "server", s, Heading(s), stServers[s])'
    <3>1. PICK u \in Value : /\ Makes(e, "server", s, Heading(s), u)
                             /\ History(Tail(evtQ), "server", s, u, stServers[s])
      BY <1>1, <2>1, HistoryShrinks DEF FollowInv
    <3>2. Heading(s)' = u
      BY <1>3, <3>1 DEF Receives
    <3>3. QED
      BY <2>1, <3>1, <3>2 DEF store
  <2>3. ASSUME NEW c \in Cluster
        PROVE  History(evtQ, "cluster", c, Known(clusters, c), Known(stClusters, c))'
    <3>1. PICK u \in Value : /\ Makes(e, "cluster", c, Known(clusters, c), u)
                             /\ History(Tail(evtQ), "cluster", c, u, Known(stClusters, c))
      BY <1>1, <2>1, HistoryShrinks DEF FollowInv
    <3>2. Known(clusters', c) = u
      BY <1>3, <3>1 DEF Receives
    <3>3. QED
      BY <2>1, <3>1, <3>2 DEF store, Known
  <2>4. QED
    BY <2>2, <2>3 DEF FollowInv
<1>4. CASE Installs
  <2>1. ASSUME NEW s \in Server
        PROVE  History(evtQ, "server", s, Heading(s), stServers[s])'
    BY <1>4 DEF FollowInv, Installs, store
  <2>2. ASSUME NEW c \in Cluster
        PROVE  History(evtQ, "cluster", c, Known(clusters, c), Known(stClusters, c))'
    BY <1>4 DEF FollowInv, Installs, store, Known
  <2>3. QED
    BY <2>1, <2>2 DEF FollowInv
<1>5. QED
  BY <1>2, <1>3, <1>4, AdminChanges, EventReceives, OthersInstall DEF Next

\* Converged, for any clusters, servers, workers and changes: the event loop, behind by
\* any number of events and in the middle of any handler, is on the way to the store, so
\* that a New is never refused for a server still known nor an Update for an unknown one.
THEOREM TablesConverge == Spec => []Converged
<1>1. Init => FollowInv
  <2> SUFFICES ASSUME Init PROVE FollowInv
    OBVIOUS
  <2>1. "absent" \in Value
    BY DEF Value, Meta
  <2>2. /\ \A s \in Server : Heading(s) = "absent" /\ stServers[s] = "absent"
        /\ \A c \in Cluster : Known(clusters, c) = "absent" /\ Known(stClusters, c) = "absent"
    BY DEF Init, Heading, Waiting, Known
  <2>3. QED
    BY <2>1, <2>2, EmptyHistory DEF Init, FollowInv
<1>2. TypeOK /\ FollowInv /\ [Next]_vars => FollowInv'
  BY FollowStep
<1>3. TypeOK /\ FollowInv => Converged
  <2> SUFFICES ASSUME TypeOK, FollowInv, evtQ = <<>>, loop = Waiting
               PROVE  clusters = stClusters /\ servers = stServers
    BY DEF Converged
  <2>1. \A s \in Server : Heading(s) = stServers[s]
    BY EndOfHistory DEF FollowInv
  <2>2. \A c \in Cluster : Known(clusters, c) = Known(stClusters, c)
    BY EndOfHistory DEF FollowInv
  <2>3. servers = stServers
    BY <2>1 DEF Heading, Waiting, TypeOK
  <2>4. clusters = stClusters
    BY <2>2 DEF Known, TypeOK
  <2>5. QED
    BY <2>3, <2>4
<1>4. QED
  BY <1>1, <1>2, <1>3, TypeCorrect, PTL DEF Spec
-----------------------------------------------------------------------------
(* The wait cycle.  Every check that is queued, in a worker, in a timer or *)
(* about to be queued was started by a change of the store, which starts   *)
(* at most one of each server.                                             *)

\* Checks in workers and in timers, which are counted by server and number; those that the
\* handler under way will queue; waiting events that start checks.
BusyWorkers == {w \in Worker : worker[w] # Free}
TimerSet == {p \in Server \X Nat : p[2] \in 1..InTimer(p[1])}
LoopLoad ==
    IF loop.pc = "push" THEN 1
    ELSE IF loop.pc = "refresh" THEN Cardinality(loop.todo)
    ELSE IF loop.pc \in {"refreshWipe", "refreshPush"} THEN 1 + Cardinality(loop.todo)
    ELSE 0
Load == Len(checkerC) + Cardinality(BusyWorkers) + Cardinality(TimerSet) + LoopLoad
Starts(e) == e.src \in {"server", "proxy"}
DueSet == {i \in 1..Len(evtQ) : Starts(evtQ[i])}
Due == Cardinality(DueSet)

LoadInv ==
    /\ IsFiniteSet(TimerSet)
    /\ ops <= MaxOps
    /\ Load + Cardinality(Server) * Due <= Cardinality(Server) * ops

LEMMA ServerCount ==
  /\ Cardinality(Server) \in Nat /\ \A S \in SUBSET Server : IsFiniteSet(S) /\ Cardinality(S) \in Nat
  /\ \A S \in SUBSET Server : Cardinality(S) <= Cardinality(Server)
  /\ \A s \in Server : 1 <= Cardinality(Server)
<1>1. Cardinality(Server) \in Nat
  BY DispatcherAssumption, FS_CardinalityType
<1>2. \A S \in SUBSET Server : IsFiniteSet(S) /\ Cardinality(S) <= Cardinality(Server)
  BY DispatcherAssumption, FS_Subset
<1>3. \A S \in SUBSET Server : Cardinality(S) \in Nat
  BY <1>2, FS_CardinalityType
<1>4. ASSUME NEW s \in Server PROVE 1 <= Cardinality(Server)
  <2>1. Cardinality(Server) # 0
    BY DispatcherAssumption, FS_EmptySet
  <2>2. QED
    BY <1>1, <2>1
<1>5. QED
  BY <1>1, <1>2, <1>3, <1>4

Counted ==
    /\ IsFiniteSet(BusyWorkers) /\ Cardinality(BusyWorkers) \in Nat
    /\ IsFiniteSet(DueSet) /\ Due \in Nat
    /\ LoopLoad \in Nat
    /\ Len(checkerC) \in Nat
    /\ \A s \in Server : InTimer(s) \in Nat

LEMMA AddOne ==
  ASSUME NEW S, NEW x, IsFiniteSet(S)
  PROVE  /\ IsFiniteSet(S \cup {x}) /\ Cardinality(S \cup {x}) \in Nat
         /\ Cardinality(S \cup {x}) <= Cardinality(S) + 1
<1>1. Cardinality(S) \in Nat
  BY FS_CardinalityType
<1>2. /\ IsFiniteSet(S \cup {x})
      /\ Cardinality(S \cup {x}) = IF x \in S THEN Cardinality(S) ELSE Cardinality(S) + 1
  BY FS_AddElement
<1>3. QED
  BY <1>1, <1>2

LEMMA CountTypes == TypeOK => Counted
<1> SUFFICES ASSUME TypeOK PROVE Counted
  OBVIOUS
<1>1. IsFiniteSet(BusyWorkers) /\ Cardinality(BusyWorkers) \in Nat
  BY DispatcherAssumption, FS_Subset, FS_CardinalityType DEF BusyWorkers
<1>2. IsFiniteSet(DueSet) /\ Due \in Nat
  <2>1. Len(evtQ) \in Nat
    BY DEF TypeOK
  <2>2. IsFiniteSet(1..Len(evtQ))
    BY <2>1, FS_Interval
  <2>3. IsFiniteSet(DueSet)
    BY <2>2, FS_Subset DEF DueSet
  <2>4. QED
    BY <2>3, FS_CardinalityType DEF Due
<1>3. LoopLoad \in Nat
  <2>1. loop.pc \in {"refresh", "refreshWipe", "refreshPush"} => loop.todo \in SUBSET Server
    BY DEF TypeOK, LoopType, Waiting
  <2>2. QED
    BY <2>1, ServerCount DEF LoopLoad
<1>4. Len(checkerC) \in Nat /\ \A s \in Server : InTimer(s) \in Nat
  BY DEF TypeOK, InTimer
<1>5. QED
  BY <1>1, <1>2, <1>3, <1>4 DEF Counted

LEMMA TimersCounted == LoadInv => Cardinality(TimerSet) \in Nat
BY FS_CardinalityType DEF LoadInv

LEMMA WorkerCount == Cardinality(Worker) \in Nat
BY FS_CardinalityType, DispatcherAssumption

LEMMA CountTypesNext == TypeOK' => Counted'
BY CountTypes, PTL

\* What a step does to the timers: none is added, one is, or one is taken.
LEMMA TimersShrink ==
  ASSUME TypeOK, TypeOK', IsFiniteSet(TimerSet), \A s \in Server : InTimer(s)' <= InTimer(s)
  PROVE  IsFiniteSet(TimerSet)' /\ Cardinality(TimerSet)' <= Cardinality(TimerSet)
<1>1. \A s \in Server : InTimer(s) \in Nat /\ InTimer(s)' \in Nat
  BY DEF TypeOK, InTimer
<1>2. TimerSet' \subseteq TimerSet
  BY <1>1 DEF TimerSet
<1>3. QED
  BY <1>2, FS_Subset

LEMMA TimerAdded ==
  ASSUME TypeOK, TypeOK', IsFiniteSet(TimerSet), NEW x \in Server,
         \A s \in Server : InTimer(s)' = IF s = x THEN InTimer(s) + 1 ELSE InTimer(s)
  PROVE  IsFiniteSet(TimerSet)' /\ Cardinality(TimerSet)' <= Cardinality(TimerSet) + 1
<1>1. \A s \in Server : InTimer(s) \in Nat /\ InTimer(s)' \in Nat
  BY DEF TypeOK, InTimer
<1>2. TimerSet' \subseteq TimerSet \cup {<<x, InTimer(x) + 1>>}
  <2> SUFFICES ASSUME NEW p \in TimerSet', p \notin TimerSet
               PROVE  p = <<x, InTimer(x) + 1>>
    OBVIOUS
  <2>1. p \in Server \X Nat /\ p[2] \in 1..InTimer(p[1])' /\ p[2] \notin 1..InTimer(p[1])
    BY DEF TimerSet
  <2>2. p[1] = x /\ p[2] = InTimer(x) + 1
    BY <1>1, <2>1
  <2>3. QED
    BY <2>1, <2>2
<1>3. /\ IsFiniteSet(TimerSet \cup {<<x, InTimer(x) + 1>>})
      /\ Cardinality(TimerSet \cup {<<x, InTimer(x) + 1>>}) <= Cardinality(TimerSet) + 1
  BY AddOne
<1>4. IsFiniteSet(TimerSet') /\ Cardinality(TimerSet') \in Nat /\ Cardinality(TimerSet) \in Nat
  BY <1>2, <1>3, FS_Subset, FS_CardinalityType
<1>5. Cardinality(TimerSet') <= Cardinality(TimerSet \cup {<<x, InTimer(x) + 1>>})
  BY <1>2, <1>3, FS_Subset
<1>6. Cardinality(TimerSet \cup {<<x, InTimer(x) + 1>>}) \in Nat
  BY <1>3, FS_CardinalityType
<1>7. QED
  BY <1>3, <1>4, <1>5, <1>6

LEMMA TimerTaken ==
  ASSUME TypeOK, TypeOK', IsFiniteSet(TimerSet), NEW x \in Server, InTimer(x) > 0,
         \A s \in Server : InTimer(s)' = IF s = x THEN InTimer(s) - 1 ELSE InTimer(s)
  PROVE  IsFiniteSet(TimerSet)' /\ Cardinality(TimerSet)' + 1 <= Cardinality(TimerSet)
<1>1. \A s \in Server : InTimer(s) \in Nat /\ InTimer(s)' \in Nat
  BY DEF TypeOK, InTimer
<1>2. <<x, InTimer(x)>> \in TimerSet
  BY <1>1 DEF TimerSet
<1>3. TimerSet' \subseteq TimerSet \ {<<x, InTimer(x)>>}
  <2> SUFFICES ASSUME NEW p \in TimerSet' PROVE p \in TimerSet /\ p # <<x, InTimer(x)>>
    OBVIOUS
  <2>1. p \in Server \X Nat /\ p[2] \in 1..InTimer(p[1])'
    BY DEF TimerSet
  <2>2. p[2] \in 1..InTimer(p[1])
    BY <1>1, <2>1
  <2>3. p[1] = x => p[2] # InTimer(x)
    BY <1>1, <2>1
  <2>4. QED
    BY <2>1, <2>2, <2>3 DEF TimerSet
<1>4. /\ IsFiniteSet(TimerSet \ {<<x, InTimer(x)>>})
      /\ Cardinality(TimerSet \ {<<x, InTimer(x)>>}) = Cardinality(TimerSet) - 1
  BY <1>2, FS_RemoveElement
<1>5. IsFiniteSet(TimerSet') /\ Cardinality(TimerSet') <= Cardinality(TimerSet \ {<<x, InTimer(x)>>})
  BY <1>3, <1>4, FS_Subset
<1>6. Cardinality(TimerSet') \in Nat /\ Cardinality(TimerSet) \in Nat
  BY <1>5, FS_CardinalityType
<1>7. QED
  BY <1>4, <1>5, <1>6

\* Steps that leave workers, timers and the channel alone.
LEMMA HealthSame ==
  ASSUME TypeOK, UNCHANGED health
  PROVE  /\ BusyWorkers' = BusyWorkers /\ TimerSet' = TimerSet
         /\ checkerC' = checkerC
BY DEF health, BusyWorkers, TimerSet, InTimer

\* CloneAll adds no timer and wakes no worker.
LEMMA CloneKeeps ==
  ASSUME TypeOK, NEW stopped, CloneAll(stopped)
  PROVE  BusyWorkers' = BusyWorkers /\ \A s \in Server : InTimer(s)' <= InTimer(s)
<1>1. \A s \in Server : orphans[s] \in Nat
  BY DEF TypeOK
<1>2. \A s \in Server : InTimer(s)' <= InTimer(s)
  BY <1>1 DEF CloneAll, InTimer
<1>3. \A w \in Worker : worker[w] # Free => [worker[w] EXCEPT !.cur = FALSE] # Free
  <2>1. \A x \in WorkerType : x # Free => [x EXCEPT !.cur = FALSE].pc = x.pc /\ x.pc # "idle"
    BY DEF WorkerType, Free
  <2>2. QED
    BY <2>1 DEF TypeOK, Free
<1>4. BusyWorkers' = BusyWorkers
  BY <1>3 DEF BusyWorkers, CloneAll
<1>5. QED
  BY <1>2, <1>4

\* One step: it may add a check of each server and takes an event that starts checks, or
\* it is a change of the store, or it adds no check.
Frees == Load' <= Load /\ Due' <= Due /\ ops' = ops
Handles == Load' <= Load + Cardinality(Server) /\ Due' + 1 <= Due /\ ops' = ops
Orders == Load' = Load /\ Due' <= Due + 1 /\ ops' = ops + 1 /\ ops < MaxOps

LEMMA AdminOrders ==
  ASSUME TypeOK, TypeOK', LoadInv, Admin
  PROVE  Orders /\ IsFiniteSet(TimerSet)'
<1>1. PICK evts \in Seq(Event) : /\ Len(evts) >= 1 /\ evtQ' = evtQ \o evts
                                 /\ \A i \in 2..Len(evts) : evts[i].src = "bind"
  BY AdminChanges DEF Changes
<1>2. ops < MaxOps /\ ops' = ops + 1 /\ UNCHANGED <<loop, health>>
  BY DEF Admin, PutServer, RemoveServer, PutCluster, RemoveCluster, AddBind, RemoveBind,
         ProxyChange, Change
<1>3. Load' = Load /\ TimerSet' = TimerSet
  BY <1>2, HealthSame DEF Load, LoopLoad
<1> DEFINE n == Len(evtQ)
<1>4. /\ n \in Nat /\ Len(evtQ') = n + Len(evts) /\ Len(evts) \in Nat
      /\ \A i \in 1..n : evtQ'[i] = evtQ[i]
      /\ \A i \in 1..Len(evts) : evtQ'[n + i] = evts[i]
  BY <1>1, ConcatProperties DEF TypeOK
<1>5. DueSet' \subseteq DueSet \cup {n + 1}
  <2> SUFFICES ASSUME NEW i \in 1..(n + Len(evts)), Starts(evtQ'[i]), i # n + 1
               PROVE  i \in DueSet
    BY <1>4 DEF DueSet
  <2> HIDE DEF n
  <2>1. CASE i <= n
    BY <1>4, <2>1 DEF DueSet, n
  <2>2. CASE i > n
    <3>1. i - n \in 2..Len(evts) /\ i - n \in 1..Len(evts) /\ i = n + (i - n)
      BY <1>4, <2>2
    <3>2. evtQ'[i].src = "bind"
      BY <1>1, <1>4, <3>1
    <3>3. QED
      BY <3>2 DEF Starts
  <2>3. QED
    BY <1>4, <2>1, <2>2
<1>6. Due' <= Due + 1
  <2>1. IsFiniteSet(DueSet) /\ Due \in Nat
    BY CountTypes DEF Counted
  <2>2. /\ IsFiniteSet(DueSet \cup {n + 1})
        /\ Cardinality(DueSet \cup {n + 1}) <= Due + 1
        /\ Cardinality(DueSet \cup {n + 1}) \in Nat
    BY <2>1, AddOne DEF Due
  <2>3. IsFiniteSet(DueSet') /\ Cardinality(DueSet') <= Cardinality(DueSet \cup {n + 1})
    BY <1>5, <2>2, FS_Subset
  <2>4. Cardinality(DueSet') \in Nat
    BY <2>3, FS_CardinalityType
  <2>5. QED
    BY <2>1, <2>2, <2>3, <2>4 DEF Due
<1>7. QED
  BY <1>2, <1>3, <1>6 DEF Orders, LoadInv

\* A receive takes its event from those that are due.
LEMMA ReceiveDue ==
  ASSUME TypeOK, NEW e, Receive(e)
  PROVE  Due' \in Nat /\ (IF Starts(e) THEN Due' + 1 <= Due ELSE Due' <= Due)
<1> DEFINE n == Len(evtQ)
           rest == DueSet \ {1}
           shift == [i \in DueSet' |-> i + 1]
<1>1. /\ evtQ \in Seq(Event) /\ evtQ # <<>> /\ evtQ' = Tail(evtQ) /\ e = Head(evtQ)
  BY DEF TypeOK, Receive
<1>2. /\ n \in Nat \ {0} /\ Len(evtQ') = n - 1 /\ evtQ[1] = e
      /\ \A i \in 1..(n - 1) : evtQ'[i] = evtQ[i + 1]
  BY <1>1, EmptySeq, HeadTailProperties
<1>3. 1 \in DueSet <=> Starts(e)
  BY <1>2 DEF DueSet
<1>4. IsFiniteSet(DueSet) /\ Due \in Nat
  BY CountTypes DEF Counted
<1>5. IsFiniteSet(rest) /\ Cardinality(rest) = IF Starts(e) THEN Due - 1 ELSE Due
  BY <1>3, <1>4, FS_RemoveElement DEF Due
<1>6. \A i \in DueSet' : i \in 1..(n - 1) /\ i + 1 \in rest
  <2> SUFFICES ASSUME NEW i \in DueSet' PROVE i \in 1..(n - 1) /\ i + 1 \in rest
    OBVIOUS
  <2>1. i \in 1..(n - 1) /\ Starts(evtQ'[i])
    BY <1>2 DEF DueSet
  <2>2. i + 1 \in 1..n /\ i + 1 # 1 /\ Starts(evtQ[i + 1])
    BY <1>2, <2>1
  <2>3. QED
    BY <2>1, <2>2 DEF DueSet
<1>7. shift \in Injection(DueSet', rest)
  <2> HIDE DEF rest, n
  <2>1. shift \in [DueSet' -> rest]
    BY <1>6
  <2>2. \A i, j \in DueSet' : shift[i] = shift[j] => i = j
    BY <1>6
  <2>3. QED
    BY <2>1, <2>2 DEF Injection, IsInjective
<1>8. IsFiniteSet(DueSet') /\ Cardinality(DueSet') <= Cardinality(rest)
  <2> HIDE DEF rest, shift
  <2>1. QED
    BY <1>5, <1>7, FS_Injection
<1>9. Cardinality(DueSet') \in Nat
  BY <1>8, FS_CardinalityType
<1>10. QED
  BY <1>4, <1>5, <1>8, <1>9 DEF Due

LEMMA EventHandles ==
  ASSUME TypeOK, TypeOK', LoadInv, StoreEvent
  PROVE  (Handles \/ Frees) /\ IsFiniteSet(TimerSet)'
<1> DEFINE N == Cardinality(Server)
<1>0. /\ N \in Nat /\ Len(checkerC) \in Nat /\ Cardinality(BusyWorkers) \in Nat
      /\ LoopLoad \in Nat /\ IsFiniteSet(TimerSet) /\ Cardinality(TimerSet) \in Nat
      /\ LoopLoad' \in Nat
  BY CountTypes, CountTypesNext, ServerCount, TimersCounted DEF Counted, LoadInv
<1>2. ASSUME NEW e, Receive(e), ~Starts(e), UNCHANGED <<loop, health>>
      PROVE  Frees /\ IsFiniteSet(TimerSet)'
  <2>1. Load' = Load /\ TimerSet' = TimerSet
    BY <1>2, HealthSame DEF Load, LoopLoad
  <2>2. Due' <= Due /\ ops' = ops
    BY <1>2, ReceiveDue DEF Receive, store
  <2>3. Load \in Nat
    BY <1>0 DEF Load
  <2>4. QED
    BY <1>0, <2>1, <2>2, <2>3 DEF Frees
<1>3. ASSUME NEW e, Receive(e), Starts(e), LoopLoad' <= N, checkerC' = checkerC,
             BusyWorkers' = BusyWorkers, \A s \in Server : InTimer(s)' <= InTimer(s)
      PROVE  Handles /\ IsFiniteSet(TimerSet)'
  <2>1. LoopLoad = 0
    BY <1>3 DEF Receive, LoopLoad, Waiting
  <2>2. IsFiniteSet(TimerSet)' /\ Cardinality(TimerSet)' <= Cardinality(TimerSet)
    BY <1>0, <1>3, TimersShrink
  <2>3. Cardinality(TimerSet)' \in Nat
    BY <2>2, FS_CardinalityType
  <2>4. Load' <= Load + N
    BY <1>0, <1>3, <2>1, <2>2, <2>3 DEF Load
  <2>5. Due' + 1 <= Due /\ ops' = ops
    BY <1>3, ReceiveDue DEF Receive, store
  <2>6. QED
    BY <2>2, <2>4, <2>5 DEF Handles
<1>4. ASSUME NEW s \in Server, NEW m \in Meta \ {"absent"}, addServer(s, m) \/ updateServer(s, m)
      PROVE  Handles /\ IsFiniteSet(TimerSet)'
  <2>1. PICK t : Receive(ServerEvt(t, s, m))
    BY <1>4 DEF addServer, updateServer
  <2>2. Starts(ServerEvt(t, s, m))
    BY DEF Starts, ServerEvt
  <2>3. loop' = Pushing(s, m) \/ loop' = Waiting
    BY <1>4, <2>1 DEF addServer, updateServer, Receive
  <2>4. LoopLoad' <= N
    BY <1>0, <2>3, ServerCount DEF LoopLoad, Pushing, Waiting
  <2>5. UNCHANGED <<checkerC, worker, orphans>> /\ armed' \subseteq armed
    BY <1>4 DEF addServer, updateServer, health
  <2>6. BusyWorkers' = BusyWorkers /\ \A x \in Server : InTimer(x)' <= InTimer(x)
    BY <2>5 DEF BusyWorkers, InTimer, TypeOK
  <2>7. QED
    BY <1>3, <2>1, <2>2, <2>4, <2>5, <2>6
<1>5. ASSUME NEW s \in Server, removeServer(s) PROVE Handles /\ IsFiniteSet(TimerSet)'
  <2>1. Receive(ServerDel(s)) /\ Starts(ServerDel(s)) /\ loop' = Waiting
    BY <1>5 DEF removeServer, Starts, ServerDel, Receive
  <2>2. LoopLoad' <= N
    BY <1>0, <2>1 DEF LoopLoad, Waiting
  <2>3. /\ checkerC' = checkerC /\ BusyWorkers' = BusyWorkers
        /\ \A x \in Server : InTimer(x)' <= InTimer(x)
    <3>1. CASE UNCHANGED health
      BY <3>1 DEF health, BusyWorkers, InTimer, TypeOK
    <3>2. CASE CloneAll({s}) /\ UNCHANGED checkerC
      BY <3>2, CloneKeeps
    <3>3. QED
      BY <1>5, <3>1, <3>2 DEF removeServer
  <2>4. QED
    BY <1>3, <2>1, <2>2, <2>3
<1>6. ASSUME NEW c \in Cluster, addCluster(c) \/ updateCluster(c) \/ removeCluster(c)
      PROVE  Frees /\ IsFiniteSet(TimerSet)'
  <2>1. PICK t : Receive(ClusterEvt(t, c))
    BY <1>6 DEF addCluster, updateCluster, removeCluster
  <2>2. UNCHANGED <<loop, health>> /\ ~Starts(ClusterEvt(t, c))
    BY <1>6 DEF addCluster, updateCluster, removeCluster, Starts, ClusterEvt
  <2>3. QED
    BY <1>2, <2>1, <2>2
<1>7. ASSUME NEW c \in Cluster, NEW s \in Server,
             addBind(c, s) \/ ignoreBind(c, s) \/ removeBind(c, s)
      PROVE  Frees /\ IsFiniteSet(TimerSet)'
  <2>1. PICK t : Receive(BindEvt(t, c, s))
    BY <1>7 DEF addBind, ignoreBind, removeBind
  <2>2. UNCHANGED <<loop, health>> /\ ~Starts(BindEvt(t, c, s))
    BY <1>7 DEF addBind, ignoreBind, removeBind, Starts, BindEvt
  <2>3. QED
    BY <1>2, <2>1, <2>2
<1>8. CASE refreshAllQPS
  <2>1. Receive(ProxyEvt) /\ Starts(ProxyEvt) /\ UNCHANGED health
    BY <1>8 DEF refreshAllQPS, Starts, ProxyEvt
  <2>2. LoopLoad' = Cardinality({s \in Server : servers[s] # "absent"})
    BY <1>8 DEF refreshAllQPS, LoopLoad, Refreshing
  <2>3. LoopLoad' <= N
    BY <2>2, ServerCount
  <2>4. BusyWorkers' = BusyWorkers /\ \A x \in Server : InTimer(x)' <= InTimer(x)
    BY <2>1 DEF health, BusyWorkers, InTimer, TypeOK
  <2>5. checkerC' = checkerC
    BY <2>1 DEF health
  <2>6. QED
    BY <1>3, <2>1, <2>3, <2>4, <2>5
<1>9. QED
  BY <1>4, <1>5, <1>6, <1>7, <1>8 DEF StoreEvent

\* The handlers of the loop move checks into the channel; workers and timers pass them on.
LEMMA HandlerFrees ==
  ASSUME TypeOK, TypeOK', LoadInv, Handler
  PROVE  Frees /\ IsFiniteSet(TimerSet)'
<1>0. /\ Len(checkerC) \in Nat /\ Cardinality(BusyWorkers) \in Nat
      /\ LoopLoad \in Nat /\ IsFiniteSet(TimerSet) /\ Cardinality(TimerSet) \in Nat
      /\ LoopLoad' \in Nat
  BY CountTypes, CountTypesNext, TimersCounted DEF Counted, LoadInv
<1>1. UNCHANGED <<store, evtQ>>
  BY DEF Handler, addToCheck, InstallServers, RefreshServer, RefreshWipe, RefreshAddToCheck
<1>2. Due' = Due /\ ops' = ops /\ Due \in Nat
  BY <1>1, CountTypes DEF Counted, Due, DueSet, store
<1>3. ASSUME BusyWorkers' = BusyWorkers, \A s \in Server : InTimer(s)' <= InTimer(s),
             Len(checkerC)' + LoopLoad' <= Len(checkerC) + LoopLoad
      PROVE  Frees /\ IsFiniteSet(TimerSet)'
  <2>1. IsFiniteSet(TimerSet)' /\ Cardinality(TimerSet)' <= Cardinality(TimerSet)
    BY <1>0, <1>3, TimersShrink
  <2>2. Cardinality(TimerSet)' \in Nat
    BY <2>1, FS_CardinalityType
  <2>3. Len(checkerC)' \in Nat
    BY DEF TypeOK
  <2>4. Load' <= Load
    BY <1>0, <1>3, <2>1, <2>2, <2>3 DEF Load
  <2>5. QED
    BY <1>2, <2>1, <2>4 DEF Frees
<1>4. ASSUME UNCHANGED <<worker, orphans>>, armed' \subseteq armed
      PROVE  BusyWorkers' = BusyWorkers /\ \A s \in Server : InTimer(s)' <= InTimer(s)
  BY <1>4 DEF BusyWorkers, InTimer, TypeOK
<1>5. ASSUME NEW s \in Server, checkerC' = Append(checkerC, s)
      PROVE  Len(checkerC)' = Len(checkerC) + 1
  BY <1>5 DEF TypeOK
<1>6. CASE addToCheck
  <2>1. LoopLoad = 1 /\ LoopLoad' = 0
    BY <1>6 DEF addToCheck, LoopLoad, Pushing, Installing
  <2>2. Len(checkerC)' = Len(checkerC) + 1
    BY <1>5, <1>6 DEF addToCheck
  <2>3. QED
    BY <1>0, <1>3, <1>4, <1>6, <2>1, <2>2 DEF addToCheck
<1>7. CASE InstallServers
  <2>1. LoopLoad = 0 /\ LoopLoad' = 0 /\ checkerC' = checkerC
    BY <1>7 DEF InstallServers, LoopLoad, Installing, Waiting
  <2>2. BusyWorkers' = BusyWorkers /\ \A s \in Server : InTimer(s)' <= InTimer(s)
    BY <1>7, CloneKeeps DEF InstallServers
  <2>3. QED
    BY <1>0, <1>3, <2>1, <2>2
<1>8. CASE RefreshServer
  <2>1. loop.todo \in SUBSET Server /\ LoopLoad = Cardinality(loop.todo)
    BY <1>8 DEF RefreshServer, TypeOK, LoopType, Waiting, LoopLoad
  <2>2. UNCHANGED <<checkerC, worker, orphans>> /\ armed' \subseteq armed
    BY <1>8 DEF RefreshServer
  <2>3. LoopLoad' <= LoopLoad
    <3>1. CASE loop' = Waiting
      BY <1>0, <3>1 DEF LoopLoad, Waiting
    <3>2. ASSUME NEW s \in loop.todo, loop' = RefreshWiping(s, loop.todo \ {s})
          PROVE  LoopLoad' <= LoopLoad
      <4>1. LoopLoad' = 1 + Cardinality(loop.todo \ {s})
        BY <3>2 DEF LoopLoad, RefreshWiping
      <4>2. Cardinality(loop.todo \ {s}) = Cardinality(loop.todo) - 1
        BY <2>1, <3>2, ServerCount, FS_RemoveElement
      <4>3. QED
        BY <1>0, <2>1, <4>1, <4>2
    <3>3. QED
      BY <1>8, <3>1, <3>2 DEF RefreshServer
  <2>4. QED
    BY <1>0, <1>3, <1>4, <2>2, <2>3
<1>9. CASE RefreshWipe
  <2>1. loop.id \in Server /\ LoopLoad' = LoopLoad /\ UNCHANGED <<checkerC, worker>>
    BY <1>9 DEF RefreshWipe, TypeOK, LoopType, Waiting, LoopLoad, RefreshPush
  <2>2. \A s \in Server : InTimer(s)' <= InTimer(s)
    BY <1>9, <2>1 DEF RefreshWipe, InTimer, TypeOK
  <2>3. BusyWorkers' = BusyWorkers
    BY <2>1 DEF BusyWorkers
  <2>4. QED
    BY <1>0, <1>3, <2>1, <2>2, <2>3
<1>10. CASE RefreshAddToCheck
  <2>1. /\ loop.id \in Server /\ loop.todo \in SUBSET Server
        /\ LoopLoad = 1 + Cardinality(loop.todo) /\ LoopLoad' = Cardinality(loop.todo)
    BY <1>10 DEF RefreshAddToCheck, TypeOK, LoopType, Waiting, LoopLoad, Refreshing
  <2>2. Len(checkerC)' = Len(checkerC) + 1
    BY <1>5, <1>10, <2>1 DEF RefreshAddToCheck
  <2>3. Cardinality(loop.todo) \in Nat
    BY <2>1, ServerCount
  <2>4. QED
    BY <1>0, <1>3, <1>4, <1>10, <2>1, <2>2, <2>3 DEF RefreshAddToCheck
<1>11. QED
  BY <1>6, <1>7, <1>8, <1>9, <1>10 DEF Handler

LEMMA HealthFrees ==
  ASSUME TypeOK, TypeOK', LoadInv,
         \/ \E w \in Worker : WorkerStep(w) \/ doStatusChangedEvent(w)
         \/ \E s \in Server : heathCheckTimeout(s)
  PROVE  Frees /\ IsFiniteSet(TimerSet)'
<1>0. /\ Len(checkerC) \in Nat /\ IsFiniteSet(BusyWorkers) /\ Cardinality(BusyWorkers) \in Nat
      /\ LoopLoad \in Nat /\ IsFiniteSet(TimerSet) /\ Cardinality(TimerSet) \in Nat
      /\ Len(checkerC)' \in Nat /\ Cardinality(BusyWorkers)' \in Nat
  BY CountTypes, CountTypesNext, TimersCounted DEF Counted, LoadInv
<1>1. UNCHANGED <<store, evtQ, loop>>
  BY DEF WorkerStep, Check, DoCheck, Reschedule, doStatusChangedEvent, heathCheckTimeout
<1>2. Due' = Due /\ ops' = ops /\ Due \in Nat /\ LoopLoad' = LoopLoad
  BY <1>1, CountTypes DEF Counted, Due, DueSet, store, LoopLoad
<1>3. ASSUME IsFiniteSet(TimerSet)',
             Len(checkerC)' + Cardinality(BusyWorkers)' + Cardinality(TimerSet)'
               <= Len(checkerC) + Cardinality(BusyWorkers) + Cardinality(TimerSet)
      PROVE  Frees /\ IsFiniteSet(TimerSet)'
  <2>1. Cardinality(TimerSet)' \in Nat
    BY <1>3, FS_CardinalityType
  <2>2. Load' <= Load
    BY <1>0, <1>2, <1>3, <2>1 DEF Load
  <2>3. QED
    BY <1>2, <1>3, <2>2 DEF Frees
<1>4. ASSUME UNCHANGED <<armed, orphans>> PROVE TimerSet' = TimerSet
  BY <1>4 DEF TimerSet, InTimer
<1>5. ASSUME NEW w \in Worker, Check(w) PROVE Frees /\ IsFiniteSet(TimerSet)'
  <2>1. Len(checkerC)' = Len(checkerC) - 1
    BY <1>5 DEF Check, TypeOK
  <2>2. BusyWorkers' \subseteq BusyWorkers \cup {w}
    BY <1>5 DEF Check, BusyWorkers, TypeOK
  <2>3. /\ IsFiniteSet(BusyWorkers \cup {w})
        /\ Cardinality(BusyWorkers \cup {w}) <= Cardinality(BusyWorkers) + 1
        /\ Cardinality(BusyWorkers \cup {w}) \in Nat
    BY <1>0, AddOne
  <2>4. Cardinality(BusyWorkers') <= Cardinality(BusyWorkers \cup {w})
    BY <2>2, <2>3, FS_Subset
  <2>5. TimerSet' = TimerSet
    BY <1>4, <1>5 DEF Check
  <2>6. QED
    BY <1>0, <1>3, <2>1, <2>3, <2>4, <2>5
<1>6. ASSUME NEW w \in Worker, DoCheck(w) \/ doStatusChangedEvent(w)
      PROVE  Frees /\ IsFiniteSet(TimerSet)'
  <2>1. BusyWorkers' \subseteq BusyWorkers
    <3>1. worker[w] # Free /\ \A x \in Worker : x # w => worker'[x] = worker[x]
      BY <1>6 DEF DoCheck, doStatusChangedEvent, Free, TypeOK
    <3>2. QED
      BY <3>1 DEF BusyWorkers
  <2>2. Cardinality(BusyWorkers') <= Cardinality(BusyWorkers)
    BY <1>0, <2>1, FS_Subset
  <2>3. TimerSet' = TimerSet /\ checkerC' = checkerC
    BY <1>4, <1>6 DEF DoCheck, doStatusChangedEvent
  <2>4. QED
    BY <1>0, <1>3, <2>2, <2>3
<1>7. ASSUME NEW w \in Worker, Reschedule(w) PROVE Frees /\ IsFiniteSet(TimerSet)'
  <2>1. worker[w].id \in Server /\ w \in BusyWorkers /\ checkerC' = checkerC
    BY <1>7 DEF Reschedule, TypeOK, WorkerType, Free, BusyWorkers
  <2>2. BusyWorkers' = BusyWorkers \ {w}
    BY <1>7 DEF Reschedule, BusyWorkers, TypeOK
  <2>3. Cardinality(BusyWorkers') = Cardinality(BusyWorkers) - 1
    BY <1>0, <2>1, <2>2, FS_RemoveElement
  <2>4. \A s \in Server : InTimer(s)' = IF s = worker[w].id THEN InTimer(s) + 1 ELSE InTimer(s)
    <3>1. \A s \in Server : orphans[s] \in Nat
      BY DEF TypeOK
    <3>2. CASE worker[w].cur /\ worker[w].id \notin armed
      BY <1>7, <2>1, <3>1, <3>2 DEF Reschedule, InTimer, TypeOK
    <3>3. CASE ~(worker[w].cur /\ worker[w].id \notin armed)
      BY <1>7, <2>1, <3>1, <3>3 DEF Reschedule, InTimer, TypeOK
    <3>4. QED
      BY <3>2, <3>3
  <2>5. IsFiniteSet(TimerSet)' /\ Cardinality(TimerSet)' <= Cardinality(TimerSet) + 1
    BY <1>0, <2>1, <2>4, TimerAdded
  <2>6. Cardinality(TimerSet)' \in Nat
    BY <2>5, FS_CardinalityType
  <2>7. QED
    BY <1>0, <1>3, <2>1, <2>3, <2>5, <2>6
<1>8. ASSUME NEW s \in Server, heathCheckTimeout(s) PROVE Frees /\ IsFiniteSet(TimerSet)'
  <2>1. InTimer(s) > 0 /\ \A x \in Server : InTimer(x)' = IF x = s THEN InTimer(x) - 1 ELSE InTimer(x)
    <3>1. \A x \in Server : orphans[x] \in Nat
      BY DEF TypeOK
    <3>2. CASE s \in armed /\ armed' = armed \ {s} /\ UNCHANGED orphans
      BY <3>1, <3>2 DEF InTimer
    <3>3. CASE /\ orphans[s] > 0 /\ UNCHANGED armed
               /\ orphans' = [orphans EXCEPT ![s] = orphans[s] - 1]
      BY <3>1, <3>3 DEF InTimer, TypeOK
    <3>4. QED
      BY <1>8, <3>2, <3>3 DEF heathCheckTimeout
  <2>2. IsFiniteSet(TimerSet)' /\ Cardinality(TimerSet)' + 1 <= Cardinality(TimerSet)
    BY <1>0, <2>1, TimerTaken
  <2>3. Cardinality(TimerSet)' \in Nat
    BY <2>2, FS_CardinalityType
  <2>4. Len(checkerC)' <= Len(checkerC) + 1
    <3>1. Len(Append(checkerC, s)) = Len(checkerC) + 1
      BY DEF TypeOK
    <3>2. QED
      BY <1>0, <1>8, <3>1 DEF heathCheckTimeout
  <2>5. BusyWorkers' = BusyWorkers
    BY <1>8 DEF heathCheckTimeout, BusyWorkers
  <2>6. QED
    BY <1>0, <1>3, <2>2, <2>3, <2>4, <2>5
<1>9. QED
  BY <1>5, <1>6, <1>7, <1>8 DEF WorkerStep

\* N times the events due, plus the load, stays within N times the changes.
LEMMA BudgetKept ==
  ASSUME NEW N \in Nat, NEW l \in Nat, NEW d \in Nat, NEW o \in Nat,
         NEW l2 \in Nat, NEW d2 \in Nat, NEW o2 \in Nat, l + N * d <= N * o,
         \/ l2 <= l /\ d2 <= d /\ o2 = o
         \/ l2 <= l + N /\ d2 + 1 <= d /\ o2 = o
         \/ l2 = l /\ d2 <= d + 1 /\ o2 = o + 1
  PROVE  l2 + N * d2 <= N * o2
<1>1. /\ \A a, b \in Nat : a <= b => N * a <= N * b
      /\ \A a \in Nat : N * (a + 1) = N * a + N /\ N * a \in Nat
  OBVIOUS
<1>2. CASE l2 <= l /\ d2 <= d /\ o2 = o
  <2>1. N * d2 <= N * d
    BY <1>1, <1>2
  <2>2. QED
    BY <1>1, <1>2, <2>1
<1>3. CASE l2 <= l + N /\ d2 + 1 <= d /\ o2 = o
  <2>1. N * d2 + N <= N * d
    BY <1>1, <1>3
  <2>2. QED
    BY <1>1, <1>3, <2>1
<1>4. CASE l2 = l /\ d2 <= d + 1 /\ o2 = o + 1
  <2>1. N * d2 <= N * d + N /\ N * o2 = N * o + N
    BY <1>1, <1>4
  <2>2. QED
    BY <1>1, <1>4, <2>1
<1>5. QED
  BY <1>2, <1>3, <1>4

LEMMA LoadStep ==
  ASSUME TypeOK, LoadInv, [Next]_vars
  PROVE  LoadInv'
<1> DEFINE N == Cardinality(Server)
<1>1. TypeOK'
  BY TypeStep
<1>2. ASSUME UNCHANGED vars PROVE Frees /\ IsFiniteSet(TimerSet)'
  <2>1. UNCHANGED health /\ UNCHANGED loop /\ UNCHANGED evtQ /\ ops' = ops
    BY <1>2 DEF vars, store
  <2>2. Load' = Load /\ TimerSet' = TimerSet /\ Due' = Due
    BY <2>1, HealthSame DEF Load, LoopLoad, Due, DueSet
  <2>3. Load \in Nat /\ Due \in Nat
    BY CountTypes, TimersCounted DEF Counted, Load, LoadInv
  <2>4. QED
    BY <2>1, <2>2, <2>3 DEF Frees, LoadInv
<1>3. (Frees \/ Handles \/ Orders) /\ IsFiniteSet(TimerSet)'
  BY <1>1, <1>2, AdminOrders, EventHandles, HandlerFrees, HealthFrees DEF Next
<1>4. /\ N \in Nat /\ Load \in Nat /\ Due \in Nat /\ Due' \in Nat /\ ops \in Nat /\ MaxOps \in Nat
      /\ Load' \in Nat
  <2>1. N \in Nat /\ Due \in Nat /\ Due' \in Nat /\ ops \in Nat /\ MaxOps \in Nat
    BY <1>1, CountTypes, CountTypesNext, ServerCount, DispatcherAssumption DEF Counted, TypeOK
  <2>2. Cardinality(TimerSet) \in Nat /\ Cardinality(TimerSet)' \in Nat
    BY <1>3, FS_CardinalityType DEF LoadInv
  <2>3. /\ Len(checkerC) \in Nat /\ Cardinality(BusyWorkers) \in Nat /\ LoopLoad \in Nat
        /\ Len(checkerC)' \in Nat /\ Cardinality(BusyWorkers)' \in Nat /\ LoopLoad' \in Nat
    BY <1>1, CountTypes, CountTypesNext DEF Counted
  <2>4. QED
    BY <2>1, <2>2, <2>3 DEF Load
<1>5. Load + N * Due <= N * ops /\ ops <= MaxOps
  BY DEF LoadInv
<1>6. ops' \in Nat
  BY <1>1 DEF TypeOK
<1>7. Load' + N * Due' <= N * ops'
  <2> HIDE DEF N
  <2>1. \/ Load' <= Load /\ Due' <= Due /\ ops' = ops
        \/ Load' <= Load + N /\ Due' + 1 <= Due /\ ops' = ops
        \/ Load' = Load /\ Due' <= Due + 1 /\ ops' = ops + 1
    BY <1>3 DEF Frees, Handles, Orders, N
  <2>2. QED
    BY <1>4, <1>5, <1>6, <2>1, BudgetKept
<1>8. ops' <= MaxOps
  <2>1. ops' = ops \/ (ops' = ops + 1 /\ ops < MaxOps)
    BY <1>3 DEF Frees, Handles, Orders
  <2>2. ops \in Nat /\ MaxOps \in Nat /\ ops <= MaxOps
    BY <1>4, <1>5
  <2>3. QED
    BY <2>1, <2>2
<1>9. QED
  BY <1>3, <1>7, <1>8 DEF LoadInv

LEMMA FullMeansMany ==
  ASSUME NEW q \in Nat, NEW w \in Nat, NEW t \in Nat, NEW l \in Nat, NEW d \in Nat,
         NEW o \in Nat, NEW m \in Nat, NEW c \in Nat,
         q + w + t + l + d <= o, o <= m, c <= q, l >= 1
  PROVE  m > c + w
OBVIOUS

\* NoWaitCycle, for any servers, workers and capacity: event loop and check workers never
\* wait for each other, since a full channel, a check in every worker and one in the hands
\* of the loop are more checks than all changes together can have started.
THEOREM NeverWaitsInCycle == Spec => []NoWaitCycle
<1>1. Init => LoadInv
  <2> SUFFICES ASSUME Init PROVE LoadInv
    OBVIOUS
  <2>1. TimerSet = {} /\ BusyWorkers = {} /\ LoopLoad = 0
    BY DEF Init, TimerSet, InTimer, BusyWorkers, LoopLoad, Waiting
  <2>2. DueSet = {} /\ Len(checkerC) = 0
    BY DEF Init, DueSet
  <2>3. Load = 0 /\ Due = 0 /\ IsFiniteSet(TimerSet)
    BY <2>1, <2>2, FS_EmptySet DEF Load, Due
  <2>4. QED
    BY <2>3, ServerCount, DispatcherAssumption DEF LoadInv, Init
<1>2. TypeOK /\ LoadInv /\ [Next]_vars => LoadInv'
  BY LoadStep
<1>3. TypeOK /\ LoadInv => NoWaitCycle
  <2> SUFFICES ASSUME TypeOK, LoadInv, WaitCycle
               PROVE  Cardinality(Server) * MaxOps > CheckerCap + Cardinality(Worker)
    <3>1. Cardinality(Server) * MaxOps \in Nat /\ CheckerCap + Cardinality(Worker) \in Nat
      BY ServerCount, FS_CardinalityType, DispatcherAssumption
    <3>2. QED
      BY <3>1 DEF NoWaitCycle
  <2> DEFINE N == Cardinality(Server)
  <2>1. BusyWorkers = Worker
    BY DEF WaitCycle, BusyWorkers, Free
  <2>2. LoopLoad >= 1
    <3>1. loop.pc = "refreshPush" => Cardinality(loop.todo) \in Nat
      BY ServerCount DEF TypeOK, LoopType, Waiting
    <3>2. QED
      BY <3>1 DEF WaitCycle, LoopLoad
  <2>3. /\ N \in Nat /\ Due \in Nat /\ Cardinality(Worker) \in Nat /\ LoopLoad \in Nat
        /\ Cardinality(TimerSet) \in Nat /\ Len(checkerC) \in Nat /\ CheckerCap \in Nat
        /\ ops \in Nat /\ MaxOps \in Nat /\ Len(checkerC) >= CheckerCap
    BY CountTypes, ServerCount, WorkerCount, TimersCounted, DispatcherAssumption
       DEF Counted, LoadInv, TypeOK, WaitCycle
  <2>4. N * Due \in Nat /\ N * ops <= N * MaxOps /\ N * ops \in Nat /\ N * MaxOps \in Nat
    BY <2>3 DEF LoadInv
  <2>5. Len(checkerC) + Cardinality(Worker) + Cardinality(TimerSet) + LoopLoad + N * Due <= N * ops
    BY <2>1 DEF LoadInv, Load
  <2> HIDE DEF N
  <2>6. N * MaxOps > CheckerCap + Cardinality(Worker)
    BY <2>2, <2>3, <2>4, <2>5, FullMeansMany
  <2>7. QED
    BY <2>6 DEF N
<1>4. QED
  BY <1>1, <1>2, <1>3, TypeCorrect, PTL DEF Spec
=============================================================================
