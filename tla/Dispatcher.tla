------------------------------ MODULE Dispatcher ------------------------------
(***************************************************************************)
(* The dispatcher of the proxy: its tables of clusters, servers and binds  *)
(* (proxy/dispatcher_meta.go, dispatcher_event.go,                         *)
(* dispatcher_copy_on_write.go), the etcd store whose watch feeds them     *)
(* (store/store_etcd.go, store_watch.go) and the health checker that       *)
(* decides which bound servers are active (proxy/checker.go).              *)
(*                                                                         *)
(* Actors: the administrator changing the store; one event loop that       *)
(* receives store events and status events from an unbuffered channel;     *)
(* health-check workers fed by the buffered channel checkerC; the timer    *)
(* wheel that puts a server back on checkerC.                              *)
(*                                                                         *)
(* binds[c][s][st] counts the bindInfo entries of server s with status st  *)
(* in cluster c, actives[c][s] the copies of s in the list the load        *)
(* balancer reads: both are Go slices that may hold duplicates and whose   *)
(* order no property depends on.                                           *)
(*                                                                         *)
(* Copy-on-write replaces every server object, so a worker or a timer may  *)
(* still own an old one.  armed: servers whose current object holds the    *)
(* handle of a pending timer; orphans: pending timers no object holds.     *)
(***************************************************************************)
EXTENDS Integers, Sequences, FiniteSets

CONSTANTS
    Cluster, Server, Worker,
    CheckerCap,      \* capacity of checkerC (1024 in the code)
    MaxOps           \* bound: changes made to the store

ASSUME DispatcherAssumption ==
    /\ IsFiniteSet(Server) /\ IsFiniteSet(Worker)
    /\ CheckerCap \in Nat \ {0}
    /\ MaxOps \in Nat

Status == {"Up", "Down", "Unknown"}

\* A server's meta: missing, without and with HeathCheck.
Meta == {"absent", "plain", "checked"}

Event ==
    [src: {"server"}, type: {"New", "Update"}, id: Server, meta: Meta \ {"absent"}]
      \cup [src: {"server"}, type: {"Delete"}, id: Server]
      \cup [src: {"cluster"}, type: {"New", "Update", "Delete"}, id: Cluster]
      \cup [src: {"bind"}, type: {"New", "Update", "Delete"}, cluster: Cluster, id: Server]
      \cup [src: {"proxy"}]

ServerEvt(type, s, m) == [src |-> "server", type |-> type, id |-> s, meta |-> m]
ServerDel(s) == [src |-> "server", type |-> "Delete", id |-> s]
ClusterEvt(type, c) == [src |-> "cluster", type |-> type, id |-> c]
BindEvt(type, c, s) == [src |-> "bind", type |-> type, cluster |-> c, id |-> s]
ProxyEvt == [src |-> "proxy"]

VARIABLES
    stClusters, stServers, stBinds,   \* the keys in etcd
    evtQ,                             \* watch events not yet received
    ops,                              \* changes made so far
    clusters, servers, binds, actives,
    loop,                             \* the event loop
    checkerC,                         \* queued health checks
    worker, armed, orphans

store == <<stClusters, stServers, stBinds, ops>>
tables == <<clusters, servers, binds, actives>>
health == <<checkerC, worker, armed, orphans>>
vars == <<store, evtQ, tables, loop, health>>

\* The event loop waits for an event; pushes `id` to checkerC; installs the new
\* server table with meta `meta` for `id`; or refreshes the servers in `todo`, inside
\* updateMeta and then addToCheck of `id`.
Waiting == [pc |-> "recv"]
Pushing(s, m) == [pc |-> "push", id |-> s, meta |-> m]
Installing(s, m) == [pc |-> "install", id |-> s, meta |-> m]
Refreshing(S) == [pc |-> "refresh", todo |-> S]
RefreshWiping(s, S) == [pc |-> "refreshWipe", id |-> s, todo |-> S]
RefreshPush(s, S) == [pc |-> "refreshPush", id |-> s, todo |-> S]

LoopType ==
    {Waiting}
      \cup [pc: {"push", "install"}, id: Server, meta: Meta \ {"absent"}]
      \cup [pc: {"refresh"}, todo: SUBSET Server]
      \cup [pc: {"refreshWipe", "refreshPush"}, id: Server, todo: SUBSET Server]

\* A worker: waiting for an id; probing a server whose object it read; sending a
\* status event; rescheduling.  cur: its object is still the one in the table.
Free == [pc |-> "idle"]
WorkerType ==
    {Free} \cup [pc: {"probe"}, id: Server, prev: Status, cur: BOOLEAN]
           \cup [pc: {"send"}, id: Server, status: Status, hc: BOOLEAN, cur: BOOLEAN]
           \cup [pc: {"resched"}, id: Server, cur: BOOLEAN]

TypeOK ==
    /\ stClusters \in SUBSET Cluster
    /\ stServers \in [Server -> Meta]
    /\ stBinds \in SUBSET (Cluster \X Server)
    /\ evtQ \in Seq(Event)
    /\ ops \in Nat
    /\ clusters \in SUBSET Cluster
    /\ servers \in [Server -> Meta]
    /\ binds \in [Cluster -> [Server -> [Status -> Nat]]]
    /\ actives \in [Cluster -> [Server -> Nat]]
    /\ loop \in LoopType
    /\ checkerC \in Seq(Server)
    /\ worker \in [Worker -> WorkerType]
    /\ armed \in SUBSET Server
    /\ orphans \in [Server -> Nat]

NoBind == [st \in Status |-> 0]

Init ==
    /\ stClusters = {} /\ stServers = [s \in Server |-> "absent"] /\ stBinds = {}
    /\ evtQ = <<>>
    /\ ops = 0
    /\ clusters = {}
    /\ servers = [s \in Server |-> "absent"]
    /\ binds = [c \in Cluster |-> [s \in Server |-> NoBind]]
    /\ actives = [c \in Cluster |-> [s \in Server |-> 0]]
    /\ loop = Waiting
    /\ checkerC = <<>>
    /\ worker = [w \in Worker |-> Free]
    /\ armed = {}
    /\ orphans = [s \in Server |-> 0]

-----------------------------------------------------------------------------
(* The administrator's operations on the store.  A put of a present key is *)
(* an Update event, a delete of a missing key no event at all.             *)

Change(evts) ==
    /\ ops < MaxOps
    /\ ops' = ops + 1
    /\ evtQ' = evtQ \o evts
    /\ UNCHANGED <<tables, loop, health>>

PutServer(s, m) ==
    /\ stServers' = [stServers EXCEPT ![s] = m]
    /\ Change(<<ServerEvt(IF stServers[s] = "absent" THEN "New" ELSE "Update", s, m)>>)
    /\ UNCHANGED <<stClusters, stBinds>>

\* Deletes the server's key only: its binds stay.
RemoveServer(s) ==
    /\ stServers[s] # "absent"
    /\ stServers' = [stServers EXCEPT ![s] = "absent"]
    /\ Change(<<ServerDel(s)>>)
    /\ UNCHANGED <<stClusters, stBinds>>

PutCluster(c) ==
    /\ stClusters' = stClusters \cup {c}
    /\ Change(<<ClusterEvt(IF c \in stClusters THEN "Update" ELSE "New", c)>>)
    /\ UNCHANGED <<stServers, stBinds>>

\* One transaction: the cluster's key, then every bind under its prefix.
RemoveCluster(c) ==
    LET bound == {s \in Server : <<c, s>> \in stBinds}
        n == Cardinality(bound)
    IN  /\ c \in stClusters
        /\ stClusters' = stClusters \ {c}
        /\ stBinds' = {b \in stBinds : b[1] # c}
        /\ \E order \in [1..n -> bound] :
             /\ \A i, j \in 1..n : order[i] = order[j] => i = j
             /\ Change(<<ClusterEvt("Delete", c)>>
                         \o [i \in 1..n |-> BindEvt("Delete", c, order[i])])
        /\ UNCHANGED stServers

\* Neither the cluster nor the server need exist.
AddBind(c, s) ==
    /\ stBinds' = stBinds \cup {<<c, s>>}
    /\ Change(<<BindEvt(IF <<c, s>> \in stBinds THEN "Update" ELSE "New", c, s)>>)
    /\ UNCHANGED <<stClusters, stServers>>

RemoveBind(c, s) ==
    /\ <<c, s>> \in stBinds
    /\ stBinds' = stBinds \ {<<c, s>>}
    /\ Change(<<BindEvt("Delete", c, s)>>)
    /\ UNCHANGED <<stClusters, stServers>>

\* A proxy registers or its lease ends.
ProxyChange ==
    /\ Change(<<ProxyEvt>>)
    /\ UNCHANGED <<stClusters, stServers, stBinds>>

Admin ==
    \/ \E s \in Server : RemoveServer(s) \/ \E m \in Meta \ {"absent"} : PutServer(s, m)
    \/ \E c \in Cluster : PutCluster(c) \/ RemoveCluster(c)
    \/ \E c \in Cluster, s \in Server : AddBind(c, s) \/ RemoveBind(c, s)
    \/ ProxyChange

-----------------------------------------------------------------------------
(* The event loop, store events (doXEvent and the handlers it calls).      *)

Receive(e) ==
    /\ loop = Waiting
    /\ evtQ # <<>>
    /\ Head(evtQ) = e
    /\ evtQ' = Tail(evtQ)
    /\ UNCHANGED store

\* copyServers: every object is replaced, and with it every timer handle.
CloneAll(stopped) ==
    /\ armed' = {}
    /\ orphans' = [s \in Server |-> orphans[s] + (IF s \in armed \ stopped THEN 1 ELSE 0)]
    /\ worker' = [w \in Worker |->
                    IF worker[w] = Free THEN Free ELSE [worker[w] EXCEPT !.cur = FALSE]]

addServer(s, m) ==
    /\ Receive(ServerEvt("New", s, m))
    /\ loop' = IF servers[s] = "absent" THEN Pushing(s, m) ELSE Waiting
    /\ UNCHANGED <<tables, health>>

\* Stops the current object's timer before the new object is built.
updateServer(s, m) ==
    /\ Receive(ServerEvt("Update", s, m))
    /\ IF servers[s] = "absent"
       THEN UNCHANGED <<loop, armed>>
       ELSE /\ loop' = Pushing(s, m)
            /\ armed' = armed \ {s}
    /\ UNCHANGED <<tables, checkerC, worker, orphans>>

\* addToCheck sends the id while the old table is still installed.
addToCheck ==
    \E s \in Server, m \in Meta \ {"absent"} :
        /\ loop = Pushing(s, m)
        /\ Len(checkerC) < CheckerCap
        /\ checkerC' = Append(checkerC, s)
        /\ loop' = Installing(s, m)
        /\ UNCHANGED <<store, evtQ, tables, worker, armed, orphans>>

\* Mutant of InstallServers: the clone keeps its old meta.
InstallServersOldMeta ==
    \E s \in Server, m \in Meta \ {"absent"} :
        /\ loop = Installing(s, m)
        /\ servers' = [servers EXCEPT ![s] = IF @ = "absent" THEN m ELSE @]
        /\ CloneAll({})
        /\ loop' = Waiting
        /\ UNCHANGED <<store, evtQ, clusters, binds, actives, checkerC>>

\* r.servers = newValues.
InstallServers ==
    \E s \in Server, m \in Meta \ {"absent"} :
        /\ loop = Installing(s, m)
        /\ servers' = [servers EXCEPT ![s] = m]
        /\ CloneAll({})
        /\ loop' = Waiting
        /\ UNCHANGED <<store, evtQ, clusters, binds, actives, checkerC>>

\* Mutant of removeServer: the binds are not copied without the server.
removeServerKeepsBinds(s) ==
    /\ Receive(ServerDel(s))
    /\ IF servers[s] = "absent"
       THEN UNCHANGED <<tables, health>>
       ELSE /\ servers' = [servers EXCEPT ![s] = "absent"]
            /\ CloneAll({s})
            /\ UNCHANGED <<clusters, binds, actives, checkerC>>
    /\ UNCHANGED loop

\* Stops the object's timer, clones the others, drops the binds in all clusters.
removeServer(s) ==
    /\ Receive(ServerDel(s))
    /\ IF servers[s] = "absent"
       THEN UNCHANGED <<tables, health>>
       ELSE /\ servers' = [servers EXCEPT ![s] = "absent"]
            /\ binds' = [c \in Cluster |-> [binds[c] EXCEPT ![s] = NoBind]]
            /\ actives' = [c \in Cluster |-> [actives[c] EXCEPT ![s] = 0]]
            /\ CloneAll({s})
            /\ UNCHANGED <<clusters, checkerC>>
    /\ UNCHANGED loop

addCluster(c) ==
    /\ Receive(ClusterEvt("New", c))
    /\ clusters' = clusters \cup {c}
    /\ UNCHANGED <<servers, binds, actives, loop, health>>

\* Replaces the load balancer only.
updateCluster(c) ==
    /\ Receive(ClusterEvt("Update", c))
    /\ UNCHANGED <<tables, loop, health>>

\* copyBinds is asked to leave out server 0 of the cluster, so it copies all binds.
removeCluster(c) ==
    /\ Receive(ClusterEvt("Delete", c))
    /\ clusters' = clusters \ {c}
    /\ UNCHANGED <<servers, binds, actives, loop, health>>

\* Refused when the server or the cluster is unknown; a server without health
\* check is active at once.  There is no check that the bind exists.
addBind(c, s) ==
    /\ Receive(BindEvt("New", c, s))
    /\ IF servers[s] = "absent" \/ c \notin clusters
       THEN UNCHANGED <<binds, actives>>
       ELSE LET st == IF servers[s] = "plain" THEN "Up" ELSE "Unknown" IN
            /\ binds' = [binds EXCEPT ![c][s][st] = @ + 1]
            /\ actives' = IF st = "Up" THEN [actives EXCEPT ![c][s] = @ + 1] ELSE actives
    /\ UNCHANGED <<clusters, servers, loop, health>>

\* doBindEvent handles no Update.
ignoreBind(c, s) ==
    /\ Receive(BindEvt("Update", c, s))
    /\ UNCHANGED <<tables, loop, health>>

removeBind(c, s) ==
    /\ Receive(BindEvt("Delete", c, s))
    /\ IF servers[s] = "absent" \/ c \notin clusters
       THEN UNCHANGED <<binds, actives>>
       ELSE /\ binds' = [binds EXCEPT ![c][s] = NoBind]
            /\ actives' = [actives EXCEPT ![c][s] = 0]
    /\ UNCHANGED <<clusters, servers, loop, health>>

\* addProxy, removeProxy: refreshAllQPS updates every server object in place and
\* queues a check of each.
refreshAllQPS ==
    /\ Receive(ProxyEvt)
    /\ loop' = Refreshing({s \in Server : servers[s] # "absent"})
    /\ UNCHANGED <<tables, health>>

\* Mutant of RefreshServer: the handler does not return after the last server.
RefreshServerStuck ==
    /\ loop.pc = "refresh"
    /\ \E s \in loop.todo :
         /\ loop' = RefreshWiping(s, loop.todo \ {s})
         /\ armed' = armed \ {s}
    /\ UNCHANGED <<store, evtQ, tables, checkerC, worker, orphans>>

\* The next server of the range loop: updateMeta stops its timer.
RefreshServer ==
    /\ loop.pc = "refresh"
    /\ \/ /\ loop.todo = {}
          /\ loop' = Waiting
          /\ UNCHANGED armed
       \/ \E s \in loop.todo :
            /\ loop' = RefreshWiping(s, loop.todo \ {s})
            /\ armed' = armed \ {s}
    /\ UNCHANGED <<store, evtQ, tables, checkerC, worker, orphans>>

\* updateMeta wipes the object: the handle of a timer that a worker has stored
\* since is lost, or stopped by addToCheck when it was stored after the wipe.
RefreshWipe ==
    /\ loop.pc = "refreshWipe"
    /\ loop' = RefreshPush(loop.id, loop.todo)
    /\ armed' = armed \ {loop.id}
    /\ \/ UNCHANGED orphans
       \/ /\ loop.id \in armed
          /\ orphans' = [orphans EXCEPT ![loop.id] = @ + 1]
    /\ UNCHANGED <<store, evtQ, tables, checkerC, worker>>

RefreshAddToCheck ==
    /\ loop.pc = "refreshPush"
    /\ Len(checkerC) < CheckerCap
    /\ checkerC' = Append(checkerC, loop.id)
    /\ loop' = Refreshing(loop.todo)
    /\ UNCHANGED <<store, evtQ, tables, worker, armed, orphans>>

-----------------------------------------------------------------------------
(* Health checking.                                                        *)

Bound(c, s) == \E st \in Status : binds[c][s][st] > 0

Entries(c, s) == binds[c][s]["Up"] + binds[c][s]["Down"] + binds[c][s]["Unknown"]

\* getServerStatus: the first entry met in an unordered map.
ServerStatus(s) ==
    LET seen == {st \in Status : \E c \in Cluster : binds[c][s][st] > 0}
    IN  IF seen = {} THEN {"Unknown"} ELSE seen

\* A worker takes an id and looks the server up; an unknown id ends the check.
Check(w) ==
    /\ worker[w] = Free
    /\ checkerC # <<>>
    /\ checkerC' = Tail(checkerC)
    /\ LET s == Head(checkerC) IN
       \/ /\ servers[s] = "absent"
          /\ UNCHANGED worker
       \/ /\ servers[s] = "plain"
          /\ worker' = [worker EXCEPT ![w] =
               [pc |-> "send", id |-> s, status |-> "Up", hc |-> FALSE, cur |-> TRUE]]
       \/ /\ servers[s] = "checked"
          /\ \E prev \in ServerStatus(s) :
               worker' = [worker EXCEPT ![w] =
                 [pc |-> "probe", id |-> s, prev |-> prev, cur |-> TRUE]]
    /\ UNCHANGED <<store, evtQ, tables, loop, armed, orphans>>

\* doCheck: the probe succeeds or fails; only a change is reported.
DoCheck(w) ==
    /\ worker[w].pc = "probe"
    /\ \E status \in {"Up", "Down"} :
         worker' = [worker EXCEPT ![w] =
           IF status # worker[w].prev
           THEN [pc |-> "send", id |-> worker[w].id, status |-> status,
                 hc |-> TRUE, cur |-> worker[w].cur]
           ELSE [pc |-> "resched", id |-> worker[w].id, cur |-> worker[w].cur]]
    /\ UNCHANGED <<store, evtQ, tables, loop, checkerC, armed, orphans>>

\* Mutant of ChangeStatus: a server that went down stays in the list.
ChangeStatusKeepsActive(s, status) ==
    /\ binds' = [c \in Cluster |->
                   IF Bound(c, s)
                   THEN [binds[c] EXCEPT ![s] =
                           [st \in Status |-> IF st = status THEN Entries(c, s) ELSE 0]]
                   ELSE binds[c]]
    /\ actives' = [c \in Cluster |->
                     IF Bound(c, s) THEN [actives[c] EXCEPT ![s] = @ + 1] ELSE actives[c]]

\* doStatusChangedEvent for server s: every bind of s in every cluster.
ChangeStatus(s, status) ==
    /\ binds' = [c \in Cluster |->
                   IF Bound(c, s)
                   THEN [binds[c] EXCEPT ![s] =
                           [st \in Status |-> IF st = status THEN Entries(c, s) ELSE 0]]
                   ELSE binds[c]]
    /\ actives' = [c \in Cluster |->
                     IF Bound(c, s)
                     THEN [actives[c] EXCEPT ![s] = IF status = "Up" THEN @ + 1 ELSE 0]
                     ELSE actives[c]]

\* The event loop receives the worker's event.
doStatusChangedEvent(w) ==
    /\ loop = Waiting
    /\ worker[w].pc = "send"
    /\ \E old \in ServerStatus(worker[w].id) :
         IF old = worker[w].status
         THEN UNCHANGED <<binds, actives>>
         ELSE ChangeStatus(worker[w].id, worker[w].status)
    /\ worker' = [worker EXCEPT ![w] =
         IF worker[w].hc
         THEN [pc |-> "resched", id |-> worker[w].id, cur |-> worker[w].cur]
         ELSE Free]
    /\ UNCHANGED <<store, evtQ, clusters, servers, loop, checkerC, armed, orphans>>

\* The deferred function of check: a new timer, its handle in the worker's object.
Reschedule(w) ==
    LET s == worker[w].id
        held == worker[w].cur
    IN  /\ worker[w].pc = "resched"
        /\ armed' = IF held THEN armed \cup {s} ELSE armed
        /\ orphans' = IF held /\ s \notin armed THEN orphans
                      ELSE [orphans EXCEPT ![s] = @ + 1]
        /\ worker' = [worker EXCEPT ![w] = Free]
        /\ UNCHANGED <<store, evtQ, tables, loop, checkerC>>

\* Mutant of heathCheckTimeout: the timer goes on although its check starts another.
heathCheckTimeoutTicks(s) ==
    /\ s \in armed \/ orphans[s] > 0
    /\ servers[s] # "absent"
    /\ Len(checkerC) < CheckerCap
    /\ checkerC' = Append(checkerC, s)
    /\ UNCHANGED <<store, evtQ, tables, loop, worker, armed, orphans>>

\* The wheel runs heathCheckTimeout, which sends while the server is known.
heathCheckTimeout(s) ==
    /\ \/ /\ s \in armed
          /\ armed' = armed \ {s}
          /\ UNCHANGED orphans
       \/ /\ orphans[s] > 0
          /\ orphans' = [orphans EXCEPT ![s] = @ - 1]
          /\ UNCHANGED armed
    /\ \/ /\ servers[s] = "absent"
          /\ UNCHANGED checkerC
       \/ /\ servers[s] # "absent"
          /\ Len(checkerC) < CheckerCap
          /\ checkerC' = Append(checkerC, s)
    /\ UNCHANGED <<store, evtQ, tables, loop, worker>>

-----------------------------------------------------------------------------
StoreEvent ==
    \/ \E s \in Server, m \in Meta \ {"absent"} : addServer(s, m) \/ updateServer(s, m)
    \/ \E s \in Server : removeServer(s)
    \/ \E c \in Cluster : addCluster(c) \/ updateCluster(c) \/ removeCluster(c)
    \/ \E c \in Cluster, s \in Server : addBind(c, s) \/ ignoreBind(c, s) \/ removeBind(c, s)
    \/ refreshAllQPS

Handler ==
    \/ addToCheck \/ InstallServers
    \/ RefreshServer \/ RefreshWipe \/ RefreshAddToCheck

WorkerStep(w) == Check(w) \/ DoCheck(w) \/ Reschedule(w)

Next ==
    \/ Admin
    \/ StoreEvent
    \/ Handler
    \/ \E w \in Worker : WorkerStep(w) \/ doStatusChangedEvent(w)
    \/ \E s \in Server : heathCheckTimeout(s)

Spec == Init /\ [][Next]_vars

\* Goroutines are scheduled and blocked senders of a channel are served in turn.
Fairness ==
    /\ WF_vars(StoreEvent)
    /\ SF_vars(Handler)
    /\ \A w \in Worker : WF_vars(WorkerStep(w)) /\ SF_vars(doStatusChangedEvent(w))
    /\ \A s \in Server : WF_vars(heathCheckTimeout(s))

FairSpec == Spec /\ Fairness
-----------------------------------------------------------------------------
(* Properties.                                                             *)

\* The load balancer's list and the bind statuses agree in every cluster: a server
\* is listed exactly when a bind of it is Up, whatever late status events, updates
\* and removals interleave.
ActivesMatchUp ==
    \A c \in Cluster, s \in Server : actives[c][s] > 0 <=> binds[c][s]["Up"] > 0

\* No cluster holds a bind of a server the dispatcher does not know: a status event
\* sent before removeServer and received after it brings nothing back.
BindsOnKnownServers ==
    \A c \in Cluster, s \in Server : Bound(c, s) => servers[s] # "absent"

\* When all store events are handled, the dispatcher knows the clusters and servers
\* of the store.
Converged ==
    evtQ = <<>> /\ loop = Waiting => clusters = stClusters /\ servers = stServers

\* The event loop waits for room in checkerC, and every worker that could make room
\* waits for the loop to receive its status event.
WaitCycle ==
    /\ loop.pc \in {"push", "refreshPush"}
    /\ Len(checkerC) >= CheckerCap
    /\ \A w \in Worker : worker[w].pc = "send"

\* The event loop and the workers never wait for each other as long as checkerC and the
\* workers can hold one check of every server for each change of the store: no timer, retry
\* or refresh adds to the checks that changes have started.
NoWaitCycle ==
    Cardinality(Server) * MaxOps <= CheckerCap + Cardinality(Worker) => ~WaitCycle

\* The event loop never stops handling store events, as long as checkerC and the
\* workers together hold every check the handled events can queue.  (With a smaller
\* CheckerCap the loop waits for room in checkerC while every worker waits for the
\* loop to receive its status event.)
EventsDrain == evtQ # <<>> ~> evtQ = <<>> /\ loop = Waiting

\* Pending checks of s: queued, in a worker that holds a checked object, in a timer,
\* or about to be queued by the event loop.
Queued(s) == Cardinality({i \in DOMAIN checkerC : checkerC[i] = s})
InWorker(s) ==
    Cardinality({w \in Worker :
        worker[w] # Free /\ worker[w].id = s /\ (worker[w].pc = "send" => worker[w].hc)})
InTimer(s) == orphans[s] + (IF s \in armed THEN 1 ELSE 0)
InLoop(s) == IF loop.pc \in {"push", "refreshWipe", "refreshPush"} /\ loop.id = s THEN 1 ELSE 0
Checks(s) == Queued(s) + InWorker(s) + InTimer(s) + InLoop(s)

\* "stop old heath check": updateServer and removeServer leave no older check behind.
OldCheckStopped == loop = Waiting => \A s \in Server : Checks(s) <= 1

\* "RemoveCluster remove the cluster and it's binds": with all events handled, the
\* dispatcher routes a cluster to servers that the store binds to it.
RoutesStoredBinds ==
    evtQ = <<>> /\ loop = Waiting =>
        \A c \in clusters, s \in Server : Bound(c, s) => <<c, s>> \in stBinds
=============================================================================
