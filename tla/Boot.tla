-------------------------------- MODULE Boot ---------------------------------
(***************************************************************************)
(* The start of a proxy: load reads every directory of the meta store into *)
(* the tables of the dispatcher while the watch already feeds the event    *)
(* loop, and what the tables hold afterwards.  The proxy may be killed and *)
(* started again, the watch may break and be registered anew, and a read   *)
(* of the store may fail.                                                  *)
(*                                                                         *)
(* Clusters, servers and binds are here as far as load and their events    *)
(* fill the tables; Dispatcher has the rest of them.  All APIs have the    *)
(* same URL pattern and method: two of them conflict in the route.  The    *)
(* store is changed by one administration server, whose lock makes each    *)
(* operation one step.                                                     *)
(***************************************************************************)
EXTENDS Integers, Sequences, FiniteSets

CONSTANTS
    Cluster, Server, API, Routing, Plugin,
    Peer,        \* the other proxies, which register themselves
    Contents,    \* what the store may hold at first
    PageLimit,   \* the objects of one read of a directory (limit, 32)
    Changed,     \* bound: directories that the administrator changes
    MaxOps,      \* bound: changes of the store
    MaxFailures  \* bound: broken watches and failed reads

ASSUME BootAssumption ==
    /\ MaxOps \in Nat /\ MaxFailures \in Nat /\ PageLimit \in Nat \ {0}
    /\ \A S \in {Cluster, Server, API, Routing, Plugin, Peer} :
          S \subseteq Nat /\ IsFiniteSet(S)

\* An object is the version of its meta, 0 when there is none.  Of an API the
\* first version is up, the second down.
Absent == 0
Version == {1, 2}
Up == 1

Tables == {"proxies", "clusters", "servers", "apis", "routings", "plugins"}
KeysOf(d) ==
    CASE d = "proxies" -> Peer [] d = "clusters" -> Cluster
      [] d = "servers" -> Server [] d = "apis" -> API
      [] d = "routings" -> Routing [] d = "plugins" -> Plugin

\* The tables t of a store or of a dispatcher.
IsTables(t) ==
    /\ t = [d \in Tables |-> t[d]]
    /\ \A d \in Tables : t[d] \in [KeysOf(d) -> {Absent} \union Version]

\* No key: for the nil pointer, and for a route that finds no API.
None == -1

\* PutAPI keeps two APIs in the store from being up at the same time.
ASSUME ContentsAssumption ==
    \A c \in Contents :
        /\ IsTables(c.st)
        /\ c.binds \subseteq Cluster \X Server /\ c.applied \subseteq Plugin
        /\ \A a, b \in API : c.st["apis"][a] = Up /\ c.st["apis"][b] = Up => a = b

\* Mutant: the binds before the servers.
Order_BindsFirst ==
    <<"proxies", "clusters", "binds", "servers", "apis", "routings", "plugins",
      "applied">>
\* The order of load.
Order ==
    <<"proxies", "clusters", "servers", "binds", "apis", "routings", "plugins",
      "applied">>

VARIABLES
    st, stBinds, stApplied,  \* the store
    ops,       \* changes of the store so far
    proxy,     \* "off", "on", or why the process stopped itself
    failures,
    watch,     \* "none" before it is registered, "on", or "broken"
    evts,      \* events that the event loop has not received
    tab, bound, route, applied, engine,  \* the tables of the dispatcher
    built,     \* history: the engine was built for the plugins applied last
    refused,   \* history: plugins whose last update was refused
    loader,    \* the state of load
    flaws      \* history: what kept the load of a directory from following

store == <<st, stBinds, stApplied, ops>>
js == <<applied, engine, built, refused>>
tables == <<tab, bound, route, applied, engine, built, refused>>
vars == <<store, proxy, failures, watch, evts, tables, loader, flaws>>

Nil == {None}     \* appliedPlugins before it is set
Nothing == [d \in Tables |-> [k \in KeysOf(d) |-> Absent]]
NoEngine == [p \in Plugin |-> Absent]

\* load has read of the directory Order[at]: `todo` is left to add, and the
\* keys of `rest` are left to read.
Loading(i, S, R) == [at |-> i, todo |-> S, pend |-> {}, rest |-> R]

Fresh ==
    /\ tab' = Nothing /\ bound' = {} /\ route' = None
    /\ applied' = Nil /\ engine' = NoEngine /\ built' = TRUE /\ refused' = {}
    /\ loader' = Loading(0, {}, {})
    /\ watch' = "none" /\ evts' = <<>>

Init ==
    /\ \E c \in Contents :
          st = c.st /\ stBinds = c.binds /\ stApplied = c.applied
    /\ ops = 0
    /\ proxy = "off" /\ failures = 0
    /\ watch = "none" /\ evts = <<>>
    /\ tab = Nothing /\ bound = {} /\ route = None
    /\ applied = Nil /\ engine = NoEngine /\ built = TRUE /\ refused = {}
    /\ loader = Loading(0, {}, {})
    /\ flaws = {}

On == proxy = "on"
Idle == loader.todo = {} /\ loader.pend = {} /\ loader.rest = {}
Loaded == loader.at = Len(Order) /\ Idle
Dir == Order[loader.at]

\* load has begun to read directory d.
HasRead(d) == \E i \in 1..loader.at : Order[i] = d

\* Plugins are applied that do not exist.
Stray == \E p \in stApplied : st["plugins"][p] = Absent

(***************************************************************************)
(* The administration server: each change is an event of the watch.        *)
(***************************************************************************)
\* An event: New for a key that was not there, Delete for the value Absent.
Evt(d, k, new, v) == [src |-> d, key |-> k, new |-> new, value |-> v]
ObjectEvt(d, k, v) == Evt(d, k, st[d][k] = Absent, v)
BindEvt(b, v) == Evt("binds", b, b \notin stBinds, v)
AppliedEvt(S) == Evt("applied", None, FALSE, S)

\* The events E of a change: the watch sends them if it is registered.  They
\* are missed by a directory that load has read already if it is not yet, and
\* by all if it is broken.
Missed(E) ==
    {<<"missed", E[i].src>> :
        i \in {j \in DOMAIN E : watch = "broken" \/ HasRead(E[j].src)}}
Applies(E) == \E i \in DOMAIN E : E[i].src = "applied"
Changes(E) ==
    /\ ops < MaxOps /\ ops' = ops + 1
    /\ evts' = IF watch = "on" THEN evts \o E ELSE evts
    /\ flaws' = flaws \union
          (IF ~On \/ watch = "on" THEN {} ELSE Missed(E)) \union
          (IF Applies(E) /\ Stray' THEN {<<"stray", "applied">>} ELSE {})
    /\ UNCHANGED <<proxy, failures, watch, tables, loader>>

\* PutCluster, PutServer, PutRouting, PutPlugin, RegistryProxy.
PutObject(d, k, v) ==
    /\ d # "apis"
    /\ st' = [st EXCEPT ![d][k] = v]
    /\ UNCHANGED <<stBinds, stApplied>>
    /\ Changes(<<ObjectEvt(d, k, v)>>)

\* PutAPI: an API that is up conflicts with another that is up.
PutAPI(a, v) ==
    /\ v = Up => \A b \in API \ {a} : st["apis"][b] # Up
    /\ st' = [st EXCEPT !["apis"][a] = v]
    /\ UNCHANGED <<stBinds, stApplied>>
    /\ Changes(<<ObjectEvt("apis", a, v)>>)

\* RemoveServer (its binds stay), RemoveAPI, RemoveRouting, and the end of
\* the lease of a proxy.
RemoveObject(d, k) ==
    /\ d \notin {"clusters", "plugins"} /\ st[d][k] # Absent
    /\ st' = [st EXCEPT ![d][k] = Absent]
    /\ UNCHANGED <<stBinds, stApplied>>
    /\ Changes(<<ObjectEvt(d, k, Absent)>>)

\* The events for the binds of B, in any order.
Lists(B) ==
    {l \in [1..Cardinality(B) -> B] : \A b \in B : \E i \in DOMAIN l : l[i] = b}
BindsGone(l) == [i \in DOMAIN l |-> BindEvt(l[i], Absent)]

\* RemoveCluster: the cluster and its binds in one transaction.
RemoveCluster(c) ==
    LET B == {b \in stBinds : b[1] = c}
    IN  /\ st["clusters"][c] # Absent
        /\ st' = [st EXCEPT !["clusters"][c] = Absent]
        /\ stBinds' = stBinds \ B
        /\ UNCHANGED stApplied
        /\ \E l \in Lists(B) :
              Changes(<<ObjectEvt("clusters", c, Absent)>> \o BindsGone(l))

\* Mutant: no look at what is applied.
RemovePlugin_Unchecked(p) ==
    /\ st["plugins"][p] # Absent
    /\ st' = [st EXCEPT !["plugins"][p] = Absent]
    /\ UNCHANGED <<stBinds, stApplied>>
    /\ Changes(<<ObjectEvt("plugins", p, Absent)>>)
\* RemovePlugin refuses a plugin that is applied.
RemovePlugin(p) ==
    /\ st["plugins"][p] # Absent /\ p \notin stApplied
    /\ st' = [st EXCEPT !["plugins"][p] = Absent]
    /\ UNCHANGED <<stBinds, stApplied>>
    /\ Changes(<<ObjectEvt("plugins", p, Absent)>>)

AddBind(b) ==
    /\ stBinds' = stBinds \union {b}
    /\ UNCHANGED <<st, stApplied>>
    /\ Changes(<<BindEvt(b, Up)>>)
RemoveBind(b) ==
    /\ b \in stBinds
    /\ stBinds' = stBinds \ {b}
    /\ UNCHANGED <<st, stApplied>>
    /\ Changes(<<BindEvt(b, Absent)>>)

\* ApplyPlugins does not look whether the plugins exist.
ApplyPlugins(S) ==
    /\ stApplied' = S
    /\ UNCHANGED <<st, stBinds>>
    /\ Changes(<<AppliedEvt(S)>>)

Administer ==
    \/ \E d \in Tables \cap Changed : \E k \in KeysOf(d) :
          (\E v \in Version : PutObject(d, k, v)) \/ RemoveObject(d, k)
    \/ \E a \in API, v \in Version : "apis" \in Changed /\ PutAPI(a, v)
    \/ \E c \in Cluster : "clusters" \in Changed /\ RemoveCluster(c)
    \/ \E p \in Plugin : "plugins" \in Changed /\ RemovePlugin(p)
    \/ \E b \in Cluster \X Server :
          "binds" \in Changed /\ (AddBind(b) \/ RemoveBind(b))
    \/ \E S \in SUBSET Plugin : "applied" \in Changed /\ ApplyPlugins(S)

(***************************************************************************)
(* The operations of the dispatcher on its tables, for load and for events.*)
(***************************************************************************)
Has(d, k) == tab[d][k] # Absent
With(d, k, v) == tab' = [tab EXCEPT ![d][k] = v]
Running == UNCHANGED proxy
Stops(why) == proxy' = why /\ UNCHANGED tables

\* The API of the others that copyAPIs puts into the new route, if any.
OtherUp(a) == {b \in API \ {a} : tab["apis"][b] = Up}
Routes(S) == route' = IF S = {} THEN None ELSE CHOOSE b \in S : TRUE

addObject(d, k, v) ==
    /\ IF Has(d, k) THEN UNCHANGED tab ELSE With(d, k, v)
    /\ Running /\ UNCHANGED <<bound, route, js>>
\* (doProxyEvent has no update.)
updateObject(d, k, v) ==
    /\ IF Has(d, k) /\ d # "proxies" THEN With(d, k, v) ELSE UNCHANGED tab
    /\ Running /\ UNCHANGED <<bound, route, js>>

\* The removal of a server takes its binds with it, that of a cluster leaves
\* them.
removeObject(d, k) ==
    /\ With(d, k, Absent)
    /\ bound' = IF d = "servers" THEN {b \in bound : b[2] # k} ELSE bound
    /\ Running /\ UNCHANGED <<route, js>>

addAPI(a, v) ==
    /\ IF Has("apis", a) \/ (v = Up /\ OtherUp(a) # {})
       THEN UNCHANGED <<tab, route>>
       ELSE /\ With("apis", a, v)
            /\ Routes(IF v = Up THEN {a} ELSE OtherUp(a))
    /\ Running /\ UNCHANGED <<bound, js>>

\* Mutant: a conflict is not noticed.
updateAPI_NoConflict(a, v) ==
    /\ IF ~Has("apis", a) THEN UNCHANGED <<tab, route>>
       ELSE With("apis", a, v) /\ Routes({a})
    /\ Running /\ UNCHANGED <<bound, js>>
\* updateAPI puts the API into the route whether it is up or not, and gives up
\* when it conflicts.
updateAPI(a, v) ==
    /\ IF ~Has("apis", a) \/ OtherUp(a) # {}
       THEN UNCHANGED <<tab, route>>
       ELSE With("apis", a, v) /\ Routes({a})
    /\ Running /\ UNCHANGED <<bound, js>>
removeAPI(a) ==
    /\ IF Has("apis", a) THEN With("apis", a, Absent) /\ Routes(OtherUp(a))
       ELSE UNCHANGED <<tab, route>>
    /\ Running /\ UNCHANGED <<bound, js>>

CanBind(b) == Has("clusters", b[1]) /\ Has("servers", b[2])
bindEvent(b, new, v) ==
    /\ bound' = IF ~CanBind(b) THEN bound
                ELSE IF v = Absent THEN bound \ {b}
                ELSE IF new THEN bound \union {b} ELSE bound
    /\ Running /\ UNCHANGED <<tab, route, js>>

\* updateJSEngine for the plugins S: an engine with the versions that the
\* plugin table has now.  NewRuntime may refuse the script of a plugin: the
\* caller has an error, and the engine stays.
Engine(S) == [p \in Plugin |-> IF p \in S THEN tab["plugins"][p] ELSE Absent]
Builds(S) == engine' = Engine(S) /\ built' = TRUE
BuildFails(S) == S # {} /\ UNCHANGED engine

\* The engine is built again before the new version is stored, which it is not
\* when the build fails.
updatePlugin(p, v) ==
    IF ~Has("plugins", p) THEN UNCHANGED <<proxy, tables>>
    ELSE IF applied = Nil THEN Stops("nil")
    ELSE \/ /\ IF p \in applied THEN Builds(applied) ELSE UNCHANGED <<engine, built>>
            /\ With("plugins", p, v) /\ refused' = refused \ {p}
            /\ Running /\ UNCHANGED <<bound, route, applied>>
         \/ /\ p \in applied /\ BuildFails(applied)
            /\ refused' = refused \union {p}
            /\ Running /\ UNCHANGED <<tab, bound, route, applied, built>>

removePlugin(p) ==
    IF ~Has("plugins", p) THEN UNCHANGED <<proxy, tables>>
    ELSE IF applied = Nil THEN Stops("nil")
    ELSE IF p \in applied THEN Stops("bug: plugin is applied")
    ELSE /\ With("plugins", p, Absent) /\ refused' = refused \ {p}
         /\ Running /\ UNCHANGED <<bound, route, applied, engine, built>>

\* The plugins are set before the engine is built, and stay when that fails.
updateAppliedPlugin(S) ==
    IF \E p \in S : ~Has("plugins", p) THEN UNCHANGED <<proxy, tables>>
    ELSE /\ applied' = S
         /\ Builds(S) \/ (BuildFails(S) /\ built' = FALSE)
         /\ Running /\ UNCHANGED <<tab, bound, route, refused>>

(***************************************************************************)
(* The process and its watch.                                            *)
(***************************************************************************)
\* NewProxy: load, and `go r.watch()`.
Start ==
    /\ ~On /\ proxy' = "on"
    /\ Fresh
    /\ flaws' = IF Stray THEN {<<"stray", "applied">>} ELSE {}
    /\ UNCHANGED <<store, failures>>

\* The process is killed.
Kill ==
    /\ On /\ proxy' = "off"
    /\ Fresh /\ flaws' = {}
    /\ UNCHANGED <<store, failures>>

\* doWatch registers at the current revision, whatever was missed before.
Register ==
    /\ On /\ watch # "on" /\ watch' = "on"
    /\ UNCHANGED <<store, proxy, failures, evts, tables, loader, flaws>>
\* The channel of the watch is closed: what it has sent is still received.
WatchBreaks ==
    /\ On /\ watch = "on" /\ failures < MaxFailures
    /\ watch' = "broken" /\ failures' = failures + 1
    /\ UNCHANGED <<store, proxy, evts, tables, loader, flaws>>

\* load has read the object of event e and not yet added it; of an API, also
\* any other API, and of the applied plugins, them.
Crosses(e) ==
    /\ ~Idle /\ Dir = e.src
    /\ e.src \in Tables \ {"apis"} => \E x \in loader.todo : x[1] = e.key

\* The event loop receives an event.
Receive ==
    /\ On /\ evts # <<>>
    /\ LET e == Head(evts)
           d == e.src
       IN  /\ \/ d = "binds" /\ bindEvent(e.key, e.new, e.value)
              \/ d = "applied" /\ updateAppliedPlugin(e.value)
              \/ /\ d \in Tables \ {"apis"} /\ e.new
                 /\ addObject(d, e.key, e.value)
              \/ /\ d \in {"proxies", "clusters", "servers", "routings"}
                 /\ ~e.new /\ e.value # Absent
                 /\ updateObject(d, e.key, e.value)
              \/ /\ d \in {"proxies", "clusters", "servers", "routings"}
                 /\ e.value = Absent /\ removeObject(d, e.key)
              \/ d = "apis" /\ e.new /\ addAPI(e.key, e.value)
              \/ /\ d = "apis" /\ ~e.new /\ e.value # Absent
                 /\ updateAPI(e.key, e.value)
              \/ d = "apis" /\ e.value = Absent /\ removeAPI(e.key)
              \/ /\ d = "plugins" /\ ~e.new /\ e.value # Absent
                 /\ updatePlugin(e.key, e.value)
              \/ d = "plugins" /\ e.value = Absent /\ removePlugin(e.key)
           /\ flaws' = IF Crosses(e) THEN flaws \union {<<"crossed", d>>}
                       ELSE flaws
    /\ evts' = Tail(evts)
    /\ UNCHANGED <<store, failures, watch, loader>>

(***************************************************************************)
(* load.                                                                   *)
(***************************************************************************)
\* load comes to a read of directory Order[i]: its first, the next page, or,
\* of the binds, the next cluster.
Reads(i) ==
    /\ On
    /\ \/ i = loader.at + 1 /\ Idle
       \/ /\ i = loader.at /\ ~Idle /\ loader.pend = {}
          /\ loader.todo = {} \/ Dir = "binds"

\* The keys from the cursor of getValues on.
Ahead(i) == IF i = loader.at THEN loader.rest ELSE KeysOf(Order[i])

\* A request for the objects of R in directory d returns P: the first ones, and
\* all of them if they are less than the limit.
IsPage(P, d, R) ==
    LET S == {k \in R : st[d][k] # Absent}
    IN  /\ P \subseteq S /\ \A k \in P, j \in S \ P : k < j
        /\ Cardinality(P) <= PageLimit
        /\ Cardinality(P) < PageLimit => P = S

\* getValues goes on behind the last object of a full page.  (With no key left
\* there the next read finds nothing and is left out.)
After(P, R) ==
    IF Cardinality(P) < PageLimit THEN {} ELSE {k \in R : \A j \in P : j < k}
ReadPage(i) ==
    LET d == Order[i]
    IN  \E P \in SUBSET Ahead(i) :
           /\ IsPage(P, d, Ahead(i))
           /\ loader' = Loading(i, {<<k, st[d][k]>> : k \in P}, After(P, Ahead(i)))

\* The clusters of the table, to read the binds of; the applied plugins.
Listed(d) ==
    IF d = "binds" THEN {c \in Cluster : Has("clusters", c)} ELSE {stApplied}

ReadDir ==
    /\ \E i \in 1..Len(Order) :
          /\ Reads(i)
          /\ IF Order[i] \in Tables THEN ReadPage(i)
             ELSE i # loader.at /\ loader' = Loading(i, Listed(Order[i]), {})
          /\ flaws' = IF \E j \in DOMAIN evts : evts[j].src = Order[i]
                      THEN flaws \union {<<"lagged", Order[i]>>} ELSE flaws
    /\ UNCHANGED <<store, proxy, failures, watch, evts, tables>>

\* The read fails: load goes on with the next directory.
ReadFails ==
    /\ failures < MaxFailures /\ failures' = failures + 1
    /\ \E i \in 1..Len(Order) :
          /\ Reads(i)
          /\ loader' = Loading(i, {}, {})
          /\ flaws' = flaws \union {<<"missed", Order[i]>>}
    /\ UNCHANGED <<store, proxy, watch, evts, tables>>

\* getValues calls add with the next object of the page.
LoadObject ==
    /\ On /\ ~Idle /\ Dir \notin {"binds", "applied"}
    /\ \E x \in loader.todo :
          /\ \A y \in loader.todo : x[1] <= y[1]
          /\ IF Dir = "apis" THEN addAPI(x[1], x[2])
             ELSE addObject(Dir, x[1], x[2])
          /\ loader' = [loader EXCEPT !.todo = @ \ {x}]
    /\ UNCHANGED <<store, failures, watch, evts, flaws>>

\* GetBindServers of the next cluster, and addBind of each: an error of it
\* ends the process.
ReadBinds ==
    /\ On /\ ~Idle /\ Dir = "binds" /\ loader.pend = {}
    /\ \E c \in loader.todo :
          loader' = [loader EXCEPT !.todo = @ \ {c},
                                   !.pend = {b \in stBinds : b[1] = c}]
    /\ UNCHANGED <<store, proxy, failures, watch, evts, tables, flaws>>
LoadBind ==
    /\ On /\ ~Idle /\ Dir = "binds"
    /\ \E b \in loader.pend :
          /\ IF CanBind(b)
             THEN /\ bound' = bound \union {b}
                  /\ Running /\ UNCHANGED <<tab, route, js>>
             ELSE Stops("bind")
          /\ loader' = [loader EXCEPT !.pend = @ \ {b}]
    /\ UNCHANGED <<store, failures, watch, evts, flaws>>

LoadApplied ==
    /\ On /\ ~Idle /\ Dir = "applied"
    /\ \E S \in loader.todo : updateAppliedPlugin(S)
    /\ loader' = [loader EXCEPT !.todo = {}]
    /\ UNCHANGED <<store, failures, watch, evts, flaws>>

Load == ReadDir \/ LoadObject \/ ReadBinds \/ LoadBind \/ LoadApplied

Next ==
    \/ Administer \/ Start \/ Kill \/ Register \/ WatchBreaks \/ Receive
    \/ Load \/ ReadFails

Spec == Init /\ [][Next]_vars /\ WF_vars(Load) /\ WF_vars(Receive)

(***************************************************************************)
(* Properties.                                                             *)
(***************************************************************************)
\* Load and the events of d did not get into each other's way.  (An API that
\* load reads may conflict with one whose removal is still queued, or came after
\* the page that it was on: load drops the API, and no event adds it again.)
Undisturbed(d) ==
    /\ <<"missed", d>> \notin flaws /\ <<"crossed", d>> \notin flaws
    /\ d = "apis" => <<"lagged", d>> \notin flaws
CaughtUp == On /\ Loaded /\ evts = <<>>

\* The table knows the object, perhaps not its last version: a proxy has no
\* update, and that of a plugin may be refused.
Loose(d, k) == d = "proxies" \/ (d = "plugins" /\ k \in refused)

\* What the tables of directory d are for: the objects of the store; every API
\* that is up in the store, and no other, is up and found by the route.
Follows(d) ==
    IF d = "apis"
    THEN \A a \in API :
            (st[d][a] = Up) <=> (tab[d][a] = Up /\ route = a)
    ELSE \A k \in KeysOf(d) :
            IF Loose(d, k) THEN Has(d, k) <=> st[d][k] # Absent
            ELSE tab[d][k] = st[d][k]

\* A loaded proxy that has received all events has the tables of the store,
\* although load reads it page by page while it changes, and events older than
\* what load read come after it.  Except for a directory where an event of an
\* object came between its read and its addition, or a change while no watch
\* was registered; for APIs that changed while load had them to read; and for the
\* version of a plugin whose update the engine refused.
Synced ==
    CaughtUp => \A d \in Tables : Undisturbed(d) => Follows(d)

\* A proxy that loaded its plugins undisturbed, only such as exist being
\* applied, never meets its assertion "bug: plugin is applied, can not remove",
\* whatever engines fail to build.  It ends with the plugins that the store has
\* applied, and its engine runs them if the last one set could be built; not
\* always in their last version, as updatePlugin builds from the old one.
PluginsSafe ==
    (Loaded /\ \A f \in flaws : f[2] \notin {"plugins", "applied"}) =>
        /\ proxy \notin {"nil", "bug: plugin is applied"}
        /\ CaughtUp => applied = stApplied
        /\ CaughtUp /\ built => {p \in Plugin : engine[p] # Absent} = stApplied

\* What load relies on: the binds name servers that exist, and so do the
\* applied plugins.
Sound ==
    /\ \A b \in stBinds :
          st["clusters"][b[1]] # Absent => st["servers"][b[2]] # Absent
    /\ ~Stray

\* A proxy that starts on a sound store that nobody changes any more loads all
\* of it, unless it is killed or a read fails, and runs the applied plugins if
\* they can be built.
Boots ==
    (On /\ loader = Loading(0, {}, {}) /\ tab = Nothing /\ evts = <<>>
        /\ ops = MaxOps /\ Sound)
        ~> \/ proxy = "off" \/ \E f \in flaws : f[1] = "missed"
           \/ /\ On /\ Loaded
              /\ \A d \in Tables : Follows(d)
              /\ bound = {b \in stBinds : st["clusters"][b[1]] # Absent}
              /\ applied = stApplied /\ (built => engine = Engine(stApplied))
==============================================================================
