----------------------------- MODULE BootProofs ------------------------------
(***************************************************************************)
(* What holds of a proxy that loads the store while its watch already      *)
(* feeds the event loop, for any objects, any changes and any failures.    *)
(*                                                                         *)
(* The argument is about the history of the store: the events that wait in *)
(* the queue lead from an earlier state of the store to the present one,   *)
(* and the tables of the dispatcher are that earlier state.  Chain and     *)
(* Sets say it of the objects of a directory and of the applied plugins,   *)
(* for a queue and a history h that shift together when the event loop     *)
(* receives, and grow together when the store changes.                     *)
(*                                                                         *)
(* PluginsInv: in every state of the history the applied plugins exist, so *)
(* that a removal meets the assertion of removePlugin only when something  *)
(* was lost before, whatever engine could not be built.  TableInv: before  *)
(* load has read the page of an object the table has what events brought   *)
(* of it (Early); afterwards it has what the first state of the history    *)
(* has, or an event of the object that mends it waits (Settled).  Same     *)
(* leaves open the version of a proxy, and of a plugin whose update was    *)
(* refused.                                                                *)
(* APIs need more: an API may be refused because another one holds the     *)
(* route, so that all states of the history have one API up (APIsInv).     *)
(***************************************************************************)
EXTENDS Boot, FiniteSetTheorems, TLAPS

-----------------------------------------------------------------------------
(* Types.                                                                  *)

Value == {Absent} \union Version
Pair == Cluster \X Server
Keys == UNION {KeysOf(d) : d \in Tables}

\* The events of the watch: what an event of each directory carries.
Event ==
    {e \in [src : Tables \union {"binds", "applied"},
            key : Keys \union Pair \union {None}, new : BOOLEAN,
            value : Value \union SUBSET Plugin] :
        /\ e.src \in Tables => /\ e.key \in KeysOf(e.src) /\ e.value \in Value
                               /\ e.new => e.value # Absent
        /\ e.src = "binds" => e.key \in Pair
        /\ e.src = "applied" => e.value \in SUBSET Plugin}

\* What load has left to add of the directory that it reads.
LoaderTypes ==
    /\ loader \in [at : 0..8, todo : SUBSET ((Keys \X Version) \union Cluster
                                             \union SUBSET Plugin),
                   pend : SUBSET Pair, rest : SUBSET Keys]
    /\ loader.at = 0 => loader.todo = {}
    /\ loader.pend # {} => loader.at = 4
    /\ loader.at = 8 => \E S \in SUBSET Plugin : loader.todo \subseteq {S}
    /\ loader.at \notin {0, 4, 8} =>
          /\ \A x \in loader.todo : x \in KeysOf(Dir) \X Version
          /\ \A x \in loader.todo : x[1] \notin loader.rest
          /\ loader.rest \subseteq KeysOf(Dir)
    /\ loader.at \in {0, 4, 8} => loader.rest = {}

BootTypes ==
    /\ IsTables(st) /\ IsTables(tab)
    /\ stBinds \in SUBSET Pair /\ stApplied \in SUBSET Plugin
    /\ applied \in (SUBSET Plugin) \union {Nil}
    /\ engine \in [Plugin -> Value] /\ built \in BOOLEAN /\ refused \in SUBSET Plugin
    /\ watch \in {"none", "on", "broken"}
    /\ evts \in Seq(Event)
    /\ LoaderTypes

LEMMA NoneFields == None \notin Plugin /\ None \notin API
  BY BootAssumption DEF None

USE NoneFields DEF Absent, Version, Up, js

LEMMA KeysFields ==
    /\ KeysOf("proxies") = Peer /\ KeysOf("clusters") = Cluster
    /\ KeysOf("servers") = Server /\ KeysOf("apis") = API
    /\ KeysOf("routings") = Routing /\ KeysOf("plugins") = Plugin
    /\ \A d \in Tables : KeysOf(d) \subseteq Keys
    /\ "binds" \notin Tables /\ "applied" \notin Tables
    /\ Tables = {"proxies", "clusters", "servers", "apis", "routings", "plugins"}
  BY DEF KeysOf, Tables, Keys

LEMMA OrderFields ==
    /\ Len(Order) = 8
    /\ \A i \in 1..8 : Order[i] \in Tables \union {"binds", "applied"}
    /\ \A i \in 1..8 : Order[i] \in Tables <=> i \notin {4, 8}
    /\ \A i \in 1..8 : Order[i] = "binds" <=> i = 4
    /\ \A i \in 1..8 : Order[i] = "plugins" <=> i = 7
    /\ \A i \in 1..8 : Order[i] = "applied" <=> i = 8
    /\ \A d \in Tables : \E i \in 1..8 : Order[i] = d
    /\ \A i, j \in 1..8 : Order[i] = Order[j] => i = j
<1>1. \A i \in 1..8 : i = 1 \/ i = 2 \/ i = 3 \/ i = 4 \/ i = 5 \/ i = 6 \/ i = 7 \/ i = 8
  OBVIOUS
<1>2. /\ Order[1] = "proxies" /\ Order[2] = "clusters" /\ Order[3] = "servers"
      /\ Order[4] = "binds" /\ Order[5] = "apis" /\ Order[6] = "routings"
      /\ Order[7] = "plugins" /\ Order[8] = "applied" /\ Len(Order) = 8
  BY DEF Order
<1>3. \A i \in 1..8 : i \in 1..8
  OBVIOUS
<1>4. /\ 1 \in 1..8 /\ 2 \in 1..8 /\ 3 \in 1..8 /\ 4 \in 1..8 /\ 5 \in 1..8
      /\ 6 \in 1..8 /\ 7 \in 1..8 /\ 8 \in 1..8
  OBVIOUS
<1> QED
  BY <1>1, <1>2, <1>4, KeysFields

\* The tables t with the value v for an object.
Put(t, d, k, v) == [t EXCEPT ![d][k] = v]

LEMMA PutOthers ==
    ASSUME NEW t, IsTables(t), NEW d \in Tables, NEW k \in KeysOf(d), NEW v \in Value,
           NEW e \in Tables, e # d
    PROVE  Put(t, d, k, v)[e] = t[e]
  BY DEF IsTables, Put, Value

LEMMA PutTable ==
    ASSUME NEW t, IsTables(t), NEW d \in Tables, NEW k \in KeysOf(d), NEW v \in Value
    PROVE  Put(t, d, k, v)[d] = [t[d] EXCEPT ![k] = v]
  BY DEF IsTables, Put, Value

LEMMA PutTypes ==
    ASSUME NEW t, IsTables(t), NEW d \in Tables, NEW k \in KeysOf(d), NEW v \in Value
    PROVE  IsTables(Put(t, d, k, v))
<1> DEFINE u == Put(t, d, k, v)
<1>1. t = [e \in Tables |-> t[e]] /\ \A e \in Tables : t[e] \in [KeysOf(e) -> Value]
  BY DEF IsTables, Value
<1>2. u = [e \in Tables |-> IF e = d THEN [t[d] EXCEPT ![k] = v] ELSE t[e]]
  BY <1>1 DEF Put
<1> HIDE DEF u
<1>3. \A e \in Tables : u[e] = IF e = d THEN [t[d] EXCEPT ![k] = v] ELSE t[e]
  BY <1>2
<1>4. u = [e \in Tables |-> u[e]]
  BY <1>2, <1>3
<1>5. [t[d] EXCEPT ![k] = v] \in [KeysOf(d) -> Value]
  BY <1>1
<1>6. IsTables(u)
  BY <1>1, <1>3, <1>4, <1>5 DEF IsTables, Value
<1> QED
  BY <1>6 DEF u

LEMMA EmptyTables ==
    /\ IsTables(Nothing) /\ \A d \in Tables : \A k \in KeysOf(d) : Nothing[d][k] = Absent
  BY DEF Nothing, IsTables

LEMMA InitTypes == Init => BootTypes
<1> SUFFICES ASSUME Init PROVE BootTypes
  OBVIOUS
<1>1. /\ IsTables(st) /\ stBinds \in SUBSET Pair /\ stApplied \in SUBSET Plugin
  BY ContentsAssumption DEF Init, Pair
<1>2. LoaderTypes
  BY DEF Init, Loading, LoaderTypes
<1>3. engine \in [Plugin -> Value]
  BY DEF Init, NoEngine, Value
<1> QED
  BY <1>1, <1>2, <1>3, EmptyTables DEF Init, BootTypes

-----------------------------------------------------------------------------
(* The steps.                                                              *)

\* The events E change the store: the first is a change of one object or of the
\* applied plugins, the others are of binds.
IsChange(E) ==
    /\ E \in Seq(Event) /\ E # <<>>
    /\ \A i \in 2..Len(E) : E[i].src = "binds"
    /\ \A d \in Tables :
          IF E[1].src = d
          THEN /\ E[1].new <=> st[d][E[1].key] = Absent
               /\ st'[d] = [st[d] EXCEPT ![E[1].key] = E[1].value]
          ELSE st'[d] = st[d]
    /\ stApplied' = IF E[1].src = "applied" THEN E[1].value ELSE stApplied
    /\ E[1].src = "plugins" /\ E[1].value = Absent => E[1].key \notin stApplied
    /\ E[1].src = "apis" /\ E[1].value = Up =>
          \A b \in API : b # E[1].key => st["apis"][b] # Up

\* A change of one object.
LEMMA ObjectChange ==
    ASSUME BootTypes, NEW d \in Tables, NEW k \in KeysOf(d), NEW v \in Value,
           st[d][k] = Absent => v # Absent,
           st' = [st EXCEPT ![d][k] = v], stApplied' = stApplied,
           d = "plugins" /\ v = Absent => k \notin stApplied,
           d = "apis" /\ v = Up => \A b \in API : b # k => st["apis"][b] # Up
    PROVE  /\ IsTables(st)' /\ ObjectEvt(d, k, v) \in Event
           /\ IsChange(<<ObjectEvt(d, k, v)>>)
           /\ ObjectEvt(d, k, v).src = d
<1>0. /\ IsTables(st') /\ st'[d] = [st[d] EXCEPT ![k] = v]
      /\ \A e \in Tables : e # d => st'[e] = st[e]
  <2>1. IsTables(st) /\ st' = Put(st, d, k, v)
    BY DEF BootTypes, Put
  <2>2. IsTables(Put(st, d, k, v))
    BY <2>1, PutTypes
  <2>3. Put(st, d, k, v)[d] = [st[d] EXCEPT ![k] = v]
    BY <2>1, PutTable
  <2>4. \A e \in Tables : e # d => st'[e] = st[e]
    BY <2>1, PutOthers
  <2> QED
    BY <2>1, <2>2, <2>3, <2>4, Zenon
<1>1. /\ IsTables(st)' /\ st'[d] = [st[d] EXCEPT ![k] = v]
      /\ \A e \in Tables : e # d => st'[e] = st[e]
  BY <1>0 DEF IsTables
<1> DEFINE e == ObjectEvt(d, k, v)
<1>2. e = [src |-> d, key |-> k, new |-> (st[d][k] = Absent), value |-> v]
  BY DEF ObjectEvt, Evt
<1>3. e.src = d /\ e.key = k /\ e.new = (st[d][k] = Absent) /\ e.value = v
  BY <1>2
<1>4. e \in Event
  <2>1. d \in Tables \union {"binds", "applied"} /\ k \in Keys /\ d \notin {"binds", "applied"}
    BY KeysFields
  <2> QED
    BY <1>2, <1>3, <2>1 DEF Event
<1> HIDE DEF e
<1>5. /\ <<e>> \in Seq(Event) /\ <<e>> # <<>> /\ <<e>>[1] = e /\ Len(<<e>>) = 1
  BY <1>4
<1>6. /\ \A f \in Tables : f = d <=> e.src = f
      /\ e.src # "applied"
  BY <1>3, KeysFields
<1>7. \A f \in Tables :
         IF e.src = f
         THEN /\ e.new <=> st[f][e.key] = Absent
              /\ st'[f] = [st[f] EXCEPT ![e.key] = e.value]
         ELSE st'[f] = st[f]
  BY <1>1, <1>3
<1>8. /\ e.src = "plugins" /\ e.value = Absent => e.key \notin stApplied
      /\ e.src = "apis" /\ e.value = Up =>
            \A b \in API : b # e.key => st["apis"][b] # Up
  BY <1>3
<1>9. \A i \in 2..Len(<<e>>) : <<e>>[i].src = "binds"
  BY <1>5
<1>10. IsChange(<<e>>)
  BY <1>5, <1>6, <1>7, <1>8, <1>9 DEF IsChange
<1> QED
  BY <1>1, <1>3, <1>4, <1>10 DEF e

LEMMA BindEvents ==
    ASSUME NEW b \in Pair, NEW v \in Value
    PROVE  BindEvt(b, v) \in Event /\ BindEvt(b, v).src = "binds"
<1>1. BindEvt(b, v) =
         [src |-> "binds", key |-> b, new |-> (b \notin stBinds), value |-> v]
  BY DEF BindEvt, Evt
<1> QED
  BY <1>1, KeysFields DEF Event

\* A change of a bind or of the applied plugins.
LEMMA BindChange ==
    ASSUME BootTypes, NEW b \in Pair, NEW v \in Value,
           UNCHANGED <<st, stApplied>>
    PROVE  IsChange(<<BindEvt(b, v)>>)
<1> DEFINE e == BindEvt(b, v)
<1>2. e \in Event /\ e.src = "binds"
  BY BindEvents
<1> HIDE DEF e
<1>3. /\ <<e>> \in Seq(Event) /\ <<e>> # <<>> /\ <<e>>[1] = e /\ Len(<<e>>) = 1
  BY <1>2
<1>4. \A d \in Tables : e.src # d
  BY <1>2, KeysFields
<1>5. IsChange(<<e>>)
  BY <1>2, <1>3, <1>4 DEF IsChange
<1> QED
  BY <1>5 DEF e

LEMMA AppliedChange ==
    ASSUME BootTypes, NEW S \in SUBSET Plugin, stApplied' = S, UNCHANGED st
    PROVE  IsChange(<<AppliedEvt(S)>>)
<1> DEFINE e == AppliedEvt(S)
<1>1. e = [src |-> "applied", key |-> None, new |-> FALSE, value |-> S]
  BY DEF AppliedEvt, Evt
<1>2. e \in Event /\ e.src = "applied" /\ e.value = S
  BY <1>1, KeysFields DEF Event
<1> HIDE DEF e
<1>3. /\ <<e>> \in Seq(Event) /\ <<e>> # <<>> /\ <<e>>[1] = e /\ Len(<<e>>) = 1
  BY <1>2
<1>4. \A d \in Tables : e.src # d
  BY <1>2, KeysFields
<1>5. IsChange(<<e>>)
  BY <1>2, <1>3, <1>4 DEF IsChange
<1> QED
  BY <1>5 DEF e

\* The removal of a cluster, with its binds in any order.
LEMMA ClusterChange ==
    ASSUME BootTypes, NEW c \in Cluster, st["clusters"][c] # Absent,
           st' = [st EXCEPT !["clusters"][c] = Absent], stApplied' = stApplied,
           NEW l \in Lists({b \in stBinds : b[1] = c})
    PROVE  /\ IsTables(st)'
           /\ IsChange(<<ObjectEvt("clusters", c, Absent)>> \o BindsGone(l))
<1> DEFINE B == {b \in stBinds : b[1] = c}
           n == Cardinality(B)
           e == ObjectEvt("clusters", c, Absent)
           F == BindsGone(l)
<1>1. "clusters" \in Tables /\ c \in KeysOf("clusters") /\ Absent \in Value
  BY KeysFields DEF Value
<1>2. IsTables(st)' /\ e \in Event /\ IsChange(<<e>>) /\ e.src = "clusters"
  BY <1>1, ObjectChange
<1>3. B \in SUBSET Pair /\ IsFiniteSet(Pair)
  <2>1. IsFiniteSet(Cluster) /\ IsFiniteSet(Server)
    BY BootAssumption
  <2> QED
    BY <2>1, FS_Product DEF BootTypes, Pair
<1>4. n \in Nat
  BY <1>3, FS_Subset, FS_CardinalityType
<1>5. l \in [1..n -> B]
  BY DEF Lists
<1> HIDE DEF n, B
<1>6. F = [i \in 1..n |-> BindEvt(l[i], Absent)]
  BY <1>5 DEF BindsGone
<1>7. \A b \in Pair : BindEvt(b, Absent) \in Event /\ BindEvt(b, Absent).src = "binds"
  BY <1>1, BindEvents
<1>8. F \in Seq(Event) /\ Len(F) = n /\ \A i \in 1..n : F[i].src = "binds"
  <2>1. \A i \in 1..n : l[i] \in Pair
    BY <1>3, <1>5
  <2>2. \A i \in 1..n : F[i] \in Event /\ F[i].src = "binds"
    BY <1>6, <1>7, <2>1
  <2>3. F \in [1..n -> Event]
    BY <1>6, <2>2
  <2> QED
    BY <1>4, <2>2, <2>3
<1> HIDE DEF e, F
<1> DEFINE E == <<e>> \o F
<1>9. /\ E \in Seq(Event) /\ E[1] = e /\ E # <<>>
      /\ \A i \in 2..Len(E) : E[i] = F[i - 1] /\ i - 1 \in 1..n
  BY <1>2, <1>4, <1>8
<1>10. \A i \in 2..Len(E) : E[i].src = "binds"
  BY <1>8, <1>9
<1> HIDE DEF E
<1>11. <<e>>[1] = e
  OBVIOUS
<1>12. IsChange(E)
  BY <1>2, <1>9, <1>10, <1>11 DEF IsChange
<1> QED
  BY <1>2, <1>12 DEF E, F, e

\* Every operation of the administration server is a change.
LEMMA AdminSteps ==
    ASSUME BootTypes, Administer
    PROVE  /\ IsTables(st)' /\ stBinds' \in SUBSET Pair /\ stApplied' \in SUBSET Plugin
           /\ \E E \in Seq(Event) : IsChange(E) /\ Changes(E)
<1>a. \A v \in Version : v \in Value /\ v # Absent
  BY DEF Value
<1>b. Absent \in Value
  BY DEF Value
<1>c. /\ IsTables(st) /\ stBinds \in SUBSET Pair /\ stApplied \in SUBSET Plugin
  BY DEF BootTypes
<1>d. "apis" \in Tables /\ KeysOf("apis") = API /\ "plugins" \in Tables
      /\ KeysOf("plugins") = Plugin
  BY KeysFields
<1>1. ASSUME NEW d \in Tables, NEW k \in KeysOf(d), NEW v \in Version, PutObject(d, k, v)
      PROVE  /\ IsTables(st)' /\ UNCHANGED <<stBinds, stApplied>>
             /\ \E E \in Seq(Event) : IsChange(E) /\ Changes(E)
  <2>1. /\ IsTables(st)' /\ IsChange(<<ObjectEvt(d, k, v)>>)
    BY <1>a, <1>1, ObjectChange DEF PutObject
  <2> QED
    BY <1>1, <2>1 DEF PutObject, IsChange
<1>2. ASSUME NEW d \in Tables, NEW k \in KeysOf(d), RemoveObject(d, k)
      PROVE  /\ IsTables(st)' /\ UNCHANGED <<stBinds, stApplied>>
             /\ \E E \in Seq(Event) : IsChange(E) /\ Changes(E)
  <2>a. /\ st[d][k] # Absent /\ d # "plugins" /\ stApplied' = stApplied
        /\ st' = [st EXCEPT ![d][k] = Absent] /\ Absent # Up
    BY <1>2 DEF RemoveObject
  <2>1. /\ IsTables(st)' /\ IsChange(<<ObjectEvt(d, k, Absent)>>)
    BY <1>b, <2>a, ObjectChange
  <2> QED
    BY <1>2, <2>1 DEF RemoveObject, IsChange
<1>3. ASSUME NEW a \in API, NEW v \in Version, PutAPI(a, v)
      PROVE  /\ IsTables(st)' /\ UNCHANGED <<stBinds, stApplied>>
             /\ \E E \in Seq(Event) : IsChange(E) /\ Changes(E)
  <2>1. /\ IsTables(st)' /\ IsChange(<<ObjectEvt("apis", a, v)>>)
    BY <1>a, <1>d, <1>3, ObjectChange DEF PutAPI
  <2> QED
    BY <1>3, <2>1 DEF PutAPI, IsChange
<1>4. ASSUME NEW c \in Cluster, RemoveCluster(c)
      PROVE  /\ IsTables(st)' /\ stBinds' \subseteq stBinds /\ UNCHANGED stApplied
             /\ \E E \in Seq(Event) : IsChange(E) /\ Changes(E)
  <2>1. PICK l \in Lists({b \in stBinds : b[1] = c}) :
            Changes(<<ObjectEvt("clusters", c, Absent)>> \o BindsGone(l))
    BY <1>4 DEF RemoveCluster
  <2>2. /\ IsTables(st)'
        /\ IsChange(<<ObjectEvt("clusters", c, Absent)>> \o BindsGone(l))
    BY <1>4, ClusterChange DEF RemoveCluster
  <2> QED
    BY <1>4, <2>1, <2>2 DEF RemoveCluster, IsChange
<1>5. ASSUME NEW p \in Plugin, RemovePlugin(p)
      PROVE  /\ IsTables(st)' /\ UNCHANGED <<stBinds, stApplied>>
             /\ \E E \in Seq(Event) : IsChange(E) /\ Changes(E)
  <2>1. /\ IsTables(st)' /\ IsChange(<<ObjectEvt("plugins", p, Absent)>>)
    BY <1>b, <1>d, <1>5, ObjectChange DEF RemovePlugin
  <2> QED
    BY <1>5, <2>1 DEF RemovePlugin, IsChange
<1>6. ASSUME NEW b \in Pair, AddBind(b) \/ RemoveBind(b)
      PROVE  /\ IsTables(st)' /\ stBinds' \in SUBSET Pair /\ UNCHANGED stApplied
             /\ \E E \in Seq(Event) : IsChange(E) /\ Changes(E)
  <2>1. \A v \in Value : UNCHANGED <<st, stApplied>> => IsChange(<<BindEvt(b, v)>>)
    BY BindChange
  <2> QED
    BY <1>a, <1>b, <1>c, <1>6, <2>1 DEF AddBind, RemoveBind, IsChange
<1>7. ASSUME NEW S \in SUBSET Plugin, ApplyPlugins(S)
      PROVE  /\ IsTables(st)' /\ stApplied' \in SUBSET Plugin /\ UNCHANGED stBinds
             /\ \E E \in Seq(Event) : IsChange(E) /\ Changes(E)
  <2>1. IsChange(<<AppliedEvt(S)>>)
    BY <1>7, AppliedChange DEF ApplyPlugins
  <2> QED
    BY <1>c, <1>7, <2>1 DEF ApplyPlugins, IsChange
<1> QED
  BY <1>c, <1>1, <1>2, <1>3, <1>4, <1>5, <1>6, <1>7 DEF Administer, Pair

\* A change of one table of the dispatcher.
LEMMA WithFields ==
    ASSUME BootTypes, NEW d \in Tables, NEW k \in KeysOf(d), NEW v \in Value,
           With(d, k, v)
    PROVE  /\ IsTables(tab)' /\ tab'[d] = [tab[d] EXCEPT ![k] = v]
           /\ \A e \in Tables : e # d => tab'[e] = tab[e]
<1>1. IsTables(tab) /\ tab' = Put(tab, d, k, v)
  BY DEF BootTypes, Put, With
<1>2. IsTables(Put(tab, d, k, v))
  BY <1>1, PutTypes
<1>3. Put(tab, d, k, v)[d] = [tab[d] EXCEPT ![k] = v]
  BY <1>1, PutTable
<1>4. \A e \in Tables : e # d => tab'[e] = tab[e]
  BY <1>1, PutOthers
<1>5. IsTables(tab') /\ tab'[d] = [tab[d] EXCEPT ![k] = v]
  BY <1>1, <1>2, <1>3, Zenon
<1> QED
  BY <1>4, <1>5 DEF IsTables

\* What becomes of table d, not that of the APIs, when the object k is added,
\* and when an event is received.  Lax: the updates of k do not all arrive, with the
\* plugins R refused.
Lax(R, d, k) == d = "proxies" \/ (d = "plugins" /\ k \in R)
Added(d, k, v) == IF Has(d, k) THEN tab[d] ELSE [tab[d] EXCEPT ![k] = v]
Updated(d, k, v) ==
    IF Has(d, k) /\ ~Lax(refused', d, k) THEN [tab[d] EXCEPT ![k] = v] ELSE tab[d]
Received(d, e) ==
    IF e.new THEN Added(d, e.key, e.value)
    ELSE IF e.value = Absent THEN [tab[d] EXCEPT ![e.key] = Absent]
    ELSE Updated(d, e.key, e.value)

\* The same of the APIs.
AddedAPI(a, v) ==
    IF Has("apis", a) \/ (v = Up /\ OtherUp(a) # {}) THEN tab["apis"]
    ELSE [tab["apis"] EXCEPT ![a] = v]
UpdatedAPI(a, v) ==
    IF ~Has("apis", a) \/ OtherUp(a) # {} THEN tab["apis"]
    ELSE [tab["apis"] EXCEPT ![a] = v]
ReceivedAPI(e) ==
    IF e.new THEN AddedAPI(e.key, e.value)
    ELSE IF e.value = Absent THEN [tab["apis"] EXCEPT ![e.key] = Absent]
    ELSE UpdatedAPI(e.key, e.value)

\* An addition to a table.
LEMMA AddFields ==
    ASSUME BootTypes, NEW d \in Tables, NEW k \in KeysOf(d), NEW v \in Version,
           addObject(d, k, v)
    PROVE  /\ IsTables(tab)' /\ tab'[d] = Added(d, k, v)
           /\ \A e \in Tables : e # d => tab'[e] = tab[e]
           /\ UNCHANGED <<proxy, route, applied, engine, built, refused>>
<1>1. v \in Value
  BY DEF Value
<1>2. CASE Has(d, k)
  BY <1>2 DEF addObject, Added, BootTypes, Running
<1>3. CASE ~Has(d, k)
  BY <1>1, <1>3, WithFields DEF addObject, Added, Running
<1> QED
  BY <1>2, <1>3

LEMMA AddAPIFields ==
    ASSUME BootTypes, NEW a \in API, NEW v \in Version, addAPI(a, v)
    PROVE  /\ IsTables(tab)' /\ tab'["apis"] = AddedAPI(a, v)
           /\ \A e \in Tables : e # "apis" => tab'[e] = tab[e]
           /\ UNCHANGED <<proxy, applied, engine, built, refused>>
<1>1. v \in Value /\ "apis" \in Tables /\ a \in KeysOf("apis")
  BY KeysFields DEF Value
<1>2. CASE Has("apis", a) \/ (v = Up /\ OtherUp(a) # {})
  BY <1>2 DEF addAPI, AddedAPI, BootTypes, Running
<1>3. CASE ~(Has("apis", a) \/ (v = Up /\ OtherUp(a) # {}))
  BY <1>1, <1>3, WithFields DEF addAPI, AddedAPI, Running
<1> QED
  BY <1>2, <1>3

Asserts == {"nil", "bug: plugin is applied"}

\* An event that is received stops the process, or changes the table that it is
\* about and, for a plugin or the applied plugins, the engine.
Stopped(e) ==
    /\ e.src = "plugins" /\ ~e.new /\ Has("plugins", e.key)
    /\ applied = Nil \/ (e.value = Absent /\ e.key \in applied)
    /\ proxy' \in Asserts /\ UNCHANGED <<tab, route, js>>
Handled(e) ==
    /\ UNCHANGED proxy
    /\ e.src \in Tables /\ e.src # "apis" => tab'[e.src] = Received(e.src, e)
    /\ e.src = "apis" => tab'["apis"] = ReceivedAPI(e)
    /\ e.src = "plugins" /\ e.value = Absent /\ Has("plugins", e.key) =>
          applied # Nil /\ e.key \notin applied
    /\ refused' \in SUBSET Plugin
    /\ e.src # "plugins" \/ e.new => refused' = refused
    /\ \A k \in Plugin : k # e.key => (k \in refused' <=> k \in refused)
    /\ IF e.src = "applied" /\ \A p \in e.value : Has("plugins", p)
       THEN /\ applied' = e.value
            /\ \/ engine' = Engine(e.value) /\ built' = TRUE
               \/ engine' = engine /\ built' = FALSE
       ELSE /\ applied' = applied
            /\ \/ UNCHANGED <<engine, built>>
               \/ applied # Nil /\ engine' = Engine(applied) /\ built' = TRUE

LEMMA EventFields ==
    ASSUME NEW e \in Event
    PROVE  /\ e.src \in Tables => /\ e.key \in KeysOf(e.src) /\ e.value \in Value
                                  /\ e.new => e.value \in Version
                                  /\ ~e.new /\ e.value # Absent => e.value \in Version
           /\ e.src = "applied" => e.value \in SUBSET Plugin
           /\ e.new \in BOOLEAN
           /\ e.src \in Tables \union {"binds", "applied"}
  BY DEF Event, Value

LEMMA EngineTypes ==
    ASSUME BootTypes, NEW S
    PROVE  Engine(S) \in [Plugin -> Value]
<1>1. tab["plugins"] \in [Plugin -> Value]
  BY KeysFields DEF BootTypes, IsTables, Value
<1> QED
  BY <1>1 DEF Engine, Value

LEMMA ReceiveFields ==
    ASSUME BootTypes, Receive
    PROVE  /\ evts # <<>> /\ evts[1] \in Event /\ evts' = Tail(evts)
           /\ On /\ UNCHANGED <<store, failures, watch, loader>>
           /\ IsTables(tab)'
           /\ \A d \in Tables : d # evts[1].src => tab'[d] = tab[d]
           /\ Stopped(evts[1]) \/ Handled(evts[1])
           /\ flaws' = IF Crosses(evts[1])
                       THEN flaws \union {<<"crossed", evts[1].src>>} ELSE flaws
<1> DEFINE e == evts[1]
<1>1. /\ evts # <<>> /\ e \in Event /\ Head(evts) = e
      /\ evts' = Tail(evts) /\ On /\ UNCHANGED <<store, failures, watch, loader>>
      /\ flaws' = IF Crosses(e) THEN flaws \union {<<"crossed", e.src>>} ELSE flaws
  <2>1. evts \in Seq(Event) /\ evts # <<>>
    BY DEF Receive, BootTypes
  <2>2. e \in Event /\ Head(evts) = e
    BY <2>1
  <2> HIDE DEF e
  <2> QED
    BY <2>1, <2>2 DEF Receive, store
<1>2. /\ e.src \in Tables => /\ e.key \in KeysOf(e.src) /\ e.value \in Value
                             /\ e.new => e.value \in Version
                             /\ ~e.new /\ e.value # Absent => e.value \in Version
      /\ e.src = "applied" => e.value \in SUBSET Plugin
  BY <1>1, EventFields
<1> DEFINE d == e.src
<1>3. \/ d = "binds" /\ bindEvent(e.key, e.new, e.value)
      \/ d = "applied" /\ updateAppliedPlugin(e.value)
      \/ d \in Tables \ {"apis"} /\ e.new /\ addObject(d, e.key, e.value)
      \/ /\ d \in {"proxies", "clusters", "servers", "routings"}
         /\ ~e.new /\ e.value # Absent /\ updateObject(d, e.key, e.value)
      \/ /\ d \in {"proxies", "clusters", "servers", "routings"}
         /\ e.value = Absent /\ removeObject(d, e.key)
      \/ d = "apis" /\ e.new /\ addAPI(e.key, e.value)
      \/ d = "apis" /\ ~e.new /\ e.value # Absent /\ updateAPI(e.key, e.value)
      \/ d = "apis" /\ e.value = Absent /\ removeAPI(e.key)
      \/ d = "plugins" /\ ~e.new /\ e.value # Absent /\ updatePlugin(e.key, e.value)
      \/ d = "plugins" /\ e.value = Absent /\ removePlugin(e.key)
  BY <1>1 DEF Receive
<1>4. Absent \in Value /\ \A v \in Version : v \in Value /\ v # Absent
  BY DEF Value
<1>5. IsTables(tab) /\ e.new \in BOOLEAN /\ refused \in SUBSET Plugin
  BY <1>1, EventFields DEF BootTypes
<1> HIDE DEF e
<1> USE KeysFields
<1> SUFFICES /\ IsTables(tab)'
             /\ \A f \in Tables : f # d => tab'[f] = tab[f]
             /\ Stopped(e) \/ Handled(e)
  BY <1>1 DEF e
<1>6. CASE d = "binds" /\ bindEvent(e.key, e.new, e.value)
  BY <1>5, <1>6 DEF bindEvent, Handled, Running, IsTables
<1>7. CASE d = "applied" /\ updateAppliedPlugin(e.value)
  <2>1. /\ UNCHANGED <<proxy, tab, refused>>
        /\ IF \A p \in e.value : Has("plugins", p)
           THEN /\ applied' = e.value
                /\ \/ engine' = Engine(e.value) /\ built' = TRUE
                   \/ engine' = engine /\ built' = FALSE
           ELSE UNCHANGED <<applied, engine, built>>
    BY <1>7 DEF updateAppliedPlugin, Running, tables, Builds, BuildFails
  <2> QED
    BY <1>5, <1>7, <2>1 DEF Handled, IsTables
<1>8. CASE d \in Tables \ {"apis"} /\ e.new /\ addObject(d, e.key, e.value)
  <2>1. /\ IsTables(tab)' /\ tab'[d] = Added(d, e.key, e.value)
        /\ \A f \in Tables : f # d => tab'[f] = tab[f]
        /\ UNCHANGED <<proxy, js>>
    BY <1>2, <1>8, AddFields
  <2> QED
    BY <1>2, <1>4, <1>5, <1>8, <2>1 DEF Handled, Received
<1>9. CASE /\ d \in {"proxies", "clusters", "servers", "routings"}
           /\ ~e.new /\ e.value # Absent /\ updateObject(d, e.key, e.value)
  <2>1. /\ d \in Tables /\ UNCHANGED <<proxy, js>>
    BY <1>9 DEF updateObject, Running
  <2>2. /\ IsTables(tab)' /\ tab'[d] = Updated(d, e.key, e.value)
        /\ \A f \in Tables : f # d => tab'[f] = tab[f]
    <3>1. CASE Has(d, e.key) /\ d # "proxies"
      BY <1>2, <1>9, <2>1, <3>1, WithFields DEF updateObject, Updated, Lax
    <3>2. CASE ~(Has(d, e.key) /\ d # "proxies")
      BY <1>5, <1>9, <3>2 DEF updateObject, Updated, IsTables, Lax
    <3> QED
      BY <3>1, <3>2
  <2> QED
    BY <1>5, <1>9, <2>1, <2>2 DEF Handled, Received
<1>10. CASE /\ d \in {"proxies", "clusters", "servers", "routings"}
            /\ e.value = Absent /\ removeObject(d, e.key)
  <2>1. /\ d \in Tables /\ UNCHANGED <<proxy, js>> /\ ~e.new
    BY <1>2, <1>4, <1>10 DEF removeObject, Running
  <2>2. /\ IsTables(tab)' /\ tab'[d] = [tab[d] EXCEPT ![e.key] = Absent]
        /\ \A f \in Tables : f # d => tab'[f] = tab[f]
    BY <1>2, <1>4, <1>10, <2>1, WithFields DEF removeObject
  <2> QED
    BY <1>5, <1>10, <2>1, <2>2 DEF Handled, Received
<1>11. CASE d = "apis" /\ e.new /\ addAPI(e.key, e.value)
  <2>1. /\ IsTables(tab)' /\ tab'["apis"] = AddedAPI(e.key, e.value)
        /\ \A f \in Tables : f # "apis" => tab'[f] = tab[f]
        /\ UNCHANGED <<proxy, js>>
    BY <1>2, <1>11, AddAPIFields
  <2> QED
    BY <1>5, <1>11, <2>1 DEF Handled, ReceivedAPI
<1>12. CASE d = "apis" /\ ~e.new /\ e.value # Absent /\ updateAPI(e.key, e.value)
  <2>1. UNCHANGED <<proxy, js>>
    BY <1>12 DEF updateAPI, Running
  <2>2. /\ IsTables(tab)' /\ tab'["apis"] = UpdatedAPI(e.key, e.value)
        /\ \A f \in Tables : f # "apis" => tab'[f] = tab[f]
    <3>1. CASE ~Has("apis", e.key) \/ OtherUp(e.key) # {}
      BY <1>5, <1>12, <3>1 DEF updateAPI, UpdatedAPI, IsTables
    <3>2. CASE ~(~Has("apis", e.key) \/ OtherUp(e.key) # {})
      BY <1>2, <1>12, <3>2, WithFields DEF updateAPI, UpdatedAPI
    <3> QED
      BY <3>1, <3>2
  <2> QED
    BY <1>5, <1>12, <2>1, <2>2 DEF Handled, ReceivedAPI
<1>13. CASE d = "apis" /\ e.value = Absent /\ removeAPI(e.key)
  <2>1. /\ UNCHANGED <<proxy, js>> /\ ~e.new
    BY <1>2, <1>4, <1>13 DEF removeAPI, Running
  <2>2. /\ IsTables(tab)' /\ tab'["apis"] = [tab["apis"] EXCEPT ![e.key] = Absent]
        /\ \A f \in Tables : f # "apis" => tab'[f] = tab[f]
    <3>1. CASE Has("apis", e.key)
      BY <1>2, <1>4, <1>13, <3>1, WithFields DEF removeAPI
    <3>2. CASE ~Has("apis", e.key)
      <4>1. tab["apis"] \in [API -> Value] /\ tab["apis"][e.key] = Absent
        BY <1>5, <3>2 DEF IsTables, Has, Value
      <4> QED
        BY <1>5, <1>13, <3>2, <4>1 DEF removeAPI, IsTables
    <3> QED
      BY <3>1, <3>2
  <2> QED
    BY <1>5, <1>13, <2>1, <2>2 DEF Handled, ReceivedAPI
<1>14. CASE d = "plugins" /\ ~e.new /\ e.value # Absent /\ updatePlugin(e.key, e.value)
  <2>1. CASE Has("plugins", e.key) /\ applied = Nil
    BY <1>5, <1>14, <2>1 DEF updatePlugin, Stops, tables, Stopped, Asserts, IsTables
  <2>2. CASE ~Has("plugins", e.key)
    <3>1. UNCHANGED <<proxy, tab, js>>
      BY <1>14, <2>2 DEF updatePlugin, tables
    <3>2. tab'["plugins"] = Updated("plugins", e.key, e.value) /\ IsTables(tab)'
      BY <1>5, <2>2, <3>1 DEF Updated, IsTables
    <3> QED
      BY <1>5, <1>14, <3>1, <3>2 DEF Handled, Received
  <2>3. CASE /\ Has("plugins", e.key) /\ applied # Nil
             /\ IF e.key \in applied THEN Builds(applied) ELSE UNCHANGED <<engine, built>>
             /\ With("plugins", e.key, e.value) /\ refused' = refused \ {e.key}
             /\ UNCHANGED <<proxy, applied>>
    <3>1. /\ IsTables(tab)' /\ tab'["plugins"] = [tab["plugins"] EXCEPT ![e.key] = e.value]
          /\ \A f \in Tables : f # "plugins" => tab'[f] = tab[f]
      BY <1>2, <1>14, <2>3, WithFields
    <3>2. tab'["plugins"] = Updated("plugins", e.key, e.value)
      BY <2>3, <3>1 DEF Updated, Lax
    <3>3. \/ UNCHANGED <<engine, built>>
          \/ applied # Nil /\ engine' = Engine(applied) /\ built' = TRUE
      BY <2>3 DEF Builds
    <3>4. /\ refused' \in SUBSET Plugin
          /\ \A k \in Plugin : k # e.key => (k \in refused' <=> k \in refused)
      BY <1>5, <2>3
    <3> QED
      BY <1>14, <2>3, <3>1, <3>2, <3>3, <3>4 DEF Handled, Received
  <2>4. CASE /\ Has("plugins", e.key) /\ applied # Nil
             /\ e.key \in applied /\ BuildFails(applied)
             /\ refused' = refused \union {e.key} /\ UNCHANGED <<proxy, tab, applied, built>>
    <3>1. tab'["plugins"] = Updated("plugins", e.key, e.value) /\ IsTables(tab)'
      BY <1>5, <2>4 DEF Updated, Lax, IsTables
    <3>2. UNCHANGED <<engine, built>>
      BY <2>4 DEF BuildFails
    <3>3. /\ refused' \in SUBSET Plugin
          /\ \A k \in Plugin : k # e.key => (k \in refused' <=> k \in refused)
      BY <1>2, <1>5, <1>14, <2>4
    <3> QED
      BY <1>14, <2>4, <3>1, <3>2, <3>3 DEF Handled, Received
  <2> QED
    BY <1>14, <2>1, <2>2, <2>3, <2>4 DEF updatePlugin, Running
<1>15. CASE d = "plugins" /\ e.value = Absent /\ removePlugin(e.key)
  <2>1. ~e.new
    BY <1>2, <1>4, <1>15
  <2>2. CASE Has("plugins", e.key) /\ (applied = Nil \/ e.key \in applied)
    BY <1>5, <1>15, <2>1, <2>2
       DEF removePlugin, Stops, tables, Stopped, Asserts, IsTables
  <2>3. CASE ~Has("plugins", e.key)
    <3>1. UNCHANGED <<proxy, tab, js>>
      BY <1>15, <2>3 DEF removePlugin, tables
    <3>2. tab["plugins"] \in [Plugin -> Value] /\ tab["plugins"][e.key] = Absent
      BY <1>5, <2>3 DEF IsTables, Has, Value
    <3>3. tab'["plugins"] = [tab["plugins"] EXCEPT ![e.key] = Absent]
      BY <3>1, <3>2
    <3>4. IsTables(tab)'
      BY <1>5, <3>1 DEF IsTables
    <3> QED
      BY <1>5, <1>15, <2>1, <2>3, <3>1, <3>3, <3>4 DEF Handled, Received
  <2>4. CASE Has("plugins", e.key) /\ ~(applied = Nil \/ e.key \in applied)
    <3>1. /\ UNCHANGED <<proxy, applied, engine, built>> /\ With("plugins", e.key, Absent)
          /\ refused' = refused \ {e.key}
      BY <1>15, <2>4 DEF removePlugin, Running
    <3>2. /\ IsTables(tab)' /\ tab'["plugins"] = [tab["plugins"] EXCEPT ![e.key] = Absent]
          /\ \A f \in Tables : f # "plugins" => tab'[f] = tab[f]
      BY <1>2, <1>4, <1>15, <3>1, WithFields
    <3> QED
      BY <1>5, <1>15, <2>1, <2>4, <3>1, <3>2 DEF Handled, Received
  <2> QED
    BY <2>2, <2>3, <2>4
<1> QED
  BY <1>3, <1>6, <1>7, <1>8, <1>9, <1>10, <1>11, <1>12, <1>13, <1>14, <1>15

\* The steps of load.
LEMMA LoaderFields ==
    ASSUME BootTypes
    PROVE  /\ loader.at \in 0..8 /\ loader.pend \in SUBSET Pair
           /\ loader = [at |-> loader.at, todo |-> loader.todo, pend |-> loader.pend,
                        rest |-> loader.rest]
           /\ loader.at \in 1..8 => (Dir \in Tables <=> loader.at \notin {4, 8})
           /\ loader.at \in 1..8 => (Dir = "binds" <=> loader.at = 4)
           /\ loader.at \in 1..8 => (Dir = "applied" <=> loader.at = 8)
           /\ loader.at \in 1..8 => (Dir = "plugins" <=> loader.at = 7)
           /\ ~Idle => loader.at \in 1..8
           /\ loader.at \in {0, 4, 8} => loader.rest = {}
           /\ loader.at \notin {0, 4, 8} => loader.rest \subseteq KeysOf(Dir)
<1>1. /\ loader.at \in 0..8 /\ loader.pend \in SUBSET Pair
      /\ loader = [at |-> loader.at, todo |-> loader.todo, pend |-> loader.pend,
                   rest |-> loader.rest]
  BY DEF BootTypes, LoaderTypes
<1>2. ~Idle => loader.at # 0
  BY DEF BootTypes, LoaderTypes, Idle
<1>3. /\ loader.at \in {0, 4, 8} => loader.rest = {}
      /\ loader.at \notin {0, 4, 8} => loader.rest \subseteq KeysOf(Dir)
  BY DEF BootTypes, LoaderTypes
<1>4. /\ loader.at \in 1..8 => (Dir \in Tables <=> loader.at \notin {4, 8})
      /\ loader.at \in 1..8 => (Dir = "binds" <=> loader.at = 4)
      /\ loader.at \in 1..8 => (Dir = "applied" <=> loader.at = 8)
      /\ loader.at \in 1..8 => (Dir = "plugins" <=> loader.at = 7)
  BY <1>1, OrderFields DEF Dir
<1> QED
  BY <1>1, <1>2, <1>3, <1>4

\* The objects of the store among the keys S.
Stored(d, S) == {<<k, st[d][k]>> : k \in {j \in S : st[d][j] # Absent}}

\* A page has the objects of the keys that are not left for the next one.
LEMMA PageFields ==
    ASSUME NEW d \in Tables, NEW R \in SUBSET KeysOf(d), NEW P \in SUBSET R,
           IsPage(P, d, R)
    PROVE  /\ After(P, R) \subseteq R
           /\ {<<k, st[d][k]>> : k \in P} = Stored(d, R \ After(P, R))
<1>0. R \subseteq Nat
  BY BootAssumption DEF KeysOf, Tables
<1>1. P = {k \in R \ After(P, R) : st[d][k] # Absent}
  <2>1. ASSUME NEW k \in P PROVE k \in R /\ k \notin After(P, R) /\ st[d][k] # Absent
    <3>1. st[d][k] # Absent
      BY <2>1 DEF IsPage
    <3>2. k \in Nat /\ ~(k < k)
      BY <1>0, <2>1
    <3> QED
      BY <2>1, <3>1, <3>2 DEF After
  <2>2. ASSUME NEW k \in R, k \notin After(P, R), st[d][k] # Absent PROVE k \in P
    <3> SUFFICES ASSUME k \notin P PROVE FALSE
      OBVIOUS
    <3>1. ~(Cardinality(P) < PageLimit)
      BY <2>2 DEF IsPage
    <3>2. \A j \in P : j < k
      BY <2>2 DEF IsPage
    <3> QED
      BY <2>2, <3>1, <3>2 DEF After
  <2> QED
    BY <2>1, <2>2
<1>2. After(P, R) \subseteq R
  BY DEF After
<1> DEFINE A == R \ After(P, R)
<1> HIDE DEF A
<1>3. P = {k \in A : st[d][k] # Absent}
  BY <1>1 DEF A
<1>4. {<<k, st[d][k]>> : k \in P} = Stored(d, A)
  BY <1>3 DEF Stored
<1> QED
  BY <1>2, <1>4 DEF A

\* load reads directory n: the next one, or another page of the present one.
ReadAt(n) ==
    /\ On /\ loader.todo = {} /\ loader.pend = {}
    /\ n \in 1..8 /\ loader'.at = n /\ loader'.pend = {}
    /\ \/ n = loader.at + 1 /\ loader.rest = {}
       \/ n = loader.at /\ n \notin {4, 8}
    /\ Order[n] \in Tables =>
          /\ loader'.rest \subseteq Ahead(n)
          /\ loader'.todo = Stored(Order[n], Ahead(n) \ loader'.rest)
    /\ Order[n] \notin Tables => loader'.todo = Listed(Order[n]) /\ loader'.rest = {}

\* The keys ahead are keys of the directory.
LEMMA AheadFields ==
    ASSUME BootTypes, NEW n \in 1..8, n \notin {4, 8}
    PROVE  Order[n] \in Tables /\ Ahead(n) \subseteq KeysOf(Order[n])
<1>1. Order[n] \in Tables
  BY OrderFields
<1>2. n = loader.at => loader.rest \subseteq KeysOf(Order[n])
  BY LoaderFields DEF Dir
<1> QED
  BY <1>1, <1>2 DEF Ahead

LEMMA ReadFields ==
    ASSUME BootTypes, ReadDir
    PROVE  /\ LoaderTypes' /\ UNCHANGED <<store, proxy, watch, evts, tables>>
           /\ \E n \in 1..8 :
                 /\ ReadAt(n)
                 /\ flaws' = IF \E i \in DOMAIN evts : evts[i].src = Order[n]
                             THEN flaws \union {<<"lagged", Order[n]>>} ELSE flaws
<1>1. PICK n \in 1..8 :
          /\ Reads(n)
          /\ IF Order[n] \in Tables THEN ReadPage(n)
             ELSE n # loader.at /\ loader' = Loading(n, Listed(Order[n]), {})
          /\ flaws' = IF \E j \in DOMAIN evts : evts[j].src = Order[n]
                      THEN flaws \union {<<"lagged", Order[n]>>} ELSE flaws
  BY OrderFields DEF ReadDir
<1>2. UNCHANGED <<store, proxy, watch, evts, tables>>
  BY DEF ReadDir
<1> DEFINE d == Order[n]
<1>3. /\ d \in Tables \union {"binds", "applied"}
      /\ d \in Tables <=> n \notin {4, 8}
      /\ d = "binds" <=> n = 4 /\ (d = "applied" <=> n = 8)
  BY <1>1, OrderFields
<1>4. loader.todo = {} /\ loader.pend = {}
      /\ \/ n = loader.at + 1 /\ loader.rest = {}
         \/ n = loader.at /\ n \notin {4, 8}
  <2>1. CASE n = loader.at + 1 /\ Idle
    BY <2>1 DEF Idle
  <2>2. CASE /\ n = loader.at /\ ~Idle /\ loader.pend = {}
             /\ loader.todo = {} \/ Dir = "binds"
    <3>1. d \in Tables /\ Dir = d
      BY <1>1, <2>2 DEF Dir
    <3>2. Dir # "binds"
      BY <3>1, KeysFields
    <3> QED
      BY <1>3, <2>2, <3>1, <3>2
  <2> QED
    BY <1>1, <2>1, <2>2 DEF Reads
<1>5. /\ loader' = [at |-> n, todo |-> loader'.todo, pend |-> {}, rest |-> loader'.rest]
      /\ d \in Tables => /\ loader'.rest \subseteq Ahead(n) /\ loader'.rest \subseteq KeysOf(d)
                         /\ Ahead(n) \subseteq KeysOf(d)
                         /\ loader'.todo = Stored(d, Ahead(n) \ loader'.rest)
      /\ d \notin Tables => loader'.todo = Listed(d) /\ loader'.rest = {}
  <2>1. CASE d \in Tables
    <3> DEFINE R == Ahead(n)
    <3>1. R \in SUBSET KeysOf(d)
      BY <1>3, <2>1, AheadFields
    <3> HIDE DEF R
    <3>2. PICK P \in SUBSET R :
              /\ IsPage(P, d, R)
              /\ loader' = Loading(n, {<<k, st[d][k]>> : k \in P}, After(P, R))
      BY <1>1, <2>1 DEF ReadPage, R
    <3>3. /\ After(P, R) \subseteq R
          /\ {<<k, st[d][k]>> : k \in P} = Stored(d, R \ After(P, R))
      BY <2>1, <3>1, <3>2, PageFields
    <3> DEFINE A == After(P, R)
               T == {<<k, st[d][k]>> : k \in P}
    <3>4. A \subseteq R /\ T = Stored(d, R \ A) /\ loader' = Loading(n, T, A)
      BY <3>2, <3>3
    <3> HIDE DEF A, T
    <3>5. loader' = [at |-> n, todo |-> T, pend |-> {}, rest |-> A]
      BY <3>4 DEF Loading
    <3>6. loader'.todo = T /\ loader'.rest = A
      BY <3>5
    <3> QED
      BY <2>1, <3>1, <3>4, <3>5, <3>6 DEF R
  <2>2. CASE d \notin Tables
    <3>1. loader' = [at |-> n, todo |-> Listed(d), pend |-> {}, rest |-> {}]
      BY <1>1, <2>2 DEF Loading
    <3> QED
      BY <2>2, <3>1
  <2> QED
    BY <2>1, <2>2
<1>6. loader'.at = n /\ loader'.pend = {}
  BY <1>5
<1>7. On
  BY <1>1 DEF Reads
<1>8. ReadAt(n)
  BY <1>4, <1>5, <1>6, <1>7 DEF ReadAt
<1>9. d \in Tables =>
         \A x \in loader'.todo : x \in KeysOf(d) \X Version /\ x[1] \notin loader'.rest
  <2> SUFFICES ASSUME d \in Tables, NEW x \in loader'.todo
               PROVE  x \in KeysOf(d) \X Version /\ x[1] \notin loader'.rest
    OBVIOUS
  <2>1. x \in Stored(d, Ahead(n) \ loader'.rest)
    BY <1>5
  <2>2. PICK k \in KeysOf(d) : /\ k \notin loader'.rest /\ st[d][k] # Absent
                               /\ x = <<k, st[d][k]>>
    BY <1>5, <2>1 DEF Stored
  <2>3. st[d] \in [KeysOf(d) -> Value]
    BY DEF BootTypes, IsTables, Value
  <2>4. st[d][k] \in Version
    BY <2>2, <2>3 DEF Value
  <2> QED
    BY <2>2, <2>4
<1>10. /\ d = "binds" => loader'.todo \subseteq Cluster
       /\ d = "applied" => loader'.todo = {stApplied}
  BY <1>5, KeysFields DEF Listed
<1>11. stApplied \in SUBSET Plugin
  BY DEF BootTypes
<1>12. d \in Tables => KeysOf(d) \subseteq Keys
  BY KeysFields
<1> HIDE DEF d
<1> DEFINE L == loader'.todo
           R == loader'.rest
<1>13. L \in SUBSET ((Keys \X Version) \union Cluster \union SUBSET Plugin)
  BY <1>3, <1>9, <1>10, <1>11, <1>12
<1>14. R \in SUBSET Keys /\ (d \notin Tables => R = {}) /\ (d \in Tables => R \subseteq KeysOf(d))
  BY <1>3, <1>5, <1>12
<1>15. loader' = [at |-> n, todo |-> L, pend |-> {}, rest |-> R]
  BY <1>5
<1> HIDE DEF L, R
<1>16. /\ loader' \in [at : 0..8, todo : SUBSET ((Keys \X Version) \union Cluster
                                                \union SUBSET Plugin),
                       pend : SUBSET Pair, rest : SUBSET Keys]
       /\ loader'.at = n /\ loader'.todo = L /\ loader'.pend = {} /\ loader'.rest = R
  BY <1>1, <1>13, <1>14, <1>15
<1>17. Dir' = d
  BY <1>16 DEF Dir, d
<1>18. loader'.at = 8 => \E S \in SUBSET Plugin : loader'.todo \subseteq {S}
  BY <1>3, <1>10, <1>11, <1>16
<1>19. loader'.at \notin {0, 4, 8} =>
          /\ \A x \in loader'.todo : x \in KeysOf(Dir') \X Version
          /\ \A x \in loader'.todo : x[1] \notin loader'.rest
          /\ loader'.rest \subseteq KeysOf(Dir')
  BY <1>3, <1>9, <1>14, <1>16, <1>17
<1>20. loader'.at \in {0, 4, 8} => loader'.rest = {}
  BY <1>1, <1>3, <1>14, <1>16
<1>21. LoaderTypes'
  <2>1. /\ loader'.at = 0 => loader'.todo = {}
        /\ loader'.pend # {} => loader'.at = 4
    BY <1>1, <1>16
  <2> QED
    BY <1>16, <1>18, <1>19, <1>20, <2>1, Zenon DEF LoaderTypes
<1> QED
  BY <1>1, <1>2, <1>8, <1>21

LEMMA ReadFailsFields ==
    ASSUME BootTypes, ReadFails
    PROVE  /\ LoaderTypes' /\ UNCHANGED <<store, proxy, watch, evts, tables>>
           /\ \E n \in 1..8 :
                 /\ On /\ loader.pend = {} /\ loader'.at = n
                 /\ loader'.pend = {} /\ loader'.todo = {} /\ loader'.rest = {}
                 /\ (n = loader.at + 1 /\ Idle) \/ (n = loader.at /\ ~Idle)
                 /\ flaws' = flaws \union {<<"missed", Order[n]>>}
<1>1. PICK n \in 1..8 :
          /\ Reads(n) /\ loader' = Loading(n, {}, {})
          /\ flaws' = flaws \union {<<"missed", Order[n]>>}
  BY OrderFields DEF ReadFails
<1>2. UNCHANGED <<store, proxy, watch, evts, tables>>
  BY DEF ReadFails
<1>3. loader' = [at |-> n, todo |-> {}, pend |-> {}, rest |-> {}]
  BY <1>1 DEF Loading
<1>4. loader'.at = n /\ loader'.pend = {} /\ loader'.todo = {} /\ loader'.rest = {}
  BY <1>3
<1>5. LoaderTypes'
  BY <1>1, <1>3, <1>4 DEF LoaderTypes
<1> QED
  BY <1>1, <1>2, <1>4, <1>5 DEF Reads, Idle

LEMMA ReadSteps ==
    ASSUME BootTypes, ReadDir \/ ReadFails
    PROVE  /\ On /\ loader'.at \in Nat /\ loader'.at >= loader.at /\ LoaderTypes'
           /\ flaws \subseteq flaws'
           /\ UNCHANGED <<store, proxy, watch, evts, tables>>
<1>1. loader.at \in 0..8
  BY LoaderFields
<1>2. CASE ReadDir
  <2>1. /\ LoaderTypes' /\ UNCHANGED <<store, proxy, watch, evts, tables>>
        /\ \E n \in 1..8 : ReadAt(n) /\ flaws \subseteq flaws'
    BY <1>2, ReadFields
  <2>2. PICK n \in 1..8 : ReadAt(n) /\ flaws \subseteq flaws'
    BY <2>1
  <2>3. On /\ loader'.at = n /\ (n = loader.at + 1 \/ n = loader.at)
    BY <2>2 DEF ReadAt
  <2> QED
    BY <1>1, <2>1, <2>2, <2>3
<1>3. CASE ReadFails
  BY <1>1, <1>3, ReadFailsFields
<1> QED
  BY <1>2, <1>3

\* An object goes from the list into the table.
LEMMA LoadObjectFields ==
    ASSUME BootTypes, LoadObject
    PROVE  /\ On /\ Dir \in Tables /\ loader.at \in 1..7 /\ loader.pend = {}
           /\ loader'.at = loader.at /\ loader'.pend = {} /\ LoaderTypes'
           /\ loader'.rest = loader.rest
           /\ UNCHANGED <<store, proxy, watch, evts, flaws, js>>
           /\ IsTables(tab)' /\ \A e \in Tables : e # Dir => tab'[e] = tab[e]
           /\ \E x \in loader.todo :
                 /\ x \in KeysOf(Dir) \X Version
                 /\ loader'.todo = loader.todo \ {x}
                 /\ Dir # "apis" => tab'[Dir] = Added(Dir, x[1], x[2])
                 /\ Dir = "apis" => tab'["apis"] = AddedAPI(x[1], x[2])
<1>1. /\ On /\ ~Idle /\ Dir \notin {"binds", "applied"}
      /\ UNCHANGED <<store, failures, watch, evts, flaws>>
  BY DEF LoadObject
<1>2. /\ loader.at \in 1..7 /\ loader.at \notin {0, 4, 8} /\ Dir \in Tables
      /\ loader.pend = {}
  <2>1. loader.at \in 1..8 /\ loader.at # 4 /\ loader.at # 8
    BY <1>1, LoaderFields
  <2>2. loader.at \in 1..7 /\ loader.at \notin {0, 4, 8} /\ Dir \in Tables
    BY <2>1, LoaderFields
  <2>3. loader.pend = {}
    BY <2>1 DEF BootTypes, LoaderTypes
  <2> QED
    BY <2>2, <2>3
<1>3. PICK x \in loader.todo :
          /\ IF Dir = "apis" THEN addAPI(x[1], x[2]) ELSE addObject(Dir, x[1], x[2])
          /\ loader' = [loader EXCEPT !.todo = @ \ {x}]
  BY DEF LoadObject
<1>4. x \in KeysOf(Dir) \X Version
  BY <1>2 DEF BootTypes, LoaderTypes
<1>5. x[1] \in KeysOf(Dir) /\ x[2] \in Version
  BY <1>4
<1>6. /\ loader'.at = loader.at /\ loader'.pend = loader.pend /\ loader'.rest = loader.rest
      /\ loader'.todo = loader.todo \ {x}
      /\ loader' \in [at : 0..8, todo : SUBSET ((Keys \X Version) \union Cluster
                                                 \union SUBSET Plugin),
                       pend : SUBSET Pair, rest : SUBSET Keys]
  <2> DEFINE T == (Keys \X Version) \union Cluster \union SUBSET Plugin
  <2>1. loader \in [at : 0..8, todo : SUBSET T, pend : SUBSET Pair, rest : SUBSET Keys]
    BY DEF BootTypes, LoaderTypes
  <2> HIDE DEF T
  <2>2. /\ loader'.at = loader.at /\ loader'.pend = loader.pend
        /\ loader'.rest = loader.rest /\ loader'.todo = loader.todo \ {x}
        /\ loader' \in [at : 0..8, todo : SUBSET T, pend : SUBSET Pair, rest : SUBSET Keys]
    BY <1>3, <2>1
  <2> QED
    BY <2>2 DEF T
<1>7. Dir' = Dir
  BY <1>6 DEF Dir
<1>8. LoaderTypes'
  BY <1>2, <1>6, <1>7 DEF BootTypes, LoaderTypes
<1>9. /\ IsTables(tab)' /\ \A e \in Tables : e # Dir => tab'[e] = tab[e]
      /\ Dir # "apis" => tab'[Dir] = Added(Dir, x[1], x[2])
      /\ Dir = "apis" => tab'["apis"] = AddedAPI(x[1], x[2])
      /\ UNCHANGED <<proxy, js>>
  <2>1. CASE Dir = "apis"
    BY <1>3, <1>5, <2>1, KeysFields, AddAPIFields
  <2>2. CASE Dir # "apis"
    BY <1>2, <1>3, <1>5, <2>2, AddFields
  <2> QED
    BY <2>1, <2>2
<1> QED
  BY <1>1, <1>2, <1>4, <1>6, <1>8, <1>9

\* The binds; an error of them ends the process.
LEMMA LoadBindsFields ==
    ASSUME BootTypes, ReadBinds \/ LoadBind
    PROVE  /\ On /\ loader.at = 4 /\ loader'.at = loader.at /\ LoaderTypes'
           /\ UNCHANGED <<store, watch, evts, flaws, tab, route, js>>
           /\ proxy' \in {proxy, "bind"}
<1> DEFINE T == (Keys \X Version) \union Cluster \union SUBSET Plugin
<1>1. /\ On /\ ~Idle /\ Dir = "binds"
      /\ UNCHANGED <<store, watch, evts, flaws, tab, route, js>>
      /\ proxy' \in {proxy, "bind"}
  BY DEF ReadBinds, LoadBind, tables, Running, Stops
<1>2. loader.at = 4
  BY <1>1, LoaderFields
<1>3. /\ loader \in [at : 0..8, todo : SUBSET T, pend : SUBSET Pair, rest : SUBSET Keys]
      /\ stBinds \in SUBSET Pair /\ loader.rest = {}
  BY <1>2 DEF BootTypes, LoaderTypes
<1> HIDE DEF T
<1>4. CASE ReadBinds
  <2>1. PICK c \in loader.todo :
            loader' = [loader EXCEPT !.todo = @ \ {c},
                                     !.pend = {b \in stBinds : b[1] = c}]
    BY <1>4 DEF ReadBinds
  <2> DEFINE P == {b \in stBinds : b[1] = c}
  <2>2. P \in SUBSET Pair
    BY <1>3
  <2> HIDE DEF P
  <2>3. loader' = [loader EXCEPT !.todo = @ \ {c}, !.pend = P]
    BY <2>1 DEF P
  <2>4. /\ loader' \in [at : 0..8, todo : SUBSET T, pend : SUBSET Pair, rest : SUBSET Keys]
        /\ loader'.at = loader.at /\ loader'.rest = loader.rest
    BY <1>3, <2>2, <2>3
  <2>5. LoaderTypes'
    BY <1>2, <1>3, <2>4 DEF LoaderTypes, T
  <2> QED
    BY <1>1, <1>2, <2>4, <2>5
<1>5. CASE LoadBind
  <2>1. PICK b \in loader.pend : loader' = [loader EXCEPT !.pend = @ \ {b}]
    BY <1>5 DEF LoadBind
  <2>2. /\ loader' \in [at : 0..8, todo : SUBSET T, pend : SUBSET Pair, rest : SUBSET Keys]
        /\ loader'.at = loader.at /\ loader'.rest = loader.rest
    BY <1>3, <2>1
  <2>3. LoaderTypes'
    BY <1>2, <1>3, <2>2 DEF LoaderTypes, T
  <2> QED
    BY <1>1, <1>2, <2>2, <2>3
<1> QED
  BY <1>4, <1>5

LEMMA LoadAppliedFields ==
    ASSUME BootTypes, LoadApplied
    PROVE  /\ On /\ loader.at = 8 /\ loader'.at = 8 /\ LoaderTypes'
           /\ loader'.todo = {} /\ loader'.pend = loader.pend /\ loader.pend = {}
           /\ loader'.rest = {}
           /\ UNCHANGED <<store, proxy, watch, evts, flaws, tab, route, refused>>
           /\ \E S \in SUBSET Plugin :
                 /\ loader.todo = {S}
                 /\ IF \A p \in S : Has("plugins", p)
                    THEN /\ applied' = S
                         /\ \/ engine' = Engine(S) /\ built' = TRUE
                            \/ engine' = engine /\ built' = FALSE
                    ELSE UNCHANGED <<applied, engine, built>>
<1> DEFINE T == (Keys \X Version) \union Cluster \union SUBSET Plugin
<1>1. /\ On /\ ~Idle /\ Dir = "applied" /\ loader' = [loader EXCEPT !.todo = {}]
      /\ UNCHANGED <<store, watch, evts, flaws>>
  BY DEF LoadApplied
<1>2. loader.at = 8
  BY <1>1, LoaderFields
<1>3. /\ loader \in [at : 0..8, todo : SUBSET T, pend : SUBSET Pair, rest : SUBSET Keys]
      /\ \E S \in SUBSET Plugin : loader.todo \subseteq {S}
      /\ loader.pend = {} /\ loader.rest = {}
  <2>1. LoaderTypes
    BY DEF BootTypes
  <2>2. loader \in [at : 0..8, todo : SUBSET T, pend : SUBSET Pair, rest : SUBSET Keys]
    BY <2>1 DEF LoaderTypes
  <2>3. \E S \in SUBSET Plugin : loader.todo \subseteq {S}
    BY <1>2, <2>1 DEF LoaderTypes
  <2>4. loader.pend = {} /\ loader.rest = {}
    BY <1>2, <2>1 DEF LoaderTypes
  <2> QED
    BY <2>2, <2>3, <2>4
<1> HIDE DEF T
<1>4. /\ loader' \in [at : 0..8, todo : SUBSET T, pend : SUBSET Pair, rest : SUBSET Keys]
      /\ loader'.at = loader.at /\ loader'.todo = {} /\ loader'.pend = loader.pend
      /\ loader'.rest = loader.rest
  BY <1>1, <1>3
<1>5. LoaderTypes'
  BY <1>2, <1>3, <1>4 DEF LoaderTypes, T
<1>6. PICK S \in loader.todo : updateAppliedPlugin(S)
  BY DEF LoadApplied
<1>7. S \in SUBSET Plugin /\ loader.todo = {S}
  BY <1>3
<1> QED
  BY <1>1, <1>2, <1>3, <1>4, <1>5, <1>6, <1>7
     DEF updateAppliedPlugin, Running, tables, Builds, BuildFails

\* A process that starts or is killed.
LEMMA FreshFields ==
    ASSUME Fresh
    PROVE  /\ IsTables(tab)' /\ applied' = Nil /\ engine' \in [Plugin -> Value]
           /\ built' = TRUE /\ refused' = {} /\ loader'.rest = {}
           /\ watch' = "none" /\ evts' = <<>> /\ evts' \in Seq(Event)
           /\ LoaderTypes' /\ loader'.at = 0 /\ loader'.todo = {} /\ loader'.pend = {}
           /\ \A d \in Tables : \A k \in KeysOf(d) : tab'[d][k] = Absent
<1>1. IsTables(tab)' /\ \A d \in Tables : \A k \in KeysOf(d) : tab'[d][k] = Absent
  BY EmptyTables DEF Fresh, IsTables
<1>2. loader' = [at |-> 0, todo |-> {}, pend |-> {}, rest |-> {}]
  BY DEF Fresh, Loading
<1>3. LoaderTypes' /\ loader'.at = 0 /\ loader'.todo = {} /\ loader'.pend = {}
      /\ loader'.rest = {}
  BY <1>2 DEF LoaderTypes
<1>4. engine' \in [Plugin -> Value]
  BY DEF Fresh, NoEngine, Value
<1> QED
  BY <1>1, <1>3, <1>4 DEF Fresh

LEMMA NextTypes == BootTypes /\ [Next]_vars => BootTypes'
<1> SUFFICES ASSUME BootTypes, [Next]_vars PROVE BootTypes'
  OBVIOUS
<1>a. /\ IsTables(st) /\ IsTables(tab)
      /\ stBinds \in SUBSET Pair /\ stApplied \in SUBSET Plugin
      /\ applied \in (SUBSET Plugin) \union {Nil}
      /\ engine \in [Plugin -> Value] /\ built \in BOOLEAN /\ refused \in SUBSET Plugin
      /\ watch \in {"none", "on", "broken"}
      /\ evts \in Seq(Event)
      /\ LoaderTypes
  BY DEF BootTypes
<1>b. ASSUME UNCHANGED <<st, stBinds, stApplied>>
      PROVE  IsTables(st)' /\ stBinds' \in SUBSET Pair /\ stApplied' \in SUBSET Plugin
  BY <1>a, <1>b DEF IsTables
<1>c. UNCHANGED loader => LoaderTypes'
  BY <1>a DEF LoaderTypes, Dir
<1>d. UNCHANGED tab => IsTables(tab)'
  BY <1>a DEF IsTables
<1>1. CASE Administer
  <2>1. PICK E \in Seq(Event) : Changes(E)
    BY <1>1, AdminSteps
  <2>2. /\ IsTables(st)' /\ stBinds' \in SUBSET Pair /\ stApplied' \in SUBSET Plugin
    BY <1>1, AdminSteps
  <2>3. evts' \in Seq(Event) /\ UNCHANGED <<proxy, failures, watch, tables, loader>>
    BY <1>a, <2>1 DEF Changes
  <2> QED
    BY <1>a, <1>c, <1>d, <2>2, <2>3 DEF BootTypes, tables
<1>2. CASE Start \/ Kill
  <2>1. Fresh /\ UNCHANGED store
    BY <1>2 DEF Start, Kill
  <2> QED
    BY <1>b, <2>1, FreshFields DEF BootTypes, store
<1>3. CASE Register \/ WatchBreaks
  <2>1. watch' \in {"none", "on", "broken"} /\ UNCHANGED <<store, evts, tables, loader>>
    BY <1>3 DEF Register, WatchBreaks
  <2> QED
    BY <1>a, <1>b, <1>c, <1>d, <2>1 DEF BootTypes, store, tables
<1>4. CASE Receive
  <2>1. /\ evts # <<>> /\ evts[1] \in Event /\ evts' = Tail(evts)
        /\ UNCHANGED <<store, watch, loader>> /\ IsTables(tab)'
        /\ Stopped(evts[1]) \/ Handled(evts[1])
    BY <1>4, ReceiveFields
  <2>2. evts' \in Seq(Event)
    BY <1>a, <2>1
  <2>3. /\ applied' \in (SUBSET Plugin) \union {Nil} /\ engine' \in [Plugin -> Value]
        /\ built' \in BOOLEAN /\ refused' \in SUBSET Plugin
    <3>1. \A S : Engine(S) \in [Plugin -> Value]
      BY EngineTypes
    <3>2. evts[1].src = "applied" => evts[1].value \in SUBSET Plugin
      BY <2>1, EventFields
    <3> QED
      BY <1>a, <2>1, <3>1, <3>2 DEF Stopped, Handled
  <2> QED
    BY <1>a, <1>b, <1>c, <2>1, <2>2, <2>3 DEF BootTypes, store
<1>5. CASE ReadDir
  <2>1. LoaderTypes' /\ UNCHANGED <<store, proxy, watch, evts, tables>>
    BY <1>5, ReadFields
  <2> QED
    BY <1>a, <1>b, <1>d, <2>1 DEF BootTypes, store, tables
<1>6. CASE ReadFails
  <2>1. LoaderTypes' /\ UNCHANGED <<store, proxy, watch, evts, tables>>
    BY <1>6, ReadFailsFields
  <2> QED
    BY <1>a, <1>b, <1>d, <2>1 DEF BootTypes, store, tables
<1>7. CASE LoadObject
  BY <1>a, <1>b, <1>7, LoadObjectFields DEF BootTypes, store
<1>8. CASE ReadBinds \/ LoadBind
  BY <1>a, <1>b, <1>d, <1>8, LoadBindsFields DEF BootTypes, store
<1>9. CASE LoadApplied
  <2>1. /\ LoaderTypes' /\ UNCHANGED <<store, watch, evts, tab, refused>>
        /\ \E S \in SUBSET Plugin :
              \/ applied' = S /\ engine' = Engine(S) /\ built' = TRUE
              \/ applied' = S /\ engine' = engine /\ built' = FALSE
              \/ UNCHANGED <<applied, engine, built>>
    BY <1>9, LoadAppliedFields
  <2>2. /\ applied' \in (SUBSET Plugin) \union {Nil} /\ engine' \in [Plugin -> Value]
        /\ built' \in BOOLEAN
    BY <1>a, <2>1, EngineTypes
  <2> QED
    BY <1>a, <1>b, <1>d, <2>1, <2>2 DEF BootTypes, store
<1>10. CASE UNCHANGED vars
  BY <1>a, <1>b, <1>c, <1>d, <1>10 DEF vars, store, tables, BootTypes
<1> QED
  BY <1>1, <1>2, <1>3, <1>4, <1>5, <1>6, <1>7, <1>8, <1>9, <1>10 DEF Next, Load

\* The tables, the queue of events and the state of load have their types for any
\* objects and any bounds.
THEOREM BootTyped == Spec => []BootTypes
  BY InitTypes, NextTypes, PTL DEF Spec

-----------------------------------------------------------------------------
(* The history of the store that the queue of events tells.                *)

About(q, i, d, k) == q[i].src = d /\ q[i].key = k

\* h is a history of directory d, which holds x after the events of the queue q:
\* h[i] is what it held after i of them.  Between its events an object does not
\* change, and it stays until it is removed.
Chain(q, d, x, h) ==
    /\ h \in [0..Len(q) -> [KeysOf(d) -> Value]]
    /\ h[Len(q)] = x
    /\ \A i \in 1..Len(q) : q[i].src = d =>
          /\ h[i] = [h[i - 1] EXCEPT ![q[i].key] = q[i].value]
          /\ q[i].new <=> h[i - 1][q[i].key] = Absent
    /\ \A i, j \in 0..Len(q) : \A k \in KeysOf(d) :
          i <= j /\ (\A m \in (i + 1)..j : ~About(q, m, d, k)) => h[i][k] = h[j][k]
    /\ \A i, j \in 0..Len(q) : \A k \in KeysOf(d) :
          /\ i <= j /\ h[i][k] # Absent
          /\ \A m \in (i + 1)..j : About(q, m, d, k) => q[m].value # Absent
          => h[j][k] # Absent

\* The same of the applied plugins.
Sets(q, x, a) ==
    /\ a \in [0..Len(q) -> SUBSET Plugin]
    /\ a[Len(q)] = x
    /\ \A i \in 1..Len(q) : q[i].src = "applied" => a[i] = q[i].value
    /\ \A i, j \in 0..Len(q) :
          i <= j /\ (\A m \in (i + 1)..j : q[m].src # "applied") => a[i] = a[j]

\* A history of n events without its first event, followed by m events of a
\* change to x, and without any event.
Shifted(n, h) == [i \in 0..(n - 1) |-> h[i + 1]]
Grown(n, h, m, x) == [i \in 0..(n + m) |-> IF i <= n THEN h[i] ELSE x]
Single(x) == [i \in 0..0 |-> x]

LEMMA TailFields ==
    ASSUME NEW q \in Seq(Event), q # <<>>
    PROVE  /\ Len(q) \in Nat \ {0} /\ Len(Tail(q)) = Len(q) - 1 /\ Tail(q) \in Seq(Event)
           /\ \A i \in 1..(Len(q) - 1) : Tail(q)[i] = q[i + 1]
  OBVIOUS

LEMMA ChainShifts ==
    ASSUME NEW q \in Seq(Event), q # <<>>, NEW d \in Tables, NEW x, NEW h,
           Chain(q, d, x, h)
    PROVE  Chain(Tail(q), d, x, Shifted(Len(q), h)) /\ Shifted(Len(q), h)[0] = h[1]
<1> DEFINE n == Len(q)
           g == Shifted(n, h)
           r == Tail(q)
<1>1. /\ n \in Nat \ {0} /\ Len(r) = n - 1
      /\ \A i \in 1..(n - 1) : r[i] = q[i + 1]
  BY TailFields
<1>2. g = [i \in 0..(n - 1) |-> h[i + 1]]
  BY DEF Shifted
<1>3. /\ h \in [0..n -> [KeysOf(d) -> Value]] /\ h[n] = x
      /\ \A i \in 1..n : q[i].src = d =>
            /\ h[i] = [h[i - 1] EXCEPT ![q[i].key] = q[i].value]
            /\ q[i].new <=> h[i - 1][q[i].key] = Absent
  BY DEF Chain
<1>3a. \A i, j \in 0..n : \A k \in KeysOf(d) :
            i <= j /\ (\A m \in (i + 1)..j : ~About(q, m, d, k)) => h[i][k] = h[j][k]
  BY DEF Chain
<1>3b. \A i, j \in 0..n : \A k \in KeysOf(d) :
            /\ i <= j /\ h[i][k] # Absent
            /\ \A m \in (i + 1)..j : About(q, m, d, k) => q[m].value # Absent
            => h[j][k] # Absent
  BY DEF Chain
<1> HIDE DEF n, g, r
<1>4. \A i \in 0..(n - 1) : g[i] = h[i + 1] /\ i + 1 \in 1..n /\ i + 1 \in 0..n
  BY <1>1, <1>2
<1>5. g \in [0..(n - 1) -> [KeysOf(d) -> Value]] /\ g[n - 1] = x
  BY <1>1, <1>2, <1>3, <1>4
<1>6. ASSUME NEW i \in 1..(n - 1), r[i].src = d
      PROVE  /\ g[i] = [g[i - 1] EXCEPT ![r[i].key] = r[i].value]
             /\ r[i].new <=> g[i - 1][r[i].key] = Absent
  <2>1. i + 1 \in 1..n /\ i - 1 \in 0..(n - 1) /\ i \in 0..(n - 1) /\ (i - 1) + 1 = i
    BY <1>1
  <2>2. g[i] = h[i + 1] /\ g[i - 1] = h[i] /\ r[i] = q[i + 1]
    BY <1>1, <1>4, <2>1
  <2>3. (i + 1) - 1 = i
    OBVIOUS
  <2>4. /\ h[i + 1] = [h[i] EXCEPT ![q[i + 1].key] = q[i + 1].value]
        /\ q[i + 1].new <=> h[i][q[i + 1].key] = Absent
    <3>1. q[i + 1].src = d
      BY <1>6, <2>2
    <3>2. /\ h[i + 1] = [h[(i + 1) - 1] EXCEPT ![q[i + 1].key] = q[i + 1].value]
          /\ q[i + 1].new <=> h[(i + 1) - 1][q[i + 1].key] = Absent
      BY <1>3, <2>1, <3>1
    <3> QED
      BY <2>3, <3>2, Zenon
  <2> QED
    BY <2>2, <2>4, Zenon
<1>7. ASSUME NEW i \in 0..(n - 1), NEW j \in 0..(n - 1), NEW k \in KeysOf(d), i <= j,
             NEW m \in (i + 2)..(j + 1)
      PROVE  /\ m - 1 \in (i + 1)..j /\ r[m - 1] = q[m]
             /\ About(r, m - 1, d, k) <=> About(q, m, d, k)
  <2>1. m - 1 \in (i + 1)..j /\ m - 1 \in 1..(n - 1) /\ (m - 1) + 1 = m
    BY <1>1, <1>7
  <2>2. r[m - 1] = q[m]
    BY <1>1, <2>1
  <2> QED
    BY <2>1, <2>2 DEF About
<1>8. ASSUME NEW i \in 0..(n - 1), NEW j \in 0..(n - 1), NEW k \in KeysOf(d), i <= j,
             \A m \in (i + 1)..j : ~About(r, m, d, k)
      PROVE  g[i][k] = g[j][k]
  <2>1. \A m \in (i + 2)..(j + 1) : ~About(q, m, d, k)
    BY <1>7, <1>8
  <2>2. i + 1 \in 0..n /\ j + 1 \in 0..n /\ i + 1 <= j + 1 /\ (i + 1) + 1 = i + 2
    BY <1>1, <1>8
  <2>3. h[i + 1][k] = h[j + 1][k]
    BY <1>3a, <2>1, <2>2
  <2> QED
    BY <1>4, <2>3
<1>9. ASSUME NEW i \in 0..(n - 1), NEW j \in 0..(n - 1), NEW k \in KeysOf(d), i <= j,
             g[i][k] # Absent,
             \A m \in (i + 1)..j : About(r, m, d, k) => r[m].value # Absent
      PROVE  g[j][k] # Absent
  <2>1. \A m \in (i + 2)..(j + 1) : About(q, m, d, k) => q[m].value # Absent
    BY <1>7, <1>9
  <2>2. i + 1 \in 0..n /\ j + 1 \in 0..n /\ i + 1 <= j + 1 /\ (i + 1) + 1 = i + 2
    BY <1>1, <1>9
  <2>3. h[i + 1][k] # Absent
    BY <1>4, <1>9
  <2>4. h[j + 1][k] # Absent
    BY <1>3b, <2>1, <2>2, <2>3
  <2> QED
    BY <1>4, <2>4
<1>10. 0 \in 0..(n - 1) /\ 0 + 1 = 1
  BY <1>1
<1>11. Chain(r, d, x, g)
  <2>1. Len(r) = n - 1
    BY <1>1
  <2>2. g \in [0..Len(r) -> [KeysOf(d) -> Value]] /\ g[Len(r)] = x
    BY <1>5, <2>1
  <2>3. \A i \in 1..Len(r) : r[i].src = d =>
           /\ g[i] = [g[i - 1] EXCEPT ![r[i].key] = r[i].value]
           /\ r[i].new <=> g[i - 1][r[i].key] = Absent
    BY <1>6, <2>1
  <2>4. \A i, j \in 0..Len(r) : \A k \in KeysOf(d) :
           i <= j /\ (\A m \in (i + 1)..j : ~About(r, m, d, k)) => g[i][k] = g[j][k]
    BY <1>8, <2>1
  <2>5. \A i, j \in 0..Len(r) : \A k \in KeysOf(d) :
           /\ i <= j /\ g[i][k] # Absent
           /\ \A m \in (i + 1)..j : About(r, m, d, k) => r[m].value # Absent
           => g[j][k] # Absent
    BY <1>9, <2>1
  <2> QED
    BY <2>2, <2>3, <2>4, <2>5, Zenon DEF Chain
<1>12. g[0] = h[1]
  BY <1>4, <1>10
<1> QED
  BY <1>11, <1>12 DEF g, r, n

\* A change of directory d that the watch sends: E[1] is about one of its
\* objects, or no event is about it.
Told(E, d, x, y) ==
    /\ E \in Seq(Event) /\ E # <<>>
    /\ \A i \in 2..Len(E) : E[i].src # d
    /\ IF E[1].src = d
       THEN /\ y = [x EXCEPT ![E[1].key] = E[1].value]
            /\ E[1].new <=> x[E[1].key] = Absent
       ELSE y = x

LEMMA AppendFields ==
    ASSUME NEW q \in Seq(Event), NEW E \in Seq(Event), E # <<>>
    PROVE  /\ Len(q) \in Nat /\ Len(E) \in Nat \ {0} /\ q \o E \in Seq(Event)
           /\ Len(q \o E) = Len(q) + Len(E)
           /\ \A i \in 1..Len(q) : (q \o E)[i] = q[i]
           /\ \A i \in (Len(q) + 1)..(Len(q) + Len(E)) : (q \o E)[i] = E[i - Len(q)]
  OBVIOUS

LEMMA ChainGrows ==
    ASSUME NEW q \in Seq(Event), NEW d \in Tables, NEW x, NEW h, Chain(q, d, x, h),
           NEW E, NEW y \in [KeysOf(d) -> Value], Told(E, d, x, y)
    PROVE  Chain(q \o E, d, y, Grown(Len(q), h, Len(E), y))
<1> DEFINE n == Len(q)
           c == Len(E)
           g == Grown(n, h, c, y)
           r == q \o E
<1>1. /\ n \in Nat /\ c \in Nat \ {0} /\ Len(r) = n + c
      /\ \A i \in 1..n : r[i] = q[i]
      /\ \A i \in (n + 1)..(n + c) : r[i] = E[i - n]
  BY AppendFields DEF Told
<1>2. g = [i \in 0..(n + c) |-> IF i <= n THEN h[i] ELSE y]
  BY DEF Grown
<1>3. /\ h \in [0..n -> [KeysOf(d) -> Value]] /\ h[n] = x
      /\ \A i \in 1..n : q[i].src = d =>
            /\ h[i] = [h[i - 1] EXCEPT ![q[i].key] = q[i].value]
            /\ q[i].new <=> h[i - 1][q[i].key] = Absent
  BY DEF Chain
<1>3a. \A i, j \in 0..n : \A k \in KeysOf(d) :
            i <= j /\ (\A m \in (i + 1)..j : ~About(q, m, d, k)) => h[i][k] = h[j][k]
  BY DEF Chain
<1>3b. \A i, j \in 0..n : \A k \in KeysOf(d) :
            /\ i <= j /\ h[i][k] # Absent
            /\ \A m \in (i + 1)..j : About(q, m, d, k) => q[m].value # Absent
            => h[j][k] # Absent
  BY DEF Chain
<1>3c. /\ \A i \in 2..c : E[i].src # d
       /\ E[1].src = d => /\ y = [x EXCEPT ![E[1].key] = E[1].value]
                          /\ E[1].new <=> x[E[1].key] = Absent
       /\ E[1].src # d => y = x
  BY DEF Told
<1>3d. E[1].src = d => E[1].key \in KeysOf(d)
  <2>1. E[1] \in Event
    BY DEF Told
  <2> QED
    BY <2>1, EventFields
<1> HIDE DEF n, g, r, c
<1>4. /\ \A i \in 0..n : g[i] = h[i] /\ i \in 0..(n + c)
      /\ \A i \in (n + 1)..(n + c) : g[i] = y /\ i \in 0..(n + c)
  BY <1>1, <1>2
<1>5. g \in [0..(n + c) -> [KeysOf(d) -> Value]] /\ g[n + c] = y
  BY <1>1, <1>2, <1>3
<1>5a. \A i \in 0..(n + c) : i \in 0..n \/ i \in (n + 1)..(n + c)
  BY <1>1
<1>5b. n + 1 \in (n + 1)..(n + c) /\ (n + 1) - n = 1 /\ n \in 0..n /\ (n + 1) - 1 = n
  BY <1>1
<1>5c. r[n + 1] = E[1]
  <2>1. r[n + 1] = E[(n + 1) - n]
    BY <1>1, <1>5b
  <2> QED
    BY <1>5b, <2>1, Zenon
<1>5d. \A i \in (n + 2)..(n + c) : r[i].src # d
  <2> TAKE i \in (n + 2)..(n + c)
  <2>1. i \in (n + 1)..(n + c) /\ i - n \in 2..c
    BY <1>1
  <2> QED
    BY <1>1, <1>3c, <2>1
<1>6. ASSUME NEW i \in 1..(n + c), r[i].src = d
      PROVE  /\ g[i] = [g[i - 1] EXCEPT ![r[i].key] = r[i].value]
             /\ r[i].new <=> g[i - 1][r[i].key] = Absent
  <2>1. CASE i \in 1..n
    <3>1. g[i] = h[i] /\ g[i - 1] = h[i - 1] /\ r[i] = q[i]
      BY <1>1, <1>4, <2>1
    <3> QED
      BY <1>3, <1>6, <2>1, <3>1
  <2>2. CASE i = n + 1
    <3>1. g[i] = y /\ g[i - 1] = x /\ r[i] = E[1]
      BY <1>3, <1>4, <1>5b, <1>5c, <2>2
    <3> QED
      BY <1>3c, <1>6, <3>1
  <2>3. CASE i \in (n + 2)..(n + c)
    BY <1>5d, <1>6, <2>3
  <2> QED
    BY <1>1, <2>1, <2>2, <2>3
<1>7. \A m \in 1..n : \A k \in KeysOf(d) : About(r, m, d, k) <=> About(q, m, d, k)
  BY <1>1 DEF About
<1>8. \A k \in KeysOf(d) : ~About(r, n + 1, d, k) => y[k] = x[k]
  <2> SUFFICES ASSUME NEW k \in KeysOf(d), ~About(r, n + 1, d, k) PROVE y[k] = x[k]
    OBVIOUS
  <2>1. ~(E[1].src = d /\ E[1].key = k)
    BY <1>5c, Zenon DEF About
  <2>2. x \in [KeysOf(d) -> Value]
    BY <1>3, <1>5b
  <2>3. CASE E[1].src = d
    BY <1>3c, <1>3d, <2>1, <2>2, <2>3
  <2>4. CASE E[1].src # d
    BY <1>3c, <2>4
  <2> QED
    BY <2>3, <2>4
<1>8a. \A k \in KeysOf(d) :
         (About(r, n + 1, d, k) => r[n + 1].value # Absent) /\ x[k] # Absent => y[k] # Absent
  <2> TAKE k \in KeysOf(d)
  <2>1. CASE ~About(r, n + 1, d, k)
    BY <1>8, <2>1
  <2>2. CASE About(r, n + 1, d, k)
    <3>1. E[1].src = d /\ E[1].key = k /\ y = [x EXCEPT ![k] = E[1].value]
      BY <1>3c, <1>5c, <2>2 DEF About
    <3>2. y[k] = r[n + 1].value
      BY <1>3, <1>5b, <1>5c, <3>1
    <3> QED
      BY <2>2, <3>2
  <2> QED
    BY <2>1, <2>2
<1>9. ASSUME NEW i \in 0..(n + c), NEW j \in 0..(n + c), NEW k \in KeysOf(d), i <= j,
             \A m \in (i + 1)..j : ~About(r, m, d, k)
      PROVE  g[i][k] = g[j][k]
  <2>1. CASE j \in 0..n
    <3>1. i \in 0..n /\ \A m \in (i + 1)..j : m \in 1..n
      BY <1>1, <1>9, <2>1
    <3>2. h[i][k] = h[j][k]
      BY <1>3a, <1>7, <1>9, <2>1, <3>1
    <3> QED
      BY <1>4, <2>1, <3>1, <3>2
  <2>2. CASE i \in 0..n /\ j \in (n + 1)..(n + c)
    <3>1. i <= n /\ n + 1 \in (i + 1)..j /\ \A m \in (i + 1)..n : m \in 1..n /\ m \in (i + 1)..j
      BY <1>1, <2>2
    <3>2. h[i][k] = h[n][k]
      BY <1>3a, <1>5b, <1>7, <1>9, <2>2, <3>1
    <3>3. y[k] = x[k]
      BY <1>8, <1>9, <3>1
    <3> QED
      BY <1>3, <1>4, <2>2, <3>2, <3>3
  <2>3. CASE i \in (n + 1)..(n + c)
    <3>1. j \in (n + 1)..(n + c)
      BY <1>1, <1>9, <2>3
    <3> QED
      BY <1>4, <2>3, <3>1
  <2> QED
    BY <1>5a, <2>1, <2>2, <2>3
<1>10. ASSUME NEW i \in 0..(n + c), NEW j \in 0..(n + c), NEW k \in KeysOf(d), i <= j,
             g[i][k] # Absent,
             \A m \in (i + 1)..j : About(r, m, d, k) => r[m].value # Absent
      PROVE  g[j][k] # Absent
  <2>1. CASE j \in 0..n
    <3>1. i \in 0..n /\ \A m \in (i + 1)..j : m \in 1..n /\ r[m] = q[m]
      BY <1>1, <1>10, <2>1
    <3>2. \A m \in (i + 1)..j : About(q, m, d, k) => q[m].value # Absent
      BY <1>7, <1>10, <3>1
    <3>3. h[i][k] # Absent
      BY <1>4, <1>10, <3>1
    <3>4. h[j][k] # Absent
      BY <1>3b, <1>10, <2>1, <3>1, <3>2, <3>3
    <3> QED
      BY <1>4, <2>1, <3>4
  <2>2. CASE i \in 0..n /\ j \in (n + 1)..(n + c)
    <3>1. /\ i <= n /\ n + 1 \in (i + 1)..j
          /\ \A m \in (i + 1)..n : m \in 1..n /\ m \in (i + 1)..j /\ r[m] = q[m]
      BY <1>1, <2>2
    <3>2. \A m \in (i + 1)..n : About(q, m, d, k) => q[m].value # Absent
      BY <1>7, <1>10, <3>1
    <3>3. h[i][k] # Absent
      BY <1>4, <1>10, <2>2
    <3>4. x[k] # Absent
      <4>1. n \in 0..n /\ i \in 0..n
        BY <1>5b, <2>2
      <4>2. h[n][k] # Absent
        BY <1>3b, <3>1, <3>2, <3>3, <4>1
      <4> QED
        BY <1>3, <4>2
    <3>5. y[k] # Absent
      BY <1>8a, <1>10, <3>1, <3>4
    <3> QED
      BY <1>4, <2>2, <3>5
  <2>3. CASE i \in (n + 1)..(n + c)
    <3>1. j \in (n + 1)..(n + c)
      BY <1>1, <1>10, <2>3
    <3> QED
      BY <1>4, <1>10, <2>3, <3>1
  <2> QED
    BY <1>5a, <2>1, <2>2, <2>3
<1>11. Chain(r, d, y, g)
  <2>1. Len(r) = n + c
    BY <1>1
  <2>2. g \in [0..Len(r) -> [KeysOf(d) -> Value]] /\ g[Len(r)] = y
    BY <1>5, <2>1
  <2>3. \A i \in 1..Len(r) : r[i].src = d =>
           /\ g[i] = [g[i - 1] EXCEPT ![r[i].key] = r[i].value]
           /\ r[i].new <=> g[i - 1][r[i].key] = Absent
    BY <1>6, <2>1
  <2>4. \A i, j \in 0..Len(r) : \A k \in KeysOf(d) :
           i <= j /\ (\A m \in (i + 1)..j : ~About(r, m, d, k)) => g[i][k] = g[j][k]
    BY <1>9, <2>1
  <2>5. \A i, j \in 0..Len(r) : \A k \in KeysOf(d) :
           /\ i <= j /\ g[i][k] # Absent
           /\ \A m \in (i + 1)..j : About(r, m, d, k) => r[m].value # Absent
           => g[j][k] # Absent
    BY <1>10, <2>1
  <2> QED
    BY <2>2, <2>3, <2>4, <2>5, Zenon DEF Chain
<1> QED
  BY <1>11 DEF g, r, n, c

LEMMA ChainSingle ==
    ASSUME NEW d \in Tables, NEW x \in [KeysOf(d) -> Value]
    PROVE  Chain(<<>>, d, x, Single(x)) /\ Single(x)[0] = x
<1> DEFINE g == Single(x)
<1>1. g = [i \in 0..0 |-> x] /\ Len(<<>>) = 0 /\ 0 \in 0..0 /\ \A i \in 0..0 : i = 0
  BY DEF Single
<1> HIDE DEF g
<1>2. g[0] = x /\ g \in [0..0 -> [KeysOf(d) -> Value]]
  BY <1>1
<1>3. Chain(<<>>, d, x, g)
  BY <1>1, <1>2 DEF Chain
<1> QED
  BY <1>2, <1>3 DEF g

\* The first event of the queue.
LEMMA ChainHead ==
    ASSUME NEW q \in Seq(Event), q # <<>>, NEW d \in Tables, NEW x, NEW h,
           Chain(q, d, x, h)
    PROVE  /\ h[0] \in [KeysOf(d) -> Value] /\ h[1] \in [KeysOf(d) -> Value]
           /\ q[1].src = d => /\ h[1] = [h[0] EXCEPT ![q[1].key] = q[1].value]
                              /\ q[1].new <=> h[0][q[1].key] = Absent
           /\ q[1].src # d => h[1] = h[0]
<1>1. Len(q) \in Nat \ {0}
  BY TailFields
<1>2. 0 \in 0..Len(q) /\ 1 \in 0..Len(q) /\ 1 \in 1..Len(q) /\ 1 - 1 = 0 /\ 0 <= 1
      /\ \A m \in (0 + 1)..1 : m = 1
  BY <1>1
<1>3. h[0] \in [KeysOf(d) -> Value] /\ h[1] \in [KeysOf(d) -> Value]
  BY <1>2 DEF Chain
<1>4. q[1].src = d => /\ h[1] = [h[1 - 1] EXCEPT ![q[1].key] = q[1].value]
                      /\ q[1].new <=> h[1 - 1][q[1].key] = Absent
  BY <1>2 DEF Chain
<1>5. q[1].src = d => /\ h[1] = [h[0] EXCEPT ![q[1].key] = q[1].value]
                      /\ q[1].new <=> h[0][q[1].key] = Absent
  BY <1>2, <1>4, Zenon
<1>6. ASSUME q[1].src # d, NEW k \in KeysOf(d) PROVE h[0][k] = h[1][k]
  <2>1. \A m \in (0 + 1)..1 : ~About(q, m, d, k)
    BY <1>2, <1>6 DEF About
  <2>2. \A i, j \in 0..Len(q) :
           i <= j /\ (\A m \in (i + 1)..j : ~About(q, m, d, k)) => h[i][k] = h[j][k]
    BY DEF Chain
  <2> QED
    BY <1>2, <2>1, <2>2
<1>7. q[1].src # d => h[1] = h[0]
  BY <1>3, <1>6
<1> QED
  BY <1>3, <1>5, <1>7

\* A directory that the queue does not tell of has not changed.
LEMMA ChainQuiet ==
    ASSUME NEW q \in Seq(Event), NEW d \in Tables, NEW x, NEW h, Chain(q, d, x, h),
           \A i \in DOMAIN q : q[i].src # d
    PROVE  h[0] = x /\ x \in [KeysOf(d) -> Value]
<1>1. Len(q) \in Nat /\ DOMAIN q = 1..Len(q)
  OBVIOUS
<1>2. 0 \in 0..Len(q) /\ Len(q) \in 0..Len(q) /\ 0 <= Len(q)
      /\ \A m \in (0 + 1)..Len(q) : m \in 1..Len(q)
  BY <1>1
<1>3. /\ h[0] \in [KeysOf(d) -> Value] /\ h[Len(q)] \in [KeysOf(d) -> Value]
      /\ h[Len(q)] = x
  BY <1>2 DEF Chain
<1>4. ASSUME NEW k \in KeysOf(d) PROVE h[0][k] = h[Len(q)][k]
  <2>1. \A m \in (0 + 1)..Len(q) : ~About(q, m, d, k)
    BY <1>1, <1>2 DEF About
  <2>2. \A i, j \in 0..Len(q) :
           i <= j /\ (\A m \in (i + 1)..j : ~About(q, m, d, k)) => h[i][k] = h[j][k]
    BY DEF Chain
  <2> QED
    BY <1>2, <2>1, <2>2
<1>5. h[0] = h[Len(q)]
  BY <1>3, <1>4
<1> QED
  BY <1>3, <1>5

LEMMA SetsShifts ==
    ASSUME NEW q \in Seq(Event), q # <<>>, NEW x, NEW a, Sets(q, x, a)
    PROVE  Sets(Tail(q), x, Shifted(Len(q), a)) /\ Shifted(Len(q), a)[0] = a[1]
<1> DEFINE n == Len(q)
           g == Shifted(n, a)
           r == Tail(q)
<1>1. /\ n \in Nat \ {0} /\ Len(r) = n - 1
      /\ \A i \in 1..(n - 1) : r[i] = q[i + 1]
  BY TailFields
<1>2. g = [i \in 0..(n - 1) |-> a[i + 1]]
  BY DEF Shifted
<1>3. /\ a \in [0..n -> SUBSET Plugin] /\ a[n] = x
      /\ \A i \in 1..n : q[i].src = "applied" => a[i] = q[i].value
      /\ \A i, j \in 0..n :
            i <= j /\ (\A m \in (i + 1)..j : q[m].src # "applied") => a[i] = a[j]
  BY DEF Sets
<1> HIDE DEF n, g, r
<1>4. \A i \in 0..(n - 1) : g[i] = a[i + 1] /\ i + 1 \in 1..n /\ i + 1 \in 0..n
  BY <1>1, <1>2
<1>5. g \in [0..(n - 1) -> SUBSET Plugin] /\ g[n - 1] = x
  BY <1>1, <1>2, <1>3, <1>4
<1>6. ASSUME NEW i \in 1..(n - 1), r[i].src = "applied"
      PROVE  g[i] = r[i].value
  <2>1. i + 1 \in 1..n /\ i \in 0..(n - 1)
    BY <1>1
  <2>2. g[i] = a[i + 1] /\ r[i] = q[i + 1]
    BY <1>1, <1>4, <2>1
  <2> QED
    BY <1>3, <1>6, <2>1, <2>2
<1>8. ASSUME NEW i \in 0..(n - 1), NEW j \in 0..(n - 1), i <= j,
             \A m \in (i + 1)..j : r[m].src # "applied"
      PROVE  g[i] = g[j]
  <2>1. \A m \in (i + 2)..(j + 1) : q[m].src # "applied"
    <3> TAKE m \in (i + 2)..(j + 1)
    <3>1. m - 1 \in (i + 1)..j /\ m - 1 \in 1..(n - 1) /\ (m - 1) + 1 = m
      BY <1>1, <1>8
    <3>2. r[m - 1] = q[m]
      BY <1>1, <3>1
    <3> QED
      BY <1>8, <3>1, <3>2
  <2>2. i + 1 \in 0..n /\ j + 1 \in 0..n /\ i + 1 <= j + 1 /\ (i + 1) + 1 = i + 2
    BY <1>1, <1>8
  <2>3. a[i + 1] = a[j + 1]
    BY <1>3, <2>1, <2>2
  <2> QED
    BY <1>4, <2>3
<1>10. 0 \in 0..(n - 1) /\ 0 + 1 = 1
  BY <1>1
<1>11. Sets(r, x, g)
  <2>1. Len(r) = n - 1
    BY <1>1
  <2>2. g \in [0..Len(r) -> SUBSET Plugin] /\ g[Len(r)] = x
    BY <1>5, <2>1
  <2>3. \A i \in 1..Len(r) : r[i].src = "applied" => g[i] = r[i].value
    BY <1>6, <2>1
  <2>4. \A i, j \in 0..Len(r) :
           i <= j /\ (\A m \in (i + 1)..j : r[m].src # "applied") => g[i] = g[j]
    BY <1>8, <2>1
  <2> QED
    BY <2>2, <2>3, <2>4, Zenon DEF Sets
<1>12. g[0] = a[1]
  BY <1>4, <1>10
<1> QED
  BY <1>11, <1>12 DEF g, r, n

LEMMA SetsGrows ==
    ASSUME NEW q \in Seq(Event), NEW x, NEW a, Sets(q, x, a),
           NEW E \in Seq(Event), E # <<>>, \A i \in 2..Len(E) : E[i].src # "applied",
           NEW y \in SUBSET Plugin,
           y = IF E[1].src = "applied" THEN E[1].value ELSE x
    PROVE  Sets(q \o E, y, Grown(Len(q), a, Len(E), y))
<1> DEFINE n == Len(q)
           c == Len(E)
           g == Grown(n, a, c, y)
           r == q \o E
<1>1. /\ n \in Nat /\ c \in Nat \ {0} /\ Len(r) = n + c
      /\ \A i \in 1..n : r[i] = q[i]
      /\ \A i \in (n + 1)..(n + c) : r[i] = E[i - n]
  BY AppendFields
<1>2. g = [i \in 0..(n + c) |-> IF i <= n THEN a[i] ELSE y]
  BY DEF Grown
<1>3. /\ a \in [0..n -> SUBSET Plugin] /\ a[n] = x
      /\ \A i \in 1..n : q[i].src = "applied" => a[i] = q[i].value
      /\ \A i, j \in 0..n :
            i <= j /\ (\A m \in (i + 1)..j : q[m].src # "applied") => a[i] = a[j]
  BY DEF Sets
<1>3c. \A i \in 2..c : E[i].src # "applied"
  OBVIOUS
<1> HIDE DEF n, g, r, c
<1>4. /\ \A i \in 0..n : g[i] = a[i] /\ i \in 0..(n + c)
      /\ \A i \in (n + 1)..(n + c) : g[i] = y /\ i \in 0..(n + c)
  BY <1>1, <1>2
<1>5. g \in [0..(n + c) -> SUBSET Plugin] /\ g[n + c] = y
  BY <1>1, <1>2, <1>3
<1>5a. \A i \in 0..(n + c) : i \in 0..n \/ i \in (n + 1)..(n + c)
  BY <1>1
<1>5b. n + 1 \in (n + 1)..(n + c) /\ (n + 1) - n = 1 /\ n \in 0..n
  BY <1>1
<1>5c. r[n + 1] = E[1]
  <2>1. r[n + 1] = E[(n + 1) - n]
    BY <1>1, <1>5b
  <2> QED
    BY <1>5b, <2>1, Zenon
<1>5d. \A i \in (n + 2)..(n + c) : r[i].src # "applied"
  <2> TAKE i \in (n + 2)..(n + c)
  <2>1. i \in (n + 1)..(n + c) /\ i - n \in 2..c
    BY <1>1
  <2> QED
    BY <1>1, <1>3c, <2>1
<1>6. ASSUME NEW i \in 1..(n + c), r[i].src = "applied"
      PROVE  g[i] = r[i].value
  <2>1. CASE i \in 1..n
    <3>1. g[i] = a[i] /\ r[i] = q[i]
      <4>1. i \in 0..n
        BY <2>1
      <4> QED
        BY <1>1, <1>4, <2>1, <4>1
    <3> QED
      BY <1>3, <1>6, <2>1, <3>1
  <2>2. CASE i = n + 1
    BY <1>4, <1>5b, <1>5c, <1>6, <2>2
  <2>3. CASE i \in (n + 2)..(n + c)
    BY <1>5d, <1>6, <2>3
  <2> QED
    BY <1>1, <2>1, <2>2, <2>3
<1>9. ASSUME NEW i \in 0..(n + c), NEW j \in 0..(n + c), i <= j,
             \A m \in (i + 1)..j : r[m].src # "applied"
      PROVE  g[i] = g[j]
  <2>1. CASE j \in 0..n
    <3>1. i \in 0..n /\ \A m \in (i + 1)..j : m \in 1..n /\ r[m] = q[m]
      BY <1>1, <1>9, <2>1
    <3>2. a[i] = a[j]
      BY <1>3, <1>9, <2>1, <3>1
    <3> QED
      BY <1>4, <2>1, <3>1, <3>2
  <2>2. CASE i \in 0..n /\ j \in (n + 1)..(n + c)
    <3>1. /\ i <= n /\ n + 1 \in (i + 1)..j
          /\ \A m \in (i + 1)..n : m \in 1..n /\ m \in (i + 1)..j /\ r[m] = q[m]
      BY <1>1, <2>2
    <3>2. a[i] = a[n]
      <4>1. \A m \in (i + 1)..n : q[m].src # "applied"
        BY <1>9, <3>1
      <4>2. i \in 0..n /\ n \in 0..n /\ i <= n
        BY <1>5b, <2>2, <3>1
      <4> QED
        BY <1>3, <4>1, <4>2
    <3>3. y = x
      BY <1>5c, <1>9, <3>1
    <3> QED
      BY <1>3, <1>4, <2>2, <3>2, <3>3
  <2>3. CASE i \in (n + 1)..(n + c)
    <3>1. j \in (n + 1)..(n + c)
      BY <1>1, <1>9, <2>3
    <3> QED
      BY <1>4, <2>3, <3>1
  <2> QED
    BY <1>5a, <2>1, <2>2, <2>3
<1>11. Sets(r, y, g)
  <2>1. Len(r) = n + c
    BY <1>1
  <2>2. g \in [0..Len(r) -> SUBSET Plugin] /\ g[Len(r)] = y
    BY <1>5, <2>1
  <2>3. \A i \in 1..Len(r) : r[i].src = "applied" => g[i] = r[i].value
    BY <1>6, <2>1
  <2>4. \A i, j \in 0..Len(r) :
           i <= j /\ (\A m \in (i + 1)..j : r[m].src # "applied") => g[i] = g[j]
    BY <1>9, <2>1
  <2> QED
    BY <2>2, <2>3, <2>4, Zenon DEF Sets
<1> QED
  BY <1>11 DEF g, r, n, c

LEMMA SetsSingle ==
    ASSUME NEW x \in SUBSET Plugin
    PROVE  Sets(<<>>, x, Single(x)) /\ Single(x)[0] = x
<1> DEFINE g == Single(x)
<1>1. g = [i \in 0..0 |-> x] /\ Len(<<>>) = 0 /\ 0 \in 0..0 /\ \A i \in 0..0 : i = 0
  BY DEF Single
<1> HIDE DEF g
<1>2. g[0] = x /\ g \in [0..0 -> SUBSET Plugin]
  BY <1>1
<1>3. Sets(<<>>, x, g)
  BY <1>1, <1>2 DEF Sets
<1> QED
  BY <1>2, <1>3 DEF g

LEMMA SetsHead ==
    ASSUME NEW q \in Seq(Event), q # <<>>, NEW x, NEW a, Sets(q, x, a)
    PROVE  /\ a[0] \in SUBSET Plugin /\ a[1] \in SUBSET Plugin
           /\ a[1] = IF q[1].src = "applied" THEN q[1].value ELSE a[0]
<1>1. Len(q) \in Nat \ {0}
  BY TailFields
<1>2. 0 \in 0..Len(q) /\ 1 \in 0..Len(q) /\ 1 \in 1..Len(q) /\ 0 <= 1
      /\ \A m \in (0 + 1)..1 : m = 1
  BY <1>1
<1>3. \A i, j \in 0..Len(q) :
        i <= j /\ (\A m \in (i + 1)..j : q[m].src # "applied") => a[i] = a[j]
  BY DEF Sets
<1>4. q[1].src # "applied" => a[0] = a[1]
  BY <1>2, <1>3
<1> QED
  BY <1>2, <1>4 DEF Sets

LEMMA SetsQuiet ==
    ASSUME NEW q \in Seq(Event), NEW x, NEW a, Sets(q, x, a),
           \A i \in DOMAIN q : q[i].src # "applied"
    PROVE  a[0] = x
<1>1. Len(q) \in Nat /\ DOMAIN q = 1..Len(q)
  OBVIOUS
<1>2. 0 \in 0..Len(q) /\ Len(q) \in 0..Len(q) /\ 0 <= Len(q)
      /\ \A m \in (0 + 1)..Len(q) : m \in 1..Len(q)
  BY <1>1
<1>3. \A i, j \in 0..Len(q) :
        i <= j /\ (\A m \in (i + 1)..j : q[m].src # "applied") => a[i] = a[j]
  BY DEF Sets
<1>4. a[0] = a[Len(q)]
  BY <1>1, <1>2, <1>3
<1> QED
  BY <1>4 DEF Sets

-----------------------------------------------------------------------------
(* The changes of the store while the proxy is on.                         *)

LEMMA ChangeTells ==
    ASSUME BootTypes, IsTables(st)', NEW E, IsChange(E), NEW d \in Tables
    PROVE  Told(E, d, st[d], st'[d]) /\ st'[d] \in [KeysOf(d) -> Value]
<1>1. \A i \in 2..Len(E) : E[i].src # d
  BY KeysFields DEF IsChange
<1>2. st'[d] \in [KeysOf(d) -> Value]
  BY DEF IsTables, Value
<1> QED
  BY <1>1, <1>2 DEF IsChange, Told

\* Until the watch is registered no event is queued, and the tables of the
\* directories that load has not read are empty.
WatchInv ==
    On /\ watch = "none" =>
        /\ evts = <<>>
        /\ \A d \in Tables : ~HasRead(d) => \A k \in KeysOf(d) : ~Has(d, k)

\* A change is queued, missed by a directory that has been read, or comes before
\* that of a directory that has not.
ChangeSeen(E) ==
    \/ watch = "on" /\ evts' = evts \o E
    \/ /\ watch # "on" /\ evts' = evts
       /\ \/ <<"missed", E[1].src>> \in flaws'
          \/ watch = "none" /\ evts = <<>> /\ ~HasRead(E[1].src)

LEMMA AdminTells ==
    ASSUME BootTypes, WatchInv, On, Administer
    PROVE  /\ IsTables(st)' /\ stApplied' \in SUBSET Plugin
           /\ UNCHANGED <<proxy, watch, tab, route, js, loader>>
           /\ flaws \subseteq flaws'
           /\ \E E \in Seq(Event) :
                 /\ IsChange(E) /\ ChangeSeen(E)
                 /\ E[1].src = "applied" /\ Stray' => <<"stray", "applied">> \in flaws'
<1>1. /\ IsTables(st)' /\ stApplied' \in SUBSET Plugin
      /\ \E E \in Seq(Event) : IsChange(E) /\ Changes(E)
  BY AdminSteps
<1>2. PICK E \in Seq(Event) : IsChange(E) /\ Changes(E)
  BY <1>1
<1>3. /\ UNCHANGED <<proxy, watch, tab, route, js, loader>>
      /\ evts' = IF watch = "on" THEN evts \o E ELSE evts
      /\ flaws' = flaws \union
            (IF ~On \/ watch = "on" THEN {} ELSE Missed(E)) \union
            (IF Applies(E) /\ Stray' THEN {<<"stray", "applied">>} ELSE {})
  BY <1>2, Zenon DEF Changes, tables
<1>4. 1 \in DOMAIN E
  BY <1>2 DEF IsChange
<1>5. E[1].src = "applied" => Applies(E)
  BY <1>4 DEF Applies
<1>6. watch = "broken" \/ HasRead(E[1].src) => <<"missed", E[1].src>> \in Missed(E)
  BY <1>4 DEF Missed
<1>7. E[1].src = "applied" /\ Stray' => <<"stray", "applied">> \in flaws'
  BY <1>3, <1>5
<1>8. ChangeSeen(E)
  BY <1>3, <1>6 DEF ChangeSeen, WatchInv, BootTypes
<1> QED
  BY <1>1, <1>2, <1>3, <1>7, <1>8

\* load has read the directories up to `at`.
LEMMA ReadIndex ==
    ASSUME BootTypes, NEW i \in 1..8
    PROVE  HasRead(Order[i]) <=> loader.at >= i
<1>1. loader.at \in 0..8 /\ \A j \in 1..loader.at : j \in 1..8
  BY LoaderFields
<1>2. \A j \in 1..8 : Order[i] = Order[j] => i = j
  BY OrderFields
<1>3. HasRead(Order[i]) <=> \E j \in 1..loader.at : Order[j] = Order[i]
  BY DEF HasRead
<1>4. (\E j \in 1..loader.at : Order[j] = Order[i]) => loader.at >= i
  BY <1>1, <1>2
<1>5. loader.at >= i => i \in 1..loader.at
  BY <1>1
<1> QED
  BY <1>3, <1>4, <1>5

LEMMA ReadGrows ==
    ASSUME BootTypes, loader'.at \in Nat, loader'.at >= loader.at, NEW d, HasRead(d)
    PROVE  HasRead(d)'
<1>1. loader.at \in 0..8
  BY LoaderFields
<1>2. PICK i \in 1..loader.at : Order[i] = d
  BY DEF HasRead
<1>3. i \in 1..loader'.at
  BY <1>1
<1> QED
  BY <1>2, <1>3 DEF HasRead

LEMMA WatchKept ==
    ASSUME BootTypes, WatchInv, [Next]_vars
    PROVE  WatchInv'
<1> SUFFICES ASSUME On', watch' = "none"
             PROVE  /\ evts' = <<>>
                    /\ \A d \in Tables : ~HasRead(d)' =>
                          \A k \in KeysOf(d) : tab'[d][k] = Absent
  BY DEF WatchInv, Has
<1>a. On /\ watch = "none" =>
        /\ evts = <<>>
        /\ \A d \in Tables : ~HasRead(d) => \A k \in KeysOf(d) : tab[d][k] = Absent
  BY DEF WatchInv, Has
<1>b. loader' = loader => \A d \in Tables : HasRead(d)' <=> HasRead(d)
  BY DEF HasRead
<1>1. CASE Administer
  <2>1. PICK E \in Seq(Event) : IsChange(E) /\ Changes(E)
    BY <1>1, AdminSteps
  <2>2. UNCHANGED <<proxy, watch, tab, loader>> /\ (watch # "on" => evts' = evts)
    BY <2>1, Zenon DEF Changes, tables
  <2> QED
    BY <1>a, <1>b, <2>2 DEF On
<1>2. CASE Start \/ Kill
  BY <1>2, FreshFields DEF Start, Kill
<1>3. CASE Register \/ WatchBreaks
  BY <1>3 DEF Register, WatchBreaks
<1>4. CASE Receive
  BY <1>a, <1>4, ReceiveFields DEF On
<1>5. CASE ReadDir \/ ReadFails
  <2>1. /\ On /\ loader'.at \in Nat /\ loader'.at >= loader.at
        /\ UNCHANGED <<watch, evts, tab>>
    BY <1>5, ReadSteps DEF tables
  <2>3. \A d \in Tables : HasRead(d) => HasRead(d)'
    BY <2>1, ReadGrows
  <2> QED
    BY <1>a, <2>1, <2>3
<1>6. CASE LoadObject
  <2>1. /\ On /\ loader'.at = loader.at /\ UNCHANGED <<watch, evts>>
        /\ \A e \in Tables : e # Dir => tab'[e] = tab[e]
        /\ loader.at \in 1..7 /\ Dir \in Tables
    BY <1>6, LoadObjectFields
  <2>2. HasRead(Dir)
    BY <2>1 DEF HasRead, Dir
  <2>3. \A d \in Tables : HasRead(d) => HasRead(d)'
    BY <2>1, ReadGrows
  <2> QED
    BY <1>a, <2>1, <2>2, <2>3
<1>7. CASE ReadBinds \/ LoadBind \/ LoadApplied
  <2>1. /\ On /\ loader'.at = loader.at /\ UNCHANGED <<watch, evts, tab>>
    BY <1>7, LoadBindsFields, LoadAppliedFields
  <2>2. loader.at \in 0..8
    BY LoaderFields
  <2>3. \A d \in Tables : HasRead(d) => HasRead(d)'
    BY <2>1, <2>2, ReadGrows
  <2> QED
    BY <1>a, <2>1, <2>3
<1>8. CASE UNCHANGED vars
  BY <1>a, <1>b, <1>8 DEF vars, tables, On
<1> QED
  BY <1>1, <1>2, <1>3, <1>4, <1>5, <1>6, <1>7, <1>8 DEF Next, Load

-----------------------------------------------------------------------------
(* The plugins.                                                            *)

\* The applied plugins are in the table, and in the engine if that could be built.
EngineInv ==
    On /\ applied # Nil =>
        \A p \in Plugin : /\ built = TRUE => (engine[p] # Absent <=> p \in applied)
                          /\ p \in applied => Has("plugins", p)

\* The table of plugins that an event leaves.
LEMMA PluginsReceived ==
    ASSUME BootTypes, NEW e \in Event, e.src = "plugins",
           tab'["plugins"] = Received("plugins", e)
    PROVE  \A p \in Plugin :
              Has("plugins", p)' <=> IF p = e.key
                                     THEN e.value # Absent /\ (e.new \/ Has("plugins", p))
                                     ELSE Has("plugins", p)
<1>1. /\ e.key \in Plugin /\ e.new \in BOOLEAN /\ (e.new => e.value # Absent)
      /\ tab["plugins"] \in [Plugin -> Value]
  <2>1. "plugins" \in Tables /\ KeysOf("plugins") = Plugin
    BY KeysFields
  <2>2. e.key \in Plugin /\ e.new \in BOOLEAN /\ (e.new => e.value # Absent)
    BY <2>1, EventFields
  <2>3. tab["plugins"] \in [Plugin -> Value]
    BY <2>1 DEF BootTypes, IsTables, Value
  <2> QED
    BY <2>2, <2>3
<1> SUFFICES ASSUME NEW p \in Plugin
             PROVE  tab'["plugins"][p] # Absent <=>
                       IF p = e.key THEN e.value # Absent /\ (e.new \/ tab["plugins"][p] # Absent)
                       ELSE tab["plugins"][p] # Absent
  BY Zenon DEF Has
<1>2. CASE e.new
  BY <1>1, <1>2 DEF Received, Added, Has
<1>3. CASE ~e.new /\ e.value = Absent
  BY <1>1, <1>3 DEF Received
<1>4. CASE ~e.new /\ e.value # Absent
  BY <1>1, <1>4 DEF Received, Updated, Has
<1> QED
  BY <1>1, <1>2, <1>3, <1>4

\* An addition by load.
LEMMA PluginsAdded ==
    ASSUME BootTypes, NEW k \in Plugin, NEW v \in Version,
           tab'["plugins"] = Added("plugins", k, v)
    PROVE  \A p \in Plugin : Has("plugins", p)' <=> p = k \/ Has("plugins", p)
<1>1. tab["plugins"] \in [Plugin -> Value] /\ v # Absent
  BY KeysFields DEF BootTypes, IsTables, Value
<1> QED
  BY <1>1 DEF Added, Has

\* An engine that is built for plugins of the table.
LEMMA EngineBuilt ==
    ASSUME NEW S \in SUBSET Plugin, \A p \in S : Has("plugins", p), NEW p \in Plugin
    PROVE  Engine(S)[p] # Absent <=> p \in S
  BY DEF Engine, Has

LEMMA EngineKept ==
    ASSUME BootTypes, EngineInv, [Next]_vars
    PROVE  EngineInv'
<1> SUFFICES ASSUME On', applied' # Nil, NEW p \in Plugin
             PROVE  /\ built' = TRUE => (engine'[p] # Absent <=> p \in applied')
                    /\ p \in applied' => Has("plugins", p)'
  BY DEF EngineInv, Nil
<1>a. On /\ applied # Nil => /\ built = TRUE => (engine[p] # Absent <=> p \in applied)
                             /\ p \in applied => Has("plugins", p)
  BY DEF EngineInv
<1>b. tab'["plugins"] = tab["plugins"] => (Has("plugins", p)' <=> Has("plugins", p))
  BY DEF Has
<1>c. "plugins" \in Tables /\ KeysOf("plugins") = Plugin
  BY KeysFields
<1>d. applied \in SUBSET Plugin \/ applied = Nil
  BY DEF BootTypes
<1>1. CASE Administer
  <2>1. PICK E \in Seq(Event) : IsChange(E) /\ Changes(E)
    BY <1>1, AdminSteps
  <2>2. UNCHANGED <<proxy, applied, engine, built, tab>>
    BY <2>1, Zenon DEF Changes, tables
  <2> QED
    BY <1>a, <1>b, <2>2 DEF On
<1>2. CASE Start \/ Kill
  BY <1>2, FreshFields DEF Start, Kill
<1>3. CASE Register \/ WatchBreaks \/ ReadDir \/ ReadFails
  <2>1. UNCHANGED <<proxy, applied, engine, built, tab>>
    BY <1>3, ReadSteps DEF Register, WatchBreaks, tables
  <2> QED
    BY <1>a, <1>b, <2>1 DEF On
<1>4. CASE Receive
  <2> DEFINE e == evts[1]
  <2>1. /\ On /\ e \in Event /\ \A d \in Tables : d # e.src => tab'[d] = tab[d]
        /\ Stopped(e) \/ Handled(e)
    BY <1>4, ReceiveFields
  <2> HIDE DEF e
  <2>2. Handled(e)
    BY <2>1 DEF Stopped, Asserts, On
  <2>3. CASE e.src = "applied" /\ \A s \in e.value : Has("plugins", s)
    <3>1. /\ applied' = e.value /\ e.value \in SUBSET Plugin
          /\ built' = TRUE => engine' = Engine(e.value)
      BY <2>1, <2>2, <2>3, EventFields DEF Handled
    <3>2. tab'["plugins"] = tab["plugins"]
      BY <1>c, <2>1, <2>3
    <3>3. Engine(e.value)[p] # Absent <=> p \in e.value
      BY <2>3, <3>1, EngineBuilt
    <3> QED
      BY <1>b, <2>3, <3>1, <3>2, <3>3
  <2>4. CASE ~(e.src = "applied" /\ \A s \in e.value : Has("plugins", s))
    <3>1. /\ applied' = applied
          /\ UNCHANGED <<engine, built>> \/ engine' = Engine(applied)
      BY <2>2, <2>4 DEF Handled
    <3>2. applied \in SUBSET Plugin /\ \A s \in applied : Has("plugins", s)
      BY <1>d, <2>1, <3>1 DEF EngineInv
    <3>3. Engine(applied)[p] # Absent <=> p \in applied
      BY <3>2, EngineBuilt
    <3>4. p \in applied => Has("plugins", p)'
      <4>1. CASE e.src # "plugins"
        BY <1>b, <1>c, <2>1, <3>2, <4>1
      <4>2. CASE e.src = "plugins"
        <5>1. tab'["plugins"] = Received("plugins", e)
          BY <1>c, <2>2, <4>2 DEF Handled
        <5>2. Has("plugins", p)' <=>
                 IF p = e.key THEN e.value # Absent /\ (e.new \/ Has("plugins", p))
                 ELSE Has("plugins", p)
          BY <2>1, <4>2, <5>1, PluginsReceived
        <5>3. e.value = Absent /\ Has("plugins", e.key) => e.key \notin applied
          BY <2>2, <4>2 DEF Handled
        <5> QED
          BY <3>2, <5>2, <5>3
      <4> QED
        BY <4>1, <4>2
    <3> QED
      BY <1>a, <2>1, <3>1, <3>3, <3>4
  <2> QED
    BY <2>3, <2>4
<1>5. CASE LoadObject
  <2>1. /\ On /\ UNCHANGED <<applied, engine, built>>
        /\ \A e \in Tables : e # Dir => tab'[e] = tab[e]
    BY <1>5, LoadObjectFields
  <2>2. Has("plugins", p) => Has("plugins", p)'
    <3>1. CASE Dir # "plugins"
      BY <1>b, <1>c, <2>1, <3>1
    <3>2. CASE Dir = "plugins"
      <4>1. \E x \in loader.todo :
               /\ x \in Plugin \X Version
               /\ tab'["plugins"] = Added("plugins", x[1], x[2])
        BY <1>5, <1>c, <3>2, LoadObjectFields
      <4>2. \E k \in Plugin, v \in Version : tab'["plugins"] = Added("plugins", k, v)
        BY <4>1
      <4> QED
        BY <4>2, PluginsAdded
    <3> QED
      BY <3>1, <3>2
  <2> QED
    BY <1>a, <2>1, <2>2
<1>6. CASE ReadBinds \/ LoadBind
  <2>1. On /\ UNCHANGED <<tab, applied, engine, built>>
    BY <1>6, LoadBindsFields
  <2> QED
    BY <1>a, <1>b, <2>1
<1>7. CASE LoadApplied
  <2>1. On /\ tab' = tab
    BY <1>7, LoadAppliedFields
  <2>2. PICK S \in SUBSET Plugin :
           IF \A s \in S : Has("plugins", s)
           THEN applied' = S /\ (built' = TRUE => engine' = Engine(S))
           ELSE UNCHANGED <<applied, engine, built>>
    BY <1>7, LoadAppliedFields
  <2>3. CASE \A s \in S : Has("plugins", s)
    <3>1. Engine(S)[p] # Absent <=> p \in S
      BY <2>3, EngineBuilt
    <3> QED
      BY <1>b, <2>1, <2>2, <2>3, <3>1
  <2>4. CASE ~\A s \in S : Has("plugins", s)
    BY <1>a, <1>b, <2>1, <2>2, <2>4
  <2> QED
    BY <2>3, <2>4
<1>8. CASE UNCHANGED vars
  BY <1>a, <1>b, <1>8 DEF vars, tables, On
<1> QED
  BY <1>1, <1>2, <1>3, <1>4, <1>5, <1>6, <1>7, <1>8 DEF Next, Load

\* No flaw concerns the plugins.
Clean == \A f \in flaws : f[2] \notin {"plugins", "applied"}

\* load has read the object k and has it to add.
Listing(k) == \E x \in loader.todo : x[1] = k

\* Of what the directory of plugins held before the queued events, p, the table
\* has what load has not left to read or to add; and s was applied.
PluginsAt(p, s) ==
    /\ loader.at < 7 => \A k \in Plugin : Has("plugins", k) => p[k] # Absent
    /\ loader.at = 7 => \A k \in Plugin :
          IF k \in loader.rest THEN Has("plugins", k) => p[k] # Absent
          ELSE p[k] # Absent <=> Has("plugins", k) \/ Listing(k)
    /\ loader.at = 8 => \A k \in Plugin : p[k] # Absent <=> Has("plugins", k)
    /\ loader.at = 8 => IF loader.todo = {} THEN applied = s ELSE loader.todo = {s}

\* At no time of the history h a plugin is applied, by a, that did not exist.
Backed(q, h, a) == \A i \in 0..Len(q) : \A p \in a[i] : h[i][p] # Absent

PluginsInv ==
    On /\ Clean =>
        \E h, a : /\ Chain(evts, "plugins", st["plugins"], h)
                  /\ Sets(evts, stApplied, a)
                  /\ Backed(evts, h, a) /\ PluginsAt(h[0], a[0])

LEMMA CleanGrows ==
    ASSUME flaws \subseteq flaws', Clean' PROVE Clean
  BY DEF Clean

LEMMA BackedShifts ==
    ASSUME NEW q \in Seq(Event), q # <<>>, NEW h, NEW a, Backed(q, h, a)
    PROVE  Backed(Tail(q), Shifted(Len(q), h), Shifted(Len(q), a))
<1>1. Len(q) \in Nat \ {0} /\ Len(Tail(q)) = Len(q) - 1
  BY TailFields
<1>2. \A i \in 0..(Len(q) - 1) :
         /\ Shifted(Len(q), h)[i] = h[i + 1] /\ Shifted(Len(q), a)[i] = a[i + 1]
         /\ i + 1 \in 0..Len(q)
  BY <1>1 DEF Shifted
<1> QED
  BY <1>1, <1>2 DEF Backed

LEMMA GrownFirst ==
    ASSUME NEW n \in Nat, NEW m \in Nat, NEW h, NEW x
    PROVE  Grown(n, h, m, x)[0] = h[0]
<1>1. 0 \in 0..(n + m) /\ 0 <= n
  OBVIOUS
<1> QED
  BY <1>1 DEF Grown

LEMMA BackedGrows ==
    ASSUME NEW q \in Seq(Event), NEW h, NEW a, Backed(q, h, a),
           NEW E \in Seq(Event), E # <<>>, NEW x, NEW s, \A p \in s : x[p] # Absent
    PROVE  Backed(q \o E, Grown(Len(q), h, Len(E), x), Grown(Len(q), a, Len(E), s))
<1>1. Len(q) \in Nat /\ Len(E) \in Nat \ {0} /\ Len(q \o E) = Len(q) + Len(E)
  BY AppendFields
<1> DEFINE n == Len(q)
           c == Len(E)
           g == Grown(n, h, c, x)
           b == Grown(n, a, c, s)
<1> HIDE DEF n, c
<1>2. \A i \in 0..(n + c) :
         /\ g[i] = IF i <= n THEN h[i] ELSE x
         /\ b[i] = IF i <= n THEN a[i] ELSE s
  BY DEF Grown
<1> HIDE DEF g, b
<1>5. ASSUME NEW i \in 0..(n + c), NEW p \in b[i] PROVE g[i][p] # Absent
  <2>1. CASE i <= n
    <3>1. i \in 0..Len(q)
      BY <1>1, <2>1 DEF n, c
    <3> QED
      BY <1>2, <1>5, <2>1, <3>1 DEF Backed
  <2>2. CASE ~(i <= n)
    BY <1>2, <1>5, <2>2
  <2> QED
    BY <2>1, <2>2
<1>6. Backed(q \o E, g, b)
  BY <1>1, <1>5 DEF Backed, n, c
<1> QED
  BY <1>6 DEF g, b, n, c

\* A change of the store leaves the applied plugins in it.
LEMMA StoreBacked ==
    ASSUME BootTypes, NEW E, IsChange(E), stApplied' \in SUBSET Plugin,
           \A p \in stApplied : st["plugins"][p] # Absent,
           E[1].src = "applied" => ~Stray'
    PROVE  \A p \in stApplied' : st'["plugins"][p] # Absent
<1>1. /\ "plugins" \in Tables /\ st["plugins"] \in [Plugin -> Value]
  BY KeysFields DEF BootTypes, IsTables, Value
<1>2. CASE E[1].src = "applied"
  BY <1>2 DEF Stray
<1>3. CASE E[1].src = "plugins"
  <2>1. /\ st'["plugins"] = [st["plugins"] EXCEPT ![E[1].key] = E[1].value]
        /\ stApplied' = stApplied
        /\ E[1].value = Absent => E[1].key \notin stApplied
    BY <1>1, <1>3 DEF IsChange
  <2>2. stApplied \subseteq Plugin
    BY DEF BootTypes
  <2> QED
    BY <1>1, <2>1, <2>2
<1>4. CASE E[1].src \notin {"applied", "plugins"}
  BY <1>1, <1>4 DEF IsChange
<1> QED
  BY <1>2, <1>3, <1>4

\* What PluginsInv says of the last state of the history.
LEMMA LastBacked ==
    ASSUME BootTypes, NEW h, NEW a, Chain(evts, "plugins", st["plugins"], h),
           Sets(evts, stApplied, a), Backed(evts, h, a)
    PROVE  \A p \in stApplied : st["plugins"][p] # Absent
<1>1. Len(evts) \in Nat
  BY DEF BootTypes
<1>2. Len(evts) \in 0..Len(evts)
  BY <1>1
<1> QED
  BY <1>2 DEF Chain, Sets, Backed

LEMMA PluginsAdmin ==
    ASSUME BootTypes, WatchInv, On, Clean', Administer,
           NEW h, NEW a, Chain(evts, "plugins", st["plugins"], h),
           Sets(evts, stApplied, a), Backed(evts, h, a), PluginsAt(h[0], a[0])
    PROVE  \E g, b : /\ Chain(evts', "plugins", st'["plugins"], g)
                     /\ Sets(evts', stApplied', b)
                     /\ Backed(evts', g, b) /\ PluginsAt(g[0], b[0])'
<1>1. /\ IsTables(st)' /\ stApplied' \in SUBSET Plugin
      /\ UNCHANGED <<proxy, watch, tab, applied, loader>>
  BY AdminTells
<1>2. PICK E \in Seq(Event) :
         /\ IsChange(E) /\ ChangeSeen(E)
         /\ E[1].src = "applied" /\ Stray' => <<"stray", "applied">> \in flaws'
  BY AdminTells
<1>3. E[1].src = "applied" => ~Stray'
  <2>1. <<"stray", "applied">> \notin flaws'
    BY DEF Clean
  <2> QED
    BY <1>2, <2>1
<1>4. \A p \in stApplied' : st'["plugins"][p] # Absent
  <2>1. \A p \in stApplied : st["plugins"][p] # Absent
    BY LastBacked
  <2> QED
    BY <1>1, <1>2, <1>3, <2>1, StoreBacked
<1>a. evts \in Seq(Event) /\ E # <<>> /\ "plugins" \in Tables
  BY <1>2, KeysFields DEF BootTypes, IsChange
<1>b. /\ Told(E, "plugins", st["plugins"], st'["plugins"])
      /\ st'["plugins"] \in [KeysOf("plugins") -> Value]
  BY <1>1, <1>2, <1>a, ChangeTells
<1>c. ASSUME NEW p, NEW s, PluginsAt(p, s) PROVE PluginsAt(p, s)'
  <2>1. \A k \in Plugin : Has("plugins", k)' <=> Has("plugins", k)
    BY <1>1 DEF Has
  <2> QED
    BY <1>1, <1>c, <2>1 DEF PluginsAt, Listing
<1>5. CASE watch = "on"
  <2>1. evts' = evts \o E
    BY <1>2, <1>5 DEF ChangeSeen
  <2> DEFINE g == Grown(Len(evts), h, Len(E), st'["plugins"])
             b == Grown(Len(evts), a, Len(E), stApplied')
  <2>2. Chain(evts \o E, "plugins", st'["plugins"], g)
    BY <1>a, <1>b, ChainGrows
  <2>3. Sets(evts \o E, stApplied', b)
    <3>1. /\ \A i \in 2..Len(E) : E[i].src # "applied"
          /\ stApplied' = IF E[1].src = "applied" THEN E[1].value ELSE stApplied
      BY <1>2 DEF IsChange
    <3> QED
      BY <1>1, <1>a, <3>1, SetsGrows
  <2>4. Backed(evts \o E, g, b) /\ g[0] = h[0] /\ b[0] = a[0]
    <3>1. Len(evts) \in Nat /\ Len(E) \in Nat
      BY <1>a
    <3>2. g[0] = h[0] /\ b[0] = a[0]
      BY <3>1, GrownFirst
    <3>3. Backed(evts \o E, g, b)
      BY <1>4, <1>a, BackedGrows
    <3> QED
      BY <3>2, <3>3
  <2> HIDE DEF g, b
  <2>5. PluginsAt(g[0], b[0])
    BY <2>4
  <2>6. ASSUME NEW G, NEW B, G = g, B = b PROVE PluginsAt(G[0], B[0])'
    BY <1>c, <2>5, <2>6
  <2> QED
    BY <2>1, <2>2, <2>3, <2>4, <2>6, Zenon
<1>6. CASE watch # "on" /\ E[1].src \notin {"plugins", "applied"}
  <2>1. evts' = evts /\ st'["plugins"] = st["plugins"] /\ stApplied' = stApplied
    BY <1>2, <1>6, <1>a DEF ChangeSeen, IsChange
  <2>2. PluginsAt(h[0], a[0])'
    BY <1>c
  <2> QED
    BY <2>1, <2>2, Zenon
<1>7. CASE watch # "on" /\ E[1].src \in {"plugins", "applied"}
  <2>1. /\ watch = "none" /\ evts = <<>> /\ evts' = <<>> /\ ~HasRead(E[1].src)
    <3>1. <<"missed", E[1].src>> \notin flaws'
      BY <1>7 DEF Clean
    <3> QED
      BY <1>2, <1>7, <3>1 DEF ChangeSeen
  <2> DEFINE x == st'["plugins"]
  <2>2. Chain(<<>>, "plugins", x, Single(x)) /\ Single(x)[0] = x
    BY <1>a, <1>b, ChainSingle
  <2>3. Sets(<<>>, stApplied', Single(stApplied')) /\ Single(stApplied')[0] = stApplied'
    BY <1>1, SetsSingle
  <2>4. Backed(<<>>, Single(x), Single(stApplied'))
    <3>1. \A i \in 0..Len(<<>>) : i = 0
      OBVIOUS
    <3> QED
      BY <1>4, <2>2, <2>3, <3>1 DEF Backed
  <2>5. PluginsAt(x, stApplied')
    <3>a. Order[7] = "plugins" /\ Order[8] = "applied" /\ 7 \in 1..8 /\ 8 \in 1..8
      BY DEF Order
    <3>b. loader.at \in 0..8
      BY LoaderFields
    <3>1. CASE E[1].src = "plugins"
      <4>1. loader.at < 7
        <5>1. ~HasRead(Order[7])
          BY <2>1, <3>a, <3>1
        <5> QED
          BY <3>a, <3>b, <5>1, ReadIndex
      <4>2. \A k \in Plugin : ~Has("plugins", k)
        BY <1>a, <2>1, <3>1, KeysFields DEF WatchInv
      <4> QED
        BY <3>b, <4>1, <4>2 DEF PluginsAt
    <3>2. CASE E[1].src = "applied"
      <4>1. loader.at < 8
        <5>1. ~HasRead(Order[8])
          BY <2>1, <3>a, <3>2
        <5> QED
          BY <3>a, <3>b, <5>1, ReadIndex
      <4>2. x = st["plugins"]
        BY <1>2, <1>a, <3>2 DEF IsChange
      <4>3. h[0] = st["plugins"]
        BY <2>1 DEF Chain
      <4> QED
        BY <3>b, <4>1, <4>2, <4>3 DEF PluginsAt
    <3> QED
      BY <1>7, <3>1, <3>2
  <2>6. ASSUME NEW y, NEW s, y = x, s = stApplied' PROVE PluginsAt(y, s)'
    <3>1. PluginsAt(y, s)
      BY <2>5, <2>6
    <3> QED
      BY <1>c, <3>1
  <2>7. ASSUME NEW g, NEW b, g = Single(x), b = Single(stApplied')
        PROVE  PluginsAt(g[0], b[0])'
    BY <2>2, <2>3, <2>6, <2>7
  <2> HIDE DEF x
  <2> QED
    BY <2>1, <2>2, <2>3, <2>4, <2>7, Zenon DEF x
<1> QED
  BY <1>5, <1>6, <1>7

\* An event is handled.
LEMMA PluginsReceive ==
    ASSUME BootTypes, On', Clean', Receive,
           NEW h, NEW a, Chain(evts, "plugins", st["plugins"], h),
           Sets(evts, stApplied, a), Backed(evts, h, a), PluginsAt(h[0], a[0])
    PROVE  PluginsAt(h[1], a[1])'
<1> DEFINE e == evts[1]
<1>1. /\ evts \in Seq(Event) /\ evts # <<>> /\ e \in Event /\ loader' = loader
      /\ \A d \in Tables : d # e.src => tab'[d] = tab[d]
      /\ Stopped(e) \/ Handled(e)
      /\ flaws' = IF Crosses(e) THEN flaws \union {<<"crossed", e.src>>} ELSE flaws
  BY ReceiveFields DEF BootTypes
<1>2. Handled(e)
  BY <1>1 DEF Stopped, Asserts, On
<1>3. /\ h[0] \in [Plugin -> Value] /\ h[1] \in [Plugin -> Value]
      /\ e.src = "plugins" => /\ h[1] = [h[0] EXCEPT ![e.key] = e.value]
                              /\ e.new <=> h[0][e.key] = Absent
      /\ e.src # "plugins" => h[1] = h[0]
  BY <1>1, ChainHead, KeysFields
<1>4. /\ a[0] \in SUBSET Plugin /\ a[1] \in SUBSET Plugin
      /\ a[1] = IF e.src = "applied" THEN e.value ELSE a[0]
  BY <1>1, SetsHead
<1>5. \A p \in a[1] : h[1][p] # Absent
  <2>1. 1 \in 0..Len(evts)
    BY <1>1
  <2> QED
    BY <2>1 DEF Backed
<1>6. /\ loader.at \in 0..8
      /\ loader.at = 7 => Dir = "plugins"
      /\ loader.at = 8 => Dir = "applied"
  BY LoaderFields
<1> HIDE DEF e
<1>7. "plugins" \in Tables /\ KeysOf("plugins") = Plugin
  BY KeysFields
<1>8. /\ e.src = "plugins" /\ loader.at = 7 => ~Listing(e.key)
      /\ e.src = "applied" /\ loader.at = 8 => loader.todo = {}
  <2>1. e.src \in {"plugins", "applied"} => <<"crossed", e.src>> \notin flaws'
    BY DEF Clean
  <2>2. e.src \in {"plugins", "applied"} => ~Crosses(e)
    BY <1>1, <2>1
  <2>3. "applied" \notin Tables /\ "plugins" # "apis"
    BY KeysFields
  <2> QED
    BY <1>6, <2>2, <2>3 DEF Crosses, Idle, Listing
<1>9. CASE e.src = "plugins"
  <2>1. tab'["plugins"] = Received("plugins", e)
    BY <1>2, <1>7, <1>9 DEF Handled
  <2>2. \A p \in Plugin :
          Has("plugins", p)' <=> IF p = e.key
                                 THEN e.value # Absent /\ (e.new \/ Has("plugins", p))
                                 ELSE Has("plugins", p)
    BY <1>1, <1>9, <2>1, PluginsReceived
  <2>3. /\ e.key \in Plugin /\ (e.new => e.value # Absent) /\ e.new \in BOOLEAN
    BY <1>1, <1>7, <1>9, EventFields DEF Value
  <2>4. \A p \in Plugin : h[1][p] = IF p = e.key THEN e.value ELSE h[0][p]
    BY <1>3, <1>9, <2>3
  <2>5. applied' = applied /\ a[1] = a[0] /\ (e.new <=> h[0][e.key] = Absent)
    BY <1>2, <1>3, <1>4, <1>9 DEF Handled
  <2>6. loader.at < 7 => \A k \in Plugin : Has("plugins", k)' => h[1][k] # Absent
    BY <2>2, <2>4 DEF PluginsAt
  <2>7. loader.at = 8 => \A k \in Plugin : h[1][k] # Absent <=> Has("plugins", k)'
    <3>1. loader.at = 8 => \A k \in Plugin : h[0][k] # Absent <=> Has("plugins", k)
      BY DEF PluginsAt
    <3> QED
      BY <2>2, <2>3, <2>4, <2>5, <3>1
  <2>8. ASSUME loader.at = 7, NEW k \in Plugin
        PROVE  IF k \in loader.rest THEN Has("plugins", k)' => h[1][k] # Absent
               ELSE h[1][k] # Absent <=> Has("plugins", k)' \/ Listing(k)
    <3>1. IF k \in loader.rest THEN Has("plugins", k) => h[0][k] # Absent
          ELSE h[0][k] # Absent <=> Has("plugins", k) \/ Listing(k)
      BY <2>8 DEF PluginsAt
    <3>2. CASE k # e.key
      BY <2>2, <2>4, <3>1, <3>2
    <3>3. CASE k = e.key
      <4>1. ~Listing(k)
        BY <1>8, <1>9, <2>8, <3>3
      <4>2. h[1][k] = e.value /\ (e.new <=> h[0][k] = Absent)
        BY <2>4, <2>5, <3>3
      <4>3. Has("plugins", k)' <=> e.value # Absent /\ (e.new \/ Has("plugins", k))
        BY <2>2, <3>3
      <4> QED
        BY <3>1, <4>1, <4>2, <4>3
    <3> QED
      BY <3>2, <3>3
  <2>9. \A k : Listing(k)' <=> Listing(k)
    BY <1>1 DEF Listing
  <2>10. loader.at = 8 => IF loader.todo = {} THEN applied' = a[1] ELSE loader.todo = {a[1]}
    BY <2>5 DEF PluginsAt
  <2> QED
    BY <1>1, <2>6, <2>7, <2>8, <2>9, <2>10 DEF PluginsAt
<1>10. CASE e.src = "applied"
  <2>1. h[1] = h[0] /\ a[1] = e.value
    BY <1>3, <1>4, <1>10
  <2>2. \A k \in Plugin : Has("plugins", k)' <=> Has("plugins", k)
    BY <1>1, <1>7, <1>10 DEF Has
  <2>3. loader.at = 8 => loader.todo = {} /\ applied' = e.value
    <3> SUFFICES ASSUME loader.at = 8 PROVE loader.todo = {} /\ applied' = e.value
      OBVIOUS
    <3>1. loader.todo = {}
      BY <1>8, <1>10
    <3>2. \A p \in e.value : Has("plugins", p)
      BY <1>4, <1>5, <2>1 DEF PluginsAt
    <3> QED
      BY <1>2, <1>10, <3>1, <3>2 DEF Handled
  <2> QED
    BY <1>1, <2>1, <2>2, <2>3 DEF PluginsAt, Listing
<1>11. CASE e.src \notin {"plugins", "applied"}
  <2>1. h[1] = h[0] /\ a[1] = a[0] /\ applied' = applied
    BY <1>2, <1>3, <1>4, <1>11 DEF Handled
  <2>2. \A k \in Plugin : Has("plugins", k)' <=> Has("plugins", k)
    BY <1>1, <1>7, <1>11 DEF Has
  <2> QED
    BY <1>1, <2>1, <2>2 DEF PluginsAt, Listing
<1> QED
  BY <1>9, <1>10, <1>11

\* The directories of plugins are read.
LEMMA PluginsRead ==
    ASSUME BootTypes, Clean', ReadDir \/ ReadFails,
           NEW h, NEW a, Chain(evts, "plugins", st["plugins"], h),
           Sets(evts, stApplied, a), PluginsAt(h[0], a[0])
    PROVE  PluginsAt(h[0], a[0])'
<1>1. PICK n \in 1..8 :
         /\ loader'.at = n /\ (n = loader.at \/ n = loader.at + 1)
         /\ \/ /\ ReadAt(n)
               /\ (\E i \in DOMAIN evts : evts[i].src = Order[n]) =>
                      <<"lagged", Order[n]>> \in flaws'
            \/ <<"missed", Order[n]>> \in flaws'
  <2>1. CASE ReadDir
    <3>1. PICK n \in 1..8 :
             /\ ReadAt(n)
             /\ flaws' = IF \E i \in DOMAIN evts : evts[i].src = Order[n]
                         THEN flaws \union {<<"lagged", Order[n]>>} ELSE flaws
      BY <2>1, ReadFields
    <3>2. loader'.at = n /\ (n = loader.at \/ n = loader.at + 1)
      BY <3>1 DEF ReadAt
    <3> QED
      BY <3>1, <3>2
  <2>2. CASE ReadFails
    BY <2>2, ReadFailsFields
  <2> QED
    BY <2>1, <2>2
<1>2. loader.at \in 0..8 /\ UNCHANGED <<tab, applied>>
  BY LoaderFields, ReadSteps DEF tables
<1>3. \A k \in Plugin : Has("plugins", k)' <=> Has("plugins", k)
  BY <1>2 DEF Has
<1>a. evts \in Seq(Event) /\ "plugins" \in Tables /\ KeysOf("plugins") = Plugin
  BY KeysFields DEF BootTypes
<1>b. Order[7] = "plugins" /\ Order[8] = "applied" /\ "applied" \notin Tables
  BY KeysFields DEF Order
<1>4. CASE n < 7
  <2>1. loader.at < 7
    BY <1>1, <1>2, <1>4
  <2> QED
    BY <1>1, <1>2, <1>3, <1>4, <2>1 DEF PluginsAt
<1>5. ASSUME n \in {7, 8}
      PROVE  ReadAt(n) /\ \A j \in DOMAIN evts : evts[j].src # Order[n]
  <2>1. Order[n] \in {"plugins", "applied"}
    BY <1>b, <1>5
  <2>2. <<"missed", Order[n]>> \notin flaws' /\ <<"lagged", Order[n]>> \notin flaws'
    BY <2>1 DEF Clean
  <2> QED
    BY <1>1, <2>2
<1>6. CASE n = 7
  <2>1. h[0] = st["plugins"]
    BY <1>5, <1>6, <1>a, <1>b, ChainQuiet
  <2>2. /\ loader'.at = 7 /\ loader.todo = {}
        /\ (loader.at = 6 \/ loader.at = 7)
        /\ loader'.rest \subseteq Ahead(7)
        /\ loader'.todo = Stored("plugins", Ahead(7) \ loader'.rest)
    <3>1. ReadAt(7) /\ Order[7] = "plugins" /\ "plugins" \in Tables
      BY <1>5, <1>6, <1>a, <1>b
    <3>2. /\ loader'.rest \subseteq Ahead(7)
          /\ loader'.todo = Stored("plugins", Ahead(7) \ loader'.rest)
      BY <3>1, Zenon DEF ReadAt
    <3>3. loader'.at = 7 /\ loader.todo = {} /\ (7 = loader.at + 1 \/ 7 = loader.at)
      BY <3>1, Zenon DEF ReadAt
    <3> QED
      BY <1>2, <3>2, <3>3
  <2>3. ASSUME NEW k \in Plugin
        PROVE  Listing(k)' <=> /\ k \in Ahead(7) /\ k \notin loader'.rest
                               /\ st["plugins"][k] # Absent
    <3> DEFINE A == Ahead(7) \ loader'.rest
    <3>1. ASSUME k \in A, st["plugins"][k] # Absent PROVE \E x \in Stored("plugins", A) : x[1] = k
      <4>1. <<k, st["plugins"][k]>> \in Stored("plugins", A)
        BY <3>1 DEF Stored
      <4>2. <<k, st["plugins"][k]>>[1] = k
        OBVIOUS
      <4> QED
        BY <4>1, <4>2
    <3>2. ASSUME NEW x \in Stored("plugins", A), x[1] = k
          PROVE  k \in A /\ st["plugins"][k] # Absent
      <4>1. PICK j \in A : st["plugins"][j] # Absent /\ x = <<j, st["plugins"][j]>>
        BY DEF Stored
      <4> QED
        BY <3>2, <4>1
    <3> HIDE DEF A
    <3>3. Listing(k)' <=> k \in A /\ st["plugins"][k] # Absent
      BY <2>2, <3>1, <3>2 DEF Listing, A
    <3> QED
      BY <3>3 DEF A
  <2>4. ASSUME NEW k \in Plugin
        PROVE  IF k \in Ahead(7) THEN Has("plugins", k) => h[0][k] # Absent
               ELSE h[0][k] # Absent <=> Has("plugins", k)
    <3>1. CASE loader.at = 6
      BY <1>a, <1>b, <3>1 DEF PluginsAt, Ahead
    <3>2. CASE loader.at = 7
      <4>1. Ahead(7) = loader.rest /\ ~Listing(k)
        BY <2>2, <3>2 DEF Ahead, Listing
      <4>2. IF k \in loader.rest THEN Has("plugins", k) => h[0][k] # Absent
            ELSE h[0][k] # Absent <=> Has("plugins", k) \/ Listing(k)
        BY <3>2 DEF PluginsAt
      <4> QED
        BY <4>1, <4>2
    <3> QED
      BY <2>2, <3>1, <3>2
  <2>5. ASSUME NEW k \in Plugin
        PROVE  IF k \in loader'.rest THEN Has("plugins", k)' => h[0][k] # Absent
               ELSE h[0][k] # Absent <=> Has("plugins", k)' \/ Listing(k)'
    BY <1>3, <2>1, <2>2, <2>3, <2>4
  <2>6. ~(loader'.at < 7) /\ loader'.at # 8
    BY <2>2
  <2>7. \A k \in Plugin :
           IF k \in loader'.rest THEN Has("plugins", k)' => h[0][k] # Absent
           ELSE h[0][k] # Absent <=> Has("plugins", k)' \/ Listing(k)'
    BY <2>5
  <2> QED
    BY <2>6, <2>7, Zenon DEF PluginsAt
<1>7. CASE n = 8
  <2>1. a[0] = stApplied
    BY <1>5, <1>7, <1>a, <1>b, SetsQuiet
  <2>2. /\ loader'.at = 8 /\ loader.at = 7 /\ loader.todo = {} /\ loader.rest = {}
        /\ loader'.todo = {stApplied}
    <3>1. ReadAt(8) /\ Order[8] = "applied" /\ "applied" \notin Tables
      BY <1>5, <1>7, <1>b
    <3>2. /\ loader'.at = 8 /\ loader.todo = {} /\ loader'.todo = Listed("applied")
          /\ (8 = loader.at + 1 /\ loader.rest = {}) \/ (8 = loader.at /\ 8 \notin {4, 8})
      BY <3>1, Zenon DEF ReadAt
    <3>3. Listed("applied") = {stApplied}
      BY DEF Listed
    <3> QED
      BY <1>2, <3>2, <3>3
  <2>3. \A k \in Plugin : h[0][k] # Absent <=> Has("plugins", k)
    BY <2>2 DEF PluginsAt, Listing
  <2> QED
    BY <1>3, <2>1, <2>2, <2>3 DEF PluginsAt
<1> QED
  BY <1>1, <1>4, <1>6, <1>7

\* An object or the applied plugins are added.
LEMMA PluginsLoad ==
    ASSUME BootTypes, LoadObject \/ ReadBinds \/ LoadBind \/ LoadApplied,
           NEW p, NEW s \in SUBSET Plugin, PluginsAt(p, s), \A k \in s : p[k] # Absent
    PROVE  PluginsAt(p, s)'
<1>a. "plugins" \in Tables /\ KeysOf("plugins") = Plugin
  BY KeysFields
<1>b. loader.at \in 0..8 /\ (loader.at \in 1..8 => (Dir = "plugins" <=> loader.at = 7))
  BY LoaderFields
<1>1. CASE LoadObject
  <2>1. /\ loader'.at = loader.at /\ applied' = applied /\ loader.at \in 1..7
        /\ loader'.rest = loader.rest
        /\ \A e \in Tables : e # Dir => tab'[e] = tab[e]
    BY <1>1, LoadObjectFields
  <2>2. CASE loader.at # 7
    <3>1. \A k \in Plugin : Has("plugins", k)' <=> Has("plugins", k)
      BY <1>a, <1>b, <2>1, <2>2 DEF Has
    <3> QED
      BY <2>1, <2>2, <3>1 DEF PluginsAt
  <2>3. CASE loader.at = 7
    <3>1. PICK x \in loader.todo :
             /\ x \in Plugin \X Version /\ loader'.todo = loader.todo \ {x}
             /\ tab'["plugins"] = Added("plugins", x[1], x[2])
      BY <1>1, <1>a, <1>b, <2>1, <2>3, LoadObjectFields
    <3>2. x[1] \in Plugin /\ x[2] \in Version
      BY <3>1
    <3>3. \A k \in Plugin : Has("plugins", k)' <=> k = x[1] \/ Has("plugins", k)
      BY <3>1, <3>2, PluginsAdded
    <3>4. \A k \in Plugin : IF k \in loader.rest THEN Has("plugins", k) => p[k] # Absent
                            ELSE p[k] # Absent <=> Has("plugins", k) \/ Listing(k)
      BY <2>3 DEF PluginsAt
    <3>a. x[1] \notin loader.rest
      BY <2>3 DEF BootTypes, LoaderTypes
    <3>b. \A k \in Plugin : Listing(k) <=> k = x[1] \/ Listing(k)'
      BY <3>1 DEF Listing
    <3>5. \A k \in Plugin : IF k \in loader'.rest THEN Has("plugins", k)' => p[k] # Absent
                            ELSE p[k] # Absent <=> Has("plugins", k)' \/ Listing(k)'
      BY <2>1, <3>3, <3>4, <3>a, <3>b
    <3> QED
      BY <2>1, <2>3, <3>5 DEF PluginsAt
  <2> QED
    BY <2>2, <2>3
<1>2. CASE ReadBinds \/ LoadBind
  <2>1. loader.at = 4 /\ loader'.at = 4 /\ tab' = tab
    BY <1>2, LoadBindsFields
  <2>2. \A k \in Plugin : Has("plugins", k)' <=> Has("plugins", k)
    BY <2>1 DEF Has
  <2> QED
    BY <2>1, <2>2 DEF PluginsAt
<1>3. CASE LoadApplied
  <2>1. loader.at = 8 /\ loader'.at = 8 /\ loader'.todo = {} /\ tab' = tab
    BY <1>3, LoadAppliedFields
  <2>2. PICK S \in SUBSET Plugin :
          /\ loader.todo = {S}
          /\ (\A k \in S : Has("plugins", k)) => applied' = S
    BY <1>3, LoadAppliedFields
  <2>3. S = s
    BY <2>1, <2>2 DEF PluginsAt
  <2>4. \A k \in s : Has("plugins", k)
    BY <2>1 DEF PluginsAt
  <2>5. \A k \in Plugin : Has("plugins", k)' <=> Has("plugins", k)
    BY <2>1 DEF Has
  <2> QED
    BY <2>1, <2>2, <2>3, <2>4, <2>5 DEF PluginsAt
<1> QED
  BY <1>1, <1>2, <1>3

LEMMA PluginsKept ==
    ASSUME BootTypes, WatchInv, PluginsInv, [Next]_vars
    PROVE  PluginsInv'
<1> SUFFICES ASSUME On', Clean'
             PROVE  \E g, b : /\ Chain(evts', "plugins", st'["plugins"], g)
                              /\ Sets(evts', stApplied', b)
                              /\ Backed(evts', g, b) /\ PluginsAt(g[0], b[0])'
  BY DEF PluginsInv
<1>a. /\ evts \in Seq(Event) /\ "plugins" \in Tables /\ KeysOf("plugins") = Plugin
      /\ stApplied \in SUBSET Plugin /\ st["plugins"] \in [KeysOf("plugins") -> Value]
  BY KeysFields DEF BootTypes, IsTables, Value
<1>1. CASE Start
  <2>1. /\ evts' = <<>> /\ loader'.at = 0 /\ st' = st /\ stApplied' = stApplied
        /\ \A k \in Plugin : ~Has("plugins", k)'
    BY <1>1, <1>a, FreshFields DEF Start, store, Has
  <2>2. \A p \in stApplied : st["plugins"][p] # Absent
    <3>1. <<"stray", "applied">> \notin flaws'
      BY DEF Clean
    <3> QED
      BY <1>1, <3>1 DEF Start, Stray
  <2> DEFINE g == Single(st["plugins"])
             b == Single(stApplied)
  <2>3. Chain(<<>>, "plugins", st["plugins"], g) /\ g[0] = st["plugins"]
    BY <1>a, ChainSingle
  <2>4. Sets(<<>>, stApplied, b) /\ b[0] = stApplied
    BY <1>a, SetsSingle
  <2>5. Backed(<<>>, g, b)
    <3>1. \A i \in 0..Len(<<>>) : i = 0
      OBVIOUS
    <3> QED
      BY <2>2, <2>3, <2>4, <3>1 DEF Backed
  <2>6. \A y, z : PluginsAt(y[0], z[0])'
    BY <2>1 DEF PluginsAt
  <2> HIDE DEF g, b
  <2> QED
    BY <2>1, <2>3, <2>4, <2>5, <2>6, Zenon
<1>2. CASE Kill
  BY <1>2 DEF Kill, On
<1> SUFFICES ASSUME ~Start, ~Kill PROVE \E g, b : /\ Chain(evts', "plugins", st'["plugins"], g)
                              /\ Sets(evts', stApplied', b)
                              /\ Backed(evts', g, b) /\ PluginsAt(g[0], b[0])'
  BY <1>1, <1>2
<1>3. On
  <2>1. CASE ReadDir \/ ReadFails
    BY <2>1, ReadSteps
  <2>2. CASE ~ReadDir /\ ~ReadFails
    BY <2>2, AdminSteps DEF Next, Load, On, Register, WatchBreaks, Receive, LoadObject,
         ReadBinds, LoadBind, LoadApplied, vars, Changes
  <2> QED
    BY <2>1, <2>2
<1>4. flaws \subseteq flaws'
  <2>1. CASE Administer
    BY <1>3, <2>1, AdminTells
  <2>2. CASE Receive
    BY <2>2, ReceiveFields
  <2>3. CASE ReadDir \/ ReadFails
    BY <2>3, ReadSteps
  <2>4. CASE ~Administer /\ ~Receive /\ ~ReadDir /\ ~ReadFails
    BY <2>4 DEF Next, Load, Register, WatchBreaks, LoadObject, ReadBinds, LoadBind,
         LoadApplied, vars
  <2> QED
    BY <2>1, <2>2, <2>3, <2>4
<1>5. PICK h, a : /\ Chain(evts, "plugins", st["plugins"], h)
                  /\ Sets(evts, stApplied, a)
                  /\ Backed(evts, h, a) /\ PluginsAt(h[0], a[0])
  BY <1>3, <1>4, CleanGrows DEF PluginsInv
<1>6. CASE Administer
  BY <1>3, <1>5, <1>6, PluginsAdmin
<1>7. CASE Receive
  <2>1. evts # <<>> /\ evts' = Tail(evts) /\ st' = st /\ stApplied' = stApplied
    BY <1>7, ReceiveFields DEF store
  <2> DEFINE g == Shifted(Len(evts), h)
             b == Shifted(Len(evts), a)
  <2>2. Chain(Tail(evts), "plugins", st["plugins"], g) /\ g[0] = h[1]
    BY <1>a, <1>5, <2>1, ChainShifts
  <2>3. Sets(Tail(evts), stApplied, b) /\ b[0] = a[1]
    BY <1>a, <1>5, <2>1, SetsShifts
  <2>4. Backed(Tail(evts), g, b)
    BY <1>a, <1>5, <2>1, BackedShifts
  <2>5. PluginsAt(h[1], a[1])'
    BY <1>5, <1>7, PluginsReceive
  <2> HIDE DEF g, b
  <2>6. ASSUME NEW y, NEW z, y = g, z = b PROVE PluginsAt(y[0], z[0])'
    <3>1. y[0] = h[1] /\ z[0] = a[1]
      BY <2>2, <2>3, <2>6
    <3> QED
      BY <2>5, <3>1
  <2> QED
    BY <2>1, <2>2, <2>3, <2>4, <2>6, Zenon
<1>8. ASSUME evts' = evts, st' = st, stApplied' = stApplied, PluginsAt(h[0], a[0])'
      PROVE  \E g, b : /\ Chain(evts', "plugins", st'["plugins"], g)
                              /\ Sets(evts', stApplied', b)
                              /\ Backed(evts', g, b) /\ PluginsAt(g[0], b[0])'
  BY <1>5, <1>8, Zenon
<1>9. CASE ReadDir \/ ReadFails
  <2>1. evts' = evts /\ st' = st /\ stApplied' = stApplied
    BY <1>9, ReadSteps DEF store
  <2>2. PluginsAt(h[0], a[0])'
    BY <1>5, <1>9, PluginsRead
  <2> QED
    BY <1>8, <2>1, <2>2
<1>10. CASE LoadObject \/ ReadBinds \/ LoadBind \/ LoadApplied
  <2>1. evts' = evts /\ st' = st /\ stApplied' = stApplied
    BY <1>10, LoadObjectFields, LoadBindsFields, LoadAppliedFields DEF store
  <2>2. a[0] \in SUBSET Plugin /\ \A k \in a[0] : h[0][k] # Absent
    <3>1. 0 \in 0..Len(evts)
      BY <1>a
    <3> QED
      BY <1>5, <3>1 DEF Sets, Backed
  <2>3. PluginsAt(h[0], a[0])'
    BY <1>5, <1>10, <2>2, PluginsLoad
  <2> QED
    BY <1>8, <2>1, <2>3
<1>11. CASE Register \/ WatchBreaks \/ UNCHANGED vars
  <2>1. /\ evts' = evts /\ st' = st /\ stApplied' = stApplied
        /\ tab' = tab /\ loader' = loader /\ applied' = applied
    BY <1>11 DEF Register, WatchBreaks, vars, store, tables
  <2>2. PluginsAt(h[0], a[0])'
    BY <1>5, <2>1 DEF PluginsAt, Has, Listing
  <2> QED
    BY <1>8, <2>1, <2>2
<1> QED
  BY <1>6, <1>7, <1>9, <1>10, <1>11 DEF Next, Load

\* A process that has loaded its plugins undisturbed did not stop itself.
StopInv == proxy \in Asserts => ~(Loaded /\ Clean)

LEMMA StopKept ==
    ASSUME BootTypes, PluginsInv, StopInv, [Next]_vars
    PROVE  StopInv'
<1> SUFFICES ASSUME proxy' \in Asserts, Loaded', Clean' PROVE FALSE
  BY DEF StopInv
<1>a. "on" \notin Asserts /\ "off" \notin Asserts /\ "bind" \notin Asserts
  BY DEF Asserts
<1>1. CASE Administer
  <2>1. PICK E \in Seq(Event) : IsChange(E) /\ Changes(E)
    BY <1>1, AdminSteps
  <2>2. UNCHANGED <<proxy, loader>> /\ flaws \subseteq flaws'
    BY <2>1, Zenon DEF Changes
  <2>3. Loaded /\ Clean
    BY <2>2, CleanGrows DEF Loaded, Idle
  <2> QED
    BY <2>2, <2>3 DEF StopInv
<1>2. CASE Receive
  <2> DEFINE e == evts[1]
  <2>1. /\ evts \in Seq(Event) /\ evts # <<>> /\ e \in Event /\ On /\ loader' = loader
        /\ Stopped(e) \/ Handled(e)
        /\ flaws \subseteq flaws'
    BY <1>2, ReceiveFields DEF BootTypes
  <2> HIDE DEF e
  <2>2. Stopped(e)
    BY <1>a, <2>1 DEF Handled, On
  <2>3. Loaded /\ Clean
    <3>1. flaws \subseteq flaws'
      BY <1>2, ReceiveFields
    <3> QED
      BY <2>1, <3>1, CleanGrows DEF Loaded, Idle
  <2>4. PICK h, a : /\ Chain(evts, "plugins", st["plugins"], h)
                    /\ Sets(evts, stApplied, a)
                    /\ Backed(evts, h, a) /\ PluginsAt(h[0], a[0])
    BY <2>1, <2>3 DEF PluginsInv
  <2>5. loader.at = 8 /\ loader.todo = {}
    BY <2>3, OrderFields DEF Loaded, Idle
  <2>6. applied = a[0]
    BY <2>4, <2>5 DEF PluginsAt
  <2>7. a[1] = a[0] /\ a[0] \in SUBSET Plugin
    BY <2>1, <2>2, <2>4, SetsHead DEF Stopped, e
  <2>8. h[1] = [h[0] EXCEPT ![e.key] = e.value] /\ h[0] \in [Plugin -> Value]
    BY <2>1, <2>2, <2>4, ChainHead, KeysFields DEF Stopped, e
  <2>9. applied # Nil
    BY <2>6, <2>7 DEF Nil
  <2>10. e.value = Absent /\ e.key \in a[1]
    BY <2>2, <2>6, <2>7, <2>9 DEF Stopped
  <2>11. h[1][e.key] = Absent
    BY <2>7, <2>8, <2>10
  <2>12. 1 \in 0..Len(evts)
    BY <2>1
  <2> QED
    BY <2>4, <2>10, <2>11, <2>12 DEF Backed
<1>3. CASE Start \/ Kill
  BY <1>3, <1>a DEF Start, Kill
<1>4. CASE \/ Register \/ WatchBreaks \/ ReadDir \/ ReadFails \/ LoadObject
           \/ ReadBinds \/ LoadBind \/ LoadApplied
  <2>1. On /\ proxy' \in {proxy, "bind"}
    BY <1>4, ReadSteps, LoadObjectFields, LoadBindsFields,
       LoadAppliedFields DEF Register, WatchBreaks
  <2> QED
    BY <1>a, <2>1 DEF On
<1>5. CASE UNCHANGED vars
  BY <1>5 DEF vars, StopInv, Loaded, Idle, Clean
<1> QED
  BY <1>1, <1>2, <1>3, <1>4, <1>5 DEF Next, Load

PluginsIInv == BootTypes /\ WatchInv /\ EngineInv /\ PluginsInv /\ StopInv

LEMMA PluginsImplied ==
    ASSUME PluginsIInv PROVE PluginsSafe
<1> SUFFICES ASSUME Loaded, Clean
             PROVE  /\ proxy \notin Asserts
                    /\ CaughtUp => applied = stApplied
                    /\ CaughtUp /\ built =>
                          {p \in Plugin : engine[p] # Absent} = stApplied
  BY DEF PluginsSafe, Clean, Asserts
<1>1. proxy \notin Asserts
  BY DEF PluginsIInv, StopInv
<1>2. ASSUME CaughtUp
      PROVE  /\ applied = stApplied
             /\ built => {p \in Plugin : engine[p] # Absent} = stApplied
  <2>1. On /\ evts = <<>> /\ evts \in Seq(Event) /\ stApplied \in SUBSET Plugin
    BY <1>2 DEF CaughtUp, PluginsIInv, BootTypes
  <2>2. PICK h, a : Sets(evts, stApplied, a) /\ PluginsAt(h[0], a[0])
    BY <2>1 DEF PluginsIInv, PluginsInv
  <2>3. a[0] = stApplied
    BY <2>1, <2>2 DEF Sets
  <2>4. loader.at = 8 /\ loader.todo = {}
    BY OrderFields DEF Loaded, Idle
  <2>5. applied = stApplied /\ applied # Nil
    BY <2>1, <2>2, <2>3, <2>4 DEF PluginsAt, Nil
  <2>6. built \in BOOLEAN
    BY DEF PluginsIInv, BootTypes
  <2>7. built => \A p \in Plugin : engine[p] # Absent <=> p \in applied
    BY <2>1, <2>5, <2>6 DEF PluginsIInv, EngineInv
  <2> QED
    BY <2>1, <2>5, <2>7
<1> QED
  BY <1>1, <1>2

\* A proxy that has loaded its plugins undisturbed never meets the assertion of
\* removePlugin, nor the nil pointer of the applied plugins, whatever engines fail
\* to build; once it has received all events it has set what the store has applied,
\* and its engine runs that if it could be built: for any plugins, pages of any
\* size, any order of the changes and any number of kills and failures.
THEOREM PluginsAreSafe == Spec => []PluginsSafe
<1>1. Init => PluginsIInv
  BY InitTypes DEF PluginsIInv, WatchInv, EngineInv, PluginsInv, StopInv, Init, On, Asserts
<1>2. PluginsIInv /\ [Next]_vars => PluginsIInv'
  BY NextTypes, WatchKept, EngineKept, PluginsKept, StopKept DEF PluginsIInv
<1> QED
  BY <1>1, <1>2, PluginsImplied, PTL DEF Spec

-----------------------------------------------------------------------------
(* The tables.                                                             *)

\* The queue has an event, a removal, two events of an object.
Waits(q, d, k) == \E i \in 1..Len(q) : About(q, i, d, k)
Removed(q, d, k) == \E i \in 1..Len(q) : About(q, i, d, k) /\ q[i].value = Absent
Twice(q, d, k) ==
    \E i, j \in 1..Len(q) : i # j /\ About(q, i, d, k) /\ About(q, j, d, k)

\* An object of the queue without its first event.
LEMMA TailAbout ==
    ASSUME NEW q \in Seq(Event), q # <<>>, NEW d, NEW k
    PROVE  \A i \in 1..Len(q) :
              i = 1 \/ /\ i - 1 \in 1..Len(Tail(q)) /\ Tail(q)[i - 1] = q[i]
                       /\ About(Tail(q), i - 1, d, k) <=> About(q, i, d, k)
<1>1. /\ Len(q) \in Nat \ {0} /\ Len(Tail(q)) = Len(q) - 1
      /\ \A i \in 1..(Len(q) - 1) : Tail(q)[i] = q[i + 1]
  BY TailFields
<1> SUFFICES ASSUME NEW i \in 1..Len(q), i # 1
             PROVE  /\ i - 1 \in 1..Len(Tail(q)) /\ Tail(q)[i - 1] = q[i]
                    /\ About(Tail(q), i - 1, d, k) <=> About(q, i, d, k)
  OBVIOUS
<1>2. i - 1 \in 1..Len(Tail(q)) /\ i - 1 \in 1..(Len(q) - 1) /\ (i - 1) + 1 = i
  BY <1>1
<1>3. Tail(q)[i - 1] = q[i]
  BY <1>1, <1>2
<1> QED
  BY <1>2, <1>3 DEF About

LEMMA AboutTail ==
    ASSUME NEW q \in Seq(Event), q # <<>>, NEW d, NEW k
    PROVE  \A i \in 1..Len(Tail(q)) :
              /\ i + 1 \in 1..Len(q) /\ i + 1 # 1 /\ Tail(q)[i] = q[i + 1]
              /\ About(Tail(q), i, d, k) <=> About(q, i + 1, d, k)
<1>1. /\ Len(q) \in Nat \ {0} /\ Len(Tail(q)) = Len(q) - 1
      /\ \A i \in 1..(Len(q) - 1) : Tail(q)[i] = q[i + 1]
  BY TailFields
<1> SUFFICES ASSUME NEW i \in 1..Len(Tail(q))
             PROVE  /\ i + 1 \in 1..Len(q) /\ i + 1 # 1 /\ Tail(q)[i] = q[i + 1]
                    /\ About(Tail(q), i, d, k) <=> About(q, i + 1, d, k)
  OBVIOUS
<1>2. i + 1 \in 1..Len(q) /\ i + 1 # 1 /\ i \in 1..(Len(q) - 1)
  BY <1>1
<1>3. Tail(q)[i] = q[i + 1]
  BY <1>1, <1>2
<1> QED
  BY <1>2, <1>3 DEF About

LEMMA TailWaits ==
    ASSUME NEW q \in Seq(Event), q # <<>>, NEW d, NEW k
    PROVE  /\ Waits(Tail(q), d, k) => Waits(q, d, k)
           /\ Waits(q, d, k) /\ ~About(q, 1, d, k) => Waits(Tail(q), d, k)
           /\ Twice(q, d, k) /\ About(q, 1, d, k) => Waits(Tail(q), d, k)
<1>1. \A i \in 1..Len(q) :
         i = 1 \/ /\ i - 1 \in 1..Len(Tail(q)) /\ Tail(q)[i - 1] = q[i]
                  /\ About(Tail(q), i - 1, d, k) <=> About(q, i, d, k)
  BY TailAbout
<1>2. \A i \in 1..Len(Tail(q)) :
         /\ i + 1 \in 1..Len(q) /\ i + 1 # 1 /\ Tail(q)[i] = q[i + 1]
         /\ About(Tail(q), i, d, k) <=> About(q, i + 1, d, k)
  BY AboutTail
<1>3. Waits(Tail(q), d, k) => Waits(q, d, k)
  BY <1>2 DEF Waits
<1>4. Waits(q, d, k) /\ ~About(q, 1, d, k) => Waits(Tail(q), d, k)
  BY <1>1 DEF Waits
<1>5. Twice(q, d, k) => Waits(Tail(q), d, k)
  BY <1>1 DEF Waits, Twice
<1> QED
  BY <1>3, <1>4, <1>5

LEMMA TailRemoved ==
    ASSUME NEW q \in Seq(Event), q # <<>>, NEW d, NEW k
    PROVE  Removed(q, d, k) =>
              Removed(Tail(q), d, k) \/ (About(q, 1, d, k) /\ q[1].value = Absent)
<1>1. \A i \in 1..Len(q) :
         i = 1 \/ /\ i - 1 \in 1..Len(Tail(q)) /\ Tail(q)[i - 1] = q[i]
                  /\ About(Tail(q), i - 1, d, k) <=> About(q, i, d, k)
  BY TailAbout
<1> QED
  BY <1>1 DEF Removed

LEMMA TailTwice ==
    ASSUME NEW q \in Seq(Event), q # <<>>, NEW d, NEW k, Twice(q, d, k),
           ~About(q, 1, d, k)
    PROVE  Twice(Tail(q), d, k)
<1>1. \A i \in 1..Len(q) :
         i = 1 \/ /\ i - 1 \in 1..Len(Tail(q)) /\ Tail(q)[i - 1] = q[i]
                  /\ About(Tail(q), i - 1, d, k) <=> About(q, i, d, k)
  BY TailAbout
<1>2. PICK i, j \in 1..Len(q) : i # j /\ About(q, i, d, k) /\ About(q, j, d, k)
  BY DEF Twice
<1>3. /\ i - 1 \in 1..Len(Tail(q)) /\ About(Tail(q), i - 1, d, k)
      /\ j - 1 \in 1..Len(Tail(q)) /\ About(Tail(q), j - 1, d, k)
  BY <1>1, <1>2
<1>4. i - 1 # j - 1
  BY <1>2
<1> QED
  BY <1>3, <1>4 DEF Twice

\* An object of the queue with the events of a change.
LEMMA AppendAbout ==
    ASSUME NEW q \in Seq(Event), NEW E \in Seq(Event), E # <<>>, NEW d, NEW k
    PROVE  /\ \A i \in 1..Len(q) : i \in 1..Len(q \o E) /\ (q \o E)[i] = q[i]
           /\ Len(q) + 1 \in 1..Len(q \o E) /\ (q \o E)[Len(q) + 1] = E[1]
           /\ Len(q) + 1 \notin 1..Len(q)
<1>1. /\ Len(q) \in Nat /\ Len(E) \in Nat \ {0}
      /\ Len(q \o E) = Len(q) + Len(E)
      /\ \A i \in 1..Len(q) : (q \o E)[i] = q[i]
      /\ \A i \in (Len(q) + 1)..(Len(q) + Len(E)) : (q \o E)[i] = E[i - Len(q)]
  BY AppendFields
<1>2. /\ Len(q) + 1 \in (Len(q) + 1)..(Len(q) + Len(E)) /\ (Len(q) + 1) - Len(q) = 1
      /\ Len(q) + 1 \in 1..Len(q \o E) /\ Len(q) + 1 \notin 1..Len(q)
      /\ \A i \in 1..Len(q) : i \in 1..Len(q \o E)
  BY <1>1
<1>3. (q \o E)[Len(q) + 1] = E[(Len(q) + 1) - Len(q)]
  BY <1>1, <1>2
<1>4. (q \o E)[Len(q) + 1] = E[1]
  BY <1>2, <1>3, Zenon
<1> QED
  BY <1>1, <1>2, <1>4

LEMMA AppendWaits ==
    ASSUME NEW q \in Seq(Event), NEW E \in Seq(Event), E # <<>>, NEW d, NEW k
    PROVE  /\ Waits(q, d, k) => Waits(q \o E, d, k)
           /\ Removed(q, d, k) => Removed(q \o E, d, k)
           /\ Twice(q, d, k) => Twice(q \o E, d, k)
<1>1. \A i \in 1..Len(q) : i \in 1..Len(q \o E) /\ (q \o E)[i] = q[i]
  BY AppendAbout
<1>2. \A i \in 1..Len(q) : About(q \o E, i, d, k) <=> About(q, i, d, k)
  BY <1>1 DEF About
<1>3. Waits(q, d, k) => Waits(q \o E, d, k)
  BY <1>1, <1>2 DEF Waits
<1>4. Removed(q, d, k) => Removed(q \o E, d, k)
  BY <1>1, <1>2 DEF Removed
<1>5. Twice(q, d, k) => Twice(q \o E, d, k)
  BY <1>1, <1>2 DEF Twice
<1> QED
  BY <1>3, <1>4, <1>5

LEMMA AppendNow ==
    ASSUME NEW q \in Seq(Event), NEW E \in Seq(Event), E # <<>>, NEW d, NEW k,
           E[1].src = d, E[1].key = k
    PROVE  /\ Waits(q \o E, d, k)
           /\ E[1].value = Absent => Removed(q \o E, d, k)
           /\ Waits(q, d, k) => Twice(q \o E, d, k)
<1> DEFINE n == Len(q) + 1
           r == q \o E
<1>1. /\ \A i \in 1..Len(q) : i \in 1..Len(r) /\ r[i] = q[i]
      /\ n \in 1..Len(r) /\ r[n] = E[1] /\ n \notin 1..Len(q)
  BY AppendAbout
<1> HIDE DEF n, r
<1>2. About(r, n, d, k) /\ \A i \in 1..Len(q) : About(r, i, d, k) <=> About(q, i, d, k)
  BY <1>1 DEF About
<1>3. Waits(r, d, k)
  BY <1>1, <1>2 DEF Waits
<1>4. E[1].value = Absent => Removed(r, d, k)
  BY <1>1, <1>2 DEF Removed
<1>5. Waits(q, d, k) => Twice(r, d, k)
  BY <1>1, <1>2 DEF Waits, Twice
<1> QED
  BY <1>3, <1>4, <1>5 DEF r

\* The last state of an object, by the events that wait.
LEMMA ChainKey ==
    ASSUME NEW q \in Seq(Event), NEW d \in Tables, NEW x, NEW h, Chain(q, d, x, h),
           NEW k \in KeysOf(d)
    PROVE  /\ ~Waits(q, d, k) => h[0][k] = x[k]
           /\ ~Removed(q, d, k) /\ h[0][k] # Absent => x[k] # Absent
<1>1. Len(q) \in Nat
  OBVIOUS
<1>2. 0 \in 0..Len(q) /\ Len(q) \in 0..Len(q) /\ 0 <= Len(q)
      /\ \A m \in (0 + 1)..Len(q) : m \in 1..Len(q)
  BY <1>1
<1>3. h[Len(q)] = x
  BY DEF Chain
<1>4. ASSUME ~Waits(q, d, k) PROVE h[0][k] = x[k]
  <2>1. \A m \in (0 + 1)..Len(q) : ~About(q, m, d, k)
    BY <1>2, <1>4 DEF Waits
  <2>2. \A i, j \in 0..Len(q) :
           i <= j /\ (\A m \in (i + 1)..j : ~About(q, m, d, k)) => h[i][k] = h[j][k]
    BY DEF Chain
  <2>3. h[0][k] = h[Len(q)][k]
    BY <1>2, <2>1, <2>2
  <2> QED
    BY <1>3, <2>3
<1>5. ASSUME ~Removed(q, d, k), h[0][k] # Absent PROVE x[k] # Absent
  <2>1. \A m \in (0 + 1)..Len(q) : About(q, m, d, k) => q[m].value # Absent
    BY <1>2, <1>5 DEF Removed
  <2>2. \A i, j \in 0..Len(q) :
          /\ i <= j /\ h[i][k] # Absent
          /\ \A m \in (i + 1)..j : About(q, m, d, k) => q[m].value # Absent
          => h[j][k] # Absent
    BY DEF Chain
  <2>3. h[Len(q)][k] # Absent
    BY <1>2, <1>5, <2>1, <2>2
  <2> QED
    BY <1>3, <2>3
<1> QED
  BY <1>4, <1>5

LEMMA EmptyQueue ==
    ASSUME NEW d, NEW k PROVE ~Waits(<<>>, d, k) /\ ~Removed(<<>>, d, k)
  BY DEF Waits, Removed

\* The values of an object that a table does not tell apart.
Same(R, d, k, u, v) ==
    IF Lax(R, d, k) THEN (u = Absent <=> v = Absent) ELSE u = v

\* Of an object that was p before the events of the queue q and is y after them, a
\* table that does not know it or has it as p: before load reads it.
Early(R, d, k, p, u) == u = Absent \/ Same(R, d, k, u, p)

\* After load has read it, u is what the queue makes y: a removal settles it.
\* Without, it is y if no event is left; it is there to be updated if it was; and
\* a single event that creates it finds nothing, or what it creates.
Settled(R, q, d, k, y, p, u) ==
    ~Removed(q, d, k) =>
        /\ ~Waits(q, d, k) => Same(R, d, k, u, y)
        /\ p # Absent => u # Absent
        /\ p = Absent /\ ~Twice(q, d, k) => u = Absent \/ Same(R, d, k, u, y)

\* What an event that leaves the plugins R refused makes of the value u of k.
Becomes(R, d, k, e, u) ==
    IF e.new THEN IF u # Absent THEN u ELSE e.value
    ELSE IF e.value = Absent THEN Absent
    ELSE IF u # Absent /\ ~Lax(R, d, k) THEN e.value ELSE u

LEMMA SettledSame ==
    ASSUME NEW R, NEW T, NEW q \in Seq(Event), q # <<>>, NEW d, NEW k,
           ~About(q, 1, d, k), Lax(T, d, k) <=> Lax(R, d, k),
           NEW y, NEW p, NEW u, Settled(R, q, d, k, y, p, u)
    PROVE  Settled(T, Tail(q), d, k, y, p, u)
<1>1. /\ Waits(q, d, k) => Waits(Tail(q), d, k)
      /\ Removed(q, d, k) => Removed(Tail(q), d, k)
      /\ Twice(q, d, k) => Twice(Tail(q), d, k)
  BY TailWaits, TailRemoved, TailTwice
<1> QED
  BY <1>1 DEF Settled, Same

LEMMA SettledNext ==
    ASSUME NEW R, NEW T,
           NEW q \in Seq(Event), q # <<>>, NEW d \in Tables, NEW k, About(q, 1, d, k),
           NEW y, NEW p, NEW u, Settled(R, q, d, k, y, p, u),
           q[1].new => (Lax(T, d, k) <=> Lax(R, d, k)),
           q[1].new <=> p = Absent, ~Waits(Tail(q), d, k) => q[1].value = y
    PROVE  Settled(T, Tail(q), d, k, y, q[1].value, Becomes(T, d, k, q[1], u))
<1> DEFINE e == q[1]
           v == Becomes(T, d, k, e, u)
<1>1. e \in Event /\ e.src = d
  BY DEF About
<1>2. e.new \in BOOLEAN /\ (e.new => e.value # Absent)
  <2>1. e.new => e.value \in Version
    BY <1>1, EventFields
  <2> QED
    BY <1>1, <2>1, EventFields
<1>3. /\ Twice(q, d, k) => Waits(Tail(q), d, k)
      /\ Removed(q, d, k) => Removed(Tail(q), d, k) \/ e.value = Absent
      /\ Waits(q, d, k)
  <2>1. 1 \in 1..Len(q)
    OBVIOUS
  <2> QED
    BY <2>1, TailWaits, TailRemoved DEF Waits
<1> HIDE DEF e
<1> SUFFICES ASSUME ~Removed(Tail(q), d, k)
             PROVE  /\ ~Waits(Tail(q), d, k) => Same(T, d, k, v, y)
                    /\ e.value # Absent => v # Absent
                    /\ e.value = Absent => v = Absent
  BY DEF Settled, e
<1>4. CASE e.value = Absent
  BY <1>2, <1>4 DEF Becomes, Same, e
<1>5. CASE e.value # Absent /\ e.new
  <2>1. /\ p = Absent /\ (~Twice(q, d, k) => u = Absent \/ Same(R, d, k, u, y))
        /\ Lax(T, d, k) <=> Lax(R, d, k)
    BY <1>3, <1>5 DEF Settled, e
  <2>2. v # Absent
    BY <1>5 DEF Becomes
  <2>3. ASSUME ~Waits(Tail(q), d, k) PROVE Same(T, d, k, v, y)
    <3>1. ~Twice(q, d, k) /\ e.value = y
      BY <1>3, <2>3 DEF e
    <3> QED
      BY <1>5, <2>1, <3>1 DEF Becomes, Same
  <2> QED
    BY <1>5, <2>2, <2>3
<1>6. CASE e.value # Absent /\ ~e.new
  <2>1. u # Absent
    BY <1>3, <1>6 DEF Settled, e
  <2>2. v # Absent /\ (~Lax(T, d, k) => v = e.value)
    BY <1>6, <2>1 DEF Becomes
  <2>3. ASSUME ~Waits(Tail(q), d, k) PROVE Same(T, d, k, v, y)
    <3>1. e.value = y
      BY <2>3 DEF e
    <3> QED
      BY <1>6, <2>2, <3>1 DEF Same
  <2> QED
    BY <1>6, <2>2, <2>3
<1> QED
  BY <1>2, <1>4, <1>5, <1>6

LEMMA EarlyNext ==
    ASSUME NEW R, NEW T, NEW e \in Event, NEW d \in Tables, e.src = d, NEW k,
           NEW p, NEW u, Early(R, d, k, p, u), e.new <=> p = Absent
    PROVE  Early(T, d, k, e.value, Becomes(T, d, k, e, u))
<1>1. e.new \in BOOLEAN /\ (e.new => e.value # Absent)
  <2>1. e.new => e.value \in Version
    BY EventFields
  <2> QED
    BY <2>1, EventFields
<1>2. CASE e.new
  BY <1>1, <1>2 DEF Early, Becomes, Same
<1>3. CASE ~e.new /\ e.value = Absent
  BY <1>3 DEF Early, Becomes
<1>4. CASE ~e.new /\ e.value # Absent
  BY <1>4 DEF Early, Becomes, Same
<1> QED
  BY <1>1, <1>2, <1>3, <1>4

LEMMA SettledGrows ==
    ASSUME NEW R, NEW q \in Seq(Event), NEW E \in Seq(Event), E # <<>>,
           NEW d, NEW k, NEW y, NEW z, NEW p, NEW u, Settled(R, q, d, k, y, p, u),
           ~(E[1].src = d /\ E[1].key = k) => z = y, ~Waits(q, d, k) => p = y
    PROVE  Settled(R, q \o E, d, k, z, p, u)
<1>1. /\ Waits(q, d, k) => Waits(q \o E, d, k)
      /\ Removed(q, d, k) => Removed(q \o E, d, k)
      /\ Twice(q, d, k) => Twice(q \o E, d, k)
  BY AppendWaits
<1>2. CASE E[1].src = d /\ E[1].key = k
  <2>1. Waits(q \o E, d, k) /\ (Waits(q, d, k) => Twice(q \o E, d, k))
    BY <1>2, AppendNow
  <2> QED
    BY <1>1, <2>1 DEF Settled, Same
<1>3. CASE ~(E[1].src = d /\ E[1].key = k)
  BY <1>1, <1>3 DEF Settled
<1> QED
  BY <1>2, <1>3

\* What load has left to add to table d, and the table t that it leads to.
Rest(d) == IF loader.at \in 1..8 /\ Dir = d THEN loader.todo ELSE {}
Reaches(d, t) ==
    /\ t \in [KeysOf(d) -> Value]
    /\ \A k \in KeysOf(d) :
          /\ Has(d, k) => t[k] = tab[d][k]
          /\ ~Has(d, k) /\ (\A x \in Rest(d) : x[1] # k) => t[k] = Absent
    /\ \A x \in Rest(d) : ~Has(d, x[1]) => t[x[1]] = x[2]

LEMMA RestKeys ==
    ASSUME BootTypes, NEW d \in Tables, NEW x \in Rest(d)
    PROVE  x[1] \in KeysOf(d) /\ x[1] \notin loader.rest /\ loader.at \notin {0, 4, 8}
<1>1. loader.at \in 1..8 /\ Dir = d /\ x \in loader.todo
  BY DEF Rest
<1>2. loader.at \notin {0, 4, 8}
  BY <1>1, LoaderFields
<1>3. x \in KeysOf(d) \X Version /\ x[1] \notin loader.rest
  BY <1>1, <1>2 DEF BootTypes, LoaderTypes
<1> QED
  BY <1>2, <1>3

\* load has read the object k, if there is one.
Passed(d, k) == HasRead(d) /\ ~(loader.at \in 1..8 /\ Dir = d /\ k \in loader.rest)

\* Table d, by the history h of the queue.
TableAt(d, h, t) ==
    \A k \in KeysOf(d) :
        IF Passed(d, k) THEN Settled(refused, evts, d, k, st[d][k], h[0][k], t[k])
        ELSE Early(refused, d, k, h[0][k], t[k])

TableInv(d) ==
    On /\ Undisturbed(d) =>
        \E h, t : Chain(evts, d, st[d], h) /\ Reaches(d, t) /\ TableAt(d, h, t)

LEMMA UndisturbedGrows ==
    ASSUME flaws \subseteq flaws', NEW d, Undisturbed(d)' PROVE Undisturbed(d)
  BY DEF Undisturbed

\* Nothing is left to add: the table is t.
LEMMA ReachesNow ==
    ASSUME BootTypes, NEW d \in Tables, NEW t, Reaches(d, t), Rest(d) = {}
    PROVE  t = tab[d]
<1>1. tab[d] \in [KeysOf(d) -> Value] /\ t \in [KeysOf(d) -> Value]
  BY DEF BootTypes, IsTables, Value, Reaches
<1>2. \A k \in KeysOf(d) : t[k] = tab[d][k]
  BY DEF Reaches, Has
<1> QED
  BY <1>1, <1>2

LEMMA TableReceived ==
    ASSUME BootTypes, NEW d \in Tables, NEW e \in Event, e.src = d,
           tab'[d] = Received(d, e), NEW k \in KeysOf(d)
    PROVE  tab'[d][k] = IF k = e.key THEN Becomes(refused', d, k, e, tab[d][k]) ELSE tab[d][k]
<1>1. e.key \in KeysOf(d) /\ e.new \in BOOLEAN /\ tab[d] \in [KeysOf(d) -> Value]
  BY EventFields DEF BootTypes, IsTables, Value
<1>2. CASE e.new
  BY <1>1, <1>2 DEF Received, Added, Has, Becomes
<1>3. CASE ~e.new /\ e.value = Absent
  BY <1>1, <1>3 DEF Received, Becomes
<1>4. CASE ~e.new /\ e.value # Absent
  BY <1>1, <1>4 DEF Received, Updated, Has, Becomes
<1> QED
  BY <1>1, <1>2, <1>3, <1>4

\* How an event changes what is loose.
LEMMA LooseReceived ==
    ASSUME NEW e \in Event, Handled(e), NEW d \in Tables, NEW k \in KeysOf(d),
           e.src # d \/ e.key # k \/ e.new
    PROVE  Lax(refused', d, k) <=> Lax(refused, d, k)
<1>1. d = "plugins" => k \in Plugin
  BY KeysFields
<1>2. d = "plugins" => (k \in refused' <=> k \in refused)
  BY <1>1 DEF Handled
<1> QED
  BY <1>2 DEF Lax

\* The table t when an event made v of object k.
LEMMA ReachesChanged ==
    ASSUME BootTypes, IsTables(tab)', NEW d \in Tables, NEW k \in KeysOf(d),
           NEW t, Reaches(d, t), NEW u, u = [t EXCEPT ![k] = tab'[d][k]],
           \A x \in Rest(d) : x[1] # k, Rest(d)' = Rest(d),
           \A j \in KeysOf(d) : j # k => tab'[d][j] = tab[d][j]
    PROVE  Reaches(d, u)' /\ t[k] = tab[d][k]
<1>1. /\ t \in [KeysOf(d) -> Value] /\ tab[d] \in [KeysOf(d) -> Value]
      /\ tab'[d] \in [KeysOf(d) -> Value]
  BY DEF Reaches, BootTypes, IsTables, Value
<1>2. t[k] = tab[d][k]
  BY DEF Reaches, Has
<1>3. /\ u \in [KeysOf(d) -> Value] /\ u[k] = tab'[d][k]
      /\ \A j \in KeysOf(d) : j # k => u[j] = t[j]
  BY <1>1
<1>4. \A j \in KeysOf(d) : j # k => (Has(d, j)' <=> Has(d, j))
  BY DEF Has
<1>5. ASSUME NEW j \in KeysOf(d)
      PROVE  /\ Has(d, j)' => u[j] = tab'[d][j]
             /\ ~Has(d, j)' /\ (\A x \in Rest(d) : x[1] # j) => u[j] = Absent
  <2>1. CASE j = k
    BY <1>3, <2>1 DEF Has
  <2>2. CASE j # k
    BY <1>3, <1>4, <2>2 DEF Reaches
  <2> QED
    BY <2>1, <2>2
<1>6. ASSUME NEW x \in Rest(d), ~Has(d, x[1])' PROVE u[x[1]] = x[2]
  <2>1. x[1] \in KeysOf(d) /\ x[1] # k
    BY RestKeys
  <2> QED
    BY <1>3, <1>4, <1>6, <2>1 DEF Reaches
<1> QED
  BY <1>2, <1>3, <1>5, <1>6 DEF Reaches

LEMMA TableReceive ==
    ASSUME BootTypes, On', NEW d \in Tables, d # "apis", Undisturbed(d)', Receive,
           NEW h, NEW t, Chain(evts, d, st[d], h), Reaches(d, t), TableAt(d, h, t)
    PROVE  \E g, u : Chain(evts', d, st'[d], g) /\ Reaches(d, u)' /\ TableAt(d, g, u)'
<1>1. /\ evts \in Seq(Event) /\ evts # <<>> /\ evts[1] \in Event /\ evts' = Tail(evts)
      /\ loader' = loader /\ st' = st /\ IsTables(tab)'
      /\ \A f \in Tables : f # evts[1].src => tab'[f] = tab[f]
      /\ Stopped(evts[1]) \/ Handled(evts[1])
      /\ Crosses(evts[1]) => <<"crossed", evts[1].src>> \in flaws'
  BY ReceiveFields DEF BootTypes, store
<1>2. Handled(evts[1])
  BY <1>1 DEF Stopped, Asserts, On
<1>3. /\ h[0] \in [KeysOf(d) -> Value] /\ h[1] \in [KeysOf(d) -> Value]
      /\ evts[1].src = d => /\ h[1] = [h[0] EXCEPT ![evts[1].key] = evts[1].value]
                            /\ evts[1].new <=> h[0][evts[1].key] = Absent
      /\ evts[1].src # d => h[1] = h[0]
  BY <1>1, ChainHead
<1>4. PICK g : g = Shifted(Len(evts), h)
  OBVIOUS
<1>5. Chain(Tail(evts), d, st[d], g) /\ g[0] = h[1]
  BY <1>1, <1>4, ChainShifts
<1>6. PICK u : u = IF evts[1].src = d
                   THEN [t EXCEPT ![evts[1].key] = tab'[d][evts[1].key]] ELSE t
  OBVIOUS
<1>7. /\ Rest(d)' = Rest(d)
      /\ \A k \in KeysOf(d) : Passed(d, k)' <=> Passed(d, k)
  BY <1>1 DEF HasRead, Passed, Rest, Dir
<1>8. CASE evts[1].src # d
  <2>1. u = t /\ \A k \in KeysOf(d) : Has(d, k)' <=> Has(d, k)
    BY <1>1, <1>6, <1>8 DEF Has
  <2>2. Reaches(d, u)'
    <3>1. tab'[d] = tab[d]
      BY <1>1, <1>8
    <3>2. \A x \in Rest(d) : Has(d, x[1])' <=> Has(d, x[1])
      BY <3>1 DEF Has
    <3> QED
      BY <1>7, <2>1, <3>1, <3>2 DEF Reaches
  <2>3. ASSUME NEW k \in KeysOf(d)
        PROVE  IF Passed(d, k)
               THEN Settled(refused', Tail(evts), d, k, st[d][k], g[0][k], u[k])
               ELSE Early(refused', d, k, g[0][k], u[k])
    <3>1. ~About(evts, 1, d, k) /\ g[0][k] = h[0][k] /\ u[k] = t[k]
      BY <1>3, <1>5, <1>8, <2>1 DEF About
    <3>2. IF Passed(d, k) THEN Settled(refused, evts, d, k, st[d][k], h[0][k], t[k])
          ELSE Early(refused, d, k, h[0][k], t[k])
      BY DEF TableAt
    <3>3. Lax(refused', d, k) <=> Lax(refused, d, k)
      BY <1>1, <1>2, <1>8, LooseReceived
    <3>4. Passed(d, k) => Settled(refused', Tail(evts), d, k, st[d][k], h[0][k], t[k])
      BY <1>1, <3>1, <3>2, <3>3, SettledSame
    <3>5. ~Passed(d, k) => Early(refused', d, k, h[0][k], t[k])
      BY <3>2, <3>3 DEF Early, Same
    <3> QED
      BY <3>1, <3>4, <3>5
  <2>4. TableAt(d, g, u)'
    BY <1>1, <1>7, <2>3 DEF TableAt
  <2> QED
    BY <1>1, <1>5, <2>2, <2>4
<1>9. CASE evts[1].src = d
  <2>1. PICK j : j = evts[1].key
    OBVIOUS
  <2>2. j \in KeysOf(d) /\ tab[d] \in [KeysOf(d) -> Value] /\ tab'[d] \in [KeysOf(d) -> Value]
    BY <1>1, <1>9, <2>1, EventFields DEF BootTypes, IsTables, Value
  <2>3. \A x \in Rest(d) : x[1] # j
    <3>1. ~Crosses(evts[1])
      BY <1>1, <1>9 DEF Undisturbed
    <3> QED
      BY <1>9, <2>1, <3>1 DEF Rest, Idle, Crosses
  <2>4. \A k \in KeysOf(d) :
           tab'[d][k] = IF k = j THEN Becomes(refused', d, k, evts[1], tab[d][k]) ELSE tab[d][k]
    <3>1. tab'[d] = Received(d, evts[1])
      BY <1>2, <1>9 DEF Handled
    <3> QED
      BY <1>1, <1>9, <2>1, <3>1, TableReceived
  <2>5. u = [t EXCEPT ![j] = tab'[d][j]] /\ t \in [KeysOf(d) -> Value]
    BY <1>6, <1>9, <2>1 DEF Reaches
  <2>6. Reaches(d, u)' /\ t[j] = tab[d][j]
    <3>1. \A k \in KeysOf(d) : k # j => tab'[d][k] = tab[d][k]
      BY <2>4
    <3> QED
      BY <1>1, <1>7, <2>2, <2>3, <2>5, <3>1, ReachesChanged
  <2>7. ASSUME NEW k \in KeysOf(d)
        PROVE  IF Passed(d, k)
               THEN Settled(refused', Tail(evts), d, k, st[d][k], g[0][k], u[k])
               ELSE Early(refused', d, k, g[0][k], u[k])
    <3>1. IF Passed(d, k) THEN Settled(refused, evts, d, k, st[d][k], h[0][k], t[k])
          ELSE Early(refused, d, k, h[0][k], t[k])
      BY DEF TableAt
    <3>2. CASE k # j
      <4>1. ~About(evts, 1, d, k) /\ g[0][k] = h[0][k] /\ u[k] = t[k]
        BY <1>3, <1>5, <1>9, <2>1, <2>2, <2>5, <3>2 DEF About
      <4>2. Lax(refused', d, k) <=> Lax(refused, d, k)
        BY <1>1, <1>2, <2>1, <3>2, LooseReceived
      <4>3. Passed(d, k) => Settled(refused', Tail(evts), d, k, st[d][k], h[0][k], t[k])
        BY <1>1, <3>1, <4>1, <4>2, SettledSame
      <4>4. ~Passed(d, k) => Early(refused', d, k, h[0][k], t[k])
        BY <3>1, <4>2 DEF Early, Same
      <4> QED
        BY <4>1, <4>3, <4>4
    <3>3. CASE k = j
      <4>1. /\ About(evts, 1, d, k) /\ g[0][k] = evts[1].value
            /\ evts[1].new <=> h[0][k] = Absent
        BY <1>3, <1>5, <1>9, <2>1, <2>2, <3>3 DEF About
      <4>a. u[k] = Becomes(refused', d, k, evts[1], t[k])
        <5>1. u[k] = tab'[d][k] /\ t[k] = tab[d][k]
          BY <2>2, <2>5, <2>6, <3>3
        <5> QED
          BY <2>4, <3>3, <5>1
      <4>b. evts[1].new => (Lax(refused', d, k) <=> Lax(refused, d, k))
        BY <1>1, <1>2, LooseReceived
      <4>2. ~Waits(Tail(evts), d, k) => evts[1].value = st[d][k]
        <5>1. Tail(evts) \in Seq(Event)
          BY <1>1
        <5>2. PICK r : r = Tail(evts)
          OBVIOUS
        <5>3. r \in Seq(Event) /\ Chain(r, d, st[d], g)
          BY <1>5, <5>1, <5>2, Zenon
        <5>4. ~Waits(r, d, k) => g[0][k] = st[d][k]
          BY <5>3, ChainKey
        <5> QED
          BY <4>1, <5>2, <5>4, Zenon
      <4>3. Passed(d, k) => Settled(refused', Tail(evts), d, k, st[d][k], evts[1].value,
                                    Becomes(refused', d, k, evts[1], t[k]))
        BY <1>1, <3>1, <4>1, <4>b, <4>2, SettledNext
      <4>4. ~Passed(d, k) => Early(refused', d, k, evts[1].value,
                                   Becomes(refused', d, k, evts[1], t[k]))
        BY <1>1, <1>9, <3>1, <4>1, EarlyNext
      <4> QED
        BY <4>1, <4>a, <4>3, <4>4
    <3> QED
      BY <3>2, <3>3
  <2>8. TableAt(d, g, u)'
    BY <1>1, <1>7, <2>7 DEF TableAt
  <2> QED
    BY <1>1, <1>5, <2>6, <2>8
<1> QED
  BY <1>8, <1>9

\* A change of the store.
LEMMA TableAdmin ==
    ASSUME BootTypes, WatchInv, On, NEW d \in Tables, d # "apis", Undisturbed(d)',
           Administer,
           NEW h, NEW t, Chain(evts, d, st[d], h), Reaches(d, t), TableAt(d, h, t)
    PROVE  \E g, u : Chain(evts', d, st'[d], g) /\ Reaches(d, u)' /\ TableAt(d, g, u)'
<1>1. /\ IsTables(st)' /\ UNCHANGED <<proxy, watch, tab, loader, refused>>
  BY AdminTells
<1>2. PICK E \in Seq(Event) : IsChange(E) /\ ChangeSeen(E)
  BY AdminTells
<1>a. evts \in Seq(Event) /\ E # <<>>
  BY <1>2 DEF BootTypes, IsChange
<1>b. /\ Told(E, d, st[d], st'[d]) /\ st'[d] \in [KeysOf(d) -> Value]
      /\ st[d] \in [KeysOf(d) -> Value]
  BY <1>1, <1>2, ChangeTells DEF BootTypes, IsTables, Value
<1>c. Reaches(d, t)' /\ \A k : Passed(d, k)' <=> Passed(d, k)
  <2>1. /\ Rest(d)' = Rest(d) /\ \A k : Passed(d, k)' <=> Passed(d, k)
    BY <1>1 DEF Rest, Dir, HasRead, Passed
  <2>2. \A k : Has(d, k)' <=> Has(d, k)
    BY <1>1 DEF Has
  <2> QED
    BY <1>1, <2>1, <2>2 DEF Reaches
<1>5. CASE watch = "on"
  <2>1. evts' = evts \o E
    BY <1>2, <1>5 DEF ChangeSeen
  <2>2. PICK g : g = Grown(Len(evts), h, Len(E), st'[d])
    OBVIOUS
  <2>3. Chain(evts \o E, d, st'[d], g)
    BY <1>a, <1>b, <2>2, ChainGrows
  <2>4. g[0] = h[0]
    <3>1. Len(evts) \in Nat /\ Len(E) \in Nat
      BY <1>a
    <3> QED
      BY <2>2, <3>1, GrownFirst
  <2>5. ASSUME NEW k \in KeysOf(d)
        PROVE  IF Passed(d, k)
               THEN Settled(refused, evts \o E, d, k, st'[d][k], g[0][k], t[k])
               ELSE Early(refused, d, k, g[0][k], t[k])
    <3>1. IF Passed(d, k) THEN Settled(refused, evts, d, k, st[d][k], h[0][k], t[k])
          ELSE Early(refused, d, k, h[0][k], t[k])
      BY DEF TableAt
    <3>2. ~(E[1].src = d /\ E[1].key = k) => st'[d][k] = st[d][k]
      <4>1. E[1].src = d => E[1].key \in KeysOf(d)
        <5>1. E[1] \in Event
          BY <1>a
        <5> QED
          BY <5>1, EventFields
      <4> QED
        BY <1>b, <4>1 DEF Told
    <3>3. ~Waits(evts, d, k) => h[0][k] = st[d][k]
      BY <1>a, ChainKey
    <3>4. Passed(d, k) => Settled(refused, evts \o E, d, k, st'[d][k], h[0][k], t[k])
      BY <1>a, <3>1, <3>2, <3>3, SettledGrows
    <3> QED
      BY <2>4, <3>1, <3>4
  <2>6. TableAt(d, g, t)'
    BY <1>1, <1>c, <2>1, <2>5 DEF TableAt
  <2> QED
    BY <1>c, <2>1, <2>3, <2>6
<1>6. CASE watch # "on" /\ E[1].src # d
  <2>1. evts' = evts /\ st'[d] = st[d]
    BY <1>2, <1>6 DEF ChangeSeen, IsChange
  <2>2. TableAt(d, h, t)'
    BY <1>1, <1>c, <2>1 DEF TableAt
  <2> QED
    BY <1>c, <2>1, <2>2
<1>7. CASE watch # "on" /\ E[1].src = d
  <2>1. /\ watch = "none" /\ evts = <<>> /\ evts' = <<>> /\ ~HasRead(d)
    <3>1. <<"missed", d>> \notin flaws'
      BY DEF Undisturbed
    <3> QED
      BY <1>2, <1>7, <3>1 DEF ChangeSeen
  <2>2. PICK g : g = Single(st'[d])
    OBVIOUS
  <2>3. Chain(<<>>, d, st'[d], g)
    BY <1>b, <2>2, ChainSingle
  <2>4. \A k \in KeysOf(d) : t[k] = Absent
    <3>1. \A k \in KeysOf(d) : ~Has(d, k)
      BY <2>1 DEF WatchInv
    <3>2. Rest(d) = {}
      BY <2>1 DEF Rest, HasRead, Dir
    <3> QED
      BY <3>1, <3>2 DEF Reaches
  <2>a. \A k : ~Passed(d, k)
    BY <2>1 DEF Passed
  <2>5. TableAt(d, g, t)'
    BY <1>1, <1>c, <2>1, <2>4, <2>a DEF TableAt, Early
  <2> QED
    BY <1>c, <2>1, <2>3, <2>5
<1> QED
  BY <1>5, <1>6, <1>7

LEMMA RestFields ==
    ASSUME BootTypes, NEW d \in Tables
    PROVE  /\ \A x \in Rest(d) : x \in KeysOf(d) \X Version
           /\ Rest(d) # {} => loader.at \in 1..8 /\ Dir = d /\ loader.todo = Rest(d)
<1>1. /\ loader.at \in 0..8
      /\ loader.at \in 1..8 => (Dir \in Tables <=> loader.at \notin {4, 8})
  BY LoaderFields
<1>2. loader.at \notin {0, 4, 8} => \A x \in loader.todo : x \in KeysOf(Dir) \X Version
  BY DEF BootTypes, LoaderTypes
<1> QED
  BY <1>1, <1>2 DEF Rest

\* The objects of the store among the keys S.
LEMMA StoredFields ==
    ASSUME NEW d \in Tables, NEW S \in SUBSET KeysOf(d)
    PROVE  /\ \A k \in S : st[d][k] # Absent => \E x \in Stored(d, S) : x[1] = k
           /\ \A x \in Stored(d, S) : x[1] \in S /\ x[2] = st[d][x[1]] /\ x[2] # Absent
<1>1. ASSUME NEW k \in S, st[d][k] # Absent PROVE \E x \in Stored(d, S) : x[1] = k
  <2>1. <<k, st[d][k]>> \in Stored(d, S) /\ <<k, st[d][k]>>[1] = k
    BY <1>1 DEF Stored
  <2> QED
    BY <2>1
<1>2. ASSUME NEW x \in Stored(d, S)
      PROVE  x[1] \in S /\ x[2] = st[d][x[1]] /\ x[2] # Absent
  <2>1. PICK k \in S : st[d][k] # Absent /\ x = <<k, st[d][k]>>
    BY DEF Stored
  <2> QED
    BY <2>1
<1> QED
  BY <1>1, <1>2

\* A read of another directory; a read of directory d finds the objects of the
\* keys S, which load has passed then.
ReadOther(d) ==
    Rest(d)' = {} /\ \A k \in KeysOf(d) : Passed(d, k)' <=> Passed(d, k)
ReadKeys(d, S) ==
    /\ Rest(d)' = Stored(d, S)
    /\ \A k \in KeysOf(d) : /\ Passed(d, k)' <=> Passed(d, k) \/ k \in S
                            /\ k \in S => ~Passed(d, k)
    /\ (\E i \in DOMAIN evts : evts[i].src = d) => <<"lagged", d>> \in flaws'

\* Directory d is the one that load comes to read, for the first time or again.
LEMMA PassedFields ==
    ASSUME BootTypes, NEW d \in Tables, NEW n \in 1..8, loader'.at = n,
           (n = loader.at + 1 /\ loader.rest = {}) \/ n = loader.at
    PROVE  /\ Order[n] = d => \A k \in KeysOf(d) :
                 /\ Passed(d, k) <=> k \notin Ahead(n)
                 /\ Passed(d, k)' <=> k \notin loader'.rest
           /\ Order[n] # d => \A k \in KeysOf(d) : Passed(d, k)' <=> Passed(d, k)
<1>1. loader.at \in 0..8 /\ Dir' = Order[n] /\ Dir = Order[loader.at]
  BY LoaderFields DEF Dir
<1>2. CASE Order[n] = d
  <2>1. \A k : Passed(d, k)' <=> k \notin loader'.rest
    <3>1. n \in 1..loader'.at
      OBVIOUS
    <3> QED
      BY <1>1, <1>2, <3>1 DEF Passed, HasRead
  <2>2. CASE n = loader.at
    <3>1. n \in 1..loader.at
      BY <2>2
    <3>2. HasRead(d)
      BY <1>2, <3>1 DEF HasRead
    <3> QED
      BY <1>1, <1>2, <2>1, <2>2, <3>2 DEF Passed, Ahead
  <2>3. CASE n = loader.at + 1
    <3>1. n # loader.at /\ \A j \in 1..loader.at : j \in 1..8 /\ j # n
      BY <1>1, <2>3
    <3>2. \A j \in 1..8 : Order[j] = Order[n] => j = n
      BY OrderFields
    <3>3. ~HasRead(d)
      BY <1>2, <3>1, <3>2 DEF HasRead
    <3> QED
      BY <1>2, <2>1, <3>1, <3>3 DEF Passed, Ahead
  <2> QED
    BY <2>2, <2>3
<1>3. CASE Order[n] # d
  <2>1. HasRead(d)' <=> HasRead(d)
    <3>1. \A j \in 1..loader'.at : j \in 1..loader.at \/ j = n
      BY <1>1
    <3>2. \A j \in 1..loader.at : j \in 1..loader'.at
      BY <1>1
    <3> QED
      BY <1>3, <3>1, <3>2 DEF HasRead
  <2>2. \A k : Passed(d, k)' <=> HasRead(d)'
    BY <1>1, <1>3 DEF Passed
  <2>3. \A k : Passed(d, k) <=> HasRead(d)
    <3>1. CASE n = loader.at
      BY <1>1, <1>3, <3>1 DEF Passed
    <3>2. CASE loader.rest = {}
      BY <3>2 DEF Passed
    <3> QED
      BY <3>1, <3>2
  <2> QED
    BY <1>3, <2>1, <2>2, <2>3
<1> QED
  BY <1>2, <1>3

LEMMA ReadOf ==
    ASSUME BootTypes, NEW d \in Tables, <<"missed", d>> \notin flaws', ReadDir \/ ReadFails
    PROVE  /\ Rest(d) = {} /\ UNCHANGED <<store, proxy, watch, evts, tables>>
           /\ ReadOther(d) \/ \E S \in SUBSET KeysOf(d) : ReadKeys(d, S)
<1>1. UNCHANGED <<store, proxy, watch, evts, tables>>
  BY ReadSteps
<1>2. loader.at \in 0..8
  BY LoaderFields
<1>3. CASE ReadDir
  <2>1. PICK n \in 1..8 :
           /\ ReadAt(n)
           /\ (\E i \in DOMAIN evts : evts[i].src = Order[n]) =>
                  <<"lagged", Order[n]>> \in flaws'
    BY <1>3, ReadFields
  <2>2. /\ loader.todo = {} /\ loader'.at = n
        /\ (n = loader.at + 1 /\ loader.rest = {}) \/ n = loader.at
        /\ Order[n] \in Tables => /\ loader'.rest \subseteq Ahead(n)
                                  /\ loader'.todo = Stored(Order[n], Ahead(n) \ loader'.rest)
    BY <2>1, Zenon DEF ReadAt
  <2>3. Rest(d) = {} /\ Dir' = Order[n]
    BY <2>2 DEF Rest, Dir
  <2>4. CASE Order[n] # d
    <3>1. Rest(d)' = {}
      BY <2>3, <2>4 DEF Rest
    <3> QED
      BY <1>1, <2>2, <2>3, <2>4, <3>1, PassedFields DEF ReadOther
  <2>5. CASE Order[n] = d
    <3>1. n \notin {4, 8}
      BY <2>5, OrderFields
    <3>2. PICK S : S = Ahead(n) \ loader'.rest
      OBVIOUS
    <3>3. S \in SUBSET KeysOf(d)
      BY <2>5, <3>1, <3>2, AheadFields
    <3>4. Rest(d)' = Stored(d, S)
      BY <2>2, <2>3, <2>5, <3>2 DEF Rest
    <3>5. \A k \in KeysOf(d) : /\ Passed(d, k) <=> k \notin Ahead(n)
                               /\ Passed(d, k)' <=> k \notin loader'.rest
      BY <2>2, <2>5, PassedFields
    <3>6. loader'.rest \subseteq Ahead(n)
      BY <2>2, <2>5
    <3>7. \A k \in KeysOf(d) : /\ Passed(d, k)' <=> Passed(d, k) \/ k \in S
                               /\ k \in S => ~Passed(d, k)
      BY <3>2, <3>5, <3>6
    <3>8. ReadKeys(d, S)
      BY <2>1, <2>5, <3>4, <3>7 DEF ReadKeys
    <3> QED
      BY <1>1, <2>3, <3>3, <3>8
  <2> QED
    BY <2>4, <2>5
<1>4. CASE ReadFails
  <2>1. PICK n \in 1..8 :
           /\ loader'.at = n /\ loader'.todo = {} /\ loader'.rest = {}
           /\ (n = loader.at + 1 /\ Idle) \/ (n = loader.at /\ ~Idle)
           /\ <<"missed", Order[n]>> \in flaws'
    BY <1>4, ReadFailsFields
  <2>2. Order[n] # d /\ Dir' = Order[n]
    BY <2>1 DEF Dir
  <2>3. Rest(d) = {}
    BY <2>1, <2>2 DEF Rest, Idle, Dir
  <2>4. Rest(d)' = {}
    BY <2>2 DEF Rest
  <2>5. (n = loader.at + 1 /\ loader.rest = {}) \/ n = loader.at
    BY <2>1 DEF Idle
  <2> QED
    BY <1>1, <2>1, <2>2, <2>3, <2>4, <2>5, PassedFields DEF ReadOther
<1> QED
  BY <1>3, <1>4

\* load reads the next directory, or the next page.
LEMMA TableRead ==
    ASSUME BootTypes, NEW d \in Tables, d # "apis", Undisturbed(d)', ReadDir \/ ReadFails,
           NEW h, NEW t, Chain(evts, d, st[d], h), Reaches(d, t), TableAt(d, h, t)
    PROVE  \E u : Reaches(d, u)' /\ TableAt(d, h, u)'
<1>1. /\ Rest(d) = {} /\ UNCHANGED <<tab, st, evts, refused>>
      /\ ReadOther(d) \/ \E S \in SUBSET KeysOf(d) : ReadKeys(d, S)
  BY ReadOf DEF Undisturbed, tables, store
<1>2. \A k : Has(d, k)' <=> Has(d, k)
  BY <1>1 DEF Has
<1>3. t = tab[d]
  BY <1>1, ReachesNow
<1>4. CASE ReadOther(d)
  <2>1. Rest(d)' = {} /\ \A k \in KeysOf(d) : Passed(d, k)' <=> Passed(d, k)
    BY <1>4 DEF ReadOther
  <2>2. Reaches(d, t)'
    BY <1>1, <1>2, <2>1 DEF Reaches
  <2>3. TableAt(d, h, t)'
    BY <1>1, <2>1 DEF TableAt
  <2> QED
    BY <2>2, <2>3
<1>5. ASSUME NEW S \in SUBSET KeysOf(d), ReadKeys(d, S)
      PROVE  \E u : Reaches(d, u)' /\ TableAt(d, h, u)'
  <2>1. /\ Rest(d)' = Stored(d, S)
        /\ \A k \in KeysOf(d) : /\ Passed(d, k)' <=> Passed(d, k) \/ k \in S
                                /\ k \in S => ~Passed(d, k)
    BY <1>5 DEF ReadKeys
  <2>3. PICK u : u = [k \in KeysOf(d) |-> IF Has(d, k) \/ k \notin S THEN tab[d][k]
                                         ELSE st[d][k]]
    OBVIOUS
  <2>4. tab[d] \in [KeysOf(d) -> Value] /\ st[d] \in [KeysOf(d) -> Value]
    BY DEF BootTypes, IsTables, Value
  <2>5. /\ u \in [KeysOf(d) -> Value]
        /\ \A k \in KeysOf(d) : u[k] = IF Has(d, k) \/ k \notin S THEN tab[d][k] ELSE st[d][k]
    BY <2>3, <2>4
  <2>6. Reaches(d, u)'
    <3>1. \A k \in S : st[d][k] # Absent => \E x \in Stored(d, S) : x[1] = k
      BY StoredFields
    <3>2. \A x \in Stored(d, S) : x[1] \in S /\ x[2] = st[d][x[1]]
      BY StoredFields
    <3>3. \A k \in KeysOf(d) :
            /\ Has(d, k) => u[k] = tab[d][k]
            /\ ~Has(d, k) /\ (\A x \in Stored(d, S) : x[1] # k) => u[k] = Absent
      BY <2>5, <3>1 DEF Has
    <3>4. \A x \in Stored(d, S) : ~Has(d, x[1]) => u[x[1]] = x[2]
      BY <2>5, <3>2
    <3> QED
      BY <1>1, <1>2, <2>1, <2>5, <3>3, <3>4 DEF Reaches
  <2>7. ASSUME NEW k \in KeysOf(d), k \in S
        PROVE  Settled(refused, evts, d, k, st[d][k], h[0][k], u[k])
    <3>1. Early(refused, d, k, h[0][k], tab[d][k])
      BY <1>3, <2>1, <2>7 DEF TableAt
    <3>2. /\ ~Waits(evts, d, k) => h[0][k] = st[d][k]
          /\ ~Removed(evts, d, k) /\ h[0][k] # Absent => st[d][k] # Absent
      BY ChainKey DEF BootTypes
    <3>3. Has(d, k) <=> tab[d][k] # Absent
      BY DEF Has
    <3>4. Same(refused, d, k, st[d][k], st[d][k])
      BY DEF Same
    <3>5. CASE Has(d, k)
      <4>1. /\ u[k] = tab[d][k] /\ u[k] # Absent
            /\ Same(refused, d, k, u[k], h[0][k]) /\ h[0][k] # Absent
        BY <2>5, <3>1, <3>3, <3>5 DEF Early, Same
      <4> QED
        BY <3>2, <4>1 DEF Settled
    <3>6. CASE ~Has(d, k)
      <4>1. u[k] = st[d][k]
        BY <2>5, <2>7, <3>6
      <4> QED
        BY <3>2, <3>4, <4>1 DEF Settled
    <3> QED
      BY <3>5, <3>6
  <2>8. ASSUME NEW k \in KeysOf(d), k \notin S
        PROVE  IF Passed(d, k) THEN Settled(refused, evts, d, k, st[d][k], h[0][k], u[k])
               ELSE Early(refused, d, k, h[0][k], u[k])
    <3>1. u[k] = t[k]
      BY <1>3, <2>5, <2>8
    <3> QED
      BY <3>1 DEF TableAt
  <2>9. TableAt(d, h, u)'
    <3>1. \A k \in KeysOf(d) :
             IF Passed(d, k)' THEN Settled(refused, evts, d, k, st[d][k], h[0][k], u[k])
             ELSE Early(refused, d, k, h[0][k], u[k])
      BY <2>1, <2>7, <2>8
    <3> QED
      BY <1>1, <3>1 DEF TableAt
  <2> QED
    BY <2>6, <2>9
<1> QED
  BY <1>1, <1>4, <1>5

\* load adds an object, or goes on with the binds or the applied plugins.
LEMMA LoadSteps ==
    ASSUME BootTypes, LoadObject \/ ReadBinds \/ LoadBind \/ LoadApplied
    PROVE  /\ loader'.at = loader.at /\ loader.at \in 1..8 /\ UNCHANGED <<st, evts, refused>>
           /\ loader'.rest = loader.rest
<1>1. CASE LoadObject
  BY <1>1, LoadObjectFields DEF store
<1>2. CASE ReadBinds \/ LoadBind
  <2>1. loader.rest = {} /\ loader'.rest = {}
    BY <1>2, LoadBindsFields, LoaderFields DEF LoaderTypes
  <2> QED
    BY <1>2, <2>1, LoadBindsFields DEF store
<1>3. CASE LoadApplied
  BY <1>3, LoadAppliedFields, LoaderFields DEF store
<1> QED
  BY <1>1, <1>2, <1>3

LEMMA TableLoad ==
    ASSUME BootTypes, NEW d \in Tables, d # "apis",
           LoadObject \/ ReadBinds \/ LoadBind \/ LoadApplied,
           NEW h, NEW t, Reaches(d, t), TableAt(d, h, t)
    PROVE  Reaches(d, t)' /\ TableAt(d, h, t)'
<1>1. /\ loader'.at = loader.at /\ loader.at \in 1..8 /\ UNCHANGED <<st, evts, refused>>
      /\ loader'.rest = loader.rest
  BY LoadSteps
<1>2. (\A k : Passed(d, k)' <=> Passed(d, k)) /\ Dir' = Dir
  BY <1>1 DEF HasRead, Dir, Passed
<1>3. TableAt(d, h, t)'
  BY <1>1, <1>2 DEF TableAt
<1>4. CASE Dir # d
  <2>1. Rest(d) = {} /\ Rest(d)' = {}
    BY <1>1, <1>2, <1>4 DEF Rest
  <2>2. tab'[d] = tab[d]
    BY <1>4, LoadObjectFields, LoadBindsFields, LoadAppliedFields
  <2>3. \A k : Has(d, k)' <=> Has(d, k)
    BY <2>2 DEF Has
  <2>4. Reaches(d, t)'
    BY <2>1, <2>2, <2>3 DEF Reaches
  <2> QED
    BY <1>3, <2>4
<1>5. CASE Dir = d
  <2>1. LoadObject
    <3>1. loader.at \notin {4, 8}
      BY <1>1, <1>5, LoaderFields
    <3> QED
      BY <3>1, LoadBindsFields, LoadAppliedFields
  <2>2. PICK x \in loader.todo :
           /\ x \in KeysOf(d) \X Version /\ loader'.todo = loader.todo \ {x}
           /\ tab'[d] = Added(d, x[1], x[2])
    BY <1>5, <2>1, LoadObjectFields
  <2>3. x[1] \in KeysOf(d) /\ x[2] \in Version /\ x[2] # Absent
    BY <2>2
  <2>4. Rest(d) = loader.todo /\ Rest(d)' = loader.todo \ {x}
    BY <1>1, <1>2, <1>5, <2>2 DEF Rest
  <2>5. tab[d] \in [KeysOf(d) -> Value]
    BY DEF BootTypes, IsTables, Value
  <2>6. \A k \in KeysOf(d) :
           tab'[d][k] = IF k = x[1] /\ tab[d][k] = Absent THEN x[2] ELSE tab[d][k]
    BY <2>2, <2>3, <2>5 DEF Added, Has
  <2>7. \A k \in KeysOf(d) : Has(d, k)' <=> Has(d, k) \/ k = x[1]
    BY <2>3, <2>6 DEF Has
  <2>8. ~Has(d, x[1]) => t[x[1]] = x[2]
    BY <2>2, <2>4 DEF Reaches
  <2>9. \A k \in KeysOf(d) : Has(d, k)' => t[k] = tab'[d][k]
    BY <2>6, <2>7, <2>8 DEF Reaches, Has
  <2>10. \A k \in KeysOf(d) :
            ~Has(d, k)' /\ (\A y \in Rest(d)' : y[1] # k) => t[k] = Absent
    BY <2>4, <2>7 DEF Reaches
  <2>11. \A y \in Rest(d) : y[1] \in KeysOf(d)
    <3>1. \A y \in Rest(d) : y \in KeysOf(d) \X Version
      BY RestFields
    <3> QED
      BY <3>1
  <2>12. \A y \in Rest(d)' : ~Has(d, y[1])' => t[y[1]] = y[2]
    BY <2>4, <2>7, <2>11 DEF Reaches
  <2>13. Reaches(d, t)'
    BY <2>9, <2>10, <2>12 DEF Reaches
  <2> QED
    BY <1>3, <2>13
<1> QED
  BY <1>4, <1>5

\* The steps of a process that goes on.
LEMMA OnSteps ==
    ASSUME BootTypes, WatchInv, [Next]_vars, On', ~Start
    PROVE  On /\ flaws \subseteq flaws'
<1>1. ~Kill
  BY DEF Kill, On
<1>2. On
  <2>1. CASE ReadDir \/ ReadFails
    BY <2>1, ReadSteps
  <2>2. CASE ~ReadDir /\ ~ReadFails
    BY <1>1, <2>2, AdminSteps DEF Next, Load, On, Register, WatchBreaks, Receive, LoadObject,
         ReadBinds, LoadBind, LoadApplied, vars, Changes
  <2> QED
    BY <2>1, <2>2
<1>3. CASE Administer
  BY <1>2, <1>3, AdminTells
<1>4. CASE Receive
  BY <1>2, <1>4, ReceiveFields
<1>5. CASE ReadDir \/ ReadFails
  BY <1>2, <1>5, ReadSteps
<1>6. CASE ~Administer /\ ~Receive /\ ~ReadDir /\ ~ReadFails
  BY <1>1, <1>2, <1>6 DEF Next, Load, Register, WatchBreaks, LoadObject, ReadBinds, LoadBind,
       LoadApplied, vars
<1> QED
  BY <1>3, <1>4, <1>5, <1>6

LEMMA TableKept ==
    ASSUME BootTypes, WatchInv, NEW d \in Tables, d # "apis", TableInv(d), [Next]_vars
    PROVE  TableInv(d)'
<1> DEFINE Goal == \E g, u : Chain(evts', d, st'[d], g) /\ Reaches(d, u)' /\ TableAt(d, g, u)'
<1> SUFFICES ASSUME On', Undisturbed(d)' PROVE Goal
  BY DEF TableInv
<1>1. CASE Start
  <2>1. /\ evts' = <<>> /\ loader'.at = 0 /\ st' = st /\ IsTables(tab)'
        /\ \A k \in KeysOf(d) : tab'[d][k] = Absent
    BY <1>1, FreshFields DEF Start, store
  <2>2. PICK g : g = Single(st[d])
    OBVIOUS
  <2>3. Chain(<<>>, d, st[d], g)
    <3>1. st[d] \in [KeysOf(d) -> Value]
      BY DEF BootTypes, IsTables, Value
    <3> QED
      BY <2>2, <3>1, ChainSingle
  <2>4. PICK u : u = tab'[d]
    OBVIOUS
  <2>5. (\A k : ~Passed(d, k)') /\ Rest(d)' = {}
    BY <2>1 DEF HasRead, Rest, Passed
  <2>6. Reaches(d, u)'
    <3>1. tab'[d] \in [KeysOf(d) -> Value]
      BY <2>1 DEF IsTables, Value
    <3> QED
      BY <2>1, <2>4, <2>5, <3>1 DEF Reaches, Has
  <2>7. TableAt(d, g, u)'
    BY <2>1, <2>4, <2>5 DEF TableAt, Early
  <2> QED
    BY <2>1, <2>3, <2>6, <2>7
<1>2. ASSUME ~Start PROVE Goal
  <2>1. On /\ flaws \subseteq flaws'
    BY <1>2, OnSteps
  <2>2. PICK h, t : Chain(evts, d, st[d], h) /\ Reaches(d, t) /\ TableAt(d, h, t)
    BY <2>1, UndisturbedGrows DEF TableInv
  <2>3. CASE Administer
    BY <2>1, <2>2, <2>3, TableAdmin
  <2>4. CASE Receive
    BY <2>2, <2>4, TableReceive
  <2>5. CASE ReadDir \/ ReadFails
    <3>1. evts' = evts /\ st' = st
      BY <2>5, ReadSteps DEF store
    <3>2. \E u : Reaches(d, u)' /\ TableAt(d, h, u)'
      BY <2>2, <2>5, TableRead
    <3> QED
      BY <2>2, <3>1, <3>2
  <2>6. CASE LoadObject \/ ReadBinds \/ LoadBind \/ LoadApplied
    <3>1. evts' = evts /\ st' = st
      BY <2>6, LoadObjectFields, LoadBindsFields, LoadAppliedFields DEF store
    <3>2. Reaches(d, t)' /\ TableAt(d, h, t)'
      BY <2>2, <2>6, TableLoad
    <3> QED
      BY <2>2, <3>1, <3>2
  <2>7. CASE Register \/ WatchBreaks \/ UNCHANGED vars
    <3>1. evts' = evts /\ st' = st /\ tab' = tab /\ loader' = loader /\ refused' = refused
      BY <2>7 DEF Register, WatchBreaks, vars, store, tables
    <3>2. Rest(d)' = Rest(d) /\ \A k : Passed(d, k)' <=> Passed(d, k)
      BY <3>1 DEF Rest, Dir, HasRead, Passed
    <3>3. Reaches(d, t)' /\ TableAt(d, h, t)'
      BY <2>2, <3>1, <3>2 DEF Reaches, TableAt, Has
    <3> QED
      BY <2>2, <3>1, <3>3
  <2>8. CASE Kill
    BY <2>8 DEF Kill, On
  <2> QED
    BY <1>2, <2>3, <2>4, <2>5, <2>6, <2>7, <2>8 DEF Next, Load
<1> QED
  BY <1>1, <1>2

-----------------------------------------------------------------------------
(* The APIs.                                                               *)

OneUp(p) == \A a, b \in API : p[a] = Up /\ p[b] = Up => a = b

\* The administration server keeps two APIs from being up.
StoreUp == OneUp(st["apis"])

LEMMA ChangeUp ==
    ASSUME BootTypes, StoreUp, NEW E, IsChange(E)
    PROVE  StoreUp'
<1>1. "apis" \in Tables /\ st["apis"] \in [API -> Value]
  BY KeysFields DEF BootTypes, IsTables, Value
<1>2. CASE E[1].src # "apis"
  BY <1>1, <1>2 DEF IsChange, StoreUp
<1>3. CASE E[1].src = "apis"
  <2>1. /\ st'["apis"] = [st["apis"] EXCEPT ![E[1].key] = E[1].value]
        /\ E[1].value = Up => \A b \in API : b # E[1].key => st["apis"][b] # Up
    BY <1>1, <1>3 DEF IsChange
  <2>2. \A b \in API : st'["apis"][b] = IF b = E[1].key THEN E[1].value ELSE st["apis"][b]
    BY <1>1, <2>1
  <2> QED
    BY <2>1, <2>2 DEF StoreUp, OneUp
<1> QED
  BY <1>2, <1>3

LEMMA UpKept ==
    ASSUME BootTypes, StoreUp, [Next]_vars
    PROVE  StoreUp'
<1>1. CASE Administer
  BY <1>1, AdminSteps, ChangeUp
<1>2. CASE ~Administer
  <2>1. st' = st
    BY <1>2, ReceiveFields, ReadSteps, LoadObjectFields, LoadBindsFields,
       LoadAppliedFields DEF Next, Load, Start, Kill, Register, WatchBreaks, store, vars
  <2> QED
    BY <2>1 DEF StoreUp
<1> QED
  BY <1>1, <1>2

\* An API that is up in the table is the one that the route finds.
RouteInv == \A a \in API : tab["apis"][a] = Up => route = a

LEMMA RouteSet ==
    ASSUME BootTypes, RouteInv, NEW a \in API, NEW v \in Value,
           tab'["apis"] = [tab["apis"] EXCEPT ![a] = v],
           \/ Routes({a}) /\ OtherUp(a) = {}
           \/ Routes(OtherUp(a)) /\ v # Up
    PROVE  RouteInv'
<1>1. tab["apis"] \in [API -> Value]
  BY KeysFields DEF BootTypes, IsTables, Value
<1>2. \A b \in API : tab'["apis"][b] = IF b = a THEN v ELSE tab["apis"][b]
  BY <1>1
<1>3. \A b \in API : b # a /\ tab["apis"][b] = Up => b \in OtherUp(a) /\ route = b
  BY DEF OtherUp, RouteInv
<1>4. \A b \in OtherUp(a) : route = b
  BY DEF OtherUp, RouteInv
<1>5. CASE Routes({a}) /\ OtherUp(a) = {}
  <2>1. route' = a
    BY <1>5 DEF Routes
  <2> QED
    BY <1>2, <1>3, <1>5, <2>1 DEF RouteInv
<1>6. CASE Routes(OtherUp(a)) /\ v # Up
  <2>1. OtherUp(a) # {} => (CHOOSE b \in OtherUp(a) : TRUE) \in OtherUp(a)
    OBVIOUS
  <2>2. \A b \in OtherUp(a) : route' = b
    BY <1>4, <1>6, <2>1 DEF Routes
  <2> QED
    BY <1>2, <1>3, <1>6, <2>2 DEF RouteInv
<1> QED
  BY <1>5, <1>6

LEMMA RouteAdded ==
    ASSUME BootTypes, RouteInv, NEW a \in API, NEW v \in Version, addAPI(a, v)
    PROVE  RouteInv'
<1>1. "apis" \in Tables /\ KeysOf("apis") = API /\ v \in Value
  BY KeysFields DEF Value
<1>2. CASE Has("apis", a) \/ (v = Up /\ OtherUp(a) # {})
  BY <1>2 DEF addAPI, RouteInv
<1>3. CASE ~(Has("apis", a) \/ (v = Up /\ OtherUp(a) # {}))
  <2>1. With("apis", a, v) /\ Routes(IF v = Up THEN {a} ELSE OtherUp(a))
    BY <1>3 DEF addAPI
  <2>2. tab'["apis"] = [tab["apis"] EXCEPT ![a] = v]
    BY <1>1, <2>1, WithFields
  <2> QED
    BY <1>1, <1>3, <2>1, <2>2, RouteSet
<1> QED
  BY <1>2, <1>3

LEMMA RouteUpdated ==
    ASSUME BootTypes, RouteInv, NEW a \in API, NEW v \in Version, updateAPI(a, v)
    PROVE  RouteInv'
<1>1. "apis" \in Tables /\ KeysOf("apis") = API /\ v \in Value
  BY KeysFields DEF Value
<1>2. CASE ~Has("apis", a) \/ OtherUp(a) # {}
  BY <1>2 DEF updateAPI, RouteInv
<1>3. CASE ~(~Has("apis", a) \/ OtherUp(a) # {})
  <2>1. With("apis", a, v) /\ Routes({a}) /\ OtherUp(a) = {}
    BY <1>3 DEF updateAPI
  <2>2. tab'["apis"] = [tab["apis"] EXCEPT ![a] = v]
    BY <1>1, <2>1, WithFields
  <2> QED
    BY <1>1, <2>1, <2>2, RouteSet
<1> QED
  BY <1>2, <1>3

LEMMA RouteRemoved ==
    ASSUME BootTypes, RouteInv, NEW a \in API, removeAPI(a)
    PROVE  RouteInv'
<1>1. "apis" \in Tables /\ KeysOf("apis") = API /\ Absent \in Value /\ Absent # Up
  BY KeysFields DEF Value
<1>2. CASE ~Has("apis", a)
  BY <1>2 DEF removeAPI, RouteInv
<1>3. CASE Has("apis", a)
  <2>1. With("apis", a, Absent) /\ Routes(OtherUp(a))
    BY <1>3 DEF removeAPI
  <2>2. tab'["apis"] = [tab["apis"] EXCEPT ![a] = Absent]
    BY <1>1, <2>1, WithFields
  <2> QED
    BY <1>1, <2>1, <2>2, RouteSet
<1> QED
  BY <1>2, <1>3

LEMMA RouteKept ==
    ASSUME BootTypes, RouteInv, [Next]_vars
    PROVE  RouteInv'
<1>a. tab'["apis"] = tab["apis"] /\ route' = route => RouteInv'
  BY DEF RouteInv
<1>b. "apis" \in Tables /\ KeysOf("apis") = API
  BY KeysFields
<1>1. CASE Administer
  <2>1. PICK E \in Seq(Event) : IsChange(E) /\ Changes(E)
    BY <1>1, AdminSteps
  <2> QED
    BY <1>a, <2>1, Zenon DEF Changes, tables
<1>2. CASE Start \/ Kill
  <2>1. \A a \in API : tab'["apis"][a] = Absent
    BY <1>2, <1>b, FreshFields DEF Start, Kill
  <2> QED
    BY <2>1 DEF RouteInv
<1>3. CASE Receive
  <2> DEFINE e == evts[1]
  <2>1. evts \in Seq(Event) /\ evts # <<>>
    BY <1>3 DEF Receive, BootTypes
  <2>2. e = Head(evts) /\ e \in Event
    BY <2>1
  <2> HIDE DEF e
  <2>3. /\ e.src = "apis" => e.key \in API /\ (e.new => e.value \in Version)
                             /\ (~e.new /\ e.value # Absent => e.value \in Version)
    BY <1>b, <2>2, EventFields
  <2>4. CASE e.src = "apis"
    <3>1. \/ e.new /\ addAPI(e.key, e.value)
          \/ ~e.new /\ e.value # Absent /\ updateAPI(e.key, e.value)
          \/ e.value = Absent /\ removeAPI(e.key)
      BY <1>3, <2>2, <2>4 DEF Receive
    <3> QED
      BY <2>3, <2>4, <3>1, RouteAdded, RouteUpdated, RouteRemoved
  <2>5. CASE e.src # "apis"
    <3>1. route' = route
      BY <1>3, <2>2, <2>5 DEF Receive, bindEvent, updateAppliedPlugin, addObject, updateObject,
           removeObject, updatePlugin, removePlugin, Stops, tables
    <3>2. tab'["apis"] = tab["apis"]
      BY <1>3, <1>b, <2>5, ReceiveFields DEF e
    <3> QED
      BY <1>a, <3>1, <3>2
  <2> QED
    BY <2>4, <2>5
<1>4. CASE LoadObject
  <2>1. PICK x \in loader.todo :
        /\ Dir \in Tables
        /\ IF Dir = "apis" THEN addAPI(x[1], x[2]) ELSE addObject(Dir, x[1], x[2])
    BY <1>4, LoadObjectFields DEF LoadObject
  <2>2. CASE Dir = "apis"
    <3>2. loader.at \in 1..7 /\ loader.at \notin {0, 4, 8}
      <4>1. loader.at \in 1..7
        BY <1>4, LoadObjectFields
      <4> QED
        BY <2>1, <4>1, LoaderFields
    <3>3. x[1] \in API /\ x[2] \in Version
      <4>1. x \in API \X Version
        BY <1>b, <2>2, <3>2 DEF BootTypes, LoaderTypes
      <4> QED
        BY <4>1
    <3> QED
      BY <2>1, <2>2, <3>3, RouteAdded
  <2>3. CASE Dir # "apis"
    <3>1. tab'["apis"] = tab["apis"]
      BY <1>4, <1>b, <2>3, LoadObjectFields
    <3>2. route' = route
      BY <2>1, <2>3 DEF addObject
    <3> QED
      BY <1>a, <3>1, <3>2
  <2> QED
    BY <2>2, <2>3
<1>5. CASE \/ Register \/ WatchBreaks \/ ReadDir \/ ReadFails \/ ReadBinds \/ LoadBind
           \/ LoadApplied \/ UNCHANGED vars
  <2>1. tab' = tab /\ route' = route
    BY <1>5, ReadSteps, LoadBindsFields, LoadAppliedFields
       DEF Register, WatchBreaks, tables, vars
  <2> QED
    BY <1>a, <2>1
<1> QED
  BY <1>1, <1>2, <1>3, <1>4, <1>5 DEF Next, Load

\* Of p, what the directory of APIs held before the queued events: the APIs of the
\* table are in it and up alike, and load has those of the others to add that it has
\* read.
APIsAt(p) ==
    /\ \A a \in API : Has("apis", a) =>
          p[a] # Absent /\ (tab["apis"][a] = Up <=> p[a] = Up)
    /\ \A x \in Rest("apis") : p[x[1]] = x[2]
    /\ \A a \in API : Passed("apis", a) /\ p[a] # Absent =>
          Has("apis", a) \/ \E x \in Rest("apis") : x[1] = a

\* At no time of the history two APIs were up.
AllUp(q, h) == \A i \in 0..Len(q) : OneUp(h[i])

APIsInv ==
    On /\ Undisturbed("apis") =>
        \E h : Chain(evts, "apis", st["apis"], h) /\ AllUp(evts, h) /\ APIsAt(h[0])

LEMMA AllUpShifts ==
    ASSUME NEW q \in Seq(Event), q # <<>>, NEW h, AllUp(q, h)
    PROVE  AllUp(Tail(q), Shifted(Len(q), h))
<1>1. Len(q) \in Nat \ {0} /\ Len(Tail(q)) = Len(q) - 1
  BY TailFields
<1>2. \A i \in 0..(Len(q) - 1) : Shifted(Len(q), h)[i] = h[i + 1] /\ i + 1 \in 0..Len(q)
  BY <1>1 DEF Shifted
<1> QED
  BY <1>1, <1>2 DEF AllUp

LEMMA AllUpGrows ==
    ASSUME NEW q \in Seq(Event), NEW h, AllUp(q, h), NEW E \in Seq(Event), E # <<>>,
           NEW x, OneUp(x)
    PROVE  AllUp(q \o E, Grown(Len(q), h, Len(E), x))
<1>1. Len(q) \in Nat /\ Len(E) \in Nat \ {0} /\ Len(q \o E) = Len(q) + Len(E)
  BY AppendFields
<1>2. \A i \in 0..(Len(q) + Len(E)) :
         Grown(Len(q), h, Len(E), x)[i] = IF i <= Len(q) THEN h[i] ELSE x
  BY DEF Grown
<1>3. \A i \in 0..(Len(q) + Len(E)) : i <= Len(q) => i \in 0..Len(q)
  BY <1>1
<1> QED
  BY <1>1, <1>2, <1>3 DEF AllUp

\* The table of APIs after an event: a conflict of the table would be one of the
\* store, so the event is applied where it can be.
LEMMA APIsReceived ==
    ASSUME BootTypes, NEW e \in Event, e.src = "apis", tab'["apis"] = ReceivedAPI(e),
           NEW p \in [API -> Value], NEW r \in [API -> Value], OneUp(p), OneUp(r),
           r = [p EXCEPT ![e.key] = e.value], e.new <=> p[e.key] = Absent,
           \A a \in API : Has("apis", a) =>
              p[a] # Absent /\ (tab["apis"][a] = Up <=> p[a] = Up)
    PROVE  /\ \A a \in API : tab'["apis"][a] # Absent =>
                 r[a] # Absent /\ (tab'["apis"][a] = Up <=> r[a] = Up)
           /\ \A a \in API : (p[a] # Absent => Has("apis", a)) =>
                 (r[a] # Absent => tab'["apis"][a] # Absent)
<1>1. /\ e.key \in API /\ e.new \in BOOLEAN /\ e.value \in Value
      /\ (e.new => e.value # Absent) /\ tab["apis"] \in [API -> Value]
  BY EventFields, KeysFields DEF BootTypes, IsTables, Value
<1>2. \A a \in API : r[a] = IF a = e.key THEN e.value ELSE p[a]
  BY <1>1
<1>3. ASSUME NEW b \in OtherUp(e.key)
      PROVE  b \in API /\ b # e.key /\ p[b] = Up /\ r[b] = Up
  BY <1>2, <1>3 DEF OtherUp, Has
<1>4. OtherUp(e.key) # {} => p[e.key] # Up /\ e.value # Up
  <2> SUFFICES ASSUME NEW b \in OtherUp(e.key) PROVE p[e.key] # Up /\ e.value # Up
    OBVIOUS
  <2>1. b \in API /\ b # e.key /\ p[b] = Up /\ r[b] = Up /\ r[e.key] = e.value
    BY <1>1, <1>2, <1>3
  <2> QED
    BY <1>1, <2>1 DEF OneUp
<1>5. CASE e.new
  <2>1. ~Has("apis", e.key) /\ ~(e.value = Up /\ OtherUp(e.key) # {})
    BY <1>1, <1>4, <1>5
  <2>2. tab'["apis"] = [tab["apis"] EXCEPT ![e.key] = e.value]
    BY <1>5, <2>1 DEF ReceivedAPI, AddedAPI
  <2>3. \A a \in API : tab'["apis"][a] = IF a = e.key THEN e.value ELSE tab["apis"][a]
    BY <1>1, <2>2
  <2> QED
    BY <1>1, <1>2, <1>5, <2>3 DEF Has
<1>6. CASE ~e.new /\ e.value = Absent
  <2>1. tab'["apis"] = [tab["apis"] EXCEPT ![e.key] = Absent]
    BY <1>6 DEF ReceivedAPI
  <2>2. \A a \in API : tab'["apis"][a] = IF a = e.key THEN Absent ELSE tab["apis"][a]
    BY <1>1, <2>1
  <2> QED
    BY <1>1, <1>2, <1>6, <2>2 DEF Has
<1>7. CASE ~e.new /\ e.value # Absent /\ Has("apis", e.key) /\ OtherUp(e.key) = {}
  <2>1. tab'["apis"] = [tab["apis"] EXCEPT ![e.key] = e.value]
    BY <1>7 DEF ReceivedAPI, UpdatedAPI
  <2>2. \A a \in API : tab'["apis"][a] = IF a = e.key THEN e.value ELSE tab["apis"][a]
    BY <1>1, <2>1
  <2> QED
    BY <1>1, <1>2, <1>7, <2>2 DEF Has
<1>8. CASE ~e.new /\ e.value # Absent /\ (~Has("apis", e.key) \/ OtherUp(e.key) # {})
  <2>1. tab'["apis"] = tab["apis"]
    BY <1>8 DEF ReceivedAPI, UpdatedAPI
  <2>2. Has("apis", e.key) => tab["apis"][e.key] # Up /\ e.value # Up
    BY <1>1, <1>4, <1>8
  <2> QED
    BY <1>1, <1>2, <1>8, <2>1, <2>2 DEF Has
<1> QED
  BY <1>1, <1>5, <1>6, <1>7, <1>8

LEMMA APIsReceive ==
    ASSUME BootTypes, On', Undisturbed("apis")', Receive,
           NEW h, Chain(evts, "apis", st["apis"], h), AllUp(evts, h), APIsAt(h[0])
    PROVE  APIsAt(h[1])'
<1> DEFINE e == evts[1]
<1>1. /\ evts \in Seq(Event) /\ evts # <<>> /\ e \in Event /\ loader' = loader
      /\ \A f \in Tables : f # e.src => tab'[f] = tab[f]
      /\ Stopped(e) \/ Handled(e)
      /\ flaws' = IF Crosses(e) THEN flaws \union {<<"crossed", e.src>>} ELSE flaws
  BY ReceiveFields DEF BootTypes
<1>2. Handled(e)
  BY <1>1 DEF Stopped, Asserts, On
<1>a. "apis" \in Tables /\ KeysOf("apis") = API
  BY KeysFields
<1>3. /\ h[0] \in [API -> Value] /\ h[1] \in [API -> Value]
      /\ e.src = "apis" => /\ h[1] = [h[0] EXCEPT ![e.key] = e.value]
                           /\ e.new <=> h[0][e.key] = Absent
      /\ e.src # "apis" => h[1] = h[0]
  BY <1>1, <1>a, ChainHead
<1>4. OneUp(h[0]) /\ OneUp(h[1])
  <2>1. 0 \in 0..Len(evts) /\ 1 \in 0..Len(evts)
    BY <1>1
  <2> QED
    BY <2>1 DEF AllUp
<1> HIDE DEF e
<1>5. Rest("apis")' = Rest("apis") /\ \A a \in API : Passed("apis", a)' <=> Passed("apis", a)
  BY <1>1 DEF Rest, Dir, HasRead, Passed
<1>6. CASE e.src # "apis"
  <2>1. tab'["apis"] = tab["apis"] /\ h[1] = h[0]
    BY <1>1, <1>3, <1>6, <1>a
  <2> QED
    BY <1>5, <2>1 DEF APIsAt, Has
<1>7. CASE e.src = "apis"
  <2>1. Rest("apis") = {}
    <3>1. <<"crossed", "apis">> \notin flaws'
      BY DEF Undisturbed
    <3> QED
      BY <1>1, <1>7, <3>1 DEF Crosses, Rest, Idle
  <2>2. tab'["apis"] = ReceivedAPI(e)
    BY <1>2, <1>7 DEF Handled
  <2>3. \A a \in API : Has("apis", a) =>
           h[0][a] # Absent /\ (tab["apis"][a] = Up <=> h[0][a] = Up)
    BY DEF APIsAt
  <2>4. /\ \A a \in API : tab'["apis"][a] # Absent =>
              h[1][a] # Absent /\ (tab'["apis"][a] = Up <=> h[1][a] = Up)
        /\ \A a \in API : (h[0][a] # Absent => Has("apis", a)) =>
              (h[1][a] # Absent => tab'["apis"][a] # Absent)
    BY <1>1, <1>3, <1>4, <1>7, <2>2, <2>3, APIsReceived
  <2>5. \A a \in API : Passed("apis", a) /\ h[0][a] # Absent => Has("apis", a)
    BY <2>1 DEF APIsAt
  <2> QED
    BY <1>5, <2>1, <2>4, <2>5 DEF APIsAt, Has
<1> QED
  BY <1>6, <1>7

LEMMA APIsAdmin ==
    ASSUME BootTypes, WatchInv, StoreUp', On, Undisturbed("apis")', Administer,
           NEW h, Chain(evts, "apis", st["apis"], h), AllUp(evts, h), APIsAt(h[0])
    PROVE  \E g : Chain(evts', "apis", st'["apis"], g) /\ AllUp(evts', g) /\ APIsAt(g[0])'
<1>1. /\ IsTables(st)' /\ UNCHANGED <<proxy, watch, tab, loader>>
  BY AdminTells
<1>2. PICK E \in Seq(Event) : IsChange(E) /\ ChangeSeen(E)
  BY AdminTells
<1>a. evts \in Seq(Event) /\ E # <<>> /\ "apis" \in Tables /\ KeysOf("apis") = API
  BY <1>2, KeysFields DEF BootTypes, IsChange
<1>b. /\ Told(E, "apis", st["apis"], st'["apis"]) /\ st'["apis"] \in [KeysOf("apis") -> Value]
      /\ OneUp(st'["apis"])
  BY <1>1, <1>2, <1>a, ChangeTells DEF StoreUp
<1>c. Rest("apis")' = Rest("apis") /\ \A a \in API : Passed("apis", a)' <=> Passed("apis", a)
  BY <1>1 DEF Rest, Dir, HasRead, Passed
<1>5. CASE watch = "on"
  <2>1. evts' = evts \o E
    BY <1>2, <1>5 DEF ChangeSeen
  <2>2. PICK g : g = Grown(Len(evts), h, Len(E), st'["apis"])
    OBVIOUS
  <2>3. Chain(evts \o E, "apis", st'["apis"], g)
    BY <1>a, <1>b, <2>2, ChainGrows
  <2>4. g[0] = h[0]
    <3>1. Len(evts) \in Nat /\ Len(E) \in Nat
      BY <1>a
    <3> QED
      BY <2>2, <3>1, GrownFirst
  <2>5. AllUp(evts \o E, g)
    BY <1>a, <1>b, <2>2, AllUpGrows
  <2>6. APIsAt(g[0])'
    BY <1>1, <1>c, <2>4 DEF APIsAt, Has
  <2> QED
    BY <2>1, <2>3, <2>5, <2>6
<1>6. CASE watch # "on" /\ E[1].src # "apis"
  <2>1. evts' = evts /\ st'["apis"] = st["apis"]
    BY <1>2, <1>6, <1>a DEF ChangeSeen, IsChange
  <2>2. APIsAt(h[0])'
    BY <1>1, <1>c DEF APIsAt, Has
  <2> QED
    BY <2>1, <2>2
<1>7. CASE watch # "on" /\ E[1].src = "apis"
  <2>1. /\ watch = "none" /\ evts = <<>> /\ evts' = <<>> /\ ~HasRead("apis")
    <3>1. <<"missed", "apis">> \notin flaws'
      BY DEF Undisturbed
    <3> QED
      BY <1>2, <1>7, <3>1 DEF ChangeSeen
  <2>2. PICK g : g = Single(st'["apis"])
    OBVIOUS
  <2>3. Chain(<<>>, "apis", st'["apis"], g) /\ g[0] = st'["apis"]
    BY <1>a, <1>b, <2>2, ChainSingle
  <2>4. AllUp(<<>>, g)
    <3>1. \A i \in 0..Len(<<>>) : i = 0
      OBVIOUS
    <3> QED
      BY <1>b, <2>3, <3>1 DEF AllUp
  <2>5. APIsAt(g[0])'
    <3>1. \A a \in API : ~Has("apis", a)
      BY <1>a, <2>1 DEF WatchInv
    <3>2. Rest("apis") = {}
      BY <2>1 DEF Rest, HasRead, Dir
    <3>3. \A a \in API : ~Passed("apis", a)
      BY <2>1 DEF Passed
    <3> QED
      BY <1>1, <1>c, <3>1, <3>2, <3>3 DEF APIsAt, Has
  <2> QED
    BY <2>1, <2>3, <2>4, <2>5
<1> QED
  BY <1>5, <1>6, <1>7

LEMMA APIsRead ==
    ASSUME BootTypes, Undisturbed("apis")', ReadDir \/ ReadFails,
           NEW h, Chain(evts, "apis", st["apis"], h), APIsAt(h[0])
    PROVE  APIsAt(h[0])'
<1>a. "apis" \in Tables /\ KeysOf("apis") = API /\ evts \in Seq(Event)
  BY KeysFields DEF BootTypes
<1>b. <<"missed", "apis">> \notin flaws' /\ <<"lagged", "apis">> \notin flaws'
  BY DEF Undisturbed
<1>1. /\ Rest("apis") = {} /\ UNCHANGED <<tab, st, evts>>
      /\ ReadOther("apis") \/ \E S \in SUBSET API : ReadKeys("apis", S)
  BY <1>a, <1>b, ReadOf DEF tables, store
<1>2. \A k : Has("apis", k)' <=> Has("apis", k)
  BY <1>1 DEF Has
<1>3. CASE ReadOther("apis")
  <2>1. Rest("apis")' = {} /\ \A k \in API : Passed("apis", k)' <=> Passed("apis", k)
    BY <1>a, <1>3 DEF ReadOther
  <2> QED
    BY <1>1, <1>2, <2>1 DEF APIsAt
<1>4. ASSUME NEW S \in SUBSET API, ReadKeys("apis", S) PROVE APIsAt(h[0])'
  <2>1. /\ Rest("apis")' = Stored("apis", S)
        /\ \A k \in API : Passed("apis", k)' <=> Passed("apis", k) \/ k \in S
        /\ \A i \in DOMAIN evts : evts[i].src # "apis"
    BY <1>a, <1>b, <1>4 DEF ReadKeys
  <2>2. h[0] = st["apis"]
    BY <1>a, <2>1, ChainQuiet
  <2>3. /\ \A k \in S : st["apis"][k] # Absent => \E x \in Stored("apis", S) : x[1] = k
        /\ \A x \in Stored("apis", S) : x[2] = st["apis"][x[1]]
    BY <1>a, StoredFields
  <2>4. \A a \in API : Passed("apis", a)' /\ h[0][a] # Absent =>
           Has("apis", a)' \/ \E x \in Rest("apis")' : x[1] = a
    BY <1>1, <1>2, <2>1, <2>2, <2>3 DEF APIsAt
  <2>5. \A a \in API : Has("apis", a)' =>
           h[0][a] # Absent /\ (tab'["apis"][a] = Up <=> h[0][a] = Up)
    BY <1>1, <1>2 DEF APIsAt
  <2>6. \A x \in Rest("apis")' : h[0][x[1]] = x[2]
    BY <2>1, <2>2, <2>3
  <2> QED
    BY <2>4, <2>5, <2>6 DEF APIsAt
<1> QED
  BY <1>1, <1>3, <1>4

LEMMA APIsLoad ==
    ASSUME BootTypes, LoadObject \/ ReadBinds \/ LoadBind \/ LoadApplied,
           NEW p \in [API -> Value], OneUp(p), APIsAt(p)
    PROVE  APIsAt(p)'
<1>1. /\ loader'.at = loader.at /\ loader.at \in 1..8 /\ loader'.rest = loader.rest
  BY LoadSteps
<1>2. /\ \A a \in API : Passed("apis", a)' <=> Passed("apis", a)
      /\ Dir' = Dir
  BY <1>1 DEF HasRead, Dir, Passed
<1>a. "apis" \in Tables /\ KeysOf("apis") = API
  BY KeysFields
<1>4. CASE Dir # "apis"
  <2>1. Rest("apis") = {} /\ Rest("apis")' = {}
    BY <1>1, <1>2, <1>4 DEF Rest
  <2>2. tab'["apis"] = tab["apis"]
    BY <1>4, <1>a, LoadObjectFields, LoadBindsFields, LoadAppliedFields
  <2> QED
    BY <1>2, <2>1, <2>2 DEF APIsAt, Has
<1>5. CASE Dir = "apis"
  <2>1. LoadObject
    <3>1. loader.at \notin {4, 8}
      BY <1>1, <1>5, <1>a, LoaderFields
    <3> QED
      BY <3>1, LoadBindsFields, LoadAppliedFields
  <2>2. PICK x \in loader.todo :
           /\ x \in API \X Version /\ loader'.todo = loader.todo \ {x}
           /\ tab'["apis"] = AddedAPI(x[1], x[2])
    BY <1>5, <1>a, <2>1, LoadObjectFields
  <2>3. x[1] \in API /\ x[2] \in Version /\ x[2] # Absent
    BY <2>2
  <2>4. Rest("apis") = loader.todo /\ Rest("apis")' = loader.todo \ {x}
    BY <1>1, <1>2, <1>5, <2>2 DEF Rest
  <2>5. tab["apis"] \in [API -> Value] /\ p[x[1]] = x[2]
    BY <1>a, <2>2, <2>4 DEF BootTypes, IsTables, Value, APIsAt
  <2>6. ~(x[2] = Up /\ OtherUp(x[1]) # {})
    <3> SUFFICES ASSUME x[2] = Up, NEW b \in OtherUp(x[1]) PROVE FALSE
      OBVIOUS
    <3>1. b \in API /\ b # x[1] /\ tab["apis"][b] = Up
      BY DEF OtherUp
    <3>2. p[b] = Up
      BY <3>1 DEF APIsAt, Has
    <3> QED
      BY <2>3, <2>5, <3>1, <3>2 DEF OneUp
  <2>7. \A k \in API :
           tab'["apis"][k] = IF k = x[1] /\ tab["apis"][k] = Absent THEN x[2]
                             ELSE tab["apis"][k]
    BY <2>2, <2>3, <2>5, <2>6 DEF AddedAPI, Has
  <2>8. \A k \in API : Has("apis", k)' <=> Has("apis", k) \/ k = x[1]
    BY <2>3, <2>7 DEF Has
  <2>9. \A a \in API : Has("apis", a)' =>
           p[a] # Absent /\ (tab'["apis"][a] = Up <=> p[a] = Up)
    BY <2>3, <2>5, <2>7, <2>8 DEF APIsAt, Has
  <2>10. \A a \in API : Passed("apis", a) /\ p[a] # Absent =>
           Has("apis", a)' \/ \E y \in Rest("apis")' : y[1] = a
    BY <2>4, <2>8 DEF APIsAt
  <2> QED
    BY <1>2, <2>4, <2>9, <2>10 DEF APIsAt
<1> QED
  BY <1>4, <1>5

LEMMA APIsKept ==
    ASSUME BootTypes, WatchInv, StoreUp, StoreUp', APIsInv, [Next]_vars
    PROVE  APIsInv'
<1> DEFINE Goal == \E g : Chain(evts', "apis", st'["apis"], g) /\ AllUp(evts', g) /\ APIsAt(g[0])'
<1> SUFFICES ASSUME On', Undisturbed("apis")' PROVE Goal
  BY DEF APIsInv
<1>a. "apis" \in Tables /\ KeysOf("apis") = API /\ evts \in Seq(Event)
      /\ st["apis"] \in [KeysOf("apis") -> Value]
  BY KeysFields DEF BootTypes, IsTables, Value
<1>1. CASE Start
  <2>1. /\ evts' = <<>> /\ loader'.at = 0 /\ st' = st
        /\ \A k \in API : tab'["apis"][k] = Absent
    BY <1>1, <1>a, FreshFields DEF Start, store
  <2>2. PICK g : g = Single(st["apis"])
    OBVIOUS
  <2>3. Chain(<<>>, "apis", st["apis"], g) /\ g[0] = st["apis"]
    BY <1>a, <2>2, ChainSingle
  <2>4. AllUp(<<>>, g)
    <3>1. \A i \in 0..Len(<<>>) : i = 0
      OBVIOUS
    <3> QED
      BY <2>3, <3>1 DEF AllUp, StoreUp
  <2>5. Rest("apis")' = {} /\ \A a \in API : ~Passed("apis", a)'
    BY <2>1 DEF HasRead, Rest, Passed
  <2>6. APIsAt(g[0])'
    BY <2>1, <2>5 DEF APIsAt, Has
  <2> QED
    BY <2>1, <2>3, <2>4, <2>6
<1>2. ASSUME ~Start PROVE Goal
  <2>1. On /\ flaws \subseteq flaws'
    BY <1>2, OnSteps
  <2>2. PICK h : Chain(evts, "apis", st["apis"], h) /\ AllUp(evts, h) /\ APIsAt(h[0])
    BY <2>1, UndisturbedGrows DEF APIsInv
  <2>3. CASE Administer
    BY <2>1, <2>2, <2>3, APIsAdmin
  <2>4. CASE Receive
    <3>1. evts # <<>> /\ evts' = Tail(evts) /\ st' = st
      BY <2>4, ReceiveFields DEF store
    <3>2. PICK g : g = Shifted(Len(evts), h)
      OBVIOUS
    <3>3. Chain(Tail(evts), "apis", st["apis"], g) /\ g[0] = h[1]
      BY <1>a, <2>2, <3>1, <3>2, ChainShifts
    <3>4. AllUp(Tail(evts), g)
      BY <1>a, <2>2, <3>1, <3>2, AllUpShifts
    <3>5. APIsAt(h[1])'
      BY <2>2, <2>4, APIsReceive
    <3>6. APIsAt(g[0])'
      BY <3>3, <3>5
    <3> QED
      BY <3>1, <3>3, <3>4, <3>6
  <2>5. CASE ReadDir \/ ReadFails
    <3>1. evts' = evts /\ st' = st
      BY <2>5, ReadSteps DEF store
    <3>2. APIsAt(h[0])'
      BY <2>2, <2>5, APIsRead
    <3> QED
      BY <2>2, <3>1, <3>2
  <2>6. CASE LoadObject \/ ReadBinds \/ LoadBind \/ LoadApplied
    <3>1. evts' = evts /\ st' = st
      BY <2>6, LoadObjectFields, LoadBindsFields, LoadAppliedFields DEF store
    <3>2. h[0] \in [API -> Value] /\ OneUp(h[0])
      <4>1. 0 \in 0..Len(evts)
        BY <1>a
      <4> QED
        BY <1>a, <2>2, <4>1 DEF Chain, AllUp
    <3>3. APIsAt(h[0])'
      BY <2>2, <2>6, <3>2, APIsLoad
    <3> QED
      BY <2>2, <3>1, <3>3
  <2>7. CASE Register \/ WatchBreaks \/ UNCHANGED vars
    <3>1. evts' = evts /\ st' = st /\ tab' = tab /\ loader' = loader
      BY <2>7 DEF Register, WatchBreaks, vars, store, tables
    <3>2. Rest("apis")' = Rest("apis") /\ \A a \in API : Passed("apis", a)' <=> Passed("apis", a)
      BY <3>1 DEF Rest, Dir, HasRead, Passed
    <3>3. APIsAt(h[0])'
      BY <2>2, <3>1, <3>2 DEF APIsAt, Has
    <3> QED
      BY <2>2, <3>1, <3>3
  <2>8. CASE Kill
    BY <2>8 DEF Kill, On
  <2> QED
    BY <1>2, <2>3, <2>4, <2>5, <2>6, <2>7, <2>8 DEF Next, Load
<1> QED
  BY <1>1, <1>2

SyncedIInv ==
    /\ BootTypes /\ WatchInv /\ StoreUp /\ RouteInv /\ APIsInv
    /\ \A d \in Tables \ {"apis"} : TableInv(d)

LEMMA SyncedInit == Init => SyncedIInv
<1> SUFFICES ASSUME Init PROVE SyncedIInv
  OBVIOUS
<1>1. BootTypes /\ ~On
  BY InitTypes DEF Init, On
<1>2. StoreUp
  <2>1. PICK c \in Contents : st = c.st
    BY DEF Init
  <2>2. \A a, b \in API : c.st["apis"][a] = Up /\ c.st["apis"][b] = Up => a = b
    BY ContentsAssumption
  <2> QED
    BY <2>1, <2>2 DEF StoreUp, OneUp
<1>3. RouteInv
  <2>1. "apis" \in Tables /\ KeysOf("apis") = API /\ tab = Nothing
    BY KeysFields DEF Init
  <2>2. \A a \in API : tab["apis"][a] = Absent
    BY <2>1 DEF Nothing
  <2> QED
    BY <2>2 DEF RouteInv
<1> QED
  BY <1>1, <1>2, <1>3 DEF SyncedIInv, WatchInv, APIsInv, TableInv

LEMMA SyncedStep == SyncedIInv /\ [Next]_vars => SyncedIInv'
<1> SUFFICES ASSUME SyncedIInv, [Next]_vars PROVE SyncedIInv'
  OBVIOUS
<1>1. /\ BootTypes /\ WatchInv /\ StoreUp /\ RouteInv /\ APIsInv
      /\ \A d \in Tables \ {"apis"} : TableInv(d)
  BY DEF SyncedIInv
<1>2. BootTypes' /\ WatchInv'
  BY <1>1, NextTypes, WatchKept
<1>3. StoreUp'
  BY <1>1, UpKept
<1>4. RouteInv'
  BY <1>1, RouteKept
<1>5. APIsInv'
  BY <1>1, <1>3, APIsKept
<1>6. ASSUME NEW d \in Tables \ {"apis"} PROVE TableInv(d)'
  BY <1>1, TableKept
<1> QED
  BY <1>2, <1>3, <1>4, <1>5, <1>6 DEF SyncedIInv

LEMMA SyncedImplied ==
    ASSUME SyncedIInv PROVE Synced
<1> SUFFICES ASSUME CaughtUp, NEW d \in Tables, Undisturbed(d) PROVE Follows(d)
  BY DEF Synced
<1>1. /\ BootTypes /\ RouteInv /\ APIsInv /\ (d # "apis" => TableInv(d))
  BY DEF SyncedIInv
<1>2. /\ On /\ evts = <<>> /\ evts \in Seq(Event) /\ loader.at = 8 /\ loader.todo = {}
      /\ loader.rest = {}
  BY <1>1, OrderFields DEF CaughtUp, Loaded, Idle, BootTypes
<1>3. Rest(d) = {} /\ \A k : Passed(d, k)
  <2>1. PICK i \in 1..8 : Order[i] = d
    BY OrderFields
  <2> QED
    BY <1>2, <2>1 DEF HasRead, Rest, Passed
<1>4. tab[d] \in [KeysOf(d) -> Value] /\ st[d] \in [KeysOf(d) -> Value]
  BY <1>1 DEF BootTypes, IsTables, Value
<1>5. CASE d = "apis"
  <2>1. PICK h : Chain(evts, "apis", st["apis"], h) /\ APIsAt(h[0])
    BY <1>1, <1>2, <1>5 DEF APIsInv
  <2>2. h[0] = st["apis"]
    BY <1>2, <2>1 DEF Chain
  <2>3. \A a \in API : (st["apis"][a] = Up) <=> (tab["apis"][a] = Up)
    BY <1>3, <1>5, <2>1, <2>2 DEF APIsAt, Has
  <2> QED
    BY <1>1, <1>5, <2>3 DEF Follows, RouteInv
<1>6. CASE d # "apis"
  <2>1. PICK h, t : Chain(evts, d, st[d], h) /\ Reaches(d, t) /\ TableAt(d, h, t)
    BY <1>1, <1>2, <1>6 DEF TableInv
  <2>2. t = tab[d]
    BY <1>1, <1>3, <2>1, ReachesNow
  <2>3. ASSUME NEW k \in KeysOf(d) PROVE Same(refused, d, k, tab[d][k], st[d][k])
    <3>1. ~Waits(evts, d, k) /\ ~Removed(evts, d, k)
      BY <1>2, EmptyQueue
    <3> QED
      BY <1>3, <2>1, <2>2, <3>1 DEF TableAt, Settled
  <2> QED
    BY <1>6, <2>3 DEF Follows, Same, Lax, Loose, Has
<1> QED
  BY <1>5, <1>6

\* A proxy that has loaded the store and received all events has the tables of the
\* store, for each directory where no event of an object came between its read and
\* its addition and no change was missed, and for the APIs if none changed while
\* load read them: for any objects, pages of any size, any interleaving of load with
\* the changes and the events, any order of kills, broken watches, failed reads and
\* engines that cannot be built.
THEOREM TablesAreSynced == Spec => []Synced
  BY SyncedInit, SyncedStep, SyncedImplied, PTL DEF Spec

=============================================================================
