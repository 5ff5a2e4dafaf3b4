----------------------------- MODULE MetaStore ------------------------------
(***************************************************************************)
(* The meta store of two gateways: the objects in etcd, the allocation of  *)
(* ids by several administration servers, and BackupTo, which copies one   *)
(* gateway into another through its administration server.                 *)
(*                                                                         *)
(* An object is its id: what it holds is the business of Wire.  An         *)
(* operation of a store holds the store's lock, which excludes the         *)
(* operations of the same server only; every etcd request in it is a step. *)
(* Etcd itself and the calls to the other gateway may fail.                *)
(***************************************************************************)
EXTENDS Integers, Sequences, FiniteSets

CONSTANTS
    Runner, Other,  \* administration servers of the source; Runner backs up
    Target, Peers,  \* administration servers of the target; the backup calls Target
    Batch,          \* ids that generate reserves at once (1000)
    Limit,          \* objects in a page and in a batch of BackupTo (96)
    Contents,       \* what the source may hold at first
    Created,        \* bound: the directories where objects are created
    MaxChanges,     \* bound: operations of the servers beside the backup
    MaxFailures     \* bound: requests that fail

ASSUME StoreAssumption ==
    /\ Batch \in Nat \ {0}
    /\ Limit \in Nat \ {0}
    /\ Runner # Other /\ Target \notin {Runner, Other}
    /\ Peers \intersect {Runner, Other, Target} = {}
    /\ Created \subseteq
          {"servers", "clusters", "apis", "routings", "plugins"}

Servers == {Runner, Other, Target} \union Peers
Gateway(p) == IF p \in {Runner, Other} THEN "source" ELSE "target"
Gateways == {"source", "target"}
Absent == -1      \* the id key does not exist

\* Directories of objects with an id of their own; all, in BackupTo's order.
Plain == {"servers", "clusters", "apis", "routings", "plugins"}
Order == <<"servers", "clusters", "binds", "apis", "routings", "plugins">>

\* The id of an object was allocated: the id key has at least its value.
ASSUME ContentsAssumption ==
    \A c \in Contents :
        /\ c.id \in Nat \union {Absent}
        /\ c.objs \in [Plain -> SUBSET (0..c.id)]
        /\ c.binds \in SUBSET (Nat \X Nat) /\ c.applied \in SUBSET Nat

VARIABLES
    objs,     \* the objects of each gateway: directory -> ids
    binds,    \* the binds <<cluster, server>> of each gateway
    applied,  \* the applied plugins of each gateway
    id,       \* the id key of each gateway
    base, end,  \* the range of ids that each server has left
    pc,       \* where the operation of each server is
    arg,      \* its directory and its object
    seen,     \* the value of the id key that generate read
    issued,   \* the ids that the servers of the source were given, in order
    backup,   \* the state of BackupTo; copied is what it had copied when it ended
    kept,     \* objects of the source since the backup started
    changes, failures

meta == <<objs, binds, applied>>
ids == <<id, base, end, seen, issued>>
vars == <<objs, binds, applied, id, base, end, pc, arg, seen, issued, backup,
          kept, changes, failures>>

Nobody == <<"", 0>>
NoBackup ==
    [phase |-> "none", kind |-> 1, start |-> 0, last |-> FALSE, page |-> {},
     todo |-> {}, batch |-> {}, clean |-> TRUE, copied |-> [d \in Plain |-> {}]]

Init ==
    /\ \E c \in Contents :
           /\ objs = [g \in Gateways |->
                         IF g = "source" THEN c.objs ELSE [d \in Plain |-> {}]]
           /\ binds = [g \in Gateways |-> IF g = "source" THEN c.binds ELSE {}]
           /\ applied = [g \in Gateways |->
                            IF g = "source" THEN c.applied ELSE {}]
           /\ id = [g \in Gateways |-> IF g = "source" THEN c.id ELSE Absent]
    \* NewEtcdStore: an empty range
    /\ base = [p \in Servers |-> 100] /\ end = [p \in Servers |-> 100]
    /\ pc = [p \in Servers |-> "idle"] /\ arg = [p \in Servers |-> Nobody]
    /\ seen = [p \in Servers |-> 0]
    /\ issued = <<>>
    /\ backup = NoBackup
    /\ kept = [d \in Plain |-> {}]
    /\ changes = 0 /\ failures = 0

Running == backup.phase \notin {"none", "ok", "failed"}

\* Server p takes the lock of its store for an operation of its own: Runner's
\* is held by the backup, and the target is left alone while it is written.
Free(p) ==
    /\ pc[p] = "idle" /\ changes < MaxChanges
    /\ p = Other \/ ~Running
Begin(p) == Free(p) /\ changes' = changes + 1

(***************************************************************************)
(* Ids: allocID and generate.                                              *)
(***************************************************************************)
\* A Put of an object without an id: the next id of the range, or generate.
Put(p, d) ==
    /\ Begin(p)
    /\ IF base[p] = end[p]
       THEN /\ pc' = [pc EXCEPT ![p] = "getID"]
            /\ arg' = [arg EXCEPT ![p] = <<d, 0>>]
            /\ UNCHANGED ids
       ELSE /\ base' = [base EXCEPT ![p] = @ + 1]
            /\ pc' = [pc EXCEPT ![p] = "put"]
            /\ arg' = [arg EXCEPT ![p] = <<d, base'[p]>>]
            /\ issued' = IF Gateway(p) = "target" THEN issued
                         ELSE Append(issued, base'[p])
            /\ UNCHANGED <<id, end, seen>>
    /\ UNCHANGED <<meta, backup, kept, failures>>

\* getID: zero for a key that does not exist.
GetID(p) ==
    /\ pc[p] = "getID"
    /\ seen' = [seen EXCEPT ![p] =
                   IF id[Gateway(p)] = Absent THEN 0 ELSE id[Gateway(p)]]
    /\ pc' = [pc EXCEPT ![p] = "cas"]
    /\ UNCHANGED <<meta, id, base, end, issued, arg, backup, kept, changes,
                   failures>>

\* Mutant: the transaction without its comparison.
Swaps_Always(g, old) == TRUE
\* The comparison of createID (the key was never created) and of updateID.
Swaps(g, old) == IF old = 0 THEN id[g] = Absent ELSE id[g] = old

\* Mutant: the transaction is tried again with the value read before.
Retry_Stale == "cas"
\* Where generate goes on after ErrStaleOP: it reads the id key again.
Retry == "getID"

\* createID or updateID: the range is the server's, or ErrStaleOP.
ReserveIDs(p) ==
    LET g == Gateway(p)
        max == seen[p] + Batch
    IN  /\ pc[p] = "cas"
        /\ IF Swaps(g, seen[p])
           THEN /\ id' = [id EXCEPT ![g] = max]
                /\ end' = [end EXCEPT ![p] = max]
                /\ base' = [base EXCEPT ![p] = max - Batch + 1]
                /\ arg' = [arg EXCEPT ![p] = <<@[1], base'[p]>>]
                /\ issued' = IF g = "target" THEN issued
                             ELSE Append(issued, base'[p])
                /\ pc' = [pc EXCEPT ![p] = "put"]
                /\ UNCHANGED seen
           ELSE /\ pc' = [pc EXCEPT ![p] = Retry]
                /\ UNCHANGED <<ids, arg>>
        /\ UNCHANGED <<meta, backup, kept, changes, failures>>

\* putPB: the object under its key.
PutObject(p) ==
    /\ pc[p] = "put"
    /\ objs' = [objs EXCEPT ![Gateway(p)][arg[p][1]] = @ \union {arg[p][2]}]
    /\ pc' = [pc EXCEPT ![p] = "idle"] /\ arg' = [arg EXCEPT ![p] = Nobody]
    /\ UNCHANGED <<binds, applied, ids, backup, kept, changes, failures>>

\* A request to etcd fails and the operation returns the error; a request
\* that fails may have been committed.
AllocFails(p) ==
    /\ pc[p] \in {"getID", "cas", "put"} /\ failures < MaxFailures
    /\ failures' = failures + 1
    /\ \/ UNCHANGED <<id, objs>>
       \/ /\ pc[p] = "cas" /\ Swaps(Gateway(p), seen[p])
          /\ id' = [id EXCEPT ![Gateway(p)] = seen[p] + Batch]
          /\ UNCHANGED objs
       \/ /\ pc[p] = "put"
          /\ objs' = [objs EXCEPT ![Gateway(p)][arg[p][1]] =
                          @ \union {arg[p][2]}]
          /\ UNCHANGED id
    /\ pc' = [pc EXCEPT ![p] = "idle"] /\ arg' = [arg EXCEPT ![p] = Nobody]
    /\ UNCHANGED <<binds, applied, base, end, seen, issued, backup, kept,
                   changes>>

(***************************************************************************)
(* The other operations, of the servers of the source.                     *)
(***************************************************************************)
\* RemoveServer, RemoveAPI, RemoveRouting; RemoveCluster takes the binds of
\* the cluster with it, in one transaction.
RemoveObject(p, d, x) ==
    /\ Begin(p)
    /\ d # "plugins" /\ x \in objs["source"][d]
    /\ objs' = [objs EXCEPT !["source"][d] = @ \ {x}]
    /\ binds' = IF d # "clusters" THEN binds
                ELSE [binds EXCEPT !["source"] = {b \in @ : b[1] # x}]
    /\ kept' = [kept EXCEPT ![d] = @ \ {x}]
    /\ UNCHANGED <<applied, ids, pc, arg, backup, failures>>

\* RemovePlugin reads the applied plugins first, and deletes in a second
\* request.
RemovePlugin(p, x) ==
    /\ Begin(p)
    /\ x \in objs["source"]["plugins"] \ applied["source"]
    /\ pc' = [pc EXCEPT ![p] = "delete"]
    /\ arg' = [arg EXCEPT ![p] = <<"plugins", x>>]
    /\ UNCHANGED <<meta, ids, backup, kept, failures>>
DeletePlugin(p) ==
    /\ pc[p] = "delete"
    /\ objs' = [objs EXCEPT !["source"]["plugins"] = @ \ {arg[p][2]}]
    /\ kept' = [kept EXCEPT !["plugins"] = @ \ {arg[p][2]}]
    /\ pc' = [pc EXCEPT ![p] = "idle"] /\ arg' = [arg EXCEPT ![p] = Nobody]
    /\ UNCHANGED <<binds, applied, ids, backup, changes, failures>>

AddBind(p, c, s) ==
    /\ Begin(p)
    /\ binds' = [binds EXCEPT !["source"] = @ \union {<<c, s>>}]
    /\ UNCHANGED <<objs, applied, ids, pc, arg, backup, kept, failures>>
\* RemoveBind of some binds of a cluster, RemoveClusterBind of all.
RemoveBinds(p, B) ==
    /\ Begin(p)
    /\ B # {} /\ \E c \in objs["source"]["clusters"] : \A b \in B : b[1] = c
    /\ binds' = [binds EXCEPT !["source"] = @ \ B]
    /\ UNCHANGED <<objs, applied, ids, pc, arg, backup, kept, failures>>
ApplyPlugins(p, S) ==
    /\ Begin(p)
    /\ applied' = [applied EXCEPT !["source"] = S]
    /\ UNCHANGED <<objs, binds, ids, pc, arg, backup, kept, failures>>

(***************************************************************************)
(* BackupTo.                                                               *)
(***************************************************************************)
At(phase) == backup.phase = phase
Dir == Order[backup.kind]

\* What is listed for a directory: binds are found through the clusters.
Listed == objs["source"][IF Dir = "binds" THEN "clusters" ELSE Dir]

\* The objects of the batch in the target, and the applied plugins A: the
\* transactions of Batch.
Write(B, A) ==
    /\ IF Dir = "binds"
       THEN /\ binds' = [binds EXCEPT !["target"] = @ \union B]
            /\ UNCHANGED objs
       ELSE /\ objs' = [objs EXCEPT !["target"][Dir] = @ \union B]
            /\ UNCHANGED binds
    /\ applied' = [applied EXCEPT !["target"] = A]

\* The outcomes of targetC.Batch: ok, or an error before or after the
\* transaction.
BatchOk(B, A) == Write(B, A) /\ UNCHANGED failures
BatchFails(B, A) ==
    /\ failures < MaxFailures /\ failures' = failures + 1
    /\ Write(B, A) \/ UNCHANGED meta

\* Clean deletes everything that the target has, the id key too.
StartBackup ==
    /\ ~Running /\ pc[Runner] = "idle"
    /\ \A p \in Servers : Gateway(p) = "target" => pc[p] = "idle"
    /\ objs' = [objs EXCEPT !["target"] = [d \in Plain |-> {}]]
    /\ binds' = [binds EXCEPT !["target"] = {}]
    /\ applied' = [applied EXCEPT !["target"] = {}]
    /\ id' = [id EXCEPT !["target"] = Absent]
    /\ backup' = [NoBackup EXCEPT !.phase = "list"]
    /\ kept' = objs["source"]
    /\ UNCHANGED <<base, end, pc, arg, seen, issued, changes, failures>>

\* A page of getValues: the next Limit objects from start on, by id.
From == {x \in Listed : x >= backup.start}
IsPage(P) ==
    /\ P \subseteq From
    /\ \A x \in P, y \in From \ P : x < y
    /\ Cardinality(P) <= Limit
    /\ Cardinality(P) < Limit => P = From

\* The first and the last object of a page.
IsFirst(x, P) == x \in P /\ \A y \in P : x <= y
IsLast(x, P) == x \in P /\ \A y \in P : y <= x

ListPage ==
    /\ At("list")
    /\ \E P \in SUBSET From, next \in {backup.start} \union {x + 1 : x \in From} :
           /\ IsPage(P)
           /\ IF P = {} THEN next = backup.start ELSE IsLast(next - 1, P)
           /\ backup' = [backup EXCEPT !.phase = "copy", !.page = P,
                             !.last = Cardinality(P) < Limit, !.start = next]
    /\ UNCHANGED <<meta, ids, pc, arg, kept, changes, failures>>

\* Mutant: the batch is emptied although it was not sent.
Unsent_Dropped(B) == {}
\* What is left in the batch B after a send that failed: all of it.
Unsent(B) == B

\* A batch B that is full is sent.  The callback goes on with ok, and with
\* failed when the batch failed.
Send(B, ok, failed) ==
    \/ /\ Cardinality(B) # Limit
       /\ backup' = [ok EXCEPT !.batch = B]
       /\ UNCHANGED <<meta, failures>>
    \/ /\ Cardinality(B) = Limit
       /\ BatchOk(B, applied["target"])
       /\ backup' = [ok EXCEPT !.batch = {}]
    \/ /\ Cardinality(B) = Limit
       /\ BatchFails(B, applied["target"])
       /\ backup' = [failed EXCEPT !.batch = Unsent(B), !.clean = FALSE]

\* The callback of a directory with ids: the object joins the batch.
\* getValues drops the error that the callback returns: the batch is not
\* emptied then, and grows.
CopyObject ==
    /\ At("copy") /\ Dir # "binds"
    /\ \E x \in backup.page :
          LET rest == [backup EXCEPT !.page = @ \ {x}]
          IN  /\ IsFirst(x, backup.page)
              /\ Send(backup.batch \union {x}, rest, rest)
    /\ UNCHANGED <<ids, pc, arg, kept, changes>>

\* doGetBindServers of the next cluster; its error is dropped too, and the
\* binds of the cluster with it.
ListBinds ==
    /\ At("copy") /\ Dir = "binds" /\ backup.todo = {}
    /\ \E x \in backup.page :
       /\ IsFirst(x, backup.page)
       /\ \/ /\ backup' = [backup EXCEPT !.page = @ \ {x},
                               !.todo = {b \in binds["source"] : b[1] = x}]
             /\ UNCHANGED failures
          \/ /\ failures < MaxFailures /\ failures' = failures + 1
             /\ backup' = [backup EXCEPT !.page = @ \ {x}, !.clean = FALSE]
    /\ UNCHANGED <<meta, ids, pc, arg, kept, changes>>

\* The loop over the servers of a cluster: after a batch that failed it
\* returns, without the servers that are left.
CopyBind ==
    /\ At("copy")
    /\ \E b \in backup.todo :
          /\ \A c \in backup.todo : b[2] <= c[2]
          /\ Send(backup.batch \union {b},
                  [backup EXCEPT !.todo = @ \ {b}], [backup EXCEPT !.todo = {}])
    /\ UNCHANGED <<ids, pc, arg, kept, changes>>

PageDone == At("copy") /\ backup.page = {} /\ backup.todo = {}

NextPage ==
    /\ PageDone /\ ~backup.last
    /\ backup' = [backup EXCEPT !.phase = "list"]
    /\ UNCHANGED <<meta, ids, pc, arg, kept, changes, failures>>

NextDir ==
    [NoBackup EXCEPT !.clean = backup.clean,
        !.phase = IF backup.kind = Len(Order) THEN "id" ELSE "list",
        !.kind = IF backup.kind = Len(Order) THEN @ ELSE backup.kind + 1]

\* Mutant: the applied plugins are not sent.
LastApplied_Never == applied["target"]
\* What the last batch of a directory sends besides its objects: the applied
\* plugins with the plugins.
LastApplied == applied[IF Dir = "plugins" THEN "source" ELSE "target"]

\* What is left in the batch.  Nothing is sent when no object is left, and
\* the applied plugins are not sent then.
Finish ==
    /\ PageDone /\ backup.last
    /\ \/ /\ IF backup.batch = {} THEN UNCHANGED <<meta, failures>>
             ELSE BatchOk(backup.batch, LastApplied)
          /\ backup' = NextDir
       \/ /\ backup.batch # {}
          /\ BatchFails(backup.batch, LastApplied)
          /\ backup' = [NoBackup EXCEPT !.phase = "failed"]
    /\ UNCHANGED <<ids, pc, arg, kept, changes>>

\* Mutant: the server keeps its range.
SetID_KeepRange(value) ==
    id' = [id EXCEPT !["target"] = value] /\ UNCHANGED <<base, end>>
\* SetID of the target: the id key, and an empty range for the server that is
\* called.  The others keep theirs.
SetID(value) ==
    /\ id' = [id EXCEPT !["target"] = value]
    /\ base' = [base EXCEPT ![Target] = 0] /\ end' = [end EXCEPT ![Target] = 0]

\* The id key of the source goes to the target.
CopyID ==
    /\ At("id")
    /\ SetID(IF id["source"] = Absent THEN 0 ELSE id["source"])
    /\ backup' = [backup EXCEPT !.phase = "ok", !.copied = objs["target"]]
    /\ UNCHANGED <<meta, pc, arg, seen, issued, kept, changes, failures>>

\* Another request of the backup fails (Clean, a page, the applied plugins,
\* the id): BackupTo returns the error.
BackupFails ==
    /\ \/ ~Running /\ pc[Runner] = "idle"
       \/ At("list") \/ At("id")
       \/ PageDone /\ backup.last /\ Dir = "plugins"
    /\ failures < MaxFailures /\ failures' = failures + 1
    /\ backup' = [NoBackup EXCEPT !.phase = "failed"]
    /\ UNCHANGED <<meta, ids, pc, arg, kept, changes>>

Backup ==
    \/ StartBackup \/ ListPage \/ CopyObject \/ ListBinds \/ CopyBind
    \/ NextPage \/ Finish \/ CopyID \/ BackupFails

Alloc(p) == GetID(p) \/ ReserveIDs(p) \/ PutObject(p)

Change ==
    \/ \E p \in Servers, d \in Created : Put(p, d)
    \/ \E p \in {Runner, Other} :
          \/ \E d \in Plain : \E x \in objs["source"][d] : RemoveObject(p, d, x)
          \/ \E x \in objs["source"]["plugins"] : RemovePlugin(p, x)
          \/ \E c \in objs["source"]["clusters"],
                s \in objs["source"]["servers"] : AddBind(p, c, s)
          \/ \E B \in SUBSET binds["source"] : RemoveBinds(p, B)
          \/ \E x \in objs["source"]["plugins"] : ApplyPlugins(p, {x})
          \/ DeletePlugin(p)

Next ==
    \/ Change \/ Backup
    \/ \E p \in Servers : Alloc(p) \/ AllocFails(p)

Fairness ==
    /\ WF_vars(ListPage \/ CopyObject \/ ListBinds \/ CopyBind \/ NextPage
               \/ Finish \/ CopyID)
    /\ \A p \in Servers : WF_vars(Alloc(p))

Spec == Init /\ [][Next]_vars /\ Fairness

(***************************************************************************)
(* Properties.                                                             *)
(***************************************************************************)
\* No id is given out twice, whichever servers of a gateway allocate at the
\* same time: generate retries when the id key changed since it was read.
IdsUnique == \A i, j \in 1..Len(issued) : issued[i] = issued[j] => i = j

\* After a backup the server of the target that handled it gives out no id that
\* a copied object has, although objects were created in the source meanwhile,
\* the server had a range of ids before, and its peers go on with theirs and
\* swap the id key: SetID empties the range, and the id key is read after the
\* objects.  (A peer that has ids left gives them out, copied or not.)
IdsFresh ==
    backup.phase = "ok" /\ pc[Target] = "put" =>
        \A d \in Plain : arg[Target][2] \notin backup.copied[d]

\* A backup that reports success has copied every object that was in the
\* source all the time, also when batches failed on the way: a batch that
\* failed is sent again with the rest.
BackupComplete ==
    backup.phase = "ok" => \A d \in Plain : kept[d] \subseteq objs["target"][d]

\* Of binds and applied plugins that is so only when no request failed and
\* nothing changed, and for the applied plugins only when the last batch of
\* plugins was not full.
BackupExact ==
    backup.phase = "ok" /\ backup.clean /\ changes = 0 =>
        /\ \A b \in binds["source"] :
              b[1] \in objs["source"]["clusters"] => b \in binds["target"]
        /\ Cardinality(objs["source"]["plugins"]) % Limit # 0 =>
              applied["target"] = applied["source"]

\* A backup ends, and so does every allocation, except where a gateway
\* without ids was copied: an id key that holds zero is neither absent nor
\* updated, and generate never gets past it.
Progress ==
    /\ Running ~> ~Running
    /\ \A p \in Servers :
          pc[p] \in {"getID", "cas", "put"}
              ~> (pc[p] = "idle" \/ id[Gateway(p)] = 0)
=============================================================================
