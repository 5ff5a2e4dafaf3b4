-------------------------- MODULE MetaStoreProofs ---------------------------
(***************************************************************************)
(* What holds of the meta store for any size of a reserved range, any      *)
(* limit of a page, any contents and any number of changes and failures.   *)
(*                                                                         *)
(* Ids are unique because a range that a server holds was reserved by a    *)
(* swap of the id key: the ranges lie below the key, apart from each other *)
(* and from all that was issued (RangesInv).  They stay fresh in the       *)
(* target of a backup because what is copied lies below the key that the   *)
(* backup writes last (ObjectsInv, CopiedInv, TargetInv).  A backup is     *)
(* complete because every object that was kept is behind the cursor and    *)
(* sent or in the batch, on the page, or ahead (CompleteInv).  Without     *)
(* changes and failures nothing but the backup takes a step (QuietSteps),  *)
(* and the binds and the applied plugins that it has copied are those of   *)
(* the source (BindsInv, AppliedInv).                                      *)
(***************************************************************************)
EXTENDS MetaStore, FiniteSetTheorems, TLAPS

-----------------------------------------------------------------------------
(* Types.                                                                  *)

Phases == {"none", "list", "copy", "id", "ok", "failed"}
Pairs == Nat \X Nat
Backups ==
    [phase : Phases, kind : 1..6, start : Nat, last : BOOLEAN,
     page : SUBSET Nat, todo : SUBSET Pairs, batch : SUBSET (Nat \union Pairs),
     clean : BOOLEAN, copied : [Plain -> SUBSET Nat]]

\* What the batch holds is what the directory holds, and only binds have
\* servers to go through.
BatchTypes ==
    /\ backup.batch \subseteq IF Dir = "binds" THEN Pairs ELSE Nat
    /\ backup.todo # {} => Dir = "binds"

\* The types of the store: where an operation is under way its argument is an
\* object of a directory.
StoreTypes ==
    /\ objs \in [Gateways -> [Plain -> SUBSET Nat]]
    /\ binds \in [Gateways -> SUBSET Pairs]
    /\ applied \in [Gateways -> SUBSET Nat]
    /\ id \in [Gateways -> Nat \union {Absent}]
    /\ base \in [Servers -> Nat] /\ end \in [Servers -> Nat]
    /\ pc \in [Servers -> {"idle", "getID", "cas", "put", "delete"}]
    /\ arg \in [Servers -> (Plain \union {""}) \X Nat]
    /\ \A p \in Servers : pc[p] # "idle" => arg[p][1] \in Plain
    /\ seen \in [Servers -> Nat]
    /\ issued \in Seq(Nat)
    /\ backup \in Backups
    /\ kept \in [Plain -> SUBSET Nat]
    /\ changes \in Nat
    /\ BatchTypes

USE StoreAssumption DEF Gateways, Absent

\* A sequence of ids with one more.
LEMMA AppendId ==
    ASSUME NEW s \in Seq(Nat), NEW x \in Nat
    PROVE  /\ Append(s, x) \in Seq(Nat) /\ Len(Append(s, x)) = Len(s) + 1
           /\ \A i \in 1..Len(s) : Append(s, x)[i] = s[i]
           /\ Append(s, x)[Len(s) + 1] = x
  OBVIOUS

LEMMA InitTypes == Init => StoreTypes
<1> SUFFICES ASSUME Init PROVE StoreTypes
  OBVIOUS
<1>1. PICK c \in Contents :
          /\ objs = [g \in Gateways |->
                        IF g = "source" THEN c.objs ELSE [d \in Plain |-> {}]]
          /\ binds = [g \in Gateways |-> IF g = "source" THEN c.binds ELSE {}]
          /\ applied = [g \in Gateways |->
                           IF g = "source" THEN c.applied ELSE {}]
          /\ id = [g \in Gateways |-> IF g = "source" THEN c.id ELSE Absent]
  BY DEF Init
<1>2. /\ c.id \in Nat \union {Absent} /\ c.objs \in [Plain -> SUBSET Nat]
      /\ c.binds \in SUBSET Pairs /\ c.applied \in SUBSET Nat
  BY ContentsAssumption DEF Pairs
<1>3. /\ objs \in [Gateways -> [Plain -> SUBSET Nat]]
      /\ binds \in [Gateways -> SUBSET Pairs]
      /\ applied \in [Gateways -> SUBSET Nat]
      /\ id \in [Gateways -> Nat \union {Absent}]
  BY <1>1, <1>2
<1>4. /\ base \in [Servers -> Nat] /\ end \in [Servers -> Nat]
      /\ pc \in [Servers -> {"idle", "getID", "cas", "put", "delete"}]
      /\ \A p \in Servers : pc[p] # "idle" => arg[p][1] \in Plain
      /\ seen \in [Servers -> Nat]
      /\ kept \in [Plain -> SUBSET Nat] /\ changes \in Nat
  BY DEF Init
<1>6. arg \in [Servers -> (Plain \union {""}) \X Nat]
  BY DEF Init, Nobody
<1>7. issued \in Seq(Nat)
  BY DEF Init
<1>5. backup \in Backups /\ BatchTypes
  BY DEF Init, NoBackup, Backups, Phases, BatchTypes
<1> QED
  BY <1>3, <1>4, <1>5, <1>6, <1>7 DEF StoreTypes

\* The state of BackupTo at the start of a directory, and the directories.
LEMMA NoBackupFields ==
    /\ NoBackup \in Backups
    /\ NoBackup.kind = 1 /\ NoBackup.start = 0 /\ NoBackup.last = FALSE
    /\ NoBackup.page = {} /\ NoBackup.todo = {} /\ NoBackup.batch = {}
    /\ NoBackup.clean = TRUE
  BY DEF NoBackup, Backups, Phases

LEMMA OrderFields ==
    /\ Len(Order) = 6
    /\ \A k \in 1..6 : Order[k] \in Plain \union {"binds"}
    /\ \A k \in 1..6 : Order[k] = "binds" <=> k = 3
    /\ \A k \in 1..6 : Order[k] = "plugins" <=> k = 6
    /\ \A d \in Plain : \E k \in 1..6 : Order[k] = d
    /\ \A k, l \in 1..6 : Order[k] = Order[l] => k = l
<1>1. \A k \in 1..6 : k = 1 \/ k = 2 \/ k = 3 \/ k = 4 \/ k = 5 \/ k = 6
  OBVIOUS
<1>2. /\ Order[1] = "servers" /\ Order[2] = "clusters" /\ Order[3] = "binds"
      /\ Order[4] = "apis" /\ Order[5] = "routings" /\ Order[6] = "plugins"
      /\ Len(Order) = 6
  BY DEF Order
<1>3. 1 \in 1..6 /\ 2 \in 1..6 /\ 3 \in 1..6 /\ 4 \in 1..6 /\ 5 \in 1..6 /\ 6 \in 1..6
  OBVIOUS
<1> QED
  BY <1>1, <1>2, <1>3 DEF Plain

\* What is listed are ids.
LEMMA ListedIds ==
    ASSUME StoreTypes
    PROVE  /\ Listed \in SUBSET Nat /\ From \in SUBSET Listed
           /\ Dir # "binds" => Dir \in Plain /\ Listed = objs["source"][Dir]
<1>1. backup.kind \in 1..6 /\ objs["source"] \in [Plain -> SUBSET Nat]
  BY DEF StoreTypes, Backups
<1>2. Dir \in Plain \union {"binds"}
  BY <1>1, OrderFields DEF Dir
<1>3. "clusters" \in Plain
  BY DEF Plain
<1> QED
  BY <1>1, <1>2, <1>3 DEF Listed, From

\* The fields of the backup that a callback does not touch.
Stays(s) ==
    /\ backup'.phase = s.phase /\ backup'.kind = s.kind
    /\ backup'.start = s.start /\ backup'.last = s.last
    /\ backup'.page = s.page /\ backup'.todo = s.todo

\* The three outcomes of a callback, by what they leave in the batch.
LEMMA SendFields ==
    ASSUME NEW B \in SUBSET (Nat \union Pairs), NEW ok \in Backups,
           NEW failed \in Backups, Send(B, ok, failed)
    PROVE  /\ backup' \in Backups
           /\ \/ /\ Stays(ok) /\ backup'.clean = ok.clean
                 /\ backup'.batch = B /\ Cardinality(B) # Limit
                 /\ UNCHANGED meta
              \/ /\ Stays(ok) /\ backup'.clean = ok.clean
                 /\ backup'.batch = {} /\ Cardinality(B) = Limit
                 /\ Write(B, applied["target"])
              \/ /\ Stays(failed) /\ backup'.clean = FALSE
                 /\ backup'.batch = B /\ Cardinality(B) = Limit
                 /\ Write(B, applied["target"]) \/ UNCHANGED meta
<1>1. CASE Cardinality(B) # Limit /\ backup' = [ok EXCEPT !.batch = B] /\ UNCHANGED meta
  <2>1. backup' \in Backups
    BY <1>1 DEF Backups
  <2> QED
    BY <1>1, <2>1 DEF Backups, Stays
<1>2. CASE /\ Cardinality(B) = Limit /\ Write(B, applied["target"])
           /\ backup' = [ok EXCEPT !.batch = {}]
  <2>1. backup' \in Backups
    BY <1>2 DEF Backups
  <2> QED
    BY <1>2, <2>1 DEF Backups, Stays
<1>3. CASE /\ Cardinality(B) = Limit
           /\ Write(B, applied["target"]) \/ UNCHANGED meta
           /\ backup' = [failed EXCEPT !.batch = B, !.clean = FALSE]
  <2>1. backup' \in Backups
    BY <1>3 DEF Backups
  <2> QED
    BY <1>3, <2>1 DEF Backups, Stays
<1> QED
  BY <1>1, <1>2, <1>3 DEF Send, Unsent, BatchOk, BatchFails, meta

\* What a callback leaves in the batch, and sends, of an object and of a bind.
LEMMA CopyObjectFields ==
    ASSUME StoreTypes, CopyObject
    PROVE  /\ backup' \in Backups /\ Dir # "binds" /\ At("copy")
           /\ backup'.phase = "copy" /\ backup'.kind = backup.kind
           /\ backup'.start = backup.start /\ backup'.last = backup.last
           /\ backup.todo = {} /\ backup'.todo = {}
           /\ \E x \in backup.page, B \in SUBSET Nat :
                 /\ B = backup.batch \union {x}
                 /\ IsFirst(x, backup.page) /\ backup'.page = backup.page \ {x}
                 /\ \/ /\ backup'.clean = backup.clean
                       /\ backup'.batch = B /\ Cardinality(B) # Limit
                       /\ UNCHANGED meta
                    \/ /\ backup'.clean = backup.clean
                       /\ backup'.batch = {} /\ Cardinality(B) = Limit
                       /\ Write(B, applied["target"])
                    \/ /\ backup'.clean = FALSE
                       /\ backup'.batch = B /\ Cardinality(B) = Limit
                       /\ Write(B, applied["target"]) \/ UNCHANGED meta
<1>1. PICK x \in backup.page :
          /\ IsFirst(x, backup.page)
          /\ Send(backup.batch \union {x}, [backup EXCEPT !.page = @ \ {x}],
                  [backup EXCEPT !.page = @ \ {x}])
  BY DEF CopyObject
<1>2. backup \in Backups /\ backup.phase = "copy" /\ Dir # "binds" /\ BatchTypes
  BY DEF CopyObject, StoreTypes, At
<1>3. backup.page \in SUBSET Nat
  BY <1>2 DEF Backups
<1>4. backup.batch \in SUBSET Nat /\ backup.todo = {}
  BY <1>2 DEF BatchTypes
<1> DEFINE rest == [backup EXCEPT !.page = @ \ {x}]
           B == backup.batch \union {x}
<1>5. rest \in Backups
  BY <1>2, <1>3 DEF Backups
<1>6. /\ rest.phase = "copy" /\ rest.kind = backup.kind
      /\ rest.start = backup.start /\ rest.last = backup.last
      /\ rest.page = backup.page \ {x} /\ rest.todo = {}
      /\ rest.clean = backup.clean
  BY <1>2, <1>4 DEF Backups
<1>7. B \in SUBSET Nat /\ B \in SUBSET (Nat \union Pairs) /\ Send(B, rest, rest)
  BY <1>1, <1>3, <1>4
<1> HIDE DEF B, rest
<1>8. /\ backup' \in Backups /\ Stays(rest)
      /\ \/ /\ backup'.clean = rest.clean
            /\ backup'.batch = B /\ Cardinality(B) # Limit
            /\ UNCHANGED meta
         \/ /\ backup'.clean = rest.clean
            /\ backup'.batch = {} /\ Cardinality(B) = Limit
            /\ Write(B, applied["target"])
         \/ /\ backup'.clean = FALSE
            /\ backup'.batch = B /\ Cardinality(B) = Limit
            /\ Write(B, applied["target"]) \/ UNCHANGED meta
  BY <1>5, <1>7, SendFields
<1>9. B = backup.batch \union {x}
  BY DEF B
<1>10. /\ backup'.phase = "copy" /\ backup'.kind = backup.kind
       /\ backup'.start = backup.start /\ backup'.last = backup.last
       /\ backup'.todo = {} /\ backup'.page = backup.page \ {x}
  BY <1>6, <1>8 DEF Stays
<1> QED
  BY <1>1, <1>2, <1>4, <1>6, <1>7, <1>8, <1>9, <1>10 DEF At

LEMMA CopyBindFields ==
    ASSUME StoreTypes, CopyBind
    PROVE  /\ backup' \in Backups /\ Dir = "binds" /\ At("copy")
           /\ backup'.phase = "copy" /\ backup'.kind = backup.kind
           /\ backup'.start = backup.start /\ backup'.last = backup.last
           /\ backup'.page = backup.page
           /\ \E b \in backup.todo, B \in SUBSET Pairs :
                 /\ B = backup.batch \union {b}
                 /\ \/ /\ backup'.clean = backup.clean
                       /\ backup'.todo = backup.todo \ {b}
                       /\ backup'.batch = B
                       /\ UNCHANGED meta
                    \/ /\ backup'.clean = backup.clean
                       /\ backup'.todo = backup.todo \ {b}
                       /\ backup'.batch = {}
                       /\ Write(B, applied["target"])
                    \/ /\ backup'.clean = FALSE
                       /\ backup'.batch = B
                       /\ Write(B, applied["target"]) \/ UNCHANGED meta
<1>1. PICK b \in backup.todo :
          Send(backup.batch \union {b}, [backup EXCEPT !.todo = @ \ {b}],
               [backup EXCEPT !.todo = {}])
  BY DEF CopyBind
<1>2. backup \in Backups /\ backup.phase = "copy" /\ BatchTypes
  BY DEF CopyBind, StoreTypes, At
<1>3. backup.todo \in SUBSET Pairs
  BY <1>2 DEF Backups
<1>4. Dir = "binds" /\ backup.batch \in SUBSET Pairs
  BY <1>2 DEF BatchTypes
<1> DEFINE rest == [backup EXCEPT !.todo = @ \ {b}]
           none == [backup EXCEPT !.todo = {}]
           B == backup.batch \union {b}
<1>5. rest \in Backups /\ none \in Backups
  BY <1>2, <1>3 DEF Backups
<1>6. /\ rest.phase = "copy" /\ rest.kind = backup.kind
      /\ rest.start = backup.start /\ rest.last = backup.last
      /\ rest.page = backup.page /\ rest.todo = backup.todo \ {b}
      /\ rest.clean = backup.clean
      /\ none.phase = "copy" /\ none.kind = backup.kind
      /\ none.start = backup.start /\ none.last = backup.last
      /\ none.page = backup.page /\ none.todo = {}
  BY <1>2 DEF Backups
<1>7. B \in SUBSET Pairs /\ B \in SUBSET (Nat \union Pairs) /\ Send(B, rest, none)
  BY <1>1, <1>3, <1>4
<1> HIDE DEF B, rest, none
<1>8. /\ backup' \in Backups
      /\ \/ /\ Stays(rest) /\ backup'.clean = rest.clean
            /\ backup'.batch = B /\ UNCHANGED meta
         \/ /\ Stays(rest) /\ backup'.clean = rest.clean
            /\ backup'.batch = {} /\ Write(B, applied["target"])
         \/ /\ Stays(none) /\ backup'.clean = FALSE
            /\ backup'.batch = B
            /\ Write(B, applied["target"]) \/ UNCHANGED meta
  BY <1>5, <1>7, SendFields
<1>9. B = backup.batch \union {b}
  BY DEF B
<1>10. /\ backup'.phase = "copy" /\ backup'.kind = backup.kind
       /\ backup'.start = backup.start /\ backup'.last = backup.last
       /\ backup'.page = backup.page
  BY <1>6, <1>8 DEF Stays
<1>11. \/ /\ backup'.clean = backup.clean
          /\ backup'.todo = backup.todo \ {b}
          /\ backup'.batch = B /\ UNCHANGED meta
       \/ /\ backup'.clean = backup.clean
          /\ backup'.todo = backup.todo \ {b}
          /\ backup'.batch = {} /\ Write(B, applied["target"])
       \/ /\ backup'.clean = FALSE
          /\ backup'.batch = B
          /\ Write(B, applied["target"]) \/ UNCHANGED meta
  BY <1>6, <1>8 DEF Stays
<1> QED
  BY <1>2, <1>4, <1>7, <1>8, <1>9, <1>10, <1>11 DEF At

\* The next cluster: its binds are to be copied, or are dropped.
LEMMA ListBindsFields ==
    ASSUME StoreTypes, ListBinds
    PROVE  /\ backup' \in Backups /\ Dir = "binds" /\ At("copy")
           /\ backup'.phase = "copy" /\ backup'.kind = backup.kind
           /\ backup'.start = backup.start /\ backup'.last = backup.last
           /\ backup'.batch = backup.batch /\ backup.todo = {}
           /\ \E x \in backup.page :
                 /\ backup'.page = backup.page \ {x}
                 /\ \/ /\ backup'.todo = {b \in binds["source"] : b[1] = x}
                       /\ backup'.clean = backup.clean
                    \/ backup'.clean = FALSE
<1>1. PICK x \in backup.page :
          \/ backup' = [backup EXCEPT !.page = @ \ {x},
                            !.todo = {b \in binds["source"] : b[1] = x}]
          \/ backup' = [backup EXCEPT !.page = @ \ {x}, !.clean = FALSE]
  BY DEF ListBinds
<1> DEFINE T == {b \in binds["source"] : b[1] = x}
<1>2. T \in SUBSET Pairs
  BY DEF StoreTypes
<1>3. backup \in Backups /\ backup.phase = "copy" /\ Dir = "binds" /\ backup.todo = {}
  BY DEF StoreTypes, ListBinds, At
<1> HIDE DEF T
<1>4. ASSUME backup' = [backup EXCEPT !.page = @ \ {x}, !.todo = T]
      PROVE  /\ backup' \in Backups
             /\ backup'.phase = "copy" /\ backup'.kind = backup.kind
             /\ backup'.start = backup.start /\ backup'.last = backup.last
             /\ backup'.batch = backup.batch
             /\ backup'.page = backup.page \ {x}
             /\ backup'.todo = T /\ backup'.clean = backup.clean
  BY <1>2, <1>3, <1>4 DEF Backups
<1>5. ASSUME backup' = [backup EXCEPT !.page = @ \ {x}, !.clean = FALSE]
      PROVE  /\ backup' \in Backups
             /\ backup'.phase = "copy" /\ backup'.kind = backup.kind
             /\ backup'.start = backup.start /\ backup'.last = backup.last
             /\ backup'.batch = backup.batch
             /\ backup'.page = backup.page \ {x}
             /\ backup'.clean = FALSE
  BY <1>3, <1>5 DEF Backups
<1> QED
  BY <1>1, <1>3, <1>4, <1>5 DEF T, At

\* The end of a directory.
LEMMA NextDirFields ==
    ASSUME StoreTypes
    PROVE  /\ NextDir \in Backups
           /\ NextDir.phase = (IF backup.kind = 6 THEN "id" ELSE "list")
           /\ NextDir.kind = (IF backup.kind = 6 THEN 1 ELSE backup.kind + 1)
           /\ NextDir.start = 0 /\ NextDir.page = {} /\ NextDir.todo = {}
           /\ NextDir.batch = {} /\ NextDir.clean = backup.clean
<1>1. backup.kind \in 1..6 /\ backup.clean \in BOOLEAN /\ Len(Order) = 6
  BY OrderFields DEF StoreTypes, Backups
<1>2. CASE backup.kind = 6
  <2>1. NextDir = [NoBackup EXCEPT !.clean = backup.clean, !.phase = "id", !.kind = @]
    BY <1>1, <1>2 DEF NextDir
  <2> QED
    BY <1>1, <1>2, <2>1, NoBackupFields DEF Backups, Phases
<1>3. CASE backup.kind # 6
  <2>1. NextDir = [NoBackup EXCEPT !.clean = backup.clean, !.phase = "list",
                                   !.kind = backup.kind + 1]
    BY <1>1, <1>3 DEF NextDir
  <2>2. backup.kind + 1 \in 1..6
    BY <1>1, <1>3
  <2> QED
    BY <1>1, <1>3, <2>1, <2>2, NoBackupFields DEF Backups, Phases
<1> QED
  BY <1>2, <1>3

\* The end of BackupTo with an error.
LEMMA FailedFields ==
    LET f == [NoBackup EXCEPT !.phase = "failed"]
    IN  /\ f \in Backups /\ f.phase = "failed"
        /\ f.page = {} /\ f.todo = {} /\ f.batch = {}
  BY NoBackupFields DEF Backups, Phases

\* A page: the objects from start on, up to the limit, and where the next starts.
LEMMA ListPageFields ==
    ASSUME StoreTypes, ListPage
    PROVE  /\ backup' \in Backups
           /\ backup'.phase = "copy" /\ backup'.kind = backup.kind
           /\ backup'.todo = backup.todo /\ backup'.batch = backup.batch
           /\ backup'.clean = backup.clean
           /\ IsPage(backup'.page)
           /\ backup'.last = (Cardinality(backup'.page) < Limit)
           /\ IF backup'.page = {} THEN backup'.start = backup.start
              ELSE IsLast(backup'.start - 1, backup'.page)
<1>1. PICK P \in SUBSET From, next \in {backup.start} \union {x + 1 : x \in From} :
          /\ IsPage(P)
          /\ IF P = {} THEN next = backup.start ELSE IsLast(next - 1, P)
          /\ backup' = [backup EXCEPT !.phase = "copy", !.page = P,
                            !.last = Cardinality(P) < Limit, !.start = next]
  BY DEF ListPage
<1>2. From \in SUBSET Nat /\ backup.start \in Nat
  BY ListedIds DEF StoreTypes, Backups
<1>3. \A x \in From : x + 1 \in Nat
  BY <1>2
<1>4. next \in Nat /\ P \in SUBSET Nat
  BY <1>2, <1>3
<1>5. (Cardinality(P) < Limit) \in BOOLEAN
  OBVIOUS
<1>6. backup' \in Backups
  BY <1>1, <1>4, <1>5 DEF Backups, Phases, StoreTypes
<1>7. /\ backup'.phase = "copy" /\ backup'.kind = backup.kind
      /\ backup'.todo = backup.todo /\ backup'.batch = backup.batch
      /\ backup'.clean = backup.clean
      /\ backup'.page = P /\ backup'.start = next
      /\ backup'.last = (Cardinality(P) < Limit)
  BY <1>1 DEF Backups, StoreTypes
<1> QED
  BY <1>1, <1>6, <1>7

\* The types of what the backup alone changes.
LEMMA BackupTypes ==
    ASSUME StoreTypes, Backup
    PROVE  backup' \in Backups /\ BatchTypes'
<1>1. CASE StartBackup
  BY <1>1, NoBackupFields DEF StartBackup, Backups, Phases, BatchTypes
<1>2. CASE ListPage
  BY <1>2, ListPageFields DEF StoreTypes, BatchTypes, Dir
<1>3. CASE CopyObject
  BY <1>3, CopyObjectFields DEF BatchTypes, Dir
<1>4. CASE ListBinds
  BY <1>4, ListBindsFields DEF StoreTypes, BatchTypes, Dir
<1>5. CASE CopyBind
  BY <1>5, CopyBindFields DEF BatchTypes, Dir
<1>6. CASE NextPage
  BY <1>6 DEF NextPage, Backups, Phases, StoreTypes, BatchTypes, Dir
<1>7. CASE Finish
  BY <1>7, NextDirFields, FailedFields DEF Finish, BatchTypes
<1>8. CASE CopyID
  BY <1>8 DEF CopyID, Backups, Phases, StoreTypes, BatchTypes, Dir
<1>9. CASE BackupFails
  BY <1>9, FailedFields DEF BackupFails, BatchTypes
<1> QED
  BY <1>1, <1>2, <1>3, <1>4, <1>5, <1>6, <1>7, <1>8, <1>9 DEF Backup

\* What a batch changes in the target; the source stays as it is.
LEMMA WriteFields ==
    ASSUME StoreTypes, NEW A \in SUBSET Nat,
           NEW B \in SUBSET (IF Dir = "binds" THEN Pairs ELSE Nat), Write(B, A)
    PROVE  /\ objs' \in [Gateways -> [Plain -> SUBSET Nat]]
           /\ binds' \in [Gateways -> SUBSET Pairs]
           /\ applied' \in [Gateways -> SUBSET Nat]
           /\ objs'["source"] = objs["source"]
           /\ binds'["source"] = binds["source"]
           /\ applied'["source"] = applied["source"]
           /\ \A d \in Plain : objs'["target"][d] =
                 objs["target"][d] \union (IF d = Dir THEN B ELSE {})
           /\ binds'["target"] =
                 binds["target"] \union (IF Dir = "binds" THEN B ELSE {})
           /\ applied'["target"] = A
<1>1. /\ objs \in [Gateways -> [Plain -> SUBSET Nat]]
      /\ binds \in [Gateways -> SUBSET Pairs]
      /\ applied \in [Gateways -> SUBSET Nat]
      /\ applied' = [applied EXCEPT !["target"] = A]
  BY DEF StoreTypes, Write
<1>2. "binds" \notin Plain
  BY DEF Plain
<1>3. CASE Dir = "binds"
  <2>1. binds' = [binds EXCEPT !["target"] = @ \union B] /\ objs' = objs
    BY <1>3 DEF Write
  <2> QED
    BY <1>1, <1>2, <1>3, <2>1
<1>4. CASE Dir # "binds"
  <2>1. objs' = [objs EXCEPT !["target"][Dir] = @ \union B] /\ binds' = binds
    BY <1>4 DEF Write
  <2>2. Dir \in Plain /\ B \in SUBSET Nat
    BY <1>4, ListedIds
  <2> QED
    BY <1>1, <1>4, <2>1, <2>2
<1> QED
  BY <1>3, <1>4

\* A step of the backup after Clean leaves the source, the operations of the
\* servers and the source's ids alone, and takes nothing from the target.
LEMMA BackupFrame ==
    ASSUME StoreTypes, Backup, ~StartBackup
    PROVE  /\ objs' \in [Gateways -> [Plain -> SUBSET Nat]]
           /\ binds' \in [Gateways -> SUBSET Pairs]
           /\ applied' \in [Gateways -> SUBSET Nat]
           /\ objs'["source"] = objs["source"]
           /\ binds'["source"] = binds["source"]
           /\ applied'["source"] = applied["source"]
           /\ \A d \in Plain : objs["target"][d] \subseteq objs'["target"][d]
           /\ binds["target"] \subseteq binds'["target"]
           /\ UNCHANGED <<pc, arg, seen, issued, kept, changes>>
<1> DEFINE Frame ==
      /\ objs' \in [Gateways -> [Plain -> SUBSET Nat]]
      /\ binds' \in [Gateways -> SUBSET Pairs]
      /\ applied' \in [Gateways -> SUBSET Nat]
      /\ objs'["source"] = objs["source"]
      /\ binds'["source"] = binds["source"]
      /\ applied'["source"] = applied["source"]
      /\ \A d \in Plain : objs["target"][d] \subseteq objs'["target"][d]
      /\ binds["target"] \subseteq binds'["target"]
<1>1. ASSUME UNCHANGED meta PROVE Frame
  BY <1>1 DEF StoreTypes, meta
<1>2. ASSUME NEW A \in SUBSET Nat,
             NEW B \in SUBSET (IF Dir = "binds" THEN Pairs ELSE Nat), Write(B, A)
      PROVE  Frame
  <2> HIDE DEF Frame
  <2>1. /\ objs' \in [Gateways -> [Plain -> SUBSET Nat]]
        /\ binds' \in [Gateways -> SUBSET Pairs]
        /\ applied' \in [Gateways -> SUBSET Nat]
        /\ objs'["source"] = objs["source"]
        /\ binds'["source"] = binds["source"]
        /\ applied'["source"] = applied["source"]
    BY <1>2, WriteFields
  <2>2. ASSUME NEW d \in Plain
        PROVE  objs["target"][d] \subseteq objs'["target"][d]
    <3>1. objs'["target"][d] =
             objs["target"][d] \union (IF d = Dir THEN B ELSE {})
      BY <1>2, WriteFields
    <3> QED
      BY <3>1
  <2>3. binds["target"] \subseteq binds'["target"]
    BY <1>2, WriteFields
  <2> QED
    BY <2>1, <2>2, <2>3 DEF Frame
<1>3. applied["target"] \in SUBSET Nat /\ LastApplied \in SUBSET Nat
  BY DEF StoreTypes, LastApplied
<1> HIDE DEF Frame
<1>4. CASE CopyObject
  <2>1. PICK B \in SUBSET Nat : Write(B, applied["target"]) \/ UNCHANGED meta
    BY <1>4, CopyObjectFields
  <2>2. B \in SUBSET (IF Dir = "binds" THEN Pairs ELSE Nat)
    BY <1>4, CopyObjectFields
  <2>3. Frame
    BY <1>1, <1>2, <1>3, <2>1, <2>2
  <2> QED
    BY <1>4, <2>3 DEF Frame, CopyObject, ids
<1>5. CASE CopyBind
  <2>1. PICK B \in SUBSET Pairs : Write(B, applied["target"]) \/ UNCHANGED meta
    BY <1>5, CopyBindFields
  <2>2. B \in SUBSET (IF Dir = "binds" THEN Pairs ELSE Nat)
    BY <1>5, CopyBindFields
  <2>3. Frame
    BY <1>1, <1>2, <1>3, <2>1, <2>2
  <2> QED
    BY <1>5, <2>3 DEF Frame, CopyBind, ids
<1>6. CASE Finish
  <2>1. backup.batch \in SUBSET (IF Dir = "binds" THEN Pairs ELSE Nat)
    BY DEF StoreTypes, BatchTypes
  <2>2. Write(backup.batch, LastApplied) \/ UNCHANGED meta
    BY <1>6 DEF Finish, BatchOk, BatchFails, meta
  <2>3. Frame
    BY <1>1, <1>2, <1>3, <2>1, <2>2
  <2> QED
    BY <1>6, <2>3 DEF Frame, Finish, ids
<1>7. CASE ListPage \/ ListBinds \/ NextPage \/ CopyID \/ BackupFails
  <2>1. UNCHANGED <<pc, arg, seen, issued, kept, changes>> /\ UNCHANGED meta
    BY <1>7 DEF ListPage, ListBinds, NextPage, CopyID, BackupFails, ids, meta
  <2> QED
    BY <1>1, <2>1 DEF Frame
<1> QED
  BY <1>4, <1>5, <1>6, <1>7 DEF Backup

\* A transaction of generate that succeeds: the ids behind the one read are
\* the server's, and the first of them is given out.
LEMMA ReserveFields ==
    ASSUME StoreTypes, NEW p \in Servers, ReserveIDs(p), Swaps(Gateway(p), seen[p])
    PROVE  /\ id' = [id EXCEPT ![Gateway(p)] = seen[p] + Batch]
           /\ end' = [end EXCEPT ![p] = seen[p] + Batch]
           /\ base' = [base EXCEPT ![p] = seen[p] + 1]
           /\ arg' = [arg EXCEPT ![p] = <<arg[p][1], seen[p] + 1>>]
           /\ issued' = IF Gateway(p) = "target" THEN issued ELSE Append(issued, seen[p] + 1)
           /\ pc' = [pc EXCEPT ![p] = "put"]
           /\ UNCHANGED <<meta, seen, backup, kept, changes, failures>>
<1>1. seen[p] \in Nat /\ Batch \in Nat /\ p \in DOMAIN base
  BY DEF StoreTypes
<1>2. (seen[p] + Batch) - Batch + 1 = seen[p] + 1
  BY <1>1
<1>3. base' = [base EXCEPT ![p] = (seen[p] + Batch) - Batch + 1]
  BY Zenon DEF ReserveIDs
<1>4. base' = [base EXCEPT ![p] = seen[p] + 1]
  BY <1>2, <1>3, Zenon
<1>5. base'[p] = seen[p] + 1
  BY <1>1, <1>4
<1>6. /\ id' = [id EXCEPT ![Gateway(p)] = seen[p] + Batch]
      /\ end' = [end EXCEPT ![p] = seen[p] + Batch]
      /\ arg' = [arg EXCEPT ![p] = <<arg[p][1], base'[p]>>]
      /\ issued' = IF Gateway(p) = "target" THEN issued ELSE Append(issued, base'[p])
      /\ pc' = [pc EXCEPT ![p] = "put"]
      /\ UNCHANGED <<meta, seen, backup, kept, changes, failures>>
  BY DEF ReserveIDs
<1> QED
  BY <1>4, <1>5, <1>6

LEMMA NextTypes == StoreTypes /\ [Next]_vars => StoreTypes'
<1> SUFFICES ASSUME StoreTypes, [Next]_vars PROVE StoreTypes'
  OBVIOUS
<1> DEFINE
      M == /\ objs \in [Gateways -> [Plain -> SUBSET Nat]]
           /\ binds \in [Gateways -> SUBSET Pairs]
           /\ applied \in [Gateways -> SUBSET Nat]
           /\ kept \in [Plain -> SUBSET Nat]
      I == /\ id \in [Gateways -> Nat \union {Absent}]
           /\ base \in [Servers -> Nat] /\ end \in [Servers -> Nat]
           /\ seen \in [Servers -> Nat] /\ issued \in Seq(Nat)
           /\ changes \in Nat
      O == /\ pc \in [Servers -> {"idle", "getID", "cas", "put", "delete"}]
           /\ arg \in [Servers -> (Plain \union {""}) \X Nat]
           /\ \A p \in Servers : pc[p] # "idle" => arg[p][1] \in Plain
      K == backup \in Backups /\ BatchTypes
<1>a. M /\ I /\ O /\ K
  BY DEF StoreTypes
<1>b. M' /\ I' /\ O' /\ K' => StoreTypes'
  BY DEF StoreTypes
<1> HIDE DEF M, I, O, K
<1>c. ASSUME UNCHANGED backup PROVE K'
  BY <1>a, <1>c DEF K, BatchTypes, Dir
<1>d. ASSUME UNCHANGED <<pc, arg>> PROVE O'
  BY <1>a, <1>d DEF O
<1>e. ASSUME NEW p \in Servers, pc' = [pc EXCEPT ![p] = "idle"],
             arg' = [arg EXCEPT ![p] = Nobody]
      PROVE  O'
  <2>1. Nobody \in (Plain \union {""}) \X Nat
    BY DEF Nobody
  <2> QED
    BY <1>a, <1>e, <2>1 DEF O
<1>f. ASSUME NEW p \in Servers, NEW d \in Plain, NEW x \in Nat,
             NEW to \in {"getID", "put", "delete"},
             pc' = [pc EXCEPT ![p] = to], arg' = [arg EXCEPT ![p] = <<d, x>>]
      PROVE  O'
  BY <1>a, <1>f DEF O
<1>g. Plain = {"servers", "clusters", "apis", "routings", "plugins"}
  BY DEF Plain
<1>h. {Runner, Other} \subseteq Servers
  BY DEF Servers
<1>i. ASSUME NEW p \in Servers PROVE Gateway(p) \in Gateways
  BY DEF Gateway
<1>1. ASSUME NEW p \in Servers, NEW d \in Created, Put(p, d) PROVE StoreTypes'
  <2>1. d \in Plain /\ changes' \in Nat /\ base[p] \in Nat /\ base[p] + 1 \in Nat
    BY <1>1, <1>a, <1>g DEF Put, Begin, I
  <2>2. M' /\ K'
    BY <1>1, <1>a, <1>c DEF Put, meta, M
  <2>3. CASE base[p] = end[p]
    <3>1. O'
      BY <1>1, <2>1, <2>3, <1>f DEF Put
    <3>2. I'
      BY <1>1, <1>a, <2>1, <2>3 DEF Put, ids, I
    <3> QED
      BY <1>b, <2>2, <3>1, <3>2
  <2>4. CASE base[p] # end[p]
    <3>1. /\ base' = [base EXCEPT ![p] = base[p] + 1] /\ base'[p] = base[p] + 1
          /\ issued' = issued \/ issued' = Append(issued, base'[p])
          /\ pc' = [pc EXCEPT ![p] = "put"]
          /\ arg' = [arg EXCEPT ![p] = <<d, base'[p]>>]
          /\ UNCHANGED <<id, end, seen>>
      BY <1>1, <1>a, <2>4 DEF Put, I
    <3>2. O'
      BY <2>1, <3>1, <1>f
    <3>3. issued' \in Seq(Nat) /\ base' \in [Servers -> Nat]
      BY <1>a, <2>1, <3>1, AppendId DEF I
    <3>4. I'
      BY <1>a, <2>1, <3>1, <3>3 DEF I
    <3> QED
      BY <1>b, <2>2, <3>2, <3>4
  <2> QED
    BY <2>3, <2>4
<1>2. ASSUME NEW p \in {Runner, Other}, NEW d \in Plain,
             NEW x \in objs["source"][d], RemoveObject(p, d, x)
      PROVE  StoreTypes'
  <2>1. I' /\ O' /\ K'
    BY <1>2, <1>a, <1>c, <1>d DEF RemoveObject, Begin, ids, I
  <2>2. /\ objs' = [objs EXCEPT !["source"][d] = @ \ {x}]
        /\ \/ binds' = binds
           \/ binds' = [binds EXCEPT !["source"] = {b \in @ : b[1] # x}]
        /\ kept' = [kept EXCEPT ![d] = @ \ {x}] /\ applied' = applied
    BY <1>2 DEF RemoveObject
  <2>3. M'
    BY <1>a, <2>2 DEF M
  <2> QED
    BY <1>b, <2>1, <2>3
<1>3. ASSUME NEW p \in {Runner, Other}, NEW x \in objs["source"]["plugins"],
             RemovePlugin(p, x)
      PROVE  StoreTypes'
  <2>1. M' /\ I' /\ K'
    BY <1>3, <1>a, <1>c DEF RemovePlugin, Begin, ids, meta, M, I
  <2>2. x \in Nat /\ "plugins" \in Plain /\ p \in Servers
    BY <1>a, <1>g, <1>h DEF M
  <2>3. O'
    BY <1>3, <2>2, <1>f DEF RemovePlugin
  <2> QED
    BY <1>b, <2>1, <2>3
<1>4. ASSUME NEW p \in {Runner, Other}, DeletePlugin(p) PROVE StoreTypes'
  <2>1. I' /\ K'
    BY <1>4, <1>a, <1>c DEF DeletePlugin, ids, I
  <2>2. O'
    BY <1>4, <1>e, <1>h DEF DeletePlugin
  <2>3. /\ objs' = [objs EXCEPT !["source"]["plugins"] = @ \ {arg[p][2]}]
        /\ kept' = [kept EXCEPT !["plugins"] = @ \ {arg[p][2]}]
        /\ UNCHANGED <<binds, applied>>
    BY <1>4 DEF DeletePlugin
  <2>4. M'
    BY <1>a, <1>g, <2>3 DEF M
  <2> QED
    BY <1>b, <2>1, <2>2, <2>4
<1>5. ASSUME NEW p \in {Runner, Other}, NEW c \in objs["source"]["clusters"],
             NEW s \in objs["source"]["servers"], AddBind(p, c, s)
      PROVE  StoreTypes'
  <2>1. I' /\ O' /\ K'
    BY <1>5, <1>a, <1>c, <1>d DEF AddBind, Begin, ids, I
  <2>2. <<c, s>> \in Pairs
    BY <1>a, <1>g DEF Pairs, M
  <2>3. M'
    BY <1>5, <1>a, <2>2 DEF AddBind, M
  <2> QED
    BY <1>b, <2>1, <2>3
<1>6. ASSUME NEW p \in {Runner, Other}, NEW B \in SUBSET binds["source"],
             RemoveBinds(p, B)
      PROVE  StoreTypes'
  <2>1. I' /\ O' /\ K'
    BY <1>6, <1>a, <1>c, <1>d DEF RemoveBinds, Begin, ids, I
  <2>2. /\ binds' = [binds EXCEPT !["source"] = @ \ B]
        /\ UNCHANGED <<objs, applied, kept>>
    BY <1>6 DEF RemoveBinds
  <2>3. M'
    BY <1>a, <2>2 DEF M
  <2> QED
    BY <1>b, <2>1, <2>3
<1>7. ASSUME NEW p \in {Runner, Other}, NEW x \in objs["source"]["plugins"],
             ApplyPlugins(p, {x})
      PROVE  StoreTypes'
  <2>1. I' /\ O' /\ K'
    BY <1>7, <1>a, <1>c, <1>d DEF ApplyPlugins, Begin, ids, I
  <2>2. M'
    BY <1>7, <1>a, <1>g DEF ApplyPlugins, M
  <2> QED
    BY <1>b, <2>1, <2>2
<1>8. CASE Backup
  <2>1. K'
    BY <1>8, BackupTypes DEF K
  <2>2. CASE StartBackup
    <3>1. M'
      BY <1>a, <2>2 DEF StartBackup, M
    <3>2. I' /\ O'
      BY <1>a, <1>d, <2>2 DEF StartBackup, I
    <3> QED
      BY <1>b, <2>1, <3>1, <3>2
  <2>3. CASE ~StartBackup
    <3>1. M' /\ O' /\ UNCHANGED <<seen, issued, changes>>
      BY <1>8, <2>3, <1>a, <1>d, BackupFrame DEF M
    <3>2. CASE CopyID
      BY <3>1, <3>2, <1>a, <1>b, <2>1 DEF CopyID, SetID, I
    <3>3. CASE ~CopyID
      <4>1. UNCHANGED <<id, base, end>>
        BY <1>8, <2>3, <3>3 DEF Backup, ListPage, CopyObject, ListBinds, CopyBind,
                                NextPage, Finish, BackupFails, ids
      <4> QED
        BY <1>a, <1>b, <2>1, <3>1, <4>1 DEF I
    <3> QED
      BY <3>2, <3>3
  <2> QED
    BY <2>2, <2>3
<1>9. ASSUME NEW p \in Servers, GetID(p) PROVE StoreTypes'
  BY <1>9 DEF GetID, Gateway, StoreTypes, meta, BatchTypes, Dir
<1>10. ASSUME NEW p \in Servers, ReserveIDs(p) PROVE StoreTypes'
  <2>1. M' /\ K'
    BY <1>10, <1>a, <1>c DEF ReserveIDs, meta, M
  <2>2. CASE Swaps(Gateway(p), seen[p])
    <3>1. /\ id' = [id EXCEPT ![Gateway(p)] = seen[p] + Batch]
          /\ end' = [end EXCEPT ![p] = seen[p] + Batch]
          /\ base' = [base EXCEPT ![p] = seen[p] + 1]
          /\ arg' = [arg EXCEPT ![p] = <<arg[p][1], seen[p] + 1>>]
          /\ issued' = IF Gateway(p) = "target" THEN issued ELSE Append(issued, seen[p] + 1)
          /\ pc' = [pc EXCEPT ![p] = "put"]
          /\ UNCHANGED <<seen, changes>>
      BY <1>10, <2>2, ReserveFields
    <3>2. /\ seen[p] + Batch \in Nat /\ seen[p] + 1 \in Nat
          /\ pc[p] # "idle"
      BY <1>10, <1>a DEF ReserveIDs, I
    <3>4. O'
      <4>1. arg[p][1] \in Plain
        BY <1>a, <3>2 DEF O
      <4> QED
        BY <1>f, <3>1, <3>2, <4>1
    <3>5. issued' \in Seq(Nat)
      BY <1>a, <3>1, <3>2, AppendId DEF I
    <3>6. I'
      BY <1>a, <1>i, <3>1, <3>2, <3>5 DEF I
    <3> QED
      BY <1>b, <2>1, <3>4, <3>6
  <2>3. CASE ~Swaps(Gateway(p), seen[p])
    <3>1. pc' = [pc EXCEPT ![p] = "getID"] /\ UNCHANGED <<ids, arg, changes>>
      BY <1>10, <2>3 DEF ReserveIDs, Retry
    <3>2. pc[p] # "idle"
      BY <1>10 DEF ReserveIDs
    <3> QED
      BY <1>a, <1>b, <2>1, <3>1, <3>2 DEF ids, I, O
  <2> QED
    BY <2>2, <2>3
<1>k. ASSUME NEW p \in Servers, pc[p] = "put",
             objs' = [objs EXCEPT ![Gateway(p)][arg[p][1]] = @ \union {arg[p][2]}],
             UNCHANGED <<binds, applied, kept>>
      PROVE  M'
  <2>1. arg[p][1] \in Plain /\ arg[p][2] \in Nat /\ Gateway(p) \in Gateways
    BY <1>a, <1>i, <1>k DEF O
  <2> QED
    BY <1>a, <1>k, <2>1 DEF M
<1>11. ASSUME NEW p \in Servers, PutObject(p) PROVE StoreTypes'
  <2>1. I' /\ K'
    BY <1>11, <1>a, <1>c DEF PutObject, ids, I
  <2>2. M' /\ O'
    BY <1>11, <1>e, <1>k DEF PutObject
  <2> QED
    BY <1>b, <2>1, <2>2
<1>12. ASSUME NEW p \in Servers, AllocFails(p) PROVE StoreTypes'
  <2>1. O' /\ K'
    BY <1>12, <1>c, <1>e DEF AllocFails
  <2>2. UNCHANGED <<binds, applied, base, end, seen, issued, kept, changes>>
    BY <1>12 DEF AllocFails
  <2>3. M'
    BY <1>12, <1>a, <1>k DEF AllocFails, M
  <2>4. id' = id \/ id' = [id EXCEPT ![Gateway(p)] = seen[p] + Batch]
    BY <1>12 DEF AllocFails
  <2>5. seen[p] + Batch \in Nat
    BY <1>a DEF I
  <2>6. I'
    BY <1>a, <1>i, <2>2, <2>4, <2>5 DEF I
  <2> QED
    BY <1>b, <2>1, <2>3, <2>6
<1>13. CASE UNCHANGED vars
  BY <1>13 DEF vars, StoreTypes, BatchTypes, Dir
<1> QED
  BY <1>1, <1>2, <1>3, <1>4, <1>5, <1>6, <1>7, <1>8, <1>9, <1>10, <1>11, <1>12,
     <1>13 DEF Next, Change, Alloc

-----------------------------------------------------------------------------
(* Ids are given out once.                                                 *)

Source == {Runner, Other}

\* The ids that server p has left of its range.
Left(p) == (base[p] + 1)..end[p]

\* The ids of the source that were given out and the ranges that its servers
\* have left are apart from each other, and the id key is not below any of
\* them: what a transaction reserves is above the key that it compared.
RangesInv ==
    /\ \A p \in Source : base[p] <= end[p]
    /\ \A p \in Source : \A i \in Left(p) : i <= id["source"]
    /\ \A p, q \in Source : p # q => Left(p) \intersect Left(q) = {}
    /\ \A j \in 1..Len(issued) : issued[j] <= id["source"]
    /\ \A p \in Source : \A j \in 1..Len(issued) : issued[j] \notin Left(p)
    /\ IdsUnique

\* The steps that the ids of the source take: none, the next id of a range,
\* or a range above the id key.  The id key never goes back.
LEMMA IdSteps ==
    ASSUME StoreTypes, [Next]_vars
    PROVE  \/ /\ \A q \in Source : base'[q] = base[q] /\ end'[q] = end[q]
              /\ issued' = issued /\ id["source"] <= id'["source"]
           \/ \E p \in Source :
                 /\ base[p] # end[p] /\ base' = [base EXCEPT ![p] = base[p] + 1]
                 /\ issued' = Append(issued, base[p] + 1) /\ UNCHANGED <<id, end>>
           \/ \E p \in Source :
                 /\ id["source"] <= seen[p]
                 /\ id'["source"] = seen[p] + Batch
                 /\ end' = [end EXCEPT ![p] = seen[p] + Batch]
                 /\ base' = [base EXCEPT ![p] = seen[p] + 1]
                 /\ issued' = Append(issued, seen[p] + 1)
<1> DEFINE Stutter == /\ \A q \in Source : base'[q] = base[q] /\ end'[q] = end[q]
                      /\ issued' = issued /\ id["source"] <= id'["source"]
<1>a. /\ id \in [Gateways -> Nat \union {Absent}] /\ seen \in [Servers -> Nat]
      /\ base \in [Servers -> Nat] /\ end \in [Servers -> Nat]
  BY DEF StoreTypes
<1>b. id["source"] <= id["source"] /\ "source" # "target" /\ Target \notin Source
  BY <1>a DEF Source
<1>c. \A p \in Servers : Gateway(p) # "target" => p \in Source /\ Gateway(p) = "source"
  BY DEF Servers, Source, Gateway
<1>d. \A p \in Servers : Gateway(p) = "target" => p \notin Source
  BY DEF Gateway, Source
<1>e. ASSUME UNCHANGED <<base, end, issued, id>> PROVE Stutter
  BY <1>b, <1>e
<1>f. ASSUME NEW p \in Servers, Swaps(Gateway(p), seen[p]), Gateway(p) = "source"
      PROVE  id["source"] <= seen[p] /\ seen[p] <= seen[p] + Batch
  BY <1>a, <1>f DEF Swaps
<1>1. ASSUME NEW p \in Servers, NEW d \in Created, Put(p, d), base[p] # end[p]
      PROVE  \/ Stutter
             \/ /\ p \in Source /\ base' = [base EXCEPT ![p] = base[p] + 1]
                /\ issued' = Append(issued, base[p] + 1) /\ UNCHANGED <<id, end>>
  <2>1. /\ base' = [base EXCEPT ![p] = base[p] + 1] /\ base'[p] = base[p] + 1
        /\ issued' = IF Gateway(p) = "target" THEN issued ELSE Append(issued, base'[p])
        /\ UNCHANGED <<id, end>>
    BY <1>1, <1>a DEF Put
  <2>2. CASE Gateway(p) = "target"
    BY <1>a, <1>b, <1>d, <2>1, <2>2
  <2>3. CASE Gateway(p) # "target"
    BY <1>c, <2>1, <2>3
  <2> QED
    BY <2>2, <2>3
<1>2. ASSUME NEW p \in Servers, ReserveIDs(p), Swaps(Gateway(p), seen[p])
      PROVE  \/ Stutter
             \/ /\ p \in Source /\ id["source"] <= seen[p]
                /\ id'["source"] = seen[p] + Batch
                /\ end' = [end EXCEPT ![p] = seen[p] + Batch]
                /\ base' = [base EXCEPT ![p] = seen[p] + 1]
                /\ issued' = Append(issued, seen[p] + 1)
  <2>1. /\ id' = [id EXCEPT ![Gateway(p)] = seen[p] + Batch]
        /\ end' = [end EXCEPT ![p] = seen[p] + Batch]
        /\ base' = [base EXCEPT ![p] = seen[p] + 1]
        /\ issued' = IF Gateway(p) = "target" THEN issued ELSE Append(issued, seen[p] + 1)
    BY <1>2, ReserveFields
  <2>2. CASE Gateway(p) = "target"
    BY <1>a, <1>b, <1>d, <2>1, <2>2
  <2>3. CASE Gateway(p) # "target"
    BY <1>2, <1>a, <1>c, <1>f, <2>1, <2>3
  <2> QED
    BY <2>2, <2>3
<1>3. ASSUME NEW p \in Servers, AllocFails(p) PROVE Stutter
  <2>1. UNCHANGED <<base, end, issued>>
    BY <1>3 DEF AllocFails
  <2>2. \/ id' = id
        \/ /\ Swaps(Gateway(p), seen[p])
           /\ id' = [id EXCEPT ![Gateway(p)] = seen[p] + Batch]
    BY <1>3 DEF AllocFails
  <2>3. CASE id' = id
    BY <1>e, <2>1, <2>3
  <2>4. CASE /\ Swaps(Gateway(p), seen[p])
             /\ id' = [id EXCEPT ![Gateway(p)] = seen[p] + Batch]
    <3>1. CASE Gateway(p) = "target"
      BY <1>a, <1>b, <1>d, <2>1, <2>4, <3>1
    <3>2. CASE Gateway(p) # "target"
      <4>1. /\ Gateway(p) = "source" /\ id["source"] <= seen[p]
            /\ seen[p] <= seen[p] + Batch
        BY <1>c, <1>f, <2>4, <3>2
      <4>2. id'["source"] = seen[p] + Batch
        BY <1>a, <2>4, <4>1
      <4>3. id["source"] <= id'["source"]
        BY <1>a, <4>1, <4>2
      <4> QED
        BY <2>1, <4>3
    <3> QED
      BY <3>1, <3>2
  <2> QED
    BY <2>2, <2>3, <2>4
<1>4. ASSUME StartBackup \/ CopyID PROVE Stutter
  BY <1>4, <1>a, <1>b DEF StartBackup, CopyID, SetID, Source, Servers
<1> HIDE DEF Stutter
<1>5. ASSUME NEW p \in Servers, NEW d \in Created, Put(p, d), base[p] = end[p]
      PROVE  Stutter
  BY <1>5, <1>e DEF Put, ids
<1>6. ASSUME NEW p \in Servers, ReserveIDs(p), ~Swaps(Gateway(p), seen[p])
      PROVE  Stutter
  BY <1>6, <1>e DEF ReserveIDs, ids
<1>7. ASSUME NEW p \in Servers, GetID(p) \/ PutObject(p) PROVE Stutter
  BY <1>7, <1>e DEF GetID, PutObject, ids
<1>8. ASSUME Backup, ~StartBackup, ~CopyID PROVE Stutter
  BY <1>8, <1>e DEF Backup, ListPage, CopyObject, ListBinds, CopyBind, NextPage, Finish,
                    BackupFails, ids
<1>9. ASSUME NEW p \in Source,
             \/ \E d \in Plain : \E x \in objs["source"][d] : RemoveObject(p, d, x)
             \/ \E x \in objs["source"]["plugins"] : RemovePlugin(p, x)
             \/ \E c \in objs["source"]["clusters"],
                   s \in objs["source"]["servers"] : AddBind(p, c, s)
             \/ \E B \in SUBSET binds["source"] : RemoveBinds(p, B)
             \/ \E x \in objs["source"]["plugins"] : ApplyPlugins(p, {x})
             \/ DeletePlugin(p)
      PROVE  Stutter
  BY <1>9, <1>e DEF RemoveObject, RemovePlugin, AddBind, RemoveBinds, ApplyPlugins,
                    DeletePlugin, ids
<1>10. ASSUME UNCHANGED vars PROVE Stutter
  BY <1>10, <1>e DEF vars
<1>11. \/ Stutter
       \/ \E p \in Servers, d \in Created : Put(p, d) /\ base[p] # end[p]
       \/ \E p \in Servers : ReserveIDs(p) /\ Swaps(Gateway(p), seen[p])
  BY <1>3, <1>4, <1>5, <1>6, <1>7, <1>8, <1>9, <1>10 DEF Next, Change, Alloc, Source
<1> QED
  BY <1>1, <1>2, <1>11 DEF Stutter

LEMMA InitRanges == Init => RangesInv
  BY DEF Init, RangesInv, Left, IdsUnique, Source, Servers

\* An id above all that were given out, or left of a range, is given out once.
LEMMA AppendUnique ==
    ASSUME issued \in Seq(Nat), IdsUnique, NEW x \in Nat,
           \A j \in 1..Len(issued) : issued[j] # x, issued' = Append(issued, x)
    PROVE  /\ IdsUnique'
           /\ \A j \in 1..Len(issued') : issued'[j] = x
                 \/ (j \in 1..Len(issued) /\ issued'[j] = issued[j])
<1>1. /\ Len(issued') = Len(issued) + 1 /\ Len(issued) \in Nat
      /\ \A j \in 1..Len(issued) : issued'[j] = issued[j]
      /\ issued'[Len(issued) + 1] = x
  BY AppendId
<1>2. \A j \in 1..Len(issued') : j \in 1..Len(issued) \/ j = Len(issued) + 1
  BY <1>1
<1>3. ASSUME NEW i \in 1..Len(issued'), NEW j \in 1..Len(issued'),
             issued'[i] = issued'[j]
      PROVE  i = j
  <2>1. CASE i \in 1..Len(issued) /\ j \in 1..Len(issued)
    BY <1>1, <1>3, <2>1 DEF IdsUnique
  <2>2. CASE ~(i \in 1..Len(issued) /\ j \in 1..Len(issued))
    BY <1>1, <1>2, <1>3, <2>2
  <2> QED
    BY <2>1, <2>2
<1>4. IdsUnique'
  BY <1>3 DEF IdsUnique
<1> QED
  BY <1>1, <1>2, <1>4

LEMMA NextRanges == StoreTypes /\ RangesInv /\ [Next]_vars => RangesInv'
<1> SUFFICES ASSUME StoreTypes, RangesInv, [Next]_vars PROVE RangesInv'
  OBVIOUS
<1>a. /\ issued \in Seq(Nat) /\ Len(issued) \in Nat
      /\ \A q \in Source : base[q] \in Nat /\ end[q] \in Nat /\ seen[q] \in Nat
      /\ base \in [Servers -> Nat] /\ end \in [Servers -> Nat]
      /\ Source \subseteq Servers
      /\ id["source"] \in Int /\ Batch \in Nat /\ Batch > 0
      /\ \A j \in 1..Len(issued) : issued[j] \in Nat
  <2>1. /\ issued \in Seq(Nat) /\ seen \in [Servers -> Nat]
        /\ base \in [Servers -> Nat] /\ end \in [Servers -> Nat]
        /\ id \in [Gateways -> Nat \union {Absent}]
    BY DEF StoreTypes
  <2>2. Source \subseteq Servers /\ Batch \in Nat /\ Batch > 0 /\ id["source"] \in Int
    BY <2>1 DEF Source, Servers
  <2>3. Len(issued) \in Nat /\ \A j \in 1..Len(issued) : issued[j] \in Nat
    BY <2>1
  <2> QED
    BY <2>1, <2>2, <2>3
<1>b. id'["source"] \in Int
  <2>1. id' \in [Gateways -> Nat \union {Absent}]
    BY NextTypes DEF StoreTypes
  <2> QED
    BY <2>1
<1>1. CASE /\ \A q \in Source : base'[q] = base[q] /\ end'[q] = end[q]
           /\ issued' = issued /\ id["source"] <= id'["source"]
  <2>1. \A q \in Source : Left(q)' = Left(q) /\ \A i \in Left(q) : i \in Int
    BY <1>1, <1>a DEF Left
  <2>2. IdsUnique' /\ \A q \in Source : base'[q] <= end'[q]
    BY <1>1 DEF RangesInv, IdsUnique
  <2>3. \A q \in Source : \A i \in Left(q)' : i <= id'["source"]
    BY <1>1, <1>a, <1>b, <2>1 DEF RangesInv
  <2>4. \A j \in 1..Len(issued') : issued'[j] <= id'["source"]
    <3>1. \A j \in 1..Len(issued) : issued[j] <= id["source"] /\ issued[j] \in Nat
      BY <1>a DEF RangesInv
    <3>2. \A n \in Nat : n <= id["source"] => n <= id'["source"]
      BY <1>1, <1>a, <1>b
    <3> QED
      BY <1>1, <3>1, <3>2
  <2>5. /\ \A q, r \in Source : q # r => Left(q)' \intersect Left(r)' = {}
        /\ \A q \in Source : \A j \in 1..Len(issued') : issued'[j] \notin Left(q)'
    BY <1>1, <2>1 DEF RangesInv
  <2> QED
    BY <2>2, <2>3, <2>4, <2>5 DEF RangesInv
<1>2. ASSUME NEW p \in Source, base[p] # end[p],
             base' = [base EXCEPT ![p] = base[p] + 1],
             issued' = Append(issued, base[p] + 1), UNCHANGED <<id, end>>
      PROVE  RangesInv'
  <2>1. /\ base[p] < end[p] /\ base[p] + 1 \in Left(p)
        /\ base'[p] = base[p] + 1
        /\ \A q \in Source : q # p => base'[q] = base[q]
    BY <1>2, <1>a DEF RangesInv, Left
  <2>2. /\ Left(p)' = Left(p) \ {base[p] + 1}
        /\ \A q \in Source : q # p => Left(q)' = Left(q)
    BY <1>2, <1>a, <2>1 DEF Left
  <2>3. \A j \in 1..Len(issued) : issued[j] # base[p] + 1
    BY <2>1 DEF RangesInv
  <2>4. base[p] + 1 \in Nat
    BY <1>a
  <2>5. /\ IdsUnique'
        /\ \A j \in 1..Len(issued') : issued'[j] = base[p] + 1
              \/ (j \in 1..Len(issued) /\ issued'[j] = issued[j])
    BY <1>2, <1>a, <2>3, <2>4, AppendUnique DEF RangesInv
  <2>6. \A q \in Source : base'[q] <= end'[q]
    BY <1>2, <1>a, <2>1 DEF RangesInv
  <2>7. \A q \in Source : \A i \in Left(q)' : i <= id'["source"]
    BY <1>2, <2>2 DEF RangesInv
  <2>8. \A q, r \in Source : q # r => Left(q)' \intersect Left(r)' = {}
    BY <2>2 DEF RangesInv
  <2>9. \A j \in 1..Len(issued') : issued'[j] <= id'["source"]
    BY <1>2, <2>1, <2>5 DEF RangesInv
  <2>10. \A q \in Source : base[p] + 1 \notin Left(q)'
    BY <2>1, <2>2 DEF RangesInv
  <2>11. \A q \in Source : \A j \in 1..Len(issued') : issued'[j] \notin Left(q)'
    BY <2>2, <2>5, <2>10 DEF RangesInv
  <2> QED
    BY <2>5, <2>6, <2>7, <2>8, <2>9, <2>11 DEF RangesInv
<1>3. ASSUME NEW p \in Source, id["source"] <= seen[p],
             id'["source"] = seen[p] + Batch,
             end' = [end EXCEPT ![p] = seen[p] + Batch],
             base' = [base EXCEPT ![p] = seen[p] + 1],
             issued' = Append(issued, seen[p] + 1)
      PROVE  RangesInv'
  <2>1. /\ base'[p] = seen[p] + 1 /\ end'[p] = seen[p] + Batch
        /\ \A q \in Source : q # p => base'[q] = base[q] /\ end'[q] = end[q]
    BY <1>3, <1>a
  <2>2. /\ \A i \in Left(p)' : i > seen[p] + 1 /\ i <= id'["source"]
        /\ \A q \in Source : q # p => Left(q)' = Left(q)
    BY <1>3, <1>a, <2>1 DEF Left
  <2>3. \A q \in Source : \A i \in Left(q) : i \in Int /\ i <= seen[p]
    BY <1>3, <1>a DEF RangesInv, Left
  <2>4. \A j \in 1..Len(issued) : issued[j] <= seen[p]
    BY <1>3, <1>a DEF RangesInv
  <2>5. seen[p] + 1 \in Nat /\ \A j \in 1..Len(issued) : issued[j] # seen[p] + 1
    BY <1>a, <2>4
  <2>6. /\ IdsUnique'
        /\ \A j \in 1..Len(issued') : issued'[j] = seen[p] + 1
              \/ (j \in 1..Len(issued) /\ issued'[j] = issued[j])
    BY <1>3, <1>a, <2>5, AppendUnique DEF RangesInv
  <2>7. \A q \in Source : base'[q] <= end'[q]
    <3>1. seen[p] + 1 <= seen[p] + Batch
      BY <1>a
    <3> QED
      BY <2>1, <3>1 DEF RangesInv
  <2>8. \A q \in Source : \A i \in Left(q)' : i <= id'["source"]
    BY <1>3, <1>a, <2>2, <2>3
  <2>9. \A q, r \in Source : q # r => Left(q)' \intersect Left(r)' = {}
    <3>1. \A q \in Source : q # p =>
             Left(q)' \intersect Left(p)' = {} /\ Left(p)' \intersect Left(q)' = {}
      BY <1>a, <2>2, <2>3
    <3> QED
      BY <2>2, <3>1 DEF RangesInv
  <2>10. \A j \in 1..Len(issued') : issued'[j] <= id'["source"]
    BY <1>3, <1>a, <2>4, <2>6
  <2>11. \A q \in Source : \A j \in 1..Len(issued') : issued'[j] \notin Left(q)'
    <3>1. \A q \in Source : seen[p] + 1 \notin Left(q)'
      BY <1>a, <2>2, <2>3
    <3>2. \A j \in 1..Len(issued) : issued[j] \notin Left(p)'
      BY <1>a, <2>2, <2>4
    <3> QED
      BY <2>2, <2>6, <3>1, <3>2 DEF RangesInv
  <2> QED
    BY <2>6, <2>7, <2>8, <2>9, <2>10, <2>11 DEF RangesInv
<1> QED
  BY <1>1, <1>2, <1>3, IdSteps

\* The types hold of every reachable state, for any contents of the source.
THEOREM StoreTyped == Spec => []StoreTypes
<1>1. Init => StoreTypes
  BY InitTypes
<1>2. StoreTypes /\ [Next]_vars => StoreTypes'
  BY NextTypes
<1> QED
  BY <1>1, <1>2, PTL DEF Spec

\* No id of the source is given out twice, although both administration
\* servers may generate at once and a transaction that failed may have been
\* committed: a range is above every id that any server was ever given, because
\* createID and updateID compare the id key with the value read.
THEOREM IdsAreUnique == Spec => []IdsUnique
<1>1. Init => StoreTypes /\ RangesInv
  BY InitTypes, InitRanges
<1>2. StoreTypes /\ RangesInv /\ [Next]_vars => StoreTypes' /\ RangesInv'
  BY NextTypes, NextRanges
<1>3. RangesInv => IdsUnique
  BY DEF RangesInv
<1> QED
  BY <1>1, <1>2, <1>3, PTL DEF Spec

-----------------------------------------------------------------------------
(* The steps of the servers beside the backup.                             *)

\* A step of a Put of server p, and of another operation of a source's server.
Op(p) == (\E d \in Created : Put(p, d)) \/ Alloc(p) \/ AllocFails(p)
Edit(p) ==
    \/ \E d \in Plain : \E x \in objs["source"][d] : RemoveObject(p, d, x)
    \/ \E x \in objs["source"]["plugins"] : RemovePlugin(p, x)
    \/ \E c \in objs["source"]["clusters"],
          s \in objs["source"]["servers"] : AddBind(p, c, s)
    \/ \E B \in SUBSET binds["source"] : RemoveBinds(p, B)
    \/ \E x \in objs["source"]["plugins"] : ApplyPlugins(p, {x})
    \/ DeletePlugin(p)

LEMMA StepCases ==
    ASSUME [Next]_vars
    PROVE  \/ \E p \in Servers : Op(p)
           \/ \E p \in Source : Edit(p)
           \/ Backup
           \/ UNCHANGED vars
  BY DEF Next, Change, Op, Edit, Source

\* A Put of server p touches the objects and the id key of its gateway and
\* what is p's; the object is new when the Put had its id.
LEMMA OpFrame ==
    ASSUME StoreTypes, NEW p \in Servers, Op(p)
    PROVE  /\ UNCHANGED <<binds, applied, backup, kept>>
           /\ \A g \in Gateways : g # Gateway(p) =>
                 objs'[g] = objs[g] /\ id'[g] = id[g]
           /\ \A q \in Servers : q # p =>
                 /\ base'[q] = base[q] /\ end'[q] = end[q]
                 /\ pc'[q] = pc[q] /\ arg'[q] = arg[q]
           /\ \A d \in Plain : \A x \in objs'[Gateway(p)][d] :
                 x \in objs[Gateway(p)][d] \/ (pc[p] = "put" /\ x = arg[p][2])
           /\ \A g \in Gateways, d \in Plain : objs[g][d] \subseteq objs'[g][d]
<1>a. /\ objs \in [Gateways -> [Plain -> SUBSET Nat]]
      /\ id \in [Gateways -> Nat \union {Absent}]
      /\ base \in [Servers -> Nat] /\ end \in [Servers -> Nat]
      /\ pc \in [Servers -> {"idle", "getID", "cas", "put", "delete"}]
      /\ arg \in [Servers -> (Plain \union {""}) \X Nat]
      /\ Gateway(p) \in Gateways
  BY DEF StoreTypes, Gateway
<1>b. pc[p] # "idle" => arg[p][1] \in Plain
  BY DEF StoreTypes
<1>1. UNCHANGED <<binds, applied, backup, kept>>
  BY DEF Op, Alloc, Put, GetID, ReserveIDs, PutObject, AllocFails, meta
<1>2. /\ \A q \in Servers : q # p => base'[q] = base[q] /\ end'[q] = end[q]
      /\ \A g \in Gateways : g # Gateway(p) => id'[g] = id[g]
  <2>1. \E x : base' = base \/ base' = [base EXCEPT ![p] = x]
    BY DEF Op, Alloc, Put, GetID, ReserveIDs, PutObject, AllocFails, ids
  <2>2. \E x : end' = end \/ end' = [end EXCEPT ![p] = x]
    BY DEF Op, Alloc, Put, GetID, ReserveIDs, PutObject, AllocFails, ids
  <2>3. \E x : id' = id \/ id' = [id EXCEPT ![Gateway(p)] = x]
    BY DEF Op, Alloc, Put, GetID, ReserveIDs, PutObject, AllocFails, ids
  <2> QED
    BY <1>a, <2>1, <2>2, <2>3
<1>3. \A q \in Servers : q # p => pc'[q] = pc[q] /\ arg'[q] = arg[q]
  <2>1. \E x : pc' = [pc EXCEPT ![p] = x]
    BY DEF Op, Alloc, Put, GetID, ReserveIDs, PutObject, AllocFails
  <2>2. \E x : arg' = arg \/ arg' = [arg EXCEPT ![p] = x]
    BY DEF Op, Alloc, Put, GetID, ReserveIDs, PutObject, AllocFails
  <2> QED
    BY <1>a, <2>1, <2>2
<1>4. \/ objs' = objs
      \/ /\ pc[p] = "put"
         /\ objs' = [objs EXCEPT ![Gateway(p)][arg[p][1]] = @ \union {arg[p][2]}]
  BY DEF Op, Alloc, Put, GetID, ReserveIDs, PutObject, AllocFails, meta
<1>5. CASE objs' = objs
  BY <1>1, <1>2, <1>3, <1>5
<1>6. CASE /\ pc[p] = "put"
           /\ objs' = [objs EXCEPT ![Gateway(p)][arg[p][1]] = @ \union {arg[p][2]}]
  <2>1. arg[p][1] \in Plain
    BY <1>6, <1>b
  <2>2. \A g \in Gateways : g # Gateway(p) => objs'[g] = objs[g]
    BY <1>6, <1>a
  <2>3. \A d \in Plain : objs'[Gateway(p)][d] =
           objs[Gateway(p)][d] \union (IF d = arg[p][1] THEN {arg[p][2]} ELSE {})
    BY <1>6, <1>a, <2>1
  <2>4. \A d \in Plain : \A x \in objs'[Gateway(p)][d] :
           x \in objs[Gateway(p)][d] \/ x = arg[p][2]
    BY <2>3
  <2>5. \A g \in Gateways, d \in Plain : objs[g][d] \subseteq objs'[g][d]
    BY <2>2, <2>3
  <2> QED
    BY <1>1, <1>2, <1>3, <1>6, <2>2, <2>4, <2>5
<1> QED
  BY <1>4, <1>5, <1>6

\* The other operations touch the source only, leave the ids alone, and take
\* from what a backup has to copy what they take from the source.
LEMMA EditFrame ==
    ASSUME StoreTypes, NEW p \in Source, Edit(p)
    PROVE  /\ UNCHANGED <<ids, backup>>
           /\ objs'["target"] = objs["target"]
           /\ binds'["target"] = binds["target"]
           /\ applied'["target"] = applied["target"]
           /\ \A q \in Servers : Gateway(q) = "target" =>
                 pc'[q] = pc[q] /\ arg'[q] = arg[q]
           /\ \A q \in Servers : pc'[q] = "put" => pc[q] = "put" /\ arg'[q] = arg[q]
           /\ \A d \in Plain : objs'["source"][d] \subseteq objs["source"][d]
           /\ \A d \in Plain : kept'[d] \subseteq kept[d]
           /\ \A d \in Plain : \A x \in kept'[d] :
                 x \in objs["source"][d] => x \in objs'["source"][d]
<1>a. /\ objs \in [Gateways -> [Plain -> SUBSET Nat]]
      /\ kept \in [Plain -> SUBSET Nat]
      /\ binds \in [Gateways -> SUBSET Pairs]
      /\ applied \in [Gateways -> SUBSET Nat]
      /\ pc \in [Servers -> {"idle", "getID", "cas", "put", "delete"}]
      /\ arg \in [Servers -> (Plain \union {""}) \X Nat]
      /\ p \in Servers /\ Gateway(p) # "target"
      /\ "plugins" \in Plain
  BY DEF StoreTypes, Source, Servers, Plain, Gateway
<1>1. UNCHANGED <<ids, backup>>
  BY DEF Edit, RemoveObject, RemovePlugin, DeletePlugin, AddBind, RemoveBinds,
         ApplyPlugins
<1>2. \/ UNCHANGED <<pc, arg>>
      \/ \E y : /\ pc' = [pc EXCEPT ![p] = "delete"] /\ arg' = [arg EXCEPT ![p] = y]
      \/ \E y : /\ pc' = [pc EXCEPT ![p] = "idle"] /\ arg' = [arg EXCEPT ![p] = y]
  BY DEF Edit, RemoveObject, RemovePlugin, DeletePlugin, AddBind, RemoveBinds,
         ApplyPlugins
<1>3. /\ \A q \in Servers : Gateway(q) = "target" =>
            pc'[q] = pc[q] /\ arg'[q] = arg[q]
      /\ \A q \in Servers : pc'[q] = "put" => pc[q] = "put" /\ arg'[q] = arg[q]
  BY <1>a, <1>2
<1>4. /\ binds'["target"] = binds["target"]
      /\ applied'["target"] = applied["target"]
  <2>1. \E y : binds' = binds \/ binds' = [binds EXCEPT !["source"] = y]
    BY DEF Edit, RemoveObject, RemovePlugin, DeletePlugin, AddBind, RemoveBinds,
           ApplyPlugins, meta
  <2>2. \E y : applied' = applied \/ applied' = [applied EXCEPT !["source"] = y]
    BY DEF Edit, RemoveObject, RemovePlugin, DeletePlugin, AddBind, RemoveBinds,
           ApplyPlugins, meta
  <2> QED
    BY <1>a, <2>1, <2>2
<1>5. \/ UNCHANGED <<objs, kept>>
      \/ \E d \in Plain : \E x :
            /\ objs' = [objs EXCEPT !["source"][d] = @ \ {x}]
            /\ kept' = [kept EXCEPT ![d] = @ \ {x}]
  BY <1>a DEF Edit, RemoveObject, RemovePlugin, DeletePlugin, AddBind, RemoveBinds,
              ApplyPlugins, meta
<1>7. ASSUME NEW d \in Plain, NEW x,
             objs' = [objs EXCEPT !["source"][d] = @ \ {x}],
             kept' = [kept EXCEPT ![d] = @ \ {x}]
      PROVE  /\ objs'["target"] = objs["target"]
             /\ \A e \in Plain : objs'["source"][e] \subseteq objs["source"][e]
             /\ \A e \in Plain : kept'[e] \subseteq kept[e]
             /\ \A e \in Plain : \A y \in kept'[e] :
                   y \in objs["source"][e] => y \in objs'["source"][e]
  <2>1. objs'["target"] = objs["target"]
    BY <1>a, <1>7
  <2>2. \A e \in Plain : /\ objs'["source"][e] =
                             (IF e = d THEN objs["source"][e] \ {x} ELSE objs["source"][e])
                         /\ kept'[e] = (IF e = d THEN kept[e] \ {x} ELSE kept[e])
    BY <1>a, <1>7
  <2> QED
    BY <2>1, <2>2
<1>8. /\ objs'["target"] = objs["target"]
      /\ \A e \in Plain : objs'["source"][e] \subseteq objs["source"][e]
      /\ \A e \in Plain : kept'[e] \subseteq kept[e]
      /\ \A e \in Plain : \A y \in kept'[e] :
            y \in objs["source"][e] => y \in objs'["source"][e]
  <2>1. ASSUME UNCHANGED <<objs, kept>>
        PROVE  /\ objs'["target"] = objs["target"]
               /\ \A e \in Plain : objs'["source"][e] \subseteq objs["source"][e]
               /\ \A e \in Plain : kept'[e] \subseteq kept[e]
               /\ \A e \in Plain : \A y \in kept'[e] :
                     y \in objs["source"][e] => y \in objs'["source"][e]
    BY <2>1
  <2> QED
    BY <1>5, <1>7, <2>1
<1> QED
  BY <1>1, <1>3, <1>4, <1>8

-----------------------------------------------------------------------------
(* Ids of the objects.                                                     *)

\* The objects of the source have ids that were reserved.
ObjectsInv ==
    /\ \A d \in Plain : \A x \in objs["source"][d] : x <= id["source"]
    /\ \A p \in Source : pc[p] = "put" => arg[p][2] <= id["source"]

\* While the backup runs the target's servers are idle, and what was copied or
\* is about to be has ids of the source.
CopiedInv ==
    Running =>
        /\ \A p \in Servers : Gateway(p) = "target" => pc[p] = "idle"
        /\ \A d \in Plain : \A x \in objs["target"][d] : x <= id["source"]
        /\ \A x \in backup.page : x <= id["source"]
        /\ Dir # "binds" => \A x \in backup.batch : x <= id["source"]

\* After it the copied objects are apart from the range of the server that handled
\* it and from the id that an operation of this server has in hand, and the id key
\* is not below them: what any server reserves from then on is above them.
TargetInv ==
    backup.phase = "ok" =>
        /\ base[Target] <= end[Target]
        /\ \A d \in Plain : \A x \in backup.copied[d] :
              x <= id["target"] /\ x \notin Left(Target)
        /\ IdsFresh

LEMMA IdGrows ==
    ASSUME StoreTypes, [Next]_vars
    PROVE  id["source"] <= id'["source"] /\ id["source"] \in Int /\ id'["source"] \in Int
<1>1. /\ id \in [Gateways -> Nat \union {Absent}]
      /\ seen \in [Servers -> Nat] /\ Source \subseteq Servers
  BY DEF StoreTypes, Source, Servers
<1>2. id' \in [Gateways -> Nat \union {Absent}]
  BY NextTypes DEF StoreTypes
<1>3. id["source"] \in Int /\ id'["source"] \in Int
  BY <1>1, <1>2
<1>4. ASSUME NEW p \in Source, id["source"] <= seen[p], id'["source"] = seen[p] + Batch
      PROVE  id["source"] <= id'["source"]
  <2>1. seen[p] \in Nat
    BY <1>1
  <2> QED
    BY <1>3, <1>4, <2>1
<1>5. id' = id => id["source"] <= id'["source"]
  BY <1>3
<1> QED
  BY <1>3, <1>4, <1>5, IdSteps

\* How a Put gets its id: the next one of the range, or the first of a new one.
LEMMA PutIds ==
    ASSUME StoreTypes, NEW p \in Servers, Op(p), pc'[p] = "put"
    PROVE  \/ /\ pc[p] = "idle" /\ base[p] # end[p] /\ base'[p] = base[p] + 1
              /\ arg'[p][2] = base[p] + 1 /\ UNCHANGED <<id, end, objs>>
           \/ /\ Swaps(Gateway(p), seen[p]) /\ UNCHANGED objs
              /\ id'[Gateway(p)] = seen[p] + Batch /\ end'[p] = seen[p] + Batch
              /\ base'[p] = seen[p] + 1 /\ arg'[p][2] = seen[p] + 1
<1>a. /\ base \in [Servers -> Nat] /\ end \in [Servers -> Nat]
      /\ pc \in [Servers -> {"idle", "getID", "cas", "put", "delete"}]
      /\ arg \in [Servers -> (Plain \union {""}) \X Nat]
      /\ id \in [Gateways -> Nat \union {Absent}] /\ Gateway(p) \in Gateways
  BY DEF StoreTypes, Gateway
<1>1. ASSUME NEW d \in Created, Put(p, d)
      PROVE  /\ pc[p] = "idle" /\ base[p] # end[p] /\ base'[p] = base[p] + 1
             /\ arg'[p][2] = base[p] + 1 /\ UNCHANGED <<id, end, objs>>
  <2>1. base[p] # end[p]
    BY <1>1, <1>a DEF Put
  <2>2. /\ base' = [base EXCEPT ![p] = base[p] + 1]
        /\ arg' = [arg EXCEPT ![p] = <<d, base'[p]>>]
        /\ UNCHANGED <<id, end, objs>> /\ pc[p] = "idle"
    BY <1>1, <2>1 DEF Put, meta, Begin, Free
  <2>3. base'[p] = base[p] + 1
    BY <1>a, <2>2
  <2>4. arg'[p] = <<d, base'[p]>>
    BY <1>a, <2>2
  <2> QED
    BY <2>1, <2>2, <2>3, <2>4
<1>2. ASSUME ReserveIDs(p)
      PROVE  /\ Swaps(Gateway(p), seen[p]) /\ UNCHANGED objs
             /\ id'[Gateway(p)] = seen[p] + Batch /\ end'[p] = seen[p] + Batch
             /\ base'[p] = seen[p] + 1 /\ arg'[p][2] = seen[p] + 1
  <2>1. Swaps(Gateway(p), seen[p])
    BY <1>2, <1>a DEF ReserveIDs, Retry
  <2>2. /\ id' = [id EXCEPT ![Gateway(p)] = seen[p] + Batch]
        /\ end' = [end EXCEPT ![p] = seen[p] + Batch]
        /\ base' = [base EXCEPT ![p] = seen[p] + 1]
        /\ arg' = [arg EXCEPT ![p] = <<arg[p][1], seen[p] + 1>>]
        /\ UNCHANGED meta
    BY <1>2, <2>1, ReserveFields
  <2>3. arg'[p] = <<arg[p][1], seen[p] + 1>>
    BY <1>a, <2>2
  <2> QED
    BY <1>a, <2>1, <2>2, <2>3 DEF meta
<1>3. ~GetID(p) /\ ~PutObject(p) /\ ~AllocFails(p)
  BY <1>a DEF GetID, PutObject, AllocFails
<1> QED
  BY <1>1, <1>2, <1>3 DEF Op, Alloc

LEMMA InitObjects == Init => ObjectsInv /\ CopiedInv /\ TargetInv
<1> SUFFICES ASSUME Init PROVE ObjectsInv /\ CopiedInv /\ TargetInv
  OBVIOUS
<1>1. PICK c \in Contents :
          /\ objs = [g \in Gateways |->
                        IF g = "source" THEN c.objs ELSE [d \in Plain |-> {}]]
          /\ id = [g \in Gateways |-> IF g = "source" THEN c.id ELSE Absent]
  BY DEF Init
<1>2. /\ objs["source"] = c.objs /\ id["source"] = c.id
      /\ c.objs \in [Plain -> SUBSET (0..c.id)] /\ c.id \in Int
  BY <1>1, ContentsAssumption
<1>3. \A d \in Plain : \A x \in objs["source"][d] : x <= id["source"]
  BY <1>2
<1>4. \A p \in Source : pc[p] # "put"
  BY DEF Init, Source, Servers
<1>5. backup.phase = "none"
  BY DEF Init, NoBackup
<1> QED
  BY <1>3, <1>4, <1>5 DEF ObjectsInv, CopiedInv, TargetInv, Running

LEMMA NextObjects ==
    StoreTypes /\ RangesInv /\ ObjectsInv /\ [Next]_vars => ObjectsInv'
<1> SUFFICES ASSUME StoreTypes, RangesInv, ObjectsInv, [Next]_vars PROVE ObjectsInv'
  OBVIOUS
<1>a. id["source"] <= id'["source"] /\ id["source"] \in Int /\ id'["source"] \in Int
  BY IdGrows
<1>b. objs \in [Gateways -> [Plain -> SUBSET Nat]]
  BY DEF StoreTypes
<1>c. \A d \in Plain : \A x \in objs["source"][d] : x \in Nat /\ x <= id'["source"]
  BY <1>a, <1>b DEF ObjectsInv
<1>d. arg \in [Servers -> (Plain \union {""}) \X Nat]
  BY DEF StoreTypes
<1>e. \A p \in Source : /\ p \in Servers /\ Gateway(p) = "source"
                        /\ arg[p][2] \in Nat
  BY <1>d DEF Source, Servers, Gateway
<1>f. \A p \in Source : pc[p] = "put" => arg[p][2] <= id'["source"]
  BY <1>a, <1>e DEF ObjectsInv
<1>1. ASSUME NEW p \in Servers, Op(p) PROVE ObjectsInv'
  <2>1. CASE Gateway(p) = "target"
    <3>1. /\ objs'["source"] = objs["source"]
          /\ \A q \in Source : pc'[q] = pc[q] /\ arg'[q] = arg[q]
      BY <1>1, <1>e, <2>1, OpFrame
    <3> QED
      BY <1>c, <1>f, <3>1 DEF ObjectsInv
  <2>2. CASE Gateway(p) # "target"
    <3>1. p \in Source /\ Gateway(p) = "source"
      BY <2>2 DEF Servers, Source, Gateway
    <3>2. \A d \in Plain : \A x \in objs'["source"][d] :
             x \in objs["source"][d] \/ (pc[p] = "put" /\ x = arg[p][2])
      BY <1>1, <3>1, OpFrame
    <3>3. \A q \in Source : q # p => pc'[q] = pc[q] /\ arg'[q] = arg[q]
      BY <1>1, <1>e, OpFrame
    <3>4. pc'[p] = "put" => arg'[p][2] <= id'["source"]
      <4>1. SUFFICES ASSUME pc'[p] = "put" PROVE arg'[p][2] <= id'["source"]
        OBVIOUS
      <4>2. base[p] \in Nat /\ end[p] \in Nat /\ seen[p] \in Nat
        BY <1>e, <3>1 DEF StoreTypes
      <4>3. base[p] <= end[p] /\ \A i \in Left(p) : i <= id["source"]
        BY <3>1 DEF RangesInv
      <4>4. base[p] # end[p] => base[p] + 1 <= id["source"]
        BY <4>2, <4>3 DEF Left
      <4>5. seen[p] + 1 <= seen[p] + Batch
        BY <4>2
      <4> QED
        BY <1>1, <1>a, <3>1, <4>1, <4>4, <4>5, PutIds
    <3> QED
      BY <1>c, <1>f, <3>1, <3>2, <3>3, <3>4 DEF ObjectsInv
  <2> QED
    BY <2>1, <2>2
<1>2. ASSUME NEW p \in Source, Edit(p) PROVE ObjectsInv'
  <2>1. /\ \A q \in Servers : pc'[q] = "put" => pc[q] = "put" /\ arg'[q] = arg[q]
        /\ \A d \in Plain : objs'["source"][d] \subseteq objs["source"][d]
    BY <1>2, EditFrame
  <2> QED
    BY <1>c, <1>e, <1>f, <2>1 DEF ObjectsInv
<1>3. CASE Backup
  <2>1. objs'["source"] = objs["source"] /\ UNCHANGED <<pc, arg>>
    <3>1. CASE StartBackup
      BY <1>b, <3>1 DEF StartBackup
    <3>2. CASE ~StartBackup
      BY <1>3, <3>2, BackupFrame
    <3> QED
      BY <3>1, <3>2
  <2> QED
    BY <1>c, <1>f, <2>1 DEF ObjectsInv
<1>4. CASE UNCHANGED vars
  BY <1>c, <1>f, <1>4 DEF ObjectsInv, vars
<1> QED
  BY <1>1, <1>2, <1>3, <1>4, StepCases

\* BackupTo ends well with the id only, and runs on from a state where it ran.
LEMMA PhaseSteps ==
    ASSUME StoreTypes, Backup
    PROVE  /\ backup'.phase = "ok" => CopyID
           /\ Running' => StartBackup \/ Running
<1>1. CASE StartBackup
  <2>1. backup'.phase = "list"
    BY <1>1, NoBackupFields DEF StartBackup, Backups
  <2> QED
    BY <1>1, <2>1
<1>2. CASE ListPage
  <2>1. backup'.phase = "copy"
    BY <1>2, ListPageFields
  <2> QED
    BY <1>2, <2>1 DEF ListPage, At, Running
<1>3. CASE CopyObject \/ CopyBind \/ ListBinds
  BY <1>3, CopyObjectFields, CopyBindFields, ListBindsFields DEF At, Running
<1>4. CASE NextPage
  <2>1. backup'.phase = "list"
    BY <1>4 DEF NextPage, StoreTypes, Backups
  <2> QED
    BY <1>4, <2>1 DEF NextPage, PageDone, At, Running
<1>5. CASE Finish
  <2>1. backup'.phase \in {"id", "list", "failed"}
    BY <1>5, NextDirFields, FailedFields DEF Finish
  <2> QED
    BY <1>5, <2>1 DEF Finish, PageDone, At, Running
<1>6. CASE CopyID
  BY <1>6 DEF CopyID, At, Running
<1>7. CASE BackupFails
  <2>1. backup'.phase = "failed"
    BY <1>7, FailedFields DEF BackupFails
  <2> QED
    BY <2>1 DEF Running
<1> QED
  BY <1>1, <1>2, <1>3, <1>4, <1>5, <1>6, <1>7 DEF Backup

\* What a step of the backup adds to the target was in the batch or on the page,
\* and what it puts there was listed in the source.
LEMMA CopySteps ==
    ASSUME StoreTypes, Backup, ~StartBackup, Running, Running'
    PROVE  /\ \A d \in Plain : \A x \in objs'["target"][d] :
                 \/ x \in objs["target"][d]
                 \/ Dir # "binds" /\ x \in backup.batch \union backup.page
           /\ \A x \in backup'.page : x \in backup.page \union Listed
           /\ Dir' # "binds" => \A x \in backup'.batch :
                 Dir # "binds" /\ x \in backup.batch \union backup.page
<1>a. "binds" \notin Plain
  BY DEF Plain
<1>b. applied["target"] \in SUBSET Nat /\ LastApplied \in SUBSET Nat
  BY DEF StoreTypes, LastApplied
<1>1. CASE ListPage
  <2>1. /\ backup'.kind = backup.kind /\ backup'.batch = backup.batch
        /\ backup'.page \subseteq From /\ UNCHANGED meta
    BY <1>1, ListPageFields DEF IsPage, ListPage
  <2>2. At("list")
    BY <1>1 DEF ListPage
  <2>3. Dir' = Dir
    BY <2>1 DEF Dir
  <2>4. backup.batch \subseteq backup.batch \union backup.page /\ From \subseteq Listed
    BY ListedIds
  <2> QED
    BY <2>1, <2>3, <2>4 DEF meta
<1>2. CASE CopyObject
  <2>1. /\ Dir # "binds" /\ backup'.kind = backup.kind
    BY <1>2, CopyObjectFields
  <2>2. PICK x \in backup.page, B \in SUBSET Nat :
            /\ B = backup.batch \union {x}
            /\ backup'.page = backup.page \ {x} /\ backup'.batch \in {B, {}}
            /\ Write(B, applied["target"]) \/ UNCHANGED meta
    BY <1>2, CopyObjectFields
  <2>3. ASSUME Write(B, applied["target"]), NEW d \in Plain
        PROVE  objs'["target"][d] \subseteq objs["target"][d] \union B
    <3>1. objs'["target"][d] = objs["target"][d] \union (IF d = Dir THEN B ELSE {})
      BY <1>b, <2>1, <2>3, WriteFields
    <3> QED
      BY <3>1
  <2>4. \A d \in Plain : \A y \in objs'["target"][d] : y \in objs["target"][d] \union B
    BY <2>2, <2>3 DEF meta
  <2> QED
    BY <2>1, <2>2, <2>4
<1>3. CASE ListBinds
  <2>1. Dir = "binds" /\ backup'.kind = backup.kind /\ UNCHANGED meta
    BY <1>3, ListBindsFields DEF ListBinds
  <2>2. backup'.page \subseteq backup.page
    BY <1>3, ListBindsFields
  <2>3. Dir' = Dir
    BY <2>1 DEF Dir
  <2> QED
    BY <2>1, <2>2, <2>3 DEF meta
<1>4. CASE CopyBind
  <2>1. Dir = "binds" /\ backup'.kind = backup.kind /\ backup'.page = backup.page
    BY <1>4, CopyBindFields
  <2>2. PICK B \in SUBSET Pairs : Write(B, applied["target"]) \/ UNCHANGED meta
    BY <1>4, CopyBindFields
  <2>3. ASSUME Write(B, applied["target"]), NEW d \in Plain
        PROVE  objs'["target"][d] = objs["target"][d]
    BY <2>1, <2>3 DEF Write
  <2>4. Dir' = Dir
    BY <2>1 DEF Dir
  <2> QED
    BY <2>1, <2>2, <2>3, <2>4 DEF meta
<1>5. CASE NextPage
  <2>1. /\ backup'.kind = backup.kind /\ backup'.batch = backup.batch
        /\ backup'.page = backup.page /\ UNCHANGED meta
    BY <1>5 DEF NextPage, StoreTypes, Backups
  <2>2. Dir' = Dir
    BY <2>1 DEF Dir
  <2> QED
    BY <2>1, <2>2 DEF meta
<1>6. CASE Finish
  <2>1. backup' = NextDir
    BY <1>6, FailedFields DEF Finish, Running
  <2>2. backup'.page = {} /\ backup'.batch = {}
    BY <2>1, NextDirFields
  <2>3. Write(backup.batch, LastApplied) \/ UNCHANGED meta
    BY <1>6 DEF Finish, BatchOk, BatchFails, meta
  <2>4. backup.batch \in SUBSET (IF Dir = "binds" THEN Pairs ELSE Nat)
    BY DEF StoreTypes, BatchTypes
  <2>5. ASSUME Write(backup.batch, LastApplied), NEW d \in Plain
        PROVE  objs'["target"][d] =
                  objs["target"][d] \union (IF d = Dir THEN backup.batch ELSE {})
    BY <1>b, <2>4, <2>5, WriteFields
  <2>6. \A d \in Plain : \A x \in objs'["target"][d] :
           x \in objs["target"][d] \/ (d = Dir /\ x \in backup.batch)
    BY <2>3, <2>5 DEF meta
  <2> QED
    BY <1>a, <2>2, <2>6
<1>7. ~CopyID /\ ~BackupFails
  <2>1. CopyID => backup'.phase = "ok"
    BY DEF CopyID, StoreTypes, Backups
  <2>2. BackupFails => backup'.phase = "failed"
    BY FailedFields DEF BackupFails
  <2> QED
    BY <2>1, <2>2 DEF Running
<1> QED
  BY <1>1, <1>2, <1>3, <1>4, <1>5, <1>6, <1>7 DEF Backup

LEMMA NextCopied ==
    StoreTypes /\ ObjectsInv /\ CopiedInv /\ [Next]_vars => CopiedInv'
<1> SUFFICES ASSUME StoreTypes, ObjectsInv, CopiedInv, [Next]_vars, Running'
             PROVE  CopiedInv'
  BY DEF CopiedInv
<1>a. id["source"] <= id'["source"] /\ id["source"] \in Int /\ id'["source"] \in Int
  BY IdGrows
<1>b. /\ objs \in [Gateways -> [Plain -> SUBSET Nat]] /\ backup \in Backups /\ BatchTypes
  BY DEF StoreTypes
<1>c. backup.page \in SUBSET Nat /\ (Dir # "binds" => backup.batch \in SUBSET Nat)
  BY <1>b DEF Backups, BatchTypes
<1>d. Running =>
        /\ \A p \in Servers : Gateway(p) = "target" => pc[p] = "idle"
        /\ \A d \in Plain : \A x \in objs["target"][d] : x <= id'["source"]
        /\ \A x \in backup.page : x <= id'["source"]
        /\ Dir # "binds" => \A x \in backup.batch : x <= id'["source"]
  <2> SUFFICES ASSUME Running
               PROVE  /\ \A p \in Servers : Gateway(p) = "target" => pc[p] = "idle"
                      /\ \A d \in Plain : \A x \in objs["target"][d] : x <= id'["source"]
                      /\ \A x \in backup.page : x <= id'["source"]
                      /\ Dir # "binds" => \A x \in backup.batch : x <= id'["source"]
    OBVIOUS
  <2>1. \A x \in Nat : x <= id["source"] => x <= id'["source"]
    BY <1>a
  <2>2. \A d \in Plain : \A x \in objs["target"][d] : x \in Nat
    BY <1>b
  <2> QED
    BY <1>c, <2>1, <2>2 DEF CopiedInv
<1>e. ASSUME Running, UNCHANGED backup, objs'["target"] = objs["target"],
             \A p \in Servers : Gateway(p) = "target" => pc'[p] = pc[p]
      PROVE  CopiedInv'
  BY <1>d, <1>e DEF CopiedInv, Dir
<1>1. ASSUME NEW p \in Servers, Op(p) PROVE CopiedInv'
  <2>1. UNCHANGED backup /\ Running
    BY <1>1, OpFrame DEF Running
  <2>2. Gateway(p) # "target"
    <3>1. SUFFICES ASSUME Gateway(p) = "target" PROVE FALSE
      OBVIOUS
    <3>2. pc[p] = "idle"
      BY <1>d, <2>1, <3>1
    <3>3. ~Free(p)
      BY <2>1, <3>1 DEF Free, Gateway
    <3> QED
      BY <1>1, <3>2, <3>3 DEF Op, Put, Begin, Alloc, GetID, ReserveIDs, PutObject,
                              AllocFails
  <2>3. /\ objs'["target"] = objs["target"]
        /\ \A q \in Servers : Gateway(q) = "target" => pc'[q] = pc[q]
    BY <1>1, <2>2, OpFrame
  <2> QED
    BY <1>e, <2>1, <2>3
<1>2. ASSUME NEW p \in Source, Edit(p) PROVE CopiedInv'
  <2>1. /\ UNCHANGED backup /\ objs'["target"] = objs["target"]
        /\ \A q \in Servers : Gateway(q) = "target" => pc'[q] = pc[q]
    BY <1>2, EditFrame
  <2>2. Running
    BY <2>1 DEF Running
  <2> QED
    BY <1>e, <2>1, <2>2
<1>3. CASE StartBackup
  <2>1. /\ backup'.page = {} /\ backup'.batch = {}
        /\ \A p \in Servers : Gateway(p) = "target" => pc'[p] = "idle"
    BY <1>3, NoBackupFields DEF StartBackup, Backups
  <2>2. \A d \in Plain : objs'["target"][d] = {}
    BY <1>3, <1>b DEF StartBackup
  <2> QED
    BY <2>1, <2>2 DEF CopiedInv
<1>4. CASE Backup /\ ~StartBackup
  <2>1. Running
    BY <1>4, PhaseSteps
  <2>2. /\ \A d \in Plain : \A x \in objs'["target"][d] :
              \/ x \in objs["target"][d]
              \/ Dir # "binds" /\ x \in backup.batch \union backup.page
        /\ \A x \in backup'.page : x \in backup.page \union Listed
        /\ Dir' # "binds" => \A x \in backup'.batch :
              Dir # "binds" /\ x \in backup.batch \union backup.page
    BY <1>4, <2>1, CopySteps
  <2>3. UNCHANGED pc
    BY <1>4, BackupFrame
  <2>4. \A x \in Listed : x <= id'["source"]
    <3>1. \A d \in Plain : \A x \in objs["source"][d] : x \in Nat /\ x <= id'["source"]
      BY <1>a, <1>b DEF ObjectsInv
    <3>2. "clusters" \in Plain
      BY DEF Plain
    <3>3. Dir # "binds" => Dir \in Plain
      BY ListedIds
    <3> QED
      BY <3>1, <3>2, <3>3 DEF Listed
  <2> QED
    BY <1>d, <2>1, <2>2, <2>3, <2>4 DEF CopiedInv
<1>5. CASE UNCHANGED vars
  <2>1. UNCHANGED <<backup, objs, pc>>
    BY <1>5 DEF vars
  <2>2. Running
    BY <2>1 DEF Running
  <2> QED
    BY <1>e, <2>1, <2>2
<1> QED
  BY <1>1, <1>2, <1>3, <1>4, <1>5, StepCases

LEMMA NextTarget ==
    StoreTypes /\ CopiedInv /\ TargetInv /\ [Next]_vars => TargetInv'
<1> SUFFICES ASSUME StoreTypes, CopiedInv, TargetInv, [Next]_vars,
                    backup'.phase = "ok"
             PROVE  TargetInv'
  BY DEF TargetInv, IdsFresh
<1>a. /\ objs \in [Gateways -> [Plain -> SUBSET Nat]]
      /\ id \in [Gateways -> Nat \union {Absent}]
      /\ base \in [Servers -> Nat] /\ end \in [Servers -> Nat]
      /\ arg \in [Servers -> (Plain \union {""}) \X Nat]
      /\ seen \in [Servers -> Nat]
      /\ pc \in [Servers -> {"idle", "getID", "cas", "put", "delete"}]
      /\ backup \in Backups
  BY DEF StoreTypes
<1>b. /\ base[Target] \in Nat /\ end[Target] \in Nat /\ seen[Target] \in Nat
      /\ Target \in Servers /\ Gateway(Target) = "target"
  BY <1>a DEF Servers, Gateway
<1>c. id["target"] \in Int /\ id'["target"] \in Int
  <2>1. /\ id["target"] \in Nat \union {Absent} /\ id' \in [Gateways -> Nat \union {Absent}]
    BY <1>a, NextTypes DEF StoreTypes
  <2> QED
    BY <2>1
<1>d. \A d \in Plain : \A x \in backup.copied[d] : x \in Nat
  BY <1>a DEF Backups
\* The id key grows, and the server goes on without a new id.
<1>e. ASSUME UNCHANGED backup, id["target"] <= id'["target"],
             base'[Target] = base[Target], end'[Target] = end[Target],
             pc'[Target] = "put" => pc[Target] = "put" /\ arg'[Target] = arg[Target]
      PROVE  TargetInv'
  <2>1. Left(Target)' = Left(Target) /\ backup.phase = "ok"
    BY <1>e DEF Left
  <2>2. IdsFresh'
    BY <1>e, <2>1 DEF TargetInv, IdsFresh
  <2>3. \A d \in Plain : \A x \in backup.copied[d] : x <= id'["target"]
    BY <1>c, <1>d, <1>e, <2>1 DEF TargetInv
  <2> QED
    BY <1>e, <2>1, <2>2, <2>3 DEF TargetInv
<1>1. ASSUME NEW p \in Servers, Op(p) PROVE TargetInv'
  <2>a. UNCHANGED backup /\ backup.phase = "ok"
    BY <1>1, OpFrame
  <2>b. id["target"] <= id'["target"]
    <3>1. \/ id' = id
          \/ /\ Swaps(Gateway(p), seen[p])
             /\ id' = [id EXCEPT ![Gateway(p)] = seen[p] + Batch]
      BY <1>1 DEF Op, Alloc, Put, GetID, ReserveIDs, PutObject, AllocFails, ids
    <3>2. CASE id' = id
      BY <1>c, <3>2
    <3>3. CASE Gateway(p) # "target"
      <4>1. id'["target"] = id["target"]
        BY <1>a, <3>1, <3>3
      <4> QED
        BY <1>c, <4>1
    <3>4. CASE /\ Swaps("target", seen[p])
               /\ id' = [id EXCEPT !["target"] = seen[p] + Batch]
      <4>0. seen[p] \in Nat
        BY <1>a
      <4>1. id["target"] <= seen[p]
        BY <1>c, <3>4, <4>0 DEF Swaps
      <4>2. id'["target"] = seen[p] + Batch
        BY <1>a, <3>4
      <4> QED
        BY <1>c, <4>0, <4>1, <4>2
    <3> QED
      BY <3>1, <3>2, <3>3, <3>4
  <2>1. CASE p # Target
    <3>1. /\ base'[Target] = base[Target] /\ end'[Target] = end[Target]
          /\ pc'[Target] = pc[Target] /\ arg'[Target] = arg[Target]
      BY <1>1, <1>b, <2>1, OpFrame
    <3> QED
      BY <1>e, <2>a, <2>b, <3>1
  <2>2. CASE p = Target /\ pc'[Target] = "put"
    <3>2. /\ base[Target] <= end[Target]
          /\ \A d \in Plain : \A x \in backup.copied[d] :
                x <= id["target"] /\ x \notin Left(Target)
      BY <2>a DEF TargetInv
    <3>3. CASE /\ base[Target] # end[Target] /\ base'[Target] = base[Target] + 1
               /\ arg'[Target][2] = base[Target] + 1 /\ UNCHANGED <<id, end, objs>>
      <4>1. /\ base[Target] + 1 \in Left(Target) /\ base[Target] + 1 <= end[Target]
            /\ Left(Target)' = Left(Target) \ {base[Target] + 1}
        BY <1>b, <3>2, <3>3 DEF Left
      <4>2. IdsFresh'
        BY <2>a, <3>2, <3>3, <4>1 DEF IdsFresh
      <4> QED
        BY <2>a, <3>2, <3>3, <4>1, <4>2 DEF TargetInv
    <3>4. CASE /\ Swaps("target", seen[Target]) /\ UNCHANGED objs
               /\ id'["target"] = seen[Target] + Batch
               /\ end'[Target] = seen[Target] + Batch
               /\ base'[Target] = seen[Target] + 1
               /\ arg'[Target][2] = seen[Target] + 1
      <4>1. id["target"] <= seen[Target]
        BY <1>b, <1>c, <3>4 DEF Swaps
      <4>2. \A d \in Plain : \A x \in backup.copied[d] : x <= seen[Target]
        BY <1>b, <1>c, <1>d, <3>2, <4>1
      <4>3. \A i \in Left(Target)' : i \in Int /\ i > seen[Target] + 1
        BY <1>b, <3>4 DEF Left
      <4>4. base'[Target] <= end'[Target] /\ seen[Target] <= id'["target"]
        BY <1>b, <3>4
      <4>5. \A d \in Plain : \A x \in backup.copied[d] :
               /\ x <= id'["target"] /\ x \notin Left(Target)'
               /\ x # seen[Target] + 1
        BY <1>b, <1>c, <1>d, <4>2, <4>3, <4>4
      <4>6. IdsFresh'
        BY <2>a, <3>4, <4>5 DEF IdsFresh
      <4> QED
        BY <2>a, <4>4, <4>5, <4>6 DEF TargetInv
    <3> QED
      BY <1>1, <1>b, <2>2, <3>3, <3>4, PutIds
  <2>3. CASE p = Target /\ pc'[Target] # "put"
    <3>1. UNCHANGED <<base, end>>
      <4>1. ASSUME NEW d \in Created, Put(Target, d) PROVE UNCHANGED <<base, end>>
        BY <1>a, <1>b, <2>3, <4>1 DEF Put, ids
      <4>2. ASSUME ReserveIDs(Target) PROVE UNCHANGED <<base, end>>
        BY <1>a, <1>b, <2>3, <4>2 DEF ReserveIDs, ids
      <4> QED
        BY <1>1, <2>3, <4>1, <4>2 DEF Op, Alloc, GetID, PutObject, AllocFails, ids
    <3> QED
      BY <1>e, <2>a, <2>b, <2>3, <3>1
  <2> QED
    BY <2>1, <2>2, <2>3
<1>2. ASSUME NEW p \in Source, Edit(p) PROVE TargetInv'
  <2>1. UNCHANGED <<ids, backup>> /\ pc'[Target] = pc[Target] /\ arg'[Target] = arg[Target]
    BY <1>2, <1>b, EditFrame
  <2> QED
    BY <1>c, <1>e, <2>1 DEF ids
<1>3. CASE Backup
  <2>1. CopyID
    BY <1>3, PhaseSteps
  <2>2. /\ Running /\ UNCHANGED <<meta, pc>>
        /\ backup'.copied = objs["target"]
        /\ id' = [id EXCEPT !["target"] = IF id["source"] = Absent THEN 0 ELSE id["source"]]
        /\ base' = [base EXCEPT ![Target] = 0] /\ end' = [end EXCEPT ![Target] = 0]
    BY <1>a, <2>1 DEF CopyID, SetID, At, Running, Backups
  <2>3. /\ pc[Target] = "idle"
        /\ \A d \in Plain : \A x \in objs["target"][d] : x <= id["source"]
    BY <1>b, <2>2 DEF CopiedInv
  <2>4. id["source"] \in Int /\ id["source"] <= id'["target"]
    <3>1. id["source"] \in Nat \union {Absent}
      BY <1>a
    <3>2. id'["target"] = IF id["source"] = Absent THEN 0 ELSE id["source"]
      BY <1>a, <2>2
    <3> QED
      BY <3>1, <3>2
  <2>5. base'[Target] = 0 /\ end'[Target] = 0
    BY <1>a, <1>b, <2>2
  <2>6. Left(Target)' = {}
    BY <2>5 DEF Left
  <2>7. \A d \in Plain : \A x \in objs["target"][d] : x \in Nat
    BY <1>a
  <2>8. \A d \in Plain : \A x \in backup'.copied[d] : x <= id'["target"]
    BY <1>c, <2>2, <2>3, <2>4, <2>7
  <2>9. IdsFresh'
    BY <2>2, <2>3 DEF IdsFresh
  <2> QED
    BY <2>5, <2>6, <2>8, <2>9 DEF TargetInv
<1>4. CASE UNCHANGED vars
  BY <1>4, <1>c, <1>e DEF vars
<1> QED
  BY <1>1, <1>2, <1>3, <1>4, StepCases

\* After a backup the server of the target that handled it never gives an id to a
\* new object that a copied object has, whatever its peers do with the ranges that
\* they have left: SetID runs last, empties the range of this server, the id key of
\* the source is read when every object that was copied had its id, and the id key
\* of the target only grows from there.
THEOREM IdsAreFresh == Spec => []IdsFresh
<1> DEFINE Inv == StoreTypes /\ RangesInv /\ ObjectsInv /\ CopiedInv /\ TargetInv
<1>1. Init => Inv
  BY InitTypes, InitRanges, InitObjects
<1>2. Inv /\ [Next]_vars => Inv'
  BY NextTypes, NextRanges, NextObjects, NextCopied, NextTarget
<1>3. Inv => IdsFresh
  BY DEF TargetInv, IdsFresh
<1> QED
  BY <1>1, <1>2, <1>3, PTL DEF Spec

-----------------------------------------------------------------------------
(* What a backup has copied.                                               *)

Copying == backup.phase \in {"list", "copy"}

\* Directory k of Order is behind; an object or cluster x is yet to be listed.
Past(k) == backup.phase \in {"id", "ok"} \/ (Copying /\ backup.kind > k)
Ahead(x) == (At("list") \/ ~backup.last) /\ x >= backup.start

\* Of the directories behind the current one everything that stayed in the
\* source is in the target.  Of the current one it is there, in the batch, on
\* the page, or is still to be listed.
CompleteInv ==
    /\ \A d \in Plain : kept[d] \subseteq objs["source"][d]
    /\ \A k \in 1..6 : Past(k) /\ k # 3 =>
          kept[Order[k]] \subseteq objs["target"][Order[k]]
    /\ Copying /\ Dir # "binds" =>
          \A x \in kept[Dir] :
              \/ x \in objs["target"][Dir] \/ x \in backup.batch
              \/ x \in backup.page \/ Ahead(x)
    /\ At("list") => backup.page = {}

LEMMA InitComplete == Init => CompleteInv
  BY NoBackupFields DEF Init, CompleteInv, Past, Copying, At, NoBackup

\* The part of the invariant about the directory that is copied.
Current ==
    Copying /\ Dir # "binds" =>
        \A x \in kept[Dir] :
            \/ x \in objs["target"][Dir] \/ x \in backup.batch
            \/ x \in backup.page \/ Ahead(x)

\* A new directory: everything is yet to be listed.
LEMMA DirectoryStarts ==
    ASSUME StoreTypes', backup'.phase = "list", backup'.start = 0
    PROVE  Current'
<1>1. kept' \in [Plain -> SUBSET Nat] /\ backup'.kind \in 1..6
  BY DEF StoreTypes, Backups
<1>2. Dir' # "binds" => Dir' \in Plain
  BY <1>1, OrderFields DEF Dir
<1>3. \A x \in Nat : Ahead(x)'
  BY DEF Ahead, At
<1> QED
  BY <1>1, <1>2, <1>3 DEF Current

\* A page takes what is yet to be listed, up to its last object.
LEMMA PageAhead ==
    ASSUME StoreTypes, ListPage, NEW x \in Listed, x >= backup.start,
           x \notin backup'.page
    PROVE  Ahead(x)'
<1>1. /\ IsPage(backup'.page)
      /\ backup'.last = (Cardinality(backup'.page) < Limit)
      /\ IF backup'.page = {} THEN backup'.start = backup.start
         ELSE IsLast(backup'.start - 1, backup'.page)
      /\ backup'.start \in Nat
  BY ListPageFields DEF Backups
<1>2. x \in From /\ x \in Nat
  BY ListedIds DEF From
<1>3. ~backup'.last
  BY <1>1, <1>2 DEF IsPage
<1>4. x >= backup'.start
  <2>1. CASE backup'.page = {}
    BY <1>1, <2>1
  <2>2. CASE backup'.page # {}
    <3>1. backup'.start - 1 < x
      BY <1>1, <1>2, <2>2 DEF IsPage, IsLast
    <3> QED
      BY <1>1, <1>2, <3>1
  <2> QED
    BY <2>1, <2>2
<1> QED
  BY <1>3, <1>4 DEF Ahead

LEMMA PageKeepsCurrent ==
    ASSUME StoreTypes, CompleteInv, ListPage
    PROVE  Current'
<1>1. /\ backup'.kind = backup.kind /\ backup'.batch = backup.batch
  BY ListPageFields
<1>2. /\ Dir' = Dir /\ UNCHANGED <<objs, kept>> /\ backup.page = {} /\ Copying
  BY <1>1 DEF Dir, ListPage, At, meta, CompleteInv, Copying
<1> SUFFICES ASSUME Dir # "binds", NEW x \in kept[Dir],
                    x \notin objs["target"][Dir], x \notin backup.batch,
                    x \notin backup'.page
             PROVE  Ahead(x)'
  BY <1>1, <1>2 DEF Current
<1>3. Dir \in Plain /\ Listed = objs["source"][Dir]
  BY ListedIds
<1>4. x >= backup.start /\ x \in Listed
  BY <1>2, <1>3 DEF CompleteInv, Ahead
<1> QED
  BY <1>4, PageAhead

\* At the end of a directory all of it that stayed is in the target.
LEMMA DirectoryEnds ==
    ASSUME StoreTypes, CompleteInv, Finish, backup'.phase # "failed"
    PROVE  /\ backup' = NextDir
           /\ backup.kind # 3 => kept[Dir] \subseteq objs'["target"][Dir]
<1>1. /\ PageDone /\ backup.last /\ backup' = NextDir
      /\ IF backup.batch = {} THEN UNCHANGED meta ELSE Write(backup.batch, LastApplied)
  BY FailedFields DEF Finish, BatchOk, BatchFails
<1>2. SUFFICES ASSUME backup.kind # 3 PROVE kept[Dir] \subseteq objs'["target"][Dir]
  BY <1>1
<1>3. Dir # "binds" /\ Dir \in Plain
  BY <1>2, OrderFields, ListedIds DEF Dir, StoreTypes, Backups
<1>4. backup.phase = "copy" /\ backup.page = {} /\ Copying
  BY <1>1 DEF PageDone, At, Copying
<1>5. \A x \in kept[Dir] : x \in objs["target"][Dir] \/ x \in backup.batch
  BY <1>1, <1>3, <1>4 DEF CompleteInv, Ahead, At
<1>6. CASE backup.batch = {}
  BY <1>1, <1>5, <1>6 DEF meta
<1>7. CASE backup.batch # {}
  <2>1. /\ LastApplied \in SUBSET Nat
        /\ backup.batch \in SUBSET (IF Dir = "binds" THEN Pairs ELSE Nat)
    BY DEF StoreTypes, BatchTypes, LastApplied
  <2>2. Write(backup.batch, LastApplied)
    BY <1>1, <1>7
  <2>3. objs'["target"][Dir] = objs["target"][Dir] \union backup.batch
    BY <1>3, <2>1, <2>2, WriteFields
  <2> QED
    BY <1>5, <2>3
<1> QED
  BY <1>6, <1>7

LEMMA NextComplete == StoreTypes /\ CompleteInv /\ [Next]_vars => CompleteInv'
<1> SUFFICES ASSUME StoreTypes, CompleteInv, [Next]_vars PROVE CompleteInv'
  OBVIOUS
<1>a. StoreTypes' /\ backup.kind \in 1..6
  BY NextTypes DEF StoreTypes, Backups
<1>b. /\ \A d \in Plain : kept[d] \subseteq objs["source"][d]
      /\ \A k \in 1..6 : Past(k) /\ k # 3 =>
            kept[Order[k]] \subseteq objs["target"][Order[k]]
      /\ Current /\ (At("list") => backup.page = {})
  BY DEF CompleteInv, Current
<1>c. ASSUME \A d \in Plain : kept'[d] \subseteq objs'["source"][d],
             \A k \in 1..6 : Past(k)' /\ k # 3 =>
                kept'[Order[k]] \subseteq objs'["target"][Order[k]],
             Current', At("list")' => backup'.page = {}
      PROVE  CompleteInv'
  BY <1>c DEF CompleteInv, Current
<1>d. \A k \in 1..6 : k # 3 => Order[k] \in Plain
  BY OrderFields
<1>e. Dir # "binds" => Dir \in Plain
  BY ListedIds
<1>f. ASSUME UNCHANGED backup,
             \A d \in Plain : kept'[d] \subseteq kept[d],
             \A d \in Plain : kept'[d] \subseteq objs'["source"][d],
             \A d \in Plain : objs["target"][d] \subseteq objs'["target"][d]
      PROVE  CompleteInv'
  <2>1. \A k \in 1..6 : Past(k)' /\ k # 3 =>
           kept'[Order[k]] \subseteq objs'["target"][Order[k]]
    BY <1>b, <1>d, <1>f DEF Past, Copying
  <2>2. Current'
    BY <1>b, <1>e, <1>f DEF Current, Copying, Dir, Ahead, At
  <2>3. At("list")' => backup'.page = {}
    BY <1>b, <1>f DEF At
  <2> QED
    BY <1>c, <1>f, <2>1, <2>2, <2>3
<1>1. ASSUME NEW p \in Servers, Op(p) PROVE CompleteInv'
  <2>1. UNCHANGED <<backup, kept>>
    BY <1>1, OpFrame
  <2>2. \A d \in Plain : /\ objs["target"][d] \subseteq objs'["target"][d]
                         /\ objs["source"][d] \subseteq objs'["source"][d]
    BY <1>1, OpFrame
  <2> QED
    BY <1>b, <1>f, <2>1, <2>2
<1>2. ASSUME NEW p \in Source, Edit(p) PROVE CompleteInv'
  <2>1. UNCHANGED backup /\ objs'["target"] = objs["target"]
    BY <1>2, EditFrame
  <2>2. /\ \A d \in Plain : kept'[d] \subseteq kept[d]
        /\ \A d \in Plain : \A x \in kept'[d] :
              x \in objs["source"][d] => x \in objs'["source"][d]
    BY <1>2, EditFrame
  <2>3. \A d \in Plain : kept'[d] \subseteq objs'["source"][d]
    BY <1>b, <2>2
  <2> QED
    BY <1>f, <2>1, <2>2, <2>3
<1>3. CASE StartBackup
  <2>1. /\ backup'.phase = "list" /\ backup'.kind = 1 /\ backup'.start = 0
        /\ backup'.page = {}
    BY <1>3, NoBackupFields DEF StartBackup, Backups
  <2>2. kept' = objs["source"] /\ objs'["source"] = objs["source"]
    BY <1>3 DEF StartBackup, StoreTypes
  <2>3. \A k \in 1..6 : ~Past(k)'
    BY <2>1 DEF Past, Copying
  <2>4. Current'
    BY <1>a, <2>1, DirectoryStarts
  <2> QED
    BY <1>c, <2>1, <2>2, <2>3, <2>4
<1>4. CASE Backup /\ ~StartBackup
  <2>1. /\ objs'["source"] = objs["source"] /\ UNCHANGED kept
        /\ \A d \in Plain : objs["target"][d] \subseteq objs'["target"][d]
    BY <1>4, BackupFrame
  <2>2. ASSUME \A k \in 1..6 : Past(k)' => Past(k),
               Current', At("list")' => backup'.page = {}
        PROVE  CompleteInv'
    <3>1. \A k \in 1..6 : Past(k)' /\ k # 3 =>
             kept'[Order[k]] \subseteq objs'["target"][Order[k]]
      BY <1>b, <1>d, <2>1, <2>2
    <3> QED
      BY <1>b, <1>c, <2>1, <2>2, <3>1
  <2>3. ASSUME backup'.phase \notin {"list", "copy", "id", "ok"} PROVE CompleteInv'
    BY <2>2, <2>3 DEF Past, Current, Copying, At
  <2>4. CASE ListPage
    <3>1. /\ backup'.phase = "copy" /\ backup'.kind = backup.kind
          /\ backup.phase = "list"
      BY <2>4, ListPageFields DEF ListPage, At
    <3>2. Current'
      BY <2>4, PageKeepsCurrent
    <3> QED
      BY <2>2, <3>1, <3>2 DEF Past, Copying, At
  <2>5. CASE CopyObject
    <3>1. /\ backup'.phase = "copy" /\ backup'.kind = backup.kind
          /\ backup.phase = "copy" /\ Dir # "binds" /\ Dir' = Dir
          /\ backup'.start = backup.start /\ backup'.last = backup.last
      BY <2>5, CopyObjectFields DEF At, Dir
    <3>2. PICK x \in backup.page, B \in SUBSET Nat :
            /\ B = backup.batch \union {x} /\ backup'.page = backup.page \ {x}
            /\ \/ backup'.batch = B
               \/ backup'.batch = {} /\ Write(B, applied["target"])
      BY <2>5, CopyObjectFields
    <3>3. ASSUME Write(B, applied["target"])
          PROVE  objs'["target"][Dir] = objs["target"][Dir] \union B
      <4>1. applied["target"] \in SUBSET Nat
        BY DEF StoreTypes
      <4> QED
        BY <1>e, <3>1, <3>3, <4>1, WriteFields
    <3>4. \A y : Ahead(y)' = Ahead(y)
      BY <3>1 DEF Ahead, At
    <3>5. Current'
      BY <1>b, <1>e, <2>1, <3>1, <3>2, <3>3, <3>4 DEF Current, Copying
    <3> QED
      BY <2>2, <3>1, <3>5 DEF Past, Copying, At
  <2>6. CASE ListBinds \/ CopyBind
    <3>1. /\ backup'.phase = "copy" /\ backup'.kind = backup.kind
          /\ backup.phase = "copy" /\ Dir = "binds" /\ Dir' = Dir
      BY <2>6, ListBindsFields, CopyBindFields DEF At, Dir
    <3> QED
      BY <2>2, <3>1 DEF Past, Copying, Current, At
  <2>7. CASE NextPage
    <3>1. /\ backup'.phase = "list" /\ backup'.kind = backup.kind
          /\ backup'.start = backup.start /\ backup'.page = backup.page
          /\ backup'.batch = backup.batch /\ backup.phase = "copy"
          /\ backup.page = {} /\ ~backup.last
      BY <2>7 DEF NextPage, PageDone, At, StoreTypes, Backups
    <3>2. Current'
      BY <1>b, <1>e, <2>1, <3>1 DEF Current, Copying, Dir, Ahead, At
    <3> QED
      BY <2>2, <3>1, <3>2 DEF Past, Copying, At
  <2>8. CASE Finish
    <3>1. CASE backup'.phase = "failed"
      BY <2>3, <3>1
    <3>2. CASE backup'.phase # "failed"
      <4>1. /\ backup' = NextDir
            /\ backup.kind # 3 => kept[Dir] \subseteq objs'["target"][Dir]
        BY <2>8, <3>2, DirectoryEnds
      <4>2. /\ backup'.phase = (IF backup.kind = 6 THEN "id" ELSE "list")
            /\ backup'.kind = (IF backup.kind = 6 THEN 1 ELSE backup.kind + 1)
            /\ backup'.start = 0 /\ backup'.page = {}
        BY <4>1, NextDirFields
      <4>3. Copying
        BY <2>8 DEF Finish, PageDone, At, Copying
      <4>4. \A k \in 1..6 : Past(k)' => Past(k) \/ k = backup.kind
        BY <1>a, <4>2, <4>3 DEF Past, Copying
      <4>5. \A k \in 1..6 : Past(k)' /\ k # 3 =>
               kept'[Order[k]] \subseteq objs'["target"][Order[k]]
        BY <1>b, <1>d, <2>1, <4>1, <4>4 DEF Dir
      <4>6. Current'
        <5>1. CASE backup'.phase = "list"
          BY <1>a, <4>2, <5>1, DirectoryStarts
        <5>2. CASE backup'.phase = "id"
          BY <5>2 DEF Current, Copying
        <5> QED
          BY <4>2, <5>1, <5>2
      <4> QED
        BY <1>b, <1>c, <2>1, <4>2, <4>5, <4>6
    <3> QED
      BY <3>1, <3>2
  <2>9. CASE CopyID
    <3>1. backup'.phase = "ok" /\ backup.phase = "id"
      BY <2>9 DEF CopyID, At, StoreTypes, Backups
    <3> QED
      BY <2>2, <3>1 DEF Past, Copying, Current, At
  <2>10. CASE BackupFails
    BY <2>3, <2>10, FailedFields DEF BackupFails
  <2> QED
    BY <1>4, <2>4, <2>5, <2>6, <2>7, <2>8, <2>9, <2>10 DEF Backup
<1>5. CASE UNCHANGED vars
  BY <1>5, <1>b, <1>f DEF vars
<1> QED
  BY <1>1, <1>2, <1>3, <1>4, <1>5, StepCases

\* A backup that reports success has copied every object that was in the source
\* all the time, for any limit of pages and batches, whatever is created and
\* removed meanwhile, and although errors of batches are dropped by getValues:
\* the batch that failed is not emptied, and what comes last must succeed.
THEOREM BackupsAreComplete == Spec => []BackupComplete
<1>1. Init => StoreTypes /\ CompleteInv
  BY InitTypes, InitComplete
<1>2. StoreTypes /\ CompleteInv /\ [Next]_vars => StoreTypes' /\ CompleteInv'
  BY NextTypes, NextComplete
<1>3. CompleteInv => BackupComplete
  <2>1. \A d \in Plain : \E k \in 1..6 : k # 3 /\ Order[k] = d
    <3>1. "binds" \notin Plain
      BY DEF Plain
    <3> QED
      BY <3>1, OrderFields
  <2> QED
    BY <2>1 DEF CompleteInv, BackupComplete, Past
<1> QED
  BY <1>1, <1>2, <1>3, PTL DEF Spec

-----------------------------------------------------------------------------
(* A backup of a source that nobody changes.                               *)

\* Nothing has changed in the source and no request of the backup failed.
Quiet == changes = 0 /\ backup.clean

\* Before the first change no operation of a server is under way.
IdleInv == changes = 0 => \A p \in Servers : pc[p] = "idle"

LEMMA InitIdle == Init => IdleInv
  BY DEF Init, IdleInv

\* While nothing has changed only the backup takes steps.
LEMMA OnlyBackup ==
    ASSUME StoreTypes, IdleInv, [Next]_vars, changes' = 0
    PROVE  Backup \/ UNCHANGED vars
<1>1. changes \in Nat /\ Source \subseteq Servers
  BY DEF StoreTypes, Source, Servers
<1>2. ASSUME NEW p \in Servers, Op(p) PROVE FALSE
  BY <1>1, <1>2 DEF Op, Put, Begin, Alloc, GetID, ReserveIDs, PutObject, AllocFails,
                    IdleInv
<1>3. ASSUME NEW p \in Source, Edit(p) PROVE FALSE
  BY <1>1, <1>3 DEF Edit, RemoveObject, RemovePlugin, DeletePlugin, AddBind,
                    RemoveBinds, ApplyPlugins, Begin, IdleInv
<1> QED
  BY <1>2, <1>3, StepCases

LEMMA NextIdle == StoreTypes /\ IdleInv /\ [Next]_vars => IdleInv'
<1> SUFFICES ASSUME StoreTypes, IdleInv, [Next]_vars, changes' = 0 PROVE IdleInv'
  BY DEF IdleInv
<1>1. UNCHANGED <<pc, changes>>
  <2>1. CASE StartBackup
    BY <2>1 DEF StartBackup
  <2>2. CASE Backup /\ ~StartBackup
    BY <2>2, BackupFrame
  <2>3. CASE UNCHANGED vars
    BY <2>3 DEF vars
  <2> QED
    BY <2>1, <2>2, <2>3, OnlyBackup
<1> QED
  BY <1>1 DEF IdleInv

\* The steps of a quiet backup: each comes from a quiet state, leaves the source
\* alone and takes nothing from the target.
LEMMA QuietSteps ==
    ASSUME StoreTypes, IdleInv, [Next]_vars, Quiet'
    PROVE  \/ StartBackup
           \/ backup'.phase = "failed"
           \/ UNCHANGED vars
           \/ /\ Quiet /\ Backup
              /\ objs'["source"] = objs["source"]
              /\ binds'["source"] = binds["source"]
              /\ applied'["source"] = applied["source"]
              /\ binds["target"] \subseteq binds'["target"]
              /\ ListPage \/ CopyObject \/ ListBinds \/ CopyBind \/ NextPage
                 \/ (Finish /\ backup' = NextDir) \/ CopyID
<1>1. SUFFICES ASSUME Backup, ~StartBackup, backup'.phase # "failed"
               PROVE  /\ Quiet
                      /\ objs'["source"] = objs["source"]
                      /\ binds'["source"] = binds["source"]
                      /\ applied'["source"] = applied["source"]
                      /\ binds["target"] \subseteq binds'["target"]
                      /\ ListPage \/ CopyObject \/ ListBinds \/ CopyBind \/ NextPage
                         \/ (Finish /\ backup' = NextDir) \/ CopyID
  BY OnlyBackup DEF Quiet
<1>2. /\ objs'["source"] = objs["source"]
      /\ binds'["source"] = binds["source"]
      /\ applied'["source"] = applied["source"]
      /\ binds["target"] \subseteq binds'["target"]
      /\ changes' = changes
  BY <1>1, BackupFrame
<1>3. ~BackupFails /\ (Finish => backup' = NextDir)
  BY <1>1, FailedFields DEF BackupFails, Finish
<1>4. backup.clean
  <2>1. CASE ListPage
    BY <2>1, ListPageFields DEF Quiet
  <2>2. CASE CopyObject \/ ListBinds \/ CopyBind
    BY <2>2, CopyObjectFields, ListBindsFields, CopyBindFields DEF Quiet
  <2>3. CASE NextPage \/ CopyID
    BY <2>3 DEF NextPage, CopyID, Quiet, StoreTypes, Backups
  <2>4. CASE Finish
    BY <1>3, <2>4, NextDirFields DEF Quiet
  <2> QED
    BY <1>1, <1>3, <2>1, <2>2, <2>3, <2>4 DEF Backup
<1> QED
  BY <1>1, <1>2, <1>3, <1>4 DEF Backup, Quiet

\* The same of the binds of the source's clusters, while it is quiet.
BindsInv ==
    Quiet =>
        \A b \in binds["source"] : b[1] \in objs["source"]["clusters"] =>
            /\ Past(3) => b \in binds["target"]
            /\ Copying /\ backup.kind = 3 =>
                  \/ b \in binds["target"] \/ b \in backup.batch
                  \/ b \in backup.todo \/ b[1] \in backup.page \/ Ahead(b[1])

LEMMA InitBinds == Init => BindsInv
  BY NoBackupFields DEF Init, BindsInv, Past, Copying, NoBackup

LEMMA NextBinds ==
    StoreTypes /\ IdleInv /\ CompleteInv /\ BindsInv /\ [Next]_vars => BindsInv'
<1> SUFFICES ASSUME StoreTypes, IdleInv, CompleteInv, BindsInv, [Next]_vars, Quiet'
             PROVE  BindsInv'
  BY DEF BindsInv
<1>a. backup \in Backups /\ backup.kind \in 1..6 /\ (backup.kind = 3 <=> Dir = "binds")
  BY OrderFields DEF StoreTypes, Backups, Dir
<1>1. CASE StartBackup
  <2>1. backup'.phase = "list" /\ backup'.kind = 1
    BY <1>1, NoBackupFields DEF StartBackup, Backups
  <2> QED
    BY <2>1 DEF BindsInv, Past, Copying
<1>2. CASE backup'.phase = "failed"
  BY <1>2 DEF BindsInv, Past, Copying
<1>3. CASE UNCHANGED vars
  BY <1>3 DEF BindsInv, Quiet, Past, Copying, Ahead, At, vars
<1>4. CASE /\ Quiet /\ Backup
           /\ objs'["source"] = objs["source"]
           /\ binds'["source"] = binds["source"]
           /\ binds["target"] \subseteq binds'["target"]
           /\ ListPage \/ CopyObject \/ ListBinds \/ CopyBind \/ NextPage
              \/ (Finish /\ backup' = NextDir) \/ CopyID
  <2> SUFFICES ASSUME NEW b \in binds["source"], b[1] \in objs["source"]["clusters"]
               PROVE  /\ Past(3)' => b \in binds'["target"]
                      /\ (Copying /\ backup.kind = 3)' =>
                            \/ b \in binds'["target"] \/ b \in backup'.batch
                            \/ b \in backup'.todo \/ b[1] \in backup'.page
                            \/ Ahead(b[1])'
    BY <1>4 DEF BindsInv
  <2>1. /\ Past(3) => b \in binds'["target"]
        /\ Copying /\ backup.kind = 3 =>
              \/ b \in binds["target"] \/ b \in backup.batch
              \/ b \in backup.todo \/ b[1] \in backup.page \/ Ahead(b[1])
    BY <1>4 DEF BindsInv
  <2>2. b \in Pairs /\ b[1] \in Nat
    BY DEF StoreTypes, Pairs
  <2>3. binds["target"] \subseteq binds'["target"]
    BY <1>4
  <2>a. applied["target"] \in SUBSET Nat
    BY DEF StoreTypes
  <2>4. CASE ListPage
    <3>1. /\ backup'.phase = "copy" /\ backup'.kind = backup.kind
          /\ backup.phase = "list" /\ backup.page = {}
          /\ backup'.todo = backup.todo /\ backup'.batch = backup.batch
      BY <2>4, ListPageFields DEF ListPage, At, CompleteInv
    <3>2. ASSUME backup.kind = 3, Ahead(b[1]), b[1] \notin backup'.page PROVE Ahead(b[1])'
      <4>1. b[1] \in Listed /\ b[1] >= backup.start
        BY <1>a, <3>2 DEF Listed, Ahead
      <4> QED
        BY <2>4, <3>2, <4>1, PageAhead
    <3> QED
      BY <2>1, <2>3, <3>1, <3>2 DEF Past, Copying
  <2>5. CASE CopyObject
    <3>1. /\ backup'.phase = "copy" /\ backup'.kind = backup.kind
          /\ backup.phase = "copy" /\ backup.kind # 3
      BY <1>a, <2>5, CopyObjectFields DEF At
    <3> QED
      BY <2>1, <3>1 DEF Past, Copying
  <2>6. CASE ListBinds
    <3>1. /\ backup'.phase = "copy" /\ backup'.kind = backup.kind
          /\ backup.phase = "copy" /\ backup.kind = 3
          /\ backup'.start = backup.start /\ backup'.last = backup.last
          /\ backup'.batch = backup.batch /\ backup.todo = {}
      BY <1>a, <2>6, ListBindsFields DEF At
    <3>2. PICK x \in backup.page :
              /\ backup'.page = backup.page \ {x}
              /\ backup'.todo = {c \in binds["source"] : c[1] = x}
      BY <2>6, ListBindsFields DEF Quiet
    <3>3. Ahead(b[1]) => Ahead(b[1])'
      BY <3>1 DEF Ahead, At
    <3>4. b[1] \in backup.page => b[1] \in backup'.page \/ b \in backup'.todo
      BY <3>2
    <3> QED
      BY <2>1, <2>3, <3>1, <3>3, <3>4 DEF Past, Copying
  <2>7. CASE CopyBind
    <3>1. /\ backup'.phase = "copy" /\ backup'.kind = backup.kind
          /\ backup.phase = "copy" /\ backup.kind = 3 /\ Dir = "binds"
          /\ backup'.start = backup.start /\ backup'.last = backup.last
          /\ backup'.page = backup.page
      BY <1>a, <2>7, CopyBindFields DEF At
    <3>2. PICK c \in backup.todo, B \in SUBSET Pairs :
             /\ B = backup.batch \union {c}
             /\ backup'.todo = backup.todo \ {c}
             /\ \/ backup'.batch = B
                \/ Write(B, applied["target"])
      BY <2>7, CopyBindFields DEF Quiet
    <3>3. Ahead(b[1]) => Ahead(b[1])'
      BY <3>1 DEF Ahead, At
    <3>4. ASSUME Write(B, applied["target"]) PROVE B \subseteq binds'["target"]
      <4>1. binds'["target"] = binds["target"] \union B
        BY <2>a, <3>1, <3>4, WriteFields
      <4> QED
        BY <4>1
    <3>5. b \in backup.batch \/ b \in backup.todo =>
             b \in binds'["target"] \/ b \in backup'.batch \/ b \in backup'.todo
      BY <3>2, <3>4
    <3> QED
      BY <2>1, <2>3, <3>1, <3>3, <3>5 DEF Past, Copying
  <2>8. CASE NextPage
    <3>1. /\ backup'.phase = "list" /\ backup'.kind = backup.kind
          /\ backup'.start = backup.start /\ backup'.page = backup.page
          /\ backup'.batch = backup.batch /\ backup.phase = "copy"
          /\ backup.todo = {} /\ backup.page = {}
      BY <2>8 DEF NextPage, PageDone, At, StoreTypes, Backups
    <3>2. Ahead(b[1]) => Ahead(b[1])'
      BY <3>1 DEF Ahead, At
    <3> QED
      BY <2>1, <2>3, <3>1, <3>2 DEF Past, Copying
  <2>9. CASE Finish /\ backup' = NextDir
    <3>1. /\ backup'.phase = (IF backup.kind = 6 THEN "id" ELSE "list")
          /\ backup'.kind = (IF backup.kind = 6 THEN 1 ELSE backup.kind + 1)
          /\ backup'.start = 0
      BY <2>9, NextDirFields
    <3>2. /\ backup.phase = "copy" /\ backup.page = {} /\ backup.todo = {}
          /\ backup.last /\ backup'.phase # "failed"
      BY <2>9, <3>1 DEF Finish, PageDone, At
    <3>3. CASE backup.kind = 3
      <4>1. b \in binds["target"] \/ b \in backup.batch
        BY <2>1, <3>2, <3>3 DEF Copying, Ahead, At
      <4>2. ASSUME backup.batch # {} PROVE backup.batch \subseteq binds'["target"]
        <5>1. Write(backup.batch, LastApplied)
          BY <2>9, <3>2, <4>2, FailedFields DEF Finish, BatchOk
        <5>2. /\ LastApplied \in SUBSET Nat
              /\ backup.batch \in SUBSET (IF Dir = "binds" THEN Pairs ELSE Nat)
          BY DEF StoreTypes, BatchTypes, LastApplied
        <5>3. binds'["target"] = binds["target"] \union backup.batch
          BY <1>a, <3>3, <5>1, <5>2, WriteFields
        <5> QED
          BY <5>3
      <4>3. b \in binds'["target"]
        BY <2>3, <4>1, <4>2
      <4> QED
        BY <4>3
    <3>4. CASE backup.kind # 3
      <4>1. Past(3)' => Past(3)
        BY <1>a, <3>1, <3>2, <3>4 DEF Past, Copying
      <4>2. backup'.phase = "list" => Ahead(b[1])'
        BY <2>2, <3>1 DEF Ahead, At
      <4>3. (Copying /\ backup.kind = 3)' => Ahead(b[1])'
        BY <3>1, <4>2 DEF Copying
      <4> QED
        BY <2>1, <4>1, <4>3
    <3> QED
      BY <3>3, <3>4
  <2>10. CASE CopyID
    <3>1. backup'.phase = "ok" /\ backup.phase = "id"
      BY <2>10 DEF CopyID, At, StoreTypes, Backups
    <3> QED
      BY <2>1, <3>1 DEF Past, Copying
  <2> QED
    BY <1>4, <2>4, <2>5, <2>6, <2>7, <2>8, <2>9, <2>10
<1> QED
  BY <1>1, <1>2, <1>3, <1>4, QuietSteps

\* The plugins that went through the batch: those before start that are not on
\* the page any more.
Before == {x \in objs["source"]["plugins"] : x < backup.start}
Passed == Before \ backup.page

\* The batch of plugins holds what is over after full batches, and when the
\* last page was read all of them were listed.
AppliedInv ==
    Quiet =>
        /\ Copying /\ backup.kind = 6 =>
              /\ backup.page \subseteq Before /\ backup.batch \subseteq Passed
              /\ Cardinality(backup.batch) = Cardinality(Passed) % Limit
              /\ At("copy") /\ backup.last => Before = objs["source"]["plugins"]
        /\ Past(6) /\ Cardinality(objs["source"]["plugins"]) % Limit # 0
               => applied["target"] = applied["source"]

LEMMA InitApplied == Init => AppliedInv
  BY NoBackupFields DEF Init, AppliedInv, Past, Copying, NoBackup

\* The remainder of a division, and what it is of the next number.
LEMMA Division ==
    ASSUME NEW L \in Nat \ {0}, NEW a \in Nat
    PROVE  /\ a % L \in Nat /\ a % L < L /\ a \div L \in Nat
           /\ a = L * (a \div L) + (a % L)
<1>1. a % L = a - L * (a \div L)
  BY Z3T(30)
<1>2. a % L \in Nat /\ a % L < L
  OBVIOUS
<1>3. a \div L \in Nat
  OBVIOUS
<1> DEFINE m == L * (a \div L)
           r == a % L
<1>4. m \in Int /\ r \in Int /\ r = a - m
  BY <1>1, <1>2, <1>3
<1> HIDE DEF m, r
<1>5. a = m + r
  BY <1>4
<1>6. a = L * (a \div L) + (a % L)
  BY <1>5 DEF m, r
<1> QED
  BY <1>2, <1>3, <1>6

LEMMA RemainderOf ==
    ASSUME NEW L \in Nat \ {0}, NEW q \in Nat, NEW r \in Nat, r < L
    PROVE  (L * q + r) % L = r
<1> DEFINE a == L * q + r
<1>1. a \in Nat
  OBVIOUS
<1> HIDE DEF a
<1>2. a % L \in Nat /\ a % L < L /\ a = L * (a \div L) + (a % L) /\ a \div L \in Nat
  BY <1>1, Division
<1>3. L * q < L * (a \div L) + L /\ L * (a \div L) < L * q + L
  BY <1>2 DEF a
<1>4. ASSUME NEW x \in Nat, NEW y \in Nat, x < y PROVE L * x + L <= L * y
  <2>1. y - x - 1 \in Nat /\ y = x + 1 + (y - x - 1)
    BY <1>4
  <2>2. PICK k \in Nat : y = x + 1 + k
    BY <2>1
  <2>3. L * y = L * x + L + L * k /\ L * k \in Nat
    BY <2>2
  <2> QED
    BY <2>3
<1>5. q = a \div L
  BY <1>2, <1>3, <1>4
<1> QED
  BY <1>2, <1>5 DEF a

LEMMA RemainderOfNext ==
    ASSUME NEW L \in Nat \ {0}, NEW a \in Nat
    PROVE  (a + 1) % L = IF (a % L) + 1 = L THEN 0 ELSE (a % L) + 1
<1>1. a % L \in Nat /\ a % L < L /\ a = L * (a \div L) + (a % L) /\ a \div L \in Nat
  BY Division
<1> DEFINE q == a \div L
           r == a % L
<1>2. q \in Nat /\ r \in Nat /\ r < L /\ a = L * q + r
  BY <1>1
<1> HIDE DEF q, r
<1>3. CASE r + 1 = L
  <2>1. a + 1 = L * (q + 1) + 0 /\ q + 1 \in Nat
    BY <1>2, <1>3
  <2>2. 0 \in Nat /\ 0 < L
    OBVIOUS
  <2>3. (L * (q + 1) + 0) % L = 0
    BY <2>1, <2>2, RemainderOf, Zenon
  <2>4. (a + 1) % L = 0
    BY <2>1, <2>3, Zenon
  <2> QED
    BY <1>3, <2>4 DEF r
<1>4. CASE r + 1 # L
  <2>1. a + 1 = L * q + (r + 1) /\ r + 1 \in Nat /\ r + 1 < L
    BY <1>2, <1>4
  <2>2. (L * q + (r + 1)) % L = r + 1
    BY <1>2, <2>1, RemainderOf
  <2>3. (a + 1) % L = r + 1
    BY <2>1, <2>2, Zenon
  <2> QED
    BY <1>4, <2>3 DEF r
<1> QED
  BY <1>3, <1>4

\* A page of plugins: what was passed stays so, and the last page has the rest.
LEMMA PagePasses ==
    ASSUME StoreTypes, ListPage, Dir = "plugins", backup.page = {},
           objs'["source"] = objs["source"]
    PROVE  /\ Passed' = Passed /\ backup'.page \subseteq Before'
           /\ backup'.last => Before' = objs["source"]["plugins"]
<1> DEFINE P == objs["source"]["plugins"]
<1>1. /\ IsPage(backup'.page)
      /\ backup'.last = (Cardinality(backup'.page) < Limit)
      /\ IF backup'.page = {} THEN backup'.start = backup.start
         ELSE IsLast(backup'.start - 1, backup'.page)
      /\ backup'.start \in Nat /\ backup.start \in Nat
  BY ListPageFields DEF Backups, StoreTypes
<1>2. Listed = P /\ P \in SUBSET Nat
  BY ListedIds
<1>3. From = {x \in P : x >= backup.start}
  BY <1>2 DEF From
<1>4. /\ Before = {x \in P : x < backup.start}
      /\ Before' = {x \in P : x < backup'.start}
      /\ Passed = Before /\ Passed' = Before' \ backup'.page
  BY DEF Before, Passed
<1>5. /\ backup'.page \subseteq From
      /\ \A x \in backup'.page, y \in From \ backup'.page : x < y
      /\ backup'.last => backup'.page = From
  BY <1>1 DEF IsPage
<1> HIDE DEF P
<1>6. CASE backup'.page = {}
  <2>1. backup'.start = backup.start
    BY <1>1, <1>6
  <2>2. backup'.last => \A x \in P : x < backup.start
    BY <1>1, <1>2, <1>3, <1>5, <1>6
  <2> QED
    BY <1>4, <1>6, <2>1, <2>2 DEF P
<1>7. CASE backup'.page # {}
  <2>1. backup'.start - 1 \in backup'.page /\ \A y \in backup'.page : y <= backup'.start - 1
    BY <1>1, <1>7 DEF IsLast
  <2>2. \A x \in backup'.page : x \in P /\ x \in Nat /\ x >= backup.start /\ x < backup'.start
    BY <1>1, <1>2, <1>3, <1>5, <2>1
  <2>3. \A x \in From \ backup'.page : x \in Nat /\ x >= backup'.start
    BY <1>1, <1>2, <1>3, <1>5, <2>1, <2>2
  <2>4. backup'.start > backup.start
    BY <1>1, <2>1, <2>2
  <2>5. Before' \ backup'.page \subseteq Before
    <3>1. ASSUME NEW x \in P, x < backup'.start, x \notin backup'.page PROVE x < backup.start
      <4>1. x \notin From
        BY <1>1, <1>2, <2>3, <3>1
      <4> QED
        BY <1>1, <1>2, <1>3, <4>1
    <3> QED
      BY <1>4, <3>1
  <2>6. Before \subseteq Before' \ backup'.page
    <3>1. ASSUME NEW x \in P, x < backup.start PROVE x < backup'.start /\ x \notin backup'.page
      BY <1>1, <1>2, <2>2, <2>4, <3>1
    <3> QED
      BY <1>4, <3>1
  <2>7. ASSUME backup'.last, NEW x \in P PROVE x < backup'.start
    BY <1>1, <1>2, <1>3, <1>5, <2>2, <2>4, <2>7
  <2>8. Passed' = Passed
    BY <1>4, <2>5, <2>6
  <2>9. backup'.page \subseteq Before'
    BY <1>4, <2>2
  <2>10. backup'.last => Before' = P
    BY <1>4, <2>7
  <2> QED
    BY <2>8, <2>9, <2>10 DEF P
<1> QED
  BY <1>6, <1>7

\* A plugin goes from the page into the batch, which is sent when it is full.
LEMMA CopyPasses ==
    ASSUME StoreTypes, CopyObject, Quiet', IsFiniteSet(objs["source"]["plugins"]),
           objs'["source"] = objs["source"],
           backup.page \subseteq Before, backup.batch \subseteq Passed,
           Cardinality(backup.batch) = Cardinality(Passed) % Limit
    PROVE  /\ Before' = Before
           /\ backup'.page \subseteq Before' /\ backup'.batch \subseteq Passed'
           /\ Cardinality(backup'.batch) = Cardinality(Passed') % Limit
<1>1. PICK x \in backup.page, B \in SUBSET Nat :
          /\ B = backup.batch \union {x} /\ backup'.page = backup.page \ {x}
          /\ \/ backup'.batch = B /\ Cardinality(B) # Limit
             \/ backup'.batch = {} /\ Cardinality(B) = Limit
  BY CopyObjectFields DEF Quiet
<1>2. Before' = Before
  BY CopyObjectFields DEF Before
<1>3. Passed' = Passed \union {x} /\ x \notin Passed /\ x \notin backup.batch
  BY <1>1, <1>2 DEF Passed
<1>4. IsFiniteSet(Passed) /\ IsFiniteSet(backup.batch)
  <2>1. Passed \subseteq objs["source"]["plugins"]
    BY DEF Passed, Before
  <2> QED
    BY <2>1, FS_Subset
<1>5. /\ Cardinality(Passed') = Cardinality(Passed) + 1
      /\ Cardinality(B) = Cardinality(backup.batch) + 1
  BY <1>1, <1>3, <1>4, FS_AddElement
<1>6. Cardinality(Passed) \in Nat
  BY <1>4, FS_CardinalityType
<1>7. Cardinality({}) = 0
  BY FS_EmptySet
<1> DEFINE n == Cardinality(Passed)
           r == n % Limit
<1>8. (n + 1) % Limit = IF r + 1 = Limit THEN 0 ELSE r + 1
  BY <1>6, RemainderOfNext
<1>9. Cardinality(B) = r + 1 /\ Cardinality(Passed') = n + 1
  BY <1>5
<1> HIDE DEF n, r
<1>10. Cardinality(backup'.batch) = Cardinality(Passed') % Limit
  BY <1>1, <1>7, <1>8, <1>9
<1> QED
  BY <1>1, <1>2, <1>3, <1>10

LEMMA NextApplied ==
    /\ StoreTypes /\ ObjectsInv /\ IdleInv /\ CompleteInv /\ AppliedInv
    /\ [Next]_vars
    => AppliedInv'
<1> SUFFICES ASSUME StoreTypes, ObjectsInv, IdleInv, CompleteInv, AppliedInv,
                    [Next]_vars, Quiet'
             PROVE  AppliedInv'
  BY DEF AppliedInv
<1>a. /\ backup.kind \in 1..6 /\ (backup.kind = 3 <=> Dir = "binds")
      /\ (backup.kind = 6 <=> Dir = "plugins")
  BY OrderFields DEF StoreTypes, Backups, Dir
<1>b. ASSUME Copying', backup'.kind < 6 PROVE AppliedInv'
  <2>1. backup'.kind \in 1..6
    BY NextTypes DEF StoreTypes, Backups
  <2> QED
    BY <1>b, <2>1 DEF AppliedInv, Past, Copying
<1>1. CASE StartBackup
  <2>1. backup'.phase = "list" /\ backup'.kind = 1
    BY <1>1, NoBackupFields DEF StartBackup, Backups
  <2> QED
    BY <1>b, <2>1 DEF Copying
<1>2. CASE backup'.phase = "failed"
  BY <1>2 DEF AppliedInv, Past, Copying
<1>3. CASE UNCHANGED vars
  BY <1>3 DEF AppliedInv, Quiet, Past, Copying, Passed, Before, At, vars
<1>4. CASE /\ Quiet /\ Backup
           /\ objs'["source"] = objs["source"]
           /\ applied'["source"] = applied["source"]
           /\ ListPage \/ CopyObject \/ ListBinds \/ CopyBind \/ NextPage
              \/ (Finish /\ backup' = NextDir) \/ CopyID
  <2>1. /\ Copying /\ backup.kind = 6 =>
              /\ backup.page \subseteq Before /\ backup.batch \subseteq Passed
              /\ Cardinality(backup.batch) = Cardinality(Passed) % Limit
              /\ At("copy") /\ backup.last => Before = objs["source"]["plugins"]
        /\ Past(6) /\ Cardinality(objs["source"]["plugins"]) % Limit # 0
               => applied["target"] = applied["source"]
    BY <1>4 DEF AppliedInv
  <2>2. ASSUME Copying', backup'.kind = 6,
               backup'.page \subseteq Before', backup'.batch \subseteq Passed',
               Cardinality(backup'.batch) = Cardinality(Passed') % Limit,
               At("copy")' /\ backup'.last => Before' = objs["source"]["plugins"]
        PROVE  AppliedInv'
    BY <1>4, <2>2 DEF AppliedInv, Past, Copying
  <2>3. "plugins" \in Plain
    BY DEF Plain
  <2>4. IsFiniteSet(objs["source"]["plugins"])
    <3>1. id["source"] \in Nat \union {Absent}
      BY DEF StoreTypes
    <3>2. id["source"] \in Int
      BY <3>1
    <3>3. objs["source"] \in [Plain -> SUBSET Nat]
      BY DEF StoreTypes
    <3>4. objs["source"]["plugins"] \subseteq 0..id["source"]
      BY <2>3, <3>2, <3>3 DEF ObjectsInv
    <3>5. IsFiniteSet(0..id["source"])
      BY <3>2, FS_Interval
    <3> QED
      BY <3>4, <3>5, FS_Subset
  <2>5. CASE ListPage
    <3>1. /\ backup'.phase = "copy" /\ backup'.kind = backup.kind
          /\ backup.phase = "list" /\ backup.page = {}
          /\ backup'.batch = backup.batch
      BY <2>5, ListPageFields DEF ListPage, At, CompleteInv
    <3>2. CASE backup.kind = 6
      <4>1. /\ Passed' = Passed /\ backup'.page \subseteq Before'
            /\ backup'.last => Before' = objs["source"]["plugins"]
        BY <1>4, <1>a, <2>5, <3>1, <3>2, PagePasses
      <4>2. Copying /\ Copying'
        BY <3>1 DEF Copying
      <4> QED
        BY <2>1, <2>2, <3>1, <3>2, <4>1, <4>2
    <3> QED
      BY <1>a, <1>b, <3>1, <3>2 DEF Copying
  <2>6. CASE CopyObject
    <3>1. /\ backup'.phase = "copy" /\ backup'.kind = backup.kind
          /\ backup.phase = "copy" /\ backup'.last = backup.last
      BY <2>6, CopyObjectFields DEF At
    <3>2. Copying /\ Copying'
      BY <3>1 DEF Copying
    <3>3. CASE backup.kind = 6
      <4>1. /\ Before' = Before
            /\ backup'.page \subseteq Before' /\ backup'.batch \subseteq Passed'
            /\ Cardinality(backup'.batch) = Cardinality(Passed') % Limit
        BY <1>4, <2>1, <2>4, <2>6, <3>2, <3>3, CopyPasses
      <4> QED
        BY <2>1, <2>2, <3>1, <3>2, <3>3, <4>1 DEF At
    <3> QED
      BY <1>a, <1>b, <3>1, <3>2, <3>3
  <2>7. CASE ListBinds \/ CopyBind
    <3>1. backup'.phase = "copy" /\ backup'.kind = 3
      BY <1>a, <2>7, ListBindsFields, CopyBindFields
    <3> QED
      BY <1>b, <3>1 DEF Copying
  <2>8. CASE NextPage
    <3>1. /\ backup'.phase = "list" /\ backup'.kind = backup.kind
          /\ backup'.start = backup.start /\ backup'.page = backup.page
          /\ backup'.batch = backup.batch /\ backup.phase = "copy"
      BY <2>8 DEF NextPage, PageDone, At, StoreTypes, Backups
    <3>2. Copying /\ Copying'
      BY <3>1 DEF Copying
    <3>3. Before' = Before /\ Passed' = Passed
      BY <1>4, <3>1 DEF Before, Passed
    <3> QED
      BY <1>a, <1>b, <2>1, <2>2, <3>1, <3>2, <3>3 DEF At
  <2>9. CASE Finish /\ backup' = NextDir
    <3>1. /\ backup'.phase = (IF backup.kind = 6 THEN "id" ELSE "list")
          /\ backup'.kind = (IF backup.kind = 6 THEN 1 ELSE backup.kind + 1)
          /\ backup'.start = 0 /\ backup'.page = {} /\ backup'.batch = {}
      BY <2>9, NextDirFields
    <3>2. /\ backup.phase = "copy" /\ backup.page = {} /\ backup.last
          /\ backup'.phase # "failed"
      BY <2>9, <3>1 DEF Finish, PageDone, At
    <3>3. CASE backup.kind = 6
      <4>1. /\ Passed = objs["source"]["plugins"]
            /\ Cardinality(backup.batch) = Cardinality(Passed) % Limit
        BY <2>1, <3>2, <3>3 DEF Copying, At, Passed
      <4>2. ASSUME Cardinality(objs["source"]["plugins"]) % Limit # 0
            PROVE  applied'["target"] = applied["source"]
        <5>1. backup.batch # {}
          BY <4>1, <4>2, FS_EmptySet
        <5>2. Write(backup.batch, LastApplied)
          BY <2>9, <3>2, <5>1, FailedFields DEF Finish, BatchOk
        <5>3. /\ LastApplied = applied["source"] /\ LastApplied \in SUBSET Nat
              /\ backup.batch \in SUBSET (IF Dir = "binds" THEN Pairs ELSE Nat)
          BY <1>a, <3>3 DEF StoreTypes, BatchTypes, LastApplied
        <5> QED
          BY <5>2, <5>3, WriteFields
      <4> QED
        BY <1>4, <3>1, <3>3, <4>2 DEF AppliedInv, Copying
    <3>4. CASE backup.kind = 5
      <4>1. Copying' /\ backup'.kind = 6 /\ ~At("copy")'
        BY <3>1, <3>4 DEF Copying, At
      <4>2. Before' = {} /\ Passed' = {}
        <5>1. objs["source"] \in [Plain -> SUBSET Nat]
          BY DEF StoreTypes
        <5>2. Before' = {}
          BY <1>4, <2>3, <3>1, <5>1 DEF Before
        <5> QED
          BY <5>2 DEF Passed
      <4>3. Cardinality({}) = 0 /\ 0 % Limit = 0
        BY FS_EmptySet
      <4> QED
        BY <2>2, <3>1, <4>1, <4>2, <4>3
    <3> QED
      BY <1>a, <1>b, <3>1, <3>3, <3>4 DEF Copying
  <2>10. CASE CopyID
    <3>1. backup'.phase = "ok" /\ backup.phase = "id" /\ UNCHANGED meta
      BY <2>10 DEF CopyID, At, StoreTypes, Backups
    <3> QED
      BY <2>1, <3>1 DEF AppliedInv, Past, Copying, meta
  <2> QED
    BY <1>4, <2>5, <2>6, <2>7, <2>8, <2>9, <2>10
<1> QED
  BY <1>1, <1>2, <1>3, <1>4, QuietSteps

\* A backup without a failed request of a source that nobody changes has copied
\* the binds of all its clusters, and the applied plugins unless the plugins fill
\* their batches exactly, for any contents of the source and any limit.
THEOREM BackupsAreExact == Spec => []BackupExact
<1> DEFINE Inv == /\ StoreTypes /\ RangesInv /\ ObjectsInv /\ CompleteInv
                  /\ IdleInv /\ BindsInv /\ AppliedInv
<1>1. Init => Inv
  BY InitTypes, InitRanges, InitObjects, InitComplete, InitIdle, InitBinds, InitApplied
<1>2. Inv /\ [Next]_vars => Inv'
  BY NextTypes, NextRanges, NextObjects, NextComplete, NextIdle, NextBinds, NextApplied
<1>3. Inv => BackupExact
  BY DEF BackupExact, BindsInv, AppliedInv, Quiet, Past
<1> QED
  BY <1>1, <1>2, <1>3, PTL DEF Spec

=============================================================================
