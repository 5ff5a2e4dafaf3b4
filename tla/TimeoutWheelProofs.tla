-------------------------- MODULE TimeoutWheelProofs --------------------------
(* Proofs of the safety properties of TimeoutWheel, and that it implements *)
(* TimeoutService, for any number of calls, buckets, locks and starts.     *)
EXTENDS TimeoutWheel, TLAPS

-----------------------------------------------------------------------------
(* The inductive invariant.                                                *)

\* Where the goroutines are.
Control ==
    /\ expired \in {"recv", "end"} => callout = {}
    /\ wheel = "stopped" => expired = "end"
    /\ wheel # "running" => starts < MaxStarts /\ \A b \in Bucket : buckets[b] = {}
    /\ \A k \in Epoch : k > starts => ticker[k] = "none"
    /\ expired = "run" => cb \in Call /\ outcome[cb] = "expiring"

\* An object is on one list at a time, and its state says on which kind.
InBucket ==
    /\ \A b \in Bucket : \A o \in buckets[b] : state[o] = "active"
    /\ \A a, b \in Bucket : \A o \in buckets[a] : o \in buckets[b] => a = b

OnFreelist ==
    /\ \A i \in Lock : \A o \in freelists[i] : state[o] = "inactive" /\ mtx[o] # NoMtx
    /\ \A i, j \in Lock : \A o \in freelists[i] : o \in freelists[j] => i = j

OnExpiredList ==
    /\ \A k \in Epoch : \A o \in expiredList[k] : state[o] = "expired" /\ o \notin callout
    /\ \A k, l \in Epoch : \A o \in expiredList[k] : o \in expiredList[l] => k = l

InCallout == \A o \in callout : state[o] = "expired"

NotMade == \A o \in Obj : mtx[o] = NoMtx => state[o] = "inactive"

Own == InBucket /\ OnFreelist /\ OnExpiredList /\ InCallout /\ NotMade

\* An object whose callback is still to be taken.
Live(o) ==
    state[o] = "active" \/ o \in callout \/ \E k \in Epoch : o \in expiredList[k]

\* A live object serves the pending call whose handle names its generation.
LiveServes ==
    \A o \in Obj : Live(o) =>
        /\ arg[o] \in Call
        /\ outcome[arg[o]] = "pending"
        /\ handle[arg[o]] = [o |-> o, gen |-> generation[o]]
        /\ deadline[o] = due[arg[o]]

\* A handle is of its object's generation only while the object serves its call.
HandleServes ==
    \A c \in Call : handle[c] # NoHandle =>
        /\ handle[c].o \in Obj
        /\ handle[c].gen <= generation[handle[c].o]
        /\ handle[c].gen = generation[handle[c].o] =>
             arg[handle[c].o] = c /\ state[handle[c].o] # "inactive"

Serves == LiveServes /\ HandleServes

\* Nothing is ahead of the clock.
Clock ==
    /\ \A b \in Bucket : lastTick[b] <= ticks
    /\ \A o \in Obj : state[o] = "expired" => deadline[o] <= ticks
    /\ \A c \in Call : outcome[c] \in {"inline", "expiring"} => due[c] <= ticks

\* The first ticker has scanned the bucket of every tick but the one it is about
\* to scan, and what is in a bucket waits for a later scan of it.
Scanned ==
    starts = 1 /\ wheel = "running" =>
        /\ \A t \in 0..ticks :
             t < ticks \/ ticker[1] # "scan" => lastTick[t % NumBuckets] >= t
        /\ \A b \in Bucket : \A o \in buckets[b] :
             b = deadline[o] % NumBuckets /\ lastTick[b] < deadline[o]

\* The mutex of an object in use is that of its deadline.
Locks ==
    starts = 1 /\ wheel = "running" =>
        \A o \in Obj : state[o] # "inactive" => mtx[o] = deadline[o] % NumLocks

MutexInv == Locks /\ FreelistLocked

WheelInv ==
    TypeOK /\ Control /\ Own /\ Serves /\ Clock /\ Scanned /\ MutexInv /\ StopExact

-----------------------------------------------------------------------------
(* Lemmas about the helpers.                                               *)

LEMMA ModRange ==
  /\ \A n \in Nat : n % NumLocks \in Lock
  /\ \A n \in Nat : n % NumBuckets \in Bucket
BY TimeoutWheelAssumption DEF Lock, Bucket

\* What getTimeoutLocked returns is on no list but the freelist it comes from.
LEMMA TakeFacts ==
  ASSUME TypeOK, Own, NEW c \in Call, NEW o \in Obj, Take(c, o)
  PROVE  /\ state[o] = "inactive"
         /\ due[c] \in Nat
         /\ due[c] % NumLocks \in Lock
         /\ due[c] % NumBuckets \in Bucket
         /\ ~Live(o)
         /\ \A b \in Bucket : o \notin buckets[b]
         /\ \A j \in Lock : o \in freelists[j] => j = due[c] % NumLocks
         /\ o \in freelists[due[c] % NumLocks] \/ mtx[o] = NoMtx
         /\ mtx' = [mtx EXCEPT ![o] = IF @ = NoMtx THEN due[c] % NumLocks ELSE @]
         /\ mtx'[o] # NoMtx
<1>1. due[c] \in Nat
  BY DEF TypeOK
<1>2. due[c] % NumLocks \in Lock /\ due[c] % NumBuckets \in Bucket
  BY <1>1, ModRange
<1> DEFINE i == due[c] % NumLocks
<1>3. o \in freelists[i] \/ mtx[o] = NoMtx
  BY DEF Take, Available
<1>4. state[o] = "inactive"
  BY <1>2, <1>3 DEF Own, OnFreelist, NotMade
<1>5. \A j \in Lock : o \in freelists[j] => j = i
  BY <1>2, <1>3 DEF Own, OnFreelist
<1>6. ~Live(o) /\ \A b \in Bucket : o \notin buckets[b]
  BY <1>4 DEF Own, Live, InBucket, OnExpiredList, InCallout
<1>7. mtx' = [mtx EXCEPT ![o] = IF @ = NoMtx THEN i ELSE @]
  BY DEF Take
<1>8. mtx'[o] # NoMtx
  BY <1>2, <1>7 DEF TypeOK, Lock, NoMtx
<1>9. QED
  BY <1>1, <1>2, <1>3, <1>4, <1>5, <1>6, <1>7, <1>8

\* A recycled object is well typed and is put on one freelist.
LEMMA RecycleType ==
  ASSUME TypeOK, NEW o \in Obj, NEW lists \in [Lock -> SUBSET Obj], NEW dl \in Nat,
         Recycle(o, lists, dl)
  PROVE  /\ freelists' \in [Lock -> SUBSET Obj]
         /\ state' \in [Obj -> {"inactive", "expired", "active"}]
         /\ generation' \in [Obj -> Nat]
BY ModRange DEF Recycle, TypeOK

LEMMA RestType ==
  ASSUME TypeOK, NEW c \in Call, NEW o \in Obj
  PROVE  Rest(c, o) \in [Lock -> SUBSET Obj]
BY DEF TypeOK, Rest

LEMMA TakeType ==
  ASSUME TypeOK, NEW c \in Call, NEW o \in Obj, Take(c, o)
  PROVE  mtx' \in [Obj -> Lock \cup {NoMtx}] /\ crashed' \in BOOLEAN
<1>1. due[c] % NumLocks \in Lock
  BY ModRange DEF TypeOK
<1>2. QED
  BY <1>1 DEF Take, TypeOK

LEMMA FillType ==
  ASSUME TypeOK, NEW c \in Call, NEW o \in Obj, Fill(c, o)
  PROVE  /\ deadline' \in [Obj -> Nat]
         /\ arg' \in [Obj -> 0..NumCalls]
         /\ handle' \in [Call -> [o: 0..NumCalls, gen: Nat]]
BY DEF Fill, TypeOK, Call, Obj

\* Stop that finds its object active stops the call that the handle is of.
LEMMA StopFacts ==
  ASSUME WheelInv, NEW c \in Call, StopTimeout(c)
  PROVE  LET o == handle[c].o IN
         /\ o \in Obj
         /\ state[o] = "active"
         /\ arg[o] = c
         /\ outcome[c] = "pending"
<1> DEFINE o == handle[c].o
<1>1. handle[c] # NoHandle /\ handle[c].gen = generation[o] /\ state[o] = "active"
  BY DEF StopTimeout, Cancel
<1>2. o \in Obj /\ arg[o] = c
  BY <1>1 DEF WheelInv, Serves, HandleServes
<1>3. outcome[c] = "pending"
  <2>1. \A p \in Obj : Live(p) => outcome[arg[p]] = "pending"
    BY DEF WheelInv, Serves, LiveServes
  <2>2. Live(o)
    BY <1>1 DEF Live
  <2>3. QED
    BY <1>2, <2>1, <2>2
<1>4. QED
  BY <1>1, <1>2, <1>3

\* What a list of doTick or doExpired holds serves a pending call that is due.
LEMMA ExpiredFacts ==
  ASSUME WheelInv, NEW o, o \in callout \/ \E k \in Epoch : o \in expiredList[k]
  PROVE  /\ o \in Obj
         /\ Live(o)
         /\ state[o] = "expired"
         /\ arg[o] \in Call
         /\ outcome[arg[o]] = "pending"
         /\ deadline[o] = due[arg[o]]
         /\ deadline[o] <= ticks
<1>1. o \in Obj /\ state[o] = "expired"
  BY DEF WheelInv, TypeOK, Own, InCallout, OnExpiredList
<1>2. Live(o)
  BY DEF Live
<1>3. QED
  BY <1>1, <1>2 DEF WheelInv, Serves, LiveServes, Clock

\* What a bucket holds serves a pending call.
LEMMA BucketFacts ==
  ASSUME WheelInv, NEW b \in Bucket, NEW o \in buckets[b]
  PROVE  /\ o \in Obj
         /\ Live(o)
         /\ state[o] = "active"
         /\ arg[o] \in Call
         /\ outcome[arg[o]] = "pending"
<1>1. o \in Obj /\ state[o] = "active"
  BY DEF WheelInv, TypeOK, Own, InBucket
<1>2. Live(o)
  BY <1>1 DEF Live
<1>3. QED
  BY <1>1, <1>2 DEF WheelInv, Serves, LiveServes

\* Recycling an object that has left its list keeps every object on one list.
LEMMA RecycleOwn ==
  ASSUME TypeOK, Own, NEW o \in Obj, NEW dl \in Nat, NEW lists \in [Lock -> SUBSET Obj],
         Recycle(o, lists, dl),
         \A j \in Lock : lists[j] = freelists[j] \ {o},
         \A p \in Obj : p # o => mtx'[p] = mtx[p],
         mtx'[o] # NoMtx,
         \A b \in Bucket : buckets'[b] = buckets[b] \ {o},
         \A k \in Epoch : o \notin expiredList[k],
         expiredList' = expiredList,
         callout' = callout \ {o}
  PROVE  Own'
<1> DEFINE i == dl % NumLocks
<1>0. i \in Lock
  BY ModRange
<1>1. /\ freelists' = [lists EXCEPT ![i] = @ \cup {o}]
      /\ state' = [state EXCEPT ![o] = "inactive"]
  BY DEF Recycle
<1> HIDE DEF i
<1>2. InBucket'
  BY <1>1 DEF TypeOK, Own, InBucket
<1>3. OnFreelist'
  <2>1. \A j \in Lock : freelists'[j] \subseteq freelists[j] \cup {o}
    BY <1>0, <1>1
  <2>2. \A j \in Lock : o \in freelists'[j] => j = i
    BY <1>0, <1>1
  <2>3. QED
    BY <1>1, <2>1, <2>2 DEF TypeOK, Own, OnFreelist
<1>4. OnExpiredList' /\ InCallout'
  BY <1>1 DEF TypeOK, Own, OnExpiredList, InCallout
<1>5. NotMade'
  BY <1>1 DEF TypeOK, Own, NotMade
<1>6. QED
  BY <1>2, <1>3, <1>4, <1>5 DEF Own

LEMMA RestWithout ==
  ASSUME TypeOK, Own, NEW c \in Call, NEW o \in Obj, Take(c, o)
  PROVE  \A j \in Lock : Rest(c, o)[j] = freelists[j] \ {o}
BY TakeFacts DEF Rest, TypeOK

\* Until the wheel is stopped, the object taken carries the lock that is held.
LEMMA TakeLock ==
  ASSUME TypeOK, Own, FreelistLocked, starts = 1, wheel = "running",
         NEW c \in Call, NEW o \in Obj, Take(c, o)
  PROVE  /\ due[c] % NumLocks \in Lock
         /\ mtx'[o] = due[c] % NumLocks
         /\ crashed' = FALSE
         /\ \A p \in Obj : p # o => mtx'[p] = mtx[p]
<1> DEFINE i == due[c] % NumLocks
<1>1. i \in Lock /\ mtx' = [mtx EXCEPT ![o] = IF @ = NoMtx THEN i ELSE @]
  BY TakeFacts
<1>2. mtx[o] = NoMtx \/ mtx[o] = i
  BY <1>1, TakeFacts DEF FreelistLocked
<1>3. mtx'[o] = i /\ \A p \in Obj : p # o => mtx'[p] = mtx[p]
  BY <1>1, <1>2 DEF TypeOK
<1>4. crashed' = FALSE
  BY <1>3 DEF Take
<1>5. QED
  BY <1>1, <1>3, <1>4

\* An object that carries the lock of its deadline goes to the freelist of that lock.
LEMMA RecycleLocked ==
  ASSUME TypeOK, Locks, FreelistLocked, starts = 1, wheel = "running",
         NEW o \in Obj, NEW dl \in Nat, mtx[o] = dl % NumLocks,
         Recycle(o, freelists, dl), UNCHANGED <<mtx, deadline, crashed>>
  PROVE  MutexInv'
<1> DEFINE i == dl % NumLocks
<1>1. i \in Lock
  BY ModRange
<1>2. /\ freelists' = [freelists EXCEPT ![i] = @ \cup {o}]
      /\ state' = [state EXCEPT ![o] = "inactive"]
  BY DEF Recycle
<1>3. Locks'
  BY <1>2 DEF Locks, TypeOK
<1>4. mtx[o] = i
  OBVIOUS
<1> HIDE DEF i
<1>5. \A j \in Lock : /\ freelists'[j] \subseteq freelists[j] \cup {o}
                      /\ j # i => freelists'[j] = freelists[j]
  BY <1>1, <1>2 DEF TypeOK
<1>6. ASSUME NEW j \in Lock, NEW p \in freelists'[j] PROVE mtx'[p] = j
  <2>1. \A q \in freelists[j] : mtx[q] = j
    BY DEF FreelistLocked
  <2>2. p \in freelists[j] \/ p = o
    BY <1>5, <1>6
  <2>3. j # i => p \in freelists[j]
    BY <1>5, <1>6
  <2>4. QED
    BY <1>4, <2>1, <2>2, <2>3
<1>7. QED
  BY <1>3, <1>6 DEF MutexInv, FreelistLocked

\* Two live objects serve two calls.
LEMMA LiveDistinct ==
  ASSUME LiveServes, NEW o \in Obj, NEW p \in Obj, Live(o), Live(p), arg[o] = arg[p]
  PROVE  o = p
<1>1. [o |-> o, gen |-> generation[o]] = [o |-> p, gen |-> generation[p]]
  BY DEF LiveServes
<1>2. [o |-> o, gen |-> generation[o]].o = [o |-> p, gen |-> generation[p]].o
  BY <1>1
<1>3. QED
  BY <1>2

\* Recycling an object leaves every handle to it behind, and no other.
LEMMA RecycleServes ==
  ASSUME TypeOK, Serves, NEW o \in Obj, NEW lists, NEW dl, Recycle(o, lists, dl),
         \A p \in Obj : Live(p)' => Live(p) /\ p # o,
         \A p \in Obj : p # o => arg'[p] = arg[p] /\ deadline'[p] = deadline[p],
         due' = due,
         \A p \in Obj : Live(p) /\ p # o =>
             outcome'[arg[p]] = "pending" /\ handle'[arg[p]] = handle[arg[p]],
         \A d \in Call : handle'[d] = handle[d] \/ handle'[d] = [o |-> o, gen |-> generation[o]]
  PROVE  Serves'
<1>1. /\ state' = [state EXCEPT ![o] = "inactive"]
      /\ generation' = [generation EXCEPT ![o] = @ + 1]
  BY DEF Recycle
<1>2. \A p \in Obj : p # o => state'[p] = state[p] /\ generation'[p] = generation[p]
  BY <1>1 DEF TypeOK
<1>3. generation[o] \in Nat /\ generation'[o] = generation[o] + 1
  BY <1>1 DEF TypeOK
<1>4. LiveServes'
  <2> SUFFICES ASSUME NEW p \in Obj, Live(p)'
               PROVE  (/\ arg[p] \in Call
                       /\ outcome[arg[p]] = "pending"
                       /\ handle[arg[p]] = [o |-> p, gen |-> generation[p]]
                       /\ deadline[p] = due[arg[p]])'
    BY DEF LiveServes
  <2>1. Live(p) /\ p # o
    OBVIOUS
  <2>2. /\ arg[p] \in Call
        /\ handle[arg[p]] = [o |-> p, gen |-> generation[p]]
        /\ deadline[p] = due[arg[p]]
    BY <2>1 DEF Serves, LiveServes
  <2>3. QED
    BY <1>2, <2>1, <2>2
<1>5. HandleServes'
  <2> SUFFICES ASSUME NEW d \in Call, handle'[d] # NoHandle
               PROVE  (/\ handle[d].o \in Obj
                       /\ handle[d].gen <= generation[handle[d].o]
                       /\ handle[d].gen = generation[handle[d].o] =>
                            arg[handle[d].o] = d /\ state[handle[d].o] # "inactive")'
    BY DEF HandleServes, NoHandle
  <2>1. CASE handle'[d] = [o |-> o, gen |-> generation[o]]
    BY <1>3, <2>1
  <2>2. CASE handle'[d] = handle[d]
    <3>1. /\ handle[d].o \in Obj
          /\ handle[d].gen <= generation[handle[d].o]
          /\ handle[d].gen = generation[handle[d].o] =>
               arg[handle[d].o] = d /\ state[handle[d].o] # "inactive"
      BY <2>2 DEF Serves, HandleServes
    <3>2. handle[d].gen \in Nat
      BY DEF TypeOK
    <3>3. CASE handle[d].o = o
      BY <1>3, <2>2, <3>1, <3>2, <3>3
    <3>4. CASE handle[d].o # o
      BY <1>2, <2>2, <3>1, <3>4
    <3>5. QED
      BY <3>3, <3>4
  <2>3. QED
    BY <2>1, <2>2
<1>6. QED
  BY <1>4, <1>5 DEF Serves

-----------------------------------------------------------------------------
(* Type correctness.                                                       *)

LEMMA TypeStep ==
  ASSUME WheelInv, Next
  PROVE  TypeOK'
<1> USE DEF wheelVars, listVars, objVars, tickVars, expVars, callVars
<1>0. TypeOK /\ Own /\ Control
  BY DEF WheelInv
<1>1. ASSUME NEW c \in Call, LoadTicks(c) PROVE TypeOK'
  BY <1>0, <1>1, TimeoutWheelAssumption DEF LoadTicks, TypeOK, Outcome
<1>2. ASSUME NEW c \in Call, ScheduleRefused(c) PROVE TypeOK'
  <2>1. PICK o \in Obj : Take(c, o) /\ Recycle(o, Rest(c, o), deadline[o])
    BY <1>2 DEF ScheduleRefused
  <2>2. /\ freelists' \in [Lock -> SUBSET Obj]
        /\ state' \in [Obj -> {"inactive", "expired", "active"}]
        /\ generation' \in [Obj -> Nat]
    <3>1. deadline[o] \in Nat
      BY <1>0 DEF TypeOK
    <3>2. QED
      BY <1>0, <2>1, <3>1, RecycleType, RestType
  <2>3. mtx' \in [Obj -> Lock \cup {NoMtx}] /\ crashed' \in BOOLEAN
    BY <1>0, <2>1, TakeType
  <2>4. QED
    BY <1>0, <1>2, <2>2, <2>3 DEF ScheduleRefused, Take, TypeOK, Outcome
<1>3. ASSUME NEW c \in Call, ScheduleInline(c) PROVE TypeOK'
  <2>1. PICK o \in Obj : Take(c, o) /\ Fill(c, o) /\ Recycle(o, Rest(c, o), due[c])
    BY <1>3 DEF ScheduleInline
  <2>2. /\ freelists' \in [Lock -> SUBSET Obj]
        /\ state' \in [Obj -> {"inactive", "expired", "active"}]
        /\ generation' \in [Obj -> Nat]
    <3>1. due[c] \in Nat
      BY <1>0 DEF TypeOK
    <3>2. QED
      BY <1>0, <2>1, <3>1, RecycleType, RestType
  <2>3. mtx' \in [Obj -> Lock \cup {NoMtx}] /\ crashed' \in BOOLEAN
    BY <1>0, <2>1, TakeType
  <2>4. /\ deadline' \in [Obj -> Nat]
        /\ arg' \in [Obj -> 0..NumCalls]
        /\ handle' \in [Call -> [o: 0..NumCalls, gen: Nat]]
    BY <1>0, <2>1, FillType
  <2>5. QED
    BY <1>0, <1>3, <2>2, <2>3, <2>4 DEF ScheduleInline, Take, TypeOK, Outcome
<1>4. ASSUME NEW c \in Call, ScheduleInsert(c) PROVE TypeOK'
  <2>1. PICK o \in Obj : Insert(c, o)
    BY <1>4 DEF ScheduleInsert
  <2>2. Rest(c, o) \in [Lock -> SUBSET Obj] /\ due[c] % NumBuckets \in Bucket
    BY <1>0, <2>1, RestType, TakeFacts DEF Insert
  <2>3. mtx' \in [Obj -> Lock \cup {NoMtx}] /\ crashed' \in BOOLEAN
    BY <1>0, <2>1, TakeType DEF Insert
  <2>4. /\ deadline' \in [Obj -> Nat]
        /\ arg' \in [Obj -> 0..NumCalls]
        /\ handle' \in [Call -> [o: 0..NumCalls, gen: Nat]]
    BY <1>0, <2>1, FillType DEF Insert
  <2>5. QED
    BY <1>0, <2>1, <2>2, <2>3, <2>4 DEF Insert, Take, TypeOK, Outcome
<1>5. ASSUME NEW c \in Call, RunInline(c) PROVE TypeOK'
  BY <1>0, <1>5 DEF RunInline, TypeOK, Outcome
<1>6. ASSUME NEW c \in Call, StopTimeout(c) PROVE TypeOK'
  <2> DEFINE o == handle[c].o
  <2>1. o \in Obj /\ arg[o] \in Call
    BY <1>6, StopFacts
  <2>2. Recycle(o, freelists, deadline[o])
    BY <1>6 DEF StopTimeout, Cancel
  <2>3. /\ freelists' \in [Lock -> SUBSET Obj]
        /\ state' \in [Obj -> {"inactive", "expired", "active"}]
        /\ generation' \in [Obj -> Nat]
    <3>1. deadline[o] \in Nat /\ freelists \in [Lock -> SUBSET Obj]
      BY <1>0, <2>1 DEF TypeOK
    <3>2. QED
      BY <1>0, <2>1, <2>2, <3>1, RecycleType
  <2>4. QED
    BY <1>0, <1>6, <2>1, <2>3 DEF StopTimeout, Cancel, TypeOK, Outcome
<1>7. ASSUME NEW k \in Epoch, Tick(k) PROVE TypeOK'
  BY <1>0, <1>7, TimeoutWheelAssumption DEF Tick, TypeOK
<1>8. ASSUME NEW k \in Epoch, ScanStopped(k) PROVE TypeOK'
  BY <1>0, <1>8 DEF ScanStopped, TypeOK, Outcome
<1>9. ASSUME NEW k \in Epoch, Scan(k) PROVE TypeOK'
  BY <1>0, <1>9, ModRange DEF Scan, Collect, DueNow, TypeOK
<1>10. ASSUME NEW k \in Epoch, Send(k) PROVE TypeOK'
  BY <1>0, <1>10 DEF Send, TypeOK
<1>11. ASSUME NEW k \in Epoch, SendClosed(k) PROVE TypeOK'
  BY <1>0, <1>11 DEF SendClosed, TypeOK
<1>12. ASSUME TakeExpired PROVE TypeOK'
  <2>1. PICK o \in callout : /\ callout' = callout \ {o}
                              /\ cb' = arg[o]
                              /\ outcome' = [outcome EXCEPT ![arg[o]] = "expiring"]
                              /\ Recycle(o, freelists, deadline[o])
    BY <1>12 DEF TakeExpired
  <2>2. o \in Obj /\ arg[o] \in Call
    BY ExpiredFacts
  <2>3. /\ freelists' \in [Lock -> SUBSET Obj]
        /\ state' \in [Obj -> {"inactive", "expired", "active"}]
        /\ generation' \in [Obj -> Nat]
    <3>1. deadline[o] \in Nat /\ freelists \in [Lock -> SUBSET Obj]
      BY <1>0, <2>2 DEF TypeOK
    <3>2. QED
      BY <1>0, <2>1, <2>2, <3>1, RecycleType
  <2>4. arg[o] \in 0..NumCalls
    BY <1>0, <2>2 DEF TypeOK
  <2>5. QED
    BY <1>0, <1>12, <2>1, <2>2, <2>3, <2>4 DEF TakeExpired, TypeOK, Outcome
<1>13. ASSUME RunCallback PROVE TypeOK'
  BY <1>0, <1>13, TimeoutWheelAssumption DEF RunCallback, Control, TypeOK, Outcome
<1>14. ASSUME Receive PROVE TypeOK'
  BY <1>0, <1>14 DEF Receive, TypeOK
<1>15. ASSUME ExpiredEnds PROVE TypeOK'
  BY <1>0, <1>15 DEF ExpiredEnds, TypeOK
<1>16. ASSUME StopWheel PROVE TypeOK'
  BY <1>0, <1>16 DEF StopWheel, TypeOK, Outcome
<1>17. ASSUME StartWheel PROVE TypeOK'
  BY <1>0, <1>17, TimeoutWheelAssumption DEF StartWheel, TypeOK, Control, Epoch
<1>18. QED
  BY <1>1, <1>2, <1>3, <1>4, <1>5, <1>6, <1>7, <1>8, <1>9, <1>10, <1>11, <1>12,
     <1>13, <1>14, <1>15, <1>16, <1>17 DEF Next, CallerStep, TickerStep, ExpiredStep

-----------------------------------------------------------------------------
(* The other conjuncts.                                                    *)

LEMMA ControlStep ==
  ASSUME WheelInv, Next
  PROVE  Control'
<1> USE DEF wheelVars, listVars, objVars, tickVars, expVars, callVars
<1>0. TypeOK /\ Own /\ Control
  BY DEF WheelInv, MutexInv
<1>1. ASSUME NEW c \in Call, LoadTicks(c) PROVE Control'
  BY <1>0, <1>1 DEF LoadTicks, TypeOK, Control, Epoch
<1>2. ASSUME NEW c \in Call, ScheduleRefused(c) PROVE Control'
  BY <1>0, <1>2, TakeFacts DEF ScheduleRefused, Take, Recycle, Rest, TypeOK, Control, Epoch
<1>3. ASSUME NEW c \in Call, ScheduleInline(c) PROVE Control'
  BY <1>0, <1>3, TakeFacts DEF ScheduleInline, Take, Fill, Recycle, Rest, TypeOK,
         Control, Epoch
<1>4. ASSUME NEW c \in Call, ScheduleInsert(c) PROVE Control'
  BY <1>0, <1>4, TakeFacts DEF ScheduleInsert, Insert, Take, Fill, Rest, TypeOK, Control,
         Epoch
<1>5. ASSUME NEW c \in Call, RunInline(c) PROVE Control'
  BY <1>0, <1>5 DEF RunInline, TypeOK, Control, Epoch
<1>6. ASSUME NEW c \in Call, StopTimeout(c) PROVE Control'
  <2>1. arg[handle[c].o] = c /\ outcome[c] = "pending"
    BY <1>6, StopFacts
  <2>2. expired = "run" => cb # c
    BY <1>0, <2>1 DEF Control
  <2>3. expired = "run" => outcome'[cb] = "expiring"
    BY <1>0, <1>6, <2>1, <2>2 DEF StopTimeout, Cancel, Control, TypeOK
  <2>4. wheel # "running" => \A b \in Bucket : buckets'[b] = {}
    BY <1>0, <1>6 DEF StopTimeout, Cancel, Control
  <2>5. QED
    BY <1>0, <1>6, <2>3, <2>4 DEF StopTimeout, Cancel, Control
<1>7. ASSUME NEW k \in Epoch, Tick(k) PROVE Control'
  BY <1>0, <1>7 DEF Tick, TypeOK, Control, Epoch
<1>8. ASSUME NEW k \in Epoch, ScanStopped(k) PROVE Control'
  <2>1. expired = "run" => outcome'[cb] = "expiring"
    <3>1. ASSUME NEW o \in expiredList[k] PROVE o \in Obj /\ outcome[arg[o]] = "pending"
      BY <3>1, ExpiredFacts
    <3>2. QED
      BY <1>0, <1>8, <3>1 DEF ScanStopped, Control
  <2>2. QED
    BY <1>0, <1>8, <2>1 DEF ScanStopped, TypeOK, Control, Epoch
<1>9. ASSUME NEW k \in Epoch, Scan(k) PROVE Control'
  BY <1>0, <1>9 DEF Scan, Collect, DueNow, TypeOK, Control, Epoch
<1>10. ASSUME NEW k \in Epoch, Send(k) PROVE Control'
  BY <1>0, <1>10 DEF Send, TypeOK, Control, Epoch
<1>11. ASSUME NEW k \in Epoch, SendClosed(k) PROVE Control'
  BY <1>0, <1>11 DEF SendClosed, TypeOK, Control, Epoch
<1>12. ASSUME TakeExpired PROVE Control'
  BY <1>0, <1>12, ExpiredFacts DEF TakeExpired, Recycle, TypeOK, Control, Epoch
<1>13. ASSUME RunCallback PROVE Control'
  BY <1>0, <1>13 DEF RunCallback, TypeOK, Control, Epoch
<1>14. ASSUME Receive PROVE Control'
  BY <1>0, <1>14 DEF Receive, TypeOK, Control, Epoch
<1>15. ASSUME ExpiredEnds PROVE Control'
  BY <1>0, <1>15 DEF ExpiredEnds, TypeOK, Control, Epoch
<1>16. ASSUME StopWheel PROVE Control'
  <2>1. expired = "run" => outcome'[cb] = "expiring"
    <3>1. ASSUME NEW b \in Bucket, NEW o \in buckets[b] PROVE outcome[arg[o]] = "pending"
      BY <3>1, BucketFacts
    <3>2. QED
      BY <1>0, <1>16, <3>1 DEF StopWheel, Control
  <2>2. QED
    BY <1>0, <1>16, <2>1 DEF StopWheel, TypeOK, Control, Epoch
<1>17. ASSUME StartWheel PROVE Control'
  BY <1>0, <1>17 DEF StartWheel, TypeOK, Control, Epoch
<1>18. QED
  BY <1>1, <1>2, <1>3, <1>4, <1>5, <1>6, <1>7, <1>8, <1>9, <1>10, <1>11, <1>12,
     <1>13, <1>14, <1>15, <1>16, <1>17 DEF Next, CallerStep, TickerStep, ExpiredStep

LEMMA OwnStep ==
  ASSUME WheelInv, Next
  PROVE  Own'
<1> USE DEF wheelVars, listVars, objVars, tickVars, expVars, callVars
<1>0. TypeOK /\ Own /\ Control
  BY DEF WheelInv, MutexInv
<1>1. ASSUME NEW c \in Call, LoadTicks(c) PROVE Own'
  BY <1>0, <1>1 DEF LoadTicks, TypeOK, Own, InBucket, OnFreelist, OnExpiredList,
         InCallout, NotMade, Control
<1>2. ASSUME NEW c \in Call, ScheduleRefused(c) PROVE Own'
  <2>1. PICK o \in Obj : Take(c, o) /\ Recycle(o, Rest(c, o), deadline[o]) /\ UNCHANGED buckets
    BY <1>2 DEF ScheduleRefused
  <2>2. /\ deadline[o] \in Nat
        /\ Rest(c, o) \in [Lock -> SUBSET Obj]
        /\ \A j \in Lock : Rest(c, o)[j] = freelists[j] \ {o}
    BY <1>0, <2>1, RestType, TakeFacts DEF Rest, TypeOK
  <2>3. /\ \A b \in Bucket : buckets'[b] = buckets[b] \ {o}
        /\ \A k \in Epoch : o \notin expiredList[k]
        /\ callout' = callout \ {o}
        /\ expiredList' = expiredList
    <3>1. UNCHANGED <<buckets, expiredList, callout>>
      BY <2>1 DEF Take
    <3>2. ~Live(o) /\ \A b \in Bucket : o \notin buckets[b]
      BY <1>0, <2>1, TakeFacts
    <3>3. QED
      BY <3>1, <3>2 DEF Live
  <2>4. mtx'[o] # NoMtx /\ \A p \in Obj : p # o => mtx'[p] = mtx[p]
    BY <1>0, <2>1, TakeFacts DEF TypeOK
  <2>5. QED
    BY <1>0, <2>1, <2>2, <2>3, <2>4, RecycleOwn
<1>3. ASSUME NEW c \in Call, ScheduleInline(c) PROVE Own'
  <2>1. PICK o \in Obj : Take(c, o) /\ Recycle(o, Rest(c, o), due[c]) /\ UNCHANGED buckets
    BY <1>3 DEF ScheduleInline
  <2>2. /\ due[c] \in Nat
        /\ Rest(c, o) \in [Lock -> SUBSET Obj]
        /\ \A j \in Lock : Rest(c, o)[j] = freelists[j] \ {o}
    BY <1>0, <2>1, RestType, TakeFacts DEF Rest, TypeOK
  <2>3. /\ \A b \in Bucket : buckets'[b] = buckets[b] \ {o}
        /\ \A k \in Epoch : o \notin expiredList[k]
        /\ callout' = callout \ {o}
        /\ expiredList' = expiredList
    <3>1. UNCHANGED <<buckets, expiredList, callout>>
      BY <2>1 DEF Take
    <3>2. ~Live(o) /\ \A b \in Bucket : o \notin buckets[b]
      BY <1>0, <2>1, TakeFacts
    <3>3. QED
      BY <3>1, <3>2 DEF Live
  <2>4. mtx'[o] # NoMtx /\ \A p \in Obj : p # o => mtx'[p] = mtx[p]
    BY <1>0, <2>1, TakeFacts DEF TypeOK
  <2>5. QED
    BY <1>0, <2>1, <2>2, <2>3, <2>4, RecycleOwn
<1>4. ASSUME NEW c \in Call, ScheduleInsert(c) PROVE Own'
  <2>1. PICK o \in Obj : Insert(c, o)
    BY <1>4 DEF ScheduleInsert
  <2>2. Take(c, o)
    BY <2>1 DEF Insert
  <2>3. /\ state' = [state EXCEPT ![o] = "active"]
        /\ freelists' = Rest(c, o)
        /\ buckets' = [buckets EXCEPT ![due[c] % NumBuckets] = @ \cup {o}]
        /\ expiredList' = expiredList
        /\ callout' = callout
    BY <2>1 DEF Insert, Take
  <2>4. \A j \in Lock : freelists'[j] = freelists[j] \ {o}
    BY <1>0, <2>2, <2>3, TakeFacts DEF Rest, TypeOK
  <2>5. /\ \A k \in Epoch : o \notin expiredList[k]
        /\ o \notin callout
    BY <1>0, <2>2, TakeFacts DEF Live
  <2>6. mtx'[o] # NoMtx /\ \A p \in Obj : p # o => mtx'[p] = mtx[p]
    BY <1>0, <2>2, TakeFacts DEF TypeOK
  <2>7. InBucket'
    <3>1. due[c] % NumBuckets \in Bucket /\ \A b \in Bucket : o \notin buckets[b]
      BY <1>0, <2>2, TakeFacts
    <3>2. QED
      BY <1>0, <2>3, <3>1 DEF TypeOK, Own, InBucket
  <2>8. OnFreelist'
    BY <1>0, <2>3, <2>4, <2>6 DEF TypeOK, Own, OnFreelist
  <2>9. OnExpiredList' /\ InCallout'
    BY <1>0, <2>3, <2>5 DEF TypeOK, Own, OnExpiredList, InCallout
  <2>10. NotMade'
    BY <1>0, <2>3, <2>6 DEF TypeOK, Own, NotMade
  <2>11. QED
    BY <2>7, <2>8, <2>9, <2>10 DEF Own
<1>5. ASSUME NEW c \in Call, RunInline(c) PROVE Own'
  BY <1>0, <1>5 DEF RunInline, TypeOK, Own, InBucket, OnFreelist, OnExpiredList,
         InCallout, NotMade, Control
<1>6. ASSUME NEW c \in Call, StopTimeout(c) PROVE Own'
  <2>1. PICK o \in Obj : o = handle[c].o /\ state[o] = "active"
    BY <1>6, StopFacts
  <2>2. /\ Recycle(o, freelists, deadline[o])
        /\ \A b \in Bucket : buckets'[b] = buckets[b] \ {o}
        /\ UNCHANGED <<mtx, expiredList, callout>>
    BY <1>6, <2>1 DEF StopTimeout, Cancel
  <2>3. /\ \A j \in Lock : freelists[j] = freelists[j] \ {o}
        /\ \A k \in Epoch : o \notin expiredList[k]
        /\ callout = callout \ {o}
        /\ mtx[o] # NoMtx
    BY <1>0, <2>1 DEF Own, OnFreelist, OnExpiredList, InCallout, NotMade
  <2>4. deadline[o] \in Nat /\ freelists \in [Lock -> SUBSET Obj]
    BY <1>0 DEF TypeOK
  <2>5. QED
    BY <1>0, <2>2, <2>3, <2>4, RecycleOwn
<1>7. ASSUME NEW k \in Epoch, Tick(k) PROVE Own'
  BY <1>0, <1>7 DEF Tick, TypeOK, Own, InBucket, OnFreelist, OnExpiredList, InCallout,
         NotMade, Control
<1>8. ASSUME NEW k \in Epoch, ScanStopped(k) PROVE Own'
  BY <1>0, <1>8 DEF ScanStopped, TypeOK, Own, InBucket, OnFreelist, OnExpiredList,
         InCallout, NotMade, Control
<1>9. ASSUME NEW k \in Epoch, Scan(k) PROVE Own'
  <2> DEFINE exp == DueNow
  <2>1. /\ exp \subseteq Obj
        /\ \A o \in exp : state[o] = "active"
    BY <1>0, ModRange DEF DueNow, TypeOK, Own, InBucket
  <2>2. /\ state' = [o \in Obj |-> IF o \in exp THEN "expired" ELSE state[o]]
        /\ buckets' = [buckets EXCEPT ![ticks % NumBuckets] = @ \ exp]
        /\ expiredList' = [expiredList EXCEPT ![k] = @ \cup exp]
        /\ UNCHANGED <<freelists, mtx, callout>>
    BY <1>9 DEF Scan, Collect
  <2>3. InBucket'
    <3>1. \A b \in Bucket : \A o \in buckets'[b] : o \in buckets[b] \ exp
      <4>1. \A b \in Bucket : b # ticks % NumBuckets => buckets[b] \cap exp = {}
        BY <1>0, ModRange DEF DueNow, TypeOK, Own, InBucket
      <4>2. QED
        BY <1>0, <2>2, <4>1 DEF TypeOK
    <3> HIDE DEF exp
    <3>2. QED
      BY <1>0, <2>2, <3>1 DEF TypeOK, Own, InBucket
  <2> HIDE DEF exp
  <2>4. OnFreelist'
    BY <1>0, <2>1, <2>2 DEF TypeOK, Own, OnFreelist
  <2>5. OnExpiredList'
    BY <1>0, <2>1, <2>2 DEF TypeOK, Own, OnExpiredList, InCallout
  <2>6. InCallout' /\ NotMade'
    BY <1>0, <2>1, <2>2 DEF TypeOK, Own, InCallout, NotMade
  <2>7. QED
    BY <2>3, <2>4, <2>5, <2>6 DEF Own
<1>10. ASSUME NEW k \in Epoch, Send(k) PROVE Own'
  <2>1. CASE expired = "recv"
    <3>1. /\ callout' = expiredList[k]
          /\ expiredList' = [expiredList EXCEPT ![k] = {}]
          /\ UNCHANGED <<freelists, mtx, buckets, state>>
      BY <1>10, <2>1 DEF Send
    <3>2. OnExpiredList'
      BY <1>0, <3>1 DEF TypeOK, Own, OnExpiredList
    <3>3. InCallout'
      BY <1>0, <3>1 DEF TypeOK, Own, OnExpiredList, InCallout
    <3>4. QED
      BY <1>0, <3>1, <3>2, <3>3 DEF Own, InBucket, OnFreelist, NotMade
  <2>2. CASE expired # "recv"
    BY <1>0, <1>10, <2>2 DEF Send, Own, InBucket, OnFreelist, OnExpiredList, InCallout,
           NotMade
  <2>3. QED
    BY <2>1, <2>2
<1>11. ASSUME NEW k \in Epoch, SendClosed(k) PROVE Own'
  BY <1>0, <1>11 DEF SendClosed, TypeOK, Own, InBucket, OnFreelist, OnExpiredList,
         InCallout, NotMade, Control
<1>12. ASSUME TakeExpired PROVE Own'
  <2>1. PICK o \in callout : callout' = callout \ {o} /\ Recycle(o, freelists, deadline[o])
    BY <1>12 DEF TakeExpired
  <2>2. o \in Obj /\ state[o] = "expired"
    BY ExpiredFacts
  <2>3. /\ \A j \in Lock : freelists[j] = freelists[j] \ {o}
        /\ \A k \in Epoch : o \notin expiredList[k]
        /\ \A b \in Bucket : buckets[b] = buckets[b] \ {o}
        /\ mtx[o] # NoMtx
    BY <1>0, <2>2 DEF Own, OnFreelist, OnExpiredList, InBucket, NotMade
  <2>4. deadline[o] \in Nat /\ freelists \in [Lock -> SUBSET Obj]
    BY <1>0, <2>2 DEF TypeOK
  <2>5. UNCHANGED <<mtx, buckets, expiredList>>
    BY <1>12 DEF TakeExpired
  <2>6. QED
    BY <1>0, <2>1, <2>2, <2>3, <2>4, <2>5, RecycleOwn
<1>13. ASSUME RunCallback PROVE Own'
  BY <1>0, <1>13 DEF RunCallback, TypeOK, Own, InBucket, OnFreelist, OnExpiredList,
         InCallout, NotMade, Control
<1>14. ASSUME Receive PROVE Own'
  BY <1>0, <1>14 DEF Receive, TypeOK, Own, InBucket, OnFreelist, OnExpiredList,
         InCallout, NotMade, Control
<1>15. ASSUME ExpiredEnds PROVE Own'
  BY <1>0, <1>15 DEF ExpiredEnds, TypeOK, Own, InBucket, OnFreelist, OnExpiredList,
         InCallout, NotMade, Control
<1>16. ASSUME StopWheel PROVE Own'
  BY <1>0, <1>16 DEF StopWheel, TypeOK, Own, InBucket, OnFreelist, OnExpiredList,
         InCallout, NotMade, Control
<1>17. ASSUME StartWheel PROVE Own'
  BY <1>0, <1>17 DEF StartWheel, TypeOK, Own, InBucket, OnFreelist, OnExpiredList,
         InCallout, NotMade, Control
<1>18. QED
  BY <1>1, <1>2, <1>3, <1>4, <1>5, <1>6, <1>7, <1>8, <1>9, <1>10, <1>11, <1>12,
     <1>13, <1>14, <1>15, <1>16, <1>17 DEF Next, CallerStep, TickerStep, ExpiredStep

LEMMA ServesStep ==
  ASSUME WheelInv, Next
  PROVE  Serves'
<1> USE DEF wheelVars, listVars, objVars, tickVars, expVars, callVars
<1>0. TypeOK /\ Own /\ Control /\ Serves
  BY DEF WheelInv, MutexInv
<1>1. ASSUME NEW c \in Call, LoadTicks(c) PROVE Serves'
  BY <1>0, <1>1 DEF LoadTicks, TypeOK, Control, Serves, LiveServes, HandleServes, Live
<1>2. ASSUME NEW c \in Call, ScheduleRefused(c) PROVE Serves'
  <2>1. PICK o \in Obj : Take(c, o) /\ Recycle(o, Rest(c, o), deadline[o])
    BY <1>2 DEF ScheduleRefused
  <2>2. UNCHANGED <<expiredList, callout, arg, deadline, due, handle>>
    BY <1>2 DEF ScheduleRefused, Take
  <2>3. \A p \in Obj : Live(p)' => Live(p) /\ p # o
    BY <1>0, <2>1, <2>2, TakeFacts DEF Live, Recycle, TypeOK
  <2>4. \A p \in Obj : Live(p) => outcome'[arg[p]] = "pending"
    BY <1>0, <1>2 DEF ScheduleRefused, Take, Serves, LiveServes, TypeOK
  <2>5. QED
    BY <1>0, <2>1, <2>2, <2>3, <2>4, RecycleServes
<1>3. ASSUME NEW c \in Call, ScheduleInline(c) PROVE Serves'
  <2>1. PICK o \in Obj : Take(c, o) /\ Fill(c, o) /\ Recycle(o, Rest(c, o), due[c])
    BY <1>3 DEF ScheduleInline
  <2>2. UNCHANGED <<expiredList, callout, due>>
    BY <1>3 DEF ScheduleInline, Take
  <2>3. \A p \in Obj : Live(p)' => Live(p) /\ p # o
    BY <1>0, <2>1, <2>2, TakeFacts DEF Live, Recycle, TypeOK
  <2>4. \A p \in Obj : p # o => arg'[p] = arg[p] /\ deadline'[p] = deadline[p]
    BY <1>0, <2>1 DEF Fill, TypeOK
  <2>5. \A d \in Call : d # c => outcome'[d] = outcome[d] /\ handle'[d] = handle[d]
    BY <1>0, <1>3, <2>1 DEF ScheduleInline, Fill, TypeOK
  <2>6. \A p \in Obj : Live(p) => outcome[arg[p]] = "pending" /\ arg[p] \in Call \ {c}
    BY <1>0, <2>1 DEF Take, Serves, LiveServes
  <2>7. handle'[c] = [o |-> o, gen |-> generation[o]]
    BY <1>0, <2>1 DEF Fill, TypeOK
  <2>8. QED
    BY <1>0, <2>1, <2>2, <2>3, <2>4, <2>5, <2>6, <2>7, RecycleServes
<1>4. ASSUME NEW c \in Call, ScheduleInsert(c) PROVE Serves'
  <2>1. PICK o \in Obj : Insert(c, o)
    BY <1>4 DEF ScheduleInsert
  <2>2. Take(c, o) /\ Fill(c, o)
    BY <2>1 DEF Insert
  <2>3. /\ state' = [state EXCEPT ![o] = "active"]
        /\ outcome' = [outcome EXCEPT ![c] = "pending"]
        /\ UNCHANGED <<expiredList, callout, due, generation>>
    BY <2>1 DEF Insert, Take
  <2>4. \A p \in Obj : Live(p)' => Live(p) \/ p = o
    BY <1>0, <2>3 DEF Live, TypeOK
  <2>5. \A p \in Obj : p # o =>
          arg'[p] = arg[p] /\ deadline'[p] = deadline[p] /\ state'[p] = state[p]
    BY <1>0, <2>2, <2>3 DEF Fill, TypeOK
  <2>6. \A d \in Call : d # c => outcome'[d] = outcome[d] /\ handle'[d] = handle[d]
    BY <1>0, <2>2, <2>3 DEF Fill, TypeOK
  <2>7. /\ arg'[o] = c
        /\ deadline'[o] = due[c]
        /\ state'[o] = "active"
        /\ outcome'[c] = "pending"
        /\ handle'[c] = [o |-> o, gen |-> generation[o]]
    BY <1>0, <2>2, <2>3 DEF Fill, TypeOK
  <2>8. ~Live(o) /\ state[o] = "inactive"
    BY <1>0, <2>2, TakeFacts
  <2>9. LiveServes'
    <3> SUFFICES ASSUME NEW p \in Obj, Live(p)'
                 PROVE  (/\ arg[p] \in Call
                         /\ outcome[arg[p]] = "pending"
                         /\ handle[arg[p]] = [o |-> p, gen |-> generation[p]]
                         /\ deadline[p] = due[arg[p]])'
      BY DEF LiveServes
    <3>1. CASE p = o
      BY <2>3, <2>7, <3>1
    <3>2. CASE p # o
      <4>1. Live(p) /\ outcome[c] # "pending"
        BY <2>2, <2>4, <3>2 DEF Take
      <4>2. QED
        BY <1>0, <2>3, <2>5, <2>6, <3>2, <4>1 DEF Serves, LiveServes
    <3>3. QED
      BY <3>1, <3>2
  <2>10. HandleServes'
    <3> SUFFICES ASSUME NEW d \in Call, handle'[d] # NoHandle
                 PROVE  (/\ handle[d].o \in Obj
                         /\ handle[d].gen <= generation[handle[d].o]
                         /\ handle[d].gen = generation[handle[d].o] =>
                              arg[handle[d].o] = d /\ state[handle[d].o] # "inactive")'
      BY DEF HandleServes, NoHandle
    <3>1. CASE d = c
      <4>1. generation[o] \in Nat
        BY <1>0 DEF TypeOK
      <4>2. QED
        BY <2>3, <2>7, <3>1, <4>1
    <3>2. CASE d # c
      <4>1. handle'[d] = handle[d]
        BY <2>6, <3>2
      <4>2. /\ handle[d].o \in Obj
            /\ handle[d].gen <= generation[handle[d].o]
            /\ handle[d].gen = generation[handle[d].o] =>
                 arg[handle[d].o] = d /\ state[handle[d].o] # "inactive"
        BY <1>0, <4>1 DEF Serves, HandleServes
      <4>3. QED
        BY <2>3, <2>5, <2>8, <4>1, <4>2
    <3>3. QED
      BY <3>1, <3>2
  <2>11. QED
    BY <2>9, <2>10 DEF Serves
<1>5. ASSUME NEW c \in Call, RunInline(c) PROVE Serves'
  BY <1>0, <1>5 DEF RunInline, TypeOK, Control, Serves, LiveServes, HandleServes, Live
<1>6. ASSUME NEW c \in Call, StopTimeout(c) PROVE Serves'
  <2>1. PICK o \in Obj : o = handle[c].o /\ state[o] = "active" /\ arg[o] = c
    BY <1>6, StopFacts
  <2>2. Live(o)
    BY <2>1 DEF Live
  <2>3. /\ Recycle(o, freelists, deadline[o])
        /\ outcome' = [outcome EXCEPT ![c] = "stopped"]
        /\ UNCHANGED <<expiredList, callout, arg, deadline, due, handle>>
    BY <1>6, <2>1 DEF StopTimeout, Cancel
  <2>4. \A p \in Obj : Live(p)' => Live(p) /\ p # o
    BY <1>0, <2>1, <2>3 DEF Live, Recycle, TypeOK, Own, OnExpiredList, InCallout
  <2>5. ASSUME NEW p \in Obj, Live(p), p # o PROVE outcome'[arg[p]] = "pending"
    <3>1. arg[p] # c
      BY <1>0, <2>1, <2>2, <2>5, LiveDistinct DEF Serves
    <3>2. outcome[arg[p]] = "pending" /\ arg[p] \in Call
      BY <1>0, <2>5 DEF Serves, LiveServes
    <3>3. QED
      BY <1>0, <2>3, <3>1, <3>2 DEF TypeOK
  <2>6. QED
    BY <1>0, <2>3, <2>4, <2>5, RecycleServes
<1>7. ASSUME NEW k \in Epoch, Tick(k) PROVE Serves'
  BY <1>0, <1>7 DEF Tick, TypeOK, Control, Serves, LiveServes, HandleServes, Live
<1>8. ASSUME NEW k \in Epoch, ScanStopped(k) PROVE Serves'
  <2>1. /\ expiredList' = [expiredList EXCEPT ![k] = {}]
        /\ outcome' = [d \in Call |->
             IF \E o \in expiredList[k] : arg[o] = d THEN "dropped" ELSE outcome[d]]
        /\ UNCHANGED <<state, callout, arg, handle, generation, deadline, due>>
    BY <1>8 DEF ScanStopped
  <2>2. \A p \in Obj : Live(p)' => Live(p) /\ p \notin expiredList[k]
    BY <1>0, <2>1 DEF Live, TypeOK, Own, OnExpiredList
  <2>3. \A p \in Obj : Live(p)' => outcome'[arg[p]] = outcome[arg[p]]
    <3> SUFFICES ASSUME NEW p \in Obj, Live(p)', NEW q \in expiredList[k]
                 PROVE  arg[q] # arg[p]
      BY <1>0, <2>1, <2>2 DEF Serves, LiveServes
    <3>1. q \in Obj /\ Live(q) /\ q # p
      BY <2>2, ExpiredFacts
    <3>2. QED
      BY <1>0, <2>2, <3>1, LiveDistinct DEF Serves
  <2>4. LiveServes'
    BY <1>0, <2>1, <2>2, <2>3 DEF Serves, LiveServes
  <2>5. QED
    BY <1>0, <2>1, <2>4 DEF Serves, HandleServes
<1>9. ASSUME NEW k \in Epoch, Scan(k) PROVE Serves'
  <2> DEFINE exp == DueNow
  <2>1. /\ exp \subseteq Obj
        /\ \A o \in exp : state[o] = "active"
    BY <1>0, ModRange DEF DueNow, TypeOK, Own, InBucket
  <2>2. /\ state' = [o \in Obj |-> IF o \in exp THEN "expired" ELSE state[o]]
        /\ expiredList' = [expiredList EXCEPT ![k] = @ \cup exp]
        /\ UNCHANGED <<callout, arg, handle, generation, deadline, due, outcome>>
    BY <1>9 DEF Scan, Collect
  <2> HIDE DEF exp
  <2>3. \A p \in Obj : Live(p)' => Live(p)
    BY <1>0, <2>1, <2>2 DEF Live, TypeOK
  <2>4. LiveServes'
    BY <1>0, <2>2, <2>3 DEF Serves, LiveServes
  <2>5. \A p \in Obj : state'[p] = "inactive" => state[p] = "inactive"
    BY <2>2
  <2>6. QED
    BY <1>0, <2>2, <2>4, <2>5 DEF Serves, HandleServes
<1>10. ASSUME NEW k \in Epoch, Send(k) PROVE Serves'
  BY <1>0, <1>10 DEF Send, TypeOK, Control, Serves, LiveServes, HandleServes, Live
<1>11. ASSUME NEW k \in Epoch, SendClosed(k) PROVE Serves'
  BY <1>0, <1>11 DEF SendClosed, TypeOK, Control, Serves, LiveServes, HandleServes, Live
<1>12. ASSUME TakeExpired PROVE Serves'
  <2>1. PICK o \in callout : /\ callout' = callout \ {o}
                              /\ outcome' = [outcome EXCEPT ![arg[o]] = "expiring"]
                              /\ Recycle(o, freelists, deadline[o])
    BY <1>12 DEF TakeExpired
  <2>2. o \in Obj /\ Live(o) /\ state[o] = "expired" /\ arg[o] \in Call
    BY ExpiredFacts
  <2>3. UNCHANGED <<expiredList, arg, deadline, due, handle>>
    BY <1>12 DEF TakeExpired
  <2>4. \A p \in Obj : Live(p)' => Live(p) /\ p # o
    BY <1>0, <2>1, <2>2, <2>3 DEF Live, Recycle, TypeOK, Own, OnExpiredList
  <2>5. ASSUME NEW p \in Obj, Live(p), p # o PROVE outcome'[arg[p]] = "pending"
    <3>1. arg[p] # arg[o]
      BY <1>0, <2>2, <2>5, LiveDistinct DEF Serves
    <3>2. outcome[arg[p]] = "pending" /\ arg[p] \in Call
      BY <1>0, <2>5 DEF Serves, LiveServes
    <3>3. QED
      BY <1>0, <2>1, <3>1, <3>2 DEF TypeOK
  <2>6. QED
    BY <1>0, <2>1, <2>2, <2>3, <2>4, <2>5, RecycleServes
<1>13. ASSUME RunCallback PROVE Serves'
  BY <1>0, <1>13 DEF RunCallback, TypeOK, Control, Serves, LiveServes, HandleServes, Live
<1>14. ASSUME Receive PROVE Serves'
  BY <1>0, <1>14 DEF Receive, TypeOK, Control, Serves, LiveServes, HandleServes, Live
<1>15. ASSUME ExpiredEnds PROVE Serves'
  BY <1>0, <1>15 DEF ExpiredEnds, TypeOK, Control, Serves, LiveServes, HandleServes, Live
<1>16. ASSUME StopWheel PROVE Serves'
  <2> DEFINE freed == UNION {buckets[b] : b \in Bucket}
  <2>1. /\ state' = [o \in Obj |-> IF o \in freed THEN "inactive" ELSE state[o]]
        /\ generation' = [o \in Obj |-> generation[o] + (IF o \in freed THEN 1 ELSE 0)]
        /\ outcome' = [d \in Call |->
             IF \E o \in freed : arg[o] = d THEN "dropped" ELSE outcome[d]]
        /\ UNCHANGED <<expiredList, callout, arg, handle, deadline, due>>
    BY <1>16 DEF StopWheel
  <2>2. \A o \in freed : o \in Obj /\ Live(o) /\ state[o] = "active"
    BY BucketFacts
  <2> HIDE DEF freed
  <2>3. \A p \in Obj : Live(p)' => Live(p) /\ p \notin freed
    BY <1>0, <2>1, <2>2 DEF Live, Own, OnExpiredList, InCallout
  <2>4. LiveServes'
    <3> SUFFICES ASSUME NEW p \in Obj, Live(p)'
                 PROVE  (/\ arg[p] \in Call
                         /\ outcome[arg[p]] = "pending"
                         /\ handle[arg[p]] = [o |-> p, gen |-> generation[p]]
                         /\ deadline[p] = due[arg[p]])'
      BY DEF LiveServes
    <3>1. Live(p) /\ p \notin freed
      BY <2>3
    <3>2. \A o \in freed : arg[o] # arg[p]
      BY <1>0, <2>2, <3>1, LiveDistinct DEF Serves
    <3>3. /\ arg[p] \in Call
          /\ outcome[arg[p]] = "pending"
          /\ handle[arg[p]] = [o |-> p, gen |-> generation[p]]
          /\ deadline[p] = due[arg[p]]
      BY <1>0, <3>1 DEF Serves, LiveServes
    <3>4. outcome'[arg[p]] = "pending"
      BY <2>1, <3>2, <3>3
    <3>5. generation'[p] = generation[p]
      BY <1>0, <2>1, <3>1 DEF TypeOK
    <3>6. QED
      BY <2>1, <3>3, <3>4, <3>5
  <2>5. HandleServes'
    <3> SUFFICES ASSUME NEW d \in Call, handle[d] # NoHandle
                 PROVE  (/\ handle[d].o \in Obj
                         /\ handle[d].gen <= generation[handle[d].o]
                         /\ handle[d].gen = generation[handle[d].o] =>
                              arg[handle[d].o] = d /\ state[handle[d].o] # "inactive")'
      BY <2>1 DEF HandleServes, NoHandle
    <3>1. /\ handle[d].o \in Obj
          /\ handle[d].gen <= generation[handle[d].o]
          /\ handle[d].gen = generation[handle[d].o] =>
               arg[handle[d].o] = d /\ state[handle[d].o] # "inactive"
      BY <1>0 DEF Serves, HandleServes
    <3>2. handle[d].gen \in Nat /\ generation[handle[d].o] \in Nat
      BY <1>0, <3>1 DEF TypeOK
    <3>3. QED
      BY <2>1, <3>1, <3>2
  <2>6. QED
    BY <2>4, <2>5 DEF Serves
<1>17. ASSUME StartWheel PROVE Serves'
  BY <1>0, <1>17 DEF StartWheel, TypeOK, Control, Serves, LiveServes, HandleServes, Live
<1>18. QED
  BY <1>1, <1>2, <1>3, <1>4, <1>5, <1>6, <1>7, <1>8, <1>9, <1>10, <1>11, <1>12,
     <1>13, <1>14, <1>15, <1>16, <1>17 DEF Next, CallerStep, TickerStep, ExpiredStep

LEMMA ClockStep ==
  ASSUME WheelInv, Next
  PROVE  Clock'
<1> USE DEF wheelVars, listVars, objVars, tickVars, expVars, callVars
<1>0. TypeOK /\ Own /\ Clock
  BY DEF WheelInv, MutexInv
<1>1. ASSUME NEW c \in Call, LoadTicks(c) PROVE Clock'
  BY <1>0, <1>1 DEF LoadTicks, TypeOK, Clock
<1>2. ASSUME NEW c \in Call, ScheduleRefused(c) PROVE Clock'
  BY <1>0, <1>2, TakeFacts DEF ScheduleRefused, Take, Recycle, Rest, TypeOK, Clock
<1>3. ASSUME NEW c \in Call, ScheduleInline(c) PROVE Clock'
  <2>1. PICK o \in Obj : Take(c, o) /\ Fill(c, o) /\ Recycle(o, Rest(c, o), due[c])
    BY <1>3 DEF ScheduleInline
  <2>2. due[c] \in Nat /\ due[c] % NumBuckets \in Bucket
    BY <1>0, <2>1, TakeFacts
  <2>3. due[c] <= ticks
    <3>1. lastTick[due[c] % NumBuckets] >= due[c]
      BY <1>3 DEF ScheduleInline
    <3>2. lastTick[due[c] % NumBuckets] \in Nat /\ ticks \in Nat
      BY <1>0, <2>2 DEF TypeOK
    <3>3. QED
      BY <1>0, <2>2, <3>1, <3>2 DEF Clock
  <2>4. /\ state' = [state EXCEPT ![o] = "inactive"]
        /\ deadline' = [deadline EXCEPT ![o] = due[c]]
        /\ outcome' = [outcome EXCEPT ![c] = "inline"]
        /\ UNCHANGED <<ticks, lastTick, due>>
    BY <1>3, <2>1 DEF ScheduleInline, Take, Fill, Recycle
  <2>5. QED
    BY <1>0, <2>3, <2>4 DEF Clock, TypeOK
<1>4. ASSUME NEW c \in Call, ScheduleInsert(c) PROVE Clock'
  BY <1>0, <1>4, TakeFacts DEF ScheduleInsert, Insert, Take, Fill, Rest, TypeOK, Clock
<1>5. ASSUME NEW c \in Call, RunInline(c) PROVE Clock'
  BY <1>0, <1>5 DEF RunInline, TypeOK, Clock
<1>6. ASSUME NEW c \in Call, StopTimeout(c) PROVE Clock'
  BY <1>0, <1>6, StopFacts DEF StopTimeout, Cancel, Recycle, TypeOK, Clock
<1>7. ASSUME NEW k \in Epoch, Tick(k) PROVE Clock'
  BY <1>0, <1>7 DEF Tick, TypeOK, Clock
<1>8. ASSUME NEW k \in Epoch, ScanStopped(k) PROVE Clock'
  BY <1>0, <1>8 DEF ScanStopped, TypeOK, Clock
<1>9. ASSUME NEW k \in Epoch, Scan(k) PROVE Clock'
  BY <1>0, <1>9 DEF Scan, Collect, DueNow, TypeOK, Clock
<1>10. ASSUME NEW k \in Epoch, Send(k) PROVE Clock'
  BY <1>0, <1>10 DEF Send, TypeOK, Clock
<1>11. ASSUME NEW k \in Epoch, SendClosed(k) PROVE Clock'
  BY <1>0, <1>11 DEF SendClosed, TypeOK, Clock
<1>12. ASSUME TakeExpired PROVE Clock'
  BY <1>0, <1>12, ExpiredFacts DEF TakeExpired, Recycle, TypeOK, Clock
<1>13. ASSUME RunCallback PROVE Clock'
  BY <1>0, <1>13 DEF RunCallback, TypeOK, Clock
<1>14. ASSUME Receive PROVE Clock'
  BY <1>0, <1>14 DEF Receive, TypeOK, Clock
<1>15. ASSUME ExpiredEnds PROVE Clock'
  BY <1>0, <1>15 DEF ExpiredEnds, TypeOK, Clock
<1>16. ASSUME StopWheel PROVE Clock'
  BY <1>0, <1>16 DEF StopWheel, TypeOK, Clock
<1>17. ASSUME StartWheel PROVE Clock'
  BY <1>0, <1>17 DEF StartWheel, TypeOK, Clock
<1>18. QED
  BY <1>1, <1>2, <1>3, <1>4, <1>5, <1>6, <1>7, <1>8, <1>9, <1>10, <1>11, <1>12,
     <1>13, <1>14, <1>15, <1>16, <1>17 DEF Next, CallerStep, TickerStep, ExpiredStep

LEMMA ScannedStep ==
  ASSUME WheelInv, Next
  PROVE  Scanned'
<1> USE DEF wheelVars, listVars, objVars, tickVars, expVars, callVars
<1>0. TypeOK /\ Own /\ Control /\ Clock /\ Scanned
  BY DEF WheelInv, MutexInv
<1>1. ASSUME NEW c \in Call, LoadTicks(c) PROVE Scanned'
  BY <1>0, <1>1 DEF LoadTicks, TypeOK, Scanned
<1>2. ASSUME NEW c \in Call, ScheduleRefused(c) PROVE Scanned'
  BY <1>0, <1>2, TakeFacts DEF ScheduleRefused, Take, Recycle, Rest, TypeOK, Scanned
<1>3. ASSUME NEW c \in Call, ScheduleInline(c) PROVE Scanned'
  <2>1. PICK o \in Obj : Take(c, o) /\ Fill(c, o)
    BY <1>3 DEF ScheduleInline
  <2>2. UNCHANGED <<ticks, starts, wheel, ticker, lastTick, buckets>>
    BY <1>3 DEF ScheduleInline, Take
  <2>3. \A b \in Bucket : \A p \in buckets[b] : deadline'[p] = deadline[p]
    BY <1>0, <2>1, TakeFacts DEF Fill, TypeOK
  <2>4. QED
    BY <1>0, <2>2, <2>3 DEF Scanned
<1>4. ASSUME NEW c \in Call, ScheduleInsert(c) PROVE Scanned'
  <2>1. PICK o \in Obj : Insert(c, o)
    BY <1>4 DEF ScheduleInsert
  <2>2. Take(c, o) /\ Fill(c, o)
    BY <2>1 DEF Insert
  <2>3. UNCHANGED <<ticks, starts, wheel, ticker, lastTick>>
    BY <2>1 DEF Insert, Take
  <2>4. \A b \in Bucket : \A p \in buckets[b] : deadline'[p] = deadline[p]
    BY <1>0, <2>2, TakeFacts DEF Fill, TypeOK
  <2>5. deadline'[o] = due[c]
    BY <1>0, <2>2 DEF Fill, TypeOK
  <2>6. \A b \in Bucket : /\ buckets'[b] \subseteq buckets[b] \cup {o}
                          /\ b # due[c] % NumBuckets => buckets'[b] = buckets[b]
    BY <1>0, <2>1 DEF Insert, TypeOK
  <2>7. lastTick[due[c] % NumBuckets] < due[c]
    BY <1>4 DEF ScheduleInsert
  <2>8. QED
    BY <1>0, <2>3, <2>4, <2>5, <2>6, <2>7 DEF Scanned
<1>5. ASSUME NEW c \in Call, RunInline(c) PROVE Scanned'
  BY <1>0, <1>5 DEF RunInline, TypeOK, Scanned
<1>6. ASSUME NEW c \in Call, StopTimeout(c) PROVE Scanned'
  BY <1>0, <1>6, StopFacts DEF StopTimeout, Cancel, Recycle, TypeOK, Scanned
<1>7. ASSUME NEW k \in Epoch, Tick(k) PROVE Scanned'
  <2> SUFFICES ASSUME starts = 1, wheel = "running" PROVE Scanned'
    BY <1>7 DEF Tick, Scanned
  <2>1. k = 1
    BY <1>0, <1>7 DEF Tick, Control, TypeOK, Epoch
  <2>2. /\ ticker[1] = "wait"
        /\ ticks \in Nat
        /\ ticks' = ticks \/ ticks' = ticks + 1
        /\ ticker'[1] = "scan"
        /\ UNCHANGED <<lastTick, buckets, deadline>>
    BY <1>0, <1>7, <2>1, TimeoutWheelAssumption DEF Tick, TypeOK, Epoch
  <2>3. \A t \in 0..ticks : lastTick[t % NumBuckets] >= t
    BY <1>0, <2>2 DEF Scanned
  <2>4. \A t \in 0..ticks' : t < ticks' => lastTick[t % NumBuckets] >= t
    BY <2>2, <2>3
  <2>5. QED
    BY <1>0, <2>2, <2>4 DEF Scanned
<1>8. ASSUME NEW k \in Epoch, ScanStopped(k) PROVE Scanned'
  BY <1>0, <1>8 DEF ScanStopped, TypeOK, Scanned
<1>9. ASSUME NEW k \in Epoch, Scan(k) PROVE Scanned'
  <2> SUFFICES ASSUME starts = 1, wheel = "running" PROVE Scanned'
    BY <1>9 DEF Scan, Collect, Scanned
  <2>1. k = 1
    BY <1>0, <1>9 DEF Scan, Collect, Control, TypeOK, Epoch
  <2> DEFINE b0 == ticks % NumBuckets
  <2>2. b0 \in Bucket /\ ticks \in Nat
    <3>1. ticks \in Nat
      BY <1>0, TimeoutWheelAssumption DEF TypeOK
    <3>2. QED
      BY <3>1, ModRange
  <2>3. /\ ticker[1] = "scan"
        /\ lastTick' = [lastTick EXCEPT ![b0] = ticks]
        /\ buckets' = [buckets EXCEPT ![b0] = @ \ DueNow]
        /\ UNCHANGED <<ticks, deadline>>
    BY <1>9, <2>1 DEF Scan, Collect
  <2>4. \A b \in Bucket : lastTick'[b] >= lastTick[b]
    BY <1>0, <2>2, <2>3 DEF Clock, TypeOK
  <2>5. \A t \in 0..ticks : lastTick'[t % NumBuckets] >= t
    <3> SUFFICES ASSUME NEW t \in 0..ticks PROVE lastTick'[t % NumBuckets] >= t
      OBVIOUS
    <3>1. t % NumBuckets \in Bucket
      BY <2>2, ModRange
    <3>2. CASE t = ticks
      BY <1>0, <2>2, <2>3, <3>2 DEF TypeOK
    <3>3. CASE t < ticks
      <4>1. lastTick[t % NumBuckets] >= t
        BY <1>0, <3>3 DEF Scanned
      <4>2. lastTick[t % NumBuckets] \in Nat /\ lastTick'[t % NumBuckets] \in Nat
        BY <1>0, <2>2, <2>3, <3>1 DEF TypeOK
      <4>3. QED
        BY <2>4, <3>1, <4>1, <4>2
    <3>4. QED
      BY <2>2, <3>2, <3>3
  <2>6. \A b \in Bucket : \A o \in buckets'[b] :
          b = deadline[o] % NumBuckets /\ lastTick'[b] < deadline[o]
    <3> SUFFICES ASSUME NEW b \in Bucket, NEW o \in buckets'[b]
                 PROVE  b = deadline[o] % NumBuckets /\ lastTick'[b] < deadline[o]
      OBVIOUS
    <3>1. o \in buckets[b] /\ o \in Obj /\ (b = b0 => o \notin DueNow)
      BY <1>0, <2>2, <2>3 DEF TypeOK
    <3>2. b = deadline[o] % NumBuckets /\ lastTick[b] < deadline[o]
      BY <1>0, <3>1 DEF Scanned
    <3>3. CASE b = b0
      <4>1. ~(deadline[o] <= ticks) /\ deadline[o] \in Nat
        BY <1>0, <3>1, <3>3 DEF DueNow, TypeOK
      <4>2. lastTick'[b] = ticks
        BY <1>0, <2>2, <2>3, <3>3 DEF TypeOK
      <4>3. QED
        BY <2>2, <3>2, <4>1, <4>2
    <3>4. CASE b # b0
      <4>1. lastTick'[b] = lastTick[b]
        BY <1>0, <2>2, <2>3, <3>4 DEF TypeOK
      <4>2. QED
        BY <3>2, <4>1
    <3>5. QED
      BY <3>3, <3>4
  <2>7. QED
    BY <2>3, <2>5, <2>6 DEF Scanned
<1>10. ASSUME NEW k \in Epoch, Send(k) PROVE Scanned'
  BY <1>0, <1>10 DEF Send, TypeOK, Scanned
<1>11. ASSUME NEW k \in Epoch, SendClosed(k) PROVE Scanned'
  BY <1>0, <1>11 DEF SendClosed, TypeOK, Scanned
<1>12. ASSUME TakeExpired PROVE Scanned'
  BY <1>0, <1>12, ExpiredFacts DEF TakeExpired, Recycle, TypeOK, Scanned
<1>13. ASSUME RunCallback PROVE Scanned'
  BY <1>0, <1>13 DEF RunCallback, TypeOK, Scanned
<1>14. ASSUME Receive PROVE Scanned'
  BY <1>0, <1>14 DEF Receive, TypeOK, Scanned
<1>15. ASSUME ExpiredEnds PROVE Scanned'
  BY <1>0, <1>15 DEF ExpiredEnds, TypeOK, Scanned
<1>16. ASSUME StopWheel PROVE Scanned'
  BY <1>0, <1>16 DEF StopWheel, TypeOK, Scanned
<1>17. ASSUME StartWheel PROVE Scanned'
  BY <1>0, <1>17 DEF StartWheel, TypeOK, Scanned, Epoch
<1>18. QED
  BY <1>1, <1>2, <1>3, <1>4, <1>5, <1>6, <1>7, <1>8, <1>9, <1>10, <1>11, <1>12,
     <1>13, <1>14, <1>15, <1>16, <1>17 DEF Next, CallerStep, TickerStep, ExpiredStep

LEMMA MutexStep ==
  ASSUME WheelInv, Next
  PROVE  MutexInv'
<1> USE DEF wheelVars, listVars, objVars, tickVars, expVars, callVars
<1>0. TypeOK /\ Own /\ Control /\ FreelistLocked /\ Locks
  BY DEF WheelInv, MutexInv
<1>1. ASSUME NEW c \in Call, LoadTicks(c) PROVE MutexInv'
  BY <1>0, <1>1 DEF LoadTicks, TypeOK, Locks, FreelistLocked, MutexInv
<1>2. ASSUME NEW c \in Call, ScheduleRefused(c) PROVE MutexInv'
  BY <1>0, <1>2, TakeFacts DEF ScheduleRefused, Take, Recycle, Rest, TypeOK, Locks,
         FreelistLocked, MutexInv
<1>3. ASSUME NEW c \in Call, ScheduleInline(c) PROVE MutexInv'
  <2> SUFFICES ASSUME starts = 1, wheel = "running" PROVE MutexInv'
    BY <1>3 DEF ScheduleInline, Take, MutexInv, Locks, FreelistLocked
  <2>1. PICK o \in Obj : Take(c, o) /\ Fill(c, o) /\ Recycle(o, Rest(c, o), due[c])
    BY <1>3 DEF ScheduleInline
  <2> DEFINE i == due[c] % NumLocks
  <2>2. /\ i \in Lock
        /\ mtx'[o] = i
        /\ crashed' = FALSE
        /\ \A p \in Obj : p # o => mtx'[p] = mtx[p]
    BY <1>0, <2>1, TakeLock
  <2>3. Locks'
    BY <1>0, <2>1, <2>2 DEF Locks, Recycle, Fill, TypeOK
  <2>4. \A j \in Lock : /\ freelists'[j] \subseteq freelists[j] \cup {o}
                        /\ j # i => freelists'[j] = freelists[j] \ {o}
    <3>1. \A j \in Lock : Rest(c, o)[j] = freelists[j] \ {o}
      BY <1>0, <2>1, RestWithout
    <3>2. Rest(c, o) \in [Lock -> SUBSET Obj]
      BY <1>0, RestType
    <3>3. freelists' = [Rest(c, o) EXCEPT ![i] = @ \cup {o}]
      BY <2>1 DEF Recycle
    <3> HIDE DEF i
    <3>4. QED
      BY <2>2, <3>1, <3>2, <3>3
  <2> HIDE DEF i
  <2>5. \A j \in Lock : \A p \in freelists'[j] : mtx'[p] = j
    BY <1>0, <2>2, <2>4 DEF FreelistLocked, TypeOK
  <2>6. QED
    BY <2>2, <2>3, <2>5 DEF MutexInv, FreelistLocked
<1>4. ASSUME NEW c \in Call, ScheduleInsert(c) PROVE MutexInv'
  <2> SUFFICES ASSUME starts = 1, wheel = "running" PROVE MutexInv'
    BY <1>4 DEF ScheduleInsert, Insert, Take, MutexInv, Locks, FreelistLocked
  <2>1. PICK o \in Obj : Insert(c, o)
    BY <1>4 DEF ScheduleInsert
  <2>2. Take(c, o) /\ Fill(c, o)
    BY <2>1 DEF Insert
  <2>3. /\ mtx'[o] = due[c] % NumLocks
        /\ crashed' = FALSE
        /\ \A p \in Obj : p # o => mtx'[p] = mtx[p]
    BY <1>0, <2>2, TakeLock
  <2>4. Locks'
    BY <1>0, <2>1, <2>2, <2>3 DEF Locks, Insert, Fill, TypeOK
  <2>5. \A j \in Lock : freelists'[j] = freelists[j] \ {o}
    BY <1>0, <2>1, <2>2, RestWithout DEF Insert
  <2>6. \A j \in Lock : \A p \in freelists'[j] : mtx'[p] = j
    BY <1>0, <2>3, <2>5 DEF FreelistLocked, TypeOK
  <2>7. QED
    BY <2>3, <2>4, <2>6 DEF MutexInv, FreelistLocked
<1>5. ASSUME NEW c \in Call, RunInline(c) PROVE MutexInv'
  BY <1>0, <1>5 DEF RunInline, TypeOK, Locks, FreelistLocked, MutexInv
<1>6. ASSUME NEW c \in Call, StopTimeout(c) PROVE MutexInv'
  <2> SUFFICES ASSUME starts = 1, wheel = "running" PROVE MutexInv'
    BY <1>6 DEF StopTimeout, Cancel, MutexInv, Locks, FreelistLocked
  <2>1. PICK o \in Obj : o = handle[c].o /\ state[o] = "active"
    BY <1>6, StopFacts
  <2>2. /\ Recycle(o, freelists, deadline[o])
        /\ UNCHANGED <<mtx, deadline, crashed>>
    BY <1>6, <2>1 DEF StopTimeout, Cancel
  <2>3. deadline[o] \in Nat /\ mtx[o] = deadline[o] % NumLocks
    BY <1>0, <2>1 DEF Locks, TypeOK
  <2>4. QED
    BY <1>0, <2>2, <2>3, RecycleLocked
<1>7. ASSUME NEW k \in Epoch, Tick(k) PROVE MutexInv'
  BY <1>0, <1>7 DEF Tick, TypeOK, Locks, FreelistLocked, MutexInv
<1>8. ASSUME NEW k \in Epoch, ScanStopped(k) PROVE MutexInv'
  BY <1>0, <1>8 DEF ScanStopped, TypeOK, Locks, FreelistLocked, MutexInv
<1>9. ASSUME NEW k \in Epoch, Scan(k) PROVE MutexInv'
  <2>1. /\ state' = [o \in Obj |-> IF o \in DueNow THEN "expired" ELSE state[o]]
        /\ UNCHANGED <<starts, wheel, freelists, mtx, deadline, crashed>>
    BY <1>9 DEF Scan, Collect
  <2>2. \A o \in DueNow : state[o] = "active"
    BY <1>0, ModRange DEF DueNow, TypeOK, Own, InBucket
  <2>3. QED
    BY <1>0, <2>1, <2>2 DEF MutexInv, Locks, FreelistLocked
<1>10. ASSUME NEW k \in Epoch, Send(k) PROVE MutexInv'
  BY <1>0, <1>10 DEF Send, TypeOK, Locks, FreelistLocked, MutexInv
<1>11. ASSUME NEW k \in Epoch, SendClosed(k) PROVE MutexInv'
  BY <1>0, <1>11 DEF SendClosed, TypeOK, Locks, FreelistLocked, MutexInv
<1>12. ASSUME TakeExpired PROVE MutexInv'
  <2> SUFFICES ASSUME starts = 1, wheel = "running" PROVE MutexInv'
    BY <1>12 DEF TakeExpired, MutexInv, Locks, FreelistLocked
  <2>1. PICK o \in callout : Recycle(o, freelists, deadline[o])
    BY <1>12 DEF TakeExpired
  <2>2. o \in Obj /\ state[o] = "expired"
    BY ExpiredFacts
  <2>3. deadline[o] \in Nat /\ mtx[o] = deadline[o] % NumLocks
    BY <1>0, <2>2 DEF Locks, TypeOK
  <2>4. UNCHANGED <<mtx, deadline, crashed>>
    BY <1>12 DEF TakeExpired
  <2>5. QED
    BY <1>0, <2>1, <2>2, <2>3, <2>4, RecycleLocked
<1>13. ASSUME RunCallback PROVE MutexInv'
  BY <1>0, <1>13 DEF RunCallback, TypeOK, Locks, FreelistLocked, MutexInv
<1>14. ASSUME Receive PROVE MutexInv'
  BY <1>0, <1>14 DEF Receive, TypeOK, Locks, FreelistLocked, MutexInv
<1>15. ASSUME ExpiredEnds PROVE MutexInv'
  BY <1>0, <1>15 DEF ExpiredEnds, TypeOK, Locks, FreelistLocked, MutexInv
<1>16. ASSUME StopWheel PROVE MutexInv'
  BY <1>0, <1>16 DEF StopWheel, TypeOK, Locks, FreelistLocked, MutexInv
<1>17. ASSUME StartWheel PROVE MutexInv'
  BY <1>0, <1>17 DEF StartWheel, TypeOK, Epoch, MutexInv, Locks, FreelistLocked
<1>18. QED
  BY <1>1, <1>2, <1>3, <1>4, <1>5, <1>6, <1>7, <1>8, <1>9, <1>10, <1>11, <1>12,
     <1>13, <1>14, <1>15, <1>16, <1>17 DEF Next, CallerStep, TickerStep, ExpiredStep

LEMMA StopStep ==
  ASSUME WheelInv, Next
  PROVE  StopExact'
<1> USE DEF wheelVars, listVars, objVars, tickVars, expVars, callVars
<1>0. TypeOK /\ Own /\ Control /\ Serves /\ StopExact
  BY DEF WheelInv, MutexInv
<1>1. ASSUME NEW c \in Call, LoadTicks(c) PROVE StopExact'
  BY <1>0, <1>1 DEF LoadTicks, TypeOK, StopExact
<1>2. ASSUME NEW c \in Call, ScheduleRefused(c) PROVE StopExact'
  BY <1>0, <1>2, TakeFacts DEF ScheduleRefused, Take, Recycle, Rest, TypeOK, StopExact
<1>3. ASSUME NEW c \in Call, ScheduleInline(c) PROVE StopExact'
  BY <1>0, <1>3, TakeFacts DEF ScheduleInline, Take, Fill, Recycle, Rest, TypeOK, StopExact
<1>4. ASSUME NEW c \in Call, ScheduleInsert(c) PROVE StopExact'
  BY <1>0, <1>4, TakeFacts DEF ScheduleInsert, Insert, Take, Fill, Rest, TypeOK, StopExact
<1>5. ASSUME NEW c \in Call, RunInline(c) PROVE StopExact'
  BY <1>0, <1>5 DEF RunInline, TypeOK, StopExact
<1>6. ASSUME NEW c \in Call, StopTimeout(c) PROVE StopExact'
  <2>1. arg[handle[c].o] = c
    BY <1>6, StopFacts
  <2>2. outcome' = [outcome EXCEPT ![c] = "stopped"] /\ stopped' = [stopped EXCEPT ![c] = TRUE]
    BY <1>6, <2>1 DEF StopTimeout, Cancel
  <2>3. QED
    BY <1>0, <2>2 DEF TypeOK, StopExact
<1>7. ASSUME NEW k \in Epoch, Tick(k) PROVE StopExact'
  BY <1>0, <1>7 DEF Tick, TypeOK, StopExact
<1>8. ASSUME NEW k \in Epoch, ScanStopped(k) PROVE StopExact'
  <2>1. \A o \in expiredList[k] : outcome[arg[o]] = "pending"
    BY ExpiredFacts
  <2>2. QED
    BY <1>0, <1>8, <2>1 DEF ScanStopped, StopExact
<1>9. ASSUME NEW k \in Epoch, Scan(k) PROVE StopExact'
  BY <1>0, <1>9 DEF Scan, Collect, DueNow, TypeOK, StopExact
<1>10. ASSUME NEW k \in Epoch, Send(k) PROVE StopExact'
  BY <1>0, <1>10 DEF Send, TypeOK, StopExact
<1>11. ASSUME NEW k \in Epoch, SendClosed(k) PROVE StopExact'
  BY <1>0, <1>11 DEF SendClosed, TypeOK, StopExact
<1>12. ASSUME TakeExpired PROVE StopExact'
  BY <1>0, <1>12, ExpiredFacts DEF TakeExpired, Recycle, TypeOK, StopExact
<1>13. ASSUME RunCallback PROVE StopExact'
  BY <1>0, <1>13 DEF RunCallback, TypeOK, Control, StopExact
<1>14. ASSUME Receive PROVE StopExact'
  BY <1>0, <1>14 DEF Receive, TypeOK, StopExact
<1>15. ASSUME ExpiredEnds PROVE StopExact'
  BY <1>0, <1>15 DEF ExpiredEnds, TypeOK, StopExact
<1>16. ASSUME StopWheel PROVE StopExact'
  <2>1. \A b \in Bucket : \A o \in buckets[b] : outcome[arg[o]] = "pending"
    BY BucketFacts
  <2>2. QED
    BY <1>0, <1>16, <2>1 DEF StopWheel, StopExact
<1>17. ASSUME StartWheel PROVE StopExact'
  BY <1>0, <1>17 DEF StartWheel, TypeOK, StopExact
<1>18. QED
  BY <1>1, <1>2, <1>3, <1>4, <1>5, <1>6, <1>7, <1>8, <1>9, <1>10, <1>11, <1>12,
     <1>13, <1>14, <1>15, <1>16, <1>17 DEF Next, CallerStep, TickerStep, ExpiredStep

LEMMA StutterStep ==
  ASSUME WheelInv, UNCHANGED vars
  PROVE  WheelInv'
<1> USE DEF wheelVars, listVars, objVars, tickVars, expVars, callVars, vars
<1>1. TypeOK' /\ Control' /\ StopExact'
  BY DEF WheelInv, TypeOK, Control, StopExact
<1>2. Own'
  BY DEF WheelInv, Own, InBucket, OnFreelist, OnExpiredList, InCallout, NotMade
<1>3. Serves'
  BY DEF WheelInv, Serves, LiveServes, HandleServes, Live
<1>4. Clock' /\ Scanned' /\ MutexInv'
  BY DEF WheelInv, Clock, Scanned, MutexInv, Locks, FreelistLocked
<1>5. QED
  BY <1>1, <1>2, <1>3, <1>4 DEF WheelInv

LEMMA InitInv == Init => WheelInv
<1> SUFFICES ASSUME Init PROVE WheelInv
  OBVIOUS
<1>1. TypeOK
  <2>1. 1 \in Epoch /\ 0 \in 0..MaxTicks /\ 0 \in 0..NumCalls
    BY TimeoutWheelAssumption DEF Epoch
  <2>2. NoHandle \in [o: 0..NumCalls, gen: Nat]
    BY <2>1 DEF NoHandle
  <2>3. QED
    BY <2>1, <2>2 DEF Init, TypeOK, Outcome
<1>2. Control /\ StopExact
  BY DEF Init, Control, StopExact, Epoch
<1>3. Own
  BY DEF Init, Own, InBucket, OnFreelist, OnExpiredList, InCallout, NotMade
<1>4. Serves
  BY DEF Init, Serves, LiveServes, HandleServes, Live
<1>5. Clock /\ MutexInv
  BY DEF Init, Clock, MutexInv, Locks, FreelistLocked
<1>6. Scanned
  <2>1. 0 % NumBuckets \in Bucket
    BY ModRange
  <2>2. QED
    BY <2>1 DEF Init, Scanned
<1>7. QED
  BY <1>1, <1>2, <1>3, <1>4, <1>5, <1>6 DEF WheelInv

-----------------------------------------------------------------------------
(* The theorems.                                                           *)

\* The inductive invariant holds of every behaviour of the wheel: every timeout
\* object is on one list, serves one call, and is never behind the bucket scan.
THEOREM WheelInvariant == Spec => []WheelInv
<1>1. WheelInv /\ [Next]_vars => WheelInv'
  BY TypeStep, ControlStep, OwnStep, ServesStep, ClockStep, ScannedStep, MutexStep,
     StopStep, StutterStep DEF WheelInv
<1>2. QED
  BY <1>1, InitInv, PTL DEF Spec

\* Every variable of the wheel keeps its type, the recycled objects, their
\* generations and the number of starts included.
THEOREM TypeCorrect == Spec => []TypeOK
BY WheelInvariant, PTL DEF WheelInv

\* No timeout is left behind in a bucket that doTick has passed, although Schedule
\* reads the clock before it locks the bucket.
THEOREM NoneOverdue == Spec => []NotOverdue
<1>1. WheelInv => NotOverdue
  <2> SUFFICES ASSUME WheelInv, starts = 1, NEW b \in Bucket, NEW o \in buckets[b],
                      ~(deadline[o] > ticks)
               PROVE  deadline[o] = ticks /\ ticker[1] = "scan" /\ b = ticks % NumBuckets
    BY DEF NotOverdue
  <2>1. wheel = "running" /\ o \in Obj
    BY DEF WheelInv, Control, TypeOK
  <2>2. b = deadline[o] % NumBuckets /\ lastTick[b] < deadline[o]
    BY <2>1 DEF WheelInv, Scanned
  <2>3. deadline[o] \in 0..ticks /\ lastTick[b] \in Nat
    BY <2>1 DEF WheelInv, TypeOK
  <2>4. ~(lastTick[b] >= deadline[o])
    BY <2>2, <2>3
  <2>5. ~(deadline[o] < ticks \/ ticker[1] # "scan")
    BY <2>1, <2>2, <2>3, <2>4 DEF WheelInv, Scanned
  <2>6. QED
    <3>1. ticks \in Nat
      BY TimeoutWheelAssumption DEF WheelInv, TypeOK
    <3>2. deadline[o] = ticks
      BY <2>3, <2>5, <3>1
    <3>3. QED
      BY <2>2, <2>5, <3>2
<1>2. QED
  BY <1>1, WheelInvariant, PTL

\* Timeout.Stop returns true for exactly the calls that are cancelled, however often
\* their objects have been recycled.
THEOREM StopsExactly == Spec => []StopExact
BY WheelInvariant, PTL DEF WheelInv

\* Until the wheel is stopped, getTimeoutLocked hands out an object that carries the
\* lock it is taken under, so that unlocking it never kills the process.
THEOREM FreelistsLocked == Spec => []FreelistLocked
BY WheelInvariant, PTL DEF WheelInv, MutexInv

-----------------------------------------------------------------------------
(* The wheel implements the service.                                       *)

\* A step that moves no call across a visible state is a stutter of the service.
LEMMA ServiceStutter ==
  ASSUME UNCHANGED <<ticks, due>>,
         outcome' = outcome \/ \A d \in Call : outcomeBar'[d] = outcomeBar[d]
  PROVE  UNCHANGED Service!svars
BY DEF Service!svars, outcomeBar

\* A step that gives call c the visible outcome `how'.
LEMMA ServiceGive ==
  ASSUME TypeOK, NEW c \in Call, NEW how,
         outcome' = [outcome EXCEPT ![c] = how],
         how \notin {"sched", "inline", "expiring"}
  PROVE  outcomeBar' = [outcomeBar EXCEPT ![c] = how]
BY DEF outcomeBar, TypeOK

\* Calls that are pending may be dropped together.
LEMMA ServiceDrop ==
  ASSUME TypeOK, NEW D \in SUBSET Call,
         \A d \in D : outcome[d] = "pending",
         outcome' = [d \in Call |-> IF d \in D THEN "dropped" ELSE outcome[d]],
         UNCHANGED <<ticks, due>>
  PROVE  Service!Drop
<1>1. outcomeBar' = [d \in Call |-> IF d \in D THEN "dropped" ELSE outcomeBar[d]]
  BY DEF outcomeBar
<1>2. D \in SUBSET {d \in Call : outcomeBar[d] = "pending"}
  BY DEF outcomeBar
<1>3. QED
  BY <1>1, <1>2 DEF Service!Drop

LEMMA ServiceStep ==
  ASSUME WheelInv, Next
  PROVE  Service!ServiceNext \/ UNCHANGED Service!svars
<1> USE DEF wheelVars, listVars, objVars, tickVars, expVars, callVars
<1> DEFINE Goal == Service!ServiceNext \/ UNCHANGED Service!svars
<1>0. TypeOK /\ Control /\ Clock
  BY DEF WheelInv
<1>1. ASSUME NEW c \in Call, LoadTicks(c) PROVE Goal
  <2>1. outcomeBar' = [outcomeBar EXCEPT ![c] = "pending"]
    BY <1>0, <1>1 DEF LoadTicks, outcomeBar, TypeOK
  <2>2. outcomeBar[c] = "none"
    BY <1>1 DEF LoadTicks, outcomeBar
  <2>3. Service!Request(c)
    BY <1>1, <2>1, <2>2 DEF LoadTicks, Service!Request
  <2>4. QED
    BY <2>3 DEF Service!ServiceNext
<1>2. ASSUME NEW c \in Call, ScheduleRefused(c) PROVE Goal
  <2>1. outcomeBar' = [outcomeBar EXCEPT ![c] = "refused"]
    BY <1>0, <1>2, ServiceGive DEF ScheduleRefused
  <2>2. outcomeBar[c] = "pending" /\ UNCHANGED <<ticks, due>>
    BY <1>2 DEF ScheduleRefused, Take, outcomeBar
  <2>3. Service!Give(c, "refused")
    BY <2>1, <2>2 DEF Service!Give
  <2>4. QED
    BY <2>3 DEF Service!ServiceNext
<1>3. ASSUME NEW c \in Call, ScheduleInline(c) PROVE Goal
  <2>1. \A d \in Call : outcomeBar'[d] = outcomeBar[d]
    BY <1>0, <1>3 DEF ScheduleInline, Take, outcomeBar, TypeOK
  <2>2. UNCHANGED <<ticks, due>>
    BY <1>3 DEF ScheduleInline, Take
  <2>3. QED
    BY <2>1, <2>2, ServiceStutter
<1>4. ASSUME NEW c \in Call, ScheduleInsert(c) PROVE Goal
  <2>1. \A d \in Call : outcomeBar'[d] = outcomeBar[d]
    BY <1>0, <1>4 DEF ScheduleInsert, Insert, Take, outcomeBar, TypeOK
  <2>2. UNCHANGED <<ticks, due>>
    BY <1>4 DEF ScheduleInsert, Insert, Take
  <2>3. QED
    BY <2>1, <2>2, ServiceStutter
<1>5. ASSUME NEW c \in Call, RunInline(c) PROVE Goal
  <2>1. outcomeBar' = [outcomeBar EXCEPT ![c] = "fired"]
    BY <1>0, <1>5, ServiceGive DEF RunInline
  <2>2. /\ outcomeBar[c] = "pending"
        /\ due[c] <= ticks
        /\ UNCHANGED <<ticks, due>>
    BY <1>0, <1>5 DEF RunInline, outcomeBar, Clock
  <2>3. due[c] \in Nat /\ ticks \in Nat
    BY <1>0, TimeoutWheelAssumption DEF TypeOK
  <2>4. Service!Fire(c)
    BY <2>1, <2>2, <2>3 DEF Service!Fire
  <2>5. QED
    BY <2>4 DEF Service!ServiceNext
<1>6. ASSUME NEW c \in Call, StopTimeout(c) PROVE Goal
  <2>1. arg[handle[c].o] = c /\ outcome[c] = "pending"
    BY <1>6, StopFacts
  <2>2. outcome' = [outcome EXCEPT ![c] = "stopped"] /\ UNCHANGED <<ticks, due>>
    BY <1>6, <2>1 DEF StopTimeout, Cancel
  <2>3. outcomeBar' = [outcomeBar EXCEPT ![c] = "stopped"] /\ outcomeBar[c] = "pending"
    BY <1>0, <2>1, <2>2, ServiceGive DEF outcomeBar
  <2>4. Service!Give(c, "stopped")
    BY <2>2, <2>3 DEF Service!Give
  <2>5. QED
    BY <2>4 DEF Service!ServiceNext
<1>7. ASSUME NEW k \in Epoch, Tick(k) PROVE Goal
  <2>1. outcomeBar' = outcomeBar /\ due' = due
    BY <1>7 DEF Tick, outcomeBar
  <2>2. ticks' = ticks + 1 \/ ticks' = ticks
    BY <1>7 DEF Tick
  <2>3. QED
    BY <2>1, <2>2 DEF Service!ServiceNext, Service!Advance, Service!svars
<1>8. ASSUME NEW k \in Epoch, ScanStopped(k) PROVE Goal
  <2> DEFINE D == {d \in Call : \E o \in expiredList[k] : arg[o] = d}
  <2>1. \A d \in D : outcome[d] = "pending"
    BY ExpiredFacts
  <2>2. outcome' = [d \in Call |-> IF d \in D THEN "dropped" ELSE outcome[d]]
    BY <1>8 DEF ScanStopped
  <2>3. UNCHANGED <<ticks, due>>
    BY <1>8 DEF ScanStopped
  <2>4. Service!Drop
    <3> HIDE DEF D
    <3>1. D \in SUBSET Call
      BY DEF D
    <3>2. QED
      BY <1>0, <2>1, <2>2, <2>3, <3>1, ServiceDrop
  <2>5. QED
    BY <2>4 DEF Service!ServiceNext
<1>9. ASSUME NEW k \in Epoch, Scan(k) PROVE Goal
  BY <1>9, ServiceStutter DEF Scan, Collect
<1>10. ASSUME NEW k \in Epoch, Send(k) PROVE Goal
  BY <1>10, ServiceStutter DEF Send
<1>11. ASSUME NEW k \in Epoch, SendClosed(k) PROVE Goal
  BY <1>11, ServiceStutter DEF SendClosed
<1>12. ASSUME TakeExpired PROVE Goal
  <2>1. PICK o \in callout : outcome' = [outcome EXCEPT ![arg[o]] = "expiring"]
    BY <1>12 DEF TakeExpired
  <2>2. arg[o] \in Call /\ outcome[arg[o]] = "pending"
    BY ExpiredFacts
  <2>3. \A d \in Call : outcomeBar'[d] = outcomeBar[d]
    BY <1>0, <2>1, <2>2 DEF outcomeBar, TypeOK
  <2>4. UNCHANGED <<ticks, due>>
    BY <1>12 DEF TakeExpired
  <2>5. QED
    BY <2>3, <2>4, ServiceStutter
<1>13. ASSUME RunCallback PROVE Goal
  <2>1. cb \in Call /\ outcome[cb] = "expiring"
    BY <1>0, <1>13 DEF RunCallback, Control
  <2>2. outcome' = [outcome EXCEPT ![cb] = "fired"] /\ UNCHANGED <<ticks, due>>
    BY <1>13 DEF RunCallback
  <2>3. outcomeBar' = [outcomeBar EXCEPT ![cb] = "fired"] /\ outcomeBar[cb] = "pending"
    BY <1>0, <2>1, <2>2, ServiceGive DEF outcomeBar
  <2>4. due[cb] <= ticks /\ due[cb] \in Nat /\ ticks \in Nat
    BY <1>0, <2>1, TimeoutWheelAssumption DEF Clock, TypeOK
  <2>5. Service!Fire(cb)
    BY <2>2, <2>3, <2>4 DEF Service!Fire
  <2>6. QED
    BY <2>1, <2>5 DEF Service!ServiceNext
<1>14. ASSUME Receive PROVE Goal
  BY <1>14, ServiceStutter DEF Receive
<1>15. ASSUME ExpiredEnds PROVE Goal
  BY <1>15, ServiceStutter DEF ExpiredEnds
<1>16. ASSUME StopWheel PROVE Goal
  <2> DEFINE freed == UNION {buckets[b] : b \in Bucket}
             D == {d \in Call : \E o \in freed : arg[o] = d}
  <2>1. \A d \in D : outcome[d] = "pending"
    BY BucketFacts
  <2>2. outcome' = [d \in Call |-> IF d \in D THEN "dropped" ELSE outcome[d]]
    BY <1>16 DEF StopWheel
  <2>3. UNCHANGED <<ticks, due>>
    BY <1>16 DEF StopWheel
  <2>4. Service!Drop
    <3> HIDE DEF D
    <3>1. D \in SUBSET Call
      BY DEF D
    <3>2. QED
      BY <1>0, <2>1, <2>2, <2>3, <3>1, ServiceDrop
  <2>5. QED
    BY <2>4 DEF Service!ServiceNext
<1>17. ASSUME StartWheel PROVE Goal
  BY <1>17, ServiceStutter DEF StartWheel
<1>18. QED
  BY <1>1, <1>2, <1>3, <1>4, <1>5, <1>6, <1>7, <1>8, <1>9, <1>10, <1>11, <1>12,
     <1>13, <1>14, <1>15, <1>16, <1>17 DEF Next, CallerStep, TickerStep, ExpiredStep

\* The wheel implements TimeoutService: a callback runs at most once, not before its
\* deadline, and never after Timeout.Stop has returned true for its call.
THEOREM WheelImplementsService == Spec => ServiceSpec
<1>1. Init => Service!ServiceInit
  BY DEF Init, Service!ServiceInit, outcomeBar
<1>2. WheelInv /\ [Next]_vars => [Service!ServiceNext]_Service!svars
  <2>1. UNCHANGED vars => UNCHANGED Service!svars
    BY DEF vars, callVars, Service!svars, outcomeBar
  <2>2. QED
    BY <2>1, ServiceStep
<1>3. QED
  BY <1>1, <1>2, WheelInvariant, PTL DEF Spec, ServiceSpec, Service!ServiceSpec
=============================================================================
