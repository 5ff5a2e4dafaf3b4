----------------------------- MODULE TimeoutWheel -----------------------------
(***************************************************************************)
(* The hashed timeout wheel of goetty/timewheel.go, on which the proxy     *)
(* runs its health checks, circuit-breaker recovery, caches and analysis.  *)
(*                                                                         *)
(* Actors: goroutines that call Schedule (it reads the clock, then takes   *)
(* the bucket's lock) and Timeout.Stop; the ticker goroutine doTick, which *)
(* advances the clock, then locks and scans a bucket and offers what has   *)
(* expired to doExpired without blocking; doExpired, which recycles a      *)
(* timeout object and runs its callback; and whoever stops and restarts    *)
(* the wheel.  A critical section of a mutex of the pool is one step.      *)
(*                                                                         *)
(* A timeout object is recycled through a freelist and is told from its    *)
(* earlier uses by its generation.  The intrusive lists are sets: no       *)
(* property depends on their order.  A call of Schedule is named by its    *)
(* number, which stands for the callback and its argument.                 *)
(***************************************************************************)
EXTENDS Integers, FiniteSets

CONSTANTS
    NumCalls,        \* bound: calls of Schedule (and so timeout objects)
    NumBuckets,      \* size of the hash table
    NumLocks,        \* size of the lock pool and of the freelists
    Duration,        \* the durations asked for, in ticks, rounded up
    MaxTicks,        \* bound: the clock saturates here
    MaxStarts        \* bound: starts of the wheel

ASSUME TimeoutWheelAssumption ==
    /\ NumCalls \in Nat
    /\ NumBuckets \in Nat \ {0}
    /\ NumLocks \in Nat \ {0}
    /\ Duration \subseteq Nat
    /\ MaxTicks \in Nat
    /\ MaxStarts \in Nat \ {0}

Call == 1..NumCalls
Obj == 1..NumCalls
Bucket == 0..(NumBuckets - 1)
Lock == 0..(NumLocks - 1)
Epoch == 1..MaxStarts

NoMtx == -1
NoHandle == [o |-> 0, gen |-> 0]

VARIABLES
    ticks, wheel, starts,             \* the clock; the wheel's state; calls of Start
    lastTick, buckets, freelists,
    mtx, deadline, generation, state, \* fields of a timeout object
    arg,                              \* the call an object serves
    ticker, expiredList,              \* the doTick goroutine of each Start
    expired, callout, cb,             \* doExpired: control, list, callback to run
    outcome, due, handle, stopped,    \* of every call of Schedule
    crashed                           \* the process died

wheelVars == <<wheel, starts>>
objVars == <<mtx, deadline, generation, state, arg>>
listVars == <<lastTick, buckets, freelists>>
tickVars == <<ticker, expiredList>>
expVars == <<expired, callout, cb>>
callVars == <<outcome, due, handle, stopped>>
vars == <<ticks, wheelVars, listVars, objVars, tickVars, expVars, callVars, crashed>>

Outcome == {"none", "sched", "pending", "inline", "expiring",
            "fired", "stopped", "refused", "dropped"}

TypeOK ==
    /\ ticks \in 0..MaxTicks
    /\ wheel \in {"running", "stopping", "stopped"}
    /\ starts \in Epoch
    /\ lastTick \in [Bucket -> 0..MaxTicks]
    /\ buckets \in [Bucket -> SUBSET Obj]
    /\ freelists \in [Lock -> SUBSET Obj]
    /\ mtx \in [Obj -> Lock \cup {NoMtx}]
    /\ deadline \in [Obj -> Nat]
    /\ generation \in [Obj -> Nat]
    /\ state \in [Obj -> {"inactive", "expired", "active"}]
    /\ arg \in [Obj -> 0..NumCalls]
    /\ ticker \in [Epoch -> {"none", "wait", "scan", "send", "done"}]
    /\ expiredList \in [Epoch -> SUBSET Obj]
    /\ expired \in {"recv", "busy", "run", "end"}
    /\ callout \in SUBSET Obj
    /\ cb \in 0..NumCalls
    /\ outcome \in [Call -> Outcome]
    /\ due \in [Call -> Nat]
    /\ handle \in [Call -> [o: 0..NumCalls, gen: Nat]]
    /\ stopped \in [Call -> BOOLEAN]
    /\ crashed \in BOOLEAN

\* NewTimeoutWheel, which ends in Start.
Init ==
    /\ ticks = 0
    /\ wheel = "running"
    /\ starts = 1
    /\ lastTick = [b \in Bucket |-> 0]
    /\ buckets = [b \in Bucket |-> {}]
    /\ freelists = [i \in Lock |-> {}]
    /\ mtx = [o \in Obj |-> NoMtx]
    /\ deadline = [o \in Obj |-> 0]
    /\ generation = [o \in Obj |-> 0]
    /\ state = [o \in Obj |-> "inactive"]
    /\ arg = [o \in Obj |-> 0]
    /\ ticker = [k \in Epoch |-> IF k = 1 THEN "wait" ELSE "none"]
    /\ expiredList = [k \in Epoch |-> {}]
    /\ expired = "recv"
    /\ callout = {}
    /\ cb = 0
    /\ outcome = [c \in Call |-> "none"]
    /\ due = [c \in Call |-> 0]
    /\ handle = [c \in Call |-> NoHandle]
    /\ stopped = [c \in Call |-> FALSE]
    /\ crashed = FALSE

-----------------------------------------------------------------------------
(* Schedule.                                                               *)

\* Reads the clock before any lock is taken.
LoadTicks(c) ==
    /\ ~crashed
    /\ outcome[c] = "none"
    /\ \E d \in Duration :
         /\ ticks + d <= MaxTicks
         /\ due' = [due EXCEPT ![c] = ticks + d]
    /\ outcome' = [outcome EXCEPT ![c] = "sched"]
    /\ UNCHANGED <<ticks, wheelVars, listVars, objVars, tickVars, expVars, handle, stopped, crashed>>

\* getTimeoutLocked: the freelist of the deadline's lock, or a new object.
Available(i) ==
    IF freelists[i] # {} THEN freelists[i]
    ELSE {o \in Obj : mtx[o] = NoMtx /\ \A p \in Obj : mtx[p] = NoMtx => o <= p}

\* Mutant of Recycle: the freelist of the current tick.
RecycleAtTicks(o, lists, dl) ==
    /\ freelists' = [lists EXCEPT ![ticks % NumLocks] = @ \cup {o}]
    /\ state' = [state EXCEPT ![o] = "inactive"]
    /\ generation' = [generation EXCEPT ![o] = @ + 1]

\* putTimeoutLocked: the freelist is chosen by the deadline the object holds.
Recycle(o, lists, dl) ==
    /\ freelists' = [lists EXCEPT ![dl % NumLocks] = @ \cup {o}]
    /\ state' = [state EXCEPT ![o] = "inactive"]
    /\ generation' = [generation EXCEPT ![o] = @ + 1]

\* Takes an object with the lock of the deadline held.  Unlocking releases the
\* object's own mutex: when that is another one the process dies.
Take(c, o) ==
    LET i == due[c] % NumLocks IN
    /\ ~crashed
    /\ outcome[c] = "sched"
    /\ o \in Available(i)
    /\ mtx' = [mtx EXCEPT ![o] = IF @ = NoMtx THEN i ELSE @]
    /\ crashed' = (mtx'[o] # i)
    /\ UNCHANGED <<ticks, wheelVars, tickVars, expVars, due, stopped>>

Rest(c, o) ==
    LET i == due[c] % NumLocks IN [freelists EXCEPT ![i] = @ \ {o}]

\* The wheel is not running: the object goes back before its deadline is set.
ScheduleRefused(c) ==
    \E o \in Obj :
        /\ Take(c, o)
        /\ wheel # "running"
        /\ Recycle(o, Rest(c, o), deadline[o])
        /\ outcome' = [outcome EXCEPT ![c] = "refused"]
        /\ UNCHANGED <<lastTick, buckets, deadline, arg, handle>>

Fill(c, o) ==
    /\ wheel = "running"
    /\ deadline' = [deadline EXCEPT ![o] = due[c]]
    /\ arg' = [arg EXCEPT ![o] = c]
    /\ handle' = [handle EXCEPT ![c] = [o |-> o, gen |-> generation[o]]]

\* The bucket was scanned at or after the deadline: the caller runs the callback.
ScheduleInline(c) ==
    \E o \in Obj :
        /\ Take(c, o)
        /\ Fill(c, o)
        /\ lastTick[due[c] % NumBuckets] >= due[c]
        /\ Recycle(o, Rest(c, o), due[c])
        /\ outcome' = [outcome EXCEPT ![c] = "inline"]
        /\ UNCHANGED <<lastTick, buckets>>

Insert(c, o) ==
    /\ Take(c, o)
    /\ Fill(c, o)
    /\ state' = [state EXCEPT ![o] = "active"]
    /\ buckets' = [buckets EXCEPT ![due[c] % NumBuckets] = @ \cup {o}]
    /\ freelists' = Rest(c, o)
    /\ outcome' = [outcome EXCEPT ![c] = "pending"]
    /\ UNCHANGED <<lastTick, generation>>

\* Mutant of ScheduleInsert: does not look at the bucket's last tick.
ScheduleInsertUnchecked(c) == \E o \in Obj : Insert(c, o)

\* The bucket has still to be scanned for this deadline.
ScheduleInsert(c) ==
    /\ lastTick[due[c] % NumBuckets] < due[c]
    /\ \E o \in Obj : Insert(c, o)

\* expireCb(arg) in the goroutine of the caller.
RunInline(c) ==
    /\ ~crashed
    /\ outcome[c] = "inline"
    /\ outcome' = [outcome EXCEPT ![c] = "fired"]
    /\ UNCHANGED <<ticks, wheelVars, listVars, objVars, tickVars, expVars,
                   due, handle, stopped, crashed>>

\* Removes the active object of the handle that call c returned.
Cancel(c) ==
    LET o == handle[c].o IN
    /\ ~crashed
    /\ handle[c] # NoHandle
    /\ outcome[c] # "inline"
    /\ state[o] = "active"
    /\ buckets' = [b \in Bucket |-> buckets[b] \ {o}]
    /\ Recycle(o, freelists, deadline[o])
    /\ outcome' = [outcome EXCEPT ![arg[o]] = "stopped"]
    /\ stopped' = [stopped EXCEPT ![c] = TRUE]
    /\ UNCHANGED <<ticks, wheelVars, lastTick, mtx, deadline, arg, tickVars, expVars,
                   due, handle, crashed>>

\* Mutant of StopTimeout: does not compare the generations.
StopTimeoutAnyGeneration(c) == Cancel(c)

\* Timeout.Stop: a handle of an earlier generation returns false and changes nothing.
StopTimeout(c) ==
    /\ handle[c] # NoHandle
    /\ generation[handle[c].o] = handle[c].gen
    /\ Cancel(c)

-----------------------------------------------------------------------------
(* doTick.                                                                 *)

Tick(k) ==
    /\ ~crashed
    /\ ticker[k] = "wait"
    /\ ticks' = IF ticks < MaxTicks THEN ticks + 1 ELSE ticks
    /\ ticker' = [ticker EXCEPT ![k] = "scan"]
    /\ UNCHANGED <<wheelVars, listVars, objVars, expiredList, expVars, callVars, crashed>>

\* The loop ends and what the list still holds is lost.
ScanStopped(k) ==
    /\ ~crashed
    /\ ticker[k] = "scan"
    /\ wheel # "running"
    /\ ticker' = [ticker EXCEPT ![k] = "done"]
    /\ outcome' = [c \in Call |->
         IF \E o \in expiredList[k] : arg[o] = c THEN "dropped" ELSE outcome[c]]
    /\ expiredList' = [expiredList EXCEPT ![k] = {}]
    /\ UNCHANGED <<ticks, wheelVars, listVars, objVars, expVars, due, handle, stopped, crashed>>

\* The current bucket, locked, was last scanned at tick last; exp of it expires.
Collect(k, exp, last) ==
    LET b == ticks % NumBuckets IN
    /\ ~crashed
    /\ ticker[k] = "scan"
    /\ wheel = "running"
    /\ lastTick' = [lastTick EXCEPT ![b] = last]
    /\ buckets' = [buckets EXCEPT ![b] = @ \ exp]
    /\ state' = [o \in Obj |-> IF o \in exp THEN "expired" ELSE state[o]]
    /\ expiredList' = [expiredList EXCEPT ![k] = @ \cup exp]
    /\ ticker' = [ticker EXCEPT ![k] = IF expiredList'[k] = {} THEN "wait" ELSE "send"]
    /\ UNCHANGED <<ticks, wheelVars, freelists, mtx, deadline, generation, arg, expVars,
                   callVars, crashed>>

DueNow == {o \in buckets[ticks % NumBuckets] : deadline[o] <= ticks}

\* Mutant of Scan: the rounds of a timeout are not compared.
ScanAll(k) == Collect(k, buckets[ticks % NumBuckets], ticks)

\* Mutant of Scan: records the next tick as scanned.
ScanAhead(k) == Collect(k, DueNow, ticks + 1)

\* Marks and collects the timeouts of the current bucket that are due.
Scan(k) == Collect(k, DueNow, ticks)

\* Mutant of Send: the list is cleared although nobody received it.
SendDrops(k) ==
    /\ ~crashed
    /\ ticker[k] = "send"
    /\ wheel = "running"
    /\ ticker' = [ticker EXCEPT ![k] = "wait"]
    /\ IF expired = "recv"
       THEN /\ callout' = expiredList[k]
            /\ expired' = "busy"
       ELSE UNCHANGED <<callout, expired>>
    /\ expiredList' = [expiredList EXCEPT ![k] = {}]
    /\ UNCHANGED <<ticks, wheelVars, listVars, objVars, cb, callVars, crashed>>

\* The select with a default: hands the list over only when doExpired is waiting.
Send(k) ==
    /\ ~crashed
    /\ ticker[k] = "send"
    /\ wheel = "running"
    /\ ticker' = [ticker EXCEPT ![k] = "wait"]
    /\ IF expired = "recv"
       THEN /\ callout' = expiredList[k]
            /\ expired' = "busy"
            /\ expiredList' = [expiredList EXCEPT ![k] = {}]
       ELSE UNCHANGED <<callout, expired, expiredList>>
    /\ UNCHANGED <<ticks, wheelVars, listVars, objVars, cb, callVars, crashed>>

\* A send on the channel that Stop has closed panics.
SendClosed(k) ==
    /\ ~crashed
    /\ ticker[k] = "send"
    /\ wheel # "running"
    /\ crashed' = TRUE
    /\ UNCHANGED <<ticks, wheelVars, listVars, objVars, tickVars, expVars, callVars>>

-----------------------------------------------------------------------------
(* doExpired.                                                              *)

\* Recycles the next object of the list, keeping its callback.
TakeExpired ==
    /\ ~crashed
    /\ expired = "busy"
    /\ \E o \in callout :
         /\ callout' = callout \ {o}
         /\ cb' = arg[o]
         /\ outcome' = [outcome EXCEPT ![arg[o]] = "expiring"]
         /\ Recycle(o, freelists, deadline[o])
    /\ expired' = "run"
    /\ UNCHANGED <<ticks, wheelVars, lastTick, buckets, mtx, deadline, arg, tickVars,
                   due, handle, stopped, crashed>>

RunCallback ==
    /\ ~crashed
    /\ expired = "run"
    /\ outcome' = [outcome EXCEPT ![cb] = "fired"]
    /\ cb' = 0
    /\ expired' = "busy"
    /\ UNCHANGED <<ticks, wheelVars, listVars, objVars, tickVars, callout,
                   due, handle, stopped, crashed>>

\* The list is done: receive the next one.
Receive ==
    /\ ~crashed
    /\ expired = "busy"
    /\ callout = {}
    /\ expired' = "recv"
    /\ UNCHANGED <<ticks, wheelVars, listVars, objVars, tickVars, callout, cb, callVars, crashed>>

\* The channel is closed: the wheel is stopped and its stoppers are released.
ExpiredEnds ==
    /\ ~crashed
    /\ expired = "recv"
    /\ wheel = "stopping"
    /\ wheel' = "stopped"
    /\ expired' = "end"
    /\ UNCHANGED <<ticks, starts, listVars, objVars, tickVars, callout, cb, callVars, crashed>>

-----------------------------------------------------------------------------
(* Stop and Start of the wheel.                                            *)

\* Under all locks: closes the channel and frees every bucket.
StopWheel ==
    LET freed == UNION {buckets[b] : b \in Bucket} IN
    /\ ~crashed
    /\ starts < MaxStarts
    /\ wheel = "running"
    /\ wheel' = "stopping"
    /\ buckets' = [b \in Bucket |-> {}]
    /\ freelists' = [i \in Lock |-> freelists[i] \cup {o \in freed : deadline[o] % NumLocks = i}]
    /\ state' = [o \in Obj |-> IF o \in freed THEN "inactive" ELSE state[o]]
    /\ generation' = [o \in Obj |-> generation[o] + (IF o \in freed THEN 1 ELSE 0)]
    /\ outcome' = [c \in Call |-> IF \E o \in freed : arg[o] = c THEN "dropped" ELSE outcome[c]]
    /\ UNCHANGED <<ticks, starts, lastTick, mtx, deadline, arg, tickVars, expVars,
                   due, handle, stopped, crashed>>

StartWheel ==
    /\ ~crashed
    /\ wheel = "stopped"
    /\ wheel' = "running"
    /\ starts' = starts + 1
    /\ ticker' = [ticker EXCEPT ![starts + 1] = "wait"]
    /\ expired' = "recv"
    /\ UNCHANGED <<ticks, listVars, objVars, expiredList, callout, cb, callVars, crashed>>

-----------------------------------------------------------------------------
CallerStep(c) == ScheduleRefused(c) \/ ScheduleInline(c) \/ ScheduleInsert(c) \/ RunInline(c)

TickerStep(k) == Tick(k) \/ ScanStopped(k) \/ Scan(k) \/ Send(k) \/ SendClosed(k)

ExpiredStep == TakeExpired \/ RunCallback \/ Receive \/ ExpiredEnds

Next ==
    \/ \E c \in Call : LoadTicks(c) \/ CallerStep(c) \/ StopTimeout(c)
    \/ \E k \in Epoch : TickerStep(k)
    \/ ExpiredStep
    \/ StopWheel
    \/ StartWheel

Spec == Init /\ [][Next]_vars

\* The runtime's ticker keeps ticking and every goroutine keeps running; callbacks
\* return.  Nobody need call Stop.
Fairness ==
    /\ \A c \in Call : WF_vars(CallerStep(c))
    /\ \A k \in Epoch : WF_vars(TickerStep(k))
    /\ WF_vars(ExpiredStep)

FairSpec == Spec /\ Fairness
-----------------------------------------------------------------------------
(* Properties.                                                             *)

\* No timeout is left behind in a bucket the wheel has passed, although Schedule
\* computes its deadline before it locks the bucket: what a bucket holds is due
\* later, or at this tick with the ticker about to scan that very bucket.
NotOverdue ==
    starts = 1 =>
        \A b \in Bucket : \A o \in buckets[b] :
            \/ deadline[o] > ticks
            \/ deadline[o] = ticks /\ ticker[1] = "scan" /\ b = ticks % NumBuckets

\* Stop cancels its own call and no other, whatever the object was recycled for:
\* it returns true exactly for the calls that are cancelled.
StopExact == \A c \in Call : stopped[c] <=> outcome[c] = "stopped"

\* Until the wheel is stopped, an object on a freelist carries the lock of that
\* freelist, so that whoever takes it unlocks what it has locked and the process
\* never dies of it.  (On a stopped wheel Schedule recycles a new object before it
\* has a deadline.)
FreelistLocked ==
    starts = 1 /\ wheel = "running" =>
        /\ ~crashed
        /\ \A i \in Lock : \A o \in freelists[i] : mtx[o] = i

\* Every scheduled callback runs, unless it is stopped, refused or dropped, although
\* the ticker never waits for doExpired.  (A restarted wheel may have two tickers,
\* which skip buckets.)
Served ==
    \A c \in Call :
        outcome[c] \in {"sched", "pending", "inline", "expiring"} ~>
            \/ outcome[c] \in {"fired", "stopped", "refused", "dropped"}
            \/ crashed
            \/ starts > 1

\* The service the proxy relies on (module TimeoutService): a callback runs at most
\* once, not before its deadline, and not after it was stopped.
outcomeBar ==
    [c \in Call |-> IF outcome[c] \in {"sched", "inline", "expiring"} THEN "pending"
                    ELSE outcome[c]]
Service == INSTANCE TimeoutService WITH now <- ticks, outcome <- outcomeBar
ServiceSpec == Service!ServiceSpec
=============================================================================
