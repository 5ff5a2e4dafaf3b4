------------------------------- MODULE RateLimit -------------------------------
(***************************************************************************)
(* Rate limiting: the token buckets of utils/ratelimit and the limiters    *)
(* the proxy builds on them (proxy/rate_limit.go).                         *)
(*                                                                         *)
(* A bucket does no work between calls: each call first credits it with    *)
(* the ticks that have passed.  Taking more than there is makes the        *)
(* balance negative and the caller sleeps until the tick that pays for its *)
(* tokens.  Requests hold the limiter they looked up while the event loop  *)
(* replaces it: a change of the server, or of the number of proxies that   *)
(* share its MaxQPS, wipes the runtime in place and gives it a new, full   *)
(* bucket.                                                                 *)
(*                                                                         *)
(* Time is discrete; Second is a second of it.  A method that locks the    *)
(* bucket is one step, except that Available reads the clock before it     *)
(* locks.  Tokens of a bucket are numbered from 1 in the order taken.      *)
(***************************************************************************)
EXTENDS Integers

CONSTANTS
    Request,         \* goroutines that call a limiter
    MaxQPS,          \* of the server
    Second,          \* time units in time.Second
    Quantum,         \* tokens per tick (newRateLimiter takes the default of 1)
    Count,           \* tokens asked for at a time (the filter asks for 1)
    MaxWait,         \* longest waits accepted by callers of WaitMaxDuration
    MaxProxies,      \* bound: proxies that share MaxQPS
    MaxLimiters,     \* bound: limiters built
    MaxCalls,        \* bound: calls of a limiter
    MaxNow           \* bound: end of time

ASSUME RateLimitAssumption ==
    /\ MaxQPS \in Nat
    /\ Second \in Nat \ {0}
    /\ MaxQPS <= Second       \* else the fill interval is 0 and NewBucket panics
    /\ Quantum \in Nat \ {0}
    /\ Count \subseteq Nat \ {0}
    /\ MaxWait \subseteq Nat
    /\ MaxProxies \in Nat
    /\ MaxLimiters \in Nat \ {0}
    /\ MaxCalls \in Nat
    /\ MaxNow \in Nat

Limiter == 1..MaxLimiters
Infinity == MaxNow + 1        \* infinityDuration: longer than any wait
Option == {"Wait", "Reject"}
NoBucket == [startTime |-> 0, capacity |-> 1, quantum |-> 1, fillInterval |-> 1,
             availableTokens |-> 0, latestTick |-> 0]
Idle == [pc |-> "idle", lim |-> 0, at |-> 0, last |-> 0]

VARIABLES
    now,
    proxies,         \* len(r.proxies)
    limiters,        \* the bucket of each limiter
    option,          \* l.option
    built, current,  \* limiters built; that of the runtime (0 during the wipe)
    req, calls,      \* the goroutines; the limiters looked up so far
    taken, ready,    \* of a bucket: tokens taken, and the tick that pays for them
    handed,          \* of a bucket: highest token whose caller has proceeded
    level,           \* of a bucket: its balance had every tick been credited at once
    crashed          \* a request met the wiped runtime

bucketVars == <<limiters, option, built, current>>
ghostVars == <<taken, ready, handed, level>>
vars == <<now, proxies, bucketVars, req, calls, ghostVars, crashed>>

Bucket == [startTime: Nat, capacity: Nat \ {0}, quantum: Nat \ {0}, fillInterval: Nat \ {0},
           availableTokens: Int, latestTick: Nat]

TypeOK ==
    /\ now \in 0..MaxNow
    /\ proxies \in 0..MaxProxies
    /\ limiters \in [Limiter -> Bucket]
    /\ option \in [Limiter -> Option]
    /\ built \in Limiter
    /\ current \in 0..built
    /\ req \in [Request -> [pc: {"idle", "held", "asleep", "clock"},
                            lim: 0..MaxLimiters, at: Nat, last: Nat]]
    /\ calls \in 0..MaxCalls
    /\ taken \in [Limiter -> Nat]
    /\ ready \in [Limiter -> Nat]
    /\ handed \in [Limiter -> Nat]
    /\ level \in [Limiter -> Int]
    /\ crashed \in BOOLEAN

-----------------------------------------------------------------------------
(* The token bucket.                                                       *)

Least(a, b) == IF a <= b THEN a ELSE b
Most(a, b) == IF a >= b THEN a ELSE b

NewBucketWithQuantum(fill, capacity, quantum) ==
    [startTime |-> now, capacity |-> capacity, quantum |-> quantum, fillInterval |-> fill,
     availableTokens |-> capacity, latestTick |-> 0]

currentTick(tb, time) == (time - tb.startTime) \div tb.fillInterval

\* Mutant of adjustavailableTokens: the tick is not recorded while the bucket is full.
AdjustFullKeepsTick(tb, tick) ==
    IF tb.availableTokens >= tb.capacity THEN tb
    ELSE [tb EXCEPT !.latestTick = tick,
                    !.availableTokens = Least(tb.capacity, @ + (tick - tb.latestTick) * tb.quantum)]

\* Credits the ticks since latestTick, up to the capacity.
adjustavailableTokens(tb, tick) ==
    [tb EXCEPT !.latestTick = tick,
               !.availableTokens =
                   IF @ >= tb.capacity THEN @
                   ELSE Least(tb.capacity, @ + (tick - tb.latestTick) * tb.quantum)]

\* Mutant of endTick: the missing tokens are rounded down to a multiple of quantum.
EndTickDown(tb, avail) == tb.latestTick + (-avail) \div tb.quantum

\* Mutant of endTick: the sign of the missing tokens is lost.
EndTickSign(tb, avail) == tb.latestTick + (avail + tb.quantum - 1) \div tb.quantum

\* The tick at which a balance of avail < 0 is paid: rounded up.
endTick(tb, avail) == tb.latestTick + (-avail + tb.quantum - 1) \div tb.quantum

\* take: what becomes of the bucket, the tick that pays, the end of the wait, success.
take(tb0, time, count, maxWait) ==
    LET tb == adjustavailableTokens(tb0, currentTick(tb0, time))
        avail == tb.availableTokens - count
        end == endTick(tb, avail)
        endTime == tb.startTime + end * tb.fillInterval
    IN IF avail >= 0
       THEN [tb |-> [tb EXCEPT !.availableTokens = avail],
             tick |-> tb.latestTick, until |-> time, ok |-> TRUE]
       ELSE IF endTime - time > maxWait
       THEN [tb |-> tb, tick |-> 0, until |-> time, ok |-> FALSE]
       ELSE [tb |-> [tb EXCEPT !.availableTokens = avail],
             tick |-> end, until |-> endTime, ok |-> TRUE]

\* Mutant of takeAvailable: removes the tokens although they are promised.
TakePromised(tb0, time, count) ==
    LET tb == adjustavailableTokens(tb0, currentTick(tb0, time))
    IN [tb |-> [tb EXCEPT !.availableTokens = @ - count], n |-> count]

\* takeAvailable: what becomes of the bucket and the tokens removed.
takeAvailable(tb0, time, count) ==
    LET tb == adjustavailableTokens(tb0, currentTick(tb0, time))
        n == IF tb.availableTokens <= 0 THEN 0 ELSE Least(count, tb.availableTokens)
    IN [tb |-> [tb EXCEPT !.availableTokens = @ - n], n |-> n]

-----------------------------------------------------------------------------
(* The limiter of a server runtime.                                        *)

\* The share of this proxy in MaxQPS, at least 1.
refreshQPS(n) ==
    LET share == IF n > 0 THEN MaxQPS \div n ELSE MaxQPS
    IN IF share <= 0 THEN 1 ELSE share

newRateLimiter(qps) == NewBucketWithQuantum(Second \div qps, qps, Quantum)

Init ==
    /\ now = 0
    /\ proxies \in 0..MaxProxies
    /\ built = 1
    /\ current = 1
    /\ limiters = [l \in Limiter |->
                     IF l = 1 THEN newRateLimiter(refreshQPS(proxies)) ELSE NoBucket]
    /\ level = [l \in Limiter |-> IF l = 1 THEN refreshQPS(proxies) ELSE 0]
    /\ \E o \in Option : option = [l \in Limiter |-> o]
    /\ req = [r \in Request |-> Idle]
    /\ calls = 0
    /\ taken = [l \in Limiter |-> 0]
    /\ ready = [l \in Limiter |-> 0]
    /\ handed = [l \in Limiter |-> 0]
    /\ crashed = FALSE

\* updateMeta, in place, first zeroes the runtime; or a runtime is cloned, with no
\* moment without a limiter.
Wipe ==
    /\ built < MaxLimiters
    /\ current # 0
    /\ current' = 0
    /\ UNCHANGED <<now, proxies, limiters, option, built, req, calls, ghostVars, crashed>>

\* A proxy joined or left, or the server changed: a new and full bucket.
Install ==
    /\ built < MaxLimiters
    /\ built' = built + 1
    /\ current' = built + 1
    /\ \E n \in {proxies - 1, proxies, proxies + 1} \cap 0..MaxProxies, o \in Option :
         /\ proxies' = n
         /\ limiters' = [limiters EXCEPT ![built + 1] = newRateLimiter(refreshQPS(n))]
         /\ option' = [option EXCEPT ![built + 1] = o]
         /\ level' = [level EXCEPT ![built + 1] = refreshQPS(n)]
    /\ UNCHANGED <<now, req, calls, taken, ready, handed, crashed>>

-----------------------------------------------------------------------------
(* Requests.                                                               *)

\* proxyContext.rateLimiter reads the pointer; a nil limiter is dereferenced.
Lookup(r) ==
    /\ ~crashed
    /\ req[r].pc = "idle"
    /\ calls < MaxCalls
    /\ calls' = calls + 1
    /\ IF current = 0
       THEN crashed' = TRUE /\ UNCHANGED req
       ELSE /\ req' = [req EXCEPT ![r] = [pc |-> "held", lim |-> current, at |-> 0, last |-> 0]]
            /\ UNCHANGED crashed
    /\ UNCHANGED <<now, proxies, bucketVars, ghostVars>>

\* Request r takes count tokens of its bucket, tick pays, and it proceeds at until.
Grant(r, tb, count, tick, until) ==
    LET l == req[r].lim
        last == taken[l] + count
    IN /\ limiters' = [limiters EXCEPT ![l] = tb]
       /\ taken' = [taken EXCEPT ![l] = last]
       /\ ready' = [ready EXCEPT ![l] = tick]
       /\ level' = [level EXCEPT ![l] = @ - count]
       /\ IF until > now
          THEN /\ req' = [req EXCEPT ![r] =
                            [pc |-> "asleep", lim |-> l, at |-> until, last |-> last]]
               /\ UNCHANGED handed
          ELSE /\ req' = [req EXCEPT ![r] = Idle]
               /\ handed' = [handed EXCEPT ![l] = Most(@, last)]
       /\ UNCHANGED <<now, proxies, option, built, current, calls, crashed>>

Refuse(r, tb) ==
    /\ limiters' = [limiters EXCEPT ![req[r].lim] = tb]
    /\ req' = [req EXCEPT ![r] = Idle]
    /\ UNCHANGED <<now, proxies, option, built, current, calls, ghostVars, crashed>>

Holds(r) == ~crashed /\ req[r].pc = "held"

\* Bucket.Wait, of a limiter that waits.  (Bound: nobody sleeps past the end of time.)
Wait(r, count) ==
    LET res == take(limiters[req[r].lim], now, count, Infinity) IN
    /\ Holds(r)
    /\ option[req[r].lim] = "Wait"
    /\ res.ok /\ res.until <= MaxNow
    /\ Grant(r, res.tb, count, res.tick, res.until)

\* Bucket.WaitMaxDuration.
WaitMaxDuration(r, count, maxWait) ==
    LET res == take(limiters[req[r].lim], now, count, maxWait) IN
    /\ Holds(r)
    /\ res.until <= MaxNow
    /\ IF res.ok THEN Grant(r, res.tb, count, res.tick, res.until) ELSE Refuse(r, res.tb)

\* Bucket.TakeAvailable, of a limiter that rejects.
TakeAvailable(r, count) ==
    LET res == takeAvailable(limiters[req[r].lim], now, count) IN
    /\ Holds(r)
    /\ option[req[r].lim] = "Reject"
    /\ IF res.n > 0 THEN Grant(r, res.tb, res.n, res.tb.latestTick, now)
                    ELSE Refuse(r, res.tb)

\* Bucket.Available: reads the clock ...
AvailableClock(r) ==
    /\ Holds(r)
    /\ req' = [req EXCEPT ![r].pc = "clock", ![r].at = now]
    /\ UNCHANGED <<now, proxies, bucketVars, calls, ghostVars, crashed>>

\* ... and then locks the bucket and credits it up to that time.
Available(r) ==
    LET tb == limiters[req[r].lim] IN
    /\ ~crashed
    /\ req[r].pc = "clock"
    /\ limiters' = [limiters EXCEPT ![req[r].lim] =
                      adjustavailableTokens(tb, currentTick(tb, req[r].at))]
    /\ req' = [req EXCEPT ![r] = Idle]
    /\ UNCHANGED <<now, proxies, option, built, current, calls, ghostVars, crashed>>

\* Sleep returns, at the time asked for or later.
Wake(r) ==
    /\ ~crashed
    /\ req[r].pc = "asleep"
    /\ req[r].at <= now
    /\ req' = [req EXCEPT ![r] = Idle]
    /\ handed' = [handed EXCEPT ![req[r].lim] = Most(@, req[r].last)]
    /\ UNCHANGED <<now, proxies, bucketVars, calls, taken, ready, level, crashed>>

Advance ==
    /\ now < MaxNow
    /\ now' = now + 1
    /\ level' = [l \in Limiter |->
         LET tb == limiters[l] IN
         IF l > built THEN level[l]
         ELSE Least(tb.capacity, level[l] + (currentTick(tb, now') - currentTick(tb, now)) * tb.quantum)]
    /\ UNCHANGED <<proxies, bucketVars, req, calls, taken, ready, handed, crashed>>

RequestStep(r) ==
    \/ \E count \in Count : Wait(r, count) \/ TakeAvailable(r, count)
    \/ Available(r) \/ Wake(r)

Next ==
    \/ \E r \in Request :
         \/ Lookup(r) \/ RequestStep(r) \/ AvailableClock(r)
         \/ \E count \in Count, maxWait \in MaxWait : WaitMaxDuration(r, count, maxWait)
    \/ Wipe \/ Install \/ Advance

Spec == Init /\ [][Next]_vars

-----------------------------------------------------------------------------
(* Properties.                                                             *)

\* Crediting a bucket only when it is called, and by a clock read before the lock
\* (Available), neither loses nor invents a token: the next call finds what a bucket
\* credited at every tick would hold.
LazyIsEager ==
    \A l \in 1..built :
        adjustavailableTokens(limiters[l], currentTick(limiters[l], now)).availableTokens = level[l]

\* The limit: no caller proceeds with a token before the tick that pays for it, so
\* that in any time since it was built a limiter lets through no more than its
\* capacity and the tokens of the ticks passed, sleepers included.
RateBound ==
    \A l \in 1..built :
        handed[l] <= limiters[l].capacity + limiters[l].quantum * currentTick(limiters[l], now)

\* Nobody overtakes: tokens taken later are never ready earlier, so that
\* TakeAvailable cannot spend what a sleeper has been promised.
InOrder == [][\A l \in Limiter : ready'[l] >= ready[l]]_vars
=============================================================================
