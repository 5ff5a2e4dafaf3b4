---------------------------- MODULE RateLimitProofs ----------------------------
(***************************************************************************)
(* What holds of the limiters for any rate, any quantum, any number of     *)
(* requests and any bounds.                                                *)
(*                                                                         *)
(* The argument follows one bucket.  Its balance, had every tick been      *)
(* credited at once (Bal), does not depend on when it was last credited;   *)
(* what was taken and what is left never exceed what was paid in; and the  *)
(* tick promised last is the first that pays the debt.  These books are    *)
(* kept by every operation; the sleepers only remember one line of them.   *)
(***************************************************************************)
EXTENDS RateLimit, TLAPS

-----------------------------------------------------------------------------
(* Division.                                                               *)

\* The quotient of an integer by a positive number.
LEMMA Quotient ==
    ASSUME NEW q \in Nat \ {0}, NEW a \in Int
    PROVE  a \div q \in Int /\ q * (a \div q) <= a /\ a < q * (a \div q) + q
  OBVIOUS

\* Multiples of a number that are less than it apart are in order.
LEMMA MultiplesOrdered ==
    ASSUME NEW q \in Nat \ {0}, NEW x \in Int, NEW y \in Int, q * x < q * y + q
    PROVE  x <= y
<1>1. SUFFICES ASSUME x >= y + 1 PROVE FALSE
  OBVIOUS
<1>2. q * x >= q * (y + 1)
  BY <1>1
<1>3. q * (y + 1) = q * y + q
  OBVIOUS
<1> QED
  BY <1>2, <1>3

\* endTick rounds up: the ticks it waits for pay the debt, and no fewer would.
LEMMA RoundedUp ==
    ASSUME NEW q \in Nat \ {0}, NEW a \in Int
    PROVE  /\ (a + q - 1) \div q \in Int
           /\ q * ((a + q - 1) \div q) >= a
           /\ q * ((a + q - 1) \div q) <= a + q - 1
<1> DEFINE x == q * ((a + q - 1) \div q)
<1>1. a + q - 1 \in Int
  OBVIOUS
<1>2. x <= a + q - 1 /\ a + q - 1 < x + q /\ (a + q - 1) \div q \in Int
  BY <1>1, Quotient
<1>3. x \in Int
  BY <1>2
<1> HIDE DEF x
<1>4. x >= a
  BY <1>2, <1>3
<1> QED
  BY <1>2, <1>4 DEF x

\* Division by a positive number is monotone: a clock read later is in no earlier tick.
LEMMA QuotientMonotone ==
    ASSUME NEW q \in Nat \ {0}, NEW x \in Int, NEW y \in Int, x <= y
    PROVE  x \div q <= y \div q
<1>1. /\ q * (x \div q) <= x /\ x \div q \in Int
      /\ y < q * (y \div q) + q /\ y \div q \in Int
  BY Quotient
<1>2. q * (x \div q) < q * (y \div q) + q
  BY <1>1
<1> QED
  BY <1>1, <1>2, MultiplesOrdered

\* The end of a wait lies exactly on the tick it was computed from.
LEMMA QuotientExact ==
    ASSUME NEW q \in Nat \ {0}, NEW k \in Int
    PROVE  (k * q) \div q = k
<1>1. k * q \in Int /\ k * q = q * k
  OBVIOUS
<1>2. /\ q * ((k * q) \div q) <= q * k
      /\ q * k < q * ((k * q) \div q) + q
      /\ (k * q) \div q \in Int
  BY <1>1, Quotient
<1> QED
  BY <1>2, MultiplesOrdered

-----------------------------------------------------------------------------
(* One bucket.                                                             *)

\* The two buckets differ at most in their balance and the tick it is of.
Same(tb, u) ==
    /\ tb.startTime = u.startTime
    /\ tb.capacity = u.capacity
    /\ tb.quantum = u.quantum
    /\ tb.fillInterval = u.fillInterval

\* The balance once tick has been credited.
Bal(tb, tick) == Least(tb.capacity, tb.availableTokens + (tick - tb.latestTick) * tb.quantum)

\* At time t the bucket stands for the balance lv.
Sound(tb, lv, t) ==
    /\ tb.startTime <= t
    /\ tb.availableTokens <= tb.capacity
    /\ tb.latestTick <= currentTick(tb, t)
    /\ lv = Bal(tb, currentTick(tb, t))

\* What was paid in by time t.
Paid(tb, t) == tb.capacity + tb.quantum * currentTick(tb, t)

\* The books of a bucket: tk tokens taken, the last of them ready at tick rd.
Books(tb, lv, tk, rd, t) ==
    /\ tk + lv <= Paid(tb, t)
    /\ tb.quantum * (rd - currentTick(tb, t)) <= Most(0, -lv) + tb.quantum - 1

\* The current tick is a natural number once the bucket has started.
LEMMA TickType ==
    ASSUME NEW tb \in Bucket, NEW t \in Int
    PROVE  /\ currentTick(tb, t) \in Int
           /\ tb.startTime <= t => currentTick(tb, t) \in Nat
<1>1. t - tb.startTime \in Int /\ tb.fillInterval \in Nat \ {0}
  BY DEF Bucket
<1>2. currentTick(tb, t) \in Int
  BY <1>1, Quotient DEF currentTick
<1>3. ASSUME tb.startTime <= t PROVE currentTick(tb, t) >= 0
  <2>1. 0 <= t - tb.startTime /\ 0 \in Int
    BY <1>1, <1>3 DEF Bucket
  <2>2. 0 \div tb.fillInterval <= (t - tb.startTime) \div tb.fillInterval
    BY <1>1, <2>1, QuotientMonotone
  <2>3. 0 * tb.fillInterval = 0
    BY <1>1
  <2>4. 0 \div tb.fillInterval = 0
    BY <1>1, <2>3, QuotientExact
  <2> QED
    BY <2>2, <2>4 DEF currentTick
<1> QED
  BY <1>2, <1>3

\* Ticks follow the clock.
LEMMA TickMonotone ==
    ASSUME NEW tb \in Bucket, NEW s \in Int, NEW t \in Int, s <= t
    PROVE  currentTick(tb, s) <= currentTick(tb, t)
<1>1. /\ s - tb.startTime \in Int /\ t - tb.startTime \in Int
      /\ s - tb.startTime <= t - tb.startTime
      /\ tb.fillInterval \in Nat \ {0}
  BY DEF Bucket
<1> QED
  BY <1>1, QuotientMonotone DEF currentTick

\* Least and Most are what their names say.
LEMMA LeastMost ==
    ASSUME NEW a \in Int, NEW b \in Int
    PROVE  /\ Least(a, b) \in Int /\ Least(a, b) <= a /\ Least(a, b) <= b
           /\ Least(a, b) = a \/ Least(a, b) = b
           /\ Most(a, b) \in Int /\ Most(a, b) >= a /\ Most(a, b) >= b
           /\ Most(a, b) = a \/ Most(a, b) = b
  BY DEF Least, Most

\* Crediting a tick, also a stale one, leaves a bucket that is otherwise the same,
\* not above its capacity, and with that tick as its latest.
LEMMA AdjustShape ==
    ASSUME NEW tb \in Bucket, NEW tick \in Nat, tb.availableTokens <= tb.capacity
    PROVE  LET u == adjustavailableTokens(tb, tick) IN
           /\ u \in Bucket
           /\ Same(u, tb)
           /\ u.latestTick = tick
           /\ u.availableTokens <= u.capacity
           /\ u.availableTokens = IF tb.availableTokens >= tb.capacity THEN tb.availableTokens
                                  ELSE Bal(tb, tick)
<1> DEFINE d == (tick - tb.latestTick) * tb.quantum
<1>1. /\ tb.latestTick \in Nat /\ tb.quantum \in Nat \ {0} /\ tb.capacity \in Nat \ {0}
      /\ tb.availableTokens \in Int
  BY DEF Bucket
<1>2. d \in Int
  BY <1>1
<1> HIDE DEF d
<1>3. /\ Least(tb.capacity, tb.availableTokens + d) \in Int
      /\ Least(tb.capacity, tb.availableTokens + d) <= tb.capacity
  BY <1>1, <1>2 DEF Least
<1> USE DEF d
<1> QED
  BY <1>1, <1>3 DEF adjustavailableTokens, Bucket, Same, Bal

\* Crediting up to the current tick finds the balance.
LEMMA AdjustIsBal ==
    ASSUME NEW tb \in Bucket, NEW tick \in Nat,
           tb.availableTokens <= tb.capacity, tb.latestTick <= tick
    PROVE  adjustavailableTokens(tb, tick).availableTokens = Bal(tb, tick)
<1> DEFINE d == (tick - tb.latestTick) * tb.quantum
<1>1. /\ tb.latestTick \in Nat /\ tb.quantum \in Nat /\ tb.capacity \in Nat
      /\ tb.availableTokens \in Int
  BY DEF Bucket
<1>2. d \in Int /\ d >= 0
  BY <1>1
<1> HIDE DEF d
<1>3. tb.availableTokens >= tb.capacity => Least(tb.capacity, tb.availableTokens + d) = tb.availableTokens
  BY <1>1, <1>2 DEF Least
<1>4. tb.availableTokens >= tb.capacity => Bal(tb, tick) = tb.availableTokens
  BY <1>3 DEF Bal, d
<1> QED
  BY <1>4, AdjustShape

\* A stale tick changes nothing that the next call can see.
LEMMA StaleTick ==
    ASSUME NEW tb \in Bucket, NEW stale \in Nat, NEW tick \in Nat, stale <= tick,
           tb.availableTokens <= tb.capacity, tb.latestTick <= tick
    PROVE  Bal(adjustavailableTokens(tb, stale), tick) = Bal(tb, tick)
<1> DEFINE u == adjustavailableTokens(tb, stale)
           a == (stale - tb.latestTick) * tb.quantum
           b == (tick - stale) * tb.quantum
           d == (tick - tb.latestTick) * tb.quantum
<1>1. /\ tb.latestTick \in Nat /\ tb.quantum \in Nat /\ tb.capacity \in Nat
      /\ tb.availableTokens \in Int
  BY DEF Bucket
<1>2. a \in Int /\ b \in Int /\ d \in Int /\ b >= 0 /\ d >= 0
  BY <1>1
<1>3. d = a + b
  BY <1>1
<1>4. u.latestTick = stale /\ u.capacity = tb.capacity /\ u.quantum = tb.quantum
  BY AdjustShape DEF Same
<1>5. u.availableTokens = IF tb.availableTokens >= tb.capacity THEN tb.availableTokens
                          ELSE Least(tb.capacity, tb.availableTokens + a)
  BY AdjustShape DEF Bal
<1>6. Bal(u, tick) = Least(tb.capacity, u.availableTokens + b)
  BY <1>4 DEF Bal
<1>7. Bal(tb, tick) = Least(tb.capacity, tb.availableTokens + d)
  BY DEF Bal
<1> HIDE DEF u, a, b, d
<1>8. Bal(u, tick) = Bal(tb, tick)
  BY <1>1, <1>2, <1>3, <1>5, <1>6, <1>7 DEF Least
<1> QED
  BY <1>8 DEF u

\* A bucket that is otherwise the same has the same ticks and was paid the same.
LEMMA SameTicks ==
    ASSUME NEW tb, NEW u, NEW t, Same(u, tb)
    PROVE  currentTick(u, t) = currentTick(tb, t) /\ Paid(u, t) = Paid(tb, t)
  BY DEF Same, currentTick, Paid

\* Crediting by a clock that was read at s, possibly before later calls, keeps the
\* bucket sound at t.
LEMMA AdjustSound ==
    ASSUME NEW tb \in Bucket, NEW lv, NEW s \in Int, NEW t \in Int,
           tb.startTime <= s, s <= t, Sound(tb, lv, t)
    PROVE  LET u == adjustavailableTokens(tb, currentTick(tb, s))
           IN  u \in Bucket /\ Same(u, tb) /\ Sound(u, lv, t)
<1> DEFINE stale == currentTick(tb, s)
           tick == currentTick(tb, t)
           u == adjustavailableTokens(tb, stale)
<1>1. tb.startTime \in Nat
  BY DEF Bucket
<1>2. stale \in Nat /\ tick \in Nat /\ stale <= tick
  BY <1>1, TickType, TickMonotone DEF Sound
<1>3. tb.availableTokens <= tb.capacity /\ tb.latestTick <= tick /\ lv = Bal(tb, tick)
  BY DEF Sound
<1> HIDE DEF stale, tick
<1>4. /\ u \in Bucket /\ Same(u, tb) /\ u.latestTick = stale
      /\ u.availableTokens <= u.capacity
  BY <1>2, <1>3, AdjustShape
<1>5. Bal(u, tick) = Bal(tb, tick)
  BY <1>2, <1>3, StaleTick
<1>6. currentTick(u, t) = tick
  BY <1>4, SameTicks DEF tick
<1>7. u.startTime <= t
  BY <1>4 DEF Same, Sound
<1>8. Sound(u, lv, t)
  BY <1>2, <1>3, <1>4, <1>5, <1>6, <1>7 DEF Sound
<1> QED
  BY <1>4, <1>8 DEF stale

\* A credited bucket holds its balance; taking from it takes from the balance.
LEMMA Spend ==
    ASSUME NEW tb \in Bucket, NEW lv \in Int, NEW t \in Int, NEW n \in Nat, Sound(tb, lv, t)
    PROVE  LET u == adjustavailableTokens(tb, currentTick(tb, t))
               v == [u EXCEPT !.availableTokens = u.availableTokens - n]
           IN  /\ u \in Bucket /\ Same(u, tb)
               /\ u.latestTick = currentTick(tb, t) /\ u.availableTokens = lv
               /\ v \in Bucket /\ Same(v, tb) /\ Sound(v, lv - n, t)
<1> DEFINE tick == currentTick(tb, t)
           u == adjustavailableTokens(tb, tick)
           v == [u EXCEPT !.availableTokens = u.availableTokens - n]
<1>1. tick \in Nat /\ tb.availableTokens <= tb.capacity /\ tb.latestTick <= tick /\ lv = Bal(tb, tick)
  BY TickType DEF Sound
<1> HIDE DEF tick
<1>2. /\ u \in Bucket /\ Same(u, tb) /\ u.latestTick = tick
      /\ u.availableTokens <= u.capacity /\ u.availableTokens = lv
  BY <1>1, AdjustShape, AdjustIsBal
<1> HIDE DEF u
<1>3. /\ v \in Bucket /\ Same(v, u) /\ v.availableTokens = lv - n /\ v.latestTick = tick
      /\ v.capacity = u.capacity /\ v.quantum \in Nat /\ v.startTime = u.startTime
      /\ u.capacity \in Nat
  BY <1>2 DEF Bucket, Same
<1>4. Same(v, tb)
  BY <1>2, <1>3 DEF Same
<1> HIDE DEF v
<1>5. currentTick(v, t) = tick
  BY <1>4, SameTicks DEF tick
<1>6. v.availableTokens <= v.capacity /\ v.startTime <= t
  BY <1>2, <1>3 DEF Same, Sound
<1>7. (tick - tick) * v.quantum = 0
  BY <1>1, <1>3
<1>8. Bal(v, tick) = lv - n
  BY <1>2, <1>3, <1>6, <1>7 DEF Bal, Least
<1>9. Sound(v, lv - n, t)
  BY <1>1, <1>3, <1>5, <1>6, <1>8 DEF Sound
<1> QED
  BY <1>2, <1>3, <1>4, <1>9 DEF tick, u, v

\* The books after a spending that the present balance covers.
LEMMA SpendCovered ==
    ASSUME NEW tb \in Bucket, NEW lv \in Int, NEW tk \in Nat, NEW rd \in Nat, NEW t \in Int,
           NEW n \in Nat \ {0}, n <= lv, tb.startTime <= t, Books(tb, lv, tk, rd, t)
    PROVE  /\ Books(tb, lv - n, tk + n, currentTick(tb, t), t)
           /\ rd <= currentTick(tb, t)
           /\ tk + n <= Paid(tb, t)
<1> DEFINE T == currentTick(tb, t)
           q == tb.quantum
<1>1. T \in Nat /\ q \in Nat \ {0} /\ tb.capacity \in Nat
  BY TickType DEF Bucket
<1>2. Paid(tb, t) \in Int
  BY <1>1 DEF Paid
<1> HIDE DEF T, q
<1>3. tk + lv <= Paid(tb, t) /\ q * (rd - T) <= Most(0, -lv) + q - 1
  BY DEF Books, T, q
<1>4. Most(0, -lv) = 0 /\ Most(0, -(lv - n)) = 0
  BY DEF Most
<1>5. q * (rd - T) = q * rd - q * T /\ q * rd \in Int /\ q * T \in Int /\ q * (T - T) = 0
  BY <1>1
<1>6. rd <= T
  <2>1. q * rd < q * T + q
    BY <1>1, <1>3, <1>4, <1>5
  <2> QED
    BY <1>1, <2>1, MultiplesOrdered
<1>7. (tk + n) + (lv - n) <= Paid(tb, t) /\ tk + n <= Paid(tb, t)
  BY <1>2, <1>3
<1>8. q * (T - T) <= Most(0, -(lv - n)) + q - 1
  BY <1>1, <1>4, <1>5
<1> QED
  BY <1>6, <1>7, <1>8 DEF Books, T, q

\* The books after a spending on credit: the wait ends on the tick that pays for it.
LEMMA SpendOnCredit ==
    ASSUME NEW tb \in Bucket, NEW lv \in Int, NEW tk \in Nat, NEW rd \in Nat, NEW t \in Int,
           NEW n \in Nat \ {0}, lv < n, tb.startTime <= t, Books(tb, lv, tk, rd, t)
    PROVE  LET end == currentTick(tb, t) + (-(lv - n) + tb.quantum - 1) \div tb.quantum
           IN  /\ end \in Nat
               /\ Books(tb, lv - n, tk + n, end, t)
               /\ rd <= end
               /\ tk + n <= tb.capacity + tb.quantum * end
<1> DEFINE T == currentTick(tb, t)
           q == tb.quantum
           c == tb.capacity
           debt == -(lv - n)
           w == (debt + q - 1) \div q
           end == T + w
<1>1. T \in Nat /\ q \in Nat \ {0} /\ c \in Nat /\ debt \in Int /\ debt >= 1
  BY TickType DEF Bucket
<1>2. lv - n = -debt /\ debt = n - lv
  OBVIOUS
<1> HIDE DEF T, q, c, debt
<1>3. w \in Int /\ q * w >= debt /\ q * w <= debt + q - 1
  BY <1>1, RoundedUp
<1> HIDE DEF w
<1>4. w >= 0
  <2>1. q * 0 < q * w + q
    BY <1>1, <1>3
  <2> QED
    BY <1>1, <1>3, <2>1, MultiplesOrdered
<1>5. end \in Nat
  BY <1>1, <1>3, <1>4
<1>6. tk + lv <= c + q * T /\ q * (rd - T) <= Most(0, -lv) + q - 1
  BY DEF Books, Paid, T, q, c
<1>7. Most(0, -lv) <= debt /\ Most(0, -lv) \in Int
  BY <1>1, <1>2 DEF Most
<1>8. /\ q * (rd - T) = q * rd - q * T /\ q * rd \in Int /\ q * T \in Int /\ q * w \in Int
      /\ q * (end - T) = q * w /\ q * end = q * T + q * w
  BY <1>1, <1>3
<1>9. rd <= end
  <2>1. q * rd < q * end + q
    BY <1>1, <1>3, <1>6, <1>7, <1>8
  <2> QED
    BY <1>1, <1>5, <2>1, MultiplesOrdered
<1>10. (tk + n) + (lv - n) <= c + q * T
  BY <1>1, <1>6, <1>8
<1>11. tk + n <= c + q * end
  BY <1>1, <1>2, <1>3, <1>6, <1>8
<1>12. q * (end - T) <= Most(0, -(lv - n)) + q - 1
  <2>1. Most(0, -(lv - n)) = debt
    BY <1>1, <1>2 DEF Most
  <2> QED
    BY <2>1, <1>1, <1>3, <1>8
<1>13. Books(tb, lv - n, tk + n, end, t)
  BY <1>10, <1>12 DEF Books, Paid, T, q, c
<1> QED
  BY <1>5, <1>9, <1>11, <1>13 DEF T, q, c, w, debt

\* More is paid in as time passes.
LEMMA PaidMonotone ==
    ASSUME NEW tb \in Bucket, NEW s \in Int, NEW t \in Int, s <= t
    PROVE  Paid(tb, s) \in Int /\ Paid(tb, t) \in Int /\ Paid(tb, s) <= Paid(tb, t)
<1> DEFINE S == currentTick(tb, s)
           T == currentTick(tb, t)
           q == tb.quantum
<1>1. S \in Int /\ T \in Int /\ S <= T /\ q \in Nat /\ tb.capacity \in Nat
  BY TickType, TickMonotone DEF Bucket
<1> HIDE DEF S, T, q
<1>2. q * S \in Int /\ q * T \in Int /\ q * S <= q * T
  BY <1>1
<1> QED
  BY <1>1, <1>2 DEF Paid, S, T, q

\* The passing of a tick credits the balance and keeps the books.
LEMMA Elapse ==
    ASSUME NEW tb \in Bucket, NEW lv \in Int, NEW tk \in Nat, NEW rd \in Nat,
           NEW s \in Int, NEW t \in Int, s <= t,
           Sound(tb, lv, s), Books(tb, lv, tk, rd, s)
    PROVE  LET lw == Least(tb.capacity, lv + (currentTick(tb, t) - currentTick(tb, s)) * tb.quantum)
           IN  lw \in Int /\ Sound(tb, lw, t) /\ Books(tb, lw, tk, rd, t)
<1> DEFINE S == currentTick(tb, s)
           T == currentTick(tb, t)
           q == tb.quantum
           c == tb.capacity
           A == tb.availableTokens
           L == tb.latestTick
           a == (S - L) * q
           d == (T - S) * q
           lw == Least(c, lv + d)
<1>1. S \in Nat /\ T \in Int /\ S <= T /\ q \in Nat \ {0} /\ c \in Nat /\ A \in Int /\ L \in Nat
  BY TickType, TickMonotone DEF Bucket, Sound
<1>2. L <= S /\ A <= c /\ lv = Least(c, A + a)
  BY DEF Sound, Bal
<1>3. tk + lv <= c + q * S /\ q * (rd - S) <= Most(0, -lv) + q - 1
  BY DEF Books, Paid
<1>4. Bal(tb, T) = Least(c, A + (T - L) * q)
  BY DEF Bal
<1>5. tb.startTime <= t
  BY DEF Sound, Bucket
<1> HIDE DEF S, T, q, c, A, L
<1>6. /\ a \in Int /\ d \in Int /\ d >= 0
      /\ (T - L) * q = a + d /\ q * T = q * S + d /\ q * S \in Int
      /\ q * (rd - T) = q * (rd - S) - d /\ q * (rd - S) \in Int
  BY <1>1
<1> HIDE DEF a, d
<1>7. lw \in Int /\ lw <= lv + d /\ lw <= c
  BY <1>1, <1>6 DEF Least
<1>8. Bal(tb, T) = lw
  BY <1>1, <1>2, <1>4, <1>6 DEF Least
<1> HIDE DEF lw
<1>9. L <= T
  BY <1>1, <1>2
<1>10. Sound(tb, lw, t)
  BY <1>2, <1>5, <1>8, <1>9 DEF Sound, T, A, L, c
<1>11. tk + lw <= c + q * T
  BY <1>1, <1>3, <1>6, <1>7
<1>12. q * (rd - T) <= Most(0, -lw) + q - 1
  BY <1>1, <1>3, <1>6, <1>7 DEF Most
<1>13. Books(tb, lw, tk, rd, t)
  BY <1>11, <1>12 DEF Books, Paid, T, q, c
<1> QED
  BY <1>7, <1>10, <1>13 DEF lw, c, d, T, S, q

\* The books do not depend on when the bucket was credited.
LEMMA SameBooks ==
    ASSUME NEW tb, NEW u, NEW lv, NEW tk, NEW rd, NEW t, Same(u, tb), Books(tb, lv, tk, rd, t)
    PROVE  Books(u, lv, tk, rd, t)
  BY SameTicks DEF Books, Same

\* The bucket u is tb after n tokens were dealt at t, for the tick and the time given.
Dealt(tb, u, lv, tk, rd, t, n, tick, until) ==
    /\ u \in Bucket /\ Same(u, tb)
    /\ Sound(u, lv - n, t)
    /\ Books(u, lv - n, tk + n, tick, t)
    /\ tick \in Nat /\ rd <= tick
    /\ until \in Nat /\ tk + n <= Paid(u, until)

\* take deals the tokens, or only credits the bucket.
LEMMA TakeDeals ==
    ASSUME NEW tb \in Bucket, NEW lv \in Int, NEW tk \in Nat, NEW rd \in Nat, NEW t \in Nat,
           NEW n \in Nat \ {0}, NEW maxWait \in Int,
           Sound(tb, lv, t), Books(tb, lv, tk, rd, t)
    PROVE  LET r == take(tb, t, n, maxWait)
           IN  /\ r.ok => Dealt(tb, r.tb, lv, tk, rd, t, n, r.tick, r.until)
               /\ ~r.ok => r.tb \in Bucket /\ Same(r.tb, tb) /\ Sound(r.tb, lv, t)
<1> DEFINE r == take(tb, t, n, maxWait)
           u == adjustavailableTokens(tb, currentTick(tb, t))
           v == [u EXCEPT !.availableTokens = u.availableTokens - n]
           end == currentTick(tb, t) + (-(lv - n) + tb.quantum - 1) \div tb.quantum
           endTime == u.startTime + end * u.fillInterval
<1>1. /\ u \in Bucket /\ Same(u, tb)
      /\ u.latestTick = currentTick(tb, t) /\ u.availableTokens = lv
      /\ v \in Bucket /\ Same(v, tb) /\ Sound(v, lv - n, t)
  BY Spend
<1>2. tb.startTime <= t /\ tb.startTime \in Nat
  BY DEF Sound, Bucket
<1>3. Sound(u, lv, t)
  BY <1>2, AdjustSound
<1>4. endTick(u, lv - n) = end
  BY <1>1 DEF endTick, Same
<1>5. r = IF lv - n >= 0 THEN [tb |-> v, tick |-> currentTick(tb, t), until |-> t, ok |-> TRUE]
          ELSE IF endTime - t > maxWait THEN [tb |-> u, tick |-> 0, until |-> t, ok |-> FALSE]
          ELSE [tb |-> v, tick |-> end, until |-> endTime, ok |-> TRUE]
  <2>1. u.availableTokens - n = lv - n
    BY <1>1
  <2> QED
    BY <1>1, <1>4, <2>1 DEF take
<1> HIDE DEF u, v, r
<1>6. CASE lv - n >= 0
  <2>1. n <= lv
    BY <1>6
  <2>2. /\ Books(tb, lv - n, tk + n, currentTick(tb, t), t)
        /\ rd <= currentTick(tb, t) /\ tk + n <= Paid(tb, t)
    BY <1>2, <2>1, SpendCovered
  <2>3. Books(v, lv - n, tk + n, currentTick(tb, t), t) /\ Paid(v, t) = Paid(tb, t)
    BY <1>1, <2>2, SameBooks, SameTicks
  <2>4. currentTick(tb, t) \in Nat
    BY <1>2, TickType
  <2>5. r = [tb |-> v, tick |-> currentTick(tb, t), until |-> t, ok |-> TRUE]
    BY <1>5, <1>6
  <2>6. r.ok /\ r.tb = v /\ r.tick = currentTick(tb, t) /\ r.until = t
    BY <2>5
  <2> QED
    BY <1>1, <2>2, <2>3, <2>4, <2>6 DEF Dealt, r
<1>7. CASE lv - n < 0
  <2>1. lv < n
    BY <1>7
  <2>2. /\ end \in Nat /\ Books(tb, lv - n, tk + n, end, t)
        /\ rd <= end /\ tk + n <= tb.capacity + tb.quantum * end
    BY <1>2, <2>1, SpendOnCredit
  <2>3. endTime \in Nat /\ currentTick(tb, endTime) = end
    <3>1. u.startTime = tb.startTime /\ u.fillInterval = tb.fillInterval
      BY <1>1 DEF Same
    <3>2. tb.fillInterval \in Nat \ {0} /\ tb.startTime \in Nat
      BY DEF Bucket
    <3> HIDE DEF end
    <3>3. end * tb.fillInterval \in Nat
      BY <2>2, <3>2
    <3>4. endTime \in Nat /\ endTime - tb.startTime = end * tb.fillInterval
      BY <3>1, <3>2, <3>3
    <3>5. (end * tb.fillInterval) \div tb.fillInterval = end
      BY <2>2, <3>2, QuotientExact
    <3> QED
      BY <3>4, <3>5 DEF currentTick
  <2>4. tk + n <= Paid(v, endTime)
    <3>1. Paid(v, endTime) = Paid(tb, endTime)
      BY <1>1, SameTicks
    <3> QED
      BY <2>2, <2>3, <3>1 DEF Paid
  <2>5. Books(v, lv - n, tk + n, end, t)
    BY <1>1, <2>2, SameBooks
  <2>6. ~(lv - n >= 0)
    BY <1>7
  <2> HIDE DEF end, endTime
  <2>7. CASE endTime - t > maxWait
    <3>1. r = [tb |-> u, tick |-> 0, until |-> t, ok |-> FALSE]
      BY <1>5, <2>6, <2>7
    <3>2. ~r.ok /\ r.tb = u
      BY <3>1
    <3> QED
      BY <1>1, <1>3, <3>2 DEF r
  <2>8. CASE ~(endTime - t > maxWait)
    <3>1. r = [tb |-> v, tick |-> end, until |-> endTime, ok |-> TRUE]
      BY <1>5, <2>6, <2>8
    <3>2. r.ok /\ r.tb = v /\ r.tick = end /\ r.until = endTime
      BY <3>1
    <3> QED
      BY <1>1, <2>2, <2>3, <2>4, <2>5, <3>2 DEF Dealt, r
  <2> QED
    BY <2>7, <2>8
<1> QED
  BY <1>6, <1>7

\* takeAvailable deals what it removes, or only credits the bucket.
LEMMA TakeAvailableDeals ==
    ASSUME NEW tb \in Bucket, NEW lv \in Int, NEW tk \in Nat, NEW rd \in Nat, NEW t \in Nat,
           NEW count \in Nat \ {0}, Sound(tb, lv, t), Books(tb, lv, tk, rd, t)
    PROVE  LET r == takeAvailable(tb, t, count)
           IN  /\ r.n \in Nat /\ r.tb \in Bucket /\ Same(r.tb, tb)
               /\ r.n > 0 => Dealt(tb, r.tb, lv, tk, rd, t, r.n, r.tb.latestTick, t)
               /\ ~(r.n > 0) => Sound(r.tb, lv, t)
<1>1. PICK n \in Nat : /\ n = IF lv <= 0 THEN 0 ELSE Least(count, lv)
                       /\ n > 0 => n <= lv
  BY DEF Least
<1> DEFINE r == takeAvailable(tb, t, count)
           u == adjustavailableTokens(tb, currentTick(tb, t))
           v == [u EXCEPT !.availableTokens = u.availableTokens - n]
<1>2. /\ u \in Bucket /\ Same(u, tb)
      /\ u.latestTick = currentTick(tb, t) /\ u.availableTokens = lv
      /\ v \in Bucket /\ Same(v, tb) /\ Sound(v, lv - n, t)
  BY Spend
<1>3. r = [tb |-> v, n |-> n]
  BY <1>1, <1>2 DEF takeAvailable
<1>4. v.latestTick = currentTick(tb, t)
  BY <1>2
<1> HIDE DEF u, v, r
<1>5. r.tb = v /\ r.n = n
  BY <1>3
<1>6. tb.startTime <= t
  BY DEF Sound
<1>7. ASSUME n > 0 PROVE Dealt(tb, v, lv, tk, rd, t, n, v.latestTick, t)
  <2>1. PICK m \in Nat \ {0} : m = n /\ m <= lv
    BY <1>1, <1>7
  <2>2. /\ Books(tb, lv - m, tk + m, currentTick(tb, t), t)
        /\ rd <= currentTick(tb, t) /\ tk + m <= Paid(tb, t)
    <3>1. m <= lv
      BY <2>1
    <3> QED
      BY ONLY <1>6, <3>1, tb \in Bucket, lv \in Int, tk \in Nat, rd \in Nat, t \in Int,
              m \in Nat \ {0}, Books(tb, lv, tk, rd, t), SpendCovered
  <2>3. Books(v, lv - n, tk + n, currentTick(tb, t), t) /\ Paid(v, t) = Paid(tb, t)
    BY <1>2, <2>1, <2>2, SameBooks, SameTicks
  <2>4. currentTick(tb, t) \in Nat
    BY <1>6, TickType
  <2> QED
    BY <1>2, <1>4, <2>1, <2>2, <2>3, <2>4 DEF Dealt
<1>8. ASSUME ~(n > 0) PROVE Sound(v, lv, t)
  <2>1. lv - n = lv
    BY <1>1, <1>8
  <2> QED
    BY <1>2, <2>1
<1> QED
  BY <1>1, <1>2, <1>5, <1>7, <1>8 DEF r

\* A new limiter is full and its books are empty.
LEMMA NewIsSound ==
    ASSUME NEW n \in Nat, now \in Nat
    PROVE  LET qps == refreshQPS(n)
               tb == newRateLimiter(qps)
           IN  /\ qps \in Nat \ {0} /\ tb \in Bucket /\ tb.startTime = now
               /\ Sound(tb, qps, now) /\ Books(tb, qps, 0, 0, now) /\ 0 <= Paid(tb, now)
<1> DEFINE share == IF n > 0 THEN MaxQPS \div n ELSE MaxQPS
           qps == refreshQPS(n)
           fill == Second \div qps
           tb == newRateLimiter(qps)
<1> USE RateLimitAssumption
<1>1. share \in Int /\ share <= MaxQPS
  <2>1. CASE n > 0
    <3> DEFINE x == MaxQPS \div n
    <3>1. x \in Int /\ n * x <= MaxQPS /\ MaxQPS < n * x + n
      BY <2>1, Quotient
    <3> HIDE DEF x
    <3>2. x <= MaxQPS
      <4>1. CASE x <= 0
        BY <3>1, <4>1
      <4>2. CASE x > 0
        <5>1. n * x >= x
          BY <2>1, <3>1, <4>2
        <5> QED
          BY <3>1, <5>1
      <4> QED
        BY <3>1, <4>1, <4>2
    <3> QED
      BY <2>1, <3>1, <3>2 DEF x
  <2>2. CASE n = 0
    BY <2>2
  <2> QED
    BY <2>1, <2>2
<1>2. qps = IF share <= 0 THEN 1 ELSE share
  BY DEF refreshQPS
<1> HIDE DEF share
<1>3. qps \in Nat \ {0} /\ qps <= Second
  BY <1>1, <1>2
<1> HIDE DEF qps
<1>4. fill \in Nat \ {0}
  <2>1. fill \in Int /\ Second < qps * fill + qps
    BY <1>3, Quotient
  <2> HIDE DEF fill
  <2>2. qps * 1 < qps * fill + qps
    BY <1>3, <2>1
  <2>3. 1 <= fill
    BY <1>3, <2>1, <2>2, MultiplesOrdered
  <2> QED
    BY <2>1, <2>3
<1> HIDE DEF fill
<1>5. tb = [startTime |-> now, capacity |-> qps, quantum |-> Quantum, fillInterval |-> fill,
            availableTokens |-> qps, latestTick |-> 0]
  BY DEF newRateLimiter, NewBucketWithQuantum, fill
<1> HIDE DEF tb
<1>6. /\ tb \in Bucket /\ tb.startTime = now /\ tb.availableTokens = qps /\ tb.capacity = qps
      /\ tb.latestTick = 0 /\ tb.quantum = Quantum /\ tb.fillInterval = fill
  BY <1>3, <1>4, <1>5 DEF Bucket
<1>7. currentTick(tb, now) = 0
  <2>1. now - now = 0 /\ 0 * fill = 0
    BY <1>4
  <2>2. (0 * fill) \div fill = 0
    BY <1>4, QuotientExact
  <2> QED
    BY <1>6, <2>1, <2>2 DEF currentTick
<1>8. (0 - 0) * Quantum = 0 /\ Quantum * (0 - 0) = 0 /\ Quantum * 0 = 0
  OBVIOUS
<1>9. Sound(tb, qps, now)
  BY <1>3, <1>6, <1>7, <1>8 DEF Sound, Bal, Least
<1>10. Books(tb, qps, 0, 0, now) /\ 0 <= Paid(tb, now)
  BY <1>3, <1>6, <1>7, <1>8 DEF Books, Paid, Most
<1> QED
  BY <1>3, <1>6, <1>9, <1>10 DEF tb, qps

-----------------------------------------------------------------------------
(* The invariant.                                                          *)

\* The buckets: sound, their books in order, and nobody served beyond what was paid.
LimiterInv ==
    \A l \in Limiter :
        IF l <= built
        THEN /\ Sound(limiters[l], level[l], now)
             /\ Books(limiters[l], level[l], taken[l], ready[l], now)
             /\ handed[l] <= Paid(limiters[l], now)
        ELSE taken[l] = 0 /\ ready[l] = 0 /\ handed[l] = 0

\* The requests: they hold limiters that were built, sleep until their tokens are
\* paid, and read the clock after their limiter was built.
RequestInv ==
    \A r \in Request :
        /\ req[r].pc # "idle" => req[r].lim \in 1..built
        /\ req[r].pc = "asleep" => req[r].last <= Paid(limiters[req[r].lim], req[r].at)
        /\ req[r].pc = "clock" => /\ limiters[req[r].lim].startTime <= req[r].at
                                  /\ req[r].at <= now

Inv == TypeOK /\ LimiterInv /\ RequestInv

\* What the invariant says of one built limiter.
LEMMA OneLimiter ==
    ASSUME Inv, NEW l \in 1..built
    PROVE  /\ l \in Limiter /\ limiters[l] \in Bucket /\ level[l] \in Int
           /\ taken[l] \in Nat /\ ready[l] \in Nat /\ handed[l] \in Nat /\ now \in Nat
           /\ Sound(limiters[l], level[l], now)
           /\ Books(limiters[l], level[l], taken[l], ready[l], now)
           /\ handed[l] <= Paid(limiters[l], now)
<1>1. l \in Limiter /\ l <= built
  BY RateLimitAssumption DEF Inv, TypeOK, Limiter
<1> QED
  BY <1>1 DEF Inv, TypeOK, LimiterInv

\* The invariant holds initially.
LEMMA InitInv == Init => Inv
<1> SUFFICES ASSUME Init PROVE Inv
  OBVIOUS
<1> USE RateLimitAssumption
<1>1. now \in Nat /\ proxies \in Nat /\ 1 \in Limiter
  BY DEF Init, Limiter
<1> DEFINE qps == refreshQPS(proxies)
           tb == newRateLimiter(qps)
<1>2. /\ qps \in Nat \ {0} /\ tb \in Bucket
      /\ Sound(tb, qps, now) /\ Books(tb, qps, 0, 0, now) /\ 0 <= Paid(tb, now)
  BY <1>1, NewIsSound
<1> HIDE DEF qps, tb
<1>3. NoBucket \in Bucket
  BY DEF NoBucket, Bucket
<1>4. /\ limiters = [l \in Limiter |-> IF l = 1 THEN tb ELSE NoBucket]
      /\ level = [l \in Limiter |-> IF l = 1 THEN qps ELSE 0]
  BY DEF Init, qps, tb
<1>5. TypeOK
  <2>1. limiters \in [Limiter -> Bucket] /\ level \in [Limiter -> Int]
    BY <1>2, <1>3, <1>4
  <2>2. option \in [Limiter -> Option]
    BY DEF Init
  <2>3. req \in [Request -> [pc: {"idle", "held", "asleep", "clock"},
                             lim: 0..MaxLimiters, at: Nat, last: Nat]]
    BY DEF Init, Idle
  <2>4. /\ built \in Limiter /\ current \in 0..built /\ now \in 0..MaxNow
        /\ proxies \in 0..MaxProxies /\ calls \in 0..MaxCalls
    BY <1>1 DEF Init
  <2>6. crashed \in BOOLEAN
    BY DEF Init
  <2>5. /\ taken \in [Limiter -> Nat] /\ ready \in [Limiter -> Nat]
        /\ handed \in [Limiter -> Nat]
    BY DEF Init
  <2> QED
    BY <2>1, <2>2, <2>3, <2>4, <2>5, <2>6 DEF TypeOK
<1>6. LimiterInv
  <2> SUFFICES ASSUME NEW l \in Limiter
               PROVE  IF l <= built
                      THEN /\ Sound(limiters[l], level[l], now)
                           /\ Books(limiters[l], level[l], taken[l], ready[l], now)
                           /\ handed[l] <= Paid(limiters[l], now)
                      ELSE taken[l] = 0 /\ ready[l] = 0 /\ handed[l] = 0
    BY DEF LimiterInv
  <2>1. taken[l] = 0 /\ ready[l] = 0 /\ handed[l] = 0 /\ built = 1
    BY DEF Init
  <2>2. l <= built => l = 1
    BY <2>1 DEF Limiter
  <2>3. l = 1 => limiters[l] = tb /\ level[l] = qps
    BY <1>4
  <2> QED
    BY <1>2, <2>1, <2>2, <2>3
<1>7. RequestInv
  BY DEF Init, RequestInv, Idle
<1> QED
  BY <1>5, <1>6, <1>7 DEF Inv

\* A bucket that changes its balance only keeps what the requests rely on.
LEMMA RequestsRely ==
    ASSUME Inv, NEW l \in 1..built, NEW u \in Bucket, Same(u, limiters[l]),
           limiters' = [limiters EXCEPT ![l] = u]
    PROVE  \A k \in Limiter : /\ limiters'[k] \in Bucket
                              /\ limiters'[k].startTime = limiters[k].startTime
                              /\ \A t : Paid(limiters'[k], t) = Paid(limiters[k], t)
<1> SUFFICES ASSUME NEW k \in Limiter
             PROVE  /\ limiters'[k] \in Bucket
                    /\ limiters'[k].startTime = limiters[k].startTime
                    /\ \A t : Paid(limiters'[k], t) = Paid(limiters[k], t)
  OBVIOUS
<1>1. limiters'[k] = IF k = l THEN u ELSE limiters[k]
  BY DEF Inv, TypeOK
<1>2. limiters[k] \in Bucket
  BY DEF Inv, TypeOK
<1>3. \A t : Paid(u, t) = Paid(limiters[l], t)
  BY SameTicks
<1> QED
  BY <1>1, <1>2, <1>3 DEF Same

\* A grant keeps the invariant, and the order of the ticks.
LEMMA GrantKeeps ==
    ASSUME Inv, NEW r \in Request, req[r].pc = "held", NEW u, NEW n \in Nat \ {0},
           NEW tick, NEW until,
           Dealt(limiters[req[r].lim], u, level[req[r].lim], taken[req[r].lim],
                 ready[req[r].lim], now, n, tick, until),
           Grant(r, u, n, tick, until)
    PROVE  Inv' /\ \A k \in Limiter : ready'[k] >= ready[k]
<1> DEFINE l == req[r].lim
           last == taken[l] + n
<1>1. l \in 1..built /\ l \in Limiter
  BY DEF Inv, RequestInv, TypeOK, Limiter
<1>2. /\ limiters[l] \in Bucket /\ level[l] \in Int /\ taken[l] \in Nat /\ ready[l] \in Nat
      /\ handed[l] \in Nat /\ now \in Nat /\ handed[l] <= Paid(limiters[l], now)
  BY <1>1, OneLimiter
<1>3. /\ u \in Bucket /\ Same(u, limiters[l]) /\ Sound(u, level[l] - n, now)
      /\ Books(u, level[l] - n, taken[l] + n, tick, now)
      /\ tick \in Nat /\ ready[l] <= tick /\ until \in Nat /\ last <= Paid(u, until)
  BY DEF Dealt
<1>4. /\ limiters' = [limiters EXCEPT ![l] = u]
      /\ taken' = [taken EXCEPT ![l] = last]
      /\ ready' = [ready EXCEPT ![l] = tick]
      /\ level' = [level EXCEPT ![l] = level[l] - n]
      /\ UNCHANGED <<now, proxies, option, built, current, calls, crashed>>
  BY DEF Grant
<1>5. IF until > now
      THEN /\ req' = [req EXCEPT ![r] = [pc |-> "asleep", lim |-> l, at |-> until, last |-> last]]
           /\ handed' = handed
      ELSE /\ req' = [req EXCEPT ![r] = Idle]
           /\ handed' = [handed EXCEPT ![l] = Most(handed[l], last)]
  BY DEF Grant
<1> HIDE DEF l, last
<1>6. last \in Nat
  BY <1>2 DEF last
<1>7. Most(handed[l], last) \in Nat
  BY <1>2, <1>6 DEF Most
<1>8. TypeOK'
  <2>1. /\ limiters' \in [Limiter -> Bucket] /\ taken' \in [Limiter -> Nat]
        /\ ready' \in [Limiter -> Nat] /\ level' \in [Limiter -> Int]
    BY <1>1, <1>2, <1>3, <1>4, <1>6 DEF Inv, TypeOK
  <2>2. handed' \in [Limiter -> Nat]
    BY <1>1, <1>5, <1>7 DEF Inv, TypeOK
  <2>3. req' \in [Request -> [pc: {"idle", "held", "asleep", "clock"},
                              lim: 0..MaxLimiters, at: Nat, last: Nat]]
    <3>1. l \in 0..MaxLimiters /\ 0 \in 0..MaxLimiters
      BY <1>1, RateLimitAssumption DEF Limiter
    <3>2. [pc |-> "asleep", lim |-> l, at |-> until, last |-> last]
            \in [pc: {"idle", "held", "asleep", "clock"}, lim: 0..MaxLimiters, at: Nat, last: Nat]
      BY <1>3, <1>6, <3>1
    <3>3. Idle \in [pc: {"idle", "held", "asleep", "clock"}, lim: 0..MaxLimiters, at: Nat, last: Nat]
      BY <3>1 DEF Idle
    <3>4. req \in [Request -> [pc: {"idle", "held", "asleep", "clock"},
                               lim: 0..MaxLimiters, at: Nat, last: Nat]]
      BY DEF Inv, TypeOK
    <3> QED
      BY <1>5, <3>2, <3>3, <3>4
  <2> QED
    BY <1>4, <2>1, <2>2, <2>3 DEF Inv, TypeOK
<1>9. ~(until > now) => last <= Paid(u, now)
  <2> HAVE ~(until > now)
  <2>1. until <= now
    BY <1>2, <1>3
  <2>2. Paid(u, until) \in Int /\ Paid(u, now) \in Int /\ Paid(u, until) <= Paid(u, now)
    BY <1>2, <1>3, <2>1, PaidMonotone
  <2> QED
    BY <1>3, <1>6, <2>2
<1>10. Paid(u, now) = Paid(limiters[l], now)
  BY <1>3, SameTicks
<1>11. LimiterInv'
  <2> SUFFICES ASSUME NEW k \in Limiter
               PROVE  IF k <= built
                      THEN /\ Sound(limiters'[k], level'[k], now)
                           /\ Books(limiters'[k], level'[k], taken'[k], ready'[k], now)
                           /\ handed'[k] <= Paid(limiters'[k], now)
                      ELSE taken'[k] = 0 /\ ready'[k] = 0 /\ handed'[k] = 0
    BY <1>4 DEF LimiterInv
  <2>1. CASE k = l
    <3>1. /\ limiters'[k] = u /\ level'[k] = level[l] - n /\ taken'[k] = taken[l] + n
          /\ ready'[k] = tick
      BY <1>4, <2>1 DEF Inv, TypeOK, last
    <3>2. handed'[k] = IF until > now THEN handed[l] ELSE Most(handed[l], last)
      BY <1>5, <2>1 DEF Inv, TypeOK
    <3>3. handed'[k] <= Paid(u, now)
      BY <1>2, <1>9, <1>10, <3>2 DEF Most
    <3>4. k <= built
      BY <1>1, <2>1 DEF Inv, TypeOK
    <3> QED
      BY <1>3, <3>1, <3>3, <3>4
  <2>2. CASE k # l
    <3>1. /\ limiters'[k] = limiters[k] /\ level'[k] = level[k] /\ taken'[k] = taken[k]
          /\ ready'[k] = ready[k] /\ handed'[k] = handed[k]
      BY <1>4, <1>5, <2>2 DEF Inv, TypeOK
    <3> QED
      BY <3>1 DEF Inv, LimiterInv
  <2> QED
    BY <2>1, <2>2
<1>12. RequestInv'
  <2> SUFFICES ASSUME NEW x \in Request
               PROVE  /\ req'[x].pc # "idle" => req'[x].lim \in 1..built
                      /\ req'[x].pc = "asleep" =>
                           req'[x].last <= Paid(limiters'[req'[x].lim], req'[x].at)
                      /\ req'[x].pc = "clock" =>
                           /\ limiters'[req'[x].lim].startTime <= req'[x].at
                           /\ req'[x].at <= now
    BY <1>4 DEF RequestInv
  <2>1. CASE x = r
    <3>1. limiters'[l] = u
      BY <1>1, <1>4 DEF Inv, TypeOK
    <3>2. CASE until > now
      <4>1. req'[x] = [pc |-> "asleep", lim |-> l, at |-> until, last |-> last]
        BY <1>5, <2>1, <3>2 DEF Inv, TypeOK
      <4> QED
        BY <1>1, <1>3, <3>1, <4>1
    <3>3. CASE ~(until > now)
      BY <1>5, <2>1, <3>3 DEF Inv, TypeOK, Idle
    <3> QED
      BY <3>2, <3>3
  <2>2. CASE x # r
    <3>1. req'[x] = req[x]
      BY <1>5, <2>2 DEF Inv, TypeOK
    <3>2. req[x].pc # "idle" => req[x].lim \in Limiter
      BY DEF Inv, TypeOK, RequestInv, Limiter
    <3>3. \A k \in Limiter : /\ limiters'[k].startTime = limiters[k].startTime
                             /\ \A t : Paid(limiters'[k], t) = Paid(limiters[k], t)
      BY <1>1, <1>3, <1>4, RequestsRely
    <3> QED
      BY <3>1, <3>2, <3>3 DEF Inv, RequestInv
  <2> QED
    BY <2>1, <2>2
<1>13. \A k \in Limiter : ready'[k] >= ready[k]
  BY <1>3, <1>4 DEF Inv, TypeOK
<1> QED
  BY <1>8, <1>11, <1>12, <1>13 DEF Inv

\* Crediting a bucket without taking from it keeps the invariant.
LEMMA RefuseKeeps ==
    ASSUME Inv, NEW r \in Request, req[r].pc # "idle",
           NEW u \in Bucket, Same(u, limiters[req[r].lim]), Sound(u, level[req[r].lim], now),
           Refuse(r, u)
    PROVE  Inv'
<1> DEFINE l == req[r].lim
<1>1. l \in 1..built /\ l \in Limiter
  BY DEF Inv, RequestInv, TypeOK, Limiter
<1>2. /\ limiters' = [limiters EXCEPT ![l] = u]
      /\ req' = [req EXCEPT ![r] = Idle]
      /\ UNCHANGED <<now, proxies, option, built, current, calls, taken, ready, handed, level, crashed>>
  BY DEF Refuse, ghostVars
<1>3. Same(u, limiters[l]) /\ Sound(u, level[l], now)
  OBVIOUS
<1> HIDE DEF l
<1>4. TypeOK'
  BY <1>1, <1>2, RateLimitAssumption DEF Inv, TypeOK, Idle
<1>5. \A k \in Limiter : /\ limiters'[k].startTime = limiters[k].startTime
                         /\ \A t : Paid(limiters'[k], t) = Paid(limiters[k], t)
  BY <1>1, <1>2, <1>3, RequestsRely
<1>6. LimiterInv'
  <2> SUFFICES ASSUME NEW k \in Limiter
               PROVE  IF k <= built
                      THEN /\ Sound(limiters'[k], level[k], now)
                           /\ Books(limiters'[k], level[k], taken[k], ready[k], now)
                           /\ handed[k] <= Paid(limiters'[k], now)
                      ELSE taken[k] = 0 /\ ready[k] = 0 /\ handed[k] = 0
    BY <1>2 DEF LimiterInv
  <2>1. CASE k = l
    <3>1. limiters'[k] = u
      BY <1>2, <2>1 DEF Inv, TypeOK
    <3>2. Books(limiters[k], level[k], taken[k], ready[k], now)
      BY <1>1, <2>1, OneLimiter
    <3>3. Books(u, level[k], taken[k], ready[k], now)
      BY <1>3, <2>1, <3>2, SameBooks
    <3> QED
      BY <1>3, <1>5, <2>1, <3>1, <3>3 DEF Inv, LimiterInv
  <2>2. CASE k # l
    <3>1. limiters'[k] = limiters[k]
      BY <1>2, <2>2 DEF Inv, TypeOK
    <3> QED
      BY <3>1 DEF Inv, LimiterInv
  <2> QED
    BY <2>1, <2>2
<1>7. RequestInv'
  <2> SUFFICES ASSUME NEW x \in Request
               PROVE  /\ req'[x].pc # "idle" => req'[x].lim \in 1..built
                      /\ req'[x].pc = "asleep" =>
                           req'[x].last <= Paid(limiters'[req'[x].lim], req'[x].at)
                      /\ req'[x].pc = "clock" =>
                           /\ limiters'[req'[x].lim].startTime <= req'[x].at
                           /\ req'[x].at <= now
    BY <1>2 DEF RequestInv
  <2>1. CASE x = r
    BY <1>2, <2>1 DEF Inv, TypeOK, Idle
  <2>2. CASE x # r
    <3>1. req'[x] = req[x]
      BY <1>2, <2>2 DEF Inv, TypeOK
    <3>2. req[x].pc # "idle" => req[x].lim \in Limiter
      BY DEF Inv, TypeOK, RequestInv, Limiter
    <3> QED
      BY <1>5, <3>1, <3>2 DEF Inv, RequestInv
  <2> QED
    BY <2>1, <2>2
<1> QED
  BY <1>4, <1>6, <1>7 DEF Inv

\* Looking a limiter up, reading the clock and waking keep the invariant.
LEMMA RequestKeeps ==
    ASSUME Inv, NEW r \in Request, Lookup(r) \/ AvailableClock(r) \/ Wake(r)
    PROVE  Inv' /\ \A k \in Limiter : ready'[k] >= ready[k]
<1>1. UNCHANGED <<now, limiters, built, ready, taken, level>>
  BY DEF Lookup, AvailableClock, Wake, bucketVars, ghostVars
<1>2. \A k \in Limiter : ready'[k] >= ready[k]
  BY <1>1 DEF Inv, TypeOK
<1>3. CASE Lookup(r)
  <2>1. handed' = handed
    BY <1>3 DEF Lookup, ghostVars
  <2>2. LimiterInv'
    BY <1>1, <2>1 DEF Inv, LimiterInv
  <2>3. current \in 0..MaxLimiters /\ (current # 0 => current \in 1..built)
    BY RateLimitAssumption DEF Inv, TypeOK, Limiter
  <2>4. \/ req' = req
        \/ /\ current # 0
           /\ req' = [req EXCEPT ![r] = [pc |-> "held", lim |-> current, at |-> 0, last |-> 0]]
    BY <1>3 DEF Lookup
  <2>5. TypeOK'
    <3>1. req' \in [Request -> [pc: {"idle", "held", "asleep", "clock"},
                                lim: 0..MaxLimiters, at: Nat, last: Nat]]
      BY <2>3, <2>4 DEF Inv, TypeOK
    <3>2. UNCHANGED <<proxies, option, current>>
      BY <1>3 DEF Lookup, bucketVars
    <3>3. calls' \in 0..MaxCalls
      BY <1>3, RateLimitAssumption DEF Lookup, Inv, TypeOK
    <3>4. crashed' \in BOOLEAN
      BY <1>3 DEF Lookup, Inv, TypeOK
    <3> QED
      BY <1>1, <2>1, <3>1, <3>2, <3>3, <3>4 DEF Inv, TypeOK
  <2>6. RequestInv'
    BY <1>1, <2>3, <2>4 DEF Inv, TypeOK, RequestInv
  <2> QED
    BY <1>2, <2>2, <2>5, <2>6 DEF Inv
<1>4. CASE AvailableClock(r)
  <2>1. handed' = handed
    BY <1>4 DEF AvailableClock, ghostVars
  <2>2. LimiterInv'
    BY <1>1, <2>1 DEF Inv, LimiterInv
  <2>3. req' = [req EXCEPT ![r] = [req[r] EXCEPT !.pc = "clock", !.at = now]]
    BY <1>4 DEF AvailableClock, Inv, TypeOK
  <2>4. now \in Nat /\ req[r].pc = "held"
    BY <1>4 DEF AvailableClock, Holds, Inv, TypeOK
  <2>5. TypeOK'
    BY <1>1, <1>4, <2>1, <2>3, <2>4 DEF Inv, TypeOK, AvailableClock, bucketVars
  <2>6. req[r].lim \in 1..built
    BY <2>4 DEF Inv, RequestInv
  <2>7. limiters[req[r].lim].startTime <= now
    BY <2>6, OneLimiter DEF Sound
  <2>8. RequestInv'
    BY <1>1, <2>3, <2>4, <2>6, <2>7 DEF Inv, TypeOK, RequestInv
  <2> QED
    BY <1>2, <2>2, <2>5, <2>8 DEF Inv
<1>5. CASE Wake(r)
  <2> DEFINE l == req[r].lim
  <2>1. /\ req[r].pc = "asleep" /\ req[r].at <= now
        /\ req' = [req EXCEPT ![r] = Idle]
        /\ handed' = [handed EXCEPT ![l] = Most(handed[l], req[r].last)]
    BY <1>5 DEF Wake
  <2>2. l \in 1..built /\ req[r].last <= Paid(limiters[l], req[r].at)
    BY <2>1 DEF Inv, RequestInv
  <2>3. /\ l \in Limiter /\ limiters[l] \in Bucket /\ handed[l] \in Nat /\ now \in Nat
        /\ handed[l] <= Paid(limiters[l], now)
    BY <2>2, OneLimiter
  <2>4. req[r].last \in Nat /\ req[r].at \in Nat
    BY DEF Inv, TypeOK
  <2> HIDE DEF l
  <2>5. /\ Paid(limiters[l], req[r].at) \in Int /\ Paid(limiters[l], now) \in Int
        /\ Paid(limiters[l], req[r].at) <= Paid(limiters[l], now)
    BY <2>1, <2>3, <2>4, PaidMonotone
  <2>6. /\ Most(handed[l], req[r].last) \in Nat
        /\ Most(handed[l], req[r].last) <= Paid(limiters[l], now)
    BY <2>2, <2>3, <2>4, <2>5 DEF Most
  <2>7. TypeOK'
    <3>1. handed' \in [Limiter -> Nat]
      BY <2>1, <2>3, <2>6 DEF Inv, TypeOK
    <3>2. Idle \in [pc: {"idle", "held", "asleep", "clock"}, lim: 0..MaxLimiters, at: Nat, last: Nat]
      BY RateLimitAssumption DEF Idle
    <3>3. req' \in [Request -> [pc: {"idle", "held", "asleep", "clock"},
                                lim: 0..MaxLimiters, at: Nat, last: Nat]]
      BY <2>1, <3>2 DEF Inv, TypeOK
    <3>4. UNCHANGED <<proxies, option, current, calls, crashed>>
      BY <1>5 DEF Wake, bucketVars
    <3> QED
      BY <1>1, <3>1, <3>3, <3>4 DEF Inv, TypeOK
  <2>8. LimiterInv'
    BY <1>1, <2>1, <2>2, <2>3, <2>6 DEF Inv, TypeOK, LimiterInv
  <2>9. RequestInv'
    BY <1>1, <2>1 DEF Inv, TypeOK, RequestInv, Idle
  <2> QED
    BY <1>2, <2>7, <2>8, <2>9 DEF Inv
<1> QED
  BY <1>3, <1>4, <1>5

\* The event loop's replacement of the limiter keeps the invariant.
LEMMA InstallKeeps ==
    ASSUME Inv, Install
    PROVE  Inv' /\ \A k \in Limiter : ready'[k] >= ready[k]
<1> DEFINE new == built + 1
<1>1. PICK n \in 0..MaxProxies, o \in Option :
        /\ proxies' = n
        /\ limiters' = [limiters EXCEPT ![new] = newRateLimiter(refreshQPS(n))]
        /\ option' = [option EXCEPT ![new] = o]
        /\ level' = [level EXCEPT ![new] = refreshQPS(n)]
  BY DEF Install
<1> DEFINE qps == refreshQPS(n)
           tb == newRateLimiter(qps)
<1>2. /\ built < MaxLimiters /\ built' = new /\ current' = new
      /\ UNCHANGED <<now, req, calls, taken, ready, handed, crashed>>
  BY DEF Install
<1>3. now \in Nat /\ n \in Nat
  BY RateLimitAssumption DEF Inv, TypeOK
<1>4. /\ qps \in Nat \ {0} /\ tb \in Bucket
      /\ Sound(tb, qps, now) /\ Books(tb, qps, 0, 0, now) /\ 0 <= Paid(tb, now)
  BY <1>3, NewIsSound
<1>5. limiters' = [limiters EXCEPT ![new] = tb] /\ level' = [level EXCEPT ![new] = qps]
  BY <1>1
<1> HIDE DEF qps, tb
<1>6. new \in Limiter /\ ~(new <= built) /\ new \in 0..new /\ built \in Nat
  BY <1>2, RateLimitAssumption DEF Inv, TypeOK, Limiter
<1>7. TypeOK'
  BY <1>1, <1>2, <1>4, <1>5, <1>6 DEF Inv, TypeOK
<1>8. LimiterInv'
  <2> SUFFICES ASSUME NEW k \in Limiter
               PROVE  IF k <= new
                      THEN /\ Sound(limiters'[k], level'[k], now)
                           /\ Books(limiters'[k], level'[k], taken[k], ready[k], now)
                           /\ handed[k] <= Paid(limiters'[k], now)
                      ELSE taken[k] = 0 /\ ready[k] = 0 /\ handed[k] = 0
    BY <1>2 DEF LimiterInv
  <2>1. CASE k = new
    <3>1. limiters'[k] = tb /\ level'[k] = qps
      BY <1>5, <2>1 DEF Inv, TypeOK
    <3>2. taken[k] = 0 /\ ready[k] = 0 /\ handed[k] = 0
      BY <1>6, <2>1 DEF Inv, LimiterInv
    <3> QED
      BY <1>4, <3>1, <3>2
  <2>2. CASE k # new
    <3>1. limiters'[k] = limiters[k] /\ level'[k] = level[k]
      BY <1>5, <2>2 DEF Inv, TypeOK
    <3>2. k <= new <=> k <= built
      BY <1>6, <2>2 DEF Limiter
    <3> QED
      BY <3>1, <3>2 DEF Inv, LimiterInv
  <2> QED
    BY <2>1, <2>2
<1>9. RequestInv'
  <2> SUFFICES ASSUME NEW x \in Request
               PROVE  /\ req[x].pc # "idle" => req[x].lim \in 1..new
                      /\ req[x].pc = "asleep" =>
                           req[x].last <= Paid(limiters'[req[x].lim], req[x].at)
                      /\ req[x].pc = "clock" =>
                           /\ limiters'[req[x].lim].startTime <= req[x].at
                           /\ req[x].at <= now
    BY <1>2 DEF RequestInv
  <2>1. req[x].pc # "idle" => req[x].lim \in 1..built
    BY DEF Inv, RequestInv
  <2>2. req[x].pc # "idle" => /\ req[x].lim \in 1..new
                              /\ limiters'[req[x].lim] = limiters[req[x].lim]
    BY <1>5, <1>6, <2>1 DEF Inv, TypeOK, Limiter
  <2> QED
    BY <2>2 DEF Inv, RequestInv
<1>10. \A k \in Limiter : ready'[k] >= ready[k]
  BY <1>2 DEF Inv, TypeOK
<1> QED
  BY <1>7, <1>8, <1>9, <1>10 DEF Inv

\* The passing of time keeps the invariant.
LEMMA AdvanceKeeps ==
    ASSUME Inv, Advance
    PROVE  Inv' /\ \A k \in Limiter : ready'[k] >= ready[k]
<1>1. /\ now' = now + 1 /\ now \in Nat /\ now' \in 0..MaxNow /\ now' \in Int /\ now <= now'
      /\ UNCHANGED <<proxies, limiters, option, built, current, req, calls, taken, ready, handed, crashed>>
  BY RateLimitAssumption DEF Advance, Inv, TypeOK, bucketVars
<1>2. \A l \in Limiter : /\ l > built => level'[l] = level[l]
                         /\ ~(l > built) => level'[l] = Least(limiters[l].capacity,
                              level[l] + (currentTick(limiters[l], now') - currentTick(limiters[l], now))
                                         * limiters[l].quantum)
  BY DEF Advance
<1>3. \A l \in Limiter : l \in 1..built =>
        /\ level'[l] \in Int
        /\ Sound(limiters[l], level'[l], now')
        /\ Books(limiters[l], level'[l], taken[l], ready[l], now')
        /\ handed[l] <= Paid(limiters[l], now')
  <2> SUFFICES ASSUME NEW l \in Limiter, l \in 1..built
               PROVE  /\ level'[l] \in Int
                      /\ Sound(limiters[l], level'[l], now')
                      /\ Books(limiters[l], level'[l], taken[l], ready[l], now')
                      /\ handed[l] <= Paid(limiters[l], now')
    OBVIOUS
  <2>1. /\ limiters[l] \in Bucket /\ level[l] \in Int /\ taken[l] \in Nat /\ ready[l] \in Nat
        /\ handed[l] \in Nat /\ Sound(limiters[l], level[l], now)
        /\ Books(limiters[l], level[l], taken[l], ready[l], now)
        /\ handed[l] <= Paid(limiters[l], now)
    BY OneLimiter
  <2> DEFINE lw == Least(limiters[l].capacity,
                         level[l] + (currentTick(limiters[l], now') - currentTick(limiters[l], now))
                                    * limiters[l].quantum)
  <2>2. lw \in Int /\ Sound(limiters[l], lw, now') /\ Books(limiters[l], lw, taken[l], ready[l], now')
    BY <1>1, <2>1, Elapse
  <2>3. level'[l] = lw
    <3>1. ~(l > built)
      BY DEF Inv, TypeOK, Limiter
    <3> QED
      BY <1>2, <3>1
  <2>4. /\ Paid(limiters[l], now) \in Int /\ Paid(limiters[l], now') \in Int
        /\ Paid(limiters[l], now) <= Paid(limiters[l], now')
    BY <1>1, <2>1, PaidMonotone
  <2> HIDE DEF lw
  <2> QED
    BY <2>1, <2>2, <2>3, <2>4
<1>4. \A l \in Limiter : ~(l > built) => l \in 1..built
  BY DEF Limiter, Inv, TypeOK
<1>5. level' \in [Limiter -> Int]
  <2>1. \A l \in Limiter : level'[l] \in Int
    BY <1>2, <1>3, <1>4 DEF Inv, TypeOK
  <2>2. level' = [l \in Limiter |-> level'[l]]
    BY DEF Advance
  <2> QED
    BY <2>1, <2>2
<1>6. TypeOK'
  BY <1>1, <1>5 DEF Inv, TypeOK
<1>7. LimiterInv'
  <2> SUFFICES ASSUME NEW l \in Limiter
               PROVE  IF l <= built
                      THEN /\ Sound(limiters[l], level'[l], now')
                           /\ Books(limiters[l], level'[l], taken[l], ready[l], now')
                           /\ handed[l] <= Paid(limiters[l], now')
                      ELSE taken[l] = 0 /\ ready[l] = 0 /\ handed[l] = 0
    BY <1>1 DEF LimiterInv
  <2>1. l <= built => l \in 1..built
    BY DEF Limiter, Inv, TypeOK
  <2> QED
    BY <1>3, <2>1 DEF Inv, LimiterInv
<1>8. RequestInv'
  BY <1>1 DEF Inv, TypeOK, RequestInv
<1>9. \A k \in Limiter : ready'[k] >= ready[k]
  BY <1>1 DEF Inv, TypeOK
<1> QED
  BY <1>6, <1>7, <1>8, <1>9 DEF Inv

\* Calls of a limiter keep the invariant.
LEMMA CallKeeps ==
    ASSUME Inv, NEW r \in Request, NEW count \in Count, NEW maxWait \in Nat,
           \/ Wait(r, count) \/ WaitMaxDuration(r, count, maxWait)
           \/ TakeAvailable(r, count)
    PROVE  Inv' /\ \A k \in Limiter : ready'[k] >= ready[k]
<1> DEFINE l == req[r].lim
           tb == limiters[l]
<1>1. req[r].pc = "held"
  BY DEF Wait, WaitMaxDuration, TakeAvailable, Holds
<1>2. l \in 1..built
  BY <1>1 DEF Inv, RequestInv
<1>3. /\ tb \in Bucket /\ level[l] \in Int /\ taken[l] \in Nat /\ ready[l] \in Nat /\ now \in Nat
      /\ Sound(tb, level[l], now) /\ Books(tb, level[l], taken[l], ready[l], now)
  BY <1>2, OneLimiter
<1>4. count \in Nat \ {0} /\ maxWait \in Int /\ Infinity \in Int
  BY RateLimitAssumption DEF Infinity
<1>5. \A u : Refuse(r, u) => \A k \in Limiter : ready'[k] >= ready[k]
  BY DEF Refuse, ghostVars, Inv, TypeOK
<1>6. CASE Wait(r, count)
  <2> DEFINE res == take(tb, now, count, Infinity)
  <2>1. res.ok /\ Grant(r, res.tb, count, res.tick, res.until)
    BY <1>6 DEF Wait
  <2>2. Dealt(tb, res.tb, level[l], taken[l], ready[l], now, count, res.tick, res.until)
    BY <1>3, <1>4, <2>1, TakeDeals
  <2> HIDE DEF res
  <2> QED
    BY <1>1, <1>4, <2>1, <2>2, GrantKeeps
<1>7. CASE WaitMaxDuration(r, count, maxWait)
  <2> DEFINE res == take(tb, now, count, maxWait)
  <2>1. IF res.ok THEN Grant(r, res.tb, count, res.tick, res.until) ELSE Refuse(r, res.tb)
    BY <1>7 DEF WaitMaxDuration
  <2>2. /\ res.ok => Dealt(tb, res.tb, level[l], taken[l], ready[l], now, count, res.tick, res.until)
        /\ ~res.ok => res.tb \in Bucket /\ Same(res.tb, tb) /\ Sound(res.tb, level[l], now)
    BY <1>3, <1>4, TakeDeals
  <2> HIDE DEF res
  <2>3. CASE res.ok
    BY <1>1, <1>4, <2>1, <2>2, <2>3, GrantKeeps
  <2>4. CASE ~res.ok
    BY <1>1, <1>5, <2>1, <2>2, <2>4, RefuseKeeps
  <2> QED
    BY <2>3, <2>4
<1>8. CASE TakeAvailable(r, count)
  <2> DEFINE res == takeAvailable(tb, now, count)
  <2>1. IF res.n > 0 THEN Grant(r, res.tb, res.n, res.tb.latestTick, now) ELSE Refuse(r, res.tb)
    BY <1>8 DEF TakeAvailable
  <2>2. /\ res.n \in Nat /\ res.tb \in Bucket /\ Same(res.tb, tb)
        /\ res.n > 0 => Dealt(tb, res.tb, level[l], taken[l], ready[l], now, res.n, res.tb.latestTick, now)
        /\ ~(res.n > 0) => Sound(res.tb, level[l], now)
    BY <1>3, <1>4, TakeAvailableDeals
  <2> HIDE DEF res
  <2>3. CASE res.n > 0
    <3>1. res.n \in Nat \ {0}
      BY <2>2, <2>3
    <3> QED
      BY <1>1, <2>1, <2>2, <2>3, <3>1, GrantKeeps
  <2>4. CASE ~(res.n > 0)
    BY <1>1, <1>5, <2>1, <2>2, <2>4, RefuseKeeps
  <2> QED
    BY <2>3, <2>4
<1> QED
  BY <1>6, <1>7, <1>8

\* The second half of Available credits a bucket by a clock read earlier.
LEMMA AvailableKeeps ==
    ASSUME Inv, NEW r \in Request, Available(r)
    PROVE  Inv' /\ \A k \in Limiter : ready'[k] >= ready[k]
<1> DEFINE l == req[r].lim
           tb == limiters[l]
           u == adjustavailableTokens(tb, currentTick(tb, req[r].at))
<1>1. req[r].pc = "clock" /\ Refuse(r, u)
  BY DEF Available, Refuse
<1>2. /\ l \in 1..built /\ tb.startTime <= req[r].at /\ req[r].at <= now
      /\ req[r].at \in Int
  BY <1>1 DEF Inv, TypeOK, RequestInv
<1>3. tb \in Bucket /\ now \in Nat /\ Sound(tb, level[l], now)
  BY <1>2, OneLimiter
<1>4. u \in Bucket /\ Same(u, tb) /\ Sound(u, level[l], now)
  BY <1>2, <1>3, AdjustSound
<1> HIDE DEF u
<1>5. Inv'
  BY <1>1, <1>4, RefuseKeeps
<1>6. \A k \in Limiter : ready'[k] >= ready[k]
  BY <1>1 DEF Refuse, ghostVars, Inv, TypeOK
<1> QED
  BY <1>5, <1>6

\* Every step keeps the invariant, and the order of the ticks.
LEMMA NextInv == Inv /\ [Next]_vars => Inv' /\ [\A k \in Limiter : ready'[k] >= ready[k]]_vars
<1> SUFFICES ASSUME Inv, [Next]_vars
             PROVE  Inv' /\ [\A k \in Limiter : ready'[k] >= ready[k]]_vars
  OBVIOUS
<1>1. ASSUME NEW r \in Request, NEW count \in Count, NEW maxWait \in MaxWait,
             WaitMaxDuration(r, count, maxWait)
      PROVE  Inv' /\ \A k \in Limiter : ready'[k] >= ready[k]
  <2>1. maxWait \in Nat
    BY RateLimitAssumption
  <2> QED
    BY <1>1, <2>1, CallKeeps
<1>2. ASSUME NEW r \in Request, NEW count \in Count, Wait(r, count) \/ TakeAvailable(r, count)
      PROVE  Inv' /\ \A k \in Limiter : ready'[k] >= ready[k]
  <2>1. 0 \in Nat
    OBVIOUS
  <2> QED
    BY <1>2, <2>1, CallKeeps
<1>3. ASSUME NEW r \in Request, Available(r)
      PROVE  Inv' /\ \A k \in Limiter : ready'[k] >= ready[k]
  BY <1>3, AvailableKeeps
<1>4. ASSUME NEW r \in Request, Lookup(r) \/ AvailableClock(r) \/ Wake(r)
      PROVE  Inv' /\ \A k \in Limiter : ready'[k] >= ready[k]
  BY <1>4, RequestKeeps
<1>5. CASE Wipe
  <2>1. /\ current' = 0
        /\ UNCHANGED <<now, proxies, limiters, option, built, req, calls, taken, ready, handed, level, crashed>>
    BY <1>5 DEF Wipe, ghostVars
  <2>2. 0 \in 0..built
    BY DEF Inv, TypeOK, Limiter
  <2>3. TypeOK'
    BY <2>1, <2>2 DEF Inv, TypeOK
  <2>4. LimiterInv' /\ RequestInv'
    BY <2>1 DEF Inv, LimiterInv, RequestInv
  <2>5. \A k \in Limiter : ready'[k] >= ready[k]
    BY <2>1 DEF Inv, TypeOK
  <2> QED
    BY <2>3, <2>4, <2>5 DEF Inv
<1>6. CASE Install
  BY <1>6, InstallKeeps
<1>7. CASE Advance
  BY <1>7, AdvanceKeeps
<1>8. CASE UNCHANGED vars
  <2>1. UNCHANGED <<now, proxies, limiters, option, built, current, req, calls, taken, ready,
                    handed, level, crashed>>
    BY <1>8 DEF vars, bucketVars, ghostVars
  <2>2. TypeOK' /\ LimiterInv' /\ RequestInv'
    BY <2>1 DEF Inv, TypeOK, LimiterInv, RequestInv
  <2> QED
    BY <1>8, <2>2 DEF Inv
<1> QED
  BY <1>1, <1>2, <1>3, <1>4, <1>5, <1>6, <1>7, <1>8 DEF Next, RequestStep

-----------------------------------------------------------------------------
(* The theorems.                                                           *)

\* The inductive invariant holds of every behaviour.
THEOREM LimiterInvariant == Spec => []Inv
<1>1. Inv /\ [Next]_vars => Inv'
  BY NextInv
<1> QED
  BY <1>1, InitInv, PTL DEF Spec

\* Type correctness: among others, the tick that endTick promises is never negative.
THEOREM TypeCorrect == Spec => []TypeOK
<1>1. Inv => TypeOK
  BY DEF Inv
<1> QED
  BY <1>1, LimiterInvariant, PTL

\* The lazy bucket of ratelimit.go holds, whenever it is next called, what a bucket
\* credited at every tick would hold: no token is lost to rounding or to a stale clock.
THEOREM LazyBucketsAreEager == Spec => []LazyIsEager
<1>1. Inv => LazyIsEager
  <2> SUFFICES ASSUME Inv, NEW l \in 1..built
               PROVE  adjustavailableTokens(limiters[l], currentTick(limiters[l], now)).availableTokens
                        = level[l]
    BY DEF LazyIsEager
  <2>1. limiters[l] \in Bucket /\ now \in Nat /\ Sound(limiters[l], level[l], now)
    BY OneLimiter
  <2>2. currentTick(limiters[l], now) \in Nat
    BY <2>1, TickType DEF Sound
  <2> QED
    BY <2>1, <2>2, AdjustIsBal DEF Sound
<1> QED
  BY <1>1, LimiterInvariant, PTL

\* The limit holds: what a limiter has let through, sleepers included, was paid for by
\* its capacity and the ticks since it was built.
THEOREM RateIsBounded == Spec => []RateBound
<1>1. Inv => RateBound
  BY OneLimiter DEF RateBound, Paid
<1> QED
  BY <1>1, LimiterInvariant, PTL

\* Tokens taken later are never ready earlier, for any mix of Wait, WaitMaxDuration,
\* TakeAvailable and Available.
THEOREM NobodyOvertakes == Spec => InOrder
<1>1. Inv /\ [Next]_vars => [\A l \in Limiter : ready'[l] >= ready[l]]_vars
  BY NextInv
<1> QED
  BY <1>1, LimiterInvariant, PTL DEF Spec, InOrder
=============================================================================
