--------------------------- MODULE PeerLimitsProofs ---------------------------
(***************************************************************************)
(* Proofs about PeerLimits, for every choice of the constants: the type    *)
(* invariant, the bound on what a window of time lets through, and the     *)
(* refinement of the token bucket.                                         *)
(***************************************************************************)
EXTENDS PeerLimits, TLAPS

(***************************************************************************)
(* Refilling a limiter (RateLimiter::refill) gives a limiter that holds    *)
(* exactly what its eager bucket holds after earning the extra tokens:     *)
(* saturation at MaxU64 never shows below the capacity.                    *)
(***************************************************************************)
LEMMA RefillIsExact ==
  ASSUME NEW l \in Limiter, NEW t \in Nat, NEW extra \in Nat,
         l.tokens <= l.capacity, l.last_refill_time <= t
  PROVE  /\ Refill(l, extra, t) \in Limiter
         /\ Refill(l, extra, t).tokens = Least(l.capacity, Level(l, t) + extra)
         /\ Refill(l, extra, t).tokens <= l.capacity
         /\ Refill(l, extra, t).capacity = l.capacity
         /\ Refill(l, extra, t).refill_per_second = l.refill_per_second
         /\ Refill(l, extra, t).last_refill_time = t
<1> DEFINE credit == Elapsed(l, t) * l.refill_per_second
           new == SaturatingAdd(extra, SaturatingMul(Elapsed(l, t), l.refill_per_second))
           tokens == Least(l.capacity, SaturatingAdd(l.tokens, new))
<1>0. MaxU64 \in Nat
  BY U64Assumption
<1>1. /\ l.capacity \in Nat /\ l.capacity <= MaxU64
      /\ l.tokens \in Nat
      /\ l.refill_per_second \in Nat
      /\ l.last_refill_time \in Nat
  BY <1>0 DEF Limiter, Amount
<1>2. Elapsed(l, t) \in Nat
  BY <1>1 DEF Elapsed
<1>3. credit \in Nat
  BY <1>1, <1>2
<1>4. new = Least(extra + Least(credit, MaxU64), MaxU64)
  BY DEF SaturatingAdd, SaturatingMul
<1>5. Level(l, t) = Least(l.capacity, l.tokens + credit)
  BY DEF Level
<1> HIDE DEF credit, new
<1>6. tokens = Least(l.capacity, Level(l, t) + extra)
  BY <1>0, <1>1, <1>3, <1>4, <1>5 DEF Least, SaturatingAdd
<1>7. tokens \in Amount /\ tokens <= l.capacity
  BY <1>0, <1>1, <1>3, <1>4 DEF Least, SaturatingAdd, Amount
<1>8. Refill(l, extra, t) = [l EXCEPT !.tokens = tokens, !.last_refill_time = t]
  BY DEF Refill, new
<1> HIDE DEF tokens
<1> QED
  BY <1>6, <1>7, <1>8 DEF Limiter

(***************************************************************************)
(* One second later the lazy level is the eager bucket's after one second. *)
(***************************************************************************)
LEMMA LevelAfterSecond ==
  ASSUME NEW l \in Limiter, NEW t \in Nat,
         l.tokens <= l.capacity, l.last_refill_time <= t
  PROVE  /\ Level(l, t) \in Nat
         /\ Level(l, t) <= l.capacity
         /\ Level(l, t + 1) = Least(l.capacity, Level(l, t) + l.refill_per_second)
<1> DEFINE credit == Elapsed(l, t) * l.refill_per_second
           later == Elapsed(l, t + 1) * l.refill_per_second
<1>1. /\ l.capacity \in Nat /\ l.tokens \in Nat
      /\ l.refill_per_second \in Nat /\ l.last_refill_time \in Nat
  BY U64Assumption DEF Limiter, Amount
<1>2. /\ Elapsed(l, t) \in Nat
      /\ Elapsed(l, t + 1) = Elapsed(l, t) + 1
  BY <1>1 DEF Elapsed
<1>3. credit \in Nat /\ later = credit + l.refill_per_second
  BY <1>1, <1>2
<1>4. /\ Level(l, t) = Least(l.capacity, l.tokens + credit)
      /\ Level(l, t + 1) = Least(l.capacity, l.tokens + later)
  BY DEF Level
<1> HIDE DEF credit, later
<1> QED
  BY <1>1, <1>3, <1>4 DEF Least

(***************************************************************************)
(* A limiter that was just refilled stands for a bucket with its tokens.   *)
(***************************************************************************)
LEMMA LevelWhenFresh ==
  ASSUME NEW l \in Limiter, NEW t \in Nat,
         l.tokens <= l.capacity, l.last_refill_time = t
  PROVE  Level(l, t) = l.tokens
<1>1. /\ l.capacity \in Nat /\ l.tokens \in Nat
      /\ l.refill_per_second \in Nat
  BY U64Assumption DEF Limiter, Amount
<1>2. Elapsed(l, t) = 0
  BY DEF Elapsed
<1>3. Elapsed(l, t) * l.refill_per_second = 0
  BY <1>1, <1>2
<1> QED
  BY <1>1, <1>3 DEF Level, Least

(***************************************************************************)
(* An admitted amount is taken from the bucket at its present level        *)
(* (RateLimiter::try_consume).                                             *)
(***************************************************************************)
LEMMA ConsumeSpends ==
  ASSUME NEW l \in Limiter, NEW t \in Nat, NEW amount \in Nat,
         l.tokens <= l.capacity, l.last_refill_time <= t,
         CanConsume(l, amount, t)
  PROVE  /\ amount <= Level(l, t)
         /\ Consume(l, amount, t) \in Limiter
         /\ Consume(l, amount, t).tokens = Level(l, t) - amount
         /\ Consume(l, amount, t).tokens <= l.capacity
         /\ Consume(l, amount, t).capacity = l.capacity
         /\ Consume(l, amount, t).refill_per_second = l.refill_per_second
         /\ Consume(l, amount, t).last_refill_time = t
<1> DEFINE r == Refill(l, 0, t)
<1>1. /\ r \in Limiter
      /\ r.tokens = Least(l.capacity, Level(l, t) + 0)
      /\ r.tokens <= l.capacity
      /\ r.capacity = l.capacity
      /\ r.refill_per_second = l.refill_per_second
      /\ r.last_refill_time = t
  BY RefillIsExact, 0 \in Nat
<1>2. Level(l, t) \in Nat /\ Level(l, t) <= l.capacity
  BY LevelAfterSecond
<1>3. l.capacity \in Nat /\ MaxU64 \in Nat
  BY U64Assumption DEF Limiter, Amount
<1>4. r.tokens = Level(l, t)
  BY <1>1, <1>2, <1>3 DEF Least
<1>5. amount <= r.tokens
  BY DEF CanConsume
<1>6. Consume(l, amount, t) = [r EXCEPT !.tokens = r.tokens - amount]
  BY DEF Consume
<1> HIDE DEF r
<1>7. r.tokens - amount \in Amount /\ r.tokens - amount <= l.capacity
  BY <1>1, <1>3, <1>5 DEF Limiter, Amount
<1> QED
  BY <1>1, <1>4, <1>5, <1>6, <1>7 DEF Limiter

(***************************************************************************)
(* The new rate counts from now on: the level is what it was               *)
(* (RateLimiter::set_rate).                                                *)
(***************************************************************************)
LEMMA SetRateKeepsLevel ==
  ASSUME NEW l \in Limiter, NEW t \in Nat, NEW rate \in Amount,
         l.tokens <= l.capacity, l.last_refill_time <= t
  PROVE  /\ SetRate(l, rate, t) \in Limiter
         /\ SetRate(l, rate, t).tokens = Level(l, t)
         /\ SetRate(l, rate, t).tokens <= l.capacity
         /\ SetRate(l, rate, t).capacity = l.capacity
         /\ SetRate(l, rate, t).refill_per_second = rate
         /\ SetRate(l, rate, t).last_refill_time = t
<1> DEFINE r == Refill(l, 0, t)
<1>1. /\ r \in Limiter
      /\ r.tokens = Least(l.capacity, Level(l, t) + 0)
      /\ r.tokens <= l.capacity
      /\ r.capacity = l.capacity
      /\ r.last_refill_time = t
  BY RefillIsExact, 0 \in Nat
<1>2. Level(l, t) \in Nat /\ Level(l, t) <= l.capacity
  BY LevelAfterSecond
<1>3. l.capacity \in Nat
  BY U64Assumption DEF Limiter, Amount
<1>4. r.tokens = Level(l, t)
  BY <1>1, <1>2, <1>3 DEF Least
<1>5. SetRate(l, rate, t) = [r EXCEPT !.refill_per_second = rate]
  BY DEF SetRate
<1> HIDE DEF r
<1> QED
  BY <1>1, <1>4, <1>5 DEF Limiter

(***************************************************************************)
(* What the auditor of one direction relies on: the bucket never holds     *)
(* more than what the account still allows.                                *)
(***************************************************************************)
Covered(l, t, allowance) ==
  IF l = None THEN allowance = 0 ELSE Level(l, t) <= allowance

Direction(l, t, allowance) ==
  /\ WellFormed(l, t)
  /\ allowance \in Int
  /\ Covered(l, t, allowance)

(***************************************************************************)
(* The inductive invariant.                                                *)
(***************************************************************************)
IInv == /\ now \in Nat
        /\ Direction(outbound, now, outAllowance)
        /\ Direction(inbound, now, inAllowance)

\* One second passes (Tick).
LEMMA DirectionTick ==
  ASSUME NEW l, NEW t \in Nat, NEW allowance, Direction(l, t, allowance)
  PROVE  Direction(l, t + 1, allowance + RateOf(l))
<1>1. CASE l = None
  BY <1>1 DEF Direction, WellFormed, Covered, RateOf
<1>2. CASE l # None
  <2>1. /\ l \in Limiter /\ l.tokens <= l.capacity /\ l.last_refill_time <= t
        /\ allowance \in Int /\ Level(l, t) <= allowance
    BY <1>2 DEF Direction, WellFormed, Covered
  <2>2. /\ Level(l, t) \in Nat
        /\ Level(l, t + 1) = Least(l.capacity, Level(l, t) + l.refill_per_second)
    BY <2>1, LevelAfterSecond
  <2>3. l.refill_per_second \in Nat /\ l.capacity \in Nat /\ l.last_refill_time \in Nat
    BY <2>1, U64Assumption DEF Limiter, Amount
  <2>4. Level(l, t + 1) <= allowance + l.refill_per_second
    BY <2>1, <2>2, <2>3 DEF Least
  <2> QED
    BY <1>2, <2>1, <2>3, <2>4 DEF Direction, WellFormed, Covered, RateOf
<1> QED
  BY <1>1, <1>2

\* A transfer goes through in this direction (try_consume).
LEMMA DirectionConsume ==
  ASSUME NEW l, NEW t \in Nat, NEW allowance, NEW amount \in Nat,
         Direction(l, t, allowance), Admits(l, amount, t)
  PROVE  Direction(AfterConsume(l, amount, t), t, allowance - EarnedBy(l, amount))
<1>1. CASE l = None
  BY <1>1 DEF Direction, WellFormed, Covered, EarnedBy, AfterConsume
<1>2. CASE l # None
  <2> DEFINE c == Consume(l, amount, t)
  <2>1. /\ l \in Limiter /\ l.tokens <= l.capacity /\ l.last_refill_time <= t
        /\ allowance \in Int /\ Level(l, t) <= allowance
        /\ CanConsume(l, amount, t)
    BY <1>2 DEF Direction, WellFormed, Covered, Admits
  <2>2. /\ c \in Limiter /\ c.tokens = Level(l, t) - amount
        /\ c.tokens <= c.capacity /\ c.last_refill_time = t
    BY <2>1, ConsumeSpends
  <2>3. Level(l, t) \in Nat
    BY <2>1, LevelAfterSecond
  <2>4. AfterConsume(l, amount, t) = c /\ EarnedBy(l, amount) = amount
    BY <1>2 DEF AfterConsume, EarnedBy
  <2> HIDE DEF c
  <2>5. Level(c, t) = Level(l, t) - amount
    BY <2>2, LevelWhenFresh
  <2>6. c # None
    BY <2>2, LimiterAssumption
  <2> QED
    BY <2>1, <2>2, <2>3, <2>4, <2>5, <2>6 DEF Direction, WellFormed, Covered
<1> QED
  BY <1>1, <1>2

\* A transfer goes through in the other direction (refill).
LEMMA DirectionRefill ==
  ASSUME NEW l, NEW t \in Nat, NEW allowance, NEW amount \in Nat,
         Direction(l, t, allowance)
  PROVE  Direction(AfterRefill(l, amount, t), t, allowance + EarnedBy(l, amount))
<1>1. CASE l = None
  BY <1>1 DEF Direction, WellFormed, Covered, EarnedBy, AfterRefill
<1>2. CASE l # None
  <2> DEFINE r == Refill(l, amount, t)
  <2>1. /\ l \in Limiter /\ l.tokens <= l.capacity /\ l.last_refill_time <= t
        /\ allowance \in Int /\ Level(l, t) <= allowance
    BY <1>2 DEF Direction, WellFormed, Covered
  <2>2. /\ r \in Limiter /\ r.tokens = Least(l.capacity, Level(l, t) + amount)
        /\ r.tokens <= r.capacity /\ r.last_refill_time = t
    BY <2>1, RefillIsExact
  <2>3. Level(l, t) \in Nat
    BY <2>1, LevelAfterSecond
  <2>4. AfterRefill(l, amount, t) = r /\ EarnedBy(l, amount) = amount
    BY <1>2 DEF AfterRefill, EarnedBy
  <2> HIDE DEF r
  <2>5. Level(r, t) = r.tokens
    BY <2>2, LevelWhenFresh
  <2>6. r # None
    BY <2>2, LimiterAssumption
  <2>7. l.capacity \in Nat
    BY <2>1, U64Assumption DEF Limiter, Amount
  <2>8. Level(r, t) <= allowance + amount
    BY <2>1, <2>2, <2>3, <2>5, <2>7 DEF Least
  <2> QED
    BY <2>1, <2>2, <2>4, <2>6, <2>8 DEF Direction, WellFormed, Covered
<1> QED
  BY <1>1, <1>2

(***************************************************************************)
(* A freshly sized bucket is full (RateLimiter::set_capacity).             *)
(***************************************************************************)
LEMMA SetCapacityFills ==
  ASSUME NEW l \in Limiter, NEW t \in Nat, NEW c \in Amount
  PROVE  /\ SetCapacity(l, c, t) \in Limiter
         /\ SetCapacity(l, c, t).tokens = c
         /\ SetCapacity(l, c, t).capacity = c
         /\ SetCapacity(l, c, t).refill_per_second = l.refill_per_second
         /\ SetCapacity(l, c, t).last_refill_time = t
  BY DEF SetCapacity, Limiter

(***************************************************************************)
(* A limiter that is created starts from the empty default one.            *)
(***************************************************************************)
LEMMA DefaultIsEmpty ==
  ASSUME NEW t \in Nat
  PROVE  /\ DefaultLimiter \in Limiter
         /\ DefaultLimiter.tokens = 0 /\ DefaultLimiter.capacity = 0
         /\ DefaultLimiter.refill_per_second = 0
         /\ DefaultLimiter.last_refill_time <= t
         /\ Level(DefaultLimiter, t) = 0
<1>1. 0 \in Amount
  BY U64Assumption DEF Amount
<1>2. Elapsed(DefaultLimiter, t) \in Nat
  BY DEF Elapsed, DefaultLimiter
<1>3. Elapsed(DefaultLimiter, t) * DefaultLimiter.refill_per_second = 0
  BY <1>2 DEF DefaultLimiter
<1>4. DefaultLimiter.tokens = 0 /\ DefaultLimiter.capacity = 0
  BY DEF DefaultLimiter
<1>5. Level(DefaultLimiter, t) = 0
  BY <1>3, <1>4 DEF Level, Least
<1> QED
  BY <1>1, <1>5 DEF DefaultLimiter, Limiter

\* The admin changes the limiter of this direction (update_rate_limiter).
LEMMA DirectionUpdate ==
  ASSUME NEW l, NEW t \in Nat, NEW allowance,
         NEW params \in RateLimitParams \cup {None},
         Direction(l, t, allowance)
  PROVE  Direction(UpdateLimiter(l, params, t), t, NewAllowance(l, params, allowance))
<1> DEFINE base == IF l = None THEN DefaultLimiter ELSE l
           kept == IF l = None THEN 0 ELSE allowance
           sized == IF params.capacity = None THEN base
                    ELSE SetCapacity(base, params.capacity, t)
           granted == IF params.capacity # None THEN params.capacity ELSE kept
           rated == SetRate(sized, params.refill_per_second, t)
<1>1. CASE params = None
  BY <1>1 DEF UpdateLimiter, NewAllowance, Direction, WellFormed, Covered
<1>2. CASE params # None
  <2>1. /\ base \in Limiter /\ base.tokens <= base.capacity
        /\ base.last_refill_time <= t
        /\ kept \in Int /\ Level(base, t) <= kept
    <3>1. CASE l = None
      BY <3>1, DefaultIsEmpty
    <3>2. CASE l # None
      BY <3>2 DEF Direction, WellFormed, Covered
    <3> QED
      BY <3>1, <3>2
  <2>2. /\ params.capacity \in Amount \cup {None}
        /\ params.refill_per_second \in Amount \cup {None}
    BY <1>2 DEF RateLimitParams
  <2> HIDE DEF base, kept
  <2>3. /\ sized \in Limiter /\ sized.tokens <= sized.capacity
        /\ sized.last_refill_time <= t
        /\ granted \in Int /\ Level(sized, t) <= granted
    <3>1. CASE params.capacity = None
      BY <3>1, <2>1
    <3>2. CASE params.capacity # None
      <4> DEFINE c == params.capacity
                 s == SetCapacity(base, c, t)
      <4>1. c \in Amount /\ sized = s /\ granted = c
        BY <3>2, <2>2
      <4>2. /\ s \in Limiter /\ s.tokens = c /\ s.capacity = c
            /\ s.last_refill_time = t
        BY <4>1, <2>1, SetCapacityFills
      <4> HIDE DEF c, s, sized, granted
      <4>3. c \in Nat
        BY <4>1, U64Assumption DEF Amount
      <4>4. Level(s, t) = c
        BY <4>2, <4>3, LevelWhenFresh
      <4> QED
        BY <4>1, <4>2, <4>3, <4>4
    <3> QED
      BY <3>1, <3>2
  <2>4. NewAllowance(l, params, allowance) = granted
    BY <1>2 DEF NewAllowance, kept
  <2>5. UpdateLimiter(l, params, t) =
          IF params.refill_per_second = None THEN sized ELSE rated
    BY <1>2 DEF UpdateLimiter, base
  <2> HIDE DEF sized, granted
  <2>6. CASE params.refill_per_second = None
    BY <2>3, <2>4, <2>5, <2>6, LimiterAssumption DEF Direction, WellFormed, Covered
  <2>7. CASE params.refill_per_second # None
    <3>1. params.refill_per_second \in Amount
      BY <2>2, <2>7
    <3>2. /\ rated \in Limiter /\ rated.tokens = Level(sized, t)
          /\ rated.tokens <= rated.capacity /\ rated.last_refill_time = t
      BY <2>3, <3>1, SetRateKeepsLevel
    <3>3. UpdateLimiter(l, params, t) = rated
      BY <2>5, <2>7
    <3> HIDE DEF rated
    <3>4. Level(rated, t) = rated.tokens
      BY <3>2, LevelWhenFresh
    <3>5. rated # None
      BY <3>2, LimiterAssumption
    <3>6. Level(rated, t) <= granted
      BY <2>3, <3>2, <3>4
    <3> QED
      BY <2>3, <2>4, <3>2, <3>3, <3>5, <3>6 DEF Direction, WellFormed, Covered
  <2> QED
    BY <2>6, <2>7
<1> QED
  BY <1>1, <1>2

\* The auditor starts to measure this direction (OpenWindow).
LEMMA DirectionOpenWindow ==
  ASSUME NEW l, NEW t \in Nat, NEW allowance, Direction(l, t, allowance)
  PROVE  Direction(l, t, IF l = None THEN 0 ELSE l.capacity)
<1>1. CASE l = None
  BY <1>1 DEF Direction, WellFormed, Covered
<1>2. CASE l # None
  <2>1. /\ l \in Limiter /\ l.tokens <= l.capacity /\ l.last_refill_time <= t
    BY <1>2 DEF Direction, WellFormed
  <2>2. Level(l, t) <= l.capacity
    BY <2>1, LevelAfterSecond
  <2>3. l.capacity \in Int
    BY <2>1, U64Assumption DEF Limiter, Amount
  <2> QED
    BY <1>2, <2>1, <2>2, <2>3 DEF Direction, WellFormed, Covered
<1> QED
  BY <1>1, <1>2

LEMMA IInvInit == Init => IInv
  BY DEF Init, IInv, Direction, WellFormed, Covered

LEMMA IInvNext == IInv /\ [Next]_vars => IInv'
<1> SUFFICES ASSUME IInv, [Next]_vars
             PROVE  IInv'
  OBVIOUS
<1> USE DEF IInv
<1>1. CASE Tick
  <2>1. /\ Direction(outbound, now + 1, outAllowance + RateOf(outbound))
        /\ Direction(inbound, now + 1, inAllowance + RateOf(inbound))
    BY DirectionTick
  <2> QED
    BY <1>1, <2>1 DEF Tick
<1>2. CASE OpenWindow
  <2>1. /\ Direction(outbound, now, IF outbound = None THEN 0 ELSE outbound.capacity)
        /\ Direction(inbound, now, IF inbound = None THEN 0 ELSE inbound.capacity)
    BY DirectionOpenWindow
  <2> QED
    BY <1>2, <2>1 DEF OpenWindow
<1>3. ASSUME NEW amount \in Flows, Send(amount)
      PROVE  IInv'
  <2>1. amount \in Nat
    BY PeerLimitsAssumption, U64Assumption DEF Amount
  <2>2. Admits(outbound, amount, now)
    BY <1>3 DEF Send
  <2>3. Direction(AfterConsume(outbound, amount, now), now,
                  outAllowance - EarnedBy(outbound, amount))
    BY <2>1, <2>2, DirectionConsume
  <2>4. Direction(AfterRefill(inbound, amount, now), now,
                  inAllowance + EarnedBy(inbound, amount))
    BY <2>1, DirectionRefill
  <2> QED
    BY <1>3, <2>3, <2>4 DEF Send
<1>4. ASSUME NEW amount \in Flows, LzReceive(amount)
      PROVE  IInv'
  <2>1. amount \in Nat
    BY PeerLimitsAssumption, U64Assumption DEF Amount
  <2>2. Admits(inbound, amount, now)
    BY <1>4 DEF LzReceive
  <2>3. Direction(AfterConsume(inbound, amount, now), now,
                  inAllowance - EarnedBy(inbound, amount))
    BY <2>1, <2>2, DirectionConsume
  <2>4. Direction(AfterRefill(outbound, amount, now), now,
                  outAllowance + EarnedBy(outbound, amount))
    BY <2>1, DirectionRefill
  <2> QED
    BY <1>4, <2>3, <2>4 DEF LzReceive
<1>5. ASSUME NEW params \in ParamChoices, SetOutboundRateLimit(params)
      PROVE  IInv'
  <2>1. params \in RateLimitParams \cup {None}
    BY PeerLimitsAssumption
  <2>2. Direction(UpdateLimiter(outbound, params, now), now,
                  NewAllowance(outbound, params, outAllowance))
    BY <2>1, DirectionUpdate
  <2> QED
    BY <1>5, <2>2 DEF SetOutboundRateLimit
<1>6. ASSUME NEW params \in ParamChoices, SetInboundRateLimit(params)
      PROVE  IInv'
  <2>1. params \in RateLimitParams \cup {None}
    BY PeerLimitsAssumption
  <2>2. Direction(UpdateLimiter(inbound, params, now), now,
                  NewAllowance(inbound, params, inAllowance))
    BY <2>1, DirectionUpdate
  <2> QED
    BY <1>6, <2>2 DEF SetInboundRateLimit
<1>7. CASE UNCHANGED vars
  BY <1>7 DEF vars
<1> QED
  BY <1>1, <1>2, <1>3, <1>4, <1>5, <1>6, <1>7 DEF Next

\* The level of a bucket is never negative, so neither is what covers it.
LEMMA CoveredNonNegative ==
  ASSUME NEW l, NEW t \in Nat, NEW allowance, Direction(l, t, allowance)
  PROVE  allowance >= 0
<1>1. CASE l = None
  BY <1>1 DEF Direction, Covered
<1>2. CASE l # None
  <2>1. Level(l, t) \in Nat
    BY <1>2, LevelAfterSecond DEF Direction, WellFormed
  <2> QED
    BY <1>2, <2>1 DEF Direction, Covered
<1> QED
  BY <1>1, <1>2

LEMMA IInvImplies == IInv => TypeOK /\ OutboundWithinAllowance /\ InboundWithinAllowance
<1> SUFFICES ASSUME IInv
             PROVE  TypeOK /\ OutboundWithinAllowance /\ InboundWithinAllowance
  OBVIOUS
<1>1. TypeOK
  BY DEF IInv, Direction, TypeOK
<1>2. outAllowance >= 0 /\ inAllowance >= 0
  BY CoveredNonNegative DEF IInv
<1> QED
  BY <1>1, <1>2 DEF OutboundWithinAllowance, InboundWithinAllowance

(***************************************************************************)
(* The inductive invariant holds in every reachable state.                 *)
(***************************************************************************)
THEOREM Inductive == Spec => []IInv
<1>1. Init => IInv
  BY IInvInit
<1>2. IInv /\ [Next]_vars => IInv'
  BY IInvNext
<1> QED
  BY <1>1, <1>2, PTL DEF Spec

(***************************************************************************)
(* Type correctness of the two limiters: the tokens fit the capacity and   *)
(* no clock is ahead of the chain's.                                       *)
(***************************************************************************)
THEOREM TypeCorrect == Spec => []TypeOK
  BY Inductive, IInvImplies, PTL

(***************************************************************************)
(* In no window of time does a direction let more through than its         *)
(* capacity, its rate times the window and the opposite flow allow: for    *)
(* every capacity, rate, amount and time.                                  *)
(***************************************************************************)
THEOREM WithinAllowance ==
  Spec => [](OutboundWithinAllowance /\ InboundWithinAllowance)
  BY Inductive, IInvImplies, PTL

(***************************************************************************)
(* The same for the inbound direction by itself (try_consume in           *)
(* lz_receive.rs).                                                         *)
(***************************************************************************)
THEOREM InboundHolds == Spec => []InboundWithinAllowance
  BY Inductive, IInvImplies, PTL

-----------------------------------------------------------------------------
(***************************************************************************)
(* The refinement.  Bucket(c, r, n) is a bucket of the abstract            *)
(* specification; each lemma says what an operation of the limiter does    *)
(* to the bucket it stands for.                                            *)
(***************************************************************************)
Bucket(c, r, n) == [capacity |-> c, rate |-> r, level |-> n]

LEMMA BucketOfFresh ==
  ASSUME NEW l \in Limiter, NEW t \in Nat,
         l.tokens <= l.capacity, l.last_refill_time = t
  PROVE  AsBucket(l, t) = Bucket(l.capacity, l.refill_per_second, l.tokens)
<1>1. l # None
  BY LimiterAssumption
<1>2. Level(l, t) = l.tokens
  BY LevelWhenFresh
<1> QED
  BY <1>1, <1>2 DEF AsBucket, Bucket

LEMMA BucketOfLimiter ==
  ASSUME NEW l, NEW t \in Nat, WellFormed(l, t), l # None
  PROVE  /\ l \in Limiter
         /\ l.capacity \in Nat /\ l.refill_per_second \in Nat
         /\ l.capacity \in Amount /\ l.refill_per_second \in Amount
         /\ Level(l, t) \in Nat /\ Level(l, t) <= l.capacity
         /\ AsBucket(l, t) = Bucket(l.capacity, l.refill_per_second, Level(l, t))
         /\ AsBucket(l, t) # None
<1>1. l \in Limiter /\ l.tokens <= l.capacity /\ l.last_refill_time <= t
  BY DEF WellFormed
<1>2. /\ l.capacity \in Nat /\ l.refill_per_second \in Nat
      /\ l.capacity \in Amount /\ l.refill_per_second \in Amount
  BY <1>1, U64Assumption DEF Limiter, Amount
<1>3. Level(l, t) \in Nat /\ Level(l, t) <= l.capacity
  BY <1>1, LevelAfterSecond
<1>4. AsBucket(l, t) = Bucket(l.capacity, l.refill_per_second, Level(l, t))
  BY DEF AsBucket, Bucket
<1>5. Level(l, t) \in Amount
  BY <1>2, <1>3, U64Assumption DEF Amount
<1>6. Bucket(l.capacity, l.refill_per_second, Level(l, t)) # None
  BY <1>2, <1>5, PeerLimitsAssumption DEF Bucket
<1> QED
  BY <1>1, <1>2, <1>3, <1>4, <1>6

LEMMA BucketTick ==
  ASSUME NEW l, NEW t \in Nat, WellFormed(l, t), l # None
  PROVE  AsBucket(l, t + 1) =
           Bucket(l.capacity, l.refill_per_second,
                  Least(l.capacity, Level(l, t) + l.refill_per_second))
<1>1. l \in Limiter /\ l.tokens <= l.capacity /\ l.last_refill_time <= t
  BY DEF WellFormed
<1>2. Level(l, t + 1) = Least(l.capacity, Level(l, t) + l.refill_per_second)
  BY <1>1, LevelAfterSecond
<1> QED
  BY <1>2 DEF AsBucket, Bucket

LEMMA BucketConsume ==
  ASSUME NEW l, NEW t \in Nat, WellFormed(l, t), l # None,
         NEW amount \in Nat, CanConsume(l, amount, t)
  PROVE  /\ amount <= Level(l, t)
         /\ AsBucket(Consume(l, amount, t), t) =
              Bucket(l.capacity, l.refill_per_second, Level(l, t) - amount)
<1> DEFINE c == Consume(l, amount, t)
<1>1. /\ amount <= Level(l, t)
      /\ c \in Limiter /\ c.tokens = Level(l, t) - amount
      /\ c.tokens <= l.capacity /\ c.capacity = l.capacity
      /\ c.refill_per_second = l.refill_per_second /\ c.last_refill_time = t
  BY ConsumeSpends DEF WellFormed
<1> HIDE DEF c
<1>2. AsBucket(c, t) = Bucket(c.capacity, c.refill_per_second, c.tokens)
  BY <1>1, BucketOfFresh
<1> QED
  BY <1>1, <1>2 DEF c

LEMMA BucketRefill ==
  ASSUME NEW l, NEW t \in Nat, WellFormed(l, t), l # None, NEW amount \in Nat
  PROVE  AsBucket(Refill(l, amount, t), t) =
           Bucket(l.capacity, l.refill_per_second,
                  Least(l.capacity, Level(l, t) + amount))
<1> DEFINE r == Refill(l, amount, t)
<1>1. /\ r \in Limiter /\ r.tokens = Least(l.capacity, Level(l, t) + amount)
      /\ r.tokens <= l.capacity /\ r.capacity = l.capacity
      /\ r.refill_per_second = l.refill_per_second /\ r.last_refill_time = t
  BY RefillIsExact DEF WellFormed
<1> HIDE DEF r
<1>2. AsBucket(r, t) = Bucket(r.capacity, r.refill_per_second, r.tokens)
  BY <1>1, BucketOfFresh
<1> QED
  BY <1>1, <1>2 DEF r

\* An update installs a full bucket, changes the rate of the one there is,
\* leaves it alone or removes it.
LEMMA BucketUpdate ==
  ASSUME NEW l, NEW t \in Nat, WellFormed(l, t),
         NEW params \in RateLimitParams \cup {None}, NEW allowance
  PROVE  LET b == AsBucket(UpdateLimiter(l, params, t), t)
             n == NewAllowance(l, params, allowance)
         IN  \/ b = None /\ n = 0
             \/ b = AsBucket(l, t) /\ n = allowance
             \/ \E c, r \in Amount : b = Bucket(c, r, c) /\ n = c
             \/ /\ l # None /\ n = allowance
                /\ \E r \in Amount : b = Bucket(l.capacity, r, Level(l, t))
<1> DEFINE base == IF l = None THEN DefaultLimiter ELSE l
           sized == IF params.capacity = None THEN base
                    ELSE SetCapacity(base, params.capacity, t)
           rated == SetRate(sized, params.refill_per_second, t)
           u == UpdateLimiter(l, params, t)
           n == NewAllowance(l, params, allowance)
<1>1. CASE params = None
  BY <1>1 DEF UpdateLimiter, NewAllowance, AsBucket
<1>2. CASE params # None
  <2>1. /\ params.capacity \in Amount \cup {None}
        /\ params.refill_per_second \in Amount \cup {None}
    BY <1>2 DEF RateLimitParams
  <2>2. u = IF params.refill_per_second = None THEN sized ELSE rated
    BY <1>2 DEF UpdateLimiter
  <2>3. /\ base \in Limiter /\ base.tokens <= base.capacity
        /\ base.last_refill_time <= t
        /\ base.refill_per_second \in Amount /\ base.capacity \in Amount
    BY DefaultIsEmpty DEF WellFormed, Limiter
  \* Either the bucket is full after the capacity was dealt with, or it is the
  \* one there was.
  <2>4. /\ sized \in Limiter /\ sized.tokens <= sized.capacity
        /\ sized.last_refill_time <= t
        /\ sized.refill_per_second \in Amount /\ sized.capacity \in Amount
        /\ \/ Level(sized, t) = sized.capacity /\ n = sized.capacity
           \/ l # None /\ sized = l /\ n = allowance
    <3>0. n = IF params.capacity # None THEN params.capacity
              ELSE IF l = None THEN 0 ELSE allowance
      BY <1>2 DEF NewAllowance
    <3> HIDE DEF n
    <3>1. CASE params.capacity = None /\ l = None
      <4>1. sized = DefaultLimiter
        BY <3>1
      <4> QED
        BY <4>1, <2>3, <3>0, <3>1, DefaultIsEmpty
    <3>2. CASE params.capacity = None /\ l # None
      BY <3>0, <3>2, <2>3
    <3>3. CASE params.capacity # None
      <4> DEFINE c == params.capacity
                 s == SetCapacity(base, c, t)
      <4>1. c \in Amount /\ sized = s /\ n = c
        BY <3>0, <3>3, <2>1
      <4> HIDE DEF base, c
      <4>2. /\ s \in Limiter /\ s.tokens = c /\ s.capacity = c
            /\ s.refill_per_second = base.refill_per_second
            /\ s.last_refill_time = t
        BY <4>1, <2>3, SetCapacityFills
      <4> HIDE DEF s, sized
      <4>3. c \in Nat
        BY <4>1, U64Assumption DEF Amount
      <4>4. Level(s, t) = c
        BY <4>2, <4>3, LevelWhenFresh
      <4> QED
        BY <4>1, <4>2, <4>3, <4>4, <2>3
    <3> QED
      BY <3>1, <3>2, <3>3
  <2> HIDE DEF sized, base, n
  <2>5. sized # None
    BY <2>4, LimiterAssumption
  <2>6. CASE params.refill_per_second = None
    <3>1. u = sized
      BY <2>2, <2>6
    <3>2. AsBucket(sized, t) =
            Bucket(sized.capacity, sized.refill_per_second, Level(sized, t))
      BY <2>5 DEF AsBucket, Bucket
    <3> QED
      BY <2>4, <3>1, <3>2 DEF n
  <2>7. CASE params.refill_per_second # None
    <3> DEFINE r == params.refill_per_second
    <3>1. r \in Amount /\ u = rated
      BY <2>1, <2>2, <2>7
    <3>2. /\ rated \in Limiter /\ rated.tokens = Level(sized, t)
          /\ rated.tokens <= rated.capacity
          /\ rated.capacity = sized.capacity /\ rated.refill_per_second = r
          /\ rated.last_refill_time = t
      BY <2>4, <3>1, SetRateKeepsLevel
    <3> HIDE DEF rated, r, u
    <3>3. AsBucket(rated, t) = Bucket(sized.capacity, r, Level(sized, t))
      BY <3>2, BucketOfFresh
    <3> QED
      BY <2>4, <3>1, <3>3 DEF u, n
  <2> QED
    BY <2>6, <2>7
<1> QED
  BY <1>1, <1>2

(***************************************************************************)
(* The ways in which a step may change a bucket b and its account a, to c  *)
(* and d: each is an action of the abstract specification.                 *)
(***************************************************************************)
Fill(b, n) == Bucket(b.capacity, b.rate, Least(b.capacity, b.level + n))

BucketStep(b, a, c, d) ==
  \/ c = b /\ d = a
  \/ c = None /\ d = 0
  \/ c = b /\ d = IF b = None THEN 0 ELSE b.capacity
  \/ b # None /\ c = Fill(b, b.rate) /\ d = a + b.rate
  \/ b # None /\ \E n \in Amount : c = Fill(b, n) /\ d = a + n
  \/ b # None /\ \E n \in Amount : /\ n <= b.level
                                   /\ c = Bucket(b.capacity, b.rate, b.level - n)
                                   /\ d = a - n
  \/ b # None /\ d = a /\ \E r \in Amount : c = Bucket(b.capacity, r, b.level)
  \/ \E m, r \in Amount : c = Bucket(m, r, m) /\ d = m

LEMMA TickStep ==
  ASSUME NEW l, NEW t \in Nat, WellFormed(l, t), NEW a \in Int
  PROVE  BucketStep(AsBucket(l, t), a, AsBucket(l, t + 1), a + RateOf(l))
<1>1. CASE l = None
  BY <1>1 DEF AsBucket, BucketStep, RateOf
<1>2. CASE l # None
  BY <1>2, BucketOfLimiter, BucketTick DEF BucketStep, Fill, Bucket, RateOf
<1> QED
  BY <1>1, <1>2

LEMMA ConsumeStep ==
  ASSUME NEW l, NEW t \in Nat, WellFormed(l, t), NEW a \in Int,
         NEW amount \in Amount, Admits(l, amount, t)
  PROVE  BucketStep(AsBucket(l, t), a, AsBucket(AfterConsume(l, amount, t), t),
                    a - EarnedBy(l, amount))
<1>1. CASE l = None
  BY <1>1 DEF AsBucket, BucketStep, AfterConsume, EarnedBy
<1>2. CASE l # None
  <2>1. amount \in Nat
    BY U64Assumption DEF Amount
  <2>2. /\ amount <= Level(l, t)
        /\ AsBucket(AfterConsume(l, amount, t), t) =
             Bucket(l.capacity, l.refill_per_second, Level(l, t) - amount)
    BY <1>2, <2>1, BucketConsume DEF Admits, AfterConsume
  <2> QED
    BY <1>2, <2>2, BucketOfLimiter DEF BucketStep, Bucket, EarnedBy
<1> QED
  BY <1>1, <1>2

LEMMA RefillStep ==
  ASSUME NEW l, NEW t \in Nat, WellFormed(l, t), NEW a \in Int, NEW amount \in Amount
  PROVE  BucketStep(AsBucket(l, t), a, AsBucket(AfterRefill(l, amount, t), t),
                    a + EarnedBy(l, amount))
<1>1. CASE l = None
  BY <1>1 DEF AsBucket, BucketStep, AfterRefill, EarnedBy
<1>2. CASE l # None
  <2>1. amount \in Nat
    BY U64Assumption DEF Amount
  <2>2. AsBucket(AfterRefill(l, amount, t), t) =
          Bucket(l.capacity, l.refill_per_second, Least(l.capacity, Level(l, t) + amount))
    BY <1>2, <2>1, BucketRefill DEF AfterRefill
  <2> QED
    BY <1>2, <2>2, BucketOfLimiter DEF BucketStep, Fill, Bucket, EarnedBy
<1> QED
  BY <1>1, <1>2

LEMMA UpdateStep ==
  ASSUME NEW l, NEW t \in Nat, WellFormed(l, t), NEW a \in Int,
         NEW params \in RateLimitParams \cup {None}
  PROVE  BucketStep(AsBucket(l, t), a, AsBucket(UpdateLimiter(l, params, t), t),
                    NewAllowance(l, params, a))
<1> DEFINE b == AsBucket(l, t)
           c == AsBucket(UpdateLimiter(l, params, t), t)
           d == NewAllowance(l, params, a)
<1>1. \/ c = None /\ d = 0
      \/ c = b /\ d = a
      \/ \E m, r \in Amount : c = Bucket(m, r, m) /\ d = m
      \/ /\ l # None /\ d = a
         /\ \E r \in Amount : c = Bucket(l.capacity, r, Level(l, t))
  BY BucketUpdate
<1>2. l # None => b # None /\ b = Bucket(l.capacity, l.refill_per_second, Level(l, t))
  BY BucketOfLimiter
<1> SUFFICES BucketStep(b, a, c, d)
  OBVIOUS
<1> HIDE DEF b, c, d
<1>3. CASE c = None /\ d = 0
  BY <1>3 DEF BucketStep
<1>4. CASE c = b /\ d = a
  BY <1>4 DEF BucketStep
<1>5. CASE \E m, r \in Amount : c = Bucket(m, r, m) /\ d = m
  BY <1>5 DEF BucketStep
<1>6. CASE /\ l # None /\ d = a
           /\ \E r \in Amount : c = Bucket(l.capacity, r, Level(l, t))
  <2>1. b.capacity = l.capacity /\ b.level = Level(l, t)
    BY <1>2, <1>6 DEF Bucket
  <2>2. b # None /\ d = a /\ \E r \in Amount : c = Bucket(b.capacity, r, b.level)
    BY <1>2, <1>6, <2>1
  <2> QED
    BY <2>2 DEF BucketStep
<1> QED
  BY <1>1, <1>3, <1>4, <1>5, <1>6

LEMMA OpenWindowStep ==
  ASSUME NEW l, NEW t \in Nat, WellFormed(l, t), NEW a
  PROVE  BucketStep(AsBucket(l, t), a, AsBucket(l, t),
                    IF l = None THEN 0 ELSE l.capacity)
<1>1. CASE l = None
  BY <1>1 DEF AsBucket, BucketStep
<1>2. CASE l # None
  BY <1>2, BucketOfLimiter DEF BucketStep, Bucket
<1> QED
  BY <1>1, <1>2

\* Every step of the program, of the clock and of the auditor is such a change,
\* for the outbound and for the inbound limiter.
StepOfBoth ==
  /\ BucketStep(AsBucket(outbound, now), outAllowance,
                AsBucket(outbound, now)', outAllowance')
  /\ BucketStep(AsBucket(inbound, now), inAllowance,
                AsBucket(inbound, now)', inAllowance')

LEMMA StepOfBuckets ==
  ASSUME IInv, [Next]_vars
  PROVE  StepOfBoth
<1>1. /\ now \in Nat /\ WellFormed(outbound, now) /\ WellFormed(inbound, now)
      /\ outAllowance \in Int /\ inAllowance \in Int
  BY DEF IInv, Direction
<1>2. CASE Tick
  BY <1>1, <1>2, TickStep DEF Tick, StepOfBoth
<1>3. CASE OpenWindow
  BY <1>1, <1>3, OpenWindowStep DEF OpenWindow, StepOfBoth
<1>4. ASSUME NEW amount \in Flows, Send(amount)
      PROVE  StepOfBoth
  <2>1. amount \in Amount /\ Admits(outbound, amount, now)
    BY <1>4, PeerLimitsAssumption DEF Send
  <2>2. /\ BucketStep(AsBucket(outbound, now), outAllowance,
                      AsBucket(AfterConsume(outbound, amount, now), now),
                      outAllowance - EarnedBy(outbound, amount))
        /\ BucketStep(AsBucket(inbound, now), inAllowance,
                      AsBucket(AfterRefill(inbound, amount, now), now),
                      inAllowance + EarnedBy(inbound, amount))
    BY <1>1, <2>1, ConsumeStep, RefillStep
  <2> QED
    BY <1>4, <2>2 DEF Send, StepOfBoth
<1>5. ASSUME NEW amount \in Flows, LzReceive(amount)
      PROVE  StepOfBoth
  <2>1. amount \in Amount /\ Admits(inbound, amount, now)
    BY <1>5, PeerLimitsAssumption DEF LzReceive
  <2>2. /\ BucketStep(AsBucket(inbound, now), inAllowance,
                      AsBucket(AfterConsume(inbound, amount, now), now),
                      inAllowance - EarnedBy(inbound, amount))
        /\ BucketStep(AsBucket(outbound, now), outAllowance,
                      AsBucket(AfterRefill(outbound, amount, now), now),
                      outAllowance + EarnedBy(outbound, amount))
    BY <1>1, <2>1, ConsumeStep, RefillStep
  <2> QED
    BY <1>5, <2>2 DEF LzReceive, StepOfBoth
<1>6. ASSUME NEW params \in ParamChoices, SetOutboundRateLimit(params)
      PROVE  StepOfBoth
  <2>1. BucketStep(AsBucket(outbound, now), outAllowance,
                   AsBucket(UpdateLimiter(outbound, params, now), now),
                   NewAllowance(outbound, params, outAllowance))
    BY <1>1, PeerLimitsAssumption, UpdateStep
  <2>2. BucketStep(AsBucket(inbound, now), inAllowance, AsBucket(inbound, now), inAllowance)
    BY DEF BucketStep
  <2> QED
    BY <1>6, <2>1, <2>2 DEF SetOutboundRateLimit, StepOfBoth
<1>7. ASSUME NEW params \in ParamChoices, SetInboundRateLimit(params)
      PROVE  StepOfBoth
  <2>1. BucketStep(AsBucket(inbound, now), inAllowance,
                   AsBucket(UpdateLimiter(inbound, params, now), now),
                   NewAllowance(inbound, params, inAllowance))
    BY <1>1, PeerLimitsAssumption, UpdateStep
  <2>2. BucketStep(AsBucket(outbound, now), outAllowance,
                   AsBucket(outbound, now), outAllowance)
    BY DEF BucketStep
  <2> QED
    BY <1>7, <2>1, <2>2 DEF SetInboundRateLimit, StepOfBoth
<1>8. CASE UNCHANGED vars
  BY <1>8 DEF vars, BucketStep, StepOfBoth
<1> QED
  BY <1>2, <1>3, <1>4, <1>5, <1>6, <1>7, <1>8 DEF Next

\* The buckets that limiters stand for have natural capacities and levels.
LEMMA BucketShape ==
  ASSUME NEW l, NEW t \in Nat, WellFormed(l, t)
  PROVE  AsBucket(l, t) = None \/
           \E c, r, n \in Nat : AsBucket(l, t) = Bucket(c, r, n)
<1>1. CASE l = None
  BY <1>1 DEF AsBucket
<1>2. CASE l # None
  BY <1>2, BucketOfLimiter
<1> QED
  BY <1>1, <1>2

LEMMA OutboundStep ==
  ASSUME IInv, [Next]_vars
  PROVE  [OutBucket!Next]_(OutBucket!vars)
<1> DEFINE b == AsBucket(outbound, now)
           a == outAllowance
<1>1. BucketStep(b, a, b', a')
  BY StepOfBuckets DEF StepOfBoth
<1>2. b = None \/ \E c, r, n \in Nat : b = Bucket(c, r, n)
  BY BucketShape DEF IInv, Direction
<1> HIDE DEF b, a
<1>3. CASE b' = b /\ a' = a
  BY <1>3 DEF b, a, OutBucket!vars
<1>4. CASE b' = None /\ a' = 0
  BY <1>4 DEF b, a, OutBucket!Next, OutBucket!Remove
<1>5. CASE b' = b /\ a' = IF b = None THEN 0 ELSE b.capacity
  BY <1>5 DEF b, a, OutBucket!Next, OutBucket!OpenWindow
<1>6. CASE b # None /\ b' = Fill(b, b.rate) /\ a' = a + b.rate
  <2>1. OutBucket!Second
    BY <1>2, <1>6 DEF b, a, OutBucket!Second, OutBucket!Filled, Fill, Bucket, Least
  <2> QED
    BY <2>1 DEF OutBucket!Next
<1>7. CASE b # None /\ \E n \in Amount : b' = Fill(b, n) /\ a' = a + n
  <2>1. PICK n \in Amount : b' = Fill(b, n) /\ a' = a + n
    BY <1>7
  <2>2. n \in Nat
    BY U64Assumption DEF Amount
  <2>3. OutBucket!Earn(n)
    BY <1>2, <1>7, <2>1, <2>2
    DEF b, a, OutBucket!Earn, OutBucket!Filled, Fill, Bucket, Least
  <2> QED
    BY <2>3 DEF OutBucket!Next
<1>8. CASE b # None /\ \E n \in Amount : /\ n <= b.level
                                         /\ b' = Bucket(b.capacity, b.rate, b.level - n)
                                         /\ a' = a - n
  <2>1. PICK n \in Amount : /\ n <= b.level
                            /\ b' = Bucket(b.capacity, b.rate, b.level - n)
                            /\ a' = a - n
    BY <1>8
  <2>2. OutBucket!Spend(n)
    BY <1>2, <1>8, <2>1 DEF b, a, OutBucket!Spend, Bucket
  <2> QED
    BY <2>2 DEF OutBucket!Next
<1>9. CASE b # None /\ a' = a /\ \E r \in Amount : b' = Bucket(b.capacity, r, b.level)
  <2>1. PICK r \in Amount : b' = Bucket(b.capacity, r, b.level)
    BY <1>9
  <2>2. OutBucket!ChangeRate(r)
    BY <1>2, <1>9, <2>1 DEF b, a, OutBucket!ChangeRate, Bucket
  <2> QED
    BY <2>2 DEF OutBucket!Next
<1>10. CASE \E m, r \in Amount : b' = Bucket(m, r, m) /\ a' = m
  BY <1>10 DEF b, a, OutBucket!Next, OutBucket!Install, OutBucket!Full, Bucket
<1> QED
  BY <1>1, <1>3, <1>4, <1>5, <1>6, <1>7, <1>8, <1>9, <1>10 DEF BucketStep

(***************************************************************************)
(* The outbound limiter of a peer, filled lazily and with saturating       *)
(* arithmetic, implements the eager token bucket, amount by amount.        *)
(***************************************************************************)
THEOREM OutboundRefinement == Spec => OutboundIsTokenBucket
<1>1. Init => OutBucket!Init
  BY DEF Init, OutBucket!Init, AsBucket
<1>2. IInv /\ [Next]_vars => [OutBucket!Next]_(OutBucket!vars)
  BY OutboundStep
<1> QED
  BY <1>1, <1>2, Inductive, PTL DEF Spec, OutboundIsTokenBucket, OutBucket!Spec

LEMMA InboundStep ==
  ASSUME IInv, [Next]_vars
  PROVE  [InBucket!Next]_(InBucket!vars)
<1> DEFINE b == AsBucket(inbound, now)
           a == inAllowance
<1>1. BucketStep(b, a, b', a')
  BY StepOfBuckets DEF StepOfBoth
<1>2. b = None \/ \E c, r, n \in Nat : b = Bucket(c, r, n)
  BY BucketShape DEF IInv, Direction
<1> HIDE DEF b, a
<1>3. CASE b' = b /\ a' = a
  BY <1>3 DEF b, a, InBucket!vars
<1>4. CASE b' = None /\ a' = 0
  BY <1>4 DEF b, a, InBucket!Next, InBucket!Remove
<1>5. CASE b' = b /\ a' = IF b = None THEN 0 ELSE b.capacity
  BY <1>5 DEF b, a, InBucket!Next, InBucket!OpenWindow
<1>6. CASE b # None /\ b' = Fill(b, b.rate) /\ a' = a + b.rate
  <2>1. InBucket!Second
    BY <1>2, <1>6 DEF b, a, InBucket!Second, InBucket!Filled, Fill, Bucket, Least
  <2> QED
    BY <2>1 DEF InBucket!Next
<1>7. CASE b # None /\ \E n \in Amount : b' = Fill(b, n) /\ a' = a + n
  <2>1. PICK n \in Amount : b' = Fill(b, n) /\ a' = a + n
    BY <1>7
  <2>2. n \in Nat
    BY U64Assumption DEF Amount
  <2>3. InBucket!Earn(n)
    BY <1>2, <1>7, <2>1, <2>2
    DEF b, a, InBucket!Earn, InBucket!Filled, Fill, Bucket, Least
  <2> QED
    BY <2>3 DEF InBucket!Next
<1>8. CASE b # None /\ \E n \in Amount : /\ n <= b.level
                                         /\ b' = Bucket(b.capacity, b.rate, b.level - n)
                                         /\ a' = a - n
  <2>1. PICK n \in Amount : /\ n <= b.level
                            /\ b' = Bucket(b.capacity, b.rate, b.level - n)
                            /\ a' = a - n
    BY <1>8
  <2>2. InBucket!Spend(n)
    BY <1>2, <1>8, <2>1 DEF b, a, InBucket!Spend, Bucket
  <2> QED
    BY <2>2 DEF InBucket!Next
<1>9. CASE b # None /\ a' = a /\ \E r \in Amount : b' = Bucket(b.capacity, r, b.level)
  <2>1. PICK r \in Amount : b' = Bucket(b.capacity, r, b.level)
    BY <1>9
  <2>2. InBucket!ChangeRate(r)
    BY <1>2, <1>9, <2>1 DEF b, a, InBucket!ChangeRate, Bucket
  <2> QED
    BY <2>2 DEF InBucket!Next
<1>10. CASE \E m, r \in Amount : b' = Bucket(m, r, m) /\ a' = m
  BY <1>10 DEF b, a, InBucket!Next, InBucket!Install, InBucket!Full, Bucket
<1> QED
  BY <1>1, <1>3, <1>4, <1>5, <1>6, <1>7, <1>8, <1>9, <1>10 DEF BucketStep

(***************************************************************************)
(* The inbound limiter of a peer, filled lazily and with saturating        *)
(* arithmetic, implements the eager token bucket, amount by amount.        *)
(***************************************************************************)
THEOREM InboundRefinement == Spec => InboundIsTokenBucket
<1>1. Init => InBucket!Init
  BY DEF Init, InBucket!Init, AsBucket
<1>2. IInv /\ [Next]_vars => [InBucket!Next]_(InBucket!vars)
  BY InboundStep
<1> QED
  BY <1>1, <1>2, Inductive, PTL DEF Spec, InboundIsTokenBucket, InBucket!Spec

=============================================================================
