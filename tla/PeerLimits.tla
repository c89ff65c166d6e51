----------------------------- MODULE PeerLimits -----------------------------
(***************************************************************************)
(* The two rate limiters of one peer and everything that touches them.     *)
(* Sending to the peer consumes from the outbound limiter and refills the  *)
(* inbound one; receiving from the peer does the opposite; the admin       *)
(* installs, changes and removes them at any time.                         *)
(*                                                                         *)
(* An auditor watches each direction: it may start to measure at any       *)
(* moment, grants the direction one capacity plus what the seconds and the *)
(* opposite flow earn from then on, and deducts every transfer.            *)
(***************************************************************************)
EXTENDS RateLimiter

CONSTANTS
  Flows,        \* the amounts that transfers move
  ParamChoices, \* the RateLimitParams that the admin may choose, None included
  MaxTime,      \* bound: the last second of the clock
  MaxAllowance  \* bound: the auditor stops watching flows that earn more than this

ASSUME PeerLimitsAssumption ==
  /\ Flows \subseteq Amount
  /\ ParamChoices \subseteq RateLimitParams \cup {None}
  /\ MaxTime \in Nat
  /\ MaxAllowance \in Nat
  /\ None \notin [capacity : Amount, rate : Amount, level : Amount]

VARIABLES
  now,          \* Clock::get()?.unix_timestamp
  outbound,     \* peer.outbound_rate_limiter
  inbound,      \* peer.inbound_rate_limiter
  outAllowance, \* the auditor's account of the outbound direction
  inAllowance   \* and of the inbound direction

vars == <<now, outbound, inbound, outAllowance, inAllowance>>

Init == /\ now = 0
        /\ outbound = None /\ inbound = None
        /\ outAllowance = 0 /\ inAllowance = 0

\* What the auditor adds to an account when one second goes by, and when n
\* tokens flow in the opposite direction.
RateOf(l) == IF l = None THEN 0 ELSE l.refill_per_second
EarnedBy(l, n) == IF l = None THEN 0 ELSE n

\* One second of the Solana clock.  The program takes no step.
Tick ==
  /\ now < MaxTime
  /\ now' = now + 1
  /\ outAllowance' = outAllowance + RateOf(outbound)
  /\ inAllowance' = inAllowance + RateOf(inbound)
  /\ UNCHANGED <<outbound, inbound>>

\* The limiter steps of send.rs.
Send(amount) ==
  /\ inAllowance + EarnedBy(inbound, amount) <= MaxAllowance
  /\ Admits(outbound, amount, now)
  /\ outbound' = AfterConsume(outbound, amount, now)
  /\ inbound' = AfterRefill(inbound, amount, now)
  /\ outAllowance' = outAllowance - EarnedBy(outbound, amount)
  /\ inAllowance' = inAllowance + EarnedBy(inbound, amount)
  /\ UNCHANGED now

\* The limiter steps of lz_receive.rs.
LzReceive(amount) ==
  /\ outAllowance + EarnedBy(outbound, amount) <= MaxAllowance
  /\ Admits(inbound, amount, now)
  /\ inbound' = AfterConsume(inbound, amount, now)
  /\ outbound' = AfterRefill(outbound, amount, now)
  /\ inAllowance' = inAllowance - EarnedBy(inbound, amount)
  /\ outAllowance' = outAllowance + EarnedBy(outbound, amount)
  /\ UNCHANGED now

\* A limiter that is created or given a capacity starts a new account.
NewAllowance(l, params, allowance) ==
  IF params = None THEN 0
  ELSE IF params.capacity # None THEN params.capacity
  ELSE IF l = None THEN 0 ELSE allowance

SetOutboundRateLimit(params) ==
  /\ outbound' = UpdateLimiter(outbound, params, now)
  /\ outAllowance' = NewAllowance(outbound, params, outAllowance)
  /\ UNCHANGED <<now, inbound, inAllowance>>

SetInboundRateLimit(params) ==
  /\ inbound' = UpdateLimiter(inbound, params, now)
  /\ inAllowance' = NewAllowance(inbound, params, inAllowance)
  /\ UNCHANGED <<now, outbound, outAllowance>>

\* The auditor starts to measure both directions from now on.
OpenWindow ==
  /\ outAllowance' = IF outbound = None THEN 0 ELSE outbound.capacity
  /\ inAllowance' = IF inbound = None THEN 0 ELSE inbound.capacity
  /\ UNCHANGED <<now, outbound, inbound>>

Next == \/ Tick
        \/ OpenWindow
        \/ \E amount \in Flows : Send(amount) \/ LzReceive(amount)
        \/ \E params \in ParamChoices :
              SetOutboundRateLimit(params) \/ SetInboundRateLimit(params)

Spec == Init /\ [][Next]_vars

-----------------------------------------------------------------------------
(***************************************************************************)
(* A limiter is either absent or a bucket whose tokens fit its capacity    *)
(* and whose clock is not ahead of the chain's (state/peer_config.rs).     *)
(***************************************************************************)
WellFormed(l, t) == l = None \/ /\ l \in Limiter
                                /\ l.tokens <= l.capacity
                                /\ l.last_refill_time <= t

TypeOK == /\ now \in Nat
          /\ WellFormed(outbound, now) /\ WellFormed(inbound, now)
          /\ outAllowance \in Int /\ inAllowance \in Int

(***************************************************************************)
(* In every window of time, whenever it begins, what a direction lets      *)
(* through is at most its capacity, plus its rate times the seconds of the *)
(* window, plus what flowed the other way; a change of the rate in between *)
(* counts from the moment it is made.  (try_consume, refill, set_rate and  *)
(* set_capacity of state/peer_config.rs together.)                         *)
(***************************************************************************)
OutboundWithinAllowance == outAllowance >= 0
InboundWithinAllowance == inAllowance >= 0

(***************************************************************************)
(* The eager bucket that a lazy limiter stands for at time t.              *)
(***************************************************************************)
Level(l, t) == Least(l.capacity, l.tokens + Elapsed(l, t) * l.refill_per_second)

AsBucket(l, t) == IF l = None THEN None
                  ELSE [capacity |-> l.capacity, rate |-> l.refill_per_second,
                        level |-> Level(l, t)]

OutBucket == INSTANCE TokenBucket WITH
               Amounts <- Amount, bucket <- AsBucket(outbound, now), account <- outAllowance
InBucket == INSTANCE TokenBucket WITH
              Amounts <- Amount, bucket <- AsBucket(inbound, now), account <- inAllowance

(***************************************************************************)
(* Each limiter of a peer implements the eager token bucket: filling it    *)
(* only when it is used, with saturating arithmetic, loses no token and    *)
(* adds none, and what a transfer takes from the bucket is what the        *)
(* auditor deducts.  (RateLimiter of state/peer_config.rs.)                *)
(***************************************************************************)
OutboundIsTokenBucket == OutBucket!Spec
InboundIsTokenBucket == InBucket!Spec

=============================================================================
