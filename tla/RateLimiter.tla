---------------------------- MODULE RateLimiter ----------------------------
(***************************************************************************)
(* The RateLimiter of state/peer_config.rs: a token bucket that is filled  *)
(* lazily.  A limiter keeps the tokens it had at last_refill_time, and     *)
(* every operation first credits the seconds that went by since then.      *)
(* Amounts are u64, so additions and products saturate at MaxU64.          *)
(***************************************************************************)
EXTENDS U64

(***************************************************************************)
(* struct RateLimiter.  last_refill_time is a u64 too, but a Unix time in  *)
(* seconds stays far below its limit.                                      *)
(***************************************************************************)
Limiter == [capacity : Amount, tokens : Amount,
            refill_per_second : Amount, last_refill_time : Nat]

ASSUME LimiterAssumption == None \notin Limiter

(***************************************************************************)
(* struct RateLimitParams: both fields are optional.                       *)
(***************************************************************************)
RateLimitParams == [capacity : Amount \cup {None},
                    refill_per_second : Amount \cup {None}]

DefaultLimiter == [capacity |-> 0, tokens |-> 0,
                   refill_per_second |-> 0, last_refill_time |-> 0]

Elapsed(l, now) == IF now > l.last_refill_time THEN now - l.last_refill_time ELSE 0

\* Bugs that the runs must notice: tokens above the capacity, and a clock that
\* is read but not stored.
RefillUncapped(l, extra, now) ==
  [l EXCEPT !.tokens = SaturatingAdd(l.tokens, SaturatingAdd(extra,
                          SaturatingMul(Elapsed(l, now), l.refill_per_second))),
            !.last_refill_time = now]
RefillKeepsTime(l, extra, now) ==
  [l EXCEPT !.tokens = Least(l.capacity, SaturatingAdd(l.tokens, SaturatingAdd(extra,
                          SaturatingMul(Elapsed(l, now), l.refill_per_second))))]

Refill(l, extra, now) ==
  LET new == SaturatingAdd(extra, SaturatingMul(Elapsed(l, now), l.refill_per_second))
  IN  [l EXCEPT !.tokens = Least(l.capacity, SaturatingAdd(l.tokens, new)),
                !.last_refill_time = now]

\* A bug: what a limiter may give is read off its capacity.
CanConsumeCapacity(l, amount, now) == amount <= Refill(l, 0, now).capacity

\* A bug: only what the last refill left is looked at.
CanConsumeStored(l, amount, now) == amount <= l.tokens

CanConsume(l, amount, now) == amount <= Refill(l, 0, now).tokens

Consume(l, amount, now) ==
  LET r == Refill(l, 0, now) IN [r EXCEPT !.tokens = r.tokens - amount]

\* A bug: the new rate is applied to the seconds that passed under the old one.
SetRateNoRefill(l, rate, now) == [l EXCEPT !.refill_per_second = rate]

SetRate(l, rate, now) == [Refill(l, 0, now) EXCEPT !.refill_per_second = rate]

SetCapacity(l, capacity, now) ==
  [l EXCEPT !.capacity = capacity, !.tokens = capacity, !.last_refill_time = now]

(***************************************************************************)
(* SetPeerConfig::update_rate_limiter: the capacity, when given, is set    *)
(* before the rate; a limiter that did not exist starts from the default   *)
(* one; no parameters at all remove the limiter.                           *)
(***************************************************************************)
UpdateLimiter(l, params, now) ==
  IF params = None THEN None
  ELSE LET base  == IF l = None THEN DefaultLimiter ELSE l
           sized == IF params.capacity = None THEN base
                    ELSE SetCapacity(base, params.capacity, now)
       IN  IF params.refill_per_second = None THEN sized
           ELSE SetRate(sized, params.refill_per_second, now)

(***************************************************************************)
(* An optional limiter on the path of a transfer: no limiter, no limit.    *)
(***************************************************************************)
Admits(l, amount, now) == l # None => CanConsume(l, amount, now)

\* A bug: the check is made, but nothing is taken from the bucket.
AfterConsumeForgets(l, amount, now) == IF l = None THEN None ELSE Refill(l, 0, now)

AfterConsume(l, amount, now) == IF l = None THEN None ELSE Consume(l, amount, now)
AfterRefill(l, amount, now) == IF l = None THEN None ELSE Refill(l, amount, now)
=============================================================================
