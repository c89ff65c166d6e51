---------------------------- MODULE TokenBucket ----------------------------
(***************************************************************************)
(* What a rate limiter promises, without clocks: a bucket that is filled   *)
(* eagerly, once every second, and never holds more than its capacity.     *)
(* The account says what a window of time may still let through: it starts *)
(* with a full bucket, grows with the rate and the opposite flow, and pays *)
(* for every transfer.  PeerLimits shows that the lazy limiter of the      *)
(* program implements the bucket, amount by amount.                        *)
(***************************************************************************)
EXTENDS Integers

CONSTANTS Amounts,      \* the amounts that a transfer, a capacity or a rate may have
          None          \* there is no bucket: nothing is limited

VARIABLES bucket,       \* None, or [capacity, rate, level]
          account       \* what the window that is being measured may still let through

vars == <<bucket, account>>

Full(c, r) == [capacity |-> c, rate |-> r, level |-> c]

\* The level after adding n tokens.
Filled(b, n) ==
  [b EXCEPT !.level = IF b.level + n <= b.capacity THEN b.level + n ELSE b.capacity]

Init == bucket = None /\ account = 0

Second == /\ bucket # None
          /\ bucket' = Filled(bucket, bucket.rate)
          /\ account' = account + bucket.rate

Spend(n) == /\ bucket # None
            /\ n <= bucket.level
            /\ bucket' = [bucket EXCEPT !.level = @ - n]
            /\ account' = account - n

Earn(n) == /\ bucket # None
           /\ bucket' = Filled(bucket, n)
           /\ account' = account + n

\* The admin installs a full bucket of a given size and rate.
Install(c, r) == bucket' = Full(c, r) /\ account' = c

\* The admin changes the rate only: what is in the bucket stays.
ChangeRate(r) == /\ bucket # None
                 /\ bucket' = [bucket EXCEPT !.rate = r]
                 /\ UNCHANGED account

Remove == bucket' = None /\ account' = 0

\* Another window is measured from now on.
OpenWindow == /\ account' = IF bucket = None THEN 0 ELSE bucket.capacity
              /\ UNCHANGED bucket

Next == \/ Second
        \/ Remove
        \/ OpenWindow
        \/ \E n \in Amounts : Spend(n) \/ Earn(n) \/ ChangeRate(n)
        \/ \E c, r \in Amounts : Install(c, r)

Spec == Init /\ [][Next]_vars
=============================================================================
