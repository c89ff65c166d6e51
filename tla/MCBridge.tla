------------------------------ MODULE MCBridge ------------------------------
(***************************************************************************)
(* A small instance of Bridge: one wallet, two units of the token to the   *)
(* shared one, one packet to the EVM chain and two from it.                *)
(***************************************************************************)
EXTENDS Bridge

CONSTANTS alice, dev, moved, oftStore, multisig

AliceHas == [w \in {alice} |-> 6]

\* One second fills it.
SmallBucket == [capacity |-> 4, refill_per_second |-> 4]
Limits == {SmallBucket}
=============================================================================
