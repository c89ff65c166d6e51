------------------------------- MODULE MCOFT -------------------------------
(***************************************************************************)
(* Small instances of OFT: one remote chain, decimals that differ by a     *)
(* factor of two, basis points of which ten make one.                      *)
(***************************************************************************)
EXTENDS OFT

CONSTANTS alice, dev, ops, eth, remote, impostor, oftStore, multisig, foundation

\* Thirty percent, at most 2 tokens; and twenty percent without a limit.
CappedFee == [transfer_fee_basis_points |-> 3, maximum_fee |-> 2]
PlainFee == [transfer_fee_basis_points |-> 2, maximum_fee |-> MaxU64]

TwoFees == {CappedFee, PlainFee}

AliceHas == [w \in {alice} |-> 12]

SmallBucket == [capacity |-> 4, refill_per_second |-> 1]
NewRateOnly == [capacity |-> None, refill_per_second |-> 3]
Limits == {SmallBucket, NewRateOnly, None}
=============================================================================
