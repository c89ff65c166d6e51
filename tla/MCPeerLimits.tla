--------------------------- MODULE MCPeerLimits ---------------------------
(***************************************************************************)
(* A small instance of PeerLimits: amounts of two bits, so that the        *)
(* saturating arithmetic is reached, and a clock of a few seconds.         *)
(***************************************************************************)
EXTENDS PeerLimits

Param(c, r) == [capacity |-> c, refill_per_second |-> r]

MCFlows == {1, 2}
MCParams == {None, Param(3, 1), Param(2, None), Param(None, 2)}
=============================================================================
