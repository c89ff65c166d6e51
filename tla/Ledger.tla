------------------------------- MODULE Ledger -------------------------------
(***************************************************************************)
(* What a bridge between two chains promises: tokens that leave one side   *)
(* are in flight until the other side receives them, once and in full.     *)
(* Nothing is created, nothing is destroyed and nothing arrives twice.     *)
(***************************************************************************)
EXTENDS Integers

CONSTANTS
  Amounts, \* what a transfer may move
  Issued   \* the tokens that each side has at first

Sides == {"solana", "evm"}
Other(side) == CHOOSE s \in Sides : s # side

VARIABLES
  held,     \* the tokens that circulate on each side
  departed, \* how many transfers left for each side
  flight    \* the transfers under way

vars == <<held, departed, flight>>

Init ==
  /\ held = Issued
  /\ departed = [s \in Sides |-> 0]
  /\ flight = {}

Depart(to, n) ==
  /\ n <= held[Other(to)]
  /\ held' = [held EXCEPT ![Other(to)] = @ - n]
  /\ departed' = [departed EXCEPT ![to] = @ + 1]
  /\ flight' = flight \cup {[to |-> to, number |-> departed'[to], amount |-> n]}

Arrive(t) ==
  /\ flight' = flight \ {t}
  /\ held' = [held EXCEPT ![t.to] = @ + t.amount]
  /\ UNCHANGED departed

Next ==
  \/ \E to \in Sides, n \in Amounts : Depart(to, n)
  \/ \E t \in flight : Arrive(t)

Spec == Init /\ [][Next]_vars
=============================================================================
