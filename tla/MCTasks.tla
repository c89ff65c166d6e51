------------------------------ MODULE MCTasks ------------------------------
(***************************************************************************)
(* Small instances of Tasks: two runs from one wallet, one or ten local    *)
(* units in a shared one and fees in tenths; two keypairs, two peers, two  *)
(* limits; at most four slots with small fees; the pathways of             *)
(* layerzero.config.ts in both directions.                                 *)
(***************************************************************************)
EXTENDS Tasks, TLC

CONSTANTS wallet, firstRun, secondRun, amoy, solanaTestnet, simple, ours, defaultConfig

\* A tenth, of at most two units.
MCTransferFees == {None, [transfer_fee_basis_points |-> 1, maximum_fee |-> 2]}

\* What recent slots paid.
MCSamples == UNION {[1..n -> 0..2] : n \in 0..4}

\* The endpoints that debug is asked for.
MCEids == <<sepolia, amoy>>

MCGraph ==
  <<[from |-> sepolia, to |-> solanaTestnet], [from |-> solanaTestnet, to |-> sepolia],
    [from |-> amoy, to |-> solanaTestnet], [from |-> solanaTestnet, to |-> amoy]>>

MCNames ==
  (sepolia :> "sepolia-testnet") @@ (amoy :> "amoy-testnet") @@ (solanaTestnet :> "solana-testnet")

SideNames == {"receive", "send"}
KindNames == {"uln", "executor"}

\* The defaults of a side, of which the library of ours has configs of its own.
SideDefaults ==
  [library |-> uln,
   config |-> [l \in {uln, simple} |->
                [k \in KindNames |-> IF l = uln THEN defaultConfig ELSE ours]]]

NothingOwn ==
  [library |-> None, config |-> [l \in {uln, simple} |-> [k \in KindNames |-> None]]]

NothingSet == [s \in SideNames |-> [own |-> NothingOwn, default |-> SideDefaults]]

\* A library of ours for sending and a config of ours for receiving.
SomeSet ==
  [NothingSet EXCEPT !["receive"].own.config[uln]["uln"] = ours, !["send"].own.library = simple]

MCSettings == {NothingSet, SomeSet}

-----------------------------------------------------------------------------
\* The states of the parts are added up instead of multiplied: one that was not
\* chosen has one initial state.
SomeOFT == [type |-> "Native", rate |-> 1, feeBps |-> 0, transferFee |-> None,
            paused |-> FALSE, allowance |-> None]

SendAtRest == balance = [solana |-> 30, evm |-> 30] /\ oft = SomeOFT /\ messageFee = 1

SignedAtRest == env = [private |-> None, path |-> None, file |-> None]

BudgetAtRest == type = "CreateToken" /\ scale = 10

\* The two endpoints have different configs at first.
UnlikeConfigs == (sepolia :> defaultConfig) @@ (amoy :> ours)

DebugAtRest ==
  /\ chain = [admin |-> wallet, delegate |-> wallet, mintAuthority |-> oftStore,
              peer |-> [e \in Report!Destinations |-> None],
              config |-> UnlikeConfigs]
  /\ action = None

\* One of the EVM chains has something of its own for Solana, and Solana for it.
ConfigAtFirst ==
  pathway = [c \in Config!Connections |->
              IF sepolia \in {c.from, c.to} THEN SomeSet ELSE NothingSet]

ConfigAtRest == parallel = FALSE

\* A send begins with the OFT open, without fee and limiter, which may change at once.
SendAsDeployed ==
  /\ ~oft.paused /\ oft.feeBps = 0 /\ oft.allowance = None /\ messageFee = 1
  /\ oft.type = "Native" => oft.rate = 10

MCInit ==
  /\ part \in {"send", "signed", "budget", "debug", "config"}
  /\ Send!Init /\ (IF part = "send" THEN SendAsDeployed ELSE SendAtRest)
  /\ (part = "signed" \/ SignedAtRest) /\ Signed!Init
  /\ (part = "budget" \/ BudgetAtRest) /\ Budget!Init
  \* Debug treats its two keys alike, so one of them is the first admin.
  /\ (part = "debug" \/ DebugAtRest) /\ Report!Init /\ chain.admin = wallet
  /\ chain.config = UnlikeConfigs
  /\ ConfigAtFirst /\ (part = "config" \/ ConfigAtRest) /\ Config!Init

MCSpec == MCInit /\ [][TasksNext]_taskVars

\* The runs of the send tasks are alike.
Symmetry == Permutations({firstRun, secondRun})
=============================================================================
