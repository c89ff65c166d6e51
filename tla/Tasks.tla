-------------------------------- MODULE Tasks --------------------------------
(***************************************************************************)
(* The tasks that operate a deployed OFT and look at it: sending           *)
(* (SendTasks), signing and limits (SignedTasks), the compute budget of    *)
(* every transaction (ComputeBudget), the report of debug (Debug) and that *)
(* of config:get (ConfigGet).  They share no state, so that a behaviour    *)
(* takes the steps of the one it chose at first and leaves the others at   *)
(* rest.                                                                   *)
(***************************************************************************)
EXTENDS OFTMath

CONSTANTS
  Keys, Configs,
  Runs, Amounts, InitBalances, Rates, evmRate, FeeBps, TransferFees,      \* of SendTasks
  Allowances, MessageFees, MaxSettings,
  ephemeral, admin, Eids, sepolia, Limits, Units,                         \* of SignedTasks
  Samples, Scales, Usages,                                                \* of ComputeBudget
  oftStore, program, dstEids, PeerAddresses, MaxChanges,                  \* of Debug
  connections, SolanaEids, networkName, Libraries, uln,                   \* of ConfigGet
  earlierSettings, MaxReconfigurations

VARIABLES
  part,                                                           \* the part chosen
  balance, oft, messageFee, settings, run, tx,                    \* of SendTasks
  env, limits, task, changed, others,                             \* of SignedTasks
  type, scale, phase, sample, attempts, agreed, units, budget,    \* of ComputeBudget
  chain, changes, action, fetched, read, todo, report, ended,     \* of Debug
  pathway, reconfigured, seen, parallel, stage, answers, printed, configs \* of ConfigGet

sendVars == <<balance, oft, messageFee, settings, run, tx>>
signedVars == <<env, limits, task, changed, others>>
budgetVars == <<type, scale, phase, sample, attempts, agreed, units, budget>>
debugVars == <<chain, changes, action, fetched, read, todo, report, ended>>
configVars == <<pathway, reconfigured, seen, parallel, stage, answers, printed, configs>>

Send == INSTANCE SendTasks

Signed == INSTANCE SignedTasks

Budget == INSTANCE ComputeBudget

Report == INSTANCE Debug

Config == INSTANCE ConfigGet WITH
  graph <- connections, MaxChanges <- MaxReconfigurations,
  changes <- reconfigured, phase <- stage

ASSUME TasksAssumption ==
  /\ Send!SendTasksAssumption /\ Signed!SignedTasksAssumption /\ Budget!ComputeBudgetAssumption
  /\ Report!DebugAssumption /\ Config!ConfigGetAssumption

TasksInit ==
  /\ part \in {"send", "signed", "budget", "debug", "config"}
  /\ Send!Init /\ Signed!Init /\ Budget!Init /\ Report!Init /\ Config!Init

TasksNext ==
  /\ UNCHANGED part
  /\ \/ part = "send" /\ Send!Next /\ UNCHANGED <<signedVars, budgetVars, debugVars, configVars>>
     \/ part = "signed" /\ Signed!Next /\ UNCHANGED <<sendVars, budgetVars, debugVars, configVars>>
     \/ part = "budget" /\ Budget!Next /\ UNCHANGED <<sendVars, signedVars, debugVars, configVars>>
     \/ part = "debug" /\ Report!Next /\ UNCHANGED <<sendVars, signedVars, budgetVars, configVars>>
     \/ part = "config" /\ Config!Next /\ UNCHANGED <<sendVars, signedVars, budgetVars, debugVars>>

taskVars == <<part, sendVars, signedVars, budgetVars, debugVars, configVars>>

TasksSpec == TasksInit /\ [][TasksNext]_taskVars

-----------------------------------------------------------------------------
\* The states of all five parts are of their types.
TypeOK == Send!TypeOK /\ Signed!TypeOK /\ Budget!TypeOK /\ Report!TypeOK /\ Config!TypeOK

\* lz:oft:solana:send and send, whatever becomes of fees, limiter and pause: no empty
\* message leaves Solana but in one case, and what is reported is in a block.
SendsAsPromised ==
  /\ Send!NothingEmptyLeavesSolana
  /\ Send!ReportedIsInBlock

\* The tasks sign with the default file only if the operator agreed, with none of
\* two different keys of the environment, and with the key that pays; the inbound
\* limit is shown as it was set.
SignsAsChosen ==
  /\ Signed!DefaultIsAgreed
  /\ Signed!ConflictIsRefused
  /\ Signed!PayerSigns
  /\ Signed!InboundShowsWhatItSet

\* Every transaction of the tasks: its price is not zero when a recent slot paid,
\* and its limit covers the simulation with a margin, or what such a transaction
\* ever used; the median of the recent fees is in the middle of them.
BudgetSuffices ==
  /\ Budget!MedianIsMiddle
  /\ Budget!PaysForPriority
  /\ Budget!LimitLeavesMargin
  /\ Budget!EstimateCoversSamples

\* lz:oft:solana:debug: a report is true of a chain at rest and never contradicts
\* itself, and it has every pathway asked for.
DebugIsTrue ==
  /\ Report!QuietReportIsTrue
  /\ Report!ChecksFollow
  /\ Report!EveryPathwayPrinted

\* lz:oapp:config:get: whatever pathways run in parallel and whoever reconfigures
\* one, the result has every pathway of the graph, and what it says of one was in
\* force on it, each config for the library beside it.
ConfigsAreTrue ==
  /\ Config!EveryPathwayReturned
  /\ Config!ReportedWasInForce

\* Its three columns agree on a pathway that nobody reconfigures meanwhile.
ColumnsAgree == Config!ColumnsAgree
=============================================================================
