----------------------------- MODULE Deployment -----------------------------
(***************************************************************************)
(* The deployment of the token: its creation and the handover of its       *)
(* authorities (CreateOFT), its metadata (Metadata), and the wiring of its *)
(* pathways (Wire).  The three share no state, so that a behaviour takes   *)
(* the steps of the one it chose at first and leaves the others at rest.   *)
(***************************************************************************)
EXTENDS Metadata

CONSTANTS
  deployer,                                                \* the first admin
  wallet, given, MinterLists, MaxRuns, MaxMultisigs,       \* of CreateOFT
  SolanaEids, EvmEids, pathways, bareLibrary               \* of Wire

VARIABLES
  part,                                                         \* the part chosen
  mints, multisigs, stores, runs, creation, deployment,         \* of CreateOFT
  graph, delegate, owner, initialised, peers, ulnConfigs, authority, tasks \* of Wire

creationVars == <<mints, multisigs, stores, runs, creation, deployment>>
wiringVars == <<graph, delegate, owner, initialised, peers, ulnConfigs, authority, tasks>>

Creation == INSTANCE CreateOFT WITH task <- creation

Wiring == INSTANCE Wire

ASSUME DeploymentAssumption == Creation!CreateOFTAssumption /\ Wiring!WireAssumption

\* The metadata at rest is any that creation may write.
DeploymentInit ==
  /\ part \in {"metadata", "creation", "wiring"}
  /\ Init
  /\ Creation!Init
  /\ Wiring!Init

DeploymentNext ==
  /\ UNCHANGED part
  /\ \/ part = "metadata" /\ Next /\ UNCHANGED <<creationVars, wiringVars>>
     \/ part = "creation" /\ Creation!Next /\ UNCHANGED <<vars, wiringVars>>
     \/ part = "wiring" /\ Wiring!Next /\ UNCHANGED <<vars, creationVars>>

DeploymentSpec ==
  DeploymentInit /\ [][DeploymentNext]_<<part, vars, creationVars, wiringVars>>

-----------------------------------------------------------------------------
\* The states of the three parts are of their types.
TypesOK == TypeOK /\ Creation!TypeOK /\ Wiring!TypeOK

\* createOFT and setAuthority, wherever they stop: a created token whose authority
\* has left the operator is in the hands of a store that exists, what OFT.json
\* records of it can mint, and only a handover separates its two authorities.
AuthoritiesStayUsable ==
  /\ Creation!NoOrphanedToken
  /\ Creation!SavedTokenIsOperable
  /\ Creation!SplitOnlyByHandover

\* setAuthority takes the right to mint from no store of OFT.json.
MintingIsNeverLost == Creation!MintingIsNeverLost

\* lz:oapp:wire opens no pathway whose Solana side is not initialised.
NothingOpensUninitialised == Wiring!NothingOpensUninitialised

\* createOFT.ts:190: with --only-oft-store only the OFT store can mint.
OnlyStoreCanMint == Creation!OnlyStoreCanMint
=============================================================================
