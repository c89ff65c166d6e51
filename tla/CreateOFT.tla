------------------------------ MODULE CreateOFT ------------------------------
(***************************************************************************)
(* The tasks that create an OFT on Solana and hand over its authorities:   *)
(* createOFT, createOFTAdapter and setAuthority.  Each is a sequence of    *)
(* transactions; it may stop after any of them (a transaction that fails   *)
(* or is never confirmed, an account the RPC does not show in time, a      *)
(* prompt refused, Ctrl-C) and a later run starts over with new keys.      *)
(*                                                                         *)
(* The keys of run r are named by r: its lock box (the escrow), the OFT    *)
(* store derived from it, and the mint it creates.                         *)
(***************************************************************************)
EXTENDS Naturals, Sequences, FiniteSets

CONSTANTS
  None,
  wallet,       \* the key of the operator
  MinterLists,  \* the values of --additional-minters: sets of keys, None if absent
  given,        \* a mint that existed before, for MABA and Adapter
  MaxRuns,      \* bound: how often an OFT is created
  MaxMultisigs  \* bound: how many multisigs are created

CreateOFTAssumption ==
  /\ {MaxRuns, MaxMultisigs} \subseteq Nat
  /\ wallet # None /\ given \notin Nat
  /\ \A kind \in {"key", "store", "multisig"},
        id \in {wallet} \cup 1..MaxRuns \cup 1..MaxMultisigs :
       None # [kind |-> kind, id |-> id]

VARIABLES
  mints,      \* the mints on chain, with their two authorities
  multisigs,  \* the SPL multisigs on chain, all of them 1 of N
  stores,     \* the OFT stores on chain
  runs,       \* the arguments of the creations so far
  task,       \* the task that runs, None if none does
  deployment  \* OFT.json, None while there is no such file

chain == <<mints, multisigs, stores>>
vars == <<mints, multisigs, stores, runs, task, deployment>>

Key(k)      == [kind |-> "key", id |-> k]
OftStore(r) == [kind |-> "store", id |-> r]
Multisig(i) == [kind |-> "multisig", id |-> i]

Init ==
  /\ mints = [m \in {given} |-> [mintAuthority |-> Key(wallet), freezeAuthority |-> Key(wallet)]]
  /\ multisigs = <<>> /\ stores = {} /\ runs = <<>>
  /\ task = None /\ deployment = None

\* Who may sign for an authority; the token program takes one signer of N.
Signers(authority) ==
  IF authority = None THEN {}
  ELSE IF authority.kind = "multisig" THEN multisigs[authority.id].signers
  ELSE {authority}

CanSign(who, authority) == who \in Signers(authority)

\* [oftStorePda, ...additionalMinters]
MintersOf(r, minters) ==
  {OftStore(r)} \cup IF minters = None THEN {} ELSE {Key(k) : k \in minters}

\* The first of the steps that a task has yet to take, and the task after it.
AtStep(step) == task # None /\ Head(task.steps) = step
Done(t) == IF Len(t.steps) = 1 THEN None ELSE [t EXCEPT !.steps = Tail(@)]

\* A task throws, is refused, or is killed; what it did on chain stays.
Stop ==
  /\ task # None
  /\ task' = None
  /\ UNCHANGED <<chain, runs, deployment>>

(***************************************************************************)
(* createMintAuthorityMultisig and checkMultisigSigners, as createOFT and  *)
(* setAuthority call them one after the other.                             *)
(***************************************************************************)
CreateMultisig ==
  /\ AtStep("multisig") /\ Len(multisigs) < MaxMultisigs
  /\ multisigs' = Append(multisigs, [signers |-> MintersOf(task.run, task.minters),
                                     by |-> task.name])
  /\ task' = Done([task EXCEPT !.authority = Multisig(Len(multisigs'))])
  /\ UNCHANGED <<mints, stores, runs, deployment>>

CheckMultisigSigners ==
  /\ AtStep("check")
  /\ MintersOf(task.run, task.minters) \subseteq Signers(task.authority)
  /\ task' = Done(task)
  /\ UNCHANGED <<chain, runs, deployment>>

\* Bugs in the order of the transactions: the OFT store before its mint, the
\* authorities handed over before the OFT store exists, and the deployment saved
\* before they are handed over.
MultisigSteps(minters) == IF minters = None THEN <<>> ELSE <<"multisig", "check">>
StoreFirstSteps(m, minters) ==
  MultisigSteps(minters) \o <<"initOft", "token", "setBoth", "save">>
AuthorityFirstSteps(m, minters) ==
  MultisigSteps(minters) \o <<"token", "setBoth", "initOft", "save">>
SaveFirstSteps(m, minters) ==
  MultisigSteps(minters) \o <<"token", "initOft", "save", "setBoth">>

CreateSteps(m, minters) ==
  MultisigSteps(minters)
    \o IF m = given THEN <<"initOft", "save">> ELSE <<"token", "initOft", "setBoth", "save">>

(* createOFT up to its first transaction: the arguments and the keys. *)
StartCreateOFT(m, minters, onlyOftStore) ==
  /\ task = None /\ Len(runs) < MaxRuns
  /\ minters # None \/ onlyOftStore
  /\ runs' = Append(runs, [mint |-> m, minters |-> minters, onlyOftStore |-> onlyOftStore])
  /\ task' = [name |-> "createOFT", run |-> Len(runs'), mint |-> m, minters |-> minters,
              authority |-> OftStore(Len(runs')), steps |-> CreateSteps(m, minters)]
  /\ UNCHANGED <<chain, deployment>>

CreateOFT(isMABA, minters, onlyOftStore) ==
  StartCreateOFT(IF isMABA THEN given ELSE Len(runs) + 1, minters, onlyOftStore)

\* createV1: the wallet is the authority for now.
CreateToken ==
  /\ AtStep("token")
  /\ mints' = [m \in DOMAIN mints \cup {task.mint} |->
                 IF m = task.mint
                 THEN [mintAuthority |-> Key(wallet), freezeAuthority |-> Key(wallet)]
                 ELSE mints[m]]
  /\ task' = Done(task)
  /\ UNCHANGED <<multisigs, stores, runs, deployment>>

InitOFT ==
  /\ AtStep("initOft")
  /\ stores' = stores \cup {[escrow |-> task.run, mint |-> task.mint,
                             oftType |-> IF task.name = "createOFT" THEN "Native" ELSE "Adapter"]}
  /\ task' = Done(task)
  /\ UNCHANGED <<mints, multisigs, runs, deployment>>

NewFreezeAuthority == IF runs[task.run].onlyOftStore THEN None ELSE task.authority

\* One transaction hands over both authorities of a new token.
SetBothAuthorities ==
  /\ AtStep("setBoth")
  /\ CanSign(Key(wallet), mints[task.mint].mintAuthority)
  /\ mints' = [mints EXCEPT ![task.mint] = [mintAuthority |-> task.authority,
                                            freezeAuthority |-> NewFreezeAuthority]]
  /\ task' = Done(task)
  /\ UNCHANGED <<multisigs, stores, runs, deployment>>

SaveSolanaDeployment ==
  /\ AtStep("save")
  /\ deployment' = [mint |-> task.mint, mintAuthority |-> task.authority,
                    escrow |-> task.run, oftStore |-> OftStore(task.run)]
  /\ task' = Done(task)
  /\ UNCHANGED <<chain, runs>>

(* createOFTAdapter: the mint authority is read, and only recorded. *)
CreateOFTAdapter ==
  /\ task = None /\ Len(runs) < MaxRuns
  /\ runs' = Append(runs, [mint |-> given, minters |-> None, onlyOftStore |-> FALSE])
  /\ task' = [name |-> "createOFTAdapter", run |-> Len(runs'), mint |-> given,
              minters |-> None, authority |-> mints[given].mintAuthority,
              steps |-> <<"initOft", "save">>]
  /\ UNCHANGED <<chain, deployment>>

\* A bug: the store of the keys derived last, as a creation derives them.
NewestStore(escrow) == Len(runs)

\* getOftStore derives the store from the escrow that was passed.
GetOftStore(escrow) == escrow

(***************************************************************************)
(* setAuthority, with the mint and the escrow of OFT.json: a new multisig, *)
(* then one transaction for each authority, each after a look at the mint. *)
(***************************************************************************)
StartSetAuthority(minters, onlyOftStore) ==
  /\ task = None /\ deployment # None
  /\ minters # None \/ onlyOftStore
  /\ task' = [name |-> "setAuthority", run |-> GetOftStore(deployment.escrow),
              mint |-> deployment.mint, minters |-> minters, authority |-> None,
              steps |-> <<"multisig", "check", "setMintAuthority", "setFreezeAuthority">>]
  /\ UNCHANGED <<chain, runs, deployment>>

SetMintAuthority ==
  /\ AtStep("setMintAuthority")
  /\ CanSign(Key(wallet), mints[task.mint].mintAuthority)
  /\ mints' = [mints EXCEPT ![task.mint].mintAuthority = task.authority]
  /\ task' = Done(task)
  /\ UNCHANGED <<multisigs, stores, runs, deployment>>

SetFreezeAuthority ==
  /\ AtStep("setFreezeAuthority")
  /\ CanSign(Key(wallet), mints[task.mint].freezeAuthority)
  /\ mints' = [mints EXCEPT ![task.mint].freezeAuthority = task.authority]
  /\ task' = Done(task)
  /\ UNCHANGED <<multisigs, stores, runs, deployment>>

\* The handover of a given mint by hand, as the README asks after MABA.
HandOverByHand ==
  /\ task = None /\ deployment # None /\ deployment.mint = given
  /\ [escrow |-> deployment.escrow, mint |-> given, oftType |-> "Native"] \in stores
  /\ CanSign(Key(wallet), mints[given].mintAuthority)
  /\ mints' = [mints EXCEPT ![given].mintAuthority = deployment.mintAuthority]
  /\ UNCHANGED <<multisigs, stores, runs, task, deployment>>

Next ==
  \/ \E isMABA, onlyOftStore \in BOOLEAN, minters \in MinterLists :
       CreateOFT(isMABA, minters, onlyOftStore)
  \/ CreateOFTAdapter
  \/ \E onlyOftStore \in BOOLEAN, minters \in MinterLists :
       StartSetAuthority(minters, onlyOftStore)
  \/ CreateMultisig
  \/ CheckMultisigSigners
  \/ CreateToken
  \/ InitOFT
  \/ SetBothAuthorities
  \/ SaveSolanaDeployment
  \/ SetMintAuthority
  \/ SetFreezeAuthority
  \/ Stop
  \/ HandOverByHand

Spec == Init /\ [][Next]_vars

-----------------------------------------------------------------------------
Minters == UNION {l \in MinterLists : l # None}
Authorities == {Key(wallet)} \cup {OftStore(r) : r \in DOMAIN runs}
                 \cup {Multisig(i) : i \in DOMAIN multisigs} \cup {None}
Steps == {"multisig", "check", "token", "initOft", "setBoth", "save",
          "setMintAuthority", "setFreezeAuthority"}

\* What the tasks leave on chain and on disk refers to what exists.
TypeOK ==
  /\ mints \in [DOMAIN mints -> [mintAuthority : Authorities, freezeAuthority : Authorities]]
  /\ DOMAIN mints \subseteq DOMAIN runs \cup {given}
  /\ \A i \in DOMAIN multisigs :
       multisigs[i].signers \subseteq
         {OftStore(r) : r \in DOMAIN runs} \cup {Key(k) : k \in Minters}
  /\ stores \subseteq [escrow : DOMAIN runs, mint : DOMAIN mints, oftType : {"Native", "Adapter"}]
  /\ task # None => /\ task.run \in DOMAIN runs /\ task.authority \in Authorities
                    /\ task.steps \in Seq(Steps) \ {<<>>}
  /\ deployment # None =>
       deployment \in [mint : DOMAIN mints, mintAuthority : Authorities,
                       escrow : DOMAIN runs, oftStore : Authorities]

\* The OFT store of OFT.json may mint the token of OFT.json.
CanMint(d) == CanSign(d.oftStore, mints[d.mint].mintAuthority)

IsNew(d) == d.mint # given

\* A created token whose authority has left the operator is in the hands of an
\* OFT store that exists, wherever the creation or a handover stopped: no token
\* ends up with an authority that nobody can use.
NoOrphanedToken ==
  \A m \in DOMAIN mints \ {given} :
    mints[m].mintAuthority # Key(wallet) =>
      \E s \in stores : /\ s.mint = m
                        /\ CanSign(OftStore(s.escrow), mints[m].mintAuthority)

\* A created OFT that is recorded in OFT.json can receive: its store exists and
\* may mint, now and after every later task that stops half way.
SavedTokenIsOperable ==
  deployment # None /\ IsNew(deployment) =>
    /\ CanMint(deployment)
    /\ \E s \in stores : s.escrow = deployment.escrow /\ s.mint = deployment.mint

\* No task takes the right to mint from the store of OFT.json, also of a given
\* mint that was handed over by hand.
MintingIsNeverLost ==
  [][deployment # None /\ deployment' = deployment /\ CanMint(deployment)
       => CanMint(deployment)']_vars

\* Creation hands over both authorities or none; only setAuthority, stopped
\* between its two transactions, leaves the freeze authority behind.
SplitOnlyByHandover ==
  \A m \in DOMAIN mints \ {given} :
    LET auth == mints[m].mintAuthority IN
    mints[m].freezeAuthority = Key(wallet) /\ auth # Key(wallet) =>
      auth.kind = "multisig" /\ multisigs[auth.id].by = "setAuthority"

\* createOFT.ts:190: with --only-oft-store only the OFT store can mint.
OnlyStoreCanMint ==
  deployment # None /\ IsNew(deployment) /\ runs[deployment.escrow].onlyOftStore =>
    Signers(deployment.mintAuthority) = {deployment.oftStore}
=============================================================================
