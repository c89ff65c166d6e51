-------------------------------- MODULE Wire --------------------------------
(***************************************************************************)
(* Wiring the pathways of layerzero.config.ts: lz:oft:solana:init-config,  *)
(* lz:oapp:wire and lz:ownable:transfer-ownership.  All three load the     *)
(* graph, let a configurator compare it with the chains, and send what is  *)
(* missing, chain by chain; a transaction may fail, which ends the work on *)
(* that chain, and a task may be stopped.  The holders of several keys may *)
(* run tasks at the same time, and the file is edited while they do.       *)
(***************************************************************************)
EXTENDS Naturals, Sequences, SequencesExt

CONSTANTS
  SolanaEids, EvmEids, \* the endpoint ids
  Keys,        \* those that may sign on Solana: a wallet, a Squads multisig
  deployer,    \* the key that created the OFT, its first admin and delegate
  pathways,    \* the pathways that the file may declare, as pairs of eids
  bareLibrary, \* those of them whose config names no sendLibrary
  None

ASSUME WireAssumption ==
  /\ SolanaEids \cap EvmEids = {}
  /\ deployer \in Keys /\ None \notin Keys
  /\ pathways \subseteq (EvmEids \X SolanaEids)
  /\ bareLibrary \subseteq pathways

VARIABLES
  graph,       \* the connections of layerzero.config.ts, in their order
  delegate,    \* the delegate and the owner that the file gives the Solana
  owner,       \*   contract, None if it does not
  initialised, \* the connections from Solana whose send and receive configs exist
  peers,       \* the connections whose peer is set on their first chain
  ulnConfigs,  \* the connections whose libraries are configured there
  authority,   \* the admin of the OFT store and its delegate at the endpoint
  tasks        \* what each key's task has yet to send, {} if it runs none

file == <<graph, delegate, owner>>
onChain == <<initialised, peers, ulnConfigs, authority>>
vars == <<file, onChain, tasks>>

Tasks == {"init-config", "wire", "transfer-ownership"}
Connections == {[from |-> p[1], to |-> p[2]] : p \in pathways}
                 \cup {[from |-> p[2], to |-> p[1]] : p \in pathways}
Eids(c) == {c.from, c.to}
IsSolana(eid) == eid \in SolanaEids

\* config.sendLibrary of a connection.
HasSendLibrary(c) == {<<c.from, c.to>>, <<c.to, c.from>>} \cap bareLibrary = {}

Init ==
  /\ graph = <<>> /\ delegate = None /\ owner = None
  /\ initialised = {} /\ peers = {} /\ ulnConfigs = {}
  /\ authority = [admin |-> deployer, delegate |-> deployer]
  /\ tasks = [k \in Keys |-> {}]

(* The file is edited: a pathway is declared, in both directions. *)
AddPathway(p) ==
  LET c == [from |-> p[1], to |-> p[2]] IN
  /\ c \notin Range(graph)
  /\ graph' = graph \o <<c, [from |-> c.to, to |-> c.from]>>
  /\ UNCHANGED <<delegate, owner, onChain, tasks>>

SetDelegate(k) ==
  /\ delegate = None /\ delegate' = k
  /\ UNCHANGED <<graph, owner, onChain, tasks>>

SetOwner(k) ==
  /\ owner = None /\ owner' = k
  /\ UNCHANGED <<graph, delegate, onChain, tasks>>

-----------------------------------------------------------------------------
(***************************************************************************)
(* findSolanaEndpointIdInGraph: the loop returns after the first           *)
(* connection with a Solana endpoint, so that two different ones are only  *)
(* noticed within that connection.                                         *)
(***************************************************************************)
FindSolanaEndpointId ==
  LET found == {i \in DOMAIN graph : \E e \in Eids(graph[i]) : IsSolana(e)}
      first == CHOOSE i \in found : \A j \in found : i <= j
      eids  == {e \in Eids(graph[first]) : IsSolana(e)}
  IN  IF found # {} /\ (\E e \in eids : eids = {e}) THEN CHOOSE e \in eids : TRUE ELSE None

\* A bug: the checks end with the first connection from Solana.
FirstInitialised ==
  \E c \in Range(graph) : IsSolana(c.from) /\ (HasSendLibrary(c) => c \in initialised)

\* The pre-wiring checks.
PathwaysInitialised ==
  \A c \in Range(graph) : IsSolana(c.from) /\ HasSendLibrary(c) => c \in initialised

\* A bug: init-config does not pass isSolanaInitConfig on.
AlwaysChecked(kind) == PathwaysInitialised

MayConfigure(kind) == kind = "init-config" \/ PathwaysInitialised

(***************************************************************************)
(* What the configurators find missing: initOFTAccounts, configureOApp and *)
(* configureOwnable of the LayerZero devtools.  Transactions of a chain    *)
(* are sent in the order of their rank, the delegate last.                 *)
(***************************************************************************)
Tx(kind, chain, arg, rank) == [kind |-> kind, chain |-> chain, arg |-> arg, rank |-> rank]

OnConnections(kind, done, rank) ==
  {Tx(kind, c.from, c, rank) : c \in Range(graph) \ done}

\* The connections that have a send library and still lack their accounts.
InitAllAccounts == {t \in OnConnections("init", initialised, 1) : HasSendLibrary(t.arg)}

InitOFTAccounts == {t \in InitAllAccounts : IsSolana(t.chain)}

ConfigureOApp(eid) ==
  OnConnections("peer", peers, 1)
    \cup {t \in OnConnections("uln", ulnConfigs, 2) : HasSendLibrary(t.arg)}
    \cup IF delegate \in {None, authority.delegate} THEN {}
         ELSE {Tx("delegate", eid, delegate, 3)}

ConfigureOwnable(eid) ==
  IF owner \in {None, authority.admin} THEN {} ELSE {Tx("admin", eid, owner, 1)}

\* internalConfigurator, or else the default one.
Configuration(kind, eid) ==
  CASE kind = "init-config" -> InitOFTAccounts
    [] kind = "wire" -> ConfigureOApp(eid)
    [] kind = "transfer-ownership" -> ConfigureOwnable(eid)

\* The holder of a key runs a task, up to its first transaction.
Run(kind, k) ==
  /\ tasks[k] = {}
  /\ FindSolanaEndpointId # None
  /\ MayConfigure(kind)
  /\ tasks' = [tasks EXCEPT ![k] = Configuration(kind, FindSolanaEndpointId)]
  /\ tasks'[k] # {}
  /\ UNCHANGED <<file, onChain>>

\* The transactions of a task that may be sent next.
Due(k) == {t \in tasks[k] : \A u \in tasks[k] : u.chain = t.chain => t.rank <= u.rank}

\* Who must sign on Solana; on an EVM chain the tasks sign with the owner's key.
Authorised(t, k) ==
  \/ t.chain \in EvmEids
  \/ t.kind \in {"peer", "delegate", "admin"} /\ k = authority.admin
  \/ t.kind = "init" /\ k = authority.delegate
  \/ t.kind = "uln" /\ k = authority.delegate /\ t.arg \in initialised

\* SUBTASK_LZ_SIGN_AND_SEND: a transaction is signed by the key, and confirmed.
SignAndSend(k, t) ==
  /\ t \in Due(k) /\ Authorised(t, k)
  /\ tasks' = [tasks EXCEPT ![k] = @ \ {t}]
  /\ initialised' = IF t.kind = "init" THEN initialised \cup {t.arg} ELSE initialised
  /\ peers' = IF t.kind = "peer" THEN peers \cup {t.arg} ELSE peers
  /\ ulnConfigs' = IF t.kind = "uln" THEN ulnConfigs \cup {t.arg} ELSE ulnConfigs
  /\ authority' = IF t.kind \in {"admin", "delegate"}
                  THEN [authority EXCEPT ![t.kind] = t.arg] ELSE authority
  /\ UNCHANGED file

\* It fails, and with it what the task had still to send to that chain.
Fail(k, chain) ==
  /\ \E t \in tasks[k] : t.chain = chain
  /\ tasks' = [tasks EXCEPT ![k] = {t \in @ : t.chain # chain}]
  /\ UNCHANGED <<file, onChain>>

Next ==
  \/ \E p \in pathways : AddPathway(p)
  \/ \E k \in Keys : SetDelegate(k) \/ SetOwner(k)
  \/ \E k \in Keys, kind \in Tasks : Run(kind, k)
  \/ \E k \in Keys : \E t \in tasks[k] : SignAndSend(k, t)
  \/ \E k \in Keys, chain \in SolanaEids \cup EvmEids : Fail(k, chain)

Spec == Init /\ [][Next]_vars

\* The operators run each task again and again with each key, every task comes
\* to an end, and on no chain do transactions fail for ever.
SendsOn(k, chain) == \E t \in tasks[k] : t.chain = chain /\ SignAndSend(k, t)

FairSpec ==
  /\ Spec
  /\ \A k \in Keys, kind \in Tasks : SF_vars(Run(kind, k))
  /\ \A k \in Keys, chain \in SolanaEids \cup EvmEids :
       WF_vars(Fail(k, chain)) /\ SF_vars(SendsOn(k, chain))

-----------------------------------------------------------------------------
\* The state stays within the declared pathways and keys.
TypeOK ==
  /\ Range(graph) \subseteq Connections
  /\ {delegate, owner} \subseteq Keys \cup {None}
  /\ initialised \subseteq {c \in Range(graph) : IsSolana(c.from)}
  /\ peers \cup ulnConfigs \subseteq Range(graph)
  /\ authority \in [admin : Keys, delegate : Keys]
  /\ \A k \in Keys : \A t \in tasks[k] :
       t.chain \in SolanaEids \cup EvmEids /\ t.arg \in Connections \cup Keys

\* No chain opens a pathway whose Solana side has no configs yet, so that
\* nothing is sent into a pathway that Solana cannot verify: the checks come
\* before the first transaction to either chain, also when several tasks run,
\* are stopped and run again.
NothingOpensUninitialised ==
  \A c \in peers :
    HasSendLibrary(c) =>
      \E d \in initialised : Eids(d) = Eids(c)

Wired ==
  \A c \in Range(graph) : c \in peers /\ (HasSendLibrary(c) => c \in ulnConfigs)

\* Whatever fails, and although the delegate and the owner change hands on the
\* way, operators who repeat their tasks wire every declared pathway.
PathwaysGetWired == <>[]Wired

\* They also complete the handover that the file asks for, once it declares a
\* pathway: without one the tasks find no Solana endpoint.
HandoverCompletes ==
  <>[](graph # <<>> =>
         /\ delegate # None => authority.delegate = delegate
         /\ owner # None => authority.admin = owner)

\* lz:oapp:wire and lz:ownable:transfer-ownership, repeated, complete their work.
WiringCompletes == PathwaysGetWired /\ HandoverCompletes
=============================================================================
