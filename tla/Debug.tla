-------------------------------- MODULE Debug --------------------------------
(***************************************************************************)
(* lz:oft:solana:debug: the task reads the OFT store, the mint and the     *)
(* registry of the endpoint, one request after the other, and prints them; *)
(* for each of the endpoints asked for it reads and prints the peer and    *)
(* the configs of its pathway.  Meanwhile authorities are handed over and  *)
(* pathways are configured.                                                *)
(***************************************************************************)
EXTENDS Naturals, Sequences, FiniteSets, SequencesExt

CONSTANTS
  Keys,        \* those that may hold an authority
  oftStore,    \* the PDA of the store, the mint authority of a fresh OFT
  program,     \* the OFT program, header.owner of the store's account
  dstEids,     \* the sequence of endpoints asked for
  PeerAddresses, Configs,
  None,
  MaxChanges   \* bound on the changes of the chain during the task

DebugAssumption ==
  /\ {oftStore, program} \cap Keys = {} /\ oftStore # program
  /\ None \notin Keys \cup PeerAddresses \cup Configs \cup {oftStore, program}
  /\ dstEids \in Seq(Range(dstEids)) /\ MaxChanges \in Nat

VARIABLES
  chain,    \* the accounts: admin, delegate, mintAuthority, and each pathway's
            \*   peer, None without a PeerConfig account, and config
  changes,  \* how often they changed since the task began
  action,   \* the action asked for, None for the whole report
  fetched,  \* the accounts fetched so far: "store", "mint", "registry", "peers"
  read,     \* what was read of the chain when they were fetched
  todo,     \* the sections to be printed
  report,   \* the lines printed
  ended     \* the task has ended

vars == <<chain, changes, action, fetched, read, todo, report, ended>>

Destinations == Range(dstEids)
Chains ==
  [admin : Keys, delegate : Keys, mintAuthority : Keys \cup {oftStore, None},
   peer : [Destinations -> PeerAddresses \cup {None}], config : [Destinations -> Configs]]

Actions == {"oft-store", "admin", "delegate", "checks", "token", "peers"}

\* The sections that an action prints, in their order.
Sections(a) ==
  IF a # None THEN <<a>>
  ELSE <<"oft-store", "delegate", "token">>
         \o (IF dstEids = <<>> THEN <<>> ELSE <<"peers">>) \o <<"checks">>

Init ==
  /\ chain \in Chains /\ changes = 0
  /\ action \in Actions \cup {None}
  /\ fetched = {} /\ read = chain
  /\ todo = Sections(action) /\ report = <<>> /\ ended = FALSE

-----------------------------------------------------------------------------
(* Somebody changes an account while the task runs. *)
Change ==
  /\ ~ended /\ changes < MaxChanges /\ changes' = changes + 1
  /\ \/ \E k \in Keys : \E f \in {"admin", "delegate"} : chain' = [chain EXCEPT ![f] = k]
     \/ \E k \in Keys : chain' = [chain EXCEPT !.mintAuthority = k]
     \/ \E e \in Destinations, p \in PeerAddresses : chain' = [chain EXCEPT !.peer[e] = p]
     \/ \E e \in Destinations, c \in Configs : chain' = [chain EXCEPT !.config[e] = c]
  /\ UNCHANGED <<action, fetched, read, todo, report, ended>>

Fetched(account, after) ==
  /\ ~ended /\ after \subseteq fetched /\ account \notin fetched
  /\ fetched' = fetched \cup {account}
  /\ UNCHANGED <<chain, changes, action, todo, report, ended>>

FetchStore ==
  /\ Fetched("store", {})
  /\ read' = [read EXCEPT !.admin = chain.admin]

FetchMint ==
  /\ Fetched("mint", {"store"})
  /\ read' = [read EXCEPT !.mintAuthority = chain.mintAuthority]

FetchRegistry ==
  /\ Fetched("registry", {"store", "mint"})
  /\ read' = [read EXCEPT !.delegate = chain.delegate]

\* A request fails, or its account is not there: the task ends.
FetchFails ==
  /\ ~ended
  /\ \/ ~({"store", "mint", "registry"} \subseteq fetched)
     \/ todo # <<>> /\ Head(todo) = "peers"
  /\ ended' = TRUE
  /\ UNCHANGED <<chain, changes, action, fetched, read, todo, report>>

-----------------------------------------------------------------------------
Line(what, value) == [what |-> what, value |-> value]

\* A bug: the check looks at the registry again.
ChecksRefetched ==
  <<Line("sameAsDelegate", read.admin = chain.delegate),
    Line("mintAuthorityIsStore", read.mintAuthority = oftStore)>>

Checks ==
  <<Line("sameAsDelegate", read.admin = read.delegate),
    Line("mintAuthorityIsStore", read.mintAuthority = oftStore)>>

\* The lines of a section that is printed from what was fetched at the start.
Lines(section) ==
  CASE section = "oft-store" -> <<Line("owner", program), Line("admin", read.admin)>>
    [] section = "admin"     -> <<Line("admin", read.admin)>>
    [] section = "delegate"  -> <<Line("delegate", read.delegate)>>
    [] section = "token"     -> <<Line("mintAuthority", read.mintAuthority)>>
    [] section = "checks"    -> Checks

Prints(lines) ==
  /\ report' = report \o lines
  /\ UNCHANGED <<chain, changes, action>>

PrintSection ==
  /\ ~ended /\ {"store", "mint", "registry"} \subseteq fetched
  /\ todo # <<>> /\ Head(todo) # "peers"
  /\ Prints(Lines(Head(todo)))
  /\ todo' = Tail(todo)
  /\ UNCHANGED <<fetched, read, ended>>

\* printPeerConfigs: all peers at once, then pathway by pathway its configs.
FetchPeers ==
  /\ todo # <<>> /\ Head(todo) = "peers"
  /\ Fetched("peers", {"store", "mint", "registry"})
  /\ read' = [read EXCEPT !.peer = chain.peer]

\* The rows of the pathways among the first n lines.
Rows(n) == {k \in 1..n : report[k].what = "peer"}

NextPathway == Cardinality(Rows(Len(report))) + 1

\* The configs are read for every pathway, but printed only with a PeerConfig.
PrintPeer ==
  LET e == dstEids[NextPathway] IN
  /\ ~ended /\ "peers" \in fetched /\ NextPathway \in DOMAIN dstEids
  /\ Prints(<<Line("peer", [eid |-> e, peer |-> read.peer[e],
                            config |-> IF read.peer[e] = None THEN None
                                       ELSE chain.config[e]])>>)
  /\ UNCHANGED <<fetched, read, todo, ended>>

EndPeers ==
  /\ ~ended /\ todo # <<>> /\ Head(todo) = "peers"
  /\ "peers" \in fetched /\ NextPathway \notin DOMAIN dstEids
  /\ todo' = Tail(todo)
  /\ UNCHANGED <<chain, changes, action, fetched, read, report, ended>>

End ==
  /\ ~ended /\ todo = <<>> /\ ended' = TRUE
  /\ UNCHANGED <<chain, changes, action, fetched, read, todo, report>>

Next ==
  \/ Change \/ FetchStore \/ FetchMint \/ FetchRegistry \/ FetchFails
  \/ PrintSection \/ FetchPeers \/ PrintPeer \/ EndPeers \/ End

Spec == Init /\ [][Next]_vars

-----------------------------------------------------------------------------
\* The task holds what it could have read, and reports of what was asked for.
TypeOK ==
  /\ chain \in Chains /\ read \in Chains /\ changes \in 0..MaxChanges
  /\ fetched \subseteq {"store", "mint", "registry", "peers"}
  /\ Range(todo) \subseteq Actions
  /\ \A l \in Range(report) : l.what = "peer" => l.value.eid \in Destinations

Printed(what, v) == Line(what, v) \in Range(report)

\* Nothing having changed meanwhile, the report is true of the chain, its
\* checks and the rows of its pathways included.
QuietReportIsTrue ==
  changes = 0 =>
    \A l \in Range(report) :
      CASE l.what = "sameAsDelegate" -> l.value = (chain.admin = chain.delegate)
        [] l.what = "mintAuthorityIsStore" -> l.value = (chain.mintAuthority = oftStore)
        [] l.what = "peer" ->
             /\ l.value.peer = chain.peer[l.value.eid]
             /\ l.value.peer # None => l.value.config = chain.config[l.value.eid]
        [] l.what \in {"admin", "delegate", "mintAuthority"} -> l.value = chain[l.what]
        [] OTHER -> TRUE

\* Whatever changes meanwhile, the checks follow from the authorities printed
\* above them: a reader never sees them contradict each other.
ChecksFollow ==
  /\ \A a, d \in Keys, b \in BOOLEAN :
       Printed("admin", a) /\ Printed("delegate", d) /\ Printed("sameAsDelegate", b)
         => b = (a = d)
  /\ \A m \in Keys \cup {oftStore, None}, b \in BOOLEAN :
       Printed("mintAuthority", m) /\ Printed("mintAuthorityIsStore", b)
         => b = (m = oftStore)

\* A report that ended after all its sections has one row for each endpoint.
EveryPathwayPrinted ==
  ended /\ todo = <<>> /\ "peers" \in Range(Sections(action)) =>
    \A i \in DOMAIN dstEids : \E k \in Rows(Len(report)) :
      /\ Cardinality(Rows(k)) = i
      /\ report[k].value.eid = dstEids[i]
=============================================================================
