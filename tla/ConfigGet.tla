------------------------------ MODULE ConfigGet ------------------------------
(***************************************************************************)
(* lz:oapp:config:get: the task reads, pathway by pathway, the libraries   *)
(* and configs that an OApp uses, prints a table of each and returns them  *)
(* all.  The pathways of the EVM chains come first, then those of Solana;  *)
(* each group runs in series or in parallel.  Every library and every      *)
(* config is a request to a node, between two of which the OApp or the     *)
(* endpoint may be reconfigured and the other pathways make progress, and  *)
(* which may fail.  A config is asked of the library that was read before. *)
(***************************************************************************)
EXTENDS Naturals, Sequences, FiniteSets, SequencesExt

CONSTANTS
  graph,         \* the connections, a sequence of [from, to]
  SolanaEids,    \* the endpoints on Solana
  networkName,   \* the name of each endpoint's network
  Libraries,     \* the message libraries,
  uln,           \*   one of which is ULN302
  Configs,       \* the configs of a library
  None,
  earlierSettings, \* what a pathway may be set to at first
  MaxChanges     \* bound on the reconfigurations during the task

Sides == {"receive", "send"}
Kinds == {"uln", "executor"}

\* The library of a side and the configs of each library: what the OApp has set,
\* None where it uses the default, and what the endpoint has for the remote chain.
Own == [library : Libraries \cup {None},
        config : [Libraries -> [Kinds -> Configs \cup {None}]]]
Defaults == [library : Libraries, config : [Libraries -> [Kinds -> Configs]]]
Settings == [Sides -> [own : Own, default : Defaults]]

ConfigGetAssumption ==
  /\ uln \in Libraries
  /\ None \notin Libraries \cup Configs
  /\ MaxChanges \in Nat
  /\ graph \in Seq(Range(graph))
  \* Each endpoint has a network of its own.
  /\ \A c, d \in Range(graph) :
       networkName[c.from] = networkName[d.from] /\ networkName[c.to] = networkName[d.to] => c = d
  /\ earlierSettings \subseteq Settings

VARIABLES
  pathway,  \* the settings of each connection
  changes,  \* the reconfigurations so far
  seen,     \* the settings of each connection since the task began
  parallel, \* the applicative: in parallel, or in series
  phase,    \* "evm", "solana", "returned" or "failed"
  answers,  \* the answers of each connection, by request
  printed,  \* the connections whose table is printed
  configs   \* the result: by local and by remote network name

chain == <<pathway, changes, seen>>
vars == <<chain, parallel, phase, answers, printed, configs>>

Connections == Range(graph)
IsSolana(eid) == eid \in SolanaEids
Phase(c) == IF IsSolana(c.from) THEN "solana" ELSE "evm"

Init ==
  /\ pathway \in [Connections -> earlierSettings]
  /\ changes = 0
  /\ seen = [c \in Connections |-> {pathway[c]}]
  /\ parallel \in BOOLEAN
  /\ phase = "evm"
  /\ answers = [c \in Connections |-> <<>>]
  /\ printed = {} /\ configs = <<>>

-----------------------------------------------------------------------------
(* The chains. *)

Or(v, default) == IF v = None THEN default ELSE v

LibraryInUse(p) == Or(p.own.library, p.default.library)

ConfigInUse(p, library, kind) == Or(p.own.config[library][kind], p.default.config[library][kind])

Reconfigure(c, side, who, set) ==
  /\ phase \in {"evm", "solana"}
  /\ changes < MaxChanges /\ changes' = changes + 1
  /\ pathway' = [pathway EXCEPT ![c][side][who] = set]
  /\ seen' = [seen EXCEPT ![c] = @ \cup {pathway'[c]}]
  /\ UNCHANGED <<parallel, phase, answers, printed, configs>>

\* The OApp may also go back to the default.
SetTo(who, S) == IF who = "own" THEN S \cup {None} ELSE S

SetLibrary(c, side, who) ==
  LET set == pathway[c][side][who] IN
  \E l \in SetTo(who, Libraries) \ {set.library} :
    Reconfigure(c, side, who, [set EXCEPT !.library = l])

SetConfig(c, side, who) ==
  LET set == pathway[c][side][who] IN
  \E l \in Libraries, kind \in (IF side = "send" THEN Kinds ELSE {"uln"}) :
    \E v \in SetTo(who, Configs) \ {set.config[l][kind]} :
      Reconfigure(c, side, who, [set EXCEPT !.config[l][kind] = v])

-----------------------------------------------------------------------------
(* The requests of a connection, in their order. *)

Request(column, side, what) == [column |-> column, side |-> side, what |-> what]

EvmRequests ==
  <<Request("custom", "receive", "library"),  Request("custom", "receive", "uln"),
    Request("custom", "send", "library"),     Request("custom", "send", "uln"),
    Request("custom", "send", "executor"),
    Request("default", "receive", "library"), Request("default", "receive", "uln"),
    Request("default", "send", "library"),    Request("default", "send", "uln"),
    Request("default", "send", "executor"),
    Request("active", "receive", "library"),  Request("active", "receive", "uln"),
    Request("active", "send", "library"),     Request("active", "send", "uln"),
    Request("active", "send", "executor")>>

\* getSolanaReceiveConfig and getSolanaSendConfig; only the active ones are read.
SolanaRequests ==
  <<Request("active", "receive", "library"), Request("active", "receive", "uln"),
    Request("active", "send", "library"),    Request("active", "send", "uln"),
    Request("active", "send", "executor")>>

Requests(c) == IF IsSolana(c.from) THEN SolanaRequests ELSE EvmRequests

\* The library of a side: the OApp's own or None, the default one, the one in use.
\* On Solana a pathway without a library of its own has that of PROGRAM_ADDRESS.
LibraryRead(c, p, column) ==
  CASE IsSolana(c.from)   -> Or(p.own.library, uln)
    [] column = "custom"  -> p.own.library
    [] column = "default" -> p.default.library
    [] OTHER              -> LibraryInUse(p)

ConfigRead(p, column, library, kind) ==
  CASE column = "custom"  -> p.own.config[library][kind]
    [] column = "default" -> p.default.config[library][kind]
    [] OTHER              -> ConfigInUse(p, library, kind)

\* A bug: the table shows the sending config among the custom ones twice.
CellOfSend(c, column, side, what) ==
  answers[c][Request(column, IF column = "custom" /\ what = "uln" THEN "send" ELSE side, what)]

Cell(c, column, side, what) == answers[c][Request(column, side, what)]

\* A config is asked of the library read just before, or of the default one if
\* the OApp had none of its own; on Solana that of the ULN always of PROGRAM_ID.
Asked(c, p, request) ==
  IF IsSolana(c.from) /\ request.what = "uln"
  THEN uln
  ELSE Or(Cell(c, request.column, request.side, "library"), p.default.library)

Answer(c, request) ==
  LET p == pathway[c][request.side] IN
  IF request.what = "library"
  THEN LibraryRead(c, p, request.column)
  ELSE ConfigRead(p, request.column, Asked(c, p, request), request.what)

Complete(c) == DOMAIN answers[c] = Range(Requests(c))

-----------------------------------------------------------------------------
(* The task. *)

\* An object with one of its entries set.
Updated(f, key, value) == [k \in DOMAIN f \cup {key} |-> IF k = key THEN value ELSE f[k]]

Entry(c) ==
  [defaultSendLibrary    |-> Cell(c, "active", "send", "library"),
   defaultReceiveLibrary |-> Cell(c, "active", "receive", "library"),
   sendUlnConfig         |-> Cell(c, "active", "send", "uln"),
   sendExecutorConfig    |-> Cell(c, "active", "send", "executor"),
   receiveUlnConfig      |-> Cell(c, "active", "receive", "uln")]

\* A bug: the spread is forgotten.
MergedAlone(c) ==
  Updated(configs, networkName[c.from], Updated(<<>>, networkName[c.to], Entry(c)))

\* configs[local] = {...configs[local], [remote]: ...}
Merged(c) ==
  LET local == networkName[c.from]
      others == IF local \in DOMAIN configs THEN configs[local] ELSE <<>>
  IN  Updated(configs, local, Updated(others, networkName[c.to], Entry(c)))

\* In series, a connection waits for those before it in its group.
Turn(c) ==
  /\ phase = Phase(c) /\ c \notin printed
  /\ \/ parallel
     \/ \A i, j \in DOMAIN graph :
          graph[j] = c /\ i < j /\ Phase(graph[i]) = Phase(c) => graph[i] \in printed

\* The requests before i are answered, and it is not.
IsNext(c, i) ==
  /\ Requests(c)[i] \notin DOMAIN answers[c]
  /\ \A j \in 1 .. (i - 1) : Requests(c)[j] \in DOMAIN answers[c]

Ask(c) ==
  /\ Turn(c)
  /\ \E i \in DOMAIN Requests(c) :
       /\ IsNext(c, i)
       /\ answers' = [answers EXCEPT ![c] = Updated(@, Requests(c)[i], Answer(c, Requests(c)[i]))]
  /\ UNCHANGED <<chain, parallel, phase, printed, configs>>

Report(c) ==
  /\ Turn(c) /\ Complete(c)
  /\ configs' = Merged(c)
  /\ printed' = printed \cup {c}
  /\ UNCHANGED <<chain, parallel, phase, answers>>

\* A request fails, and with it the task.
Reject(c) ==
  /\ Turn(c) /\ ~Complete(c)
  /\ phase' = "failed"
  /\ UNCHANGED <<chain, parallel, answers, printed, configs>>

Group(p) == {c \in Connections : Phase(c) = p}

\* await applicative(tasks), await applicative(solTasks), return configs
Proceed ==
  /\ phase \in {"evm", "solana"} /\ Group(phase) \subseteq printed
  /\ phase' = IF phase = "evm" THEN "solana" ELSE "returned"
  /\ UNCHANGED <<chain, parallel, answers, printed, configs>>

Next ==
  \/ \E c \in Connections, side \in Sides, who \in {"own", "default"} :
       SetLibrary(c, side, who) \/ SetConfig(c, side, who)
  \/ \E c \in Connections : Ask(c) \/ Report(c) \/ Reject(c)
  \/ Proceed

Spec == Init /\ [][Next]_vars

-----------------------------------------------------------------------------
Rows ==
  [defaultSendLibrary : Libraries, defaultReceiveLibrary : Libraries,
   sendUlnConfig : Configs, sendExecutorConfig : Configs, receiveUlnConfig : Configs]

\* The result is indexed by network names, and holds libraries and configs only.
TypeOK ==
  /\ phase \in {"evm", "solana", "returned", "failed"}
  /\ changes \in 0..MaxChanges
  /\ pathway \in [Connections -> Settings]
  /\ \A c \in Connections : DOMAIN answers[c] \subseteq Range(Requests(c))
  /\ \A local \in DOMAIN configs : \A remote \in DOMAIN configs[local] :
       configs[local][remote] \in Rows

\* The result has the connection.
Returned(c) ==
  /\ networkName[c.from] \in DOMAIN configs
  /\ networkName[c.to] \in DOMAIN configs[networkName[c.from]]

\* The task returns every pathway of the graph, also when the pathways of one
\* network finish in any order and each updates the same entry.
EveryPathwayReturned == phase = "returned" => \A c \in Connections : Returned(c)

\* The library of a row was that of the pathway's side at some moment of the task,
\* and each config that of the library beside it (on Solana, for the ULN, of ULN302):
\* no other pathway's or side's answer gets there.  The moments may differ.
RowWasInForce(c, row) ==
  LET Of(library) == IF IsSolana(c.from) THEN uln ELSE library IN
  /\ \E o \in seen[c] : row.defaultSendLibrary = LibraryRead(c, o["send"], "active")
  /\ \E o \in seen[c] : row.defaultReceiveLibrary = LibraryRead(c, o["receive"], "active")
  /\ \E o \in seen[c] :
       row.sendUlnConfig = ConfigInUse(o["send"], Of(row.defaultSendLibrary), "uln")
  /\ \E o \in seen[c] :
       row.sendExecutorConfig = ConfigInUse(o["send"], row.defaultSendLibrary, "executor")
  /\ \E o \in seen[c] :
       row.receiveUlnConfig = ConfigInUse(o["receive"], Of(row.defaultReceiveLibrary), "uln")

\* What the task returns of a pathway was in force on it.
ReportedWasInForce ==
  \A c \in printed :
    Returned(c) => RowWasInForce(c, configs[networkName[c.from]][networkName[c.to]])

\* The three columns of an EVM table agree unless the pathway or its defaults were
\* changed while it was read: the active library is the custom one, or else the
\* default, and so is a config, which without a custom one is that of the default
\* column only if the library is (config.get.ts:73-86).
ColumnsAgree ==
  \A c \in printed :
    ~IsSolana(c.from) /\ Cardinality(seen[c]) = 1 =>
      \A side \in Sides :
        LET active(what) == Cell(c, "active", side, what)
            custom(what) == Cell(c, "custom", side, what)
            default(what) == Cell(c, "default", side, what)
        IN  /\ active("library") = Or(custom("library"), default("library"))
            /\ \A kind \in (IF side = "send" THEN Kinds ELSE {"uln"}) :
                 \/ active(kind) = Or(custom(kind), default(kind))
                 \/ custom(kind) = None /\ active("library") # default("library")
=============================================================================
