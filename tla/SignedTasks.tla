----------------------------- MODULE SignedTasks -----------------------------
(***************************************************************************)
(* The key that a Solana task signs with, and the tasks whose work is one  *)
(* transaction of that key: the rate limits of a peer are set and read     *)
(* back, a stored payload is retried.  Another holder of the admin key may *)
(* set limits at the same time; a transaction may land although the task   *)
(* gets no confirmation.                                                   *)
(***************************************************************************)
EXTENDS Naturals, FiniteSets

CONSTANTS
  Keys,       \* the keypairs at hand,
  ephemeral,  \*   and one that is generated
  admin,      \* the admin of the OFT
  Eids,       \* the peers
  sepolia,    \*   one of which is EndpointId.SEPOLIA_V2_TESTNET
  Limits,     \* the limits that are set
  Units,      \* the compute units that a retry asks for
  None

SignedTasksAssumption ==
  /\ admin \in Keys /\ ephemeral \notin Keys
  /\ sepolia \in Eids /\ Units \subseteq Nat
  /\ None \notin Keys \cup Limits \cup {ephemeral}

VARIABLES
  env,     \* the keypairs of SOLANA_PRIVATE_KEY, of SOLANA_KEYPAIR_PATH and of
           \*   ~/.config/solana/id.json, None where there is none
  limits,  \* the limits of each peer
  task,    \* the task: its kind and arguments, the next step, the keys that pay
           \*   and sign, the peer and the bytes it shows or passes
  changed, \* the limits it has changed
  others   \* limits were changed by others since it began

vars == <<env, limits, task, changed, others>>

Directions == {"inbound", "outbound"}

\* Tasks that derive a connection to sign with, or read only, among them.
Kinds == Directions \cup {"get", "retry", "derive", "read-only"}

Idle == [kind |-> None, eid |-> None, arg |-> None, next |-> "start", payer |-> None,
         signer |-> None, agreed |-> FALSE, shown |-> None, extra |-> None]

Init ==
  /\ env \in [{"private", "path", "file"} -> Keys \cup {None}]
  /\ limits = [e \in Eids |-> [d \in Directions |-> None]]
  /\ task = Idle /\ changed = {} /\ others = FALSE

-----------------------------------------------------------------------------
(* getSolanaKeypair: the environment comes before the file. *)

\* A bug: the path is looked at first and nothing is compared.
PathComesFirst(e) ==
  IF e.path # None THEN e.path ELSE IF e.private # None THEN e.private ELSE e.file

\* None stands for the error of two different keypairs, or of none.
SolanaKeypair(e) ==
  IF e.private # None /\ e.path \notin {None, e.private} THEN None
  ELSE IF e.private # None THEN e.private
  ELSE IF e.path # None THEN e.path ELSE e.file

\* The keypair is that of the file, and the operator is asked.
IsDefault(e) == e.private = None /\ e.path = None /\ e.file # None

-----------------------------------------------------------------------------
Arguments(kind) ==
  CASE kind \in Directions -> Limits
    [] kind = "retry" -> Units
    [] OTHER -> {None}

Start(kind) ==
  /\ task = Idle
  /\ \E e \in IF kind \in Directions \cup {"get"} THEN Eids ELSE {None}, a \in Arguments(kind) :
       task' = [Idle EXCEPT !.kind = kind, !.eid = e, !.arg = a,
                            !.next = IF kind = "get" THEN "show" ELSE "key"]
  /\ changed' = {} /\ others' = FALSE
  /\ UNCHANGED <<env, limits>>

Throws == task' = [task EXCEPT !.next = "threw"] /\ UNCHANGED <<env, limits, changed, others>>

Becomes(t) == task' = t /\ UNCHANGED <<env, limits, changed, others>>

\* The tasks of the rate limits only know SOLANA_PRIVATE_KEY.
LoadPrivateKey ==
  /\ task.kind \in Directions /\ task.next = "key"
  /\ IF env.private = None THEN Throws
     ELSE Becomes([task EXCEPT !.next = "send", !.payer = env.private, !.signer = env.private])

\* deriveConnection, and with it getSolanaKeypair; the retry pays with that key
\* and signs with SOLANA_PRIVATE_KEY, without which it does not begin.
DeriveConnection ==
  /\ task.kind \in {"derive", "read-only", "retry"} /\ task.next = "key"
  /\ IF task.kind = "read-only"
     THEN Becomes([task EXCEPT !.next = "done", !.signer = ephemeral])
     ELSE IF SolanaKeypair(env) = None \/ (task.kind = "retry" /\ env.private = None) THEN Throws
     ELSE IF IsDefault(env) THEN Becomes([task EXCEPT !.next = "prompt"])
     ELSE Becomes([task EXCEPT
            !.next = IF task.kind = "retry" THEN "send" ELSE "done",
            !.payer = SolanaKeypair(env),
            !.signer = IF task.kind = "retry" THEN env.private ELSE SolanaKeypair(env)])

\* "Use this keypair?"; otherwise the process exits.
Prompt(yes) ==
  /\ task.next = "prompt"
  /\ IF yes THEN Becomes([task EXCEPT !.next = "done", !.agreed = TRUE,
                                      !.payer = env.file, !.signer = env.file])
     ELSE Throws

-----------------------------------------------------------------------------
\* The peer whose limit is set: the outbound task names one itself.
LimitedPeer(kind, eid) == IF kind = "outbound" THEN sepolia ELSE eid

\* The program takes the limit from the admin; the confirmation may get lost.
SetRateLimit(confirmed) ==
  LET peer == LimitedPeer(task.kind, task.eid) IN
  /\ task.kind \in Directions /\ task.next = "send"
  /\ IF task.signer = admin
     THEN /\ limits' = [limits EXCEPT ![peer][task.kind] = task.arg]
          /\ changed' = {<<peer, task.kind>>}
          /\ task' = [task EXCEPT !.next = IF confirmed THEN "show" ELSE "threw"]
          /\ UNCHANGED <<env, others>>
     ELSE Throws

\* fetchPeerConfig, of the peer that was named to the task.
ShowPeer ==
  /\ task.next = "show"
  /\ \/ Becomes([task EXCEPT !.next = "done", !.shown = limits[task.eid]])
     \/ Throws

\* A bug: the numbers are passed on as they are.
PlainNumber(computeUnits) == computeUnits

\* Uint8Array.from([computeUnits, lamports]): one byte each.
ExtraData(computeUnits) == computeUnits % 256

RetryPayload ==
  /\ task.kind = "retry" /\ task.next = "send"
  /\ Becomes([task EXCEPT !.next = "done", !.extra = ExtraData(task.arg)])

Finish ==
  /\ task.next \in {"done", "threw"}
  /\ task' = Idle /\ changed' = {} /\ others' = FALSE
  /\ UNCHANGED <<env, limits>>

\* Another holder of the admin key sets a limit.
OthersSet(e, d, l) ==
  /\ task # Idle /\ limits[e][d] # l
  /\ limits' = [limits EXCEPT ![e][d] = l]
  /\ others' = TRUE
  /\ UNCHANGED <<env, task, changed>>

Next ==
  \/ \E kind \in Kinds : Start(kind)
  \/ LoadPrivateKey \/ DeriveConnection
  \/ \E yes \in BOOLEAN : Prompt(yes) \/ SetRateLimit(yes)
  \/ ShowPeer \/ RetryPayload \/ Finish
  \/ \E e \in Eids, d \in Directions, l \in Limits : OthersSet(e, d, l)

Spec == Init /\ [][Next]_vars

-----------------------------------------------------------------------------
\* The bytes passed on are bytes, and only known peers have limits.
TypeOK ==
  /\ env \in [{"private", "path", "file"} -> Keys \cup {None}]
  /\ limits \in [Eids -> [Directions -> Limits \cup {None}]]
  /\ task.kind \in Kinds \cup {None}
  /\ task.next \in {"start", "key", "prompt", "send", "show", "done", "threw"}
  /\ {task.payer, task.signer} \subseteq Keys \cup {ephemeral, None}
  /\ task.extra \in 0..255 \cup {None}
  /\ changed \subseteq Eids \X Directions

\* Nothing is signed with the key of the default file unless the operator said
\* so or named the same key in the environment.
DefaultIsAgreed ==
  task.signer \notin {None, ephemeral, env.private, env.path} => task.agreed

\* While the environment names two different keys, a task that derives its
\* connection signs nothing: the operator never signs with the one by mistake.
ConflictIsRefused ==
  None \notin {env.private, env.path} /\ env.private # env.path
    /\ task.kind \in {"derive", "retry"} => task.signer = None

\* The retry takes its key from two places, yet the one that pays is the one
\* that signs.
PayerSigns == task.signer # None /\ task.kind = "retry" => task.payer = task.signer

\* The inbound task changes the limit of the peer it was given and no other, and
\* shows it as it was set, unless others set it as well.
InboundShowsWhatItSet ==
  task.kind = "inbound" =>
    /\ changed \subseteq {<<task.eid, "inbound">>}
    /\ task.next = "done" /\ ~others => task.shown["inbound"] = task.arg
=============================================================================
