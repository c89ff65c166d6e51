------------------------------ MODULE Metadata ------------------------------
(***************************************************************************)
(* The metadata of the token: lz:oft:solana:update-metadata, which writes  *)
(* back what it read with the fields it was given, and                     *)
(* lz:oft:solana:set-update-authority, which hands the authority over or   *)
(* renounces it for good.  Both read the metadata, decide, perhaps ask,    *)
(* and write; they may run at the same time, in several terminals.         *)
(***************************************************************************)
EXTENDS Naturals

CONSTANTS
  Runs,     \* the tasks that run at the same time
  Keys,     \* the wallets
  creator,  \*   one of which created the token
  system,   \* the System Program, which signs nothing
  Names,    \* the values of the fields that stand for all text,
  Fees,     \*   and of sellerFeeBasisPoints
  None

ASSUME MetadataAssumption ==
  /\ creator \in Keys /\ system \notin Keys
  /\ Fees \subseteq Nat /\ 0 \in Fees
  /\ None \notin Keys \cup Names \cup Fees \cup {system}

VARIABLES
  metadata,       \* the account: updateAuthority, isMutable, name and fee
  task,           \* each run's wallet, arguments, what it read and its next step
  \* History, which no guard reads:
  createdMutable, \* the token was created with metadata that may change
  renounced,      \* a holder of the authority agreed to renounce it
  overtaken       \* the runs since whose reading an update of another has landed

historyVars == <<createdMutable, renounced, overtaken>>
vars == <<metadata, task, historyVars>>

Metadatas ==
  [updateAuthority : Keys \cup {system}, isMutable : BOOLEAN, name : Names, fee : Fees]

Updates == [kind : {"update"}, name : Names \cup {None}, fee : Fees \cup {None}]
Handovers == [kind : {"hand-over"}, to : Keys]
Arguments == Updates \cup Handovers \cup {[kind |-> "renounce"]}

Idle == [key |-> None, args |-> None, read |-> None, next |-> "idle"]

\* A run that has read the metadata and not yet written.
HasRead(r) == task[r].next \in {"prompt", "write"}

\* createV1: the wallet that creates is the authority, also of metadata that
\* --token-metadata-is-mutable makes immutable.
Init ==
  /\ metadata \in {m \in Metadatas : m.updateAuthority = creator}
  /\ task = [r \in Runs |-> Idle]
  /\ createdMutable = metadata.isMutable
  /\ renounced = FALSE /\ overtaken = {}

-----------------------------------------------------------------------------
\* The data of the update: the fields given, and the others as they were read.
Fields(args, read) ==
  [read EXCEPT !.name = IF args.name = None THEN read.name ELSE args.name,
               !.fee = IF args.fee = None THEN read.fee ELSE args.fee]

\* A bug: what was read is written back, also to renounce.
MutableAsRead(args, read) == read.isMutable

\* isMutable of a new authority's metadata.
IsMutable(args, read) == args.kind # "renounce" /\ read.isMutable

\* A bug: to hand over or renounce writes back the text as well.
WrittenBack(args, m, read) ==
  IF args.kind = "update"
  THEN [m EXCEPT !.name = Fields(args, read).name, !.fee = Fields(args, read).fee]
  ELSE [read EXCEPT !.updateAuthority = IF args.kind = "hand-over" THEN args.to ELSE system,
                    !.isMutable = IsMutable(args, read)]

\* What updateV1 makes of the account m.
Written(args, m, read) ==
  IF args.kind = "update"
  THEN [m EXCEPT !.name = Fields(args, read).name, !.fee = Fields(args, read).fee]
  ELSE [m EXCEPT !.updateAuthority = IF args.kind = "hand-over" THEN args.to ELSE system,
                 !.isMutable = IsMutable(args, read)]

-----------------------------------------------------------------------------
Start(r, k, args) ==
  /\ task[r] = Idle
  /\ task' = [task EXCEPT ![r] = [key |-> k, args |-> args, read |-> None, next |-> "fetch"]]
  /\ UNCHANGED <<metadata, historyVars>>

Ends(r) ==
  /\ task' = [task EXCEPT ![r] = Idle]
  /\ overtaken' = overtaken \ {r}

NextStep(args) == IF args.kind = "renounce" THEN "prompt" ELSE "write"

\* Only the update authority goes on, and only while the metadata is mutable or
\* to renounce it.
MayGoOn(k, args) ==
  metadata.updateAuthority = k /\ (metadata.isMutable \/ args.kind = "renounce")

Fetch(r) ==
  LET args == task[r].args IN
  /\ task[r].next = "fetch"
  /\ IF MayGoOn(task[r].key, args)
     THEN /\ task' = [task EXCEPT ![r].read = metadata, ![r].next = NextStep(args)]
          /\ UNCHANGED overtaken
     ELSE Ends(r)
  /\ UNCHANGED <<metadata, createdMutable, renounced>>

Prompt(r, yes) ==
  /\ task[r].next = "prompt"
  /\ IF yes THEN task' = [task EXCEPT ![r].next = "write"] /\ UNCHANGED overtaken ELSE Ends(r)
  /\ renounced' = (renounced \/ yes)
  /\ UNCHANGED <<metadata, createdMutable>>

\* updateV1 is signed by the key k, which must still be the authority.
Accepts(k, args) == MayGoOn(k, args)

Write(r) ==
  LET args == task[r].args IN
  /\ task[r].next = "write"
  /\ Accepts(task[r].key, args)
  /\ metadata' = Written(args, metadata, task[r].read)
  /\ task' = [task EXCEPT ![r] = Idle]
  /\ overtaken' = (IF args.kind = "update"
                   THEN overtaken \cup {q \in Runs : HasRead(q)}
                   ELSE overtaken) \ {r}
  /\ UNCHANGED <<createdMutable, renounced>>

\* A request fails, the transaction is refused, or the task is stopped.
Fail(r) ==
  /\ task[r] # Idle
  /\ Ends(r)
  /\ UNCHANGED <<metadata, createdMutable, renounced>>

Next ==
  \E r \in Runs :
    \/ \E k \in Keys, args \in Arguments : Start(r, k, args)
    \/ Fetch(r) \/ Write(r) \/ Fail(r)
    \/ \E yes \in BOOLEAN : Prompt(r, yes)

Spec == Init /\ [][Next]_vars

-----------------------------------------------------------------------------
\* The account is complete, and nothing is written that was not read before.
TypeOK ==
  /\ metadata \in Metadatas
  /\ \A r \in Runs :
       /\ task[r].next \in {"idle", "fetch", "prompt", "write"}
       /\ HasRead(r) => task[r].read \in Metadatas
  /\ createdMutable \in BOOLEAN /\ renounced \in BOOLEAN
  /\ overtaken \subseteq {r \in Runs : HasRead(r)}

\* The metadata is frozen if it was created so or its authority is renounced, and
\* not otherwise: no task, on whatever stale reading, freezes a token that somebody
\* still controls or leaves one mutable that nobody does.  It is renounced only by
\* an operator who was asked (setUpdateAuthority.ts).
FrozenOnPurpose ==
  /\ ~metadata.isMutable <=> ~createdMutable \/ metadata.updateAuthority = system
  /\ metadata.updateAuthority = system => renounced

\* An update that lands is undone in one way only: a field changes to the value that
\* an update was given for it, or because an update that was not given it had read
\* the field before another update landed (updateMetadata.ts writes all fields back).
\* A handover or a renouncement, however old its reading, undoes none.
UpdatesUndoneByUpdates ==
  [][\A f \in {"name", "fee"} :
       metadata'[f] # metadata[f] =>
         \E r \in Runs :
           /\ task[r].next = "write" /\ task'[r] = Idle /\ task[r].args.kind = "update"
           /\ \/ task[r].args[f] = metadata'[f]
              \/ task[r].args[f] = None /\ r \in overtaken]_vars
=============================================================================
