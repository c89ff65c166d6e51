-------------------------- MODULE DeploymentProofs --------------------------
(***************************************************************************)
(* Proofs about the deployment of the token: its metadata, the creation    *)
(* and handover of its accounts, the wiring of its pathways, and the three *)
(* together, for any lists of minters, number of tasks, creations and      *)
(* multisigs, pathways, keys and metadata.                                 *)
(***************************************************************************)
EXTENDS Deployment, TLAPS, SequenceTheorems

-----------------------------------------------------------------------------
(***************************************************************************)
(* The metadata.  The invariant follows each task from its reading to its  *)
(* write: what a task that hands over had read was mutable, and a task     *)
(* that is about to renounce has asked.                                    *)
(***************************************************************************)
Tasks == [key : Keys, args : Arguments, read : Metadatas \cup {None},
          next : {"fetch", "prompt", "write"}]

\* What a task that has read the metadata still knows of it when it writes.
Prepared(t) ==
  t.next \in {"prompt", "write"} =>
    /\ t.read \in Metadatas
    /\ t.args.kind = "hand-over" => t.read.isMutable = TRUE

Agreed(t) == t.next = "write" /\ t.args.kind = "renounce" => renounced = TRUE

TasksOK == \A r \in Runs : task[r] = Idle \/ (Prepared(task[r]) /\ Agreed(task[r]))

\* What was read of the text is still so, unless an update of another has landed.
Current(r, t) ==
  t.next \in {"prompt", "write"} /\ r \notin overtaken =>
    t.read.name = metadata.name /\ t.read.fee = metadata.fee

ReadingsCurrent == \A r \in Runs : Current(r, task[r])

Inv ==
  /\ metadata \in Metadatas
  /\ task \in [Runs -> Tasks \cup {Idle}]
  /\ createdMutable \in BOOLEAN
  /\ renounced \in BOOLEAN
  /\ overtaken \subseteq {r \in Runs : HasRead(r)}
  /\ TasksOK
  /\ ReadingsCurrent
  /\ FrozenOnPurpose

-----------------------------------------------------------------------------
LEMMA ArgumentKinds ==
  ASSUME NEW args \in Arguments
  PROVE  /\ args.kind \in {"update", "hand-over", "renounce"}
         /\ args.kind = "update" => args \in Updates
         /\ args.kind = "hand-over" => args \in Handovers
BY DEF Arguments, Updates, Handovers

\* Only the keys are authorities that somebody can sign for.
LEMMA SystemIsNoKey == system \notin Keys
BY MetadataAssumption DEF MetadataAssumption

LEMMA CreatorIsKey == creator \in Keys
BY MetadataAssumption DEF MetadataAssumption

LEMMA WrittenType ==
  ASSUME NEW args \in Arguments, NEW m \in Metadatas, NEW read \in Metadatas
  PROVE  Written(args, m, read) \in Metadatas
<1>1. CASE args.kind = "update"
  <2>1. args \in Updates
    BY <1>1, ArgumentKinds
  <2>2. Fields(args, read).name \in Names /\ Fields(args, read).fee \in Fees
    BY <2>1 DEF Fields, Updates, Metadatas
  <2>3. Written(args, m, read)
          = [m EXCEPT !.name = Fields(args, read).name, !.fee = Fields(args, read).fee]
    BY <1>1 DEF Written
  <2>. QED
    BY <2>2, <2>3 DEF Metadatas
<1>2. CASE args.kind = "hand-over"
  <2>1. args.to \in Keys
    BY <1>2, ArgumentKinds DEF Handovers
  <2>2. IsMutable(args, read) \in BOOLEAN
    BY DEF IsMutable
  <2>3. Written(args, m, read)
          = [m EXCEPT !.updateAuthority = args.to, !.isMutable = IsMutable(args, read)]
    BY <1>2 DEF Written
  <2>. QED
    BY <2>1, <2>2, <2>3 DEF Metadatas
<1>3. CASE args.kind = "renounce"
  <2>1. IsMutable(args, read) \in BOOLEAN
    BY DEF IsMutable
  <2>2. Written(args, m, read)
          = [m EXCEPT !.updateAuthority = system, !.isMutable = IsMutable(args, read)]
    BY <1>3 DEF Written
  <2>. QED
    BY <2>1, <2>2 DEF Metadatas
<1>. QED
  BY <1>1, <1>2, <1>3, ArgumentKinds

\* A write that is accepted keeps the account frozen exactly when it was created so
\* or nobody controls it: to renounce freezes, and to hand over or to update takes a
\* mutable account.
LEMMA WrittenFrozen ==
  ASSUME NEW args \in Arguments, NEW m \in Metadatas, NEW read \in Metadatas,
         NEW immutable \in BOOLEAN,
         args.kind = "hand-over" => read.isMutable = TRUE,
         m.isMutable = TRUE \/ args.kind = "renounce",
         m.isMutable = FALSE <=> (immutable = TRUE \/ m.updateAuthority = system)
  PROVE  Written(args, m, read).isMutable = FALSE
           <=> (immutable = TRUE \/ Written(args, m, read).updateAuthority = system)
<1>1. CASE args.kind = "update"
  BY <1>1 DEF Written, Metadatas
<1>2. CASE args.kind = "hand-over"
  <2>1. args.to \in Keys
    BY <1>2, ArgumentKinds DEF Handovers
  <2>2. IsMutable(args, read) = TRUE
    BY <1>2 DEF IsMutable, Metadatas
  <2>. QED
    BY <1>2, <2>1, <2>2, SystemIsNoKey DEF Written, Metadatas
<1>3. CASE args.kind = "renounce"
  <2>1. IsMutable(args, read) = FALSE
    BY <1>3 DEF IsMutable
  <2>. QED
    BY <1>3, <2>1 DEF Written, Metadatas
<1>. QED
  BY <1>1, <1>2, <1>3, ArgumentKinds

\* To hand over or to renounce leaves the text alone; an update writes what it was
\* given and, of the rest, what it had read.
LEMMA WrittenText ==
  ASSUME NEW args \in Arguments, NEW m \in Metadatas, NEW read \in Metadatas
  PROVE  LET w == Written(args, m, read) IN
         IF args.kind = "update"
         THEN /\ w.name = IF args.name = None THEN read.name ELSE args.name
              /\ w.fee = IF args.fee = None THEN read.fee ELSE args.fee
         ELSE w.name = m.name /\ w.fee = m.fee
<1>1. CASE args.kind = "update"
  <2>1. /\ Fields(args, read).name = IF args.name = None THEN read.name ELSE args.name
        /\ Fields(args, read).fee = IF args.fee = None THEN read.fee ELSE args.fee
    BY DEF Fields, Metadatas
  <2>. QED
    BY <1>1, <2>1 DEF Written, Metadatas
<1>2. CASE args.kind # "update"
  BY <1>2 DEF Written, Metadatas
<1>. QED
  BY <1>1, <1>2

\* Only a task that renounces makes the System Program the authority.
LEMMA WrittenAuthority ==
  ASSUME NEW args \in Arguments, NEW m \in Metadatas, NEW read \in Metadatas
  PROVE  Written(args, m, read).updateAuthority = system
           => args.kind = "renounce" \/ m.updateAuthority = system
<1>1. CASE args.kind = "update"
  BY <1>1 DEF Written, Metadatas
<1>2. CASE args.kind = "hand-over"
  <2>1. args.to \in Keys
    BY <1>2, ArgumentKinds DEF Handovers
  <2>. QED
    BY <1>2, <2>1, SystemIsNoKey DEF Written, Metadatas
<1>. QED
  BY <1>1, <1>2, ArgumentKinds

-----------------------------------------------------------------------------
LEMMA IdleIsNoTask == Idle \notin Tasks /\ Idle.next = "idle"
BY DEF Idle, Tasks

\* A task that is under way is one that prepared and asked as it should.
LEMMA Busy ==
  ASSUME Inv, NEW r \in Runs, task[r].next # "idle"
  PROVE  task[r] \in Tasks /\ Prepared(task[r]) /\ Agreed(task[r])
BY IdleIsNoTask DEF Inv, TasksOK

LEMMA InitInv == Init => Inv
<1>. SUFFICES ASSUME Init PROVE Inv
  OBVIOUS
<1>1. \A r \in Runs : task[r] = Idle
  BY DEF Init
<1>2. task \in [Runs -> Tasks \cup {Idle}] /\ TasksOK /\ ReadingsCurrent
  BY <1>1, IdleIsNoTask DEF Init, TasksOK, ReadingsCurrent, Current
<1>3. /\ metadata \in Metadatas /\ metadata.updateAuthority = creator
      /\ createdMutable = metadata.isMutable /\ metadata.isMutable \in BOOLEAN
  BY DEF Init, Metadatas
<1>4. metadata.updateAuthority # system
  BY <1>3, CreatorIsKey, SystemIsNoKey
<1>5. FrozenOnPurpose
  BY <1>3, <1>4, Zenon DEF FrozenOnPurpose
<1>. QED
  BY <1>2, <1>3, <1>5 DEF Init, Inv

\* Steps that leave the account alone only have to care for their own task.
LEMMA TaskStep ==
  ASSUME Inv, NEW r \in Runs, NEW t \in Tasks \cup {Idle},
         task' = [task EXCEPT ![r] = t], UNCHANGED <<metadata, createdMutable>>,
         renounced' \in BOOLEAN, renounced = TRUE => renounced' = TRUE,
         t = Idle \/ (Prepared(t) /\ (t.next = "write" /\ t.args.kind = "renounce"
                                        => renounced' = TRUE)),
         overtaken' = overtaken
           \/ (overtaken' = overtaken \ {r} /\ t.next \notin {"prompt", "write"}),
         r \in overtaken' => t.next \in {"prompt", "write"},
         Current(r, t)
  PROVE  Inv'
<1>1. task' \in [Runs -> Tasks \cup {Idle}] /\ task'[r] = t
  BY DEF Inv
<1>2. ASSUME NEW q \in Runs, q # r
      PROVE  task'[q] = task[q] /\ (q \in overtaken' <=> q \in overtaken)
  BY <1>2 DEF Inv
<1>3. TasksOK'
  <2>. SUFFICES ASSUME NEW q \in Runs
                PROVE  task'[q] = Idle \/ (Prepared(task'[q]) /\ Agreed(task[q])')
    BY DEF TasksOK, Prepared, Idle
  <2>1. CASE q = r
    BY <1>1, <2>1 DEF Agreed
  <2>2. CASE q # r
    BY <1>2, <2>2 DEF Inv, TasksOK, Agreed
  <2>. QED
    BY <2>1, <2>2
<1>4. ReadingsCurrent'
  <2>. SUFFICES ASSUME NEW q \in Runs, task'[q].next \in {"prompt", "write"},
                       q \notin overtaken'
                PROVE  task'[q].read.name = metadata.name /\ task'[q].read.fee = metadata.fee
    BY DEF ReadingsCurrent, Current
  <2>1. CASE q = r
    BY <1>1, <2>1 DEF Current
  <2>2. CASE q # r
    BY <1>2, <2>2 DEF Inv, ReadingsCurrent, Current
  <2>. QED
    BY <2>1, <2>2
<1>5. overtaken' \subseteq {q \in Runs : task'[q].next \in {"prompt", "write"}}
  <2>. SUFFICES ASSUME NEW q \in overtaken'
                PROVE  q \in Runs /\ task'[q].next \in {"prompt", "write"}
    OBVIOUS
  <2>1. q \in overtaken
    OBVIOUS
  <2>2. q \in Runs /\ task[q].next \in {"prompt", "write"}
    BY <2>1 DEF Inv, HasRead
  <2>. QED
    BY <1>1, <1>2, <2>2
<1>6. FrozenOnPurpose'
  BY DEF Inv, FrozenOnPurpose
<1>. QED
  BY <1>1, <1>3, <1>4, <1>5, <1>6 DEF Inv, HasRead

LEMMA EndsStep ==
  ASSUME Inv, NEW r \in Runs, Ends(r), UNCHANGED <<metadata, createdMutable>>,
         renounced' \in BOOLEAN, renounced = TRUE => renounced' = TRUE
  PROVE  Inv'
<1>1. Current(r, Idle) /\ Idle.next \notin {"prompt", "write"}
  BY IdleIsNoTask DEF Current
<1>2. task' = [task EXCEPT ![r] = Idle] /\ overtaken' = overtaken \ {r}
  BY DEF Ends
<1>. HIDE DEF Idle
<1>. QED
  BY <1>1, <1>2, TaskStep

-----------------------------------------------------------------------------
LEMMA StartStep ==
  ASSUME Inv, NEW r \in Runs, NEW k \in Keys, NEW args \in Arguments, Start(r, k, args)
  PROVE  Inv'
<1>. DEFINE t == [key |-> k, args |-> args, read |-> None, next |-> "fetch"]
<1>1. t \in Tasks /\ t.next = "fetch"
  BY DEF Tasks
<1>2. Prepared(t) /\ Current(r, t)
  BY <1>1 DEF Prepared, Current
<1>3. task' = [task EXCEPT ![r] = t] /\ UNCHANGED <<metadata, historyVars>>
  BY DEF Start
<1>4. r \notin overtaken
  BY IdleIsNoTask DEF Start, Inv, HasRead
<1>. HIDE DEF t
<1>. QED
  BY <1>1, <1>2, <1>3, <1>4, TaskStep DEF Inv, historyVars

\* A task goes on with what is so at this moment.
LEMMA FetchStep ==
  ASSUME Inv, NEW r \in Runs, Fetch(r)
  PROVE  Inv'
<1>. DEFINE args == task[r].args
            t == [task[r] EXCEPT !.read = metadata, !.next = NextStep(args)]
<1>1. task[r] \in Tasks /\ task[r].key \in Keys /\ args \in Arguments
  BY Busy DEF Fetch, Tasks
<1>2. NextStep(args) = IF args.kind = "renounce" THEN "prompt" ELSE "write"
  BY DEF NextStep
<1>3. CASE MayGoOn(task[r].key, args)
  <2>1. t \in Tasks /\ t.read = metadata /\ t.next = NextStep(args) /\ t.args = args
    BY <1>1, <1>2 DEF Tasks, Inv
  <2>2. metadata \in Metadatas /\ metadata.isMutable \in BOOLEAN
    BY DEF Inv, Metadatas
  <2>3. args.kind = "hand-over" => metadata.isMutable = TRUE
    BY <1>3, <2>2 DEF MayGoOn
  <2>4. Prepared(t) /\ Current(r, t)
    BY <2>1, <2>2, <2>3 DEF Prepared, Current
  <2>5. ~(t.next = "write" /\ t.args.kind = "renounce") /\ t.next \in {"prompt", "write"}
    BY <1>2, <2>1
  <2>6. /\ task' = [task EXCEPT ![r] = t]
        /\ UNCHANGED <<metadata, createdMutable>> /\ overtaken' = overtaken
        /\ renounced' = renounced /\ renounced' \in BOOLEAN
    BY <1>3 DEF Fetch, Inv
  <2>7. t \in Tasks \cup {Idle} /\ (r \in overtaken' => t.next \in {"prompt", "write"})
    BY <2>1, <2>5
  <2>. HIDE DEF t, args
  <2>. QED
    BY <2>4, <2>5, <2>6, <2>7, TaskStep
<1>4. CASE ~MayGoOn(task[r].key, args)
  <2>1. Ends(r) /\ UNCHANGED <<metadata, createdMutable, renounced>>
    BY <1>4 DEF Fetch
  <2>. QED
    BY <2>1, EndsStep DEF Inv
<1>. QED
  BY <1>3, <1>4

LEMMA PromptStep ==
  ASSUME Inv, NEW r \in Runs, NEW yes \in BOOLEAN, Prompt(r, yes)
  PROVE  Inv'
<1>. DEFINE t == [task[r] EXCEPT !.next = "write"]
<1>1. task[r] \in Tasks /\ Prepared(task[r]) /\ task[r].next = "prompt"
  BY Busy DEF Prompt
<1>2. /\ renounced' = (renounced \/ yes) /\ renounced \in BOOLEAN
      /\ UNCHANGED <<metadata, createdMutable>>
  BY DEF Prompt, Inv
<1>3. renounced' \in BOOLEAN /\ (renounced = TRUE => renounced' = TRUE)
  BY <1>2, Zenon
<1>4. CASE yes
  <2>1. t \in Tasks /\ t.next = "write" /\ t.read = task[r].read /\ t.args = task[r].args
    BY <1>1 DEF Tasks
  <2>2. Prepared(t) /\ Current(r, t)
    BY <1>1, <2>1 DEF Prepared, Current, Inv, ReadingsCurrent
  <2>3. renounced' = TRUE
    BY <1>2, <1>4, Zenon
  <2>4. task' = [task EXCEPT ![r] = t] /\ overtaken' = overtaken
    BY <1>4 DEF Prompt, Inv
  <2>5. t \in Tasks \cup {Idle} /\ (r \in overtaken' => t.next \in {"prompt", "write"})
    BY <2>1
  <2>. HIDE DEF t
  <2>. QED
    BY <1>2, <1>3, <2>2, <2>3, <2>4, <2>5, TaskStep
<1>5. CASE ~yes
  <2>1. Ends(r)
    BY <1>5 DEF Prompt
  <2>. QED
    BY <1>2, <1>3, <2>1, EndsStep
<1>. QED
  BY <1>4, <1>5

\* The only step that writes the account.
LEMMA WriteStep ==
  ASSUME Inv, NEW r \in Runs, Write(r)
  PROVE  Inv'
<1>. DEFINE args == task[r].args
            read == task[r].read
<1>1. /\ task[r] \in Tasks /\ Prepared(task[r]) /\ Agreed(task[r])
      /\ task[r].next = "write"
  BY Busy DEF Write
<1>2. /\ args \in Arguments /\ read \in Metadatas /\ metadata \in Metadatas
      /\ args.kind = "hand-over" => read.isMutable = TRUE
      /\ args.kind = "renounce" => renounced = TRUE
  BY <1>1 DEF Tasks, Prepared, Agreed, Inv
<1>3. /\ task' = [task EXCEPT ![r] = Idle] /\ UNCHANGED <<createdMutable, renounced>>
      /\ metadata' = Written(args, metadata, read)
      /\ overtaken' = (IF args.kind = "update"
                       THEN overtaken \cup {q \in Runs : HasRead(q)} ELSE overtaken) \ {r}
  BY DEF Write
<1>4. /\ metadata.isMutable = TRUE \/ args.kind = "renounce"
      /\ metadata.updateAuthority # system
  BY <1>1, <1>2, SystemIsNoKey DEF Write, Accepts, MayGoOn, Metadatas, Tasks
<1>5. /\ task' \in [Runs -> Tasks \cup {Idle}] /\ task'[r] = Idle
      /\ \A q \in Runs \ {r} : task'[q] = task[q]
  BY <1>3 DEF Inv
<1>. HIDE DEF args, read
<1>6. metadata' \in Metadatas
  BY <1>2, <1>3, WrittenType
<1>7. FrozenOnPurpose'
  <2>. DEFINE immutable == ~createdMutable
  <2>1. immutable \in BOOLEAN /\ createdMutable \in BOOLEAN
    BY DEF Inv
  <2>2. metadata.isMutable = FALSE <=> (immutable = TRUE \/ metadata.updateAuthority = system)
    BY <1>2, <2>1 DEF Inv, FrozenOnPurpose, Metadatas
  <2>3. metadata'.isMutable = FALSE
          <=> (immutable = TRUE \/ metadata'.updateAuthority = system)
    <3>. HIDE DEF immutable
    <3>. QED
      BY <1>2, <1>3, <1>4, <2>1, <2>2, WrittenFrozen
  <2>4. metadata'.updateAuthority = system => renounced = TRUE
    BY <1>2, <1>3, <1>4, WrittenAuthority
  <2>5. metadata'.isMutable \in BOOLEAN /\ renounced \in BOOLEAN
    BY <1>6 DEF Metadatas, Inv
  <2>. QED
    BY <1>3, <2>1, <2>3, <2>4, <2>5, Zenon DEF FrozenOnPurpose
<1>8. TasksOK'
  <2>. SUFFICES ASSUME NEW q \in Runs
                PROVE  task'[q] = Idle \/ (Prepared(task'[q]) /\ Agreed(task[q])')
    BY DEF TasksOK, Prepared
  <2>. QED
    BY <1>3, <1>5 DEF Inv, TasksOK, Agreed
<1>9. ReadingsCurrent'
  <2>. SUFFICES ASSUME NEW q \in Runs, task'[q].next \in {"prompt", "write"},
                       q \notin overtaken'
                PROVE  task'[q].read.name = metadata'.name /\ task'[q].read.fee = metadata'.fee
    BY DEF ReadingsCurrent, Current
  <2>1. q # r /\ task'[q] = task[q]
    BY <1>5, IdleIsNoTask
  <2>2. args.kind # "update" /\ q \notin overtaken
    BY <1>3, <2>1 DEF HasRead
  <2>3. metadata'.name = metadata.name /\ metadata'.fee = metadata.fee
    BY <1>2, <1>3, <2>2, WrittenText
  <2>. QED
    BY <2>1, <2>2, <2>3 DEF Inv, ReadingsCurrent, Current
<1>10. overtaken' \subseteq {q \in Runs : task'[q].next \in {"prompt", "write"}}
  BY <1>3, <1>5 DEF Inv, HasRead
<1>. QED
  BY <1>3, <1>5, <1>6, <1>7, <1>8, <1>9, <1>10 DEF Inv, HasRead

LEMMA NextInv == Inv /\ [Next]_vars => Inv'
<1>. SUFFICES ASSUME Inv, [Next]_vars PROVE Inv'
  OBVIOUS
<1>1. CASE UNCHANGED vars
  BY <1>1 DEF vars, historyVars, Inv, TasksOK, Agreed, ReadingsCurrent, Current, HasRead,
       FrozenOnPurpose
<1>2. ASSUME NEW r \in Runs, NEW k \in Keys, NEW args \in Arguments, Start(r, k, args)
      PROVE  Inv'
  BY <1>2, StartStep
<1>3. ASSUME NEW r \in Runs, Fetch(r) PROVE Inv'
  BY <1>3, FetchStep
<1>4. ASSUME NEW r \in Runs, Write(r) PROVE Inv'
  BY <1>4, WriteStep
<1>5. ASSUME NEW r \in Runs, Fail(r) PROVE Inv'
  <2>1. Ends(r) /\ UNCHANGED <<metadata, createdMutable, renounced>>
    BY <1>5 DEF Fail
  <2>. QED
    BY <2>1, EndsStep DEF Inv
<1>6. ASSUME NEW r \in Runs, NEW yes \in BOOLEAN, Prompt(r, yes) PROVE Inv'
  BY <1>6, PromptStep
<1>. QED
  BY <1>1, <1>2, <1>3, <1>4, <1>5, <1>6 DEF Next

-----------------------------------------------------------------------------
\* The invariant holds in every state, however the tasks of the operators interleave.
THEOREM Inductive == Spec => []Inv
BY InitInv, NextInv, PTL DEF Spec

\* No task writes fields that it never read.
THEOREM TypeCorrect == Spec => []TypeOK
<1>1. Inv => TypeOK
  <2>. SUFFICES ASSUME Inv, NEW r \in Runs
                PROVE  /\ task[r].next \in {"idle", "fetch", "prompt", "write"}
                       /\ HasRead(r) => task[r].read \in Metadatas
    BY DEF Inv, TypeOK
  <2>1. CASE task[r].next = "idle"
    BY <2>1 DEF HasRead
  <2>2. CASE task[r].next # "idle"
    BY <2>2, Busy DEF Tasks, Prepared, HasRead
  <2>. QED
    BY <2>1, <2>2
<1>. QED
  BY <1>1, Inductive, PTL

\* The metadata is frozen exactly when it was created so or renounced, and renounced
\* only by an operator who was asked, for any number of tasks that write what they
\* had read earlier (setUpdateAuthority.ts).
THEOREM FrozenTogether == Spec => []FrozenOnPurpose
<1>1. Inv => FrozenOnPurpose
  BY DEF Inv
<1>. QED
  BY <1>1, Inductive, PTL

\* A task that is not overtaken writes back what is there, so that nothing an update
\* set is undone but by a later update of that field or by one that was overtaken
\* (updateMetadata.ts).
THEOREM UpdatesUndone == Spec => UpdatesUndoneByUpdates
<1>. DEFINE UndoneByUpdate ==
       \A f \in {"name", "fee"} :
         metadata'[f] # metadata[f] =>
           \E r \in Runs :
             /\ task[r].next = "write" /\ task'[r] = Idle /\ task[r].args.kind = "update"
             /\ \/ task[r].args[f] = metadata'[f]
                \/ task[r].args[f] = None /\ r \in overtaken
<1>1. Inv /\ [Next]_vars => [UndoneByUpdate]_vars
  <2>. SUFFICES ASSUME Inv, [Next]_vars, NEW f \in {"name", "fee"},
                       metadata'[f] # metadata[f]
                PROVE  \E r \in Runs :
                         /\ task[r].next = "write" /\ task'[r] = Idle
                         /\ task[r].args.kind = "update"
                         /\ \/ task[r].args[f] = metadata'[f]
                            \/ task[r].args[f] = None /\ r \in overtaken
    OBVIOUS
  <2>1. PICK r \in Runs : Write(r)
    BY DEF Next, Start, Fetch, Prompt, Fail, vars
  <2>. DEFINE args == task[r].args
              read == task[r].read
  <2>2. /\ read \in Metadatas /\ metadata \in Metadatas /\ args \in Arguments
        /\ task[r].next = "write"
    BY <2>1, Busy DEF Write, Prepared, Tasks, Inv
  <2>3. metadata' = Written(args, metadata, read) /\ task'[r] = Idle
    BY <2>1 DEF Write, Inv
  <2>4. r \notin overtaken => read.name = metadata.name /\ read.fee = metadata.fee
    BY <2>2 DEF Inv, ReadingsCurrent, Current
  <2>. HIDE DEF args, read
  <2>5. args.kind = "update" /\ (args[f] = metadata'[f] \/ (args[f] = None /\ r \in overtaken))
    <3>1. args.kind = "update"
      BY <2>2, <2>3, WrittenText
    <3>2. CASE f = "name"
      <4>1. /\ metadata'.name = IF args.name = None THEN read.name ELSE args.name
            /\ metadata'.name # metadata.name
        BY <2>2, <2>3, <3>1, <3>2, WrittenText
      <4>. QED
        BY <2>4, <3>1, <3>2, <4>1
    <3>3. CASE f = "fee"
      <4>1. /\ metadata'.fee = IF args.fee = None THEN read.fee ELSE args.fee
            /\ metadata'.fee # metadata.fee
        BY <2>2, <2>3, <3>1, <3>3, WrittenText
      <4>. QED
        BY <2>4, <3>1, <3>3, <4>1
    <3>. QED
      BY <3>2, <3>3
  <2>. QED
    BY <2>2, <2>3, <2>5 DEF args
<1>. QED
  BY <1>1, Inductive, PTL DEF Spec, UpdatesUndoneByUpdates

-----------------------------------------------------------------------------
(***************************************************************************)
(* The creation.  The invariant says what the steps that are left know of  *)
(* the accounts that the steps before them made: which step a task is at,  *)
(* whether its mint and its store exist, and whose signature the authority *)
(* that it is about to set will take.                                      *)
(***************************************************************************)
Key(k) == Creation!Key(k)
OftStore(r) == Creation!OftStore(r)
Multisig(i) == Creation!Multisig(i)
CanSign(who, a) == Creation!CanSign(who, a)

StepNames == {"multisig", "check", "token", "initOft", "setBoth", "save",
              "setMintAuthority", "setFreezeAuthority"}

\* The sequences of steps that a task may have left.
OfHandover(s) ==
  \/ s = <<"multisig", "check", "setMintAuthority", "setFreezeAuthority">>
  \/ s = <<"check", "setMintAuthority", "setFreezeAuthority">>
  \/ s = <<"setMintAuthority", "setFreezeAuthority">>
  \/ s = <<"setFreezeAuthority">>

OfNewMint(s) ==
  \/ s = <<"multisig", "check", "token", "initOft", "setBoth", "save">>
  \/ s = <<"check", "token", "initOft", "setBoth", "save">>
  \/ s = <<"token", "initOft", "setBoth", "save">>
  \/ s = <<"initOft", "setBoth", "save">>
  \/ s = <<"setBoth", "save">>
  \/ s = <<"save">>

OfGivenMint(s) ==
  \/ s = <<"multisig", "check", "initOft", "save">>
  \/ s = <<"check", "initOft", "save">>
  \/ s = <<"initOft", "save">>
  \/ s = <<"save">>

StepsLeft(t) ==
  IF t.name = "setAuthority" THEN OfHandover(t.steps)
  ELSE IF t.mint = given THEN OfGivenMint(t.steps) ELSE OfNewMint(t.steps)

\* Head, tail and length of the sequences, of any elements.
LEMMA Tuples ==
  ASSUME NEW a, NEW b, NEW c, NEW d, NEW e, NEW f
  PROVE  /\ Head(<<a>>) = a /\ Len(<<a>>) = 1
         /\ Head(<<a, b>>) = a /\ Len(<<a, b>>) = 2 /\ Tail(<<a, b>>) = <<b>>
         /\ Head(<<a, b, c>>) = a /\ Len(<<a, b, c>>) = 3
         /\ Tail(<<a, b, c>>) = <<b, c>>
         /\ Head(<<a, b, c, d>>) = a /\ Len(<<a, b, c, d>>) = 4
         /\ Tail(<<a, b, c, d>>) = <<b, c, d>>
         /\ Head(<<a, b, c, d, e>>) = a /\ Len(<<a, b, c, d, e>>) = 5
         /\ Tail(<<a, b, c, d, e>>) = <<b, c, d, e>>
         /\ Head(<<a, b, c, d, e, f>>) = a /\ Len(<<a, b, c, d, e, f>>) = 6
         /\ Tail(<<a, b, c, d, e, f>>) = <<b, c, d, e, f>>
OBVIOUS

LEMMA HandoverOrder ==
  ASSUME NEW s, OfHandover(s)
  PROVE  /\ s \in Seq(StepNames) /\ s # <<>>
         /\ Head(s) \in {"multisig", "check", "setMintAuthority", "setFreezeAuthority"}
         /\ Len(s) = 1 <=> Head(s) = "setFreezeAuthority"
         /\ Len(s) # 1 => OfHandover(Tail(s))
         /\ Head(s) = "multisig" => Head(Tail(s)) = "check"
         /\ Head(s) = "check" => Head(Tail(s)) = "setMintAuthority"
         /\ Head(s) = "setMintAuthority" => Head(Tail(s)) = "setFreezeAuthority"
<1>1. CASE s = <<"multisig", "check", "setMintAuthority", "setFreezeAuthority">>
  BY <1>1, Tuples DEF OfHandover, StepNames
<1>2. CASE s = <<"check", "setMintAuthority", "setFreezeAuthority">>
  BY <1>2, Tuples DEF OfHandover, StepNames
<1>3. CASE s = <<"setMintAuthority", "setFreezeAuthority">>
  BY <1>3, Tuples DEF OfHandover, StepNames
<1>4. CASE s = <<"setFreezeAuthority">>
  BY <1>4, Tuples DEF OfHandover, StepNames
<1> QED
  BY <1>1, <1>2, <1>3, <1>4 DEF OfHandover

LEMMA NewMintOrder ==
  ASSUME NEW s, OfNewMint(s)
  PROVE  /\ s \in Seq(StepNames) /\ s # <<>>
         /\ Head(s) \in {"multisig", "check", "token", "initOft", "setBoth", "save"}
         /\ Len(s) = 1 <=> Head(s) = "save"
         /\ Len(s) # 1 => OfNewMint(Tail(s))
         /\ Head(s) = "multisig" => Head(Tail(s)) = "check"
         /\ Head(s) = "check" => Head(Tail(s)) = "token"
         /\ Head(s) = "token" => Head(Tail(s)) = "initOft"
         /\ Head(s) = "initOft" => Head(Tail(s)) = "setBoth"
         /\ Head(s) = "setBoth" => Head(Tail(s)) = "save"
<1>1. CASE s = <<"multisig", "check", "token", "initOft", "setBoth", "save">>
  BY <1>1, Tuples DEF OfNewMint, StepNames
<1>2. CASE s = <<"check", "token", "initOft", "setBoth", "save">>
  BY <1>2, Tuples DEF OfNewMint, StepNames
<1>3. CASE s = <<"token", "initOft", "setBoth", "save">>
  BY <1>3, Tuples DEF OfNewMint, StepNames
<1>4. CASE s = <<"initOft", "setBoth", "save">>
  BY <1>4, Tuples DEF OfNewMint, StepNames
<1>5. CASE s = <<"setBoth", "save">>
  BY <1>5, Tuples DEF OfNewMint, StepNames
<1>6. CASE s = <<"save">>
  BY <1>6, Tuples DEF OfNewMint, StepNames
<1> QED
  BY <1>1, <1>2, <1>3, <1>4, <1>5, <1>6 DEF OfNewMint

LEMMA GivenMintOrder ==
  ASSUME NEW s, OfGivenMint(s)
  PROVE  /\ s \in Seq(StepNames) /\ s # <<>>
         /\ Head(s) \in {"multisig", "check", "initOft", "save"}
         /\ Len(s) = 1 <=> Head(s) = "save"
         /\ Len(s) # 1 => OfGivenMint(Tail(s))
         /\ Head(s) = "multisig" => Head(Tail(s)) = "check"
         /\ Head(s) = "check" => Head(Tail(s)) = "initOft"
         /\ Head(s) = "initOft" => Head(Tail(s)) = "save"
<1>1. CASE s = <<"multisig", "check", "initOft", "save">>
  BY <1>1, Tuples DEF OfGivenMint, StepNames
<1>2. CASE s = <<"check", "initOft", "save">>
  BY <1>2, Tuples DEF OfGivenMint, StepNames
<1>3. CASE s = <<"initOft", "save">>
  BY <1>3, Tuples DEF OfGivenMint, StepNames
<1>4. CASE s = <<"save">>
  BY <1>4, Tuples DEF OfGivenMint, StepNames
<1> QED
  BY <1>1, <1>2, <1>3, <1>4 DEF OfGivenMint

\* A sequence is the concatenation of two if it agrees with them.
LEMMA Concatenation ==
  ASSUME NEW S, NEW s \in Seq(S), NEW t \in Seq(S), NEW u \in Seq(S),
         Len(u) = Len(s) + Len(t),
         \A i \in 1..Len(u) : u[i] = IF i <= Len(s) THEN s[i] ELSE t[i - Len(s)]
  PROVE  s \o t = u
<1>1. s \o t \in Seq(S) /\ Len(s \o t) = Len(u) /\ \A i \in 1..Len(u) : (s \o t)[i] = u[i]
  BY ConcatProperties
<1> QED
  BY <1>1, SeqEqual

LEMMA TwoAndTwo ==
  ASSUME NEW a, NEW b, NEW c, NEW d
  PROVE  <<a, b>> \o <<c, d>> = <<a, b, c, d>>
<1> DEFINE S == {a, b, c, d}
           s == <<a, b>>
           t == <<c, d>>
           u == <<a, b, c, d>>
<1>1. s \in Seq(S) /\ t \in Seq(S) /\ u \in Seq(S) /\ Len(s) = 2 /\ Len(t) = 2 /\ Len(u) = 4
  OBVIOUS
<1>2. ASSUME NEW i \in 1..4
      PROVE  u[i] = IF i <= 2 THEN s[i] ELSE t[i - 2]
  <2>1. i = 1 \/ i = 2 \/ i = 3 \/ i = 4
    OBVIOUS
  <2> QED
    BY <2>1
<1> HIDE DEF S, s, t, u
<1>3. \A i \in 1..Len(u) : u[i] = IF i <= Len(s) THEN s[i] ELSE t[i - Len(s)]
  BY <1>1, <1>2
<1>4. Len(u) = Len(s) + Len(t)
  BY <1>1
<1>5. s \o t = u
  BY <1>1, <1>3, <1>4, Concatenation
<1> QED
  BY <1>5 DEF s, t, u

LEMMA TwoAndFour ==
  ASSUME NEW a, NEW b, NEW c, NEW d, NEW e, NEW f
  PROVE  <<a, b>> \o <<c, d, e, f>> = <<a, b, c, d, e, f>>
<1> DEFINE S == {a, b, c, d, e, f}
           s == <<a, b>>
           t == <<c, d, e, f>>
           u == <<a, b, c, d, e, f>>
<1>1. s \in Seq(S) /\ t \in Seq(S) /\ u \in Seq(S) /\ Len(s) = 2 /\ Len(t) = 4 /\ Len(u) = 6
  OBVIOUS
<1>2. ASSUME NEW i \in 1..6
      PROVE  u[i] = IF i <= 2 THEN s[i] ELSE t[i - 2]
  <2>1. i = 1 \/ i = 2 \/ i = 3 \/ i = 4 \/ i = 5 \/ i = 6
    OBVIOUS
  <2> QED
    BY <2>1
<1> HIDE DEF S, s, t, u
<1>3. \A i \in 1..Len(u) : u[i] = IF i <= Len(s) THEN s[i] ELSE t[i - Len(s)]
  BY <1>1, <1>2
<1>4. Len(u) = Len(s) + Len(t)
  BY <1>1
<1>5. s \o t = u
  BY <1>1, <1>3, <1>4, Concatenation
<1> QED
  BY <1>5 DEF s, t, u

\* createOFT starts with the steps of its kind of mint.
LEMMA CreateStepsOrder ==
  ASSUME NEW m, NEW minters
  PROVE  /\ IF m = given THEN OfGivenMint(Creation!CreateSteps(m, minters))
                         ELSE OfNewMint(Creation!CreateSteps(m, minters))
         /\ Head(Creation!CreateSteps(m, minters))
              \in {"multisig", IF m = given THEN "initOft" ELSE "token"}
<1>1. CASE minters = None /\ m = given
  <2>1. <<"initOft", "save">> \in Seq(StepNames)
    BY DEF StepNames
  <2>2. Creation!CreateSteps(m, minters) = <<"initOft", "save">>
    BY <1>1, <2>1, ConcatEmptySeq DEF Creation!CreateSteps, Creation!MultisigSteps
  <2> QED
    BY <1>1, <2>2, Tuples DEF OfGivenMint
<1>2. CASE minters = None /\ m # given
  <2>1. <<"token", "initOft", "setBoth", "save">> \in Seq(StepNames)
    BY DEF StepNames
  <2>2. Creation!CreateSteps(m, minters) = <<"token", "initOft", "setBoth", "save">>
    BY <1>2, <2>1, ConcatEmptySeq DEF Creation!CreateSteps, Creation!MultisigSteps
  <2> QED
    BY <1>2, <2>2, Tuples DEF OfNewMint
<1>3. CASE minters # None /\ m = given
  <2>1. Creation!CreateSteps(m, minters) = <<"multisig", "check", "initOft", "save">>
    BY <1>3, TwoAndTwo DEF Creation!CreateSteps, Creation!MultisigSteps
  <2> QED
    BY <1>3, <2>1, Tuples DEF OfGivenMint
<1>4. CASE minters # None /\ m # given
  <2>1. Creation!CreateSteps(m, minters)
          = <<"multisig", "check", "token", "initOft", "setBoth", "save">>
    BY <1>4, TwoAndFour DEF Creation!CreateSteps, Creation!MultisigSteps
  <2> QED
    BY <1>4, <2>1, Tuples DEF OfNewMint
<1> QED
  BY <1>1, <1>2, <1>3, <1>4

-----------------------------------------------------------------------------
(* Authorities and those who may sign for them. *)

Authorities(n, k) ==
  {Key(wallet)} \cup {OftStore(r) : r \in 1..n} \cup {Multisig(i) : i \in 1..k} \cup {None}

\* Who may sign for a, with the multisigs ms.
SignersIn(ms, a) ==
  IF a = None THEN {} ELSE IF a.kind = "multisig" THEN ms[a.id].signers ELSE {a}

Minters == UNION {l \in MinterLists : l # None}

MultisigRecords ==
  [signers : SUBSET ({OftStore(r) : r \in Nat} \cup {Key(k) : k \in Minters}),
   by : {"createOFT", "createOFTAdapter", "setAuthority"}]

RunRecords ==
  [mint : {given} \cup Nat, minters : MinterLists \cup {None}, onlyOftStore : BOOLEAN]

LEMMA Bounds == MaxRuns \in Nat /\ MaxMultisigs \in Nat /\ given \notin Nat
BY DeploymentAssumption DEF Creation!CreateOFTAssumption

LEMMA AuthorityKinds ==
  ASSUME NEW r, NEW i, NEW k
  PROVE  /\ OftStore(r) # Key(k) /\ Multisig(i) # Key(k) /\ OftStore(r) # Multisig(i)
         /\ OftStore(r).kind # "multisig" /\ Key(k).kind # "multisig"
         /\ Multisig(i).kind = "multisig" /\ Multisig(i).id = i
BY DEF OftStore, Key, Multisig, Creation!OftStore, Creation!Key, Creation!Multisig

LEMMA SameStore ==
  ASSUME NEW r, NEW q, OftStore(r) = OftStore(q)
  PROVE  r = q
<1>1. OftStore(r).id = r /\ OftStore(q).id = q
  BY DEF OftStore, Creation!OftStore
<1> QED
  BY <1>1

LEMMA NoneIsNoAuthority ==
  ASSUME NEW r \in 1..MaxRuns, NEW i \in 1..MaxMultisigs
  PROVE  None # OftStore(r) /\ None # Multisig(i)
BY DeploymentAssumption
   DEF Creation!CreateOFTAssumption, OftStore, Multisig, Creation!OftStore, Creation!Multisig

LEMMA NoneIsNoWallet == None # Key(wallet)
BY DeploymentAssumption DEF Creation!CreateOFTAssumption, Key, Creation!Key

LEMMA CanSignIsIn ==
  ASSUME NEW who, NEW a
  PROVE  CanSign(who, a) <=> who \in SignersIn(multisigs, a)
BY DEF CanSign, Creation!CanSign, Creation!Signers, SignersIn

\* A store signs for itself.
LEMMA StoreSigns ==
  ASSUME NEW r \in 1..MaxRuns, NEW ms, MaxMultisigs \in Nat
  PROVE  SignersIn(ms, OftStore(r)) = {OftStore(r)}
<1>1. None # OftStore(r)
  BY DeploymentAssumption DEF Creation!CreateOFTAssumption, OftStore, Creation!OftStore
<1> QED
  BY <1>1, AuthorityKinds DEF SignersIn

\* A new multisig leaves the signers of the authorities that there are.
LEMMA SignersKept ==
  ASSUME NEW ms \in Seq(MultisigRecords), NEW x \in MultisigRecords, NEW n \in Nat,
         NEW a \in Authorities(n, Len(ms))
  PROVE  SignersIn(Append(ms, x), a) = SignersIn(ms, a)
<1>1. CASE a = None
  BY <1>1 DEF SignersIn
<1>2. CASE a # None /\ \E i \in 1..Len(ms) : a = Multisig(i)
  <2>1. PICK i \in 1..Len(ms) : a = Multisig(i)
    BY <1>2
  <2>2. Append(ms, x)[i] = ms[i]
    BY AppendProperties
  <2> QED
    BY <1>2, <2>1, <2>2, AuthorityKinds DEF SignersIn
<1>3. CASE a # None /\ \A i \in 1..Len(ms) : a # Multisig(i)
  <2>1. a = Key(wallet) \/ \E r \in 1..n : a = OftStore(r)
    BY <1>3 DEF Authorities
  <2> QED
    BY <1>3, <2>1, AuthorityKinds DEF SignersIn
<1> QED
  BY <1>1, <1>2, <1>3

LEMMA AuthoritiesGrow ==
  ASSUME NEW n \in Nat, NEW k \in Nat, NEW n2 \in Nat, NEW k2 \in Nat, n <= n2, k <= k2
  PROVE  Authorities(n, k) \subseteq Authorities(n2, k2)
<1>1. 1..n \subseteq 1..n2 /\ 1..k \subseteq 1..k2
  OBVIOUS
<1> QED
  BY <1>1 DEF Authorities

-----------------------------------------------------------------------------
(* The invariant of the creation. *)

Auths == Authorities(Len(runs), Len(multisigs))

StoreRecords ==
  [escrow : 1..Len(runs), mint : DOMAIN mints, oftType : {"Native", "Adapter"}]

ChainOK ==
  /\ runs \in Seq(RunRecords) /\ Len(runs) <= MaxRuns
  /\ multisigs \in Seq(MultisigRecords) /\ Len(multisigs) <= MaxMultisigs
  /\ \A i \in 1..Len(multisigs) :
       multisigs[i].signers \subseteq
         {OftStore(r) : r \in 1..Len(runs)} \cup {Key(k) : k \in Minters}
  /\ given \in DOMAIN mints
  /\ DOMAIN mints \subseteq 1..Len(runs) \cup {given}
  /\ mints \in [DOMAIN mints -> [mintAuthority : Auths \ {None}, freezeAuthority : Auths]]
  /\ stores \subseteq StoreRecords

\* The store of escrow r is there and is one of mint m.
StoreExists(r, m) == \E st \in stores : st.escrow = r /\ st.mint = m

\* The store of escrow r may sign for a.
StoreMaySign(r, a) == OftStore(r) \in SignersIn(multisigs, a)

MintsOK ==
  \A m \in DOMAIN mints \ {given} :
    LET auth == mints[m].mintAuthority IN
    auth # Key(wallet) =>
      /\ \E st \in stores : st.mint = m /\ StoreMaySign(st.escrow, auth)
      /\ mints[m].freezeAuthority = Key(wallet) =>
           auth.kind = "multisig" /\ multisigs[auth.id].by = "setAuthority"

DeploymentOK ==
  deployment # None =>
    /\ deployment \in [mint : DOMAIN mints, mintAuthority : Auths \ {None},
                       escrow : 1..Len(runs),
                       oftStore : {OftStore(r) : r \in 1..Len(runs)}]
    /\ deployment.oftStore = OftStore(deployment.escrow)
    /\ deployment.mint \in {given, deployment.escrow}
    /\ \A st \in stores : st.escrow = deployment.escrow /\ st.oftType = "Native" =>
         StoreMaySign(deployment.escrow, deployment.mintAuthority)
    /\ deployment.mint # given =>
         /\ StoreExists(deployment.escrow, deployment.mint)
         /\ StoreMaySign(deployment.escrow, mints[deployment.mint].mintAuthority)

Creators == {"createOFT", "createOFTAdapter"}

\* The tasks, with n creations and k multisigs.
TaskRecords(n, k) ==
  [name : Creators \cup {"setAuthority"}, run : 1..n, mint : {given} \cup Nat,
   minters : MinterLists \cup {None}, authority : Authorities(n, k), steps : Seq(StepNames)]

AtOneOf(steps) == Head(creation.steps) \in steps

\* A handover works on what OFT.json records, and sets a multisig of its own.
HandoverKnows ==
  creation.name = "setAuthority" =>
    /\ deployment # None
    /\ creation.mint = deployment.mint /\ creation.run = deployment.escrow
    /\ ~AtOneOf({"multisig"}) =>
         /\ StoreMaySign(creation.run, creation.authority)
         /\ \E i \in 1..Len(multisigs) :
              creation.authority = Multisig(i) /\ multisigs[i].by = "setAuthority"

\* A creation works on accounts of its own.
CreatorKnows ==
  creation.name \in Creators =>
    /\ creation.run = Len(runs)
    /\ deployment # None => deployment.escrow # creation.run
    /\ creation.mint # given /\ AtOneOf({"multisig", "check", "token"}) =>
         creation.mint \notin DOMAIN mints
    /\ AtOneOf({"initOft", "setBoth", "save"}) => creation.mint \in DOMAIN mints
    /\ AtOneOf({"multisig", "check", "token", "initOft"}) =>
         \A st \in stores : st.escrow # creation.run
    /\ AtOneOf({"setBoth", "save"}) => StoreExists(creation.run, creation.mint)
    /\ \A st \in stores : st.escrow = creation.run /\ st.oftType = "Native" =>
         creation.name = "createOFT"
    /\ creation.authority # None
    /\ creation.name = "createOFT" =>
         /\ creation.authority # Key(wallet)
         /\ StoreMaySign(creation.run, creation.authority)
    /\ creation.name = "createOFTAdapter" => creation.mint = given
    /\ creation.name = "createOFT" /\ creation.mint # given /\ AtOneOf({"save"}) =>
         mints[creation.mint].mintAuthority = creation.authority

TaskOK ==
  creation # None =>
    /\ creation \in TaskRecords(Len(runs), Len(multisigs))
    /\ creation.mint \in {given, creation.run}
    /\ StepsLeft(creation)
    /\ HandoverKnows
    /\ CreatorKnows

CreationInv == ChainOK /\ MintsOK /\ DeploymentOK /\ TaskOK

-----------------------------------------------------------------------------
LEMMA CreationInitStep == Creation!Init => CreationInv
<1> SUFFICES ASSUME Creation!Init PROVE CreationInv
  OBVIOUS
<1>1. /\ mints = [m \in {given} |-> [mintAuthority |-> Key(wallet), freezeAuthority |-> Key(wallet)]]
      /\ multisigs = <<>> /\ stores = {} /\ runs = <<>> /\ creation = None /\ deployment = None
  BY DEF Creation!Init, Key
<1>2. runs \in Seq(RunRecords) /\ Len(runs) = 0 /\ multisigs \in Seq(MultisigRecords)
      /\ Len(multisigs) = 0
  BY <1>1
<1>3. Key(wallet) \in Auths \ {None}
  BY NoneIsNoWallet DEF Auths, Authorities
<1>4. ChainOK
  BY <1>1, <1>2, <1>3, Bounds DEF ChainOK
<1>5. MintsOK
  BY <1>1 DEF MintsOK
<1> QED
  BY <1>1, <1>4, <1>5 DEF CreationInv, DeploymentOK, TaskOK

\* What the invariant says in the words of CreateOFT.
LEMMA CreationSafe ==
  ASSUME CreationInv
  PROVE  AuthoritiesStayUsable
<1>1. ASSUME NEW m \in DOMAIN mints \ {given}, mints[m].mintAuthority # Key(wallet)
      PROVE  \E st \in stores : /\ st.mint = m
                                /\ CanSign(OftStore(st.escrow), mints[m].mintAuthority)
  BY <1>1, CanSignIsIn DEF CreationInv, MintsOK, StoreMaySign
<1>2. Creation!NoOrphanedToken
  BY <1>1 DEF Creation!NoOrphanedToken, CanSign, OftStore, Key
<1>3. Creation!SplitOnlyByHandover
  BY DEF CreationInv, MintsOK, Creation!SplitOnlyByHandover, Key
<1>4. ASSUME deployment # None, deployment.mint # given
      PROVE  /\ CanSign(deployment.oftStore, mints[deployment.mint].mintAuthority)
             /\ \E st \in stores : st.escrow = deployment.escrow /\ st.mint = deployment.mint
  BY <1>4, CanSignIsIn DEF CreationInv, DeploymentOK, StoreMaySign, StoreExists
<1>5. Creation!SavedTokenIsOperable
  BY <1>4 DEF Creation!SavedTokenIsOperable, Creation!IsNew, Creation!CanMint, CanSign
<1> QED
  BY <1>2, <1>3, <1>5 DEF AuthoritiesStayUsable

LEMMA CreationTyped ==
  ASSUME CreationInv
  PROVE  Creation!TypeOK
<1>1. /\ runs \in Seq(RunRecords) /\ multisigs \in Seq(MultisigRecords)
      /\ DOMAIN runs = 1..Len(runs) /\ DOMAIN multisigs = 1..Len(multisigs)
  BY DEF CreationInv, ChainOK
<1>2. Creation!Authorities = Auths
  BY <1>1 DEF Creation!Authorities, Auths, Authorities, Key, OftStore, Multisig
<1>3. Creation!Minters = Minters /\ Creation!Steps = StepNames
  BY DEF Creation!Minters, Minters, Creation!Steps, StepNames
<1>4. mints \in [DOMAIN mints -> [mintAuthority : Auths, freezeAuthority : Auths]]
  BY DEF CreationInv, ChainOK
<1>5. creation # None => /\ creation.run \in 1..Len(runs) /\ creation.authority \in Auths
                         /\ creation.steps \in Seq(StepNames) \ {<<>>}
  BY HandoverOrder, NewMintOrder, GivenMintOrder
  DEF CreationInv, TaskOK, TaskRecords, StepsLeft, Auths
<1>6. deployment # None =>
        deployment \in [mint : DOMAIN mints, mintAuthority : Auths,
                        escrow : 1..Len(runs), oftStore : Auths]
  <2> SUFFICES ASSUME deployment # None
               PROVE  deployment \in [mint : DOMAIN mints, mintAuthority : Auths,
                                      escrow : 1..Len(runs), oftStore : Auths]
    OBVIOUS
  <2>1. {OftStore(r) : r \in 1..Len(runs)} \subseteq Auths
    BY DEF Auths, Authorities
  <2> QED
    BY <2>1 DEF CreationInv, DeploymentOK
<1>7. /\ stores \subseteq [escrow : 1..Len(runs), mint : DOMAIN mints,
                           oftType : {"Native", "Adapter"}]
      /\ DOMAIN mints \subseteq 1..Len(runs) \cup {given}
      /\ \A i \in 1..Len(multisigs) :
           multisigs[i].signers \subseteq
             {OftStore(r) : r \in 1..Len(runs)} \cup {Key(k) : k \in Minters}
  BY DEF CreationInv, ChainOK, StoreRecords
<1> HIDE DEF Auths
<1> QED
  BY <1>1, <1>2, <1>3, <1>4, <1>5, <1>6, <1>7 DEF Creation!TypeOK, OftStore, Key
-----------------------------------------------------------------------------
(* What the actions of the creation have in common. *)

\* A task that goes on differs from what it was in the steps that are left.
LEMMA GoesOn ==
  ASSUME NEW n, NEW k, NEW t \in TaskRecords(n, k), StepsLeft(t), Creation!Done(t) # None
  PROVE  /\ Creation!Done(t) \in TaskRecords(n, k)
         /\ StepsLeft(Creation!Done(t))
         /\ Creation!Done(t).name = t.name /\ Creation!Done(t).run = t.run
         /\ Creation!Done(t).mint = t.mint /\ Creation!Done(t).authority = t.authority
         /\ Creation!Done(t).steps = Tail(t.steps)
         /\ Len(t.steps) # 1
<1>1. Len(t.steps) # 1 /\ Creation!Done(t) = [t EXCEPT !.steps = Tail(t.steps)]
  BY DEF Creation!Done
<1>2. t.steps # <<>> /\ t.steps \in Seq(StepNames)
  BY HandoverOrder, NewMintOrder, GivenMintOrder DEF StepsLeft
<1>3. Tail(t.steps) \in Seq(StepNames)
  BY <1>2
<1>4. Creation!Done(t) \in TaskRecords(n, k)
  BY <1>1, <1>3 DEF TaskRecords
<1>5. /\ Creation!Done(t).name = t.name /\ Creation!Done(t).run = t.run
      /\ Creation!Done(t).mint = t.mint /\ Creation!Done(t).authority = t.authority
      /\ Creation!Done(t).steps = Tail(t.steps)
  BY <1>1 DEF TaskRecords
<1>6. StepsLeft(Creation!Done(t))
  BY <1>1, <1>5, HandoverOrder, NewMintOrder, GivenMintOrder DEF StepsLeft
<1> QED
  BY <1>1, <1>4, <1>5, <1>6

\* Without a new creation or a new multisig the authorities stay what they are.
LEMMA SameAuthorities ==
  ASSUME UNCHANGED <<runs, multisigs>>
  PROVE  /\ Auths' = Auths
         /\ \A r, a : StoreMaySign(r, a)' <=> StoreMaySign(r, a)
BY DEF Auths, StoreMaySign

\* A task stops, and nothing else happens.
LEMMA StopKeeps ==
  ASSUME CreationInv, Creation!Stop
  PROVE  CreationInv'
<1>1. /\ creation' = None
      /\ UNCHANGED <<mints, multisigs, stores, runs, deployment>>
  BY DEF Creation!Stop, Creation!chain
<1> QED
  BY <1>1 DEF CreationInv, ChainOK, MintsOK, DeploymentOK, TaskOK, Auths, StoreRecords,
              StoreMaySign, StoreExists

LEMMA StartSetAuthorityKeeps ==
  ASSUME CreationInv, NEW minters \in MinterLists, NEW only \in BOOLEAN,
         Creation!StartSetAuthority(minters, only)
  PROVE  CreationInv'
<1> DEFINE t == [name |-> "setAuthority", run |-> deployment.escrow,
                 mint |-> deployment.mint, minters |-> minters, authority |-> None,
                 steps |-> <<"multisig", "check", "setMintAuthority", "setFreezeAuthority">>]
<1>1. /\ deployment # None /\ creation' = t
      /\ UNCHANGED <<mints, multisigs, stores, runs, deployment>>
  BY DEF Creation!StartSetAuthority, Creation!GetOftStore, Creation!chain
<1>2. ChainOK' /\ MintsOK' /\ DeploymentOK'
  BY <1>1 DEF CreationInv, ChainOK, MintsOK, DeploymentOK, Auths, StoreRecords,
              StoreMaySign, StoreExists
<1>3. deployment.escrow \in 1..Len(runs) /\ deployment.mint \in {given, deployment.escrow}
  BY <1>1 DEF CreationInv, DeploymentOK
<1>4. OfHandover(t.steps) /\ t.steps \in Seq(StepNames) /\ Head(t.steps) = "multisig"
  BY Tuples DEF OfHandover, StepNames
<1>5. None \in Authorities(Len(runs), Len(multisigs))
  BY DEF Authorities
<1>6. t \in TaskRecords(Len(runs), Len(multisigs))
  BY <1>3, <1>4, <1>5 DEF TaskRecords
<1>7. /\ t.name = "setAuthority" /\ t.run = deployment.escrow /\ t.mint = deployment.mint
      /\ "setAuthority" \notin Creators
  BY DEF Creators
<1> HIDE DEF t
<1>8. TaskOK'
  BY <1>1, <1>3, <1>4, <1>6, <1>7
  DEF TaskOK, StepsLeft, HandoverKnows, CreatorKnows, AtOneOf
<1> QED
  BY <1>2, <1>8 DEF CreationInv

\* Which step a task is at, and which one follows.
LEMMA StepAt ==
  ASSUME NEW t, StepsLeft(t), t.name \in Creators \cup {"setAuthority"}
  PROVE  /\ Head(t.steps) \in StepNames
         /\ t.name = "setAuthority" =>
              Head(t.steps) \in {"multisig", "check", "setMintAuthority", "setFreezeAuthority"}
         /\ t.name \in Creators => Head(t.steps) \notin {"setMintAuthority", "setFreezeAuthority"}
         /\ Head(t.steps) \in {"token", "setBoth"} => t.mint # given /\ t.name \in Creators
         /\ Head(t.steps) \in {"initOft", "save"} => t.name \in Creators
         /\ Len(t.steps) = 1 <=> Head(t.steps) \in {"save", "setFreezeAuthority"}
BY HandoverOrder, NewMintOrder, GivenMintOrder DEF StepsLeft, StepNames, Creators

LEMMA StepAfter ==
  ASSUME NEW t, StepsLeft(t), t.name \in Creators \cup {"setAuthority"}
  PROVE  /\ Head(t.steps) = "multisig" => Head(Tail(t.steps)) = "check"
         /\ Head(t.steps) = "check" =>
              Head(Tail(t.steps)) = IF t.name = "setAuthority" THEN "setMintAuthority"
                                    ELSE IF t.mint = given THEN "initOft" ELSE "token"
         /\ Head(t.steps) = "token" => Head(Tail(t.steps)) = "initOft"
         /\ Head(t.steps) = "initOft" =>
              Head(Tail(t.steps)) = IF t.mint = given THEN "save" ELSE "setBoth"
         /\ Head(t.steps) = "setBoth" => Head(Tail(t.steps)) = "save"
         /\ Head(t.steps) = "setMintAuthority" => Head(Tail(t.steps)) = "setFreezeAuthority"
BY HandoverOrder, NewMintOrder, GivenMintOrder DEF StepsLeft, Creators

\* The same of the task that runs.
LEMMA TaskAt ==
  ASSUME CreationInv, creation # None
  PROVE  /\ creation \in TaskRecords(Len(runs), Len(multisigs)) /\ StepsLeft(creation)
         /\ creation.name \in Creators \cup {"setAuthority"}
         /\ creation.run \in 1..Len(runs) /\ creation.mint \in {given, creation.run}
         /\ creation.authority \in Auths
         /\ creation.minters \in MinterLists \cup {None}
         /\ creation.name = "setAuthority" => creation.name \notin Creators
BY DEF CreationInv, TaskOK, TaskRecords, Auths, Creators

LEMMA TaskGoesOn ==
  ASSUME CreationInv, creation # None, creation' = Creation!Done(creation), creation' # None,
         UNCHANGED <<runs, multisigs>>
  PROVE  /\ creation' \in TaskRecords(Len(runs), Len(multisigs))'
         /\ StepsLeft(creation')
         /\ creation'.name = creation.name /\ creation'.run = creation.run
         /\ creation'.mint = creation.mint /\ creation'.authority = creation.authority
         /\ creation'.steps = Tail(creation.steps)
<1>1. creation \in TaskRecords(Len(runs), Len(multisigs)) /\ StepsLeft(creation)
  BY TaskAt
<1>2. TaskRecords(Len(runs), Len(multisigs))' = TaskRecords(Len(runs), Len(multisigs))
  BY DEF TaskRecords
<1> QED
  BY <1>1, <1>2, GoesOn

LEMMA CheckMultisigSignersKeeps ==
  ASSUME CreationInv, Creation!CheckMultisigSigners
  PROVE  CreationInv'
<1>1. /\ creation # None /\ Head(creation.steps) = "check"
      /\ creation' = Creation!Done(creation)
      /\ UNCHANGED <<mints, multisigs, stores, runs, deployment>>
  BY DEF Creation!CheckMultisigSigners, Creation!AtStep, Creation!chain
<1>2. ChainOK' /\ MintsOK' /\ DeploymentOK'
  BY <1>1 DEF CreationInv, ChainOK, MintsOK, DeploymentOK, Auths, StoreRecords,
              StoreMaySign, StoreExists
<1>3. ASSUME creation' # None
      PROVE  /\ creation' \in TaskRecords(Len(runs), Len(multisigs))' /\ StepsLeft(creation')
             /\ creation'.name = creation.name /\ creation'.run = creation.run
             /\ creation'.mint = creation.mint /\ creation'.authority = creation.authority
             /\ Head(creation'.steps)
                  = IF creation.name = "setAuthority" THEN "setMintAuthority"
                    ELSE IF creation.mint = given THEN "initOft" ELSE "token"
  BY <1>1, <1>3, TaskAt, StepAfter, TaskGoesOn
<1>4. HandoverKnows /\ CreatorKnows
  BY <1>1 DEF CreationInv, TaskOK
<1>5. given \in DOMAIN mints
  BY DEF CreationInv, ChainOK
<1>6. ASSUME creation' # None PROVE HandoverKnows'
  BY <1>1, <1>3, <1>4, <1>6 DEF HandoverKnows, AtOneOf, StoreMaySign
<1>7. ASSUME creation' # None PROVE CreatorKnows'
  BY <1>1, <1>3, <1>4, <1>5, <1>7, TaskAt DEF CreatorKnows, AtOneOf, StoreMaySign, StoreExists
<1>8. TaskOK'
  BY <1>1, <1>3, <1>6, <1>7, TaskAt DEF TaskOK
<1> QED
  BY <1>2, <1>8 DEF CreationInv

LEMMA SaveSolanaDeploymentKeeps ==
  ASSUME CreationInv, Creation!SaveSolanaDeployment
  PROVE  CreationInv'
<1> DEFINE d == [mint |-> creation.mint, mintAuthority |-> creation.authority,
                 escrow |-> creation.run, oftStore |-> OftStore(creation.run)]
<1>1. /\ creation # None /\ Head(creation.steps) = "save"
      /\ creation' = Creation!Done(creation) /\ deployment' = d
      /\ UNCHANGED <<mints, multisigs, stores, runs>>
  BY DEF Creation!SaveSolanaDeployment, Creation!AtStep, Creation!chain, OftStore
<1>2. ChainOK' /\ MintsOK'
  BY <1>1 DEF CreationInv, ChainOK, MintsOK, Auths, StoreRecords, StoreMaySign
<1>3. creation.name \in Creators /\ creation' = None
  BY <1>1, TaskAt, StepAt DEF Creation!Done
<1>4. CreatorKnows /\ AtOneOf({"save"}) /\ AtOneOf({"setBoth", "save"})
      /\ AtOneOf({"initOft", "setBoth", "save"})
  BY <1>1 DEF CreationInv, TaskOK, AtOneOf
<1>5. d \in [mint : DOMAIN mints, mintAuthority : Auths \ {None},
             escrow : 1..Len(runs), oftStore : {OftStore(r) : r \in 1..Len(runs)}]
  BY <1>1, <1>3, <1>4, TaskAt DEF CreatorKnows
<1>6. \A st \in stores : st.escrow = d.escrow /\ st.oftType = "Native" =>
        StoreMaySign(d.escrow, d.mintAuthority)
  BY <1>1, <1>3, <1>4 DEF CreatorKnows
<1>7. d.mint # given => /\ StoreExists(d.escrow, d.mint)
                        /\ StoreMaySign(d.escrow, mints[d.mint].mintAuthority)
  BY <1>1, <1>3, <1>4 DEF CreatorKnows, Creators
<1>8. d.oftStore = OftStore(d.escrow) /\ d.mint \in {given, d.escrow}
  BY <1>1, TaskAt
<1> HIDE DEF d
<1>9. DeploymentOK'
  BY <1>1, <1>5, <1>6, <1>7, <1>8 DEF DeploymentOK, Auths, StoreMaySign, StoreExists
<1>10. TaskOK'
  BY <1>3 DEF TaskOK
<1> QED
  BY <1>2, <1>9, <1>10 DEF CreationInv

LEMMA InitOFTKeeps ==
  ASSUME CreationInv, Creation!InitOFT
  PROVE  CreationInv'
<1> DEFINE new == [escrow |-> creation.run, mint |-> creation.mint,
                   oftType |-> IF creation.name = "createOFT" THEN "Native" ELSE "Adapter"]
<1>1. /\ creation # None /\ Head(creation.steps) = "initOft"
      /\ creation' = Creation!Done(creation) /\ stores' = stores \cup {new}
      /\ UNCHANGED <<mints, multisigs, runs, deployment>>
  BY DEF Creation!InitOFT, Creation!AtStep
<1>2. creation.name \in Creators
  BY <1>1, TaskAt, StepAt
<1>3. CreatorKnows /\ AtOneOf({"multisig", "check", "token", "initOft"})
      /\ AtOneOf({"initOft", "setBoth", "save"})
  BY <1>1 DEF CreationInv, TaskOK, AtOneOf
<1>4. creation.mint \in DOMAIN mints /\ \A st \in stores : st.escrow # creation.run
  BY <1>2, <1>3 DEF CreatorKnows
<1>5. new \in StoreRecords
  BY <1>1, <1>4, TaskAt DEF StoreRecords
<1>6. /\ new.escrow = creation.run /\ new.mint = creation.mint
      /\ new.oftType = "Native" => creation.name = "createOFT"
  OBVIOUS
<1> HIDE DEF new
<1>7. ChainOK'
  BY <1>1, <1>5, SameAuthorities DEF CreationInv, ChainOK, StoreRecords
<1>8. MintsOK'
  BY <1>1, SameAuthorities DEF CreationInv, MintsOK
<1>9. deployment # None => deployment.escrow # new.escrow
  BY <1>2, <1>3, <1>6 DEF CreatorKnows
<1>10. DeploymentOK'
  BY <1>1, <1>9, SameAuthorities DEF CreationInv, DeploymentOK, StoreExists
<1>11. ASSUME creation' # None
       PROVE  /\ creation' \in TaskRecords(Len(runs), Len(multisigs))' /\ StepsLeft(creation')
              /\ creation'.name = creation.name /\ creation'.run = creation.run
              /\ creation'.mint = creation.mint /\ creation'.authority = creation.authority
              /\ Head(creation'.steps) = IF creation.mint = given THEN "save" ELSE "setBoth"
  BY <1>1, <1>11, TaskAt, StepAfter, TaskGoesOn
<1>12. \E st \in stores' : st.escrow = creation.run /\ st.mint = creation.mint
  BY <1>1, <1>6
<1>13. ASSUME creation' # None PROVE CreatorKnows'
  BY <1>1, <1>2, <1>3, <1>4, <1>6, <1>11, <1>12, <1>13, SameAuthorities
  DEF CreatorKnows, AtOneOf, StoreExists
<1>14. ASSUME creation' # None PROVE HandoverKnows'
  BY <1>1, <1>2, <1>11, <1>14, TaskAt DEF HandoverKnows
<1>15. TaskOK'
  BY <1>1, <1>11, <1>13, <1>14, TaskAt DEF TaskOK
<1> QED
  BY <1>7, <1>8, <1>10, <1>15 DEF CreationInv

LEMMA CreateTokenKeeps ==
  ASSUME CreationInv, Creation!CreateToken
  PROVE  CreationInv'
<1> DEFINE token == [mintAuthority |-> Key(wallet), freezeAuthority |-> Key(wallet)]
<1>1. /\ creation # None /\ Head(creation.steps) = "token"
      /\ creation' = Creation!Done(creation)
      /\ mints' = [m \in DOMAIN mints \cup {creation.mint} |->
                     IF m = creation.mint THEN token ELSE mints[m]]
      /\ UNCHANGED <<multisigs, stores, runs, deployment>>
  BY DEF Creation!CreateToken, Creation!AtStep, Key
<1>2. creation.name \in Creators /\ creation.mint # given /\ creation.mint = creation.run
  BY <1>1, TaskAt, StepAt
<1>3. CreatorKnows /\ AtOneOf({"multisig", "check", "token"})
      /\ AtOneOf({"multisig", "check", "token", "initOft"})
  BY <1>1 DEF CreationInv, TaskOK, AtOneOf
<1>4. creation.mint \notin DOMAIN mints
  BY <1>2, <1>3 DEF CreatorKnows
<1>5. Key(wallet) \in Auths \ {None} /\ token \in [mintAuthority : Auths \ {None}, freezeAuthority : Auths]
      /\ token.mintAuthority = Key(wallet)
  BY NoneIsNoWallet DEF Auths, Authorities
<1> HIDE DEF token
<1>6. /\ DOMAIN mints' = DOMAIN mints \cup {creation.mint}
      /\ mints'[creation.mint] = token
      /\ \A m \in DOMAIN mints : mints'[m] = mints[m]
  BY <1>1, <1>4
<1>7. mints' \in [DOMAIN mints' -> [mintAuthority : Auths \ {None}, freezeAuthority : Auths]]
  <2>1. mints \in [DOMAIN mints -> [mintAuthority : Auths \ {None}, freezeAuthority : Auths]]
    BY DEF CreationInv, ChainOK
  <2> QED
    BY <1>1, <1>5, <1>6, <2>1
<1>8. ChainOK'
  BY <1>1, <1>2, <1>6, <1>7, TaskAt, SameAuthorities DEF CreationInv, ChainOK, StoreRecords
<1>9. MintsOK'
  BY <1>1, <1>5, <1>6, SameAuthorities DEF CreationInv, MintsOK
<1>10. DeploymentOK'
  BY <1>1, <1>6, SameAuthorities DEF CreationInv, DeploymentOK, StoreExists
<1>11. ASSUME creation' # None
       PROVE  /\ creation' \in TaskRecords(Len(runs), Len(multisigs))' /\ StepsLeft(creation')
              /\ creation'.name = creation.name /\ creation'.run = creation.run
              /\ creation'.mint = creation.mint /\ creation'.authority = creation.authority
              /\ Head(creation'.steps) = "initOft"
  BY <1>1, <1>11, TaskAt, StepAfter, TaskGoesOn
<1>12. ASSUME creation' # None PROVE CreatorKnows'
  BY <1>1, <1>2, <1>3, <1>6, <1>11, <1>12, SameAuthorities
  DEF CreatorKnows, AtOneOf, StoreExists
<1>13. ASSUME creation' # None PROVE HandoverKnows'
  BY <1>1, <1>2, <1>11, <1>13, TaskAt DEF HandoverKnows
<1>14. TaskOK'
  BY <1>1, <1>11, <1>12, <1>13, TaskAt DEF TaskOK
<1> QED
  BY <1>8, <1>9, <1>10, <1>14 DEF CreationInv

LEMMA SetBothAuthoritiesKeeps ==
  ASSUME CreationInv, Creation!SetBothAuthorities
  PROVE  CreationInv' /\ (deployment # None => mints'[deployment.mint] = mints[deployment.mint])
<1> DEFINE handed == [mintAuthority |-> creation.authority,
                      freezeAuthority |-> Creation!NewFreezeAuthority]
<1>1. /\ creation # None /\ Head(creation.steps) = "setBoth"
      /\ creation' = Creation!Done(creation)
      /\ mints' = [mints EXCEPT ![creation.mint] = handed]
      /\ UNCHANGED <<multisigs, stores, runs, deployment>>
  BY DEF Creation!SetBothAuthorities, Creation!AtStep
<1>2. creation.name \in Creators /\ creation.mint # given /\ creation.mint = creation.run
  BY <1>1, TaskAt, StepAt
<1>3. CreatorKnows /\ AtOneOf({"setBoth", "save"}) /\ AtOneOf({"initOft", "setBoth", "save"})
  BY <1>1 DEF CreationInv, TaskOK, AtOneOf
<1>4. /\ creation.name = "createOFT" /\ creation.mint \in DOMAIN mints
      /\ StoreExists(creation.run, creation.mint)
      /\ creation.authority # None /\ creation.authority # Key(wallet)
      /\ StoreMaySign(creation.run, creation.authority)
  BY <1>2, <1>3 DEF CreatorKnows, Creators
<1>5. deployment # None => deployment.mint # creation.mint
  BY <1>2, <1>3 DEF CreationInv, DeploymentOK, CreatorKnows
<1>6. /\ handed.mintAuthority = creation.authority
      /\ handed.freezeAuthority # Key(wallet)
      /\ handed \in [mintAuthority : Auths \ {None}, freezeAuthority : Auths]
  <2>1. Creation!NewFreezeAuthority \in {None, creation.authority}
    BY DEF Creation!NewFreezeAuthority
  <2>2. None \in Auths /\ creation.authority \in Auths
    BY <1>1, TaskAt DEF Auths, Authorities
  <2> QED
    BY <1>4, <2>1, <2>2, NoneIsNoWallet
<1> HIDE DEF handed
<1>7. mints \in [DOMAIN mints -> [mintAuthority : Auths \ {None}, freezeAuthority : Auths]]
  BY DEF CreationInv, ChainOK
<1>8. /\ DOMAIN mints' = DOMAIN mints /\ mints'[creation.mint] = handed
      /\ \A m \in DOMAIN mints \ {creation.mint} : mints'[m] = mints[m]
      /\ mints' \in [DOMAIN mints -> [mintAuthority : Auths \ {None}, freezeAuthority : Auths]]
  BY <1>1, <1>4, <1>6, <1>7
<1>9. ChainOK'
  BY <1>1, <1>8, SameAuthorities DEF CreationInv, ChainOK, StoreRecords
<1>10. MintsOK'
  BY <1>1, <1>4, <1>6, <1>8, SameAuthorities DEF CreationInv, MintsOK, StoreExists
<1>11. deployment # None => mints'[deployment.mint] = mints[deployment.mint]
  BY <1>5, <1>8 DEF CreationInv, DeploymentOK
<1>12. DeploymentOK'
  BY <1>1, <1>8, <1>11, SameAuthorities DEF CreationInv, DeploymentOK, StoreExists
<1>13. ASSUME creation' # None
       PROVE  /\ creation' \in TaskRecords(Len(runs), Len(multisigs))' /\ StepsLeft(creation')
              /\ creation'.name = creation.name /\ creation'.run = creation.run
              /\ creation'.mint = creation.mint /\ creation'.authority = creation.authority
              /\ Head(creation'.steps) = "save"
  BY <1>1, <1>13, TaskAt, StepAfter, TaskGoesOn
<1>14. ASSUME creation' # None PROVE CreatorKnows'
  BY <1>1, <1>3, <1>4, <1>6, <1>8, <1>13, <1>14, SameAuthorities
  DEF CreatorKnows, AtOneOf, StoreExists
<1>15. ASSUME creation' # None PROVE HandoverKnows'
  BY <1>1, <1>2, <1>13, <1>15, TaskAt DEF HandoverKnows
<1>16. TaskOK'
  BY <1>1, <1>13, <1>14, <1>15, TaskAt DEF TaskOK
<1> QED
  BY <1>9, <1>10, <1>11, <1>12, <1>16 DEF CreationInv

\* What a handover that has its multisig sets.
LEMMA HandoverAt ==
  ASSUME CreationInv, creation # None,
         Head(creation.steps) \in {"setMintAuthority", "setFreezeAuthority"}
  PROVE  /\ creation.name = "setAuthority" /\ creation.name \notin Creators
         /\ deployment # None
         /\ creation.mint = deployment.mint /\ creation.run = deployment.escrow
         /\ creation.mint \in DOMAIN mints
         /\ creation.authority # None /\ creation.authority # Key(wallet)
         /\ creation.authority \in Auths
         /\ StoreMaySign(deployment.escrow, creation.authority)
         /\ creation.authority.kind = "multisig"
         /\ multisigs[creation.authority.id].by = "setAuthority"
<1>1. creation.name = "setAuthority" /\ creation.name \notin Creators
  BY TaskAt, StepAt
<1>2. HandoverKnows /\ ~AtOneOf({"multisig"})
  BY DEF CreationInv, TaskOK, AtOneOf
<1>3. /\ deployment # None
      /\ creation.mint = deployment.mint /\ creation.run = deployment.escrow
      /\ StoreMaySign(creation.run, creation.authority)
  BY <1>1, <1>2 DEF HandoverKnows
<1>4. PICK i \in 1..Len(multisigs) :
        creation.authority = Multisig(i) /\ multisigs[i].by = "setAuthority"
  BY <1>1, <1>2 DEF HandoverKnows
<1>5. creation.authority.kind = "multisig" /\ creation.authority.id = i
      /\ creation.authority # Key(wallet)
  BY <1>4, AuthorityKinds
<1>6. i \in 1..MaxMultisigs /\ creation.authority # None
  <2>1. i \in 1..MaxMultisigs /\ creation.run \in 1..MaxRuns
    BY <1>4, Bounds, TaskAt DEF CreationInv, ChainOK
  <2> QED
    BY <1>4, <2>1, NoneIsNoAuthority
<1> QED
  BY <1>1, <1>3, <1>4, <1>5, <1>6, TaskAt DEF CreationInv, DeploymentOK

LEMMA SetMintAuthorityKeeps ==
  ASSUME CreationInv, Creation!SetMintAuthority
  PROVE  CreationInv' /\ StoreMaySign(deployment.escrow, mints[deployment.mint].mintAuthority)'
<1>1. /\ creation # None /\ Head(creation.steps) = "setMintAuthority"
      /\ creation' = Creation!Done(creation)
      /\ mints' = [mints EXCEPT ![creation.mint].mintAuthority = creation.authority]
      /\ UNCHANGED <<multisigs, stores, runs, deployment>>
  BY DEF Creation!SetMintAuthority, Creation!AtStep
<1>2. /\ creation.name = "setAuthority" /\ creation.name \notin Creators
      /\ deployment # None
      /\ creation.mint = deployment.mint /\ creation.run = deployment.escrow
      /\ creation.mint \in DOMAIN mints
      /\ creation.authority \in Auths \ {None}
      /\ StoreMaySign(deployment.escrow, creation.authority)
      /\ creation.authority.kind = "multisig"
      /\ multisigs[creation.authority.id].by = "setAuthority"
  BY <1>1, HandoverAt
<1>3. mints \in [DOMAIN mints -> [mintAuthority : Auths \ {None}, freezeAuthority : Auths]]
  BY DEF CreationInv, ChainOK
<1>4. /\ DOMAIN mints' = DOMAIN mints
      /\ \A m \in DOMAIN mints \ {creation.mint} : mints'[m] = mints[m]
      /\ mints'[creation.mint].mintAuthority = creation.authority
      /\ mints' \in [DOMAIN mints -> [mintAuthority : Auths \ {None}, freezeAuthority : Auths]]
  BY <1>1, <1>2, <1>3
<1>5. ChainOK'
  BY <1>1, <1>4, SameAuthorities DEF CreationInv, ChainOK, StoreRecords
<1>6. creation.mint # given => StoreExists(deployment.escrow, creation.mint)
  BY <1>2 DEF CreationInv, DeploymentOK
<1>7. MintsOK'
  BY <1>1, <1>2, <1>4, <1>6, SameAuthorities DEF CreationInv, MintsOK, StoreExists
<1>8. StoreMaySign(deployment.escrow, mints[deployment.mint].mintAuthority)'
  BY <1>1, <1>2, <1>4, SameAuthorities
<1>9. DeploymentOK'
  BY <1>1, <1>4, <1>8, SameAuthorities DEF CreationInv, DeploymentOK, StoreExists
<1>10. HandoverKnows /\ ~AtOneOf({"multisig"})
  BY <1>1 DEF CreationInv, TaskOK, AtOneOf
<1>11. ASSUME creation' # None PROVE HandoverKnows' /\ CreatorKnows'
  BY <1>1, <1>2, <1>10, <1>11, TaskGoesOn, SameAuthorities DEF HandoverKnows, CreatorKnows
<1>12. TaskOK'
  BY <1>1, <1>11, TaskAt, TaskGoesOn DEF TaskOK
<1> QED
  BY <1>5, <1>7, <1>8, <1>9, <1>12 DEF CreationInv

LEMMA SetFreezeAuthorityKeeps ==
  ASSUME CreationInv, Creation!SetFreezeAuthority
  PROVE  /\ CreationInv'
         /\ \A m \in DOMAIN mints : mints'[m].mintAuthority = mints[m].mintAuthority
<1>1. /\ creation # None /\ Head(creation.steps) = "setFreezeAuthority"
      /\ creation' = Creation!Done(creation)
      /\ mints' = [mints EXCEPT ![creation.mint].freezeAuthority = creation.authority]
      /\ UNCHANGED <<multisigs, stores, runs, deployment>>
  BY DEF Creation!SetFreezeAuthority, Creation!AtStep
<1>2. /\ creation.mint \in DOMAIN mints /\ creation.authority \in Auths
      /\ creation.authority # Key(wallet)
  BY <1>1, HandoverAt
<1>3. mints \in [DOMAIN mints -> [mintAuthority : Auths \ {None}, freezeAuthority : Auths]]
  BY DEF CreationInv, ChainOK
<1>4. /\ DOMAIN mints' = DOMAIN mints
      /\ \A m \in DOMAIN mints \ {creation.mint} : mints'[m] = mints[m]
      /\ mints'[creation.mint].mintAuthority = mints[creation.mint].mintAuthority
      /\ mints'[creation.mint].freezeAuthority = creation.authority
      /\ mints' \in [DOMAIN mints -> [mintAuthority : Auths \ {None}, freezeAuthority : Auths]]
  BY <1>1, <1>2, <1>3
<1>5. \A m \in DOMAIN mints : mints'[m].mintAuthority = mints[m].mintAuthority
  BY <1>4
<1>6. ChainOK'
  BY <1>1, <1>4, SameAuthorities DEF CreationInv, ChainOK, StoreRecords
<1>7. MintsOK'
  BY <1>1, <1>2, <1>4, <1>5, SameAuthorities DEF CreationInv, MintsOK
<1>8. DeploymentOK'
  BY <1>1, <1>4, <1>5, SameAuthorities DEF CreationInv, DeploymentOK, StoreExists
<1>9. creation' = None
  BY <1>1, TaskAt, StepAt DEF Creation!Done
<1> QED
  BY <1>5, <1>6, <1>7, <1>8, <1>9 DEF CreationInv, TaskOK

LEMMA HandOverByHandKeeps ==
  ASSUME CreationInv, Creation!HandOverByHand
  PROVE  CreationInv' /\ StoreMaySign(deployment.escrow, mints[deployment.mint].mintAuthority)'
<1>1. /\ creation = None /\ deployment # None /\ deployment.mint = given
      /\ [escrow |-> deployment.escrow, mint |-> given, oftType |-> "Native"] \in stores
      /\ mints' = [mints EXCEPT ![given].mintAuthority = deployment.mintAuthority]
      /\ UNCHANGED <<multisigs, stores, runs, creation, deployment>>
  BY DEF Creation!HandOverByHand
<1>2. /\ mints \in [DOMAIN mints -> [mintAuthority : Auths \ {None}, freezeAuthority : Auths]]
      /\ given \in DOMAIN mints
  BY DEF CreationInv, ChainOK
<1>3. deployment.mintAuthority \in Auths \ {None}
  BY <1>1 DEF CreationInv, DeploymentOK
<1>4. /\ DOMAIN mints' = DOMAIN mints
      /\ \A m \in DOMAIN mints \ {given} : mints'[m] = mints[m]
      /\ mints'[given].mintAuthority = deployment.mintAuthority
      /\ mints' \in [DOMAIN mints -> [mintAuthority : Auths \ {None}, freezeAuthority : Auths]]
  BY <1>1, <1>2, <1>3
<1>5. StoreMaySign(deployment.escrow, deployment.mintAuthority)
  BY <1>1 DEF CreationInv, DeploymentOK
<1>6. ChainOK'
  BY <1>1, <1>2, <1>4, SameAuthorities DEF CreationInv, ChainOK, StoreRecords
<1>7. MintsOK'
  BY <1>1, <1>4, SameAuthorities DEF CreationInv, MintsOK
<1>8. DeploymentOK'
  BY <1>1, <1>4, SameAuthorities DEF CreationInv, DeploymentOK, StoreExists
<1>9. StoreMaySign(deployment.escrow, mints[deployment.mint].mintAuthority)'
  BY <1>1, <1>4, <1>5, SameAuthorities
<1> QED
  BY <1>1, <1>6, <1>7, <1>8, <1>9 DEF CreationInv, TaskOK

\* A multisig takes the store of its task among its signers.
LEMMA MintersAre ==
  ASSUME NEW n \in Nat, NEW r \in 1..n, NEW minters \in MinterLists \cup {None}
  PROVE  /\ OftStore(r) \in Creation!MintersOf(r, minters)
         /\ Creation!MintersOf(r, minters) \subseteq
              {OftStore(q) : q \in 1..n} \cup {Key(k) : k \in Minters}
BY DEF Creation!MintersOf, OftStore, Key, Minters

LEMMA CreateMultisigKeeps ==
  ASSUME CreationInv, Creation!CreateMultisig
  PROVE  /\ CreationInv'
         /\ \A a \in Auths : SignersIn(multisigs', a) = SignersIn(multisigs, a)
<1> DEFINE n == Len(runs)
           k == Len(multisigs)
           new == [signers |-> Creation!MintersOf(creation.run, creation.minters),
                   by |-> creation.name]
           t == [creation EXCEPT !.authority = Multisig(k + 1)]
<1>1. /\ creation # None /\ Head(creation.steps) = "multisig" /\ k < MaxMultisigs
      /\ multisigs' = Append(multisigs, new)
      /\ creation' = Creation!Done([creation EXCEPT !.authority = Multisig(Len(multisigs'))])
      /\ UNCHANGED <<mints, stores, runs, deployment>>
  BY DEF Creation!CreateMultisig, Creation!AtStep, Multisig
<1>2. /\ n \in Nat /\ k \in Nat /\ n <= MaxRuns /\ k <= MaxMultisigs
      /\ multisigs \in Seq(MultisigRecords) /\ runs \in Seq(RunRecords)
  BY DEF CreationInv, ChainOK
<1>3. /\ OftStore(creation.run) \in new.signers /\ new.by = creation.name
      /\ new.signers \subseteq {OftStore(q) : q \in 1..n} \cup {Key(key) : key \in Minters}
      /\ new \in MultisigRecords
  <2>1. creation.run \in 1..n /\ creation.minters \in MinterLists \cup {None}
        /\ creation.name \in {"createOFT", "createOFTAdapter", "setAuthority"}
    BY <1>1, TaskAt DEF Creators
  <2>2. /\ OftStore(creation.run) \in new.signers
        /\ new.signers \subseteq {OftStore(q) : q \in 1..n} \cup {Key(key) : key \in Minters}
    BY <1>2, <2>1, MintersAre
  <2>3. {OftStore(q) : q \in 1..n} \subseteq {OftStore(r) : r \in Nat}
    BY <1>2
  <2> QED
    BY <2>1, <2>2, <2>3 DEF MultisigRecords
<1> HIDE DEF new
<1>4. /\ multisigs' \in Seq(MultisigRecords) /\ Len(multisigs') = k + 1
      /\ multisigs'[k + 1] = new /\ \A i \in 1..k : multisigs'[i] = multisigs[i]
  BY <1>1, <1>2, <1>3, AppendProperties
<1>5. ASSUME NEW a \in Auths
      PROVE  SignersIn(multisigs', a) = SignersIn(multisigs, a)
  BY <1>1, <1>2, <1>3, SignersKept DEF Auths
<1>6. Auths \subseteq Auths' /\ Multisig(k + 1) \in Auths'
  <2>1. Auths' = Authorities(n, k + 1)
    BY <1>1, <1>4 DEF Auths
  <2>2. Auths \subseteq Auths'
    BY <1>2, <2>1, AuthoritiesGrow DEF Auths
  <2> QED
    BY <1>2, <2>1, <2>2 DEF Authorities
<1>7. ASSUME NEW r, NEW a \in Auths
      PROVE  StoreMaySign(r, a)' <=> StoreMaySign(r, a)
  BY <1>5 DEF StoreMaySign
<1>8. mints \in [DOMAIN mints -> [mintAuthority : Auths \ {None}, freezeAuthority : Auths]]
  BY DEF CreationInv, ChainOK
<1>9. ChainOK'
  <2>1. mints' \in [DOMAIN mints' -> [mintAuthority : Auths' \ {None}, freezeAuthority : Auths']]
    BY <1>1, <1>6, <1>8
  <2>2. \A i \in 1..(k + 1) :
          multisigs'[i].signers \subseteq {OftStore(q) : q \in 1..n} \cup {Key(key) : key \in Minters}
    <3>1. \A i \in 1..k :
            multisigs[i].signers \subseteq {OftStore(q) : q \in 1..n} \cup {Key(key) : key \in Minters}
      BY DEF CreationInv, ChainOK
    <3> QED
      BY <1>2, <1>3, <1>4, <3>1
  <2>3. k + 1 <= MaxMultisigs
    BY <1>1, <1>2, Bounds
  <2> QED
    BY <1>1, <1>4, <2>1, <2>2, <2>3 DEF CreationInv, ChainOK, StoreRecords
<1>10. ASSUME NEW a \in Auths, a.kind = "multisig" , a # None
       PROVE  a.id \in 1..k
  BY <1>10, AuthorityKinds DEF Auths, Authorities
<1>11. MintsOK'
  <2> SUFFICES ASSUME NEW m \in DOMAIN mints \ {given},
                      mints[m].mintAuthority # Key(wallet)
               PROVE  /\ \E st \in stores :
                           /\ st.mint = m
                           /\ OftStore(st.escrow)
                                \in SignersIn(multisigs', mints[m].mintAuthority)
                      /\ mints[m].freezeAuthority = Key(wallet) =>
                           /\ mints[m].mintAuthority.kind = "multisig"
                           /\ multisigs'[mints[m].mintAuthority.id].by = "setAuthority"
    BY <1>1 DEF MintsOK, StoreMaySign
  <2>1. mints[m].mintAuthority \in Auths \ {None}
    BY <1>8
  <2>2. /\ \E st \in stores : st.mint = m /\ StoreMaySign(st.escrow, mints[m].mintAuthority)
        /\ mints[m].freezeAuthority = Key(wallet) =>
             /\ mints[m].mintAuthority.kind = "multisig"
             /\ multisigs[mints[m].mintAuthority.id].by = "setAuthority"
    BY DEF CreationInv, MintsOK
  <2>3. mints[m].mintAuthority.kind = "multisig" => mints[m].mintAuthority.id \in 1..k
    BY <2>1, <1>10
  <2>4. SignersIn(multisigs', mints[m].mintAuthority) = SignersIn(multisigs, mints[m].mintAuthority)
    BY <1>5, <2>1
  <2> QED
    BY <1>4, <2>2, <2>3, <2>4 DEF StoreMaySign
<1>12. DeploymentOK'
  <2> SUFFICES ASSUME deployment # None PROVE DeploymentOK'
    BY <1>1 DEF DeploymentOK
  <2>1. /\ deployment \in [mint : DOMAIN mints, mintAuthority : Auths \ {None},
                           escrow : 1..n, oftStore : {OftStore(r) : r \in 1..n}]
        /\ \A st \in stores : st.escrow = deployment.escrow /\ st.oftType = "Native" =>
             StoreMaySign(deployment.escrow, deployment.mintAuthority)
        /\ deployment.mint # given =>
             StoreMaySign(deployment.escrow, mints[deployment.mint].mintAuthority)
    BY DEF CreationInv, DeploymentOK
  <2>2. deployment.mintAuthority \in Auths /\ mints[deployment.mint].mintAuthority \in Auths
    BY <1>8, <2>1
  <2>3. deployment \in [mint : DOMAIN mints, mintAuthority : Auths' \ {None},
                        escrow : 1..n, oftStore : {OftStore(r) : r \in 1..n}]
    BY <1>6, <2>1
  <2>4. /\ SignersIn(multisigs', deployment.mintAuthority)
             = SignersIn(multisigs, deployment.mintAuthority)
        /\ SignersIn(multisigs', mints[deployment.mint].mintAuthority)
             = SignersIn(multisigs, mints[deployment.mint].mintAuthority)
    BY <1>5, <2>2
  <2> QED
    BY <1>1, <2>1, <2>3, <2>4 DEF CreationInv, DeploymentOK, StoreExists, StoreMaySign
<1>13. /\ creation \in TaskRecords(n, k) /\ StepsLeft(creation)
       /\ creation.mint \in {given, creation.run} /\ creation.run \in 1..n
       /\ HandoverKnows /\ CreatorKnows
  BY <1>1, TaskAt DEF CreationInv, TaskOK
<1>14. /\ t \in TaskRecords(n, k + 1) /\ t.name = creation.name /\ t.run = creation.run
       /\ t.mint = creation.mint /\ t.steps = creation.steps /\ t.authority = Multisig(k + 1)
  <2>1. creation \in TaskRecords(n, k + 1) /\ Multisig(k + 1) \in Authorities(n, k + 1)
    BY <1>2, <1>13, AuthoritiesGrow DEF TaskRecords, Authorities
  <2> QED
    BY <2>1 DEF TaskRecords
<1>15. creation' = Creation!Done(t)
  BY <1>1, <1>4
<1> HIDE DEF t
<1>16. ASSUME creation' # None
       PROVE  /\ creation' \in TaskRecords(Len(runs), Len(multisigs))' /\ StepsLeft(creation')
              /\ creation'.name = creation.name /\ creation'.run = creation.run
              /\ creation'.mint = creation.mint /\ creation'.authority = Multisig(k + 1)
              /\ Head(creation'.steps) = "check"
  <2>1. StepsLeft(t)
    BY <1>13, <1>14 DEF StepsLeft
  <2>2. /\ creation' \in TaskRecords(n, k + 1) /\ StepsLeft(creation')
        /\ creation'.name = t.name /\ creation'.run = t.run
        /\ creation'.mint = t.mint /\ creation'.authority = t.authority
        /\ creation'.steps = Tail(t.steps)
    BY <1>14, <1>15, <1>16, <2>1, GoesOn
  <2>3. Head(Tail(creation.steps)) = "check"
    BY <1>1, TaskAt, StepAfter
  <2> QED
    BY <1>1, <1>4, <1>14, <2>2, <2>3
<1>17. OftStore(creation.run) \in SignersIn(multisigs', Multisig(k + 1)) /\ Multisig(k + 1) # None
       /\ Multisig(k + 1) # Key(wallet)
  <2>1. Multisig(k + 1) # None
    BY <1>1, <1>2, <1>13, Bounds, NoneIsNoAuthority
  <2> QED
    BY <1>3, <1>4, <2>1, AuthorityKinds DEF SignersIn
<1>18. ASSUME creation' # None PROVE HandoverKnows'
  BY <1>1, <1>2, <1>3, <1>4, <1>13, <1>16, <1>17, <1>18 DEF HandoverKnows, StoreMaySign
<1>19. ASSUME creation' # None PROVE CreatorKnows'
  BY <1>1, <1>13, <1>16, <1>17, <1>19 DEF CreatorKnows, AtOneOf, StoreMaySign
<1>20. TaskOK'
  BY <1>13, <1>16, <1>18, <1>19, <1>1 DEF TaskOK
<1>21. \A a \in Auths : SignersIn(multisigs', a) = SignersIn(multisigs, a)
  BY <1>5
<1> QED
  BY <1>9, <1>11, <1>12, <1>20, <1>21 DEF CreationInv

\* A new creation finds the chain as it was, with one more store that may be.
LEMMA NewRun ==
  ASSUME CreationInv, NEW x \in RunRecords, Len(runs) < MaxRuns, runs' = Append(runs, x),
         UNCHANGED <<mints, multisigs, stores, deployment>>
  PROVE  /\ ChainOK' /\ MintsOK' /\ DeploymentOK'
         /\ Len(runs') = Len(runs) + 1 /\ Len(runs) \in Nat /\ Len(runs') \in 1..MaxRuns
         /\ Auths \subseteq Auths' /\ OftStore(Len(runs) + 1) \in Auths'
<1> DEFINE n == Len(runs)
           k == Len(multisigs)
<1>1. /\ n \in Nat /\ k \in Nat /\ n < MaxRuns /\ k <= MaxMultisigs /\ MaxRuns \in Nat
      /\ multisigs \in Seq(MultisigRecords) /\ runs \in Seq(RunRecords)
  BY Bounds DEF CreationInv, ChainOK
<1>2. runs' \in Seq(RunRecords) /\ Len(runs') = n + 1
  BY <1>1, AppendProperties
<1>3. Auths' = Authorities(n + 1, k)
  BY <1>2 DEF Auths
<1>4. Auths \subseteq Auths'
  BY <1>1, <1>3, AuthoritiesGrow DEF Auths
<1>5. OftStore(n + 1) \in Auths'
  BY <1>1, <1>3 DEF Authorities
<1>6. {OftStore(r) : r \in 1..n} \subseteq {OftStore(r) : r \in 1..(n + 1)} /\ 1..n \subseteq 1..(n + 1)
  BY <1>1
<1>7. ChainOK'
  <2>1. /\ \A i \in 1..k :
             multisigs[i].signers \subseteq {OftStore(r) : r \in 1..n} \cup {Key(key) : key \in Minters}
        /\ given \in DOMAIN mints /\ DOMAIN mints \subseteq 1..n \cup {given}
        /\ mints \in [DOMAIN mints -> [mintAuthority : Auths \ {None}, freezeAuthority : Auths]]
        /\ stores \subseteq StoreRecords
    BY DEF CreationInv, ChainOK
  <2>2. mints \in [DOMAIN mints -> [mintAuthority : Auths' \ {None}, freezeAuthority : Auths']]
    BY <1>4, <2>1
  <2>3. \A i \in 1..k :
          multisigs[i].signers
            \subseteq {OftStore(r) : r \in 1..(n + 1)} \cup {Key(key) : key \in Minters}
    BY <1>6, <2>1
  <2>4. stores \subseteq StoreRecords'
    BY <1>2, <1>6, <2>1 DEF StoreRecords
  <2>5. DOMAIN mints \subseteq 1..(n + 1) \cup {given} /\ n + 1 <= MaxRuns
    BY <1>1, <1>6, <2>1
  <2> HIDE DEF n, k
  <2>6. /\ runs' \in Seq(RunRecords) /\ Len(runs') <= MaxRuns
        /\ multisigs' \in Seq(MultisigRecords) /\ Len(multisigs') <= MaxMultisigs
    BY <1>1, <1>2, <2>5 DEF n, k
  <2>7. \A i \in 1..Len(multisigs)' :
          multisigs'[i].signers
            \subseteq {OftStore(r) : r \in 1..Len(runs)'} \cup {Key(key) : key \in Minters}
    BY <1>2, <2>3 DEF k
  <2> QED
    BY <1>2, <2>1, <2>2, <2>4, <2>5, <2>6, <2>7 DEF ChainOK
<1>8. MintsOK'
  BY DEF CreationInv, MintsOK, StoreMaySign
<1>9. DeploymentOK'
  BY <1>2, <1>4, <1>6 DEF CreationInv, DeploymentOK, StoreMaySign, StoreExists
<1> QED
  BY <1>1, <1>2, <1>4, <1>5, <1>7, <1>8, <1>9

\* No store, no mint and no deployment has the keys of the creation to come.
LEMMA NewKeys ==
  ASSUME CreationInv
  PROVE  /\ Len(runs) + 1 \notin DOMAIN mints /\ Len(runs) + 1 # given
         /\ \A st \in stores : st.escrow # Len(runs) + 1
         /\ deployment # None => deployment.escrow # Len(runs) + 1
<1>1. Len(runs) \in Nat /\ Len(runs) + 1 \notin 1..Len(runs) /\ Len(runs) + 1 # given
  BY Bounds DEF CreationInv, ChainOK
<1> QED
  BY <1>1 DEF CreationInv, ChainOK, StoreRecords, DeploymentOK

LEMMA CreateOFTKeeps ==
  ASSUME CreationInv, NEW isMABA \in BOOLEAN, NEW minters \in MinterLists,
         NEW only \in BOOLEAN, Creation!CreateOFT(isMABA, minters, only)
  PROVE  CreationInv'
<1> DEFINE n == Len(runs)
           m == IF isMABA THEN given ELSE n + 1
           x == [mint |-> m, minters |-> minters, onlyOftStore |-> only]
           t == [name |-> "createOFT", run |-> n + 1, mint |-> m, minters |-> minters,
                 authority |-> OftStore(n + 1), steps |-> Creation!CreateSteps(m, minters)]
<1>1. /\ creation = None /\ n < MaxRuns /\ runs' = Append(runs, x)
      /\ creation' = [name |-> "createOFT", run |-> Len(runs'), mint |-> m,
                      minters |-> minters, authority |-> OftStore(Len(runs')),
                      steps |-> Creation!CreateSteps(m, minters)]
      /\ UNCHANGED <<mints, multisigs, stores, deployment>>
  BY DEF Creation!CreateOFT, Creation!StartCreateOFT, Creation!chain, OftStore
<1>2. n \in Nat /\ m \in {given, n + 1}
  BY DEF CreationInv, ChainOK
<1>3. x \in RunRecords
  BY <1>2 DEF RunRecords
<1>4. /\ ChainOK' /\ MintsOK' /\ DeploymentOK' /\ Len(runs') = n + 1 /\ n + 1 \in 1..MaxRuns
      /\ OftStore(n + 1) \in Auths'
  BY <1>1, <1>3, NewRun
<1>5. creation' = t
  BY <1>1, <1>4
<1>6. /\ t.name = "createOFT" /\ t.run = n + 1 /\ t.mint = m /\ t.minters = minters
      /\ t.authority = OftStore(n + 1) /\ t.steps = Creation!CreateSteps(m, minters)
  OBVIOUS
<1>7. StepsLeft(t)
  BY <1>6, CreateStepsOrder DEF StepsLeft
<1>8. t.steps \in Seq(StepNames)
  BY <1>6, <1>7, NewMintOrder, GivenMintOrder DEF StepsLeft
<1>9. t \in TaskRecords(Len(runs), Len(multisigs))'
  <2>1. t.authority \in Authorities(Len(runs'), Len(multisigs'))
    BY <1>4, <1>6 DEF Auths
  <2> QED
    BY <1>2, <1>4, <1>8, <2>1 DEF TaskRecords, Creators
<1>10. /\ OftStore(n + 1) # None /\ OftStore(n + 1) # Key(wallet)
       /\ OftStore(n + 1) \in SignersIn(multisigs', OftStore(n + 1))
  <2>1. OftStore(n + 1) # None
    BY <1>4, DeploymentAssumption
    DEF Creation!CreateOFTAssumption, OftStore, Creation!OftStore
  <2> QED
    BY <2>1, AuthorityKinds DEF SignersIn
<1>11. Head(t.steps) \in {"multisig", IF m = given THEN "initOft" ELSE "token"}
  BY <1>6, CreateStepsOrder
<1> HIDE DEF t
<1>12. HandoverKnows'
  BY <1>5, <1>6 DEF HandoverKnows
<1>13. CreatorKnows'
  BY <1>1, <1>4, <1>5, <1>6, <1>10, <1>11, NewKeys
  DEF CreationInv, ChainOK, CreatorKnows, AtOneOf, StoreMaySign
<1>14. TaskOK'
  BY <1>2, <1>5, <1>6, <1>7, <1>9, <1>12, <1>13 DEF TaskOK
<1> QED
  BY <1>4, <1>14 DEF CreationInv

LEMMA CreateOFTAdapterKeeps ==
  ASSUME CreationInv, Creation!CreateOFTAdapter
  PROVE  CreationInv'
<1> DEFINE n == Len(runs)
           x == [mint |-> given, minters |-> None, onlyOftStore |-> FALSE]
           t == [name |-> "createOFTAdapter", run |-> n + 1, mint |-> given,
                 minters |-> None, authority |-> mints[given].mintAuthority,
                 steps |-> <<"initOft", "save">>]
<1>1. /\ creation = None /\ n < MaxRuns /\ runs' = Append(runs, x)
      /\ creation' = [name |-> "createOFTAdapter", run |-> Len(runs'), mint |-> given,
                      minters |-> None, authority |-> mints[given].mintAuthority,
                      steps |-> <<"initOft", "save">>]
      /\ UNCHANGED <<mints, multisigs, stores, deployment>>
  BY DEF Creation!CreateOFTAdapter, Creation!chain
<1>2. x \in RunRecords
  BY DEF RunRecords
<1>3. /\ ChainOK' /\ MintsOK' /\ DeploymentOK' /\ Len(runs') = n + 1 /\ n + 1 \in 1..MaxRuns
      /\ Auths \subseteq Auths'
  BY <1>1, <1>2, NewRun
<1>4. creation' = t
  BY <1>1, <1>3
<1>5. /\ t.name = "createOFTAdapter" /\ t.run = n + 1 /\ t.mint = given /\ t.minters = None
      /\ t.authority = mints[given].mintAuthority /\ t.steps = <<"initOft", "save">>
  OBVIOUS
<1>6. OfGivenMint(t.steps) /\ t.steps \in Seq(StepNames) /\ Head(t.steps) = "initOft"
  BY <1>5, Tuples DEF OfGivenMint, StepNames
<1>7. given \in DOMAIN mints /\ mints[given].mintAuthority \in Auths \ {None}
  BY DEF CreationInv, ChainOK
<1>8. t \in TaskRecords(Len(runs), Len(multisigs))'
  <2>1. t.authority \in Authorities(Len(runs'), Len(multisigs'))
    BY <1>3, <1>5, <1>7 DEF Auths
  <2> QED
    BY <1>3, <1>6, <2>1 DEF TaskRecords, Creators
<1> HIDE DEF t
<1>9. HandoverKnows'
  BY <1>4, <1>5 DEF HandoverKnows
<1>10. CreatorKnows'
  BY <1>1, <1>3, <1>4, <1>5, <1>6, <1>7, NewKeys DEF CreatorKnows, AtOneOf
<1>11. TaskOK'
  BY <1>4, <1>5, <1>6, <1>8, <1>9, <1>10 DEF TaskOK, StepsLeft
<1> QED
  BY <1>3, <1>11 DEF CreationInv

LEMMA CreationStep ==
  ASSUME CreationInv, [Creation!Next]_creationVars
  PROVE  CreationInv'
<1>1. ASSUME NEW isMABA \in BOOLEAN, NEW only \in BOOLEAN, NEW minters \in MinterLists,
             Creation!CreateOFT(isMABA, minters, only)
      PROVE  CreationInv'
  BY <1>1, CreateOFTKeeps
<1>2. ASSUME NEW only \in BOOLEAN, NEW minters \in MinterLists,
             Creation!StartSetAuthority(minters, only)
      PROVE  CreationInv'
  BY <1>2, StartSetAuthorityKeeps
<1>3. CASE UNCHANGED creationVars
  BY <1>3 DEF creationVars, CreationInv, ChainOK, MintsOK, DeploymentOK, TaskOK,
              HandoverKnows, CreatorKnows, AtOneOf, Auths, StoreRecords, StoreMaySign,
              StoreExists
<1> QED
  BY <1>1, <1>2, <1>3, CreateOFTAdapterKeeps, CreateMultisigKeeps,
     CheckMultisigSignersKeeps, CreateTokenKeeps, InitOFTKeeps, SetBothAuthoritiesKeeps,
     SaveSolanaDeploymentKeeps, SetMintAuthorityKeeps, SetFreezeAuthorityKeeps, StopKeeps,
     HandOverByHandKeeps
  DEF Creation!Next

\* The right to mint of the store that OFT.json records is kept by every step.
MintingKept ==
  deployment # None /\ deployment' = deployment /\ Creation!CanMint(deployment)
    => Creation!CanMint(deployment)'

LEMMA CanMintIs ==
  ASSUME CreationInv, CreationInv', deployment # None, deployment' = deployment
  PROVE  /\ Creation!CanMint(deployment)
              <=> StoreMaySign(deployment.escrow, mints[deployment.mint].mintAuthority)
         /\ Creation!CanMint(deployment)'
              <=> StoreMaySign(deployment.escrow, mints[deployment.mint].mintAuthority)'
<1>1. /\ deployment.oftStore = OftStore(deployment.escrow)
      /\ deployment'.oftStore = OftStore(deployment'.escrow)
  BY DEF CreationInv, DeploymentOK
<1> QED
  BY <1>1 DEF Creation!CanMint, Creation!CanSign, Creation!Signers, StoreMaySign, SignersIn

LEMMA SameMintKeeps ==
  ASSUME CreationInv, CreationInv', UNCHANGED multisigs,
         deployment # None /\ deployment' = deployment =>
           mints'[deployment.mint].mintAuthority = mints[deployment.mint].mintAuthority
  PROVE  MintingKept
<1> SUFFICES ASSUME deployment # None, deployment' = deployment,
                    OftStore(deployment.escrow)
                      \in SignersIn(multisigs, mints[deployment.mint].mintAuthority)
             PROVE  OftStore(deployment.escrow)
                      \in SignersIn(multisigs', mints'[deployment.mint].mintAuthority)
  BY CanMintIs DEF MintingKept, StoreMaySign
<1> QED
  OBVIOUS

LEMMA MintingStep ==
  ASSUME CreationInv, CreationInv', [Creation!Next]_creationVars
  PROVE  MintingKept
<1>1. ASSUME UNCHANGED <<mints, multisigs>>
      PROVE  MintingKept
  BY <1>1, SameMintKeeps
<1>2. CASE \/ \E isMABA, only \in BOOLEAN, minters \in MinterLists :
                Creation!CreateOFT(isMABA, minters, only)
           \/ \E only \in BOOLEAN, minters \in MinterLists :
                Creation!StartSetAuthority(minters, only)
           \/ Creation!CreateOFTAdapter \/ Creation!CheckMultisigSigners
           \/ Creation!InitOFT \/ Creation!SaveSolanaDeployment \/ Creation!Stop
           \/ UNCHANGED creationVars
  BY <1>1, <1>2
  DEF Creation!CreateOFT, Creation!StartCreateOFT, Creation!StartSetAuthority,
      Creation!CreateOFTAdapter, Creation!CheckMultisigSigners, Creation!InitOFT,
      Creation!SaveSolanaDeployment, Creation!Stop, Creation!chain, creationVars
<1>3. CASE Creation!CreateMultisig
  <2> SUFFICES ASSUME deployment # None, deployment' = deployment
               PROVE  MintingKept
    BY DEF MintingKept
  <2>1. mints' = mints
    BY <1>3 DEF Creation!CreateMultisig
  <2>2. mints[deployment.mint].mintAuthority \in Auths
    BY DEF CreationInv, ChainOK, DeploymentOK
  <2>3. SignersIn(multisigs', mints[deployment.mint].mintAuthority)
          = SignersIn(multisigs, mints[deployment.mint].mintAuthority)
    BY <1>3, <2>2, CreateMultisigKeeps
  <2> QED
    BY <2>1, <2>3, CanMintIs DEF MintingKept, StoreMaySign
<1>4. CASE Creation!CreateToken
  <2>1. deployment # None => mints'[deployment.mint] = mints[deployment.mint]
    <3>1. deployment # None => deployment.mint \in DOMAIN mints
      BY DEF CreationInv, DeploymentOK
    <3>2. creation # None /\ Head(creation.steps) = "token"
          /\ AtOneOf({"multisig", "check", "token"}) /\ CreatorKnows
      BY <1>4 DEF Creation!CreateToken, Creation!AtStep, CreationInv, TaskOK, AtOneOf
    <3>3. creation.mint \notin DOMAIN mints
      BY <3>2, TaskAt, StepAt DEF CreatorKnows
    <3> QED
      BY <1>4, <3>1, <3>3 DEF Creation!CreateToken
  <2> QED
    BY <1>4, <2>1, SameMintKeeps DEF Creation!CreateToken
<1>5. CASE Creation!SetBothAuthorities
  BY <1>5, SetBothAuthoritiesKeeps, SameMintKeeps DEF Creation!SetBothAuthorities
<1>6. CASE Creation!SetFreezeAuthority
  <2>1. deployment # None => deployment.mint \in DOMAIN mints
    BY DEF CreationInv, DeploymentOK
  <2> QED
    BY <1>6, <2>1, SetFreezeAuthorityKeeps, SameMintKeeps DEF Creation!SetFreezeAuthority
<1>7. CASE Creation!SetMintAuthority \/ Creation!HandOverByHand
  BY <1>7, SetMintAuthorityKeeps, HandOverByHandKeeps, CanMintIs DEF MintingKept
<1> QED
  BY <1>2, <1>3, <1>4, <1>5, <1>6, <1>7 DEF Creation!Next

-----------------------------------------------------------------------------
(***************************************************************************)
(* The wiring.  A connection is declared together with its opposite, and   *)
(* exactly one of the two starts at Solana.  A task that was started after *)
(* the checks keeps what they showed, since an initialised connection      *)
(* stays so, however long the task waits and whatever fails in between.    *)
(***************************************************************************)
Connections == Wiring!Connections
Declared == Wiring!Range(graph)
HasSendLibrary(c) == Wiring!HasSendLibrary(c)
Opposite(c) == [from |-> c.to, to |-> c.from]
Eids(c) == {c.from, c.to}

\* One of the two ends of the pathway of c has been initialised on Solana.
Opened(c) == HasSendLibrary(c) => \E d \in initialised : Eids(d) = Eids(c)

GraphOK ==
  /\ graph \in Seq(Connections)
  /\ \A c \in Declared : Opposite(c) \in Declared
  /\ {delegate, owner} \subseteq Keys \cup {None}
  /\ authority \in [admin : Keys, delegate : Keys]
  /\ initialised \subseteq {c \in Declared : c.from \in SolanaEids}
  /\ peers \cup ulnConfigs \subseteq Declared
  /\ \A c \in peers : Opened(c)

TxKinds == {"init", "peer", "uln", "delegate", "admin"}

TxOK(t) ==
  /\ t.kind \in TxKinds
  /\ t.chain \in SolanaEids \cup EvmEids
  /\ t.kind \in {"init", "peer", "uln"} => t.arg \in Declared
  /\ t.kind \in {"delegate", "admin"} => t.arg \in Keys
  /\ t.kind = "init" => t.arg.from \in SolanaEids
  /\ t.kind = "peer" => Opened(t.arg)

WiringInv ==
  /\ GraphOK
  /\ DOMAIN tasks = Keys
  /\ \A k \in Keys : \A t \in tasks[k] : TxOK(t)

LEMMA WireFacts ==
  /\ SolanaEids \cap EvmEids = {} /\ deployer \in Keys /\ None \notin Keys
  /\ pathways \subseteq (EvmEids \X SolanaEids)
BY DeploymentAssumption DEF Wiring!WireAssumption

LEMMA ConnectionEnds ==
  ASSUME NEW c \in Connections
  PROVE  /\ Opposite(c) \in Connections /\ Opposite(Opposite(c)) = c
         /\ Eids(Opposite(c)) = Eids(c)
         /\ c.from \in SolanaEids \cup EvmEids
         /\ c.from \in SolanaEids \/ Opposite(c).from \in SolanaEids
         /\ HasSendLibrary(Opposite(c)) <=> HasSendLibrary(c)
<1>1. PICK p \in pathways : c = [from |-> p[1], to |-> p[2]] \/ c = [from |-> p[2], to |-> p[1]]
  BY DEF Connections, Wiring!Connections
<1>2. p[1] \in EvmEids /\ p[2] \in SolanaEids
  BY WireFacts
<1>3. c = [from |-> c.from, to |-> c.to]
  BY <1>1
<1>4. Opposite(c) = [from |-> p[1], to |-> p[2]] \/ Opposite(c) = [from |-> p[2], to |-> p[1]]
  BY <1>1 DEF Opposite
<1>5. Opposite(c) \in Connections
  BY <1>4 DEF Connections, Wiring!Connections
<1>6. Opposite(c).from = c.to /\ Opposite(c).to = c.from
  BY DEF Opposite
<1>7. Opposite(Opposite(c)) = c
  BY <1>3, <1>6 DEF Opposite
<1>8. c.from \in SolanaEids \cup EvmEids /\ (c.from \in SolanaEids \/ c.to \in SolanaEids)
  BY <1>1, <1>2
<1>9. HasSendLibrary(Opposite(c)) <=> HasSendLibrary(c)
  BY <1>6 DEF HasSendLibrary, Wiring!HasSendLibrary
<1> QED
  BY <1>5, <1>6, <1>7, <1>8, <1>9 DEF Eids

LEMMA DeclaredGrows ==
  ASSUME NEW s \in Seq(Connections), NEW c \in Connections, NEW d \in Connections
  PROVE  /\ s \o <<c, d>> \in Seq(Connections)
         /\ Wiring!Range(s \o <<c, d>>) = Wiring!Range(s) \cup {c, d}
<1> DEFINE u == s \o <<c, d>>
<1>1. <<c, d>> \in Seq(Connections) /\ Len(<<c, d>>) = 2 /\ <<c, d>>[1] = c /\ <<c, d>>[2] = d
  OBVIOUS
<1>2. /\ u \in Seq(Connections) /\ Len(u) = Len(s) + 2
      /\ \A i \in 1..Len(u) : u[i] = IF i <= Len(s) THEN s[i] ELSE <<c, d>>[i - Len(s)]
  BY <1>1, ConcatProperties
<1>3. DOMAIN u = 1..(Len(s) + 2) /\ DOMAIN s = 1..Len(s) /\ Len(s) \in Nat
  BY <1>2
<1> HIDE DEF u
<1>4. u[Len(s) + 1] = c /\ u[Len(s) + 2] = d /\ \A i \in 1..Len(s) : u[i] = s[i]
  BY <1>1, <1>2, <1>3
<1>5. ASSUME NEW i \in DOMAIN u
      PROVE  i \in DOMAIN s \/ i = Len(s) + 1 \/ i = Len(s) + 2
  BY <1>3
<1>6. DOMAIN s \subseteq DOMAIN u /\ Len(s) + 1 \in DOMAIN u /\ Len(s) + 2 \in DOMAIN u
  BY <1>3
<1>7. Wiring!Range(u) \subseteq Wiring!Range(s) \cup {c, d}
  BY <1>3, <1>4, <1>5 DEF Wiring!Range
<1>8. Wiring!Range(s) \cup {c, d} \subseteq Wiring!Range(u)
  BY <1>3, <1>4, <1>6 DEF Wiring!Range
<1> QED
  BY <1>2, <1>7, <1>8 DEF u

LEMMA WiringInitStep == Wiring!Init => WiringInv
BY WireFacts
DEF Wiring!Init, WiringInv, GraphOK, Declared, Wiring!Range

\* What the pre-wiring checks show of every connection that is declared.
LEMMA ChecksShow ==
  ASSUME GraphOK, Wiring!PathwaysInitialised, NEW c \in Declared
  PROVE  Opened(c)
<1> SUFFICES ASSUME HasSendLibrary(c)
             PROVE  \E d \in initialised : Eids(d) = Eids(c)
  BY DEF Opened
<1>1. c \in Connections /\ Opposite(c) \in Declared
  BY DEF GraphOK, Declared, Wiring!Range
<1>2. \A d \in Declared : d.from \in SolanaEids /\ HasSendLibrary(d) => d \in initialised
  BY DEF Wiring!PathwaysInitialised, Wiring!IsSolana, Declared, HasSendLibrary
<1> QED
  BY <1>1, <1>2, ConnectionEnds

LEMMA FoundIsSolana ==
  ASSUME Wiring!FindSolanaEndpointId # None
  PROVE  Wiring!FindSolanaEndpointId \in SolanaEids
<1> DEFINE found == {i \in DOMAIN graph : \E e \in Wiring!Eids(graph[i]) : Wiring!IsSolana(e)}
           first == CHOOSE i \in found : \A j \in found : i <= j
           eids  == {e \in Wiring!Eids(graph[first]) : Wiring!IsSolana(e)}
<1>1. Wiring!FindSolanaEndpointId
        = IF found # {} /\ (\E e \in eids : eids = {e}) THEN CHOOSE e \in eids : TRUE ELSE None
  BY DEF Wiring!FindSolanaEndpointId
<1>2. PICK e \in eids : eids = {e}
  BY <1>1
<1> QED
  BY <1>1, <1>2 DEF Wiring!IsSolana

\* What a task finds missing are transactions that it may send.
LEMMA FoundOK ==
  ASSUME WiringInv, NEW kind \in Wiring!Tasks, Wiring!MayConfigure(kind),
         NEW eid \in SolanaEids, NEW t \in Wiring!Configuration(kind, eid)
  PROVE  TxOK(t)
<1>1. /\ \A c \in Declared : c \in Connections
      /\ GraphOK
  BY DEF WiringInv, GraphOK, Declared, Wiring!Range
<1>2. ASSUME NEW name \in {"init", "peer", "uln"}, NEW done, NEW rank,
             NEW u \in Wiring!OnConnections(name, done, rank)
      PROVE  u.kind = name /\ u.arg \in Declared /\ u.chain = u.arg.from
             /\ u.chain \in SolanaEids \cup EvmEids
  BY <1>1, <1>2, ConnectionEnds DEF Wiring!OnConnections, Wiring!Tx, Declared
<1>3. CASE kind = "init-config"
  <2>1. Wiring!Configuration(kind, eid) = Wiring!InitOFTAccounts
    BY <1>3 DEF Wiring!Configuration
  <2>2. t \in Wiring!OnConnections("init", initialised, 1) /\ t.chain \in SolanaEids
    BY <2>1 DEF Wiring!InitOFTAccounts, Wiring!InitAllAccounts, Wiring!IsSolana
  <2> QED
    BY <1>2, <2>2 DEF TxOK, TxKinds
<1>4. CASE kind = "wire"
  <2>1. Wiring!Configuration(kind, eid) = Wiring!ConfigureOApp(eid)
    BY <1>4 DEF Wiring!Configuration
  <2>2. Wiring!PathwaysInitialised
    BY <1>4 DEF Wiring!MayConfigure
  <2>3. CASE t \in Wiring!OnConnections("peer", peers, 1)
    BY <1>1, <1>2, <2>2, <2>3, ChecksShow DEF TxOK, TxKinds
  <2>4. CASE t \in Wiring!OnConnections("uln", ulnConfigs, 2)
    BY <1>2, <2>4 DEF TxOK, TxKinds
  <2>5. CASE delegate \notin {None, authority.delegate} /\ t = Wiring!Tx("delegate", eid, delegate, 3)
    BY <1>1, <2>5 DEF TxOK, TxKinds, Wiring!Tx, GraphOK
  <2> QED
    BY <2>1, <2>3, <2>4, <2>5 DEF Wiring!ConfigureOApp
<1>5. CASE kind = "transfer-ownership"
  <2>1. Wiring!Configuration(kind, eid) = Wiring!ConfigureOwnable(eid)
    BY <1>5 DEF Wiring!Configuration
  <2>2. owner \notin {None, authority.admin} /\ t = Wiring!Tx("admin", eid, owner, 1)
    BY <2>1 DEF Wiring!ConfigureOwnable
  <2> QED
    BY <1>1, <2>2 DEF TxOK, TxKinds, Wiring!Tx, GraphOK
<1> QED
  BY <1>3, <1>4, <1>5 DEF Wiring!Tasks

\* A transaction stays one that may be sent while nothing is taken back.
LEMMA StaysOK ==
  ASSUME NEW t, TxOK(t), Declared \subseteq Declared', initialised \subseteq initialised'
  PROVE  TxOK(t)'
BY DEF TxOK, Opened, HasSendLibrary, Wiring!HasSendLibrary

LEMMA AddPathwayKeeps ==
  ASSUME WiringInv, NEW p \in pathways, Wiring!AddPathway(p)
  PROVE  WiringInv'
<1> DEFINE c == [from |-> p[1], to |-> p[2]]
           d == [from |-> p[2], to |-> p[1]]
<1>1. /\ graph' = graph \o <<c, d>>
      /\ UNCHANGED <<delegate, owner, initialised, peers, ulnConfigs, authority, tasks>>
  BY DEF Wiring!AddPathway, Wiring!onChain
<1>2. c \in Connections /\ d \in Connections /\ Opposite(c) = d /\ Opposite(d) = c
  BY DEF Connections, Wiring!Connections, Opposite
<1> HIDE DEF c, d
<1>3. graph' \in Seq(Connections) /\ Declared' = Declared \cup {c, d}
  BY <1>1, <1>2, DeclaredGrows DEF WiringInv, GraphOK, Declared
<1>4. \A e \in Declared' : Opposite(e) \in Declared'
  BY <1>2, <1>3 DEF WiringInv, GraphOK
<1>5. \A e \in peers : Opened(e)'
  BY <1>1 DEF WiringInv, GraphOK, Opened, HasSendLibrary, Wiring!HasSendLibrary
<1>6. GraphOK'
  BY <1>1, <1>3, <1>4, <1>5 DEF WiringInv, GraphOK
<1>7. \A k \in Keys : \A t \in tasks[k] : TxOK(t)'
  BY <1>1, <1>3, StaysOK DEF WiringInv
<1> QED
  BY <1>1, <1>6, <1>7 DEF WiringInv

LEMMA FileEditKeeps ==
  ASSUME WiringInv, NEW key \in Keys, Wiring!SetDelegate(key) \/ Wiring!SetOwner(key)
  PROVE  WiringInv'
<1>1. /\ delegate' \in Keys \cup {None} /\ owner' \in Keys \cup {None}
      /\ UNCHANGED <<graph, initialised, peers, ulnConfigs, authority, tasks>>
  BY DEF Wiring!SetDelegate, Wiring!SetOwner, Wiring!onChain, WiringInv, GraphOK
<1>2. Declared' = Declared /\ initialised' = initialised
  BY <1>1 DEF Declared
<1>3. \A k \in Keys : \A t \in tasks[k] : TxOK(t)'
  BY <1>2, StaysOK DEF WiringInv
<1>4. \A c \in peers : Opened(c)'
  BY <1>1 DEF WiringInv, GraphOK, Opened, HasSendLibrary, Wiring!HasSendLibrary
<1> QED
  BY <1>1, <1>2, <1>3, <1>4 DEF WiringInv, GraphOK

LEMMA RunKeeps ==
  ASSUME WiringInv, NEW key \in Keys, NEW kind \in Wiring!Tasks, Wiring!Run(kind, key)
  PROVE  WiringInv'
<1> DEFINE eid == Wiring!FindSolanaEndpointId
<1>1. /\ eid # None /\ Wiring!MayConfigure(kind)
      /\ tasks' = [tasks EXCEPT ![key] = Wiring!Configuration(kind, eid)]
      /\ UNCHANGED <<graph, delegate, owner, initialised, peers, ulnConfigs, authority>>
  BY DEF Wiring!Run, Wiring!file, Wiring!onChain
<1>2. eid \in SolanaEids
  BY <1>1, FoundIsSolana
<1> HIDE DEF eid
<1>3. \A t \in Wiring!Configuration(kind, eid) : TxOK(t)
  BY <1>1, <1>2, FoundOK
<1>4. Declared' = Declared /\ initialised' = initialised
  BY <1>1 DEF Declared
<1>5. DOMAIN tasks' = Keys /\ \A k \in Keys : \A t \in tasks'[k] : TxOK(t)
  BY <1>1, <1>3 DEF WiringInv
<1>6. \A k \in Keys : \A t \in tasks'[k] : TxOK(t)'
  BY <1>4, <1>5, StaysOK
<1>7. \A c \in peers : Opened(c)'
  BY <1>1 DEF WiringInv, GraphOK, Opened, HasSendLibrary, Wiring!HasSendLibrary
<1>8. GraphOK'
  BY <1>1, <1>4, <1>7 DEF WiringInv, GraphOK
<1> QED
  BY <1>5, <1>6, <1>8 DEF WiringInv

LEMMA WireFailKeeps ==
  ASSUME WiringInv, NEW key \in Keys, NEW chain, Wiring!Fail(key, chain)
  PROVE  WiringInv'
<1>1. /\ tasks' = [tasks EXCEPT ![key] = {t \in @ : t.chain # chain}]
      /\ UNCHANGED <<graph, delegate, owner, initialised, peers, ulnConfigs, authority>>
  BY DEF Wiring!Fail, Wiring!file, Wiring!onChain
<1>2. Declared' = Declared /\ initialised' = initialised
  BY <1>1 DEF Declared
<1>3. DOMAIN tasks' = Keys /\ \A k \in Keys : tasks'[k] \subseteq tasks[k]
  BY <1>1 DEF WiringInv
<1>4. \A k \in Keys : \A t \in tasks'[k] : TxOK(t)'
  BY <1>2, <1>3, StaysOK DEF WiringInv
<1>5. \A c \in peers : Opened(c)'
  BY <1>1 DEF WiringInv, GraphOK, Opened, HasSendLibrary, Wiring!HasSendLibrary
<1>6. GraphOK'
  BY <1>1, <1>2, <1>5 DEF WiringInv, GraphOK
<1> QED
  BY <1>3, <1>4, <1>6 DEF WiringInv

LEMMA SignAndSendKeeps ==
  ASSUME WiringInv, NEW key \in Keys, NEW t \in tasks[key], Wiring!SignAndSend(key, t)
  PROVE  WiringInv'
<1>1. /\ tasks' = [tasks EXCEPT ![key] = @ \ {t}]
      /\ initialised' = IF t.kind = "init" THEN initialised \cup {t.arg} ELSE initialised
      /\ peers' = IF t.kind = "peer" THEN peers \cup {t.arg} ELSE peers
      /\ ulnConfigs' = IF t.kind = "uln" THEN ulnConfigs \cup {t.arg} ELSE ulnConfigs
      /\ authority' = IF t.kind \in {"admin", "delegate"}
                      THEN [authority EXCEPT ![t.kind] = t.arg] ELSE authority
      /\ UNCHANGED <<graph, delegate, owner>>
  BY DEF Wiring!SignAndSend, Wiring!file
<1>2. TxOK(t)
  BY DEF WiringInv
<1>3. Declared' = Declared /\ initialised \subseteq initialised'
  BY <1>1 DEF Declared
<1>4. DOMAIN tasks' = Keys /\ \A k \in Keys : tasks'[k] \subseteq tasks[k]
  BY <1>1 DEF WiringInv
<1>5. \A k \in Keys : \A u \in tasks'[k] : TxOK(u)'
  BY <1>3, <1>4, StaysOK DEF WiringInv
<1>6. ASSUME NEW c, Opened(c) PROVE Opened(c)'
  BY <1>3, <1>6 DEF Opened, HasSendLibrary, Wiring!HasSendLibrary
<1>7. \A c \in peers' : Opened(c)'
  <2>1. \A c \in peers' : Opened(c)
    BY <1>1, <1>2 DEF WiringInv, GraphOK, TxOK
  <2> QED
    BY <1>6, <2>1
<1>8. initialised' \subseteq {c \in Declared : c.from \in SolanaEids}
  BY <1>1, <1>2 DEF WiringInv, GraphOK, TxOK
<1>9. peers' \cup ulnConfigs' \subseteq Declared
  BY <1>1, <1>2 DEF WiringInv, GraphOK, TxOK
<1>10. authority' \in [admin : Keys, delegate : Keys]
  <2>1. authority \in [admin : Keys, delegate : Keys]
    BY DEF WiringInv, GraphOK
  <2>2. CASE t.kind = "admin"
    BY <1>1, <1>2, <2>1, <2>2 DEF TxOK
  <2>3. CASE t.kind = "delegate"
    BY <1>1, <1>2, <2>1, <2>3 DEF TxOK
  <2> QED
    BY <1>1, <2>1, <2>2, <2>3
<1>11. GraphOK'
  BY <1>1, <1>3, <1>7, <1>8, <1>9, <1>10 DEF WiringInv, GraphOK
<1> QED
  BY <1>4, <1>5, <1>11 DEF WiringInv

LEMMA WiringStep ==
  ASSUME WiringInv, [Wiring!Next]_wiringVars
  PROVE  WiringInv'
<1>1. CASE UNCHANGED wiringVars
  BY <1>1 DEF wiringVars, WiringInv, GraphOK, TxOK, Opened, Declared, HasSendLibrary,
              Wiring!HasSendLibrary
<1>2. CASE Wiring!Next
  BY <1>2, AddPathwayKeeps, FileEditKeeps, RunKeeps, SignAndSendKeeps, WireFailKeeps
  DEF Wiring!Next
<1> QED
  BY <1>1, <1>2

\* What the invariant says in the words of Wire.
LEMMA WiringSafe ==
  ASSUME WiringInv
  PROVE  Wiring!TypeOK /\ NothingOpensUninitialised
<1>1. Declared \subseteq Connections
  BY DEF WiringInv, GraphOK, Declared, Wiring!Range
<1>2. \A k \in Keys : \A t \in tasks[k] :
        t.chain \in SolanaEids \cup EvmEids /\ t.arg \in Connections \cup Keys
  BY <1>1 DEF WiringInv, TxOK, TxKinds
<1>3. Wiring!TypeOK
  BY <1>1, <1>2 DEF WiringInv, GraphOK, Wiring!TypeOK, Declared, Connections, Wiring!IsSolana
<1>4. Wiring!NothingOpensUninitialised
  BY DEF WiringInv, GraphOK, Opened, Wiring!NothingOpensUninitialised, HasSendLibrary, Eids,
         Wiring!Eids
<1> QED
  BY <1>3, <1>4 DEF NothingOpensUninitialised

-----------------------------------------------------------------------------
(* The parts together. *)

DeploymentInv == Inv /\ CreationInv /\ WiringInv

LEMMA DeploymentInitStep == DeploymentInit => DeploymentInv
BY InitInv, CreationInitStep, WiringInitStep DEF DeploymentInit, DeploymentInv

\* A step of the deployment is a step of each part, or leaves the part alone.
LEMMA StepOfParts ==
  ASSUME [DeploymentNext]_<<part, vars, creationVars, wiringVars>>
  PROVE  /\ [Next]_vars
         /\ [Creation!Next]_creationVars
         /\ [Wiring!Next]_wiringVars
<1>1. CASE part = "metadata" /\ Next /\ UNCHANGED <<creationVars, wiringVars>>
  BY <1>1
<1>2. CASE part = "creation" /\ Creation!Next /\ UNCHANGED <<vars, wiringVars>>
  BY <1>2
<1>3. CASE part = "wiring" /\ Wiring!Next /\ UNCHANGED <<vars, creationVars>>
  BY <1>3
<1>4. CASE UNCHANGED <<part, vars, creationVars, wiringVars>>
  BY <1>4
<1> QED
  BY <1>1, <1>2, <1>3, <1>4 DEF DeploymentNext

LEMMA DeploymentStep ==
  ASSUME DeploymentInv, [DeploymentNext]_<<part, vars, creationVars, wiringVars>>
  PROVE  DeploymentInv'
BY StepOfParts, NextInv, CreationStep, WiringStep DEF DeploymentInv

\* The invariants of the three parts hold in every behaviour of the deployment.
THEOREM DeploymentInductive == DeploymentSpec => []DeploymentInv
<1>1. DeploymentInit => DeploymentInv
  BY DeploymentInitStep
<1>2. DeploymentInv /\ [DeploymentNext]_<<part, vars, creationVars, wiringVars>> => DeploymentInv'
  BY DeploymentStep
<1> QED
  BY <1>1, <1>2, PTL DEF DeploymentSpec

\* Each part behaves as it does alone.
THEOREM PartsBehave == DeploymentSpec => Spec /\ Creation!Spec /\ Wiring!Spec
<1>1. DeploymentInit => Init /\ Creation!Init /\ Wiring!Init
  BY DEF DeploymentInit
<1>2. [DeploymentNext]_<<part, vars, creationVars, wiringVars>>
        => [Next]_vars /\ [Creation!Next]_Creation!vars /\ [Wiring!Next]_Wiring!vars
  <2>1. UNCHANGED creationVars => UNCHANGED Creation!vars
    BY DEF creationVars, Creation!vars
  <2>2. UNCHANGED wiringVars => UNCHANGED Wiring!vars
    BY DEF wiringVars, Wiring!vars, Wiring!file, Wiring!onChain
  <2> QED
    BY <2>1, <2>2, StepOfParts
<1> QED
  BY <1>1, <1>2, PTL DEF DeploymentSpec, Spec, Creation!Spec, Wiring!Spec

\* The accounts, files and tasks of the three parts refer to what exists.
THEOREM DeploymentTyped == DeploymentSpec => []TypesOK
<1>1. DeploymentInv => Creation!TypeOK /\ Wiring!TypeOK
  BY CreationTyped, WiringSafe DEF DeploymentInv
<1> QED
  BY <1>1, DeploymentInductive, PartsBehave, TypeCorrect, PTL DEF TypesOK

\* Wherever createOFT and setAuthority stop, no created token is left with an
\* authority that nobody can use, what OFT.json records can mint, and only a
\* handover leaves the two authorities apart.
THEOREM AuthoritiesUsable == DeploymentSpec => []AuthoritiesStayUsable
<1>1. DeploymentInv => AuthoritiesStayUsable
  BY CreationSafe DEF DeploymentInv
<1> QED
  BY <1>1, DeploymentInductive, PTL

\* No task takes the right to mint from the store that OFT.json records.
THEOREM MintingStays == DeploymentSpec => MintingIsNeverLost
<1>1. DeploymentInv /\ DeploymentInv' /\ [DeploymentNext]_<<part, vars, creationVars, wiringVars>>
        => [MintingKept]_Creation!vars
  BY StepOfParts, MintingStep DEF DeploymentInv
<1> QED
  BY <1>1, DeploymentInductive, PTL
  DEF DeploymentSpec, MintingIsNeverLost, Creation!MintingIsNeverLost, MintingKept

\* Several tasks of several keys, failing and started again, open no pathway to
\* Solana before Solana has its configs.
THEOREM NothingOpens == DeploymentSpec => []NothingOpensUninitialised
<1>1. DeploymentInv => NothingOpensUninitialised
  BY WiringSafe DEF DeploymentInv
<1> QED
  BY <1>1, DeploymentInductive, PTL

=============================================================================
