------------------------------ MODULE Lifecycle ------------------------------
(***************************************************************************)
(* The coordinator of query-passport: local_lifecycle.prepare and          *)
(* local_lifecycle.execute, run by short-lived CLI processes that share    *)
(* operation directories, issued generations, the delivery store and one   *)
(* PostgreSQL server per target.                                           *)
(*                                                                         *)
(* A process runs ONE command, holds the target lock and the operation     *)
(* lock (operation_store) until it ends, and may end after any of its      *)
(* steps: a signal, the command deadline or a failing backend raises out   *)
(* of the handler, SIGKILL loses the process.  Nothing is undone: the next *)
(* command finds what the ended one left.                                  *)
(*                                                                         *)
(* The store, the journal file, the PostgreSQL change and the issuer are   *)
(* each one or two steps here.                                             *)
(***************************************************************************)
EXTENDS Naturals, FiniteSets

CONSTANTS
    Procs,      \* CLI processes
    Ops,        \* operation ids a uuid4 may yield; an id is also its generation
    Targets,    \* PostgreSQL containers, each with its own delivery store
    None,       \* the null of locks, revisions, plans and journals
    MaxEpoch,   \* bound: how often each container is restarted
    MaxRev,     \* bound: how often an administrator edits its configuration
    Faults      \* the faults beyond an ended process that an instance includes

ASSUME LifecycleAssumption ==
    /\ None \notin Ops \cup Procs \cup Targets
    /\ MaxEpoch \in Nat
    /\ MaxRev \in Nat
    /\ Faults \subseteq {"tear", "restart", "edit", "lose_login", "expire"}

Commands == {"prepare", "prepare_rotation", "issue", "apply", "deliver", "rotate"}
Intents  == {"provision", "rotate"}

\* The phases a handler records, in the order a provision first reaches them.
Phases == {"prepared", "issuing", "issued", "applying", "applied",
           "checking_delivery", "delivering", "verifying", "delivered", "verified"}

\* What a process does next.  One label per call that reads or changes state
\* another process, a crash or an administrator can meet in between.
Labels == {"idle",
           "observe", "check", "create", "write_plan", "record_prepared",
           "load", "begin", "snapshot", "issuer", "generate", "save_issuance",
           "record_issued", "role", "files", "login", "save_applied", "applied",
           "verify_applied", "record_delivering", "store", "receipt",
           "record_verifying", "probe", "reprobe", "publish", "save_delivery",
           "record_delivered", "target", "finish"}

(***************************************************************************)
(* db_admin: the role and the owned files of one server.  "clean" has no   *)
(* reader role; "role" has it NOLOGIN while the files are not all          *)
(* installed; "files" has them loaded, the role still NOLOGIN; "ready" has *)
(* LOGIN.  owner is the operation named in the role's and block's markers, *)
(* rev counts an administrator's edits of text the tool does not own.      *)
(***************************************************************************)
Database == [owner : Ops \cup {None},
             stage : {"clean", "role", "files", "ready"},
             rev   : 0 .. MaxRev]

CleanDatabase == [owner |-> None, stage |-> "clean", rev |-> 0]

\* plan.json, without the fields no guard depends on.  "before" is the
\* db_admin snapshot, "previous" the active revision prepare saw, "owner" the
\* operation that configured the server (a provision names itself).
Plan == [target : Targets, intent : Intents, epoch : 0 .. MaxEpoch,
         before : Database, previous : Ops \cup {None}, owner : Ops]

ASSUME NoPlanAssumption == None \notin Plan

\* events.jsonl: the handlers only ask which phases occur, which one is last
\* and whether the last line was cut short.
Journal == [phases : SUBSET Phases, last : Phases \cup {None}, torn : BOOLEAN]
EmptyJournal == [phases |-> {}, last |-> None, torn |-> FALSE]

\* A file created with O_EXCL: a process that ends inside the write leaves it torn.
FileState == {"absent", "torn", "saved"}
Artifacts == [issuance : FileState, applied : FileState, delivery : FileState]
NoArtifacts == [issuance |-> "absent", applied |-> "absent", delivery |-> "absent"]

VARIABLES
    pc, cmd,        \* each process: its next step and its command
    cur, at,        \* ... the operation and the target it works on
    seen,           \* ... what prepare read before it wrote the plan
    delivering,     \* ... whether it is inside _deliver_generation
    targetLock, opLock,
    dirs, plan, journal, artifact,     \* operation directories and their files
    generation,     \* local_pki: the issued bundle of an operation
    version,        \* credential_delivery: versions/<operation> in the store
    active,         \* credential_delivery: active.json of each target
    db, epoch       \* each server and the start of its container

procVars  == <<pc, cmd, cur, at, seen, delivering, targetLock, opLock>>
stateVars == <<dirs, plan, journal, artifact>>
vars == <<pc, cmd, cur, at, seen, delivering, targetLock, opLock,
          dirs, plan, journal, artifact, generation, version, active, db, epoch>>

NothingSeen == [epoch |-> 0, before |-> CleanDatabase, previous |-> None]

Init ==
    /\ pc = [p \in Procs |-> "idle"]
    /\ cmd = [p \in Procs |-> None]
    /\ cur = [p \in Procs |-> None]
    /\ at = [p \in Procs |-> None]
    /\ seen = [p \in Procs |-> NothingSeen]
    /\ delivering = [p \in Procs |-> FALSE]
    /\ targetLock = [t \in Targets |-> None]
    /\ opLock = [o \in Ops |-> None]
    /\ dirs = {}
    /\ plan = [o \in Ops |-> None]
    /\ journal = [o \in Ops |-> EmptyJournal]
    /\ artifact = [o \in Ops |-> NoArtifacts]
    /\ generation = [o \in Ops |-> "absent"]
    /\ version = [o \in Ops |-> "absent"]
    /\ active = [t \in Targets |-> None]
    /\ db = [t \in Targets |-> CleanDatabase]
    /\ epoch = [t \in Targets |-> 0]

-----------------------------------------------------------------------------
(* Conditions of the handlers *)

\* operation.events() can be read and is not empty.
Readable(o) == journal[o].last # None /\ ~journal[o].torn

\* Variant: the binding the plan was made for is not compared.
LoadPlanAnyBinding(o, t) ==
    /\ o \in dirs
    /\ plan[o] # None
    /\ Readable(o)
    /\ plan[o].epoch = epoch[t]

\* _load_plan: the plan exists, was made for this binding, and the container
\* is the one prepare saw.
LoadPlan(o, t) ==
    /\ o \in dirs
    /\ plan[o] # None
    /\ plan[o].target = t
    /\ Readable(o)
    /\ plan[o].epoch = epoch[t]

\* db_admin.verify_applied for the operation that configured the server.
VerifyApplied(o, t) ==
    /\ artifact[o].applied = "saved"
    /\ db[t].owner = o
    /\ db[t].stage = "ready"
    /\ plan[o].epoch = epoch[t]

\* _rotation_owner: the owner is a provision whose LAST event is "verified".
\* Its operation lock must be free.
RotationOwner(o, t) ==
    /\ opLock[o] = None
    /\ LoadPlan(o, t)
    /\ plan[o].intent = "provision"
    /\ journal[o].last = "verified"
    /\ artifact[o].issuance = "saved"
    /\ artifact[o].applied = "saved"

\* _prepare_rotation: the predecessor is the active generation, verified, with
\* a delivery record; it names the owner to inherit.
Predecessor(o, t) ==
    /\ o # None
    /\ opLock[o] = None
    /\ LoadPlan(o, t)
    /\ journal[o].last = "verified"
    /\ artifact[o].delivery = "saved"
    /\ artifact[o].issuance = "saved"
    /\ RotationOwner(plan[o].owner, t)
    /\ VerifyApplied(plan[o].owner, t)

\* Variant: commands in any order.
InOrderUnchecked(c, o) == TRUE

\* Variant: an interrupted issue cannot be rerun.
InOrderIssueOnce(c, o) == c = "issue" => "issuing" \notin journal[o].phases

\* execute's order guards for a provision; a rotate plan takes only "rotate".
InOrder(c, o) ==
    LET phases == journal[o].phases
    IN  CASE c = "issue"   -> "applying" \notin phases
          [] c = "apply"   -> "issued" \in phases /\ "delivering" \notin phases
          [] c = "deliver" -> "applied" \in phases
          [] c = "rotate"  -> TRUE

IntentOf(c) == IF c \in {"prepare_rotation", "rotate"} THEN "rotate" ELSE "provision"

\* Variant: a moved pointer is not noticed.
NotSupersededUnchecked(o, t) == TRUE

\* Delivery goes on only from the revision prepare saw, or over itself.
NotSuperseded(o, t) == active[t] \in {plan[o].previous, o}

\* Variant: a rotation that is active already is not taken up again.
RotationStillDueOnce(o, t) ==
    /\ active[t] = plan[o].previous
    /\ RotationOwner(plan[o].owner, t)
    /\ VerifyApplied(plan[o].owner, t)
    /\ db[t] = plan[o].before

\* The checks _rotate makes before it records anything.
RotationStillDue(o, t) ==
    /\ NotSuperseded(o, t)
    /\ RotationOwner(plan[o].owner, t)
    /\ VerifyApplied(plan[o].owner, t)
    /\ db[t] = plan[o].before

\* Variant: another operation's role and rules are taken for the own ones.
OnlyOwnChangesAnyOwner(o, t) ==
    /\ db[t].rev = plan[o].before.rev
    /\ plan[o].epoch = epoch[t]

\* db_admin.apply's comparison of the server with plan.before and with the
\* operation's own rules: anything else there is someone else's change.
OnlyOwnChanges(o, t) ==
    /\ db[t].rev = plan[o].before.rev
    /\ db[t].owner \in {None, o}
    /\ plan[o].epoch = epoch[t]

\* The checks a process makes at its next step; it ends with an error if they fail.
Permitted(p) ==
    LET o == cur[p]
        t == at[p]
    IN  CASE pc[p] = "check" ->
               IF cmd[p] = "prepare"
                 THEN seen[p].before.stage = "clean" /\ seen[p].previous = None
                 ELSE Predecessor(seen[p].previous, t)
          [] pc[p] = "create" -> seen[p].epoch = epoch[t]
          [] pc[p] = "load" ->
               /\ LoadPlan(o, t)
               /\ plan[o].intent = IntentOf(cmd[p])
               /\ InOrder(cmd[p], o)
               /\ cmd[p] = "rotate" => RotationStillDue(o, t)
          [] pc[p] = "snapshot" -> db[t] = plan[o].before
          [] pc[p] = "issuer" -> generation[o] \in {"absent", "complete"}
          [] pc[p] = "save_issuance" -> artifact[o].issuance # "torn"
          [] pc[p] = "role" -> artifact[o].issuance = "saved" /\ OnlyOwnChanges(o, t)
          [] pc[p] = "files" -> OnlyOwnChanges(o, t) /\ db[t].stage # "ready"
          [] pc[p] = "login" -> OnlyOwnChanges(o, t) /\ db[t].stage = "files"
          [] pc[p] \in {"applied", "verify_applied", "probe", "reprobe"} ->
               VerifyApplied(plan[o].owner, t)
          [] pc[p] = "store" ->
               /\ generation[o] = "complete"
               /\ NotSuperseded(o, t)
               /\ version[o] # "partial"
          [] pc[p] = "publish" -> NotSuperseded(o, t)
          [] pc[p] = "save_delivery" -> artifact[o].delivery # "torn"
          [] pc[p] = "target" -> plan[o].epoch = epoch[t]
          [] OTHER -> TRUE

-----------------------------------------------------------------------------
(* Steps of a process *)

Goto(p, label) ==
    /\ pc' = [pc EXCEPT ![p] = label]
    /\ UNCHANGED <<cmd, cur, at, seen, delivering, targetLock, opLock>>

\* The process ends: the kernel or the context managers drop both locks.
End(p) ==
    /\ pc' = [pc EXCEPT ![p] = "idle"]
    /\ cmd' = [cmd EXCEPT ![p] = None]
    /\ cur' = [cur EXCEPT ![p] = None]
    /\ at' = [at EXCEPT ![p] = None]
    /\ seen' = [seen EXCEPT ![p] = NothingSeen]
    /\ delivering' = [delivering EXCEPT ![p] = FALSE]
    /\ targetLock' = [t \in Targets |-> IF targetLock[t] = p THEN None ELSE targetLock[t]]
    /\ opLock' = [o \in Ops |-> IF opLock[o] = p THEN None ELSE opLock[o]]

Step(p, label) == pc[p] = label /\ Permitted(p)

Record(o, phase) ==
    /\ journal' = [journal EXCEPT ![o] =
                     [phases |-> @.phases \cup {phase}, last |-> phase, torn |-> FALSE]]
    /\ UNCHANGED <<dirs, plan, artifact, generation, version, active, db, epoch>>

\* _save_once for one artifact; an existing one was compared with the same
\* value, which this operation wrote.
Save(o, name) ==
    /\ artifact' = [artifact EXCEPT ![o][name] = "saved"]
    /\ UNCHANGED <<dirs, plan, journal, generation, version, active, db, epoch>>

OnlyReads == UNCHANGED <<stateVars, generation, version, active, db, epoch>>

\* Where a process goes once the checks of these labels hold.  probe and reprobe
\* are the verify_applied calls around the three connections of
\* _verify_generation, target the last target_snapshot of execute and _rotate.
Passed == [check |-> "create", load |-> "begin", snapshot |-> "issuer",
           applied |-> "target", probe |-> "reprobe", reprobe |-> "publish",
           target |-> "finish"]

Pass(p) ==
    /\ pc[p] \in DOMAIN Passed
    /\ Permitted(p)
    /\ Goto(p, Passed[pc[p]])
    /\ OnlyReads

\* The events a handler records on its way, and where it goes after each.
Recorded == [record_issued     |-> [phase |-> "issued",     next |-> "verify_applied"],
             record_delivering |-> [phase |-> "delivering", next |-> "store"],
             record_verifying  |-> [phase |-> "verifying",  next |-> "probe"],
             record_delivered  |-> [phase |-> "delivered",  next |-> "target"]]

RecordProgress(p) ==
    /\ pc[p] \in DOMAIN Recorded
    /\ Record(cur[p], Recorded[pc[p]].phase)
    /\ Goto(p, Recorded[pc[p]].next)

\* prepare takes the target lock; a busy lock is an error without effect.
StartPrepare(p, c, t) ==
    /\ pc[p] = "idle"
    /\ c \in {"prepare", "prepare_rotation"}
    /\ Ops \ dirs # {}      \* bound: Ops also bounds how often prepare runs
    /\ targetLock[t] = None
    /\ pc' = [pc EXCEPT ![p] = "observe"]
    /\ cmd' = [cmd EXCEPT ![p] = c]
    /\ at' = [at EXCEPT ![p] = t]
    /\ targetLock' = [targetLock EXCEPT ![t] = p]
    /\ UNCHANGED <<cur, seen, delivering, opLock>>
    /\ OnlyReads

\* target_snapshot, db_admin.snapshot and inspect_delivery.
Observe(p) ==
    /\ Step(p, "observe")
    /\ seen' = [seen EXCEPT ![p] = [epoch |-> epoch[at[p]], before |-> db[at[p]],
                                    previous |-> active[at[p]]]]
    /\ pc' = [pc EXCEPT ![p] = "check"]
    /\ UNCHANGED <<cmd, cur, at, delivering, targetLock, opLock>>
    /\ OnlyReads

\* operation_store.operation(): a fresh directory, locked.
CreateOperation(p, o) ==
    /\ Step(p, "create")
    /\ o \notin dirs
    /\ opLock[o] = None
    /\ dirs' = dirs \cup {o}
    /\ opLock' = [opLock EXCEPT ![o] = p]
    /\ cur' = [cur EXCEPT ![p] = o]
    /\ pc' = [pc EXCEPT ![p] = "write_plan"]
    /\ UNCHANGED <<cmd, at, seen, delivering, targetLock>>
    /\ UNCHANGED <<plan, journal, artifact, generation, version, active, db, epoch>>

\* Variant: a rotation names what it replaces, not the server's owner.
PlannedOwnerLatest(p) == IF cmd[p] = "prepare" THEN cur[p] ELSE seen[p].previous

\* A provision owns the server itself; a rotation inherits its predecessor's owner.
PlannedOwner(p) == IF cmd[p] = "prepare" THEN cur[p] ELSE plan[seen[p].previous].owner

WritePlan(p) ==
    /\ Step(p, "write_plan")
    /\ plan' = [plan EXCEPT ![cur[p]] =
                  [target |-> at[p],
                   intent |-> IntentOf(cmd[p]),
                   epoch |-> seen[p].epoch,
                   before |-> seen[p].before,
                   previous |-> seen[p].previous,
                   owner |-> PlannedOwner(p)]]
    /\ Goto(p, "record_prepared")
    /\ UNCHANGED <<dirs, journal, artifact, generation, version, active, db, epoch>>

RecordPrepared(p) ==
    /\ Step(p, "record_prepared")
    /\ Record(cur[p], "prepared")
    /\ End(p)

\* execute takes the target lock, then the operation lock.  The target is the
\* caller's binding, which need not be the one the plan was made for.
StartExecute(p, c, o, t) ==
    /\ pc[p] = "idle"
    /\ c \in {"issue", "apply", "deliver", "rotate"}
    /\ o \in dirs
    /\ targetLock[t] = None
    /\ opLock[o] = None
    /\ pc' = [pc EXCEPT ![p] = "load"]
    /\ cmd' = [cmd EXCEPT ![p] = c]
    /\ cur' = [cur EXCEPT ![p] = o]
    /\ at' = [at EXCEPT ![p] = t]
    /\ targetLock' = [targetLock EXCEPT ![t] = p]
    /\ opLock' = [opLock EXCEPT ![o] = p]
    /\ UNCHANGED <<seen, delivering>>
    /\ OnlyReads

StartPhase(c) == CASE c \in {"issue", "rotate"} -> "issuing"
                   [] c = "apply"   -> "applying"
                   [] c = "deliver" -> "checking_delivery"

\* The start record, and where each command goes on.  apply skips db_admin.apply
\* when db.applied.json exists, whole or torn.
Begin(p) ==
    /\ Step(p, "begin")
    /\ Record(cur[p], StartPhase(cmd[p]))
    /\ Goto(p, CASE cmd[p] = "issue"   -> "snapshot"
                 [] cmd[p] = "rotate"  -> "issuer"
                 [] cmd[p] = "deliver" -> "verify_applied"
                 [] cmd[p] = "apply"   ->
                      IF artifact[cur[p]].applied = "absent" THEN "role" ELSE "applied")

\* The issuer validates and reuses a complete generation ...
ReuseGeneration(p) ==
    /\ Step(p, "issuer")
    /\ generation[cur[p]] = "complete"
    /\ Goto(p, "save_issuance")
    /\ OnlyReads

\* ... or makes the directory and then the files in it.
StartGeneration(p) ==
    /\ Step(p, "issuer")
    /\ generation[cur[p]] = "absent"
    /\ generation' = [generation EXCEPT ![cur[p]] = "partial"]
    /\ Goto(p, "generate")
    /\ UNCHANGED <<stateVars, version, active, db, epoch>>

CompleteGeneration(p) ==
    /\ Step(p, "generate")
    /\ generation' = [generation EXCEPT ![cur[p]] = "complete"]
    /\ Goto(p, "save_issuance")
    /\ UNCHANGED <<stateVars, version, active, db, epoch>>

SaveIssuance(p) ==
    /\ Step(p, "save_issuance")
    /\ Save(cur[p], "issuance")
    /\ Goto(p, IF cmd[p] = "issue" THEN "target"
               ELSE IF delivering[p] THEN "record_delivering" ELSE "record_issued")

\* The stage of a server whose role was just closed, or created closed.
Closed(stage) == CASE stage = "clean" -> "role"
                   [] stage = "ready" -> "files"
                   [] OTHER -> stage

\* db_admin.apply closes the role before anything else.
CloseRole(p) ==
    /\ Step(p, "role")
    /\ db' = [db EXCEPT ![at[p]] = [owner |-> cur[p], stage |-> Closed(@.stage), rev |-> @.rev]]
    /\ Goto(p, "files")
    /\ UNCHANGED <<stateVars, generation, version, active, epoch>>

\* CA, pg_ident, pg_hba, postgresql.auto.conf and the reload that loads them.
InstallFiles(p) ==
    /\ Step(p, "files")
    /\ db' = [db EXCEPT ![at[p]].stage = "files"]
    /\ Goto(p, "login")
    /\ UNCHANGED <<stateVars, generation, version, active, epoch>>

EnableRole(p) ==
    /\ Step(p, "login")
    /\ db' = [db EXCEPT ![at[p]].stage = "ready"]
    /\ Goto(p, "save_applied")
    /\ UNCHANGED <<stateVars, generation, version, active, epoch>>

SaveApplied(p) ==
    /\ Step(p, "save_applied")
    /\ Save(cur[p], "applied")
    /\ Goto(p, "applied")

\* _deliver_generation: verify_applied, then the issuer once more.
EnterDelivery(p) ==
    /\ Step(p, "verify_applied")
    /\ delivering' = [delivering EXCEPT ![p] = TRUE]
    /\ pc' = [pc EXCEPT ![p] = "issuer"]
    /\ UNCHANGED <<cmd, cur, at, seen, targetLock, opLock>>
    /\ OnlyReads

\* _deliver: reuse a version with a receipt ...
ReuseVersion(p) ==
    /\ Step(p, "store")
    /\ version[cur[p]] = "complete"
    /\ Goto(p, "record_verifying")
    /\ OnlyReads

\* ... or make the directory, which an operation already active never does.
StartVersion(p) ==
    /\ Step(p, "store")
    /\ version[cur[p]] = "absent"
    /\ active[at[p]] = plan[cur[p]].previous
    /\ version' = [version EXCEPT ![cur[p]] = "partial"]
    /\ Goto(p, "receipt")
    /\ UNCHANGED <<stateVars, generation, active, db, epoch>>

WriteReceipt(p) ==
    /\ Step(p, "receipt")
    /\ version' = [version EXCEPT ![cur[p]] = "complete"]
    /\ Goto(p, "record_verifying")
    /\ UNCHANGED <<stateVars, generation, active, db, epoch>>

\* _publish, or nothing when this operation is the active one already.
Publish(p) ==
    /\ Step(p, "publish")
    /\ active' = [active EXCEPT ![at[p]] = cur[p]]
    /\ Goto(p, "save_delivery")
    /\ UNCHANGED <<stateVars, generation, version, db, epoch>>

SaveDelivery(p) ==
    /\ Step(p, "save_delivery")
    /\ Save(cur[p], "delivery")
    /\ Goto(p, "record_delivered")

LastPhase(c) == CASE c = "issue" -> "issued"
                  [] c = "apply" -> "applied"
                  [] c \in {"deliver", "rotate"} -> "verified"

Finish(p) ==
    /\ Step(p, "finish")
    /\ Record(cur[p], LastPhase(cmd[p]))
    /\ End(p)

-----------------------------------------------------------------------------
(* Processes that do not get to the end *)

\* A check fails: ContractError out of the handler, nothing recorded.
Refuse(p) ==
    /\ pc[p] # "idle"
    /\ ~Permitted(p)
    /\ End(p)
    /\ OnlyReads

\* An error, the deadline or SIGKILL between two steps.
Stop(p) ==
    /\ pc[p] # "idle"
    /\ End(p)
    /\ OnlyReads

RecordLabels == {"record_prepared", "begin", "finish"} \cup DOMAIN Recorded

\* ... inside the append of an event: a line without its newline.
TearJournal(p) ==
    /\ "tear" \in Faults
    /\ pc[p] \in RecordLabels
    /\ journal' = [journal EXCEPT ![cur[p]].torn = TRUE]
    /\ End(p)
    /\ UNCHANGED <<dirs, plan, artifact, generation, version, active, db, epoch>>

SavedAt == [save_issuance |-> "issuance", save_applied |-> "applied",
            save_delivery |-> "delivery"]

\* ... inside the write of a new artifact.
TearArtifact(p) ==
    /\ "tear" \in Faults
    /\ pc[p] \in DOMAIN SavedAt
    /\ artifact[cur[p]][SavedAt[pc[p]]] = "absent"
    /\ artifact' = [artifact EXCEPT ![cur[p]][SavedAt[pc[p]]] = "torn"]
    /\ End(p)
    /\ UNCHANGED <<dirs, plan, journal, generation, version, active, db, epoch>>

-----------------------------------------------------------------------------
(* The world around the tool *)

\* The container is restarted: its started_at, part of target_snapshot, moves on.
Restart(t) ==
    /\ "restart" \in Faults
    /\ epoch[t] < MaxEpoch
    /\ epoch' = [epoch EXCEPT ![t] = @ + 1]
    /\ UNCHANGED <<procVars, stateVars, generation, version, active, db>>

\* An administrator edits configuration outside the owned blocks.
EditConfig(t) ==
    /\ "edit" \in Faults
    /\ db[t].rev < MaxRev
    /\ db' = [db EXCEPT ![t].rev = @ + 1]
    /\ UNCHANGED <<procVars, stateVars, generation, version, active, epoch>>

\* The reader role is closed behind the tool's back: an administrator, or a
\* statement that outlived the docker client of an ended process.
LoseLogin(t) ==
    /\ "lose_login" \in Faults
    /\ db[t].stage = "ready"
    /\ db' = [db EXCEPT ![t].stage = "files"]
    /\ UNCHANGED <<procVars, stateVars, generation, version, active, epoch>>

\* An issued certificate reaches its notAfter.
Expire(o) ==
    /\ "expire" \in Faults
    /\ generation[o] = "complete"
    /\ generation' = [generation EXCEPT ![o] = "expired"]
    /\ UNCHANGED <<procVars, stateVars, version, active, db, epoch>>

-----------------------------------------------------------------------------
PrepareStep(p) ==
    \/ Observe(p) \/ (\E o \in Ops : CreateOperation(p, o)) \/ WritePlan(p) \/ RecordPrepared(p)

IssueStep(p) ==
    \/ Begin(p) \/ ReuseGeneration(p) \/ StartGeneration(p) \/ CompleteGeneration(p)
    \/ SaveIssuance(p)

ApplyStep(p) == CloseRole(p) \/ InstallFiles(p) \/ EnableRole(p) \/ SaveApplied(p)

DeliverStep(p) ==
    \/ EnterDelivery(p) \/ ReuseVersion(p) \/ StartVersion(p) \/ WriteReceipt(p)
    \/ Publish(p) \/ SaveDelivery(p)

Work(p) ==
    \/ Pass(p) \/ RecordProgress(p) \/ Finish(p)
    \/ PrepareStep(p) \/ IssueStep(p) \/ ApplyStep(p) \/ DeliverStep(p)

Start(p) ==
    \/ \E c \in Commands, t \in Targets : StartPrepare(p, c, t)
    \/ \E c \in Commands, o \in Ops, t \in Targets : StartExecute(p, c, o, t)

Halt(p) == Refuse(p) \/ Stop(p) \/ TearJournal(p) \/ TearArtifact(p)

World ==
    \/ \E t \in Targets : Restart(t) \/ EditConfig(t) \/ LoseLogin(t)
    \/ \E o \in Ops : Expire(o)

Next == (\E p \in Procs : Start(p) \/ Work(p) \/ Halt(p)) \/ World

Spec == Init /\ [][Next]_vars

\* The command the operator owes an operation: docs/local-lifecycle.md:92-94 runs
\* issue, apply, deliver in turn and reruns the one that failed.
Due(o) == IF plan[o].intent = "rotate" THEN "rotate"
          ELSE IF "issued" \notin journal[o].phases THEN "issue"
          ELSE IF "applied" \notin journal[o].phases THEN "apply"
          ELSE "deliver"

Rerun(o) == \E p \in Procs :
    /\ plan[o] # None
    /\ Readable(o)
    /\ "verified" \notin journal[o].phases
    /\ StartExecute(p, Due(o), o, plan[o].target)

\* An error or a signal where the handler could have gone on.
Interrupted(p) == pc[p] # "finish" /\ Permitted(p) /\ Stop(p)

\* A started process goes on or is refused; the operator keeps rerunning what is
\* due, whatever else he runs in between; interruptions stop some day, and the
\* last record of an operation is not interrupted every time.
Fairness ==
    /\ \A p \in Procs : WF_vars(Work(p) \/ Refuse(p))
    /\ \A p \in Procs, o \in Ops : SF_vars(cur[p] = o /\ Finish(p))
    /\ \A o \in Ops : SF_vars(Rerun(o))
    /\ <>[][\A p \in Procs : ~Interrupted(p)]_vars

FairSpec == Spec /\ Fairness
-----------------------------------------------------------------------------
(* Properties *)

\* Every variable has its type.
TypeOK ==
    /\ pc \in [Procs -> Labels]
    /\ cmd \in [Procs -> Commands \cup {None}]
    /\ cur \in [Procs -> Ops \cup {None}]
    /\ at \in [Procs -> Targets \cup {None}]
    /\ seen \in [Procs -> [epoch : 0 .. MaxEpoch, before : Database,
                           previous : Ops \cup {None}]]
    /\ delivering \in [Procs -> BOOLEAN]
    /\ targetLock \in [Targets -> Procs \cup {None}]
    /\ opLock \in [Ops -> Procs \cup {None}]
    /\ dirs \subseteq Ops
    /\ plan \in [Ops -> Plan \cup {None}]
    /\ journal \in [Ops -> Journal]
    /\ artifact \in [Ops -> Artifacts]
    /\ generation \in [Ops -> {"absent", "partial", "complete", "expired"}]
    /\ version \in [Ops -> {"absent", "partial", "complete"}]
    /\ active \in [Targets -> Ops \cup {None}]
    /\ db \in [Targets -> Database]
    /\ epoch \in [Targets -> 0 .. MaxEpoch]

\* A phase in the journal is backed by the durable work it claims, whatever
\* crashed in between: status and the guards of later commands rely on it.
RecordsBacked ==
    \A o \in Ops :
        LET phases == journal[o].phases
        IN  /\ "issued" \in phases =>
                 artifact[o].issuance = "saved" /\ generation[o] \in {"complete", "expired"}
            /\ "applied" \in phases => artifact[o].applied = "saved"
            /\ "delivering" \in phases => "applied" \in journal[plan[o].owner].phases
            /\ "delivered" \in phases => artifact[o].delivery = "saved" /\ version[o] = "complete"
            /\ "verified" \in phases => "delivered" \in phases

\* The live credential is a complete version made for this server, tried
\* against it before it went live, and the server is still configured by the
\* operation that owns the credential's lineage.
ActiveIsVouchedFor ==
    \A t \in Targets : active[t] # None =>
        LET g == active[t]
        IN  /\ version[g] = "complete"
            /\ plan[g].target = t
            /\ "verifying" \in journal[g].phases
            /\ db[t].owner = plan[g].owner

\* A rotation inherits the owner of what it replaces, never the replaced
\* operation itself: the owner is always a verified provision.
OwnerIsProvision ==
    \A o \in Ops : (plan[o] # None /\ plan[o].intent = "rotate") =>
        LET before == plan[plan[o].previous]
            owner  == plan[plan[o].owner]
        IN  /\ plan[o].previous # None
            /\ before.owner = plan[o].owner
            /\ before.target = plan[o].target
            /\ owner.intent = "provision"
            /\ "verified" \in journal[plan[o].owner].phases

\* While a credential is live on a server no command touches the role or the
\* owned files of that server: readers keep their access.
ServerUntouchedWhileLive ==
    [][\A t \in Targets :
         (active[t] # None /\ pc' # pc) => db'[t] = db[t]]_vars

\* The active pointer moves only from the revision the plan was made on to the
\* plan's own generation, and only while the server accepts it.
ActivationIsCompareAndSet ==
    [][\A t \in Targets : active'[t] # active[t] =>
         LET g == active'[t]
         IN  /\ g # None
             /\ plan[g].target = t
             /\ plan[g].previous = active[t]
             /\ "delivering" \in journal[g].phases
             /\ artifact[plan[g].owner].applied = "saved"]_vars

\* docs/local-lifecycle.md:93 lets an operator rerun a failed command with the
\* same reference: an owner whose journal does not end in "verified" must then
\* still be repairable, or no rotation of the live credential is ever accepted.
\* Rerunning deliver repairs it only while the owner's generation is active.
OwnerStaysUsable ==
    \A t \in Targets :
        (active[t] # None /\ targetLock[t] = None /\ Readable(active[t])) =>
            LET owner == plan[active[t]].owner
            IN  \/ active[t] = owner
                \/ journal[owner].torn
                \/ journal[owner].last = "verified"

\* What no rerun repairs, because the tool stops rather than overwrite: files a
\* process was ended in, a moved container, someone else's change of the server,
\* an expired certificate, another operation in the way.
Obstructed(o) ==
    /\ plan[o] # None
    /\ opLock[o] = None
    /\ \/ journal[o].torn
       \/ \E name \in DOMAIN artifact[o] : artifact[o][name] = "torn"
       \/ generation[o] \in {"partial", "expired"}
       \/ version[o] = "partial"
       \/ plan[o].epoch # epoch[plan[o].target]
       \/ db[plan[o].target].rev # plan[o].before.rev
       \/ db[plan[o].target].owner \notin {None, plan[o].owner}
       \/ db[plan[o].target].stage # "ready" /\ artifact[plan[o].owner].applied # "absent"
       \/ ~NotSuperseded(o, plan[o].target)

\* A prepared provision reaches "verified" by rerunning its commands, unless
\* something stands in its way that the tool refuses to touch: no order of
\* interruptions and reruns leaves it stuck otherwise.
ProvisionCompletes ==
    \A o \in Ops :
        (plan[o] # None /\ Readable(o) /\ plan[o].intent = "provision") ~>
            ("verified" \in journal[o].phases \/ Obstructed(o))

\* The same of a prepared rotation.  It also depends on its owner's journal.
RotationCompletes ==
    \A o \in Ops :
        (plan[o] # None /\ Readable(o) /\ plan[o].intent = "rotate") ~>
            (\/ "verified" \in journal[o].phases
             \/ Obstructed(o)
             \/ plan[o] # None /\ journal[plan[o].owner].last # "verified")

\* The servers of the coordinator, each one by itself.
Server(t) == INSTANCE ReaderServer
    WITH owner <- db[t].owner, stage <- db[t].stage, Withdrawals <- FALSE

\* What the commands do to the servers, together and interrupted anywhere, is what
\* database administration does to one as long as nobody takes rules out: DbAdmin
\* implements the same server (its ImplementsReader).
ImplementsServers ==
    /\ \A t \in Targets : Server(t)!ServerInit
    /\ [][\A t \in Targets : [Server(t)!ServerNext]_<<db[t].owner, db[t].stage>>]_vars
=============================================================================
