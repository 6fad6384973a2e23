--------------------------- MODULE LifecycleProofs ---------------------------
(***************************************************************************)
(* Proofs about Lifecycle for every set of processes, operations and       *)
(* targets, every choice of faults and any number of restarts and edits.   *)
(*                                                                         *)
(* The first inductive invariant says who works on what: a running command *)
(* holds its locks (LockInv), a plan is there from the step that needs it  *)
(* and never changes (PlanInv), and a process on its way to publish has    *)
(* recorded "delivering" and seen the server it was tried on configured by *)
(* its owner (DeliveryInv).                                                *)
(*                                                                         *)
(* The second, from "Records" on, says what the journals, the artifacts    *)
(* and the active pointers say about each other: where a plan comes from   *)
(* (LineageInv, PrepareInv), what a recorded phase stands for              *)
(* (JournalInv), what a process has achieved when it is at a label         *)
(* (StepInv), and what a live credential rests on (LiveInv).               *)
(*                                                                         *)
(* The refinement of CredentialHistory (LifecycleHistory) needs a third:   *)
(* what a plan names was planned before it, so that there is a history to  *)
(* read (ChainInv).                                                        *)
(*                                                                         *)
(* The last two parts are about the owner of a live credential, which      *)
(* stays usable as long as replaced operations are left alone (OwnersInv), *)
(* and about the servers, each of which is a ReaderServer (ServersInv).    *)
(***************************************************************************)
EXTENDS LifecycleHistory, SequenceTheorems, WellFoundedInduction, TLAPS

\* The steps of a command that has an operation open.
WithOperation == Labels \ {"idle", "observe", "check", "create"}

\* The steps after the plan was read and compared with the binding.
Loaded == WithOperation \ {"write_plan", "record_prepared", "load"}

\* The steps of execute.
Executing == Loaded \cup {"load"}

\* The steps of _deliver_generation between its record and the pointer.
Publishing == {"store", "receipt", "record_verifying", "probe", "reprobe", "publish"}

LockInv ==
    \A p \in Procs : pc[p] # "idle" =>
        /\ cmd[p] \in Commands
        /\ at[p] \in Targets
        /\ targetLock[at[p]] = p
        /\ pc[p] \in Executing => cmd[p] \in {"issue", "apply", "deliver", "rotate"}
        /\ pc[p] \in WithOperation =>
             cur[p] \in Ops /\ cur[p] \in dirs /\ opLock[cur[p]] = p

PlanInv ==
    \A p \in Procs :
        /\ (pc[p] \in {"create", "write_plan"} /\ cmd[p] # "prepare") =>
             seen[p].previous \in Ops /\ plan[seen[p].previous] # None
        /\ pc[p] \in Loaded => plan[cur[p]] # None /\ plan[cur[p]].target = at[p]

DeliveryInv ==
    \A p \in Procs :
        /\ pc[p] \in Publishing => "delivering" \in journal[cur[p]].phases
        /\ pc[p] = "publish" => artifact[plan[cur[p]].owner].applied = "saved"

IInv == TypeOK /\ LockInv /\ PlanInv /\ DeliveryInv

\* A null is no record.
LEMMA PlanTyped ==
    ASSUME TypeOK, NEW o \in Ops, plan[o] # None
    PROVE  plan[o] \in Plan
  BY DEF TypeOK

LEMMA InitIInv == Init => IInv
<1> SUFFICES ASSUME Init PROVE IInv
  OBVIOUS
<1>1. CleanDatabase \in Database
  BY LifecycleAssumption DEF CleanDatabase, Database
<1>2. EmptyJournal \in Journal /\ NoArtifacts \in Artifacts
  BY DEF EmptyJournal, Journal, NoArtifacts, Artifacts, FileState
<1>3. NothingSeen \in [epoch : 0 .. MaxEpoch, before : Database, previous : Ops \cup {None}]
  BY <1>1, LifecycleAssumption DEF NothingSeen
<1>4. TypeOK
  BY <1>1, <1>2, <1>3, LifecycleAssumption DEF Init, TypeOK, Labels
<1>5. LockInv /\ PlanInv /\ DeliveryInv
  BY DEF Init, LockInv, PlanInv, DeliveryInv, Loaded, Publishing, WithOperation
<1> QED
  BY <1>4, <1>5 DEF IInv

\* No two processes have the same operation open.
LEMMA Exclusive ==
    ASSUME LockInv, NEW p \in Procs, NEW q \in Procs,
           pc[p] \in WithOperation, pc[q] \in WithOperation, cur[p] = cur[q]
    PROVE  p = q
  BY DEF LockInv, WithOperation

-----------------------------------------------------------------------------
(* What the steps have in common *)

\* The part of the type invariant about files and servers.
StateTyped ==
    /\ dirs \subseteq Ops
    /\ plan \in [Ops -> Plan \cup {None}]
    /\ journal \in [Ops -> Journal]
    /\ artifact \in [Ops -> Artifacts]
    /\ generation \in [Ops -> {"absent", "partial", "complete", "expired"}]
    /\ version \in [Ops -> {"absent", "partial", "complete"}]
    /\ active \in [Targets -> Ops \cup {None}]
    /\ db \in [Targets -> Database]
    /\ epoch \in [Targets -> 0 .. MaxEpoch]

\* Plans stay as they are, and neither a phase nor a saved artifact is lost.
Grows ==
    /\ UNCHANGED <<dirs, plan>>
    /\ \A o \in Ops : journal[o].phases \subseteq journal'[o].phases
    /\ \A o \in Ops : artifact[o].applied = "saved" => artifact'[o].applied = "saved"

\* The owner a plan names is an operation.
LEMMA OwnerIsOp ==
    ASSUME IInv, NEW p \in Procs, pc[p] \in Loaded
    PROVE  cur[p] \in Ops /\ plan[cur[p]] \in Plan /\ plan[cur[p]].owner \in Ops
<1>1. cur[p] \in Ops /\ plan[cur[p]] # None
  BY DEF IInv, LockInv, PlanInv, Loaded, WithOperation
<1>2. plan[cur[p]] \in Plan
  BY <1>1, PlanTyped DEF IInv
<1> QED
  BY <1>1, <1>2 DEF Plan

\* A step that ends a command, and may write something first.
LEMMA EndKeeps ==
    ASSUME IInv, NEW p \in Procs, End(p), Grows, StateTyped'
    PROVE  IInv'
<1> USE LifecycleAssumption DEF IInv, End, Grows
<1>1. NothingSeen \in [epoch : 0 .. MaxEpoch, before : Database, previous : Ops \cup {None}]
  BY DEF NothingSeen, CleanDatabase, Database
<1>2. TypeOK'
  BY <1>1 DEF TypeOK, StateTyped, Labels
<1>3. LockInv'
  BY DEF TypeOK, LockInv, Executing, Loaded, WithOperation, Labels
<1>4. PlanInv'
  BY DEF TypeOK, PlanInv, WithOperation, Loaded, Labels
<1>5. DeliveryInv'
  <2> SUFFICES ASSUME NEW q \in Procs, q # p, pc[q] \in Publishing
               PROVE  /\ "delivering" \in journal'[cur[q]].phases
                      /\ pc[q] = "publish" => artifact'[plan[cur[q]].owner].applied = "saved"
    BY DEF TypeOK, DeliveryInv, Publishing
  <2>1. cur[q] \in Ops /\ plan[cur[q]].owner \in Ops
    BY OwnerIsOp DEF Publishing, Loaded, WithOperation, Labels
  <2> QED
    BY <2>1 DEF DeliveryInv
<1> QED
  BY <1>2, <1>3, <1>4, <1>5

\* A step that goes on under the same locks, with what its next label claims.
LEMMA GotoKeeps ==
    ASSUME IInv, NEW p \in Procs, NEW label \in Loaded, pc[p] \in Executing,
           Goto(p, label), Grows, StateTyped',
           plan[cur[p]] # None /\ plan[cur[p]].target = at[p],
           label \in Publishing => "delivering" \in journal'[cur[p]].phases,
           label = "publish" => artifact'[plan[cur[p]].owner].applied = "saved"
    PROVE  IInv'
<1> USE LifecycleAssumption DEF IInv, Goto, Grows
<1>1. TypeOK'
  BY DEF TypeOK, StateTyped, Loaded, WithOperation
<1>2. LockInv'
  BY DEF TypeOK, LockInv, Executing, Loaded, WithOperation, Labels
<1>3. PlanInv'
  BY DEF TypeOK, PlanInv, WithOperation, Loaded, Labels
<1>4. DeliveryInv'
  <2> SUFFICES ASSUME NEW q \in Procs, pc'[q] \in Publishing
               PROVE  /\ "delivering" \in journal'[cur[q]].phases
                      /\ pc'[q] = "publish" => artifact'[plan[cur[q]].owner].applied = "saved"
    BY DEF DeliveryInv, Publishing
  <2>1. CASE q = p
    BY <2>1 DEF TypeOK
  <2>2. CASE q # p
    <3>1. pc'[q] = pc[q]
      BY <2>2 DEF TypeOK
    <3>2. cur[q] \in Ops /\ plan[cur[q]].owner \in Ops
      BY <3>1, OwnerIsOp DEF Publishing, Loaded, WithOperation, Labels
    <3> QED
      BY <3>1, <3>2 DEF DeliveryInv
  <2> QED
    BY <2>1, <2>2
<1> QED
  BY <1>1, <1>2, <1>3, <1>4

\* A step of the world: no command moves.
LEMMA WorldKeeps ==
    ASSUME IInv, UNCHANGED procVars, Grows, StateTyped'
    PROVE  IInv'
<1> USE DEF IInv, procVars, Grows
<1>1. TypeOK'
  BY DEF TypeOK, StateTyped
<1>2. LockInv' /\ PlanInv'
  BY DEF LockInv, PlanInv
<1>3. DeliveryInv'
  <2> SUFFICES ASSUME NEW q \in Procs, pc[q] \in Publishing
               PROVE  /\ "delivering" \in journal'[cur[q]].phases
                      /\ pc[q] = "publish" => artifact'[plan[cur[q]].owner].applied = "saved"
    BY DEF DeliveryInv, Publishing
  <2>1. cur[q] \in Ops /\ plan[cur[q]].owner \in Ops
    BY OwnerIsOp DEF Publishing, Loaded, WithOperation, Labels
  <2> QED
    BY <2>1 DEF DeliveryInv
<1> QED
  BY <1>1, <1>2, <1>3

\* Recording a phase keeps what was recorded.
LEMMA RecordGrows ==
    ASSUME IInv, NEW o \in Ops, NEW phase \in Phases, Record(o, phase)
    PROVE  Grows /\ StateTyped' /\ phase \in journal'[o].phases
<1>1. [phases |-> journal[o].phases \cup {phase}, last |-> phase, torn |-> FALSE] \in Journal
  BY DEF IInv, TypeOK, Journal
<1> QED
  BY <1>1 DEF IInv, TypeOK, Record, Grows, StateTyped

\* So does saving an artifact.
LEMMA SaveGrows ==
    ASSUME IInv, NEW o \in Ops, NEW name \in {"issuance", "applied", "delivery"}, Save(o, name)
    PROVE  Grows /\ StateTyped'
<1>1. artifact[o] \in Artifacts
  BY DEF IInv, TypeOK
<1>2. [artifact[o] EXCEPT ![name] = "saved"] \in Artifacts
  BY <1>1 DEF Artifacts, FileState
<1>3. artifact' = [artifact EXCEPT ![o] = [artifact[o] EXCEPT ![name] = "saved"]]
  BY DEF Save
<1>4. [artifact[o] EXCEPT ![name] = "saved"].applied \in {artifact[o].applied, "saved"}
  BY <1>1 DEF Artifacts
<1> QED
  BY <1>2, <1>3, <1>4 DEF IInv, TypeOK, Save, Grows, StateTyped

\* Reading changes nothing.
LEMMA ReadGrows ==
    ASSUME IInv, OnlyReads
    PROVE  Grows /\ StateTyped'
  BY DEF IInv, TypeOK, OnlyReads, stateVars, Grows, StateTyped

-----------------------------------------------------------------------------
(* The steps of a process *)

LEMMA PassIInv ==
    ASSUME IInv, NEW p \in Procs, Pass(p)
    PROVE  IInv'
<1>1. pc[p] \in {"check", "load", "snapshot", "applied", "probe", "reprobe", "target"}
  BY DEF Pass, Passed
<1>2. Grows /\ StateTyped'
  BY ReadGrows DEF Pass
<1>3. CASE pc[p] = "check"
  <2>1. Permitted(p) /\ Goto(p, "create")
    BY <1>3 DEF Pass, Passed
  <2>2. cmd[p] # "prepare" =>
          seen[p].previous \in Ops /\ plan[seen[p].previous] # None
    <3>1. seen[p].previous \in Ops \cup {None}
      BY DEF IInv, TypeOK
    <3>2. cmd[p] # "prepare" => Predecessor(seen[p].previous, at[p])
      BY <1>3, <2>1 DEF Permitted
    <3> QED
      BY <3>1, <3>2 DEF Predecessor, LoadPlan
  <2>3. TypeOK'
    BY <2>1, <1>2 DEF IInv, TypeOK, StateTyped, Goto, Labels
  <2>4. LockInv'
    BY <1>3, <2>1, <1>2 DEF IInv, TypeOK, LockInv, Goto, Grows, Executing, Loaded, WithOperation, Labels
  <2>5. PlanInv'
    BY <1>3, <2>1, <2>2, <1>2 DEF IInv, TypeOK, PlanInv, Goto, Grows, Loaded, WithOperation, Labels
  <2>6. DeliveryInv'
    BY <1>3, <2>1 DEF IInv, TypeOK, DeliveryInv, Goto, Publishing, Pass, OnlyReads, stateVars
  <2> QED
    BY <2>3, <2>4, <2>5, <2>6 DEF IInv
<1>4. CASE pc[p] = "load"
  <2>1. Goto(p, "begin") /\ plan[cur[p]] # None /\ plan[cur[p]].target = at[p]
    BY <1>4 DEF Pass, Passed, Permitted, LoadPlan
  <2> QED
    BY <1>2, <1>4, <2>1, GotoKeeps DEF Executing, Loaded, WithOperation, Labels, Publishing
<1>5. CASE pc[p] = "snapshot"
  <2>1. Goto(p, "issuer") /\ plan[cur[p]] # None /\ plan[cur[p]].target = at[p]
    BY <1>5 DEF Pass, Passed, IInv, PlanInv, Loaded, WithOperation, Labels
  <2> QED
    BY <1>2, <1>5, <2>1, GotoKeeps DEF Executing, Loaded, WithOperation, Labels, Publishing
<1>6. CASE pc[p] = "applied"
  <2>1. Goto(p, "target") /\ plan[cur[p]] # None /\ plan[cur[p]].target = at[p]
    BY <1>6 DEF Pass, Passed, IInv, PlanInv, Loaded, WithOperation, Labels
  <2> QED
    BY <1>2, <1>6, <2>1, GotoKeeps DEF Executing, Loaded, WithOperation, Labels, Publishing
<1>7. CASE pc[p] = "probe"
  <2>1. Goto(p, "reprobe") /\ plan[cur[p]] # None /\ plan[cur[p]].target = at[p]
    BY <1>7 DEF Pass, Passed, IInv, PlanInv, Loaded, WithOperation, Labels
  <2>2. "delivering" \in journal'[cur[p]].phases
    BY <1>7 DEF Pass, OnlyReads, stateVars, IInv, DeliveryInv, Publishing
  <2> QED
    BY <1>2, <1>7, <2>1, <2>2, GotoKeeps DEF Executing, Loaded, WithOperation, Labels
<1>8. CASE pc[p] = "reprobe"
  <2>1. Goto(p, "publish") /\ plan[cur[p]] # None /\ plan[cur[p]].target = at[p]
    BY <1>8 DEF Pass, Passed, IInv, PlanInv, Loaded, WithOperation, Labels
  <2>2. "delivering" \in journal'[cur[p]].phases
    BY <1>8 DEF Pass, OnlyReads, stateVars, IInv, DeliveryInv, Publishing
  <2>3. artifact'[plan[cur[p]].owner].applied = "saved"
    BY <1>8 DEF Pass, Permitted, VerifyApplied, OnlyReads, stateVars
  <2> QED
    BY <1>2, <1>8, <2>1, <2>2, <2>3, GotoKeeps DEF Executing, Loaded, WithOperation, Labels
<1>9. CASE pc[p] = "target"
  <2>1. Goto(p, "finish") /\ plan[cur[p]] # None /\ plan[cur[p]].target = at[p]
    BY <1>9 DEF Pass, Passed, IInv, PlanInv, Loaded, WithOperation, Labels
  <2> QED
    BY <1>2, <1>9, <2>1, GotoKeeps DEF Executing, Loaded, WithOperation, Labels, Publishing
<1> QED
  BY <1>1, <1>3, <1>4, <1>5, <1>6, <1>7, <1>8, <1>9

LEMMA RecordProgressIInv ==
    ASSUME IInv, NEW p \in Procs, RecordProgress(p)
    PROVE  IInv'
<1>1. pc[p] \in {"record_issued", "record_delivering", "record_verifying", "record_delivered"}
  BY DEF RecordProgress, Recorded
<1>2. /\ cur[p] \in Ops
      /\ plan[cur[p]] # None
      /\ plan[cur[p]].target = at[p]
  BY <1>1 DEF IInv, LockInv, PlanInv, Loaded, WithOperation, Labels
<1>3. CASE pc[p] = "record_issued"
  <2>1. Record(cur[p], "issued") /\ Goto(p, "verify_applied")
    BY <1>3 DEF RecordProgress, Recorded
  <2>2. Grows /\ StateTyped'
    BY <1>2, <2>1, RecordGrows DEF Phases
  <2> QED
    BY <1>2, <1>3, <2>1, <2>2, GotoKeeps DEF Executing, Loaded, WithOperation, Labels, Publishing
<1>4. CASE pc[p] = "record_delivering"
  <2>1. Record(cur[p], "delivering") /\ Goto(p, "store")
    BY <1>4 DEF RecordProgress, Recorded
  <2>2. Grows /\ StateTyped' /\ "delivering" \in journal'[cur[p]].phases
    BY <1>2, <2>1, RecordGrows DEF Phases
  <2> QED
    BY <1>2, <1>4, <2>1, <2>2, GotoKeeps DEF Executing, Loaded, WithOperation, Labels
<1>5. CASE pc[p] = "record_verifying"
  <2>1. Record(cur[p], "verifying") /\ Goto(p, "probe")
    BY <1>5 DEF RecordProgress, Recorded
  <2>2. Grows /\ StateTyped'
    BY <1>2, <2>1, RecordGrows DEF Phases
  <2>3. "delivering" \in journal'[cur[p]].phases
    BY <1>2, <1>5, <2>2 DEF IInv, DeliveryInv, Publishing, Grows
  <2> QED
    BY <1>2, <1>5, <2>1, <2>2, <2>3, GotoKeeps DEF Executing, Loaded, WithOperation, Labels
<1>6. CASE pc[p] = "record_delivered"
  <2>1. Record(cur[p], "delivered") /\ Goto(p, "target")
    BY <1>6 DEF RecordProgress, Recorded
  <2>2. Grows /\ StateTyped'
    BY <1>2, <2>1, RecordGrows DEF Phases
  <2> QED
    BY <1>2, <1>6, <2>1, <2>2, GotoKeeps DEF Executing, Loaded, WithOperation, Labels, Publishing
<1> QED
  BY <1>1, <1>3, <1>4, <1>5, <1>6

LEMMA FinishIInv ==
    ASSUME IInv, NEW p \in Procs, Finish(p) \/ RecordPrepared(p)
    PROVE  IInv'
<1>1. cur[p] \in Ops
  BY DEF Finish, RecordPrepared, Step, IInv, LockInv, WithOperation, Labels
<1>2. CASE Finish(p)
  <2>1. LastPhase(cmd[p]) \in Phases
    <3>1. cmd[p] \in {"issue", "apply", "deliver", "rotate"}
      BY <1>2 DEF Finish, Step, IInv, LockInv, Executing, Loaded, WithOperation, Labels
    <3> QED
      BY <3>1 DEF LastPhase, Phases
  <2> QED
    BY <1>1, <1>2, <2>1, RecordGrows, EndKeeps DEF Finish
<1>3. CASE RecordPrepared(p)
  BY <1>1, <1>3, RecordGrows, EndKeeps DEF RecordPrepared, Phases
<1> QED
  BY <1>2, <1>3

LEMMA PrepareIInv ==
    ASSUME IInv, NEW p \in Procs,
           \/ \E c \in Commands, t \in Targets : StartPrepare(p, c, t)
           \/ Observe(p)
           \/ \E o \in Ops : CreateOperation(p, o)
    PROVE  IInv'
<1> USE LifecycleAssumption
<1>1. ASSUME NEW c \in Commands, NEW t \in Targets, StartPrepare(p, c, t) PROVE IInv'
  <2> USE <1>1 DEF StartPrepare, OnlyReads, stateVars, IInv
  <2>1. TypeOK'
    BY DEF TypeOK, Labels
  <2>2. LockInv'
    BY DEF TypeOK, LockInv, Executing, Loaded, WithOperation, Labels
  <2>3. PlanInv' /\ DeliveryInv'
    BY DEF TypeOK, PlanInv, DeliveryInv, Loaded, WithOperation, Labels, Publishing
  <2> QED
    BY <2>1, <2>2, <2>3
<1>2. ASSUME Observe(p) PROVE IInv'
  <2> USE <1>2 DEF Observe, Step, OnlyReads, stateVars, IInv
  <2>1. at[p] \in Targets
    BY DEF LockInv
  <2>2. TypeOK'
    BY <2>1 DEF TypeOK, Labels
  <2>3. LockInv'
    BY DEF TypeOK, LockInv, Executing, Loaded, WithOperation, Labels
  <2>4. PlanInv' /\ DeliveryInv'
    BY DEF TypeOK, PlanInv, DeliveryInv, Loaded, WithOperation, Labels, Publishing
  <2> QED
    BY <2>2, <2>3, <2>4
<1>3. ASSUME NEW o \in Ops, CreateOperation(p, o) PROVE IInv'
  <2> USE <1>3 DEF CreateOperation, Step, IInv
  <2>1. TypeOK'
    BY DEF TypeOK, Labels
  <2>2. LockInv'
    BY DEF TypeOK, LockInv, Executing, Loaded, WithOperation, Labels
  <2>3. PlanInv' /\ DeliveryInv'
    BY DEF TypeOK, PlanInv, DeliveryInv, Loaded, WithOperation, Labels, Publishing
  <2> QED
    BY <2>1, <2>2, <2>3
<1> QED
  BY <1>1, <1>2, <1>3

\* What prepare writes is a plan.
NewPlan(p) == [target |-> at[p], intent |-> IntentOf(cmd[p]), epoch |-> seen[p].epoch,
               before |-> seen[p].before, previous |-> seen[p].previous,
               owner |-> PlannedOwner(p)]

LEMMA NewPlanTyped ==
    ASSUME IInv, NEW p \in Procs, pc[p] = "write_plan"
    PROVE  cur[p] \in Ops /\ at[p] \in Targets /\ NewPlan(p) \in Plan /\ NewPlan(p) # None
<1> USE LifecycleAssumption DEF IInv
<1>1. cur[p] \in Ops /\ at[p] \in Targets
  BY DEF LockInv, WithOperation, Labels
<1>2. PlannedOwner(p) \in Ops
  <2>1. CASE cmd[p] = "prepare"
    BY <2>1, <1>1 DEF PlannedOwner
  <2>2. CASE cmd[p] # "prepare"
    <3>1. seen[p].previous \in Ops /\ plan[seen[p].previous] # None
      BY <2>2 DEF PlanInv
    <3>2. plan[seen[p].previous] \in Plan
      BY <3>1, PlanTyped
    <3> QED
      BY <2>2, <3>2 DEF PlannedOwner, Plan
  <2> QED
    BY <2>1, <2>2
<1>3. NewPlan(p) \in Plan
  BY <1>1, <1>2 DEF NewPlan, TypeOK, Plan, IntentOf, Intents
<1> QED
  BY <1>1, <1>3, NoPlanAssumption

\* A plan is written by the process that made its operation, once.
LEMMA WritePlanIInv ==
    ASSUME IInv, NEW p \in Procs, WritePlan(p)
    PROVE  IInv'
<1> DEFINE o == cur[p]
           new == NewPlan(p)
<1> USE LifecycleAssumption DEF IInv
<1>1. /\ pc[p] = "write_plan"
      /\ plan' = [plan EXCEPT ![o] = new]
      /\ pc' = [pc EXCEPT ![p] = "record_prepared"]
      /\ UNCHANGED <<cmd, cur, at, seen, delivering, targetLock, opLock, dirs, journal,
                     artifact, generation, version, active, db, epoch>>
  BY DEF WritePlan, Step, Goto, NewPlan
<1>2. o \in Ops /\ at[p] \in Targets /\ new \in Plan /\ new # None
  BY <1>1, NewPlanTyped
<1>3. \A q \in Procs \ {p} : pc[q] \in WithOperation => cur[q] # o
  BY <1>1, Exclusive DEF WithOperation, Labels
<1> HIDE DEF o, new
<1>4. TypeOK'
  BY <1>1, <1>2 DEF TypeOK, Labels
<1>5. LockInv'
  BY <1>1 DEF TypeOK, LockInv, Executing, Loaded, WithOperation, Labels
<1>6. PlanInv'
  BY <1>1, <1>2, <1>3 DEF TypeOK, PlanInv, Loaded, WithOperation, Labels
<1>7. DeliveryInv'
  <2>1. pc'[p] \notin Publishing /\ pc'[p] # "publish"
    BY <1>1 DEF TypeOK, Publishing
  <2>2. ASSUME NEW q \in Procs \ {p}, pc'[q] \in Publishing
        PROVE  /\ "delivering" \in journal'[cur'[q]].phases
               /\ pc'[q] = "publish" => artifact'[plan'[cur'[q]].owner].applied = "saved"
    <3>1. pc'[q] = pc[q] /\ cur'[q] = cur[q]
      BY <1>1 DEF TypeOK
    <3>2. pc[q] \in WithOperation
      BY <2>2, <3>1 DEF Publishing, WithOperation, Labels
    <3>3. plan'[cur[q]] = plan[cur[q]]
      BY <1>1, <1>3, <3>2 DEF TypeOK, LockInv
    <3> QED
      BY <1>1, <2>2, <3>1, <3>3 DEF DeliveryInv
  <2>3. "publish" \in Publishing
    BY DEF Publishing
  <2> QED
    BY <2>1, <2>2, <2>3 DEF DeliveryInv
<1> QED
  BY <1>4, <1>5, <1>6, <1>7

LEMMA StartExecuteIInv ==
    ASSUME IInv, NEW p \in Procs, NEW c \in Commands, NEW o \in Ops, NEW t \in Targets,
           StartExecute(p, c, o, t)
    PROVE  IInv'
<1> USE LifecycleAssumption DEF StartExecute, OnlyReads, stateVars, IInv
<1>1. TypeOK'
  BY DEF TypeOK, Labels
<1>2. LockInv'
  BY DEF TypeOK, LockInv, Executing, Loaded, WithOperation, Labels
<1>3. PlanInv' /\ DeliveryInv'
  BY DEF TypeOK, PlanInv, DeliveryInv, Loaded, WithOperation, Labels, Publishing
<1> QED
  BY <1>1, <1>2, <1>3

LEMMA BeginIInv ==
    ASSUME IInv, NEW p \in Procs, Begin(p)
    PROVE  IInv'
<1>1. /\ pc[p] = "begin"
      /\ cur[p] \in Ops
      /\ cmd[p] \in {"issue", "apply", "deliver", "rotate"}
      /\ plan[cur[p]] # None /\ plan[cur[p]].target = at[p]
  BY DEF Begin, Step, IInv, LockInv, PlanInv, Executing, Loaded, WithOperation, Labels
<1>2. Grows /\ StateTyped'
  <2>1. StartPhase(cmd[p]) \in Phases
    BY <1>1 DEF StartPhase, Phases
  <2> QED
    BY <1>1, <2>1, RecordGrows DEF Begin
<1>3. PICK label \in {"snapshot", "issuer", "verify_applied", "role", "applied"} : Goto(p, label)
  BY <1>1 DEF Begin
<1> QED
  BY <1>1, <1>2, <1>3, GotoKeeps DEF Executing, Loaded, WithOperation, Labels, Publishing

\* The issuer writes a generation and nothing else.
LEMMA IssueIInv ==
    ASSUME IInv, NEW p \in Procs,
           ReuseGeneration(p) \/ StartGeneration(p) \/ CompleteGeneration(p) \/ SaveIssuance(p)
    PROVE  IInv'
<1>1. /\ pc[p] \in {"issuer", "generate", "save_issuance"}
      /\ cur[p] \in Ops
      /\ plan[cur[p]] # None /\ plan[cur[p]].target = at[p]
  BY DEF ReuseGeneration, StartGeneration, CompleteGeneration, SaveIssuance, Step,
     IInv, LockInv, PlanInv, Loaded, WithOperation, Labels
<1>2. Grows /\ StateTyped'
  <2>1. CASE ReuseGeneration(p)
    BY <2>1, ReadGrows DEF ReuseGeneration
  <2>2. CASE StartGeneration(p) \/ CompleteGeneration(p)
    BY <2>2, <1>1 DEF StartGeneration, CompleteGeneration, IInv, TypeOK, stateVars, Grows, StateTyped
  <2>3. CASE SaveIssuance(p)
    BY <2>3, <1>1, SaveGrows DEF SaveIssuance
  <2> QED
    BY <2>1, <2>2, <2>3
<1>3. PICK label \in {"generate", "save_issuance", "target", "record_delivering", "record_issued"} :
        Goto(p, label)
  BY DEF ReuseGeneration, StartGeneration, CompleteGeneration, SaveIssuance
<1> QED
  BY <1>1, <1>2, <1>3, GotoKeeps DEF Executing, Loaded, WithOperation, Labels, Publishing

\* apply changes the server, then saves its artifact.
LEMMA ApplyIInv ==
    ASSUME IInv, NEW p \in Procs, ApplyStep(p)
    PROVE  IInv'
<1>1. /\ pc[p] \in {"role", "files", "login", "save_applied"}
      /\ cur[p] \in Ops /\ at[p] \in Targets
      /\ plan[cur[p]] # None /\ plan[cur[p]].target = at[p]
  BY DEF ApplyStep, CloseRole, InstallFiles, EnableRole, SaveApplied, Step,
     IInv, LockInv, PlanInv, Loaded, WithOperation, Labels
<1>2. Grows /\ StateTyped'
  <2>1. CASE CloseRole(p) \/ InstallFiles(p) \/ EnableRole(p)
    <3>1. db' \in [Targets -> Database]
      <4>1. db \in [Targets -> Database] /\ db[at[p]] \in Database
        BY <1>1 DEF IInv, TypeOK
      <4>2. CASE CloseRole(p)
        BY <4>1, <4>2, <1>1 DEF CloseRole, Closed, Database
      <4>3. CASE InstallFiles(p)
        BY <4>1, <4>3, <1>1 DEF InstallFiles, Database
      <4>4. CASE EnableRole(p)
        BY <4>1, <4>4, <1>1 DEF EnableRole, Database
      <4> QED
        BY <2>1, <4>2, <4>3, <4>4
    <3> QED
      BY <2>1, <3>1 DEF CloseRole, InstallFiles, EnableRole, IInv, TypeOK, stateVars, Grows, StateTyped
  <2>2. CASE SaveApplied(p)
    BY <2>2, <1>1, SaveGrows DEF SaveApplied
  <2> QED
    BY <2>1, <2>2 DEF ApplyStep
<1>3. PICK label \in {"files", "login", "save_applied", "applied"} : Goto(p, label)
  BY DEF ApplyStep, CloseRole, InstallFiles, EnableRole, SaveApplied
<1> QED
  BY <1>1, <1>2, <1>3, GotoKeeps DEF Executing, Loaded, WithOperation, Labels, Publishing

\* _deliver_generation keeps what it recorded before it touched the store.
LEMMA DeliverIInv ==
    ASSUME IInv, NEW p \in Procs, DeliverStep(p)
    PROVE  IInv'
<1> USE LifecycleAssumption
<1>1. CASE EnterDelivery(p)
  <2> USE <1>1 DEF EnterDelivery, Step, OnlyReads, stateVars, IInv
  <2>1. TypeOK'
    BY DEF TypeOK, Labels
  <2>2. LockInv'
    BY DEF TypeOK, LockInv, Executing, Loaded, WithOperation, Labels
  <2>3. PlanInv' /\ DeliveryInv'
    BY DEF TypeOK, PlanInv, DeliveryInv, Loaded, WithOperation, Labels, Publishing
  <2> QED
    BY <2>1, <2>2, <2>3
<1>2. CASE ReuseVersion(p) \/ StartVersion(p) \/ WriteReceipt(p)
  <2>1. /\ pc[p] \in {"store", "receipt"}
        /\ cur[p] \in Ops
        /\ plan[cur[p]] # None /\ plan[cur[p]].target = at[p]
        /\ "delivering" \in journal[cur[p]].phases
    BY <1>2 DEF ReuseVersion, StartVersion, WriteReceipt, Step, IInv, LockInv, PlanInv,
       DeliveryInv, Loaded, WithOperation, Labels, Publishing
  <2>2. Grows /\ StateTyped' /\ journal' = journal
    BY <1>2, <2>1 DEF ReuseVersion, StartVersion, WriteReceipt, OnlyReads, IInv, TypeOK,
       stateVars, Grows, StateTyped
  <2>3. PICK label \in {"record_verifying", "receipt"} : Goto(p, label)
    BY <1>2 DEF ReuseVersion, StartVersion, WriteReceipt
  <2> QED
    BY <2>1, <2>2, <2>3, GotoKeeps DEF Executing, Loaded, WithOperation, Labels
<1>3. CASE Publish(p) \/ SaveDelivery(p)
  <2>1. /\ pc[p] \in {"publish", "save_delivery"}
        /\ cur[p] \in Ops /\ at[p] \in Targets
        /\ plan[cur[p]] # None /\ plan[cur[p]].target = at[p]
    BY <1>3 DEF Publish, SaveDelivery, Step, IInv, LockInv, PlanInv, Loaded, WithOperation, Labels
  <2>2. Grows /\ StateTyped'
    <3>1. CASE Publish(p)
      BY <3>1, <2>1 DEF Publish, IInv, TypeOK, stateVars, Grows, StateTyped
    <3>2. CASE SaveDelivery(p)
      BY <3>2, <2>1, SaveGrows DEF SaveDelivery
    <3> QED
      BY <1>3, <3>1, <3>2
  <2>3. PICK label \in {"save_delivery", "record_delivered"} : Goto(p, label)
    BY <1>3 DEF Publish, SaveDelivery
  <2> QED
    BY <2>1, <2>2, <2>3, GotoKeeps DEF Executing, Loaded, WithOperation, Labels, Publishing
<1> QED
  BY <1>1, <1>2, <1>3 DEF DeliverStep

\* A command that does not get to its end.
LEMMA HaltIInv ==
    ASSUME IInv, NEW p \in Procs, Halt(p)
    PROVE  IInv'
<1>1. CASE Refuse(p) \/ Stop(p)
  BY <1>1, ReadGrows, EndKeeps DEF Refuse, Stop
<1>2. CASE TearJournal(p)
  <2>1. cur[p] \in Ops
    BY <1>2 DEF TearJournal, RecordLabels, Recorded, IInv, LockInv, WithOperation, Labels
  <2>2. [journal[cur[p]] EXCEPT !.torn = TRUE] \in Journal
    <3>1. journal[cur[p]] \in Journal
      BY <2>1 DEF IInv, TypeOK
    <3> QED
      BY <3>1 DEF Journal
  <2>3. journal' = [journal EXCEPT ![cur[p]] = [journal[cur[p]] EXCEPT !.torn = TRUE]]
    BY <1>2 DEF TearJournal
  <2>4. [journal[cur[p]] EXCEPT !.torn = TRUE].phases = journal[cur[p]].phases
    BY <2>1 DEF IInv, TypeOK, Journal
  <2>5. Grows /\ StateTyped'
    BY <1>2, <2>1, <2>2, <2>3, <2>4 DEF TearJournal, IInv, TypeOK, Grows, StateTyped
  <2> QED
    BY <1>2, <2>5, EndKeeps DEF TearJournal
<1>3. CASE TearArtifact(p)
  <2>1. PICK name \in {"issuance", "applied", "delivery"} :
           /\ artifact[cur[p]][name] = "absent"
           /\ artifact' = [artifact EXCEPT ![cur[p]][name] = "torn"]
    <3>1. SavedAt[pc[p]] \in {"issuance", "applied", "delivery"}
      BY <1>3 DEF TearArtifact, SavedAt
    <3> QED
      BY <1>3, <3>1 DEF TearArtifact
  <2>2. cur[p] \in Ops
    BY <1>3 DEF TearArtifact, SavedAt, IInv, LockInv, WithOperation, Labels
  <2>3. artifact[cur[p]] \in Artifacts
    BY <2>2 DEF IInv, TypeOK
  <2>4. [artifact[cur[p]] EXCEPT ![name] = "torn"] \in Artifacts
    BY <2>3 DEF Artifacts, FileState
  <2>5. artifact[cur[p]].applied = "saved" =>
          [artifact[cur[p]] EXCEPT ![name] = "torn"].applied = "saved"
    BY <2>1, <2>3 DEF Artifacts
  <2>6. artifact' = [artifact EXCEPT ![cur[p]] = [artifact[cur[p]] EXCEPT ![name] = "torn"]]
    BY <2>1
  <2>7. Grows /\ StateTyped'
    <3>1. UNCHANGED <<dirs, plan, journal, generation, version, active, db, epoch>>
      BY <1>3 DEF TearArtifact
    <3> QED
      BY <3>1, <2>2, <2>4, <2>5, <2>6 DEF IInv, TypeOK, Grows, StateTyped
  <2> QED
    BY <1>3, <2>7, EndKeeps DEF TearArtifact
<1> QED
  BY <1>1, <1>2, <1>3 DEF Halt

\* Restarts, edits, closed roles and expiring certificates move no command.
LEMMA WorldIInv ==
    ASSUME IInv, World
    PROVE  IInv'
<1> USE LifecycleAssumption
<1>1. ASSUME NEW t \in Targets, Restart(t) PROVE IInv'
  BY <1>1, WorldKeeps DEF Restart, IInv, TypeOK, Grows, StateTyped, stateVars
<1>2. ASSUME NEW t \in Targets, EditConfig(t) \/ LoseLogin(t) PROVE IInv'
  <2>1. db' \in [Targets -> Database]
    <3>1. db \in [Targets -> Database] /\ db[t] \in Database
      BY DEF IInv, TypeOK
    <3>2. CASE EditConfig(t)
      <4>1. [db[t] EXCEPT !.rev = @ + 1] \in Database
        BY <3>1, <3>2 DEF EditConfig, Database
      <4>2. db' = [db EXCEPT ![t] = [db[t] EXCEPT !.rev = @ + 1]]
        BY <3>2 DEF EditConfig
      <4> QED
        BY <3>1, <4>1, <4>2
    <3>3. CASE LoseLogin(t)
      BY <3>1, <3>3 DEF LoseLogin, Database
    <3> QED
      BY <1>2, <3>2, <3>3
  <2> QED
    BY <1>2, <2>1, WorldKeeps DEF EditConfig, LoseLogin, IInv, TypeOK, Grows, StateTyped, stateVars
<1>3. ASSUME NEW o \in Ops, Expire(o) PROVE IInv'
  BY <1>3, WorldKeeps DEF Expire, IInv, TypeOK, Grows, StateTyped, stateVars
<1> QED
  BY <1>1, <1>2, <1>3 DEF World

-----------------------------------------------------------------------------
\* Every step preserves the invariant.
LEMMA NextIInv == IInv /\ [Next]_vars => IInv'
<1> SUFFICES ASSUME IInv, [Next]_vars PROVE IInv'
  OBVIOUS
<1>1. ASSUME NEW p \in Procs, Start(p) PROVE IInv'
  BY <1>1, PrepareIInv, StartExecuteIInv DEF Start
<1>2. ASSUME NEW p \in Procs, Work(p) PROVE IInv'
  BY <1>2, PassIInv, RecordProgressIInv, FinishIInv, PrepareIInv, WritePlanIInv, BeginIInv,
     IssueIInv, ApplyIInv, DeliverIInv DEF Work, PrepareStep, IssueStep
<1>3. CASE UNCHANGED vars
  BY <1>3 DEF vars, IInv, TypeOK, LockInv, PlanInv, DeliveryInv
<1> QED
  BY <1>1, <1>2, <1>3, HaltIInv, WorldIInv DEF Next

\* The invariant holds in every reachable state.
THEOREM LifecycleInvariant == Spec => []IInv
  BY InitIInv, NextIInv, PTL DEF Spec

\* Every variable of the coordinator has its type.
THEOREM LifecycleTypeOK == Spec => []TypeOK
  BY LifecycleInvariant, PTL DEF IInv

\* The active pointer of a server moves only from the revision a plan for this
\* server was made on to that plan's generation, after its delivery was recorded
\* and its owner's configuration applied: for any number of commands, crashes,
\* restarts and edits.
THEOREM LifecycleActivationIsCompareAndSet == Spec => ActivationIsCompareAndSet
<1>1. IInv /\ [Next]_vars =>
        [\A t \in Targets : active'[t] # active[t] =>
           LET g == active'[t]
           IN  /\ g # None
               /\ plan[g].target = t
               /\ plan[g].previous = active[t]
               /\ "delivering" \in journal[g].phases
               /\ artifact[plan[g].owner].applied = "saved"]_vars
  <2> SUFFICES ASSUME IInv, Next, NEW t \in Targets, active'[t] # active[t]
               PROVE  LET g == active'[t]
                      IN  /\ g # None
                          /\ plan[g].target = t
                          /\ plan[g].previous = active[t]
                          /\ "delivering" \in journal[g].phases
                          /\ artifact[plan[g].owner].applied = "saved"
    BY DEF vars
  <2>1. PICK p \in Procs : Publish(p)
    <3>1. ASSUME NEW p \in Procs, Start(p) \/ Halt(p) PROVE active' = active
      BY <3>1 DEF Start, StartPrepare, StartExecute, Halt, Refuse, Stop, TearJournal,
         TearArtifact, OnlyReads, stateVars
    <3>2. ASSUME World PROVE active' = active
      BY <3>2 DEF World, Restart, EditConfig, LoseLogin, Expire
    <3>3. ASSUME NEW p \in Procs, Work(p), ~Publish(p) PROVE active' = active
      BY <3>3 DEF Work, Pass, RecordProgress, Finish, PrepareStep, Observe, CreateOperation,
         WritePlan, RecordPrepared, IssueStep, Begin, ReuseGeneration, StartGeneration,
         CompleteGeneration, SaveIssuance, ApplyStep, CloseRole, InstallFiles, EnableRole,
         SaveApplied, DeliverStep, EnterDelivery, ReuseVersion, StartVersion, WriteReceipt,
         SaveDelivery, Record, Save, OnlyReads, stateVars
    <3> QED
      BY <3>1, <3>2, <3>3 DEF Next
  <2>2. /\ pc[p] = "publish"
        /\ cur[p] \in Ops
        /\ active' = [active EXCEPT ![at[p]] = cur[p]]
        /\ NotSuperseded(cur[p], at[p])
    BY <2>1 DEF Publish, Step, Permitted, IInv, LockInv, WithOperation, Labels
  <2>3. at[p] = t /\ active'[t] = cur[p]
    BY <2>2 DEF IInv, TypeOK
  <2>4. plan[cur[p]].target = t
    BY <2>2, <2>3 DEF IInv, PlanInv, Loaded, WithOperation, Labels
  <2>5. plan[cur[p]].previous = active[t]
    BY <2>2, <2>3 DEF NotSuperseded
  <2> QED
    BY <2>2, <2>3, <2>4, <2>5, LifecycleAssumption DEF IInv, DeliveryInv, Publishing
<1> QED
  BY <1>1, LifecycleInvariant, PTL DEF Spec, ActivationIsCompareAndSet

-----------------------------------------------------------------------------
(* Records                                                                  *)

Issued(o) == artifact[o].issuance = "saved" /\ generation[o] \in {"complete", "expired"}

\* What _prepare_rotation checks of the revision it replaces and of its owner.
Inheritable(o, t) ==
    /\ o \in Ops
    /\ plan[o] # None
    /\ plan[o].target = t
    /\ plan[plan[o].owner] # None
    /\ plan[plan[o].owner].intent = "provision"
    /\ "verified" \in journal[plan[o].owner].phases

\* A provision owns itself; a rotation has the owner of what it replaces.
LineageInv ==
    \A o \in Ops : plan[o] # None =>
        /\ o \in dirs
        /\ plan[o].intent = "provision" => plan[o].owner = o
        /\ plan[o].intent = "rotate" =>
             /\ Inheritable(plan[o].previous, plan[o].target)
             /\ plan[o].owner = plan[plan[o].previous].owner

\* What a recorded phase stands for.
JournalInv ==
    \A o \in Ops :
        /\ journal[o].last # None => journal[o].last \in journal[o].phases
        /\ "issued" \in journal[o].phases => Issued(o)
        /\ "applied" \in journal[o].phases => artifact[o].applied = "saved"
        /\ "delivering" \in journal[o].phases =>
             plan[o] # None /\ "applied" \in journal[plan[o].owner].phases
        /\ "verifying" \in journal[o].phases => "delivering" \in journal[o].phases
        /\ "delivered" \in journal[o].phases =>
             /\ "delivering" \in journal[o].phases
             /\ artifact[o].delivery = "saved"
             /\ version[o] = "complete"
        /\ "verified" \in journal[o].phases => "delivered" \in journal[o].phases

\* prepare read what it plans with; nobody else writes the plan it is about to write.
Preparing == {"observe", "check", "create", "write_plan", "record_prepared"}

PrepareInv(p) ==
    /\ pc[p] \in Preparing => cmd[p] \in {"prepare", "prepare_rotation"}
    /\ (pc[p] \in {"create", "write_plan"} /\ cmd[p] = "prepare_rotation") =>
         Inheritable(seen[p].previous, at[p])
    /\ pc[p] = "write_plan" => plan[cur[p]] = None

\* The steps of each command.
Issuing   == {"issuer", "generate", "save_issuance"}
Changing  == {"role", "files", "login"}
Applying  == Changing \cup {"save_applied", "applied"}
Trying    == {"probe", "reprobe", "publish"}
Sealed    == Trying \cup {"record_verifying", "save_delivery", "record_delivered"}
Recording == Sealed \cup {"store", "receipt"}
Rolling   == Recording \cup {"record_issued", "verify_applied", "record_delivering"}
Ending    == {"target", "finish"}

\* What a command c on operation o and target t has achieved when it is at a label.
Achieved(label, c, o, t) ==
    /\ label \in Loaded => plan[o].intent = IntentOf(c)
    /\ label = "snapshot" => c = "issue"
    /\ label \in Issuing => c # "apply"
    /\ label \in Applying => c = "apply"
    /\ label \in Rolling => c \in {"deliver", "rotate"}
    /\ (label \in Loaded /\ c = "deliver") => "applied" \in journal[o].phases
    /\ label = "save_issuance" => generation[o] \in {"complete", "expired"}
    /\ label = "record_issued" => Issued(o)
    /\ (label \in Changing \cup {"begin"} /\ c = "apply") => "delivering" \notin journal[o].phases
    /\ label \in Recording => "delivering" \in journal[o].phases
    /\ label \in Sealed => version[o] = "complete"
    /\ label \in Trying => "verifying" \in journal[o].phases
    /\ label = "publish" => db[t].owner = plan[o].owner
    /\ label = "record_delivered" => artifact[o].delivery = "saved"
    /\ label \in Ending =>
         /\ c = "issue" => Issued(o)
         /\ c = "apply" => artifact[o].applied = "saved"
         /\ c \in {"deliver", "rotate"} => "delivered" \in journal[o].phases

StepInv(p) == Achieved(pc[p], cmd[p], cur[p], at[p])

\* What a live credential rests on.
LiveInv ==
    \A t \in Targets : active[t] # None =>
        /\ plan[active[t]] # None
        /\ plan[active[t]].target = t
        /\ version[active[t]] = "complete"
        /\ "verifying" \in journal[active[t]].phases
        /\ db[t].owner = plan[active[t]].owner

RInv == LineageInv /\ JournalInv /\ LiveInv /\ \A p \in Procs : PrepareInv(p) /\ StepInv(p)

-----------------------------------------------------------------------------
(* What the steps have in common *)

\* No step takes back what a file says.
Keeps ==
    /\ dirs \subseteq dirs'
    /\ \A o \in Ops :
         /\ plan[o] # None => plan'[o] = plan[o]
         /\ journal[o].phases \subseteq journal'[o].phases
         /\ artifact[o].issuance = "saved" => artifact'[o].issuance = "saved"
         /\ artifact[o].applied = "saved" => artifact'[o].applied = "saved"
         /\ artifact[o].delivery = "saved" => artifact'[o].delivery = "saved"
         /\ generation[o] \in {"complete", "expired"} => generation'[o] \in {"complete", "expired"}
         /\ version[o] = "complete" => version'[o] = "complete"

\* A step of p leaves alone what the locks of other processes cover.
Local(p) ==
    /\ \A q \in Procs \ {p} :
         /\ pc'[q] = pc[q] /\ cmd'[q] = cmd[q] /\ cur'[q] = cur[q]
         /\ at'[q] = at[q] /\ seen'[q] = seen[q]
    /\ \A o \in Ops :
         \/ journal'[o] = journal[o] /\ plan'[o] = plan[o]
         \/ o = cur[p] /\ pc[p] \in WithOperation
    /\ \A t \in Targets :
         \/ db'[t].owner = db[t].owner
         \/ t = at[p] /\ pc[p] # "idle"

\* What _prepare_rotation once accepted stays acceptable.
LEMMA InheritableKeeps ==
    ASSUME TypeOK, Keeps, NEW o, NEW t, Inheritable(o, t)
    PROVE  Inheritable(o, t)'
<1>1. plan[o].owner \in Ops
  BY PlanTyped DEF Inheritable, Plan
<1> QED
  BY <1>1 DEF Inheritable, Keeps

\* Before its plan is loaded a command has achieved nothing.
LEMMA NothingAchieved ==
    ASSUME NEW label \in Labels \ Loaded, NEW c, NEW o, NEW t
    PROVE  Achieved(label, c, o, t)'
  BY DEF Achieved, Loaded, WithOperation, Labels, Issuing, Changing, Applying, Trying, Sealed,
     Recording, Rolling, Ending

\* What is achieved stays so while nobody else writes to the operation.
LEMMA AchievedKeeps ==
    ASSUME NEW label, NEW c, NEW o \in Ops, NEW t, Achieved(label, c, o, t), Keeps,
           journal'[o] = journal[o], plan'[o] = plan[o],
           label = "publish" => db'[t].owner = db[t].owner
    PROVE  Achieved(label, c, o, t)'
<1>1. /\ artifact[o].applied = "saved" => artifact'[o].applied = "saved"
      /\ artifact[o].delivery = "saved" => artifact'[o].delivery = "saved"
      /\ version[o] = "complete" => version'[o] = "complete"
      /\ generation[o] \in {"complete", "expired"} => generation'[o] \in {"complete", "expired"}
      /\ Issued(o) => Issued(o)'
  BY DEF Keeps, Issued
<1> QED
  BY <1>1 DEF Achieved

LEMMA OthersKeep ==
    ASSUME IInv, RInv, NEW p \in Procs, NEW q \in Procs \ {p}, Local(p), Keeps
    PROVE  PrepareInv(q)' /\ StepInv(q)'
<1>1. /\ pc'[q] = pc[q] /\ cmd'[q] = cmd[q] /\ cur'[q] = cur[q]
      /\ at'[q] = at[q] /\ seen'[q] = seen[q]
  BY DEF Local
<1>2. PrepareInv(q) /\ StepInv(q)
  BY DEF RInv
<1>3. ASSUME pc[q] \in WithOperation
      PROVE  journal'[cur[q]] = journal[cur[q]] /\ plan'[cur[q]] = plan[cur[q]] /\ cur[q] \in Ops
  <2>1. cur[q] \in Ops
    BY <1>3 DEF IInv, LockInv, WithOperation
  <2>2. ~(cur[q] = cur[p] /\ pc[p] \in WithOperation)
    BY <1>3, Exclusive DEF IInv
  <2> QED
    BY <2>1, <2>2 DEF Local
<1>4. ASSUME pc[q] = "publish"
      PROVE  db'[at[q]].owner = db[at[q]].owner
  BY <1>4 DEF Local, IInv, LockInv
<1>5. PrepareInv(q)'
  BY <1>1, <1>2, <1>3, InheritableKeeps DEF IInv, PrepareInv, WithOperation, Labels
<1>6. StepInv(q)'
  <2>1. CASE pc[q] \notin WithOperation
    <3>1. pc[q] \in Labels
      BY DEF IInv, TypeOK
    <3> QED
      BY <1>1, <2>1, <3>1, NothingAchieved DEF StepInv, Loaded
  <2>2. CASE pc[q] \in WithOperation
    BY <1>1, <1>2, <1>3, <1>4, <2>2, AchievedKeeps DEF StepInv
  <2> QED
    BY <2>1, <2>2
<1> QED
  BY <1>5, <1>6

\* Plans that stay keep their lineage.
LEMMA LineageKeeps ==
    ASSUME IInv, LineageInv, Keeps, plan' = plan
    PROVE  LineageInv'
<1> SUFFICES ASSUME NEW o \in Ops, plan[o] # None
             PROVE  /\ o \in dirs'
                    /\ plan[o].intent = "provision" => plan[o].owner = o
                    /\ plan[o].intent = "rotate" =>
                         /\ Inheritable(plan[o].previous, plan[o].target)'
                         /\ plan[o].owner = plan[plan[o].previous].owner
  BY DEF LineageInv
<1>1. plan[o].intent = "rotate" => Inheritable(plan[o].previous, plan[o].target)'
  BY InheritableKeeps DEF IInv, LineageInv
<1> QED
  BY <1>1 DEF LineageInv, Keeps

\* Steps that record nothing leave every record as backed as it was.
LEMMA JournalKeeps ==
    ASSUME IInv, JournalInv, Keeps,
           \A o \in Ops : journal'[o].phases = journal[o].phases /\ journal'[o].last = journal[o].last
    PROVE  JournalInv'
<1> SUFFICES ASSUME NEW o \in Ops
             PROVE  /\ journal[o].last # None => journal[o].last \in journal[o].phases
                    /\ "issued" \in journal[o].phases => Issued(o)'
                    /\ "applied" \in journal[o].phases => artifact'[o].applied = "saved"
                    /\ "delivering" \in journal[o].phases =>
                         plan'[o] # None /\ "applied" \in journal'[plan'[o].owner].phases
                    /\ "verifying" \in journal[o].phases => "delivering" \in journal[o].phases
                    /\ "delivered" \in journal[o].phases =>
                         /\ "delivering" \in journal[o].phases
                         /\ artifact'[o].delivery = "saved"
                         /\ version'[o] = "complete"
                    /\ "verified" \in journal[o].phases => "delivered" \in journal[o].phases
  BY DEF JournalInv
<1>1. "delivering" \in journal[o].phases =>
        plan'[o] # None /\ "applied" \in journal'[plan'[o].owner].phases
  <2> SUFFICES ASSUME "delivering" \in journal[o].phases
               PROVE  plan'[o] # None /\ "applied" \in journal'[plan'[o].owner].phases
    OBVIOUS
  <2>1. plan[o] # None /\ "applied" \in journal[plan[o].owner].phases
    BY DEF JournalInv
  <2>2. plan[o].owner \in Ops
    BY <2>1, PlanTyped DEF IInv, Plan
  <2> QED
    BY <2>1, <2>2 DEF Keeps
<1> QED
  BY <1>1 DEF JournalInv, Keeps, Issued

\* A live credential rests on what it rested on.
LEMMA LiveKeeps ==
    ASSUME IInv, LiveInv, Keeps, active' = active,
           \A t \in Targets : active[t] # None => db'[t].owner = db[t].owner
    PROVE  LiveInv'
<1> SUFFICES ASSUME NEW t \in Targets, active[t] # None
             PROVE  /\ plan'[active[t]] # None
                    /\ plan'[active[t]].target = t
                    /\ version'[active[t]] = "complete"
                    /\ "verifying" \in journal'[active[t]].phases
                    /\ db'[t].owner = plan'[active[t]].owner
  BY DEF LiveInv
<1>1. active[t] \in Ops
  BY DEF IInv, TypeOK
<1> QED
  BY <1>1 DEF LiveInv, Keeps

\* A recorded phase that is backed.
LEMMA RecordKeeps ==
    ASSUME IInv, RInv, NEW o \in Ops, NEW phase \in Phases, Record(o, phase),
           phase = "issued" => Issued(o),
           phase = "applied" => artifact[o].applied = "saved",
           phase = "delivering" => plan[o] # None /\ "applied" \in journal[plan[o].owner].phases,
           phase = "verifying" => "delivering" \in journal[o].phases,
           phase = "delivered" => /\ "delivering" \in journal[o].phases
                                  /\ artifact[o].delivery = "saved"
                                  /\ version[o] = "complete",
           phase = "verified" => "delivered" \in journal[o].phases
    PROVE  /\ Keeps /\ LineageInv' /\ JournalInv' /\ LiveInv'
           /\ journal'[o].phases = journal[o].phases \cup {phase}
           /\ \A x \in Ops \ {o} : journal'[x] = journal[x]
<1>1. /\ journal'[o] = [phases |-> journal[o].phases \cup {phase}, last |-> phase, torn |-> FALSE]
      /\ \A x \in Ops \ {o} : journal'[x] = journal[x]
      /\ UNCHANGED <<dirs, plan, artifact, generation, version, active, db, epoch>>
  BY DEF Record, IInv, TypeOK
<1>2. journal'[o].phases = journal[o].phases \cup {phase} /\ journal'[o].last = phase
  BY <1>1
<1>3. Keeps
  BY <1>1, <1>2 DEF Keeps
<1>4. LineageInv' /\ LiveInv'
  BY <1>1, <1>3, LineageKeeps, LiveKeeps DEF RInv
<1>5. JournalInv'
  <2> SUFFICES ASSUME NEW x \in Ops
               PROVE  /\ journal'[x].last # None => journal'[x].last \in journal'[x].phases
                      /\ "issued" \in journal'[x].phases => Issued(x)
                      /\ "applied" \in journal'[x].phases => artifact[x].applied = "saved"
                      /\ "delivering" \in journal'[x].phases =>
                           plan[x] # None /\ "applied" \in journal'[plan[x].owner].phases
                      /\ "verifying" \in journal'[x].phases => "delivering" \in journal'[x].phases
                      /\ "delivered" \in journal'[x].phases =>
                           /\ "delivering" \in journal'[x].phases
                           /\ artifact[x].delivery = "saved"
                           /\ version[x] = "complete"
                      /\ "verified" \in journal'[x].phases => "delivered" \in journal'[x].phases
    BY <1>1 DEF JournalInv, Issued
  <2>1. "delivering" \in journal'[x].phases =>
          plan[x] # None /\ "applied" \in journal[plan[x].owner].phases
    BY <1>1, <1>2 DEF RInv, JournalInv
  <2>2. "delivering" \in journal'[x].phases =>
          plan[x] # None /\ "applied" \in journal'[plan[x].owner].phases
    <3>1. plan[x] # None => plan[x].owner \in Ops
      BY PlanTyped DEF IInv, Plan
    <3> QED
      BY <2>1, <3>1, <1>3 DEF Keeps
  <2>3. CASE x = o
    BY <2>2, <2>3, <1>2 DEF RInv, JournalInv
  <2>4. CASE x # o
    BY <2>2, <2>4, <1>1 DEF RInv, JournalInv
  <2> QED
    BY <2>3, <2>4
<1> QED
  BY <1>1, <1>2, <1>3, <1>4, <1>5

\* The parts of the invariant put together again.
LEMMA TogetherKeep ==
    ASSUME IInv, RInv, NEW p \in Procs, Local(p), Keeps, LineageInv', JournalInv', LiveInv',
           PrepareInv(p)', StepInv(p)'
    PROVE  RInv'
  BY OthersKeep DEF RInv

\* A command that ends, and may write something first.
LEMMA EndRInv ==
    ASSUME IInv, RInv, NEW p \in Procs, End(p), Keeps, LineageInv', JournalInv', LiveInv',
           \A o \in Ops : o # cur[p] \/ pc[p] \notin WithOperation => journal'[o] = journal[o],
           plan' = plan, db' = db
    PROVE  RInv'
<1>1. Local(p)
  BY DEF Local, End, IInv, TypeOK
<1>2. pc'[p] = "idle"
  BY DEF End, IInv, TypeOK
<1>3. PrepareInv(p)' /\ StepInv(p)'
  BY <1>2, NothingAchieved DEF PrepareInv, StepInv, Preparing, Loaded, WithOperation, Labels
<1> QED
  BY <1>1, <1>3, TogetherKeep

\* A command that goes on under the same locks.
LEMMA GotoRInv ==
    ASSUME IInv, RInv, NEW p \in Procs, NEW label \in Loaded, Goto(p, label),
           pc[p] \in WithOperation, Keeps, LineageInv', JournalInv', LiveInv',
           \A o \in Ops \ {cur[p]} : journal'[o] = journal[o],
           \A t \in Targets \ {at[p]} : db'[t] = db[t],
           plan' = plan,
           NEW c, NEW o, NEW t, c = cmd[p], o = cur[p], t = at[p],
           Achieved(label, c, o, t)'
    PROVE  RInv'
<1>1. Local(p)
  BY DEF Local, Goto, IInv, TypeOK, WithOperation
<1>2. pc'[p] = label /\ UNCHANGED <<cmd, cur, at>>
  BY DEF Goto, IInv, TypeOK
<1>3. PrepareInv(p)'
  BY <1>2 DEF PrepareInv, Preparing, Loaded, WithOperation
<1>4. StepInv(p)'
  BY <1>2 DEF StepInv
<1> QED
  BY <1>1, <1>3, <1>4, TogetherKeep

\* Reading keeps everything.
LEMMA ReadKeeps ==
    ASSUME IInv, RInv, OnlyReads
    PROVE  /\ Keeps /\ LineageInv' /\ JournalInv' /\ LiveInv'
           /\ journal' = journal /\ plan' = plan /\ db' = db
<1>1. UNCHANGED <<dirs, plan, journal, artifact, generation, version, active, db, epoch>>
  BY DEF OnlyReads, stateVars
<1>2. Keeps
  BY <1>1 DEF Keeps
<1> QED
  BY <1>1, <1>2, LineageKeeps, JournalKeeps, LiveKeeps DEF RInv

\* The command, the operation and the target of a process that loaded its plan.
LEMMA AtWork ==
    ASSUME IInv, RInv, NEW p \in Procs, pc[p] \in Loaded
    PROVE  /\ cur[p] \in Ops /\ at[p] \in Targets
           /\ plan[cur[p]] \in Plan /\ plan[cur[p]].target = at[p] /\ plan[cur[p]].owner \in Ops
           /\ cmd[p] \in {"issue", "apply", "deliver", "rotate"}
           /\ plan[cur[p]].intent = IntentOf(cmd[p])
           /\ cmd[p] # "rotate" => plan[cur[p]].owner = cur[p]
           /\ cmd[p] \in {"deliver", "rotate"} => "applied" \in journal[plan[cur[p]].owner].phases
           /\ Achieved(pc[p], cmd[p], cur[p], at[p])
<1>1. /\ cur[p] \in Ops /\ at[p] \in Targets /\ plan[cur[p]] # None
      /\ plan[cur[p]].target = at[p] /\ cmd[p] \in {"issue", "apply", "deliver", "rotate"}
  BY DEF IInv, LockInv, PlanInv, Executing, Loaded, WithOperation, Labels
<1>2. plan[cur[p]] \in Plan /\ plan[cur[p]].owner \in Ops
  BY OwnerIsOp
<1>3. Achieved(pc[p], cmd[p], cur[p], at[p])
  BY DEF RInv, StepInv
<1>4. plan[cur[p]].intent = IntentOf(cmd[p])
  BY <1>3 DEF Achieved
<1>5. cmd[p] # "rotate" => plan[cur[p]].owner = cur[p]
  BY <1>1, <1>4 DEF IntentOf, RInv, LineageInv
<1>6. CASE cmd[p] = "rotate"
  <2> DEFINE owner == plan[cur[p]].owner
  <2>1. plan[owner] # None /\ plan[owner].intent = "provision" /\ "verified" \in journal[owner].phases
    BY <1>1, <1>4, <1>6 DEF IntentOf, RInv, LineageInv, Inheritable
  <2>2. plan[owner].owner = owner
    BY <1>2, <2>1 DEF RInv, LineageInv
  <2>3. "delivering" \in journal[owner].phases
    BY <1>2, <2>1 DEF RInv, JournalInv
  <2>4. "applied" \in journal[owner].phases
    BY <1>2, <2>2, <2>3 DEF RInv, JournalInv
  <2> QED
    BY <1>1, <1>2, <1>3, <1>4, <1>5, <1>6, <2>4
<1>7. CASE cmd[p] # "rotate"
  BY <1>1, <1>2, <1>3, <1>4, <1>5, <1>7 DEF Achieved
<1> QED
  BY <1>6, <1>7

-----------------------------------------------------------------------------
(* The steps of prepare *)

\* What prepare_rotation finds at "check" is inheritable.
LEMMA PredecessorInheritable ==
    ASSUME IInv, RInv, NEW o \in Ops \cup {None}, NEW t \in Targets, Predecessor(o, t)
    PROVE  Inheritable(o, t)
<1>1. o \in Ops /\ plan[o] # None /\ plan[o].target = t /\ RotationOwner(plan[o].owner, t)
  BY DEF Predecessor, LoadPlan
<1>2. plan[o].owner \in Ops
  BY <1>1, PlanTyped DEF IInv, Plan
<1>3. /\ plan[plan[o].owner] # None /\ plan[plan[o].owner].intent = "provision"
      /\ journal[plan[o].owner].last = "verified" /\ journal[plan[o].owner].last # None
  BY <1>1 DEF RotationOwner, LoadPlan, Readable
<1>4. "verified" \in journal[plan[o].owner].phases
  BY <1>2, <1>3 DEF RInv, JournalInv
<1> QED
  BY <1>1, <1>3, <1>4 DEF Inheritable

LEMMA PrepareRInv ==
    ASSUME IInv, RInv, NEW p \in Procs,
           \/ \E c \in Commands, t \in Targets : StartPrepare(p, c, t)
           \/ Observe(p)
           \/ \E o \in Ops : CreateOperation(p, o)
           \/ Pass(p) /\ pc[p] = "check"
    PROVE  RInv'
<1>1. CASE \E c \in Commands, t \in Targets : StartPrepare(p, c, t)
  <2>1. PICK c \in {"prepare", "prepare_rotation"}, t \in Targets : StartPrepare(p, c, t)
    BY <1>1 DEF StartPrepare
  <2>2. Keeps /\ LineageInv' /\ JournalInv' /\ LiveInv' /\ Local(p)
    BY <2>1, ReadKeeps DEF StartPrepare, Local, IInv, TypeOK
  <2>3. pc'[p] = "observe" /\ cmd'[p] = c
    BY <2>1 DEF StartPrepare, IInv, TypeOK
  <2>4. PrepareInv(p)' /\ StepInv(p)'
    BY <2>3, NothingAchieved DEF PrepareInv, StepInv, Loaded, WithOperation, Labels
  <2> QED
    BY <2>2, <2>4, TogetherKeep
<1>2. CASE Observe(p)
  <2>1. Keeps /\ LineageInv' /\ JournalInv' /\ LiveInv' /\ Local(p)
    BY <1>2, ReadKeeps DEF Observe, Local, IInv, TypeOK
  <2>2. pc[p] = "observe" /\ pc'[p] = "check" /\ cmd'[p] = cmd[p]
    BY <1>2 DEF Observe, Step, IInv, TypeOK
  <2>3. PrepareInv(p)' /\ StepInv(p)'
    BY <2>2, NothingAchieved DEF RInv, PrepareInv, Preparing, StepInv, Loaded, WithOperation, Labels
  <2> QED
    BY <2>1, <2>3, TogetherKeep
<1>3. CASE Pass(p) /\ pc[p] = "check"
  <2>1. Goto(p, "create") /\ Permitted(p) /\ OnlyReads
    BY <1>3 DEF Pass, Passed
  <2>2. Keeps /\ LineageInv' /\ JournalInv' /\ LiveInv' /\ Local(p)
    BY <2>1, ReadKeeps DEF Goto, Local, IInv, TypeOK
  <2>3. pc'[p] = "create" /\ cmd'[p] = cmd[p] /\ at'[p] = at[p] /\ seen'[p] = seen[p]
    BY <2>1 DEF Goto, IInv, TypeOK
  <2>4. cmd[p] # "prepare" => Inheritable(seen[p].previous, at[p])
    <3>1. seen[p].previous \in Ops \cup {None} /\ at[p] \in Targets
      BY <1>3 DEF IInv, TypeOK, LockInv
    <3>2. cmd[p] # "prepare" => Predecessor(seen[p].previous, at[p])
      BY <1>3, <2>1 DEF Permitted
    <3> QED
      BY <3>1, <3>2, PredecessorInheritable
  <2>5. PrepareInv(p)'
    BY <1>3, <2>2, <2>3, <2>4, InheritableKeeps DEF RInv, PrepareInv, Preparing, IInv
  <2>6. StepInv(p)'
    BY <2>3, NothingAchieved DEF StepInv, Loaded, WithOperation, Labels
  <2> QED
    BY <2>2, <2>5, <2>6, TogetherKeep
<1>4. ASSUME NEW o \in Ops, CreateOperation(p, o) PROVE RInv'
  <2>1. /\ pc[p] = "create" /\ o \notin dirs /\ dirs' = dirs \cup {o}
        /\ pc'[p] = "write_plan" /\ cur'[p] = o
        /\ UNCHANGED <<cmd, at, seen, plan, journal, artifact, generation, version, active, db>>
    BY <1>4 DEF CreateOperation, Step, IInv, TypeOK
  <2>2. Keeps
    BY <2>1 DEF Keeps
  <2>3. LineageInv' /\ JournalInv' /\ LiveInv'
    BY <2>1, <2>2, LineageKeeps, JournalKeeps, LiveKeeps DEF RInv
  <2>4. Local(p)
    BY <1>4, <2>1 DEF CreateOperation, Local, IInv, TypeOK
  <2>5. plan[o] = None
    BY <2>1 DEF RInv, LineageInv
  <2>6. PrepareInv(p)'
    BY <2>1, <2>2, <2>5, InheritableKeeps DEF RInv, PrepareInv, Preparing, IInv
  <2>7. StepInv(p)'
    BY <2>1, NothingAchieved DEF StepInv, Loaded, WithOperation, Labels
  <2> QED
    BY <2>2, <2>3, <2>4, <2>6, <2>7, TogetherKeep
<1> QED
  BY <1>1, <1>2, <1>3, <1>4

\* The new plan has the lineage of what it was made from.
LEMMA WritePlanRInv ==
    ASSUME IInv, RInv, NEW p \in Procs, WritePlan(p)
    PROVE  RInv'
<1>1. PICK o \in Ops, t \in Targets, b \in Ops \cup {None} :
         o = cur[p] /\ t = at[p] /\ b = seen[p].previous
  BY DEF WritePlan, Step, IInv, TypeOK, LockInv, WithOperation, Labels
<1>2. /\ pc[p] = "write_plan" /\ pc' = [pc EXCEPT ![p] = "record_prepared"]
      /\ UNCHANGED <<cmd, cur, at, seen, dirs, journal, artifact, generation, version, active, db>>
      /\ \A x \in Ops \ {o} : plan'[x] = plan[x]
  BY <1>1 DEF WritePlan, Step, Goto, IInv, TypeOK
<1>3. /\ plan'[o].target = t /\ plan'[o].previous = b /\ plan'[o].intent = IntentOf(cmd[p])
      /\ plan'[o].owner = PlannedOwner(p)
  BY <1>1 DEF WritePlan, IInv, TypeOK
<1>4. plan[o] = None /\ o \in dirs /\ cmd[p] \in {"prepare", "prepare_rotation"}
  BY <1>1, <1>2 DEF RInv, PrepareInv, Preparing, IInv, LockInv, WithOperation, Labels
<1>5. Keeps
  BY <1>2, <1>4 DEF Keeps
<1>6. Local(p)
  BY <1>1, <1>2 DEF Local, IInv, TypeOK, WithOperation, Labels
<1>7. LineageInv'
  <2> SUFFICES ASSUME NEW x \in Ops, plan'[x] # None
               PROVE  /\ x \in dirs'
                      /\ plan'[x].intent = "provision" => plan'[x].owner = x
                      /\ plan'[x].intent = "rotate" =>
                           /\ Inheritable(plan[x].previous, plan[x].target)'
                           /\ plan'[x].owner = plan'[plan'[x].previous].owner
    BY DEF LineageInv
  <2>1. CASE x = o
    <3>1. CASE cmd[p] = "prepare"
      BY <1>1, <1>2, <1>3, <1>4, <2>1, <3>1 DEF IntentOf, PlannedOwner
    <3>2. CASE cmd[p] = "prepare_rotation"
      <4>1. Inheritable(b, t)
        BY <1>1, <1>2, <3>2 DEF RInv, PrepareInv
      <4>2. Inheritable(b, t)' /\ b \in Ops
        BY <1>5, <4>1, InheritableKeeps DEF IInv, Inheritable
      <4>3. plan'[b] = plan[b]
        BY <1>5, <4>1 DEF Inheritable, Keeps
      <4>4. plan'[o].owner = plan[b].owner /\ plan'[o].intent = "rotate"
        BY <1>1, <1>3, <3>2 DEF PlannedOwner, IntentOf
      <4> QED
        BY <1>2, <1>3, <1>4, <2>1, <4>2, <4>3, <4>4
    <3> QED
      BY <1>4, <3>1, <3>2
  <2>2. CASE x # o
    <3>1. plan'[x] = plan[x] /\ x \in dirs'
      BY <1>2, <2>2 DEF RInv, LineageInv
    <3>2. CASE plan[x].intent = "rotate"
      <4>1. PICK c, u : c = plan[x].previous /\ u = plan[x].target
        OBVIOUS
      <4>2. Inheritable(c, u) /\ plan[x].owner = plan[c].owner /\ plan[x].intent # "provision"
        BY <3>1, <3>2, <4>1 DEF RInv, LineageInv
      <4>3. Inheritable(c, u)'
        BY <1>5, <4>2, InheritableKeeps DEF IInv
      <4>4. plan'[c] = plan[c]
        BY <1>5, <4>2 DEF Inheritable, Keeps
      <4> QED
        BY <3>1, <3>2, <4>1, <4>2, <4>3, <4>4
    <3>3. CASE plan[x].intent # "rotate"
      BY <3>1, <3>3 DEF RInv, LineageInv
    <3> QED
      BY <3>2, <3>3
  <2> QED
    BY <2>1, <2>2
<1>8. JournalInv' /\ LiveInv'
  BY <1>2, <1>5, JournalKeeps, LiveKeeps DEF RInv
<1>9. pc'[p] = "record_prepared" /\ cmd'[p] = cmd[p]
  BY <1>2 DEF IInv, TypeOK
<1>10. PrepareInv(p)' /\ StepInv(p)'
  BY <1>4, <1>9, NothingAchieved DEF PrepareInv, StepInv, Loaded, WithOperation, Labels
<1> QED
  BY <1>5, <1>6, <1>7, <1>8, <1>10, TogetherKeep

-----------------------------------------------------------------------------
(* The steps of execute *)

LEMMA StartExecuteRInv ==
    ASSUME IInv, RInv, NEW p \in Procs, NEW c \in Commands, NEW o \in Ops, NEW t \in Targets,
           StartExecute(p, c, o, t)
    PROVE  RInv'
<1>1. Keeps /\ LineageInv' /\ JournalInv' /\ LiveInv' /\ Local(p)
  BY ReadKeeps DEF StartExecute, Local, IInv, TypeOK
<1>2. pc'[p] = "load"
  BY DEF StartExecute, IInv, TypeOK
<1>3. PrepareInv(p)' /\ StepInv(p)'
  BY <1>2, NothingAchieved DEF PrepareInv, Preparing, StepInv, Loaded, WithOperation, Labels
<1> QED
  BY <1>1, <1>3, TogetherKeep

\* The checks between the steps.
LEMMA PassRInv ==
    ASSUME IInv, RInv, NEW p \in Procs, Pass(p), pc[p] # "check"
    PROVE  RInv'
<1>1. pc[p] \in {"load", "snapshot", "applied", "probe", "reprobe", "target"}
  BY DEF Pass, Passed
<1>2. /\ Keeps /\ LineageInv' /\ JournalInv' /\ LiveInv'
      /\ journal' = journal /\ plan' = plan /\ db' = db /\ artifact' = artifact
      /\ generation' = generation /\ version' = version
  BY ReadKeeps DEF Pass, OnlyReads, stateVars
<1>3. PICK c \in Commands, o \in Ops, t \in Targets : c = cmd[p] /\ o = cur[p] /\ t = at[p]
  BY <1>1 DEF IInv, LockInv, WithOperation, Labels
<1>4. PICK label \in Loaded : label = Passed[pc[p]] /\ Goto(p, label)
  BY <1>1 DEF Pass, Passed, Loaded, WithOperation, Labels
<1>5. Achieved(label, c, o, t)'
  <2>1. CASE pc[p] = "load"
    <3>1. plan[o].intent = IntentOf(c) /\ InOrder(c, o) /\ c \in {"issue", "apply", "deliver", "rotate"}
      BY <1>3, <2>1 DEF Pass, Permitted, IInv, LockInv, Executing
    <3>2. label = "begin"
      BY <1>4, <2>1 DEF Passed
    <3>3. /\ c = "deliver" => "applied" \in journal[o].phases
          /\ c = "apply" => "delivering" \notin journal[o].phases
      BY <3>1 DEF InOrder
    <3> QED
      BY <1>2, <3>1, <3>2, <3>3 DEF Achieved, Issuing, Changing, Applying, Trying, Sealed,
         Recording, Rolling, Ending
  <2>2. CASE pc[p] # "load"
    <3>1. pc[p] \in Loaded
      BY <1>1, <2>2 DEF Loaded, WithOperation, Labels
    <3>2. /\ c \in {"issue", "apply", "deliver", "rotate"}
          /\ c # "rotate" => plan[o].owner = o
          /\ Achieved(pc[p], c, o, t)
      BY <1>3, <3>1, AtWork
    <3>3. pc[p] \in {"applied", "probe", "reprobe"} =>
            artifact[plan[o].owner].applied = "saved" /\ db[t].owner = plan[o].owner
      BY <1>1, <1>3 DEF Pass, Permitted, VerifyApplied
    <3>4. /\ pc[p] = "snapshot" => label = "issuer"
          /\ pc[p] = "applied" => label = "target"
          /\ pc[p] = "probe" => label = "reprobe"
          /\ pc[p] = "reprobe" => label = "publish"
          /\ pc[p] = "target" => label = "finish"
      BY <1>4 DEF Passed
    <3> QED
      BY <1>1, <1>2, <2>2, <3>1, <3>2, <3>3, <3>4 DEF Achieved, Issued, Issuing, Changing,
         Applying, Trying, Sealed, Recording, Rolling, Ending
  <2> QED
    BY <2>1, <2>2
<1> QED
  BY <1>1, <1>2, <1>3, <1>4, <1>5, GotoRInv DEF WithOperation, Labels

\* The start record; "checking_delivery" and the like claim nothing.
LEMMA BeginRInv ==
    ASSUME IInv, RInv, NEW p \in Procs, Begin(p)
    PROVE  RInv'
<1>1. pc[p] = "begin" /\ pc[p] \in Loaded
  BY DEF Begin, Step, Loaded, WithOperation, Labels
<1>2. PICK c \in {"issue", "apply", "deliver", "rotate"}, o \in Ops, t \in Targets :
         c = cmd[p] /\ o = cur[p] /\ t = at[p]
  BY <1>1, AtWork
<1>3. PICK phase \in Phases :
         phase = StartPhase(c) /\ phase \in {"issuing", "applying", "checking_delivery"}
  BY <1>2 DEF StartPhase, Phases
<1>4. Record(o, phase)
  BY <1>2, <1>3 DEF Begin
<1>5. /\ Keeps /\ LineageInv' /\ JournalInv' /\ LiveInv'
      /\ journal'[o].phases = journal[o].phases \cup {phase}
      /\ \A x \in Ops \ {o} : journal'[x] = journal[x]
      /\ UNCHANGED <<plan, db, artifact, generation, version>>
  BY <1>3, <1>4, RecordKeeps DEF Record
<1>6. PICK label \in Loaded :
         /\ Goto(p, label)
         /\ \/ label = "snapshot" /\ c = "issue"
            \/ label = "issuer" /\ c = "rotate"
            \/ label = "verify_applied" /\ c = "deliver"
            \/ label \in {"role", "applied"} /\ c = "apply"
  BY <1>2 DEF Begin, Loaded, WithOperation, Labels
<1>7. Achieved("begin", c, o, t)
  BY <1>1, <1>2, AtWork
<1>8. Achieved(label, c, o, t)'
  BY <1>2, <1>3, <1>5, <1>6, <1>7 DEF Achieved, IntentOf, Issued, Issuing, Changing, Applying,
     Trying, Sealed, Recording, Rolling, Ending, Loaded, WithOperation, Labels
<1> QED
  BY <1>1, <1>2, <1>5, <1>6, <1>8, GotoRInv DEF Loaded

\* A progress record is made when it is backed.
LEMMA RecordProgressRInv ==
    ASSUME IInv, RInv, NEW p \in Procs, RecordProgress(p)
    PROVE  RInv'
<1>1. /\ pc[p] \in {"record_issued", "record_delivering", "record_verifying", "record_delivered"}
      /\ pc[p] \in Loaded
  BY DEF RecordProgress, Recorded, Loaded, WithOperation, Labels
<1>2. PICK c \in {"issue", "apply", "deliver", "rotate"}, o \in Ops, t \in Targets :
         /\ c = cmd[p] /\ o = cur[p] /\ t = at[p]
         /\ plan[o] # None
         /\ c \in {"deliver", "rotate"} => "applied" \in journal[plan[o].owner].phases
         /\ Achieved(pc[p], c, o, t)
  BY <1>1, AtWork DEF IInv, PlanInv
<1>3. c \in {"deliver", "rotate"}
  BY <1>1, <1>2 DEF Achieved, Rolling, Recording, Sealed
<1>4. PICK phase \in Phases, label \in Loaded :
         /\ Record(o, phase)
         /\ Goto(p, label)
         /\ \/ pc[p] = "record_issued" /\ phase = "issued" /\ label = "verify_applied"
            \/ pc[p] = "record_delivering" /\ phase = "delivering" /\ label = "store"
            \/ pc[p] = "record_verifying" /\ phase = "verifying" /\ label = "probe"
            \/ pc[p] = "record_delivered" /\ phase = "delivered" /\ label = "target"
  BY <1>1, <1>2 DEF RecordProgress, Recorded, Phases, Loaded, WithOperation, Labels
<1>5. /\ phase = "issued" => Issued(o)
      /\ phase \in {"verifying", "delivered"} => "delivering" \in journal[o].phases
      /\ phase = "delivered" => artifact[o].delivery = "saved" /\ version[o] = "complete"
  BY <1>2, <1>4 DEF Achieved, Recording, Sealed
<1>6. /\ Keeps /\ LineageInv' /\ JournalInv' /\ LiveInv'
      /\ journal'[o].phases = journal[o].phases \cup {phase}
      /\ \A x \in Ops \ {o} : journal'[x] = journal[x]
      /\ UNCHANGED <<plan, db, artifact, generation, version>>
  BY <1>2, <1>3, <1>4, <1>5, RecordKeeps DEF Record
<1>7. Achieved(label, c, o, t)'
  BY <1>1, <1>2, <1>3, <1>4, <1>6 DEF Achieved, IntentOf, Issued, Issuing, Changing, Applying,
     Trying, Sealed, Recording, Rolling, Ending, Loaded, WithOperation, Labels
<1> QED
  BY <1>1, <1>2, <1>4, <1>6, <1>7, GotoRInv DEF Loaded

\* So is the last record of a command.
LEMMA FinishRInv ==
    ASSUME IInv, RInv, NEW p \in Procs, Finish(p) \/ RecordPrepared(p)
    PROVE  RInv'
<1>1. pc[p] \in WithOperation /\ cur[p] \in Ops /\ End(p)
  BY DEF Finish, RecordPrepared, Step, IInv, LockInv, WithOperation, Labels
<1>2. PICK o \in Ops : o = cur[p]
  BY <1>1
<1>3. PICK phase \in Phases :
         /\ Record(o, phase)
         /\ phase = "issued" => Issued(o)
         /\ phase = "applied" => artifact[o].applied = "saved"
         /\ phase = "verified" => "delivered" \in journal[o].phases
         /\ phase \notin {"delivering", "verifying", "delivered"}
  <2>1. CASE Finish(p)
    <3>1. PICK c \in {"issue", "apply", "deliver", "rotate"}, t \in Targets :
             c = cmd[p] /\ t = at[p] /\ Achieved("finish", c, o, t)
      BY <1>2, <2>1, AtWork DEF Finish, Step, Loaded, WithOperation, Labels
    <3>2. PICK phase \in Phases :
             /\ phase = LastPhase(c)
             /\ \/ c = "issue" /\ phase = "issued"
                \/ c = "apply" /\ phase = "applied"
                \/ c \in {"deliver", "rotate"} /\ phase = "verified"
      BY DEF LastPhase, Phases
    <3> QED
      BY <1>2, <2>1, <3>1, <3>2 DEF Finish, Achieved, Ending
  <2>2. CASE RecordPrepared(p)
    BY <1>2, <2>2 DEF RecordPrepared, Phases
  <2> QED
    BY <2>1, <2>2
<1>4. /\ Keeps /\ LineageInv' /\ JournalInv' /\ LiveInv'
      /\ \A x \in Ops \ {o} : journal'[x] = journal[x]
      /\ plan' = plan /\ db' = db
  BY <1>3, RecordKeeps DEF Record
<1> QED
  BY <1>1, <1>2, <1>4, EndRInv

\* Saving an artifact keeps everything else.
LEMMA SaveKeeps ==
    ASSUME IInv, RInv, NEW o \in Ops, NEW name \in {"issuance", "applied", "delivery"}, Save(o, name)
    PROVE  /\ Keeps /\ LineageInv' /\ JournalInv' /\ LiveInv'
           /\ UNCHANGED <<plan, journal, generation, version, db>>
           /\ artifact'[o][name] = "saved"
           /\ \A other \in {"issuance", "applied", "delivery"} :
                artifact[o][other] = "saved" => artifact'[o][other] = "saved"
<1>1. artifact[o] \in Artifacts /\ artifact \in [Ops -> Artifacts]
  BY DEF IInv, TypeOK
<1>2. artifact' = [artifact EXCEPT ![o] = [artifact[o] EXCEPT ![name] = "saved"]]
  BY DEF Save
<1>3. PICK old \in Artifacts : old = artifact[o]
  BY <1>1
<1>4. PICK new : new = [old EXCEPT ![name] = "saved"]
  OBVIOUS
<1>5. /\ new.issuance = IF name = "issuance" THEN "saved" ELSE old.issuance
      /\ new.applied = IF name = "applied" THEN "saved" ELSE old.applied
      /\ new.delivery = IF name = "delivery" THEN "saved" ELSE old.delivery
  BY <1>4 DEF Artifacts
<1>6. artifact'[o] = new /\ \A x \in Ops \ {o} : artifact'[x] = artifact[x]
  BY <1>1, <1>2, <1>3, <1>4
<1>7. UNCHANGED <<dirs, plan, journal, generation, version, active, db>>
  BY DEF Save
<1>8. Keeps
  BY <1>3, <1>5, <1>6, <1>7 DEF Keeps
<1> QED
  BY <1>3, <1>5, <1>6, <1>7, <1>8, LineageKeeps, JournalKeeps, LiveKeeps DEF RInv

\* The issuer writes a generation and nothing else, then the artifact is saved.
LEMMA IssueRInv ==
    ASSUME IInv, RInv, NEW p \in Procs,
           ReuseGeneration(p) \/ StartGeneration(p) \/ CompleteGeneration(p) \/ SaveIssuance(p)
    PROVE  RInv'
<1>1. pc[p] \in Issuing /\ pc[p] \in Loaded
  BY DEF ReuseGeneration, StartGeneration, CompleteGeneration, SaveIssuance, Step,
     Issuing, Loaded, WithOperation, Labels
<1>2. PICK c \in {"issue", "apply", "deliver", "rotate"}, o \in Ops, t \in Targets :
         c = cmd[p] /\ o = cur[p] /\ t = at[p] /\ Achieved(pc[p], c, o, t)
  BY <1>1, AtWork
<1>3. PICK label \in {"generate", "save_issuance", "target", "record_delivering", "record_issued"} :
         /\ Goto(p, label)
         /\ \/ ReuseGeneration(p) /\ label = "save_issuance"
            \/ StartGeneration(p) /\ label = "generate"
            \/ CompleteGeneration(p) /\ label = "save_issuance"
            \/ SaveIssuance(p) /\ label = "target" /\ c = "issue"
            \/ SaveIssuance(p) /\ label \in {"record_delivering", "record_issued"} /\ c # "issue"
  <2>1. CASE ReuseGeneration(p) \/ StartGeneration(p) \/ CompleteGeneration(p)
    BY <2>1 DEF ReuseGeneration, StartGeneration, CompleteGeneration
  <2>2. CASE SaveIssuance(p)
    <3>1. CASE c = "issue"
      BY <1>2, <2>2, <3>1 DEF SaveIssuance
    <3>2. CASE c # "issue"
      <4>1. Goto(p, IF delivering[p] THEN "record_delivering" ELSE "record_issued")
        BY <1>2, <2>2, <3>2 DEF SaveIssuance
      <4>2. (IF delivering[p] THEN "record_delivering" ELSE "record_issued")
              \in {"record_delivering", "record_issued"}
        OBVIOUS
      <4> QED
        BY <2>2, <3>2, <4>1, <4>2
    <3> QED
      BY <3>1, <3>2
  <2> QED
    BY <2>1, <2>2
<1>4. /\ Keeps /\ LineageInv' /\ JournalInv' /\ LiveInv'
      /\ UNCHANGED <<plan, journal, db, version>>
      /\ label = "save_issuance" => generation'[o] \in {"complete", "expired"}
      /\ label \in {"target", "record_delivering", "record_issued"} => Issued(o)'
  <2>1. CASE ReuseGeneration(p) /\ label = "save_issuance"
    BY <1>2, <2>1, ReadKeeps DEF ReuseGeneration, OnlyReads, stateVars
  <2>2. CASE \/ StartGeneration(p) /\ label = "generate"
             \/ CompleteGeneration(p) /\ label = "save_issuance"
    <3>1. /\ UNCHANGED <<dirs, plan, journal, artifact, version, active, db>>
          /\ \A x \in Ops \ {o} : generation'[x] = generation[x]
          /\ label = "generate" => generation[o] = "absent"
          /\ label = "save_issuance" => generation'[o] = "complete"
      BY <1>2, <2>2 DEF StartGeneration, CompleteGeneration, stateVars, IInv, TypeOK
    <3>2. Keeps
      BY <2>2, <3>1 DEF Keeps
    <3> QED
      BY <2>2, <3>1, <3>2, LineageKeeps, JournalKeeps, LiveKeeps DEF RInv
  <2>3. CASE SaveIssuance(p) /\ label \notin {"generate", "save_issuance"}
    <3>1. Save(o, "issuance") /\ generation[o] \in {"complete", "expired"}
      BY <1>2, <2>3 DEF SaveIssuance, Step, Achieved
    <3> QED
      BY <2>3, <3>1, SaveKeeps DEF Issued
  <2> QED
    BY <1>3, <2>1, <2>2, <2>3
<1>5. Achieved(label, c, o, t)'
  BY <1>1, <1>2, <1>3, <1>4 DEF Achieved, IntentOf, Issued, Issuing, Changing, Applying,
     Trying, Sealed, Recording, Rolling, Ending, Loaded, WithOperation, Labels
<1> QED
  BY <1>1, <1>2, <1>3, <1>4, <1>5, GotoRInv DEF Loaded, WithOperation, Labels

\* apply changes the server it holds, where no credential of another owner is live.
LEMMA ApplyRInv ==
    ASSUME IInv, RInv, NEW p \in Procs, ApplyStep(p)
    PROVE  RInv'
<1>1. pc[p] \in {"role", "files", "login", "save_applied"} /\ pc[p] \in Loaded
  BY DEF ApplyStep, CloseRole, InstallFiles, EnableRole, SaveApplied, Step, Loaded,
     WithOperation, Labels
<1>2. PICK c \in {"issue", "apply", "deliver", "rotate"}, o \in Ops, t \in Targets :
         /\ c = cmd[p] /\ o = cur[p] /\ t = at[p]
         /\ plan[o].intent = IntentOf(c)
         /\ Achieved(pc[p], c, o, t)
  BY <1>1, AtWork
<1>3. c = "apply"
  BY <1>1, <1>2 DEF Achieved, Applying, Changing
<1>4. PICK label \in {"files", "login", "save_applied", "applied"} :
         /\ Goto(p, label)
         /\ label \in {"files", "login"} => pc[p] \in Changing
  BY DEF ApplyStep, CloseRole, InstallFiles, EnableRole, SaveApplied, Step, Changing
<1>5. /\ Keeps /\ LineageInv' /\ JournalInv' /\ LiveInv'
      /\ UNCHANGED <<plan, journal>>
      /\ \A u \in Targets \ {t} : db'[u] = db[u]
  <2>1. CASE CloseRole(p) \/ InstallFiles(p) \/ EnableRole(p)
    <3>1. UNCHANGED <<dirs, plan, journal, artifact, generation, version, active>>
      BY <2>1 DEF CloseRole, InstallFiles, EnableRole, stateVars
    <3>2. /\ \A u \in Targets \ {t} : db'[u] = db[u]
          /\ db'[t].owner = o \/ db'[t].owner = db[t].owner
          /\ db[t].owner \in {None, o}
      <4>1. db \in [Targets -> Database] /\ db[t] \in Database
        BY DEF IInv, TypeOK
      <4>2. CASE CloseRole(p)
        BY <1>2, <4>1, <4>2 DEF CloseRole, Step, Permitted, OnlyOwnChanges
      <4>3. CASE InstallFiles(p)
        BY <1>2, <4>1, <4>3 DEF InstallFiles, Step, Permitted, OnlyOwnChanges, Database
      <4>4. CASE EnableRole(p)
        BY <1>2, <4>1, <4>4 DEF EnableRole, Step, Permitted, OnlyOwnChanges, Database
      <4> QED
        BY <2>1, <4>2, <4>3, <4>4
    <3>3. Keeps
      BY <3>1 DEF Keeps
    <3>4. active[t] # None => db[t].owner # None
      <4> SUFFICES ASSUME active[t] # None PROVE db[t].owner # None
        OBVIOUS
      <4>1. active[t] \in Ops /\ plan[active[t]] # None /\ db[t].owner = plan[active[t]].owner
        BY DEF IInv, TypeOK, RInv, LiveInv
      <4>2. plan[active[t]].owner \in Ops
        BY <4>1, PlanTyped DEF IInv, Plan
      <4> QED
        BY <4>1, <4>2, LifecycleAssumption
    <3> QED
      BY <3>1, <3>2, <3>3, <3>4, LineageKeeps, JournalKeeps, LiveKeeps DEF RInv
  <2>2. CASE SaveApplied(p)
    BY <1>2, <2>2, SaveKeeps DEF SaveApplied
  <2> QED
    BY <2>1, <2>2 DEF ApplyStep
<1>6. Achieved(label, c, o, t)'
  BY <1>2, <1>3, <1>4, <1>5 DEF Achieved, IntentOf, Issued, Issuing, Changing, Applying,
     Trying, Sealed, Recording, Rolling, Ending, Loaded, WithOperation, Labels
<1> QED
  BY <1>1, <1>2, <1>4, <1>5, <1>6, GotoRInv DEF Loaded, WithOperation, Labels

\* _deliver_generation fills a version, tries it, then makes it the active one.
LEMMA DeliverRInv ==
    ASSUME IInv, RInv, NEW p \in Procs, DeliverStep(p)
    PROVE  RInv'
<1>1. /\ pc[p] \in {"verify_applied", "store", "receipt", "publish", "save_delivery"}
      /\ pc[p] \in Loaded
  BY DEF DeliverStep, EnterDelivery, ReuseVersion, StartVersion, WriteReceipt, Publish,
     SaveDelivery, Step, Loaded, WithOperation, Labels
<1>2. PICK c \in {"issue", "apply", "deliver", "rotate"}, o \in Ops, t \in Targets :
         /\ c = cmd[p] /\ o = cur[p] /\ t = at[p]
         /\ plan[o] # None /\ plan[o].target = t
         /\ plan[o].intent = IntentOf(c)
         /\ Achieved(pc[p], c, o, t)
  BY <1>1, AtWork DEF IInv, PlanInv
<1>3. c \in {"deliver", "rotate"}
  BY <1>1, <1>2 DEF Achieved, Rolling, Recording, Sealed, Trying
<1>4. CASE EnterDelivery(p)
  <2>1. Keeps /\ LineageInv' /\ JournalInv' /\ LiveInv' /\ Local(p) /\ UNCHANGED <<plan, journal>>
    BY <1>4, ReadKeeps DEF EnterDelivery, Local, IInv, TypeOK
  <2>2. pc'[p] = "issuer" /\ UNCHANGED <<cmd, cur, at>>
    BY <1>4 DEF EnterDelivery, IInv, TypeOK
  <2>3. Achieved("issuer", c, o, t)'
    BY <1>1, <1>2, <1>3, <2>1 DEF Achieved, IntentOf, Issuing, Changing, Applying,
       Trying, Sealed, Recording, Rolling, Ending, Loaded, WithOperation, Labels
  <2>4. PrepareInv(p)' /\ StepInv(p)'
    BY <1>2, <2>2, <2>3 DEF PrepareInv, Preparing, StepInv
  <2> QED
    BY <2>1, <2>4, TogetherKeep
<1>5. CASE ~EnterDelivery(p)
  <2>1. PICK label \in {"record_verifying", "receipt", "save_delivery", "record_delivered"} :
           /\ Goto(p, label)
           /\ \/ ReuseVersion(p) /\ label = "record_verifying"
              \/ StartVersion(p) /\ label = "receipt"
              \/ WriteReceipt(p) /\ label = "record_verifying"
              \/ Publish(p) /\ label = "save_delivery"
              \/ SaveDelivery(p) /\ label = "record_delivered"
    BY <1>5 DEF DeliverStep, ReuseVersion, StartVersion, WriteReceipt, Publish, SaveDelivery
  <2>2. /\ Keeps /\ LineageInv' /\ JournalInv' /\ LiveInv'
        /\ UNCHANGED <<plan, journal, db>>
        /\ label # "receipt" => version'[o] = "complete"
        /\ label = "record_delivered" => artifact'[o].delivery = "saved"
    <3>1. CASE ReuseVersion(p) /\ label = "record_verifying"
      BY <1>2, <3>1, ReadKeeps DEF ReuseVersion, OnlyReads
    <3>2. CASE \/ StartVersion(p) /\ label = "receipt"
               \/ WriteReceipt(p) /\ label = "record_verifying"
      <4>1. /\ UNCHANGED <<dirs, plan, journal, artifact, generation, active, db>>
            /\ \A x \in Ops \ {o} : version'[x] = version[x]
            /\ label = "receipt" => version[o] = "absent"
            /\ label = "record_verifying" => version'[o] = "complete"
        BY <1>2, <3>2 DEF StartVersion, WriteReceipt, stateVars, IInv, TypeOK
      <4>2. Keeps
        BY <3>2, <4>1 DEF Keeps
      <4> QED
        BY <3>2, <4>1, <4>2, LineageKeeps, JournalKeeps, LiveKeeps DEF RInv
    <3>3. CASE Publish(p) /\ label = "save_delivery"
      <4>1. /\ UNCHANGED <<dirs, plan, journal, artifact, generation, version, db>>
            /\ pc[p] = "publish"
            /\ active' = [active EXCEPT ![t] = o]
        BY <1>2, <3>3 DEF Publish, Step, stateVars
      <4>2. Keeps
        BY <4>1 DEF Keeps
      <4>3. version[o] = "complete" /\ "verifying" \in journal[o].phases /\ db[t].owner = plan[o].owner
        BY <1>2, <4>1 DEF Achieved, Trying, Sealed
      <4>4. LiveInv'
        BY <1>2, <4>1, <4>3 DEF RInv, LiveInv, IInv, TypeOK
      <4> QED
        BY <3>3, <4>1, <4>2, <4>3, <4>4, LineageKeeps, JournalKeeps DEF RInv
    <3>4. CASE SaveDelivery(p) /\ label = "record_delivered"
      <4>1. Save(o, "delivery") /\ version[o] = "complete"
        BY <1>2, <3>4 DEF SaveDelivery, Step, Achieved, Sealed
      <4> QED
        BY <3>4, <4>1, SaveKeeps
    <3> QED
      BY <2>1, <3>1, <3>2, <3>3, <3>4
  <2>3. pc[p] \in Recording
    BY <1>1, <1>5, <2>1 DEF ReuseVersion, StartVersion, WriteReceipt, Publish, SaveDelivery,
       Step, Recording, Sealed, Trying
  <2>4. Achieved(label, c, o, t)'
    BY <1>1, <1>2, <1>3, <2>1, <2>2, <2>3 DEF Achieved, IntentOf, Issuing, Changing, Applying,
       Trying, Sealed, Recording, Rolling, Ending, Loaded, WithOperation, Labels
  <2> QED
    BY <1>1, <1>2, <2>1, <2>2, <2>4, GotoRInv DEF Loaded, WithOperation, Labels
<1> QED
  BY <1>4, <1>5

\* A command that does not get to its end takes nothing back.
LEMMA HaltRInv ==
    ASSUME IInv, RInv, NEW p \in Procs, Halt(p)
    PROVE  RInv'
<1>1. CASE Refuse(p) \/ Stop(p)
  BY <1>1, ReadKeeps, EndRInv DEF Refuse, Stop
<1>2. CASE TearJournal(p)
  <2>1. PICK o \in Ops : o = cur[p]
    BY <1>2 DEF TearJournal, RecordLabels, Recorded, IInv, LockInv, WithOperation, Labels
  <2>2. /\ UNCHANGED <<dirs, plan, artifact, generation, version, active, db>>
        /\ journal'[o].phases = journal[o].phases /\ journal'[o].last = journal[o].last
        /\ \A x \in Ops \ {o} : journal'[x] = journal[x]
        /\ pc[p] \in WithOperation
    <3>1. journal' = [journal EXCEPT ![o] = [journal[o] EXCEPT !.torn = TRUE]]
      BY <1>2, <2>1 DEF TearJournal
    <3>2. PICK old \in Journal : old = journal[o]
      BY DEF IInv, TypeOK
    <3>3. [old EXCEPT !.torn = TRUE].phases = old.phases /\ [old EXCEPT !.torn = TRUE].last = old.last
      BY DEF Journal
    <3>4. UNCHANGED <<dirs, plan, artifact, generation, version, active, db>> /\ pc[p] \in RecordLabels
      BY <1>2 DEF TearJournal
    <3> QED
      BY <3>1, <3>2, <3>3, <3>4 DEF IInv, TypeOK, RecordLabels, Recorded, WithOperation, Labels
  <2>3. Keeps
    BY <2>2 DEF Keeps
  <2>4. LineageInv' /\ JournalInv' /\ LiveInv'
    BY <2>2, <2>3, LineageKeeps, JournalKeeps, LiveKeeps DEF RInv
  <2> QED
    BY <1>2, <2>1, <2>2, <2>3, <2>4, EndRInv DEF TearJournal
<1>3. CASE TearArtifact(p)
  <2>1. PICK o \in Ops, name \in {"issuance", "applied", "delivery"} :
           /\ artifact[o][name] = "absent"
           /\ artifact' = [artifact EXCEPT ![o][name] = "torn"]
    <3>1. SavedAt[pc[p]] \in {"issuance", "applied", "delivery"} /\ cur[p] \in Ops
      BY <1>3 DEF TearArtifact, SavedAt, IInv, LockInv, WithOperation, Labels
    <3> QED
      BY <1>3, <3>1 DEF TearArtifact
  <2>2. UNCHANGED <<dirs, plan, journal, generation, version, active, db>>
    BY <1>3 DEF TearArtifact
  <2>3. Keeps
    <3>1. PICK old \in Artifacts : old = artifact[o]
      BY DEF IInv, TypeOK
    <3>2. artifact' = [artifact EXCEPT ![o] = [old EXCEPT ![name] = "torn"]]
      BY <2>1, <3>1
    <3>3. PICK new : new = [old EXCEPT ![name] = "torn"]
      OBVIOUS
    <3>4. \A other \in {"issuance", "applied", "delivery"} :
            old[other] = "saved" => new[other] = "saved"
      BY <2>1, <3>1, <3>3 DEF Artifacts
    <3>5. artifact'[o] = new /\ \A x \in Ops \ {o} : artifact'[x] = artifact[x]
      BY <3>2, <3>3 DEF IInv, TypeOK
    <3> QED
      BY <2>2, <3>1, <3>4, <3>5 DEF Keeps
  <2>4. LineageInv' /\ JournalInv' /\ LiveInv'
    BY <2>2, <2>3, LineageKeeps, JournalKeeps, LiveKeeps DEF RInv
  <2> QED
    BY <1>3, <2>2, <2>3, <2>4, EndRInv DEF TearArtifact
<1> QED
  BY <1>1, <1>2, <1>3 DEF Halt

\* No event of the world takes back a file or gives a server another owner.
LEMMA WorldRInv ==
    ASSUME IInv, RInv, World
    PROVE  RInv'
<1>1. /\ UNCHANGED <<pc, cmd, cur, at, seen, dirs, plan, journal, artifact, version, active>>
      /\ \A t \in Targets : db'[t].owner = db[t].owner
      /\ \A o \in Ops : generation[o] \in {"complete", "expired"} =>
           generation'[o] \in {"complete", "expired"}
  <2>1. ASSUME NEW t \in Targets, EditConfig(t) \/ LoseLogin(t)
        PROVE  \A u \in Targets : db'[u].owner = db[u].owner
    <3>1. db \in [Targets -> Database] /\ db[t] \in Database
      BY DEF IInv, TypeOK
    <3>2. CASE EditConfig(t)
      <4>1. db' = [db EXCEPT ![t] = [db[t] EXCEPT !.rev = @ + 1]]
        BY <3>2 DEF EditConfig
      <4>2. [db[t] EXCEPT !.rev = @ + 1].owner = db[t].owner
        BY <3>1 DEF Database
      <4> QED
        BY <3>1, <4>1, <4>2
    <3>3. CASE LoseLogin(t)
      BY <3>1, <3>3 DEF LoseLogin, Database
    <3> QED
      BY <2>1, <3>2, <3>3
  <2> QED
    BY <2>1 DEF World, Restart, EditConfig, LoseLogin, Expire, procVars, stateVars, IInv, TypeOK
<1>2. Keeps
  BY <1>1 DEF Keeps
<1>3. LineageInv' /\ JournalInv' /\ LiveInv'
  BY <1>1, <1>2, LineageKeeps, JournalKeeps, LiveKeeps DEF RInv
<1>4. ASSUME NEW q \in Procs PROVE PrepareInv(q)' /\ StepInv(q)'
  <2>1. PrepareInv(q)'
    BY <1>1, <1>2, InheritableKeeps DEF RInv, PrepareInv, IInv
  <2>2. CASE pc[q] \in Loaded
    <3>1. cur[q] \in Ops /\ at[q] \in Targets /\ Achieved(pc[q], cmd[q], cur[q], at[q])
      BY <2>2, AtWork
    <3>2. /\ journal'[cur[q]] = journal[cur[q]] /\ plan'[cur[q]] = plan[cur[q]]
          /\ db'[at[q]].owner = db[at[q]].owner
      BY <1>1, <3>1
    <3> QED
      BY <1>1, <1>2, <2>1, <3>1, <3>2, AchievedKeeps DEF StepInv
  <2>3. CASE pc[q] \notin Loaded
    <3>1. pc[q] \in Labels
      BY DEF IInv, TypeOK
    <3> QED
      BY <1>1, <2>1, <2>3, <3>1, NothingAchieved DEF StepInv
  <2> QED
    BY <2>1, <2>2, <2>3
<1> QED
  BY <1>3, <1>4 DEF RInv

-----------------------------------------------------------------------------
LEMMA InitRInv == Init => RInv
<1> SUFFICES ASSUME Init PROVE RInv
  OBVIOUS
<1>1. LineageInv /\ LiveInv
  BY DEF Init, LineageInv, LiveInv
<1>2. JournalInv
  BY DEF Init, JournalInv, EmptyJournal
<1>3. ASSUME NEW p \in Procs PROVE PrepareInv(p) /\ StepInv(p)
  BY DEF Init, PrepareInv, Preparing, StepInv, Achieved, Loaded, WithOperation, Issuing,
     Changing, Applying, Trying, Sealed, Recording, Rolling, Ending
<1> QED
  BY <1>1, <1>2, <1>3 DEF RInv

\* Every step preserves what the records say.
LEMMA NextRInv == IInv /\ RInv /\ [Next]_vars => RInv'
<1> SUFFICES ASSUME IInv, RInv, [Next]_vars PROVE RInv'
  OBVIOUS
<1>1. ASSUME NEW p \in Procs, Start(p) PROVE RInv'
  BY <1>1, PrepareRInv, StartExecuteRInv DEF Start
<1>2. ASSUME NEW p \in Procs, Work(p) PROVE RInv'
  BY <1>2, PassRInv, RecordProgressRInv, FinishRInv, PrepareRInv, WritePlanRInv, BeginRInv,
     IssueRInv, ApplyRInv, DeliverRInv DEF Work, PrepareStep, IssueStep
<1>3. CASE UNCHANGED vars
  <2>1. OnlyReads /\ UNCHANGED <<pc, cmd, cur, at, seen>>
    BY <1>3 DEF vars, OnlyReads, stateVars
  <2>2. ASSUME NEW q \in Procs PROVE PrepareInv(q)' /\ StepInv(q)'
    BY <2>1 DEF OnlyReads, stateVars, RInv, PrepareInv, Inheritable, StepInv, Achieved, Issued
  <2> QED
    BY <2>1, <2>2, ReadKeeps DEF RInv
<1> QED
  BY <1>1, <1>2, <1>3, HaltRInv, WorldRInv DEF Next

\* The journals, artifacts, plans and pointers agree in every reachable state.
THEOREM LifecycleRecords == Spec => [](IInv /\ RInv)
  BY InitIInv, InitRInv, NextIInv, NextRInv, PTL DEF Spec

\* A recorded phase is backed by the artifact, the issued generation, the sealed
\* version or the earlier phase it claims, whatever ended in between.
THEOREM LifecycleRecordsBacked == Spec => []RecordsBacked
<1>1. RInv => RecordsBacked
  BY DEF RInv, JournalInv, Issued, RecordsBacked
<1> QED
  BY <1>1, LifecycleRecords, PTL

\* The live credential of a server is a complete version made for that server,
\* tried before it went live, on a server its lineage's owner configured.
THEOREM LifecycleActiveIsVouchedFor == Spec => []ActiveIsVouchedFor
<1>1. RInv => ActiveIsVouchedFor
  BY DEF RInv, LiveInv, ActiveIsVouchedFor
<1> QED
  BY <1>1, LifecycleRecords, PTL

\* The owner a rotation names is the verified provision that configured the
\* server of the credential it replaces.
THEOREM LifecycleOwnerIsProvision == Spec => []OwnerIsProvision
<1>1. IInv /\ RInv => OwnerIsProvision
  <2> SUFFICES ASSUME IInv, RInv, NEW o \in Ops, plan[o] # None, plan[o].intent = "rotate"
               PROVE  LET before == plan[plan[o].previous]
                          owner  == plan[plan[o].owner]
                      IN  /\ plan[o].previous # None
                          /\ before.owner = plan[o].owner
                          /\ before.target = plan[o].target
                          /\ owner.intent = "provision"
                          /\ "verified" \in journal[plan[o].owner].phases
    BY DEF OwnerIsProvision
  <2>1. /\ Inheritable(plan[o].previous, plan[o].target)
        /\ plan[o].owner = plan[plan[o].previous].owner
    BY DEF RInv, LineageInv
  <2> QED
    BY <2>1, LifecycleAssumption DEF Inheritable
<1> QED
  BY <1>1, LifecycleRecords, PTL

\* The owner of a live credential has been delivered, so its apply is over.
LEMMA OwnerOfLiveIsDelivering ==
    ASSUME IInv, RInv, NEW t \in Targets, active[t] # None
    PROVE  /\ db[t].owner \in Ops
           /\ "delivering" \in journal[db[t].owner].phases
<1> DEFINE g == active[t]
           owner == plan[g].owner
<1>1. g \in Ops /\ plan[g] # None /\ "verifying" \in journal[g].phases /\ db[t].owner = owner
  BY DEF IInv, TypeOK, RInv, LiveInv
<1>2. plan[g] \in Plan /\ owner \in Ops /\ plan[g].intent \in {"provision", "rotate"}
  BY <1>1, PlanTyped DEF IInv, Plan, Intents
<1>3. "delivering" \in journal[g].phases
  BY <1>1 DEF RInv, JournalInv
<1>4. plan[g].intent = "rotate" => "verified" \in journal[owner].phases
  BY <1>1 DEF RInv, LineageInv, Inheritable
<1>5. plan[g].intent = "rotate" => "delivering" \in journal[owner].phases
  BY <1>2, <1>4 DEF RInv, JournalInv
<1>6. plan[g].intent = "provision" => owner = g
  BY <1>1 DEF RInv, LineageInv
<1> QED
  BY <1>1, <1>2, <1>3, <1>5, <1>6

\* While a credential is live on a server, no command changes the role or the
\* owned files of that server: apply is refused once its operation is delivered.
THEOREM LifecycleServerUntouchedWhileLive == Spec => ServerUntouchedWhileLive
<1>1. IInv /\ RInv /\ [Next]_vars =>
        [\A t \in Targets : (active[t] # None /\ pc' # pc) => db'[t] = db[t]]_vars
  <2> SUFFICES ASSUME IInv, RInv, Next, NEW t \in Targets, active[t] # None, pc' # pc,
                      db'[t] # db[t]
               PROVE  FALSE
    BY DEF vars
  <2>1. PICK p \in Procs : CloseRole(p) \/ InstallFiles(p) \/ EnableRole(p)
    <3>1. ASSUME NEW p \in Procs, Start(p) \/ Halt(p) PROVE db' = db
      BY <3>1 DEF Start, StartPrepare, StartExecute, Halt, Refuse, Stop, TearJournal,
         TearArtifact, OnlyReads, stateVars
    <3>2. ASSUME World PROVE pc' = pc
      BY <3>2 DEF World, Restart, EditConfig, LoseLogin, Expire, procVars
    <3>3. ASSUME NEW p \in Procs, Work(p), ~(CloseRole(p) \/ InstallFiles(p) \/ EnableRole(p))
          PROVE  db' = db
      BY <3>3 DEF Work, Pass, RecordProgress, Finish, PrepareStep, Observe, CreateOperation,
         WritePlan, RecordPrepared, IssueStep, Begin, ReuseGeneration, StartGeneration,
         CompleteGeneration, SaveIssuance, ApplyStep, SaveApplied, DeliverStep, EnterDelivery,
         ReuseVersion, StartVersion, WriteReceipt, Publish, SaveDelivery, Record, Save,
         OnlyReads, stateVars
    <3> QED
      BY <3>1, <3>2, <3>3 DEF Next
  <2>2. /\ pc[p] \in Changing
        /\ OnlyOwnChanges(cur[p], at[p])
        /\ \A u \in Targets \ {at[p]} : db'[u] = db[u]
    BY <2>1 DEF CloseRole, InstallFiles, EnableRole, Step, Permitted, Changing, IInv, TypeOK
  <2>3. at[p] = t
    BY <2>2
  <2>4. cmd[p] = "apply" /\ "delivering" \notin journal[cur[p]].phases
    BY <2>2 DEF RInv, StepInv, Achieved, Applying
  <2>5. db[t].owner = cur[p]
    BY <2>2, <2>3, OwnerOfLiveIsDelivering, LifecycleAssumption DEF OnlyOwnChanges
  <2> QED
    BY <2>4, <2>5, OwnerOfLiveIsDelivering
<1> QED
  BY <1>1, LifecycleRecords, PTL DEF Spec, ServerUntouchedWhileLive

-----------------------------------------------------------------------------
(* The history.  A lineage has no circle, since a plan names what was        *)
(* planned before it: there is a sequence for each operation that extends    *)
(* that of the revision it was planned on (ChainInv).                        *)

LEMMA LeastNat ==
    ASSUME NEW T, T \subseteq Nat, T # {}
    PROVE  \E n \in T : \A m \in T : n <= m
<1> DEFINE R == OpToRel(<, Nat)
<1>1. \A m, n \in Nat : m < n => <<m, n>> \in R
  BY DEF OpToRel
<1>2. IsWellFoundedOn(R, Nat)
  BY NatLessThanWellFounded
<1> HIDE DEF R
<1>3. PICK n \in T : \A m \in T : ~(<<m, n>> \in R)
  BY <1>2, WFMin
<1>4. \A m \in T : ~(m < n)
  BY <1>1, <1>3
<1> QED
  BY <1>4

IsLineage(f, prev) ==
    f = [g \in Ops \cup {None} |-> IF g = None THEN <<>> ELSE Append(f[prev[g]], g)]

\* There is one lineage of each operation: the shortest on which two of them
\* differed would differ in the revision it was planned on.
LEMMA OneLineage ==
    ASSUME NEW P \in [Ops -> Ops \cup {None}], NEW f \in [Ops \cup {None} -> Seq(Ops)],
           IsLineage(f, P), NEW h, IsLineage(h, P)
    PROVE  h = f
<1> DEFINE D == {g \in Ops : h[g] # f[g]}
           T == {Len(f[g]) : g \in D}
<1>1. f[None] = <<>> /\ h[None] = <<>>
  BY DEF IsLineage
<1>2. \A g \in Ops : f[g] = Append(f[P[g]], g) /\ h[g] = Append(h[P[g]], g)
  BY LifecycleAssumption DEF IsLineage
<1>3. ASSUME D # {} PROVE FALSE
  <2>1. T \subseteq Nat /\ T # {}
    <3>1. \A g \in D : Len(f[g]) \in Nat
      BY LenProperties
    <3> QED
      BY <1>3, <3>1
  <2>2. PICK n \in T : \A m \in T : n <= m
    <3> HIDE DEF T
    <3> QED
      BY <2>1, LeastNat
  <2>3. PICK g \in D : n = Len(f[g])
    OBVIOUS
  <2>4. \A x \in D : Len(f[g]) <= Len(f[x])
    BY <2>2, <2>3
  <2>5. P[g] \in Ops \cup {None} /\ g \in Ops /\ f[P[g]] \in Seq(Ops)
    OBVIOUS
  <2>6. Len(f[g]) = Len(f[P[g]]) + 1
    BY <1>2, <2>5, AppendProperties
  <2>7. Len(f[P[g]]) \in Nat
    BY <2>5, LenProperties
  <2>8. P[g] \notin D
    BY <2>4, <2>6, <2>7
  <2>9. h[P[g]] = f[P[g]]
    BY <1>1, <2>5, <2>8
  <2> QED
    BY <1>2, <2>3, <2>9
<1>4. \A g \in Ops \cup {None} : h[g] = f[g]
  BY <1>1, <1>3
<1>5. h = [g \in Ops \cup {None} |-> h[g]]
  BY DEF IsLineage
<1>6. f = [g \in Ops \cup {None} |-> f[g]]
  OBVIOUS
<1> QED
  BY <1>4, <1>5, <1>6

\* What a lineage is made of: planned operations, each of them once.
Chain(f) ==
    /\ f \in [Ops \cup {None} -> Seq(Ops)]
    /\ f[None] = <<>>
    /\ \A g \in Ops :
         /\ f[g] = Append(f[Previous[g]], g)
         /\ \A i \in 1 .. Len(f[Previous[g]]) : f[Previous[g]][i] # g
         /\ plan[g] # None => \A i \in 1 .. Len(f[g]) : plan[f[g][i]] # None

ChainInv == \E f : Chain(f)

\* What prepare saw, what a plan names and what has a version was planned before.
PlannedInv ==
    /\ \A p \in Procs : seen[p].previous # None => plan[seen[p].previous] # None
    /\ \A o \in Ops : /\ Previous[o] # None => plan[Previous[o]] # None
                      /\ version[o] # "absent" => plan[o] # None

HistoryInv == PlannedInv /\ ChainInv

LEMMA PreviousTyped == IInv => Previous \in [Ops -> Ops \cup {None}]
  BY PlanTyped DEF IInv, Previous, Plan

LEMMA LineageIsChain == IInv /\ ChainInv => Chain(Lineage)
<1> SUFFICES ASSUME IInv, ChainInv PROVE Chain(Lineage)
  OBVIOUS
<1>1. PICK f : Chain(f)
  BY DEF ChainInv
<1>2. \A g \in Ops : f[g] = Append(f[Previous[g]], g)
  BY <1>1 DEF Chain
<1>3. f[None] = <<>> /\ f \in [Ops \cup {None} -> Seq(Ops)]
  BY <1>1 DEF Chain
<1>4. IsLineage(f, Previous)
  BY <1>2, <1>3 DEF IsLineage
<1>5. IsLineage(Lineage, Previous)
  BY <1>4 DEF IsLineage, Lineage
<1>6. Lineage = f
  BY <1>3, <1>4, <1>5, PreviousTyped, OneLineage
<1> QED
  BY <1>1, <1>6

-----------------------------------------------------------------------------
(* The steps that matter to the history.                                     *)

\* Who starts, ends or disturbs a command touches no plan, version or pointer.
LEMMA NoWork ==
    ASSUME Next, \A p \in Procs : ~Work(p)
    PROVE  UNCHANGED <<plan, version, active>>
<1>1. ASSUME NEW p \in Procs, Start(p) PROVE UNCHANGED <<plan, version, active>>
  BY <1>1 DEF Start, StartPrepare, StartExecute, OnlyReads, stateVars
<1>2. ASSUME NEW p \in Procs, Halt(p) PROVE UNCHANGED <<plan, version, active>>
  BY <1>2 DEF Halt, Refuse, Stop, TearJournal, TearArtifact, OnlyReads, stateVars
<1>3. ASSUME World PROVE UNCHANGED <<plan, version, active>>
  BY <1>3 DEF World, Restart, EditConfig, LoseLogin, Expire, stateVars
<1> QED
  BY <1>1, <1>2, <1>3 DEF Next

\* Of the steps of a command few do.
LEMMA WorkSteps ==
    ASSUME NEW p \in Procs, Work(p)
    PROVE  /\ plan' = plan \/ WritePlan(p)
           /\ version' = version \/ StartVersion(p) \/ WriteReceipt(p)
           /\ active' = active \/ Publish(p)
<1>1. CASE Pass(p) \/ RecordProgress(p) \/ Finish(p) \/ PrepareStep(p)
  BY <1>1 DEF Pass, RecordProgress, Finish, PrepareStep, Observe, CreateOperation, WritePlan,
     RecordPrepared, Record, OnlyReads, stateVars
<1>2. CASE IssueStep(p) \/ ApplyStep(p)
  BY <1>2 DEF IssueStep, Begin, ReuseGeneration, StartGeneration, CompleteGeneration,
     SaveIssuance, ApplyStep, CloseRole, InstallFiles, EnableRole, SaveApplied, Record, Save,
     OnlyReads, stateVars
<1>3. CASE DeliverStep(p)
  BY <1>3 DEF DeliverStep, EnterDelivery, ReuseVersion, StartVersion, WriteReceipt, Publish,
     SaveDelivery, Save, OnlyReads, stateVars
<1> QED
  BY <1>1, <1>2, <1>3 DEF Work

\* prepare sees the active revision, and a process that ends forgets what it saw.
LEMMA SeenSteps ==
    ASSUME IInv, Next, NEW q \in Procs
    PROVE  \/ seen'[q] = seen[q]
           \/ seen'[q].previous = None
           \/ \E t \in Targets : seen'[q].previous = active[t]
<1>1. ASSUME NEW p \in Procs, End(p) PROVE seen'[q] = seen[q] \/ seen'[q].previous = None
  BY <1>1 DEF End, NothingSeen, IInv, TypeOK
<1>2. ASSUME NEW p \in Procs, Observe(p)
      PROVE  seen'[q] = seen[q] \/ \E t \in Targets : seen'[q].previous = active[t]
  <2>1. at[p] \in Targets
    BY <1>2 DEF Observe, Step, IInv, LockInv
  <2> QED
    BY <1>2, <2>1 DEF Observe, IInv, TypeOK
<1>3. ASSUME NEW p \in Procs, Start(p) \/ Halt(p) PROVE seen' = seen \/ End(p)
  BY <1>3 DEF Start, StartPrepare, StartExecute, Halt, Refuse, Stop, TearJournal, TearArtifact
<1>4. ASSUME World PROVE seen' = seen
  BY <1>4 DEF World, Restart, EditConfig, LoseLogin, Expire, procVars
<1>5. ASSUME NEW p \in Procs, Work(p) PROVE seen' = seen \/ Observe(p) \/ End(p)
  BY <1>5 DEF Work, Pass, RecordProgress, Finish, PrepareStep, CreateOperation, WritePlan,
     RecordPrepared, IssueStep, Begin, ReuseGeneration, StartGeneration, CompleteGeneration,
     SaveIssuance, ApplyStep, CloseRole, InstallFiles, EnableRole, SaveApplied, DeliverStep,
     EnterDelivery, ReuseVersion, StartVersion, WriteReceipt, Publish, SaveDelivery, Goto
<1> QED
  BY <1>1, <1>2, <1>3, <1>4, <1>5 DEF Next

\* A plan is written once, for an operation nothing names yet.
LEMMA WrittenPlan ==
    ASSUME IInv, RInv, PlannedInv, NEW p \in Procs, WritePlan(p)
    PROVE  \E c \in Ops, b \in Ops \cup {None} :
             /\ plan[c] = None /\ plan'[c] # None /\ version[c] = "absent"
             /\ b # None => plan[b] # None
             /\ \A g \in Ops : Previous[g] # c
             /\ \A g \in Ops \ {c} : plan'[g] = plan[g]
             /\ Previous' = [Previous EXCEPT ![c] = b]
             /\ UNCHANGED <<version, active, seen>>
<1>1. PICK c \in Ops, b \in Ops \cup {None} : c = cur[p] /\ b = seen[p].previous
  BY DEF WritePlan, Step, IInv, TypeOK, LockInv, WithOperation, Labels
<1>2. plan[c] = None
  BY <1>1 DEF WritePlan, Step, RInv, PrepareInv
<1>3. UNCHANGED <<version, active, seen>> /\ \A g \in Ops \ {c} : plan'[g] = plan[g]
  BY <1>1 DEF WritePlan, Goto, IInv, TypeOK
<1>4. plan'[c] # None /\ plan'[c].previous = b
  <2>1. plan'[c] = NewPlan(p) /\ pc[p] = "write_plan"
    BY <1>1 DEF WritePlan, Step, NewPlan, IInv, TypeOK
  <2>2. NewPlan(p).previous = b
    BY <1>1 DEF NewPlan
  <2> QED
    BY <2>1, <2>2, NewPlanTyped
<1>5. \A g \in Ops : Previous[g] # c
  BY <1>2, LifecycleAssumption DEF PlannedInv
<1>6. Previous' = [Previous EXCEPT ![c] = b]
  BY <1>3, <1>4 DEF Previous
<1> QED
  BY <1>1, <1>2, <1>3, <1>4, <1>5, <1>6 DEF PlannedInv

LEMMA InitHistoryInv == Init => HistoryInv
<1> SUFFICES ASSUME Init PROVE HistoryInv
  OBVIOUS
<1>1. PlannedInv
  BY DEF Init, PlannedInv, NothingSeen, Previous
<1>2. ChainInv
  <2> DEFINE f == [g \in Ops \cup {None} |-> IF g = None THEN <<>> ELSE Append(<<>>, g)]
  <2>1. f[None] = <<>> /\ \A g \in Ops : f[g] = Append(<<>>, g) /\ f[g] \in Seq(Ops)
    BY LifecycleAssumption, AppendProperties, EmptySeq
  <2>2. f \in [Ops \cup {None} -> Seq(Ops)]
    BY <2>1
  <2>3. \A g \in Ops : Previous[g] = None /\ plan[g] = None
    BY DEF Init, Previous
  <2> HIDE DEF f
  <2>4. ASSUME NEW g \in Ops
        PROVE  /\ f[g] = Append(f[Previous[g]], g)
               /\ \A i \in 1 .. Len(f[Previous[g]]) : f[Previous[g]][i] # g
    <3>1. f[Previous[g]] = <<>>
      BY <2>1, <2>3
    <3> QED
      BY <2>1, <3>1
  <2>5. Chain(f)
    BY <2>1, <2>2, <2>3, <2>4 DEF Chain
  <2> QED
    BY <2>5 DEF ChainInv
<1> QED
  BY <1>1, <1>2 DEF HistoryInv

\* The lineages of the others stay as they are when one more operation is planned.
LEMMA ChainGrows ==
    ASSUME IInv, NEW f, Chain(f), NEW c \in Ops, NEW b \in Ops \cup {None},
           plan[c] = None, plan'[c] # None, b # None => plan[b] # None,
           \A g \in Ops : Previous[g] # c,
           \A g \in Ops \ {c} : plan'[g] = plan[g],
           Previous' = [Previous EXCEPT ![c] = b]
    PROVE  \E h : Chain(h)' /\ \A g \in (Ops \cup {None}) \ {c} : h[g] = f[g]
<1> DEFINE h == [f EXCEPT ![c] = Append(f[b], c)]
<1>1. Previous \in [Ops -> Ops \cup {None}] /\ f \in [Ops \cup {None} -> Seq(Ops)] /\ c # None
  BY PreviousTyped, LifecycleAssumption DEF Chain
<1>2. f[b] \in Seq(Ops) /\ Append(f[b], c) \in Seq(Ops) /\ b # c
  BY <1>1, AppendProperties, LifecycleAssumption
<1>3. /\ h \in [Ops \cup {None} -> Seq(Ops)]
      /\ h[c] = Append(f[b], c)
      /\ \A g \in (Ops \cup {None}) \ {c} : h[g] = f[g]
  BY <1>1, <1>2
<1> HIDE DEF h
<1>4. \A i \in 1 .. Len(f[b]) : f[b][i] \in Ops /\ f[b][i] # c /\ plan[f[b][i]] # None
  <2>1. CASE b = None
    BY <2>1 DEF Chain
  <2>2. CASE b # None
    BY <2>2, <1>2, ElementOfSeq DEF Chain
  <2> QED
    BY <2>1, <2>2
<1>5. ASSUME NEW g \in Ops
      PROVE  /\ h[g] = Append(h[Previous'[g]], g)
             /\ \A i \in 1 .. Len(h[Previous'[g]]) : h[Previous'[g]][i] # g
             /\ plan'[g] # None => \A i \in 1 .. Len(h[g]) : plan'[h[g][i]] # None
  <2>1. CASE g = c
    <3>1. Previous'[g] = b /\ h[b] = f[b]
      BY <1>1, <1>2, <1>3, <2>1
    <3>2. PICK s \in Seq(Ops) : s = f[b]
      BY <1>2
    <3>3. h[g] = Append(s, c) /\ \A i \in 1 .. Len(s) : plan'[s[i]] # None
      BY <1>3, <1>4, <2>1, <3>2
    <3>4. /\ Len(Append(s, c)) = Len(s) + 1
          /\ \A i \in 1 .. Len(s) : Append(s, c)[i] = s[i]
          /\ Append(s, c)[Len(s) + 1] = c
      BY AppendProperties
    <3>5. \A i \in 1 .. Len(h[g]) : plan'[h[g][i]] # None
      BY <3>3, <3>4, LenProperties
    <3> QED
      BY <1>3, <1>4, <2>1, <3>1, <3>5
  <2>2. CASE g # c
    <3>1. Previous'[g] = Previous[g] /\ Previous[g] # c /\ Previous[g] \in Ops \cup {None}
      BY <1>1, <2>2
    <3>2. h[g] = f[g] /\ h[Previous[g]] = f[Previous[g]]
      BY <1>3, <2>2, <3>1
    <3>3. /\ f[g] = Append(f[Previous[g]], g)
          /\ \A i \in 1 .. Len(f[Previous[g]]) : f[Previous[g]][i] # g
          /\ plan[g] # None => \A i \in 1 .. Len(f[g]) : plan[f[g][i]] # None
      BY DEF Chain
    <3>4. f[g] \in Seq(Ops)
      BY <1>1
    <3>5. plan'[g] # None => \A i \in 1 .. Len(f[g]) : plan'[f[g][i]] # None
      <4>1. \A i \in 1 .. Len(f[g]) : f[g][i] \in Ops
        BY <3>4, ElementOfSeq
      <4> QED
        BY <2>2, <3>3, <4>1
    <3> QED
      BY <3>1, <3>2, <3>3, <3>5
  <2> QED
    BY <2>1, <2>2
<1>6. h[None] = <<>>
  BY <1>1, <1>3 DEF Chain
<1>7. Chain(h)'
  BY <1>3, <1>5, <1>6 DEF Chain
<1> QED
  BY <1>3, <1>7

\* Versions are made for what is planned, and the live ones are.
LEMMA NextPlannedInv ==
    ASSUME IInv, RInv, PlannedInv, Next,
           \A o \in Ops : plan[o] # None => plan'[o] # None,
           \A o \in Ops : Previous'[o] = Previous[o] \/ Previous'[o] = None
                                                  \/ plan[Previous'[o]] # None
    PROVE  PlannedInv'
<1>1. Previous \in [Ops -> Ops \cup {None}] /\ IInv'
  BY PreviousTyped, NextIInv
<1>2. Previous' \in [Ops -> Ops \cup {None}]
  BY <1>1, PlanTyped DEF IInv, TypeOK, Previous, Plan
<1>3. ASSUME NEW q \in Procs, seen'[q].previous # None PROVE plan'[seen'[q].previous] # None
  <2>1. seen'[q].previous \in Ops
    BY <1>1, <1>3 DEF IInv, TypeOK
  <2>2. plan[seen'[q].previous] # None
    BY <1>3, SeenSteps DEF PlannedInv, RInv, LiveInv
  <2> QED
    BY <2>1, <2>2
<1>4. ASSUME NEW o \in Ops, Previous'[o] # None PROVE plan'[Previous'[o]] # None
  BY <1>2, <1>4 DEF PlannedInv
<1>5. ASSUME NEW o \in Ops, version'[o] # "absent" PROVE plan'[o] # None
  <2>1. CASE version'[o] = version[o]
    BY <1>5, <2>1 DEF PlannedInv
  <2>2. CASE version'[o] # version[o]
    <3>1. PICK p \in Procs : StartVersion(p) \/ WriteReceipt(p)
      BY <2>2, NoWork, WorkSteps
    <3>2. o = cur[p] /\ pc[p] \in Loaded
      BY <2>2, <3>1 DEF StartVersion, WriteReceipt, Step, IInv, TypeOK, Loaded, WithOperation, Labels
    <3> QED
      BY <3>2 DEF IInv, PlanInv
  <2> QED
    BY <2>1, <2>2
<1> QED
  BY <1>3, <1>4, <1>5 DEF PlannedInv

LEMMA NextHistoryInv == IInv /\ RInv /\ HistoryInv /\ [Next]_vars => HistoryInv'
<1> SUFFICES ASSUME IInv, RInv, HistoryInv, [Next]_vars PROVE HistoryInv'
  OBVIOUS
<1>1. PlannedInv /\ ChainInv
  BY DEF HistoryInv
<1>2. ASSUME plan' = plan PROVE ChainInv'
  <2>1. PICK f : Chain(f)
    BY <1>1 DEF ChainInv
  <2>2. Previous' = Previous
    BY <1>2 DEF Previous
  <2>3. Chain(f)'
    BY <1>2, <2>1, <2>2 DEF Chain
  <2> QED
    BY <2>3 DEF ChainInv
<1>3. CASE UNCHANGED vars
  BY <1>1, <1>2, <1>3 DEF vars, PlannedInv, HistoryInv, Previous
<1>4. CASE Next /\ plan' = plan
  <2>1. Previous' = Previous
    BY <1>4 DEF Previous
  <2> QED
    BY <1>1, <1>2, <1>4, <2>1, NextPlannedInv DEF HistoryInv
<1>5. ASSUME NEW p \in Procs, WritePlan(p) PROVE HistoryInv'
  <2>1. PICK c \in Ops, b \in Ops \cup {None} :
             /\ plan[c] = None /\ plan'[c] # None /\ version[c] = "absent"
             /\ b # None => plan[b] # None
             /\ \A g \in Ops : Previous[g] # c
             /\ \A g \in Ops \ {c} : plan'[g] = plan[g]
             /\ Previous' = [Previous EXCEPT ![c] = b]
             /\ UNCHANGED <<version, active, seen>>
    BY <1>1, <1>5, WrittenPlan
  <2>2. ChainInv'
    <3>1. PICK f : Chain(f)
      BY <1>1 DEF ChainInv
    <3>2. PICK h : Chain(h)'
      BY <2>1, <3>1, ChainGrows
    <3> QED
      BY <3>2 DEF ChainInv
  <2>3. Next
    BY <1>5 DEF Next, Work, PrepareStep
  <2>4. PlannedInv'
    <3>1. \A o \in Ops : plan[o] # None => plan'[o] # None
      BY <2>1
    <3>2. \A o \in Ops : Previous'[o] = Previous[o] \/ Previous'[o] = None
                                                   \/ plan[Previous'[o]] # None
      BY <2>1, PreviousTyped
    <3> QED
      BY <1>1, <2>3, <3>1, <3>2, NextPlannedInv
  <2> QED
    BY <2>2, <2>4 DEF HistoryInv
<1>6. CASE Next
  <2>1. plan' = plan \/ \E p \in Procs : WritePlan(p)
    BY <1>6, NoWork, WorkSteps
  <2> QED
    BY <1>4, <1>5, <1>6, <2>1
<1> QED
  BY <1>3, <1>6

-----------------------------------------------------------------------------
(* The refinement.                                                           *)

Live == [t \in Targets |-> Lineage[active[t]]]
SealedFor == [t \in Targets |-> SealedOn(t)]

LEMMA LineageIsChainAgain == IInv' /\ ChainInv' => Chain(Lineage)'
  BY LineageIsChain, PTL

\* The lineage of a live revision changes only with the pointer.
LEMMA LiveStays ==
    ASSUME IInv, IInv', RInv, HistoryInv, HistoryInv', Next, NEW t \in Targets,
           active'[t] = active[t]
    PROVE  Lineage'[active[t]] = Lineage[active[t]]
<1>1. CASE plan' = plan
  BY <1>1 DEF Lineage, Previous
<1>2. ASSUME NEW p \in Procs, WritePlan(p) PROVE Lineage'[active[t]] = Lineage[active[t]]
  <2>1. PICK c \in Ops, b \in Ops \cup {None} :
             /\ plan[c] = None /\ plan'[c] # None /\ version[c] = "absent"
             /\ b # None => plan[b] # None
             /\ \A g \in Ops : Previous[g] # c
             /\ \A g \in Ops \ {c} : plan'[g] = plan[g]
             /\ Previous' = [Previous EXCEPT ![c] = b]
             /\ UNCHANGED <<version, active, seen>>
    BY <1>2, WrittenPlan DEF HistoryInv
  <2>2. ASSUME NEW f, Chain(f)
        PROVE  \E h : Chain(h)' /\ \A g \in (Ops \cup {None}) \ {c} : h[g] = f[g]
    BY <2>1, <2>2, ChainGrows
  <2>3. PICK h : Chain(h)' /\ \A g \in (Ops \cup {None}) \ {c} : h[g] = Lineage[g]
    BY <2>2, LineageIsChain DEF HistoryInv
  <2>4. h = Lineage'
    <3>1. Previous' \in [Ops -> Ops \cup {None}]
      BY <2>1, PreviousTyped
    <3>2. PICK k : k = Lineage' /\ Chain(k)'
      BY LineageIsChainAgain DEF HistoryInv
    <3>3. PICK Q \in [Ops -> Ops \cup {None}] : Q = Previous'
      BY <3>1
    <3>4. ASSUME NEW f, Chain(f)'
          PROVE  IsLineage(f, Q) /\ f \in [Ops \cup {None} -> Seq(Ops)]
      <4>1. f \in [Ops \cup {None} -> Seq(Ops)] /\ f[None] = <<>>
        BY <3>4 DEF Chain
      <4>2. \A g \in Ops : f[g] = Append(f[Q[g]], g)
        BY <3>3, <3>4 DEF Chain
      <4> QED
        BY <4>1, <4>2 DEF IsLineage
    <3>5. IsLineage(h, Q) /\ h \in [Ops \cup {None} -> Seq(Ops)]
      BY <2>3, <3>4
    <3>6. IsLineage(k, Q)
      BY <3>2, <3>4
    <3> QED
      BY <3>2, <3>5, <3>6, OneLineage
  <2>5. active[t] \in (Ops \cup {None}) \ {c}
    <3>1. active[t] \in Ops \cup {None} /\ (active[t] # None => plan[active[t]] # None)
      BY DEF IInv, TypeOK, RInv, LiveInv
    <3> QED
      BY <2>1, <3>1, LifecycleAssumption
  <2> QED
    BY <2>3, <2>4, <2>5
<1> QED
  BY <1>1, <1>2, NoWork, WorkSteps

\* A new pointer extends the history by a sealed revision that is not in it.
LEMMA LiveGrows ==
    ASSUME IInv, RInv, HistoryInv, NEW p \in Procs, Publish(p), active' # active
    PROVE  \E t \in Targets, g \in Ops :
             /\ g \in SealedOn(t)
             /\ g \notin History!ToSet(Lineage[active[t]])
             /\ Lineage'[g] = Append(Lineage[active[t]], g)
             /\ active' = [active EXCEPT ![t] = g]
             /\ UNCHANGED <<plan, version>>
<1>1. PICK t \in Targets, g \in Ops : t = at[p] /\ g = cur[p]
  BY DEF Publish, Step, IInv, TypeOK, LockInv, WithOperation, Labels
<1>2. /\ pc[p] = "publish" /\ NotSuperseded(g, t)
      /\ active' = [active EXCEPT ![t] = g] /\ UNCHANGED <<plan, version>>
  BY <1>1 DEF Publish, Step, Permitted, stateVars
<1>3. plan[g] # None /\ plan[g].target = t /\ version[g] = "complete"
  BY <1>1, <1>2 DEF IInv, PlanInv, Loaded, WithOperation, Labels, RInv, StepInv, Achieved,
     Sealed, Trying
<1>4. active[t] = Previous[g] /\ active[t] \in Ops \cup {None}
  <2>1. active[t] # g /\ active[t] \in Ops \cup {None}
    BY <1>2 DEF IInv, TypeOK
  <2> QED
    BY <1>2, <1>3, <2>1 DEF NotSuperseded, Previous
<1>5. Lineage' = Lineage
  BY <1>2 DEF Lineage, Previous
<1>6. PICK f : f = Lineage /\ Chain(f)
  BY LineageIsChain DEF HistoryInv
<1>7. f[g] = Append(f[active[t]], g) /\ \A i \in 1 .. Len(f[active[t]]) : f[active[t]][i] # g
  <2>1. /\ f[g] = Append(f[Previous[g]], g)
        /\ \A i \in 1 .. Len(f[Previous[g]]) : f[Previous[g]][i] # g
    BY <1>6 DEF Chain
  <2> QED
    BY <1>4, <2>1
<1>8. f[active[t]] \in Seq(Ops)
  BY <1>4, <1>6 DEF Chain
<1>9. g \notin History!ToSet(f[active[t]])
  <2>1. DOMAIN f[active[t]] = 1 .. Len(f[active[t]])
    BY <1>8
  <2> QED
    BY <1>7, <2>1 DEF History!ToSet
<1>10. g \in SealedOn(t)
  BY <1>3 DEF SealedOn
<1> QED
  BY <1>2, <1>5, <1>6, <1>7, <1>9, <1>10

\* What is sealed for a target stays so, and grows with a receipt.
LEMMA SealedGrows ==
    ASSUME IInv, RInv, HistoryInv, Next
    PROVE  \/ SealedFor' = SealedFor
           \/ \E t \in Targets, g \in Ops :
                /\ g \notin SealedOn(t)
                /\ SealedFor' = [SealedFor EXCEPT ![t] = @ \cup {g}]
                /\ UNCHANGED <<plan, active>>
<1>1. CASE version' = version
  <2>1. ASSUME NEW t \in Targets, NEW o \in Ops
        PROVE  o \in SealedOn(t)' <=> o \in SealedOn(t)
    <3>1. CASE version[o] = "absent"
      BY <1>1, <3>1 DEF SealedOn
    <3>2. CASE version[o] # "absent"
      <4>1. plan'[o] = plan[o]
        <5>1. plan' = plan \/ \E p \in Procs : WritePlan(p)
          BY NoWork, WorkSteps
        <5>2. ASSUME NEW p \in Procs, WritePlan(p) PROVE plan'[o] = plan[o]
          BY <3>2, <5>2, WrittenPlan DEF HistoryInv
        <5> QED
          BY <5>1, <5>2
      <4> QED
        BY <1>1, <4>1 DEF SealedOn
    <3> QED
      BY <3>1, <3>2
  <2>2. \A t \in Targets : SealedOn(t)' = SealedOn(t)
    BY <2>1 DEF SealedOn
  <2> QED
    BY <2>2 DEF SealedFor
<1>2. ASSUME NEW p \in Procs, StartVersion(p) PROVE SealedFor' = SealedFor
  <2>1. /\ version[cur[p]] = "absent" /\ version' = [version EXCEPT ![cur[p]] = "partial"]
        /\ plan' = plan /\ version \in [Ops -> {"absent", "partial", "complete"}]
    BY <1>2 DEF StartVersion, stateVars, IInv, TypeOK
  <2>2. \A o \in Ops : version'[o] = "complete" <=> version[o] = "complete"
    BY <2>1
  <2>3. \A t \in Targets : SealedOn(t)' = SealedOn(t)
    BY <2>1, <2>2 DEF SealedOn
  <2> QED
    BY <2>3 DEF SealedFor
<1>3. ASSUME NEW p \in Procs, WriteReceipt(p)
      PROVE  \/ SealedFor' = SealedFor
             \/ \E t \in Targets, g \in Ops :
                  /\ g \notin SealedOn(t)
                  /\ SealedFor' = [SealedFor EXCEPT ![t] = @ \cup {g}]
                  /\ UNCHANGED <<plan, active>>
  <2>1. PICK t \in Targets, g \in Ops : t = at[p] /\ g = cur[p]
    BY <1>3 DEF WriteReceipt, Step, IInv, TypeOK, LockInv, WithOperation, Labels
  <2>2. plan[g] # None /\ plan[g].target = t
    BY <1>3, <2>1 DEF WriteReceipt, Step, IInv, PlanInv, Loaded, WithOperation, Labels
  <2>3. version' = [version EXCEPT ![g] = "complete"] /\ UNCHANGED <<plan, active>>
    BY <1>3, <2>1 DEF WriteReceipt, stateVars
  <2>4. version'[g] = "complete" /\ \A o \in Ops \ {g} : version'[o] = version[o]
    BY <2>3 DEF IInv, TypeOK
  <2>5. SealedOn(t)' = SealedOn(t) \cup {g}
    BY <2>2, <2>3, <2>4 DEF SealedOn
  <2>6. \A u \in Targets \ {t} : SealedOn(u)' = SealedOn(u)
    BY <2>2, <2>3, <2>4 DEF SealedOn
  <2>7. SealedFor' = [SealedFor EXCEPT ![t] = @ \cup {g}]
    BY <2>5, <2>6 DEF SealedFor
  <2>8. CASE g \in SealedOn(t)
    <3>1. \A u \in Targets : SealedOn(u)' = SealedOn(u)
      BY <2>5, <2>6, <2>8
    <3> QED
      BY <3>1 DEF SealedFor
  <2> QED
    BY <2>3, <2>7, <2>8
<1> QED
  BY <1>1, <1>2, <1>3, NoWork, WorkSteps

LEMMA StepHistory ==
    IInv /\ IInv' /\ RInv /\ HistoryInv /\ HistoryInv' /\ [Next]_vars
      => [History!HistoryNext]_<<Live, SealedFor>>
<1> SUFFICES ASSUME IInv, IInv', RInv, HistoryInv, HistoryInv', [Next]_vars
             PROVE  History!HistoryNext \/ UNCHANGED <<Live, SealedFor>>
  OBVIOUS
<1>1. CASE UNCHANGED vars
  BY <1>1 DEF vars, Live, SealedFor, SealedOn, Lineage, Previous
<1>2. CASE Next /\ active' = active
  <2>1. Live' = Live
    BY <1>2, LiveStays DEF Live
  <2>2. ASSUME NEW t \in Targets, NEW g \in Ops, g \notin SealedOn(t),
               SealedFor' = [SealedFor EXCEPT ![t] = @ \cup {g}]
        PROVE  History!HistoryNext
    <3>1. History!Seal(t, g)
      BY <2>1, <2>2 DEF History!Seal, Live, SealedFor, SealedOn
    <3> QED
      BY <3>1 DEF History!HistoryNext
  <2> QED
    BY <1>2, <2>1, <2>2, SealedGrows
<1>3. CASE Next /\ active' # active
  <2>1. PICK p \in Procs : Publish(p)
    BY <1>3, NoWork, WorkSteps
  <2>2. PICK t \in Targets, g \in Ops :
             /\ g \in SealedOn(t)
             /\ g \notin History!ToSet(Lineage[active[t]])
             /\ Lineage'[g] = Append(Lineage[active[t]], g)
             /\ active' = [active EXCEPT ![t] = g]
             /\ UNCHANGED <<plan, version>>
    BY <1>3, <2>1, LiveGrows
  <2>3. SealedFor' = SealedFor
    BY <2>2 DEF SealedFor, SealedOn
  <2>4. Lineage' = Lineage
    BY <2>2 DEF Lineage, Previous
  <2>5. active'[t] = g /\ \A u \in Targets \ {t} : active'[u] = active[u]
    BY <2>2 DEF IInv, TypeOK
  <2>6. Live' = [Live EXCEPT ![t] = Append(@, g)]
    <3>1. Live'[t] = Append(Live[t], g) /\ \A u \in Targets \ {t} : Live'[u] = Live[u]
      BY <2>2, <2>4, <2>5 DEF Live
    <3>2. Live' = [u \in Targets |-> Live'[u]] /\ Live = [u \in Targets |-> Live[u]]
      BY DEF Live
    <3> QED
      BY <3>1, <3>2
  <2>7. History!Publish(t, g)
    BY <2>2, <2>3, <2>6 DEF History!Publish, Live, SealedFor, SealedOn
  <2> QED
    BY <2>7 DEF History!HistoryNext
<1> QED
  BY <1>1, <1>2, <1>3

\* The refinement: whatever commands run, end or are repeated on any servers, the
\* history of each store, read off the plans, only grows at its end, by a sealed
\* revision that was never live: prepare's revision is compared when it publishes.
THEOREM LifecycleImplementsHistory == Spec => ImplementsHistory
<1>1. Init => History!HistoryInit
  <2> SUFFICES ASSUME Init PROVE History!HistoryInit
    OBVIOUS
  <2>1. Lineage[None] = <<>>
    BY InitIInv, InitHistoryInv, LineageIsChain DEF HistoryInv, Chain
  <2>2. \A t \in Targets : active[t] = None /\ SealedOn(t) = {}
    BY DEF Init, SealedOn
  <2> QED
    BY <2>1, <2>2 DEF History!HistoryInit
<1>2. Spec => [](IInv /\ RInv /\ HistoryInv)
  BY InitIInv, InitRInv, InitHistoryInv, NextIInv, NextRInv, NextHistoryInv, PTL DEF Spec
<1> QED
  BY <1>1, <1>2, StepHistory, PTL
     DEF Spec, ImplementsHistory, History!HistorySpec, History!histVars, Live, SealedFor
-----------------------------------------------------------------------------
(* The owner of a live credential                                            *)

\* A rotation replaced the revision of o, whose rules the server keeps.
Replaced(o) == \E t \in Targets : active[t] \notin {None, o} /\ plan[active[t]].owner = o

\* What execute does not check and the operator must: an operation whose revision
\* a rotation has replaced is not begun again (local_lifecycle.py execute records
\* the start of a command whatever the journal ends in).
OwnersLeftAlone == [][\A p \in Procs : Begin(p) => ~Replaced(cur[p])]_vars

\* What _rotation_owner found last in an owner's journal is still last, unless
\* the line after it was cut.
Vouching(o) == journal[o].torn \/ journal[o].last = "verified"

\* The steps after the start record.
Started == Loaded \ {"begin"}

\* An owner configured the server of all it owns.
OwnerTargets ==
    \A g \in Ops : plan[g] # None =>
        plan[plan[g].owner] # None /\ plan[plan[g].owner].target = plan[g].target

\* The first record of an operation is not a second one.
FirstRecord ==
    \A p \in Procs : pc[p] = "record_prepared" => "verified" \notin journal[cur[p]].phases

\* The owner of a live rotation is finished, and nobody works on it.
LiveOwner ==
    \A t \in Targets : (active[t] # None /\ plan[active[t]].owner # active[t]) =>
        /\ Vouching(plan[active[t]].owner)
        /\ \A q \in Procs : pc[q] \in Started => cur[q] # plan[active[t]].owner

\* The owner of a rotation under way is finished.
RotatingOwner ==
    \A p \in Procs : (pc[p] \in Loaded /\ plan[cur[p]].owner # cur[p]) =>
        Vouching(plan[cur[p]].owner)

OwnersInv == OwnerTargets /\ FirstRecord /\ LiveOwner /\ RotatingOwner

\* Where a process comes from when it is past its start record, its load or its plan.
LEMMA Turn ==
    ASSUME IInv, NEW p \in Procs, Start(p) \/ Work(p) \/ Halt(p)
    PROVE  /\ \A q \in Procs \ {p} : pc'[q] = pc[q] /\ cur'[q] = cur[q]
           /\ pc'[p] \in Started => cur'[p] = cur[p] /\ (pc[p] \in Started \/ Begin(p))
           /\ pc'[p] \in Loaded => /\ cur'[p] = cur[p]
                                   /\ pc[p] \in Loaded \/ (pc[p] = "load" /\ Permitted(p))
           /\ pc'[p] = "record_prepared" => WritePlan(p)
<1> USE DEF IInv, TypeOK
<1>1. CASE End(p)
  <2>1. pc'[p] = "idle" /\ \A q \in Procs \ {p} : pc'[q] = pc[q] /\ cur'[q] = cur[q]
    BY <1>1 DEF End
  <2> QED
    BY <2>1 DEF Started, Loaded, WithOperation
<1>2. CASE Start(p)
  <2>1. pc'[p] \in {"observe", "load"} /\ \A q \in Procs \ {p} : pc'[q] = pc[q] /\ cur'[q] = cur[q]
    BY <1>2 DEF Start, StartPrepare, StartExecute
  <2> QED
    BY <2>1 DEF Started, Loaded, WithOperation
<1>3. ASSUME NEW label, Goto(p, label)
      PROVE  pc'[p] = label /\ cur' = cur /\ \A q \in Procs \ {p} : pc'[q] = pc[q]
  BY <1>3 DEF Goto
<1>4. CASE Pass(p)
  <2>1. /\ pc'[p] = Passed[pc[p]] /\ cur' = cur /\ \A q \in Procs \ {p} : pc'[q] = pc[q]
        /\ Permitted(p)
        /\ pc[p] \in {"check", "load", "snapshot", "applied", "probe", "reprobe", "target"}
    BY <1>3, <1>4 DEF Pass, Passed
  <2> QED
    BY <2>1 DEF Passed, Started, Loaded, WithOperation, Labels
<1>5. CASE RecordProgress(p)
  <2>1. /\ pc'[p] = Recorded[pc[p]].next /\ cur' = cur /\ \A q \in Procs \ {p} : pc'[q] = pc[q]
        /\ pc[p] \in {"record_issued", "record_delivering", "record_verifying", "record_delivered"}
    BY <1>3, <1>5 DEF RecordProgress, Recorded
  <2> QED
    BY <2>1 DEF Recorded, Started, Loaded, WithOperation, Labels
<1>6. CASE Observe(p) \/ \E o \in Ops : CreateOperation(p, o)
  <2>1. /\ pc'[p] \in {"check", "write_plan"}
        /\ \A q \in Procs \ {p} : pc'[q] = pc[q] /\ cur'[q] = cur[q]
    BY <1>6 DEF Observe, CreateOperation
  <2> QED
    BY <2>1 DEF Started, Loaded, WithOperation
<1>7. CASE WritePlan(p)
  <2>1. pc'[p] = "record_prepared" /\ cur' = cur /\ \A q \in Procs \ {p} : pc'[q] = pc[q]
    BY <1>3, <1>7 DEF WritePlan
  <2> QED
    BY <1>7, <2>1 DEF Started, Loaded, WithOperation
<1>8. CASE Begin(p)
  <2>1. /\ pc[p] = "begin" /\ cur' = cur /\ \A q \in Procs \ {p} : pc'[q] = pc[q]
        /\ pc'[p] # "record_prepared"
    BY <1>3, <1>8 DEF Begin, Step, LockInv, Executing, Loaded, WithOperation, Labels
  <2> QED
    BY <1>8, <2>1 DEF Started, Loaded, WithOperation, Labels
<1>9. ASSUME pc[p] \in Started, cur' = cur, pc'[p] # "record_prepared",
             \A q \in Procs \ {p} : pc'[q] = pc[q]
      PROVE  /\ \A q \in Procs \ {p} : pc'[q] = pc[q] /\ cur'[q] = cur[q]
             /\ pc'[p] \in Started => cur'[p] = cur[p] /\ (pc[p] \in Started \/ Begin(p))
             /\ pc'[p] \in Loaded => /\ cur'[p] = cur[p]
                                     /\ pc[p] \in Loaded \/ (pc[p] = "load" /\ Permitted(p))
             /\ pc'[p] = "record_prepared" => WritePlan(p)
  BY <1>9 DEF Started
<1>10. CASE IssueStep(p) /\ ~Begin(p)
  <2>1. PICK label \in {"save_issuance", "generate", "target", "record_delivering", "record_issued"} :
             Goto(p, label)
    BY <1>10 DEF IssueStep, ReuseGeneration, StartGeneration, CompleteGeneration, SaveIssuance
  <2>2. pc[p] \in {"issuer", "generate", "save_issuance"}
    BY <1>10 DEF IssueStep, ReuseGeneration, StartGeneration, CompleteGeneration, SaveIssuance, Step
  <2>3. pc[p] \in Started
    BY <2>2 DEF Started, Loaded, WithOperation, Labels
  <2> QED
    BY <1>3, <1>9, <2>1, <2>3
<1>11. CASE ApplyStep(p)
  <2>1. PICK label \in {"files", "login", "save_applied", "applied"} : Goto(p, label)
    BY <1>11 DEF ApplyStep, CloseRole, InstallFiles, EnableRole, SaveApplied
  <2>2. pc[p] \in {"role", "files", "login", "save_applied"}
    BY <1>11 DEF ApplyStep, CloseRole, InstallFiles, EnableRole, SaveApplied, Step
  <2>3. pc[p] \in Started
    BY <2>2 DEF Started, Loaded, WithOperation, Labels
  <2> QED
    BY <1>3, <1>9, <2>1, <2>3
<1>12. CASE DeliverStep(p)
  <2>1. pc[p] \in {"verify_applied", "store", "receipt", "publish", "save_delivery"}
    BY <1>12 DEF DeliverStep, EnterDelivery, ReuseVersion, StartVersion, WriteReceipt, Publish,
       SaveDelivery, Step
  <2>2. pc[p] \in Started
    BY <2>1 DEF Started, Loaded, WithOperation, Labels
  <2>3. /\ pc'[p] \in {"issuer", "record_verifying", "receipt", "save_delivery", "record_delivered"}
        /\ cur' = cur /\ \A q \in Procs \ {p} : pc'[q] = pc[q]
    BY <1>12 DEF DeliverStep, EnterDelivery, ReuseVersion, StartVersion, WriteReceipt, Publish,
       SaveDelivery, Goto
  <2> QED
    BY <1>9, <2>2, <2>3
<1>13. CASE Halt(p)
  BY <1>1, <1>13 DEF Halt, Refuse, Stop, TearJournal, TearArtifact
<1>14. CASE Finish(p) \/ RecordPrepared(p)
  BY <1>1, <1>14 DEF Finish, RecordPrepared
<1> QED
  BY <1>2, <1>4, <1>5, <1>6, <1>7, <1>8, <1>10, <1>11, <1>12, <1>13, <1>14 DEF Work, PrepareStep

\* Only a command that holds the operation writes its journal, at the records of
\* prepare, at the start record or after it; a cut line adds no phase.
LEMMA JournalSteps ==
    ASSUME IInv, NEW p \in Procs, Start(p) \/ Work(p) \/ Halt(p), NEW o \in Ops
    PROVE  \/ journal'[o] = journal[o]
           \/ /\ o = cur[p] /\ pc[p] \in WithOperation
              /\ \/ journal'[o].torn /\ journal'[o].phases = journal[o].phases
                 \/ pc[p] = "record_prepared" \/ pc[p] \in Started \/ Begin(p)
<1> USE DEF IInv, TypeOK
<1>1. CASE Start(p)
  BY <1>1 DEF Start, StartPrepare, StartExecute, OnlyReads, stateVars
<1>2. ASSUME NEW q \in Ops, NEW phase, Record(q, phase)
      PROVE  o # q => journal'[o] = journal[o]
  BY <1>2 DEF Record
<1>3. CASE RecordProgress(p)
  <2>1. pc[p] \in {"record_issued", "record_delivering", "record_verifying", "record_delivered"}
    BY <1>3 DEF RecordProgress, Recorded
  <2>2. pc[p] \in Started /\ pc[p] \in WithOperation
    BY <2>1 DEF Started, Loaded, WithOperation, Labels
  <2>3. cur[p] \in Ops
    BY <2>2 DEF LockInv, WithOperation
  <2> QED
    BY <1>2, <1>3, <2>2, <2>3 DEF RecordProgress
<1>4. CASE RecordPrepared(p) \/ Finish(p) \/ Begin(p)
  <2>1. pc[p] \in {"record_prepared", "finish"} \/ Begin(p)
    BY <1>4 DEF RecordPrepared, Finish, Step
  <2>2. pc[p] \in {"record_prepared", "finish", "begin"}
    BY <1>4 DEF RecordPrepared, Finish, Begin, Step
  <2>3. pc[p] \in WithOperation /\ cur[p] \in Ops
    BY <2>2 DEF LockInv, WithOperation, Labels
  <2>4. pc[p] = "record_prepared" \/ pc[p] \in Started \/ Begin(p)
    BY <2>1 DEF Started, Loaded, WithOperation, Labels
  <2> QED
    BY <1>2, <1>4, <2>3, <2>4 DEF RecordPrepared, Finish, Begin
<1>5. CASE TearJournal(p)
  <2>1. pc[p] \in {"record_prepared", "begin", "finish", "record_issued", "record_delivering",
                   "record_verifying", "record_delivered"}
    BY <1>5 DEF TearJournal, RecordLabels, Recorded
  <2>2. pc[p] \in WithOperation /\ cur[p] \in Ops
    BY <2>1 DEF LockInv, WithOperation, Labels
  <2>3. journal' = [journal EXCEPT ![cur[p]].torn = TRUE]
    BY <1>5 DEF TearJournal
  <2>4. journal'[cur[p]].torn /\ journal'[cur[p]].phases = journal[cur[p]].phases
    BY <2>2, <2>3 DEF Journal
  <2>5. o # cur[p] => journal'[o] = journal[o]
    BY <2>2, <2>3
  <2> QED
    BY <2>2, <2>4, <2>5
<1>6. CASE Refuse(p) \/ Stop(p) \/ TearArtifact(p) \/ Pass(p)
  BY <1>6 DEF Refuse, Stop, TearArtifact, Pass, OnlyReads, stateVars
<1>7. CASE Observe(p) \/ (\E c \in Ops : CreateOperation(p, c)) \/ WritePlan(p)
  BY <1>7 DEF Observe, CreateOperation, WritePlan, OnlyReads, stateVars
<1>8. CASE IssueStep(p) /\ ~Begin(p)
  BY <1>8 DEF IssueStep, ReuseGeneration, StartGeneration, CompleteGeneration, SaveIssuance, Save,
     OnlyReads, stateVars
<1>9. CASE ApplyStep(p)
  BY <1>9 DEF ApplyStep, CloseRole, InstallFiles, EnableRole, SaveApplied, Save, stateVars
<1>10. CASE DeliverStep(p)
  BY <1>10 DEF DeliverStep, EnterDelivery, ReuseVersion, StartVersion, WriteReceipt, Publish,
     SaveDelivery, Save, OnlyReads, stateVars
<1> QED
  BY <1>1, <1>3, <1>4, <1>5, <1>6, <1>7, <1>8, <1>9, <1>10 DEF Work, Halt, PrepareStep

\* What an owner was found to be it remains, until a command runs on it again.
LEMMA VouchingKeeps ==
    ASSUME IInv, FirstRecord, NEW p \in Procs, Start(p) \/ Work(p) \/ Halt(p),
           NEW o \in Ops, Vouching(o), "verified" \in journal[o].phases,
           o = cur[p] => pc[p] \notin Started /\ ~Begin(p)
    PROVE  Vouching(o)'
<1>1. pc[p] = "record_prepared" => o # cur[p]
  BY DEF FirstRecord
<1>2. journal'[o] = journal[o] \/ journal'[o].torn
  BY <1>1, JournalSteps
<1> QED
  BY <1>2 DEF Vouching

\* A plan is written by the command that made the operation, and never again.
LEMMA PlanSteps ==
    ASSUME IInv, RInv, NEW p \in Procs, Start(p) \/ Work(p) \/ Halt(p), NEW g \in Ops
    PROVE  /\ plan[g] # None => plan'[g] = plan[g]
           /\ plan'[g] = plan[g] \/ (g = cur[p] /\ WritePlan(p))
<1>1. plan' = plan \/ WritePlan(p)
  <2>1. CASE Start(p)
    BY <2>1 DEF Start, StartPrepare, StartExecute, OnlyReads, stateVars
  <2>2. CASE Halt(p)
    BY <2>2 DEF Halt, Refuse, Stop, TearJournal, TearArtifact, OnlyReads, stateVars
  <2> QED
    BY <2>1, <2>2, WorkSteps
<1>2. ASSUME WritePlan(p)
      PROVE  plan[cur[p]] = None /\ (g # cur[p] => plan'[g] = plan[g])
  BY <1>2 DEF WritePlan, Step, RInv, PrepareInv, IInv, TypeOK
<1> QED
  BY <1>1, <1>2

\* The owner of a rotation is another operation, once verified, on the same server.
LEMMA RotationsOwner ==
    ASSUME IInv, RInv, OwnerTargets, NEW g \in Ops, plan[g] # None, plan[g].owner # g
    PROVE  /\ plan[g].owner \in Ops
           /\ plan[plan[g].owner] # None
           /\ plan[plan[g].owner].target = plan[g].target
           /\ "verified" \in journal[plan[g].owner].phases
<1>1. plan[g].owner \in Ops /\ plan[g].intent \in Intents
  BY PlanTyped DEF IInv, Plan
<1>2. plan[g].intent = "rotate"
  BY <1>1 DEF Intents, RInv, LineageInv
<1> QED
  BY <1>1, <1>2 DEF OwnerTargets, RInv, LineageInv, Inheritable

LEMMA StepOwnerTargets ==
    ASSUME IInv, RInv, OwnerTargets, NEW p \in Procs, Start(p) \/ Work(p) \/ Halt(p)
    PROVE  OwnerTargets'
<1> SUFFICES ASSUME NEW g \in Ops, plan'[g] # None
             PROVE  plan'[plan'[g].owner] # None /\ plan'[plan'[g].owner].target = plan'[g].target
  BY DEF OwnerTargets
<1>1. CASE plan'[g] = plan[g]
  <2>1. plan[g].owner \in Ops
    BY <1>1, PlanTyped DEF IInv, Plan
  <2>2. plan[plan[g].owner] # None /\ plan[plan[g].owner].target = plan[g].target
    BY <1>1 DEF OwnerTargets
  <2>3. plan'[plan[g].owner] = plan[plan[g].owner]
    BY <2>1, <2>2, PlanSteps
  <2> QED
    BY <1>1, <2>2, <2>3
<1>2. CASE g = cur[p] /\ WritePlan(p)
  <2>1. plan'[g].target = at[p] /\ plan'[g].owner = PlannedOwner(p)
    BY <1>2 DEF WritePlan, IInv, TypeOK
  <2>2. cmd[p] \in {"prepare", "prepare_rotation"}
    BY <1>2 DEF WritePlan, Step, RInv, PrepareInv, Preparing
  <2>3. CASE cmd[p] = "prepare"
    BY <1>2, <2>1, <2>3 DEF PlannedOwner
  <2>4. CASE cmd[p] = "prepare_rotation"
    <3>1. PICK b \in Ops : b = seen[p].previous /\ plan[b] # None /\ plan[b].target = at[p]
      BY <1>2, <2>4 DEF WritePlan, Step, RInv, PrepareInv, Inheritable
    <3>2. plan'[g].owner = plan[b].owner /\ plan[b].owner \in Ops
      BY <2>1, <2>4, <3>1, PlanTyped DEF PlannedOwner, IInv, Plan
    <3>3. plan[plan[b].owner] # None /\ plan[plan[b].owner].target = at[p]
      BY <3>1 DEF OwnerTargets
    <3>4. plan'[plan[b].owner] = plan[plan[b].owner]
      BY <3>2, <3>3, PlanSteps
    <3> QED
      BY <2>1, <3>2, <3>3, <3>4
  <2> QED
    BY <2>2, <2>3, <2>4
<1> QED
  BY <1>1, <1>2, PlanSteps

LEMMA StepFirstRecord ==
    ASSUME IInv, RInv, FirstRecord, NEW p \in Procs, Start(p) \/ Work(p) \/ Halt(p)
    PROVE  FirstRecord'
<1> SUFFICES ASSUME NEW q \in Procs, pc'[q] = "record_prepared"
             PROVE  "verified" \notin journal'[cur'[q]].phases
  BY DEF FirstRecord
<1>1. CASE q # p
  <2>1. pc[q] = "record_prepared" /\ cur'[q] = cur[q]
    BY <1>1, Turn
  <2>2. pc[q] \in WithOperation /\ cur[q] \in Ops
    BY <2>1 DEF WithOperation, Labels, IInv, LockInv
  <2>3. ~(cur[q] = cur[p] /\ pc[p] \in WithOperation)
    BY <1>1, <2>2, Exclusive DEF IInv
  <2>4. journal'[cur[q]] = journal[cur[q]]
    BY <2>2, <2>3, JournalSteps
  <2> QED
    BY <2>1, <2>4 DEF FirstRecord
<1>2. CASE q = p
  <2>1. WritePlan(p)
    BY <1>2, Turn
  <2>2. /\ plan[cur[p]] = None /\ cur' = cur /\ journal' = journal /\ cur[p] \in Ops
    BY <2>1 DEF WritePlan, Step, Goto, RInv, PrepareInv, IInv, LockInv, WithOperation, Labels
  <2>3. "verified" \notin journal[cur[p]].phases
    BY <2>2 DEF RInv, JournalInv
  <2> QED
    BY <1>2, <2>2, <2>3
<1> QED
  BY <1>1, <1>2

\* A command that works on the owner of a revision holds the server's lock.
LEMMA OneAtTheOwner ==
    ASSUME IInv, RInv, OwnerTargets, NEW p \in Procs, NEW q \in Procs,
           pc[p] \in Loaded, pc[q] \in Loaded, plan[cur[p]].owner # cur[p]
    PROVE  cur[q] # plan[cur[p]].owner
<1> SUFFICES ASSUME cur[q] = plan[cur[p]].owner PROVE FALSE
  OBVIOUS
<1>1. /\ cur[p] \in Ops /\ plan[cur[p]] # None /\ plan[cur[p]].target = at[p]
      /\ plan[cur[q]].target = at[q]
  BY DEF IInv, LockInv, PlanInv, Loaded, WithOperation
<1>2. at[q] = at[p]
  BY <1>1, RotationsOwner
<1>3. targetLock[at[p]] = p /\ targetLock[at[q]] = q
  BY DEF IInv, LockInv, Loaded, WithOperation
<1> QED
  BY <1>2, <1>3

\* A command that is begun is at "begin", between its load and its later steps.
LEMMA BegunIsLoaded ==
    ASSUME NEW p \in Procs, pc[p] \in Started \/ Begin(p)
    PROVE  pc[p] \in Loaded
<1>1. "begin" \in Loaded
  BY DEF Loaded, WithOperation, Labels
<1> QED
  BY <1>1 DEF Started, Begin, Step

LEMMA StepRotatingOwner ==
    ASSUME IInv, RInv, OwnersInv, NEW p \in Procs, Start(p) \/ Work(p) \/ Halt(p)
    PROVE  RotatingOwner'
<1> SUFFICES ASSUME NEW q \in Procs, pc'[q] \in Loaded, plan'[cur'[q]].owner # cur'[q]
             PROVE  Vouching(plan[cur[q]].owner)'
  BY DEF RotatingOwner
<1>1. cur'[q] = cur[q] /\ (pc[q] \in Loaded \/ (q = p /\ pc[p] = "load" /\ Permitted(p)))
  BY Turn
<1>2. PICK g \in Ops : g = cur[q] /\ plan[g] # None
  BY <1>1 DEF IInv, LockInv, PlanInv, Loaded, WithOperation, Labels, Permitted, LoadPlan
<1>3. plan'[g] = plan[g]
  BY <1>2, PlanSteps
<1>4. PICK o \in Ops : o = plan[g].owner /\ o # g /\ "verified" \in journal[o].phases
  BY <1>1, <1>2, <1>3, RotationsOwner DEF OwnersInv
<1>5. Vouching(o)
  <2>1. CASE pc[q] \in Loaded
    BY <1>2, <1>4, <2>1 DEF OwnersInv, RotatingOwner
  <2>2. CASE q = p /\ pc[p] = "load" /\ Permitted(p)
    <3>1. /\ plan[g].intent = IntentOf(cmd[p])
          /\ cmd[p] = "rotate" => RotationStillDue(g, at[p])
      BY <1>2, <2>2 DEF Permitted
    <3>2. plan[g].intent # "provision"
      BY <1>2, <1>4 DEF RInv, LineageInv
    <3>3. cmd[p] \in {"issue", "apply", "deliver", "rotate"}
      BY <2>2 DEF IInv, LockInv, Executing
    <3>4. RotationOwner(o, at[p])
      BY <1>4, <3>1, <3>2, <3>3 DEF IntentOf, RotationStillDue
    <3> QED
      BY <3>4 DEF RotationOwner, Vouching
  <2> QED
    BY <1>1, <2>1, <2>2
<1>6. o = cur[p] => pc[p] \notin Started /\ ~Begin(p)
  <2>1. CASE pc[q] \in Loaded
    BY <1>2, <1>4, <2>1, OneAtTheOwner, BegunIsLoaded DEF OwnersInv
  <2>2. CASE q = p
    BY <1>2, <1>4, <2>2
  <2> QED
    BY <1>1, <2>1, <2>2
<1>7. Vouching(o)'
  BY <1>4, <1>5, <1>6, VouchingKeeps DEF OwnersInv
<1> QED
  BY <1>1, <1>2, <1>3, <1>4, <1>7 DEF Vouching

LEMMA StepLiveOwner ==
    ASSUME IInv, RInv, OwnersInv, NEW p \in Procs, Start(p) \/ Work(p) \/ Halt(p),
           Begin(p) => ~Replaced(cur[p])
    PROVE  LiveOwner'
<1> SUFFICES ASSUME NEW t \in Targets, active'[t] # None,
                    plan'[active'[t]].owner # active'[t]
             PROVE  /\ Vouching(plan[active[t]].owner)'
                    /\ \A q \in Procs : pc'[q] \in Started => cur'[q] # plan'[active'[t]].owner
  BY DEF LiveOwner
<1>1. active' = active \/ Publish(p)
  <2>1. CASE Start(p)
    BY <2>1 DEF Start, StartPrepare, StartExecute, OnlyReads
  <2>2. CASE Halt(p)
    BY <2>2 DEF Halt, Refuse, Stop, TearJournal, TearArtifact, OnlyReads
  <2> QED
    BY <2>1, <2>2, WorkSteps
<1>2. CASE active'[t] = active[t]
  <2>1. PICK g \in Ops : g = active[t] /\ plan[g] # None
    BY <1>2 DEF IInv, TypeOK, RInv, LiveInv
  <2>2. plan'[g] = plan[g]
    BY <2>1, PlanSteps
  <2>3. PICK o \in Ops : o = plan[g].owner /\ o # g /\ "verified" \in journal[o].phases
    BY <1>2, <2>1, <2>2, RotationsOwner DEF OwnersInv
  <2>4. Vouching(o) /\ \A q \in Procs : pc[q] \in Started => cur[q] # o
    BY <1>2, <2>1, <2>3 DEF OwnersInv, LiveOwner
  <2>5. Replaced(o)
    BY <1>2, <2>1, <2>3 DEF Replaced
  <2>6. o = cur[p] => pc[p] \notin Started /\ ~Begin(p)
    BY <2>4, <2>5
  <2>7. Vouching(o)'
    BY <2>3, <2>4, <2>6, VouchingKeeps DEF OwnersInv
  <2>8. ASSUME NEW q \in Procs, pc'[q] \in Started PROVE cur'[q] # o
    <3>1. CASE q = p
      BY <2>6, <2>8, <3>1, Turn
    <3>2. CASE q # p
      BY <2>4, <2>8, <3>2, Turn
    <3> QED
      BY <3>1, <3>2
  <2> QED
    BY <1>2, <2>1, <2>2, <2>3, <2>7, <2>8 DEF Vouching
<1>3. CASE active'[t] # active[t]
  <2>1. Publish(p) /\ t = at[p] /\ active'[t] = cur[p]
    BY <1>1, <1>3 DEF Publish, IInv, TypeOK
  <2>2. pc[p] \in Loaded
    BY <2>1 DEF Publish, Step, Loaded, WithOperation, Labels
  <2>3. PICK g \in Ops : g = cur[p] /\ plan[g] # None
    BY <2>2 DEF IInv, LockInv, PlanInv, Loaded, WithOperation
  <2>4. plan'[g] = plan[g]
    BY <2>3, PlanSteps
  <2>5. PICK o \in Ops : o = plan[g].owner /\ o # g /\ "verified" \in journal[o].phases
    BY <2>1, <2>3, <2>4, RotationsOwner DEF OwnersInv
  <2>6. Vouching(o)
    BY <2>2, <2>3, <2>5 DEF OwnersInv, RotatingOwner
  <2>7. Vouching(o)'
    BY <2>3, <2>5, <2>6, VouchingKeeps DEF OwnersInv
  <2>8. ASSUME NEW q \in Procs, pc'[q] \in Started PROVE cur'[q] # o
    <3>1. pc'[q] \in Loaded
      BY <2>8 DEF Started
    <3>2. cur'[q] = cur[q]
      BY <3>1, Turn
    <3>3. CASE q = p
      BY <2>3, <2>5, <3>2, <3>3
    <3>4. CASE q # p
      <4>1. pc[q] \in Loaded
        BY <3>1, <3>4, Turn
      <4> QED
        BY <2>2, <2>3, <2>5, <3>2, <4>1, OneAtTheOwner DEF OwnersInv
    <3> QED
      BY <3>3, <3>4
  <2> QED
    BY <2>1, <2>3, <2>4, <2>5, <2>7, <2>8 DEF Vouching
<1> QED
  BY <1>2, <1>3

LEMMA NextOwnersInv ==
    ASSUME IInv, RInv, OwnersInv, [Next]_vars, [\A p \in Procs : Begin(p) => ~Replaced(cur[p])]_vars
    PROVE  OwnersInv'
<1>1. CASE UNCHANGED <<pc, cur, plan, journal, active>>
  BY <1>1 DEF OwnersInv, OwnerTargets, FirstRecord, LiveOwner, RotatingOwner, Vouching
<1>2. CASE UNCHANGED vars
  BY <1>1, <1>2 DEF vars
<1>3. CASE World
  <2>1. UNCHANGED <<pc, cur, plan, journal, active>>
    BY <1>3 DEF World, Restart, EditConfig, LoseLogin, Expire, procVars, stateVars
  <2> QED
    BY <1>1, <2>1
<1>4. ASSUME NEW p \in Procs, Start(p) \/ Work(p) \/ Halt(p), Begin(p) => ~Replaced(cur[p])
      PROVE  OwnersInv'
  BY <1>4, StepOwnerTargets, StepFirstRecord, StepRotatingOwner, StepLiveOwner DEF OwnersInv
<1> QED
  BY <1>2, <1>3, <1>4 DEF Next

\* The finding, turned around: what docs/local-lifecycle.md:93 promises the operator
\* does hold, whatever else he runs and whatever fails, if he never begins a command
\* again on an operation whose revision a rotation has replaced.  That command is the
\* one thing execute should refuse and does not.
THEOREM LifecycleOwnerStaysUsable == Spec /\ OwnersLeftAlone => []OwnerStaysUsable
<1>1. Init => OwnersInv
  BY LifecycleAssumption
     DEF Init, OwnersInv, OwnerTargets, FirstRecord, LiveOwner, RotatingOwner, Loaded, WithOperation
<1>2. IInv /\ RInv /\ OwnersInv => OwnerStaysUsable
  BY DEF IInv, RInv, OwnersInv, LiveOwner, Vouching, OwnerStaysUsable
<1> QED
  BY <1>1, <1>2, NextOwnersInv, LifecycleRecords, PTL DEF Spec, OwnersLeftAlone

-----------------------------------------------------------------------------
(* The servers                                                               *)

\* A server without an owner has no role, and the files are written and the role is
\* opened by the command that made or closed it: the target's lock keeps it there.
ServersInv ==
    /\ \A t \in Targets : db[t].owner = None <=> db[t].stage = "clean"
    /\ \A p \in Procs : pc[p] \in {"files", "login"} => db[at[p]].owner = cur[p]

\* The step of a server, as the commands or its administrator make it.
ServerSteps(t) == [Server(t)!ServerNext]_<<db[t].owner, db[t].stage>>

\* Of the steps of a process three reach its server, and two of them stay there.
LEMMA ServerTurn ==
    ASSUME IInv, NEW p \in Procs, Start(p) \/ Work(p) \/ Halt(p)
    PROVE  /\ \A q \in Procs \ {p} : at'[q] = at[q]
           /\ pc'[p] \in {"files", "login"} => CloseRole(p) \/ InstallFiles(p)
           /\ db' = db \/ CloseRole(p) \/ InstallFiles(p) \/ EnableRole(p)
<1> USE DEF IInv, TypeOK
<1>1. ASSUME End(p)
      PROVE  pc'[p] = "idle" /\ \A q \in Procs \ {p} : at'[q] = at[q]
  BY <1>1 DEF End
<1>2. ASSUME NEW label, Goto(p, label)
      PROVE  pc'[p] = label /\ \A q \in Procs \ {p} : at'[q] = at[q]
  BY <1>2 DEF Goto
<1>3. CASE Start(p)
  BY <1>3 DEF Start, StartPrepare, StartExecute, OnlyReads
<1>4. CASE Halt(p) \/ Finish(p) \/ RecordPrepared(p)
  BY <1>1, <1>4 DEF Halt, Refuse, Stop, TearJournal, TearArtifact, Finish, RecordPrepared, Record,
     OnlyReads
<1>5. CASE Pass(p)
  <2>1. Passed[pc[p]] \notin {"files", "login"}
    BY <1>5 DEF Pass, Passed
  <2> QED
    BY <1>2, <1>5, <2>1 DEF Pass, OnlyReads
<1>6. CASE RecordProgress(p)
  <2>1. Recorded[pc[p]].next \notin {"files", "login"}
    BY <1>6 DEF RecordProgress, Recorded
  <2> QED
    BY <1>2, <1>6, <2>1 DEF RecordProgress, Record
<1>7. CASE Observe(p) \/ \E o \in Ops : CreateOperation(p, o)
  BY <1>7 DEF Observe, CreateOperation, OnlyReads
<1>8. CASE WritePlan(p)
  BY <1>2, <1>8 DEF WritePlan
<1>9. CASE Begin(p)
  <2>1. PICK label \in Labels \ {"files", "login"} : Goto(p, label)
    BY <1>9 DEF Begin, Step, LockInv, Executing, Loaded, WithOperation, Labels
  <2> QED
    BY <1>2, <1>9, <2>1 DEF Begin, Record
<1>10. CASE IssueStep(p) /\ ~Begin(p)
  <2>1. PICK label \in {"save_issuance", "generate", "target", "record_delivering", "record_issued"} :
             Goto(p, label)
    BY <1>10 DEF IssueStep, ReuseGeneration, StartGeneration, CompleteGeneration, SaveIssuance
  <2>2. db' = db
    BY <1>10 DEF IssueStep, ReuseGeneration, StartGeneration, CompleteGeneration, SaveIssuance,
       Save, OnlyReads
  <2> QED
    BY <1>2, <2>1, <2>2
<1>11. CASE ApplyStep(p)
  <2>1. CASE CloseRole(p) \/ InstallFiles(p)
    BY <1>2, <2>1 DEF CloseRole, InstallFiles
  <2>2. CASE EnableRole(p) \/ SaveApplied(p)
    BY <1>2, <2>2 DEF EnableRole, SaveApplied, Save
  <2> QED
    BY <1>11, <2>1, <2>2 DEF ApplyStep
<1>12. CASE DeliverStep(p)
  <2>1. /\ pc'[p] \in {"issuer", "record_verifying", "receipt", "save_delivery", "record_delivered"}
        /\ at' = at /\ db' = db
    BY <1>12 DEF DeliverStep, EnterDelivery, ReuseVersion, StartVersion, WriteReceipt, Publish,
       SaveDelivery, Goto, Save, OnlyReads
  <2> QED
    BY <2>1
<1> QED
  BY <1>3, <1>4, <1>5, <1>6, <1>7, <1>8, <1>9, <1>10, <1>11, <1>12 DEF Work, PrepareStep

\* What apply does with a server of its own or without owner.
LEMMA ApplySteps ==
    ASSUME IInv, ServersInv, NEW p \in Procs, CloseRole(p) \/ InstallFiles(p) \/ EnableRole(p)
    PROVE  \E t \in Targets, o \in Ops :
             /\ t = at[p] /\ o = cur[p] /\ o # None
             /\ \A u \in Targets \ {t} : db'[u] = db[u]
             /\ db'[t].owner = o /\ db'[t].stage # "clean"
             /\ ServerSteps(t)
<1>1. pc[p] \in Changing
  BY DEF CloseRole, InstallFiles, EnableRole, Step, Changing
<1>2. PICK t \in Targets, o \in Ops : t = at[p] /\ o = cur[p] /\ o # None
  BY <1>1, LifecycleAssumption DEF Changing, IInv, LockInv, WithOperation, Labels
<1>3. /\ db[t] \in Database /\ db[t].owner \in {None, o}
      /\ db[t].owner = None <=> db[t].stage = "clean"
  BY <1>1, <1>2 DEF CloseRole, InstallFiles, EnableRole, Step, Permitted, OnlyOwnChanges,
     ServersInv, IInv, TypeOK
<1>4. db[t].stage \in {"clean", "role", "files", "ready"}
  BY <1>3 DEF Database
<1>5. CASE CloseRole(p)
  <2>1. db' = [db EXCEPT ![t] = [owner |-> o, stage |-> Closed(@.stage), rev |-> @.rev]]
    BY <1>2, <1>5 DEF CloseRole
  <2>2. /\ db'[t].owner = o /\ db'[t].stage = Closed(db[t].stage)
        /\ \A u \in Targets \ {t} : db'[u] = db[u]
    BY <2>1 DEF IInv, TypeOK
  <2>3. ServerSteps(t)
    BY <1>2, <1>3, <1>4, <2>2
       DEF ServerSteps, Closed, Server!ServerNext, Server!MakeRole, Server!ShutRole, Server!Turn
  <2>4. db'[t].stage # "clean"
    BY <1>4, <2>2 DEF Closed
  <2> QED
    BY <1>2, <2>2, <2>3, <2>4
<1>6. CASE InstallFiles(p)
  <2>1. db' = [db EXCEPT ![t].stage = "files"] /\ db[t].owner = o /\ db[t].stage # "ready"
    BY <1>2, <1>6 DEF InstallFiles, Step, Permitted, ServersInv
  <2>2. /\ db'[t].owner = o /\ db'[t].stage = "files"
        /\ \A u \in Targets \ {t} : db'[u] = db[u]
    BY <1>3, <2>1 DEF IInv, TypeOK, Database
  <2>3. ServerSteps(t)
    BY <1>2, <1>3, <1>4, <2>1, <2>2
       DEF ServerSteps, Server!ServerNext, Server!LoadRules, Server!Turn
  <2> QED
    BY <1>2, <2>2, <2>3
<1>7. CASE EnableRole(p)
  <2>1. db' = [db EXCEPT ![t].stage = "ready"] /\ db[t].owner = o /\ db[t].stage = "files"
    BY <1>2, <1>7 DEF EnableRole, Step, Permitted, ServersInv
  <2>2. /\ db'[t].owner = o /\ db'[t].stage = "ready"
        /\ \A u \in Targets \ {t} : db'[u] = db[u]
    BY <1>3, <2>1 DEF IInv, TypeOK, Database
  <2>3. ServerSteps(t)
    BY <2>1, <2>2 DEF ServerSteps, Server!ServerNext, Server!OpenRole, Server!Turn
  <2> QED
    BY <1>2, <2>2, <2>3
<1> QED
  BY <1>5, <1>6, <1>7

\* Nobody else takes the role of an operation at work, or gives it away.
LEMMA WorldSteps ==
    ASSUME IInv, NEW t \in Targets, EditConfig(t) \/ LoseLogin(t)
    PROVE  /\ \A u \in Targets \ {t} : db'[u] = db[u]
           /\ db'[t].owner = db[t].owner
           /\ \/ db'[t].stage = db[t].stage
              \/ db[t].stage = "ready" /\ db'[t].stage = "files"
<1>1. db \in [Targets -> Database]
  BY DEF IInv, TypeOK
<1> QED
  BY <1>1 DEF EditConfig, LoseLogin, Database

LEMMA NextServers ==
    ASSUME IInv, ServersInv, Next
    PROVE  /\ \A t \in Targets : db'[t].owner = None <=> db'[t].stage = "clean"
           /\ \A t \in Targets : ServerSteps(t)
<1>1. CASE db' = db
  BY <1>1 DEF ServersInv, ServerSteps
<1>2. ASSUME NEW p \in Procs, CloseRole(p) \/ InstallFiles(p) \/ EnableRole(p)
      PROVE  /\ \A t \in Targets : db'[t].owner = None <=> db'[t].stage = "clean"
             /\ \A t \in Targets : ServerSteps(t)
  <2>1. PICK t \in Targets, o \in Ops :
             /\ o # None /\ db'[t].owner = o /\ db'[t].stage # "clean"
             /\ \A u \in Targets \ {t} : db'[u] = db[u]
             /\ ServerSteps(t)
    BY <1>2, ApplySteps
  <2>2. \A u \in Targets \ {t} : ServerSteps(u)
    BY <2>1 DEF ServerSteps
  <2> QED
    BY <2>1, <2>2 DEF ServersInv
<1>3. ASSUME NEW t \in Targets, EditConfig(t) \/ LoseLogin(t)
      PROVE  /\ \A u \in Targets : db'[u].owner = None <=> db'[u].stage = "clean"
             /\ \A u \in Targets : ServerSteps(u)
  <2>1. /\ \A u \in Targets \ {t} : db'[u] = db[u]
        /\ db'[t].owner = db[t].owner
        /\ db'[t].stage = db[t].stage \/ (db[t].stage = "ready" /\ db'[t].stage = "files")
    BY <1>3, WorldSteps
  <2>2. \A u \in Targets \ {t} : ServerSteps(u)
    BY <2>1 DEF ServerSteps
  <2>3. ServerSteps(t)
    BY <2>1 DEF ServerSteps, Server!ServerNext, Server!ShutRole, Server!Turn
  <2> QED
    BY <2>1, <2>2, <2>3 DEF ServersInv
<1>4. CASE World
  BY <1>1, <1>3, <1>4 DEF World, Restart, Expire
<1> QED
  BY <1>1, <1>2, <1>4, ServerTurn DEF Next

\* At "files" and "login" a process has just written the owner of its server, and its
\* lock keeps the other commands from writing another one.
LEMMA NextOwners ==
    ASSUME IInv, ServersInv, [Next]_vars
    PROVE  \A p \in Procs : pc'[p] \in {"files", "login"} => db'[at'[p]].owner = cur'[p]
<1> SUFFICES ASSUME NEW p \in Procs, pc'[p] \in {"files", "login"}
             PROVE  db'[at'[p]].owner = cur'[p]
  OBVIOUS
<1>1. CASE UNCHANGED vars
  BY <1>1 DEF vars, ServersInv
<1>2. CASE World
  <2>1. UNCHANGED <<pc, at, cur>>
    BY <1>2 DEF World, Restart, EditConfig, LoseLogin, Expire, procVars
  <2>2. at[p] \in Targets /\ db[at[p]].owner = cur[p]
    BY <2>1 DEF ServersInv, IInv, LockInv
  <2>3. \A t \in Targets : db'[t].owner = db[t].owner
    BY <1>2, WorldSteps DEF World, Restart, Expire
  <2> QED
    BY <2>1, <2>2, <2>3
<1>3. ASSUME NEW q \in Procs, Start(q) \/ Work(q) \/ Halt(q), q # p
      PROVE  db'[at'[p]].owner = cur'[p]
  <2>1. pc'[p] = pc[p] /\ cur'[p] = cur[p]
    BY <1>3, Turn
  <2>2. at'[p] = at[p]
    BY <1>3, ServerTurn
  <2>3. at[p] \in Targets /\ targetLock[at[p]] = p /\ db[at[p]].owner = cur[p]
    BY <2>1 DEF ServersInv, IInv, LockInv
  <2>4. db'[at[p]] = db[at[p]]
    <3>1. CASE CloseRole(q) \/ InstallFiles(q) \/ EnableRole(q)
      <4>1. PICK t \in Targets : t = at[q] /\ \A u \in Targets \ {t} : db'[u] = db[u]
        BY <3>1, ApplySteps
      <4>2. targetLock[at[q]] = q
        BY <3>1 DEF CloseRole, InstallFiles, EnableRole, Step, IInv, LockInv
      <4> QED
        BY <1>3, <2>3, <4>1, <4>2
    <3> QED
      BY <1>3, <3>1, ServerTurn
  <2> QED
    BY <2>1, <2>2, <2>3, <2>4
<1>4. CASE Start(p) \/ Work(p) \/ Halt(p)
  <2>1. CloseRole(p) \/ InstallFiles(p)
    BY <1>4, ServerTurn
  <2>2. at' = at /\ cur' = cur
    BY <2>1 DEF CloseRole, InstallFiles, Goto
  <2>3. PICK t \in Targets : t = at[p] /\ db'[t].owner = cur[p]
    BY <2>1, ApplySteps
  <2> QED
    BY <2>2, <2>3
<1> QED
  BY <1>1, <1>2, <1>3, <1>4 DEF Next

\* Whatever commands run, end or are repeated on whatever targets: each server is
\* made for one operation, opened only behind its rules, and the only other thing
\* that reaches it is a lost login (local_lifecycle.py execute, db_admin.py apply).
THEOREM LifecycleImplementsServers == Spec => ImplementsServers
<1>1. Init => ServersInv /\ \A t \in Targets : Server(t)!ServerInit
  BY DEF Init, ServersInv, CleanDatabase, Server!ServerInit
<1>2. IInv /\ ServersInv /\ [Next]_vars => ServersInv'
  <2> SUFFICES ASSUME IInv, ServersInv, [Next]_vars PROVE ServersInv'
    OBVIOUS
  <2>1. \A t \in Targets : db'[t].owner = None <=> db'[t].stage = "clean"
    <3>1. CASE UNCHANGED vars
      BY <3>1 DEF vars, ServersInv
    <3> QED
      BY <3>1, NextServers
  <2> QED
    BY <2>1, NextOwners DEF ServersInv
<1>3. IInv /\ ServersInv /\ [Next]_vars =>
        [\A t \in Targets : [Server(t)!ServerNext]_<<db[t].owner, db[t].stage>>]_vars
  BY NextServers DEF ServerSteps
<1> QED
  BY <1>1, <1>2, <1>3, LifecycleInvariant, PTL DEF Spec, ImplementsServers

=============================================================================
