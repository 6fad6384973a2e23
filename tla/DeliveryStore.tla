---------------------------- MODULE DeliveryStore ----------------------------
(***************************************************************************)
(* credential_delivery: one store directory, shared by processes that hold *)
(* no other lock in common (two targets may be bound to one                *)
(* credential_dir).  A store has versions/, lock, active.json and, written *)
(* last, owner.json; a version has a bundle and, written last, a receipt.  *)
(* A process may end after any step and leaves what it made; the next one  *)
(* refuses half-made directories for ever and reuses whole ones.           *)
(*                                                                         *)
(* A revision is named by its generation: it carries the digest of the     *)
(* receipt, which is written once.                                         *)
(***************************************************************************)
EXTENDS Naturals, FiniteSets

CONSTANTS
    Procs,      \* processes calling deliver
    Gens,       \* generations, one per operation id
    None        \* no lock holder, the empty revision

ASSUME StoreAssumption == None \notin Procs \cup Gens

\* How far _create_store got.  "linked" is owner.json before its staging name
\* is unlinked: two links, which every reader refuses.
StoreStages == {"missing", "made", "versions", "locked", "pointer", "linked", "ready"}

\* How far _deliver got with versions/<generation>; "linked" as above, for receipt.json.
VersionStages == {"absent", "made", "filled", "linked", "complete"}

Labels == {"idle", "open", "creating", "lock", "version", "fill", "link", "unlink",
           "validate", "recheck", "publish", "replace", "reuse"}

VARIABLES
    pc, gen, expected,  \* each process: its step, operation and expected_revision
    store, version, receipt,    \* receipt: the "previous" a version was made on
    active, lock

procVars == <<pc, gen, expected>>
fileVars == <<store, version, receipt, active>>
vars == <<pc, gen, expected, store, version, receipt, active, lock>>

Init ==
    /\ pc = [p \in Procs |-> "idle"]
    /\ gen = [p \in Procs |-> None]
    /\ expected = [p \in Procs |-> None]
    /\ store = "missing"
    /\ version = [g \in Gens |-> "absent"]
    /\ receipt = [g \in Gens |-> None]
    /\ active = None
    /\ lock = None

-----------------------------------------------------------------------------
Goto(p, label) == pc' = [pc EXCEPT ![p] = label] /\ UNCHANGED <<gen, expected>>

\* The call returns or raises, or the process is gone: its lock is free.
End(p) ==
    /\ pc' = [pc EXCEPT ![p] = "idle"]
    /\ gen' = [gen EXCEPT ![p] = None]
    /\ expected' = [expected EXCEPT ![p] = None]
    /\ lock' = IF lock = p THEN None ELSE lock

\* deliver(..., operation_id, expected_revision): a caller can only name a
\* revision it has seen, that is one with a receipt, or the empty one.
Call(p, g, e) ==
    /\ pc[p] = "idle"
    /\ e \in {None} \cup {h \in Gens : version[h] = "complete"}
    /\ pc' = [pc EXCEPT ![p] = "open"]
    /\ gen' = [gen EXCEPT ![p] = g]
    /\ expected' = [expected EXCEPT ![p] = e]
    /\ UNCHANGED <<fileVars, lock>>

\* _create_store: mkdir decides who creates ...
CreateStore(p) ==
    /\ pc[p] = "open"
    /\ store = "missing"
    /\ store' = "made"
    /\ Goto(p, "creating")
    /\ UNCHANGED <<version, receipt, active, lock>>

\* ... the others need owner.json.
OpenStore(p) ==
    /\ pc[p] = "open"
    /\ store = "ready"
    /\ Goto(p, "lock")
    /\ UNCHANGED <<fileVars, lock>>

NextStage == [made |-> "versions", versions |-> "locked", locked |-> "pointer",
              pointer |-> "linked", linked |-> "ready"]

\* One file of _create_store after the other, in this order.
FillStore(p) ==
    /\ pc[p] = "creating"
    /\ store' = NextStage[store]
    /\ Goto(p, IF store' = "ready" THEN "lock" ELSE "creating")
    /\ UNCHANGED <<version, receipt, active, lock>>

\* Variant: the flock is not taken exclusively.
AcquireShared(p) ==
    /\ pc[p] = "lock"
    /\ store = "ready"
    /\ lock' = p
    /\ Goto(p, "version")
    /\ UNCHANGED fileVars

\* _store: owner.json again, then a lock that does not wait.
Acquire(p) ==
    /\ pc[p] = "lock"
    /\ store = "ready"
    /\ lock = None
    /\ lock' = p
    /\ Goto(p, "version")
    /\ UNCHANGED fileVars

\* The store is where the caller expects it, or already where it wants it.
MayFollow(p) == active \in {expected[p], gen[p]}

\* Variant: an existing directory is filled anew.
MakeVersionAgain(p) ==
    /\ pc[p] = "version"
    /\ MayFollow(p)
    /\ active = expected[p]
    /\ version' = [version EXCEPT ![gen[p]] = "made"]
    /\ Goto(p, "fill")
    /\ UNCHANGED <<store, receipt, active, lock>>

\* mkdir made the version: only on top of the expected revision.
MakeVersion(p) ==
    /\ pc[p] = "version"
    /\ MayFollow(p)
    /\ version[gen[p]] = "absent"
    /\ active = expected[p]
    /\ version' = [version EXCEPT ![gen[p]] = "made"]
    /\ Goto(p, "fill")
    /\ UNCHANGED <<store, receipt, active, lock>>

\* Variant: the specification in the receipt is not compared.
ReusableAny(p) == version[gen[p]] = "complete"

\* Variant: a sealed version that is not live is not taken up again.
ReusableActive(p) == version[gen[p]] = "complete" /\ receipt[gen[p]] = expected[p] /\ active = gen[p]

\* A receipt exists and its specification, "previous" included, is this call's.
Reusable(p) ==
    /\ version[gen[p]] = "complete"
    /\ receipt[gen[p]] = expected[p]

\* Variant: an existing directory counts as delivered.
ReuseVersionUnread(p) ==
    /\ pc[p] = "version"
    /\ MayFollow(p)
    /\ version[gen[p]] # "absent"
    /\ Goto(p, "publish")
    /\ UNCHANGED <<fileVars, lock>>

ReuseVersion(p) ==
    /\ pc[p] = "version"
    /\ MayFollow(p)
    /\ Reusable(p)
    /\ Goto(p, IF active = gen[p] THEN "reuse" ELSE "validate")
    /\ UNCHANGED <<fileVars, lock>>

\* The bundle's three files and permission_setter.
FillVersion(p) ==
    /\ pc[p] = "fill"
    /\ version' = [version EXCEPT ![gen[p]] = "filled"]
    /\ Goto(p, "link")
    /\ UNCHANGED <<store, receipt, active, lock>>

LinkReceipt(p) ==
    /\ pc[p] = "link"
    /\ version' = [version EXCEPT ![gen[p]] = "linked"]
    /\ receipt' = [receipt EXCEPT ![gen[p]] = expected[p]]
    /\ Goto(p, "unlink")
    /\ UNCHANGED <<store, active, lock>>

UnlinkStaging(p) ==
    /\ pc[p] = "unlink"
    /\ version' = [version EXCEPT ![gen[p]] = "complete"]
    /\ Goto(p, "validate")
    /\ UNCHANGED <<store, receipt, active, lock>>

\* The validator accepts the candidate; it raises by ending the call.
Validate(p) ==
    /\ pc[p] = "validate"
    /\ Goto(p, "recheck")
    /\ UNCHANGED <<fileVars, lock>>

\* The receipt is still the one validated.
Recheck(p) ==
    /\ pc[p] = "recheck"
    /\ version[gen[p]] = "complete"
    /\ Goto(p, "publish")
    /\ UNCHANGED <<fileVars, lock>>

\* _publish: the pointer is compared (before and after the pending file is
\* written) ...
ComparePointer(p) ==
    /\ pc[p] = "publish"
    /\ active = expected[p]
    /\ Goto(p, "replace")
    /\ UNCHANGED <<fileVars, lock>>

\* ... and replaced by a rename, which compares nothing.
ReplacePointer(p) ==
    /\ pc[p] = "replace"
    /\ active' = gen[p]
    /\ End(p)
    /\ UNCHANGED <<store, version, receipt>>

\* The operation is active already: validate once more and return "reused".
ReturnReused(p) ==
    /\ pc[p] = "reuse"
    /\ End(p)
    /\ UNCHANGED fileVars

\* The errors of deliver itself: OWNERSHIP_REQUIRED for a store that is not
\* whole, BUSY, DRIFT, PARTIAL_STATE and INPUT_CONFLICT for a version.
Refused(p) ==
    CASE pc[p] = "open"    -> store \notin {"missing", "ready"}
      [] pc[p] = "lock"    -> store # "ready" \/ lock # None
      [] pc[p] = "version" -> ~( /\ MayFollow(p)
                                 /\ version[gen[p]] = "absent" \/ Reusable(p))
      [] pc[p] = "recheck" -> version[gen[p]] # "complete"
      [] pc[p] = "publish" -> active # expected[p]
      [] OTHER -> FALSE

Refuse(p) == Refused(p) /\ End(p) /\ UNCHANGED fileVars

\* A failing permission setter or validator, a signal or SIGKILL.
Stop(p) ==
    /\ pc[p] # "idle"
    /\ End(p)
    /\ UNCHANGED fileVars

Work(p) ==
    \/ CreateStore(p) \/ OpenStore(p) \/ FillStore(p) \/ Acquire(p)
    \/ MakeVersion(p) \/ ReuseVersion(p) \/ FillVersion(p) \/ LinkReceipt(p)
    \/ UnlinkStaging(p) \/ Validate(p) \/ Recheck(p)
    \/ ComparePointer(p) \/ ReplacePointer(p) \/ ReturnReused(p)

Next == \E p \in Procs :
    \/ \E g \in Gens, e \in Gens \cup {None} : Call(p, g, e)
    \/ Work(p) \/ Refuse(p) \/ Stop(p)

Spec == Init /\ [][Next]_vars

\* The caller may always repeat the delivery of a generation, as
\* docs/quickstart.md:119 tells after BUSY; who may for ever gets in again and
\* again: the repeats do not all find the lock taken.
Rerun(g) == \E p \in Procs : Call(p, g, receipt[g])
Entered(g) == \E p \in Procs : gen[p] = g /\ expected[p] = receipt[g] /\ Acquire(p)

\* A call neither refused nor at its last step ends early.
Interrupted(p) == pc[p] \notin {"replace", "reuse"} /\ ~Refused(p) /\ Stop(p)

Fairness ==
    /\ \A p \in Procs : WF_vars(Work(p) \/ Refuse(p))
    /\ \A p \in Procs : SF_vars(ReplacePointer(p))
    /\ \A g \in Gens : <>[](~ENABLED <<Rerun(g)>>_vars) \/ []<><<Entered(g)>>_vars
    /\ <>[][\A p \in Procs : ~Interrupted(p)]_vars

FairSpec == Spec /\ Fairness

-----------------------------------------------------------------------------
(* Properties *)

\* Every variable has its type.
TypeOK ==
    /\ pc \in [Procs -> Labels]
    /\ gen \in [Procs -> Gens \cup {None}]
    /\ expected \in [Procs -> Gens \cup {None}]
    /\ store \in StoreStages
    /\ version \in [Gens -> VersionStages]
    /\ receipt \in [Gens -> Gens \cup {None}]
    /\ active \in Gens \cup {None}
    /\ lock \in Procs \cup {None}

\* Between taking the lock and returning.
Inside == {"version", "fill", "link", "unlink", "validate", "recheck", "publish",
           "replace", "reuse"}

\* Two processes never change one store at the same time, and while one
\* creates it nobody is inside: the flock and the order of _create_store's
\* files, with owner.json last, exclude both.
OneWriter ==
    \A p, q \in Procs :
        (pc[p] \in Inside /\ pc[q] \in Inside \cup {"creating"}) => p = q

\* active.json never names a version without a receipt, whoever crashed where.
ActiveIsSealed == active # None => version[active] = "complete"

\* A sealed version and its receipt are never rewritten.
SealedForEver ==
    [][\A g \in Gens : version[g] = "complete" =>
         version'[g] = "complete" /\ receipt'[g] = receipt[g]]_vars

\* The pointer moves from g to h only if h's receipt was made on g: a caller
\* whose expectation is stale overwrites nothing, even if it is delayed between
\* comparing the pointer and renaming the new one.
PublishIsCompareAndSet ==
    [][active' # active =>
         active' # None /\ version[active'] = "complete" /\ receipt[active'] = active]_vars

\* Sealed, and its predecessor is live
Waiting(g) == version[g] = "complete" /\ active = receipt[g]

\* A sealed generation whose predecessor is live goes live, or another one
\* does: refused, busy and crashed calls leave nothing that blocks a repeat.
SealedIsPublished == []<>(\A g \in Gens : ~Waiting(g))
=============================================================================
