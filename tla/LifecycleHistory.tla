-------------------------- MODULE LifecycleHistory --------------------------
(***************************************************************************)
(* Lifecycle implements CredentialHistory: the history of a target's store *)
(* is read off the plans, from the active generation back through the      *)
(* revision each plan was made on.                                         *)
(***************************************************************************)
EXTENDS Lifecycle, Sequences

\* The revision each plan was made on.
Previous == [o \in Ops |-> IF plan[o] = None THEN None ELSE plan[o].previous]

\* The generations from the first one up to g.
Lineage[g \in Ops \cup {None}] ==
    IF g = None THEN <<>> ELSE Append(Lineage[Previous[g]], g)

SealedOn(t) == {o \in Ops : plan[o] # None /\ plan[o].target = t /\ version[o] = "complete"}

History == INSTANCE CredentialHistory
    WITH Stores <- Targets,
         Generations <- Ops,
         history <- [t \in Targets |-> Lineage[active[t]]],
         sealed <- [t \in Targets |-> SealedOn(t)]

\* Publishing only ever extends the history of a store by a sealed generation
\* that was never live before: no update is lost, nothing comes back.
ImplementsHistory == History!HistorySpec
=============================================================================
