--------------------------- MODULE DeliveryHistory ---------------------------
(***************************************************************************)
(* DeliveryStore implements CredentialHistory for its one store: the       *)
(* history is read off the receipts, back from the active generation.      *)
(***************************************************************************)
EXTENDS DeliveryStore, Sequences

\* The generations up to g, by the "previous" in their receipts.
Lineage[g \in Gens \cup {None}] ==
    IF g = None THEN <<>> ELSE Append(Lineage[receipt[g]], g)

History == INSTANCE CredentialHistory
    WITH Stores <- {"store"},
         Generations <- Gens,
         history <- [s \in {"store"} |-> Lineage[active]],
         sealed <- [s \in {"store"} |-> {g \in Gens : version[g] = "complete"}]

\* Whatever processes interleave or crash in one store, its history only grows,
\* by sealed generations that were never live before.
ImplementsHistory == History!HistorySpec
=============================================================================
