-------------------------- MODULE CredentialHistory --------------------------
(***************************************************************************)
(* What the delivery stores promise their readers, without locks, files or *)
(* processes: the live credential of a store is the last of a sequence of  *)
(* generations.  A generation is sealed (all its files and its receipt are *)
(* there) before it is published, and is published at most once.           *)
(***************************************************************************)
EXTENDS Naturals, SequencesExt

CONSTANTS Stores, Generations

VARIABLES
    history,    \* per store, the generations that were live, oldest first
    sealed      \* per store, the generations that are complete

histVars == <<history, sealed>>

HistoryInit ==
    /\ history = [s \in Stores |-> <<>>]
    /\ sealed = [s \in Stores |-> {}]

Seal(s, g) ==
    /\ g \notin sealed[s]
    /\ sealed' = [sealed EXCEPT ![s] = @ \cup {g}]
    /\ UNCHANGED history

Publish(s, g) ==
    /\ g \in sealed[s]
    /\ g \notin ToSet(history[s])
    /\ history' = [history EXCEPT ![s] = Append(@, g)]
    /\ UNCHANGED sealed

HistoryNext == \E s \in Stores, g \in Generations : Seal(s, g) \/ Publish(s, g)

HistorySpec == HistoryInit /\ [][HistoryNext]_histVars
=============================================================================
