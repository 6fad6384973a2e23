------------------------------ MODULE IssueOnce ------------------------------
(***************************************************************************)
(* What an issuer promises: for every place (the authority, or a           *)
(* generation of an operation) there is one certificate, ever, and whoever *)
(* asks for a place is given the one of that place, or nothing.            *)
(***************************************************************************)
CONSTANTS Places,   \* what can be issued
          Runs,     \* who asks; a new certificate is named by the run that made it
          None      \* the absent value

VARIABLES issued,   \* Places -> the certificate issued, or None
          asked,    \* Runs -> the place asked for, or None
          result    \* Runs -> the certificate answered, or None

Init ==
    /\ issued = [d \in Places |-> None]
    /\ asked = [p \in Runs |-> None]
    /\ result = [p \in Runs |-> None]

Ask(p) ==
    /\ asked[p] = None
    /\ \E d \in Places : asked' = [asked EXCEPT ![p] = d]
    /\ UNCHANGED <<issued, result>>

\* Some places get their certificate, each made by a run that asked for it.  A
\* crash can settle several at once.
Issue ==
    /\ \E D \in SUBSET Places : \E maker \in [D -> Runs] :
          /\ \A d \in D : issued[d] = None /\ asked[maker[d]] = d
          /\ issued' = [d \in Places |-> IF d \in D THEN maker[d] ELSE issued[d]]
    /\ UNCHANGED <<asked, result>>

Answer(p) ==
    /\ result[p] = None
    /\ asked[p] # None
    /\ issued[asked[p]] # None
    /\ result' = [result EXCEPT ![p] = issued[asked[p]]]
    /\ UNCHANGED <<issued, asked>>

Next == Issue \/ (\E p \in Runs : Ask(p) \/ Answer(p))

Spec == Init /\ [][Next]_<<issued, asked, result>>
=============================================================================
