--------------------------- MODULE ConfigRegister ---------------------------
(***************************************************************************)
(* What replacing a configuration file promises: the file is a register    *)
(* that the tool changes only by compare-and-set, from the text a proposal *)
(* was made of to the proposal; administrators write what they like.       *)
(***************************************************************************)
EXTENDS AuthRules

VARIABLES value,   \* the text
          edits    \* how often administrators have written it

CompareAndSet(o) ==
    /\ Accepted(value) /\ Pass(value).blocks[o] = <<>>
    /\ value' = Propose(value, o)
    /\ UNCHANGED edits

Write == edits' = edits + 1

Next == Write \/ \E o \in Ops : CompareAndSet(o)

Spec == edits = 0 /\ [][Next]_<<value, edits>>
=============================================================================
