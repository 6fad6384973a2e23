----------------------------- MODULE MCConfigCas -----------------------------
(* A small instance of ConfigCas for TLC: every text of up to MaxLines lines  *)
(* is in the file at first, or four markers in any order.                     *)
EXTENDS ConfigCas, TLC

CONSTANT MaxLines

Markers == {Begin(o) : o \in Ops} \cup {End(o) : o \in Ops}
SomeLines == {<<"text", 0>>, <<"continued", 0>>, Broken} \cup Markers
AllTexts == UNION {[1 .. n -> SomeLines] : n \in 0 .. MaxLines} \cup [1 .. 4 -> Markers]

Symmetry == Permutations(Scripts) \cup Permutations(Ops)
=============================================================================
