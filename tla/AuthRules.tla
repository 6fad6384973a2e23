------------------------------ MODULE AuthRules ------------------------------
(***************************************************************************)
(* The pure part of the authentication rules (db_config.py): which lines   *)
(* of pg_hba.conf or pg_ident.conf are the tool's, and what it proposes.   *)
(*                                                                         *)
(* A line is a pair of a kind and what tells lines of one kind apart.      *)
(* Line ends are left out: that a block takes the style of the first line. *)
(***************************************************************************)
EXTENDS Naturals, Sequences

CONSTANTS Ops,     \* owners of blocks: the operations
          None     \* the absent value

ASSUME AuthRulesAssumption == None \notin Ops

\* "marker": a line with the words of a marker that is none, or not exactly.
Begin(o) == <<"begin", o>>
End(o) == <<"end", o>>
Rules(o) == <<"rules", o>>
Broken == <<"marker", None>>

\* Every line there can be; a text is a sequence of them.
Line == ({"begin", "end", "rules"} \X Ops)
          \cup ({"text", "continued", "marker"} \X (Nat \cup {None}))

IsMarker(line) == line[1] \in {"begin", "end", "marker"}
Continued(line) == line[1] = "continued"      \* ends with a backslash

-----------------------------------------------------------------------------
(* _blocks: one pass, which refuses what it cannot read for certain         *)

\* What the pass knows after some lines: the block it is in, the blocks it has
\* seen, whether it still accepts, and whether the last line is continued.
NoBlocks == [o \in Ops |-> <<>>]
Start == [ok |-> TRUE, open |-> None, from |-> 0, blocks |-> NoBlocks, continued |-> FALSE]

\* Variant: a block may be begun twice.
ReadTwice(state, line, i) ==
    LET kind == line[1]
        o == line[2]
        next == [state EXCEPT !.continued = Continued(line)]
    IN  IF ~IsMarker(line) THEN next
        ELSE IF kind = "begin" /\ ~state.continued /\ state.open = None
             THEN [next EXCEPT !.open = o, !.from = i]
        ELSE IF kind = "end" /\ ~state.continued /\ state.open = o
             THEN [next EXCEPT !.open = None, !.blocks[o] = <<state.from, i>>]
        ELSE [next EXCEPT !.ok = FALSE]

Read(state, line, i) ==
    LET kind == line[1]
        o == line[2]
        next == [state EXCEPT !.continued = Continued(line)]
    IN  IF ~IsMarker(line) THEN next
        ELSE IF kind = "begin" /\ ~state.continued /\ state.open = None /\ state.blocks[o] = <<>>
             THEN [next EXCEPT !.open = o, !.from = i]
        ELSE IF kind = "end" /\ ~state.continued /\ state.open = o
             THEN [next EXCEPT !.open = None, !.blocks[o] = <<state.from, i>>]
        ELSE [next EXCEPT !.ok = FALSE]

Pass(text) ==
    LET after[i \in 0 .. Len(text)] ==
          IF i = 0 THEN Start
          ELSE IF ~after[i - 1].ok THEN after[i - 1] ELSE Read(after[i - 1], text[i], i)
    IN  after[Len(text)]

Accepted(text) == LET p == Pass(text) IN p.ok /\ p.open = None

\* The lines of an owner's block, <<>> if it has none (owned_block)
OwnedBlock(text, o) ==
    LET b == Pass(text).blocks[o]
    IN  IF b = <<>> THEN <<>> ELSE SubSeq(text, b[1], b[2])

-----------------------------------------------------------------------------
(* propose_config                                                          *)

Block(o) == <<Begin(o), Rules(o), End(o)>>

\* A new block goes first.  One that is there is replaced, if it is the first
\* thing in the file.
MayPropose(text, o) ==
    /\ Accepted(text)
    /\ Pass(text).blocks[o] # <<>> => Pass(text).blocks[o][1] = 1

\* Variant: the rest begins at the last line of the replaced block.
ProposeFromEnd(text, o) ==
    LET b == Pass(text).blocks[o]
    IN  Block(o) \o (IF b = <<>> THEN text ELSE SubSeq(text, b[2], Len(text)))

Propose(text, o) ==
    LET b == Pass(text).blocks[o]
    IN  Block(o) \o (IF b = <<>> THEN text ELSE SubSeq(text, b[2] + 1, Len(text)))

-----------------------------------------------------------------------------
(* What the two are for, said without a pass                                *)

\* The lines from..to are a block of o: its markers, and nothing of the kind
\* between them.
IsBlock(text, o, from, to) ==
    /\ from \in 1 .. Len(text) /\ to \in from + 1 .. Len(text)
    /\ text[from] = Begin(o) /\ text[to] = End(o)
    /\ \A i \in from + 1 .. to - 1 : ~IsMarker(text[i])

\* Every marker belongs to a block, no marker is the rest of a continued line,
\* and an owner has one block at most.
Unambiguous(text) ==
    /\ \A i \in 1 .. Len(text) : IsMarker(text[i]) =>
          /\ i > 1 => ~Continued(text[i - 1])
          /\ \E o \in Ops, j \in 1 .. Len(text) : IsBlock(text, o, i, j) \/ IsBlock(text, o, j, i)
    /\ \A o \in Ops, i, j \in 1 .. Len(text) : text[i] = Begin(o) /\ text[j] = Begin(o) => i = j

\* The pass accepts just the unambiguous texts, and finds their blocks.
ReadsTrue(text) ==
    LET p == Pass(text)
        accepted == p.ok /\ p.open = None
    IN  /\ accepted <=> Unambiguous(text)
        /\ accepted => \A o \in Ops :
             IF p.blocks[o] = <<>> THEN \A i \in 1 .. Len(text) : text[i] # Begin(o)
             ELSE IsBlock(text, o, p.blocks[o][1], p.blocks[o][2])

\* A proposal can be read again, has the owner's rules first, and is otherwise
\* the text it was made of; proposing again changes nothing.
ProposesTrue(text, o) ==
    LET proposed == Propose(text, o)
        before == OwnedBlock(text, o)
    IN  /\ Accepted(proposed) /\ MayPropose(proposed, o)
        /\ OwnedBlock(proposed, o) = Block(o)
        /\ proposed = Block(o) \o SubSeq(text, Len(before) + 1, Len(text))
        /\ \A q \in Ops \ {o} : OwnedBlock(proposed, q) = OwnedBlock(text, q)
        /\ Propose(proposed, o) = proposed
=============================================================================
