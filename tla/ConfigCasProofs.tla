--------------------------- MODULE ConfigCasProofs ---------------------------
(***************************************************************************)
(* Proofs about ConfigCas, for every number of scripts and of writes, and  *)
(* with every fault: names and inodes (IInv), what is in the files         *)
(* (TextInv, with what AuthRulesProofs says of every text), and the        *)
(* register (Serial).                                                      *)
(***************************************************************************)
EXTENDS ConfigCas, AuthRulesProofs, FiniteSetTheorems

Before == {"new", "compare", "fill", "recompare", "move"}

\* The inodes that are there by now; the others are empty.
Made == Scripts \cup (0 .. edits)

Shape ==
    /\ file \in Made \cup {None} /\ moved \in Made \cup {None}
    /\ edits \in 0 .. MaxEdits
    /\ \A i \in Inodes \ Made : text[i] = <<>>
    /\ prior \in [Scripts -> Made \cup {None}]
    /\ pc \in [Scripts -> Labels]
    /\ DOMAIN text = Inodes

\* A script has moved nothing before its step "move", and something after it.
MovedOnce ==
    \A s \in Scripts : /\ pc[s] \in Before => prior[s] = None
                       /\ pc[s] \in Gap => prior[s] # None

IInv == Shape /\ MovedOnce /\ NothingDestroyed /\ MissingIsHeld

LEMMA Distinct ==
    /\ None \notin Inodes
    /\ \A s \in Scripts : s \notin 0 .. MaxEdits
    /\ \A n \in 0 .. MaxEdits : n \in Inodes
    /\ \A s \in Scripts : s \in Inodes
    /\ MaxEdits \in Nat
BY ConfigCasAssumption DEF Inodes

-----------------------------------------------------------------------------
LEMMA InitIInv == Init => IInv
<1> SUFFICES ASSUME Init PROVE IInv
    OBVIOUS
<1> USE Distinct
<1>1. PICK t \in Texts : text = [i \in Inodes |-> IF i = Original THEN t ELSE <<>>]
      BY DEF Init
<1>2. Shape
      BY <1>1, ConfigCasAssumption DEF Init, Shape, Labels, Original, Inodes, Made
<1>3. MovedOnce
      BY DEF Init, MovedOnce, Before, Gap
<1>4. NothingDestroyed
      BY DEF Init, NothingDestroyed, Original
<1>5. MissingIsHeld
      BY DEF Init, MissingIsHeld, Original, Inodes
<1> QED BY <1>2, <1>3, <1>4, <1>5 DEF IInv

-----------------------------------------------------------------------------
(* The steps that leave the file, the text of others and the moved alone    *)

\* A script goes on without having moved, or within the gap, or it ends.
LEMMA QuietStep ==
    ASSUME IInv, NEW s \in Scripts, NEW label \in Labels,
           Goto(s, label), pc[s] # "killed",
           UNCHANGED <<file, prior, dropped, moved, edits>>,
           DOMAIN text' = Inodes,
           \A i \in 0 .. MaxEdits : text'[i] = text[i],
           \/ pc[s] \in Before /\ label \in Before
           \/ pc[s] \in Gap /\ label \in Gap \cup {"killed"}
           \/ label \notin Before \cup Gap /\ (pc[s] \in Gap => file # None)
           \/ pc[s] \in Labels \ Gap /\ label = "killed"
    PROVE  IInv'
<1> USE Distinct DEF IInv
<1>1. /\ pc' = [pc EXCEPT ![s] = label] /\ pc \in [Scripts -> Labels]
      BY DEF Goto, Shape, Made
<1>2. Shape'
  <2>1. \A i \in Inodes \ Made : text'[i] = <<>>
        BY DEF Shape, Made, Inodes
  <2>2. Made' = Made
        BY DEF Made
  <2> QED BY <1>1, <2>1, <2>2 DEF Shape
<1>3. MovedOnce'
      BY <1>1 DEF MovedOnce, Before, Gap
<1>4. NothingDestroyed'
      BY DEF NothingDestroyed, Shape, Made
<1>5. MissingIsHeld'
  <2> SUFFICES ASSUME file = None
               PROVE  \E r \in Scripts : pc'[r] \in Gap \cup {"killed"} /\ prior[r] = moved
      BY DEF MissingIsHeld
  <2>1. PICK r \in Scripts : pc[r] \in Gap \cup {"killed"} /\ prior[r] = moved
        BY DEF MissingIsHeld
  <2>2. CASE r = s
        BY <1>1, <2>1, <2>2 DEF Before, Gap
  <2>3. CASE r # s
        BY <1>1, <2>1, <2>3
  <2> QED BY <2>2, <2>3
<1> QED BY <1>2, <1>3, <1>4, <1>5

\* The name of the file is given to an inode while it is free.
LEMMA NamedStep ==
    ASSUME IInv, NEW s \in Scripts, NEW label \in Labels \ Before, NEW i \in Made,
           Goto(s, label), file = None, file' = i,
           pc[s] \in Gap, label \notin Gap,
           UNCHANGED <<text, prior, dropped, moved, edits>>
    PROVE  IInv'
<1> USE Distinct DEF IInv
<1>1. /\ pc' = [pc EXCEPT ![s] = label] /\ pc \in [Scripts -> Labels]
      BY DEF Goto, Shape, Made
<1>2. Shape'
      BY <1>1 DEF Shape, Made
<1>3. MovedOnce'
      BY <1>1 DEF MovedOnce
<1>4. NothingDestroyed'
      BY DEF NothingDestroyed, Shape, Made
<1>5. MissingIsHeld'
  <2>1. i # None
        BY DEF Shape, Made, Inodes
  <2> QED BY <2>1 DEF MissingIsHeld
<1> QED BY <1>2, <1>3, <1>4, <1>5

LEMMA MoveStep ==
    ASSUME IInv, NEW s \in Scripts, Move(s)
    PROVE  IInv'
<1> USE Distinct DEF IInv
<1>1. /\ pc' = [pc EXCEPT ![s] = "verify"] /\ pc \in [Scripts -> Labels]
      /\ prior' = [prior EXCEPT ![s] = file] /\ prior \in [Scripts -> Made \cup {None}]
      /\ pc[s] = "move" /\ file \in Made /\ file # None /\ file' = None /\ moved' = file
      /\ UNCHANGED <<text, dropped, edits>>
      BY DEF Move, Goto, Shape, Made
<1>2. prior[s] = None
      BY <1>1 DEF MovedOnce, Before
<1>3. Shape'
      BY <1>1 DEF Shape, Made, Labels
<1>4. MovedOnce'
      BY <1>1 DEF MovedOnce, Before, Gap
<1>5. NothingDestroyed'
  <2> SUFFICES ASSUME NEW i \in 0 .. edits, text[i] # <<>>, i \notin dropped
               PROVE  \E r \in Scripts : prior'[r] = i
      BY <1>1 DEF NothingDestroyed
  <2>0. i \in 0 .. MaxEdits
        BY DEF Shape, Made
  <2>1. CASE file = i
        BY <1>1, <2>1
  <2>2. CASE file # i
    <3>1. PICK r \in Scripts : prior[r] = i
          BY <2>2 DEF NothingDestroyed
    <3>2. r # s
          BY <1>2, <3>1, <2>0
    <3> QED BY <1>1, <3>1, <3>2
  <2> QED BY <2>1, <2>2
<1>6. MissingIsHeld'
      BY <1>1 DEF MissingIsHeld, Gap
<1> QED BY <1>3, <1>4, <1>5, <1>6

-----------------------------------------------------------------------------
(* The administrator                                                       *)

LEMMA EditStep == IInv /\ Edit => IInv'
<1> SUFFICES ASSUME IInv, Edit PROVE IInv'
    OBVIOUS
<1> USE Distinct DEF IInv
<1>1. /\ file \in Made /\ file # None /\ edits < MaxEdits /\ edits' = edits + 1
      /\ DOMAIN text' = DOMAIN text /\ \A i \in Inodes : i # file => text'[i] = text[i]
      /\ UNCHANGED <<file, prior, dropped, moved, pc>>
      BY DEF Edit, Shape, Made
<1>2. Shape'
      BY <1>1 DEF Shape, Made, Inodes
<1>3. MovedOnce'
      BY <1>1 DEF MovedOnce
<1>4. NothingDestroyed'
  <2> SUFFICES ASSUME NEW i \in 0 .. edits + 1, text'[i] # <<>>, i \notin dropped, file # i
               PROVE  \E r \in Scripts : prior[r] = i
      BY <1>1 DEF NothingDestroyed
  <2>1. i \in Inodes /\ text'[i] = text[i]
        BY <1>1 DEF Shape
  <2>2. i \in 0 .. edits
    <3>1. i \notin Scripts /\ edits \in Nat /\ i \in Made
          BY <1>1, <2>1 DEF Shape
    <3> QED BY <3>1 DEF Made
  <2> QED BY <2>1, <2>2 DEF NothingDestroyed
<1>5. MissingIsHeld'
      BY <1>1 DEF MissingIsHeld
<1> QED BY <1>2, <1>3, <1>4, <1>5

LEMMA AdminStep == IInv /\ (Replace \/ Create) => IInv'
<1> SUFFICES ASSUME IInv, Replace \/ Create PROVE IInv'
    OBVIOUS
<1> USE Distinct DEF IInv
<1>1. /\ edits < MaxEdits /\ edits' = edits + 1 /\ file' = edits + 1
      /\ DOMAIN text' = DOMAIN text /\ \A i \in Inodes : i # edits + 1 => text'[i] = text[i]
      /\ \/ file = None /\ dropped' = dropped
         \/ dropped' = dropped \cup {file}
      /\ UNCHANGED <<prior, moved, pc>>
      BY DEF Replace, Create, Shape, Made
<1>2. /\ edits + 1 \in Inodes /\ edits + 1 \in 0 .. MaxEdits
      BY <1>1 DEF Shape, Made
<1>3. Shape'
      BY <1>1, <1>2 DEF Shape, Made
<1>4. MovedOnce'
      BY <1>1 DEF MovedOnce
<1>5. NothingDestroyed'
      BY <1>1, <1>2 DEF NothingDestroyed, Shape, Made
<1>6. MissingIsHeld'
      BY <1>1, <1>2 DEF MissingIsHeld
<1> QED BY <1>3, <1>4, <1>5, <1>6
-----------------------------------------------------------------------------
LEMMA ScriptStep ==
    ASSUME IInv, NEW s \in Scripts, Request(s) \/ Work(s) \/ Kill(s)
    PROVE  IInv'
<1> USE Distinct
<1>0. DOMAIN text = Inodes /\ text[s] = text[s] /\ pc \in [Scripts -> Labels]
      BY DEF IInv, Shape
<1>1. CASE Request(s)
      BY <1>0, <1>1, QuietStep DEF Request, disk, Before, Labels
<1>2. CASE Compare(s)
      BY <1>0, <1>2, QuietStep DEF Compare, disk, Before, Labels
<1>3. CASE Fill(s)
      BY <1>0, <1>3, QuietStep DEF Fill, disk, Before, Labels
<1>4. CASE Recompare(s)
      BY <1>0, <1>4, QuietStep DEF Recompare, disk, Before, Labels
<1>5. CASE Move(s)
      BY <1>5, MoveStep
<1>6. CASE Verify(s)
  <2>1. PICK label \in {"link", "restore"} : Goto(s, label)
        BY <1>6 DEF Verify
  <2> QED BY <1>0, <1>6, <2>1, QuietStep DEF Verify, disk, Gap, Labels
<1>7. CASE Link(s)
      BY <1>7, NamedStep DEF Link, Labels, Before, Gap, Made
<1>8. CASE Unlink(s)
      BY <1>0, <1>8, QuietStep DEF Unlink, Labels, Before, Gap
<1>9. CASE Restore(s) /\ file # None
      BY <1>0, <1>9, QuietStep DEF Restore, Labels, Before, Gap
<1>10. CASE Restore(s) /\ file = None
  <2>1. prior[s] \in Made
        BY <1>10 DEF IInv, Shape, MovedOnce, Gap, Restore
  <2>2. /\ Goto(s, "failed") /\ file' = prior[s] /\ pc[s] \in Gap
        /\ UNCHANGED <<text, prior, dropped, moved, edits>>
        BY <1>10 DEF Restore, Gap
  <2> QED BY <1>10, <2>1, <2>2, NamedStep DEF Labels, Before, Gap
<1>11. CASE Fail(s)
  <2>1. pc[s] \in Labels /\ pc[s] # "killed" /\ (pc[s] \in Gap => file # None)
        BY <1>0, <1>11 DEF Fail, Gap
  <2> QED BY <1>0, <1>11, <2>1, QuietStep DEF Fail, Labels, Before, Gap
<1>12. CASE Kill(s)
  <2>1. /\ Goto(s, "killed") /\ pc[s] \in Labels /\ pc[s] # "killed"
        /\ UNCHANGED <<text, file, prior, dropped, moved, edits>>
        BY <1>0, <1>12 DEF Kill, Running, disk
  <2>2. \/ pc[s] \in Gap /\ "killed" \in Gap \cup {"killed"}
        \/ pc[s] \in Labels \ Gap /\ "killed" = "killed"
        BY <2>1
  <2>3. "killed" \in Labels
        BY DEF Labels
  <2> HIDE DEF Gap, Labels, Before
  <2> QED BY <1>0, <2>1, <2>2, <2>3, QuietStep
<1> QED BY <1>1, <1>2, <1>3, <1>4, <1>5, <1>6, <1>7, <1>8, <1>9, <1>10, <1>11, <1>12 DEF Work

LEMMA NextIInv == IInv /\ [Next]_vars => IInv'
<1> SUFFICES ASSUME IInv, [Next]_vars PROVE IInv'
    OBVIOUS
<1>1. CASE UNCHANGED vars
      BY <1>1 DEF vars, disk, IInv, Shape, Made, MovedOnce, NothingDestroyed, MissingIsHeld
<1>2. CASE Next
      BY <1>2, ScriptStep, EditStep, AdminStep DEF Next
<1> QED BY <1>1, <1>2

\* Whatever administrators and killed scripts do, and whoever meets whom in the
\* gap: replacing a file (_CAS_SCRIPT) never destroys a text it did not write.
THEOREM NothingDestroyedTheorem == Spec => []NothingDestroyed
<1>1. Spec => []IInv
      BY InitIInv, NextIInv, PTL DEF Spec
<1>2. IInv => NothingDestroyed
      BY DEF IInv
<1> QED BY <1>1, <1>2, PTL

\* The configuration file is missing only while a script is between its moving
\* the file away and its linking the new one, or was killed there, and that
\* script's directory has the file that was moved away last.
THEOREM MissingIsHeldTheorem == Spec => []MissingIsHeld
<1>1. Spec => []IInv
      BY InitIInv, NextIInv, PTL DEF Spec
<1>2. IInv => MissingIsHeld
      BY DEF IInv
<1> QED BY <1>1, <1>2, PTL
-----------------------------------------------------------------------------
LEMMA InitTypeOK == Init => TypeOK
BY Distinct, ConfigCasAssumption DEF Init, TypeOK, Labels, Original

LEMMA NextTypeOK == IInv /\ IInv' /\ TypeOK /\ [Next]_vars => TypeOK'
<1> SUFFICES ASSUME IInv, IInv', TypeOK, [Next]_vars PROVE TypeOK'
    OBVIOUS
<1> USE Distinct
<1>0. /\ file' \in Inodes \cup {None} /\ moved' \in Inodes \cup {None}
      /\ edits' \in 0 .. MaxEdits
      /\ prior' \in [Scripts -> Inodes \cup {None}] /\ pc' \in [Scripts -> Labels]
  <2>1. Made' \subseteq Inodes
        BY DEF IInv, Shape, Made, Inodes
  <2> QED BY <2>1 DEF IInv, Shape
<1>1. ASSUME NEW s \in Scripts, Compare(s) PROVE TypeOK'
  <2>1. file \in Inodes /\ <<file, stamp[file]>> \in Inodes \X (0 .. MaxEdits)
        BY <1>1 DEF Compare, AsExpected, TypeOK
  <2> QED BY <1>0, <1>1, <2>1 DEF Compare, disk, TypeOK
<1>2. ASSUME NEW s \in Scripts,
             Request(s) \/ Fill(s) \/ Recompare(s) \/ Move(s) \/ Verify(s) \/ Link(s)
               \/ Unlink(s) \/ Restore(s) \/ Fail(s) \/ Kill(s)
      PROVE  TypeOK'
  <2>1. UNCHANGED <<stamp, dropped, seen>> /\ content' \in {content, content \cup {s}, content \ {s}}
        BY <1>2 DEF Request, Fill, Recompare, Move, Verify, Link, Unlink, Restore, Fail, Kill, disk
  <2> QED BY <1>0, <2>1 DEF TypeOK
<1>3. CASE Edit
  <2>1. file \in Inodes /\ edits + 1 \in 0 .. MaxEdits
        BY <1>0, <1>3 DEF Edit, TypeOK
  <2> QED BY <1>0, <1>3, <2>1 DEF Edit, TypeOK
<1>4. CASE Replace
      BY <1>0, <1>4 DEF Replace, TypeOK
<1>5. CASE Create
      BY <1>0, <1>5 DEF Create, TypeOK
<1>6. CASE UNCHANGED vars
      BY <1>0, <1>6 DEF vars, disk, TypeOK
<1> QED BY <1>1, <1>2, <1>3, <1>4, <1>5, <1>6 DEF Next, Work

\* Every variable of the replacement of a file (_CAS_SCRIPT) keeps its type: what a
\* script has compared, and what has a name, are inodes.
THEOREM CasTypeOK == Spec => []TypeOK
<1>1. Spec => []IInv
      BY InitIInv, NextIInv, PTL DEF Spec
<1> QED BY <1>1, InitTypeOK, NextTypeOK, PTL DEF Spec
-----------------------------------------------------------------------------
(* What is in the files.  Every inode has a text, and a script's request is  *)
(* an accepted text that has no block of its operation.                      *)

Proposable(t, o) == Accepted(t) /\ Pass(t).blocks[o] = <<>>

TextInv ==
    /\ text \in [Inodes -> Seq(Line)]
    /\ DOMAIN req = Scripts
    /\ \A s \in Scripts :
          IF pc[s] = "new" THEN req[s] = None
          ELSE /\ req[s].op \in Ops /\ req[s].expected \in Seq(Line)
               /\ Proposable(req[s].expected, req[s].op)

LEMMA NotesAreLines == \A n \in Nat : Note(n) \in Line /\ <<Note(n)>> \in Seq(Line)
BY DEF Note, Line

LEMMA ProposedText ==
    ASSUME NEW t \in Seq(Line), NEW o \in Ops, Proposable(t, o)
    PROVE  Propose(t, o) \in Seq(Line)
<1>1. Propose(t, o) = Block(o) \o t
      BY DEF Propose, Proposable
<1>2. Block(o) \in Seq(Line)
      BY BlockLines
<1> QED BY <1>1, <1>2, ConcatProperties

LEMMA InitTextInv == Init => TextInv
<1> SUFFICES ASSUME Init PROVE TextInv
    OBVIOUS
<1>1. PICK t \in Texts : text = [i \in Inodes |-> IF i = Original THEN t ELSE <<>>]
      BY DEF Init
<1>2. t \in Seq(Line) /\ <<>> \in Seq(Line)
      BY ConfigCasAssumption
<1> QED BY <1>1, <1>2 DEF Init, TextInv

LEMMA NextTextInv == IInv /\ TextInv /\ [Next]_vars => TextInv'
<1> SUFFICES ASSUME IInv, TextInv, [Next]_vars PROVE TextInv'
    OBVIOUS
<1> USE Distinct
<1>0. /\ pc \in [Scripts -> Labels] /\ file \in Inodes \cup {None} /\ edits \in 0 .. MaxEdits
      /\ text \in [Inodes -> Seq(Line)] /\ DOMAIN req = Scripts
      BY DEF IInv, Shape, Made, Inodes, TextInv
<1>1. ASSUME NEW s \in Scripts, Request(s) PROVE TextInv'
  <2>1. PICK o \in Ops : /\ Proposable(text[file], o)
                         /\ req' = [req EXCEPT ![s] = [op |-> o, expected |-> text[file]]]
        BY <1>1 DEF Request, Proposable
  <2>2. file \in Inodes /\ text[file] \in Seq(Line)
        BY <1>0, <1>1 DEF Request
  <2>3. req'[s].op = o /\ req'[s].expected = text[file] /\ DOMAIN req' = Scripts
        BY <1>0, <2>1
  <2>4. pc'[s] # "new" /\ text' = text
        BY <1>0, <1>1 DEF Request, Goto, disk
  <2>5. \A r \in Scripts \ {s} : req'[r] = req[r] /\ pc'[r] = pc[r]
        BY <1>0, <1>1, <2>1 DEF Request, Goto
  <2> QED BY <1>0, <2>1, <2>2, <2>3, <2>4, <2>5 DEF TextInv
<1>2. ASSUME NEW s \in Scripts, Work(s) \/ Kill(s), text' \in [Inodes -> Seq(Line)] PROVE TextInv'
  <2>1. PICK label \in Labels : pc' = [pc EXCEPT ![s] = label] /\ label # "new" /\ pc[s] # "new"
        BY <1>0, <1>2
        DEF Work, Kill, Compare, Fill, Recompare, Move, Verify, Link, Unlink, Restore, Fail, Goto,
            Running, Labels
  <2>2. req' = req
        BY <1>2
        DEF Work, Kill, Compare, Fill, Recompare, Move, Verify, Link, Unlink, Restore, Fail, disk
  <2>3. \A r \in Scripts : pc'[r] = "new" <=> pc[r] = "new"
        BY <1>0, <2>1
  <2> QED BY <1>2, <2>2, <2>3 DEF TextInv
<1>3. ASSUME NEW s \in Scripts, Fill(s) PROVE text' \in [Inodes -> Seq(Line)]
  <2>1. pc[s] # "new" /\ text' = [text EXCEPT ![s] = Propose(req[s].expected, req[s].op)]
        BY <1>3 DEF Fill, Desired
  <2>2. Propose(req[s].expected, req[s].op) \in Seq(Line)
        BY <2>1, ProposedText DEF TextInv
  <2> QED BY <1>0, <2>1, <2>2
<1>4. ASSUME NEW s \in Scripts,
             Compare(s) \/ Recompare(s) \/ Move(s) \/ Verify(s) \/ Link(s) \/ Unlink(s)
               \/ Restore(s) \/ Fail(s) \/ Kill(s)
      PROVE  text' \in [Inodes -> Seq(Line)]
      BY <1>0, <1>4 DEF Compare, Recompare, Move, Verify, Link, Unlink, Restore, Fail, Kill, disk
<1>5. CASE Edit \/ Replace \/ Create
  <2>1. edits < MaxEdits /\ edits + 1 \in Inodes /\ edits + 1 \in Nat /\ UNCHANGED <<pc, req>>
        BY <1>0, <1>5 DEF Edit, Replace, Create
  <2>2. Note(edits + 1) \in Line /\ <<Note(edits + 1)>> \in Seq(Line)
        BY <2>1, NotesAreLines
  <2>3. text' \in [Inodes -> Seq(Line)]
    <3>1. CASE Edit
      <4>1. file \in Inodes /\ text[file] \in Seq(Line)
            BY <1>0, <3>1 DEF Edit
      <4>2. Append(text[file], Note(edits + 1)) \in Seq(Line)
            BY <2>2, <4>1, AppendProperties
      <4> QED BY <1>0, <3>1, <4>1, <4>2 DEF Edit
    <3>2. CASE Replace
      <4>1. file \in Inodes /\ text[file] \in Seq(Line)
            BY <1>0, <3>2 DEF Replace
      <4>2. Append(text[file], Note(edits + 1)) \in Seq(Line)
            BY <2>2, <4>1, AppendProperties
      <4>3. <<Note(edits + 1)>> \o text[file] \in Seq(Line)
            BY <2>2, <4>1, ConcatProperties
      <4>4. \A new \in {<<Note(edits + 1)>> \o text[file], Append(text[file], Note(edits + 1))} :
              new \in Seq(Line)
            BY <4>2, <4>3
      <4>5. PICK new \in Seq(Line) : text' = [text EXCEPT ![edits + 1] = new]
            BY <3>2, <4>4 DEF Replace
      <4> QED BY <1>0, <4>5
    <3>3. CASE Create
          BY <1>0, <2>1, <2>2, <3>3 DEF Create
    <3> QED BY <1>5, <3>1, <3>2, <3>3
  <2> QED BY <2>1, <2>3 DEF TextInv
<1>6. CASE UNCHANGED vars
      BY <1>6 DEF vars, disk, TextInv
<1> QED BY <1>1, <1>2, <1>3, <1>4, <1>5, <1>6 DEF Next, Work

LEMMA TextsInvariant == Spec => [](IInv /\ TextInv)
BY InitIInv, NextIInv, InitTextInv, NextTextInv, PTL DEF Spec

\* Whatever is in a configuration file, of any length and whoever wrote it: the
\* pass of _blocks accepts it just when it is unambiguous, and finds its blocks.
THEOREM TextsAreReadTheorem == Spec => []TextsAreRead
<1>1. IInv /\ TextInv => TextsAreRead
  <2>1. IInv /\ TextInv /\ file # None => text[file] \in Seq(Line)
        BY Distinct DEF IInv, Shape, Made, Inodes, TextInv
  <2> QED BY <2>1, PassReadsTrue DEF TextsAreRead
<1> QED BY <1>1, TextsInvariant, PTL

\* What a script is asked to install (propose_config) is the text it was made of
\* with the owner's block in front, nothing of anybody else changed, and can be
\* read and proposed again.
THEOREM ProposalsKeepTheRestTheorem == Spec => []ProposalsKeepTheRest
<1>1. TextInv => ProposalsKeepTheRest
  <2> SUFFICES ASSUME TextInv, NEW s \in Scripts, req[s] # None
               PROVE  ProposesTrue(req[s].expected, req[s].op)
      BY DEF ProposalsKeepTheRest
  <2>1. /\ req[s].op \in Ops /\ req[s].expected \in Seq(Line)
        /\ MayPropose(req[s].expected, req[s].op)
        BY DEF TextInv, Proposable, MayPropose
  <2> QED BY <2>1, ProposalsTrue
<1> QED BY <1>1, TextsInvariant, PTL
-----------------------------------------------------------------------------
(* The register.  Without the fault "crowd" a script in its gap is alone     *)
(* with the file, so that what it links replaces what it has moved.          *)

\* The new file of a script has no name but its own until it is linked.
Unnamed ==
    \A s \in Scripts : pc[s] \in Before \cup Gap =>
        file # s /\ moved # s /\ \A r \in Scripts : prior[r] # s

\* One script is in its gap at a time, and what fills the name meanwhile is an
\* administrator's, with nobody else about.
Alone ==
    \A s \in Scripts : pc[s] \in Gap =>
        /\ \A r \in Scripts \ {s} : pc[r] \notin Gap
        /\ file = None => moved = prior[s]
        /\ file # None => /\ file \in 0 .. MaxEdits
                          /\ \A r \in Scripts \ {s} : pc[r] \notin Running

\* A request stands, its new file is written, and what was moved was compared.
Standing ==
    /\ DOMAIN req = Scripts
    /\ \A s \in Scripts :
        /\ pc[s] \in Running \ {"unlink"} =>
              /\ req[s].op \in Ops /\ Accepted(req[s].expected)
              /\ Pass(req[s].expected).blocks[req[s].op] = <<>>
        /\ pc[s] \in {"recompare", "move", "verify", "link"} => text[s] = Desired(s)
        /\ pc[s] = "link" /\ file = None => text[prior[s]] = req[s].expected

Serial == IInv /\ Unnamed /\ Alone /\ Standing

LEMMA InitSerial == Init => Serial
<1> SUFFICES ASSUME Init PROVE Serial
    OBVIOUS
<1> USE Distinct
<1>1. \A s \in Scripts : pc[s] = "new" /\ prior[s] = None
      BY DEF Init
<1>2. Unnamed
      BY <1>1 DEF Init, Unnamed, Original
<1>3. Alone
      BY <1>1 DEF Alone, Gap
<1>4. Standing
      BY <1>1 DEF Init, Standing, Running, Labels
<1> QED BY <1>2, <1>3, <1>4, InitIInv DEF Serial

LEMMA NextUnnamed == IInv /\ Unnamed /\ [Next]_vars => Unnamed'
<1> SUFFICES ASSUME IInv, Unnamed, [Next]_vars, NEW s \in Scripts, pc'[s] \in Before \cup Gap
             PROVE  file' # s /\ moved' # s /\ \A r \in Scripts : prior'[r] # s
    BY DEF Unnamed
<1> USE Distinct
<1>0. pc \in [Scripts -> Labels] /\ prior \in [Scripts -> Made \cup {None}]
      BY DEF IInv, Shape
<1>1. ASSUME NEW q \in Scripts, Request(q) PROVE file' # s /\ moved' # s /\ \A r \in Scripts : prior'[r] # s
      BY <1>0, <1>1 DEF Request, Goto, disk, Unnamed, Before
<1>2. ASSUME NEW q \in Scripts,
             Compare(q) \/ Fill(q) \/ Recompare(q) \/ Verify(q) \/ Unlink(q) \/ Fail(q) \/ Kill(q)
      PROVE  file' # s /\ moved' # s /\ \A r \in Scripts : prior'[r] # s
  <2>1. UNCHANGED <<file, moved, prior>> /\ (q # s => pc'[s] = pc[s])
        BY <1>0, <1>2 DEF Compare, Fill, Recompare, Verify, Unlink, Fail, Kill, Goto, disk
  <2>2. pc[s] \in Before \cup Gap
        BY <1>0, <1>2, <2>1 DEF Compare, Fill, Recompare, Verify, Unlink, Fail, Kill, Goto, Before, Gap
  <2> QED BY <2>1, <2>2 DEF Unnamed
<1>3. ASSUME NEW q \in Scripts, Move(q) PROVE file' # s /\ moved' # s /\ \A r \in Scripts : prior'[r] # s
      BY <1>0, <1>3 DEF Move, Goto, Unnamed, Before, Gap
<1>4. ASSUME NEW q \in Scripts, Link(q) \/ Restore(q)
      PROVE  file' # s /\ moved' # s /\ \A r \in Scripts : prior'[r] # s
      BY <1>0, <1>4 DEF Link, Restore, Goto, Unnamed, Before, Gap
<1>5. CASE Edit \/ Replace \/ Create
      BY <1>5 DEF Edit, Replace, Create, Unnamed, IInv, Shape
<1>6. CASE UNCHANGED vars
      BY <1>6 DEF vars, disk, Unnamed
<1> QED BY <1>1, <1>2, <1>3, <1>4, <1>5, <1>6 DEF Next, Work

LEMMA OnlyOne ==
    ASSUME IsFiniteSet(Scripts), NEW s \in Scripts, pc[s] \in Running,
           Cardinality({q \in Scripts : pc[q] \in Running}) <= 1
    PROVE  \A r \in Scripts \ {s} : pc[r] \notin Running
<1> DEFINE S == {q \in Scripts : pc[q] \in Running}
<1>1. IsFiniteSet(S)
      BY FS_Subset
<1> SUFFICES ASSUME NEW r \in Scripts \ {s}, pc[r] \in Running PROVE FALSE
    OBVIOUS
<1>2. {s} \cup {r} \in SUBSET S
      OBVIOUS
<1>3. IsFiniteSet({s}) /\ Cardinality({s}) = 1
      BY FS_Singleton
<1>4. Cardinality({s} \cup {r}) = 2
      BY <1>3, FS_AddElement
<1>5. Cardinality({s} \cup {r}) <= Cardinality(S)
      BY <1>1, <1>2, FS_Subset
<1>6. Cardinality(S) \in Nat
      BY <1>1, FS_CardinalityType
<1> QED BY <1>4, <1>5, <1>6

LEMMA NextAlone ==
    ASSUME IsFiniteSet(Scripts), "crowd" \notin Faults, IInv, Alone, [Next]_vars
    PROVE  Alone'
<1> USE Distinct
<1>0. /\ pc \in [Scripts -> Labels] /\ prior \in [Scripts -> Made \cup {None}]
      /\ Gap \subseteq Running
      BY DEF IInv, Shape, Gap, Running, Labels
<1>1. ASSUME NEW q \in Scripts, Request(q) PROVE Alone'
      BY <1>0, <1>1 DEF Request, Goto, disk, Alone, Gap
<1>2. ASSUME NEW q \in Scripts,
             Compare(q) \/ Fill(q) \/ Recompare(q) \/ Verify(q) \/ Unlink(q) \/ Fail(q) \/ Kill(q)
      PROVE  Alone'
  <2>1. PICK label \in Labels : Goto(q, label)
        BY <1>0, <1>2 DEF Compare, Fill, Recompare, Verify, Unlink, Fail, Kill, Labels
  <2>2. /\ UNCHANGED <<file, moved, prior>> /\ pc' = [pc EXCEPT ![q] = label]
        /\ pc[q] \in Running /\ (label \in Gap => pc[q] \in Gap)
        BY <1>0, <1>2, <2>1
           DEF Compare, Fill, Recompare, Verify, Unlink, Fail, Kill, Goto, disk, Gap, Running, Labels
  <2> QED BY <1>0, <2>2 DEF Alone
<1>3. ASSUME NEW q \in Scripts, Move(q) PROVE Alone'
  <2>1. /\ pc' = [pc EXCEPT ![q] = "verify"] /\ pc[q] = "move" /\ file # None
        /\ file' = None /\ moved' = file /\ prior' = [prior EXCEPT ![q] = file]
        BY <1>3 DEF Move, Goto
  <2>2. \A r \in Scripts \ {q} : pc[r] \notin Gap
        BY <2>1 DEF Alone, Running, Labels
  <2> QED BY <1>0, <2>1, <2>2 DEF Alone, Gap
<1>4. ASSUME NEW q \in Scripts, Link(q) \/ Restore(q) PROVE Alone'
  <2>1. \A r \in Scripts : pc'[r] \notin Gap
        BY <1>0, <1>4 DEF Link, Restore, Goto, Alone, Gap
  <2> QED BY <2>1 DEF Alone
<1>5. CASE Edit \/ Replace
      BY <1>5 DEF Edit, Replace, Alone, IInv, Shape
<1>6. CASE Create
  <2>1. /\ file' \in 0 .. MaxEdits /\ file = None /\ UNCHANGED <<moved, prior, pc>>
        BY <1>6 DEF Create, IInv, Shape
  <2>2. \A s \in Scripts : pc[s] \in Gap => \A r \in Scripts \ {s} : pc[r] \notin Running
        BY <1>0, <1>6, OnlyOne DEF Create
  <2> QED BY <2>1, <2>2 DEF Alone
<1>7. CASE UNCHANGED vars
      BY <1>7 DEF vars, disk, Alone
<1> QED BY <1>1, <1>2, <1>3, <1>4, <1>5, <1>6, <1>7 DEF Next, Work
LEMMA NextStanding == Serial /\ [Next]_vars => Standing'
<1> SUFFICES ASSUME Serial, [Next]_vars PROVE Standing'
    OBVIOUS
<1> USE Distinct
<1>0. /\ pc \in [Scripts -> Labels] /\ prior \in [Scripts -> Made \cup {None}]
      /\ DOMAIN text = Inodes /\ DOMAIN req = Scripts
      BY DEF Serial, IInv, Shape, Standing
<1>1. ASSUME NEW q \in Scripts, Request(q) PROVE Standing'
  <2>1. PICK o \in Ops :
           /\ Accepted(text[file]) /\ Pass(text[file]).blocks[o] = <<>>
           /\ req' = [req EXCEPT ![q] = [op |-> o, expected |-> text[file]]]
        BY <1>1 DEF Request
  <2>2. pc' = [pc EXCEPT ![q] = "compare"] /\ UNCHANGED disk
        BY <1>1 DEF Request, Goto
  <2>3. ASSUME NEW s \in Scripts, s # q PROVE pc'[s] = pc[s] /\ req'[s] = req[s]
        BY <1>0, <2>1, <2>2, <2>3
  <2>4. DOMAIN req' = Scripts /\ pc'[q] = "compare"
        /\ req'[q] = [op |-> o, expected |-> text[file]]
        BY <1>0, <2>1, <2>2
  <2>5. req'[q].op \in Ops /\ Accepted(req'[q].expected)
        /\ Pass(req'[q].expected).blocks[req'[q].op] = <<>>
        BY <2>1, <2>4
  <2> HIDE DEF Running
  <2> QED BY <2>2, <2>3, <2>4, <2>5 DEF Serial, Standing, Desired, disk
<1>2. ASSUME NEW q \in Scripts, Fill(q) PROVE Standing'
  <2>1. /\ pc' = [pc EXCEPT ![q] = "recompare"] /\ pc[q] = "fill" /\ UNCHANGED <<file, prior, req>>
        /\ text' = [text EXCEPT ![q] = Desired(q)]
        BY <1>2 DEF Fill, Goto
  <2>2. \A s \in Scripts : prior[s] # q
        BY <2>1 DEF Serial, Unnamed, Before
  <2>3. \A s \in Scripts : s # q => text'[s] = text[s] /\ text'[prior[s]] = text[prior[s]]
        BY <1>0, <2>1, <2>2
  <2> QED BY <1>0, <2>1, <2>2, <2>3 DEF Serial, Standing, Desired, Running, Labels
<1>3. ASSUME NEW q \in Scripts, Verify(q) PROVE Standing'
  <2>1. UNCHANGED <<text, file, prior, req>> /\ pc[q] = "verify"
        BY <1>3 DEF Verify, disk
  <2>2. CASE MovedAsExpected(q)
        BY <1>0, <1>3, <2>1, <2>2 DEF Verify, MovedAsExpected, Goto, Serial, Standing, Desired, Running, Labels
  <2>3. CASE ~MovedAsExpected(q)
        BY <1>0, <1>3, <2>1, <2>3 DEF Verify, Goto, Serial, Standing, Desired, Running, Labels
  <2> QED BY <2>2, <2>3
<1>4. ASSUME NEW q \in Scripts, Move(q) PROVE Standing'
  <2>1. /\ pc' = [pc EXCEPT ![q] = "verify"] /\ pc[q] = "move" /\ file # None
        /\ prior' = [prior EXCEPT ![q] = file] /\ UNCHANGED <<text, req>>
        BY <1>4 DEF Move, Goto
  <2>2. \A s \in Scripts \ {q} : pc[s] \notin Gap
        BY <2>1 DEF Serial, Alone, Running, Labels
  <2> QED BY <1>0, <2>1, <2>2 DEF Serial, Standing, Desired, Running, Labels, Gap
<1>5. ASSUME NEW q \in Scripts,
             Compare(q) \/ Recompare(q) \/ Link(q) \/ Unlink(q) \/ Restore(q) \/ Fail(q) \/ Kill(q)
      PROVE  Standing'
  <2>1. PICK label \in Labels : Goto(q, label)
        BY <1>5 DEF Compare, Recompare, Link, Unlink, Restore, Fail, Kill, Labels
  <2>2. /\ pc' = [pc EXCEPT ![q] = label] /\ UNCHANGED <<text, prior, req>>
        /\ pc[q] \in Running
        /\ label \in Running \ {"unlink"} =>
              \/ pc[q] = "compare" /\ label = "fill"
              \/ pc[q] = "recompare" /\ label = "move"
        /\ file' = None => file = None
        BY <1>0, <1>5, <2>1
           DEF Compare, Recompare, Link, Unlink, Restore, Fail, Kill, Goto, disk, Running, Labels
  <2> QED BY <1>0, <2>2 DEF Serial, Standing, Desired, Running, Labels
<1>6. CASE Edit \/ Replace \/ Create
  <2>1. /\ file' # None /\ UNCHANGED <<pc, req, prior>>
        BY <1>6 DEF Edit, Replace, Create, Serial, IInv, Shape
  <2>2. \A s \in Scripts : pc[s] \in {"recompare", "move", "verify", "link"} => text'[s] = text[s]
        BY <1>0, <1>6 DEF Edit, Replace, Create, Serial, Unnamed, Before, Gap, IInv, Shape, Inodes
  <2> QED BY <1>0, <2>1, <2>2 DEF Serial, Standing, Desired
<1>7. CASE UNCHANGED vars
      BY <1>7 DEF vars, disk, Serial, Standing, Desired
<1> QED BY <1>1, <1>2, <1>3, <1>4, <1>5, <1>6, <1>7 DEF Next, Work

Value == text[IF file # None THEN file ELSE moved]

\* The register reads and proposes by the same rules.
LEMMA SamePass == \A t : Register!Pass(t) = Pass(t)
BY DEF Register!Pass, Pass, Register!Start, Start, Register!NoBlocks, NoBlocks, Register!Read, Read,
       Register!IsMarker, IsMarker, Register!Continued, Continued

LEMMA SameRules ==
    ASSUME NEW t, NEW o
    PROVE  Register!Accepted(t) = Accepted(t) /\ Register!Propose(t, o) = Propose(t, o)
BY SamePass DEF Register!Accepted, Accepted, Register!Propose, Propose, Register!Block, Block,
   Register!Begin, Begin, Register!End, End, Register!Rules, Rules

LEMMA StepRegister == Serial /\ [Next]_vars => [Register!Next]_<<Value, edits>>
<1> SUFFICES ASSUME Serial, [Next]_vars
             PROVE  Register!Next \/ UNCHANGED <<Value, edits>>
    OBVIOUS
<1> USE Distinct
<1>0. /\ DOMAIN text = Inodes /\ edits \in Nat
      BY DEF Serial, IInv, Shape
<1>1. ASSUME NEW q \in Scripts, Link(q) PROVE Register!Next
  <2>1. pc[q] = "link" /\ file = None /\ file' = q /\ UNCHANGED <<text, edits>>
        BY <1>1 DEF Link
  <2>2. moved = prior[q] /\ text[prior[q]] = req[q].expected /\ text[q] = Desired(q)
        BY <2>1 DEF Serial, Alone, Standing, Gap
  <2>3. /\ req[q].op \in Ops /\ Accepted(req[q].expected)
        /\ Pass(req[q].expected).blocks[req[q].op] = <<>>
        BY <2>1 DEF Serial, Standing, Running, Labels
  <2>4. Value = req[q].expected /\ Value' = Propose(req[q].expected, req[q].op)
        BY <2>1, <2>2 DEF Value, Desired
  <2>5. Register!CompareAndSet(req[q].op)
        BY <2>1, <2>3, <2>4, SamePass, SameRules DEF Register!CompareAndSet, Value
  <2> QED BY <2>3, <2>5 DEF Register!Next
<1>2. CASE Edit \/ Replace \/ Create
      BY <1>2 DEF Edit, Replace, Create, Register!Next, Register!Write
<1>3. ASSUME NEW q \in Scripts, Fill(q) PROVE UNCHANGED <<Value, edits>>
  <2>1. /\ UNCHANGED <<file, moved, edits>> /\ text' = [text EXCEPT ![q] = Desired(q)]
        /\ file # q /\ moved # q
        BY <1>3 DEF Fill, Serial, Unnamed, Before
  <2> QED BY <1>0, <2>1 DEF Value
<1>4. ASSUME NEW q \in Scripts, Move(q) PROVE UNCHANGED <<Value, edits>>
      BY <1>4 DEF Move, Value
<1>5. ASSUME NEW q \in Scripts, Restore(q) PROVE UNCHANGED <<Value, edits>>
      BY <1>5 DEF Restore, Value, Serial, Alone, Gap, MovedOnce, IInv
<1>6. ASSUME NEW q \in Scripts,
             Request(q) \/ Compare(q) \/ Recompare(q) \/ Verify(q) \/ Unlink(q) \/ Fail(q) \/ Kill(q)
      PROVE  UNCHANGED <<Value, edits>>
      BY <1>6 DEF Request, Compare, Recompare, Verify, Unlink, Fail, Kill, disk, Value
<1>7. CASE UNCHANGED vars
      BY <1>7 DEF vars, disk, Value
<1> QED BY <1>1, <1>2, <1>3, <1>4, <1>5, <1>6, <1>7 DEF Next, Work

\* The refinement: as long as no administrator makes a file in the gap of one
\* script beside another, moving a file away, looking at it and linking a new one
\* (_CAS_SCRIPT) is one compare-and-set.
THEOREM CasImplementsRegister ==
    ASSUME IsFiniteSet(Scripts), "crowd" \notin Faults
    PROVE  Spec => ImplementsRegister
<1>1. Init => edits = 0
      BY DEF Init
<1>2. Serial /\ [Next]_vars => Serial'
      BY NextIInv, NextUnnamed, NextAlone, NextStanding DEF Serial
<1>3. Serial /\ [Next]_vars => [Register!Next]_<<Value, edits>>
      BY StepRegister
<1> QED BY <1>1, <1>2, <1>3, InitSerial, PTL DEF Spec, ImplementsRegister, Register!Spec, Value
=============================================================================
