------------------------------ MODULE ConfigCas ------------------------------
(***************************************************************************)
(* Replacing pg_hba.conf or pg_ident.conf (db_admin.py, _CAS_SCRIPT), at   *)
(* the level of names and inodes.  A file cannot be replaced only if it is *)
(* still the same, so the script compares, moves the file away, compares   *)
(* what it has moved, and links the new one where no file is.  While the   *)
(* name is free anybody may meet the gap.                                  *)
(*                                                                         *)
(* Scripts run one at a time as long as their clients live.  One that has  *)
(* lost its client goes on beside the script of a rerun.  An administrator *)
(* who makes a file in the gap of the first, which the second then takes   *)
(* away too, is left to the fault "crowd".                                 *)
(***************************************************************************)
EXTENDS AuthRules, FiniteSets

CONSTANTS Scripts,   \* runs of the script
          Texts,     \* what the file may be at first
          MaxEdits,  \* bound: writes by an administrator
          Faults     \* subset of {"edit", "replace", "create", "crowd", "kill"}

ASSUME ConfigCasAssumption ==
    /\ Texts \subseteq Seq(Line)
    /\ MaxEdits \in Nat
    /\ Faults \subseteq {"edit", "replace", "create", "crowd", "kill"}
    /\ Scripts \cap (0 .. MaxEdits) = {} /\ None \notin Scripts \cup (0 .. MaxEdits)

\* An inode is the original one, 0, or made by the n-th write of an
\* administrator, or the new file of a script.
Original == 0
Inodes == Scripts \cup (0 .. MaxEdits)

VARIABLES text,      \* Inodes -> contents
          stamp,     \* Inodes -> the number of the last write in place
          file,      \* the inode that has the file's name, or None
          prior,     \* Scripts -> the inode it has moved to its own directory
          content,   \* scripts whose new file still has its name there
          dropped,   \* inodes an administrator has replaced
          moved,     \* the inode that was last moved away
          edits,     \* how many writes there were
          pc, req, seen  \* Scripts -> label, request, the inode and stamp it compared

disk == <<text, stamp, file, prior, content, dropped, moved, edits>>
vars == <<disk, pc, req, seen>>

Labels == {"new", "compare", "fill", "recompare", "move", "verify", "restore", "link", "unlink",
           "written", "failed", "killed"}
Running == Labels \ {"new", "written", "failed", "killed"}
Gap == {"verify", "restore", "link"}

TypeOK ==
    /\ file \in Inodes \cup {None} /\ moved \in Inodes \cup {None}
    /\ stamp \in [Inodes -> 0 .. MaxEdits] /\ edits \in 0 .. MaxEdits
    /\ prior \in [Scripts -> Inodes \cup {None}]
    /\ content \subseteq Scripts /\ dropped \subseteq Inodes
    /\ pc \in [Scripts -> Labels]
    /\ seen \in [Scripts -> Inodes \X (0 .. MaxEdits) \cup {None}]

Init ==
    /\ \E t \in Texts : text = [i \in Inodes |-> IF i = Original THEN t ELSE <<>>]
    /\ stamp = [i \in Inodes |-> 0]
    /\ file = Original /\ moved = None
    /\ prior = [s \in Scripts |-> None]
    /\ content = {} /\ dropped = {} /\ edits = 0
    /\ pc = [s \in Scripts |-> "new"]
    /\ req = [s \in Scripts |-> None] /\ seen = [s \in Scripts |-> None]

-----------------------------------------------------------------------------
Goto(s, label) == pc' = [pc EXCEPT ![s] = label]

\* Names of an inode
Links(i) ==
    Cardinality({s \in Scripts : prior[s] = i}) + (IF file = i THEN 1 ELSE 0)
    + (IF i \in content THEN 1 ELSE 0)

Desired(s) == Propose(req[s].expected, req[s].op)

\* The command reads the file and proposes its rules (_rules), which must not be
\* there; then it starts the script.
Request(s) ==
    /\ pc[s] = "new" /\ file # None
    /\ "crowd" \in Faults \/ ~(file \in 0 .. MaxEdits /\ \E r \in Scripts : pc[r] \in Gap)
    /\ \E o \in Ops :
          /\ Accepted(text[file]) /\ Pass(text[file]).blocks[o] = <<>>
          /\ req' = [req EXCEPT ![s] = [op |-> o, expected |-> text[file]]]
    /\ Goto(s, "compare")
    /\ UNCHANGED <<disk, seen>>

\* owned_file and the digest
AsExpected(s) == file # None /\ Links(file) = 1 /\ text[file] = req[s].expected

Compare(s) ==
    /\ pc[s] = "compare" /\ AsExpected(s)
    /\ seen' = [seen EXCEPT ![s] = <<file, stamp[file]>>]
    /\ Goto(s, "fill")
    /\ UNCHANGED <<disk, req>>

\* mktemp and cat: the new file, under a name of the script's own
Fill(s) ==
    /\ pc[s] = "fill"
    /\ text' = [text EXCEPT ![s] = Desired(s)]
    /\ content' = content \cup {s}
    /\ Goto(s, "recompare")
    /\ UNCHANGED <<stamp, file, prior, dropped, moved, edits, req, seen>>

SameMetadata(s, i) == seen[s] = <<i, stamp[i]>>

Recompare(s) ==
    /\ pc[s] = "recompare" /\ AsExpected(s) /\ SameMetadata(s, file)
    /\ Goto(s, "move")
    /\ UNCHANGED <<disk, req, seen>>

\* mv -T: whatever has the name now.
Move(s) ==
    /\ pc[s] = "move" /\ file # None
    /\ prior' = [prior EXCEPT ![s] = file]
    /\ moved' = file /\ file' = None
    /\ Goto(s, "verify")
    /\ UNCHANGED <<text, stamp, content, dropped, edits, req, seen>>

\* Variant: what was moved is not looked at.
MovedAsExpectedUnread(s) == TRUE

\* What was moved is what was compared.
MovedAsExpected(s) ==
    /\ text[prior[s]] = req[s].expected
    /\ SameMetadata(s, prior[s]) /\ Links(prior[s]) = 1

Verify(s) ==
    /\ pc[s] = "verify"
    /\ Goto(s, IF MovedAsExpected(s) THEN "link" ELSE "restore")
    /\ UNCHANGED <<disk, req, seen>>

\* ln, which takes a free name only.
Link(s) ==
    /\ pc[s] = "link" /\ file = None
    /\ file' = s
    /\ Goto(s, "unlink")
    /\ UNCHANGED <<text, stamp, prior, content, dropped, moved, edits, req, seen>>

Unlink(s) ==
    /\ pc[s] = "unlink"
    /\ content' = content \ {s}
    /\ Goto(s, "written")
    /\ UNCHANGED <<text, stamp, file, prior, dropped, moved, edits, req, seen>>

\* Variant: nothing is put back.
RestoreNothing(s) ==
    /\ pc[s] = "restore"
    /\ content' = content \ {s}
    /\ Goto(s, "failed")
    /\ UNCHANGED <<text, stamp, file, prior, dropped, moved, edits, req, seen>>

\* ln -P: the name is given back if it is still free.  The inode keeps the
\* name in the script's directory, so that it has two links from now on.
Restore(s) ==
    /\ pc[s] = "restore"
    /\ file' = IF file = None THEN prior[s] ELSE file
    /\ content' = content \ {s}
    /\ Goto(s, "failed")
    /\ UNCHANGED <<text, stamp, prior, dropped, moved, edits, req, seen>>

\* Variant: a failing script clears its directory, what it has moved included.
FailAndClear(s) ==
    /\ \/ pc[s] = "compare" /\ ~AsExpected(s)
       \/ pc[s] = "recompare" /\ ~(AsExpected(s) /\ SameMetadata(s, file))
       \/ pc[s] = "move" /\ file = None
       \/ pc[s] = "link" /\ file # None
    /\ content' = content \ {s} /\ prior' = [prior EXCEPT ![s] = None]
    /\ Goto(s, "failed")
    /\ UNCHANGED <<text, stamp, file, dropped, moved, edits, req, seen>>

\* fail, or set -e: the trap removes the new file and leaves what was moved.
Fail(s) ==
    /\ \/ pc[s] = "compare" /\ ~AsExpected(s)
       \/ pc[s] = "recompare" /\ ~(AsExpected(s) /\ SameMetadata(s, file))
       \/ pc[s] = "move" /\ file = None
       \/ pc[s] = "link" /\ file # None
    /\ content' = content \ {s}
    /\ Goto(s, "failed")
    /\ UNCHANGED <<text, stamp, file, prior, dropped, moved, edits, req, seen>>

-----------------------------------------------------------------------------
(* The administrator, and a container that stops                           *)

\* A line of the administrator's, the n-th
Note(n) == <<"text", n>>

\* In place: the inode stays.
Edit ==
    /\ "edit" \in Faults /\ edits < MaxEdits /\ file # None
    /\ edits' = edits + 1
    /\ text' = [text EXCEPT ![file] = Append(@, Note(edits + 1))]
    /\ stamp' = [stamp EXCEPT ![file] = edits + 1]
    /\ UNCHANGED <<file, prior, content, dropped, moved, pc, req, seen>>

\* By an editor that renames its new file over the old one, in front or behind.
Replace ==
    /\ "replace" \in Faults /\ edits < MaxEdits /\ file # None
    /\ edits' = edits + 1
    /\ \E new \in {<<Note(edits + 1)>> \o text[file], Append(text[file], Note(edits + 1))} :
          text' = [text EXCEPT ![edits + 1] = new]
    /\ dropped' = dropped \cup {file} /\ file' = edits + 1
    /\ UNCHANGED <<stamp, prior, content, moved, pc, req, seen>>

\* Where no file is, the administrator may make one.
Create ==
    /\ "create" \in Faults /\ edits < MaxEdits /\ file = None
    /\ "crowd" \in Faults \/ Cardinality({s \in Scripts : pc[s] \in Running}) <= 1
    /\ edits' = edits + 1
    /\ text' = [text EXCEPT ![edits + 1] = <<Note(edits + 1)>>]
    /\ file' = edits + 1
    /\ UNCHANGED <<stamp, prior, content, dropped, moved, pc, req, seen>>

\* The script is killed with its container; no trap runs.
Kill(s) ==
    /\ "kill" \in Faults /\ pc[s] \in Running
    /\ Goto(s, "killed")
    /\ UNCHANGED <<disk, req, seen>>

-----------------------------------------------------------------------------
Work(s) ==
    \/ Compare(s) \/ Fill(s) \/ Recompare(s) \/ Move(s) \/ Verify(s)
    \/ Link(s) \/ Unlink(s) \/ Restore(s) \/ Fail(s)

Next ==
    \/ \E s \in Scripts : Request(s) \/ Work(s) \/ Kill(s)
    \/ Edit \/ Replace \/ Create

Spec == Init /\ [][Next]_vars

-----------------------------------------------------------------------------
(* Properties                                                              *)

\* Whatever is in a configuration file, the one pass of _blocks accepts it just
\* when every marker in it has one reading, and finds the blocks as they are.
TextsAreRead == file # None => ReadsTrue(text[file])

\* What a script installs is the text it was made of with the owner's block in
\* front: other owners' blocks and all other lines are kept, and it can be read
\* and proposed again (docs/local-lifecycle.md:11, existing rules are preserved).
ProposalsKeepTheRest ==
    \A s \in Scripts : req[s] # None => ProposesTrue(req[s].expected, req[s].op)

\* No text anybody else wrote is ever gone: it has the file's name, or lies where
\* a script has moved it, unless its administrator replaced it.
NothingDestroyed ==
    \A i \in 0 .. edits :
        text[i] # <<>> => i \in dropped \/ file = i \/ \E s \in Scripts : prior[s] = i

\* The name is free only within the three steps of a script, or if one was
\* killed there; the file that had it is then in the directory of that script.
MissingIsHeld ==
    file = None => \E s \in Scripts : /\ pc[s] \in Gap \cup {"killed"}
                                      /\ prior[s] = moved

\* To everybody else the script is one atomic compare-and-set: the register is
\* the file, or what was moved away last while there is none.
Register == INSTANCE ConfigRegister
              WITH value <- text[IF file # None THEN file ELSE moved]
ImplementsRegister == Register!Spec
=============================================================================
