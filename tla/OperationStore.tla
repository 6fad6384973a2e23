--------------------------- MODULE OperationStore ---------------------------
(***************************************************************************)
(* operation_store: the directory of an operation, with its journal        *)
(* events.jsonl, its write-once artifacts and the flock both are used      *)
(* under.  A process may end after any call and inside any write; the host *)
(* may crash and then loses what no fsync covers.  What processes read is  *)
(* the kernel's view (journal, file); what fsync has covered is beside it  *)
(* (durable, synced, entries).                                             *)
(*                                                                         *)
(* The directories above an operation's own are taken to exist: _open_root *)
(* makes them once and syncs none of them.                                 *)
(***************************************************************************)
EXTENDS Naturals, Sequences, FiniteSets

CONSTANTS
    Procs, Ops,
    Phases,         \* PHASES
    Names,          \* ARTIFACTS
    Values,         \* contents of an artifact
    MaxEvents,      \* the lines that fit into MAX_ARTIFACT_BYTES
    None, Absent, Torn

ASSUME OperationStoreAssumption ==
    /\ None \notin Procs \cup Ops
    /\ Absent \notin Values
    /\ Torn \notin Values
    /\ Absent # Torn
    /\ MaxEvents \in Nat

Events == [sequence : 0 .. MaxEvents, phase : Phases]

Labels == {"idle", "held", "append", "sync", "syncdir", "write", "syncfile", "syncentry"}

VARIABLES
    pc, op,         \* each process: its step and the operation it has open
    line,           \* the event record() is about to append
    name, value,    \* the arguments of write_artifact()
    made, lock,     \* the operations with a directory, the holders of their locks
    journal, torn,  \* whole lines of events.jsonl, and whether a cut one follows
    durable,        \* how many of the lines an fsync has covered
    file,           \* each artifact: Absent, Torn or its contents
    synced,         \* the artifacts whose contents an fsync has covered
    entries,        \* the names in the directory an fsync of it has covered
    acked, saved    \* what record() and write_artifact() have returned for

procVars == <<pc, op, line, name, value>>
journalVars == <<journal, torn, durable, acked>>
artifactVars == <<file, synced, saved>>
vars == <<procVars, made, lock, journalVars, artifactVars, entries>>

Journal == "events.jsonl"

Init ==
    /\ pc = [p \in Procs |-> "idle"]
    /\ op = [p \in Procs |-> None]
    /\ line = [p \in Procs |-> None]
    /\ name = [p \in Procs |-> None]
    /\ value = [p \in Procs |-> None]
    /\ made = {}
    /\ lock = [o \in Ops |-> None]
    /\ journal = [o \in Ops |-> <<>>]
    /\ torn = [o \in Ops |-> FALSE]
    /\ durable = [o \in Ops |-> 0]
    /\ acked = [o \in Ops |-> 0]
    /\ file = [o \in Ops |-> [n \in Names |-> Absent]]
    /\ synced = [o \in Ops |-> {}]
    /\ saved = [o \in Ops |-> {}]
    /\ entries = [o \in Ops |-> {}]

-----------------------------------------------------------------------------
Goto(p, label) == pc' = [pc EXCEPT ![p] = label] /\ UNCHANGED <<op, line, name, value>>

\* What os.fsync(self.directory) covers: every name there is.
Present(o) ==
    (IF journal[o] # <<>> \/ torn[o] THEN {Journal} ELSE {})
      \cup {n \in Names : file[o][n] # Absent}

\* operation(None): a directory nobody else knows, synced into its parent
\* before anything is written to it, and its lock.
CreateOperation(p, o) ==
    /\ pc[p] = "idle"
    /\ o \notin made
    /\ made' = made \cup {o}
    /\ lock' = [lock EXCEPT ![o] = p]
    /\ op' = [op EXCEPT ![p] = o]
    /\ pc' = [pc EXCEPT ![p] = "held"]
    /\ UNCHANGED <<line, name, value, journalVars, artifactVars, entries>>

\* Variant: the lock is shared.
OpenOperationShared(p, o) ==
    /\ pc[p] = "idle"
    /\ o \in made
    /\ lock' = [lock EXCEPT ![o] = p]
    /\ op' = [op EXCEPT ![p] = o]
    /\ pc' = [pc EXCEPT ![p] = "held"]
    /\ UNCHANGED <<line, name, value, made, journalVars, artifactVars, entries>>

\* operation(id); OPERATION_BUSY if the lock is taken.
OpenOperation(p, o) ==
    /\ pc[p] = "idle"
    /\ o \in made
    /\ lock[o] = None
    /\ lock' = [lock EXCEPT ![o] = p]
    /\ op' = [op EXCEPT ![p] = o]
    /\ pc' = [pc EXCEPT ![p] = "held"]
    /\ UNCHANGED <<line, name, value, made, journalVars, artifactVars, entries>>

\* The block is left, by return or by an error of any call, or the process is
\* gone: SIGKILL releases a flock too.
Close(p) ==
    /\ pc[p] # "idle"
    /\ lock' = [lock EXCEPT ![op[p]] = IF @ = p THEN None ELSE @]
    /\ pc' = [pc EXCEPT ![p] = "idle"]
    /\ op' = [op EXCEPT ![p] = None]
    /\ line' = [line EXCEPT ![p] = None]
    /\ name' = [name EXCEPT ![p] = None]
    /\ value' = [value EXCEPT ![p] = None]
    /\ UNCHANGED <<made, journalVars, artifactVars, entries>>

\* events() raises STATE_PARTIAL or STATE_INVALID otherwise.
Readable(o) ==
    /\ ~torn[o]
    /\ Len(journal[o]) <= MaxEvents
    /\ \A i \in DOMAIN journal[o] : journal[o][i].sequence = i - 1

\* Variant: the lines are counted and not read.
StartRecordUnread(p, phase) ==
    /\ pc[p] = "held"
    /\ line' = [line EXCEPT ![p] = [sequence |-> Len(journal[op[p]]), phase |-> phase]]
    /\ pc' = [pc EXCEPT ![p] = "append"]
    /\ UNCHANGED <<op, name, value, made, lock, journalVars, artifactVars, entries>>

\* record(phase): the journal is read, and its length numbers the new line.
StartRecord(p, phase) ==
    /\ pc[p] = "held"
    /\ Readable(op[p])
    /\ line' = [line EXCEPT ![p] = [sequence |-> Len(journal[op[p]]), phase |-> phase]]
    /\ pc' = [pc EXCEPT ![p] = "append"]
    /\ UNCHANGED <<op, name, value, made, lock, journalVars, artifactVars, entries>>

\* The new line fits; STATE_INVALID otherwise.
Fits(o) == Len(journal[o]) < MaxEvents

AppendLine(p) ==
    /\ pc[p] = "append"
    /\ Fits(op[p])
    /\ journal' = [journal EXCEPT ![op[p]] = Append(@, line[p])]
    /\ Goto(p, "sync")
    /\ UNCHANGED <<made, lock, torn, durable, acked, artifactVars, entries>>

\* The write is cut short, by the file system or by the end of the process.
TearLine(p) ==
    /\ pc[p] = "append"
    /\ Fits(op[p])
    /\ torn' = [torn EXCEPT ![op[p]] = TRUE]
    /\ Goto(p, "sync")
    /\ UNCHANGED <<made, lock, journal, durable, acked, artifactVars, entries>>

\* Variant: the directory is synced and the file is not.
SyncJournalSkipped(p) ==
    /\ pc[p] = "sync"
    /\ ~torn[op[p]]
    /\ Goto(p, "syncdir")
    /\ UNCHANGED <<made, lock, journalVars, artifactVars, entries>>

\* _write has written all of the line and syncs the file.
SyncJournal(p) ==
    /\ pc[p] = "sync"
    /\ ~torn[op[p]]
    /\ durable' = [durable EXCEPT ![op[p]] = Len(journal[op[p]])]
    /\ Goto(p, "syncdir")
    /\ UNCHANGED <<made, lock, journal, torn, acked, artifactVars, entries>>

\* The directory, and record() returns.
ReturnRecorded(p) ==
    /\ pc[p] = "syncdir"
    /\ entries' = [entries EXCEPT ![op[p]] = Present(op[p])]
    /\ acked' = [acked EXCEPT ![op[p]] = Len(journal[op[p]])]
    /\ line' = [line EXCEPT ![p] = None]
    /\ pc' = [pc EXCEPT ![p] = "held"]
    /\ UNCHANGED <<op, name, value, made, lock, journal, torn, durable, artifactVars>>

\* Variant: a file that is cut is taken for none, and filled again.
CreateArtifactOverCut(p, n, v) ==
    /\ pc[p] = "held"
    /\ file[op[p]][n] \in {Absent, Torn}
    /\ file' = [file EXCEPT ![op[p]][n] = Torn]
    /\ name' = [name EXCEPT ![p] = n]
    /\ value' = [value EXCEPT ![p] = v]
    /\ pc' = [pc EXCEPT ![p] = "write"]
    /\ UNCHANGED <<op, line, made, lock, journalVars, synced, saved, entries>>

\* write_artifact(n, v): created exclusively; STATE_CONFLICT otherwise.
CreateArtifact(p, n, v) ==
    /\ pc[p] = "held"
    /\ file[op[p]][n] = Absent
    /\ file' = [file EXCEPT ![op[p]][n] = Torn]
    /\ name' = [name EXCEPT ![p] = n]
    /\ value' = [value EXCEPT ![p] = v]
    /\ pc' = [pc EXCEPT ![p] = "write"]
    /\ UNCHANGED <<op, line, made, lock, journalVars, synced, saved, entries>>

\* Until this step the file is empty or cut short.
WriteArtifact(p) ==
    /\ pc[p] = "write"
    /\ file' = [file EXCEPT ![op[p]][name[p]] = value[p]]
    /\ Goto(p, "syncfile")
    /\ UNCHANGED <<made, lock, journalVars, synced, saved, entries>>

\* Variant: the contents are not synced.
SyncArtifactSkipped(p) ==
    /\ pc[p] = "syncfile"
    /\ Goto(p, "syncentry")
    /\ UNCHANGED <<made, lock, journalVars, artifactVars, entries>>

SyncArtifact(p) ==
    /\ pc[p] = "syncfile"
    /\ synced' = [synced EXCEPT ![op[p]] = @ \cup {name[p]}]
    /\ Goto(p, "syncentry")
    /\ UNCHANGED <<made, lock, journalVars, file, saved, entries>>

\* The directory, and write_artifact() returns.
ReturnSaved(p) ==
    /\ pc[p] = "syncentry"
    /\ entries' = [entries EXCEPT ![op[p]] = Present(op[p])]
    /\ saved' = [saved EXCEPT ![op[p]] = @ \cup {name[p]}]
    /\ name' = [name EXCEPT ![p] = None]
    /\ value' = [value EXCEPT ![p] = None]
    /\ pc' = [pc EXCEPT ![p] = "held"]
    /\ UNCHANGED <<op, line, made, lock, journalVars, file, synced>>

-----------------------------------------------------------------------------
(* The crash of the host *)

\* What may be left of an artifact.
Leftovers(o, n) ==
    (IF n \in entries[o] THEN {} ELSE {Absent})
      \cup (IF n \in synced[o] \/ file[o][n] = Absent THEN {file[o][n]} ELSE {file[o][n], Torn})

\* How many whole lines may be left.
KeptLines(o) ==
    (IF Journal \in entries[o] THEN {} ELSE {0}) \cup durable[o] .. Len(journal[o])

\* Every process is gone and every lock free; each file is what was synced, or
\* more.  A line that is lost may leave its beginning.
HostCrash ==
    /\ pc' = [p \in Procs |-> "idle"]
    /\ op' = [p \in Procs |-> None]
    /\ line' = [p \in Procs |-> None]
    /\ name' = [p \in Procs |-> None]
    /\ value' = [p \in Procs |-> None]
    /\ lock' = [o \in Ops |-> None]
    /\ \E kept \in [Ops -> 0 .. MaxEvents] :
         /\ \A o \in Ops : kept[o] \in KeptLines(o)
         /\ journal' = [o \in Ops |-> SubSeq(journal[o], 1, kept[o])]
         /\ durable' = kept
         /\ torn' \in [Ops -> BOOLEAN]
         /\ \A o \in Ops : torn'[o] => torn[o] \/ kept[o] < Len(journal[o])
    /\ file' \in [Ops -> [Names -> Values \cup {Absent, Torn}]]
    /\ \A o \in Ops, n \in Names : file'[o][n] \in Leftovers(o, n)
    /\ synced' = [o \in Ops |-> {n \in Names : file'[o][n] # Absent}]
    /\ entries' = [o \in Ops |-> Present(o)']
    /\ UNCHANGED <<made, acked, saved>>

-----------------------------------------------------------------------------
Step(p) ==
    \/ \E o \in Ops : CreateOperation(p, o) \/ OpenOperation(p, o)
    \/ Close(p)
    \/ \E phase \in Phases : StartRecord(p, phase)
    \/ AppendLine(p) \/ TearLine(p) \/ SyncJournal(p) \/ ReturnRecorded(p)
    \/ \E n \in Names, v \in Values : CreateArtifact(p, n, v)
    \/ WriteArtifact(p) \/ SyncArtifact(p) \/ ReturnSaved(p)

Next == (\E p \in Procs : Step(p)) \/ HostCrash

Spec == Init /\ [][Next]_vars

-----------------------------------------------------------------------------
(* Properties *)

\* Every variable has its type.
TypeOK ==
    /\ pc \in [Procs -> Labels]
    /\ op \in [Procs -> Ops \cup {None}]
    /\ line \in [Procs -> Events \cup {None}]
    /\ name \in [Procs -> Names \cup {None}]
    /\ value \in [Procs -> Values \cup {None}]
    /\ made \subseteq Ops
    /\ lock \in [Ops -> Procs \cup {None}]
    /\ journal \in [Ops -> Seq(Events)]
    /\ torn \in [Ops -> BOOLEAN]
    /\ durable \in [Ops -> Nat]
    /\ acked \in [Ops -> Nat]
    /\ file \in [Ops -> [Names -> Values \cup {Absent, Torn}]]
    /\ synced \in [Ops -> SUBSET Names]
    /\ saved \in [Ops -> SUBSET Names]
    /\ entries \in [Ops -> SUBSET (Names \cup {Journal})]

\* Whoever wrote and whatever crashed, a journal whose last line is whole can be
\* read: its lines are numbered from 0 without a gap or a repeat, and it has not
\* outgrown the size events() accepts.  Two writers, or a line more than fits,
\* would make every later command on the operation fail.
WholeIsReadable == \A o \in Ops : torn[o] \/ Readable(o)

\* Nothing is appended to a journal that ends in a cut line.
TornIsLast ==
    [][\A o \in Ops : torn[o] => Len(journal'[o]) <= Len(journal[o])]_vars

\* After a crash of the host, every event and artifact whose call returned is
\* still there and whole.
ReturnedSurvives ==
    \A o \in Ops :
        /\ acked[o] <= Len(journal[o])
        /\ \A n \in saved[o] : file[o][n] \in Values

\* A process in the middle of write_artifact(), and an artifact nobody writes any
\* more: its writer has returned or ended, and left it whole or cut.
Writes(p, o, n) == pc[p] \in {"write", "syncfile", "syncentry"} /\ op[p] = o /\ name[p] = n
Left(o, n) == file[o][n] # Absent /\ \A p \in Procs : ~Writes(p, o, n)

\* An artifact has one writer, ever, and one value.  Contents that are whole never
\* change; and what a writer has left, cut or whole, no rerun and no other process
\* takes up again, to fill, empty or replace it.  Only a crash of the host may
\* take what was not yet returned for, and leaves none of it or a part.
WrittenOnce ==
    [][\A o \in Ops, n \in Names :
         (file[o][n] \in Values \/ Left(o, n)) =>
            \/ file'[o][n] = file[o][n] /\ (Left(o, n) => Left(o, n)')
            \/ HostCrash /\ n \notin saved[o] /\ file'[o][n] \in {Absent, Torn}]_vars

\* The journal is an append-only log whose acknowledged part survives.
Log == INSTANCE EventLog WITH Logs <- Ops, Events <- Events, log <- journal, acked <- acked
ImplementsLog == Log!LogSpec
=============================================================================
