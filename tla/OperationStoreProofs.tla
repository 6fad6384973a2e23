------------------------ MODULE OperationStoreProofs ------------------------
(***************************************************************************)
(* Proofs about OperationStore for every set of processes, operations,     *)
(* artifacts and contents, and every size of a journal.                    *)
(*                                                                         *)
(* The inductive invariant has three parts: a process that has an          *)
(* operation open holds its lock, so that what it has read of the          *)
(* directory stays true (Holders); the lines of a journal are numbered,    *)
(* cut or not, and acknowledged ones are synced together with the name of  *)
(* the file (Journals); the same of artifacts (ArtifactsInv).              *)
(***************************************************************************)
EXTENDS OperationStore, SequenceTheorems, TLAPS

\* An open operation exists and is locked by the process that has it open.
Holders ==
    \A p \in Procs : pc[p] # "idle" =>
        op[p] \in Ops /\ op[p] \in made /\ lock[op[p]] = p

\* The whole lines of a journal, whether or not a cut one follows.
Numbered(o) ==
    /\ Len(journal[o]) <= MaxEvents
    /\ \A i \in 1 .. Len(journal[o]) : journal[o][i].sequence = i - 1

\* Acknowledged lines are on the disk, and so is the name of their file.
Durable(o) ==
    /\ acked[o] <= durable[o]
    /\ durable[o] <= Len(journal[o])
    /\ acked[o] > 0 => Journal \in entries[o]

\* What a process in the middle of record() knows of the journal.
Recording(p) ==
    /\ pc[p] = "append" =>
         /\ line[p] \in [sequence : Nat, phase : Phases]
         /\ line[p].sequence = Len(journal[op[p]])
         /\ ~torn[op[p]]
    /\ pc[p] = "syncdir" => durable[op[p]] = Len(journal[op[p]])

Journals ==
    /\ \A o \in Ops : Numbered(o) /\ Durable(o)
    /\ \A p \in Procs : Recording(p)

\* What a process in the middle of write_artifact() knows of the file.
Writing(p) ==
    /\ pc[p] \in {"write", "syncfile", "syncentry"} => name[p] \in Names /\ value[p] \in Values
    /\ pc[p] = "write" => file[op[p]][name[p]] = Torn
    /\ pc[p] \in {"syncfile", "syncentry"} => file[op[p]][name[p]] \in Values
    /\ pc[p] = "syncentry" => name[p] \in synced[op[p]]

ArtifactsInv ==
    /\ \A o \in Ops, n \in Names : n \in saved[o] =>
         file[o][n] \in Values /\ n \in synced[o] /\ n \in entries[o]
    /\ \A p \in Procs : Writing(p)

IInv == TypeOK /\ Holders /\ Journals /\ ArtifactsInv

\* No two processes have the same operation open.
LEMMA Exclusive ==
    ASSUME Holders, NEW p \in Procs, NEW q \in Procs, pc[p] # "idle", pc[q] # "idle",
           op[p] = op[q]
    PROVE  p = q
  BY DEF Holders

\* Nothing is there at first.
LEMMA InitIInv == Init => IInv
<1> SUFFICES ASSUME Init PROVE IInv
  OBVIOUS
<1>1. TypeOK
  BY OperationStoreAssumption DEF Init, TypeOK, Labels
<1>2. Holders /\ ArtifactsInv
  BY DEF Init, Holders, ArtifactsInv, Writing
<1>3. Journals
  BY OperationStoreAssumption DEF Init, Journals, Numbered, Durable, Recording
<1> QED
  BY <1>1, <1>2, <1>3 DEF IInv

-----------------------------------------------------------------------------
(* Opening and closing an operation *)

LEMMA OpenIInv ==
    ASSUME IInv, NEW p \in Procs, NEW o \in Ops, CreateOperation(p, o) \/ OpenOperation(p, o)
    PROVE  IInv'
<1> USE OperationStoreAssumption DEF IInv
<1>1. /\ pc[p] = "idle"
      /\ lock[o] = None \/ o \notin made
      /\ lock' = [lock EXCEPT ![o] = p]
      /\ op' = [op EXCEPT ![p] = o]
      /\ pc' = [pc EXCEPT ![p] = "held"]
      /\ made' \in {made, made \cup {o}}
      /\ o \in made'
      /\ UNCHANGED <<line, name, value, journal, torn, durable, acked, file, synced,
                     saved, entries>>
  BY DEF CreateOperation, OpenOperation, journalVars, artifactVars
<1>2. TypeOK'
  BY <1>1 DEF TypeOK, Labels
<1>3. Holders'
  <2> SUFFICES ASSUME NEW q \in Procs, pc'[q] # "idle"
               PROVE  op'[q] \in Ops /\ op'[q] \in made' /\ lock'[op'[q]] = q
    BY DEF Holders
  <2>1. CASE q = p
    BY <2>1, <1>1 DEF TypeOK
  <2>2. CASE q # p
    BY <2>2, <1>1 DEF TypeOK, Holders
  <2> QED
    BY <2>1, <2>2
<1>4. Journals'
  BY <1>1 DEF TypeOK, Journals, Numbered, Durable, Recording
<1>5. ArtifactsInv'
  BY <1>1 DEF TypeOK, ArtifactsInv, Writing
<1> QED
  BY <1>2, <1>3, <1>4, <1>5

LEMMA CloseIInv ==
    ASSUME IInv, NEW p \in Procs, Close(p)
    PROVE  IInv'
<1> USE OperationStoreAssumption DEF IInv, Close, journalVars, artifactVars
<1>1. TypeOK'
  BY DEF TypeOK, Labels, Holders
<1>2. Holders'
  BY DEF TypeOK, Holders
<1>3. Journals'
  BY DEF TypeOK, Journals, Numbered, Durable, Recording
<1>4. ArtifactsInv'
  BY DEF TypeOK, ArtifactsInv, Writing
<1> QED
  BY <1>1, <1>2, <1>3, <1>4

-----------------------------------------------------------------------------
(* Recording an event *)

LEMMA StartRecordIInv ==
    ASSUME IInv, NEW p \in Procs, NEW phase \in Phases, StartRecord(p, phase)
    PROVE  IInv'
<1> USE OperationStoreAssumption DEF IInv, StartRecord, journalVars, artifactVars
<1>1. Len(journal[op[p]]) \in 0 .. MaxEvents
  BY LenProperties DEF TypeOK, Holders, Readable
<1>2. TypeOK'
  BY <1>1 DEF TypeOK, Labels, Events
<1>3. Holders'
  BY DEF TypeOK, Holders
<1>4. Journals'
  BY <1>1 DEF TypeOK, Readable, Journals, Numbered, Durable, Recording
<1>5. ArtifactsInv'
  BY DEF TypeOK, ArtifactsInv, Writing
<1> QED
  BY <1>2, <1>3, <1>4, <1>5

LEMMA AppendLineIInv ==
    ASSUME IInv, NEW p \in Procs, AppendLine(p)
    PROVE  IInv'
<1> DEFINE o == op[p]
           s == journal[o]
           e == line[p]
<1> USE OperationStoreAssumption DEF IInv
<1>1. o \in Ops /\ s \in Seq(Events) /\ Len(s) \in Nat /\ Len(s) < MaxEvents
  BY LenProperties DEF TypeOK, Holders, AppendLine, Fits
<1>2. e.sequence = Len(s) /\ e \in Events
  BY <1>1 DEF Journals, Recording, Events, AppendLine
<1>3. /\ Append(s, e) \in Seq(Events)
      /\ Append(s, e) # <<>>
      /\ Len(Append(s, e)) = Len(s) + 1
      /\ \A i \in 1 .. Len(s) : Append(s, e)[i] = s[i]
      /\ Append(s, e)[Len(s) + 1] = e
  BY <1>1, <1>2, AppendProperties
<1>4. /\ pc[p] = "append"
      /\ journal' = [journal EXCEPT ![o] = Append(s, e)]
      /\ pc' = [pc EXCEPT ![p] = "sync"]
      /\ UNCHANGED <<op, line, name, value, made, lock, torn, durable, acked, file,
                     synced, saved, entries>>
  BY DEF AppendLine, Goto, artifactVars
<1>5. \A q \in Procs \ {p} : pc[q] # "idle" => op[q] # o
  BY <1>4, Exclusive
<1> HIDE DEF o, s, e
<1>6. TypeOK'
  <2>1. journal' \in [Ops -> Seq(Events)]
    BY <1>1, <1>3, <1>4 DEF TypeOK
  <2> QED
    BY <2>1, <1>4 DEF TypeOK, Labels
<1>7. Holders'
  BY <1>4 DEF TypeOK, Holders
<1>8. \A x \in Ops : Numbered(x)' /\ Durable(x)'
  <2> TAKE x \in Ops
  <2>1. CASE x = o
    BY <2>1, <1>1, <1>2, <1>3, <1>4 DEF TypeOK, Journals, Numbered, Durable, s
  <2>2. CASE x # o
    BY <2>2, <1>4 DEF TypeOK, Journals, Numbered, Durable
  <2> QED
    BY <2>1, <2>2
<1>9. \A q \in Procs : Recording(q)'
  <2> TAKE q \in Procs
  <2>1. CASE q = p
    BY <2>1, <1>4 DEF TypeOK, Recording
  <2>2. CASE q # p
    BY <2>2, <1>4, <1>5 DEF TypeOK, Journals, Recording
  <2> QED
    BY <2>1, <2>2
<1>10. ArtifactsInv'
  BY <1>4 DEF TypeOK, ArtifactsInv, Writing
<1> QED
  BY <1>6, <1>7, <1>8, <1>9, <1>10 DEF Journals

LEMMA TearLineIInv ==
    ASSUME IInv, NEW p \in Procs, TearLine(p)
    PROVE  IInv'
<1> USE OperationStoreAssumption DEF IInv, TearLine, Goto, artifactVars
<1>1. TypeOK'
  BY DEF TypeOK, Labels
<1>2. Holders'
  BY DEF TypeOK, Holders
<1>3. \A q \in Procs \ {p} : pc[q] # "idle" => op[q] # op[p]
  BY Exclusive
<1>4. Journals'
  BY <1>3 DEF TypeOK, Journals, Numbered, Durable, Recording
<1>5. ArtifactsInv'
  BY DEF TypeOK, ArtifactsInv, Writing
<1> QED
  BY <1>1, <1>2, <1>4, <1>5

LEMMA SyncJournalIInv ==
    ASSUME IInv, NEW p \in Procs, SyncJournal(p)
    PROVE  IInv'
<1> DEFINE o == op[p]
<1> USE OperationStoreAssumption DEF IInv
<1>1. /\ pc[p] = "sync"
      /\ durable' = [durable EXCEPT ![o] = Len(journal[o])]
      /\ pc' = [pc EXCEPT ![p] = "syncdir"]
      /\ UNCHANGED <<op, line, name, value, made, lock, journal, torn, acked, file,
                     synced, saved, entries>>
  BY DEF SyncJournal, Goto, artifactVars
<1>2. o \in Ops /\ Len(journal[o]) \in Nat
  BY <1>1, LenProperties DEF TypeOK, Holders
<1>3. \A q \in Procs \ {p} : pc[q] # "idle" => op[q] # o
  BY <1>1, Exclusive
<1> HIDE DEF o
<1>4. TypeOK'
  BY <1>1, <1>2 DEF TypeOK, Labels
<1>5. Holders'
  BY <1>1 DEF TypeOK, Holders
<1>6. \A x \in Ops : Numbered(x)' /\ Durable(x)'
  BY <1>1, <1>2 DEF TypeOK, Journals, Numbered, Durable
<1>7. \A q \in Procs : Recording(q)'
  <2> TAKE q \in Procs
  <2>1. CASE q = p
    BY <2>1, <1>1, <1>2 DEF TypeOK, Recording, o
  <2>2. CASE q # p
    BY <2>2, <1>1, <1>3 DEF TypeOK, Journals, Recording
  <2> QED
    BY <2>1, <2>2
<1>8. ArtifactsInv'
  BY <1>1 DEF TypeOK, ArtifactsInv, Writing
<1> QED
  BY <1>4, <1>5, <1>6, <1>7, <1>8 DEF Journals

\* An fsync of the directory covers the name of the journal and of every
\* artifact that is there.
LEMMA PresentCovers ==
    ASSUME IInv, NEW o \in Ops
    PROVE  /\ Present(o) \in SUBSET (Names \cup {Journal})
           /\ Len(journal[o]) > 0 => Journal \in Present(o)
           /\ \A n \in Names : file[o][n] \in Values => n \in Present(o)
<1>1. journal[o] \in Seq(Events)
  BY DEF IInv, TypeOK
<1>2. Len(journal[o]) > 0 => journal[o] # <<>>
  BY <1>1, EmptySeq
<1> QED
  BY <1>2, OperationStoreAssumption DEF Present

LEMMA ReturnRecordedIInv ==
    ASSUME IInv, NEW p \in Procs, ReturnRecorded(p)
    PROVE  IInv'
<1> DEFINE o == op[p]
<1> USE OperationStoreAssumption DEF IInv
<1>1. /\ pc[p] = "syncdir"
      /\ entries' = [entries EXCEPT ![o] = Present(o)]
      /\ acked' = [acked EXCEPT ![o] = Len(journal[o])]
      /\ line' = [line EXCEPT ![p] = None]
      /\ pc' = [pc EXCEPT ![p] = "held"]
      /\ UNCHANGED <<op, name, value, made, lock, journal, torn, durable, file, synced, saved>>
  BY DEF ReturnRecorded, artifactVars
<1>2. o \in Ops /\ Len(journal[o]) \in Nat
  BY <1>1, LenProperties DEF TypeOK, Holders
<1>3. durable[o] = Len(journal[o])
  BY <1>1 DEF Journals, Recording
<1>4. /\ Present(o) \in SUBSET (Names \cup {Journal})
      /\ Len(journal[o]) > 0 => Journal \in Present(o)
      /\ \A n \in Names : file[o][n] \in Values => n \in Present(o)
  BY <1>2, PresentCovers
<1> HIDE DEF o
<1>5. TypeOK'
  BY <1>1, <1>2, <1>4 DEF TypeOK, Labels
<1>6. Holders'
  BY <1>1 DEF TypeOK, Holders
<1>7. Journals'
  BY <1>1, <1>2, <1>3, <1>4 DEF TypeOK, Journals, Numbered, Durable, Recording
<1>8. ArtifactsInv'
  <2>1. \A x \in Ops, n \in Names : n \in saved[x] => n \in entries'[x]
    BY <1>1, <1>2, <1>4 DEF TypeOK, ArtifactsInv
  <2> QED
    BY <2>1, <1>1 DEF TypeOK, ArtifactsInv, Writing
<1> QED
  BY <1>5, <1>6, <1>7, <1>8

-----------------------------------------------------------------------------
(* Writing an artifact *)

LEMMA CreateArtifactIInv ==
    ASSUME IInv, NEW p \in Procs, NEW n \in Names, NEW v \in Values, CreateArtifact(p, n, v)
    PROVE  IInv'
<1> DEFINE o == op[p]
<1> USE OperationStoreAssumption DEF IInv
<1>1. /\ pc[p] = "held"
      /\ file[o][n] = Absent
      /\ file' = [file EXCEPT ![o][n] = Torn]
      /\ name' = [name EXCEPT ![p] = n]
      /\ value' = [value EXCEPT ![p] = v]
      /\ pc' = [pc EXCEPT ![p] = "write"]
      /\ UNCHANGED <<op, line, made, lock, journal, torn, durable, acked, synced, saved, entries>>
  BY DEF CreateArtifact, journalVars
<1>2. o \in Ops
  BY <1>1 DEF Holders
<1>3. \A q \in Procs \ {p} : pc[q] # "idle" => op[q] # o
  BY <1>1, Exclusive
<1> HIDE DEF o
<1>4. TypeOK'
  BY <1>1, <1>2 DEF TypeOK, Labels
<1>5. Holders'
  BY <1>1 DEF TypeOK, Holders
<1>6. Journals'
  BY <1>1 DEF TypeOK, Journals, Numbered, Durable, Recording
<1>7. \A x \in Ops, m \in Names : m \in saved'[x] =>
         file'[x][m] \in Values /\ m \in synced'[x] /\ m \in entries'[x]
  BY <1>1, <1>2 DEF TypeOK, ArtifactsInv
<1>8. \A q \in Procs : Writing(q)'
  <2> TAKE q \in Procs
  <2>1. CASE q = p
    BY <2>1, <1>1, <1>2 DEF TypeOK, Writing, o
  <2>2. CASE q # p
    BY <2>2, <1>1, <1>2, <1>3 DEF TypeOK, ArtifactsInv, Writing
  <2> QED
    BY <2>1, <2>2
<1> QED
  BY <1>4, <1>5, <1>6, <1>7, <1>8 DEF ArtifactsInv

LEMMA WriteArtifactIInv ==
    ASSUME IInv, NEW p \in Procs, WriteArtifact(p)
    PROVE  IInv'
<1> DEFINE o == op[p]
           n == name[p]
           v == value[p]
<1> USE OperationStoreAssumption DEF IInv
<1>1. /\ pc[p] = "write"
      /\ file' = [file EXCEPT ![o][n] = v]
      /\ pc' = [pc EXCEPT ![p] = "syncfile"]
      /\ UNCHANGED <<op, line, name, value, made, lock, journal, torn, durable, acked,
                     synced, saved, entries>>
  BY DEF WriteArtifact, Goto, journalVars
<1>2. o \in Ops /\ n \in Names /\ v \in Values /\ file[o][n] = Torn
  BY <1>1 DEF Holders, ArtifactsInv, Writing
<1>3. \A q \in Procs \ {p} : pc[q] # "idle" => op[q] # o
  BY <1>1, Exclusive
<1> HIDE DEF o, n, v
<1>4. TypeOK'
  BY <1>1, <1>2 DEF TypeOK, Labels
<1>5. Holders'
  BY <1>1 DEF TypeOK, Holders
<1>6. Journals'
  BY <1>1 DEF TypeOK, Journals, Numbered, Durable, Recording
<1>7. \A x \in Ops, m \in Names : m \in saved'[x] =>
         file'[x][m] \in Values /\ m \in synced'[x] /\ m \in entries'[x]
  BY <1>1, <1>2 DEF TypeOK, ArtifactsInv
<1>8. \A q \in Procs : Writing(q)'
  <2> TAKE q \in Procs
  <2>1. CASE q = p
    BY <2>1, <1>1, <1>2 DEF TypeOK, Writing, o, n, v
  <2>2. CASE q # p
    BY <2>2, <1>1, <1>2, <1>3 DEF TypeOK, ArtifactsInv, Writing
  <2> QED
    BY <2>1, <2>2
<1> QED
  BY <1>4, <1>5, <1>6, <1>7, <1>8 DEF ArtifactsInv

LEMMA SyncArtifactIInv ==
    ASSUME IInv, NEW p \in Procs, SyncArtifact(p)
    PROVE  IInv'
<1> USE OperationStoreAssumption DEF IInv, SyncArtifact, Goto, journalVars
<1>1. op[p] \in Ops /\ name[p] \in Names
  BY DEF Holders, ArtifactsInv, Writing
<1>2. TypeOK'
  BY <1>1 DEF TypeOK, Labels
<1>3. Holders'
  BY DEF TypeOK, Holders
<1>4. Journals'
  BY DEF TypeOK, Journals, Numbered, Durable, Recording
<1>5. ArtifactsInv'
  BY <1>1 DEF TypeOK, ArtifactsInv, Writing
<1> QED
  BY <1>2, <1>3, <1>4, <1>5

LEMMA ReturnSavedIInv ==
    ASSUME IInv, NEW p \in Procs, ReturnSaved(p)
    PROVE  IInv'
<1> DEFINE o == op[p]
           n == name[p]
<1> USE OperationStoreAssumption DEF IInv
<1>1. /\ pc[p] = "syncentry"
      /\ entries' = [entries EXCEPT ![o] = Present(o)]
      /\ saved' = [saved EXCEPT ![o] = @ \cup {n}]
      /\ name' = [name EXCEPT ![p] = None]
      /\ value' = [value EXCEPT ![p] = None]
      /\ pc' = [pc EXCEPT ![p] = "held"]
      /\ UNCHANGED <<op, line, made, lock, journal, torn, durable, acked, file, synced>>
  BY DEF ReturnSaved, journalVars
<1>2. o \in Ops /\ n \in Names /\ file[o][n] \in Values /\ n \in synced[o]
  BY <1>1 DEF Holders, ArtifactsInv, Writing
<1>3. /\ Present(o) \in SUBSET (Names \cup {Journal})
      /\ Len(journal[o]) > 0 => Journal \in Present(o)
      /\ \A m \in Names : file[o][m] \in Values => m \in Present(o)
  BY <1>2, PresentCovers
<1>4. Len(journal[o]) \in Nat /\ acked[o] \in Nat /\ durable[o] \in Nat
  BY <1>2, LenProperties DEF TypeOK
<1> HIDE DEF o, n
<1>5. TypeOK'
  BY <1>1, <1>2, <1>3 DEF TypeOK, Labels
<1>6. Holders'
  BY <1>1 DEF TypeOK, Holders
<1>7. Journals'
  BY <1>1, <1>2, <1>3, <1>4 DEF TypeOK, Journals, Numbered, Durable, Recording
<1>8. ArtifactsInv'
  <2>1. \A x \in Ops, m \in Names : m \in saved'[x] => m \in entries'[x]
    BY <1>1, <1>2, <1>3 DEF TypeOK, ArtifactsInv
  <2>2. \A x \in Ops, m \in Names : m \in saved'[x] => file[x][m] \in Values /\ m \in synced[x]
    BY <1>1, <1>2 DEF TypeOK, ArtifactsInv
  <2> QED
    BY <2>1, <2>2, <1>1 DEF TypeOK, ArtifactsInv, Writing
<1> QED
  BY <1>5, <1>6, <1>7, <1>8

-----------------------------------------------------------------------------
(* The crash of the host *)

\* What is left of each journal: a prefix that has the acknowledged lines.
LEMMA CrashKeepsPrefix ==
    ASSUME IInv, HostCrash, NEW o \in Ops
    PROVE  /\ durable'[o] \in acked[o] .. Len(journal[o])
           /\ journal'[o] = SubSeq(journal[o], 1, durable'[o])
           /\ journal'[o] \in Seq(Events)
           /\ Len(journal'[o]) = durable'[o]
           /\ \A i \in 1 .. durable'[o] : journal'[o][i] = journal[o][i]
<1>1. /\ journal[o] \in Seq(Events)
      /\ Len(journal[o]) \in Nat
      /\ acked[o] \in Nat
      /\ durable[o] \in Nat
      /\ \A i \in 1 .. Len(journal[o]) : journal[o][i] \in Events
  BY LenProperties, ElementOfSeq DEF IInv, TypeOK
<1>2. durable'[o] \in KeptLines(o) /\ journal'[o] = SubSeq(journal[o], 1, durable'[o])
  BY DEF HostCrash
<1>3. durable'[o] \in acked[o] .. Len(journal[o])
  BY <1>1, <1>2 DEF IInv, Journals, Durable, KeptLines
<1>4. \A i \in 1 .. durable'[o] : journal[o][i] \in Events
  BY <1>1, <1>3
<1>5. /\ SubSeq(journal[o], 1, durable'[o]) \in Seq(Events)
      /\ Len(SubSeq(journal[o], 1, durable'[o])) = durable'[o]
      /\ \A i \in 1 .. durable'[o] : SubSeq(journal[o], 1, durable'[o])[i] = journal[o][i]
  BY <1>1, <1>3, <1>4, SubSeqProperties
<1> QED
  BY <1>2, <1>3, <1>5

LEMMA HostCrashIInv ==
    ASSUME IInv, HostCrash
    PROVE  IInv'
<1> USE OperationStoreAssumption DEF IInv
<1>1. /\ pc' = [p \in Procs |-> "idle"]
      /\ op' = [p \in Procs |-> None]
      /\ line' = [p \in Procs |-> None]
      /\ name' = [p \in Procs |-> None]
      /\ value' = [p \in Procs |-> None]
      /\ lock' = [o \in Ops |-> None]
      /\ torn' \in [Ops -> BOOLEAN]
      /\ file' \in [Ops -> [Names -> Values \cup {Absent, Torn}]]
      /\ synced' = [o \in Ops |-> {n \in Names : file'[o][n] # Absent}]
      /\ entries' = [o \in Ops |-> Present(o)']
      /\ UNCHANGED <<made, acked, saved>>
  BY DEF HostCrash
<1>2. \A o \in Ops : Present(o)' \in SUBSET (Names \cup {Journal})
  BY DEF Present
<1>3. TypeOK'
  <2>1. journal' = [o \in Ops |-> journal'[o]] /\ durable' \in [Ops -> Nat]
    BY DEF HostCrash
  <2>2. journal' \in [Ops -> Seq(Events)]
    BY <2>1, CrashKeepsPrefix
  <2> QED
    BY <1>1, <1>2, <2>1, <2>2 DEF TypeOK, Labels
<1>4. Holders'
  BY <1>1 DEF Holders
<1>5. ASSUME NEW o \in Ops PROVE Numbered(o)' /\ Durable(o)'
  <2>1. /\ durable'[o] \in acked[o] .. Len(journal[o])
        /\ journal'[o] \in Seq(Events)
        /\ Len(journal'[o]) = durable'[o]
        /\ \A i \in 1 .. durable'[o] : journal'[o][i] = journal[o][i]
    BY CrashKeepsPrefix
  <2>2. Len(journal[o]) \in Nat /\ acked[o] \in Nat /\ durable'[o] \in Nat
    BY <1>3, LenProperties DEF TypeOK
  <2>3. Numbered(o)'
    <3>1. \A i \in 1 .. durable'[o] : journal[o][i].sequence = i - 1
      BY <2>1, <2>2 DEF Journals, Numbered
    <3>2. Len(journal[o]) <= MaxEvents
      BY DEF Journals, Numbered
    <3>3. PICK n \in Nat : n = durable'[o] /\ n <= MaxEvents /\ Len(journal'[o]) = n
      <4>1. durable'[o] <= Len(journal[o])
        BY <2>1, <2>2
      <4> QED
        BY <2>1, <2>2, <3>2, <4>1
    <3>4. \A i \in 1 .. n : journal'[o][i].sequence = i - 1
      BY <2>1, <3>1, <3>3
    <3> QED
      BY <3>3, <3>4 DEF Numbered
  <2>4. acked'[o] > 0 => Journal \in entries'[o]
    BY <1>1, <2>1, <2>2, EmptySeq DEF Present
  <2> QED
    BY <1>1, <2>1, <2>2, <2>3, <2>4 DEF Durable
<1>6. Journals'
  BY <1>1, <1>5 DEF Journals, Recording
<1>7. ArtifactsInv'
  <2> SUFFICES ASSUME NEW o \in Ops, NEW n \in Names, n \in saved[o]
               PROVE  file'[o][n] \in Values /\ n \in synced'[o] /\ n \in entries'[o]
    BY <1>1 DEF ArtifactsInv, Writing
  <2>1. file[o][n] \in Values /\ n \in synced[o] /\ n \in entries[o]
    BY DEF ArtifactsInv
  <2>2. file'[o][n] = file[o][n]
    BY <2>1 DEF HostCrash, Leftovers
  <2> QED
    BY <1>1, <2>1, <2>2 DEF Present
<1> QED
  BY <1>3, <1>4, <1>6, <1>7

-----------------------------------------------------------------------------
\* Every step preserves the invariant.
LEMMA NextIInv == IInv /\ [Next]_vars => IInv'
<1> SUFFICES ASSUME IInv, [Next]_vars PROVE IInv'
  OBVIOUS
<1>1. ASSUME NEW p \in Procs, Step(p) PROVE IInv'
  BY <1>1, OpenIInv, CloseIInv, StartRecordIInv, AppendLineIInv, TearLineIInv,
     SyncJournalIInv, ReturnRecordedIInv, CreateArtifactIInv, WriteArtifactIInv,
     SyncArtifactIInv, ReturnSavedIInv DEF Step
<1>2. CASE UNCHANGED vars
  BY <1>2 DEF vars, procVars, journalVars, artifactVars, IInv, TypeOK, Holders, Journals,
     Numbered, Durable, Recording, ArtifactsInv, Writing
<1> QED
  BY <1>1, <1>2, HostCrashIInv DEF Next

\* The invariant holds in every reachable state.
THEOREM OperationInvariant == Spec => []IInv
  BY InitIInv, NextIInv, PTL DEF Spec

\* Every variable of an operation store has its type.
THEOREM OperationTypeOK == Spec => []TypeOK
  BY OperationInvariant, PTL DEF IInv

\* A journal without a cut line is numbered and within its size, so that every
\* later command can read it.
THEOREM OperationWholeIsReadable == Spec => []WholeIsReadable
<1>1. IInv => WholeIsReadable
  <2> SUFFICES ASSUME IInv, NEW o \in Ops, ~torn[o] PROVE Readable(o)
    BY DEF WholeIsReadable
  <2>1. DOMAIN journal[o] = 1 .. Len(journal[o])
    BY LenProperties DEF IInv, TypeOK
  <2> QED
    BY <2>1 DEF IInv, Journals, Numbered, Readable
<1> QED
  BY <1>1, OperationInvariant, PTL

\* What record() and write_artifact() returned for survives every crash of
\* processes and of the host.
THEOREM OperationReturnedSurvives == Spec => []ReturnedSurvives
<1>1. IInv => ReturnedSurvives
  <2> SUFFICES ASSUME IInv, NEW o \in Ops
               PROVE  /\ acked[o] <= Len(journal[o])
                      /\ \A n \in saved[o] : file[o][n] \in Values
    BY DEF ReturnedSurvives
  <2>1. acked[o] \in Nat /\ durable[o] \in Nat /\ Len(journal[o]) \in Nat /\ saved[o] \subseteq Names
    BY LenProperties DEF IInv, TypeOK
  <2> QED
    BY <2>1 DEF IInv, Journals, Durable, ArtifactsInv
<1> QED
  BY <1>1, OperationInvariant, PTL

\* Each step of the journal is one of the abstract log, or leaves it alone.
LEMMA StepImplementsLog ==
    ASSUME IInv, [Next]_vars
    PROVE  [Log!LogNext]_(Log!logVars)
<1>1. ASSUME NEW p \in Procs, AppendLine(p) PROVE Log!LogNext
  <2>1. op[p] \in Ops /\ line[p] \in Events
    <3>1. line[p] \in Events \cup {None} /\ line[p] \in [sequence : Nat, phase : Phases]
      BY <1>1 DEF AppendLine, IInv, TypeOK, Journals, Recording
    <3>2. line[p].sequence \in 0 .. MaxEvents
      <4>1. op[p] \in Ops
        BY <1>1 DEF AppendLine, IInv, Holders
      <4>2. journal[op[p]] \in Seq(Events)
        BY <4>1 DEF IInv, TypeOK
      <4> QED
        BY <1>1, <4>1, <4>2, LenProperties, OperationStoreAssumption
           DEF AppendLine, IInv, Journals, Recording, Fits
    <3> QED
      BY <1>1, <3>1, <3>2 DEF AppendLine, IInv, Holders, Events
  <2>2. Log!AppendEvent(op[p], line[p])
    BY <1>1 DEF AppendLine, Log!AppendEvent
  <2> QED
    BY <2>1, <2>2 DEF Log!LogNext
<1>2. ASSUME NEW p \in Procs, ReturnRecorded(p) PROVE Log!LogNext
  <2>1. op[p] \in Ops
    BY <1>2 DEF ReturnRecorded, IInv, Holders
  <2>2. Log!Acknowledge(op[p])
    BY <1>2 DEF ReturnRecorded, Log!Acknowledge
  <2> QED
    BY <2>1, <2>2 DEF Log!LogNext
<1>3. ASSUME HostCrash PROVE Log!LogNext
  <2>1. journal' = [o \in Ops |-> journal'[o]] /\ UNCHANGED acked
    BY <1>3 DEF HostCrash
  <2>2. \A o \in Ops : \E k \in acked[o] .. Len(journal[o]) : journal'[o] = SubSeq(journal[o], 1, k)
    BY <1>3, CrashKeepsPrefix
  <2>3. Log!Crash
    BY <2>1, <2>2 DEF Log!Crash
  <2> QED
    BY <2>3 DEF Log!LogNext
<1>4. ASSUME NEW p \in Procs, Step(p), ~AppendLine(p), ~ReturnRecorded(p)
      PROVE  UNCHANGED <<journal, acked>>
  BY <1>4 DEF Step, CreateOperation, OpenOperation, Close, StartRecord, TearLine, SyncJournal,
     CreateArtifact, WriteArtifact, SyncArtifact, ReturnSaved, journalVars
<1>5. CASE UNCHANGED vars
  BY <1>5 DEF vars, journalVars, Log!logVars
<1> QED
  BY <1>1, <1>2, <1>3, <1>4, <1>5 DEF Next, Log!logVars

\* The journal is an append-only log whose acknowledged part no crash takes.
THEOREM OperationImplementsLog == Spec => ImplementsLog
<1>1. Init => Log!LogInit
  BY DEF Init, Log!LogInit
<1>2. IInv /\ [Next]_vars => [Log!LogNext]_(Log!logVars)
  BY StepImplementsLog
<1> QED
  BY <1>1, <1>2, OperationInvariant, PTL DEF Spec, ImplementsLog, Log!LogSpec

\* No process appends to a journal that ends in a cut line: it read the journal
\* whole, and nobody else could cut it since.
THEOREM OperationTornIsLast == Spec => TornIsLast
<1>1. IInv /\ [Next]_vars =>
        [\A o \in Ops : torn[o] => Len(journal'[o]) <= Len(journal[o])]_vars
  <2> SUFFICES ASSUME IInv, Next, NEW o \in Ops, torn[o]
               PROVE  Len(journal'[o]) <= Len(journal[o])
    BY DEF vars
  <2>1. Len(journal[o]) \in Nat
    BY LenProperties DEF IInv, TypeOK
  <2>2. CASE HostCrash
    <3>1. /\ durable'[o] \in acked[o] .. Len(journal[o])
          /\ Len(journal'[o]) = durable'[o]
      BY <2>2, CrashKeepsPrefix
    <3>2. acked[o] \in Nat
      BY DEF IInv, TypeOK
    <3> QED
      BY <2>1, <3>1, <3>2
  <2>3. ASSUME NEW p \in Procs, AppendLine(p) PROVE journal'[o] = journal[o]
    BY <2>3 DEF AppendLine, IInv, TypeOK, Holders, Journals, Recording
  <2>4. ASSUME NEW p \in Procs, Step(p), ~AppendLine(p) PROVE journal'[o] = journal[o]
    BY <2>4 DEF Step, CreateOperation, OpenOperation, Close, StartRecord, TearLine, SyncJournal,
       ReturnRecorded, CreateArtifact, WriteArtifact, SyncArtifact, ReturnSaved, journalVars
  <2> QED
    BY <2>1, <2>2, <2>3, <2>4 DEF Next
<1> QED
  BY <1>1, OperationInvariant, PTL DEF Spec, TornIsLast

\* An artifact has one writer and one value: what a writer has left, whole or cut,
\* is never taken up again, and contents are lost only to a crash of the host
\* before write_artifact() returned.
THEOREM OperationWrittenOnce == Spec => WrittenOnce
<1>1. IInv /\ [Next]_vars =>
        [\A o \in Ops, n \in Names :
           (file[o][n] \in Values \/ Left(o, n)) =>
              \/ file'[o][n] = file[o][n] /\ (Left(o, n) => Left(o, n)')
              \/ HostCrash /\ n \notin saved[o] /\ file'[o][n] \in {Absent, Torn}]_vars
  <2> SUFFICES ASSUME IInv, Next, NEW o \in Ops, NEW n \in Names,
                      file[o][n] \in Values \/ Left(o, n)
               PROVE  \/ file'[o][n] = file[o][n] /\ (Left(o, n) => Left(o, n)')
                      \/ HostCrash /\ n \notin saved[o] /\ file'[o][n] \in {Absent, Torn}
    BY DEF vars
  <2>0. file[o][n] # Absent
    BY OperationStoreAssumption DEF Left
  <2>1. CASE HostCrash
    <3>1. file'[o][n] \in Leftovers(o, n) /\ \A p \in Procs : ~Writes(p, o, n)'
      BY <2>1 DEF HostCrash, Writes
    <3>2. n \in saved[o] => file[o][n] \in Values /\ n \in synced[o] /\ n \in entries[o]
      BY DEF IInv, ArtifactsInv
    <3>3. file'[o][n] = file[o][n] \/ (n \notin saved[o] /\ file'[o][n] \in {Absent, Torn})
      BY <3>1, <3>2 DEF Leftovers
    <3> QED
      BY <2>0, <2>1, <3>1, <3>3 DEF Left
  <2>2. ASSUME NEW p \in Procs, NEW m \in Names, NEW v \in Values, CreateArtifact(p, m, v)
        PROVE  file'[o][n] = file[o][n] /\ (Left(o, n) => Left(o, n)')
    <3>1. <<op[p], m>> # <<o, n>> /\ file'[o][n] = file[o][n]
      BY <2>0, <2>2, OperationStoreAssumption DEF CreateArtifact, IInv, TypeOK, Holders
    <3>2. \A q \in Procs : Writes(q, o, n)' => Writes(q, o, n)
      BY <2>2, <3>1 DEF CreateArtifact, IInv, TypeOK, Writes
    <3> QED
      BY <3>1, <3>2 DEF Left
  <2>3. ASSUME NEW p \in Procs, WriteArtifact(p)
        PROVE  file'[o][n] = file[o][n] /\ (Left(o, n) => Left(o, n)')
    <3>1. <<op[p], name[p]>> # <<o, n>>
      <4>1. CASE Left(o, n)
        BY <2>3, <4>1 DEF WriteArtifact, Left, Writes
      <4>2. CASE file[o][n] \in Values
        BY <2>3, <4>2, OperationStoreAssumption DEF WriteArtifact, IInv, ArtifactsInv, Writing
      <4> QED
        BY <4>1, <4>2
    <3>2. file'[o][n] = file[o][n]
      BY <2>3, <3>1, OperationStoreAssumption
         DEF WriteArtifact, IInv, TypeOK, Holders, ArtifactsInv, Writing
    <3>3. \A q \in Procs : Writes(q, o, n)' => Writes(q, o, n)
      BY <2>3 DEF WriteArtifact, Goto, IInv, TypeOK, Writes
    <3> QED
      BY <3>2, <3>3 DEF Left
  <2>4. ASSUME NEW p \in Procs, Step(p), ~WriteArtifact(p),
               ~\E m \in Names, v \in Values : CreateArtifact(p, m, v)
        PROVE  file'[o][n] = file[o][n] /\ (Left(o, n) => Left(o, n)')
    <3>1. file' = file
      BY <2>4 DEF Step, CreateOperation, OpenOperation, Close, StartRecord, AppendLine, TearLine,
         SyncJournal, ReturnRecorded, SyncArtifact, ReturnSaved, artifactVars
    <3>2. CASE SyncArtifact(p)
      <4>1. \A q \in Procs : Writes(q, o, n)' => Writes(q, o, n)
        BY <3>2 DEF SyncArtifact, Goto, IInv, TypeOK, Writes
      <4> QED
        BY <3>1, <4>1 DEF Left
    <3>3. CASE ~SyncArtifact(p)
      <4>1. /\ pc' \in [Procs -> Labels] /\ pc'[p] \notin {"write", "syncfile", "syncentry"}
            /\ \A q \in Procs \ {p} : pc'[q] = pc[q] /\ op'[q] = op[q] /\ name'[q] = name[q]
        BY <2>4, <3>3
           DEF Step, CreateOperation, OpenOperation, Close, StartRecord, AppendLine, TearLine,
               SyncJournal, ReturnRecorded, ReturnSaved, Goto, IInv, TypeOK, Labels
      <4>2. \A q \in Procs : Writes(q, o, n)' => Writes(q, o, n)
        BY <4>1 DEF Writes
      <4> QED
        BY <3>1, <4>2 DEF Left
    <3> QED
      BY <3>2, <3>3
  <2> QED
    BY <2>1, <2>2, <2>3, <2>4 DEF Next
<1> QED
  BY <1>1, OperationInvariant, PTL DEF Spec, WrittenOnce
=============================================================================
