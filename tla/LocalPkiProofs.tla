--------------------------- MODULE LocalPkiProofs ---------------------------
(***************************************************************************)
(* Proofs about LocalPki for every set of issuers, operations and inputs,  *)
(* with crashes, expiry and ended issuers.                                 *)
(*                                                                         *)
(* The inductive invariant: what an issuer has done before its label       *)
(* (RunInv), that it alone fills the directory it claimed (OwnInv), in     *)
(* order (FillInv), where a name comes from and what a crash can take of   *)
(* it (NameInv), and that an answer is the lasting certificate (AnswerInv).*)
(***************************************************************************)
EXTENDS LocalPki, TLAPS

Filling == {"stage", "link", "sync", "unlink", "settle", "validate"}

\* A run that made a directory is at one of its files, also after it has ended.
RunInv ==
    \A p \in Runs :
        /\ req[p] = None <=> pc[p] = "new"
        /\ pc[p] \in {"new", "load", "claim"} => at[p] = 0
        /\ pc[p] \in Filling => at[p] # 0
        /\ at[p] # 0 => Dir(p) \in made /\ at[p] \in 1 .. Len(Order(Dir(p)))
        /\ pc[p] = "link" => File(p) \in staged[Dir(p)]
        /\ pc[p] \in {"sync", "unlink", "settle", "validate"} => name[Dir(p)][File(p)] = p
        /\ pc[p] \in {"unlink", "settle", "validate"} => kept.name[Dir(p)][File(p)] = p

\* mkdir succeeds once.
OwnInv ==
    \A p, q \in Runs : (at[p] # 0 /\ at[q] # 0 /\ Dir(p) = Dir(q)) => p = q

\* Before the file a run is at all files are its own and last, after it there is none.
FillInv ==
    \A p \in Runs : at[p] # 0 =>
        \A i \in 1 .. Len(Order(Dir(p))) :
            /\ i < at[p] => /\ name[Dir(p)][Order(Dir(p))[i]] = p
                            /\ kept.name[Dir(p)][Order(Dir(p))[i]] = p
            /\ i > at[p] => /\ name[Dir(p)][Order(Dir(p))[i]] = None
                            /\ kept.name[Dir(p)][Order(Dir(p))[i]] = None

\* A name is given by the run that made the directory; while a crash can still
\* take it away, the staging name is there and the directory is not whole.
NameInv ==
    \A d \in Places, n \in Names :
        /\ name[d][n] # None => at[name[d][n]] # 0 /\ Dir(name[d][n]) = d
        /\ kept.name[d][n] \in {None, name[d][n]}
        /\ kept.name[d][n] # name[d][n] => n \in staged[d]

\* An answer is the certificate of the place asked for, as no crash changes it.
AnswerInv ==
    \A p \in Runs : result[p] # None =>
        /\ pc[p] = "done"
        /\ result[p] = Maker(Dir(p))
        /\ result[p] = kept.name[Dir(p)][Record(Dir(p))]
        /\ req[result[p]].input = req[p].input
        /\ ca[result[p]] = ca[p]

PkiInv == TypeOK /\ RunInv /\ OwnInv /\ FillInv /\ NameInv /\ AnswerInv

-----------------------------------------------------------------------------
(* The files of a directory *)

\* The order names every file once and the record last.
LEMMA OrderFacts ==
    ASSUME NEW d \in Places
    PROVE  /\ Len(Order(d)) \in {3, 4}
           /\ \A i \in 1 .. Len(Order(d)) : Order(d)[i] \in Names
           /\ \A i, j \in 1 .. Len(Order(d)) : Order(d)[i] = Order(d)[j] => i = j
           /\ \A n \in NamesOf(d) : \E i \in 1 .. Len(Order(d)) : n = Order(d)[i]
           /\ Order(d)[Len(Order(d))] = Record(d)
           /\ Record(d) \in Names
<1>1. CASE d = "authority"
  <2>1. Order(d) = <<"ca.key", "ca.crt", "authority.json">> /\ Record(d) = "authority.json"
    BY <1>1 DEF Order, Record
  <2> QED
    BY <2>1 DEF Names, NamesOf
<1>2. CASE d # "authority"
  <2>1. /\ Order(d) = <<"client.key", "client.crt", "ca.crt", "operation.json">>
        /\ Record(d) = "operation.json"
    BY <1>2 DEF Order, Record
  <2> QED
    BY <2>1 DEF Names, NamesOf
<1> QED
  BY <1>1, <1>2

\* A started run has a place; a run that claimed it is at one of its files.
LEMMA AtFile ==
    ASSUME PkiInv, NEW p \in Runs, pc[p] # "new"
    PROVE  /\ req[p] \in Requests /\ Dir(p) \in Places
           /\ at[p] # 0 => File(p) \in Names
<1>1. req[p] \in Requests
  BY DEF PkiInv, TypeOK, RunInv
<1>2. Dir(p) \in Places
  BY <1>1 DEF Requests, Dir
<1>3. at[p] # 0 => File(p) \in Names
  BY <1>2, OrderFacts DEF PkiInv, RunInv, File
<1> QED
  BY <1>1, <1>2, <1>3

\* A whole directory has lasting names.
LEMMA WholeLasts ==
    ASSUME PkiInv, NEW d \in Places, Whole(d)
    PROVE  /\ Maker(d) \in Runs
           /\ kept.name[d][Record(d)] = Maker(d)
           /\ at[Maker(d)] # 0 /\ Dir(Maker(d)) = d
<1>1. Record(d) \in Names
  BY OrderFacts
<1>2. name[d][Record(d)] \in Runs \cup {None}
  BY <1>1 DEF PkiInv, TypeOK
<1> QED
  BY <1>1, <1>2 DEF Whole, Maker, PkiInv, NameInv

-----------------------------------------------------------------------------
(* What the steps have in common *)

\* What lasts, lasts; and what a run was made with does not change.
Lasting ==
    /\ \A d \in Places, n \in Names : kept.name[d][n] # None =>
         name'[d][n] = name[d][n] /\ kept'.name[d][n] = kept.name[d][n]
    /\ \A p \in Runs : at[p] # 0 \/ pc[p] = "done" => req'[p] = req[p] /\ ca'[p] = ca[p]
    /\ \A p \in Runs : pc[p] = "done" => pc'[p] = "done"

LEMMA AnswerKeeps ==
    ASSUME PkiInv, Lasting, NEW p \in Runs, result'[p] = result[p], result[p] # None
    PROVE  /\ pc'[p] = "done"
           /\ result'[p] = Maker(Dir(p))'
           /\ result'[p] = kept'.name[Dir(p)'][Record(Dir(p))']
           /\ req'[result'[p]].input = req'[p].input
           /\ ca'[result'[p]] = ca'[p]
<1>1. PICK d \in Places, n \in Names, m \in Runs :
         d = Dir(p) /\ n = Record(d) /\ m = result[p]
  <2>1. pc[p] # "new" /\ result[p] \in Runs
    BY DEF PkiInv, AnswerInv, TypeOK
  <2> QED
    BY <2>1, AtFile, OrderFacts
<1>2. /\ pc[p] = "done" /\ m = name[d][n] /\ m = kept.name[d][n]
      /\ req[m].input = req[p].input /\ ca[m] = ca[p]
  BY <1>1 DEF PkiInv, AnswerInv, Maker
<1>3. m # None /\ at[m] # 0
  BY <1>1, <1>2 DEF PkiInv, NameInv
<1>4. /\ pc'[p] = "done" /\ name'[d][n] = m /\ kept'.name[d][n] = m
      /\ req'[p] = req[p] /\ req'[m] = req[m] /\ ca'[p] = ca[p] /\ ca'[m] = ca[m]
  BY <1>2, <1>3 DEF Lasting
<1>5. Dir(p)' = d /\ Record(Dir(p))' = n
  BY <1>1, <1>4 DEF Dir, Record
<1> QED
  BY <1>1, <1>2, <1>4, <1>5 DEF Maker

\* The files of an issuer's directory, while it goes on.
LEMMA OwnDirectory ==
    ASSUME PkiInv, NEW p \in Runs, NEW q \in Runs, at[p] # 0, at[q] # 0, p # q
    PROVE  Dir(p) # Dir(q)
  BY DEF PkiInv, OwnInv

-----------------------------------------------------------------------------
LEMMA InitPkiInv == Init => PkiInv
<1> SUFFICES ASSUME Init PROVE PkiInv
  OBVIOUS
<1>1. TypeOK
  BY DEF Init, TypeOK, Labels
<1>2. RunInv /\ OwnInv /\ FillInv /\ NameInv /\ AnswerInv
  BY DEF Init, RunInv, OwnInv, FillInv, NameInv, AnswerInv, Filling
<1> QED
  BY <1>1, <1>2 DEF PkiInv

\* Steps that touch no file and take no new place.
LEMMA QuietKeeps ==
    ASSUME PkiInv, NEW p \in Runs, UNCHANGED <<files, req, at>>, TypeOK',
           \A q \in Runs \ {p} : pc'[q] = pc[q] /\ ca'[q] = ca[q] /\ result'[q] = result[q],
           pc[p] \notin {"new", "done"},
           \/ pc'[p] \in {"done", "refused", "ended"}
           \/ pc'[p] = "claim" /\ pc[p] = "load",
           ca'[p] = ca[p] \/ pc[p] = "load",
           result'[p] # None =>
             /\ pc'[p] = "done"
             /\ result'[p] = Maker(Dir(p))
             /\ result'[p] = kept.name[Dir(p)][Record(Dir(p))]
             /\ req[result'[p]].input = req[p].input
             /\ ca[result'[p]] = ca[p]
             /\ ca'[result'[p]] = ca'[p]
    PROVE  PkiInv'
<1> USE DEF files
<1>1. RunInv'
  BY DEF PkiInv, RunInv, TypeOK, Filling, Dir, File
<1>2. OwnInv' /\ FillInv' /\ NameInv'
  <2>1. OwnInv'
    BY DEF PkiInv, OwnInv, Dir
  <2>2. FillInv'
    BY DEF PkiInv, FillInv, Dir
  <2>3. NameInv'
    BY DEF PkiInv, NameInv, Dir
  <2> QED
    BY <2>1, <2>2, <2>3
<1>3. Lasting
  BY DEF Lasting, PkiInv, RunInv
<1>4. AnswerInv'
  <2> SUFFICES ASSUME NEW q \in Runs, result'[q] # None
               PROVE  /\ pc'[q] = "done"
                      /\ result'[q] = Maker(Dir(q))'
                      /\ result'[q] = kept'.name[Dir(q)'][Record(Dir(q))']
                      /\ req'[result'[q]].input = req'[q].input
                      /\ ca'[result'[q]] = ca'[q]
    BY DEF AnswerInv
  <2>1. CASE q = p
    BY <2>1 DEF Dir, Maker, Record
  <2>2. CASE q # p
    BY <1>3, <2>2, AnswerKeeps
  <2> QED
    BY <2>1, <2>2
<1> QED
  BY <1>1, <1>2, <1>4 DEF PkiInv

-----------------------------------------------------------------------------
(* The steps *)

\* Loading the authority, being refused, being ended.
LEMMA TurnPkiInv ==
    ASSUME PkiInv, NEW p \in Runs, LoadAuthority(p) \/ Refuse(p) \/ Stop(p)
    PROVE  PkiInv'
<1>1. CASE LoadAuthority(p)
  <2>1. Maker("authority") \in Runs
    BY <1>1, WholeLasts DEF LoadAuthority, AuthorityUsable, Places
  <2>2. TypeOK'
    BY <1>1, <2>1 DEF LoadAuthority, PkiInv, TypeOK, Goto, Labels, files
  <2>3. result[p] = None
    BY <1>1 DEF LoadAuthority, PkiInv, AnswerInv
  <2> QED
    BY <1>1, <2>2, <2>3, QuietKeeps DEF LoadAuthority, Goto, PkiInv, TypeOK, files
<1>2. CASE Refuse(p) \/ Stop(p)
  <2>1. pc[p] \notin {"new", "done"}
    BY <1>2 DEF Refuse, Refused, Stop, Running, Labels
  <2>2. PICK label \in {"refused", "ended"} : Goto(p, label)
    BY <1>2 DEF Refuse, Stop
  <2>3. UNCHANGED <<files, expired, req, at, ca, result>>
    BY <1>2 DEF Refuse, Stop
  <2>4. TypeOK'
    BY <2>2, <2>3 DEF PkiInv, TypeOK, Goto, Labels, files
  <2>5. result[p] = None
    BY <2>1 DEF PkiInv, AnswerInv
  <2> QED
    BY <2>1, <2>2, <2>3, <2>4, <2>5, QuietKeeps DEF Goto, PkiInv, TypeOK
<1> QED
  BY <1>1, <1>2

\* An answer is given from a whole directory.
LEMMA AnswerPkiInv ==
    ASSUME PkiInv, NEW p \in Runs, Reuse(p) \/ Validate(p)
    PROVE  PkiInv'
<1>1. /\ pc[p] \in {"claim", "validate"} /\ Valid(p)
      /\ result' = [result EXCEPT ![p] = Maker(Dir(p))]
      /\ Goto(p, "done")
      /\ UNCHANGED <<files, expired, req, at, ca>>
  BY DEF Reuse, Validate
<1>2. Dir(p) \in Places
  BY <1>1, AtFile
<1>3. /\ Maker(Dir(p)) \in Runs
      /\ kept.name[Dir(p)][Record(Dir(p))] = Maker(Dir(p))
      /\ req[Maker(Dir(p))].input = req[p].input
      /\ ca[Maker(Dir(p))] = ca[p]
  BY <1>1, <1>2, WholeLasts DEF Valid
<1>4. TypeOK'
  BY <1>1, <1>3 DEF PkiInv, TypeOK, Goto, Labels, files
<1>5. result'[p] = Maker(Dir(p)) /\ pc'[p] = "done"
  BY <1>1 DEF Goto, PkiInv, TypeOK
<1> QED
  BY <1>1, <1>3, <1>4, <1>5, QuietKeeps DEF Goto, PkiInv, TypeOK

LEMMA StartPkiInv ==
    ASSUME PkiInv, NEW p \in Runs, Start(p)
    PROVE  PkiInv'
<1>1. PICK r \in Requests, label \in {"claim", "load"} :
         /\ pc[p] = "new"
         /\ req' = [req EXCEPT ![p] = r]
         /\ pc' = [pc EXCEPT ![p] = label]
         /\ UNCHANGED <<made, name, staged, kept, expired, at, ca, result>>
  BY DEF Start, Goto, files
<1>2. at[p] = 0
  BY <1>1 DEF PkiInv, RunInv
<1>3. TypeOK'
  BY <1>1 DEF PkiInv, TypeOK, Labels
<1>0. \A q \in Runs : at[q] # 0 => q # p /\ Dir(q)' = Dir(q)
  BY <1>1, <1>2 DEF PkiInv, TypeOK, Dir
<1>4. RunInv'
  <2>1. ASSUME NEW q \in Runs \ {p}
        PROVE  /\ pc'[q] = pc[q] /\ req'[q] = req[q] /\ Dir(q)' = Dir(q) /\ File(q)' = File(q)
               /\ UNCHANGED <<made, name, staged, kept, at>>
    BY <1>1 DEF PkiInv, TypeOK, Dir, File
  <2>2. pc'[p] \in {"claim", "load"} /\ req'[p] # None /\ at'[p] = 0
    BY <1>1, <1>2, NoRequestAssumption DEF PkiInv, TypeOK
  <2> QED
    BY <2>1, <2>2 DEF PkiInv, RunInv, Filling
<1>5. OwnInv' /\ FillInv'
  <2>1. OwnInv'
    BY <1>0, <1>1 DEF PkiInv, OwnInv
  <2>2. FillInv'
    BY <1>0, <1>1 DEF PkiInv, FillInv
  <2> QED
    BY <2>1, <2>2
<1>6. NameInv'
  <2> SUFFICES ASSUME NEW d \in Places, NEW n \in Names
               PROVE  /\ name[d][n] # None => at[name[d][n]] # 0 /\ Dir(name[d][n])' = d
                      /\ kept.name[d][n] \in {None, name[d][n]}
                      /\ kept.name[d][n] # name[d][n] => n \in staged[d]
    BY <1>1 DEF NameInv, Dir
  <2>1. name[d][n] \in Runs \cup {None}
    BY DEF PkiInv, TypeOK
  <2> QED
    BY <1>1, <1>2, <2>1 DEF PkiInv, TypeOK, NameInv, Dir
<1>7. Lasting
  BY <1>1, <1>2 DEF Lasting, PkiInv, TypeOK
<1>8. AnswerInv'
  BY <1>1, <1>7, AnswerKeeps DEF AnswerInv
<1> QED
  BY <1>3, <1>4, <1>5, <1>6, <1>8 DEF PkiInv

\* A directory that was not there holds nothing.
LEMMA ClaimPkiInv ==
    ASSUME PkiInv, NEW p \in Runs, Claim(p)
    PROVE  PkiInv'
<1>1. /\ pc[p] = "claim" /\ made' = made \cup {Dir(p)}
      /\ at' = [at EXCEPT ![p] = 1]
      /\ pc' = [pc EXCEPT ![p] = "stage"]
      /\ UNCHANGED <<name, staged, kept, expired, req, ca, result>>
      /\ Dir(p) \notin made /\ at[p] = 0
  BY DEF Claim, Goto, PkiInv, RunInv
<1>2. PICK d \in Places : d = Dir(p)
  BY <1>1, AtFile
<1>3. \A q \in Runs : at[q] # 0 => Dir(q) # d
  BY <1>1, <1>2 DEF PkiInv, RunInv
<1>4. \A n \in Names : name[d][n] = None /\ kept.name[d][n] = None
  <2> SUFFICES ASSUME NEW n \in Names
               PROVE  name[d][n] = None /\ kept.name[d][n] = None
    OBVIOUS
  <2>1. name[d][n] \in Runs \cup {None}
    BY DEF PkiInv, TypeOK
  <2> QED
    BY <1>3, <2>1 DEF PkiInv, NameInv
<1>5. TypeOK'
  BY <1>1, <1>2 DEF PkiInv, TypeOK, Labels
<1>6. Len(Order(d)) \in {3, 4} /\ \A i \in 1 .. Len(Order(d)) : Order(d)[i] \in Names
  BY OrderFacts
<1>7. \A q \in Runs : Dir(q)' = Dir(q)
  BY <1>1 DEF Dir
<1>8. RunInv'
  <2> SUFFICES ASSUME NEW q \in Runs
               PROVE  /\ req[q] = None <=> pc'[q] = "new"
                      /\ pc'[q] \in {"new", "load", "claim"} => at'[q] = 0
                      /\ pc'[q] \in Filling => at'[q] # 0
                      /\ at'[q] # 0 => Dir(q) \in made' /\ at'[q] \in 1 .. Len(Order(Dir(q)))
                      /\ pc'[q] = "link" => File(q)' \in staged[Dir(q)]
                      /\ pc'[q] \in {"sync", "unlink", "settle", "validate"} =>
                           name[Dir(q)][File(q)'] = q
                      /\ pc'[q] \in {"unlink", "settle", "validate"} =>
                           kept.name[Dir(q)][File(q)'] = q
    BY <1>1, <1>7 DEF RunInv
  <2>1. CASE q = p
    <3>1. pc'[q] = "stage" /\ at'[q] = 1 /\ pc[q] = "claim" /\ Dir(q) = d
      BY <1>1, <1>2, <2>1 DEF PkiInv, TypeOK
    <3>2. req[q] # None
      BY <3>1 DEF PkiInv, RunInv
    <3>3. at'[q] # 0 /\ at'[q] \in 1 .. Len(Order(Dir(q))) /\ Dir(q) \in made'
      <4>1. 1 \in 1 .. Len(Order(d))
        BY <1>6
      <4>2. d \in made'
        BY <1>1, <1>2
      <4> QED
        BY <3>1, <4>1, <4>2
    <3> QED
      BY <3>1, <3>2, <3>3
  <2>2. CASE q # p
    <3>1. pc'[q] = pc[q] /\ at'[q] = at[q]
      BY <1>1, <2>2 DEF PkiInv, TypeOK
    <3>2. File(q)' = File(q)
      BY <1>7, <3>1 DEF File
    <3> QED
      BY <1>1, <3>1, <3>2 DEF PkiInv, RunInv
  <2> QED
    BY <2>1, <2>2
<1>9. OwnInv'
  BY <1>1, <1>2, <1>3, <1>7 DEF PkiInv, TypeOK, OwnInv
<1>10. FillInv'
  <2> SUFFICES ASSUME NEW q \in Runs, at'[q] # 0, NEW i \in 1 .. Len(Order(Dir(q)))
               PROVE  /\ i < at'[q] => /\ name[Dir(q)][Order(Dir(q))[i]] = q
                                       /\ kept.name[Dir(q)][Order(Dir(q))[i]] = q
                      /\ i > at'[q] => /\ name[Dir(q)][Order(Dir(q))[i]] = None
                                       /\ kept.name[Dir(q)][Order(Dir(q))[i]] = None
    BY <1>1, <1>7 DEF FillInv
  <2>1. CASE q = p
    BY <1>1, <1>2, <1>4, <1>6, <2>1 DEF PkiInv, TypeOK
  <2>2. CASE q # p
    BY <1>1, <2>2 DEF PkiInv, TypeOK, FillInv
  <2> QED
    BY <2>1, <2>2
<1>11. NameInv'
  <2> SUFFICES ASSUME NEW e \in Places, NEW n \in Names
               PROVE  /\ name[e][n] # None => at'[name[e][n]] # 0 /\ Dir(name[e][n]) = e
                      /\ kept.name[e][n] \in {None, name[e][n]}
                      /\ kept.name[e][n] # name[e][n] => n \in staged[e]
    BY <1>1 DEF NameInv, Dir
  <2>1. name[e][n] \in Runs \cup {None}
    BY DEF PkiInv, TypeOK
  <2> QED
    BY <1>1, <2>1 DEF PkiInv, TypeOK, NameInv
<1>12. Lasting
  BY <1>1 DEF Lasting, PkiInv, TypeOK
<1>13. AnswerInv'
  BY <1>1, <1>12, AnswerKeeps DEF AnswerInv
<1> QED
  BY <1>5, <1>8, <1>9, <1>10, <1>11, <1>13 DEF PkiInv

\* A step of the run that fills directory d: only d changes ...
Advance(p, d, label, k) ==
    /\ UNCHANGED <<made, req, ca, result>>
    /\ pc' = [pc EXCEPT ![p] = label]
    /\ at' = [at EXCEPT ![p] = k]
    /\ \A e \in Places \ {d} :
         name'[e] = name[e] /\ staged'[e] = staged[e] /\ kept'.name[e] = kept.name[e]

\* ... and afterwards d is filled up to its k-th file.
FilledTo(p, d, label, k) ==
    /\ k \in 1 .. Len(Order(d))
    /\ label = "link" => Order(d)[k] \in staged[d]
    /\ label \in {"sync", "unlink", "settle", "validate"} => name[d][Order(d)[k]] = p
    /\ label \in {"unlink", "settle", "validate"} => kept.name[d][Order(d)[k]] = p
    /\ \A i \in 1 .. Len(Order(d)) :
         /\ i < k => name[d][Order(d)[i]] = p /\ kept.name[d][Order(d)[i]] = p
         /\ i > k => name[d][Order(d)[i]] = None /\ kept.name[d][Order(d)[i]] = None
    /\ \A n \in Names :
         /\ name[d][n] \in {None, p}
         /\ kept.name[d][n] \in {None, name[d][n]}
         /\ kept.name[d][n] # name[d][n] => n \in staged[d]

LEMMA FillStep ==
    ASSUME PkiInv, NEW p \in Runs, NEW d \in Places, d = Dir(p), pc[p] \in Filling,
           NEW label \in Filling, NEW k \in Nat,
           TypeOK', Advance(p, d, label, k), FilledTo(p, d, label, k)',
           \A n \in Names : kept.name[d][n] # None =>
             name'[d][n] = name[d][n] /\ kept'.name[d][n] = kept.name[d][n]
    PROVE  PkiInv'
<1> USE DEF Advance, FilledTo
<1>0. PICK f : f = Order(d)[k]
  OBVIOUS
<1>1. \A q \in Runs : Dir(q)' = Dir(q)
  BY DEF Dir
<1>2. pc'[p] = label /\ at'[p] = k /\ k # 0 /\ at[p] # 0
  BY DEF PkiInv, TypeOK, RunInv
<1>3. ASSUME NEW q \in Runs \ {p}
      PROVE  pc'[q] = pc[q] /\ at'[q] = at[q] /\ at[q] # 0 => Dir(q) \in Places \ {d}
  <2>1. pc'[q] = pc[q] /\ at'[q] = at[q]
    BY DEF PkiInv, TypeOK
  <2>2. at[q] # 0 => pc[q] # "new"
    BY DEF PkiInv, RunInv
  <2> QED
    BY <1>2, <2>1, <2>2, AtFile, OwnDirectory
<1>4. File(p)' = f
  BY <1>0, <1>1, <1>2 DEF File
<1>5. \A q \in Runs \ {p} : File(q)' = File(q)
  BY <1>1, <1>3 DEF File
<1>6. RunInv'
  <2> SUFFICES ASSUME NEW q \in Runs
               PROVE  /\ req[q] = None <=> pc'[q] = "new"
                      /\ pc'[q] \in {"new", "load", "claim"} => at'[q] = 0
                      /\ pc'[q] \in Filling => at'[q] # 0
                      /\ at'[q] # 0 => Dir(q) \in made /\ at'[q] \in 1 .. Len(Order(Dir(q)))
                      /\ pc'[q] = "link" => File(q)' \in staged'[Dir(q)]
                      /\ pc'[q] \in {"sync", "unlink", "settle", "validate"} =>
                           name'[Dir(q)][File(q)'] = q
                      /\ pc'[q] \in {"unlink", "settle", "validate"} =>
                           kept'.name[Dir(q)][File(q)'] = q
    BY <1>1 DEF RunInv
  <2>1. CASE q = p
    <3>1. req[p] # None /\ label \notin {"new", "load", "claim"}
      BY DEF PkiInv, RunInv, Filling
    <3>2. Dir(p) \in made
      BY <1>2 DEF PkiInv, RunInv
    <3> HIDE DEF Filling
    <3> QED
      BY <1>0, <1>2, <1>4, <2>1, <3>1, <3>2
  <2>2. CASE q # p
    <3>1. pc'[q] = pc[q] /\ at'[q] = at[q] /\ File(q)' = File(q)
      BY <1>3, <1>5, <2>2
    <3>2. pc[q] \in Filling => at[q] # 0
      BY DEF PkiInv, RunInv
    <3>3. pc[q] \in {"link", "sync", "unlink", "settle", "validate"} =>
            /\ staged'[Dir(q)] = staged[Dir(q)]
            /\ name'[Dir(q)] = name[Dir(q)] /\ kept'.name[Dir(q)] = kept.name[Dir(q)]
      BY <1>3, <2>2, <3>2 DEF Filling
    <3> QED
      BY <3>1, <3>3 DEF PkiInv, RunInv
  <2> QED
    BY <2>1, <2>2
<1>7. OwnInv'
  <2> SUFFICES ASSUME NEW q \in Runs, NEW r \in Runs, at'[q] # 0, at'[r] # 0, Dir(q) = Dir(r)
               PROVE  q = r
    BY <1>1 DEF OwnInv
  <2>1. at[q] # 0 /\ at[r] # 0
    BY <1>2, <1>3
  <2> QED
    BY <2>1 DEF PkiInv, OwnInv
<1>8. FillInv'
  <2> SUFFICES ASSUME NEW q \in Runs, at'[q] # 0, NEW i \in 1 .. Len(Order(Dir(q)))
               PROVE  /\ i < at'[q] => /\ name'[Dir(q)][Order(Dir(q))[i]] = q
                                       /\ kept'.name[Dir(q)][Order(Dir(q))[i]] = q
                      /\ i > at'[q] => /\ name'[Dir(q)][Order(Dir(q))[i]] = None
                                       /\ kept'.name[Dir(q)][Order(Dir(q))[i]] = None
    BY <1>1 DEF FillInv
  <2>1. CASE q = p
    BY <1>2, <2>1
  <2>2. CASE q # p
    BY <1>3, <2>2 DEF PkiInv, FillInv
  <2> QED
    BY <2>1, <2>2
<1>9. NameInv'
  <2> SUFFICES ASSUME NEW e \in Places, NEW n \in Names
               PROVE  /\ name'[e][n] # None => at'[name'[e][n]] # 0 /\ Dir(name'[e][n]) = e
                      /\ kept'.name[e][n] \in {None, name'[e][n]}
                      /\ kept'.name[e][n] # name'[e][n] => n \in staged'[e]
    <3>1. \A m : Dir(m)' = Dir(m)
      BY DEF Dir
    <3> QED
      BY <3>1 DEF NameInv
  <2>1. CASE e = d
    BY <1>1, <1>2, <2>1
  <2>2. CASE e # d
    <3>1. name[e][n] \in Runs \cup {None}
      BY DEF PkiInv, TypeOK
    <3>2. /\ name[e][n] # None => at[name[e][n]] # 0 /\ Dir(name[e][n]) = e
          /\ kept.name[e][n] \in {None, name[e][n]}
          /\ kept.name[e][n] # name[e][n] => n \in staged[e]
      BY DEF PkiInv, NameInv
    <3>3. name[e][n] # None => at'[name[e][n]] # 0 /\ Dir(name[e][n]) = e
      BY <1>1, <1>2, <1>3, <3>1, <3>2
    <3> QED
      BY <2>2, <3>2, <3>3
  <2> QED
    BY <2>1, <2>2
<1>10. Lasting
  <2>1. ASSUME NEW e \in Places, NEW n \in Names, kept.name[e][n] # None
        PROVE  name'[e][n] = name[e][n] /\ kept'.name[e][n] = kept.name[e][n]
    BY <2>1
  <2>2. \A q \in Runs : pc[q] = "done" => pc'[q] = "done"
    BY <1>3 DEF Filling
  <2> QED
    BY <2>1, <2>2 DEF Lasting
<1>11. AnswerInv'
  BY <1>10, AnswerKeeps DEF AnswerInv
<1> QED
  BY <1>6, <1>7, <1>8, <1>9, <1>11 DEF PkiInv

\* Where a run is that fills a directory, and what the directory holds.
LEMMA AtFilling ==
    ASSUME PkiInv, NEW p \in Runs, pc[p] \in Filling
    PROVE  /\ Dir(p) \in Places /\ at[p] \in Nat
           /\ File(p) = Order(Dir(p))[at[p]] /\ File(p) \in Names
           /\ FilledTo(p, Dir(p), pc[p], at[p])
<1>1. at[p] # 0 /\ pc[p] # "new"
  BY DEF PkiInv, RunInv, Filling
<1>2. Dir(p) \in Places /\ File(p) \in Names /\ at[p] \in 1 .. Len(Order(Dir(p)))
  BY <1>1, AtFile DEF PkiInv, RunInv
<1>3. ASSUME NEW n \in Names
      PROVE  /\ name[Dir(p)][n] \in {None, p}
             /\ kept.name[Dir(p)][n] \in {None, name[Dir(p)][n]}
             /\ kept.name[Dir(p)][n] # name[Dir(p)][n] => n \in staged[Dir(p)]
  <2>1. name[Dir(p)][n] \in Runs \cup {None}
    BY <1>2 DEF PkiInv, TypeOK
  <2> QED
    BY <1>1, <1>2, <2>1 DEF PkiInv, NameInv, OwnInv
<1> QED
  BY <1>1, <1>2, <1>3 DEF PkiInv, RunInv, FillInv, File, FilledTo

\* The staging names come and go.
LEMMA StagePkiInv ==
    ASSUME PkiInv, NEW p \in Runs, Stage(p) \/ Unlink(p)
    PROVE  PkiInv'
<1>1. PICK label \in {"link", "settle"} :
         /\ Goto(p, label)
         /\ label = "link" => Stage(p)
         /\ label = "settle" => Unlink(p)
  BY DEF Stage, Unlink
<1>2. pc[p] \in {"stage", "unlink"} /\ pc[p] \in Filling /\ label \in Filling
  BY DEF Stage, Unlink, Filling
<1>3. PICK d \in Places, f \in Names, k \in Nat : d = Dir(p) /\ f = File(p) /\ k = at[p]
  BY <1>2, AtFilling DEF PkiInv, TypeOK
<1>4. /\ UNCHANGED <<made, name, kept, expired, req, at, ca, result>>
      /\ staged' = [staged EXCEPT ![d] = IF label = "link" THEN @ \cup {f} ELSE @ \ {f}]
  BY <1>1, <1>3 DEF Stage, Unlink
<1>5. /\ staged'[d] = IF label = "link" THEN staged[d] \cup {f} ELSE staged[d] \ {f}
      /\ \A e \in Places \ {d} : staged'[e] = staged[e]
  BY <1>4 DEF PkiInv, TypeOK
<1>6. TypeOK'
  BY <1>1, <1>3, <1>4 DEF PkiInv, TypeOK, Goto, Labels
<1>7. FilledTo(p, d, pc[p], k) /\ f = Order(d)[k]
  BY <1>2, <1>3, AtFilling
<1>8. pc[p] = "unlink" \/ label = "link"
  BY <1>1 DEF Unlink
<1>9. Advance(p, d, label, k)
  BY <1>1, <1>3, <1>4, <1>5 DEF Goto, PkiInv, TypeOK, Advance
<1>10. FilledTo(p, d, label, k)'
  BY <1>1, <1>4, <1>5, <1>7, <1>8 DEF FilledTo
<1>11. \A n \in Names : kept.name[d][n] # None => name[d][n] = kept.name[d][n]
  BY <1>7 DEF FilledTo
<1> QED
  BY <1>2, <1>3, <1>4, <1>6, <1>9, <1>10, <1>11, FillStep

\* A name is given once, to the file that is next.
LEMMA LinkPkiInv ==
    ASSUME PkiInv, NEW p \in Runs, Link(p)
    PROVE  PkiInv'
<1>1. pc[p] = "link" /\ pc[p] \in Filling /\ "sync" \in Filling
  BY DEF Link, Filling
<1>2. PICK d \in Places, f \in Names, k \in Nat : d = Dir(p) /\ f = File(p) /\ k = at[p]
  BY <1>1, AtFilling DEF PkiInv, TypeOK
<1>3. /\ UNCHANGED <<made, staged, kept, expired, req, at, ca, result>>
      /\ name[d][f] = None
      /\ name' = [name EXCEPT ![d] = [name[d] EXCEPT ![f] = p]]
      /\ pc' = [pc EXCEPT ![p] = "sync"]
  BY <1>2 DEF Link, Goto
<1>4. FilledTo(p, d, "link", k) /\ f = Order(d)[k]
  BY <1>1, <1>2, AtFilling
<1>5. /\ name'[d][f] = p
      /\ \A n \in Names \ {f} : name'[d][n] = name[d][n]
      /\ \A e \in Places \ {d} : name'[e] = name[e]
  BY <1>3 DEF PkiInv, TypeOK
<1>6. TypeOK'
  BY <1>3 DEF PkiInv, TypeOK, Labels
<1>7. \A i \in 1 .. Len(Order(d)) : i # k => name'[d][Order(d)[i]] = name[d][Order(d)[i]]
  <2> SUFFICES ASSUME NEW i \in 1 .. Len(Order(d)), i # k
               PROVE  name'[d][Order(d)[i]] = name[d][Order(d)[i]]
    OBVIOUS
  <2>1. Order(d)[i] \in Names \ {f}
    BY <1>4, OrderFacts DEF FilledTo
  <2> QED
    BY <1>5, <2>1
<1>8. Advance(p, d, "sync", k)
  BY <1>2, <1>3, <1>5 DEF PkiInv, TypeOK, Advance
<1>9. \A n \in Names :
         /\ name'[d][n] \in {None, p}
         /\ kept.name[d][n] \in {None, name'[d][n]}
         /\ kept.name[d][n] # name'[d][n] => n \in staged[d]
         /\ kept.name[d][n] # None => name'[d][n] = name[d][n]
  BY <1>3, <1>4, <1>5 DEF FilledTo
<1>10. \A i \in 1 .. Len(Order(d)) :
         /\ i < k => name'[d][Order(d)[i]] = p /\ kept.name[d][Order(d)[i]] = p
         /\ i > k => name'[d][Order(d)[i]] = None /\ kept.name[d][Order(d)[i]] = None
  BY <1>4, <1>7 DEF FilledTo
<1>11. FilledTo(p, d, "sync", k)'
  BY <1>3, <1>4, <1>5, <1>9, <1>10 DEF FilledTo
<1> QED
  BY <1>1, <1>2, <1>3, <1>6, <1>8, <1>9, <1>11, FillStep

\* A sync makes all names of the directory last.
LEMMA SyncPkiInv ==
    ASSUME PkiInv, NEW p \in Runs, Sync(p) \/ Settle(p)
    PROVE  PkiInv'
<1>1. /\ pc[p] \in {"sync", "settle"} /\ pc[p] \in Filling
      /\ {"unlink", "stage", "validate"} \subseteq Filling
  BY DEF Sync, Settle, Filling
<1>2. PICK d \in Places, f \in Names, k \in Nat : d = Dir(p) /\ f = File(p) /\ k = at[p]
  BY <1>1, AtFilling DEF PkiInv, TypeOK
<1>3. /\ UNCHANGED <<made, name, staged, expired, req, ca, result>>
      /\ kept' = [name |-> [kept.name EXCEPT ![d] = name[d]],
                  staged |-> [kept.staged EXCEPT ![d] = staged[d]]]
  BY <1>2 DEF Sync, Settle
<1>4. /\ k \in 1 .. Len(Order(d))
      /\ name[d][Order(d)[k]] = p
      /\ \A i \in 1 .. Len(Order(d)) :
           /\ i < k => name[d][Order(d)[i]] = p
           /\ i > k => name[d][Order(d)[i]] = None
      /\ \A n \in Names :
           /\ name[d][n] \in {None, p}
           /\ kept.name[d][n] # None => name[d][n] = kept.name[d][n]
  BY <1>1, <1>2, AtFilling DEF FilledTo
<1>5. kept'.name[d] = name[d] /\ \A e \in Places \ {d} : kept'.name[e] = kept.name[e]
  BY <1>3 DEF PkiInv, TypeOK
<1>6. Len(Order(d)) \in {3, 4} /\ \A i \in 1 .. Len(Order(d)) : Order(d)[i] \in Names
  BY OrderFacts
<1>7. PICK label \in {"unlink", "stage", "validate"}, j \in 1 .. Len(Order(d)) :
         /\ pc' = [pc EXCEPT ![p] = label]
         /\ at' = [at EXCEPT ![p] = j]
         /\ \/ j = k /\ label # "stage"
            \/ j = k + 1 /\ label = "stage"
  <2>1. CASE Sync(p)
    <3>1. at' = [at EXCEPT ![p] = k] /\ pc' = [pc EXCEPT ![p] = "unlink"]
      BY <1>2, <2>1 DEF Sync, Goto, PkiInv, TypeOK
    <3> QED
      BY <1>4, <3>1
  <2>2. CASE Settle(p) /\ k = Len(Order(d))
    <3>1. at' = [at EXCEPT ![p] = k] /\ pc' = [pc EXCEPT ![p] = "validate"]
      BY <1>2, <2>2 DEF Settle, Goto, PkiInv, TypeOK
    <3> QED
      BY <1>4, <3>1
  <2>3. CASE Settle(p) /\ k # Len(Order(d))
    <3>1. at' = [at EXCEPT ![p] = k + 1] /\ pc' = [pc EXCEPT ![p] = "stage"]
      BY <1>2, <2>3 DEF Settle, Goto
    <3>2. k + 1 \in 1 .. Len(Order(d))
      BY <1>4, <1>6, <2>3
    <3> QED
      BY <3>1, <3>2
  <2> QED
    BY <2>1, <2>2, <2>3
<1>8. TypeOK'
  <2>1. at' \in [Runs -> 0 .. 4]
    <3>1. j \in 0 .. 4
      BY <1>6
    <3> QED
      BY <1>7, <3>1 DEF PkiInv, TypeOK
  <2> QED
    BY <1>3, <1>7, <2>1 DEF PkiInv, TypeOK, Labels
<1>9. \A i \in 1 .. Len(Order(d)) :
        /\ i < j => name[d][Order(d)[i]] = p
        /\ i > j => name[d][Order(d)[i]] = None
  BY <1>4, <1>6, <1>7
<1>10. label \in Filling /\ label \notin {"link", "sync", "settle"} /\ j \in Nat
  BY <1>1
<1>11. Advance(p, d, label, j)
  BY <1>3, <1>5, <1>7 DEF Advance
<1>12. FilledTo(p, d, label, j)'
  BY <1>3, <1>4, <1>5, <1>7, <1>9, <1>10 DEF FilledTo
<1> QED
  BY <1>1, <1>2, <1>3, <1>4, <1>5, <1>8, <1>10, <1>11, <1>12, FillStep

\* A crash of the host takes away what was not synced, and ends every run.
LEMMA HostCrashPkiInv ==
    ASSUME PkiInv, HostCrash
    PROVE  PkiInv'
<1>1. /\ UNCHANGED <<made, expired, req, at, ca, result>>
      /\ kept' = [name |-> name', staged |-> staged']
      /\ pc' = [p \in Runs |-> IF pc[p] \in Running THEN "ended" ELSE pc[p]]
  BY DEF HostCrash
<1>2. /\ name' \in [Places -> [Names -> Runs \cup {None}]]
      /\ staged' \in [Places -> SUBSET Names]
      /\ \A d \in Places, n \in Names : name'[d][n] \in {name[d][n], kept.name[d][n]}
  BY DEF HostCrash, PkiInv, TypeOK
<1>3. TypeOK'
  <2>1. pc' \in [Runs -> Labels]
    BY <1>1 DEF PkiInv, TypeOK, Labels
  <2> QED
    BY <1>1, <1>2, <2>1 DEF PkiInv, TypeOK
<1>4. \A d \in Places, n \in Names :
        /\ kept'.name[d][n] = name'[d][n]
        /\ name'[d][n] \in {None, name[d][n]}
        /\ kept.name[d][n] # None => name'[d][n] = name[d][n] /\ name[d][n] = kept.name[d][n]
  BY <1>1, <1>2 DEF PkiInv, NameInv
<1>5. \A p \in Runs : Dir(p)' = Dir(p)
  BY <1>1 DEF Dir
<1>6. \A p \in Runs : /\ pc'[p] \in {"new", "done", "refused", "ended"}
                      /\ pc'[p] = "new" <=> pc[p] = "new"
                      /\ pc[p] = "done" => pc'[p] = "done"
  BY <1>1 DEF PkiInv, TypeOK, Running, Labels
<1>7. RunInv'
  BY <1>1, <1>5, <1>6 DEF PkiInv, RunInv, Filling
<1>8. OwnInv'
  BY <1>1, <1>5 DEF PkiInv, OwnInv
<1>9. FillInv'
  <2> SUFFICES ASSUME NEW p \in Runs, at[p] # 0, NEW i \in 1 .. Len(Order(Dir(p)))
               PROVE  /\ i < at[p] => /\ name'[Dir(p)][Order(Dir(p))[i]] = p
                                      /\ kept'.name[Dir(p)][Order(Dir(p))[i]] = p
                      /\ i > at[p] => /\ name'[Dir(p)][Order(Dir(p))[i]] = None
                                      /\ kept'.name[Dir(p)][Order(Dir(p))[i]] = None
    BY <1>1, <1>5 DEF FillInv
  <2>1. pc[p] # "new"
    BY DEF PkiInv, RunInv
  <2>2. Dir(p) \in Places /\ Order(Dir(p))[i] \in Names
    BY <2>1, AtFile, OrderFacts
  <2>3. p # None
    BY LocalPkiAssumption
  <2> QED
    BY <1>4, <2>2, <2>3 DEF PkiInv, FillInv
<1>10. NameInv'
  <2> SUFFICES ASSUME NEW d \in Places, NEW n \in Names
               PROVE  /\ name'[d][n] # None => at[name'[d][n]] # 0 /\ Dir(name'[d][n]) = d
                      /\ kept'.name[d][n] = name'[d][n]
    BY <1>1 DEF NameInv, Dir
  <2> QED
    BY <1>4 DEF PkiInv, NameInv
<1>11. Lasting
  BY <1>1, <1>4, <1>6 DEF Lasting
<1>12. AnswerInv'
  BY <1>1, <1>11, AnswerKeeps DEF AnswerInv
<1> QED
  BY <1>3, <1>7, <1>8, <1>9, <1>10, <1>12 DEF PkiInv

\* Every step preserves the invariant.
LEMMA NextPkiInv == PkiInv /\ [Next]_vars => PkiInv'
<1> SUFFICES ASSUME PkiInv, [Next]_vars PROVE PkiInv'
  OBVIOUS
<1>1. ASSUME NEW p \in Runs, Start(p) \/ Work(p) \/ Refuse(p) \/ Stop(p)
      PROVE  PkiInv'
  BY <1>1, StartPkiInv, TurnPkiInv, AnswerPkiInv, ClaimPkiInv, StagePkiInv, LinkPkiInv,
     SyncPkiInv DEF Work
<1>2. CASE (\E d \in Places : Expire(d)) \/ UNCHANGED vars
  <2>1. UNCHANGED <<files, runs>> /\ expired' \subseteq Places
    BY <1>2 DEF Expire, vars, PkiInv, TypeOK
  <2> USE <2>1 DEF files, runs, PkiInv
  <2>2. TypeOK'
    BY DEF TypeOK
  <2>3. RunInv'
    BY DEF RunInv, Dir, File
  <2>4. OwnInv' /\ NameInv'
    BY DEF OwnInv, NameInv, Dir
  <2>5. FillInv'
    BY DEF FillInv, Dir
  <2>6. AnswerInv'
    BY DEF AnswerInv, Dir, Maker
  <2> QED
    BY <2>2, <2>3, <2>4, <2>5, <2>6
<1> QED
  BY <1>1, <1>2, HostCrashPkiInv DEF Next

-----------------------------------------------------------------------------
(* The theorems *)

\* The invariant holds in every state that issuers, crashes and time reach.
THEOREM LocalPkiInvariant == Spec => []PkiInv
  BY InitPkiInv, NextPkiInv, PTL DEF Spec

\* Every variable keeps its type, whatever the processes of the issuer do.
THEOREM LocalPkiTypeOK == Spec => []TypeOK
<1>1. PkiInv => TypeOK
  BY DEF PkiInv
<1> QED
  BY <1>1, LocalPkiInvariant, PTL

\* A record is never there without all it describes, of the same making and
\* beyond the reach of a crash (_issue_client writes it last, 604-617).
THEOREM LocalPkiRecordIsBacked == Spec => []RecordIsBacked
<1>1. ASSUME PkiInv PROVE RecordIsBacked
  <2> USE <1>1
  <2> SUFFICES ASSUME NEW d \in Places, Maker(d) # None, NEW n \in NamesOf(d)
               PROVE  name[d][n] = Maker(d) /\ (n # Record(d) => kept.name[d][n] = Maker(d))
    BY DEF RecordIsBacked
  <2>1. PICK m \in Runs : m = Maker(d)
    BY OrderFacts DEF PkiInv, TypeOK, Maker
  <2>2. at[m] # 0 /\ Dir(m) = d
    BY <2>1, OrderFacts DEF PkiInv, NameInv, Maker
  <2>3. at[m] \in 1 .. Len(Order(d))
    BY <2>2 DEF PkiInv, RunInv
  <2>4. at[m] = Len(Order(d))
    <3>1. SUFFICES ASSUME Len(Order(d)) > at[m] PROVE FALSE
      BY <2>3, OrderFacts
    <3>2. name[d][Order(d)[Len(Order(d))]] = None
      BY <2>2, <3>1, OrderFacts DEF PkiInv, FillInv
    <3> QED
      BY <3>2, OrderFacts DEF Maker
  <2>5. PICK i \in 1 .. Len(Order(d)) : n = Order(d)[i]
    BY OrderFacts
  <2>6. CASE i = Len(Order(d))
    BY <2>5, <2>6, OrderFacts DEF Maker
  <2>7. CASE i # Len(Order(d))
    <3>1. i < at[m]
      BY <2>4, <2>7, OrderFacts
    <3> QED
      BY <2>1, <2>2, <2>5, <3>1 DEF PkiInv, FillInv
  <2> QED
    BY <2>6, <2>7
<1> QED
  BY <1>1, LocalPkiInvariant, PTL

\* All runs of one directory that succeed are given the same certificate, made
\* for their own input by the authority they loaded (_validate_generation).
THEOREM LocalPkiSameAnswer == Spec => []SameAnswer
<1>1. ASSUME PkiInv PROVE SameAnswer
  BY <1>1 DEF PkiInv, AnswerInv, SameAnswer
<1> QED
  BY <1>1, LocalPkiInvariant, PTL

-----------------------------------------------------------------------------
(* The refinement *)

\* A step that neither asks nor answers, and keeps what is issued, issues what
\* became lasting with it, if anything.
LEMMA QuietIsIssue ==
    ASSUME PkiInv, PkiInv', UNCHANGED <<req, result>>,
           \A d \in Places : Issued[d] # None => Issued'[d] = Issued[d]
    PROVE  Once!Issue
<1> DEFINE D == {d \in Places : Issued[d] = None /\ Issued'[d] # None}
           maker == [d \in D |-> Issued'[d]]
<1>1. Asked' = Asked
  BY DEF Asked, Dir
<1>2. ASSUME NEW d \in D PROVE Issued'[d] \in Runs /\ Asked[Issued'[d]] = d
  <2>1. PICK n \in Names : n = Record(d)
    BY OrderFacts
  <2>2. Issued'[d] = kept'.name[d][n] /\ kept'.name[d][n] # None
    BY <2>1 DEF Issued, Record
  <2>3. kept'.name[d][n] \in Runs /\ name'[d][n] = kept'.name[d][n]
    BY <2>2 DEF PkiInv, TypeOK, NameInv
  <2>4. PICK m \in Runs : m = kept'.name[d][n]
    BY <2>3
  <2>5. at'[m] # 0 /\ req'[m].dir = d
    BY <2>2, <2>3, <2>4 DEF PkiInv, NameInv, Dir
  <2>6. req'[m] # None
    BY <2>5 DEF PkiInv, RunInv
  <2>7. Asked[m] = d
    BY <2>5, <2>6 DEF Asked, Dir
  <2> QED
    BY <2>2, <2>4, <2>7
<1>3. maker \in [D -> Runs] /\ \A d \in D : Issued[d] = None /\ Asked[maker[d]] = d
  BY <1>2
<1>4. Issued' = [d \in Places |-> IF d \in D THEN maker[d] ELSE Issued[d]]
  <2>1. \A d \in Places : Issued'[d] = IF d \in D THEN maker[d] ELSE Issued[d]
    OBVIOUS
  <2>2. Issued' = [d \in Places |-> Issued'[d]]
    BY DEF Issued, Record
  <2> QED
    BY <2>1, <2>2
<1>5. D \in SUBSET Places
  OBVIOUS
<1> HIDE DEF D, maker
<1> QED
  BY <1>1, <1>3, <1>4, <1>5 DEF Once!Issue

\* A request names the place it asks for.
LEMMA StartIsAsk ==
    ASSUME PkiInv, NEW p \in Runs, Start(p)
    PROVE  Once!Ask(p)
<1>1. PICK r \in Requests : req' = [req EXCEPT ![p] = r]
  BY DEF Start
<1>2. UNCHANGED <<files, result>> /\ req[p] = None
  BY DEF Start, PkiInv, RunInv
<1>3. r.dir \in Places /\ r # None
  BY NoRequestAssumption DEF Requests
<1>4. Asked[p] = None
  BY <1>2 DEF Asked
<1>5. Asked' = [Asked EXCEPT ![p] = r.dir]
  BY <1>1, <1>3 DEF Asked, Dir, PkiInv, TypeOK
<1>6. Issued' = Issued
  BY <1>2 DEF Issued, files, Record
<1> QED
  BY <1>2, <1>3, <1>4, <1>5, <1>6 DEF Once!Ask

\* An answer is a whole directory, whose record lasts.
LEMMA AnswerIsAnswer ==
    ASSUME PkiInv, NEW p \in Runs, Reuse(p) \/ Validate(p)
    PROVE  Once!Answer(p)
<1>1. /\ pc[p] \in {"claim", "validate"} /\ Whole(Dir(p))
      /\ result' = [result EXCEPT ![p] = Maker(Dir(p))]
      /\ UNCHANGED <<files, req>>
  BY DEF Reuse, Validate, Valid
<1>2. pc[p] # "new" /\ result[p] = None /\ req[p] # None
  BY <1>1 DEF PkiInv, AnswerInv, RunInv
<1>3. PICK d \in Places : d = Dir(p)
  BY <1>2, AtFile
<1>4. Asked[p] = d /\ d # None
  BY <1>2, <1>3, LocalPkiAssumption DEF Asked
<1>5. Issued[d] = Maker(d) /\ Maker(d) # None
  BY <1>1, <1>3, WholeLasts, LocalPkiAssumption DEF Issued
<1>6. Issued' = Issued /\ Asked' = Asked
  BY <1>1 DEF Issued, Asked, files, Dir, Record
<1> QED
  BY <1>1, <1>2, <1>3, <1>4, <1>5, <1>6 DEF Once!Answer

\* No sync and no crash changes what lasts.
LEMMA IssuedLasts ==
    ASSUME PkiInv, NEW d \in Places, Issued[d] # None,
           HostCrash \/ \E p \in Runs : Sync(p) \/ Settle(p)
    PROVE  Issued'[d] = Issued[d]
<1>1. PICK n \in Names : n = Record(d)
  BY OrderFacts
<1>2. kept.name[d][n] # None /\ name[d][n] = kept.name[d][n]
  BY <1>1 DEF Issued, PkiInv, NameInv
<1>3. kept'.name[d][n] = kept.name[d][n]
  <2>1. CASE HostCrash
    <3>1. PICK lost \in SUBSET {e \in Places \X Names : name[e[1]][e[2]] # kept.name[e[1]][e[2]]} :
             /\ name' = [e \in Places |-> [m \in Names |->
                           IF <<e, m>> \in lost THEN kept.name[e][m] ELSE name[e][m]]]
             /\ kept' = [name |-> name', staged |-> staged']
      BY <2>1, Zenon DEF HostCrash
    <3>2. name'[d][n] \in {kept.name[d][n], name[d][n]}
      BY <3>1
    <3> QED
      BY <1>2, <3>1, <3>2
  <2>2. ASSUME NEW p \in Runs, Sync(p) \/ Settle(p)
        PROVE  kept'.name[d][n] = kept.name[d][n]
    BY <1>2, <2>2 DEF Sync, Settle, PkiInv, TypeOK
  <2> QED
    BY <2>1, <2>2
<1> QED
  BY <1>1, <1>3 DEF Issued, Record

\* The issuer implements its promise: one certificate for a place, whichever
\* processes fill, sync or reuse it and whatever a crash takes away.
THEOREM LocalPkiImplementsIssueOnce == Spec => ImplementsIssueOnce
<1>1. Init => Once!Init
  BY DEF Init, Once!Init, Issued, Asked, OrderFacts, Record, Names
<1>2. PkiInv /\ PkiInv' /\ [Next]_vars => [Once!Next]_<<Issued, Asked, result>>
  <2> SUFFICES ASSUME PkiInv, PkiInv', [Next]_vars PROVE Once!Next \/ UNCHANGED <<Issued, Asked, result>>
    OBVIOUS
  <2>1. CASE \E p \in Runs : Start(p)
    BY <2>1, StartIsAsk DEF Once!Next
  <2>2. CASE \E p \in Runs : Reuse(p) \/ Validate(p)
    BY <2>2, AnswerIsAnswer DEF Once!Next
  <2>3. CASE HostCrash \/ \E p \in Runs : Sync(p) \/ Settle(p)
    <3>1. UNCHANGED <<req, result>>
      BY <2>3 DEF HostCrash, Sync, Settle
    <3> QED
      BY <2>3, <3>1, IssuedLasts, QuietIsIssue DEF Once!Next
  <2>4. CASE \/ \E p \in Runs : \/ LoadAuthority(p) \/ Claim(p) \/ Stage(p) \/ Link(p)
                                \/ Unlink(p) \/ Refuse(p) \/ Stop(p)
             \/ \E d \in Places : Expire(d)
             \/ UNCHANGED vars
    <3>1. UNCHANGED <<kept, req, result>>
      BY <2>4 DEF LoadAuthority, Claim, Stage, Link, Unlink, Refuse, Stop, Expire, files, runs,
         vars
    <3> QED
      BY <3>1 DEF Issued, Asked, Dir, Record
  <2> QED
    BY <2>1, <2>2, <2>3, <2>4 DEF Next, Work
<1> QED
  BY <1>1, <1>2, LocalPkiInvariant, PTL DEF Spec, ImplementsIssueOnce, Once!Spec
=============================================================================
