------------------------- MODULE DeliveryStoreProofs -------------------------
(***************************************************************************)
(* Proofs about DeliveryStore for every set of processes and generations.  *)
(*                                                                         *)
(* The inductive invariant says what each step of a call has established:  *)
(* who is inside holds the lock of a whole store, one process at most is   *)
(* creating it, and the version a call works on is as far as its label.    *)
(* The refinement of CredentialHistory (DeliveryHistory) needs a second    *)
(* one: receipts form no circle, so that there is a history to read.       *)
(***************************************************************************)
EXTENDS DeliveryHistory, SequenceTheorems, WellFoundedInduction, TLAPS

\* Who is inside holds the lock of a store that is whole.
LockInv == \A p \in Procs : pc[p] \in Inside => lock = p /\ store = "ready"

\* mkdir lets one process create, and the store is not whole before it is done.
CreatorInv ==
    /\ \A p \in Procs : pc[p] = "creating" => store \in {"made", "versions", "locked",
                                                         "pointer", "linked"}
    /\ \A p, q \in Procs : pc[p] = "creating" /\ pc[q] = "creating" => p = q

\* What the label of a call says about its version.
VersionInv ==
    \A p \in Procs :
        /\ pc[p] # "idle" => gen[p] \in Gens
        /\ pc[p] = "fill" => version[gen[p]] = "made"
        /\ pc[p] = "link" => version[gen[p]] = "filled"
        /\ pc[p] = "unlink" => version[gen[p]] = "linked" /\ receipt[gen[p]] = expected[p]
        /\ pc[p] \in {"validate", "recheck", "publish", "replace"} =>
             version[gen[p]] = "complete" /\ receipt[gen[p]] = expected[p]
        /\ pc[p] = "replace" => active = expected[p]

IInv == TypeOK /\ LockInv /\ CreatorInv /\ VersionInv /\ ActiveIsSealed

\* The initial store, which does not exist, satisfies the invariant.
LEMMA InitIInv == Init => IInv
  BY StoreAssumption DEF Init, IInv, TypeOK, LockInv, CreatorInv, VersionInv,
     ActiveIsSealed, Inside, Labels, StoreStages, VersionStages

\* Ending a call, for whatever reason, disturbs nothing the others rely on.
LEMMA EndIInv ==
    ASSUME IInv, NEW p \in Procs, End(p), UNCHANGED fileVars
    PROVE  IInv'
  BY StoreAssumption DEF IInv, TypeOK, LockInv, CreatorInv, VersionInv, ActiveIsSealed,
     Inside, Labels, StoreStages, VersionStages, End, fileVars

\* Every step of every process preserves the invariant.
LEMMA NextIInv == IInv /\ [Next]_vars => IInv'
<1> SUFFICES ASSUME IInv, [Next]_vars PROVE IInv'
  OBVIOUS
<1> USE StoreAssumption DEF IInv, TypeOK, LockInv, CreatorInv, VersionInv,
        ActiveIsSealed, Inside, Labels, StoreStages, VersionStages, Goto, fileVars
<1>1. ASSUME NEW p \in Procs, NEW g \in Gens, NEW e \in Gens \cup {None}, Call(p, g, e)
      PROVE  IInv'
  BY <1>1 DEF Call
<1>2. ASSUME NEW p \in Procs, CreateStore(p) PROVE IInv'
  BY <1>2 DEF CreateStore
<1>3. ASSUME NEW p \in Procs, OpenStore(p) PROVE IInv'
  BY <1>3 DEF OpenStore
<1>4. ASSUME NEW p \in Procs, FillStore(p) PROVE IInv'
  BY <1>4 DEF FillStore, NextStage
<1>5. ASSUME NEW p \in Procs, Acquire(p) PROVE IInv'
  BY <1>5 DEF Acquire
<1>6. ASSUME NEW p \in Procs, MakeVersion(p) PROVE IInv'
  BY <1>6 DEF MakeVersion
<1>7. ASSUME NEW p \in Procs, ReuseVersion(p) PROVE IInv'
  BY <1>7 DEF ReuseVersion, Reusable
<1>8. ASSUME NEW p \in Procs, FillVersion(p) PROVE IInv'
  BY <1>8 DEF FillVersion
<1>9. ASSUME NEW p \in Procs, LinkReceipt(p) PROVE IInv'
  BY <1>9 DEF LinkReceipt
<1>10. ASSUME NEW p \in Procs, UnlinkStaging(p) PROVE IInv'
  BY <1>10 DEF UnlinkStaging
<1>11. ASSUME NEW p \in Procs, Validate(p) \/ Recheck(p) PROVE IInv'
  BY <1>11 DEF Validate, Recheck
<1>12. ASSUME NEW p \in Procs, ComparePointer(p) PROVE IInv'
  BY <1>12 DEF ComparePointer
<1>13. ASSUME NEW p \in Procs, ReplacePointer(p) PROVE IInv'
  BY <1>13 DEF ReplacePointer, End
<1>14. ASSUME NEW p \in Procs, ReturnReused(p) \/ Refuse(p) \/ Stop(p) PROVE IInv'
  BY <1>14, EndIInv DEF ReturnReused, Refuse, Stop
<1>15. CASE UNCHANGED vars
  BY <1>15 DEF vars
<1> QED
  BY <1>1, <1>2, <1>3, <1>4, <1>5, <1>6, <1>7, <1>8, <1>9, <1>10, <1>11, <1>12,
     <1>13, <1>14, <1>15 DEF Next, Work

\* The invariant holds in every reachable state.
THEOREM StoreInvariant == Spec => []IInv
  BY InitIInv, NextIInv, PTL DEF Spec

\* Every variable of a store has its type.
THEOREM StoreTypeOK == Spec => []TypeOK
  BY StoreInvariant, PTL DEF IInv

\* Whatever the number of processes, one changes the store at a time.
THEOREM StoreOneWriter == Spec => []OneWriter
<1>1. IInv => OneWriter
  BY DEF IInv, LockInv, CreatorInv, OneWriter, Inside
<1> QED
  BY <1>1, StoreInvariant, PTL

\* The live pointer never names a version without a receipt.
THEOREM StoreActiveIsSealed == Spec => []ActiveIsSealed
  BY StoreInvariant, PTL DEF IInv

\* The pointer follows the receipts: no publication overwrites one its caller
\* has not seen.
THEOREM StorePublishIsCompareAndSet == Spec => PublishIsCompareAndSet
<1>1. IInv /\ [Next]_vars =>
        [active' # active => active' # None /\ version[active'] = "complete"
                             /\ receipt[active'] = active]_vars
  <2> SUFFICES ASSUME IInv, Next, active' # active
               PROVE  active' # None /\ version[active'] = "complete"
                      /\ receipt[active'] = active
    BY DEF vars
  <2>1. \E p \in Procs : ReplacePointer(p)
    BY DEF Next, Work, Call, CreateStore, OpenStore, FillStore, Acquire, MakeVersion,
       ReuseVersion, FillVersion, LinkReceipt, UnlinkStaging, Validate, Recheck,
       ComparePointer, ReturnReused, Refuse, Stop, fileVars
  <2> QED
    BY <2>1, StoreAssumption DEF ReplacePointer, IInv, VersionInv
<1> QED
  BY <1>1, StoreInvariant, PTL DEF Spec, PublishIsCompareAndSet

LEMMA SealedStays ==
    ASSUME IInv, Next
    PROVE  \A g \in Gens : version[g] = "complete" =>
               version'[g] = "complete" /\ receipt'[g] = receipt[g]
<1> SUFFICES ASSUME NEW g \in Gens, version[g] = "complete"
             PROVE  version'[g] = "complete" /\ receipt'[g] = receipt[g]
  OBVIOUS
<1>1. ASSUME NEW p \in Procs, NEW h \in Gens, NEW e \in Gens \cup {None}, Call(p, h, e)
      PROVE  version'[g] = "complete" /\ receipt'[g] = receipt[g]
  BY <1>1 DEF Call, fileVars
<1>2. ASSUME NEW p \in Procs, Work(p)
      PROVE  version'[g] = "complete" /\ receipt'[g] = receipt[g]
  BY <1>2 DEF IInv, TypeOK, VersionInv, Work, CreateStore, OpenStore, FillStore,
     Acquire, MakeVersion, ReuseVersion, FillVersion, LinkReceipt, UnlinkStaging,
     Validate, Recheck, ComparePointer, ReplacePointer, ReturnReused, fileVars
<1>3. ASSUME NEW p \in Procs, Refuse(p) \/ Stop(p)
      PROVE  version'[g] = "complete" /\ receipt'[g] = receipt[g]
  BY <1>3 DEF Refuse, Stop, fileVars
<1> QED
  BY <1>1, <1>2, <1>3 DEF Next

\* Once sealed, a version and its receipt stay as they are.
THEOREM StoreSealedForEver == Spec => SealedForEver
<1>1. IInv /\ [Next]_vars =>
        [\A g \in Gens : version[g] = "complete" =>
           version'[g] = "complete" /\ receipt'[g] = receipt[g]]_vars
  BY SealedStays DEF vars
<1> QED
  BY <1>1, StoreInvariant, PTL DEF Spec, SealedForEver

-----------------------------------------------------------------------------
(* The history.  Receipts never form a circle, since a receipt names what    *)
(* was sealed before it: each generation has a rank above its predecessor's. *)
(* What holds along a chain of receipts is shown of a generation of least    *)
(* rank that would break it.                                                 *)

LEMMA LeastNat ==
    ASSUME NEW T, T \subseteq Nat, T # {}
    PROVE  \E n \in T : \A m \in T : n <= m
<1> DEFINE R == OpToRel(<, Nat)
<1>1. \A m, n \in Nat : m < n => <<m, n>> \in R
      BY DEF OpToRel
<1>2. IsWellFoundedOn(R, Nat)
      BY NatLessThanWellFounded
<1> HIDE DEF R
<1>3. PICK n \in T : \A m \in T : ~(<<m, n>> \in R)
      BY <1>2, WFMin
<1>4. \A m \in T : ~(m < n)
      BY <1>1, <1>3
<1> QED BY <1>4

IsLineage(f, prev) ==
    f = [g \in Gens \cup {None} |-> IF g = None THEN <<>> ELSE Append(f[prev[g]], g)]

Ranks(r, prev) == \A g \in Gens : prev[g] # None => r[prev[g]] < r[g]

LEMMA LeastRank ==
    ASSUME NEW r \in [Gens -> Nat], NEW D, D \subseteq Gens, D # {}
    PROVE  \E g \in D : \A h \in D : r[g] <= r[h]
<1> DEFINE T == {r[g] : g \in D}
<1>1. T \subseteq Nat /\ T # {}
      OBVIOUS
<1>2. PICK n \in T : \A m \in T : n <= m
      BY <1>1, LeastNat
<1> QED BY <1>2

\* A lineage does not change with the receipt of a generation that is in none but
\* its own.
LEMMA SameLineage ==
    ASSUME NEW P \in [Gens -> Gens \cup {None}], NEW Q \in [Gens -> Gens \cup {None}],
           NEW r \in [Gens -> Nat], Ranks(r, P),
           NEW e \in Gens, \A g \in Gens : g # e => P[g] = Q[g] /\ P[g] # e,
           NEW f, IsLineage(f, P), NEW h, IsLineage(h, Q)
    PROVE  \A g \in Gens \cup {None} : g # e => f[g] = h[g]
<1> DEFINE D == {g \in Gens : g # e /\ f[g] # h[g]}
<1>1. f[None] = h[None]
      BY DEF IsLineage
<1>2. \A g \in Gens : f[g] = Append(f[P[g]], g) /\ h[g] = Append(h[Q[g]], g)
      BY StoreAssumption DEF IsLineage
<1>3. ASSUME D # {} PROVE FALSE
  <2>1. PICK g \in D : \A d \in D : r[g] <= r[d]
    <3>1. D \subseteq Gens
          OBVIOUS
    <3> HIDE DEF D
    <3> QED BY <1>3, <3>1, LeastRank
  <2>2. P[g] = Q[g] /\ P[g] # e /\ P[g] \in Gens \cup {None}
        OBVIOUS
  <2>3. f[P[g]] # h[Q[g]]
        BY <1>2
  <2>4. CASE P[g] = None
        BY <1>1, <2>2, <2>3, <2>4
  <2>5. CASE P[g] # None
    <3>1. P[g] \in Gens /\ r[P[g]] < r[g] /\ r[g] \in Nat /\ r[P[g]] \in Nat
          BY <2>2, <2>5 DEF Ranks
    <3>2. P[g] \notin D
          BY <2>1, <3>1
    <3>3. f[P[g]] = h[P[g]]
          BY <2>2, <3>1, <3>2
    <3> QED BY <2>2, <2>3, <3>3
  <2> QED BY <2>4, <2>5
<1> QED BY <1>1, <1>3

\* A lineage is a sequence of generations, none of which ranks above its last.
LEMMA LineageMembers ==
    ASSUME NEW P \in [Gens -> Gens \cup {None}],
           NEW r \in [Gens -> Nat], Ranks(r, P), NEW f, IsLineage(f, P)
    PROVE  /\ f[None] = <<>>
           /\ \A g \in Gens : /\ f[g] = Append(f[P[g]], g)
                              /\ f[g] \in Seq(Gens)
                              /\ \A i \in 1 .. Len(f[g]) : r[f[g][i]] <= r[g]
<1> DEFINE Good(g) == f[g] \in Seq(Gens) /\ \A i \in 1 .. Len(f[g]) : r[f[g][i]] <= r[g]
           D == {g \in Gens : ~Good(g)}
<1>1. f[None] = <<>> /\ \A g \in Gens : f[g] = Append(f[P[g]], g)
      BY StoreAssumption DEF IsLineage
<1>2. ASSUME D # {} PROVE FALSE
  <2>1. PICK g \in D : \A d \in D : r[g] <= r[d]
    <3>1. D \subseteq Gens
          OBVIOUS
    <3> HIDE DEF D
    <3> QED BY <1>2, <3>1, LeastRank
  <2>2. f[P[g]] \in Seq(Gens) /\ \A i \in 1 .. Len(f[P[g]]) : r[f[P[g]][i]] <= r[g]
    <3>1. CASE P[g] = None
          BY <1>1, <3>1
    <3>2. CASE P[g] # None
      <4>1. P[g] \in Gens /\ r[P[g]] < r[g] /\ r[g] \in Nat /\ r[P[g]] \in Nat
            BY <3>2 DEF Ranks
      <4>2. P[g] \notin D
            BY <2>1, <4>1
      <4>3. Good(P[g])
            BY <4>1, <4>2
      <4>4. \A i \in 1 .. Len(f[P[g]]) : f[P[g]][i] \in Gens
            BY <4>3, ElementOfSeq
      <4> QED BY <4>1, <4>3, <4>4
    <3> QED BY <3>1, <3>2
  <2>3. PICK s \in Seq(Gens) : s = f[P[g]]
        BY <2>2
  <2>4. f[g] = Append(s, g) /\ \A i \in 1 .. Len(s) : r[s[i]] <= r[g]
        BY <1>1, <2>2, <2>3
  <2>5. /\ Append(s, g) \in Seq(Gens) /\ Len(Append(s, g)) = Len(s) + 1
        /\ \A i \in 1 .. Len(s) : Append(s, g)[i] = s[i]
        /\ Append(s, g)[Len(s) + 1] = g
        BY AppendProperties
  <2>6. ASSUME NEW i \in 1 .. Len(s) + 1 PROVE r[Append(s, g)[i]] <= r[g]
        BY <2>4, <2>5
  <2>7. Good(g)
        BY <2>4, <2>5, <2>6
  <2> QED BY <2>7
<1> QED BY <1>1, <1>2

\* What a caller expects is sealed, and so is what a receipt names.
NamedInv ==
    /\ \A p \in Procs : expected[p] # None => version[expected[p]] = "complete"
    /\ \A g \in Gens : receipt[g] # None => version[receipt[g]] = "complete"

RankInv == \E r \in [Gens -> Nat] : Ranks(r, receipt)
LineageInv == \E f : IsLineage(f, receipt)

HistoryInv == NamedInv /\ RankInv /\ LineageInv

LEMMA InitHistoryInv == Init => HistoryInv
<1> SUFFICES ASSUME Init PROVE HistoryInv
    OBVIOUS
<1> USE StoreAssumption
<1>1. NamedInv
      BY DEF Init, NamedInv
<1>2. RankInv
  <2>1. Ranks([g \in Gens |-> 0], receipt)
        BY DEF Init, Ranks
  <2> QED BY <2>1 DEF RankInv
<1>3. LineageInv
  <2> DEFINE f == [g \in Gens \cup {None} |-> IF g = None THEN <<>> ELSE Append(<<>>, g)]
  <2>1. \A g \in Gens : receipt[g] = None
        BY DEF Init
  <2>2. f[None] = <<>>
        OBVIOUS
  <2> HIDE DEF f
  <2>3. \A g \in Gens : Append(f[receipt[g]], g) = Append(<<>>, g)
        BY <2>1, <2>2
  <2>4. IsLineage(f, receipt)
        BY <2>3 DEF IsLineage, f
  <2> QED BY <2>4 DEF LineageInv
<1> QED BY <1>1, <1>2, <1>3 DEF HistoryInv

\* Every step but the one that links a receipt leaves receipts alone.
LEMMA ReceiptSteps ==
    ASSUME Next
    PROVE  (\E p \in Procs : LinkReceipt(p)) \/ receipt' = receipt
BY DEF Next, Work, Call, CreateStore, OpenStore, FillStore, Acquire, MakeVersion, ReuseVersion,
   FillVersion, UnlinkStaging, Validate, Recheck, ComparePointer, ReplacePointer, ReturnReused,
   Refuse, Stop, fileVars

\* A receipt is linked for a generation nobody names, and names one that is sealed.
LEMMA LinkedReceipt ==
    ASSUME IInv, NamedInv, NEW p \in Procs, LinkReceipt(p)
    PROVE  /\ gen[p] \in Gens /\ expected[p] \in Gens \cup {None}
           /\ version[gen[p]] = "filled" /\ active # gen[p] /\ expected[p] # gen[p]
           /\ \A g \in Gens : receipt[g] # gen[p]
           /\ receipt' = [receipt EXCEPT ![gen[p]] = expected[p]]
<1> USE StoreAssumption
<1>1. /\ gen[p] \in Gens /\ expected[p] \in Gens \cup {None}
      /\ version[gen[p]] = "filled"
      /\ receipt' = [receipt EXCEPT ![gen[p]] = expected[p]]
      BY DEF LinkReceipt, IInv, TypeOK, VersionInv
<1>2. active # gen[p] /\ expected[p] # gen[p] /\ \A g \in Gens : receipt[g] # gen[p]
      BY <1>1 DEF IInv, ActiveIsSealed, NamedInv
<1> QED BY <1>1, <1>2

LEMMA NextHistoryInv == IInv /\ IInv' /\ HistoryInv /\ [Next]_vars => HistoryInv'
<1> SUFFICES ASSUME IInv, IInv', HistoryInv, [Next]_vars PROVE HistoryInv'
    OBVIOUS
<1> USE StoreAssumption
<1>0. NamedInv /\ RankInv /\ LineageInv /\ receipt \in [Gens -> Gens \cup {None}]
      BY DEF HistoryInv, IInv, TypeOK
<1>1. ASSUME NEW p \in Procs, LinkReceipt(p) PROVE HistoryInv'
  <2> DEFINE g == gen[p]
             e == expected[p]
  <2>1. /\ g \in Gens /\ e \in Gens \cup {None} /\ version[g] = "filled" /\ e # g
        /\ \A h \in Gens : receipt[h] # g
        /\ receipt' = [receipt EXCEPT ![g] = e]
        BY <1>0, <1>1, LinkedReceipt
  <2>2. version' = [version EXCEPT ![g] = "linked"] /\ expected' = expected
        BY <1>1 DEF LinkReceipt, Goto
  <2>3. NamedInv'
        BY <1>0, <2>1, <2>2 DEF NamedInv, IInv, TypeOK
  <2> HIDE DEF g, e
  <2>4. RankInv'
    <3>1. PICK r \in [Gens -> Nat] : Ranks(r, receipt)
          BY <1>0 DEF RankInv
    <3>2. PICK n \in Nat : e # None => r[e] < n
      <4>1. CASE e = None
            BY <4>1
      <4>2. CASE e # None
        <5>1. r[e] \in Nat /\ r[e] + 1 \in Nat /\ r[e] < r[e] + 1
              BY <2>1, <4>2
        <5> QED BY <5>1
      <4> QED BY <4>1, <4>2
    <3> DEFINE q == [r EXCEPT ![g] = n]
    <3>3. q \in [Gens -> Nat] /\ q[g] = n /\ \A h \in Gens : h # g => q[h] = r[h]
          BY <2>1
    <3>4. ASSUME NEW h \in Gens, receipt'[h] # None PROVE q[receipt'[h]] < q[h]
      <4>1. CASE h = g
            BY <1>0, <2>1, <3>2, <3>3, <3>4, <4>1
      <4>2. CASE h # g
        <5>1. receipt'[h] = receipt[h] /\ receipt[h] \in Gens /\ receipt[h] # g
              BY <1>0, <2>1, <3>4, <4>2
        <5> QED BY <3>1, <3>3, <4>2, <5>1 DEF Ranks
      <4> QED BY <4>1, <4>2
    <3> HIDE DEF q
    <3> QED BY <3>3, <3>4 DEF RankInv, Ranks
  <2>5. LineageInv'
    <3>1. PICK f : IsLineage(f, receipt)
          BY <1>0 DEF LineageInv
    <3> DEFINE new == Append(f[e], g)
               h == [x \in Gens \cup {None} |-> IF x = g THEN new ELSE f[x]]
    <3>2. f[None] = <<>> /\ \A x \in Gens : f[x] = Append(f[receipt[x]], x)
          BY <3>1 DEF IsLineage
    <3>3. h[g] = new /\ \A x \in Gens \cup {None} : x # g => h[x] = f[x]
          BY <2>1
    <3>4. h = [x \in Gens \cup {None} |-> h[x]]
          OBVIOUS
    <3> HIDE DEF h
    <3>5. h[None] = <<>>
          BY <2>1, <3>2, <3>3
    <3>6. ASSUME NEW x \in Gens PROVE h[x] = Append(h[receipt'[x]], x)
      <4>1. CASE x = g
        <5>1. receipt'[x] = e /\ h[e] = f[e]
              BY <1>0, <2>1, <3>3, <4>1
        <5> QED BY <3>3, <4>1, <5>1
      <4>2. CASE x # g
        <5>1. receipt'[x] = receipt[x] /\ receipt[x] \in Gens \cup {None} /\ receipt[x] # g
              BY <1>0, <2>1, <4>2
        <5>2. h[receipt[x]] = f[receipt[x]] /\ h[x] = f[x]
              BY <3>3, <4>2, <5>1
        <5> QED BY <3>2, <5>1, <5>2
      <4> QED BY <4>1, <4>2
    <3>7. IsLineage(h, receipt')
          BY <3>4, <3>5, <3>6 DEF IsLineage
    <3> QED BY <3>7 DEF LineageInv
  <2> QED BY <2>3, <2>4, <2>5 DEF HistoryInv
<1>2. ASSUME receipt' = receipt, NamedInv' PROVE HistoryInv'
      BY <1>0, <1>2 DEF HistoryInv, RankInv, LineageInv
<1>3. ASSUME Next, receipt' = receipt PROVE NamedInv'
  <2>1. \A g \in Gens : version[g] = "complete" => version'[g] = "complete"
        BY <1>3, SealedStays
  <2>2. \A g \in Gens : receipt'[g] # None => version'[receipt'[g]] = "complete"
        BY <1>0, <1>3, <2>1 DEF NamedInv
  <2>3. ASSUME NEW p \in Procs, expected'[p] # None PROVE version'[expected'[p]] = "complete"
    <3>1. expected'[p] \in Gens
          BY <2>3 DEF IInv, TypeOK
    <3>2. version[expected'[p]] = "complete"
      <4>1. \/ expected'[p] = expected[p]
            \/ expected'[p] \in {None} \cup {h \in Gens : version[h] = "complete"}
            BY <1>3 DEF Next, Work, Call, CreateStore, OpenStore, FillStore, Acquire, MakeVersion,
               ReuseVersion, FillVersion, LinkReceipt, UnlinkStaging, Validate, Recheck,
               ComparePointer, ReplacePointer, ReturnReused, Refuse, Stop, End, Goto, IInv, TypeOK
      <4> QED BY <1>0, <2>3, <4>1 DEF NamedInv
    <3> QED BY <2>1, <3>1, <3>2
  <2> QED BY <2>2, <2>3 DEF NamedInv
<1>4. CASE UNCHANGED vars
  <2>1. receipt' = receipt /\ NamedInv'
        BY <1>0, <1>4 DEF vars, NamedInv
  <2> QED BY <1>2, <2>1
<1>5. CASE Next
      BY <1>1, <1>2, <1>3, <1>5, ReceiptSteps
<1> QED BY <1>4, <1>5

-----------------------------------------------------------------------------
(* The refinement.  *)

Live == [s \in {"store"} |-> Lineage[active]]
Complete == {g \in Gens : version[g] = "complete"}
Sealed == [s \in {"store"} |-> Complete]

LEMMA LineageIs == LineageInv => IsLineage(Lineage, receipt)
BY DEF LineageInv, IsLineage, Lineage

LEMMA LineageIsAgain == LineageInv' => IsLineage(Lineage', receipt')
BY DEF LineageInv, IsLineage, Lineage

\* The history of the live generation changes only with the pointer.
LEMMA LiveStays ==
    ASSUME IInv, IInv', HistoryInv, HistoryInv', Next, active' = active
    PROVE  Lineage'[active'] = Lineage[active]
<1> USE StoreAssumption
<1>1. /\ receipt \in [Gens -> Gens \cup {None}] /\ receipt' \in [Gens -> Gens \cup {None}]
      /\ active \in Gens \cup {None}
      BY DEF IInv, TypeOK
<1>2. CASE receipt' = receipt
      BY <1>2 DEF Lineage
<1>3. ASSUME NEW p \in Procs, LinkReceipt(p) PROVE Lineage'[active] = Lineage[active]
  <2>1. PICK e \in Gens : e = gen[p]
        BY <1>3, LinkedReceipt DEF HistoryInv
  <2>2. /\ active # e /\ \A g \in Gens : receipt[g] # e
        /\ receipt' = [receipt EXCEPT ![e] = expected[p]]
        BY <1>3, <2>1, LinkedReceipt DEF HistoryInv
  <2>3. PICK P \in [Gens -> Gens \cup {None}], Q \in [Gens -> Gens \cup {None}] :
           P = receipt /\ Q = receipt'
        BY <1>1
  <2>4. \A g \in Gens : g # e => P[g] = Q[g] /\ P[g] # e
        BY <1>1, <2>2, <2>3
  <2>5. PICK r \in [Gens -> Nat] : Ranks(r, P)
        BY <2>3 DEF HistoryInv, RankInv
  <2>6. PICK f : f = Lineage
        OBVIOUS
  <2>7. PICK h : h = Lineage'
        OBVIOUS
  <2>8. IsLineage(f, P) /\ IsLineage(h, Q)
        BY <2>3, <2>6, <2>7, LineageIs, LineageIsAgain DEF HistoryInv
  <2>9. \A g \in Gens \cup {None} : g # e => f[g] = h[g]
        BY <2>4, <2>5, <2>8, SameLineage
  <2> QED BY <1>1, <2>2, <2>6, <2>7, <2>9
<1> QED BY <1>2, <1>3, ReceiptSteps

\* A new pointer puts its generation at the end of the history, where it never was.
LEMMA LiveGrows ==
    ASSUME IInv, HistoryInv, NEW p \in Procs, ReplacePointer(p), LineageInv'
    PROVE  /\ gen[p] \in Gens /\ version[gen[p]] = "complete" /\ active' = gen[p]
           /\ gen[p] \notin History!ToSet(Lineage[active])
           /\ Lineage'[active'] = Append(Lineage[active], gen[p])
           /\ UNCHANGED <<version, receipt>>
<1> USE StoreAssumption
<1>1. /\ gen[p] \in Gens /\ version[gen[p]] = "complete" /\ active' = gen[p]
      /\ receipt[gen[p]] = active /\ active \in Gens \cup {None}
      /\ receipt \in [Gens -> Gens \cup {None}]
      /\ UNCHANGED <<version, receipt>>
      BY DEF ReplacePointer, IInv, TypeOK, VersionInv
<1>2. Lineage' = Lineage
      BY <1>1 DEF Lineage
<1>3. PICK P \in [Gens -> Gens \cup {None}] : P = receipt
      BY <1>1
<1>4. PICK f : f = Lineage
      OBVIOUS
<1>5. P = receipt /\ f = Lineage
      BY <1>3, <1>4
<1>6. PICK r \in [Gens -> Nat] : Ranks(r, P)
      BY <1>5 DEF HistoryInv, RankInv
<1>7. IsLineage(f, P)
      BY <1>5, LineageIs DEF HistoryInv
<1>8. /\ f[None] = <<>>
      /\ \A g \in Gens : /\ f[g] = Append(f[P[g]], g)
                         /\ f[g] \in Seq(Gens)
                         /\ \A i \in 1 .. Len(f[g]) : r[f[g][i]] <= r[g]
      BY <1>6, <1>7, LineageMembers
<1>9. f[gen[p]] = Append(f[active], gen[p])
      BY <1>1, <1>5, <1>8
<1>10. gen[p] \notin History!ToSet(f[active])
  <2>1. CASE active = None
        BY <1>8, <2>1 DEF History!ToSet
  <2>2. CASE active # None
    <3>1. active \in Gens /\ r[active] < r[gen[p]] /\ r[active] \in Nat /\ r[gen[p]] \in Nat
          BY <1>1, <1>5, <1>6, <2>2 DEF Ranks
    <3>2. \A i \in 1 .. Len(f[active]) : r[f[active][i]] <= r[active]
          BY <1>8, <3>1
    <3>3. DOMAIN f[active] = 1 .. Len(f[active])
          BY <1>8, <3>1
    <3>4. \A i \in DOMAIN f[active] : f[active][i] # gen[p]
          BY <3>1, <3>2, <3>3
    <3> QED BY <3>4 DEF History!ToSet
  <2> QED BY <2>1, <2>2
<1> QED BY <1>1, <1>2, <1>5, <1>9, <1>10

LEMMA StepHistory ==
    IInv /\ IInv' /\ HistoryInv /\ HistoryInv' /\ [Next]_vars => [History!HistoryNext]_<<Live, Sealed>>
<1> SUFFICES ASSUME IInv, IInv', HistoryInv, HistoryInv', [Next]_vars
             PROVE  History!HistoryNext \/ UNCHANGED <<Live, Sealed>>
    OBVIOUS
<1> USE StoreAssumption
<1>1. ASSUME NEW p \in Procs, ReplacePointer(p) PROVE History!HistoryNext
  <2>1. /\ gen[p] \in Gens /\ version[gen[p]] = "complete" /\ active' = gen[p]
        /\ gen[p] \notin History!ToSet(Lineage[active])
        /\ Lineage'[active'] = Append(Lineage[active], gen[p])
        /\ UNCHANGED <<version, receipt>>
        BY <1>1, LiveGrows DEF HistoryInv
  <2>2. Live["store"] = Lineage[active] /\ Sealed["store"] = Complete /\ Sealed' = Sealed
        BY <2>1 DEF Live, Sealed, Complete
  <2>3. Live' = [Live EXCEPT !["store"] = Append(@, gen[p])]
        BY <2>1 DEF Live
  <2>4. gen[p] \in Complete
        BY <2>1 DEF Complete
  <2>5. History!Publish("store", gen[p])
        BY <2>1, <2>2, <2>3, <2>4 DEF History!Publish, Live, Sealed, Complete
  <2> QED BY <2>1, <2>5 DEF History!HistoryNext
<1>2. ASSUME Next, active' = active PROVE Live' = Live
      BY <1>2, LiveStays DEF Live
<1>3. ASSUME NEW p \in Procs, UnlinkStaging(p) PROVE History!HistoryNext
  <2>1. /\ gen[p] \in Gens /\ version[gen[p]] = "linked" /\ active' = active
        /\ version' = [version EXCEPT ![gen[p]] = "complete"] /\ version \in [Gens -> VersionStages]
        BY <1>3 DEF UnlinkStaging, IInv, TypeOK, VersionInv
  <2>2. gen[p] \notin Complete /\ Complete' = Complete \cup {gen[p]}
        BY <2>1 DEF Complete
  <2>3. Next
        BY <1>3 DEF Next, Work
  <2>4. Live' = Live
        BY <1>2, <2>1, <2>3
  <2>5. Sealed["store"] = Complete /\ Sealed' = [Sealed EXCEPT !["store"] = @ \cup {gen[p]}]
        BY <2>2 DEF Sealed
  <2>6. PICK g \in Gens : g = gen[p]
        BY <2>1
  <2>7. History!Seal("store", g)
        BY <2>2, <2>4, <2>5, <2>6 DEF History!Seal, Live, Sealed, Complete
  <2> QED BY <2>7 DEF History!HistoryNext
<1>4. ASSUME Next, \A p \in Procs : ~ReplacePointer(p) /\ ~UnlinkStaging(p)
      PROVE  UNCHANGED <<Live, Sealed>>
  <2>1. active' = active
        BY <1>4 DEF Next, Work, Call, CreateStore, OpenStore, FillStore, Acquire, MakeVersion,
           ReuseVersion, FillVersion, LinkReceipt, Validate, Recheck,
           ComparePointer, ReturnReused, Refuse, Stop, fileVars
  <2>2. ASSUME NEW g \in Gens, version'[g] = "complete" PROVE version[g] = "complete"
        BY <1>4, <2>2 DEF Next, Work, Call, CreateStore, OpenStore, FillStore, Acquire, MakeVersion,
           ReuseVersion, FillVersion, LinkReceipt, Validate, Recheck,
           ComparePointer, ReturnReused, Refuse, Stop, fileVars, IInv, TypeOK
  <2>3. Complete' = Complete
        BY <1>4, <2>2, SealedStays DEF Complete
  <2> QED BY <1>2, <1>4, <2>1, <2>3 DEF Sealed
<1>5. CASE UNCHANGED vars
      BY <1>5 DEF vars, Live, Sealed, Complete, Lineage
<1> QED BY <1>1, <1>3, <1>4, <1>5

\* The refinement: whatever processes interleave or end inside deliver, the
\* history read off the receipts only grows at its end, by a sealed generation
\* that was never live (_publish): no update is lost and none comes back.
THEOREM StoreImplementsHistory == Spec => ImplementsHistory
<1>1. Init => History!HistoryInit
  <2> SUFFICES ASSUME Init PROVE History!HistoryInit
      OBVIOUS
  <2>1. Lineage[None] = <<>>
    <3>1. IsLineage(Lineage, receipt)
          BY InitHistoryInv, LineageIs DEF HistoryInv
    <3> QED BY <3>1 DEF IsLineage
  <2>2. active = None /\ {g \in Gens : version[g] = "complete"} = {}
        BY DEF Init
  <2> QED BY <2>1, <2>2 DEF History!HistoryInit
<1>2. IInv /\ IInv' /\ HistoryInv /\ HistoryInv' /\ [Next]_vars => [History!HistoryNext]_<<Live, Sealed>>
      BY StepHistory
<1>3. Spec => [](IInv /\ HistoryInv)
      BY InitIInv, NextIInv, InitHistoryInv, NextHistoryInv, PTL DEF Spec
<1> QED BY <1>1, <1>2, <1>3, PTL
        DEF Spec, ImplementsHistory, History!HistorySpec, History!histVars, Live, Sealed, Complete
=============================================================================
