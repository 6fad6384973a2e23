---------------------------- MODULE AuthRulesProofs ----------------------------
(***************************************************************************)
(* Proofs about AuthRules for every text, of any length and with any       *)
(* markers in it.                                                          *)
(*                                                                         *)
(* What the pass knows after k lines is given by recursion, so that what   *)
(* holds of it is proved by induction on k: a set of line numbers that has *)
(* 0 and the successor of each of its members has them all (Induction).    *)
(* Sound says what the pass knows while it accepts; from it, that what it  *)
(* accepts is unambiguous and where it finds a block.  A text it refuses   *)
(* is ambiguous since Sound leaves the line it stops at no reading.        *)
(***************************************************************************)
EXTENDS AuthRules, SequenceTheorems, WellFoundedInduction, TLAPS

-----------------------------------------------------------------------------
(* Induction.  The provers cannot instantiate a theorem about all           *)
(* predicates; a set of counterexamples has a least element all the same.   *)

LEMMA LeastNat ==
    ASSUME NEW T, T \subseteq Nat, T # {}
    PROVE  \E n \in T : \A m \in T : n <= m
<1> DEFINE R == OpToRel(<, Nat)
<1>1. \A m, n \in Nat : m < n => <<m, n>> \in R
      BY DEF OpToRel
<1>2. IsWellFoundedOn(R, Nat)
      BY NatLessThanWellFounded
<1> HIDE DEF R
<1>3. PICK n \in T : \A m \in T : ~(<<m, n>> \in R)
      BY <1>2, WFMin
<1>4. \A m \in T : ~(m < n)
      BY <1>1, <1>3
<1> QED BY <1>4

LEMMA Induction ==
    ASSUME NEW T, 0 \in T, \A n \in Nat : n \in T => n + 1 \in T
    PROVE  \A n \in Nat : n \in T
<1> SUFFICES ASSUME Nat \ T # {} PROVE FALSE
    OBVIOUS
<1>1. PICK n \in Nat \ T : \A m \in Nat \ T : n <= m
      BY LeastNat
<1>2. n # 0 /\ n - 1 \in Nat
      BY <1>1
<1>3. n - 1 \in T
      BY <1>1, <1>2
<1> QED BY <1>1, <1>2, <1>3

-----------------------------------------------------------------------------
(* The pass                                                                *)

\* What the pass knows after line i, from what it knew before
After(state, text, i) == IF ~state.ok THEN state ELSE Read(state, text[i], i)

\* f[i] is what the pass knows after i lines of the first n.
IsPass(f, text, n) == f = [i \in 0 .. n |-> IF i = 0 THEN Start ELSE After(f[i - 1], text, i)]

LEMMA PassExists == \A text : \A n \in Nat : \E f : IsPass(f, text, n)
<1> SUFFICES ASSUME NEW text PROVE \A n \in Nat : \E f : IsPass(f, text, n)
    OBVIOUS
<1> DEFINE T == {n \in Nat : \E f : IsPass(f, text, n)}
<1>1. 0 \in T
  <2>1. IsPass([i \in 0 .. 0 |-> Start], text, 0)
        BY DEF IsPass
  <2> QED BY <2>1
<1>2. ASSUME NEW n \in Nat, n \in T PROVE n + 1 \in T
  <2>1. PICK f : IsPass(f, text, n)
        BY <1>2
  <2> DEFINE last == After(f[n], text, n + 1)
             g == [i \in 0 .. n + 1 |-> IF i = n + 1 THEN last ELSE f[i]]
  <2>2. g[n] = f[n] /\ \A i \in 0 .. n : g[i] = f[i]
        OBVIOUS
  <2>3. \A i \in 0 .. n + 1 : g[i] = IF i = 0 THEN Start ELSE After(g[i - 1], text, i)
    <3> SUFFICES ASSUME NEW i \in 0 .. n + 1
                 PROVE  g[i] = IF i = 0 THEN Start ELSE After(g[i - 1], text, i)
        OBVIOUS
    <3>1. CASE i = n + 1
          BY <2>2, <3>1
    <3>2. CASE i \in 0 .. n /\ i # 0
      <4>1. f[i] = After(f[i - 1], text, i)
            BY <2>1, <3>2 DEF IsPass
      <4> QED BY <2>2, <3>2, <4>1
    <3>3. CASE i = 0
          BY <2>1, <2>2, <3>3 DEF IsPass
    <3> QED BY <3>1, <3>2, <3>3
  <2>4. g = [i \in 0 .. n + 1 |-> g[i]]
        OBVIOUS
  <2> HIDE DEF g
  <2>5. IsPass(g, text, n + 1)
        BY <2>3, <2>4 DEF IsPass
  <2> QED BY <2>5
<1> HIDE DEF T
<1>3. \A n \in Nat : n \in T
      BY <1>1, <1>2, Induction
<1> QED BY <1>3 DEF T

LEMMA PassIs ==
    ASSUME NEW text, Len(text) \in Nat
    PROVE  \E f : IsPass(f, text, Len(text)) /\ Pass(text) = f[Len(text)]
<1> DEFINE f == CHOOSE f : IsPass(f, text, Len(text))
<1>1. IsPass(f, text, Len(text))
      BY PassExists
<1>2. Pass(text) = f[Len(text)]
      BY DEF Pass, IsPass, After
<1> QED BY <1>1, <1>2

-----------------------------------------------------------------------------
(* What the pass knows                                                     *)

Knowledge == [ok : BOOLEAN, open : Ops \cup {None}, from : Nat,
              blocks : [Ops -> (Nat \X Nat) \cup {<<>>}], continued : BOOLEAN]

\* While it accepts, the pass knows after k lines whether the last is continued,
\* the blocks so far and the one that is open, and that there is no other marker.
Sound(s, text, k) ==
    /\ s.continued <=> k > 0 /\ Continued(text[k])
    /\ \A o \in Ops : s.blocks[o] # <<>> =>
          s.blocks[o][2] <= k /\ IsBlock(text, o, s.blocks[o][1], s.blocks[o][2])
    /\ s.open # None =>
          /\ s.from \in 1 .. k /\ text[s.from] = Begin(s.open) /\ s.blocks[s.open] = <<>>
          /\ \A i \in s.from + 1 .. k : ~IsMarker(text[i])
    /\ \A i \in 1 .. k : IsMarker(text[i]) =>
          /\ i > 1 => ~Continued(text[i - 1])
          /\ \/ s.open # None /\ i = s.from
             \/ \E o \in Ops : s.blocks[o] # <<>> /\ (i = s.blocks[o][1] \/ i = s.blocks[o][2])
    /\ \A o \in Ops, i \in 1 .. k : text[i] = Begin(o) =>
          \/ s.open = o /\ i = s.from
          \/ s.blocks[o] # <<>> /\ i = s.blocks[o][1]

\* A marker is of an owner, or broken.
LEMMA Lines ==
    ASSUME NEW line \in Line
    PROVE  /\ line[1] \in {"begin", "end", "rules", "text", "continued", "marker"}
           /\ line[1] \in {"begin", "end"} => line[2] \in Ops
           /\ line[1] = "begin" <=> \E o \in Ops : line = Begin(o)
           /\ line[1] = "end" <=> \E o \in Ops : line = End(o)
           /\ \A o \in Ops : line = Begin(o) <=> line[1] = "begin" /\ line[2] = o
           /\ \A o \in Ops : line = End(o) <=> line[1] = "end" /\ line[2] = o
           /\ IsMarker(line) <=> line[1] \in {"begin", "end", "marker"}
           /\ Continued(line) <=> line[1] = "continued"
BY DEF Line, Begin, End, IsMarker, Continued

\* One line, by its kind
LEMMA ReadPlain ==
    ASSUME NEW s \in Knowledge, NEW line \in Line, NEW i \in Nat, ~IsMarker(line)
    PROVE  /\ Read(s, line, i) \in Knowledge
           /\ Read(s, line, i) = [s EXCEPT !.continued = Continued(line)]
<1>1. Read(s, line, i) = [s EXCEPT !.continued = Continued(line)]
      BY DEF Read
<1>2. Continued(line) \in BOOLEAN
      BY DEF Continued
<1> HIDE DEF Continued
<1> QED BY <1>1, <1>2 DEF Knowledge

LEMMA ReadBegin ==
    ASSUME NEW s \in Knowledge, NEW o \in Ops, NEW i \in Nat
    PROVE  /\ Read(s, Begin(o), i) \in Knowledge
           /\ Read(s, Begin(o), i) =
                IF ~s.continued /\ s.open = None /\ s.blocks[o] = <<>>
                THEN [s EXCEPT !.continued = FALSE, !.open = o, !.from = i]
                ELSE [s EXCEPT !.continued = FALSE, !.ok = FALSE]
<1>1. IsMarker(Begin(o)) /\ Continued(Begin(o)) = FALSE /\ Begin(o)[1] = "begin" /\ Begin(o)[2] = o
      BY DEF Begin, IsMarker, Continued
<1>2. Read(s, Begin(o), i) =
        IF ~s.continued /\ s.open = None /\ s.blocks[o] = <<>>
        THEN [s EXCEPT !.continued = FALSE, !.open = o, !.from = i]
        ELSE [s EXCEPT !.continued = FALSE, !.ok = FALSE]
      BY <1>1 DEF Read
<1>3. [s EXCEPT !.continued = FALSE, !.open = o, !.from = i] \in Knowledge
      BY DEF Knowledge
<1>4. [s EXCEPT !.continued = FALSE, !.ok = FALSE] \in Knowledge
      BY DEF Knowledge
<1> QED BY <1>2, <1>3, <1>4

LEMMA ReadEnd ==
    ASSUME NEW s \in Knowledge, NEW o \in Ops, NEW i \in Nat
    PROVE  /\ Read(s, End(o), i) \in Knowledge
           /\ Read(s, End(o), i) =
                IF ~s.continued /\ s.open = o
                THEN [s EXCEPT !.continued = FALSE, !.open = None,
                               !.blocks = [s.blocks EXCEPT ![o] = <<s.from, i>>]]
                ELSE [s EXCEPT !.continued = FALSE, !.ok = FALSE]
<1>1. IsMarker(End(o)) /\ Continued(End(o)) = FALSE /\ End(o)[1] = "end" /\ End(o)[2] = o
      BY DEF End, IsMarker, Continued
<1>2. Read(s, End(o), i) =
        IF ~s.continued /\ s.open = o
        THEN [s EXCEPT !.continued = FALSE, !.open = None,
                       !.blocks = [s.blocks EXCEPT ![o] = <<s.from, i>>]]
        ELSE [s EXCEPT !.continued = FALSE, !.ok = FALSE]
      BY <1>1 DEF Read
<1>3. [s EXCEPT !.continued = FALSE, !.open = None,
                !.blocks = [s.blocks EXCEPT ![o] = <<s.from, i>>]] \in Knowledge
      BY DEF Knowledge
<1>4. [s EXCEPT !.continued = FALSE, !.ok = FALSE] \in Knowledge
      BY DEF Knowledge
<1> QED BY <1>2, <1>3, <1>4

LEMMA ReadBroken ==
    ASSUME NEW s \in Knowledge, NEW line \in Line, NEW i \in Nat, line[1] = "marker"
    PROVE  /\ Read(s, line, i) \in Knowledge
           /\ Read(s, line, i) = [s EXCEPT !.continued = FALSE, !.ok = FALSE]
<1>1. IsMarker(line) /\ Continued(line) = FALSE
      BY DEF IsMarker, Continued
<1>2. Read(s, line, i) = [s EXCEPT !.continued = FALSE, !.ok = FALSE]
      BY <1>1 DEF Read
<1> QED BY <1>2 DEF Knowledge

LEMMA Kinds ==
    ASSUME NEW line \in Line
    PROVE  \/ ~IsMarker(line)
           \/ \E o \in Ops : line = Begin(o)
           \/ \E o \in Ops : line = End(o)
           \/ line[1] = "marker"
BY Lines

LEMMA SoundStep ==
    ASSUME NEW text \in Seq(Line), NEW k \in Nat, k < Len(text),
           NEW s \in Knowledge, Sound(s, text, k),
           NEW t, t = Read(s, text[k + 1], k + 1), t.ok
    PROVE  Sound(t, text, k + 1)
<1> DEFINE line == text[k + 1]
<1>0. /\ line \in Line /\ \A i \in 1 .. k + 1 : text[i] \in Line
      /\ Len(text) \in Nat /\ k + 1 \in 1 .. Len(text) /\ k + 1 \in Nat
      OBVIOUS
<1>00. /\ s.open \in Ops \cup {None} /\ s.from \in Nat
       /\ s.blocks \in [Ops -> (Nat \X Nat) \cup {<<>>}]
      BY DEF Knowledge
<1>000. t = Read(s, line, k + 1)
      OBVIOUS
<1> HIDE DEF line
<1>1. CASE ~IsMarker(line)
  <2>1. t = [s EXCEPT !.continued = Continued(line)]
        BY <1>0, <1>000, <1>1, ReadPlain
  <2>2. /\ t.open = s.open /\ t.from = s.from /\ t.blocks = s.blocks
        /\ t.continued = Continued(line)
        BY <2>1 DEF Knowledge
  <2>3. \A o \in Ops : line # Begin(o)
        BY <1>0, <1>1, Lines
  <2>4. t.continued <=> k + 1 > 0 /\ Continued(text[k + 1])
        BY <2>2 DEF line
  <2>5. \A o \in Ops : t.blocks[o] # <<>> =>
          t.blocks[o][2] <= k + 1 /\ IsBlock(text, o, t.blocks[o][1], t.blocks[o][2])
    <3> SUFFICES ASSUME NEW o \in Ops, s.blocks[o] # <<>> PROVE s.blocks[o][2] <= k + 1
        BY <2>2 DEF Sound
    <3>1. s.blocks[o][2] \in Nat /\ s.blocks[o][2] <= k
          BY <1>00 DEF Sound
    <3> QED BY <3>1
  <2>6. t.open # None =>
          /\ t.from \in 1 .. k + 1 /\ text[t.from] = Begin(t.open) /\ t.blocks[t.open] = <<>>
          /\ \A i \in t.from + 1 .. k + 1 : ~IsMarker(text[i])
        BY <1>00, <1>1, <2>2 DEF Sound, line
  <2>7. \A i \in 1 .. k + 1 : IsMarker(text[i]) =>
          /\ i > 1 => ~Continued(text[i - 1])
          /\ \/ t.open # None /\ i = t.from
             \/ \E o \in Ops : t.blocks[o] # <<>> /\ (i = t.blocks[o][1] \/ i = t.blocks[o][2])
        BY <1>1, <2>2 DEF Sound, line
  <2>8. \A o \in Ops, i \in 1 .. k + 1 : text[i] = Begin(o) =>
          \/ t.open = o /\ i = t.from
          \/ t.blocks[o] # <<>> /\ i = t.blocks[o][1]
        BY <2>2, <2>3 DEF Sound, line
  <2> QED BY <2>4, <2>5, <2>6, <2>7, <2>8 DEF Sound
<1>2. ASSUME NEW o \in Ops, line = Begin(o) PROVE Sound(t, text, k + 1)
  <2>1. t = IF ~s.continued /\ s.open = None /\ s.blocks[o] = <<>>
            THEN [s EXCEPT !.continued = FALSE, !.open = o, !.from = k + 1]
            ELSE [s EXCEPT !.continued = FALSE, !.ok = FALSE]
        BY <1>0, <1>000, <1>2, ReadBegin
  <2>2. ~s.continued /\ s.open = None /\ s.blocks[o] = <<>>
    <3> SUFFICES ASSUME t = [s EXCEPT !.continued = FALSE, !.ok = FALSE] PROVE FALSE
        BY <2>1
    <3> QED BY DEF Knowledge
  <2>3. t.open = o /\ t.from = k + 1 /\ t.blocks = s.blocks /\ t.continued = FALSE
        BY <2>1, <2>2 DEF Knowledge
  <2>33. k > 0 => ~Continued(text[k])
        BY <2>2 DEF Sound
  <2>4. t.continued <=> k + 1 > 0 /\ Continued(text[k + 1])
        BY <1>2, <2>3 DEF line, Begin, Continued
  <2>5. \A q \in Ops : t.blocks[q] # <<>> =>
          t.blocks[q][2] <= k + 1 /\ IsBlock(text, q, t.blocks[q][1], t.blocks[q][2])
    <3> SUFFICES ASSUME NEW q \in Ops, s.blocks[q] # <<>> PROVE s.blocks[q][2] <= k + 1
        BY <2>3 DEF Sound
    <3>1. s.blocks[q][2] \in Nat /\ s.blocks[q][2] <= k
          BY <1>00 DEF Sound
    <3> QED BY <3>1
  <2>6. /\ t.from \in 1 .. k + 1 /\ text[t.from] = Begin(t.open) /\ t.blocks[t.open] = <<>>
        /\ \A i \in t.from + 1 .. k + 1 : ~IsMarker(text[i])
        BY <1>2, <2>2, <2>3 DEF line
  <2>7. ASSUME NEW i \in 1 .. k + 1, IsMarker(text[i])
        PROVE  /\ i > 1 => ~Continued(text[i - 1])
               /\ \/ t.open # None /\ i = t.from
                  \/ \E q \in Ops : t.blocks[q] # <<>> /\ (i = t.blocks[q][1] \/ i = t.blocks[q][2])
    <3>1. CASE i = k + 1
      <4>1. t.open # None /\ i = t.from /\ i - 1 = k
            BY <2>3, <3>1, AuthRulesAssumption
      <4> QED BY <2>33, <4>1
    <3>2. CASE i \in 1 .. k
      <4>1. PICK q \in Ops : s.blocks[q] # <<>> /\ (i = s.blocks[q][1] \/ i = s.blocks[q][2])
            BY <2>2, <2>7, <3>2 DEF Sound
      <4>2. i > 1 => ~Continued(text[i - 1])
            BY <2>7, <3>2 DEF Sound
      <4> QED BY <2>3, <4>1, <4>2
    <3> QED BY <3>1, <3>2
  <2>8. ASSUME NEW q \in Ops, NEW i \in 1 .. k + 1, text[i] = Begin(q)
        PROVE  \/ t.open = q /\ i = t.from
               \/ t.blocks[q] # <<>> /\ i = t.blocks[q][1]
    <3>1. CASE i = k + 1
      <4>1. q = o
            BY <1>2, <2>8, <3>1 DEF line, Begin
      <4> QED BY <2>3, <3>1, <4>1
    <3>2. CASE i \in 1 .. k
          BY <2>2, <2>3, <2>8, <3>2, AuthRulesAssumption DEF Sound
    <3> QED BY <3>1, <3>2
  <2> QED BY <2>4, <2>5, <2>6, <2>7, <2>8 DEF Sound
<1>3. ASSUME NEW o \in Ops, line = End(o) PROVE Sound(t, text, k + 1)
  <2>1. t = IF ~s.continued /\ s.open = o
            THEN [s EXCEPT !.continued = FALSE, !.open = None,
                           !.blocks = [s.blocks EXCEPT ![o] = <<s.from, k + 1>>]]
            ELSE [s EXCEPT !.continued = FALSE, !.ok = FALSE]
        BY <1>0, <1>000, <1>3, ReadEnd
  <2>2. ~s.continued /\ s.open = o
    <3> SUFFICES ASSUME t = [s EXCEPT !.continued = FALSE, !.ok = FALSE] PROVE FALSE
        BY <2>1
    <3> QED BY DEF Knowledge
  <2>3. /\ t.open = None /\ t.from = s.from /\ t.continued = FALSE
        /\ t.blocks = [s.blocks EXCEPT ![o] = <<s.from, k + 1>>]
        BY <2>1, <2>2 DEF Knowledge
  <2>31. /\ t.blocks[o] # <<>> /\ t.blocks[o][1] = s.from /\ t.blocks[o][2] = k + 1
         /\ \A q \in Ops \ {o} : t.blocks[q] = s.blocks[q]
    <3>1. t.blocks[o] = <<s.from, k + 1>> /\ \A q \in Ops \ {o} : t.blocks[q] = s.blocks[q]
          BY <1>00, <2>3
    <3>2. <<s.from, k + 1>> # <<>>
          OBVIOUS
    <3> QED BY <3>1, <3>2
  <2>32. /\ s.from \in 1 .. k /\ text[s.from] = Begin(o) /\ s.blocks[o] = <<>>
         /\ \A i \in s.from + 1 .. k : ~IsMarker(text[i])
        BY <2>2, AuthRulesAssumption DEF Sound
  <2>33. k > 0 => ~Continued(text[k])
        BY <2>2 DEF Sound
  <2>4. t.continued <=> k + 1 > 0 /\ Continued(text[k + 1])
        BY <1>3, <2>3 DEF line, End, Continued
  <2>5. ASSUME NEW q \in Ops, t.blocks[q] # <<>>
        PROVE  t.blocks[q][2] <= k + 1 /\ IsBlock(text, q, t.blocks[q][1], t.blocks[q][2])
    <3>1. CASE q = o
      <4>1. IsBlock(text, o, s.from, k + 1)
            BY <1>0, <1>00, <1>3, <2>32 DEF IsBlock, line
      <4> QED BY <2>31, <3>1, <4>1
    <3>2. CASE q # o
      <4>1. s.blocks[q] # <<>> /\ t.blocks[q] = s.blocks[q]
            BY <2>31, <2>5, <3>2
      <4>2. /\ s.blocks[q][2] \in Nat /\ s.blocks[q][2] <= k
            /\ IsBlock(text, q, s.blocks[q][1], s.blocks[q][2])
            BY <1>00, <4>1 DEF Sound
      <4> QED BY <4>1, <4>2
    <3> QED BY <3>1, <3>2
  <2>7. ASSUME NEW i \in 1 .. k + 1, IsMarker(text[i])
        PROVE  /\ i > 1 => ~Continued(text[i - 1])
               /\ \E q \in Ops : t.blocks[q] # <<>> /\ (i = t.blocks[q][1] \/ i = t.blocks[q][2])
    <3>1. CASE i = k + 1
          BY <2>31, <2>33, <3>1
    <3>2. CASE i \in 1 .. k
      <4>1. i > 1 => ~Continued(text[i - 1])
            BY <2>7, <3>2 DEF Sound
      <4>2. CASE i = s.from
            BY <2>31, <4>1, <4>2
      <4>3. CASE i # s.from
        <5>1. PICK q \in Ops : s.blocks[q] # <<>> /\ (i = s.blocks[q][1] \/ i = s.blocks[q][2])
              BY <2>7, <3>2, <4>3 DEF Sound
        <5>2. q # o
              BY <2>32, <5>1
        <5> QED BY <2>31, <4>1, <5>1, <5>2
      <4> QED BY <4>2, <4>3
    <3> QED BY <3>1, <3>2
  <2>8. ASSUME NEW q \in Ops, NEW i \in 1 .. k + 1, text[i] = Begin(q)
        PROVE  t.blocks[q] # <<>> /\ i = t.blocks[q][1]
    <3>1. i \in 1 .. k
          BY <1>3, <2>8 DEF line, Begin, End
    <3>2. CASE q = o
          BY <2>2, <2>31, <2>32, <2>8, <3>1, <3>2 DEF Sound
    <3>3. CASE q # o
          BY <2>2, <2>31, <2>8, <3>1, <3>3 DEF Sound
    <3> QED BY <3>2, <3>3
  <2> QED BY <2>3, <2>4, <2>5, <2>7, <2>8 DEF Sound
<1>4. CASE line[1] = "marker"
  <2>1. t = [s EXCEPT !.continued = FALSE, !.ok = FALSE]
        BY <1>0, <1>000, <1>4, ReadBroken
  <2> QED BY <2>1 DEF Knowledge
<1> QED BY <1>0, <1>1, <1>2, <1>3, <1>4, Kinds

LEMMA PassSteps ==
    ASSUME NEW text \in Seq(Line), NEW f, IsPass(f, text, Len(text))
    PROVE  /\ f[0] = Start
           /\ \A k \in 0 .. Len(text) - 1 :
                /\ f[k].ok => f[k + 1] = Read(f[k], text[k + 1], k + 1)
                /\ ~f[k].ok => f[k + 1] = f[k]
<1>1. Len(text) \in Nat
      OBVIOUS
<1>2. f[0] = Start
      BY <1>1 DEF IsPass
<1>3. \A i \in 1 .. Len(text) : f[i] = After(f[i - 1], text, i)
      BY <1>1 DEF IsPass
<1>4. ASSUME NEW k \in 0 .. Len(text) - 1
      PROVE  f[k + 1] = After(f[k], text, k + 1)
  <2>1. k + 1 \in 1 .. Len(text) /\ (k + 1) - 1 = k
        BY <1>1
  <2> QED BY <1>3, <2>1
<1>5. ASSUME NEW k \in 0 .. Len(text) - 1
      PROVE  /\ f[k].ok => f[k + 1] = Read(f[k], text[k + 1], k + 1)
             /\ ~f[k].ok => f[k + 1] = f[k]
      BY <1>4, Zenon DEF After
<1> QED BY <1>2, <1>5

LEMMA ReadKnows ==
    ASSUME NEW s \in Knowledge, NEW line \in Line, NEW i \in Nat
    PROVE  Read(s, line, i) \in Knowledge
BY Kinds, ReadPlain, ReadBegin, ReadEnd, ReadBroken

LEMMA StartSound ==
    ASSUME NEW text
    PROVE  Start \in Knowledge /\ Start.ok /\ Sound(Start, text, 0)
<1>1. Start \in Knowledge /\ Start.ok
      BY DEF Start, NoBlocks, Knowledge
<1>2. Start.continued = FALSE /\ Start.open = None /\ \A o \in Ops : Start.blocks[o] = <<>>
      BY DEF Start, NoBlocks
<1> QED BY <1>1, <1>2 DEF Sound

LEMMA PassKnows ==
    ASSUME NEW text \in Seq(Line), NEW f, IsPass(f, text, Len(text))
    PROVE  \A k \in 0 .. Len(text) : f[k] \in Knowledge /\ (f[k].ok => Sound(f[k], text, k))
<1> DEFINE T == {k \in Nat : k <= Len(text) =>
                       f[k] \in Knowledge /\ (f[k].ok => Sound(f[k], text, k))}
<1>1. 0 \in T
      BY PassSteps, StartSound
<1>2. ASSUME NEW k \in Nat, k \in T PROVE k + 1 \in T
  <2> SUFFICES ASSUME k + 1 <= Len(text)
               PROVE  f[k + 1] \in Knowledge /\ (f[k + 1].ok => Sound(f[k + 1], text, k + 1))
      OBVIOUS
  <2>1. /\ k < Len(text) /\ k \in 0 .. Len(text) - 1 /\ text[k + 1] \in Line
        /\ f[k] \in Knowledge /\ (f[k].ok => Sound(f[k], text, k))
        BY <1>2
  <2>2. CASE f[k].ok
    <3>1. f[k + 1] = Read(f[k], text[k + 1], k + 1)
          BY <2>1, <2>2, PassSteps
    <3>2. f[k + 1] \in Knowledge
          BY <2>1, <3>1, ReadKnows
    <3>3. f[k + 1].ok => Sound(f[k + 1], text, k + 1)
          BY <2>1, <2>2, <3>1, SoundStep
    <3> QED BY <3>2, <3>3
  <2>3. CASE ~f[k].ok
    <3>1. f[k + 1] = f[k]
          BY <2>1, <2>3, PassSteps
    <3> QED BY <2>1, <2>3, <3>1
  <2> QED BY <2>2, <2>3
<1> HIDE DEF T
<1>3. \A k \in Nat : k \in T
      BY <1>1, <1>2, Induction
<1> QED BY <1>3 DEF T

\* In an unambiguous text a block that is open has its end ahead.
LEMMA OpenHasEnd ==
    ASSUME NEW text \in Seq(Line), NEW k \in 0 .. Len(text), Unambiguous(text),
           NEW s \in Knowledge, Sound(s, text, k), s.open # None
    PROVE  \E j \in k + 1 .. Len(text) :
              /\ text[j] = End(s.open)
              /\ \A i \in k + 1 .. j - 1 : ~IsMarker(text[i])
<1>1. PICK p \in Ops, from \in 1 .. k : p = s.open /\ from = s.from
      BY DEF Sound, Knowledge
<1>2. text[from] = Begin(p) /\ \A i \in from + 1 .. k : ~IsMarker(text[i])
      BY <1>1 DEF Sound
<1>3. from \in 1 .. Len(text) /\ IsMarker(text[from])
      BY <1>2 DEF IsMarker, Begin
<1>4. PICK o \in Ops, j \in 1 .. Len(text) : IsBlock(text, o, from, j) \/ IsBlock(text, o, j, from)
      BY <1>3 DEF Unambiguous
<1>5. IsBlock(text, p, from, j)
      BY <1>2, <1>4 DEF IsBlock, Begin, End
<1>6. /\ j \in from + 1 .. Len(text) /\ text[j] = End(p)
      /\ \A i \in from + 1 .. j - 1 : ~IsMarker(text[i])
      BY <1>5 DEF IsBlock
<1>7. IsMarker(text[j])
      BY <1>6 DEF IsMarker, End
<1>8. j \in k + 1 .. Len(text)
      BY <1>2, <1>6, <1>7
<1>9. \A i \in k + 1 .. j - 1 : ~IsMarker(text[i])
      BY <1>6
<1> QED BY <1>1, <1>6, <1>8, <1>9

\* What an unambiguous text has next is accepted.
LEMMA UnambiguousStep ==
    ASSUME NEW text \in Seq(Line), NEW k \in 0 .. Len(text) - 1, Unambiguous(text),
           NEW s \in Knowledge, s.ok, Sound(s, text, k)
    PROVE  Read(s, text[k + 1], k + 1).ok
<1> DEFINE line == text[k + 1]
<1>0. /\ line \in Line /\ k + 1 \in 1 .. Len(text) /\ k \in 0 .. Len(text) /\ k \in Nat
      /\ k + 1 \in Nat /\ Len(text) \in Nat
      OBVIOUS
<1>1. CASE ~IsMarker(line)
  <2>1. Read(s, line, k + 1) = [s EXCEPT !.continued = Continued(line)]
        BY <1>0, <1>1, ReadPlain
  <2> QED BY <2>1 DEF Knowledge
<1>2. ASSUME IsMarker(line)
      PROVE  /\ ~s.continued
             /\ \E o \in Ops, j \in 1 .. Len(text) :
                  IsBlock(text, o, k + 1, j) \/ IsBlock(text, o, j, k + 1)
  <2>1. /\ k + 1 > 1 => ~Continued(text[k])
        /\ \E o \in Ops, j \in 1 .. Len(text) :
             IsBlock(text, o, k + 1, j) \/ IsBlock(text, o, j, k + 1)
    <3>1. (k + 1) - 1 = k
          OBVIOUS
    <3> QED BY <1>0, <1>2, <3>1 DEF Unambiguous
  <2>2. ~s.continued
        BY <1>0, <2>1 DEF Sound
  <2> QED BY <2>1, <2>2
<1>3. ASSUME NEW o \in Ops, line = Begin(o) PROVE Read(s, line, k + 1).ok
  <2>1. ~s.continued
        BY <1>2, <1>3 DEF IsMarker, Begin
  <2>2. s.open = None
    <3> SUFFICES ASSUME s.open # None PROVE FALSE
        OBVIOUS
    <3>1. PICK j \in k + 1 .. Len(text) :
             text[j] = End(s.open) /\ \A i \in k + 1 .. j - 1 : ~IsMarker(text[i])
          BY <1>0, OpenHasEnd
    <3>2. IsMarker(line) /\ j # k + 1
          BY <1>3, <3>1 DEF IsMarker, Begin, End
    <3>3. k + 1 \in k + 1 .. j - 1
          BY <1>0, <3>1, <3>2
    <3> QED BY <3>1, <3>2, <3>3
  <2>3. s.blocks[o] = <<>>
    <3> SUFFICES ASSUME s.blocks[o] # <<>> PROVE FALSE
        OBVIOUS
    <3>1. PICK a \in Nat, b \in Nat : s.blocks[o] = <<a, b>>
          BY DEF Knowledge
    <3>2. b <= k /\ IsBlock(text, o, a, b)
      <4>1. s.blocks[o][1] = a /\ s.blocks[o][2] = b
            BY <3>1
      <4> QED BY <4>1 DEF Sound
    <3>3. a \in 1 .. Len(text) /\ a < k + 1 /\ text[a] = Begin(o)
          BY <1>0, <3>2 DEF IsBlock
    <3> QED BY <1>0, <1>3, <3>3 DEF Unambiguous
  <2>4. Read(s, line, k + 1) = [s EXCEPT !.continued = FALSE, !.open = o, !.from = k + 1]
        BY <1>0, <1>3, <2>1, <2>2, <2>3, ReadBegin
  <2> QED BY <2>4 DEF Knowledge
<1>4. ASSUME NEW o \in Ops, line = End(o) PROVE Read(s, line, k + 1).ok
  <2>1. ~s.continued
        BY <1>2, <1>4 DEF IsMarker, End
  <2>2. PICK q \in Ops, j \in 1 .. Len(text) :
           IsBlock(text, q, k + 1, j) \/ IsBlock(text, q, j, k + 1)
        BY <1>2, <1>4 DEF IsMarker, End
  <2>3. IsBlock(text, o, j, k + 1)
        BY <1>4, <2>2 DEF IsBlock, Begin, End
  <2>4. /\ j \in 1 .. k /\ text[j] = Begin(o)
        /\ \A i \in j + 1 .. k : ~IsMarker(text[i])
        BY <1>0, <2>3 DEF IsBlock
  <2>5. s.open = o
    <3> SUFFICES ASSUME s.blocks[o] # <<>>, j = s.blocks[o][1] PROVE FALSE
        BY <2>4 DEF Sound
    <3>1. PICK b \in Nat : s.blocks[o] = <<j, b>>
          BY DEF Knowledge
    <3>2. b <= k /\ IsBlock(text, o, j, b)
      <4>1. s.blocks[o][1] = j /\ s.blocks[o][2] = b
            BY <3>1
      <4> QED BY <4>1 DEF Sound
    <3>3. b \in j + 1 .. k /\ IsMarker(text[b])
          BY <1>0, <3>2 DEF IsBlock, IsMarker, End
    <3> QED BY <2>4, <3>3
  <2>6. Read(s, line, k + 1)
          = [s EXCEPT !.continued = FALSE, !.open = None,
                      !.blocks = [s.blocks EXCEPT ![o] = <<s.from, k + 1>>]]
        BY <1>0, <1>4, <2>1, <2>5, ReadEnd
  <2> QED BY <2>6 DEF Knowledge
<1>5. CASE line[1] = "marker"
  <2>1. PICK q \in Ops, j \in 1 .. Len(text) :
           IsBlock(text, q, k + 1, j) \/ IsBlock(text, q, j, k + 1)
        BY <1>2, <1>5 DEF IsMarker
  <2> QED BY <1>5, <2>1 DEF IsBlock, Begin, End
<1> QED BY <1>0, <1>1, <1>3, <1>4, <1>5, Kinds

LEMMA PassAccepts ==
    ASSUME NEW text \in Seq(Line), Unambiguous(text), NEW f, IsPass(f, text, Len(text))
    PROVE  \A k \in 0 .. Len(text) : f[k].ok
<1> DEFINE T == {k \in Nat : k <= Len(text) => f[k].ok}
<1>1. 0 \in T
      BY PassSteps, StartSound
<1>2. ASSUME NEW k \in Nat, k \in T PROVE k + 1 \in T
  <2> SUFFICES ASSUME k + 1 <= Len(text) PROVE f[k + 1].ok
      OBVIOUS
  <2>1. k \in 0 .. Len(text) - 1 /\ k \in 0 .. Len(text) /\ f[k].ok
        BY <1>2
  <2>2. f[k] \in Knowledge /\ Sound(f[k], text, k)
        BY <2>1, PassKnows
  <2>3. f[k + 1] = Read(f[k], text[k + 1], k + 1)
        BY <2>1, PassSteps
  <2> QED BY <2>1, <2>2, <2>3, UnambiguousStep
<1> HIDE DEF T
<1>3. \A k \in Nat : k \in T
      BY <1>1, <1>2, Induction
<1> QED BY <1>3 DEF T

\* A text the pass accepts to its end is unambiguous.
LEMMA SoundIsUnambiguous ==
    ASSUME NEW text \in Seq(Line), NEW s \in Knowledge, Sound(s, text, Len(text)), s.open = None
    PROVE  Unambiguous(text)
<1>0. Len(text) \in Nat
      OBVIOUS
<1>1. ASSUME NEW i \in 1 .. Len(text), IsMarker(text[i])
      PROVE  /\ i > 1 => ~Continued(text[i - 1])
             /\ \E o \in Ops, j \in 1 .. Len(text) : IsBlock(text, o, i, j) \/ IsBlock(text, o, j, i)
  <2>1. i > 1 => ~Continued(text[i - 1])
        BY <1>1 DEF Sound
  <2>2. PICK o \in Ops : s.blocks[o] # <<>> /\ (i = s.blocks[o][1] \/ i = s.blocks[o][2])
        BY <1>1 DEF Sound
  <2>3. PICK a \in Nat, b \in Nat : s.blocks[o] = <<a, b>>
        BY <2>2 DEF Knowledge
  <2>4. a = s.blocks[o][1] /\ b = s.blocks[o][2]
        BY <2>3
  <2>5. IsBlock(text, o, a, b) /\ (i = a \/ i = b)
        BY <2>2, <2>4 DEF Sound
  <2>6. a \in 1 .. Len(text) /\ b \in 1 .. Len(text)
        BY <1>0, <2>5 DEF IsBlock
  <2> QED BY <2>1, <2>5, <2>6
<1>2. \A o \in Ops, i, j \in 1 .. Len(text) : text[i] = Begin(o) /\ text[j] = Begin(o) => i = j
  <2> SUFFICES ASSUME NEW o \in Ops, NEW i \in 1 .. Len(text), text[i] = Begin(o)
               PROVE  i = s.blocks[o][1]
      OBVIOUS
  <2> QED BY AuthRulesAssumption DEF Sound
<1> QED BY <1>1, <1>2 DEF Unambiguous

\* What the pass finds in a text it accepts is where the blocks are.
FindsBlocks(text) ==
    \A o \in Ops :
        IF Pass(text).blocks[o] = <<>> THEN \A i \in 1 .. Len(text) : text[i] # Begin(o)
        ELSE IsBlock(text, o, Pass(text).blocks[o][1], Pass(text).blocks[o][2])

LEMMA PassReads ==
    ASSUME NEW text \in Seq(Line)
    PROVE  /\ Pass(text) \in Knowledge
           /\ Accepted(text) <=> Unambiguous(text)
           /\ Accepted(text) => FindsBlocks(text)
<1>0. Len(text) \in Nat /\ Len(text) \in 0 .. Len(text)
      OBVIOUS
<1>1. PICK f : IsPass(f, text, Len(text)) /\ Pass(text) = f[Len(text)]
      BY <1>0, PassIs
<1> DEFINE p == Pass(text)
<1>2. p \in Knowledge /\ (p.ok => Sound(p, text, Len(text)))
      BY <1>0, <1>1, PassKnows
<1>3. Accepted(text) <=> p.ok /\ p.open = None
      BY DEF Accepted
<1>4. Unambiguous(text) => p.ok
      BY <1>0, <1>1, PassAccepts
<1> HIDE DEF p
<1>5. ASSUME Unambiguous(text) PROVE p.open = None
  <2>1. p.open # None =>
          \E j \in Len(text) + 1 .. Len(text) :
              /\ text[j] = End(p.open)
              /\ \A i \in Len(text) + 1 .. j - 1 : ~IsMarker(text[i])
        BY <1>0, <1>2, <1>4, <1>5, OpenHasEnd
  <2> QED BY <1>0, <2>1
<1>6. Accepted(text) => Unambiguous(text)
      BY <1>2, <1>3, SoundIsUnambiguous
<1>7. ASSUME Accepted(text)
      PROVE  \A o \in Ops :
               /\ p.blocks[o] = <<>> => \A i \in 1 .. Len(text) : text[i] # Begin(o)
               /\ p.blocks[o] # <<>> => IsBlock(text, o, p.blocks[o][1], p.blocks[o][2])
      BY <1>2, <1>3, <1>7, AuthRulesAssumption DEF Sound
<1>8. Accepted(text) => FindsBlocks(text)
      BY <1>7 DEF FindsBlocks, p
<1> QED BY <1>2, <1>3, <1>4, <1>5, <1>6, <1>8 DEF p

\* For every text of any length: the one pass of _blocks accepts it just when
\* every marker in it has one reading, and finds the blocks where they are.
THEOREM PassReadsTrue == \A text \in Seq(Line) : ReadsTrue(text)
<1> SUFFICES ASSUME NEW text \in Seq(Line) PROVE ReadsTrue(text)
    OBVIOUS
<1>1. Accepted(text) <=> Pass(text).ok /\ Pass(text).open = None
      BY DEF Accepted
<1> QED BY <1>1, PassReads DEF ReadsTrue, FindsBlocks

-----------------------------------------------------------------------------
(* Proposals                                                               *)

LEMMA BlockLines ==
    ASSUME NEW o \in Ops
    PROVE  /\ Block(o) \in Seq(Line) /\ Len(Block(o)) = 3
           /\ Block(o)[1] = Begin(o) /\ Block(o)[2] = Rules(o) /\ Block(o)[3] = End(o)
           /\ ~IsMarker(Rules(o)) /\ IsMarker(Begin(o)) /\ IsMarker(End(o))
           /\ ~Continued(Rules(o)) /\ ~Continued(Begin(o)) /\ ~Continued(End(o))
<1>1. Begin(o) \in Line /\ Rules(o) \in Line /\ End(o) \in Line
      BY DEF Line, Begin, Rules, End
<1>2. /\ ~IsMarker(Rules(o)) /\ IsMarker(Begin(o)) /\ IsMarker(End(o))
      /\ ~Continued(Rules(o)) /\ ~Continued(Begin(o)) /\ ~Continued(End(o))
      BY DEF IsMarker, Continued, Begin, Rules, End
<1> QED BY <1>1, <1>2 DEF Block

\* The lines of a text that others are put before
Joined(a, text, new) ==
    /\ new \in Seq(Line) /\ Len(a) \in Nat /\ Len(text) \in Nat
    /\ Len(new) = Len(a) + Len(text)
    /\ \A i \in 1 .. Len(a) : new[i] = a[i]
    /\ \A i \in Len(a) + 1 .. Len(new) : i - Len(a) \in 1 .. Len(text) /\ new[i] = text[i - Len(a)]
    /\ \A i \in 1 .. Len(text) : new[i + Len(a)] = text[i]

LEMMA Joins ==
    ASSUME NEW a \in Seq(Line), NEW text \in Seq(Line)
    PROVE  Joined(a, text, a \o text)
<1>0. PICK m \in Nat, len \in Nat : m = Len(a) /\ len = Len(text)
      OBVIOUS
<1> DEFINE new == a \o text
<1>1. new \in Seq(Line) /\ Len(new) = m + len
      BY <1>0, ConcatProperties
<1>2. ASSUME NEW i \in 1 .. m + len
      PROVE  /\ i <= m => new[i] = a[i]
             /\ ~(i <= m) => new[i] = text[i - m]
      BY <1>0, ConcatProperties
<1> HIDE DEF new
<1>3. ASSUME NEW i \in 1 .. m PROVE new[i] = a[i]
      BY <1>2
<1>4. ASSUME NEW i \in m + 1 .. m + len PROVE i - m \in 1 .. len /\ new[i] = text[i - m]
  <2>1. i \in 1 .. m + len /\ ~(i <= m)
        OBVIOUS
  <2> QED BY <1>2, <2>1
<1>5. ASSUME NEW i \in 1 .. len PROVE new[i + m] = text[i]
  <2>1. PICK k \in 1 .. m + len : k = i + m
        OBVIOUS
  <2>2. ~(k <= m) /\ k - m = i
        BY <2>1
  <2>3. new[k] = text[k - m]
        BY <1>2, <2>2
  <2> QED BY <2>1, <2>2, <2>3
<1>6. Joined(a, text, new)
      BY <1>0, <1>1, <1>3, <1>4, <1>5 DEF Joined
<1> QED BY <1>6 DEF new

LEMMA JoinedIs ==
    ASSUME NEW a \in Seq(Line), NEW text \in Seq(Line), NEW new, Joined(a, text, new)
    PROVE  new = a \o text
<1>0. PICK t \in Seq(Line) : t = a \o text /\ Joined(a, text, t)
      BY Joins DEF Joined
<1>1. new \in Seq(Line) /\ Len(new) = Len(t)
      BY <1>0 DEF Joined
<1>2. ASSUME NEW i \in 1 .. Len(new) PROVE new[i] = t[i]
  <2>1. i \in 1 .. Len(a) \/ i \in Len(a) + 1 .. Len(new)
        BY DEF Joined
  <2> QED BY <1>0, <1>1, <2>1 DEF Joined
<1>3. new = t
      BY <1>1, <1>2, SeqEqual
<1> QED BY <1>0, <1>3

\* The blocks behind are where they were.
LEMMA BlocksBehind ==
    ASSUME NEW a \in Seq(Line), NEW text \in Seq(Line), NEW new, Joined(a, text, new), NEW q \in Ops
    PROVE  /\ \A i, j \in 1 .. Len(text) :
                IsBlock(text, q, i, j) => IsBlock(new, q, i + Len(a), j + Len(a))
           /\ \A i \in Len(a) + 1 .. Len(new), j \in Nat :
                IsBlock(new, q, i, j) => /\ j \in Len(a) + 1 .. Len(new)
                                         /\ IsBlock(text, q, i - Len(a), j - Len(a))
<1>0. PICK n \in Nat, len \in Nat : n = Len(a) /\ len = Len(text) /\ Len(new) = n + len
      BY DEF Joined
<1>1. \A i \in n + 1 .. n + len : i - n \in 1 .. len /\ new[i] = text[i - n]
      BY <1>0 DEF Joined
<1>2. \A i \in 1 .. len : new[i + n] = text[i]
      BY <1>0 DEF Joined
<1>3. ASSUME NEW i \in 1 .. len, NEW j \in 1 .. len, IsBlock(text, q, i, j)
      PROVE  IsBlock(new, q, i + n, j + n)
  <2>0. /\ j \in i + 1 .. len /\ text[i] = Begin(q) /\ text[j] = End(q)
        BY <1>0, <1>3 DEF IsBlock
  <2>1. /\ i + n \in 1 .. Len(new) /\ j + n \in i + n + 1 .. Len(new)
        /\ new[i + n] = Begin(q) /\ new[j + n] = End(q)
        BY <1>0, <1>2, <2>0
  <2>2. ASSUME NEW m \in i + n + 1 .. j + n - 1 PROVE ~IsMarker(new[m])
    <3>1. m \in n + 1 .. n + len /\ m - n \in i + 1 .. j - 1
          BY <2>0
    <3>2. new[m] = text[m - n]
          BY <1>1, <3>1
    <3>3. ~IsMarker(text[m - n])
          BY <1>3, <3>1 DEF IsBlock
    <3> QED BY <3>2, <3>3
  <2> QED BY <2>1, <2>2 DEF IsBlock
<1>4. ASSUME NEW i \in n + 1 .. n + len, NEW j \in Nat, IsBlock(new, q, i, j)
      PROVE  j \in n + 1 .. n + len /\ IsBlock(text, q, i - n, j - n)
  <2>1. /\ j \in i + 1 .. n + len /\ j \in n + 1 .. n + len
        /\ new[i] = Begin(q) /\ new[j] = End(q)
        BY <1>0, <1>4 DEF IsBlock
  <2>2. /\ i - n \in 1 .. len /\ j - n \in i - n + 1 .. len
        /\ text[i - n] = Begin(q) /\ text[j - n] = End(q)
    <3>1. i - n \in 1 .. len /\ j - n \in i - n + 1 .. len
          BY <2>1
    <3>2. new[i] = text[i - n] /\ new[j] = text[j - n]
          BY <1>1, <2>1
    <3> QED BY <2>1, <3>1, <3>2
  <2>3. ASSUME NEW m \in i - n + 1 .. j - n - 1 PROVE ~IsMarker(text[m])
    <3>1. m \in 1 .. len /\ m + n \in i + 1 .. j - 1
          BY <2>1, <2>2
    <3>2. new[m + n] = text[m]
          BY <1>2, <3>1
    <3>3. ~IsMarker(new[m + n])
          BY <1>4, <3>1 DEF IsBlock
    <3> QED BY <3>2, <3>3
  <2> QED BY <1>0, <2>1, <2>2, <2>3 DEF IsBlock
<1> QED BY <1>0, <1>3, <1>4

\* A text with a block in front
LEMMA InFront ==
    ASSUME NEW o \in Ops, NEW text \in Seq(Line), NEW new, Joined(Block(o), text, new)
    PROVE  /\ new \in Seq(Line) /\ Len(new) = Len(text) + 3 /\ Len(text) \in Nat
           /\ new[1] = Begin(o) /\ new[2] = Rules(o) /\ new[3] = End(o)
           /\ \A i \in 4 .. Len(new) : i - 3 \in 1 .. Len(text) /\ new[i] = text[i - 3]
<1>1. PICK b \in Seq(Line) : b = Block(o)
      BY BlockLines
<1>2. Len(b) = 3 /\ b[1] = Begin(o) /\ b[2] = Rules(o) /\ b[3] = End(o)
      BY <1>1, BlockLines
<1>3. PICK len \in Nat : len = Len(text)
      OBVIOUS
<1>4. Joined(b, text, new)
      BY <1>1
<1>5. /\ new \in Seq(Line) /\ Len(new) = 3 + len
      /\ \A i \in 1 .. 3 : new[i] = b[i]
      /\ \A i \in 3 + 1 .. 3 + len : i - 3 \in 1 .. len /\ new[i] = text[i - 3]
      BY <1>2, <1>3, <1>4 DEF Joined
<1>6. 1 \in 1 .. 3 /\ 2 \in 1 .. 3 /\ 3 \in 1 .. 3
      OBVIOUS
<1> QED BY <1>2, <1>3, <1>5, <1>6

LEMMA BlocksInFront ==
    ASSUME NEW o \in Ops, NEW text \in Seq(Line), NEW new, Joined(Block(o), text, new)
    PROVE  /\ IsBlock(new, o, 1, 3)
           /\ \A q \in Ops, i, j \in 1 .. Len(text) :
                IsBlock(text, q, i, j) => IsBlock(new, q, i + 3, j + 3)
<1>1. IsBlock(new, o, 1, 3)
  <2>1. /\ 1 \in 1 .. Len(new) /\ 3 \in 1 + 1 .. Len(new)
        /\ new[1] = Begin(o) /\ new[2] = Rules(o) /\ new[3] = End(o)
        BY InFront
  <2>2. PICK from \in Nat, to \in Nat : from = 1 /\ to = 3
        OBVIOUS
  <2>3. ASSUME NEW i \in from + 1 .. to - 1 PROVE ~IsMarker(new[i])
    <3>1. i = 2
          BY <2>2
    <3>2. ~IsMarker(Rules(o))
          BY BlockLines
    <3> QED BY <2>1, <3>1, <3>2
  <2>4. IsBlock(new, o, from, to)
        BY <2>1, <2>2, <2>3 DEF IsBlock
  <2> QED BY <2>2, <2>4
<1>2. PICK b \in Seq(Line) : b = Block(o) /\ Len(b) = 3
      BY BlockLines
<1>3. ASSUME NEW q \in Ops
      PROVE  \A i, j \in 1 .. Len(text) :
                IsBlock(text, q, i, j) => IsBlock(new, q, i + Len(b), j + Len(b))
  <2>1. Joined(b, text, new)
        BY <1>2
  <2> QED BY <2>1, BlocksBehind
<1> QED BY <1>1, <1>2, <1>3

LEMMA UnambiguousInFront ==
    ASSUME NEW o \in Ops, NEW text \in Seq(Line), Unambiguous(text),
           \A i \in 1 .. Len(text) : text[i] # Begin(o),
           NEW new, Joined(Block(o), text, new)
    PROVE  Unambiguous(new)
<1>0. \A i \in 4 .. Len(new) : i - 3 \in 1 .. Len(text) /\ new[i] = text[i - 3]
      BY InFront
<1>1. ASSUME NEW i \in 1 .. Len(new), IsMarker(new[i])
      PROVE  /\ i > 1 => ~Continued(new[i - 1])
             /\ \E q \in Ops, j \in 1 .. Len(new) : IsBlock(new, q, i, j) \/ IsBlock(new, q, j, i)
  <2>1. CASE i = 1 \/ i = 3
    <3>1. /\ 1 \in 1 .. Len(new) /\ 3 \in 1 .. Len(new)
          /\ ~Continued(new[2])
          BY InFront, BlockLines
    <3>2. i > 1 => ~Continued(new[i - 1])
      <4>1. i > 1 => i - 1 = 2
            BY <2>1
      <4> QED BY <3>1, <4>1
    <3>3. IsBlock(new, o, 1, 3)
          BY BlocksInFront
    <3> QED BY <2>1, <3>1, <3>2, <3>3
  <2>2. CASE i = 2
        BY <1>1, <2>2, InFront, BlockLines
  <2>3. CASE i \in 4 .. Len(new)
    <3>1. i - 3 \in 1 .. Len(text) /\ new[i] = text[i - 3]
          BY <2>3, InFront
    <3>2. PICK q \in Ops, j \in 1 .. Len(text) : IsBlock(text, q, i - 3, j) \/ IsBlock(text, q, j, i - 3)
          BY <1>1, <3>1 DEF Unambiguous
    <3>3. j + 3 \in 1 .. Len(new) /\ (i - 3) + 3 = i
          BY <2>3, InFront
    <3>4. IsBlock(new, q, i, j + 3) \/ IsBlock(new, q, j + 3, i)
          BY <3>1, <3>2, <3>3, BlocksInFront
    <3>5. ~Continued(new[i - 1])
      <4>1. CASE i = 4
            BY <4>1, InFront, BlockLines
      <4>2. CASE i # 4
        <5>1. /\ i - 1 \in 4 .. Len(new) /\ (i - 1) - 3 = (i - 3) - 1 /\ i - 3 > 1
              BY <2>3, <4>2, InFront
        <5>2. new[i - 1] = text[(i - 3) - 1]
          <6>1. PICK m \in 4 .. Len(new) : m = i - 1
                BY <5>1
          <6>2. new[m] = text[m - 3]
                BY <1>0
          <6> QED BY <5>1, <6>1, <6>2
        <5>3. ~Continued(text[(i - 3) - 1])
              BY <1>1, <3>1, <5>1 DEF Unambiguous
        <5> QED BY <5>2, <5>3
      <4> QED BY <4>1, <4>2
    <3> QED BY <3>3, <3>4, <3>5
  <2> QED BY <2>1, <2>2, <2>3, InFront
<1>2. ASSUME NEW q \in Ops, NEW i \in 1 .. Len(new), NEW j \in 1 .. Len(new),
             new[i] = Begin(q), new[j] = Begin(q)
      PROVE  i = j
  <2>0. Begin(q) # Rules(o) /\ Begin(q) # End(o) /\ (Begin(q) = Begin(o) => q = o)
        BY DEF Begin, Rules, End
  <2>1. (i = 1 \/ i \in 4 .. Len(new)) /\ (j = 1 \/ j \in 4 .. Len(new))
    <3>1. new[2] = Rules(o) /\ new[3] = End(o) /\ Len(new) \in Nat
          BY InFront
    <3>2. i \notin {2, 3} /\ j \notin {2, 3}
          BY <1>2, <2>0, <3>1
    <3> QED BY <3>1, <3>2
  <2>2. ASSUME NEW m \in 4 .. Len(new), new[m] = Begin(q) PROVE q # o
    <3>1. m - 3 \in 1 .. Len(text) /\ new[m] = text[m - 3]
          BY <1>0
    <3> QED BY <2>2, <3>1
  <2>3. new[1] = Begin(q) => q = o
        BY <2>0, InFront
  <2>4. CASE i \in 4 .. Len(new) /\ j \in 4 .. Len(new)
    <3>1. i - 3 \in 1 .. Len(text) /\ j - 3 \in 1 .. Len(text)
          BY <2>4, InFront
    <3>2. text[i - 3] = Begin(q) /\ text[j - 3] = Begin(q)
          BY <1>0, <1>2, <2>4
    <3>3. i - 3 = j - 3
          BY <3>1, <3>2 DEF Unambiguous
    <3> QED BY <2>4, <3>3
  <2> QED BY <1>2, <2>1, <2>2, <2>3, <2>4
<1> QED BY <1>1, <1>2 DEF Unambiguous

\* A block that stands first can be taken away.
LEMMA UnambiguousBehind ==
    ASSUME NEW o \in Ops, NEW a \in Seq(Line), NEW text \in Seq(Line), NEW new, Joined(a, text, new),
           Unambiguous(new), IsBlock(new, o, 1, Len(a))
    PROVE  /\ Unambiguous(text)
           /\ \A i \in 1 .. Len(text) : text[i] # Begin(o)
<1>0. PICK n \in Nat, len \in Nat : n = Len(a) /\ len = Len(text) /\ Len(new) = n + len
      BY DEF Joined
<1>1. \A i \in 1 .. len : new[i + n] = text[i]
      BY <1>0 DEF Joined
<1>2. n >= 2 /\ new[1] = Begin(o) /\ new[n] = End(o) /\ \A i \in 2 .. n - 1 : ~IsMarker(new[i])
      BY <1>0 DEF IsBlock
<1>3. ASSUME NEW i \in 1 .. len, IsMarker(text[i])
      PROVE  /\ i > 1 => ~Continued(text[i - 1])
             /\ \E q \in Ops, j \in 1 .. len : IsBlock(text, q, i, j) \/ IsBlock(text, q, j, i)
  <2>1. i + n \in 1 .. Len(new) /\ IsMarker(new[i + n])
        BY <1>0, <1>1, <1>3
  <2>2. ~Continued(new[i + n - 1])
        BY <1>2, <2>1 DEF Unambiguous
  <2>3. i > 1 => ~Continued(text[i - 1])
    <3> SUFFICES ASSUME i > 1 PROVE ~Continued(text[i - 1])
        OBVIOUS
    <3>1. PICK m \in 1 .. len : m = i - 1
          OBVIOUS
    <3>2. new[m + n] = text[m]
          BY <1>1
    <3>3. m + n = i + n - 1
          BY <3>1
    <3> QED BY <2>2, <3>1, <3>2, <3>3
  <2>4. PICK q \in Ops, j \in 1 .. Len(new) :
           IsBlock(new, q, i + n, j) \/ IsBlock(new, q, j, i + n)
        BY <2>1 DEF Unambiguous
  <2>5. CASE IsBlock(new, q, i + n, j)
    <3>1. i + n \in n + 1 .. Len(new) /\ j \in Nat
          BY <1>0
    <3>2. j \in n + 1 .. Len(new) /\ IsBlock(text, q, (i + n) - n, j - n)
          BY <1>0, <2>5, <3>1, BlocksBehind
    <3>3. (i + n) - n = i /\ j - n \in 1 .. len
          BY <1>0, <3>2
    <3> QED BY <2>3, <3>2, <3>3
  <2>6. CASE IsBlock(new, q, j, i + n)
    <3>1. /\ j \in 1 .. i + n - 1 /\ new[j] = Begin(q)
          /\ \A m \in j + 1 .. i + n - 1 : ~IsMarker(new[m])
          BY <2>6 DEF IsBlock
    <3>2. IsMarker(new[n]) /\ IsMarker(new[j]) /\ new[n] # Begin(q)
          BY <1>2, <3>1 DEF IsMarker, Begin, End
    <3>3. j \in n + 1 .. Len(new)
      <4>1. ~(j < n)
        <5> SUFFICES ASSUME j < n PROVE FALSE
            OBVIOUS
        <5>1. n \in j + 1 .. i + n - 1
              BY <3>1
        <5> QED BY <3>1, <3>2, <5>1
      <4>2. j # n
            BY <3>1, <3>2
      <4> QED BY <1>0, <4>1, <4>2
    <3>4. IsBlock(text, q, j - n, (i + n) - n)
      <4>1. \A b \in n + 1 .. Len(new), c \in Nat :
              IsBlock(new, q, b, c) => IsBlock(text, q, b - n, c - n)
            BY <1>0, BlocksBehind
      <4> QED BY <2>6, <3>3, <4>1
    <3>5. (i + n) - n = i /\ j - n \in 1 .. len
          BY <1>0, <3>3
    <3> QED BY <2>3, <3>4, <3>5
  <2> QED BY <2>4, <2>5, <2>6
<1>4. ASSUME NEW q \in Ops, NEW i \in 1 .. len, NEW j \in 1 .. len,
             text[i] = Begin(q), text[j] = Begin(q)
      PROVE  i = j
  <2>1. i + n \in 1 .. Len(new) /\ j + n \in 1 .. Len(new)
        BY <1>0
  <2>2. new[i + n] = Begin(q) /\ new[j + n] = Begin(q)
        BY <1>1, <1>4
  <2>3. i + n = j + n
        BY <2>1, <2>2 DEF Unambiguous
  <2> QED BY <2>3
<1>5. ASSUME NEW i \in 1 .. len, text[i] = Begin(o) PROVE FALSE
  <2>1. i + n \in 1 .. Len(new) /\ 1 \in 1 .. Len(new)
        BY <1>0, <1>2
  <2>2. new[i + n] = Begin(o)
        BY <1>1, <1>5
  <2>3. i + n = 1
        BY <1>2, <2>1, <2>2 DEF Unambiguous
  <2> QED BY <1>2, <2>3
<1> QED BY <1>0, <1>3, <1>4, <1>5 DEF Unambiguous

\* The pass finds what is there.
LEMMA Found ==
    ASSUME NEW text \in Seq(Line), Unambiguous(text), NEW q \in Ops,
           NEW i \in Nat, NEW j \in Nat, IsBlock(text, q, i, j)
    PROVE  /\ Pass(text).blocks[q] # <<>>
           /\ Pass(text).blocks[q][1] = i /\ Pass(text).blocks[q][2] = j
           /\ OwnedBlock(text, q) = SubSeq(text, i, j)
<1>1. FindsBlocks(text) /\ Pass(text) \in Knowledge
      BY PassReads
<1>2. i \in 1 .. Len(text) /\ j \in i + 1 .. Len(text) /\ text[i] = Begin(q) /\ text[j] = End(q)
      BY DEF IsBlock
<1>3. Pass(text).blocks[q] # <<>>
      BY <1>1, <1>2 DEF FindsBlocks
<1>4. PICK a \in Nat, b \in Nat : Pass(text).blocks[q] = <<a, b>>
      BY <1>1, <1>3 DEF Knowledge
<1>5. Pass(text).blocks[q][1] = a /\ Pass(text).blocks[q][2] = b
      BY <1>4
<1>6. IsBlock(text, q, a, b)
      BY <1>1, <1>3, <1>5 DEF FindsBlocks
<1>7. a \in 1 .. Len(text) /\ b \in a + 1 .. Len(text) /\ text[a] = Begin(q) /\ text[b] = End(q)
      BY <1>6 DEF IsBlock
<1>8. a = i
      BY <1>2, <1>7 DEF Unambiguous
<1>9. b = j
  <2>1. IsMarker(text[b]) /\ IsMarker(text[j])
        BY <1>2, <1>7 DEF IsMarker, End
  <2>2. ~(b < j)
    <3> SUFFICES ASSUME b < j PROVE FALSE
        OBVIOUS
    <3>1. b \in i + 1 .. j - 1
          BY <1>2, <1>7, <1>8
    <3> QED BY <2>1, <3>1 DEF IsBlock
  <2>3. ~(j < b)
    <3> SUFFICES ASSUME j < b PROVE FALSE
        OBVIOUS
    <3>1. j \in a + 1 .. b - 1
          BY <1>2, <1>7, <1>8
    <3> QED BY <1>6, <2>1, <3>1 DEF IsBlock
  <2> QED BY <1>2, <1>7, <2>2, <2>3
<1> QED BY <1>3, <1>5, <1>8, <1>9 DEF OwnedBlock

LEMMA AllFound ==
    ASSUME NEW text \in Seq(Line), Unambiguous(text), NEW q \in Ops
    PROVE  \A i, j \in Nat : IsBlock(text, q, i, j) => OwnedBlock(text, q) = SubSeq(text, i, j)
<1> SUFFICES ASSUME NEW i \in Nat, NEW j \in Nat, IsBlock(text, q, i, j)
             PROVE  OwnedBlock(text, q) = SubSeq(text, i, j)
    OBVIOUS
<1> QED BY Found

LEMMA NotFound ==
    ASSUME NEW text \in Seq(Line), Unambiguous(text), NEW q \in Ops,
           \A i \in 1 .. Len(text) : text[i] # Begin(q)
    PROVE  Pass(text).blocks[q] = <<>> /\ OwnedBlock(text, q) = <<>>
<1>1. FindsBlocks(text)
      BY PassReads
<1>2. Pass(text).blocks[q] = <<>>
      BY <1>1 DEF FindsBlocks, IsBlock
<1> QED BY <1>2 DEF OwnedBlock

\* A block can be found behind others as it could alone.
LEMMA OwnedBehind ==
    ASSUME NEW a \in Seq(Line), NEW text \in Seq(Line), NEW new, Joined(a, text, new),
           Unambiguous(new), Unambiguous(text), NEW q \in Ops,
           \A i \in 1 .. Len(a) : a[i] # Begin(q)
    PROVE  OwnedBlock(new, q) = OwnedBlock(text, q)
<1>0. PICK n \in Nat, len \in Nat :
        n = Len(a) /\ len = Len(text) /\ Len(new) = n + len /\ new \in Seq(Line)
      BY DEF Joined
<1>1. CASE \E i \in 1 .. len : text[i] = Begin(q)
  <2>1. PICK i \in 1 .. len : text[i] = Begin(q)
        BY <1>1
  <2>2. IsMarker(text[i]) /\ \A p \in Ops : text[i] # End(p) /\ (text[i] = Begin(p) => p = q)
        BY <2>1 DEF IsMarker, Begin, End
  <2>3. PICK p \in Ops, j \in 1 .. len : IsBlock(text, p, i, j) \/ IsBlock(text, p, j, i)
        BY <1>0, <2>2 DEF Unambiguous
  <2>4. IsBlock(text, q, i, j)
        BY <2>2, <2>3 DEF IsBlock
  <2>5. IsBlock(new, q, i + n, j + n)
        BY <1>0, <2>4, BlocksBehind
  <2>6. OwnedBlock(text, q) = SubSeq(text, i, j)
        BY <2>4, AllFound
  <2>7. OwnedBlock(new, q) = SubSeq(new, i + n, j + n)
    <3>1. PICK k \in Nat, l \in Nat : k = i + n /\ l = j + n
          OBVIOUS
    <3>2. IsBlock(new, q, k, l)
          BY <2>5, <3>1
    <3>3. OwnedBlock(new, q) = SubSeq(new, k, l)
          BY <1>0, <3>2, AllFound
    <3> QED BY <3>1, <3>3
  <2>8. SubSeq(new, i + n, j + n) = SubSeq(text, i, j)
    <3>1. /\ i + n \in n + 1 .. n + len /\ j + n \in n + 1 .. n + len
          /\ (i + n) - n = i /\ (j + n) - n = j
          OBVIOUS
    <3>2. SubSeq(a \o text, i + n, j + n) = SubSeq(text, (i + n) - n, (j + n) - n)
          BY <1>0, <3>1, SubSeqOfConcat2
    <3>3. new = a \o text
          BY JoinedIs
    <3> QED BY <3>1, <3>2, <3>3
  <2> QED BY <2>6, <2>7, <2>8
<1>2. CASE \A i \in 1 .. len : text[i] # Begin(q)
  <2>1. \A i \in 1 .. n : new[i] # Begin(q)
        BY <1>0 DEF Joined
  <2>2. ASSUME NEW i \in n + 1 .. n + len PROVE new[i] # Begin(q)
    <3>1. i - n \in 1 .. len /\ new[i] = text[i - n]
          BY <1>0 DEF Joined
    <3> QED BY <1>2, <3>1
  <2>3. \A i \in 1 .. Len(new) : new[i] # Begin(q)
        BY <1>0, <2>1, <2>2
  <2>4. OwnedBlock(new, q) = <<>>
        BY <1>0, <2>3, NotFound
  <2>5. OwnedBlock(text, q) = <<>>
        BY <1>0, <1>2, NotFound
  <2> QED BY <2>4, <2>5
<1> QED BY <1>1, <1>2

LEMMA AllOwnedBehind ==
    ASSUME NEW a \in Seq(Line), NEW text \in Seq(Line), NEW new, Joined(a, text, new),
           Unambiguous(new), Unambiguous(text)
    PROVE  \A q \in Ops : (\A i \in 1 .. Len(a) : a[i] # Begin(q)) =>
                              OwnedBlock(new, q) = OwnedBlock(text, q)
<1> SUFFICES ASSUME NEW q \in Ops, \A i \in 1 .. Len(a) : a[i] # Begin(q)
             PROVE  OwnedBlock(new, q) = OwnedBlock(text, q)
    OBVIOUS
<1> QED BY OwnedBehind

LEMMA FoundFirst ==
    ASSUME NEW new \in Seq(Line), NEW o \in Ops, Unambiguous(new), IsBlock(new, o, 1, 3)
    PROVE  /\ Pass(new).blocks[o] # <<>> /\ Pass(new).blocks[o][1] = 1 /\ Pass(new).blocks[o][2] = 3
           /\ OwnedBlock(new, o) = SubSeq(new, 1, 3)
<1>1. PICK i \in Nat, j \in Nat : i = 1 /\ j = 3
      OBVIOUS
<1>2. IsBlock(new, o, i, j)
      BY <1>1
<1>3. /\ Pass(new).blocks[o] # <<>> /\ Pass(new).blocks[o][1] = i /\ Pass(new).blocks[o][2] = j
      /\ OwnedBlock(new, o) = SubSeq(new, i, j)
      BY <1>2, Found
<1> QED BY <1>1, <1>3

\* A block put in front of a text that has none of its owner can be read again,
\* and so can what was there.
LEMMA PutInFront ==
    ASSUME NEW o \in Ops, NEW text \in Seq(Line), Unambiguous(text),
           \A i \in 1 .. Len(text) : text[i] # Begin(o),
           NEW new, Joined(Block(o), text, new)
    PROVE  /\ Accepted(new) /\ MayPropose(new, o)
           /\ OwnedBlock(new, o) = Block(o)
           /\ Propose(new, o) = new
           /\ \A q \in Ops \ {o} : OwnedBlock(new, q) = OwnedBlock(text, q)
<1>0. PICK b \in Seq(Line) : b = Block(o) /\ Len(b) = 3
      BY BlockLines
<1>1. /\ new \in Seq(Line) /\ Len(new) = 3 + Len(text) /\ Len(text) \in Nat
      /\ Joined(b, text, new)
  <2>1. new \in Seq(Line) /\ Len(new) = Len(text) + 3 /\ Len(text) \in Nat
        BY InFront
  <2>2. Joined(b, text, new)
        BY <1>0
  <2> QED BY <2>1, <2>2
<1>2. Unambiguous(new)
      BY UnambiguousInFront
<1>3. Accepted(new)
      BY <1>1, <1>2, PassReads
<1>4. /\ Pass(new).blocks[o] # <<>> /\ Pass(new).blocks[o][1] = 1 /\ Pass(new).blocks[o][2] = 3
      /\ OwnedBlock(new, o) = SubSeq(new, 1, 3)
  <2>1. IsBlock(new, o, 1, 3)
        BY BlocksInFront
  <2>2. new \in Seq(Line) /\ 1 \in Nat /\ 3 \in Nat
        BY <1>1
  <2> QED BY <1>2, <2>1, <2>2, FoundFirst
<1>5. MayPropose(new, o)
      BY <1>3, <1>4 DEF MayPropose
<1>6. SubSeq(new, 1, 3) = b
  <2>1. SubSeq(b \o text, 1, 3) = SubSeq(b, 1, 3)
    <3>1. 1 \in 1 .. Len(b) /\ 3 \in 1 .. Len(b)
          BY <1>0
    <3> QED BY <3>1, SubSeqOfConcat1
  <2>2. SubSeq(b, 1, 3) = b
        BY <1>0, SubSeqFull
  <2>3. new = b \o text
        BY <1>1, JoinedIs
  <2> QED BY <2>1, <2>2, <2>3
<1>7. Propose(new, o) = new
  <2>1. Propose(new, o) = b \o SubSeq(new, 3 + 1, Len(new))
        BY <1>0, <1>4 DEF Propose
  <2>2. SubSeq(new, 1, 3) \o SubSeq(new, 3 + 1, Len(new)) = SubSeq(new, 1, Len(new))
    <3>1. 1 \in 1 .. Len(new) + 1 /\ 3 \in 1 - 1 .. Len(new) /\ Len(new) \in 3 .. Len(new)
          BY <1>1
    <3> QED BY <1>1, <3>1, ConcatAdjacentSubSeq
  <2>3. SubSeq(new, 1, Len(new)) = new
        BY <1>1, SubSeqFull
  <2> QED BY <1>6, <2>1, <2>2, <2>3
<1>8. ASSUME NEW q \in Ops \ {o} PROVE OwnedBlock(new, q) = OwnedBlock(text, q)
  <2>1. \A i \in 1 .. 3 : i = 1 \/ i = 2 \/ i = 3
        OBVIOUS
  <2>2. b[1] # Begin(q) /\ b[2] # Begin(q) /\ b[3] # Begin(q)
    <3>1. b[1] = Begin(o) /\ b[2] = Rules(o) /\ b[3] = End(o)
          BY <1>0, BlockLines
    <3>2. Begin(o) # Begin(q) /\ Rules(o) # Begin(q) /\ End(o) # Begin(q)
          BY DEF Begin, Rules, End
    <3> QED BY <3>1, <3>2
  <2>3. \A i \in 1 .. Len(b) : b[i] # Begin(q)
        BY <1>0, <2>1, <2>2
  <2>4. \A p \in Ops : (\A i \in 1 .. Len(b) : b[i] # Begin(p)) =>
                          OwnedBlock(new, p) = OwnedBlock(text, p)
        BY <1>1, <1>2, AllOwnedBehind
  <2> QED BY <2>3, <2>4
<1> QED BY <1>0, <1>3, <1>4, <1>5, <1>6, <1>7, <1>8

\* For every text: what propose_config makes of it can be read again, has the
\* owner's rules first and is otherwise that text, other owners' blocks included;
\* proposing again changes nothing.
THEOREM ProposalsTrue ==
    \A o \in Ops, text \in Seq(Line) : MayPropose(text, o) => ProposesTrue(text, o)
<1> SUFFICES ASSUME NEW o \in Ops, NEW text \in Seq(Line), MayPropose(text, o)
             PROVE  ProposesTrue(text, o)
    OBVIOUS
<1>0. PICK len \in Nat : len = Len(text)
      OBVIOUS
<1>1. Unambiguous(text) /\ FindsBlocks(text) /\ Pass(text) \in Knowledge
      BY PassReads DEF MayPropose
<1>2. CASE Pass(text).blocks[o] = <<>>
  <2>1. \A i \in 1 .. Len(text) : text[i] # Begin(o)
        BY <1>1, <1>2 DEF FindsBlocks
  <2>2. Propose(text, o) = Block(o) \o text /\ OwnedBlock(text, o) = <<>>
        BY <1>2 DEF Propose, OwnedBlock
  <2>3. SubSeq(text, Len(OwnedBlock(text, o)) + 1, Len(text)) = text
        BY <2>2, SubSeqFull
  <2>4. /\ Accepted(Propose(text, o)) /\ MayPropose(Propose(text, o), o)
        /\ OwnedBlock(Propose(text, o), o) = Block(o)
        /\ Propose(Propose(text, o), o) = Propose(text, o)
        /\ \A q \in Ops \ {o} : OwnedBlock(Propose(text, o), q) = OwnedBlock(text, q)
    <3>1. Joined(Block(o), text, Propose(text, o))
          BY <2>2, Joins, BlockLines
    <3> QED BY <1>1, <2>1, <3>1, PutInFront
  <2> QED BY <2>2, <2>3, <2>4 DEF ProposesTrue
<1>3. CASE Pass(text).blocks[o] # <<>>
  <2>1. PICK m \in Nat, n \in Nat : Pass(text).blocks[o] = <<m, n>>
        BY <1>1, <1>3 DEF Knowledge
  <2>2. Pass(text).blocks[o][1] = m /\ Pass(text).blocks[o][2] = n
        BY <2>1
  <2>3. m = 1 /\ IsBlock(text, o, 1, n)
        BY <1>1, <1>3, <2>2 DEF FindsBlocks, MayPropose
  <2>4. n \in 2 .. len
        BY <1>0, <2>3 DEF IsBlock
  <2>5. PICK a \in Seq(Line), rest \in Seq(Line) :
           /\ a = SubSeq(text, 1, n) /\ rest = SubSeq(text, n + 1, Len(text))
           /\ Len(a) = n /\ text = a \o rest
           /\ \A i \in 1 .. n : a[i] = text[i]
    <3> DEFINE a == SubSeq(text, 1, n)
               rest == SubSeq(text, n + 1, Len(text))
    <3>1. \A i \in 1 .. n : text[i] \in Line
          BY <1>0, <2>4, ElementOfSeq
    <3>2. /\ a \in Seq(Line) /\ Len(a) = n /\ \A i \in 1 .. n - 1 + 1 : a[i] = text[1 + i - 1]
          BY <2>4, <3>1, SubSeqProperties
    <3>3. \A i \in n + 1 .. Len(text) : text[i] \in Line
          BY <1>0, <2>4, ElementOfSeq
    <3>4. rest \in Seq(Line)
          BY <1>0, <2>4, <3>3, SubSeqProperties
    <3>5. a \o rest = SubSeq(text, 1, Len(text))
      <4>1. 1 \in 1 .. Len(text) + 1 /\ n \in 1 - 1 .. Len(text) /\ Len(text) \in n .. Len(text)
            BY <1>0, <2>4
      <4> QED BY <4>1, ConcatAdjacentSubSeq
    <3>6. text = a \o rest
          BY <3>5, SubSeqFull
    <3>7. ASSUME NEW i \in 1 .. n PROVE a[i] = text[i]
          BY <3>2
    <3> QED BY <3>2, <3>4, <3>6, <3>7
  <2>6. Propose(text, o) = Block(o) \o rest /\ OwnedBlock(text, o) = a
    <3>1. Propose(text, o) = Block(o) \o SubSeq(text, n + 1, Len(text))
          BY <1>3, <2>2 DEF Propose
    <3>2. OwnedBlock(text, o) = SubSeq(text, 1, n)
          BY <1>3, <2>2, <2>3 DEF OwnedBlock
    <3> QED BY <2>5, <3>1, <3>2
  <2>7. IsBlock(text, o, 1, Len(a))
        BY <2>3, <2>5
  <2>0. Joined(a, rest, text)
        BY <2>5, Joins
  <2>8. Unambiguous(rest) /\ \A i \in 1 .. Len(rest) : rest[i] # Begin(o)
        BY <1>1, <2>0, <2>7, UnambiguousBehind
  <2>9. ASSUME NEW q \in Ops \ {o} PROVE OwnedBlock(text, q) = OwnedBlock(rest, q)
    <3>1. ASSUME NEW i \in 1 .. n PROVE a[i] # Begin(q)
      <4>0. a[i] = text[i] /\ text[1] = Begin(o) /\ text[n] = End(o)
            BY <2>3, <2>5 DEF IsBlock
      <4>1. CASE i = 1
            BY <4>0, <4>1 DEF Begin
      <4>2. CASE i = n
            BY <4>0, <4>2 DEF Begin, End
      <4>3. CASE i \in 2 .. n - 1
        <5>1. ~IsMarker(text[i])
              BY <2>3, <4>3 DEF IsBlock
        <5>2. IsMarker(Begin(q))
              BY DEF IsMarker, Begin
        <5>3. a[i] = text[i]
              BY <2>5
        <5> QED BY <5>1, <5>2, <5>3
      <4> QED BY <2>4, <4>1, <4>2, <4>3
    <3>2. \A i \in 1 .. Len(a) : a[i] # Begin(q)
          BY <2>5, <3>1
    <3>3. \A p \in Ops : (\A i \in 1 .. Len(a) : a[i] # Begin(p)) =>
                            OwnedBlock(text, p) = OwnedBlock(rest, p)
          BY <1>1, <2>0, <2>8, AllOwnedBehind
    <3> QED BY <3>2, <3>3
  <2>10. rest = SubSeq(text, Len(OwnedBlock(text, o)) + 1, Len(text))
        BY <2>5, <2>6
  <2>11. /\ Accepted(Propose(text, o)) /\ MayPropose(Propose(text, o), o)
         /\ OwnedBlock(Propose(text, o), o) = Block(o)
         /\ Propose(Propose(text, o), o) = Propose(text, o)
         /\ \A q \in Ops \ {o} : OwnedBlock(Propose(text, o), q) = OwnedBlock(rest, q)
    <3>1. Joined(Block(o), rest, Propose(text, o))
          BY <2>6, Joins, BlockLines
    <3> QED BY <2>8, <3>1, PutInFront
  <2> QED BY <2>6, <2>9, <2>10, <2>11 DEF ProposesTrue
<1> QED BY <1>2, <1>3
=============================================================================
