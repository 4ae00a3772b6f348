---------------------------- MODULE PulseIdsProofs ----------------------------
(***************************************************************************)
(* Theorems about PulseIds, for all ranges, rates and entries.  What its   *)
(* two loops compute is shown by induction, which rests on the least       *)
(* element of a set of naturals.                                           *)
(***************************************************************************)
EXTENDS PulseIds, FiniteSetTheorems, WellFoundedInduction, TLAPS

-----------------------------------------------------------------------------
(* Induction.                                                               *)

LEMMA LeastNat ==
  ASSUME NEW T \in SUBSET Nat, T # {}
  PROVE  \E m \in T : \A t \in T : m =< t
<1>1. PICK R : R = {ss \in Nat \X Nat : ss[1] < ss[2]}
  OBVIOUS
<1>2. R = OpToRel(<, Nat)
  BY <1>1 DEF OpToRel
<1>3. IsWellFoundedOn(R, Nat)
  BY <1>2, NatLessThanWellFounded
<1>4. PICK m \in T : \A t \in T : ~(<<t, m>> \in R)
  BY <1>3, WFMin
<1>5. ASSUME NEW t \in T PROVE m =< t
  <2>1. t \in Nat /\ m \in Nat
    OBVIOUS
  <2>2. CASE t < m
    <3>1. <<t, m>> \in Nat \X Nat /\ <<t, m>>[1] < <<t, m>>[2]
      BY <2>1, <2>2
    <3>2. <<t, m>> \in R
      BY <1>1, <3>1
    <3> QED
      BY <1>4, <3>2
  <2> QED
    BY <2>1, <2>2
<1> QED
  BY <1>4, <1>5

(* Induction over the naturals, for a set in place of a predicate.          *)
LEMMA AllNat ==
  ASSUME NEW T, 0 \in T, \A n \in Nat : n \in T => n + 1 \in T
  PROVE  \A n \in Nat : n \in T
<1>1. SUFFICES ASSUME Nat \ T # {} PROVE FALSE
  OBVIOUS
<1>2. PICK m \in Nat \ T : \A t \in Nat \ T : m =< t
  BY <1>1, LeastNat
<1>3. m # 0 /\ m \in Nat /\ m \notin T
  BY <1>2
<1>4. m - 1 \in Nat /\ ~(m =< m - 1) /\ (m - 1) + 1 = m
  BY <1>3
<1>5. m - 1 \in T
  BY <1>2, <1>4
<1> QED
  BY <1>3, <1>4, <1>5

-----------------------------------------------------------------------------
(* What a loop keeps.                                                       *)

Keeps(f, s, good, n) ==
  f = [i \in 0..n |->
         IF i = 0 THEN <<>>
         ELSE IF s[i] \in good THEN Append(f[i - 1], s[i])
         ELSE f[i - 1]]

(* There is such a function: the loop ends, however long s is.              *)
LEMMA KeepsExists ==
  ASSUME NEW s, NEW good
  PROVE  \A n \in Nat : \E f : Keeps(f, s, good, n)
<1> DEFINE T == {n \in Nat : \E f : Keeps(f, s, good, n)}
<1>1. 0 \in T
  <2>1. Keeps([i \in 0..0 |-> <<>>], s, good, 0)
    BY DEF Keeps
  <2> QED
    BY <2>1
<1>2. ASSUME NEW n \in Nat, n \in T PROVE n + 1 \in T
  <2>1. PICK f : Keeps(f, s, good, n)
    BY <1>2
  <2>2. PICK g : g = [i \in 0..(n + 1) |->
                        IF i \in 0..n THEN f[i]
                        ELSE IF s[i] \in good THEN Append(f[i - 1], s[i])
                        ELSE f[i - 1]]
    OBVIOUS
  <2>3. ASSUME NEW i \in 0..(n + 1)
        PROVE  g[i] = IF i = 0 THEN <<>>
                      ELSE IF s[i] \in good THEN Append(g[i - 1], s[i])
                      ELSE g[i - 1]
    <3>1. CASE i = 0
      BY <2>1, <2>2, <3>1 DEF Keeps
    <3>2. CASE i # 0
      <4>1. i - 1 \in 0..n /\ i - 1 \in 0..(n + 1)
        BY <3>2
      <4>2. g[i - 1] = f[i - 1]
        BY <2>2, <4>1
      <4>3. CASE i \in 0..n
        <5>1. g[i] = f[i]
          BY <2>2, <4>3
        <5>2. f[i] = IF s[i] \in good THEN Append(f[i - 1], s[i]) ELSE f[i - 1]
          BY <2>1, <3>2, <4>3 DEF Keeps
        <5> QED
          BY <3>2, <4>2, <5>1, <5>2
      <4>4. CASE i \notin 0..n
        <5>1. g[i] = IF s[i] \in good THEN Append(f[i - 1], s[i]) ELSE f[i - 1]
          BY <2>2, <4>4
        <5> QED
          BY <3>2, <4>2, <5>1
      <4> QED
        BY <4>3, <4>4
    <3> QED
      BY <3>1, <3>2
  <2>4. Keeps(g, s, good, n + 1)
    BY <2>2, <2>3 DEF Keeps
  <2> QED
    BY <2>4
<1> HIDE DEF T
<1>3. \A n \in Nat : n \in T
  BY <1>1, <1>2, AllNat
<1> QED
  BY <1>3 DEF T

(* The places of s at which k has what s has there, in the same order.      *)
Places(k, s, good, n, h) ==
  /\ k \in Seq({s[i] : i \in 1..n})
  /\ h \in [1..Len(k) -> 1..n]
  /\ \A i, j \in 1..Len(k) : i < j => h[i] < h[j]
  /\ \A i \in 1..Len(k) : k[i] = s[h[i]] /\ s[h[i]] \in good
  /\ \A m \in 1..n : s[m] \in good => \E i \in 1..Len(k) : h[i] = m

LEMMA PlacesStep ==
  ASSUME NEW s, NEW good, NEW n \in Nat, NEW k, NEW h, Places(k, s, good, n, h)
  PROVE  \E g : Places(IF s[n + 1] \in good THEN Append(k, s[n + 1]) ELSE k,
                       s, good, n + 1, g)
<1>1. 1..n \subseteq 1..(n + 1) /\ n + 1 \in 1..(n + 1)
  OBVIOUS
<1>2. {s[i] : i \in 1..n} \subseteq {s[i] : i \in 1..(n + 1)}
  BY <1>1
<1>3. k \in Seq({s[i] : i \in 1..(n + 1)})
  BY <1>2 DEF Places
<1>4. Len(k) \in Nat
  BY <1>3
<1>5. CASE s[n + 1] \notin good
  <2>1. \A m \in 1..(n + 1) : s[m] \in good => m \in 1..n
    <3>1. \A m \in 1..(n + 1) : m \in 1..n \/ m = n + 1
      OBVIOUS
    <3> QED
      BY <1>5, <3>1
  <2>2. h \in [1..Len(k) -> 1..(n + 1)]
    BY <1>1 DEF Places
  <2>3. Places(k, s, good, n + 1, h)
    BY <1>3, <2>1, <2>2 DEF Places
  <2> QED
    BY <1>5, <2>3
<1>6. CASE s[n + 1] \in good
  <2>1. PICK a : a = Append(k, s[n + 1])
    OBVIOUS
  <2>2. s[n + 1] \in {s[i] : i \in 1..(n + 1)}
    BY <1>1
  <2>3. /\ a \in Seq({s[i] : i \in 1..(n + 1)})
        /\ Len(a) = Len(k) + 1
    <3>1. PICK X : X = {s[i] : i \in 1..(n + 1)}
      OBVIOUS
    <3>2. k \in Seq(X) /\ s[n + 1] \in X
      BY <1>3, <2>2, <3>1
    <3>3. a \in Seq(X) /\ Len(a) = Len(k) + 1
      BY <2>1, <3>2
    <3> QED
      BY <3>1, <3>3
  <2>4. /\ \A i \in 1..Len(k) : a[i] = k[i]
        /\ a[Len(k) + 1] = s[n + 1]
    BY <1>3, <2>1, <2>2
  <2>5. PICK g : g = [i \in 1..(Len(k) + 1) |-> IF i \in 1..Len(k) THEN h[i] ELSE n + 1]
    OBVIOUS
  <2>6. \A i \in 1..(Len(k) + 1) : i \in 1..Len(k) \/ i = Len(k) + 1
    BY <1>4
  <2>7. /\ \A i \in 1..Len(k) : g[i] = h[i] /\ h[i] \in 1..n
        /\ g[Len(k) + 1] = n + 1
    <3>1. Len(k) + 1 \notin 1..Len(k) /\ Len(k) + 1 \in 1..(Len(k) + 1)
      BY <1>4
    <3>2. 1..Len(k) \subseteq 1..(Len(k) + 1)
      BY <1>4
    <3> QED
      BY <2>5, <3>1, <3>2 DEF Places
  <2>8. g \in [1..Len(a) -> 1..(n + 1)]
    BY <1>1, <2>3, <2>5, <2>6, <2>7
  <2>9. ASSUME NEW i \in 1..Len(a), NEW j \in 1..Len(a), i < j PROVE g[i] < g[j]
    <3>1. i \in 1..Len(k)
      BY <1>4, <2>3, <2>9
    <3>2. CASE j \in 1..Len(k)
      BY <2>7, <2>9, <3>1, <3>2 DEF Places
    <3>3. CASE j = Len(k) + 1
      BY <2>7, <3>1, <3>3
    <3> QED
      BY <2>3, <2>6, <3>2, <3>3
  <2>10. ASSUME NEW i \in 1..Len(a) PROVE a[i] = s[g[i]] /\ s[g[i]] \in good
    BY <1>6, <2>3, <2>4, <2>6, <2>7 DEF Places
  <2>11. ASSUME NEW m \in 1..(n + 1), s[m] \in good
         PROVE  \E i \in 1..Len(a) : g[i] = m
    <3>1. CASE m = n + 1
      <4>1. Len(k) + 1 \in 1..Len(a)
        BY <1>4, <2>3
      <4> QED
        BY <2>7, <3>1, <4>1
    <3>2. CASE m \in 1..n
      <4>1. PICK i \in 1..Len(k) : h[i] = m
        BY <2>11, <3>2 DEF Places
      <4>2. i \in 1..Len(a)
        BY <1>4, <2>3
      <4> QED
        BY <2>7, <4>1, <4>2
    <3> QED
      BY <3>1, <3>2
  <2>12. Places(a, s, good, n + 1, g)
    BY <2>3, <2>8, <2>9, <2>10, <2>11 DEF Places
  <2> QED
    BY <1>6, <2>1, <2>12
<1> QED
  BY <1>5, <1>6

(* What is kept of s is what stands at the places of good, in their order.  *)
LEMMA KeptPlaces ==
  ASSUME NEW s, Len(s) \in Nat, NEW good
  PROVE  \E h : Places(Kept(s, good), s, good, Len(s), h)
<1> DEFINE f == CHOOSE f : Keeps(f, s, good, Len(s))
<1>1. Keeps(f, s, good, Len(s))
  BY KeepsExists
<1>2. Kept(s, good) = f[Len(s)]
  BY DEF Kept, Keeps
<1> HIDE DEF f
<1> DEFINE T == {n \in Nat : n =< Len(s) => \E h : Places(f[n], s, good, n, h)}
<1>3. 0 \in T
  <2>1. f[0] = <<>>
    BY <1>1 DEF Keeps
  <2>2. PICK h : h = [i \in 1..0 |-> 0]
    OBVIOUS
  <2>3. h \in [1..Len(<<>>) -> 1..0] /\ 1..Len(<<>>) = {} /\ 1..0 = {}
    BY <2>2
  <2>4. <<>> \in Seq({s[i] : i \in 1..0})
    OBVIOUS
  <2>5. Places(<<>>, s, good, 0, h)
    BY <2>3, <2>4 DEF Places
  <2> QED
    BY <2>1, <2>5
<1>4. ASSUME NEW n \in Nat, n \in T PROVE n + 1 \in T
  <2>1. SUFFICES ASSUME n + 1 =< Len(s)
                 PROVE  \E h : Places(f[n + 1], s, good, n + 1, h)
    OBVIOUS
  <2>2. n =< Len(s) /\ n + 1 \in 0..Len(s) /\ n + 1 # 0 /\ (n + 1) - 1 = n
    BY <2>1
  <2>3. PICK h : Places(f[n], s, good, n, h)
    BY <1>4, <2>2
  <2>4. f[n + 1] = IF s[n + 1] \in good THEN Append(f[n], s[n + 1]) ELSE f[n]
    BY <1>1, <2>2 DEF Keeps
  <2> HIDE DEF T
  <2> QED
    BY <2>3, <2>4, PlacesStep
<1> HIDE DEF T
<1>5. Len(s) \in T
  BY <1>3, <1>4, AllNat
<1> QED
  BY <1>2, <1>5 DEF T

-----------------------------------------------------------------------------
(* Two ascending sequences of the same numbers are the same.                *)

Ascending(s) == \A i, j \in DOMAIN s : i < j => s[i] < s[j]

Elements(s) == {s[i] : i \in DOMAIN s}

LEMMA SameUpTo ==
  ASSUME NEW s \in Seq(Int), NEW t \in Seq(Int),
         Ascending(s), Ascending(t), Elements(s) = Elements(t)
  PROVE  \A k \in DOMAIN s \cap DOMAIN t : s[k] = t[k]
<1> DEFINE T == {k \in DOMAIN s \cap DOMAIN t : s[k] # t[k]}
<1>1. SUFFICES ASSUME T # {} PROVE FALSE
  OBVIOUS
<1>2. DOMAIN s = 1..Len(s) /\ DOMAIN t = 1..Len(t) /\ Len(s) \in Nat /\ Len(t) \in Nat
  OBVIOUS
<1>3. T \in SUBSET Nat
  BY <1>2
<1>4. PICK k \in T : \A m \in T : k =< m
  BY <1>1, <1>3, LeastNat
<1>5. k \in DOMAIN s /\ k \in DOMAIN t /\ k \in Nat /\ s[k] \in Int /\ t[k] \in Int /\ s[k] # t[k]
  BY <1>2
<1>6. \A j \in DOMAIN s \cap DOMAIN t : j < k => s[j] = t[j]
  BY <1>2, <1>4, <1>5
<1>7. ASSUME s[k] < t[k] PROVE FALSE
  <2>1. s[k] \in Elements(t)
    BY <1>5 DEF Elements
  <2>2. PICK j \in DOMAIN t : t[j] = s[k]
    BY <2>1 DEF Elements
  <2>3. j \in Nat /\ j < k
    <3>1. j \in Nat /\ t[j] < t[k]
      BY <1>2, <1>7, <2>2
    <3>2. ~(k < j) /\ k # j
      BY <1>5, <2>2, <3>1 DEF Ascending
    <3> QED
      BY <1>5, <3>1, <3>2
  <2>4. j \in DOMAIN s
    BY <1>2, <1>5, <2>2, <2>3
  <2>5. s[j] = s[k] /\ s[j] < s[k]
    BY <1>5, <1>6, <2>2, <2>3, <2>4 DEF Ascending
  <2> QED
    BY <1>5, <2>5
<1>8. ASSUME t[k] < s[k] PROVE FALSE
  <2>1. t[k] \in Elements(s)
    BY <1>5 DEF Elements
  <2>2. PICK j \in DOMAIN s : s[j] = t[k]
    BY <2>1 DEF Elements
  <2>3. j \in Nat /\ j < k
    <3>1. j \in Nat /\ s[j] < s[k]
      BY <1>2, <1>8, <2>2
    <3>2. ~(k < j) /\ k # j
      BY <1>5, <2>2, <3>1 DEF Ascending
    <3> QED
      BY <1>5, <3>1, <3>2
  <2>4. j \in DOMAIN t
    BY <1>2, <1>5, <2>2, <2>3
  <2>5. t[j] = t[k] /\ t[j] < t[k]
    BY <1>5, <1>6, <2>2, <2>3, <2>4 DEF Ascending
  <2> QED
    BY <1>5, <2>5
<1> QED
  BY <1>5, <1>7, <1>8

LEMMA NotLonger ==
  ASSUME NEW s \in Seq(Int), NEW t \in Seq(Int),
         Ascending(s), Ascending(t), Elements(s) = Elements(t)
  PROVE  Len(s) =< Len(t)
<1>1. SUFFICES ASSUME Len(t) < Len(s) PROVE FALSE
  OBVIOUS
<1>2. DOMAIN s = 1..Len(s) /\ DOMAIN t = 1..Len(t) /\ Len(s) \in Nat /\ Len(t) \in Nat
  OBVIOUS
<1>3. Len(s) \in DOMAIN s
  BY <1>1, <1>2
<1>4. s[Len(s)] \in Elements(t)
  BY <1>3 DEF Elements
<1>5. PICK j \in DOMAIN t : t[j] = s[Len(s)]
  BY <1>4 DEF Elements
<1>6. j \in DOMAIN s /\ j < Len(s)
  BY <1>1, <1>2
<1>7. s[j] = t[j]
  BY <1>6, SameUpTo
<1>8. s[j] < s[Len(s)] /\ s[j] \in Int
  BY <1>3, <1>6 DEF Ascending
<1> QED
  BY <1>5, <1>7, <1>8

LEMMA SameAscending ==
  ASSUME NEW s \in Seq(Int), NEW t \in Seq(Int),
         Ascending(s), Ascending(t), Elements(s) = Elements(t)
  PROVE  s = t
<1>1. Len(s) =< Len(t)
  BY NotLonger
<1>2. Len(t) =< Len(s)
  BY NotLonger
<1>3. Len(s) = Len(t)
  BY <1>1, <1>2
<1>4. s \in [1..Len(s) -> Int] /\ t \in [1..Len(s) -> Int]
  BY <1>3
<1>5. \A k \in 1..Len(s) : s[k] = t[k]
  <2>1. DOMAIN s = 1..Len(s) /\ DOMAIN t = 1..Len(s)
    BY <1>4
  <2> QED
    BY <2>1, SameUpTo
<1> QED
  BY <1>4, <1>5

-----------------------------------------------------------------------------
(* The range that the loop before the detector requests finds.              *)

Aligns(f, start, stop, rate, last) ==
  f = [p \in (start - 1)..last |->
         IF p < start THEN [start |-> 0, stop |-> stop]
         ELSE IF p % rate # 0 THEN f[p - 1]
         ELSE [start |-> IF f[p - 1].start = 0 THEN p ELSE f[p - 1].start,
               stop  |-> p]]

LEMMA AlignsExists ==
  ASSUME NEW start \in Int, NEW stop, NEW rate
  PROVE  \A n \in Nat : \E f : Aligns(f, start, stop, rate, start - 1 + n)
<1> DEFINE T == {n \in Nat : \E f : Aligns(f, start, stop, rate, start - 1 + n)}
<1>1. 0 \in T
  <2>1. start - 1 + 0 = start - 1 /\ \A p \in (start - 1)..(start - 1) : p < start
    OBVIOUS
  <2>2. Aligns([p \in (start - 1)..(start - 1) |-> [start |-> 0, stop |-> stop]],
               start, stop, rate, start - 1)
    BY <2>1 DEF Aligns
  <2> QED
    BY <2>1, <2>2
<1>2. ASSUME NEW n \in Nat, n \in T PROVE n + 1 \in T
  <2>1. PICK last \in Int : last = start - 1 + n
    OBVIOUS
  <2>2. PICK f : Aligns(f, start, stop, rate, last)
    BY <1>2, <2>1
  <2> DEFINE Next1(r, p) == IF p % rate # 0 THEN r
                            ELSE [start |-> IF r.start = 0 THEN p ELSE r.start,
                                  stop  |-> p]
  <2>3. PICK g : g = [p \in (start - 1)..(last + 1) |->
                        IF p \in (start - 1)..last THEN f[p] ELSE Next1(f[p - 1], p)]
    OBVIOUS
  <2>4. \A p \in (start - 1)..last :
          f[p] = IF p < start THEN [start |-> 0, stop |-> stop] ELSE Next1(f[p - 1], p)
    BY <2>2 DEF Aligns
  <2> HIDE DEF Next1
  <2>5. ASSUME NEW p \in (start - 1)..(last + 1)
        PROVE  g[p] = IF p < start THEN [start |-> 0, stop |-> stop]
                      ELSE Next1(g[p - 1], p)
    <3>1. CASE p < start
      <4>1. p \in (start - 1)..last
        BY <2>1, <3>1
      <4> QED
        BY <2>3, <2>4, <3>1, <4>1
    <3>2. CASE ~(p < start)
      <4>1. p - 1 \in (start - 1)..last /\ p - 1 \in (start - 1)..(last + 1)
        BY <2>1, <3>2
      <4>2. g[p - 1] = f[p - 1]
        BY <2>3, <4>1
      <4>3. g[p] = Next1(f[p - 1], p)
        BY <2>3, <2>4, <3>2
      <4> QED
        BY <3>2, <4>2, <4>3
    <3> QED
      BY <3>1, <3>2
  <2>6. Aligns(g, start, stop, rate, last + 1)
    BY <2>3, <2>5 DEF Aligns, Next1
  <2>7. last + 1 = start - 1 + (n + 1)
    BY <2>1
  <2>8. Aligns(g, start, stop, rate, start - 1 + (n + 1))
    BY <2>6, <2>7, Zenon
  <2>9. n + 1 \in Nat
    OBVIOUS
  <2> QED
    BY <2>8, <2>9
<1> HIDE DEF T
<1>3. \A n \in Nat : n \in T
  BY <1>1, <1>2, AllNat
<1> QED
  BY <1>3 DEF T

(* The pulses of the beam from start to p.                                  *)
Beam(start, p, rate) == {q \in start..p : q % rate = 0}

(* What the loop knows after pulse p.  It takes a first pulse 0 for none.   *)
Aligned(r, start, stop, p, rate) ==
  IF Beam(start, p, rate) = {} THEN r = [start |-> 0, stop |-> stop]
  ELSE /\ r = [start |-> r.start, stop |-> r.stop]
       /\ {r.start, r.stop} \subseteq Beam(start, p, rate)
       /\ \A q \in Beam(start, p, rate) : (q = 0 \/ r.start =< q) /\ q =< r.stop
       /\ r.start = 0 => Beam(start, p, rate) \subseteq {0}

LEMMA AlignedStep ==
  ASSUME NEW start \in Int, NEW stop, NEW rate \in Nat \ {0},
         NEW p \in Int, start =< p,
         NEW r, Aligned(r, start, stop, p - 1, rate)
  PROVE  Aligned(IF p % rate # 0 THEN r
                 ELSE [start |-> IF r.start = 0 THEN p ELSE r.start, stop |-> p],
                 start, stop, p, rate)
<1>1. start..p = (start..(p - 1)) \cup {p}
  OBVIOUS
<1>2. CASE p % rate # 0
  <2>1. Beam(start, p, rate) = Beam(start, p - 1, rate)
    BY <1>1, <1>2 DEF Beam
  <2> QED
    BY <1>2, <2>1 DEF Aligned
<1>3. CASE p % rate = 0
  <2>1. Beam(start, p, rate) = Beam(start, p - 1, rate) \cup {p}
    BY <1>1, <1>3 DEF Beam
  <2>2. \A q \in Beam(start, p - 1, rate) : q \in Int /\ q < p
    BY DEF Beam
  <2>3. CASE Beam(start, p - 1, rate) = {}
    <3>1. r.start = 0
      BY <2>3 DEF Aligned
    <3> QED
      BY <1>3, <2>1, <2>3, <3>1 DEF Aligned
  <2>4. CASE Beam(start, p - 1, rate) # {} /\ r.start = 0
    <3>1. Beam(start, p - 1, rate) = {0} /\ 0 < p
      BY <2>2, <2>4 DEF Aligned
    <3> QED
      BY <1>3, <2>1, <2>4, <3>1 DEF Aligned
  <2>5. CASE Beam(start, p - 1, rate) # {} /\ r.start # 0
    <3>1. /\ r.start \in Beam(start, p - 1, rate)
          /\ \A q \in Beam(start, p - 1, rate) : q = 0 \/ r.start =< q
      BY <2>5 DEF Aligned
    <3>2. r.start < p
      BY <2>2, <3>1
    <3> QED
      BY <1>3, <2>1, <2>2, <2>5, <3>1, <3>2 DEF Aligned
  <2> QED
    BY <2>3, <2>4, <2>5
<1> QED
  BY <1>2, <1>3

(* The detectors' range goes from the first requested pulse of the beam,    *)
(* which may not be pulse 0, to the last; if there is none, from pulse 0 to *)
(* the end of the request.                                                  *)
LEMMA AlignPidsAligns ==
  ASSUME NEW start \in Int, NEW stop \in Int, start =< stop, NEW rate \in Nat \ {0}
  PROVE  Aligned(AlignPids(start, stop, rate), start, stop, stop, rate)
<1> DEFINE f == CHOOSE f : Aligns(f, start, stop, rate, stop)
<1>1. Aligns(f, start, stop, rate, stop)
  <2>1. stop - start + 1 \in Nat /\ start - 1 + (stop - start + 1) = stop
    OBVIOUS
  <2>2. \E g : Aligns(g, start, stop, rate, start - 1 + (stop - start + 1))
    BY <2>1, AlignsExists
  <2>3. \E g : Aligns(g, start, stop, rate, stop)
    BY <2>1, <2>2, Zenon
  <2> QED
    BY <2>3
<1>2. AlignPids(start, stop, rate) = f[stop]
  BY DEF AlignPids, Aligns
<1> HIDE DEF f
<1> DEFINE T == {n \in Nat : start - 1 + n =< stop =>
                   Aligned(f[start - 1 + n], start, stop, start - 1 + n, rate)}
<1>3. 0 \in T
  <2>1. start - 1 + 0 = start - 1 /\ start - 1 \in (start - 1)..stop /\ start - 1 < start
    OBVIOUS
  <2>2. f[start - 1] = [start |-> 0, stop |-> stop]
    BY <1>1, <2>1 DEF Aligns
  <2>3. Beam(start, start - 1, rate) = {}
    BY DEF Beam
  <2> QED
    BY <2>1, <2>2, <2>3 DEF Aligned
<1>4. ASSUME NEW n \in Nat, n \in T PROVE n + 1 \in T
  <2>1. PICK p \in Int : p = start + n
    OBVIOUS
  <2>2. start - 1 + (n + 1) = p /\ start - 1 + n = p - 1 /\ start =< p
    BY <2>1
  <2>3. SUFFICES ASSUME p =< stop PROVE Aligned(f[p], start, stop, p, rate)
    BY <2>2
  <2>4. Aligned(f[p - 1], start, stop, p - 1, rate)
    BY <1>4, <2>2, <2>3
  <2>5. p \in (start - 1)..stop /\ ~(p < start)
    BY <2>2, <2>3
  <2>6. f[p] = IF p % rate # 0 THEN f[p - 1]
               ELSE [start |-> IF f[p - 1].start = 0 THEN p ELSE f[p - 1].start,
                     stop  |-> p]
    BY <1>1, <2>5 DEF Aligns
  <2> HIDE DEF T
  <2> QED
    BY <2>2, <2>4, <2>6, AlignedStep
<1> HIDE DEF T
<1>5. stop - start + 1 \in T /\ start - 1 + (stop - start + 1) = stop
  BY <1>3, <1>4, AllNat
<1> QED
  BY <1>2, <1>5 DEF T

-----------------------------------------------------------------------------
(* The ranges.                                                              *)

Entry == [id : Int, ok : BOOLEAN]

EntriesOK ==
  /\ entries \in Seq(Entry)
  /\ ~present => entries = <<>>

(* The ranges are made once, of an allowed request, and then stay.          *)
RangesOK ==
  pc # "request" =>
    /\ request.start \in Int /\ request.stop \in Int /\ request.rate \in Nat \ {0}
    /\ request.start =< request.stop
    /\ adjusted = Adjust(request.start, request.stop, request.rate)
    /\ detectors = AlignPids(request.start, request.stop, request.rate)

(* The check raised, or it has logged what is wrong with the entries.       *)
CheckedOK ==
  pc = "done" /\ outcome = "returned" => logged = Errors

IInv == EntriesOK /\ RangesOK /\ CheckedOK

(* An end of the adjusted range is that of the request or next to it, and   *)
(* then it is no pulse of the beam.                                         *)
LEMMA AdjustEnds ==
  ASSUME NEW start \in Int, NEW stop \in Int, NEW rate \in Nat \ {0}, NEW a,
         a = Adjust(start, stop, rate)
  PROVE  /\ a.start \in Int /\ a.stop \in Int
         /\ a.start = start \/ (a.start = start - 1 /\ a.start % rate # 0)
         /\ a.stop = stop \/ (a.stop = stop + 1 /\ a.stop % rate # 0)
         /\ rate = 1 => a.start = start /\ a.stop = stop
<1>1. a.start = IF rate # 1 /\ start % rate = 0 THEN start - 1 ELSE start
  BY DEF Adjust
<1>2. a.stop = IF rate # 1 /\ stop % rate = 0 THEN stop + 1 ELSE stop
  BY DEF Adjust
<1>3. rate # 1 /\ start % rate = 0 => (start - 1) % rate # 0
  OBVIOUS
<1>4. rate # 1 /\ stop % rate = 0 => (stop + 1) % rate # 0
  OBVIOUS
<1> QED
  BY <1>1, <1>2, <1>3, <1>4

LEMMA AdjustSelects ==
  ASSUME NEW start \in Int, NEW stop \in Int, NEW rate \in Nat \ {0},
         start =< stop, NEW a, a = Adjust(start, stop, rate)
  PROVE  /\ {p \in a.start..a.stop : p % rate = 0} = Beam(start, stop, rate)
         /\ start..stop \subseteq a.start..a.stop
         /\ Cardinality(a.start..a.stop) <= Cardinality(start..stop) + 2
<1>1. /\ a.start \in Int /\ a.stop \in Int
      /\ a.start = start \/ (a.start = start - 1 /\ a.start % rate # 0)
      /\ a.stop = stop \/ (a.stop = stop + 1 /\ a.stop % rate # 0)
  BY AdjustEnds
<1>2. start..stop \subseteq a.start..a.stop
  BY <1>1
<1>3. ASSUME NEW p \in a.start..a.stop, p % rate = 0 PROVE p \in start..stop
  <2>1. p # a.start \/ a.start = start
    BY <1>1, <1>3
  <2>2. p # a.stop \/ a.stop = stop
    BY <1>1, <1>3
  <2> QED
    BY <1>1, <2>1, <2>2
<1>4. Cardinality(start..stop) = stop - start + 1
  BY FS_Interval
<1>5. Cardinality(a.start..a.stop) = a.stop - a.start + 1
  <2>1. PICK lo \in Int, hi \in Int : lo = a.start /\ hi = a.stop /\ ~(lo > hi)
    BY <1>1
  <2>2. Cardinality(lo..hi) = hi - lo + 1
    BY <2>1, FS_Interval
  <2> QED
    BY <2>1, <2>2
<1>6. Cardinality(a.start..a.stop) <= Cardinality(start..stop) + 2
  <2>1. PICK lo \in Int, hi \in Int : lo = a.start /\ hi = a.stop
    BY <1>1
  <2>2. hi - lo + 1 <= (stop - start + 1) + 2
    BY <1>1, <2>1
  <2>3. Cardinality(a.start..a.stop) = hi - lo + 1
    BY <1>5, <2>1
  <2> QED
    BY <1>4, <2>2, <2>3
<1>7. {p \in a.start..a.stop : p % rate = 0} = Beam(start, stop, rate)
  BY <1>2, <1>3 DEF Beam
<1> QED
  BY <1>2, <1>6, <1>7

(* What the loop found are the requested pulses of the beam, but that it    *)
(* may pass over pulse 0 where none comes before it.                        *)
LEMMA DetectorsSelect ==
  ASSUME NEW start \in Int, NEW stop \in Int, NEW rate \in Nat \ {0},
         start =< stop, NEW r, r = AlignPids(start, stop, rate),
         Beam(start, stop, rate) # {}
  PROVE  /\ {r.start, r.stop} \subseteq Beam(start, stop, rate)
         /\ r.start..r.stop \subseteq start..stop
         /\ \A q \in Beam(start, stop, rate) :
              q # 0 \/ (\E p \in Beam(start, stop, rate) : p < 0) => q \in r.start..r.stop
<1>1. Aligned(r, start, stop, stop, rate)
  BY AlignPidsAligns
<1>2. /\ {r.start, r.stop} \subseteq Beam(start, stop, rate)
      /\ \A q \in Beam(start, stop, rate) : (q = 0 \/ r.start =< q) /\ q =< r.stop
  BY <1>1 DEF Aligned
<1>3. r.start \in start..stop /\ r.stop \in start..stop
      /\ \A q \in Beam(start, stop, rate) : q \in Int
  BY <1>2 DEF Beam
<1>4. r.start..r.stop \subseteq start..stop
  BY <1>3
<1>5. ASSUME NEW q \in Beam(start, stop, rate), q # 0 PROVE q \in r.start..r.stop
  BY <1>2, <1>3, <1>5
<1>6. ASSUME NEW q \in Beam(start, stop, rate), q = 0,
             NEW p \in Beam(start, stop, rate), p < 0
      PROVE  q \in r.start..r.stop
  BY <1>2, <1>3, <1>6
<1> QED
  BY <1>2, <1>4, <1>5, <1>6

LEMMA AdjustedEnds ==
  ASSUME RangesOK, pc # "request"
  PROVE  adjusted.start \in Int /\ adjusted.stop \in Int /\ adjusted.start =< adjusted.stop
<1>1. PICK start \in Int, stop \in Int, rate \in Nat \ {0} :
        start =< stop /\ adjusted = Adjust(start, stop, rate)
  BY DEF RangesOK
<1>2. PICK a : a = Adjust(start, stop, rate)
  OBVIOUS
<1>3. /\ a.start \in Int /\ a.stop \in Int
      /\ a.start = start \/ a.start = start - 1
      /\ a.stop = stop \/ a.stop = stop + 1
  BY <1>2, AdjustEnds
<1> QED
  BY <1>1, <1>2, <1>3

LEMMA RangesAgreeOfInv ==
  ASSUME RangesOK
  PROVE  RangesAgree
<1>1. SUFFICES ASSUME pc # "request" PROVE RangesAgree
  BY DEF RangesAgree
<1>2. PICK start \in Int, stop \in Int, rate \in Nat \ {0} :
        /\ request.start = start /\ request.stop = stop /\ request.rate = rate
        /\ start =< stop
        /\ adjusted = Adjust(start, stop, rate)
        /\ detectors = AlignPids(start, stop, rate)
  BY <1>1 DEF RangesOK
<1>3. Selected(request, rate) = Beam(start, stop, rate)
  BY <1>2 DEF Selected, Beam
<1>4. /\ Selected(adjusted, rate) = Beam(start, stop, rate)
      /\ start..stop \subseteq adjusted.start..adjusted.stop
      /\ Cardinality(adjusted.start..adjusted.stop) <= Cardinality(start..stop) + 2
  BY <1>2, AdjustSelects DEF Selected
<1>5. rate = 1 => adjusted.start..adjusted.stop = start..stop
  BY <1>2, AdjustEnds
<1>6. ASSUME Beam(start, stop, rate) # {}
      PROVE  /\ {detectors.start, detectors.stop} \subseteq Beam(start, stop, rate)
             /\ Beam(start, stop, rate) \ Lost \subseteq detectors.start..detectors.stop
  BY <1>2, <1>3, <1>6, DetectorsSelect DEF Lost
<1> QED
  BY <1>2, <1>3, <1>4, <1>5, <1>6 DEF RangesAgree

-----------------------------------------------------------------------------
(* The invariant.                                                           *)

LEMMA SeqOfMore ==
  ASSUME NEW X, NEW Y, X \subseteq Y, NEW s \in Seq(X)
  PROVE  s \in Seq(Y)
<1>1. s \in [1..Len(s) -> Y] /\ Len(s) \in Nat
  OBVIOUS
<1> QED
  BY <1>1

LEMMA PulsesType ==
  ASSUME NEW a \in Int, NEW b \in Int
  PROVE  /\ Pulses(a, b) \in Seq(Int)
         /\ DOMAIN Pulses(a, b) = 1..Len(Pulses(a, b))
         /\ Ascending(Pulses(a, b))
         /\ Elements(Pulses(a, b)) = a..b
<1>1. PICK n \in Nat : /\ 1..(b - a + 1) = 1..n
                       /\ b - a + 1 >= 0 => n = b - a + 1
                       /\ b - a + 1 < 0 => n = 0
  <2>1. CASE b - a + 1 >= 0
    BY <2>1
  <2>2. CASE b - a + 1 < 0
    <3>1. 1..(b - a + 1) = 1..0
      BY <2>2
    <3> QED
      BY <2>2, <3>1
  <2> QED
    BY <2>1, <2>2
<1>2. PICK s : s = [i \in 1..n |-> a + i - 1]
  OBVIOUS
<1>3. s = Pulses(a, b)
  BY <1>1, <1>2 DEF Pulses
<1>4. \A i \in 1..n : s[i] = a + i - 1 /\ a + i - 1 \in Int
  BY <1>2
<1>5. s \in Seq(Int) /\ DOMAIN s = 1..n /\ Len(s) = n
  <2>1. s \in [1..n -> Int]
    BY <1>2, <1>4
  <2> QED
    BY <2>1
<1>6. Ascending(s)
  BY <1>4, <1>5 DEF Ascending
<1>7. ASSUME NEW p \in a..b PROVE p \in Elements(s)
  <2>1. p - a + 1 \in 1..n /\ a + (p - a + 1) - 1 = p
    BY <1>1
  <2> QED
    BY <1>4, <1>5, <2>1 DEF Elements
<1>8. ASSUME NEW p \in Elements(s) PROVE p \in a..b
  <2>1. PICK i \in 1..n : p = a + i - 1
    BY <1>4, <1>5 DEF Elements
  <2> QED
    BY <1>1, <2>1
<1> QED
  BY <1>3, <1>5, <1>6, <1>7, <1>8

(* What is kept of ascending pulses ascends.                                *)
LEMMA KeptPulses ==
  ASSUME NEW a \in Int, NEW b \in Int, NEW good \in SUBSET Int
  PROVE  /\ Kept(Pulses(a, b), good) \in Seq(Int)
         /\ Ascending(Kept(Pulses(a, b), good))
         /\ Elements(Kept(Pulses(a, b), good)) = good \cap (a..b)
<1>1. PICK s : s = Pulses(a, b)
  OBVIOUS
<1>2. /\ s \in Seq(Int) /\ DOMAIN s = 1..Len(s) /\ Len(s) \in Nat
      /\ Ascending(s) /\ Elements(s) = a..b
  <2>1. s \in Seq(Int) /\ Ascending(s) /\ Elements(s) = a..b
    BY <1>1, PulsesType, Zenon
  <2> QED
    BY <2>1
<1>3. PICK h : Places(Kept(s, good), s, good, Len(s), h)
  BY <1>2, KeptPlaces
<1>4. PICK k : k = Kept(s, good)
  OBVIOUS
<1>5. /\ k \in Seq({s[i] : i \in 1..Len(s)})
      /\ h \in [1..Len(k) -> 1..Len(s)]
      /\ \A i, j \in 1..Len(k) : i < j => h[i] < h[j]
      /\ \A i \in 1..Len(k) : k[i] = s[h[i]] /\ s[h[i]] \in good
      /\ \A m \in 1..Len(s) : s[m] \in good => \E i \in 1..Len(k) : h[i] = m
  BY <1>3, <1>4 DEF Places
<1>6. k \in Seq(Int) /\ DOMAIN k = 1..Len(k)
  <2>1. \A i \in 1..Len(s) : s[i] \in Int
    BY <1>2
  <2>2. {s[i] : i \in 1..Len(s)} \subseteq Int
    BY <2>1
  <2>3. k \in Seq(Int)
    BY <1>5, <2>2, SeqOfMore
  <2> QED
    BY <2>3
<1>7. Ascending(k)
  <2>1. SUFFICES ASSUME NEW i \in 1..Len(k), NEW j \in 1..Len(k), i < j
                 PROVE  k[i] < k[j]
    BY <1>6 DEF Ascending
  <2>2. h[i] \in DOMAIN s /\ h[j] \in DOMAIN s /\ h[i] < h[j]
    BY <1>2, <1>5, <2>1
  <2>3. s[h[i]] < s[h[j]]
    BY <1>2, <2>2 DEF Ascending
  <2> QED
    BY <1>5, <2>3
<1>8. ASSUME NEW p \in Elements(k) PROVE p \in good \cap (a..b)
  <2>1. PICK i \in 1..Len(k) : p = k[i]
    BY <1>6 DEF Elements
  <2>2. p \in good /\ p = s[h[i]] /\ h[i] \in DOMAIN s
    BY <1>2, <1>5, <2>1
  <2>3. p \in Elements(s)
    BY <2>2 DEF Elements
  <2> QED
    BY <1>2, <2>2, <2>3
<1>9. ASSUME NEW p \in good \cap (a..b) PROVE p \in Elements(k)
  <2>1. PICK m \in 1..Len(s) : p = s[m]
    BY <1>2 DEF Elements
  <2>2. PICK i \in 1..Len(k) : h[i] = m
    BY <1>5, <2>1
  <2> QED
    BY <1>5, <1>6, <2>1, <2>2 DEF Elements
<1> QED
  BY <1>1, <1>4, <1>6, <1>7, <1>8, <1>9

(* A loop over any pulses keeps nothing when none counts.                   *)
LEMMA InOrderOfNone ==
  ASSUME RangesOK, pc # "request"
  PROVE  InOrder({}) = <<>>
<1>1. adjusted.start \in Int /\ adjusted.stop \in Int
  BY AdjustedEnds
<1>2. InOrder({}) \in Seq(Int) /\ Elements(InOrder({})) = {}
  BY <1>1, KeptPulses DEF InOrder
<1>3. DOMAIN InOrder({}) = {}
  BY <1>2 DEF Elements
<1> QED
  BY <1>2, <1>3

LEMMA EntriesKept ==
  ASSUME PulseIdsAssumption, EntriesOK, RangesOK, [Next]_vars
  PROVE  EntriesOK'
<1>0. ~present' => entries' = <<>>
  <2>1. CASE UNCHANGED <<present, entries>>
    BY <2>1 DEF EntriesOK
  <2>2. ASSUME NEW found, Query(found) PROVE ~present' => entries' = <<>>
    <3>1. SUFFICES ASSUME ~present' PROVE entries' = <<>>
      OBVIOUS
    <3>2. InOrder(found) = <<>>
      BY <2>2, <3>1, InOrderOfNone DEF Query
    <3>3. entries' = [i \in DOMAIN InOrder(found) |-> [id |-> InOrder(found)[i], ok |-> TRUE]]
      BY <2>2 DEF Query
    <3>4. PICK none : none = InOrder(found) /\ DOMAIN none = 1..0
      BY <3>2
    <3>5. entries' = [i \in 1..0 |-> [id |-> none[i], ok |-> TRUE]]
      BY <3>3, <3>4
    <3> QED
      BY <3>5
  <2>3. ASSUME NEW flawed, Flaw(flawed) PROVE present'
    BY <2>3 DEF Flaw
  <2>4. \A i, j : Repeat(i) \/ Spoil(i) \/ Swap(i, j) \/ Misplace(i) => present'
    BY <2>3 DEF Repeat, Spoil, Swap, Misplace
  <2>5. ASSUME NEW start, NEW stop, NEW rate, Retrieve(start, stop, rate)
        PROVE  UNCHANGED <<present, entries>>
    BY <2>5 DEF Retrieve
  <2>6. MappingFails \/ (\E failed \in BOOLEAN : Check(failed)) => UNCHANGED <<present, entries>>
    BY DEF MappingFails, Check
  <2> QED
    BY <2>1, <2>2, <2>4, <2>5, <2>6 DEF Next, vars
<1>1. entries \in Seq(Entry) /\ DOMAIN entries = 1..Len(entries) /\ Len(entries) \in Nat
  BY DEF EntriesOK
<1>2. SUFFICES ASSUME Next PROVE entries' \in Seq(Entry)
  BY <1>0 DEF EntriesOK, vars
<1>3. \A p \in 0..(MaxPulse + 1) : p \in Int /\ [id |-> p, ok |-> TRUE] \in Entry
  BY DEF Entry
<1>4. CASE UNCHANGED entries
  BY <1>1, <1>4
<1>5. ASSUME NEW found \in SUBSET (0..(MaxPulse + 1)), Query(found)
      PROVE  entries' \in Seq(Entry)
  <2>1. PICK ids : ids = InOrder(found)
    OBVIOUS
  <2>2. adjusted.start \in Int /\ adjusted.stop \in Int /\ found \in SUBSET Int
    BY <1>3, <1>5, AdjustedEnds DEF Query
  <2>3. ids \in Seq(Int)
    BY <2>1, <2>2, KeptPulses DEF InOrder
  <2>4. entries' = [i \in DOMAIN ids |-> [id |-> ids[i], ok |-> TRUE]]
    BY <1>5, <2>1 DEF Query
  <2>5. DOMAIN ids = 1..Len(ids) /\ Len(ids) \in Nat
        /\ \A i \in DOMAIN ids : [id |-> ids[i], ok |-> TRUE] \in Entry
    BY <2>3 DEF Entry
  <2>6. entries' \in [1..Len(ids) -> Entry]
    BY <2>4, <2>5
  <2> QED
    BY <2>5, <2>6
<1>6. ASSUME NEW i \in DOMAIN entries, Repeat(i) PROVE entries' \in Seq(Entry)
  <2>1. entries' = SubSeq(entries, 1, i - 1) \o <<entries[i]>> \o SubSeq(entries, i, Len(entries))
    BY <1>6 DEF Repeat, Flaw, InsertAt
  <2>2. entries[i] \in Entry /\ i \in Int
    BY <1>1
  <2>3. SubSeq(entries, 1, i - 1) \in Seq(Entry)
    BY <1>1, <2>2
  <2>4. SubSeq(entries, i, Len(entries)) \in Seq(Entry)
    BY <1>1, <2>2
  <2>5. <<entries[i]>> \in Seq(Entry)
    BY <2>2
  <2> QED
    BY <2>1, <2>3, <2>4, <2>5
<1>7. ASSUME NEW i \in DOMAIN entries, Spoil(i) PROVE entries' \in Seq(Entry)
  <2>1. entries' = [entries EXCEPT ![i] = [entries[i] EXCEPT !.ok = FALSE]]
    BY <1>7 DEF Spoil, Flaw
  <2>2. entries[i] \in Entry
    BY <1>1
  <2>3. [entries[i] EXCEPT !.ok = FALSE] \in Entry
    BY <2>2 DEF Entry
  <2> QED
    BY <1>1, <2>1, <2>3
<1>8. ASSUME NEW i \in DOMAIN entries, NEW j \in DOMAIN entries, Swap(i, j)
      PROVE  entries' \in Seq(Entry)
  <2>1. entries' = [entries EXCEPT ![i] = entries[j], ![j] = entries[i]]
    BY <1>8 DEF Swap, Flaw
  <2>2. entries[i] \in Entry /\ entries[j] \in Entry
    BY <1>1
  <2>3. entries' \in [1..Len(entries) -> Entry]
    BY <1>1, <2>1, <2>2
  <2> QED
    BY <1>1, <2>3
<1>9. ASSUME NEW p \in 0..(MaxPulse + 1), Misplace(p) PROVE entries' \in Seq(Entry)
  BY <1>1, <1>3, <1>9 DEF Misplace, Flaw
<1>10. ASSUME NEW start, NEW stop, NEW rate, Retrieve(start, stop, rate)
       PROVE  UNCHANGED entries
  BY <1>10 DEF Retrieve
<1>11. MappingFails \/ (\E failed \in BOOLEAN : Check(failed)) => UNCHANGED entries
  BY DEF MappingFails, Check
<1> QED
  BY <1>2, <1>4, <1>5, <1>6, <1>7, <1>8, <1>9, <1>10, <1>11 DEF Next

LEMMA RangesKept ==
  ASSUME PulseIdsAssumption, RangesOK, [Next]_vars
  PROVE  RangesOK'
<1>1. ASSUME NEW start \in (0 - Below)..MaxPulse, NEW stop \in (0 - Below)..MaxPulse, NEW rate \in Rates,
             Retrieve(start, stop, rate)
      PROVE  RangesOK'
  <2>1. request' = [start |-> start, stop |-> stop, rate |-> rate]
        /\ adjusted' = Adjust(start, stop, rate)
        /\ detectors' = AlignPids(start, stop, rate)
        /\ stop - start \in 0..MaxDelta
    BY <1>1 DEF Retrieve, Allowed
  <2>2. start \in Int /\ stop \in Int /\ rate \in Nat \ {0} /\ MaxDelta \in Int
    BY DEF PulseIdsAssumption
  <2>3. start =< stop
    BY <2>1, <2>2
  <2>4. request'.start = start /\ request'.stop = stop /\ request'.rate = rate
    BY <2>1
  <2> QED
    BY <2>1, <2>2, <2>3, <2>4 DEF RangesOK
<1>2. CASE /\ UNCHANGED <<request, adjusted, detectors>>
           /\ pc = "request" => pc' = "request"
  BY <1>2 DEF RangesOK
<1>3. CASE UNCHANGED vars
  BY <1>2, <1>3 DEF vars
<1>4. CASE MappingFails
  BY <1>2, <1>4 DEF MappingFails
<1>5. ASSUME NEW found, Query(found) PROVE RangesOK'
  BY <1>2, <1>5 DEF Query
<1>6. ASSUME NEW flawed, Flaw(flawed) PROVE RangesOK'
  BY <1>2, <1>6 DEF Flaw
<1>7. ASSUME NEW failed, Check(failed) PROVE RangesOK'
  BY <1>2, <1>7 DEF Check
<1>8. \A i, j : Repeat(i) \/ Spoil(i) \/ Swap(i, j) \/ Misplace(i) => RangesOK'
  BY <1>6 DEF Repeat, Spoil, Swap, Misplace
<1> QED
  BY <1>1, <1>3, <1>4, <1>5, <1>7, <1>8 DEF Next

LEMMA CheckedKept ==
  ASSUME CheckedOK, [Next]_vars
  PROVE  CheckedOK'
<1>1. CASE pc' # "done" \/ outcome' # "returned"
  BY <1>1 DEF CheckedOK
<1>2. CASE UNCHANGED vars
  <2>1. Errors' = Errors
    BY <1>2 DEF vars, Errors, Duplicates, Monotonic, InOrder, Matched, Expected, Raw
  <2> QED
    BY <1>2, <2>1 DEF vars, CheckedOK
<1>3. ASSUME NEW failed, Check(failed) PROVE CheckedOK'
  <2>1. entries' = entries /\ adjusted' = adjusted /\ present' = present
    BY <1>3 DEF Check
  <2>2. Errors' = Errors
    BY <2>1 DEF Errors, Duplicates, Monotonic, InOrder, Matched, Expected, Raw
  <2>3. outcome' = "returned" => logged' = Errors
    BY <1>3 DEF Check
  <2> QED
    BY <2>1, <2>2, <2>3 DEF CheckedOK
<1>4. MappingFails => outcome' # "returned"
  BY DEF MappingFails
<1>5. ASSUME NEW start, NEW stop, NEW rate, Retrieve(start, stop, rate)
      PROVE  pc' # "done"
  BY <1>5 DEF Retrieve
<1>6. ASSUME NEW found, Query(found) PROVE pc' # "done"
  BY <1>6 DEF Query
<1>7. ASSUME NEW flawed, Flaw(flawed) PROVE pc' # "done"
  BY <1>7 DEF Flaw
<1>8. \A i, j : Repeat(i) \/ Spoil(i) \/ Swap(i, j) \/ Misplace(i) => pc' # "done"
  BY <1>7 DEF Repeat, Spoil, Swap, Misplace
<1> QED
  BY <1>1, <1>2, <1>3, <1>4, <1>5, <1>6, <1>8 DEF Next

LEMMA Inductive == Spec => []IInv
<1>1. Init => IInv
  <2>1. Init => EntriesOK
    BY DEF Init, EntriesOK
  <2> QED
    BY <2>1 DEF Init, IInv, RangesOK, CheckedOK
<1>2. IInv /\ [Next]_vars => IInv'
  BY PulseIdsAssumption, EntriesKept, RangesKept, CheckedKept DEF IInv
<1> QED
  BY <1>1, <1>2, PTL DEF Spec

(* Whatever range and rate are requested, also from pulse 0 or before it:   *)
(* the range of the write requests has the requested pulses of the beam and *)
(* no others and reaches no further than one pulse to either side.  The     *)
(* detectors', if there is one of them, begins and ends with a requested    *)
(* pulse of the beam and lacks none but pulse 0 (retrieve_from_buffers).    *)
THEOREM RangesAligned == Spec => []RangesAgree
<1>1. IInv => RangesAgree
  BY RangesAgreeOfInv DEF IInv
<1> QED
  BY <1>1, Inductive, PTL

-----------------------------------------------------------------------------
(* The pipeline's output.                                                   *)

(* store_dap_info stores a line of a requested pulse of the beam wherever   *)
(* the pipeline wrote it, and no line of another; pulse 0 excepted.         *)
THEOREM DapLinesStored == Spec => []DapLinesComplete
<1>1. ASSUME IInv, pc = "file", Selected(request, request.rate) # {}
      PROVE  {i \in DapLines : Ids[i] % request.rate = 0 /\ Ids[i] \notin Lost}
               = {i \in DOMAIN Ids : Ids[i] \in Selected(request, request.rate) \ Lost}
  <2>1. PICK wanted : wanted = Selected(request, request.rate)
    OBVIOUS
  <2>2. DapLines = {i \in DOMAIN Ids : Ids[i] \in detectors.start..detectors.stop}
    BY DEF DapLines, DapEndings
  <2>3. /\ {detectors.start, detectors.stop} \subseteq wanted
        /\ wanted \ Lost \subseteq detectors.start..detectors.stop
    BY <1>1, <2>1, RangesAgreeOfInv DEF IInv, RangesAgree
  <2>4. \A p \in wanted : p % request.rate = 0
    BY <2>1 DEF Selected
  <2>5. ASSUME NEW p \in detectors.start..detectors.stop, p % request.rate = 0
        PROVE  p \in wanted
    <3>1. request.start \in Int /\ request.stop \in Int
      BY <1>1 DEF IInv, RangesOK
    <3>2. detectors.start \in request.start..request.stop
          /\ detectors.stop \in request.start..request.stop
      BY <2>1, <2>3 DEF Selected
    <3> QED
      BY <2>1, <2>5, <3>1, <3>2 DEF Selected
  <2> QED
    BY <2>1, <2>2, <2>3, <2>4, <2>5
<1>2. IInv => DapLinesComplete
  BY <1>1 DEF DapLinesComplete
<1> QED
  BY <1>2, Inductive, PTL

-----------------------------------------------------------------------------
(* The writer's check.                                                      *)

(* Entries are as many as their pulses if and only if no two are of one.    *)
LEMMA CountIsExact ==
  ASSUME NEW n \in Nat, NEW ids, DOMAIN ids = 1..n
  PROVE  /\ IsFiniteSet(Elements(ids))
         /\ Cardinality(Elements(ids)) = n
              <=> ~\E i, j \in 1..n : i < j /\ ids[i] = ids[j]
<1>1. PICK S : S = Elements(ids)
  OBVIOUS
<1>2. PICK f : f = [i \in 1..n |-> ids[i]]
  OBVIOUS
<1>3. f \in Surjection(1..n, S)
  BY <1>1, <1>2 DEF Surjection, Elements
<1>4. IsFiniteSet(1..n) /\ Cardinality(1..n) = n
  <2>1. IF 1 > n THEN n = 0 ELSE n - 1 + 1 = n
    OBVIOUS
  <2> QED
    BY <2>1, FS_Interval
<1>5. IsFiniteSet(S)
  BY <1>3, <1>4, FS_Surjection
<1>6. ASSUME Cardinality(S) = n, NEW i \in 1..n, NEW j \in 1..n, i < j
      PROVE  ids[i] # ids[j]
  <2>1. f \in Injection(1..n, S)
    BY <1>3, <1>4, <1>6, FS_SurjSameCardinalityImpliesInj
  <2>2. f[i] = f[j] => i = j
    BY <2>1 DEF Injection, IsInjective
  <2> QED
    BY <1>2, <1>6, <2>2
<1>7. ASSUME \A i, j \in 1..n : i < j => ids[i] # ids[j]
      PROVE  Cardinality(S) = n
  <2>1. \A i, j \in 1..n : f[i] = f[j] => i = j
    <3>1. \A i, j \in 1..n : i = j \/ i < j \/ j < i
      OBVIOUS
    <3> QED
      BY <1>2, <1>7, <3>1
  <2>2. f \in [1..n -> S]
    BY <1>3 DEF Surjection
  <2>3. f \in Injection(1..n, S)
    BY <2>1, <2>2 DEF Injection, IsInjective
  <2> QED
    BY <1>3, <1>4, <2>3, FS_Surjection
<1> QED
  BY <1>1, <1>5, <1>6, <1>7

LEMMA KeptIsPrefix ==
  ASSUME NEW ids \in SUBSET Int, RangesOK, pc # "request"
  PROVE  IsPrefix(InOrder(ids), InOrder(ids))
<1>1. InOrder(ids) \in Seq(Int)
  BY AdjustedEnds, KeptPulses DEF InOrder
<1> QED
  BY <1>1 DEF IsPrefix

(* The writer logs nothing of a channel exactly when its file has every     *)
(* pulse of the range once and no other, whatever their order; it then has  *)
(* all requested pulses of the beam (check_data_consistency).               *)
THEOREM WriterCheckExact == Spec => []WriterCheckIsExact
<1>1. SUFFICES ASSUME IInv, PulseIdsAssumption, pc = "done", outcome = "returned"
               PROVE  WriterCheckIsExact
  BY PulseIdsAssumption, Inductive, PTL DEF WriterCheckIsExact
<1>2. logged = Errors
  BY <1>1 DEF IInv, CheckedOK
<1>3. PICK n \in Nat : n = Len(entries) /\ DOMAIN entries = 1..n
  BY <1>1 DEF IInv, EntriesOK
<1>4. DOMAIN Ids = 1..n /\ Elements(Ids) = Raw
  BY <1>3 DEF Ids, Elements, Raw
<1>5. Raw \in SUBSET Int
  <2>1. \A i \in DOMAIN entries : entries[i] \in Entry
    BY <1>1 DEF IInv, EntriesOK
  <2>2. \A i \in DOMAIN entries : entries[i].id \in Int
    BY <2>1 DEF Entry
  <2> QED
    BY <2>2 DEF Raw
<1>6. PICK a \in Int, b \in Int : a = adjusted.start /\ b = adjusted.stop /\ a =< b
  BY <1>1, AdjustedEnds DEF IInv
<1>7. Expected = a..b /\ IsFiniteSet(Expected) /\ Expected \in SUBSET Int
  <2>1. Expected = a..b
    BY <1>6 DEF Expected
  <2>2. IsFiniteSet(a..b)
    BY FS_Interval
  <2>3. a..b \in SUBSET Int
    OBVIOUS
  <2> QED
    BY <2>1, <2>2, <2>3
<1>8. IsFiniteSet(Raw)
      /\ (~Duplicates <=> ~\E i, j \in DOMAIN Ids : i < j /\ Ids[i] = Ids[j])
  BY <1>3, <1>4, CountIsExact DEF Duplicates
<1>9. Raw = Expected => Matched = Expected
  BY DEF Matched
<1>10. Expected \subseteq Raw => Monotonic
  <2>1. SUFFICES ASSUME Expected \subseteq Raw PROVE Monotonic
    OBVIOUS
  <2>2. Matched = Expected
    BY <2>1 DEF Matched
  <2> QED
    BY <1>1, <1>7, <2>2, KeptIsPrefix DEF Monotonic, IInv
<1>11. ASSUME Errors = {} PROVE Raw = Expected /\ ~Duplicates /\ present
  <2>0. present
    BY <1>11 DEF Errors
  <2>1. /\ ~\E p \in Raw : p < a
        /\ ~\E p \in Raw : p > b
        /\ ~Duplicates
        /\ Cardinality(Matched) = Cardinality(Expected)
    BY <1>6, <1>11, <2>0 DEF Errors
  <2>2. Raw \subseteq Expected
    BY <1>5, <1>6, <1>7, <2>1
  <2>3. Matched \subseteq Expected
    BY DEF Matched
  <2>4. Matched = Expected
    BY <1>7, <2>1, <2>3, FS_Subset
  <2> QED
    BY <2>0, <2>1, <2>2, <2>4 DEF Matched
<1>12. ASSUME Raw = Expected, ~Duplicates PROVE Errors = {}
  <2>1. Matched = Expected /\ Monotonic
    BY <1>9, <1>10, <1>12
  <2>2. \A p \in Raw : ~(p < a) /\ ~(p > b)
    BY <1>7, <1>12
  <2>3. a \in Matched /\ b \in Matched
    BY <1>6, <1>7, <2>1
  <2>4. present
    <3>1. Raw # {}
      BY <1>6, <1>7, <1>12
    <3> QED
      BY <1>1, <3>1 DEF IInv, EntriesOK, Raw
  <2> QED
    BY <1>6, <1>12, <2>1, <2>2, <2>3, <2>4 DEF Errors
<1>13. logged = {} => present /\ Selected(request, request.rate) \subseteq Raw
  <2>1. Selected(request, request.rate) \subseteq Expected
    BY <1>1, RangesAgreeOfInv DEF IInv, RangesAgree, Expected, Selected
  <2> QED
    BY <1>2, <1>11, <2>1
<1>14. "monotonic" \in logged => Selected(adjusted, 1) \ Raw # {}
  <2>1. SUFFICES ASSUME "monotonic" \in Errors PROVE ~(Expected \subseteq Raw)
    <3>1. \A p \in Expected : p % 1 = 0
      BY <1>7
    <3> QED
      BY <1>2, <3>1 DEF Selected, Expected
  <2>2. ~Monotonic
    BY <2>1 DEF Errors
  <2> QED
    BY <1>10, <2>2
<1> QED
  BY <1>2, <1>8, <1>11, <1>12, <1>13, <1>14 DEF WriterCheckIsExact

-----------------------------------------------------------------------------
(* The user's check.                                                        *)

LEMMA ExpectedOfClient ==
  ASSUME RangesOK, pc # "request"
  PROVE  /\ ClientExpected \in Seq(Int)
         /\ Ascending(ClientExpected)
         /\ Elements(ClientExpected) = Selected(request, request.rate)
<1>1. PICK a \in Int, b \in Int : a = request.start /\ b = request.stop
  BY DEF RangesOK
<1>2. PICK good \in SUBSET Int : good = Selected(request, request.rate)
  <2>1. a..b \in SUBSET Int
    OBVIOUS
  <2> QED
    BY <1>1, <2>1 DEF Selected
<1>3. good \cap (a..b) = good
  BY <1>1, <1>2 DEF Selected
<1>4. ClientExpected = Kept(Pulses(a, b), good)
  BY <1>1, <1>2 DEF ClientExpected
<1> QED
  BY <1>2, <1>3, <1>4, KeptPulses

(* The comparison of numbers, ends and places comes to what it is for.      *)
LEMMA AgreesIsExact ==
  ASSUME RangesOK, pc # "request", NEW s \in Seq(Int)
  PROVE  Agrees(s, DOMAIN s) <=> /\ Selected(request, request.rate) # {}
                                 /\ Elements(s) = Selected(request, request.rate)
                                 /\ Ascending(s)
<1>1. PICK e : e = ClientExpected
  OBVIOUS
<1>2. /\ e \in Seq(Int) /\ Ascending(e)
      /\ Elements(e) = Selected(request, request.rate)
  BY <1>1, ExpectedOfClient
<1>3. DOMAIN s = 1..Len(s) /\ Len(s) \in Nat /\ DOMAIN e = 1..Len(e) /\ Len(e) \in Nat
  BY <1>2
<1>4. ASSUME Agrees(s, DOMAIN s) PROVE s = e /\ Elements(s) # {}
  <2>1. Len(s) = Len(e) /\ s # <<>> /\ \A i \in DOMAIN s : s[i] = e[i]
    BY <1>1, <1>4 DEF Agrees
  <2>2. s \in [1..Len(s) -> Int] /\ e \in [1..Len(s) -> Int]
    BY <1>2, <2>1
  <2>3. s = e
    BY <1>3, <2>1, <2>2
  <2>4. 1 \in DOMAIN s
    BY <1>3, <2>1
  <2> QED
    BY <2>3, <2>4 DEF Elements
<1>5. ASSUME Elements(s) # {}, Elements(s) = Elements(e), Ascending(s)
      PROVE  Agrees(s, DOMAIN s)
  <2>1. s \in Seq(Int) /\ e \in Seq(Int)
    <3>1. Nat \subseteq Int
      OBVIOUS
    <3> QED
      BY <1>2, <3>1, SeqOfMore
  <2>2. s = e
    BY <1>2, <1>5, <2>1, SameAscending
  <2>3. s # <<>>
    BY <1>5 DEF Elements
  <2> QED
    BY <1>1, <2>2, <2>3 DEF Agrees
<1> QED
  BY <1>2, <1>4, <1>5

LEMMA IdsType ==
  ASSUME EntriesOK
  PROVE  Ids \in Seq(Int) /\ DOMAIN Ids = DOMAIN entries /\ DOMAIN entries = 1..Len(entries)
         /\ Len(entries) \in Nat
<1>1. DOMAIN entries = 1..Len(entries) /\ Len(entries) \in Nat
      /\ \A i \in DOMAIN entries : entries[i] \in Entry
  BY DEF EntriesOK
<1>2. Ids \in [1..Len(entries) -> Int]
  BY <1>1 DEF Ids, Entry
<1> QED
  BY <1>1, <1>2

(* Of a channel, the places that count and those that are kept are the same.*)
LEMMA PresentIsOrdered ==
  ASSUME EntriesOK, NEW ids, ids = [i \in DOMAIN Present |-> Present[i].id],
         NEW places, places = {i \in Sound : Ids[i] % request.rate = 0}
  PROVE  /\ ids \in Seq(Int)
         /\ Elements(ids) = {Ids[i] : i \in places}
         /\ Ascending(ids) <=> \A i, j \in places : i < j => Ids[i] < Ids[j]
<1>1. PICK good : good = {entries[i] : i \in places}
  OBVIOUS
<1>2. PICK k : k = Present
  OBVIOUS
<1>3. k = Kept(entries, good)
  BY <1>1, <1>2 DEF Present
<1>4. PICK n \in Nat : n = Len(entries) /\ DOMAIN entries = 1..n /\ DOMAIN Ids = 1..n
  BY IdsType
<1>5. \A m \in 1..n : Ids[m] = entries[m].id /\ entries[m] \in Entry /\ Ids[m] \in Int
  <2>1. \A m \in DOMAIN entries : entries[m] \in Entry
    BY DEF EntriesOK
  <2> QED
    BY <1>4, <2>1 DEF Ids, Entry
<1>6. places \subseteq 1..n
  BY <1>4 DEF Sound
<1>7. \A m \in 1..n : entries[m] \in good <=> m \in places
  <2>1. ASSUME NEW m \in 1..n, entries[m] \in good PROVE m \in places
    <3>1. PICK i \in places : entries[m] = entries[i]
      BY <1>1, <2>1
    <3>2. entries[m].ok /\ Ids[m] % request.rate = 0
      BY <1>5, <1>6, <3>1 DEF Sound
    <3> QED
      BY <1>4, <3>2 DEF Sound
  <2> QED
    BY <1>1, <2>1
<1>8. PICK h : Places(k, entries, good, n, h)
  BY <1>3, <1>4, KeptPlaces
<1>9. PICK l \in Nat : l = Len(k) /\ DOMAIN k = 1..l
  <2>1. k \in Seq({entries[i] : i \in 1..n})
    BY <1>8 DEF Places
  <2> QED
    BY <2>1
<1>10. /\ h \in [1..l -> 1..n]
       /\ \A i, j \in 1..l : i < j => h[i] < h[j]
       /\ \A i \in 1..l : k[i] = entries[h[i]] /\ entries[h[i]] \in good
       /\ \A m \in 1..n : entries[m] \in good => \E i \in 1..l : h[i] = m
  BY <1>8, <1>9 DEF Places
<1>11. DOMAIN ids = 1..l /\ \A i \in 1..l : ids[i] = Ids[h[i]] /\ h[i] \in places
  <2>1. DOMAIN ids = 1..l /\ \A i \in 1..l : ids[i] = k[i].id
    BY <1>2, <1>9
  <2>2. ASSUME NEW i \in 1..l PROVE ids[i] = Ids[h[i]] /\ h[i] \in places
    <3>1. h[i] \in 1..n /\ k[i] = entries[h[i]] /\ entries[h[i]] \in good
      BY <1>10
    <3> QED
      BY <1>5, <1>7, <2>1, <3>1
  <2> QED
    BY <2>1, <2>2
<1>12. \A m \in places : \E i \in 1..l : h[i] = m
  BY <1>6, <1>7, <1>10
<1>13. ids \in Seq(Int)
  <2>1. \A i \in 1..l : ids[i] \in Int
    BY <1>5, <1>6, <1>11
  <2>2. ids \in [1..l -> Int]
    BY <1>2, <1>9, <2>1
  <2> QED
    BY <2>2
<1>14. Elements(ids) = {Ids[i] : i \in places}
  BY <1>11, <1>12 DEF Elements
<1>15. ASSUME Ascending(ids), NEW i \in places, NEW j \in places, i < j
       PROVE  Ids[i] < Ids[j]
  <2>1. PICK c \in 1..l : h[c] = i
    BY <1>12
  <2>2. PICK d \in 1..l : h[d] = j
    BY <1>12
  <2>3. c < d
    <3>1. i \in Int /\ j \in Int /\ c \in Int /\ d \in Int
      BY <1>6
    <3>2. ~(j < i) /\ i # j
      BY <1>15, <3>1
    <3>3. ~(d < c) /\ c # d
      BY <1>10, <2>1, <2>2, <3>2
    <3> QED
      BY <3>1, <3>3
  <2>4. ids[c] < ids[d]
    BY <1>11, <1>15, <2>3 DEF Ascending
  <2> QED
    BY <1>11, <2>1, <2>2, <2>4
<1>16. ASSUME \A i, j \in places : i < j => Ids[i] < Ids[j]
       PROVE  Ascending(ids)
  <2>1. SUFFICES ASSUME NEW c \in 1..l, NEW d \in 1..l, c < d PROVE ids[c] < ids[d]
    BY <1>11 DEF Ascending
  <2> QED
    BY <1>10, <1>11, <1>16, <2>1
<1> QED
  BY <1>13, <1>14, <1>15, <1>16

(* check_consistency finds no problem exactly when the requested pulses of  *)
(* the beam, at least one, are there once, in order and sound; of a channel *)
(* other pulses may be there too.                                           *)
THEOREM ClientChecksExact == Spec => []ClientChecksAreExact
<1>1. SUFFICES ASSUME EntriesOK, RangesOK, pc = "file" PROVE ClientChecksAreExact
  <2>1. IInv => ClientChecksAreExact
    BY <1>1 DEF IInv, ClientChecksAreExact
  <2> QED
    BY <2>1, Inductive, PTL
<1>2. PICK wanted : wanted = Selected(request, request.rate)
  OBVIOUS
<1>3. \A s \in Seq(Int) :
        Agrees(s, DOMAIN s) <=> wanted # {} /\ Elements(s) = wanted /\ Ascending(s)
  BY <1>1, <1>2, AgreesIsExact
<1>4. ChannelPasses <=>
        LET places == {i \in Sound : Ids[i] % request.rate = 0}
        IN  /\ wanted # {}
            /\ wanted = {Ids[i] : i \in places}
            /\ \A i, j \in places : i < j => Ids[i] < Ids[j]
  <2>1. PICK ids : ids = [i \in DOMAIN Present |-> Present[i].id]
    OBVIOUS
  <2>2. PICK places : places = {i \in Sound : Ids[i] % request.rate = 0}
    OBVIOUS
  <2>3. /\ ids \in Seq(Int)
        /\ Elements(ids) = {Ids[i] : i \in places}
        /\ Ascending(ids) <=> \A i, j \in places : i < j => Ids[i] < Ids[j]
    BY <1>1, <2>1, <2>2, PresentIsOrdered
  <2>4. ChannelPasses <=> Agrees(ids, DOMAIN ids)
    BY <2>1 DEF ChannelPasses
  <2> QED
    BY <1>3, <2>2, <2>3, <2>4
<1>5. Agrees(Ids, DOMAIN Ids) <=>
        /\ wanted # {}
        /\ wanted = {Ids[i] : i \in DOMAIN Ids}
        /\ \A i, j \in DOMAIN Ids : i < j => Ids[i] < Ids[j]
  BY <1>1, <1>3, IdsType DEF Elements, Ascending
<1>6. DetectorPasses <=> CameraPasses
  <2>1. DOMAIN Ids = DOMAIN entries
    BY DEF Ids
  <2> QED
    BY <2>1 DEF DetectorPasses, CameraPasses
<1>7. DOMAIN Ids = DOMAIN entries
  BY DEF Ids
<1> QED
  BY <1>2, <1>4, <1>5, <1>6, <1>7 DEF ClientChecksAreExact, CameraPasses
=============================================================================
