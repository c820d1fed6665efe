-------------------------- MODULE BleSessionProofs --------------------------
(***************************************************************************)
(* The session keeps what it promises: the types and capacities, the mark   *)
(* of the write, the order of the replies, and nothing bound while a task   *)
(* may still act.                                                          *)
(***************************************************************************)
EXTENDS BleSession, SequenceTheorems, WellFoundedInduction, TLAPS

-----------------------------------------------------------------------------
(* Induction over sets of numbers and of sequences, from the fact that the  *)
(* natural numbers are well-founded.                                       *)

LessThan == {pair \in Nat \X Nat : pair[1] < pair[2]}

(* Every set of numbers that is not empty has a least. *)
LEMMA LeastNat ==
    ASSUME NEW T \in SUBSET Nat, T # {}
    PROVE  \E m \in T : \A n \in T : m <= n
<1>1. IsWellFoundedOn(LessThan, Nat)
  BY NatLessThanWellFounded DEF OpToRel, LessThan
<1>2. PICK m \in T : \A n \in T : <<n, m>> \notin LessThan
  BY <1>1, WFMin
<1>3. \A n \in T : ~(n < m)
  BY <1>2 DEF LessThan
<1>4. QED
  BY <1>3

(* A set with zero, and with the successor of every number it has, has      *)
(* all numbers.                                                             *)
LEMMA NatSet ==
    ASSUME NEW T, 0 \in T, \A n \in Nat : n \in T => n + 1 \in T
    PROVE  Nat \subseteq T
<1> DEFINE Rest == Nat \ T
<1>1. SUFFICES ASSUME Rest # {} PROVE FALSE
  OBVIOUS
<1>2. PICK m \in Rest : \A n \in Rest : m <= n
  BY <1>1, LeastNat
<1>3. m \in Nat /\ m # 0 /\ m - 1 \in Nat
  BY <1>2
<1>4. m - 1 \notin Rest
  BY <1>2, <1>3
<1>5. m - 1 \in T /\ m = (m - 1) + 1
  BY <1>3, <1>4
<1>6. m \in T
  BY <1>3, <1>5
<1>7. QED
  BY <1>6

(* A set with the empty sequence, and with every sequence one longer than   *)
(* one it has, has all sequences.                                           *)
LEMMA SeqSet ==
    ASSUME NEW S, NEW T, <<>> \in T,
           \A s \in Seq(S), e \in S : s \in T => Append(s, e) \in T
    PROVE  Seq(S) \subseteq T
<1> DEFINE Short == {n \in Nat : \A s \in Seq(S) : Len(s) = n => s \in T}
<1>1. 0 \in Short
  BY EmptySeq
<1>2. ASSUME NEW n \in Nat, n \in Short, NEW s \in Seq(S), Len(s) = n + 1
      PROVE  s \in T
  <2>1. s # <<>>
    BY <1>2, EmptySeq
  <2>2. PICK r \in Seq(S), e \in S : s = Append(r, e)
    BY <2>1, SequenceEmptyOrAppend
  <2>3. Len(r) = n
    BY <1>2, <2>2, AppendProperties, LenProperties
  <2>4. QED
    BY <1>2, <2>2, <2>3
<1>3. \A n \in Nat : n \in Short => n + 1 \in Short
  BY <1>2
<1> HIDE DEF Short
<1>4. Nat \subseteq Short
  BY <1>1, <1>3, NatSet
<1>5. QED
  BY <1>4, LenProperties DEF Short

-----------------------------------------------------------------------------
(* What Of computes, unit by unit. *)

(* One unit more at each step, as in the definition of Of. *)
Scan(l, units, f, m) ==
    [n \in 0..m |-> IF n < 2 THEN <<>>
                    ELSE IF Fits(units[n - 1], units[n]) /\ LaneOf[units[n].frame] = l
                         THEN Append(f[n - 1], units[n].frame)
                         ELSE f[n - 1]]

(* There is such a function, however many units there are. *)
LEMMA ScanExists ==
    ASSUME NEW l, NEW units, NEW m \in Nat
    PROVE  \E f : f = Scan(l, units, f, m)
<1> DEFINE T == {k \in Nat : \E f : f = Scan(l, units, f, k)}
<1>1. 0 \in T
  <2> DEFINE f == [n \in 0..0 |-> <<>>]
  <2>1. f = Scan(l, units, f, 0)
    BY DEF Scan
  <2>2. QED
    BY <2>1
<1>2. ASSUME NEW k \in Nat, k \in T PROVE k + 1 \in T
  <2>1. PICK f : f = Scan(l, units, f, k)
    BY <1>2
  <2> DEFINE g == [n \in 0..(k + 1) |-> IF n <= k THEN f[n] ELSE Scan(l, units, f, k + 1)[n]]
  <2>2. \A n \in 0..(k + 1) : g[n] = Scan(l, units, f, k + 1)[n]
    <3>1. ASSUME NEW n \in 0..k PROVE f[n] = Scan(l, units, f, k + 1)[n]
      <4>1. f[n] = Scan(l, units, f, k)[n] /\ n \in 0..(k + 1)
        BY <2>1
      <4>2. QED
        BY <4>1 DEF Scan
    <3>2. QED
      BY <3>1
  <2>3. \A n \in 0..k : g[n] = f[n]
    OBVIOUS
  <2>4. \A n \in 0..(k + 1) : Scan(l, units, f, k + 1)[n] = Scan(l, units, g, k + 1)[n]
    <3> HIDE DEF g
    <3>1. ASSUME NEW n \in 0..(k + 1), ~(n < 2) PROVE f[n - 1] = g[n - 1]
      BY <2>3, <3>1
    <3>2. QED
      BY <3>1 DEF Scan
  <2>5. g = Scan(l, units, g, k + 1)
    BY <2>2, <2>4 DEF Scan
  <2>6. QED
    BY <2>5
<1> HIDE DEF T
<1>3. Nat \subseteq T
  BY <1>1, <1>2, NatSet
<1>4. QED
  BY <1>3 DEF T

(* Two scans agree where their units do.                                    *)
LEMMA ScanAgrees ==
    ASSUME NEW l, NEW u, NEW v, NEW m \in Nat, NEW k \in Nat,
           NEW f, f = Scan(l, u, f, m), NEW g, g = Scan(l, v, g, k),
           m <= k, \A i \in 1..m : u[i] = v[i]
    PROVE  f[m] = g[m]
<1> DEFINE T == {n \in Nat : n <= m => f[n] = g[n]}
<1>0. \A n \in 0..m : n \in 0..k
  OBVIOUS
<1>1. 0 \in T
  <2>1. 0 \in 0..m /\ 0 \in 0..k /\ 0 < 2
    OBVIOUS
  <2>2. f[0] = <<>> /\ g[0] = <<>>
    BY <2>1 DEF Scan
  <2>3. QED
    BY <2>2
<1>2. ASSUME NEW n \in Nat, n \in T PROVE n + 1 \in T
  <2>1. SUFFICES ASSUME n + 1 <= m PROVE f[n + 1] = g[n + 1]
    OBVIOUS
  <2>2. n + 1 \in 0..m /\ n + 1 \in 0..k /\ (n + 1) - 1 = n /\ f[n] = g[n] /\ u[n + 1] = v[n + 1]
    BY <1>2, <2>1
  <2>3. n + 1 >= 2 => u[n] = v[n]
    BY <2>1
  <2>4. f[n + 1] = Scan(l, u, f, m)[n + 1] /\ g[n + 1] = Scan(l, v, g, k)[n + 1]
    OBVIOUS
  <2>5. QED
    BY <2>2, <2>3, <2>4 DEF Scan
<1> HIDE DEF T
<1>3. m \in T
  BY <1>1, <1>2, NatSet
<1>4. QED
  BY <1>3 DEF T

(* Of is the last value of one. *)
LEMMA OfScan ==
    ASSUME NEW l, NEW units, Len(units) \in Nat
    PROVE  \E f : f = Scan(l, units, f, Len(units)) /\ Of(l, units) = f[Len(units)]
<1> DEFINE f == CHOOSE g : g = Scan(l, units, g, Len(units))
<1>1. Of(l, units) = f[Len(units)]
  BY DEF Of, Scan
<1>2. f = Scan(l, units, f, Len(units))
  BY ScanExists
<1>3. QED
  BY <1>1, <1>2

(* No units, no frames. *)
LEMMA OfEmpty == ASSUME NEW l PROVE Of(l, <<>>) = <<>>
<1>1. PICK f : f = Scan(l, <<>>, f, 0) /\ Of(l, <<>>) = f[0]
  BY OfScan, EmptySeq
<1>2. QED
  BY <1>1 DEF Scan

(* One unit more is one frame more at most: the one that it completes.      *)
LEMMA OfAppend ==
    ASSUME NEW S, NEW units \in Seq(S), NEW e \in S, NEW l
    PROVE  Of(l, Append(units, e)) =
             IF units # <<>> /\ Fits(Last(units), e) /\ LaneOf[e.frame] = l
             THEN Append(Of(l, units), e.frame)
             ELSE Of(l, units)
<1> DEFINE more == Append(units, e)
           n == Len(units)
<1>1. /\ n \in Nat /\ Len(more) = n + 1
      /\ \A i \in 1..n : more[i] = units[i]
      /\ more[n + 1] = e
  BY AppendProperties, LenProperties
<1> HIDE DEF more
<1>2. PICK f : f = Scan(l, units, f, n) /\ Of(l, units) = f[n]
  BY <1>1, OfScan
<1>3. PICK g : g = Scan(l, more, g, n + 1) /\ Of(l, more) = g[n + 1]
  BY <1>1, OfScan
<1>4. f[n] = g[n]
  BY <1>1, <1>2, <1>3, ScanAgrees
<1>5. n = 0 <=> units = <<>>
  BY EmptySeq
<1>6. g[n + 1] = IF n + 1 < 2 THEN <<>>
                 ELSE IF Fits(more[n], e) /\ LaneOf[e.frame] = l
                      THEN Append(g[n], e.frame) ELSE g[n]
  <2>1. n + 1 \in 0..(n + 1) /\ (n + 1) - 1 = n
    BY <1>1
  <2>2. g[n + 1] = Scan(l, more, g, n + 1)[n + 1]
    BY <1>3
  <2>3. QED
    BY <1>1, <2>1, <2>2 DEF Scan
<1>7. CASE n = 0
  <2>1. Of(l, units) = <<>>
    BY <1>5, <1>7, OfEmpty
  <2>2. QED
    BY <1>3, <1>5, <1>6, <1>7, <2>1 DEF more
<1>8. CASE n # 0
  <2>1. n \in 1..n /\ ~(n + 1 < 2)
    BY <1>1, <1>8
  <2>2. more[n] = Last(units)
    BY <1>1, <2>1 DEF Last
  <2>3. QED
    BY <1>2, <1>3, <1>4, <1>5, <1>6, <1>8, <2>1, <2>2 DEF more
<1>9. QED
  BY <1>7, <1>8
-----------------------------------------------------------------------------
(* The units of the frames of a set. *)
UnitOf(S) == [part : {"head"}, frame : S] \cup [part : {"tail"}, frame : S \cup {Error}]

(* Two units that fit are the halves of a frame of the set. *)
LEMMA FitsFrame ==
    ASSUME NEW S \in SUBSET Frame, NEW h \in UnitOf(S), NEW t \in UnitOf(S), Fits(h, t)
    PROVE  h.part = "head" /\ t.part = "tail" /\ t.frame \in S /\ h.frame = t.frame
BY ErrorAssumption DEF UnitOf, Fits

(* The frames that are read are frames of the set: none is made up. *)
LEMMA OfType ==
    ASSUME NEW S \in SUBSET Frame, NEW units \in Seq(UnitOf(S)), NEW l
    PROVE  Of(l, units) \in Seq(S)
<1> DEFINE T == {s \in Seq(UnitOf(S)) : Of(l, s) \in Seq(S)}
<1>1. <<>> \in T
  BY OfEmpty, EmptySeq
<1>2. ASSUME NEW s \in Seq(UnitOf(S)), NEW e \in UnitOf(S), s \in T PROVE Append(s, e) \in T
  <2>1. Append(s, e) \in Seq(UnitOf(S))
    BY AppendProperties
  <2>2. CASE s # <<>> /\ Fits(Last(s), e) /\ LaneOf[e.frame] = l
    <3>1. Last(s) \in UnitOf(S)
      BY <2>2, EmptySeq, ElementOfSeq DEF Last
    <3>2. e.frame \in S
      BY <2>2, <3>1, FitsFrame
    <3>3. Of(l, Append(s, e)) = Append(Of(l, s), e.frame)
      BY <2>2, OfAppend
    <3>4. QED
      BY <1>2, <2>1, <3>2, <3>3, AppendProperties
  <2>3. CASE ~(s # <<>> /\ Fits(Last(s), e) /\ LaneOf[e.frame] = l)
    <3>1. Of(l, Append(s, e)) = Of(l, s)
      BY <2>3, OfAppend
    <3>2. QED
      BY <1>2, <2>1, <3>1
  <2>4. QED
    BY <2>2, <2>3
<1> HIDE DEF T
<1>3. units \in T
  BY <1>1, <1>2, SeqSet
<1>4. QED
  BY <1>3 DEF T

(* The last unit of two sequences of which the second has one.              *)
LEMMA LastOfConcat ==
    ASSUME NEW S, NEW u \in Seq(S), NEW v \in Seq(S), v # <<>>
    PROVE  Last(u \o v) = Last(v) /\ u \o v # <<>>
<1>1. Len(v) \in Nat \ {0} /\ Len(u) \in Nat
  BY EmptySeq, LenProperties
<1>2. /\ Len(u \o v) = Len(u) + Len(v)
      /\ (u \o v)[Len(u) + Len(v)] =
            IF Len(u) + Len(v) <= Len(u) THEN u[Len(u) + Len(v)]
            ELSE v[Len(u) + Len(v) - Len(u)]
  BY <1>1, ConcatProperties
<1>3. Len(u) + Len(v) - Len(u) = Len(v) /\ ~(Len(u) + Len(v) <= Len(u))
  BY <1>1
<1>4. Len(u \o v) # 0
  BY <1>1, <1>2
<1>5. QED
  BY <1>2, <1>3, <1>4, EmptySeq DEF Last

(* To append at the end of the second part is to append to the whole.       *)
LEMMA ConcatAppend ==
    ASSUME NEW S, NEW u \in Seq(S), NEW v \in Seq(S), NEW e \in S
    PROVE  u \o Append(v, e) = Append(u \o v, e)
<1>1. <<e>> \in Seq(S)
  OBVIOUS
<1>2. u \o v \in Seq(S)
  BY ConcatProperties
<1>3. QED
  BY <1>1, <1>2, AppendIsConcat, ConcatAssociative

(* Where no frame is cut in two, the frames of both parts are those of the  *)
(* whole.                                                                  *)
LEMMA OfSplit ==
    ASSUME NEW S \in SUBSET Frame, NEW u \in Seq(UnitOf(S)), NEW v \in Seq(UnitOf(S)), NEW l,
           u # <<>> /\ v # <<>> => ~Fits(Last(u), Head(v))
    PROVE  Of(l, u \o v) = Of(l, u) \o Of(l, v)
<1> DEFINE U == UnitOf(S)
           Cut(s) == u # <<>> /\ s # <<>> => ~Fits(Last(u), Head(s))
           T == {s \in Seq(U) : Cut(s) => Of(l, u \o s) = Of(l, u) \o Of(l, s)}
<1>1. <<>> \in T
  <2>1. u \o <<>> = u
    BY ConcatEmptySeq
  <2>2. Of(l, u) \o <<>> = Of(l, u)
    BY OfType, ConcatEmptySeq
  <2>3. QED
    BY <2>1, <2>2, OfEmpty, EmptySeq
<1>2. ASSUME NEW s \in Seq(U), NEW e \in U, s \in T PROVE Append(s, e) \in T
  <2>1. Append(s, e) \in Seq(U)
    BY AppendProperties
  <2>2. SUFFICES ASSUME Cut(Append(s, e))
                 PROVE  Of(l, u \o Append(s, e)) = Of(l, u) \o Of(l, Append(s, e))
    BY <2>1
  <2>3. u \o s \in Seq(U)
    BY ConcatProperties
  <2>4. Of(l, u \o Append(s, e)) =
          IF u \o s # <<>> /\ Fits(Last(u \o s), e) /\ LaneOf[e.frame] = l
          THEN Append(Of(l, u \o s), e.frame) ELSE Of(l, u \o s)
    <3>1. u \o Append(s, e) = Append(u \o s, e)
      BY ConcatAppend
    <3>2. Of(l, Append(u \o s, e)) =
            IF u \o s # <<>> /\ Fits(Last(u \o s), e) /\ LaneOf[e.frame] = l
            THEN Append(Of(l, u \o s), e.frame) ELSE Of(l, u \o s)
      BY <2>3, OfAppend
    <3>3. QED
      BY <3>1, <3>2
  <2>5. Of(l, Append(s, e)) =
          IF s # <<>> /\ Fits(Last(s), e) /\ LaneOf[e.frame] = l
          THEN Append(Of(l, s), e.frame) ELSE Of(l, s)
    BY OfAppend
  <2>6. CASE s = <<>>
    <3>1. u \o s = u
      BY <2>6, ConcatEmptySeq
    <3>2. Append(s, e) # <<>> /\ Head(Append(s, e)) = e
      BY <2>6, AppendProperties, HeadTailAppend
    <3>3. u # <<>> => ~Fits(Last(u), e)
      BY <2>2, <3>2
    <3>4. Of(l, u \o Append(s, e)) = Of(l, u) /\ Of(l, Append(s, e)) = <<>>
      BY <2>4, <2>5, <2>6, <3>1, <3>3, OfEmpty
    <3>5. Of(l, u) \o <<>> = Of(l, u)
      BY OfType, ConcatEmptySeq
    <3>6. QED
      BY <3>4, <3>5
  <2>7. CASE s # <<>>
    <3>1. Last(u \o s) = Last(s) /\ u \o s # <<>>
      BY <2>7, LastOfConcat
    <3>2. Head(Append(s, e)) = Head(s) /\ Append(s, e) # <<>>
      BY <2>7, HeadTailAppend, AppendProperties
    <3>3. Of(l, u \o s) = Of(l, u) \o Of(l, s)
      BY <1>2, <2>2, <2>7, <3>2
    <3>4. CASE Fits(Last(s), e) /\ LaneOf[e.frame] = l
      <4>1. Last(s) \in U
        BY <2>7, EmptySeq, ElementOfSeq DEF Last
      <4>2. e.frame \in S
        BY <3>4, <4>1, FitsFrame
      <4>3. Of(l, u) \in Seq(S) /\ Of(l, s) \in Seq(S)
        BY OfType
      <4>4. Of(l, u) \o Append(Of(l, s), e.frame) = Append(Of(l, u) \o Of(l, s), e.frame)
        BY <4>2, <4>3, ConcatAppend
      <4>5. QED
        BY <2>4, <2>5, <2>7, <3>1, <3>3, <3>4, <4>4
    <3>5. CASE ~(Fits(Last(s), e) /\ LaneOf[e.frame] = l)
      BY <2>4, <2>5, <2>7, <3>1, <3>3, <3>5
    <3>6. QED
      BY <3>4, <3>5
  <2>8. QED
    BY <2>6, <2>7
<1> HIDE DEF T
<1>3. v \in T
  BY <1>1, <1>2, SeqSet
<1>4. QED
  BY <1>3 DEF T

(* More units before only add frames before.                                *)
LEMMA OfLater ==
    ASSUME NEW S \in SUBSET Frame, NEW u \in Seq(UnitOf(S)), NEW v \in Seq(UnitOf(S)), NEW l
    PROVE  \E x \in Seq(S) : Of(l, u \o v) = x \o Of(l, v)
<1> DEFINE U == UnitOf(S)
           T == {s \in Seq(U) : \E x \in Seq(S) : Of(l, u \o s) = x \o Of(l, s)}
<1>1. <<>> \in T
  <2>1. Of(l, u) \in Seq(S)
    BY OfType
  <2>2. u \o <<>> = u /\ Of(l, u) \o <<>> = Of(l, u)
    BY <2>1, ConcatEmptySeq
  <2>3. QED
    BY <2>1, <2>2, OfEmpty, EmptySeq
<1>2. ASSUME NEW s \in Seq(U), NEW e \in U, s \in T PROVE Append(s, e) \in T
  <2>1. Append(s, e) \in Seq(U)
    BY AppendProperties
  <2>2. SUFFICES \E x \in Seq(S) : Of(l, u \o Append(s, e)) = x \o Of(l, Append(s, e))
    BY <2>1
  <2>3. u \o s \in Seq(U) /\ u \o Append(s, e) \in Seq(U)
    BY <2>1, ConcatProperties
  <2>4. PICK x \in Seq(S) : Of(l, u \o s) = x \o Of(l, s)
    BY <1>2
  <2>5. CASE s = <<>>
    <3>1. Of(l, u \o Append(s, e)) \in Seq(S)
      BY <2>3, OfType
    <3>2. Of(l, Append(s, e)) = <<>>
      BY <2>5, OfAppend, OfEmpty
    <3>3. Of(l, u \o Append(s, e)) \o <<>> = Of(l, u \o Append(s, e))
      BY <3>1, ConcatEmptySeq
    <3>4. QED
      BY <3>1, <3>2, <3>3
  <2>6. CASE s # <<>>
    <3>1. Last(u \o s) = Last(s) /\ u \o s # <<>>
      BY <2>6, LastOfConcat
    <3>2. Of(l, u \o Append(s, e)) =
            IF Fits(Last(s), e) /\ LaneOf[e.frame] = l
            THEN Append(Of(l, u \o s), e.frame) ELSE Of(l, u \o s)
      <4>1. u \o Append(s, e) = Append(u \o s, e)
        BY ConcatAppend
      <4>2. Of(l, Append(u \o s, e)) =
              IF u \o s # <<>> /\ Fits(Last(u \o s), e) /\ LaneOf[e.frame] = l
              THEN Append(Of(l, u \o s), e.frame) ELSE Of(l, u \o s)
        BY <2>3, OfAppend
      <4>3. QED
        BY <3>1, <4>1, <4>2
    <3>3. Of(l, Append(s, e)) =
            IF Fits(Last(s), e) /\ LaneOf[e.frame] = l
            THEN Append(Of(l, s), e.frame) ELSE Of(l, s)
      BY <2>6, OfAppend
    <3>4. CASE Fits(Last(s), e) /\ LaneOf[e.frame] = l
      <4>1. Last(s) \in U
        BY <2>6, EmptySeq, ElementOfSeq DEF Last
      <4>2. e.frame \in S
        BY <3>4, <4>1, FitsFrame
      <4>3. x \o Append(Of(l, s), e.frame) = Append(x \o Of(l, s), e.frame)
        BY <4>2, OfType, ConcatAppend
      <4>4. QED
        BY <2>4, <3>2, <3>3, <3>4, <4>3
    <3>5. CASE ~(Fits(Last(s), e) /\ LaneOf[e.frame] = l)
      BY <2>4, <3>2, <3>3, <3>5
    <3>6. QED
      BY <3>4, <3>5
  <2>7. QED
    BY <2>5, <2>6
<1> HIDE DEF T
<1>3. v \in T
  BY <1>1, <1>2, SeqSet
<1>4. QED
  BY <1>3 DEF T

(* A frame that is sent whole comes after all others of its lane.           *)
LEMMA OfWhole ==
    ASSUME NEW S \in SUBSET Frame, NEW units \in Seq(UnitOf(S)), NEW f \in S, NEW l
    PROVE  Of(l, units \o Whole(f)) =
             IF LaneOf[f] = l THEN Append(Of(l, units), f) ELSE Of(l, units)
<1> DEFINE h == [part |-> "head", frame |-> f]
           t == [part |-> "tail", frame |-> f]
           more == Append(units, h)
<1>1. h \in UnitOf(S) /\ t \in UnitOf(S) /\ Fits(h, t) /\ t.frame = f
      /\ \A u : ~Fits(u, h)
  BY DEF UnitOf, Fits
<1>2. units \o Whole(f) = Append(more, t)
  BY <1>1 DEF Whole
<1>3. more \in Seq(UnitOf(S)) /\ more # <<>> /\ Last(more) = h
  BY <1>1, AppendProperties, LenProperties DEF Last
<1>4. Of(l, more) = Of(l, units)
  BY <1>1, OfAppend
<1> HIDE DEF h, t, more
<1>5. Of(l, Append(more, t)) =
        IF LaneOf[f] = l THEN Append(Of(l, more), f) ELSE Of(l, more)
  BY <1>1, <1>3, OfAppend
<1>6. QED
  BY <1>2, <1>4, <1>5

-----------------------------------------------------------------------------
(* Frames that a session may hold: in the queues, the buffer and the air.   *)
Only(S, q, b, a) ==
    /\ q \in [Lane -> Seq(S \cup {Error})]
    /\ b \in Seq(UnitOf(S))
    /\ a \in Seq(UnitOf(S))

Holds(S) == Only(S, queue, buffer, air)
HoldsNext(S) == Only(S, queue', buffer', air')

(* What is of a set is of every larger set. *)
LEMMA OnlyMonotone ==
    ASSUME NEW S, NEW R, S \subseteq R, NEW q, NEW b, NEW a, Only(S, q, b, a)
    PROVE  Only(R, q, b, a)
<1>1. UnitOf(S) \subseteq UnitOf(R) /\ S \cup {Error} \subseteq R \cup {Error}
  BY DEF UnitOf
<1>2. ASSUME NEW l \in Lane PROVE q[l] \in Seq(R \cup {Error})
  BY <1>1, SeqMonotonic DEF Only
<1>3. b \in Seq(UnitOf(R)) /\ a \in Seq(UnitOf(R))
  BY <1>1, SeqMonotonic DEF Only
<1>4. q \in [Lane -> Seq(R \cup {Error})]
  BY <1>2 DEF Only
<1>5. QED
  BY <1>3, <1>4 DEF Only

(* A queue or a sequence of units that is cut short holds no more.          *)
LEMMA SuffixType ==
    ASSUME NEW S, NEW s \in Seq(S), NEW n \in Nat, n <= Len(s)
    PROVE  /\ SubSeq(s, 1, n) \in Seq(S)
           /\ SubSeq(s, n + 1, Len(s)) \in Seq(S)
<1>1. Len(s) \in Nat /\ \A i \in 1..Len(s) : s[i] \in S
  BY LenProperties, ElementOfSeq
<1>2. \A i \in 1..n : s[i] \in S
  BY <1>1
<1>3. \A i \in (n + 1)..Len(s) : s[i] \in S
  BY <1>1
<1>4. QED
  BY <1>1, <1>2, <1>3, SubSeqProperties

(* FrameBuffer keeps less than a frame. *)
LEMMA RemainsType ==
    ASSUME NEW S, NEW units \in Seq(S)
    PROVE  Remains(units) \in Seq(S) /\ Len(Remains(units)) < 2
<1>1. CASE Len(units) % 2 = 1
  <2>1. Len(units) \in 1..Len(units)
    BY <1>1, LenProperties
  <2>2. Last(units) \in S
    BY <2>1, ElementOfSeq DEF Last
  <2>3. QED
    BY <1>1, <2>2 DEF Remains
<1>2. CASE Len(units) % 2 # 1
  BY <1>2, EmptySeq DEF Remains
<1>3. QED
  BY <1>1, <1>2

(* An alarm is one error in each queue. *)
LEMMA AlarmType ==
    ASSUME NEW S
    PROVE  Alarm \in [Lane -> Seq(S \cup {Error})] /\ \A l \in Lane : Len(Alarm[l]) = 1
BY DEF Alarm

(* Sorting adds frames of the set to the queues. *)
LEMMA SortedType ==
    ASSUME NEW S \in SUBSET Frame, queue \in [Lane -> Seq(S \cup {Error})],
           NEW units \in Seq(UnitOf(S))
    PROVE  Sorted(units) \in [Lane -> Seq(S \cup {Error})]
<1>1. ASSUME NEW l \in Lane PROVE queue[l] \o Of(l, units) \in Seq(S \cup {Error})
  <2>1. Of(l, units) \in Seq(S \cup {Error})
    BY OfType, SeqMonotonic
  <2>2. QED
    BY <2>1, ConcatProperties
<1>2. QED
  BY <1>1 DEF Sorted

(* The notification callback makes up no frame. *)
LEMMA ReceiveHolds ==
    ASSUME NEW S \in SUBSET Frame, Holds(S), NEW n \in 1..MaxChunk, Receive(n)
    PROVE  HoldsNext(S)
<1> DEFINE units == buffer \o SubSeq(air, 1, n)
<1>1. n \in Nat /\ n <= Len(air)
  BY SizeAssumption DEF Receive
<1>2. SubSeq(air, 1, n) \in Seq(UnitOf(S)) /\ SubSeq(air, n + 1, Len(air)) \in Seq(UnitOf(S))
  BY <1>1, SuffixType DEF Holds, Only
<1>3. units \in Seq(UnitOf(S))
  BY <1>2, ConcatProperties DEF Holds, Only
<1>4. air' \in Seq(UnitOf(S))
  BY <1>2 DEF Receive
<1>5. Sorted(units) \in [Lane -> Seq(S \cup {Error})] /\ Remains(units) \in Seq(UnitOf(S))
  BY <1>3, SortedType, RemainsType DEF Holds, Only
<1>6. \/ queue' = Sorted(units) /\ buffer' = Remains(units)
      \/ queue' = Alarm /\ buffer' = <<>>
  BY DEF Receive
<1> HIDE DEF units
<1>7. queue' \in [Lane -> Seq(S \cup {Error})] /\ buffer' \in Seq(UnitOf(S))
  BY <1>5, <1>6, AlarmType, EmptySeq
<1>8. QED
  BY <1>4, <1>7 DEF HoldsNext, Only

(* Nor does a reader. *)
LEMMA TakeHolds ==
    ASSUME NEW S, Holds(S), NEW l \in Lane, Take(l)
    PROVE  HoldsNext(S)
<1>1. Tail(queue[l]) \in Seq(S \cup {Error})
  BY HeadTailProperties DEF Take, Holds, Only
<1>2. QED
  BY <1>1 DEF Take, Holds, HoldsNext, Only

(* What a reader gets is a frame of the set, or an error. *)
LEMMA GotHeld ==
    ASSUME NEW S, Holds(S), NEW l \in Lane
    PROVE  Got(l) \in S \cup {Error}
BY HeadTailProperties DEF Got, Holds, Only

(* A lost connection adds errors only. *)
LEMMA DisconnectedHolds ==
    ASSUME NEW S, Holds(S), Disconnected
    PROVE  HoldsNext(S)
<1>1. ASSUME NEW l \in Lane PROVE HangupAll[l] \in Seq(S \cup {Error})
  BY AppendProperties DEF HangupAll, Holds, Only
<1>2. HangupAll \in [Lane -> Seq(S \cup {Error})]
  BY <1>1 DEF HangupAll
<1>3. QED
  BY <1>2, EmptySeq DEF Disconnected, Holds, HoldsNext, Only

(* A closed session holds nothing. *)
LEMMA CloseHolds ==
    ASSUME NEW S, Close
    PROVE  HoldsNext(S)
BY EmptySeq DEF Close, HoldsNext, Only

(* Frames that go out, whole or mangled. *)
LEMMA SendHolds ==
    ASSUME NEW S, Holds(S), NEW f \in S, UNCHANGED <<queue, buffer>>,
           air' = air \o Whole(f) \/ Emit(f)
    PROVE  HoldsNext(S)
<1> DEFINE h == [part |-> "head", frame |-> f]
           t == [part |-> "tail", frame |-> f]
           e == [part |-> "tail", frame |-> Error]
<1>1. h \in UnitOf(S) /\ t \in UnitOf(S) /\ e \in UnitOf(S)
  BY DEF UnitOf
<1>2. Whole(f) = <<h, t>> /\ Head(Whole(f)) = h /\ Last(Whole(f)) = t
  BY DEF Whole, Last
<1> HIDE DEF h, t, e
<1>3. <<h, t>> \in Seq(UnitOf(S)) /\ <<h, e>> \in Seq(UnitOf(S))
  BY <1>1
<1>4. air \in Seq(UnitOf(S))
  BY DEF Holds, Only
<1>5. /\ air \o <<h, t>> \in Seq(UnitOf(S)) /\ air \o <<h, e>> \in Seq(UnitOf(S))
      /\ Append(air, h) \in Seq(UnitOf(S)) /\ Append(air, t) \in Seq(UnitOf(S))
  BY <1>1, <1>3, <1>4, ConcatProperties, AppendProperties
<1>6. air' \in {air, air \o <<h, t>>, air \o <<h, e>>, Append(air, h), Append(air, t)}
  BY <1>2 DEF Emit, Mangled, e
<1>7. air' \in Seq(UnitOf(S))
  BY <1>4, <1>5, <1>6
<1>8. QED
  BY <1>7 DEF Holds, HoldsNext, Only

-----------------------------------------------------------------------------
(* A frame goes out, whole or mangled or to nobody. *)
Sends(f) ==
    /\ UNCHANGED <<queue, buffer>>
    /\ air' = air \o Whole(f) \/ Emit(f)

(* What the appliance may send: an answer to what it was asked, and a       *)
(* refusal of the credentials only when it does not use them.              *)
Proper(f) ==
    /\ f.of = "wifi" => owed = "wifi" /\ owed' = "none" /\ pc' = pc
    /\ f.of = "wifi" /\ f.says = "no" => wifi' = "idle"
    /\ f.says = "wrong" => wifi' = "failed"

(* Nothing happens to the frames. *)
Quiet == UNCHANGED <<queue, buffer, air>>

(* What a step may do to the frames. *)
LEMMA Traffic ==
    ASSUME [Next]_vars, owed \in Request \cup {"none"}
    PROVE  \/ Quiet
           \/ \E n \in 1..MaxChunk : Receive(n)
           \/ \E l \in Lane : Take(l)
           \/ Disconnected
           \/ Close
           \/ \E f \in Frame : Proper(f) /\ Sends(f)
<1> USE DEF Quiet, callVars, recvVars, acVars
<1>1. CASE UNCHANGED vars \/ Ended
  BY <1>1 DEF Ended, vars
<1>2. CASE Open
  BY <1>2 DEF Open, Connect, Connected
<1>3. CASE Reply
  BY <1>3 DEF Reply, ReplySkipped, HandshakeReply, Identified, ConfigureWifi, WifiAcked,
              ReplyFails, ReplyTimeout, Lane
<1>4. CASE Network
  BY <1>4 DEF Network, NetworkProgress, NetworkDone, NetworkRefused, NetworkTimeout, Lane
<1>5. CASE LookupEnds \/ TaskCancelled \/ Link \/ Try
  BY <1>5 DEF LookupEnds, TaskCancelled, Link, NetworkWaited, FirstDone, LookupDone,
              Cancelled, Joined, Bound, Try
<1>6. CASE Answer
  <2>1. [of |-> owed, says |-> "yes"] \in Frame
    BY <1>6 DEF Answer, Frame
  <2>2. Proper([of |-> owed, says |-> "yes"]) /\ Sends([of |-> owed, says |-> "yes"])
    BY <1>6 DEF Answer, Proper, Sends
  <2>3. QED
    BY <2>1, <2>2
<1>7. ASSUME NEW s \in {"no", "junk"}, AnswerBadly(s)
      PROVE  \E f \in Frame : Proper(f) /\ Sends(f)
  <2>1. [of |-> owed, says |-> s] \in Frame
    BY <1>7 DEF AnswerBadly, Frame
  <2>2. Proper([of |-> owed, says |-> s]) /\ Sends([of |-> owed, says |-> s])
    BY <1>7 DEF AnswerBadly, Proper, Sends
  <2>3. QED
    BY <2>1, <2>2
<1>8. CASE Repeat
  <2>1. PICK r \in Earlier[pc] : air' = air \o Whole([of |-> r, says |-> "yes"])
    BY <1>8 DEF Repeat
  <2>2. r \in {"key", "proof", "info"}
    BY <1>8, <2>1 DEF Repeat, Earlier, Request
  <2>3. [of |-> r, says |-> "yes"] \in Frame
    BY <2>2 DEF Frame, Request
  <2>4. Proper([of |-> r, says |-> "yes"]) /\ Sends([of |-> r, says |-> "yes"])
    BY <1>8, <2>1, <2>2 DEF Repeat, Proper, Sends
  <2>5. QED
    BY <2>3, <2>4
<1>9. CASE Progress
  <2>1. [of |-> "status", says |-> "joining"] \in Frame
    BY DEF Frame
  <2>2. /\ Proper([of |-> "status", says |-> "joining"])
        /\ Sends([of |-> "status", says |-> "joining"])
    BY <1>9 DEF Progress, Proper, Sends
  <2>3. QED
    BY <2>1, <2>2
<1>10. CASE Joins
  <2>1. CASE JoinWifi
    <3>1. [of |-> "status", says |-> "joined"] \in Frame
      BY DEF Frame
    <3>2. /\ Proper([of |-> "status", says |-> "joined"])
          /\ Sends([of |-> "status", says |-> "joined"])
      BY <2>1 DEF JoinWifi, Proper, Sends
    <3>3. QED
      BY <3>1, <3>2
  <2>2. ASSUME NEW s \in {"wrong", "other", "junk"}, CannotJoin(s)
        PROVE  Quiet \/ \E f \in Frame : Proper(f) /\ Sends(f)
    <3>1. [of |-> "status", says |-> s] \in Frame
      BY DEF Frame
    <3>2. CASE link = "up"
      <4>1. /\ Proper([of |-> "status", says |-> s])
            /\ Sends([of |-> "status", says |-> s])
        BY <2>2, <3>2 DEF CannotJoin, Proper, Sends
      <4>2. QED
        BY <3>1, <4>1
    <3>3. CASE link # "up"
      BY <2>2, <3>3 DEF CannotJoin
    <3>4. QED
      BY <3>2, <3>3
  <2>3. QED
    BY <1>10, <2>1, <2>2 DEF Joins
<1>11. QED
  BY <1>1, <1>2, <1>3, <1>4, <1>5, <1>6, <1>7, <1>8, <1>9, <1>10 DEF Next

-----------------------------------------------------------------------------
(* Type correctness *)

(* The type invariant has three parts: the variables that control, the      *)
(* kind of frames there are, and how many.                                  *)
ControlTypes ==
    /\ pc \in Request \cup {"start", "connect", "network", "first", "lookup", "join",
                            "bind", "closing", "closed"}
    /\ result \in {"none", "probed", "waited", "bound", "failed"}
    /\ lookup \in {"none", "running", "cancelling", "found", "failed", "cancelled"}
    /\ network \in {"none", "running", "cancelling", "done", "refused", "cancelled"}
    /\ sequence \in 0..MaxSeq
    /\ link \in {"up", "down"}
    /\ owed \in Request \cup {"none"}
    /\ wifi \in {"idle", "trying", "joined", "failed"}
    /\ marked \in BOOLEAN /\ overflow \in BOOLEAN
    /\ spent \in [{"fault", "chatter"} -> Nat]

Capacity == (\A l \in Lane : Len(queue[l]) <= QueueSize) /\ Len(buffer) < 2

(* The three together are TypeOK. *)
LEMMA TypeParts == TypeOK <=> ControlTypes /\ Holds(Frame) /\ Capacity
<1>1. Unit = UnitOf(Frame)
  BY DEF Unit, UnitOf
<1>2. QED
  BY <1>1 DEF TypeOK, ControlTypes, Holds, Only, Capacity

(* A sequence number follows every sequence number. *)
LEMMA NextSequenceType == ASSUME NEW s \in 0..MaxSeq PROVE NextSequence(s) \in 0..MaxSeq
<1>1. MaxSeq \in Nat \ {0}
  BY SizeAssumption
<1>2. (s + 1) % (MaxSeq + 1) \in 0..MaxSeq
  BY <1>1
<1>3. QED
  BY <1>1, <1>2 DEF NextSequence

(* The control variables have their types at first, *)
LEMMA ControlInit == Init => ControlTypes
<1> SUFFICES ASSUME Init PROVE ControlTypes
  OBVIOUS
<1>1. sequence \in 0..MaxSeq
  BY SizeAssumption DEF Init
<1>2. spent \in [{"fault", "chatter"} -> Nat]
  BY DEF Init
<1>3. QED
  BY <1>1, <1>2 DEF Init, ControlTypes

(* after a request, *)
LEMMA ControlReply == ASSUME ControlTypes, Open \/ Reply PROVE ControlTypes'
<1> USE BudgetAssumption
    DEF ControlTypes, Spend, Leave, Take, callVars, recvVars, acVars, Request
<1>1. CASE Open
  BY <1>1, NextSequenceType DEF Open, Connect, Connected
<1>2. CASE ReplySkipped \/ Identified \/ ReplyFails
  BY <1>2 DEF ReplySkipped, Identified, ReplyFails
<1>3. CASE HandshakeReply \/ ConfigureWifi
  <2>1. ASSUME NEW p \in Request, NEW last \in 0..MaxSeq, SendRequest(p, last)
        PROVE  /\ pc' \in Request \cup {"closing"}
               /\ sequence' \in 0..MaxSeq
               /\ owed' \in Request \cup {"none"}
               /\ wifi' = wifi
               /\ result' \in {result, "failed"}
    BY <2>1, NextSequenceType DEF SendRequest
  <2>2. CASE HandshakeReply
    BY <2>1, <2>2 DEF HandshakeReply
  <2>3. CASE ConfigureWifi
    BY <2>1, <2>3 DEF ConfigureWifi
  <2>4. QED
    BY <1>3, <2>2, <2>3
<1>4. CASE WifiAcked
  BY <1>4 DEF WifiAcked
<1>5. CASE ReplyTimeout
  BY <1>5 DEF ReplyTimeout
<1>6. QED
  BY <1>1, <1>2, <1>3, <1>4, <1>5 DEF Reply

(* after a step of the setup or of its tasks, *)
LEMMA ControlCaller ==
    ASSUME ControlTypes, Network \/ LookupEnds \/ TaskCancelled \/ Link \/ Close
    PROVE  ControlTypes'
<1> USE BudgetAssumption
    DEF ControlTypes, Spend, Leave, Take, callVars, recvVars, acVars, Stop, Joining, NetworkEnds
<1>1. CASE Network
  <2>1. CASE NetworkProgress
    BY <2>1 DEF NetworkProgress
  <2>2. CASE NetworkDone \/ NetworkRefused
    BY <2>2 DEF NetworkDone, NetworkRefused
  <2>3. CASE NetworkTimeout
    BY <2>3 DEF NetworkTimeout
  <2>4. QED
    BY <1>1, <2>1, <2>2, <2>3 DEF Network
<1>2. CASE LookupEnds \/ TaskCancelled \/ Close
  BY <1>2 DEF LookupEnds, TaskCancelled, Close
<1>3. CASE Link
  BY <1>3 DEF Link, NetworkWaited, FirstDone, LookupDone, Cancelled, Joined, Bound
<1>4. QED
  BY <1>1, <1>2, <1>3

(* after one of the link or of the appliance, *)
LEMMA ControlOutside ==
    ASSUME ControlTypes,
           \/ \E n \in 1..MaxChunk : Receive(n)
           \/ Disconnected \/ Try \/ Answer \/ Repeat \/ Progress \/ Joins
           \/ \E s \in {"no", "junk"} : AnswerBadly(s)
    PROVE  ControlTypes'
<1> USE BudgetAssumption
    DEF ControlTypes, Spend, callVars, recvVars, acVars
<1>1. ASSUME NEW n \in 1..MaxChunk, Receive(n) PROVE ControlTypes'
  BY <1>1 DEF Receive
<1>2. CASE Disconnected \/ Try \/ Repeat
  <2>1. CASE Disconnected
    BY <2>1 DEF Disconnected
  <2>2. CASE Try
    BY <2>2 DEF Try
  <2>3. CASE Repeat
    BY <2>3 DEF Repeat
  <2>4. QED
    BY <1>2, <2>1, <2>2, <2>3
<1>3. CASE Answer
  BY <1>3 DEF Answer, Emit
<1>4. CASE Progress
  BY <1>4 DEF Progress
<1>5. CASE Joins
  BY <1>5 DEF Joins, JoinWifi, CannotJoin, Emit
<1>6. ASSUME NEW s \in {"no", "junk"}, AnswerBadly(s) PROVE ControlTypes'
  BY <1>6 DEF AnswerBadly
<1>7. QED
  BY <1>1, <1>2, <1>3, <1>4, <1>5, <1>6

(* and so after every step. *)
LEMMA ControlStep == ControlTypes /\ [Next]_vars => ControlTypes'
<1> SUFFICES ASSUME ControlTypes, [Next]_vars PROVE ControlTypes'
  OBVIOUS
<1>1. CASE UNCHANGED vars
  BY <1>1 DEF vars, callVars, recvVars, acVars, ControlTypes
<1>2. QED
  BY <1>1, ControlReply, ControlCaller, ControlOutside DEF Next, Ended

(* Whatever sets of frames: what the session holds of the set it holds      *)
(* still, if it is sent no others.                                         *)
LEMMA HoldsStep ==
    ASSUME NEW S \in SUBSET Frame, Holds(S), [Next]_vars, owed \in Request \cup {"none"},
           \A f \in Frame : Proper(f) /\ Sends(f) => f \in S
    PROVE  HoldsNext(S)
<1>1. CASE Quiet
  BY <1>1 DEF Quiet, Holds, HoldsNext
<1>2. ASSUME NEW f \in S, Sends(f) PROVE HoldsNext(S)
  BY <1>2, SendHolds DEF Sends
<1>3. QED
  BY <1>1, <1>2, Traffic, ReceiveHolds, TakeHolds, DisconnectedHolds, CloseHolds

(* The queues have no more than their capacity: a chunk for which there     *)
(* is no room becomes an alarm, and a lost connection adds an error only    *)
(* where it fits (_receive and _disconnected).                              *)
LEMMA CapacityStep == TypeOK /\ [Next]_vars => Capacity'
<1> SUFFICES ASSUME TypeOK, [Next]_vars PROVE Capacity'
  OBVIOUS
<1> USE TypeParts DEF Capacity
<1>1. QueueSize \in Nat \ {0}
  BY SizeAssumption
<1>2. \A l \in Lane : Len(queue[l]) \in Nat
  BY LenProperties DEF Holds, Only
<1>3. CASE Quiet \/ \E f \in Frame : Sends(f)
  BY <1>3 DEF Quiet, Sends
<1>4. ASSUME NEW n \in 1..MaxChunk, Receive(n) PROVE Capacity'
  <2> DEFINE units == buffer \o SubSeq(air, 1, n)
  <2>1. n \in Nat /\ n <= Len(air)
    BY <1>4, SizeAssumption DEF Receive
  <2>2. SubSeq(air, 1, n) \in Seq(UnitOf(Frame))
    BY <2>1, SuffixType DEF Holds, Only
  <2>3. units \in Seq(UnitOf(Frame))
    BY <2>2, ConcatProperties DEF Holds, Only
  <2>4. Sorted(units) \in [Lane -> Seq(Frame \cup {Error})] /\ Len(Remains(units)) < 2
    BY <2>3, SortedType, RemainsType DEF Holds, Only
  <2>5. \/ /\ queue' = Sorted(units) /\ buffer' = Remains(units)
           /\ ~Overfull(Sorted(units))
        \/ queue' = Alarm /\ buffer' = <<>>
    BY <1>4 DEF Receive
  <2> HIDE DEF units
  <2>6. ~Overfull(Sorted(units)) => \A l \in Lane : Len(Sorted(units)[l]) <= QueueSize
    BY <1>1, <2>4, LenProperties DEF Overfull
  <2>7. CASE queue' = Sorted(units) /\ buffer' = Remains(units) /\ ~Overfull(Sorted(units))
    BY <2>4, <2>6, <2>7
  <2>8. CASE queue' = Alarm /\ buffer' = <<>>
    <3>1. (\A l \in Lane : Len(queue'[l]) = 1) /\ Len(buffer') = 0
      BY <2>8, EmptySeq DEF Alarm
    <3>2. 1 <= QueueSize
      BY <1>1
    <3>3. \A l \in Lane : Len(queue'[l]) <= QueueSize
      BY <3>1, <3>2
    <3>4. QED
      BY <3>1, <3>3
  <2>9. QED
    BY <2>5, <2>7, <2>8
<1>5. ASSUME NEW l \in Lane, Take(l) PROVE Capacity'
  <2>1. Len(Tail(queue[l])) = Len(queue[l]) - 1
    BY <1>5, HeadTailProperties DEF Take, Holds, Only
  <2>2. QED
    BY <1>1, <1>2, <1>5, <2>1 DEF Take, Holds, Only
<1>6. CASE Disconnected
  <2>1. ASSUME NEW l \in Lane PROVE Len(HangupAll[l]) <= QueueSize
    BY <1>1, <1>2, AppendProperties DEF HangupAll, Holds, Only
  <2>2. QED
    BY <1>6, <2>1 DEF Disconnected
<1>7. CASE Close
  BY <1>1, <1>7, EmptySeq DEF Close
<1>8. QED
  BY <1>3, <1>4, <1>5, <1>6, <1>7, Traffic DEF ControlTypes

(* At first there is nothing. *)
LEMMA TypeInit == Init => TypeOK
<1> SUFFICES ASSUME Init PROVE TypeOK
  OBVIOUS
<1>1. Holds(Frame)
  BY EmptySeq DEF Init, Holds, Only
<1>2. Capacity
  BY SizeAssumption, EmptySeq DEF Init, Capacity
<1>3. QED
  BY <1>1, <1>2, ControlInit, TypeParts

(* Frames of no kind are sent but those in Frame. *)
LEMMA TypeStep == TypeOK /\ [Next]_vars => TypeOK'
<1> SUFFICES ASSUME TypeOK, [Next]_vars PROVE TypeOK'
  OBVIOUS
<1>1. HoldsNext(Frame)
  BY TypeParts, HoldsStep DEF ControlTypes
<1>2. Holds(Frame)'
  BY <1>1 DEF Holds, HoldsNext
<1>3. ControlTypes' /\ Capacity'
  BY ControlStep, CapacityStep, TypeParts
<1>4. Unit = UnitOf(Frame)
  BY DEF Unit, UnitOf
<1>5. QED
  BY <1>2, <1>3, <1>4 DEF TypeOK, ControlTypes, Holds, Only, Capacity

(* The type invariant of the session, for queues and chunks of any size.    *)
THEOREM TypeCorrect == Spec => []TypeOK
BY TypeInit, TypeStep, PTL DEF Spec

-----------------------------------------------------------------------------
(* The mark of the write.  It is cleared when the appliance says that it    *)
(* does not use the credentials, so the argument is about what the frames   *)
(* under way say of the appliance now.                                     *)

(* The credentials have not been sent. *)
Early == pc \in {"start", "connect", "key", "proof", "info"}

(* What a frame that is held says is true: a reply to the write comes       *)
(* after the write and owes no other, a refusal of it means that the        *)
(* appliance does not use the credentials, a report of a wrong password     *)
(* that it has given up.                                                    *)
Allowed ==
    {f \in Frame :
        /\ f.of = "wifi" => ~Early /\ owed # "wifi"
        /\ f.of = "wifi" /\ f.says = "no" => wifi = "idle"
        /\ f.says = "wrong" => wifi = "failed"}

(* Before the write the appliance has no credentials; the network is read   *)
(* only after the write was acknowledged.                                   *)
WriteInv ==
    /\ Early => owed # "wifi" /\ wifi = "idle"
    /\ network # "none" => ~Early /\ owed # "wifi"

MarkInv == Holds(Allowed) /\ WriteInv /\ MarkKept

(* At first there is nothing to mark. *)
LEMMA MarkInit == Init => MarkInv
<1> SUFFICES ASSUME Init PROVE MarkInv
  OBVIOUS
<1>1. Holds(Allowed)
  BY EmptySeq DEF Init, Holds, Only
<1>2. QED
  BY <1>1 DEF Init, MarkInv, WriteInv, MarkKept

(* What a reply that is taken says of the appliance. *)
LEMMA GotFrame ==
    ASSUME MarkInv, NEW l \in Lane, queue[l] # <<>>, Got(l) # Error
    PROVE  Got(l) \in Frame /\ Got(l) \in Allowed
BY GotHeld DEF MarkInv, Allowed

(* The two lanes. *)
LEMMA MainLane == "main" \in Lane /\ "status" \in Lane
BY DEF Lane

(* The steps that move the session or its tasks on, and those of the        *)
(* appliance.                                                              *)
LEMMA MarkReply ==
    ASSUME MarkInv, ControlTypes, Open \/ Reply
    PROVE  (WriteInv /\ MarkKept)' /\ Allowed \subseteq Allowed'
<1> USE MainLane DEF MarkInv, WriteInv, MarkKept, Early, Allowed, callVars, recvVars, acVars
<1>1. CASE Open
  BY <1>1 DEF Open, Connect, Connected
<1>2. CASE ReplySkipped
  BY <1>2 DEF ReplySkipped
<1>3. CASE HandshakeReply
  BY <1>3 DEF HandshakeReply, SendRequest
<1>4. CASE Identified
  BY <1>4 DEF Identified, Leave
<1>5. CASE ConfigureWifi
  BY <1>5 DEF ConfigureWifi, SendRequest
<1>6. CASE WifiAcked
  <2>1. Got("main") \in Allowed /\ Got("main").of = "wifi"
    BY <1>6, GotFrame, ErrorAssumption DEF WifiAcked, Good, Concerns, Take, Command, Frame, Request
  <2>2. QED
    BY <1>6, <2>1 DEF WifiAcked
<1>7. CASE ReplyFails
  <2>1. CASE pc = "wifi" /\ Got("main") = [of |-> "wifi", says |-> "no"]
    <3>1. Got("main") \in Frame
      BY <2>1 DEF Frame, Request
    <3>2. Got("main") \in Allowed
      BY <1>7, <3>1, GotFrame, ErrorAssumption DEF ReplyFails, Take
    <3>3. owed # "wifi" /\ wifi = "idle"
      BY <2>1, <3>2
    <3>4. QED
      BY <1>7, <3>3 DEF ReplyFails
  <2>2. CASE ~(pc = "wifi" /\ Got("main") = [of |-> "wifi", says |-> "no"])
    BY <1>7, <2>2 DEF ReplyFails, ControlTypes
  <2>3. QED
    BY <2>1, <2>2
<1>8. CASE ReplyTimeout
  BY <1>8 DEF ReplyTimeout, Leave
<1>9. QED
  BY <1>1, <1>2, <1>3, <1>4, <1>5, <1>6, <1>7, <1>8 DEF Reply

(* the setup and its tasks: *)
LEMMA MarkCaller ==
    ASSUME MarkInv, ControlTypes, Network \/ LookupEnds \/ TaskCancelled \/ Link \/ Close
    PROVE  (WriteInv /\ MarkKept)' /\ Allowed \subseteq Allowed'
<1> USE MainLane DEF MarkInv, WriteInv, MarkKept, Early, Allowed, callVars, recvVars, acVars,
        Leave, NetworkEnds, Stop, Joining
<1>1. CASE NetworkProgress \/ NetworkDone \/ NetworkTimeout
  BY <1>1 DEF NetworkProgress, NetworkDone, NetworkTimeout
<1>2. CASE NetworkRefused
  <2>1. Got("status") \in Allowed /\ Got("status").says = "wrong"
    BY <1>2, GotFrame DEF NetworkRefused, Says, Take
  <2>2. wifi = "failed"
    BY <2>1
  <2>3. QED
    BY <1>2, <2>2 DEF NetworkRefused
<1>3. CASE LookupEnds \/ TaskCancelled \/ Close
  BY <1>3 DEF LookupEnds, TaskCancelled, Close
<1>4. CASE Link
  BY <1>4 DEF Link, NetworkWaited, FirstDone, LookupDone, Cancelled, Joined, Bound
<1>5. QED
  BY <1>1, <1>2, <1>3, <1>4 DEF Network

(* the link and the appliance: *)
LEMMA MarkOutside ==
    ASSUME MarkInv, ControlTypes,
           \/ \E n \in 1..MaxChunk : Receive(n)
           \/ Disconnected \/ Try \/ Answer \/ Repeat \/ Progress \/ Joins
           \/ \E s \in {"no", "junk"} : AnswerBadly(s)
    PROVE  (WriteInv /\ MarkKept)' /\ Allowed \subseteq Allowed'
<1> USE DEF MarkInv, WriteInv, MarkKept, Early, Allowed, callVars, recvVars, acVars
<1>1. ASSUME NEW n \in 1..MaxChunk, Receive(n)
      PROVE  (WriteInv /\ MarkKept)' /\ Allowed \subseteq Allowed'
  BY <1>1 DEF Receive
<1>2. CASE Disconnected \/ Try \/ Repeat \/ Progress
  BY <1>2 DEF Disconnected, Try, Repeat, Progress
<1>3. CASE Answer
  BY <1>3 DEF Answer
<1>4. CASE Joins
  BY <1>4 DEF Joins, JoinWifi, CannotJoin
<1>5. ASSUME NEW s \in {"no", "junk"}, AnswerBadly(s)
      PROVE  (WriteInv /\ MarkKept)' /\ Allowed \subseteq Allowed'
  BY <1>5 DEF AnswerBadly
<1>6. QED
  BY <1>1, <1>2, <1>3, <1>4, <1>5

(* and so every step keeps it. The frames that were allowed stay allowed,   *)
(* and one that is sent is.                                                 *)
LEMMA MarkStep == ControlTypes /\ MarkInv /\ [Next]_vars => MarkInv'
<1> SUFFICES ASSUME ControlTypes, MarkInv, [Next]_vars PROVE MarkInv'
  OBVIOUS
<1>1. (WriteInv /\ MarkKept)' /\ Allowed \subseteq Allowed'
  <2>1. CASE UNCHANGED vars
    BY <2>1 DEF vars, callVars, recvVars, acVars, MarkInv, WriteInv, MarkKept, Early, Allowed
  <2>2. QED
    BY <2>1, MarkReply, MarkCaller, MarkOutside DEF Next, Ended
<1>2. Allowed' \in SUBSET Frame
  BY DEF Allowed
<1>3. Holds(Allowed')
  BY <1>1, OnlyMonotone DEF MarkInv, Holds
<1>4. ASSUME NEW f \in Frame, Proper(f), Sends(f) PROVE f \in Allowed'
  BY <1>4 DEF Proper, Allowed, Early, MarkInv, WriteInv
<1>5. HoldsNext(Allowed')
  BY <1>2, <1>3, <1>4, HoldsStep DEF ControlTypes
<1>6. Holds(Allowed)'
  BY <1>5 DEF Holds, HoldsNext
<1>7. QED
  BY <1>1, <1>6 DEF MarkInv

(* "Persist uncertainty in the flow before the first write"                 *)
(* (bluetooth_transport.py:270): whenever the appliance has the             *)
(* credentials and may join with them, the write is marked.                 *)
THEOREM MarkKeptAlways == Spec => []MarkKept
<1>1. Spec => []ControlTypes
  BY ControlInit, ControlStep, PTL DEF Spec
<1>2. MarkInv => MarkKept
  BY DEF MarkInv
<1>3. QED
  BY <1>1, <1>2, MarkInit, MarkStep, PTL DEF Spec

(* An answer is taken for the request that waits for it. *)
LEMMA AnswerStep ==
    ASSUME [Next]_vars, pc \in Request, pc' \notin {pc, "closing"}
    PROVE  Head(queue["main"]).of = pc
<1> USE DEF Request, callVars, vars, Leave
<1>1. ASSUME Good(Got("main"), pc), Take("main") PROVE Head(queue["main"]).of = pc
  BY <1>1 DEF Good, Concerns, Got, Take, Command, Frame
<1>2. CASE Reply
  BY <1>1, <1>2 DEF Reply, ReplySkipped, HandshakeReply, Identified, ConfigureWifi, WifiAcked,
                    ReplyFails, ReplyTimeout
<1>3. CASE UNCHANGED vars \/ Ended \/ Open \/ Network \/ LookupEnds \/ TaskCancelled \/ Link \/ Close
  BY <1>3 DEF Ended, Open, Connect, Connected, Network, NetworkProgress, NetworkDone,
        NetworkRefused, NetworkTimeout, NetworkEnds, LookupEnds, TaskCancelled, Link, NetworkWaited,
        FirstDone, LookupDone, Cancelled, Joined, Joining, Bound, Close
<1>4. CASE \/ \E n \in 1..MaxChunk : Receive(n)
           \/ Disconnected \/ Try \/ Answer \/ Repeat \/ Progress \/ Joins
           \/ \E s \in {"no", "junk"} : AnswerBadly(s)
  BY <1>4 DEF Receive, Disconnected, Try, Answer, Repeat, Progress, Joins, JoinWifi, CannotJoin,
              AnswerBadly
<1>5. QED
  BY <1>2, <1>3, <1>4 DEF Next

(* No reply but the one to the request that waits moves the session on      *)
(* (_reply and the checks of its callers, bluetooth_transport.py).          *)
THEOREM AnswersAlways == Spec => AnswersTheirRequest
<1>1. [Next]_vars => [(pc \in Request) /\ pc' \notin {pc, "closing"} => Head(queue["main"]).of = pc]_vars
  BY AnswerStep
<1>2. QED
  BY <1>1, PTL DEF Spec, AnswersTheirRequest

-----------------------------------------------------------------------------
(* The session implements FrameChannel. *)

(* What a queue holds. *)
Item == Frame \cup {Error}

(* The pending frames after a step. *)
LEMMA PendingNext == Pending' = [l \in Lane |-> queue'[l] \o Of(l, buffer' \o air')]
BY DEF Pending

(* The types of what is pending. *)
LEMMA HeldTypes ==
    ASSUME TypeOK, NEW l \in Lane
    PROVE  /\ queue[l] \in Seq(Item)
           /\ buffer \in Seq(UnitOf(Frame)) /\ air \in Seq(UnitOf(Frame))
           /\ buffer \o air \in Seq(UnitOf(Frame))
           /\ Of(l, buffer \o air) \in Seq(Item)
<1>1. queue[l] \in Seq(Item) /\ buffer \in Seq(UnitOf(Frame)) /\ air \in Seq(UnitOf(Frame))
  BY TypeParts DEF Holds, Only, Item
<1>2. buffer \o air \in Seq(UnitOf(Frame))
  BY <1>1, ConcatProperties
<1>3. Of(l, buffer \o air) \in Seq(Item)
  BY <1>2, OfType, SeqMonotonic DEF Item
<1>4. QED
  BY <1>1, <1>2, <1>3

(* Concatenation of queues, *)
LEMMA ItemAssociative == \A p, q, r \in Seq(Item) : (p \o q) \o r = p \o (q \o r)
BY ConcatAssociative

(* and of units. *)
LEMMA UnitAssociative == \A p, q, r \in Seq(UnitOf(Frame)) : (p \o q) \o r = p \o (q \o r)
BY ConcatAssociative

(* The second part of a sequence is a suffix of it. *)
LEMMA SuffixOfConcat ==
    ASSUME NEW S, NEW x \in Seq(S), NEW t \in Seq(S)
    PROVE  IsSuffix(t, x \o t)
<1> DEFINE s == x \o t
           n == Len(t)
<1>1. n \in Nat /\ Len(x) \in Nat /\ Len(s) = Len(x) + n /\ s \in Seq(S)
  BY LenProperties, ConcatProperties
<1>2. ASSUME NEW i \in 1..n PROVE t[(n - i) + 1] = s[(Len(s) - i) + 1] /\ t[(n - i) + 1] \in S
  <2>1. /\ (Len(s) - i) + 1 \in 1..(Len(x) + n)
        /\ ~((Len(s) - i) + 1 <= Len(x))
        /\ (Len(s) - i) + 1 - Len(x) = (n - i) + 1
        /\ (n - i) + 1 \in 1..n
    BY <1>1
  <2>2. s[(Len(s) - i) + 1] = t[(Len(s) - i) + 1 - Len(x)]
    BY <2>1, ConcatProperties
  <2>3. QED
    BY <2>1, <2>2, ElementOfSeq
<1> HIDE DEF s
<1>3. DOMAIN Reverse(t) = 1..n /\ DOMAIN Reverse(s) = 1..Len(s)
  BY <1>1 DEF Reverse
<1>4. \A i \in 1..n : Reverse(t)[i] = t[(n - i) + 1] /\ Reverse(s)[i] = s[(Len(s) - i) + 1]
  BY <1>1 DEF Reverse
<1>5. Len(Reverse(t)) = n /\ Len(Reverse(s)) = Len(s)
  BY <1>1 DEF Reverse
<1>6. \A i \in 1..n : Reverse(t)[i] = Reverse(s)[i] /\ Reverse(t)[i] \in S
  BY <1>2, <1>4
<1> DEFINE p == SubSeq(Reverse(t), 1, n)
           q == SubSeq(Reverse(s), 1, n)
<1>7. /\ p \in Seq(S) /\ q \in Seq(S)
      /\ Len(p) = Len(q)
      /\ \A i \in 1..n : p[i] = Reverse(t)[1 + i - 1] /\ q[i] = Reverse(s)[1 + i - 1]
  <2>1. 1 \in Int /\ n \in Int /\ n - 1 + 1 = n
    BY <1>1
  <2>2. QED
    BY <1>6, <2>1, SubSeqProperties
<1>8. Len(p) = n
  BY <1>1, <1>6, SubSeqProperties
<1>9. \A i \in 1..n : p[i] = q[i]
  <2>1. \A i \in 1..n : 1 + i - 1 = i
    BY <1>1
  <2>2. QED
    BY <1>6, <1>7, <2>1
<1> HIDE DEF p, q
<1>10. p = q
  BY <1>7, <1>8, <1>9, SeqEqual
<1>11. QED
  BY <1>1, <1>5, <1>10 DEF IsSuffix, IsPrefix, s, p, q

(* The tail of the whole is that of the first part, with the second. *)
LEMMA TailOfConcat ==
    ASSUME NEW S, NEW s \in Seq(S), s # <<>>, NEW t \in Seq(S)
    PROVE  s \o t # <<>> /\ Tail(s \o t) = Tail(s) \o t
<1>1. s \o t \in Seq(S) /\ s \o t # <<>>
  BY ConcatProperties, ConcatEqualIffEmpty
<1>2. Len(s) \in Nat \ {0} /\ Len(t) \in Nat
  BY EmptySeq, LenProperties
<1>3. /\ Tail(s) \in Seq(S) /\ Len(Tail(s)) = Len(s) - 1
      /\ \A i \in 1..Len(Tail(s)) : Tail(s)[i] = s[i + 1]
  BY HeadTailProperties
<1>4. /\ Tail(s \o t) \in Seq(S) /\ Len(Tail(s \o t)) = Len(s \o t) - 1
      /\ \A i \in 1..Len(Tail(s \o t)) : Tail(s \o t)[i] = (s \o t)[i + 1]
  BY <1>1, HeadTailProperties
<1>5. /\ Len(s \o t) = Len(s) + Len(t)
      /\ \A i \in 1..(Len(s) + Len(t)) :
            (s \o t)[i] = IF i <= Len(s) THEN s[i] ELSE t[i - Len(s)]
  BY ConcatProperties
<1>6. /\ Tail(s) \o t \in Seq(S)
      /\ Len(Tail(s) \o t) = Len(Tail(s)) + Len(t)
      /\ \A i \in 1..(Len(Tail(s)) + Len(t)) :
            (Tail(s) \o t)[i] = IF i <= Len(Tail(s)) THEN Tail(s)[i] ELSE t[i - Len(Tail(s))]
  BY <1>3, ConcatProperties
<1>7. ASSUME NEW i \in 1..(Len(s) + Len(t) - 1)
      PROVE  Tail(s \o t)[i] = (Tail(s) \o t)[i]
  <2>1. /\ i + 1 \in 1..(Len(s) + Len(t)) /\ i \in 1..(Len(Tail(s)) + Len(t))
        /\ i \in 1..Len(Tail(s \o t))
        /\ i + 1 - Len(s) = i - Len(Tail(s))
        /\ i + 1 <= Len(s) <=> i <= Len(Tail(s))
    BY <1>2, <1>3, <1>4, <1>5
  <2>2. Tail(s \o t)[i] = IF i + 1 <= Len(s) THEN s[i + 1] ELSE t[i + 1 - Len(s)]
    BY <1>4, <1>5, <2>1
  <2>3. (Tail(s) \o t)[i] = IF i <= Len(Tail(s)) THEN Tail(s)[i] ELSE t[i - Len(Tail(s))]
    BY <1>6, <2>1
  <2>4. i <= Len(Tail(s)) => Tail(s)[i] = s[i + 1]
    BY <1>2, <1>3
  <2>5. QED
    BY <2>1, <2>2, <2>3, <2>4
<1>8. Len(Tail(s \o t)) = Len(s) + Len(t) - 1 /\ Len(Tail(s) \o t) = Len(s) + Len(t) - 1
  BY <1>2, <1>3, <1>4, <1>5, <1>6
<1>9. QED
  BY <1>1, <1>4, <1>6, <1>7, <1>8, SeqEqual

(* Taking whole frames out of the front of the units takes no others.       *)
LEMMA ReadableSplit ==
    ASSUME NEW u \in Seq(UnitOf(Frame)), NEW v \in Seq(UnitOf(Frame)), Readable(u), NEW l
    PROVE  Of(l, u \o v) = Of(l, u) \o Of(l, Remains(u) \o v)
<1>0. Len(u) \in Nat /\ DOMAIN u = 1..Len(u)
  BY LenProperties
<1>1. CASE Len(u) % 2 # 1
  <2>1. Remains(u) \o v = v
    BY <1>1, ConcatEmptySeq DEF Remains
  <2>2. u # <<>> => ~(Last(u).part = "head")
    <3>1. SUFFICES ASSUME u # <<>> PROVE ~(Last(u).part = "head")
      OBVIOUS
    <3>2. Len(u) \in DOMAIN u
      BY <1>0, <3>1, EmptySeq
    <3>3. Fits(u[Len(u) - 1], u[Len(u)])
      BY <1>1, <3>2 DEF Readable
    <3>4. QED
      BY <3>3 DEF Fits, Last
  <2>3. u # <<>> => ~Fits(Last(u), Head(v))
    BY <2>2 DEF Fits
  <2>4. QED
    BY <2>1, <2>3, OfSplit
<1>2. CASE Len(u) % 2 = 1
  <2>1. Len(u) # 0 /\ u # <<>>
    BY <1>2, EmptySeq
  <2>2. PICK w \in Seq(UnitOf(Frame)), e \in UnitOf(Frame) : u = Append(w, e)
    BY <2>1, SequenceEmptyOrAppend
  <2>3. /\ Len(w) \in Nat /\ Len(u) = Len(w) + 1 /\ u[Len(u)] = e
        /\ \A i \in 1..Len(w) : u[i] = w[i]
    BY <2>2, AppendProperties, LenProperties
  <2>4. e.part = "head"
    <3>1. Len(u) \in DOMAIN u
      BY <1>0, <2>1
    <3>2. QED
      BY <1>2, <2>3, <3>1 DEF Readable
  <2>5. \A x : ~Fits(x, e)
    BY <2>4 DEF Fits
  <2>6. Of(l, u) = Of(l, w)
    BY <2>2, <2>5, OfAppend
  <2>7. <<e>> \in Seq(UnitOf(Frame)) /\ Remains(u) = <<e>>
    BY <1>2, <2>3 DEF Remains, Last
  <2>8. u \o v = w \o (<<e>> \o v)
    BY <2>2, <2>7, AppendIsConcat, ConcatAssociative
  <2>9. <<e>> \o v \in Seq(UnitOf(Frame)) /\ Head(<<e>> \o v) = e
    <3>1. /\ <<e>> \o v \in Seq(UnitOf(Frame))
          /\ Len(<<e>> \o v) = Len(<<e>>) + Len(v)
          /\ \A i \in 1..(Len(<<e>>) + Len(v)) :
                (<<e>> \o v)[i] = IF i <= Len(<<e>>) THEN <<e>>[i] ELSE v[i - Len(<<e>>)]
      BY <2>7, ConcatProperties
    <3>2. Len(<<e>>) = 1 /\ <<e>>[1] = e /\ Len(v) \in Nat
      BY LenProperties
    <3>3. (<<e>> \o v)[1] = e
      BY <3>1, <3>2
    <3>4. QED
      BY <3>1, <3>3
  <2>10. Of(l, w \o (<<e>> \o v)) = Of(l, w) \o Of(l, <<e>> \o v)
    <3> DEFINE r == <<e>> \o v
    <3>1. w # <<>> /\ r # <<>> => ~Fits(Last(w), Head(r))
      BY <2>5, <2>9
    <3>2. w \in Seq(UnitOf(Frame)) /\ r \in Seq(UnitOf(Frame))
      BY <2>9
    <3> HIDE DEF r
    <3>3. Of(l, w \o r) = Of(l, w) \o Of(l, r)
      BY <3>1, <3>2, OfSplit
    <3>4. QED
      BY <3>3 DEF r
  <2>11. QED
    BY <2>6, <2>7, <2>8, <2>10
<1>3. QED
  BY <1>1, <1>2

(* What a step of the session is for a reader: one of the channel, or       *)
(* nothing.                                                                 *)
ChannelStep == Channel!Next \/ UNCHANGED Pending

(* A chunk that can be read moves frames from the air to the queues, and    *)
(* changes nothing for a reader; one that cannot breaks the channel.        *)
LEMMA ReceiveImplements ==
    ASSUME TypeOK, NEW n \in 1..MaxChunk, Receive(n)
    PROVE  ChannelStep
<1> DEFINE u == buffer \o SubSeq(air, 1, n)
           v == SubSeq(air, n + 1, Len(air))
<1>1. n \in Nat /\ n <= Len(air) /\ Len(air) \in Nat /\ n >= 1 /\ "main" \in Lane
  BY HeldTypes, LenProperties, SizeAssumption DEF Receive, Lane
<1>2. buffer \in Seq(UnitOf(Frame)) /\ air \in Seq(UnitOf(Frame))
  BY <1>1, HeldTypes
<1>3. SubSeq(air, 1, n) \in Seq(UnitOf(Frame)) /\ v \in Seq(UnitOf(Frame))
  BY <1>1, <1>2, SuffixType
<1>4. u \in Seq(UnitOf(Frame))
  BY <1>2, <1>3, ConcatProperties
<1>5. buffer \o air = u \o v
  <2>1. SubSeq(air, 1, n) \o v = SubSeq(air, 1, Len(air))
    <3>1. 1 \in 1..(Len(air) + 1) /\ n \in (1 - 1)..Len(air) /\ Len(air) \in n..Len(air)
      BY <1>1
    <3>2. QED
      BY <1>2, <3>1, ConcatAdjacentSubSeq
  <2>2. SubSeq(air, 1, Len(air)) = air
    BY <1>2, SubSeqFull
  <2>3. u \o v = buffer \o (SubSeq(air, 1, n) \o v)
    BY <1>2, <1>3, UnitAssociative, Zenon
  <2>4. QED
    BY <2>1, <2>2, <2>3
<1>6. air' = v
  BY DEF Receive
<1>7. \/ queue' = Sorted(u) /\ buffer' = Remains(u) /\ Readable(u)
      \/ queue' = Alarm /\ buffer' = <<>>
  BY DEF Receive
<1> HIDE DEF u, v
<1>8. CASE queue' = Sorted(u) /\ buffer' = Remains(u) /\ Readable(u)
  <2>1. ASSUME NEW l \in Lane
        PROVE  queue'[l] \o Of(l, buffer' \o air') = queue[l] \o Of(l, buffer \o air)
    <3>1. Of(l, u \o v) = Of(l, u) \o Of(l, Remains(u) \o v)
      BY <1>3, <1>4, <1>8, ReadableSplit
    <3>2. queue'[l] = queue[l] \o Of(l, u)
      BY <1>8 DEF Sorted
    <3>3. Remains(u) \o v \in Seq(UnitOf(Frame))
      BY <1>3, <1>4, RemainsType, ConcatProperties
    <3>4. queue[l] \in Seq(Item) /\ Of(l, u) \in Seq(Item) /\ Of(l, Remains(u) \o v) \in Seq(Item)
      BY <1>4, <3>3, HeldTypes, OfType, SeqMonotonic DEF Item
    <3>5. (queue[l] \o Of(l, u)) \o Of(l, Remains(u) \o v)
            = queue[l] \o (Of(l, u) \o Of(l, Remains(u) \o v))
      BY <3>4, ItemAssociative, Zenon
    <3>6. QED
      BY <1>5, <1>6, <1>8, <3>1, <3>2, <3>5
  <2>2. Pending' = Pending
    BY <2>1, PendingNext DEF Pending
  <2>3. QED
    BY <2>2 DEF ChannelStep
<1>9. CASE queue' = Alarm /\ buffer' = <<>>
  <2>1. ASSUME NEW l \in Lane
        PROVE  /\ Pending'[l] # <<>> /\ Head(Pending'[l]) = Error
               /\ IsSuffix(Tail(Pending'[l]), Pending[l])
    <3>1. buffer' \o air' = v
      BY <1>3, <1>6, <1>9, ConcatEmptySeq
    <3>2. Pending'[l] = <<Error>> \o Of(l, v)
      BY <1>9, <3>1, PendingNext DEF Alarm
    <3>3. Of(l, v) \in Seq(Item)
      BY <1>3, OfType, SeqMonotonic DEF Item
    <3>4. <<Error>> \in Seq(Item) /\ <<Error>> # <<>> /\ Tail(<<Error>>) = <<>>
      BY DEF Item
    <3>5. Pending'[l] # <<>> /\ Tail(Pending'[l]) = Of(l, v)
      BY <3>2, <3>3, <3>4, TailOfConcat, ConcatEmptySeq
    <3>6. Head(Pending'[l]) = Error
      <4>1. Pending'[l][1] = Error
        <5>1. Len(<<Error>>) = 1 /\ <<Error>>[1] = Error /\ Len(Of(l, v)) \in Nat
          BY <3>3, LenProperties
        <5>2. QED
          BY <3>2, <3>3, <3>4, <5>1, ConcatProperties
      <4>2. QED
        BY <3>2, <3>3, <3>4, <3>5, <4>1, ConcatProperties
    <3>7. PICK x \in Seq(Frame) : Of(l, u \o v) = x \o Of(l, v)
      <4>1. Frame \in SUBSET Frame
        OBVIOUS
      <4>2. QED
        BY <1>3, <1>4, <4>1, OfLater
    <3>8. queue[l] \in Seq(Item) /\ x \in Seq(Item)
      BY HeldTypes, SeqMonotonic DEF Item
    <3>9. Pending[l] = (queue[l] \o x) \o Of(l, v)
      <4>1. Pending[l] = queue[l] \o (x \o Of(l, v))
        BY <1>5, <3>7 DEF Pending
      <4>2. QED
        BY <3>3, <3>8, <4>1, ItemAssociative, Zenon
    <3>10. IsSuffix(Of(l, v), Pending[l])
      BY <3>3, <3>8, <3>9, SuffixOfConcat, ConcatProperties
    <3>11. QED
      BY <3>5, <3>6, <3>10
  <2>2. Channel!Break
    BY <2>1 DEF Channel!Break, Channel!IsSuffix, IsSuffix, Channel!IsPrefix, IsPrefix, Channel!Reverse, Reverse
  <2>3. QED
    BY <2>2 DEF ChannelStep, Channel!Next
<1>10. QED
  BY <1>7, <1>8, <1>9

(* To append to what is behind a queue. *)
LEMMA ItemAppend == \A p, q \in Seq(Item), i \in Item : p \o Append(q, i) = Append(p \o q, i)
BY ConcatAppend

(* Two units more are one and one. *)
LEMMA PairAppend ==
    ASSUME NEW S, NEW s \in Seq(S), NEW a \in S, NEW b \in S
    PROVE  s \o <<a, b>> = Append(Append(s, a), b)
OBVIOUS

(* Less than a frame is no frame. *)
LEMMA OfShort ==
    ASSUME NEW units \in Seq(UnitOf(Frame)), Len(units) < 2, NEW l
    PROVE  Of(l, units) = <<>>
<1>1. CASE units = <<>>
  BY <1>1, OfEmpty
<1>2. CASE units # <<>>
  <2>1. PICK w \in Seq(UnitOf(Frame)), e \in UnitOf(Frame) : units = Append(w, e)
    BY <1>2, SequenceEmptyOrAppend
  <2>2. Len(w) = 0
    BY <2>1, AppendProperties, LenProperties
  <2>3. w = <<>>
    BY <2>2, EmptySeq
  <2>4. Of(l, Append(w, e)) = Of(l, w)
    BY <2>3, OfAppend
  <2>5. QED
    BY <2>1, <2>3, <2>4, OfEmpty
<1>3. QED
  BY <1>1, <1>2

(* The first part of a sequence is a prefix of it. *)
LEMMA PrefixOfConcat ==
    ASSUME NEW S, NEW s \in Seq(S), NEW t \in Seq(S)
    PROVE  IsPrefix(s, s \o t)
<1>1. Len(s) \in Nat /\ Len(t) \in Nat /\ Len(s \o t) = Len(s) + Len(t)
  BY LenProperties, ConcatProperties
<1>2. SubSeq(s, 1, Len(s)) = s
  BY SubSeqFull
<1>3. SubSeq(s \o t, 1, Len(s)) = s
  <2>1. CASE s = <<>>
    <3>1. Len(s) = 0
      BY <2>1, EmptySeq
    <3>2. SubSeq(s \o t, 1, Len(s)) = <<>>
      BY <3>1, SubSeqEmpty
    <3>3. QED
      BY <2>1, <3>2
  <2>2. CASE s # <<>>
    <3>1. 1 \in 1..Len(s) /\ Len(s) \in 1..Len(s)
      BY <2>2, EmptySeq
    <3>2. QED
      BY <1>2, <3>1, SubSeqOfConcat1
  <2>3. QED
    BY <2>1, <2>2
<1>4. QED
  BY <1>1, <1>2, <1>3 DEF IsPrefix

(* What was there before the last element. *)
LEMMA FrontOfAppend ==
    ASSUME NEW S, NEW s \in Seq(S), NEW e \in S
    PROVE  Front(Append(s, e)) = s /\ Last(Append(s, e)) = e
<1>1. /\ Append(s, e) \in Seq(S) /\ Len(Append(s, e)) = Len(s) + 1 /\ Len(s) \in Nat
      /\ \A i \in 1..Len(s) : Append(s, e)[i] = s[i] /\ s[i] \in S
      /\ Append(s, e)[Len(s) + 1] = e
  BY AppendProperties, LenProperties, ElementOfSeq
<1>2. /\ SubSeq(Append(s, e), 1, Len(s)) \in Seq(S)
      /\ Len(SubSeq(Append(s, e), 1, Len(s))) = Len(s)
      /\ \A i \in 1..Len(s) : SubSeq(Append(s, e), 1, Len(s))[i] = s[i]
  <2>1. 1 \in Int /\ Len(s) \in Int /\ Len(s) - 1 + 1 = Len(s) /\ \A i \in 1..Len(s) : 1 + i - 1 = i
    BY <1>1
  <2>2. QED
    BY <1>1, <2>1, SubSeqProperties
<1>3. SubSeq(Append(s, e), 1, Len(s)) = s
  BY <1>1, <1>2, SeqEqual
<1>4. Len(s) + 1 - 1 = Len(s)
  BY <1>1
<1>5. QED
  BY <1>1, <1>3, <1>4 DEF Front, Last

(* What is pending are frames and errors. *)
LEMMA PendingType == TypeOK => Pending \in [Lane -> Seq(Item)]
<1>1. ASSUME TypeOK, NEW l \in Lane PROVE queue[l] \o Of(l, buffer \o air) \in Seq(Item)
  BY <1>1, HeldTypes, ConcatProperties
<1>2. QED
  BY <1>1 DEF Pending

(* A reader takes the first of what is pending. *)
LEMMA TakeImplements ==
    ASSUME TypeOK, NEW l \in Lane, Take(l)
    PROVE  ChannelStep
<1>1. queue[l] # <<>> /\ queue' = [queue EXCEPT ![l] = Tail(@)] /\ buffer' = buffer /\ air' = air
  BY DEF Take
<1>2. queue \in [Lane -> Seq(Item)]
  BY TypeParts DEF Holds, Only, Item
<1>3. Of(l, buffer \o air) \in Seq(Item) /\ queue[l] \in Seq(Item)
  BY HeldTypes
<1>4. Pending[l] # <<>> /\ Tail(Pending[l]) = Tail(queue[l]) \o Of(l, buffer \o air)
  BY <1>1, <1>3, TailOfConcat DEF Pending
<1>5. ASSUME NEW k \in Lane
      PROVE  queue'[k] \o Of(k, buffer' \o air') = IF k = l THEN Tail(Pending[l]) ELSE Pending[k]
  <2>1. queue'[k] = IF k = l THEN Tail(queue[l]) ELSE queue[k]
    BY <1>1, <1>2
  <2>2. CASE k = l
    <3>1. queue'[k] \o Of(k, buffer' \o air') = Tail(queue[l]) \o Of(l, buffer \o air)
      BY <1>1, <2>1, <2>2, Zenon
    <3>2. QED
      BY <1>4, <2>2, <3>1
  <2>3. CASE k # l
    BY <1>1, <2>1, <2>3 DEF Pending
  <2>4. QED
    BY <2>2, <2>3
<1>6. Pending' = [Pending EXCEPT ![l] = Tail(@)]
  BY <1>5, PendingNext, PendingType
<1>7. Channel!Take(l)
  BY <1>4, <1>6 DEF Channel!Take
<1>8. QED
  BY <1>7 DEF ChannelStep, Channel!Next

(* A lost connection keeps what the queues hold and puts an error behind    *)
(* it, where there is room.                                                 *)
LEMMA DisconnectedImplements == ASSUME TypeOK, Disconnected PROVE ChannelStep
<1>1. queue' = HangupAll /\ buffer' = buffer /\ air' = <<>>
  BY DEF Disconnected
<1>2. ASSUME NEW l \in Lane PROVE Pending'[l] = HangupAll[l]
  <2>1. buffer \in Seq(UnitOf(Frame)) /\ Len(buffer) < 2 /\ queue[l] \in Seq(Item)
    BY HeldTypes, TypeParts DEF Capacity
  <2>2. Of(l, buffer' \o air') = <<>>
    BY <1>1, <2>1, OfShort, ConcatEmptySeq
  <2>3. HangupAll[l] \in Seq(Item)
    BY <2>1, AppendProperties DEF HangupAll, Item
  <2>4. QED
    BY <1>1, <2>2, <2>3, PendingNext, ConcatEmptySeq
<1>3. ASSUME NEW l \in Lane
      PROVE  \/ /\ Pending'[l] # <<>> /\ Last(Pending'[l]) = Error
                /\ IsPrefix(Front(Pending'[l]), Pending[l])
             \/ Len(Pending'[l]) = QueueSize /\ IsPrefix(Pending'[l], Pending[l])
  <2>1. queue[l] \in Seq(Item) /\ Of(l, buffer \o air) \in Seq(Item) /\ Error \in Item
    BY HeldTypes DEF Item
  <2>2. IsPrefix(queue[l], Pending[l])
    BY <2>1, PrefixOfConcat DEF Pending
  <2>3. CASE Len(queue[l]) < QueueSize
    <3>1. Pending'[l] = Append(queue[l], Error)
      BY <1>2, <2>3 DEF HangupAll
    <3>2. QED
      BY <2>1, <2>2, <3>1, FrontOfAppend, AppendProperties
  <2>4. CASE ~(Len(queue[l]) < QueueSize)
    <3>1. Pending'[l] = queue[l]
      BY <1>2, <2>4 DEF HangupAll
    <3>2. Len(queue[l]) = QueueSize
      BY <2>1, <2>4, SizeAssumption, LenProperties, TypeParts DEF Capacity
    <3>3. QED
      BY <2>2, <3>1, <3>2
  <2>5. QED
    BY <2>3, <2>4
<1>4. Channel!Hangup
  BY <1>3 DEF Channel!Hangup, Channel!Last, Last, Channel!Front, Front, Channel!IsPrefix, IsPrefix
<1>5. QED
  BY <1>4 DEF ChannelStep, Channel!Next

(* A closed session leaves nothing. *)
LEMMA CloseImplements == ASSUME Close PROVE ChannelStep
<1>1. ASSUME NEW l \in Lane PROVE queue'[l] \o Of(l, buffer' \o air') = <<>>
  <2>1. <<>> \o <<>> = <<>>
    BY EmptySeq, ConcatEmptySeq
  <2>2. QED
    BY <2>1, OfEmpty DEF Close
<1>2. Channel!Close
  BY <1>1, PendingNext DEF Channel!Close
<1>3. QED
  BY <1>2 DEF ChannelStep, Channel!Next

(* One unit more in the air is a frame more for a lane, or nothing. *)
LEMMA UnitSent ==
    ASSUME TypeOK, NEW e \in UnitOf(Frame), UNCHANGED <<queue, buffer>>, air' = Append(air, e)
    PROVE  ChannelStep
<1> DEFINE units == buffer \o air
<1>1. /\ air \in Seq(UnitOf(Frame)) /\ buffer \in Seq(UnitOf(Frame)) /\ units \in Seq(UnitOf(Frame))
      /\ "main" \in Lane
  BY HeldTypes DEF Lane
<1>2. buffer' \o air' = Append(units, e)
  BY <1>1, ConcatAppend
<1> HIDE DEF units
<1>3. CASE units # <<>> /\ Fits(Last(units), e)
  <2>1. e.frame \in Frame
    <3>1. Last(units) \in UnitOf(Frame)
      BY <1>1, <1>3, EmptySeq, ElementOfSeq DEF Last
    <3>2. QED
      BY <1>3, <3>1, FitsFrame
  <2>2. LaneOf[e.frame] \in Lane
    BY <2>1 DEF LaneOf, Lane
  <2>3. ASSUME NEW l \in Lane
        PROVE  queue'[l] \o Of(l, buffer' \o air')
                 = IF LaneOf[e.frame] = l THEN Append(Pending[l], e.frame) ELSE Pending[l]
    <3>1. Of(l, buffer' \o air') = IF LaneOf[e.frame] = l THEN Append(Of(l, units), e.frame)
                                                         ELSE Of(l, units)
      BY <1>1, <1>2, <1>3, OfAppend
    <3>2. queue[l] \in Seq(Item) /\ Of(l, units) \in Seq(Item) /\ e.frame \in Item
      BY <2>1, HeldTypes DEF Item, units
    <3>3. queue[l] \o Append(Of(l, units), e.frame) = Append(queue[l] \o Of(l, units), e.frame)
      BY <3>2, ItemAppend, Zenon
    <3>4. QED
      BY <3>1, <3>3 DEF Pending, units
  <2>4. Pending' = [Pending EXCEPT ![LaneOf[e.frame]] = Append(@, e.frame)]
    BY <2>2, <2>3, PendingNext, PendingType
  <2>5. Channel!Send(e.frame)
    BY <2>4 DEF Channel!Send
  <2>6. QED
    BY <2>1, <2>5 DEF ChannelStep, Channel!Next
<1>4. CASE ~(units # <<>> /\ Fits(Last(units), e))
  <2>1. ASSUME NEW l \in Lane PROVE Of(l, buffer' \o air') = Of(l, units)
    BY <1>1, <1>2, <1>4, OfAppend
  <2>2. Pending' = Pending
    BY <2>1, PendingNext DEF Pending, units
  <2>3. QED
    BY <2>2 DEF ChannelStep
<1>5. QED
  BY <1>3, <1>4

(* A whole frame is sent. *)
LEMMA WholeSent ==
    ASSUME TypeOK, NEW f \in Frame, UNCHANGED <<queue, buffer>>, air' = air \o Whole(f)
    PROVE  ChannelStep
<1> DEFINE units == buffer \o air
<1>1. /\ air \in Seq(UnitOf(Frame)) /\ buffer \in Seq(UnitOf(Frame)) /\ units \in Seq(UnitOf(Frame))
      /\ "main" \in Lane
  BY HeldTypes DEF Lane
<1>2. Whole(f) \in Seq(UnitOf(Frame))
  BY DEF Whole, UnitOf
<1>3. buffer' \o air' = units \o Whole(f)
  BY <1>1, <1>2, UnitAssociative, Zenon
<1> HIDE DEF units
<1>4. LaneOf[f] \in Lane
  BY DEF LaneOf, Lane
<1>5. ASSUME NEW l \in Lane
      PROVE  queue'[l] \o Of(l, buffer' \o air')
               = IF LaneOf[f] = l THEN Append(Pending[l], f) ELSE Pending[l]
  <2>1. Of(l, buffer' \o air') = IF LaneOf[f] = l THEN Append(Of(l, units), f) ELSE Of(l, units)
    <3>1. Frame \in SUBSET Frame
      OBVIOUS
    <3>2. QED
      BY <1>1, <1>3, <3>1, OfWhole
  <2>2. queue[l] \in Seq(Item) /\ Of(l, units) \in Seq(Item) /\ f \in Item
    BY HeldTypes DEF Item, units
  <2>3. queue[l] \o Append(Of(l, units), f) = Append(queue[l] \o Of(l, units), f)
    BY <2>2, ItemAppend, Zenon
  <2>4. QED
    BY <2>1, <2>3 DEF Pending, units
<1>6. Pending' = [Pending EXCEPT ![LaneOf[f]] = Append(@, f)]
  BY <1>4, <1>5, PendingNext, PendingType
<1>7. Channel!Send(f)
  BY <1>6 DEF Channel!Send
<1>8. QED
  BY <1>7 DEF ChannelStep, Channel!Next

(* One with a bad tail is not. *)
LEMMA GarbledSent ==
    ASSUME TypeOK, NEW f \in Frame, UNCHANGED <<queue, buffer>>,
           air' = air \o <<Head(Whole(f)), [part |-> "tail", frame |-> Error]>>
    PROVE  ChannelStep
<1> DEFINE units == buffer \o air
           h == [part |-> "head", frame |-> f]
           e == [part |-> "tail", frame |-> Error]
<1>1. /\ air \in Seq(UnitOf(Frame)) /\ buffer \in Seq(UnitOf(Frame)) /\ units \in Seq(UnitOf(Frame))
      /\ "main" \in Lane
  BY HeldTypes DEF Lane
<1>2. h \in UnitOf(Frame) /\ e \in UnitOf(Frame) /\ Head(Whole(f)) = h
  BY DEF UnitOf, Whole
<1>3. h.part = "head" /\ ~Fits(h, e) /\ \A x : ~Fits(x, h)
  BY ErrorAssumption DEF Fits
<1>4. air' = Append(Append(air, h), e)
  <2>1. air' = air \o <<h, e>>
    BY <1>2
  <2> HIDE DEF h, e
  <2>2. QED
    BY <1>1, <1>2, <2>1, PairAppend
<1> HIDE DEF h, e
<1>5. buffer' \o air' = Append(Append(units, h), e)
  <2>1. Append(air, h) \in Seq(UnitOf(Frame))
    BY <1>1, <1>2, AppendProperties
  <2>2. buffer \o Append(Append(air, h), e) = Append(buffer \o Append(air, h), e)
    BY <1>1, <1>2, <2>1, ConcatAppend
  <2>3. buffer \o Append(air, h) = Append(units, h)
    BY <1>1, <1>2, ConcatAppend
  <2>4. QED
    BY <1>4, <2>2, <2>3
<1> HIDE DEF units
<1>6. ASSUME NEW l \in Lane PROVE Of(l, buffer' \o air') = Of(l, units)
  <2>1. Append(units, h) \in Seq(UnitOf(Frame)) /\ Last(Append(units, h)) = h
    BY <1>1, <1>2, AppendProperties, FrontOfAppend
  <2> DEFINE more == Append(units, h)
  <2>2. Of(l, Append(more, e)) = Of(l, more)
    <3>1. more \in Seq(UnitOf(Frame)) /\ Last(more) = h
      BY <2>1
    <3> HIDE DEF more
    <3>2. QED
      BY <1>2, <1>3, <3>1, OfAppend
  <2>3. Of(l, Append(units, h)) = Of(l, units)
    BY <1>1, <1>2, <1>3, OfAppend
  <2>4. QED
    BY <1>5, <2>2, <2>3
<1>7. Pending' = Pending
  BY <1>6, PendingNext DEF Pending, units
<1>8. QED
  BY <1>7 DEF ChannelStep

(* However a frame goes out, it is sent or it is lost without a trace       *)
(* yet.                                                                     *)
LEMMA SendImplements ==
    ASSUME TypeOK, NEW f \in Frame, Sends(f)
    PROVE  ChannelStep
<1>1. UNCHANGED <<queue, buffer>>
  BY DEF Sends
<1>2. \/ air' = air \o Whole(f)
      \/ air' \in Mangled(f)
      \/ air' = air
  BY DEF Sends, Emit
<1>3. CASE air' = air
  BY <1>1, <1>3, PendingNext DEF Pending, ChannelStep
<1>4. CASE air' \in Mangled(f)
  <2>1. Head(Whole(f)) \in UnitOf(Frame) /\ Last(Whole(f)) \in UnitOf(Frame)
    BY DEF Whole, UnitOf, Last
  <2>2. \/ air' = air \o <<Head(Whole(f)), [part |-> "tail", frame |-> Error]>>
        \/ air' = Append(air, Head(Whole(f)))
        \/ air' = Append(air, Last(Whole(f)))
    BY <1>4 DEF Mangled
  <2>3. QED
    BY <1>1, <2>1, <2>2, GarbledSent, UnitSent
<1>5. QED
  BY <1>1, <1>2, <1>3, <1>4, WholeSent

(* At first nothing is pending. *)
LEMMA ChannelInit == Init => Channel!Init
<1> SUFFICES ASSUME Init PROVE Channel!Init
  OBVIOUS
<1>1. ASSUME NEW l \in Lane PROVE queue[l] \o Of(l, buffer \o air) = <<>>
  <2>1. <<>> \o <<>> = <<>>
    BY EmptySeq, ConcatEmptySeq
  <2>2. QED
    BY <2>1, OfEmpty DEF Init
<1>2. QED
  BY <1>1 DEF Channel!Init, Pending

(* Reassembly, the two bounded queues and the alarms keep the promise of    *)
(* FrameChannel, for queues and chunks of any size: frames in order, none   *)
(* invented or twice, and none lost without an error before the next.       *)
THEOREM RepliesInOrderAlways == Spec => RepliesInOrder
<1>1. TypeOK /\ [Next]_vars => [Channel!Next]_Pending
  <2> SUFFICES ASSUME TypeOK, [Next]_vars PROVE ChannelStep
    BY DEF ChannelStep
  <2>1. owed \in Request \cup {"none"}
    BY TypeParts DEF ControlTypes
  <2>2. CASE Quiet
    BY <2>2, PendingNext DEF Quiet, Pending, ChannelStep
  <2>3. QED
    BY <2>1, <2>2, Traffic, ReceiveImplements, TakeImplements, DisconnectedImplements,
       CloseImplements, SendImplements
<1>2. QED
  BY <1>1, ChannelInit, TypeCorrect, PTL DEF Spec, RepliesInOrder, Channel!Spec

-----------------------------------------------------------------------------
(* The bind *)

(* How far the two tasks are at each place of _wait_for_smarthome_device.   *)
FirstInv  == pc = "first" => network \in {"running", "done", "refused"}
LookupInv == pc = "lookup" => network = "done"
JoinInv   ==
    pc = "join" =>
        /\ "running" \notin {lookup, network}
        /\ result = "none" => network \in {"done", "cancelling", "cancelled"}

BInv == FirstInv /\ LookupInv /\ JoinInv /\ BindAlone

-----------------------------------------------------------------------------
(* It holds at first. *)
LEMMA InitBInv == Init => BInv
BY DEF Init, BInv, FirstInv, LookupInv, JoinInv, BindAlone

(* No task is at a place that the invariant is about while a request waits. *)
LEMMA ReplyBInv == ASSUME BInv, Open \/ Reply PROVE BInv'
<1> USE DEF BInv, FirstInv, LookupInv, JoinInv, BindAlone, Command, callVars, recvVars,
            acVars, vars, Leave, Take, Joining, Stop, NetworkEnds, Request
<1>1. CASE Open
  BY <1>1 DEF Open, Connect, Connected
<1>2. CASE ReplySkipped
  BY <1>2 DEF ReplySkipped
<1>3. CASE HandshakeReply
  BY <1>3 DEF HandshakeReply, SendRequest
<1>4. CASE Identified
  BY <1>4 DEF Identified
<1>5. CASE ConfigureWifi
  BY <1>5 DEF ConfigureWifi, SendRequest
<1>6. CASE WifiAcked
  BY <1>6 DEF WifiAcked
<1>7. CASE ReplyFails
  BY <1>7 DEF ReplyFails
<1>8. CASE ReplyTimeout
  BY <1>8 DEF ReplyTimeout
<1>9. QED
  BY <1>1, <1>2, <1>3, <1>4, <1>5, <1>6, <1>7, <1>8 DEF Reply

(* A task ends by itself only while it runs, by cancellation only once it   *)
(* was cancelled, and neither can be after both were joined.               *)
LEMMA TasksBInv ==
  ASSUME BInv, Network \/ LookupEnds \/ TaskCancelled PROVE BInv'
<1> USE DEF BInv, FirstInv, LookupInv, JoinInv, BindAlone, Command, callVars, recvVars,
            acVars, vars, Leave, Take, Joining, Stop, NetworkEnds, Request
<1>1. CASE Network
  BY <1>1 DEF Network, NetworkProgress, NetworkDone, NetworkRefused, NetworkTimeout
<1>2. CASE LookupEnds
  BY <1>2 DEF LookupEnds
<1>3. CASE TaskCancelled
  BY <1>3 DEF TaskCancelled
<1>4. QED
  BY <1>1, <1>2, <1>3

(* The caller cancels what runs and goes on once nothing is cancelling.     *)
LEMMA LinkBInv == ASSUME BInv, Link \/ Close PROVE BInv'
<1> USE DEF BInv, FirstInv, LookupInv, JoinInv, BindAlone, Command, callVars, recvVars,
            acVars, vars, Leave, Take, Joining, Stop, NetworkEnds, Request
<1>1. CASE FirstDone
  BY <1>1 DEF FirstDone
<1>2. CASE LookupDone
  BY <1>2 DEF LookupDone
<1>3. CASE Cancelled
  BY <1>3 DEF Cancelled
<1>4. CASE Joined
  BY <1>4 DEF Joined
<1>5. CASE NetworkWaited \/ Bound \/ Close
  BY <1>5 DEF NetworkWaited, Bound, Close
<1>6. QED
  BY <1>1, <1>2, <1>3, <1>4, <1>5 DEF Link

(* The link and the appliance change nothing of it.                         *)
LEMMA OutsideBInv ==
  ASSUME BInv, UNCHANGED <<pc, result, lookup, network>> PROVE BInv'
BY DEF BInv, FirstInv, LookupInv, JoinInv, BindAlone

(* Every step keeps it. *)
LEMMA NextBInv == ASSUME BInv, [Next]_vars PROVE BInv'
<1> USE DEF callVars, recvVars, acVars, vars
<1>1. CASE UNCHANGED vars \/ Ended
  BY <1>1, OutsideBInv DEF Ended
<1>2. CASE \E n \in 1..MaxChunk : Receive(n)
  BY <1>2, OutsideBInv DEF Receive
<1>3. CASE Disconnected \/ Try \/ Answer \/ Repeat \/ Progress \/ Joins
  BY <1>3, OutsideBInv DEF Disconnected, Try, Answer, Repeat, Progress, Joins,
                          JoinWifi, CannotJoin
<1>4. CASE \E s \in {"no", "junk"} : AnswerBadly(s)
  BY <1>4, OutsideBInv DEF AnswerBadly
<1>5. QED
  BY <1>1, <1>2, <1>3, <1>4, ReplyBInv, TasksBInv, LinkBInv DEF Next

(* Whatever the air and the cloud do, the bind is sent only when the lookup *)
(* has found the appliance and both tasks are over (_link_smarthome,       *)
(* bluetooth_provision.py:231-262).                                        *)
THEOREM BoundAlone == Spec => []BindAlone
<1>1. BInv => BindAlone
  BY DEF BInv
<1>2. QED
  BY InitBInv, NextBInv, <1>1, PTL DEF Spec
=============================================================================
