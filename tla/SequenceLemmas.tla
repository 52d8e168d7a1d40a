---------------------------- MODULE SequenceLemmas ----------------------------
(***************************************************************************)
(* What the proofs share: induction over the naturals, the concatenation   *)
(* of a list of sequences, and sequences with one element more or less.    *)
(***************************************************************************)
EXTENDS Integers, SequencesExt, SequenceTheorems, WellFoundedInduction, TLAPS

-----------------------------------------------------------------------------
(* Induction over the naturals, and FlattenSeq.                             *)

(* A set of naturals that is not empty has a least element.                *)
LEMMA LeastNatural ==
  ASSUME NEW T \in SUBSET Nat, T # {}
    PROVE  \E m \in T : \A k \in T : m <= k
  <1>1. IsWellFoundedOn(OpToRel(<, Nat), Nat)
    BY NatLessThanWellFounded
  <1>2. \E x \in T : \A y \in T : ~ (<<y, x>> \in OpToRel(<, Nat))
    BY <1>1, WFMin
  <1>3. \A x, y \in Nat : y < x => <<y, x>> \in OpToRel(<, Nat)
    BY DEF OpToRel
  <1>4. PICK m \in T : \A y \in T : ~ (<<y, m>> \in OpToRel(<, Nat))
    BY <1>2
  <1>5. ASSUME NEW k \in T PROVE m <= k
    <2>1. k \in Nat /\ m \in Nat
      OBVIOUS
    <2>2. ~ (<<k, m>> \in OpToRel(<, Nat))
      BY <1>4
    <2>3. ~ (k < m)
      BY <2>1, <2>2, <1>3
    <2> QED BY <2>1, <2>3
  <1> QED BY <1>5

(* A set of naturals that has 0, and the successor of each of its members,  *)
(* has them all: the induction that the lemmas on FlattenSeq need.          *)
LEMMA Induct ==
    ASSUME NEW T \in SUBSET Nat, 0 \in T, \A n \in T : n + 1 \in T
    PROVE  T = Nat
  <1> SUFFICES ASSUME T # Nat PROVE FALSE
    OBVIOUS
  <1>1. PICK m \in Nat \ T : \A k \in Nat \ T : m <= k
    BY LeastNatural
  <1>2. m - 1 \in T
    BY <1>1
  <1> QED BY <1>1, <1>2

(* f is the function FlattenSeq chooses for s: the concatenations of what s  *)
(* begins with.                                                             *)
Unfolds(f, s) == f = [i \in 1 .. Len(s) |-> IF i = 1 THEN s[i] ELSE f[i - 1] \o s[i]]

(* There is such a function.                                               *)
LEMMA FlattenExists ==
  ASSUME NEW S, NEW s \in Seq(Seq(S))
  PROVE  \E f \in [1 .. Len(s) -> Seq(S)] : Unfolds(f, s)
  <1> DEFINE T == {n \in Nat : \A t \in [1 .. n -> Seq(S)] :
                     \E f \in [1 .. n -> Seq(S)] :
                        \A i \in 1 .. n : f[i] = IF i = 1 THEN t[i] ELSE f[i - 1] \o t[i]}
  <1>1. 0 \in T
    OBVIOUS
  <1>2. ASSUME NEW n \in T PROVE n + 1 \in T
    <2>1. n \in Nat
      OBVIOUS
    <2>7. SUFFICES ASSUME NEW t \in [1 .. n + 1 -> Seq(S)]
                 PROVE  \E f \in [1 .. n + 1 -> Seq(S)] :
                          \A i \in 1 .. n + 1 : f[i] = IF i = 1 THEN t[i] ELSE f[i - 1] \o t[i]
      <3>1. n + 1 \in Nat
        BY <2>1
      <3> QED BY <3>1, Zenon
    <2> DEFINE u == [i \in 1 .. n |-> t[i]]
    <2>2. u \in [1 .. n -> Seq(S)]
      BY <2>1
    <2>3. PICK f \in [1 .. n -> Seq(S)] :
                 \A i \in 1 .. n : f[i] = IF i = 1 THEN u[i] ELSE f[i - 1] \o u[i]
      BY <2>2
    <2> DEFINE last == IF n = 0 THEN t[1] ELSE f[n] \o t[n + 1]
               g == [i \in 1 .. n + 1 |-> IF i = n + 1 THEN last ELSE f[i]]
    <2>4. last \in Seq(S)
      BY <2>1
    <2>5. g \in [1 .. n + 1 -> Seq(S)]
      BY <2>1, <2>4
    <2>6. ASSUME NEW i \in 1 .. n + 1
          PROVE  g[i] = IF i = 1 THEN t[i] ELSE g[i - 1] \o t[i]
      <3>1. CASE i = n + 1
        BY <2>1, <3>1
      <3>2. CASE i # n + 1
        <4>1. i \in 1 .. n /\ g[i] = f[i] /\ u[i] = t[i]
          BY <2>1, <3>2
        <4>2. i # 1 => i - 1 \in 1 .. n /\ g[i - 1] = f[i - 1]
          BY <2>1, <3>2
        <4> QED BY <2>3, <4>1, <4>2
      <3> QED BY <3>1, <3>2
    <2> QED BY <2>5, <2>6
  <1>3. T = Nat
    BY <1>1, <1>2, Induct
  <1>4. s \in [1 .. Len(s) -> Seq(S)] /\ Len(s) \in Nat
    OBVIOUS
  <1>5. PICK f \in [1 .. Len(s) -> Seq(S)] :
           \A i \in 1 .. Len(s) : f[i] = IF i = 1 THEN s[i] ELSE f[i - 1] \o s[i]
    BY <1>3, <1>4
  <1> QED BY <1>5 DEF Unfolds

(* It is the same for a sequence and for one that only goes on further.     *)
LEMMA FlattenAgrees ==
  ASSUME NEW s, NEW t, NEW f, NEW g, Len(s) \in Nat, Len(t) \in Nat, Len(s) <= Len(t),
         \A i \in 1 .. Len(s) : s[i] = t[i],
         Unfolds(f, s), Unfolds(g, t)
  PROVE  \A i \in 1 .. Len(s) : f[i] = g[i]
  <1> DEFINE n == Len(s)
             T == {i \in Nat : i \in 1 .. n => f[i] = g[i]}
  <1>1. /\ \A i \in 1 .. n : f[i] = IF i = 1 THEN s[i] ELSE f[i - 1] \o s[i]
        /\ \A i \in 1 .. n : g[i] = IF i = 1 THEN s[i] ELSE g[i - 1] \o s[i]
    <2>1. \A i \in 1 .. n : i \in 1 .. Len(s) /\ i \in 1 .. Len(t)
      OBVIOUS
    <2>2. \A i \in 1 .. Len(s) : f[i] = IF i = 1 THEN s[i] ELSE f[i - 1] \o s[i]
      BY DEF Unfolds
    <2>3. \A i \in 1 .. Len(t) : g[i] = IF i = 1 THEN t[i] ELSE g[i - 1] \o t[i]
      BY DEF Unfolds
    <2> QED BY <2>1, <2>2, <2>3
  <1>2. 0 \in T
    OBVIOUS
  <1>3. ASSUME NEW i \in T PROVE i + 1 \in T
    <2>1. i \in Nat /\ (i \in 1 .. n => f[i] = g[i])
      OBVIOUS
    <2>2. ASSUME i + 1 \in 1 .. n PROVE f[i + 1] = g[i + 1]
      <3>1. i # 0 => i \in 1 .. n /\ (i + 1) - 1 = i /\ i + 1 # 1
        BY <2>1, <2>2
      <3>2. /\ f[i + 1] = IF i + 1 = 1 THEN s[i + 1] ELSE f[(i + 1) - 1] \o s[i + 1]
            /\ g[i + 1] = IF i + 1 = 1 THEN s[i + 1] ELSE g[(i + 1) - 1] \o s[i + 1]
        BY <1>1, <2>2
      <3>3. CASE i = 0
        BY <3>2, <3>3
      <3>4. CASE i # 0
        BY <2>1, <3>1, <3>2, <3>4
      <3> QED BY <3>3, <3>4
    <2> QED BY <2>1, <2>2
  <1>4. T = Nat
    BY <1>2, <1>3, Induct
  <1> QED BY <1>4

(* FlattenSeq is the last value of such a function.                         *)
LEMMA FlattenUnfolds ==
  ASSUME NEW S, NEW s \in Seq(Seq(S)), s # <<>>
  PROVE  \E f \in [1 .. Len(s) -> Seq(S)] : Unfolds(f, s) /\ FlattenSeq(s) = f[Len(s)]
  <1>1. PICK f \in [1 .. Len(s) -> Seq(S)] : Unfolds(f, s)
    BY FlattenExists
  <1> DEFINE h == CHOOSE h : Unfolds(h, s)
  <1>2. Unfolds(h, s)
    BY <1>1
  <1> HIDE DEF h
  <1>3. Len(s) \in Nat /\ Len(s) # 0
    OBVIOUS
  <1>4. FlattenSeq(s) = h[Len(s)]
    BY <1>3 DEF FlattenSeq, Unfolds, h
  <1>5. h = f
    <2>1. \A i \in 1 .. Len(s) : h[i] = f[i]
      <3>1. Len(s) <= Len(s) /\ \A i \in 1 .. Len(s) : s[i] = s[i]
        BY <1>3
      <3> QED BY <1>1, <1>2, <1>3, <3>1, FlattenAgrees
    <2>2. h = [i \in 1 .. Len(s) |-> h[i]]
      BY <1>2 DEF Unfolds
    <2> QED BY <2>1, <2>2
  <1> QED BY <1>1, <1>4, <1>5

(* Nothing is the concatenation of nothing.                                 *)
LEMMA FlattenEmpty == FlattenSeq(<<>>) = <<>>
  BY DEF FlattenSeq

(* One sequence more at the end.                                            *)
LEMMA FlattenAppend ==
  ASSUME NEW S, NEW s \in Seq(Seq(S)), NEW x \in Seq(S)
  PROVE  /\ FlattenSeq(s) \in Seq(S)
         /\ FlattenSeq(Append(s, x)) = FlattenSeq(s) \o x
  <1> DEFINE t == Append(s, x)
  <1>1. /\ t \in Seq(Seq(S)) /\ t # <<>> /\ Len(t) = Len(s) + 1 /\ Len(s) \in Nat
        /\ \A i \in 1 .. Len(s) : s[i] = t[i]
        /\ t[Len(s) + 1] = x
    BY AppendProperties
  <1> HIDE DEF t
  <1>2. PICK g \in [1 .. Len(t) -> Seq(S)] : Unfolds(g, t) /\ FlattenSeq(t) = g[Len(t)]
    BY <1>1, FlattenUnfolds
  <1>3. g[Len(t)] = IF Len(t) = 1 THEN x ELSE g[Len(t) - 1] \o x
    <2>1. \A i \in 1 .. Len(t) : g[i] = IF i = 1 THEN t[i] ELSE g[i - 1] \o t[i]
      BY <1>2 DEF Unfolds
    <2>2. Len(t) \in 1 .. Len(t) /\ t[Len(t)] = x
      BY <1>1
    <2> QED BY <2>1, <2>2
  <1>4. CASE s = <<>>
    <2>1. FlattenSeq(s) = <<>> /\ Len(t) = 1
      BY <1>1, <1>4, FlattenEmpty
    <2> QED BY <1>2, <1>3, <2>1 DEF t
  <1>5. CASE s # <<>>
    <2>1. PICK f \in [1 .. Len(s) -> Seq(S)] : Unfolds(f, s) /\ FlattenSeq(s) = f[Len(s)]
      BY <1>5, FlattenUnfolds
    <2>2. Len(s) \in 1 .. Len(s) /\ Len(s) <= Len(t) /\ Len(t) \in Nat /\ Len(t) - 1 = Len(s) /\ Len(t) # 1
      BY <1>1, <1>5, EmptySeq
    <2>3. \A i \in 1 .. Len(s) : f[i] = g[i]
      <3>1. /\ Len(s) \in Nat /\ Len(t) \in Nat /\ Len(s) <= Len(t)
            /\ \A i \in 1 .. Len(s) : s[i] = t[i]
        BY <1>1, <2>2
      <3>2. Unfolds(f, s) /\ Unfolds(g, t)
        BY <1>2, <2>1
      <3>3. \A p, q : Unfolds(p, s) /\ Unfolds(q, t) => \A i \in 1 .. Len(s) : p[i] = q[i]
        BY <3>1, FlattenAgrees
      <3> QED BY <3>2, <3>3
    <2>4. FlattenSeq(s) = g[Len(t) - 1] /\ FlattenSeq(s) \in Seq(S)
      BY <2>1, <2>2, <2>3
    <2> QED BY <1>2, <1>3, <2>2, <2>4 DEF t
  <1> QED BY <1>4, <1>5

(* FlattenConcat, from one sequence to the next.                            *)
LEMMA FlattenConcatAppend ==
  ASSUME NEW S, NEW s \in Seq(Seq(S)), NEW u \in Seq(Seq(S)), NEW x \in Seq(S),
         FlattenSeq(s \o u) = FlattenSeq(s) \o FlattenSeq(u)
  PROVE  FlattenSeq(s \o Append(u, x)) = FlattenSeq(s) \o FlattenSeq(Append(u, x))
  <1>1. /\ s \o u \in Seq(Seq(S)) /\ <<x>> \in Seq(Seq(S)) /\ Append(u, x) = u \o <<x>>
        /\ Append(s \o u, x) = (s \o u) \o <<x>>
    BY AppendIsConcat, ConcatProperties
  <1>2. s \o Append(u, x) = Append(s \o u, x)
    BY <1>1, ConcatAssociative
  <1>3. /\ FlattenSeq(Append(s \o u, x)) = FlattenSeq(s \o u) \o x
        /\ FlattenSeq(Append(u, x)) = FlattenSeq(u) \o x
        /\ FlattenSeq(s) \in Seq(S) /\ FlattenSeq(u) \in Seq(S)
    BY <1>1, FlattenAppend
  <1>4. (FlattenSeq(s) \o FlattenSeq(u)) \o x = FlattenSeq(s) \o (FlattenSeq(u) \o x)
    BY <1>3, ConcatAssociative
  <1> QED BY <1>2, <1>3, <1>4

(* The concatenation of two lists of sequences.                             *)
LEMMA FlattenConcat ==
  ASSUME NEW S, NEW s \in Seq(Seq(S)), NEW t \in Seq(Seq(S))
  PROVE  FlattenSeq(s \o t) = FlattenSeq(s) \o FlattenSeq(t)
  <1> DEFINE F(n) == SubSeq(t, 1, n)
             T == {n \in Nat : n <= Len(t) => FlattenSeq(s \o F(n)) = FlattenSeq(s) \o FlattenSeq(F(n))}
  <1>1. \A u \in Seq(Seq(S)) : FlattenSeq(u) \in Seq(S)
    BY <<>> \in Seq(S), FlattenAppend
  <1>2. 0 \in T
    <2>1. F(0) = <<>> /\ s \o <<>> = s
      BY ConcatEmptySeq
    <2>2. FlattenSeq(s) \o <<>> = FlattenSeq(s)
      BY <1>1, ConcatEmptySeq
    <2> QED BY <2>1, <2>2, FlattenEmpty
  <1>3. ASSUME NEW n \in T PROVE n + 1 \in T
    <2> SUFFICES ASSUME n + 1 <= Len(t)
                 PROVE  FlattenSeq(s \o F(n + 1)) = FlattenSeq(s) \o FlattenSeq(F(n + 1))
      OBVIOUS
    <2> DEFINE x == t[n + 1]
               u == F(n)
    <2>1. /\ n \in Nat /\ x \in Seq(S) /\ u \in Seq(Seq(S))
          /\ FlattenSeq(s \o u) = FlattenSeq(s) \o FlattenSeq(u)
      OBVIOUS
    <2>2. F(n + 1) = Append(u, x)
      OBVIOUS
    <2> HIDE DEF u, x
    <2>3. FlattenSeq(s \o Append(u, x)) = FlattenSeq(s) \o FlattenSeq(Append(u, x))
      BY <2>1, FlattenConcatAppend
    <2> QED BY <2>2, <2>3
  <1>4. T = Nat
    <2>1. T \in SUBSET Nat
      OBVIOUS
    <2> HIDE DEF T
    <2> QED BY <1>2, <1>3, <2>1, Induct
  <1>5. F(Len(t)) = t /\ Len(t) \in Nat
    OBVIOUS
  <1>6. Len(t) \in T
    BY <1>4, <1>5
  <1>7. FlattenSeq(s \o F(Len(t))) = FlattenSeq(s) \o FlattenSeq(F(Len(t)))
    BY <1>5, <1>6
  <1> QED BY <1>5, <1>7

-----------------------------------------------------------------------------
(* Sequences with one element more, and with one less.                      *)
Inserted(s, a, e, r, S) ==
  /\ r \in Seq(S) /\ Len(r) = Len(s) + 1
  /\ \A j \in 1 .. Len(s) + 1 : r[j] = IF j < a THEN s[j] ELSE IF j = a THEN e ELSE s[j - 1]
Removed(s, a, r, S) ==
  /\ r \in Seq(S) /\ Len(r) = Len(s) - 1
  /\ \A j \in 1 .. Len(s) - 1 : r[j] = IF j < a THEN s[j] ELSE s[j + 1]

(* InsertAt puts one element in front of another, and moves that one and    *)
(* all behind it up by a place.                                             *)
LEMMA InsertAtPlaces ==
  ASSUME NEW S, NEW s \in Seq(S), NEW a \in 1 .. Len(s), NEW e \in S
  PROVE  Inserted(s, a, e, InsertAt(s, a, e), S)
  <1> DEFINE before == SubSeq(s, 1, a - 1)
             behind == SubSeq(s, a, Len(s))
  <1>1. Len(s) \in Nat /\ a \in Nat
    OBVIOUS
  <1>2. /\ before \in Seq(S) /\ Len(before) = a - 1
        /\ \A j \in 1 .. a - 1 : before[j] = s[j]
    BY <1>1
  <1>3. /\ behind \in Seq(S) /\ Len(behind) = Len(s) - a + 1
        /\ \A j \in 1 .. Len(s) - a + 1 : behind[j] = s[a + j - 1]
    BY <1>1
  <1>4. InsertAt(s, a, e) = before \o <<e>> \o behind
    BY DEF InsertAt
  <1> HIDE DEF before, behind
  <1> DEFINE front == before \o <<e>>
  <1>5. /\ front \in Seq(S) /\ Len(front) = a
        /\ \A j \in 1 .. a : front[j] = IF j < a THEN s[j] ELSE e
    BY <1>1, <1>2
  <1> HIDE DEF front
  <1>6. InsertAt(s, a, e) = front \o behind
    BY <1>4 DEF front
  <1>7. /\ front \o behind \in Seq(S) /\ Len(front \o behind) = a + Len(behind)
        /\ \A j \in 1 .. a + Len(behind) :
              (front \o behind)[j] = IF j <= a THEN front[j] ELSE behind[j - a]
    BY <1>3, <1>5, ConcatProperties
  <1>8. ASSUME NEW j \in 1 .. Len(s) + 1
        PROVE  (front \o behind)[j] = IF j < a THEN s[j] ELSE IF j = a THEN e ELSE s[j - 1]
    <2>1. j \in Nat /\ j \in 1 .. a + Len(behind)
      BY <1>1, <1>3
    <2>2. (front \o behind)[j] = IF j <= a THEN front[j] ELSE behind[j - a]
      BY <1>7, <2>1
    <2>3. j <= a => front[j] = IF j < a THEN s[j] ELSE e
      BY <1>5, <2>1
    <2>4. j > a => behind[j - a] = s[j - 1]
      <3>1. j > a => j - a \in 1 .. Len(s) - a + 1 /\ a + (j - a) - 1 = j - 1
        BY <1>1, <2>1
      <3> QED BY <1>3, <3>1
    <2> QED BY <1>1, <2>1, <2>2, <2>3, <2>4
  <1>9. a + Len(behind) = Len(s) + 1
    BY <1>1, <1>3
  <1> QED BY <1>6, <1>7, <1>8, <1>9 DEF Inserted

(* RemoveAt takes one element out, and moves all behind it down by a place. *)
LEMMA RemoveAtPlaces ==
  ASSUME NEW S, NEW s \in Seq(S), NEW a \in 1 .. Len(s)
  PROVE  Removed(s, a, RemoveAt(s, a), S)
  <1> DEFINE before == SubSeq(s, 1, a - 1)
             behind == SubSeq(s, a + 1, Len(s))
  <1>1. Len(s) \in Nat /\ a \in Nat
    OBVIOUS
  <1>2. /\ before \in Seq(S) /\ Len(before) = a - 1
        /\ \A j \in 1 .. a - 1 : before[j] = s[j]
    BY <1>1
  <1>3. /\ behind \in Seq(S) /\ Len(behind) = Len(s) - a
        /\ \A j \in 1 .. Len(s) - a : behind[j] = s[a + j]
    BY <1>1
  <1>4. RemoveAt(s, a) = before \o behind
    BY DEF RemoveAt
  <1> HIDE DEF before, behind
  <1>7. /\ before \o behind \in Seq(S) /\ Len(before \o behind) = (a - 1) + Len(behind)
        /\ \A j \in 1 .. (a - 1) + Len(behind) :
              (before \o behind)[j] = IF j <= a - 1 THEN before[j] ELSE behind[j - (a - 1)]
    <2>1. /\ before \o behind \in Seq(S) /\ Len(before \o behind) = Len(before) + Len(behind)
          /\ \A j \in 1 .. Len(before) + Len(behind) :
                (before \o behind)[j] = IF j <= Len(before) THEN before[j] ELSE behind[j - Len(before)]
      BY <1>2, <1>3, ConcatProperties
    <2> QED BY <1>2, <2>1
  <1>8. ASSUME NEW j \in 1 .. Len(s) - 1
        PROVE  (before \o behind)[j] = IF j < a THEN s[j] ELSE s[j + 1]
    <2>1. j \in Nat /\ j \in 1 .. (a - 1) + Len(behind)
      BY <1>1, <1>3
    <2>2. (before \o behind)[j] = IF j <= a - 1 THEN before[j] ELSE behind[j - (a - 1)]
      BY <1>7, <2>1
    <2>3. j <= a - 1 => before[j] = s[j]
      BY <1>2, <2>1
    <2>4. j > a - 1 => behind[j - (a - 1)] = s[j + 1]
      <3>1. j > a - 1 => j - (a - 1) \in 1 .. Len(s) - a /\ a + (j - (a - 1)) = j + 1
        BY <1>1, <2>1
      <3> QED BY <1>3, <3>1
    <2> QED BY <1>1, <2>1, <2>2, <2>3, <2>4
  <1>9. (a - 1) + Len(behind) = Len(s) - 1
    BY <1>1, <1>3
  <1> QED BY <1>4, <1>7, <1>8, <1>9 DEF Removed

==============================================================================
