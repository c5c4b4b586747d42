--------------------------- MODULE SequenceLemmas ---------------------------
(***************************************************************************)
(* Lemmas about flattening sequences of sequences, which is how a stream   *)
(* of messages is written (FlattenSeq), and the induction they need: over  *)
(* a set of naturals, from the well-foundedness of strict inclusion, since *)
(* a set is a value and needs no operator parameter.                       *)
(***************************************************************************)
EXTENDS Integers, SequencesExt, FiniteSetTheorems, SequenceTheorems,
        WellFoundedInduction, TLAPS

\* Of any set of naturals one is the least.
LEMMA LeastNatural ==
  ASSUME NEW T \in SUBSET Nat, T # {}
  PROVE  \E n \in T : \A m \in T : n <= m
<1> DEFINE UpTo(n) == 0 .. n
           F == {UpTo(n) : n \in T}
<1>1. IsWellFoundedOn(StrictSubsetOrdering(Nat), FiniteSubsetsOf(Nat))
  BY FS_StrictSubsetOrderingWellFounded
<1>2. \A n \in Nat : UpTo(n) \in FiniteSubsetsOf(Nat)
  BY FS_Interval DEF FiniteSubsetsOf
<1>3. F \subseteq FiniteSubsetsOf(Nat) /\ F # {}
  BY <1>2
<1>4. PICK x \in F : \A y \in F : ~ (<<y, x>> \in StrictSubsetOrdering(Nat))
  <2> HIDE DEF F
  <2> QED
    BY <1>1, <1>3, WFMin
<1>5. PICK n \in T : x = UpTo(n)
  BY <1>4
<1>6. ASSUME NEW m \in T PROVE n <= m
  <2> SUFFICES ASSUME m < n PROVE FALSE
    OBVIOUS
  <2>1. n \in UpTo(n) /\ n \notin UpTo(m)
    OBVIOUS
  <2>2. UpTo(m) \subseteq UpTo(n) /\ UpTo(m) # UpTo(n) /\ UpTo(n) \subseteq Nat
    BY <2>1
  <2>3. <<UpTo(m), UpTo(n)>> \in StrictSubsetOrdering(Nat)
    BY <2>2 DEF StrictSubsetOrdering
  <2> QED
    BY <2>3, <1>4, <1>5
<1> QED
  BY <1>6

LEMMA InductionOverSet ==
  ASSUME NEW T, 0 \in T, \A n \in Nat : n \in T => n + 1 \in T
  PROVE  \A n \in Nat : n \in T
<1> SUFFICES ASSUME NEW k \in Nat, k \notin T PROVE FALSE
  OBVIOUS
<1> DEFINE U == {n \in Nat : n \notin T}
<1>1. PICK n \in U : \A m \in U : n <= m
  <2> U \in SUBSET Nat /\ U # {}
    OBVIOUS
  <2> HIDE DEF U
  <2> QED
    BY LeastNatural
<1>2. n # 0 /\ n - 1 \in Nat /\ n - 1 \in T
  BY <1>1
<1> QED
  BY <1>1, <1>2

-----------------------------------------------------------------------------
(* FlattenSeq.                                                             *)

\* The recursion of FlattenSeq, for a given function.
Flattens(f, s, n) ==
  f = [i \in 1 .. n |-> IF i = 1 THEN s[i] ELSE f[i - 1] \o s[i]]

\* The recursion has a solution, up to any place.
LEMMA FlatteningExists ==
  ASSUME NEW s, NEW n \in Nat
  PROVE  \E f : Flattens(f, s, n)
<1> DEFINE T == {k \in Nat : \E f : Flattens(f, s, k)}
<1>1. 0 \in T
  <2>1. Flattens([i \in 1 .. 0 |-> s], s, 0)
    BY DEF Flattens
  <2> QED
    BY <2>1
<1>2. ASSUME NEW k \in Nat, k \in T PROVE k + 1 \in T
  <2>1. PICK f : Flattens(f, s, k)
    BY <1>2
  <2> DEFINE g == [i \in 1 .. k + 1 |->
                     IF i = k + 1 THEN IF i = 1 THEN s[i] ELSE f[i - 1] \o s[i] ELSE f[i]]
  <2>2. \A i \in 1 .. k : f[i] = IF i = 1 THEN s[i] ELSE f[i - 1] \o s[i]
    BY <2>1 DEF Flattens
  <2>3. ASSUME NEW i \in 1 .. k + 1
        PROVE  g[i] = IF i = 1 THEN s[i] ELSE g[i - 1] \o s[i]
    <3>1. CASE i = k + 1
      <4>1. i # 1 => g[i - 1] = f[i - 1]
        BY <3>1
      <4> QED
        BY <3>1, <4>1
    <3>2. CASE i # k + 1
      <4>1. i \in 1 .. k /\ g[i] = f[i]
        BY <3>2
      <4>2. i # 1 => i - 1 \in 1 .. k /\ g[i - 1] = f[i - 1]
        BY <3>2
      <4> QED
        BY <2>2, <4>1, <4>2
    <3> QED
      BY <3>1, <3>2
  <2>4. g = [i \in 1 .. k + 1 |-> IF i = 1 THEN s[i] ELSE g[i - 1] \o s[i]]
    <3> DEFINE h == [i \in 1 .. k + 1 |-> IF i = 1 THEN s[i] ELSE g[i - 1] \o s[i]]
    <3>1. DOMAIN g = 1 .. k + 1 /\ g = [i \in 1 .. k + 1 |-> g[i]]
      OBVIOUS
    <3>2. \A i \in 1 .. k + 1 : g[i] = h[i]
      BY <2>3
    <3> HIDE DEF g
    <3> QED
      BY <3>1, <3>2
  <2> HIDE DEF g
  <2>5. Flattens(g, s, k + 1)
    BY <2>4 DEF Flattens
  <2> QED
    BY <2>5
<1>3. \A k \in Nat : k \in T
  <2> HIDE DEF T
  <2> QED
    BY <1>1, <1>2, InductionOverSet
<1> QED
  BY <1>3

LEMMA FlattensAt ==
  ASSUME NEW f, NEW s, NEW n, Flattens(f, s, n), NEW i \in 1 .. n
  PROVE  f[i] = IF i = 1 THEN s[i] ELSE f[i - 1] \o s[i]
BY DEF Flattens

\* Two solutions agree as far as both go.
LEMMA FlatteningIsUnique ==
  ASSUME NEW s, NEW t, NEW m \in Nat, NEW n \in Nat, m <= n,
         NEW f, Flattens(f, s, m), NEW g, Flattens(g, t, n),
         \A i \in 1 .. m : s[i] = t[i]
  PROVE  m # 0 => f[m] = g[m]
<1> DEFINE T == {k \in Nat : k \in 1 .. m => f[k] = g[k]}
<1>1. 0 \in T
  OBVIOUS
<1>2. ASSUME NEW k \in Nat, k \in T PROVE k + 1 \in T
  <2> SUFFICES ASSUME k + 1 \in 1 .. m PROVE f[k + 1] = g[k + 1]
    OBVIOUS
  <2>1. /\ f[k + 1] = IF k + 1 = 1 THEN s[k + 1] ELSE f[k + 1 - 1] \o s[k + 1]
        /\ g[k + 1] = IF k + 1 = 1 THEN t[k + 1] ELSE g[k + 1 - 1] \o t[k + 1]
    <3>1. k + 1 \in 1 .. m /\ k + 1 \in 1 .. n
      OBVIOUS
    <3> QED
      BY <3>1, FlattensAt
  <2>2. k + 1 - 1 = k /\ s[k + 1] = t[k + 1] /\ (k + 1 # 1 => k \in 1 .. m)
    OBVIOUS
  <2>3. k + 1 # 1 => f[k] = g[k]
    BY <1>2, <2>2
  <2> QED
    BY <2>1, <2>2, <2>3
<1>3. \A k \in Nat : k \in T
  <2> HIDE DEF T
  <2> QED
    BY <1>1, <1>2, InductionOverSet
<1> QED
  BY <1>3

\* What FlattenSeq returns.
LEMMA FlattenSeqIs ==
  ASSUME NEW s, Len(s) \in Nat
  PROVE  /\ Len(s) = 0 => FlattenSeq(s) = s
         /\ Len(s) # 0 => \E f : Flattens(f, s, Len(s)) /\ FlattenSeq(s) = f[Len(s)]
<1> DEFINE Solution == CHOOSE f : Flattens(f, s, Len(s))
<1>1. Flattens(Solution, s, Len(s))
  BY FlatteningExists
<1>2. Len(s) # 0 => FlattenSeq(s) = Solution[Len(s)]
  BY DEF FlattenSeq, Flattens
<1>3. Len(s) = 0 => FlattenSeq(s) = s
  BY DEF FlattenSeq
<1> HIDE DEF Solution
<1> QED
  BY <1>1, <1>2, <1>3

LEMMA FlattenEmpty == FlattenSeq(<<>>) = <<>>
<1> Len(<<>>) = 0
  BY EmptySeq
<1> QED
  BY FlattenSeqIs

\* One more at the end.
LEMMA FlattenAppend ==
  ASSUME NEW E, NEW s \in Seq(Seq(E)), NEW x \in Seq(E)
  PROVE  FlattenSeq(Append(s, x)) = FlattenSeq(s) \o x
<1> DEFINE t == Append(s, x)
           n == Len(s)
<1>1. /\ n \in Nat /\ Len(t) = n + 1 /\ t[n + 1] = x
      /\ \A i \in 1 .. n : t[i] = s[i]
  BY LenProperties, AppendProperties
<1> HIDE DEF t, n
<1>2. PICK g : Flattens(g, t, n + 1) /\ FlattenSeq(t) = g[n + 1]
  BY <1>1, FlattenSeqIs
<1>3. g[n + 1] = IF n + 1 = 1 THEN t[n + 1] ELSE g[n + 1 - 1] \o t[n + 1]
  BY <1>1, <1>2, FlattensAt
<1>4. CASE n = 0
  <2>1. s = <<>>
    BY <1>4, EmptySeq DEF n
  <2> QED
    BY <1>1, <1>2, <1>3, <1>4, <2>1, FlattenEmpty, ConcatEmptySeq DEF t
<1>5. CASE n # 0
  <2>1. PICK f : Flattens(f, s, n) /\ FlattenSeq(s) = f[n]
    BY <1>1, <1>5, FlattenSeqIs DEF n
  <2>2. f[n] = g[n]
    <3>1. n \in Nat /\ n + 1 \in Nat /\ n <= n + 1 /\ \A i \in 1 .. n : s[i] = t[i]
      BY <1>1
    <3> QED
      BY <1>2, <1>5, <2>1, <3>1, FlatteningIsUnique
  <2>3. f[n] = g[n] /\ n + 1 - 1 = n
    BY <1>1, <2>2
  <2> QED
    BY <1>1, <1>2, <1>3, <1>5, <2>1, <2>3 DEF t
<1> QED
  BY <1>4, <1>5

\* Induction along the prefixes of a sequence.
LEMMA AppendLast ==
  ASSUME NEW E, NEW s \in Seq(E), NEW n \in Nat, n < Len(s)
  PROVE  /\ SubSeq(s, 1, n) \in Seq(E) /\ Len(SubSeq(s, 1, n)) = n
         /\ SubSeq(s, 1, n + 1) = Append(SubSeq(s, 1, n), s[n + 1])
         /\ s[n + 1] \in E
<1>1. Len(s) \in Nat /\ \A i \in 1 .. Len(s) : s[i] \in E
  BY LenProperties, ElementOfSeq
<1>2. /\ SubSeq(s, 1, n) \in Seq(E) /\ Len(SubSeq(s, 1, n)) = n
      /\ \A i \in 1 .. n : SubSeq(s, 1, n)[i] = s[i]
  BY <1>1, SubSeqProperties
<1>3. /\ SubSeq(s, 1, n + 1) \in Seq(E) /\ Len(SubSeq(s, 1, n + 1)) = n + 1
      /\ \A i \in 1 .. n + 1 : SubSeq(s, 1, n + 1)[i] = s[i]
  BY <1>1, SubSeqProperties
<1>4. s[n + 1] \in E
  BY <1>1
<1>5. /\ Append(SubSeq(s, 1, n), s[n + 1]) \in Seq(E)
      /\ Len(Append(SubSeq(s, 1, n), s[n + 1])) = n + 1
      /\ \A i \in 1 .. n : Append(SubSeq(s, 1, n), s[n + 1])[i] = s[i]
      /\ Append(SubSeq(s, 1, n), s[n + 1])[n + 1] = s[n + 1]
  BY <1>2, <1>4, AppendProperties
<1>6. SubSeq(s, 1, n + 1) = Append(SubSeq(s, 1, n), s[n + 1])
  BY <1>3, <1>5, SeqEqual
<1> QED
  BY <1>2, <1>4, <1>6

LEMMA FlattenType ==
  ASSUME NEW E, NEW s \in Seq(Seq(E))
  PROVE  FlattenSeq(s) \in Seq(E)
<1> DEFINE T == {k \in Nat : k <= Len(s) => FlattenSeq(SubSeq(s, 1, k)) \in Seq(E)}
<1>1. 0 \in T
  <2>1. SubSeq(s, 1, 0) = <<>>
    BY SubSeqEmpty
  <2> QED
    BY <2>1, FlattenEmpty, EmptySeq
<1>2. ASSUME NEW k \in Nat, k \in T PROVE k + 1 \in T
  <2> SUFFICES ASSUME k + 1 <= Len(s) PROVE FlattenSeq(SubSeq(s, 1, k + 1)) \in Seq(E)
    OBVIOUS
  <2>1. k < Len(s) /\ FlattenSeq(SubSeq(s, 1, k)) \in Seq(E)
    BY <1>2, LenProperties
  <2>2. /\ SubSeq(s, 1, k) \in Seq(Seq(E)) /\ s[k + 1] \in Seq(E)
        /\ SubSeq(s, 1, k + 1) = Append(SubSeq(s, 1, k), s[k + 1])
    BY <2>1, AppendLast
  <2>3. FlattenSeq(SubSeq(s, 1, k + 1)) = FlattenSeq(SubSeq(s, 1, k)) \o s[k + 1]
    BY <2>2, FlattenAppend
  <2> QED
    BY <2>1, <2>2, <2>3, ConcatProperties
<1>3. \A k \in Nat : k \in T
  <2> HIDE DEF T
  <2> QED
    BY <1>1, <1>2, InductionOverSet
<1>4. Len(s) \in Nat /\ SubSeq(s, 1, Len(s)) = s
  BY LenProperties, SubSeqFull
<1>5. FlattenSeq(SubSeq(s, 1, Len(s))) \in Seq(E)
  BY <1>3, <1>4
<1> QED
  BY <1>4, <1>5

LEMMA AppendBehind ==
  ASSUME NEW E, NEW s \in Seq(E), NEW u \in Seq(E), NEW x \in E
  PROVE  s \o Append(u, x) = Append(s \o u, x)
<1>1. <<x>> \in Seq(E)
  OBVIOUS
<1>2. s \o u \in Seq(E)
  BY ConcatProperties
<1>3. Append(u, x) = u \o <<x>>
  BY AppendIsConcat
<1>4. Append(s \o u, x) = (s \o u) \o <<x>>
  BY <1>2, AppendIsConcat
<1>5. (s \o u) \o <<x>> = s \o (u \o <<x>>)
  BY <1>1, ConcatAssociative
<1> QED
  BY <1>3, <1>4, <1>5

LEMMA FlattenConcatStep ==
  ASSUME NEW E, NEW s \in Seq(Seq(E)), NEW u \in Seq(Seq(E)), NEW x \in Seq(E),
         FlattenSeq(s \o u) = FlattenSeq(s) \o FlattenSeq(u)
  PROVE  FlattenSeq(s \o Append(u, x)) = FlattenSeq(s) \o FlattenSeq(Append(u, x))
<1>1. s \o Append(u, x) = Append(s \o u, x)
  BY AppendBehind
<1>2. s \o u \in Seq(Seq(E))
  BY ConcatProperties
<1>3. FlattenSeq(Append(s \o u, x)) = FlattenSeq(s \o u) \o x
  BY <1>2, FlattenAppend
<1>4. FlattenSeq(Append(u, x)) = FlattenSeq(u) \o x
  BY FlattenAppend
<1>5. FlattenSeq(s) \in Seq(E) /\ FlattenSeq(u) \in Seq(E)
  BY FlattenType
<1>6. (FlattenSeq(s) \o FlattenSeq(u)) \o x = FlattenSeq(s) \o (FlattenSeq(u) \o x)
  BY <1>5, ConcatAssociative
<1> QED
  BY <1>1, <1>3, <1>4, <1>6

\* A sequence of sequences behind another.
LEMMA FlattenConcat ==
  ASSUME NEW E, NEW s \in Seq(Seq(E)), NEW t \in Seq(Seq(E))
  PROVE  FlattenSeq(s \o t) = FlattenSeq(s) \o FlattenSeq(t)
<1> DEFINE Upto(k) == SubSeq(t, 1, k)
           T == {k \in Nat : k <= Len(t) =>
                   FlattenSeq(s \o Upto(k)) = FlattenSeq(s) \o FlattenSeq(Upto(k))}
<1>1. 0 \in T
  <2>1. Upto(0) = <<>>
    BY SubSeqEmpty
  <2>2. s \o <<>> = s /\ FlattenSeq(s) \in Seq(E)
    BY ConcatEmptySeq, FlattenType
  <2>3. FlattenSeq(s) \o <<>> = FlattenSeq(s)
    BY <2>2, ConcatEmptySeq
  <2> QED
    BY <2>1, <2>2, <2>3, FlattenEmpty
<1>2. ASSUME NEW k \in Nat, k \in T PROVE k + 1 \in T
  <2> SUFFICES ASSUME k + 1 <= Len(t)
               PROVE  FlattenSeq(s \o Upto(k + 1)) = FlattenSeq(s) \o FlattenSeq(Upto(k + 1))
    OBVIOUS
  <2>1. /\ k < Len(t)
        /\ FlattenSeq(s \o Upto(k)) = FlattenSeq(s) \o FlattenSeq(Upto(k))
    BY <1>2, LenProperties
  <2> DEFINE u == Upto(k)
             x == t[k + 1]
  <2>2. u \in Seq(Seq(E)) /\ x \in Seq(E) /\ Upto(k + 1) = Append(u, x)
    BY <2>1, AppendLast
  <2>3. FlattenSeq(s \o u) = FlattenSeq(s) \o FlattenSeq(u)
    BY <2>1
  <2> HIDE DEF u, x, Upto
  <2> QED
    BY <2>2, <2>3, FlattenConcatStep, ZenonT(40)
<1>3. \A k \in Nat : k \in T
  <2> HIDE DEF T
  <2> QED
    BY <1>1, <1>2, InductionOverSet
<1>4. Len(t) \in Nat /\ Upto(Len(t)) = t
  BY LenProperties, SubSeqFull
<1>5. FlattenSeq(s \o Upto(Len(t))) = FlattenSeq(s) \o FlattenSeq(Upto(Len(t)))
  <2>1. Len(t) \in T /\ Len(t) <= Len(t)
    BY <1>3, <1>4
  <2> QED
    BY <2>1
<1> QED
  BY <1>4, <1>5

LEMMA FlattenOne ==
  ASSUME NEW E, NEW x \in Seq(E)
  PROVE  FlattenSeq(<<x>>) = x
<1>1. <<x>> = Append(<<>>, x)
  OBVIOUS
<1>2. <<>> \in Seq(Seq(E))
  BY EmptySeq
<1>3. FlattenSeq(Append(<<>>, x)) = FlattenSeq(<<>>) \o x
  BY <1>2, FlattenAppend
<1>4. <<>> \o x = x
  BY ConcatEmptySeq
<1> QED
  BY <1>1, <1>3, <1>4, FlattenEmpty

\* The first one, and the rest.
LEMMA FlattenHead ==
  ASSUME NEW E, NEW s \in Seq(Seq(E)), s # <<>>
  PROVE  FlattenSeq(s) = Head(s) \o FlattenSeq(Tail(s))
<1>1. Head(s) \in Seq(E) /\ Tail(s) \in Seq(Seq(E)) /\ s = <<Head(s)>> \o Tail(s)
  BY HeadTailProperties
<1>2. <<Head(s)>> \in Seq(Seq(E))
  BY <1>1
<1>3. FlattenSeq(<<Head(s)>> \o Tail(s)) = FlattenSeq(<<Head(s)>>) \o FlattenSeq(Tail(s))
  BY <1>1, <1>2, FlattenConcat
<1>4. FlattenSeq(<<Head(s)>>) = Head(s)
  BY <1>1, FlattenOne
<1> QED
  BY <1>1, <1>3, <1>4
=============================================================================
