--------------------------- MODULE SelectionProofs ---------------------------
(***************************************************************************)
(* Proofs about module Selection, for every tree, list of roots,           *)
(* configuration and command line.  WalkInv says in closed form what k     *)
(* walks have found: a package has exactly its own files (those with no    *)
(* package between it and them, among all the packages below any root)     *)
(* that the patterns want and that lie below one of the k roots.  A walk   *)
(* knows only the packages of the roots before it, and still decides       *)
(* alike: every package between a file and a root it lies below lies       *)
(* below that root too.  PkgInv says that the list of packages names each  *)
(* selected directory once, whatever its order.  The last part is about    *)
(* the matcher: what a pattern means satisfies the equations of the        *)
(* recursive functions, and these have one solution only.                  *)
(***************************************************************************)
EXTENDS Selection, SequenceTheorems, FiniteSetTheorems, NaturalsInduction, WellFoundedInduction,
        TLAPS

-----------------------------------------------------------------------------
(* Slices *)

\* The numbers from 1 to n are n.
LEMMA Interval == ASSUME NEW n \in Nat PROVE IsFiniteSet(1 .. n) /\ Cardinality(1 .. n) = n
<1>1. IsFiniteSet(1 .. n) /\ Cardinality(1 .. n) = IF 1 > n THEN 0 ELSE n - 1 + 1
  BY FS_Interval
<1> QED
  BY <1>1

\* The order of the positions `at` is total.
StrictOrder(at, before) ==
    /\ \A i \in at : <<i, i>> \notin before
    /\ \A i, j, k \in at : <<i, j>> \in before /\ <<j, k>> \in before => <<i, k>> \in before
    /\ \A i, j \in at : i # j => <<i, j>> \in before \/ <<j, i>> \in before

Preds(i, at, before) == {j \in at : <<j, i>> \in before}
Rank(i, at, before) == Cardinality(Preds(i, at, before))

\* The ranks of n positions are the numbers below n, each of one of them.
LEMMA Ranks ==
    ASSUME NEW at, NEW before, IsFiniteSet(at), StrictOrder(at, before)
    PROVE  /\ Cardinality(at) \in Nat
           /\ \A i \in at : Rank(i, at, before) \in 0 .. Cardinality(at) - 1
           /\ \A i, j \in at : Rank(i, at, before) = Rank(j, at, before) => i = j
           /\ \A k \in 0 .. Cardinality(at) - 1 : \E i \in at : Rank(i, at, before) = k
<1> DEFINE n == Cardinality(at)
           R == [i \in at |-> Rank(i, at, before)]
<1>1. n \in Nat
  BY FS_CardinalityType
<1>2. ASSUME NEW i \in at, NEW j \in at, <<i, j>> \in before
      PROVE  Rank(i, at, before) < Rank(j, at, before)
  <2> DEFINE P == Preds(i, at, before)
             Q == Preds(j, at, before)
             PI == P \cup {i}
  <2>1. P \in SUBSET at /\ Q \in SUBSET at /\ i \notin P
    BY DEF Preds, StrictOrder
  <2>2. PI \in SUBSET Q
    BY <1>2 DEF Preds, StrictOrder
  <2> HIDE DEF P, Q
  <2>3. IsFiniteSet(P) /\ IsFiniteSet(Q)
    BY <2>1, FS_Subset
  <2>4. Cardinality(PI) = Cardinality(P) + 1
    BY <2>1, <2>3, FS_AddElement
  <2> HIDE DEF PI
  <2>5. Cardinality(PI) <= Cardinality(Q)
    BY <2>2, <2>3, FS_Subset
  <2>6. Cardinality(P) \in Nat /\ Cardinality(Q) \in Nat
    BY <2>3, FS_CardinalityType
  <2> QED
    BY <2>4, <2>5, <2>6 DEF Rank, P, Q
<1>3. ASSUME NEW i \in at PROVE Rank(i, at, before) \in 0 .. n - 1
  <2> DEFINE P == Preds(i, at, before)
             Q == at \ {i}
  <2>1. P \in SUBSET Q
    BY DEF Preds, StrictOrder
  <2>2. IsFiniteSet(Q) /\ Cardinality(Q) = n - 1
    BY FS_RemoveElement
  <2> HIDE DEF P, Q, n
  <2>3. IsFiniteSet(P) /\ Cardinality(P) <= Cardinality(Q)
    BY <2>1, <2>2, FS_Subset
  <2>4. Cardinality(P) \in Nat
    BY <2>3, FS_CardinalityType
  <2> QED
    BY <1>1, <2>2, <2>3, <2>4 DEF Rank, P
<1>4. ASSUME NEW i \in at, NEW j \in at, Rank(i, at, before) = Rank(j, at, before) PROVE i = j
  <2> SUFFICES ASSUME i # j PROVE FALSE
    OBVIOUS
  <2>1. <<i, j>> \in before \/ <<j, i>> \in before
    BY DEF StrictOrder
  <2>2. Rank(i, at, before) < Rank(j, at, before) \/ Rank(j, at, before) < Rank(i, at, before)
    BY <1>2, <2>1
  <2>3. Rank(i, at, before) \in Nat
    BY <1>1, <1>3
  <2> QED
    BY <1>4, <2>2, <2>3
<1>5. R \in Injection(at, 0 .. n - 1)
  <2> HIDE DEF n
  <2>1. R \in [at -> 0 .. n - 1]
    BY <1>3
  <2>2. IsInjective(R)
    BY <1>4 DEF IsInjective
  <2> QED
    BY <2>1, <2>2 DEF Injection
<1>6. IsFiniteSet(0 .. n - 1) /\ Cardinality(0 .. n - 1) = n
  <2> HIDE DEF n
  <2>1. 0 \in Int /\ n - 1 \in Int
    BY <1>1
  <2>2. IsFiniteSet(0 .. n - 1) /\ Cardinality(0 .. n - 1) = IF 0 > n - 1 THEN 0 ELSE (n - 1) - 0 + 1
    BY <2>1, FS_Interval
  <2> QED
    BY <1>1, <2>2
<1>7. R \in Surjection(at, 0 .. n - 1)
  BY <1>5, <1>6, FS_Injection
<1>8. \A k \in 0 .. n - 1 : \E i \in at : R[i] = k
  BY <1>7 DEF Surjection
<1> QED
  BY <1>1, <1>3, <1>4, <1>8

Positions(at, before) ==
    [k \in 1 .. Cardinality(at) |-> CHOOSE i \in at : Rank(i, at, before) = k - 1]

\* The positions in their order are all of them, each once.
LEMMA PositionsProps ==
    ASSUME NEW at, NEW before, IsFiniteSet(at), StrictOrder(at, before)
    PROVE  /\ Cardinality(at) \in Nat
           /\ \A k \in 1 .. Cardinality(at) :
                /\ Positions(at, before)[k] \in at
                /\ Rank(Positions(at, before)[k], at, before) = k - 1
           /\ \A i \in at : \E k \in 1 .. Cardinality(at) : Positions(at, before)[k] = i
<1> DEFINE n == Cardinality(at)
           pos == Positions(at, before)
<1>1. /\ n \in Nat
      /\ \A i \in at : Rank(i, at, before) \in 0 .. n - 1
      /\ \A i, j \in at : Rank(i, at, before) = Rank(j, at, before) => i = j
      /\ \A k \in 0 .. n - 1 : \E i \in at : Rank(i, at, before) = k
  BY Ranks
<1>2. ASSUME NEW k \in 1 .. n PROVE pos[k] \in at /\ Rank(pos[k], at, before) = k - 1
  <2>1. k - 1 \in 0 .. n - 1
    BY <1>1
  <2>2. \E i \in at : Rank(i, at, before) = k - 1
    BY <1>1, <2>1
  <2>3. pos[k] = CHOOSE i \in at : Rank(i, at, before) = k - 1
    BY DEF Positions
  <2> QED
    BY <2>2, <2>3
<1>3. ASSUME NEW i \in at PROVE \E k \in 1 .. n : pos[k] = i
  <2> DEFINE k == Rank(i, at, before) + 1
  <2>1. k \in 1 .. n /\ Rank(i, at, before) = k - 1
    BY <1>1
  <2> QED
    BY <1>1, <1>2, <2>1
<1> QED
  BY <1>1, <1>2, <1>3

\* What is sorted: the elements at the positions, and no others, each as often.
LEMMA InOrderProps ==
    ASSUME NEW S, NEW s \in Seq(S), NEW at, at \subseteq DOMAIN s, NEW before, StrictOrder(at, before)
    PROVE  /\ InOrder(s, at, before) \in Seq(S)
           /\ ToSet(InOrder(s, at, before)) = {s[i] : i \in at}
           /\ IsInjective(s) => IsInjective(InOrder(s, at, before))
           /\ (InOrder(s, at, before) = <<>>) = (at = {})
<1> DEFINE n == Cardinality(at)
           pos == Positions(at, before)
           t == InOrder(s, at, before)
<1>0. at \in SUBSET (1 .. Len(s)) /\ Len(s) \in Nat
  BY LenProperties
<1>1. IsFiniteSet(at)
  <2>1. IsFiniteSet(1 .. Len(s))
    BY <1>0, FS_Interval
  <2> QED
    BY <1>0, <2>1, FS_Subset
<1>2. /\ n \in Nat
      /\ \A k \in 1 .. n : pos[k] \in at /\ Rank(pos[k], at, before) = k - 1
      /\ \A i \in at : \E k \in 1 .. n : pos[k] = i
  BY <1>1, PositionsProps
<1>3. t = [k \in 1 .. n |-> s[pos[k]]]
  BY DEF InOrder, Positions, Rank, Preds
<1> HIDE DEF t, pos
<1>4. \A k \in 1 .. n : s[pos[k]] \in S
  BY <1>0, <1>2, LenProperties
<1>5. t \in Seq(S) /\ Len(t) = n /\ DOMAIN t = 1 .. n
  <2> HIDE DEF n
  <2> QED
    BY <1>2, <1>3, <1>4
<1>6. ToSet(t) = {s[i] : i \in at}
  <2>1. ToSet(t) = {t[k] : k \in 1 .. n}
    BY <1>5 DEF ToSet
  <2>2. \A k \in 1 .. n : t[k] = s[pos[k]]
    BY <1>3
  <2> HIDE DEF n
  <2>3. {t[k] : k \in 1 .. n} \subseteq {s[i] : i \in at}
    BY <1>2, <2>2
  <2>4. {s[i] : i \in at} \subseteq {t[k] : k \in 1 .. n}
    <3> SUFFICES ASSUME NEW i \in at PROVE s[i] \in {t[k] : k \in 1 .. n}
      OBVIOUS
    <3>1. PICK k \in 1 .. n : pos[k] = i
      BY <1>2
    <3> QED
      BY <2>2, <3>1
  <2> QED
    BY <2>1, <2>3, <2>4
<1>7. ASSUME IsInjective(s) PROVE IsInjective(t)
  <2> SUFFICES ASSUME NEW k \in 1 .. n, NEW m \in 1 .. n, t[k] = t[m] PROVE k = m
    BY <1>5 DEF IsInjective
  <2>1. s[pos[k]] = s[pos[m]] /\ pos[k] \in DOMAIN s /\ pos[m] \in DOMAIN s
    BY <1>2, <1>3
  <2>2. pos[k] = pos[m]
    BY <1>7, <2>1 DEF IsInjective
  <2> QED
    BY <1>2, <2>2
<1>8. (t = <<>>) = (at = {})
  <2>1. (t = <<>>) = (n = 0)
    BY <1>2, <1>5, EmptySeq
  <2>2. (n = 0) = (at = {})
    BY <1>1, FS_EmptySet
  <2> QED
    BY <2>1, <2>2
<1> QED
  BY <1>5, <1>6, <1>7, <1>8 DEF t

\* Filtering keeps the elements of the set, each as often and in its order; only
\* the elements that are there matter; what keeps everything changes nothing.
LEMMA KeptProps ==
    ASSUME NEW S, NEW s \in Seq(S), NEW set
    PROVE  /\ Kept(s, set) \in Seq(S)
           /\ ToSet(Kept(s, set)) = ToSet(s) \cap set
           /\ IsInjective(s) => IsInjective(Kept(s, set))
           /\ (Kept(s, set) = <<>>) = (ToSet(s) \cap set = {})
<1> DEFINE at == {i \in DOMAIN s : s[i] \in set}
           before == {p \in at \X at : p[1] < p[2]}
<1>1. at \subseteq DOMAIN s /\ at \subseteq Nat
  BY LenProperties
<1>2. \A i, j \in at : <<i, j>> \in before <=> i < j
  OBVIOUS
<1>3. Kept(s, set) = InOrder(s, at, before)
  BY DEF Kept
<1>4. {s[i] : i \in at} = ToSet(s) \cap set
  BY DEF ToSet
<1>5. (at = {}) = (ToSet(s) \cap set = {})
  BY DEF ToSet
<1> HIDE DEF at, before
<1>6. StrictOrder(at, before)
  BY <1>1, <1>2 DEF StrictOrder
<1> QED
  BY <1>1, <1>3, <1>4, <1>5, <1>6, InOrderProps

\* Keeping every element of a list keeps the list.
LEMMA KeptAll ==
    ASSUME NEW S, NEW s \in Seq(S), NEW T, ToSet(s) \subseteq T
    PROVE  Kept(s, T) = s
<1> DEFINE n == Len(s)
           at == {i \in DOMAIN s : s[i] \in T}
           before == {p \in at \X at : p[1] < p[2]}
<1>1. at = 1 .. n /\ n \in Nat /\ DOMAIN s = 1 .. n
  BY LenProperties DEF ToSet
<1>2. Cardinality(at) = n
  BY <1>1, Interval
<1>3. ASSUME NEW i \in 1 .. n PROVE Cardinality({j \in at : <<j, i>> \in before}) = i - 1
  <2>1. {j \in at : <<j, i>> \in before} = 1 .. i - 1
    BY <1>1
  <2>2. Cardinality(1 .. i - 1) = i - 1
    <3>1. i - 1 \in Nat
      BY <1>1
    <3> QED
      BY <3>1, Interval
  <2> QED
    BY <2>1, <2>2
<1>4. Kept(s, T) =
          [k \in 1 .. n |-> s[CHOOSE i \in at : Cardinality({j \in at : <<j, i>> \in before}) = k - 1]]
  BY <1>2 DEF Kept, InOrder
<1>5. ASSUME NEW k \in 1 .. n
      PROVE  (CHOOSE i \in at : Cardinality({j \in at : <<j, i>> \in before}) = k - 1) = k
  <2>1. k \in at /\ Cardinality({j \in at : <<j, k>> \in before}) = k - 1
    BY <1>1, <1>3
  <2>2. \A i \in at : Cardinality({j \in at : <<j, i>> \in before}) = k - 1 => i = k
    BY <1>1, <1>3
  <2> QED
    BY <2>1, <2>2
<1>6. Kept(s, T) = [k \in 1 .. n |-> s[k]]
  BY <1>4, <1>5
<1> QED
  BY <1>1, <1>6

-----------------------------------------------------------------------------
(* Paths *)

\* A set of naturals that is not empty has a smallest one.
LEMMA Smallest == ASSUME NEW T \in SUBSET Nat, T # {} PROVE \E m \in T : \A n \in T : m <= n
<1> DEFINE R == OpToRel(<, Nat)
<1>1. IsWellFoundedOn(R, Nat)
  BY NatLessThanWellFounded
<1>2. \A x, y \in Nat : y < x => <<y, x>> \in R
  BY DEF OpToRel
<1> HIDE DEF R
<1>3. PICK m \in T : \A n \in T : <<n, m>> \notin R
  BY <1>1, WFMin
<1>4. ASSUME NEW n \in T PROVE m <= n
  <2>1. m \in Nat /\ n \in Nat /\ ~ (n < m)
    BY <1>2, <1>3
  <2> QED
    BY <2>1
<1> QED
  BY <1>4

\* A prefix is the first part of a sequence.
LEMMA PrefixIs ==
    ASSUME NEW S, NEW s \in Seq(S), NEW t \in Seq(S)
    PROVE  IsPrefix(s, t) <=> Len(s) <= Len(t) /\ \A i \in 1 .. Len(s) : s[i] = t[i]
<1>1. Len(s) \in Nat /\ Len(t) \in Nat
  BY LenProperties
<1>2. SubSeq(s, 1, Len(s)) = s
  BY SubSeqFull
<1>3. ASSUME Len(s) <= Len(t)
      PROVE  SubSeq(t, 1, Len(s)) = s <=> \A i \in 1 .. Len(s) : s[i] = t[i]
  <2> DEFINE u == SubSeq(t, 1, Len(s))
  <2>1. \A i \in 1 .. Len(s) : t[i] \in S
    BY <1>1, <1>3, ElementOfSeq
  <2>2. u \in Seq(S) /\ Len(u) = Len(s) /\ \A i \in 1 .. Len(s) : u[i] = t[i]
    <3>1. 1 \in Int /\ Len(s) \in Int
      BY <1>1
    <3>2. /\ u \in Seq(S) /\ Len(u) = IF 1 <= Len(s) THEN Len(s) - 1 + 1 ELSE 0
          /\ \A i \in 1 .. Len(s) - 1 + 1 : u[i] = t[1 + i - 1]
      BY <2>1, <3>1, SubSeqProperties
    <3> QED
      BY <1>1, <3>2
  <2> HIDE DEF u
  <2>3. (\A i \in 1 .. Len(s) : u[i] = s[i]) => u = s
    BY <2>2, SeqEqual
  <2>4. u = s <=> \A i \in 1 .. Len(s) : s[i] = t[i]
    BY <2>2, <2>3
  <2> QED
    BY <2>4 DEF u
<1> QED
  BY <1>2, <1>3 DEF IsPrefix

\* A prefix of a prefix is one.
LEMMA PrefixTrans ==
    ASSUME NEW S, NEW s \in Seq(S), NEW t \in Seq(S), NEW u \in Seq(S), IsPrefix(s, t), IsPrefix(t, u)
    PROVE  IsPrefix(s, u)
<1>1. /\ Len(s) <= Len(t) /\ \A i \in 1 .. Len(s) : s[i] = t[i]
      /\ Len(t) <= Len(u) /\ \A i \in 1 .. Len(t) : t[i] = u[i]
  BY PrefixIs
<1>2. Len(s) \in Nat /\ Len(t) \in Nat /\ Len(u) \in Nat
  BY LenProperties
<1>3. Len(s) <= Len(u) /\ \A i \in 1 .. Len(s) : s[i] = u[i]
  BY <1>1, <1>2
<1> QED
  BY <1>3, PrefixIs

\* Two prefixes of one path: the shorter is a prefix of the longer.
LEMMA PrefixComparable ==
    ASSUME NEW S, NEW s \in Seq(S), NEW t \in Seq(S), NEW u \in Seq(S), IsPrefix(s, u), IsPrefix(t, u),
           Len(s) <= Len(t)
    PROVE  IsPrefix(s, t)
<1>1. /\ \A i \in 1 .. Len(s) : s[i] = u[i]
      /\ \A i \in 1 .. Len(t) : t[i] = u[i]
  BY PrefixIs
<1>2. Len(s) \in Nat /\ Len(t) \in Nat
  BY LenProperties
<1>3. \A i \in 1 .. Len(s) : s[i] = t[i]
  BY <1>1, <1>2
<1> QED
  BY <1>3, PrefixIs

\* Two sequences that are prefixes of each other are equal.
LEMMA PrefixEqual ==
    ASSUME NEW S, NEW s \in Seq(S), NEW t \in Seq(S), IsPrefix(s, t), Len(t) <= Len(s)
    PROVE  s = t
<1>1. Len(s) <= Len(t) /\ \A i \in 1 .. Len(s) : s[i] = t[i]
  BY PrefixIs
<1>2. Len(s) \in Nat /\ Len(t) \in Nat
  BY LenProperties
<1>3. Len(s) = Len(t)
  BY <1>1, <1>2
<1> QED
  BY <1>1, <1>3, SeqEqual

\* Front(f) is all of a path but its last segment: the directory of a file.
LEMMA FrontProps ==
    ASSUME NEW S, NEW f \in Seq(S), f # <<>>
    PROVE  Front(f) \in Seq(S) /\ IsPrefix(Front(f), f)
<1>1. Len(f) \in Nat \ {0}
  BY EmptySeq
<1>2. \A i \in 1 .. Len(f) - 1 : f[i] \in S
  BY <1>1, ElementOfSeq
<1> DEFINE n == Len(f) - 1
           u == SubSeq(f, 1, n)
<1>3. n \in Int /\ 1 \in Int /\ n \in Nat /\ n <= Len(f)
  BY <1>1
<1> HIDE DEF n
<1>4. u \in Seq(S) /\ Len(u) = n /\ \A i \in 1 .. n : u[i] = f[i]
  <2>1. /\ u \in Seq(S) /\ Len(u) = IF 1 <= n THEN n - 1 + 1 ELSE 0
        /\ \A i \in 1 .. n - 1 + 1 : u[i] = f[1 + i - 1]
    BY <1>2, <1>3, SubSeqProperties DEF n
  <2> QED
    BY <1>3, <2>1
<1> HIDE DEF u
<1>5. IsPrefix(u, f)
  BY <1>3, <1>4, PrefixIs
<1>6. Front(f) = u
  BY DEF Front, u, n
<1> QED
  BY <1>4, <1>5, <1>6

\* A path below d is known by what follows d.
LEMMA RelInjective ==
    ASSUME NEW S, NEW d \in Seq(S), NEW f \in Seq(S), NEW g \in Seq(S), IsPrefix(d, f), IsPrefix(d, g),
           Rel(d, f) = Rel(d, g)
    PROVE  f = g
<1>1. /\ Len(d) <= Len(f) /\ \A i \in 1 .. Len(d) : d[i] = f[i]
      /\ Len(d) <= Len(g) /\ \A i \in 1 .. Len(d) : d[i] = g[i]
  BY PrefixIs
<1>2. Len(d) \in Nat /\ Len(f) \in Nat /\ Len(g) \in Nat
  BY LenProperties
<1> DEFINE b == Len(d) + 1
<1>3. ASSUME NEW h \in Seq(S), Len(d) <= Len(h)
      PROVE  Len(Rel(d, h)) = Len(h) - Len(d) /\ \A i \in 1 .. Len(h) - Len(d) : Rel(d, h)[i] = h[Len(d) + i]
  <2>1. \A i \in b .. Len(h) : h[i] \in S
    BY <1>2, <1>3, ElementOfSeq
  <2>2. b \in Int /\ Len(h) \in Int /\ b = Len(d) + 1 /\ Len(h) \in Nat
    BY <1>2, LenProperties
  <2> HIDE DEF b
  <2>3. /\ Len(SubSeq(h, b, Len(h))) = IF b <= Len(h) THEN Len(h) - b + 1 ELSE 0
        /\ \A i \in 1 .. Len(h) - b + 1 : SubSeq(h, b, Len(h))[i] = h[b + i - 1]
    BY <2>1, <2>2, SubSeqProperties
  <2>4. Rel(d, h) = SubSeq(h, b, Len(h))
    BY <2>2 DEF Rel
  <2> QED
    BY <1>2, <1>3, <2>2, <2>3, <2>4
<1>4. Len(f) = Len(g) /\ \A i \in 1 .. Len(f) - Len(d) : f[Len(d) + i] = g[Len(d) + i]
  <2>1. /\ Len(Rel(d, f)) = Len(f) - Len(d)
        /\ \A i \in 1 .. Len(f) - Len(d) : Rel(d, f)[i] = f[Len(d) + i]
    BY <1>1, <1>3
  <2>2. /\ Len(Rel(d, f)) = Len(g) - Len(d)
        /\ \A i \in 1 .. Len(g) - Len(d) : Rel(d, f)[i] = g[Len(d) + i]
    BY <1>1, <1>3
  <2>3. Len(f) - Len(d) = Len(g) - Len(d) /\ Len(f) = Len(g)
    BY <1>2, <2>1, <2>2
  <2> QED
    BY <2>1, <2>2, <2>3
<1>5. ASSUME NEW i \in 1 .. Len(f) PROVE f[i] = g[i]
  <2>1. CASE i <= Len(d)
    BY <1>1, <1>2, <2>1
  <2>2. CASE ~ (i <= Len(d))
    <3>1. i - Len(d) \in 1 .. Len(f) - Len(d) /\ Len(d) + (i - Len(d)) = i
      BY <1>2, <2>2
    <3> QED
      BY <1>4, <3>1
  <2> QED
    BY <2>1, <2>2
<1> QED
  BY <1>4, <1>5, SeqEqual

\* The path of a file below a directory is a path.
LEMMA RelTyped ==
    ASSUME NEW S, NEW d \in Seq(S), NEW f \in Seq(S)
    PROVE  Rel(d, f) \in Seq(S)
<1> DEFINE b == Len(d) + 1
<1>1. \A i \in b .. Len(f) : f[i] \in S
  BY LenProperties, ElementOfSeq
<1>2. b \in Int /\ Len(f) \in Int
  BY LenProperties
<1> HIDE DEF b
<1>3. SubSeq(f, b, Len(f)) \in Seq(S)
  BY <1>1, <1>2, SubSeqProperties
<1> QED
  BY <1>3 DEF Rel, b

\* Above finds a longest of the prefixes of a path.
LEMMA AboveProps ==
    ASSUME NEW S, NEW t \in Seq(S), NEW D, D # {}, \A e \in D : e \in Seq(S) /\ IsPrefix(e, t), NEW f
    PROVE  Above(D, f) \in D /\ \A e \in D : Len(e) <= Len(Above(D, f))
<1> DEFINE T == {Len(t) - Len(e) : e \in D}
<1>1. \A e \in D : Len(e) \in Nat /\ Len(e) <= Len(t) /\ Len(t) - Len(e) \in Nat
  <2> SUFFICES ASSUME NEW e \in D PROVE Len(e) \in Nat /\ Len(e) <= Len(t) /\ Len(t) - Len(e) \in Nat
    OBVIOUS
  <2>1. e \in Seq(S) /\ IsPrefix(e, t)
    OBVIOUS
  <2>2. Len(e) <= Len(t) /\ Len(e) \in Nat /\ Len(t) \in Nat
    BY <2>1, PrefixIs, LenProperties
  <2> QED
    BY <2>2
<1>2. T \in SUBSET Nat /\ T # {}
  BY <1>1
<1>3. PICK m \in T : \A n \in T : m <= n
  BY <1>2, Smallest
<1>4. PICK a \in D : m = Len(t) - Len(a)
  BY <1>3
<1>5. \A e \in D : Len(e) <= Len(a)
  <2> SUFFICES ASSUME NEW e \in D PROVE Len(e) <= Len(a)
    OBVIOUS
  <2>1. Len(t) - Len(a) <= Len(t) - Len(e)
    BY <1>3, <1>4
  <2>2. Len(t) \in Nat
    BY LenProperties
  <2> QED
    BY <1>1, <2>1, <2>2
<1> QED
  BY <1>5 DEF Above

-----------------------------------------------------------------------------
(* The walks *)

\* The packages the first k roots know.
Below(rs, mk, k) == {d \in mk : \E i \in 1 .. k : IsPrefix(rs[i], d)}

\* d is the innermost package above f, whatever root is walked.
Owns(rs, mk, d, f) ==
    LET known == Below(rs, mk, Len(rs)) IN
    /\ d \in known /\ IsPrefix(d, Front(f))
    /\ \A e \in known : IsPrefix(e, Front(f)) => IsPrefix(e, d)

Wanted(c, rel) == MatchAny(c.include, rel) /\ ~MatchAny(c.exclude, rel)

\* The files that d has when the files of k roots have been walked.
Mine(rs, mk, c, d, k) ==
    {f \in ToSet(Files) : /\ Owns(rs, mk, d, f) /\ Wanted(c, Rel(d, f))
                          /\ \E i \in 1 .. k : IsPrefix(rs[i], d)}

FileRec == [rel : Paths, tests : Nat]
Stages == {"packages", "files", "drop", "exempt", "select", "ready", "error", "planned", "started"}

\* The inputs that Init has chosen.
InputsOK == roots \in Seq(Paths) /\ roots # <<>> /\ marked \subseteq ToSet(Dirs) /\ cfg \in Settings

\* Each variable's type while the roots are walked, and after.
WalkTyped ==
    /\ InputsOK /\ stage \in Stages /\ root \in 1 .. Len(roots)
    /\ order \in Seq(ToSet(Dirs)) /\ IsInjective(order)
    /\ files \in [ToSet(Dirs) -> Seq(FileRec)]

\* How many roots' directories, and how many roots' files, have been walked.
Scanned == IF stage = "packages" THEN root - 1 ELSE IF stage = "files" THEN root ELSE Len(roots)
Walked == IF stage \in {"packages", "files"} THEN root - 1 ELSE Len(roots)

\* The packages known are those below the roots scanned; the files seen are those
\* that some package has; a package has its own files, each once.
OrderOK == ToSet(order) = Below(roots, marked, Scanned)
SeenOK == \A f : f \in seen <=> \E d \in ToSet(Dirs) : f \in Mine(roots, marked, cfg, d, Walked)
Once(fs) == \A i, j \in DOMAIN fs : fs[i].rel = fs[j].rel => i = j
FilesOK ==
    \A d \in ToSet(Dirs) :
        /\ ToSet(files[d]) = {File(d, f) : f \in Mine(roots, marked, cfg, d, Walked)}
        /\ Once(files[d])

WalkInv == WalkTyped /\ OrderOK /\ SeenOK /\ FilesOK

\* What the assumptions say of the tree that a session walks.
LEMMA Constants ==
    /\ Dirs \in Seq(Paths) /\ IsInjective(Dirs) /\ <<<<".">>>> \notin ToSet(Dirs)
    /\ ToSet(Dirs) \subseteq Paths
    /\ Files \in Seq(Paths) /\ IsInjective(Files)
    /\ \A f \in ToSet(Files) : f \in Paths /\ f # <<>>
<1>1. \A i \in DOMAIN Dirs : Dirs[i] \in Paths
  BY TreeAssumption, ElementOfSeq, LenProperties
<1>2. \A i \in DOMAIN Files : Files[i] \in Paths \ {<<>>}
  BY TreeAssumption, ElementOfSeq, LenProperties
<1>3. Files \in Seq(Paths)
  BY TreeAssumption, SeqMonotonic
<1> QED
  BY <1>1, <1>2, <1>3, TreeAssumption DEF ToSet

Hits(c, rel) == {i \in DOMAIN c.tests : MatchGlob[c.tests[i]][rel]}

\* TestsFor returns the first mapping that matches, or what the fallback says.
LEMMA TestsForProps ==
    ASSUME cfg \in Settings, NEW rel
    PROVE  /\ TestsFor(rel) \in Nat
           /\ Hits(cfg, rel) # {} => /\ TestsFor(rel) \in Hits(cfg, rel) /\ TestsFor(rel) # 0
                                     /\ \A i \in Hits(cfg, rel) : TestsFor(rel) <= i
           /\ Hits(cfg, rel) = {} => (TestsFor(rel) = 0) = ~cfg.all
<1>1. cfg.tests \in Seq(Paths) /\ cfg.all \in BOOLEAN
  BY SettingsAssumption
<1>2. Hits(cfg, rel) \in SUBSET (Nat \ {0}) /\ Len(cfg.tests) \in Nat
  BY <1>1, LenProperties DEF Hits
<1>3. CASE Hits(cfg, rel) # {}
  <2>1. \E i \in Hits(cfg, rel) : \A j \in Hits(cfg, rel) : i <= j
    BY <1>2, <1>3, Smallest
  <2>2. TestsFor(rel) = CHOOSE i \in Hits(cfg, rel) : \A j \in Hits(cfg, rel) : i <= j
    BY <1>3 DEF TestsFor, Hits
  <2>3. TestsFor(rel) \in Hits(cfg, rel) /\ \A i \in Hits(cfg, rel) : TestsFor(rel) <= i
    BY <2>1, <2>2
  <2> QED
    BY <1>2, <1>3, <2>3
<1>4. CASE Hits(cfg, rel) = {}
  <2>1. TestsFor(rel) = IF cfg.all THEN Len(cfg.tests) + 1 ELSE 0
    BY <1>4 DEF TestsFor, Hits
  <2> QED
    BY <1>1, <1>2, <1>4, <2>1
<1> QED
  BY <1>3, <1>4

\* What a walk notes of a file has its type.
LEMMA FileTyped ==
    ASSUME cfg \in Settings, NEW d \in Paths, NEW f \in Paths
    PROVE  File(d, f) \in FileRec /\ File(d, f).rel = Rel(d, f) /\ File(d, f).tests = TestsFor(Rel(d, f))
<1>1. Rel(d, f) \in Paths
  BY RelTyped DEF Paths
<1>2. TestsFor(Rel(d, f)) \in Nat
  BY TestsForProps
<1> QED
  BY <1>1, <1>2 DEF File, FileRec

\* The notes of a file depend on the configuration only.
LEMMA FileSame == ASSUME UNCHANGED inputs PROVE \A d, f : File(d, f)' = File(d, f)
BY DEF inputs, File, TestsFor

\* The package a root finds above a file is the innermost of all, if that is
\* below the root, and none otherwise.
LEMMA Innermost ==
    ASSUME InputsOK, NEW k \in 1 .. Len(roots), ToSet(order) = Below(roots, marked, k),
           NEW f \in ToSet(Files), NEW d
    PROVE  Packages(roots[k], f) # {} /\ Above(Packages(roots[k], f), f) = d
           <=> Owns(roots, marked, d, f) /\ IsPrefix(roots[k], d)
<1> DEFINE r == roots[k]
           ds == Packages(r, f)
           a == Above(ds, f)
           t == Front(f)
           known == Below(roots, marked, Len(roots))
<1>1. f \in Seq(Segments) /\ t \in Seq(Segments) /\ r \in Seq(Segments)
  <2>1. f \in Seq(Segments) /\ f # <<>>
    BY Constants DEF Paths
  <2>2. r \in Seq(Segments)
    BY ElementOfSeq DEF InputsOK, Paths
  <2> QED
    BY <2>1, <2>2, FrontProps
<1>2. \A e \in marked : e \in Seq(Segments)
  BY Constants DEF InputsOK, Paths
<1>3. \A e : e \in ds <=> e \in marked /\ IsPrefix(r, e) /\ IsPrefix(e, t)
  BY DEF Packages, Below
<1>4. \A e \in marked : IsPrefix(r, e) => e \in known
  <2>1. k \in 1 .. Len(roots)
    OBVIOUS
  <2> QED
    BY <2>1 DEF Below
<1>5. \A e \in known : e \in marked
  BY DEF Below
<1>6. \A e : Owns(roots, marked, e, f) <=>
                 e \in known /\ IsPrefix(e, t) /\ \A g \in known : IsPrefix(g, t) => IsPrefix(g, e)
  BY DEF Owns
<1>7. ASSUME ds # {} PROVE a \in ds /\ \A e \in ds : Len(e) <= Len(a)
  <2>1. \A e \in ds : e \in Seq(Segments) /\ IsPrefix(e, t)
    BY <1>2, <1>3
  <2> HIDE DEF ds, t
  <2> QED
    BY <1>1, <1>7, <2>1, AboveProps
<1> HIDE DEF r, ds, a, t, known
<1>8. ASSUME ds # {} PROVE Owns(roots, marked, a, f) /\ IsPrefix(r, a)
  <2>1. a \in marked /\ IsPrefix(r, a) /\ IsPrefix(a, t) /\ a \in known /\ a \in Seq(Segments)
    BY <1>2, <1>3, <1>4, <1>7, <1>8
  <2>2. ASSUME NEW g \in known, IsPrefix(g, t) PROVE IsPrefix(g, a)
    <3>1. g \in marked /\ g \in Seq(Segments)
      BY <1>2, <1>5
    <3>2. Len(g) \in Nat /\ Len(a) \in Nat
      BY <2>1, <3>1, LenProperties
    <3>3. CASE Len(g) <= Len(a)
      BY <1>1, <2>1, <2>2, <3>1, <3>3, PrefixComparable
    <3>4. CASE Len(a) <= Len(g)
      <4>1. IsPrefix(a, g)
        BY <1>1, <2>1, <2>2, <3>1, <3>4, PrefixComparable
      <4>2. IsPrefix(r, g)
        BY <1>1, <2>1, <3>1, <4>1, PrefixTrans
      <4>3. Len(g) <= Len(a)
        BY <1>3, <1>7, <1>8, <2>2, <3>1, <4>2
      <4> QED
        BY <3>3, <4>3
    <3> QED
      BY <3>2, <3>3, <3>4
  <2> QED
    BY <1>6, <2>1, <2>2
<1>9. ASSUME Owns(roots, marked, d, f), IsPrefix(r, d) PROVE ds # {} /\ a = d
  <2>1. d \in known /\ d \in marked /\ IsPrefix(d, t) /\ d \in Seq(Segments)
    BY <1>2, <1>5, <1>6, <1>9
  <2>2. d \in ds
    BY <1>3, <1>9, <2>1
  <2>3. a \in marked /\ a \in known /\ IsPrefix(a, t) /\ Len(d) <= Len(a) /\ a \in Seq(Segments)
    BY <1>2, <1>3, <1>4, <1>7, <2>2
  <2>4. IsPrefix(a, d)
    BY <1>6, <1>9, <2>3
  <2>5. a = d
    BY <2>1, <2>3, <2>4, PrefixEqual
  <2> QED
    BY <2>2, <2>5
<1>10. (ds # {} /\ a = d) <=> (Owns(roots, marked, d, f) /\ IsPrefix(r, d))
  BY <1>8, <1>9
<1> QED
  BY <1>10 DEF ds, a, r

\* A file has one innermost package, above it.
LEMMA OwnsProps ==
    ASSUME InputsOK, NEW f \in ToSet(Files), NEW d, Owns(roots, marked, d, f)
    PROVE  /\ d \in ToSet(Dirs) /\ d \in Paths /\ f \in Paths /\ IsPrefix(d, f)
           /\ \A e : Owns(roots, marked, e, f) => e = d
<1>1. f \in Seq(Segments) /\ Front(f) \in Seq(Segments) /\ IsPrefix(Front(f), f)
  <2>1. f \in Seq(Segments) /\ f # <<>>
    BY Constants DEF Paths
  <2> QED
    BY <2>1, FrontProps
<1>2. \A e : Owns(roots, marked, e, f) => e \in ToSet(Dirs) /\ e \in Seq(Segments) /\ IsPrefix(e, Front(f))
  BY Constants DEF InputsOK, Owns, Below, Paths
<1>3. IsPrefix(d, f)
  BY <1>1, <1>2, PrefixTrans
<1>4. ASSUME NEW e, Owns(roots, marked, e, f) PROVE e = d
  <2>1. IsPrefix(e, d) /\ IsPrefix(d, e)
    BY <1>4 DEF Owns
  <2>2. e \in Seq(Segments) /\ d \in Seq(Segments)
    BY <1>2, <1>4
  <2>3. Len(d) <= Len(e)
    BY <2>1, <2>2, PrefixIs
  <2> QED
    BY <2>1, <2>2, <2>3, PrefixEqual
<1> QED
  BY <1>1, <1>2, <1>3, <1>4 DEF Paths

\* What a walk of the files of a root adds to a package.
LEMMA ClaimedIs ==
    ASSUME WalkInv, stage = "files", NEW d \in ToSet(Dirs)
    PROVE  /\ Claimed(roots[root], d) \in Seq(Paths) /\ IsInjective(Claimed(roots[root], d))
           /\ \A f : f \in ToSet(Claimed(roots[root], d)) <=>
                        /\ f \in Mine(roots, marked, cfg, d, root)
                        /\ f \notin Mine(roots, marked, cfg, d, root - 1)
<1> DEFINE r == roots[root]
           set == {f \in ToSet(Files) :
                      /\ IsPrefix(r, f) /\ f \notin seen
                      /\ Packages(r, f) # {} /\ Above(Packages(r, f), f) = d
                      /\ MatchAny(cfg.include, Rel(d, f)) /\ ~MatchAny(cfg.exclude, Rel(d, f))}
<1>1. /\ InputsOK /\ root \in 1 .. Len(roots) /\ ToSet(order) = Below(roots, marked, root)
      /\ root \in Nat /\ r \in Seq(Segments)
  <2>1. InputsOK /\ root \in 1 .. Len(roots) /\ ToSet(order) = Below(roots, marked, root)
    BY DEF WalkInv, WalkTyped, OrderOK, Scanned
  <2>2. r \in Seq(Segments)
    BY <2>1, ElementOfSeq DEF InputsOK, Paths
  <2> QED
    BY <2>1, <2>2
<1>2. Claimed(r, d) = Kept(Files, set)
  BY DEF Claimed
<1>3. /\ Claimed(r, d) \in Seq(Paths) /\ IsInjective(Claimed(r, d))
      /\ ToSet(Claimed(r, d)) = ToSet(Files) \cap set
  <2> HIDE DEF set, r
  <2> QED
    BY <1>2, Constants, KeptProps
<1>4. ASSUME NEW f \in ToSet(Files)
      PROVE  f \in set <=> /\ f \in Mine(roots, marked, cfg, d, root)
                           /\ f \notin Mine(roots, marked, cfg, d, root - 1)
  <2>1. Packages(r, f) # {} /\ Above(Packages(r, f), f) = d <=> Owns(roots, marked, d, f) /\ IsPrefix(r, d)
    BY <1>1, Innermost
  <2>2. ASSUME Owns(roots, marked, d, f)
        PROVE  /\ IsPrefix(r, d) => IsPrefix(r, f)
               /\ f \in seen <=> f \in Mine(roots, marked, cfg, d, root - 1)
    <3>1. d \in Seq(Segments) /\ f \in Seq(Segments) /\ IsPrefix(d, f)
      BY <1>1, <2>2, OwnsProps DEF Paths
    <3>2. IsPrefix(r, d) => IsPrefix(r, f)
      BY <1>1, <3>1, PrefixTrans
    <3>3. \A e : f \in Mine(roots, marked, cfg, e, root - 1) => e = d
      BY <1>1, <2>2, OwnsProps DEF Mine
    <3>4. f \in seen <=> \E e \in ToSet(Dirs) : f \in Mine(roots, marked, cfg, e, root - 1)
      BY DEF WalkInv, SeenOK, Walked
    <3> QED
      BY <3>2, <3>3, <3>4
  <2>3. \A n : f \in Mine(roots, marked, cfg, d, n) <=>
                 /\ Owns(roots, marked, d, f) /\ Wanted(cfg, Rel(d, f))
                 /\ \E i \in 1 .. n : IsPrefix(roots[i], d)
    BY DEF Mine
  <2>4. (\E i \in 1 .. root : IsPrefix(roots[i], d)) <=> \/ \E i \in 1 .. root - 1 : IsPrefix(roots[i], d)
                                                         \/ IsPrefix(r, d)
    <3>1. \A i : i \in 1 .. root <=> i \in 1 .. root - 1 \/ i = root
      BY <1>1
    <3> QED
      BY <3>1
  <2>5. f \in set <=> /\ IsPrefix(r, f) /\ f \notin seen
                      /\ Owns(roots, marked, d, f) /\ IsPrefix(r, d) /\ Wanted(cfg, Rel(d, f))
    BY <2>1 DEF Wanted
  <2> HIDE DEF set, r
  <2> QED
    BY <2>2, <2>3, <2>4, <2>5
<1>5. \A f : f \in Mine(roots, marked, cfg, d, root) => f \in ToSet(Files)
  BY DEF Mine
<1> HIDE DEF set, r
<1>6. ASSUME NEW f
      PROVE  f \in ToSet(Claimed(r, d)) <=> /\ f \in Mine(roots, marked, cfg, d, root)
                                            /\ f \notin Mine(roots, marked, cfg, d, root - 1)
  BY <1>3, <1>4, <1>5
<1> QED
  BY <1>3, <1>6 DEF r

\* The elements of two slices put together are those of either.
LEMMA ConcatSet ==
    ASSUME NEW S, NEW s \in Seq(S), NEW t \in Seq(S)
    PROVE  \A x : x \in ToSet(s \o t) <=> x \in ToSet(s) \/ x \in ToSet(t)
<1>1. /\ s \o t \in Seq(S) /\ Len(s \o t) = Len(s) + Len(t)
      /\ \A i \in 1 .. Len(s) + Len(t) : (s \o t)[i] = IF i <= Len(s) THEN s[i] ELSE t[i - Len(s)]
  BY ConcatProperties
<1>2. /\ DOMAIN (s \o t) = 1 .. Len(s) + Len(t) /\ DOMAIN s = 1 .. Len(s) /\ DOMAIN t = 1 .. Len(t)
      /\ Len(s) \in Nat /\ Len(t) \in Nat
  BY <1>1, LenProperties
<1> DEFINE u == s \o t
<1>3. \A x : /\ x \in ToSet(u) <=> \E i \in 1 .. Len(s) + Len(t) : x = u[i]
             /\ x \in ToSet(s) <=> \E i \in 1 .. Len(s) : x = s[i]
             /\ x \in ToSet(t) <=> \E i \in 1 .. Len(t) : x = t[i]
  BY <1>2 DEF ToSet
<1>4. /\ \A i \in 1 .. Len(s) : i \in 1 .. Len(s) + Len(t) /\ u[i] = s[i]
      /\ \A i \in 1 .. Len(t) : i + Len(s) \in 1 .. Len(s) + Len(t) /\ u[i + Len(s)] = t[i]
      /\ \A i \in 1 .. Len(s) + Len(t) : ~ (i <= Len(s)) => i - Len(s) \in 1 .. Len(t) /\ u[i] = t[i - Len(s)]
      /\ \A i \in 1 .. Len(s) + Len(t) : i <= Len(s) => i \in 1 .. Len(s)
  BY <1>1, <1>2
<1> HIDE DEF u
<1>5. ASSUME NEW x, x \in ToSet(u) PROVE x \in ToSet(s) \/ x \in ToSet(t)
  <2>1. PICK i \in 1 .. Len(s) + Len(t) : x = u[i]
    BY <1>3, <1>5
  <2> QED
    BY <1>3, <1>4, <2>1
<1>6. ASSUME NEW x, x \in ToSet(s) \/ x \in ToSet(t) PROVE x \in ToSet(u)
  <2>1. CASE x \in ToSet(s)
    BY <1>3, <1>4, <2>1
  <2>2. CASE x \in ToSet(t)
    <3>1. PICK i \in 1 .. Len(t) : x = t[i]
      BY <1>3, <2>2
    <3>2. i + Len(s) \in 1 .. Len(s) + Len(t) /\ x = u[i + Len(s)]
      BY <1>4, <3>1
    <3> QED
      BY <1>3, <3>2
  <2> QED
    BY <1>6, <2>1, <2>2
<1> QED
  BY <1>5, <1>6 DEF u

\* What distinguishes the elements of s and of t distinguishes those of both.
LEMMA ConcatPairs ==
    ASSUME NEW S, NEW s \in Seq(S), NEW t \in Seq(S),
           NEW i \in DOMAIN (s \o t), NEW j \in DOMAIN (s \o t), i # j
    PROVE  \/ \E k, l \in DOMAIN s : k # l /\ (s \o t)[i] = s[k] /\ (s \o t)[j] = s[l]
           \/ \E k, l \in DOMAIN t : k # l /\ (s \o t)[i] = t[k] /\ (s \o t)[j] = t[l]
           \/ (s \o t)[i] \in ToSet(s) /\ (s \o t)[j] \in ToSet(t)
           \/ (s \o t)[j] \in ToSet(s) /\ (s \o t)[i] \in ToSet(t)
<1> DEFINE u == s \o t
           at(k) == k - Len(s)
<1>1. /\ u \in Seq(S) /\ Len(u) = Len(s) + Len(t)
      /\ \A k \in 1 .. Len(s) + Len(t) : u[k] = IF k <= Len(s) THEN s[k] ELSE t[k - Len(s)]
  BY ConcatProperties
<1>2. /\ DOMAIN u = 1 .. Len(s) + Len(t) /\ DOMAIN s = 1 .. Len(s) /\ DOMAIN t = 1 .. Len(t)
      /\ Len(s) \in Nat /\ Len(t) \in Nat
  BY <1>1, LenProperties
<1>3. ASSUME NEW k \in DOMAIN u
      PROVE  /\ k \in Nat
             /\ k <= Len(s) => k \in DOMAIN s /\ u[k] = s[k] /\ u[k] \in ToSet(s)
             /\ ~ (k <= Len(s)) => at(k) \in DOMAIN t /\ u[k] = t[at(k)] /\ u[k] \in ToSet(t)
  <2>1. /\ k \in Nat
        /\ k <= Len(s) => k \in DOMAIN s /\ u[k] = s[k]
        /\ ~ (k <= Len(s)) => at(k) \in DOMAIN t /\ u[k] = t[at(k)]
    BY <1>1, <1>2
  <2> HIDE DEF u, at
  <2> QED
    BY <2>1 DEF ToSet
<1>4. i \in DOMAIN u /\ j \in DOMAIN u
  OBVIOUS
<1>5. at(i) # at(j)
  BY <1>2, <1>3
<1> HIDE DEF u, at
<1>6. \/ \E k, l \in DOMAIN s : k # l /\ u[i] = s[k] /\ u[j] = s[l]
      \/ \E k, l \in DOMAIN t : k # l /\ u[i] = t[k] /\ u[j] = t[l]
      \/ u[i] \in ToSet(s) /\ u[j] \in ToSet(t)
      \/ u[j] \in ToSet(s) /\ u[i] \in ToSet(t)
  BY <1>3, <1>4, <1>5
<1> QED
  BY <1>6 DEF u

\* The walk's invariant holds when a session starts.
LEMMA WalkInit == Init => WalkInv
<1> SUFFICES ASSUME Init PROVE WalkInv
  OBVIOUS
<1>1. InputsOK
  BY TreeAssumption DEF Init, InputsOK
<1>2. root \in 1 .. Len(roots) /\ stage = "packages" /\ Scanned = 0 /\ Walked = 0
  <2>1. Len(roots) \in Nat \ {0}
    BY <1>1, EmptySeq DEF InputsOK
  <2> QED
    BY <2>1 DEF Init, Scanned, Walked
<1>3. order \in Seq(ToSet(Dirs)) /\ IsInjective(order) /\ ToSet(order) = {}
  BY EmptySeq DEF Init, IsInjective, ToSet
<1>4. Below(roots, marked, 0) = {} /\ \A d : Mine(roots, marked, cfg, d, 0) = {}
  BY DEF Below, Mine
<1>5. files \in [ToSet(Dirs) -> Seq(FileRec)]
  BY EmptySeq DEF Init
<1>6. ASSUME NEW d \in ToSet(Dirs) PROVE ToSet(files[d]) = {} /\ Once(files[d])
  BY DEF Init, ToSet, Once
<1>7. WalkTyped
  BY <1>1, <1>2, <1>3, <1>5 DEF WalkTyped, Stages
<1>8. OrderOK /\ SeenOK /\ FilesOK
  <2>1. seen = {}
    BY DEF Init
  <2>2. \A d : {File(d, f) : f \in Mine(roots, marked, cfg, d, 0)} = {}
    BY <1>4
  <2> QED
    BY <1>2, <1>3, <1>4, <1>6, <2>1, <2>2 DEF OrderOK, SeenOK, FilesOK
<1> QED
  BY <1>7, <1>8 DEF WalkInv

\* Walking the directories of one more root keeps it.
LEMMA WalkPackagesStep == ASSUME WalkInv, WalkPackages PROVE WalkInv'
<1> DEFINE r == roots[root]
           set == {d \in marked : IsPrefix(r, d) /\ d \notin ToSet(order)}
           new == Kept(Dirs, set)
           D == ToSet(Dirs)
<1>1. /\ InputsOK /\ root \in 1 .. Len(roots) /\ order \in Seq(D) /\ IsInjective(order)
      /\ files \in [D -> Seq(FileRec)] /\ stage = "packages"
      /\ ToSet(order) = Below(roots, marked, root - 1)
      /\ marked \subseteq D
  BY DEF WalkInv, WalkTyped, WalkPackages, OrderOK, Scanned, InputsOK
<1>2. order' = order \o new /\ stage' = "files" /\ UNCHANGED <<roots, marked, cfg, root, files, seen>>
  BY DEF WalkPackages, inputs
<1>3. new \in Seq(D) /\ ToSet(new) = D \cap set /\ IsInjective(new)
  <2>1. Dirs \in Seq(D)
    BY Constants, LenProperties DEF ToSet
  <2> HIDE DEF set, D
  <2>2. Kept(Dirs, set) \in Seq(D) /\ ToSet(Kept(Dirs, set)) = ToSet(Dirs) \cap set
        /\ IsInjective(Kept(Dirs, set))
    BY <2>1, Constants, KeptProps
  <2> QED
    BY <2>2 DEF D
<1>4. \A x \in ToSet(order) : x \notin ToSet(new)
  BY <1>3
<1>5. ToSet(order') = Below(roots, marked, root)
  <2>1. \A x : x \in ToSet(order \o new) <=> x \in ToSet(order) \/ x \in ToSet(new)
    <3> HIDE DEF new, D
    <3> QED
      BY <1>1, <1>3, ConcatSet
  <2>2. \A d : d \in Below(roots, marked, root)
               <=> d \in Below(roots, marked, root - 1) \/ (d \in marked /\ IsPrefix(r, d))
    <3>1. \A i : i \in 1 .. root <=> i \in 1 .. root - 1 \/ i = root
      BY <1>1
    <3> QED
      BY <3>1 DEF Below
  <2>3. \A d : d \in ToSet(new) <=> d \in marked /\ IsPrefix(r, d) /\ d \notin ToSet(order)
    BY <1>1, <1>3
  <2> HIDE DEF new, r
  <2>4. \A d : d \in ToSet(order') <=> d \in Below(roots, marked, root)
    BY <1>1, <1>2, <2>1, <2>2, <2>3
  <2> QED
    BY <2>4
<1>6. order' \in Seq(D) /\ IsInjective(order')
  <2> HIDE DEF new, D
  <2>1. order \o new \in Seq(D)
    BY <1>1, <1>3, ConcatProperties
  <2>2. ASSUME NEW i \in DOMAIN (order \o new), NEW j \in DOMAIN (order \o new), i # j
        PROVE  (order \o new)[i] # (order \o new)[j]
    <3>1. /\ \A k, l \in DOMAIN order : k # l => order[k] # order[l]
          /\ \A k, l \in DOMAIN new : k # l => new[k] # new[l]
      BY <1>1, <1>3 DEF IsInjective
    <3>2. \/ \E k, l \in DOMAIN order : k # l /\ (order \o new)[i] = order[k] /\ (order \o new)[j] = order[l]
          \/ \E k, l \in DOMAIN new : k # l /\ (order \o new)[i] = new[k] /\ (order \o new)[j] = new[l]
          \/ (order \o new)[i] \in ToSet(order) /\ (order \o new)[j] \in ToSet(new)
          \/ (order \o new)[j] \in ToSet(order) /\ (order \o new)[i] \in ToSet(new)
      <4>1. /\ order \in Seq(D) /\ new \in Seq(D) /\ i # j
            /\ i \in DOMAIN (order \o new) /\ j \in DOMAIN (order \o new)
        BY <1>1, <1>3, <2>2
      <4> QED
        BY ONLY <4>1, ConcatPairs
    <3> QED
      BY <1>4, <3>1, <3>2
  <2> QED
    BY <1>2, <2>1, <2>2 DEF IsInjective
<1> HIDE DEF r, set, new, D
<1>7. Scanned' = root /\ Walked' = Walked /\ root' = root /\ Walked = root - 1
  BY <1>1, <1>2 DEF Scanned, Walked
<1>8. WalkTyped'
  BY <1>1, <1>2, <1>6 DEF WalkTyped, InputsOK, Stages, D
<1>9. OrderOK'
  BY <1>2, <1>5, <1>7 DEF OrderOK
<1>10. SeenOK'
  BY <1>2, <1>7 DEF SeenOK, WalkInv
<1>11. FilesOK'
  <2>1. \A d, f : File(d, f)' = File(d, f)
    BY <1>2, FileSame DEF inputs
  <2> QED
    BY <1>2, <1>7, <2>1 DEF FilesOK, WalkInv
<1> QED
  BY <1>8, <1>9, <1>10, <1>11 DEF WalkInv

\* An action that leaves the walk alone leaves what is known of it alone.
LEMMA WalkKept ==
    ASSUME WalkInv, UNCHANGED <<inputs, root, order, files, seen>>,
           stage \notin {"packages", "files"}, stage' \in Stages \ {"packages", "files"}
    PROVE  WalkInv'
<1>1. Scanned' = Scanned /\ Walked' = Walked
  BY DEF Scanned, Walked, inputs
<1>2. WalkTyped'
  BY DEF WalkInv, WalkTyped, InputsOK, inputs
<1>3. OrderOK' /\ SeenOK'
  BY <1>1 DEF WalkInv, OrderOK, SeenOK, inputs
<1>4. FilesOK'
  <2>1. \A d, f : File(d, f)' = File(d, f)
    BY FileSame
  <2> QED
    BY <1>1, <2>1 DEF WalkInv, FilesOK, inputs
<1> QED
  BY <1>2, <1>3, <1>4 DEF WalkInv

\* The list of a package after the walk of one more root.
LEMMA FilesGrow ==
    ASSUME WalkInv, WalkFiles, NEW d \in ToSet(Dirs)
    PROVE  /\ files'[d] \in Seq(FileRec)
           /\ ToSet(files'[d]) = {File(d, f) : f \in Mine(roots, marked, cfg, d, root)}
           /\ Once(files'[d])
           /\ ToSet(Claimed(roots[root], d)) \subseteq Mine(roots, marked, cfg, d, root)
           /\ Mine(roots, marked, cfg, d, root) \subseteq
                  Mine(roots, marked, cfg, d, root - 1) \cup ToSet(Claimed(roots[root], d))
<1> DEFINE old == Mine(roots, marked, cfg, d, root - 1)
           now == Mine(roots, marked, cfg, d, root)
           c == Claimed(roots[root], d)
           g == [i \in DOMAIN c |-> File(d, c[i])]
           s == files[d]
<1>1. /\ InputsOK /\ root \in 1 .. Len(roots) /\ root \in Nat /\ stage = "files"
      /\ files \in [ToSet(Dirs) -> Seq(FileRec)] /\ s \in Seq(FileRec)
      /\ ToSet(s) = {File(d, f) : f \in old} /\ Once(s)
  BY DEF WalkInv, WalkTyped, WalkFiles, FilesOK, Walked
<1>2. files'[d] = s \o g
  BY <1>1 DEF WalkFiles
<1>3. c \in Seq(Paths) /\ IsInjective(c) /\ \A f : f \in ToSet(c) <=> f \in now /\ f \notin old
  BY <1>1, ClaimedIs
<1>4. \A f \in now : /\ f \in Seq(Segments) /\ d \in Seq(Segments) /\ IsPrefix(d, f)
                     /\ File(d, f) \in FileRec /\ File(d, f).rel = Rel(d, f)
  <2> SUFFICES ASSUME NEW f \in now
               PROVE  /\ f \in Seq(Segments) /\ d \in Seq(Segments) /\ IsPrefix(d, f)
                      /\ File(d, f) \in FileRec /\ File(d, f).rel = Rel(d, f)
    OBVIOUS
  <2>1. f \in ToSet(Files) /\ Owns(roots, marked, d, f)
    BY DEF Mine
  <2>2. f \in Paths /\ d \in Paths /\ IsPrefix(d, f)
    BY <1>1, <2>1, OwnsProps
  <2>3. File(d, f) \in FileRec /\ File(d, f).rel = Rel(d, f)
    BY <1>1, <2>2, FileTyped DEF InputsOK
  <2> QED
    BY <2>2, <2>3 DEF Paths
<1>5. old \subseteq now
  <2>1. \A i : i \in 1 .. root - 1 => i \in 1 .. root
    BY <1>1
  <2> QED
    BY <2>1 DEF Mine
<1>6. \A f, h \in now : File(d, f).rel = File(d, h).rel => f = h
  BY <1>4, RelInjective
<1> HIDE DEF old, now, c, s
<1>7. DOMAIN c = 1 .. Len(c) /\ Len(c) \in Nat /\ \A i \in DOMAIN c : c[i] \in ToSet(c) /\ c[i] \in now
  BY <1>3, LenProperties DEF ToSet
<1>8. /\ g \in Seq(FileRec) /\ DOMAIN g = DOMAIN c
      /\ \A i \in DOMAIN c : g[i] = File(d, c[i])
      /\ \A x : x \in ToSet(g) <=> \E f \in ToSet(c) : x = File(d, f)
  <2>1. \A i \in 1 .. Len(c) : File(d, c[i]) \in FileRec
    BY <1>4, <1>7
  <2>2. g = [i \in 1 .. Len(c) |-> File(d, c[i])]
    BY <1>7
  <2>3. g \in Seq(FileRec)
    BY <1>7, <2>1, <2>2
  <2>4. \A i \in DOMAIN c : g[i] = File(d, c[i])
    OBVIOUS
  <2>5. DOMAIN g = DOMAIN c
    OBVIOUS
  <2>6. ASSUME NEW x PROVE x \in ToSet(g) <=> \E f \in ToSet(c) : x = File(d, f)
    <3> HIDE DEF g
    <3> QED
      BY <2>4, <2>5 DEF ToSet
  <2> QED
    BY <2>3, <2>4, <2>5, <2>6
<1>9. Once(g)
  <2> SUFFICES ASSUME NEW i \in DOMAIN c, NEW j \in DOMAIN c,
                      File(d, c[i]).rel = File(d, c[j]).rel
               PROVE  i = j
    BY <1>8 DEF Once
  <2>1. c[i] = c[j]
    BY <1>6, <1>7
  <2> QED
    BY <1>3, <2>1 DEF IsInjective
<1> HIDE DEF g
<1>10. \A x \in ToSet(s), y \in ToSet(g) : x.rel # y.rel
  <2> SUFFICES ASSUME NEW x \in ToSet(s), NEW y \in ToSet(g), x.rel = y.rel PROVE FALSE
    OBVIOUS
  <2>1. PICK f \in old : x = File(d, f)
    BY <1>1
  <2>2. PICK h \in ToSet(c) : y = File(d, h)
    BY <1>8
  <2>3. f = h
    BY <1>3, <1>5, <1>6, <2>1, <2>2
  <2> QED
    BY <1>3, <2>3
<1>11. s \o g \in Seq(FileRec) /\ \A x : x \in ToSet(s \o g) <=> x \in ToSet(s) \/ x \in ToSet(g)
  <2>1. s \in Seq(FileRec) /\ g \in Seq(FileRec)
    BY <1>1, <1>8
  <2> QED
    BY ONLY <2>1, ConcatSet, ConcatProperties
<1>12. Once(s \o g)
  <2> SUFFICES ASSUME NEW i \in DOMAIN (s \o g), NEW j \in DOMAIN (s \o g), i # j
               PROVE  (s \o g)[i].rel # (s \o g)[j].rel
    BY DEF Once
  <2>1. \/ \E k, l \in DOMAIN s : k # l /\ (s \o g)[i] = s[k] /\ (s \o g)[j] = s[l]
        \/ \E k, l \in DOMAIN g : k # l /\ (s \o g)[i] = g[k] /\ (s \o g)[j] = g[l]
        \/ (s \o g)[i] \in ToSet(s) /\ (s \o g)[j] \in ToSet(g)
        \/ (s \o g)[j] \in ToSet(s) /\ (s \o g)[i] \in ToSet(g)
    <3>1. /\ s \in Seq(FileRec) /\ g \in Seq(FileRec) /\ i # j
          /\ i \in DOMAIN (s \o g) /\ j \in DOMAIN (s \o g)
      BY <1>1, <1>8
    <3> QED
      BY ONLY <3>1, ConcatPairs
  <2> QED
    BY <1>1, <1>9, <1>10, <2>1 DEF Once
<1>13. ToSet(s \o g) = {File(d, f) : f \in now}
  <2>1. \A x : x \in ToSet(s \o g) <=> \E f \in now : x = File(d, f)
    BY <1>1, <1>3, <1>5, <1>8, <1>11
  <2> QED
    BY <2>1
<1>14. ToSet(c) \subseteq now /\ now \subseteq old \cup ToSet(c)
  BY <1>3
<1> QED
  BY <1>2, <1>11, <1>12, <1>13, <1>14 DEF now, old, c

\* Walking the files of one more root keeps it.
LEMMA WalkFilesStep == ASSUME WalkInv, WalkFiles PROVE WalkInv'
<1> DEFINE D == ToSet(Dirs)
<1>1. /\ InputsOK /\ root \in 1 .. Len(roots) /\ root \in Nat /\ Len(roots) \in Nat /\ stage = "files"
      /\ files \in [D -> Seq(FileRec)] /\ OrderOK /\ SeenOK /\ Walked = root - 1 /\ Scanned = root
      /\ order \in Seq(D) /\ IsInjective(order)
  BY LenProperties DEF WalkInv, WalkTyped, WalkFiles, Walked, Scanned, InputsOK
<1>2. UNCHANGED <<roots, marked, cfg, order>>
  BY DEF WalkFiles, inputs
<1>3. /\ stage' \in {"packages", "drop"} /\ root' \in 1 .. Len(roots)
      /\ Walked' = root /\ Scanned' = root
  <2>1. CASE root < Len(roots)
    <3>1. stage' = "packages" /\ root' = root + 1
      BY <2>1 DEF WalkFiles
    <3> QED
      BY <1>1, <2>1, <3>1 DEF Walked, Scanned
  <2>2. CASE ~ (root < Len(roots))
    <3>1. stage' = "drop" /\ root' = root /\ root = Len(roots)
      BY <1>1, <2>2 DEF WalkFiles
    <3> QED
      BY <1>1, <1>2, <3>1 DEF Walked, Scanned
  <2> QED
    BY <2>1, <2>2
<1>4. DOMAIN files' = D /\ files' = [d \in D |-> files'[d]]
  BY <1>1 DEF WalkFiles
<1>5. files' \in [D -> Seq(FileRec)]
  BY <1>4, FilesGrow
<1>6. WalkTyped'
  BY <1>1, <1>2, <1>3, <1>5 DEF WalkTyped, InputsOK, Stages
<1>7. OrderOK'
  BY <1>1, <1>2, <1>3 DEF OrderOK
<1>8. SeenOK'
  <2>1. \A f : f \in seen' <=> f \in seen \/ \E d \in D : f \in ToSet(Claimed(roots[root], d))
    BY <1>1 DEF WalkFiles
  <2>2. \A d \in D : Mine(roots, marked, cfg, d, root - 1) \subseteq Mine(roots, marked, cfg, d, root)
    <3>1. \A i : i \in 1 .. root - 1 => i \in 1 .. root
      BY <1>1
    <3> QED
      BY <3>1 DEF Mine
  <2>3. \A d \in D :
            /\ ToSet(Claimed(roots[root], d)) \subseteq Mine(roots, marked, cfg, d, root)
            /\ Mine(roots, marked, cfg, d, root) \subseteq
                   Mine(roots, marked, cfg, d, root - 1) \cup ToSet(Claimed(roots[root], d))
    BY FilesGrow
  <2>4. \A f : f \in seen' <=> \E d \in D : f \in Mine(roots, marked, cfg, d, root)
    BY <1>1, <2>1, <2>2, <2>3 DEF SeenOK
  <2> QED
    BY <1>2, <1>3, <2>4 DEF SeenOK
<1>9. FilesOK'
  <2>1. \A d, f : File(d, f)' = File(d, f)
    BY <1>2, FileSame DEF inputs
  <2>2. \A d \in D : /\ ToSet(files'[d]) = {File(d, f) : f \in Mine(roots, marked, cfg, d, root)}
                     /\ Once(files'[d])
    BY FilesGrow
  <2> QED
    BY <1>2, <1>3, <2>1, <2>2 DEF FilesOK
<1> QED
  BY <1>6, <1>7, <1>8, <1>9 DEF WalkInv

\* Every step keeps the walk's invariant: after Drop nothing it speaks of changes.
LEMMA WalkStep == WalkInv /\ [Next]_vars => WalkInv'
<1> SUFFICES ASSUME WalkInv, [Next]_vars PROVE WalkInv'
  OBVIOUS
<1>1. CASE WalkPackages
  BY <1>1, WalkPackagesStep
<1>2. CASE WalkFiles
  BY <1>2, WalkFilesStep
<1>3. CASE Drop \/ MarkExempt \/ Select \/ DryRun \/ Start
  <2>1. UNCHANGED <<inputs, root, order, files, seen>>
    BY <1>3 DEF Drop, MarkExempt, Select, DryRun, Start
  <2>2. stage \notin {"packages", "files"} /\ stage' \in Stages \ {"packages", "files"}
    BY <1>3 DEF Drop, MarkExempt, Select, DryRun, Start, Stages
  <2> QED
    BY <2>1, <2>2, WalkKept
<1>4. CASE Ended \/ UNCHANGED vars
  <2>1. UNCHANGED <<inputs, root, order, files, seen, stage>>
    BY <1>4 DEF Ended, vars
  <2>2. Scanned' = Scanned /\ Walked' = Walked
    BY <2>1 DEF Scanned, Walked, inputs
  <2>3. \A d, f : File(d, f)' = File(d, f)
    BY <2>1, FileSame
  <2> QED
    BY <2>1, <2>2, <2>3 DEF WalkInv, WalkTyped, InputsOK, OrderOK, SeenOK, FilesOK, inputs
<1> QED
  BY <1>1, <1>2, <1>3, <1>4 DEF Next

\* A list without repetition is as long as the set of its elements is large.
LEMMA CountDistinct ==
    ASSUME NEW n \in Nat, NEW f, DOMAIN f = 1 .. n, \A i, j \in 1 .. n : f[i] = f[j] => i = j
    PROVE  Cardinality({f[i] : i \in 1 .. n}) = n
<1> DEFINE T == {f[i] : i \in 1 .. n}
           g == [i \in 1 .. n |-> f[i]]
<1>1. g \in [1 .. n -> T] /\ \A y \in T : \E i \in 1 .. n : g[i] = y
  OBVIOUS
<1>2. \A i, j \in 1 .. n : g[i] = g[j] => i = j
  OBVIOUS
<1> HIDE DEF g, T
<1>3. g \in Bijection(1 .. n, T)
  BY <1>1, <1>2 DEF Bijection, Injection, Surjection, IsInjective
<1>4. ExistsBijection(1 .. n, T)
  BY <1>3 DEF ExistsBijection
<1>5. Cardinality(T) = n
  BY <1>4, FS_CountingElements
<1> QED
  BY <1>5 DEF T

\* Every file belongs to its innermost package below any root, once, if the
\* patterns want it there, whatever the order and overlap of the roots.
LEMMA WalkMeans == WalkInv => DiscoverMeaning
<1> SUFFICES ASSUME WalkInv, stage = "drop", NEW d \in ToSet(Dirs)
             PROVE  LET known == {e \in marked : \E i \in DOMAIN roots : IsPrefix(roots[i], e)}
                        innermost(f) == {e \in known : /\ IsPrefix(e, Front(f))
                              /\ \A g \in known : IsPrefix(g, Front(f)) => IsPrefix(g, e)}
                        wanted(rel) == MatchAny(cfg.include, rel) /\ ~MatchAny(cfg.exclude, rel)
                        rels == {Rel(d, f) : f \in {g \in ToSet(Files) : d \in innermost(g)}}
                    IN  /\ {files[d][i].rel : i \in DOMAIN files[d]} = {r \in rels : wanted(r)}
                        /\ Len(files[d]) = Cardinality({r \in rels : wanted(r)})
  BY DEF DiscoverMeaning
<1> DEFINE known == {e \in marked : \E i \in DOMAIN roots : IsPrefix(roots[i], e)}
           innermost(f) == {e \in known : /\ IsPrefix(e, Front(f))
                              /\ \A g \in known : IsPrefix(g, Front(f)) => IsPrefix(g, e)}
           wanted(rel) == MatchAny(cfg.include, rel) /\ ~MatchAny(cfg.exclude, rel)
           rels == {Rel(d, f) : f \in {g \in ToSet(Files) : d \in innermost(g)}}
           T == {r \in rels : wanted(r)}
           mine == Mine(roots, marked, cfg, d, Len(roots))
           s == files[d]
<1>1. /\ InputsOK /\ s \in Seq(FileRec) /\ ToSet(s) = {File(d, f) : f \in mine} /\ Once(s)
      /\ DOMAIN roots = 1 .. Len(roots)
  BY LenProperties DEF WalkInv, WalkTyped, FilesOK, Walked, InputsOK
<1>2. known = Below(roots, marked, Len(roots))
  BY <1>1 DEF Below
<1>3. \A f : d \in innermost(f) <=> Owns(roots, marked, d, f)
  BY <1>2 DEF Owns
<1>4. \A f : f \in mine <=> f \in ToSet(Files) /\ d \in innermost(f) /\ wanted(Rel(d, f))
  <2>1. \A f : Owns(roots, marked, d, f) => \E i \in 1 .. Len(roots) : IsPrefix(roots[i], d)
    BY DEF Owns, Below
  <2> HIDE DEF innermost
  <2> QED
    BY <1>3, <2>1 DEF Mine, Wanted
<1> HIDE DEF innermost, wanted
<1>5. \A x : x \in T <=> \E f \in mine : x = Rel(d, f)
  BY <1>4
<1>6. \A f \in mine : File(d, f).rel = Rel(d, f)
  BY DEF File
<1>7. \A x : x \in {s[i].rel : i \in DOMAIN s} <=> \E y \in ToSet(s) : x = y.rel
  BY DEF ToSet
<1> HIDE DEF T, mine, s
<1>8. {s[i].rel : i \in DOMAIN s} = T
  <2>1. \A x : (\E y \in ToSet(s) : x = y.rel) <=> \E f \in mine : x = Rel(d, f)
    <3>1. \A f \in mine : File(d, f) \in ToSet(s)
      BY <1>1
    <3>2. \A y \in ToSet(s) : \E f \in mine : y = File(d, f)
      BY <1>1
    <3> QED
      BY <1>6, <3>1, <3>2
  <2> DEFINE U == {s[i].rel : i \in DOMAIN s}
  <2>2. \A x : x \in U <=> x \in T
    <3> HIDE DEF U
    <3> QED
      BY <1>5, <1>7, <2>1 DEF U
  <2> QED
    BY <2>2
<1>9. Len(s) = Cardinality(T)
  <2> DEFINE n == Len(s)
             f == [i \in 1 .. n |-> s[i].rel]
  <2>1. n \in Nat /\ DOMAIN s = 1 .. n
    BY <1>1, LenProperties
  <2>2. DOMAIN f = 1 .. n /\ \A i \in 1 .. n : f[i] = s[i].rel
    OBVIOUS
  <2> HIDE DEF n, f
  <2>3. \A i, j \in 1 .. n : f[i] = f[j] => i = j
    BY <1>1, <2>1, <2>2 DEF Once
  <2>4. {f[i] : i \in 1 .. n} = T
    BY <1>8, <2>1, <2>2
  <2> QED
    BY <2>1, <2>2, <2>3, <2>4, CountDistinct DEF n
<1> QED
  BY <1>8, <1>9 DEF T, s, wanted, innermost

\* The walk's invariant holds in every state of a session.
LEMMA WalkInvariance == Spec => []WalkInv
BY WalkInit, WalkStep, PTL DEF Spec

\* Whatever the order and overlap of the target roots, every file belongs to
\* its innermost package below any root, once, if the patterns want it there
\* (discover.go:60-63, F4).
THEOREM Discovered == Spec => []DiscoverMeaning
BY WalkInvariance, WalkMeans, PTL

-----------------------------------------------------------------------------
(* The list of packages *)

Names == {PkgName(d) : d \in ToSet(Dirs)}
Pkg == [name : Names, files : Seq(FileRec), exempt : BOOLEAN]
Entry(d, fs, ex) == [name |-> PkgName(d), files |-> fs[d], exempt |-> ex[d]]

\* ps lists the packages of D, each once, with the files fs and the marks ex.
IsListing(ps, D, fs, ex) ==
    /\ ps \in Seq(Pkg) /\ IsInjective(ps)
    /\ \A p : p \in ToSet(ps) <=> \E d \in D : p = Entry(d, fs, ex)

\* Two directories have two names: no path is ".".
LEMMA PkgNameInjective ==
    ASSUME NEW d \in ToSet(Dirs), NEW e \in ToSet(Dirs), PkgName(d) = PkgName(e)
    PROVE  d = e
BY Constants DEF PkgName

\* Two directories have two entries in the list of packages.
LEMMA EntryInjective ==
    ASSUME NEW d \in ToSet(Dirs), NEW e \in ToSet(Dirs), NEW fs, NEW ex, NEW gs, NEW ey,
           Entry(d, fs, ex).name = Entry(e, gs, ey).name
    PROVE  d = e
<1>1. PkgName(d) = PkgName(e)
  BY DEF Entry
<1> QED
  BY <1>1, PkgNameInjective

\* A filter of packages.
LEMMA ListingFilter ==
    ASSUME NEW ps, NEW D, NEW fs, NEW ex, IsListing(ps, D, fs, ex), NEW set, NEW E \in SUBSET D,
           \A d \in D : Entry(d, fs, ex) \in set <=> d \in E, E \subseteq D, D \subseteq ToSet(Dirs)
    PROVE  IsListing(Kept(ps, set), E, fs, ex)
<1> DEFINE q == Kept(ps, set)
<1>1. q \in Seq(Pkg) /\ IsInjective(q) /\ ToSet(q) = ToSet(ps) \cap set
  BY KeptProps DEF IsListing
<1> HIDE DEF q
<1>2. ASSUME NEW p PROVE p \in ToSet(q) <=> \E d \in E : p = Entry(d, fs, ex)
  <2>1. p \in ToSet(ps) <=> \E d \in D : p = Entry(d, fs, ex)
    BY DEF IsListing
  <2>2. p \in ToSet(q) <=> p \in ToSet(ps) /\ p \in set
    BY <1>1
  <2> QED
    BY <2>1, <2>2
<1> QED
  BY <1>1, <1>2 DEF IsListing, q

\* A change of every package that leaves it its name.
LEMMA ListingMap ==
    ASSUME NEW ps, NEW D \in SUBSET ToSet(Dirs), NEW fs, NEW ex, IsListing(ps, D, fs, ex),
           NEW gs, NEW ey, NEW F,
           \A i \in DOMAIN ps, d \in D : ps[i] = Entry(d, fs, ex) => F[i] = Entry(d, gs, ey),
           \A d \in D : gs[d] \in Seq(FileRec) /\ ey[d] \in BOOLEAN,
           F = [i \in DOMAIN ps |-> F[i]]
    PROVE  IsListing(F, D, gs, ey)
<1>1. ps \in Seq(Pkg) /\ DOMAIN ps = 1 .. Len(ps) /\ Len(ps) \in Nat /\ DOMAIN F = DOMAIN ps
  BY LenProperties DEF IsListing
<1>2. \A i \in DOMAIN ps : \E d \in D : ps[i] = Entry(d, fs, ex) /\ F[i] = Entry(d, gs, ey)
  <2>1. \A i \in DOMAIN ps : ps[i] \in ToSet(ps)
    BY DEF ToSet
  <2> QED
    BY <2>1 DEF IsListing
<1>3. \A d \in D : Entry(d, gs, ey) \in Pkg
  BY DEF Entry, Pkg, Names
<1>4. F \in Seq(Pkg)
  <2>1. \A i \in 1 .. Len(ps) : F[i] \in Pkg
    BY <1>1, <1>2, <1>3
  <2>2. F = [i \in 1 .. Len(ps) |-> F[i]]
    BY <1>1
  <2> QED
    BY <1>1, <2>1, <2>2
<1>5. IsInjective(F)
  <2> SUFFICES ASSUME NEW i \in DOMAIN ps, NEW j \in DOMAIN ps, F[i] = F[j] PROVE i = j
    BY <1>1 DEF IsInjective
  <2>1. PICK d \in D : ps[i] = Entry(d, fs, ex) /\ F[i] = Entry(d, gs, ey)
    BY <1>2
  <2>2. PICK e \in D : ps[j] = Entry(e, fs, ex) /\ F[j] = Entry(e, gs, ey)
    BY <1>2
  <2>3. d = e
    <3>1. Entry(d, gs, ey).name = Entry(e, gs, ey).name /\ d \in ToSet(Dirs) /\ e \in ToSet(Dirs)
      BY <2>1, <2>2
    <3> QED
      BY ONLY <3>1, EntryInjective
  <2> QED
    BY <2>1, <2>2, <2>3 DEF IsListing, IsInjective
<1>6. ASSUME NEW p PROVE p \in ToSet(F) <=> \E d \in D : p = Entry(d, gs, ey)
  <2>1. p \in ToSet(F) <=> \E i \in DOMAIN ps : p = F[i]
    BY <1>1 DEF ToSet
  <2>2. ASSUME NEW d \in D PROVE \E i \in DOMAIN ps : ps[i] = Entry(d, fs, ex)
    <3>1. Entry(d, fs, ex) \in ToSet(ps)
      BY DEF IsListing
    <3> QED
      BY <3>1 DEF ToSet
  <2> QED
    BY <1>2, <2>1, <2>2
<1> QED
  BY <1>4, <1>5, <1>6 DEF IsListing

\* Sorting loses and repeats no package.
LEMMA ListingSorted ==
    ASSUME NEW ps, NEW D, NEW fs, NEW ex, IsListing(ps, D, fs, ex)
    PROVE  IsListing(LargestFirst(ps), D, fs, ex)
<1> DEFINE at == DOMAIN ps
           runs(i) == {k \in DOMAIN ps[i].files : Run(ps[i].files[k])}
           size(i) == Cardinality(runs(i))
           before == {p \in at \X at : size(p[1]) > size(p[2]) \/ (size(p[1]) = size(p[2]) /\ p[1] < p[2])}
<1>1. ps \in Seq(Pkg) /\ IsInjective(ps) /\ at = 1 .. Len(ps) /\ Len(ps) \in Nat
  BY LenProperties DEF IsListing
<1>2. ASSUME NEW i \in at PROVE size(i) \in Nat
  <2>0. ps[i] \in Pkg
    BY <1>1, ElementOfSeq
  <2>1. ps[i].files \in Seq(FileRec)
    BY <2>0 DEF Pkg
  <2>2. DOMAIN ps[i].files = 1 .. Len(ps[i].files) /\ Len(ps[i].files) \in Nat
    BY <2>1, LenProperties
  <2>3. IsFiniteSet(DOMAIN ps[i].files)
    BY <2>2, Interval
  <2>4. runs(i) \in SUBSET DOMAIN ps[i].files
    OBVIOUS
  <2> HIDE DEF runs
  <2>5. IsFiniteSet(runs(i))
    BY <2>3, <2>4, FS_Subset
  <2> QED
    BY <2>5, FS_CardinalityType
<1>3. LargestFirst(ps) = InOrder(ps, at, before)
  BY DEF LargestFirst
<1> HIDE DEF size
<1>4. \A i, j \in at : <<i, j>> \in before <=> size(i) > size(j) \/ (size(i) = size(j) /\ i < j)
  OBVIOUS
<1>5. \A i \in at : i \in Nat
  BY <1>1
<1> HIDE DEF before, at
<1>6. StrictOrder(at, before)
  BY <1>2, <1>4, <1>5 DEF StrictOrder
<1>7. {ps[i] : i \in at} = ToSet(ps)
  BY DEF ToSet, at
<1>8. /\ InOrder(ps, at, before) \in Seq(Pkg) /\ IsInjective(InOrder(ps, at, before))
      /\ ToSet(InOrder(ps, at, before)) = {ps[i] : i \in at}
  <2>1. ps \in Seq(Pkg) /\ IsInjective(ps) /\ at \subseteq DOMAIN ps /\ StrictOrder(at, before)
    BY <1>1, <1>6 DEF at
  <2> QED
    BY ONLY <2>1, InOrderProps
<1> QED
  BY <1>3, <1>7, <1>8 DEF IsListing

\* What the file selector leaves of a package.
\* What the command line leaves of the files of d; the packages found and selected.
Filtered(a, d, fs) ==
    IF a.file = <<>> THEN fs[d]
    ELSE Kept(fs[d], {f \in ToSet(fs[d]) : MatchGlob[a.file][PkgName(d) \o f.rel]})

Found(fs) == {d \in ToSet(Dirs) : fs[d] # <<>>}
Selected(a, fs) == {d \in Found(fs) : /\ a.package # <<>> => MatchGlob[a.package][PkgName(d)]
                                      /\ Filtered(a, d, fs) # <<>>}
Exempted(a) == [d \in ToSet(Dirs) |-> MatchAny(a.exempt, PkgName(d))]
Unmarked == [d \in ToSet(Dirs) |-> FALSE]
Narrowed(a, fs) == [d \in ToSet(Dirs) |-> Filtered(a, d, fs)]

\* The list of packages after each narrowing, and the queue made of it.
PkgInv ==
    /\ stage = "exempt" => IsListing(pkgs, Found(files), files, Unmarked)
    /\ stage = "select" => IsListing(pkgs, Found(files), files, Exempted(args))
    /\ stage \in {"ready", "planned", "started"} =>
          IsListing(pkgs, Selected(args, files), Narrowed(args, files), Exempted(args))
    /\ stage = "started" => queue = [i \in DOMAIN Given(pkgs) |-> Work(Given(pkgs)[i], recorded)]

\* The packages that are found are directories of the tree.
LEMMA FoundDirs == \A fs : Found(fs) \in SUBSET ToSet(Dirs)
BY DEF Found

\* Dropping the packages without files keeps a listing one.
LEMMA WithFilesListing ==
    ASSUME NEW ps, NEW D \in SUBSET ToSet(Dirs), NEW fs, NEW ex, IsListing(ps, D, fs, ex)
    PROVE  IsListing(WithFiles(ps), {d \in D : fs[d] # <<>>}, fs, ex)
<1> DEFINE E == {d \in D : fs[d] # <<>>}
           set == {p \in ToSet(ps) : p.files # <<>>}
<1>1. \A d \in D : Entry(d, fs, ex) \in set <=> d \in E
  BY DEF IsListing, Entry
<1>2. WithFiles(ps) = Kept(ps, set)
  BY DEF WithFiles
<1>3. E \in SUBSET D
  OBVIOUS
<1> HIDE DEF set, E
<1>4. IsListing(Kept(ps, set), E, fs, ex)
  BY <1>1, <1>3, ListingFilter
<1> QED
  BY <1>2, <1>4 DEF E

\* Drop makes a listing of the packages with files, whatever the order asked for.
LEMMA DropStep == ASSUME WalkInv, Drop PROVE PkgInv'
<1> DEFINE all == [i \in DOMAIN order |->
                     [name |-> PkgName(order[i]), files |-> files[order[i]], exempt |-> FALSE]]
           D == ToSet(order)
<1>1. /\ order \in Seq(ToSet(Dirs)) /\ IsInjective(order) /\ files \in [ToSet(Dirs) -> Seq(FileRec)]
      /\ D = Below(roots, marked, Len(roots)) /\ stage = "drop" /\ D \in SUBSET ToSet(Dirs) /\ FilesOK
      /\ Walked = Len(roots)
  <2>1. order \in Seq(ToSet(Dirs)) /\ stage = "drop"
    BY DEF WalkInv, WalkTyped, Drop
  <2>2. D \in SUBSET ToSet(Dirs)
    BY <2>1, LenProperties DEF ToSet
  <2> QED
    BY <2>1, <2>2 DEF WalkInv, WalkTyped, OrderOK, Scanned, Walked
<1>2. IsListing(all, D, files, Unmarked)
  <2>0. DOMAIN order = 1 .. Len(order) /\ Len(order) \in Nat
    BY <1>1, LenProperties
  <2>1. \A i \in DOMAIN order : order[i] \in ToSet(Dirs) /\ order[i] \in D
    BY <1>1, <2>0 DEF ToSet
  <2>2. \A i \in DOMAIN order : all[i] = Entry(order[i], files, Unmarked)
    BY <2>1 DEF Entry, Unmarked
  <2>3. DOMAIN all = DOMAIN order /\ all = [i \in DOMAIN order |-> all[i]]
    OBVIOUS
  <2>4. \A d \in ToSet(Dirs) : Entry(d, files, Unmarked) \in Pkg
    BY <1>1 DEF Entry, Unmarked, Pkg, Names
  <2> HIDE DEF all
  <2>5. all \in Seq(Pkg)
    BY <2>0, <2>1, <2>2, <2>3, <2>4
  <2>6. IsInjective(all)
    <3> SUFFICES ASSUME NEW i \in DOMAIN order, NEW j \in DOMAIN order, all[i] = all[j] PROVE i = j
      BY <2>3 DEF IsInjective
    <3>1. order[i] = order[j]
      <4>1. Entry(order[i], files, Unmarked).name = Entry(order[j], files, Unmarked).name
        BY <2>2
      <4> QED
        BY <2>1, <4>1, EntryInjective
    <3> QED
      BY <1>1, <3>1 DEF IsInjective
  <2>7. \A p : p \in ToSet(all) <=> \E d \in D : p = Entry(d, files, Unmarked)
    BY <2>2, <2>3 DEF ToSet
  <2> QED
    BY <2>5, <2>6, <2>7 DEF IsListing
<1>3. {d \in D : files[d] # <<>>} = Found(files)
  <2>1. ASSUME NEW d \in ToSet(Dirs), files[d] # <<>> PROVE d \in D
    <3>1. files[d] \in Seq(FileRec)
      BY <1>1
    <3>2. 1 \in DOMAIN files[d]
      BY <2>1, <3>1, EmptySeq, LenProperties
    <3>3. ToSet(files[d]) # {}
      BY <3>2 DEF ToSet
    <3>4. PICK f : f \in Mine(roots, marked, cfg, d, Len(roots))
      BY <1>1, <3>3 DEF FilesOK
    <3> QED
      BY <1>1, <3>4 DEF Mine, Owns
  <2> QED
    BY <1>1, <2>1 DEF Found
<1>4. IsListing(WithFiles(all), Found(files), files, Unmarked)
  <2> HIDE DEF all, D
  <2> QED
    BY <1>1, <1>2, <1>3, WithFilesListing
<1>5. pkgs' = WithFiles(all) \/ pkgs' = LargestFirst(WithFiles(all))
  BY DEF Drop
<1>6. IsListing(pkgs', Found(files), files, Unmarked)
  <2> HIDE DEF all
  <2> QED
    BY <1>4, <1>5, ListingSorted
<1>7. stage' \in {"error", "exempt"} /\ files' = files
  BY DEF Drop
<1> QED
  BY <1>6, <1>7 DEF PkgInv

\* MarkExempt keeps the listing and marks the packages that the command line exempts.
LEMMA MarkExemptStep == ASSUME WalkInv, PkgInv, MarkExempt PROVE PkgInv'
<1>1. /\ IsListing(pkgs, Found(files), files, Unmarked) /\ stage' = "select" /\ files' = files
      /\ files \in [ToSet(Dirs) -> Seq(FileRec)]
      /\ pkgs' = [i \in DOMAIN pkgs |-> [pkgs[i] EXCEPT !.exempt = MatchAny(args'.exempt, pkgs[i].name)]]
  BY DEF PkgInv, MarkExempt, WalkInv, WalkTyped
<1>2. DOMAIN pkgs' = DOMAIN pkgs /\ pkgs' = [i \in DOMAIN pkgs |-> pkgs'[i]]
  BY <1>1
<1>3. ASSUME NEW i \in DOMAIN pkgs, NEW d \in Found(files), pkgs[i] = Entry(d, files, Unmarked)
      PROVE  pkgs'[i] = Entry(d, files, Exempted(args'))
  <2>1. pkgs'[i] = [pkgs[i] EXCEPT !.exempt = MatchAny(args'.exempt, pkgs[i].name)]
    BY <1>1
  <2>2. pkgs[i] = [name |-> PkgName(d), files |-> files[d], exempt |-> Unmarked[d]]
    BY <1>3 DEF Entry
  <2>3. pkgs'[i] = [name |-> PkgName(d), files |-> files[d], exempt |-> MatchAny(args'.exempt, PkgName(d))]
    BY <2>1, <2>2
  <2>4. Exempted(args')[d] = MatchAny(args'.exempt, PkgName(d))
    BY FoundDirs DEF Exempted
  <2> QED
    BY <2>3, <2>4 DEF Entry
<1>4. \A d \in Found(files) : files[d] \in Seq(FileRec) /\ Exempted(args')[d] \in BOOLEAN
  <2>1. \A n : MatchAny(args'.exempt, n) \in BOOLEAN
    BY DEF MatchAny
  <2> QED
    BY <1>1, <2>1, FoundDirs DEF Exempted
<1>5. IsListing(pkgs', Found(files), files, Exempted(args'))
  BY <1>1, <1>2, <1>3, <1>4, FoundDirs, ListingMap
<1> QED
  BY <1>1, <1>5 DEF PkgInv

\* What the file selector leaves of a directory's files.
LEMMA NarrowedProps ==
    ASSUME NEW a, NEW fs \in [ToSet(Dirs) -> Seq(FileRec)], NEW d \in ToSet(Dirs)
    PROVE  /\ Narrowed(a, fs)[d] \in Seq(FileRec) /\ Narrowed(a, fs)[d] = Filtered(a, d, fs)
           /\ \A f : f \in ToSet(Narrowed(a, fs)[d]) <=>
                      /\ f \in ToSet(fs[d])
                      /\ a.file # <<>> => MatchGlob[a.file][PkgName(d) \o f.rel]
<1> DEFINE set == {f \in ToSet(fs[d]) : MatchGlob[a.file][PkgName(d) \o f.rel]}
           l == fs[d]
           q == Filtered(a, d, fs)
<1>1. l \in Seq(FileRec)
  OBVIOUS
<1>2. Narrowed(a, fs)[d] = q
  BY DEF Narrowed
<1>3. CASE a.file = <<>>
  <2>1. q = l
    BY <1>3 DEF Filtered
  <2> QED
    BY <1>1, <1>2, <1>3, <2>1
<1>4. CASE a.file # <<>>
  <2>1. q = Kept(l, set)
    BY <1>4 DEF Filtered
  <2>2. \A f : f \in ToSet(l) /\ f \in set <=> f \in ToSet(l) /\ MatchGlob[a.file][PkgName(d) \o f.rel]
    OBVIOUS
  <2> HIDE DEF set, l, q
  <2>3. Kept(l, set) \in Seq(FileRec) /\ ToSet(Kept(l, set)) = ToSet(l) \cap set
    BY ONLY <1>1, KeptProps
  <2>4. \A f : f \in ToSet(q) <=> f \in ToSet(l) /\ f \in set
    BY <2>1, <2>3
  <2>5. \A f : f \in ToSet(q) <=> f \in ToSet(l) /\ MatchGlob[a.file][PkgName(d) \o f.rel]
    BY <2>2, <2>4
  <2> QED
    BY <1>2, <1>4, <2>1, <2>3, <2>5 DEF q, l
<1> QED
  BY <1>3, <1>4

\* Select leaves a listing of the selected packages, with their selected files.
LEMMA SelectStep == ASSUME WalkInv, PkgInv, Select PROVE PkgInv'
<1> DEFINE ex == Exempted(args)
           E == {d \in Found(files) : args.package # <<>> => MatchGlob[args.package][PkgName(d)]}
           first == ByPackage(pkgs)
           new == Narrowed(args, files)
<1>1. /\ IsListing(pkgs, Found(files), files, ex) /\ files \in [ToSet(Dirs) -> Seq(FileRec)]
      /\ stage' \in {"error", "ready"} /\ args' = args /\ files' = files
      /\ stage' = "ready" => pkgs' = ByFile(first)
  BY DEF PkgInv, Select, WalkInv, WalkTyped
<1>2. Found(files) \in SUBSET ToSet(Dirs) /\ E \in SUBSET Found(files) /\ E \in SUBSET ToSet(Dirs)
  BY FoundDirs
<1>3. IsListing(first, E, files, ex)
  <2>1. CASE args.package = <<>>
    <3>1. first = pkgs /\ E = Found(files)
      BY <2>1 DEF ByPackage
    <3> QED
      BY <1>1, <3>1
  <2>2. CASE args.package # <<>>
    <3> DEFINE set == {p \in ToSet(pkgs) : MatchGlob[args.package][p.name]}
    <3>1. first = Kept(pkgs, set)
      BY <2>2 DEF ByPackage
    <3>2. \A d \in Found(files) : Entry(d, files, ex) \in set <=> d \in E
      <4>1. \A d \in Found(files) : Entry(d, files, ex) \in ToSet(pkgs)
        BY <1>1 DEF IsListing
      <4>2. \A d : Entry(d, files, ex).name = PkgName(d)
        BY DEF Entry
      <4> HIDE DEF ex
      <4> QED
        BY <2>2, <4>1, <4>2
    <3> HIDE DEF set, E, ex
    <3>3. IsListing(Kept(pkgs, set), E, files, ex)
      BY <1>1, <1>2, <3>2, ListingFilter
    <3> QED
      BY <3>1, <3>3
  <2> QED
    BY <2>1, <2>2
<1>4. \A d \in ToSet(Dirs) : new[d] \in Seq(FileRec) /\ new[d] = Filtered(args, d, files) /\ ex[d] \in BOOLEAN
  <2>1. \A n : MatchAny(args.exempt, n) \in BOOLEAN
    BY DEF MatchAny
  <2>2. \A d \in ToSet(Dirs) : ex[d] \in BOOLEAN
    BY <2>1 DEF Exempted
  <2> QED
    BY <1>1, <2>2, NarrowedProps
<1>5. \A d : d \in Selected(args, files) <=> d \in E /\ Filtered(args, d, files) # <<>>
  BY DEF Selected
<1> HIDE DEF ex, E, first, new
<1>6. IsListing(ByFile(first), Selected(args, files), new, ex)
  <2>1. CASE args.file = <<>>
    <3>1. ByFile(first) = first
      BY <2>1 DEF ByFile
    <3>2. \A d \in ToSet(Dirs) : new[d] = files[d]
      BY <1>4, <2>1 DEF Filtered
    <3>3. Selected(args, files) = E
      <4>1. \A d \in E : Filtered(args, d, files) # <<>>
        BY <1>2, <2>1 DEF Found, Filtered
      <4> QED
        BY <1>5, <4>1
    <3>4. \A d \in E : Entry(d, new, ex) = Entry(d, files, ex)
      BY <1>2, <3>2 DEF Entry
    <3> QED
      BY <1>3, <3>1, <3>3, <3>4 DEF IsListing
  <2>2. CASE args.file # <<>>
    <3> DEFINE F == [i \in DOMAIN first |-> [first[i] EXCEPT !.files =
                       Kept(@, {f \in ToSet(@) : MatchGlob[args.file][first[i].name \o f.rel]})]]
    <3>1. ByFile(first) = WithFiles(F)
      BY <2>2 DEF ByFile
    <3>2. ASSUME NEW i \in DOMAIN first, NEW d \in E, first[i] = Entry(d, files, ex)
          PROVE  F[i] = Entry(d, new, ex)
      <4>1. first[i] = [name |-> PkgName(d), files |-> files[d], exempt |-> ex[d]]
        BY <3>2 DEF Entry
      <4>2. F[i] = [name |-> PkgName(d),
                    files |-> Kept(files[d], {f \in ToSet(files[d]) :
                                                 MatchGlob[args.file][PkgName(d) \o f.rel]}),
                    exempt |-> ex[d]]
        <5> DEFINE kept(fs, n) == Kept(fs, {f \in ToSet(fs) : MatchGlob[args.file][n \o f.rel]})
        <5>1. F[i] = [first[i] EXCEPT !.files = kept(first[i].files, first[i].name)]
          BY <3>2
        <5> HIDE DEF F, kept
        <5>2. first[i].name = PkgName(d) /\ first[i].files = files[d]
          BY <4>1
        <5>3. F[i] = [name |-> PkgName(d), files |-> kept(files[d], PkgName(d)), exempt |-> ex[d]]
          BY <4>1, <5>1, <5>2
        <5> QED
          BY <5>3 DEF kept
      <4>3. new[d] = Kept(files[d], {f \in ToSet(files[d]) : MatchGlob[args.file][PkgName(d) \o f.rel]})
        BY <1>2, <1>4, <2>2 DEF Filtered
      <4> HIDE DEF F
      <4> QED
        BY <4>2, <4>3 DEF Entry
    <3>3. F = [i \in DOMAIN first |-> F[i]]
      OBVIOUS
    <3> HIDE DEF F
    <3>4. IsListing(F, E, new, ex)
      <4>1. \A i \in DOMAIN first, d \in E : first[i] = Entry(d, files, ex) => F[i] = Entry(d, new, ex)
        BY <3>2
      <4>2. \A d \in E : new[d] \in Seq(FileRec) /\ ex[d] \in BOOLEAN
        BY <1>2, <1>4
      <4>3. E \in SUBSET ToSet(Dirs)
        BY <1>2
      <4> QED
        BY ONLY <1>3, <3>3, <4>1, <4>2, <4>3, ListingMap
    <3>5. IsListing(WithFiles(F), {d \in E : new[d] # <<>>}, new, ex)
      BY ONLY <1>2, <3>4, WithFilesListing
    <3>6. {d \in E : new[d] # <<>>} = Selected(args, files)
      BY <1>2, <1>4, <1>5
    <3> QED
      BY <3>1, <3>5, <3>6
  <2> QED
    BY <2>1, <2>2
<1> QED
  BY <1>1, <1>6 DEF PkgInv, new, ex

\* Every step keeps the invariant of the list of packages.
LEMMA PkgStep == WalkInv /\ PkgInv /\ [Next]_vars => PkgInv'
<1> SUFFICES ASSUME WalkInv, PkgInv, [Next]_vars PROVE PkgInv'
  OBVIOUS
<1>1. CASE WalkPackages \/ WalkFiles
  <2>1. stage' \in {"packages", "files", "drop"}
    BY <1>1 DEF WalkPackages, WalkFiles
  <2> QED
    BY <2>1 DEF PkgInv
<1>2. CASE Drop
  BY <1>2, DropStep
<1>3. CASE MarkExempt
  BY <1>3, MarkExemptStep
<1>4. CASE Select
  BY <1>4, SelectStep
<1>5. CASE DryRun
  BY <1>5 DEF DryRun, PkgInv
<1>6. CASE Start
  <2>1. PICK done \in Recordings : /\ recorded' = done
            /\ queue' = [i \in DOMAIN Given(pkgs) |-> Work(Given(pkgs)[i], done)]
    BY <1>6 DEF Start
  <2>2. /\ stage = "ready" /\ stage' \in {"error", "started"}
        /\ pkgs' = pkgs /\ args' = args /\ files' = files
    BY <1>6 DEF Start
  <2>3. IsListing(pkgs', Selected(args', files'), Narrowed(args', files'), Exempted(args'))
    BY <2>2 DEF PkgInv
  <2>4. queue' = [i \in DOMAIN Given(pkgs') |-> Work(Given(pkgs')[i], recorded')]
    BY <2>1, <2>2
  <2> QED
    BY <2>2, <2>3, <2>4 DEF PkgInv
<1>7. CASE Ended \/ UNCHANGED vars
  BY <1>7 DEF Ended, vars, PkgInv
<1> QED
  BY <1>1, <1>2, <1>3, <1>4, <1>5, <1>6, <1>7 DEF Next

\* Both invariants hold in every state of a session.
LEMMA Invariance == Spec => [](WalkInv /\ PkgInv)
<1>1. Init => PkgInv
  BY DEF Init, PkgInv
<1> QED
  BY <1>1, WalkInit, WalkStep, PkgStep, PTL DEF Spec

\* What the dry run shows of a package is what the session would make of it.
LEMMA ShownIsWork ==
    ASSUME NEW p \in Pkg, NEW done
    PROVE  /\ ~p.exempt =>
                /\ Kept(p.files, {f \in ToSet(p.files) : Shown(p, f, done) = "runs"}) = Work(p, done).pending
                /\ Kept(p.files, {f \in ToSet(p.files) : Shown(p, f, done) = "unmapped"})
                      = Work(p, done).skipped
           /\ p.exempt => Kept(p.files, {f \in ToSet(p.files) : Shown(p, f, done) = "exempt"}) = p.files
<1>1. ASSUME ~p.exempt
      PROVE  /\ {f \in ToSet(p.files) : Shown(p, f, done) = "runs"}
                = {f \in ToSet(p.files) : Run(f) /\ ~IsRecorded(p, f, done)}
             /\ {f \in ToSet(p.files) : Shown(p, f, done) = "unmapped"} = {f \in ToSet(p.files) : ~Run(f)}
  <2>1. ASSUME NEW f PROVE (Shown(p, f, done) = "runs" <=> Run(f) /\ ~IsRecorded(p, f, done))
                           /\ (Shown(p, f, done) = "unmapped" <=> ~Run(f))
    <3>1. CASE ~Run(f)
      <4>1. Shown(p, f, done) = "unmapped"
        BY <1>1, <3>1 DEF Shown
      <4> QED
        BY <3>1, <4>1
    <3>2. CASE Run(f) /\ IsRecorded(p, f, done)
      <4>1. Shown(p, f, done) = "recorded"
        BY <1>1, <3>2 DEF Shown
      <4> QED
        BY <3>2, <4>1
    <3>3. CASE Run(f) /\ ~IsRecorded(p, f, done)
      <4>1. Shown(p, f, done) = "runs"
        BY <1>1, <3>3 DEF Shown
      <4> QED
        BY <3>3, <4>1
    <3> QED
      BY <3>1, <3>2, <3>3
  <2> QED
    BY <2>1
<1>2. ASSUME p.exempt PROVE {f \in ToSet(p.files) : Shown(p, f, done) = "exempt"} = ToSet(p.files)
  <2>1. \A f : Shown(p, f, done) = "exempt"
    BY <1>2 DEF Shown
  <2> QED
    BY <2>1
<1>3. Kept(p.files, ToSet(p.files)) = p.files
  BY KeptAll DEF Pkg
<1> QED
  BY <1>1, <1>2, <1>3 DEF Work

\* The invariant of the list of packages says what a dry run shows.
LEMMA PlanMeans == PkgInv => PlanIsSession
<1> SUFFICES ASSUME PkgInv, stage = "planned" PROVE PlanIsSession
  BY DEF PlanIsSession
<1>1. pkgs \in Seq(Pkg)
  BY DEF PkgInv, IsListing
<1> DEFINE set == {p \in ToSet(pkgs) : ~p.exempt}
           given == Given(pkgs)
<1>2. given \in Seq(Pkg) /\ ToSet(given) = ToSet(pkgs) \cap set
  <2>1. given = Kept(pkgs, set)
    BY DEF Given
  <2> HIDE DEF given, set
  <2> QED
    BY <1>1, <2>1, KeptProps
<1>3. \A i \in DOMAIN given : given[i] \in Pkg /\ ~given[i].exempt
  <2>1. \A i \in DOMAIN given : given[i] \in ToSet(given) /\ given[i] \in Pkg
    BY <1>2, LenProperties, ElementOfSeq DEF ToSet
  <2> QED
    BY <1>2, <2>1
<1>4. \A i \in DOMAIN pkgs : pkgs[i] \in Pkg /\ (pkgs[i] \in ToSet(given) \/ pkgs[i].exempt)
  <2>1. \A i \in DOMAIN pkgs : pkgs[i] \in ToSet(pkgs) /\ pkgs[i] \in Pkg
    BY <1>1, LenProperties, ElementOfSeq DEF ToSet
  <2> QED
    BY <1>2, <2>1
<1> HIDE DEF given
<1> QED
  BY <1>3, <1>4, ShownIsWork DEF PlanIsSession, given

\* The plan of a dry run is what the session would do with the same resume
\* state (dryrun.go:16-62, scheduler.go:132-178).
THEOREM PlanIsKept == Spec => []PlanIsSession
BY Invariance, PlanMeans, PTL

\* What the scheduler is given of a package.
LEMMA WorkProps ==
    ASSUME NEW p \in Pkg, NEW done
    PROVE  /\ Work(p, done).name = p.name
           /\ \A f : f \in ToSet(Work(p, done).pending) <=>
                      f \in ToSet(p.files) /\ Run(f) /\ [package |-> p.name, file |-> f.rel] \notin done
           /\ \A f : f \in ToSet(Work(p, done).skipped) <=> f \in ToSet(p.files) /\ ~Run(f)
<1> DEFINE A == {f \in ToSet(p.files) : Run(f) /\ ~IsRecorded(p, f, done)}
           B == {f \in ToSet(p.files) : ~Run(f)}
           l == p.files
<1>1. l \in Seq(FileRec)
  BY DEF Pkg
<1>2. /\ Work(p, done).pending = Kept(l, A) /\ Work(p, done).skipped = Kept(l, B)
      /\ Work(p, done).name = p.name
  BY DEF Work
<1>3. /\ \A f : f \in ToSet(l) /\ f \in A <=>
                    f \in ToSet(l) /\ Run(f) /\ [package |-> p.name, file |-> f.rel] \notin done
      /\ \A f : f \in ToSet(l) /\ f \in B <=> f \in ToSet(l) /\ ~Run(f)
  BY DEF IsRecorded
<1> HIDE DEF A, B, l
<1>4. ToSet(Kept(l, A)) = ToSet(l) \cap A
  BY ONLY <1>1, KeptProps
<1>5. ToSet(Kept(l, B)) = ToSet(l) \cap B
  BY ONLY <1>1, KeptProps
<1>6. /\ \A f : f \in ToSet(Kept(l, A)) <=> f \in ToSet(l) /\ f \in A
      /\ \A f : f \in ToSet(Kept(l, B)) <=> f \in ToSet(l) /\ f \in B
  BY <1>4, <1>5
<1> QED
  BY <1>2, <1>3, <1>6 DEF l

\* A file is run if a mapping matches it or the fallback is all the tests.
LEMMA RunProps ==
    ASSUME WalkInv, NEW d \in ToSet(Dirs), NEW f \in ToSet(files[d])
    PROVE  /\ f.tests = TestsFor(f.rel)
           /\ Run(f) <=> cfg.all \/ Hits(cfg, f.rel) # {}
           /\ Hits(cfg, f.rel) # {} =>
                 f.tests \in Hits(cfg, f.rel) /\ \A i \in Hits(cfg, f.rel) : f.tests <= i
<1>1. cfg \in Settings /\ cfg.all \in BOOLEAN
  BY SettingsAssumption DEF WalkInv, WalkTyped, InputsOK
<1>2. \E g : f = File(d, g)
  BY DEF WalkInv, FilesOK
<1>3. f.tests = TestsFor(f.rel)
  BY <1>2 DEF File
<1>4. Run(f) <=> TestsFor(f.rel) # 0
  BY <1>3 DEF Run
<1> DEFINE rel == f.rel
<1>5. /\ Hits(cfg, rel) # {} => /\ TestsFor(rel) \in Hits(cfg, rel) /\ TestsFor(rel) # 0
                               /\ \A i \in Hits(cfg, rel) : TestsFor(rel) <= i
      /\ Hits(cfg, rel) = {} => (TestsFor(rel) = 0) = ~cfg.all
  <2> HIDE DEF rel
  <2> QED
    BY ONLY <1>1, TestsForProps
<1> QED
  BY <1>1, <1>3, <1>4, <1>5

\* The two invariants together say what the scheduler is given.
LEMMA QueueMeans == WalkInv /\ PkgInv => QueueMeaning
<1> SUFFICES ASSUME WalkInv, PkgInv, stage = "started" PROVE QueueMeaning
  BY DEF QueueMeaning
<1> DEFINE wanted(d, rel) ==
                /\ ~MatchAny(args.exempt, PkgName(d))
                /\ args.package # <<>> => MatchGlob[args.package][PkgName(d)]
                /\ args.file # <<>> => MatchGlob[args.file][PkgName(d) \o rel]
           hits(rel) == {i \in DOMAIN cfg.tests : MatchGlob[cfg.tests[i]][rel]}
           given(d) == {f \in ToSet(files[d]) : wanted(d, f.rel)}
           runs(d) == {f \in given(d) :
                          /\ cfg.all \/ hits(f.rel) # {}
                          /\ [package |-> PkgName(d), file |-> f.rel] \notin recorded}
           skips(d) == {f \in given(d) : ~cfg.all /\ hits(f.rel) = {}}
           at(d) == {i \in DOMAIN queue : queue[i].name = PkgName(d)}
           G == Given(pkgs)
           fs == Narrowed(args, files)
           ex == Exempted(args)
           D == Selected(args, files)
           E == {d \in D : ~ex[d]}
<1>1. /\ IsListing(pkgs, D, fs, ex) /\ files \in [ToSet(Dirs) -> Seq(FileRec)]
      /\ queue = [i \in DOMAIN G |-> Work(G[i], recorded)]
      /\ D \in SUBSET ToSet(Dirs) /\ E \in SUBSET D
  BY DEF PkgInv, WalkInv, WalkTyped, Selected, Found
<1>2. IsListing(G, E, fs, ex)
  <2> DEFINE set == {p \in ToSet(pkgs) : ~p.exempt}
  <2>1. G = Kept(pkgs, set)
    BY DEF Given
  <2>2. \A d \in D : Entry(d, fs, ex) \in set <=> d \in E
    <3>1. \A d : Entry(d, fs, ex).exempt = ex[d]
      BY DEF Entry
    <3>2. \A d \in D : Entry(d, fs, ex) \in ToSet(pkgs)
      BY <1>1 DEF IsListing
    <3> HIDE DEF D, fs, ex
    <3> QED
      BY <3>1, <3>2
  <2> HIDE DEF set, D, E, G, fs, ex
  <2>3. IsListing(Kept(pkgs, set), E, fs, ex)
    BY <1>1, <2>2, ListingFilter
  <2> QED
    BY <2>1, <2>3
<1>3. \A d \in ToSet(Dirs) : \A f : f \in given(d) <=> d \in E /\ f \in ToSet(fs[d])
  <2> SUFFICES ASSUME NEW d \in ToSet(Dirs), NEW f PROVE f \in given(d) <=> d \in E /\ f \in ToSet(fs[d])
    OBVIOUS
  <2> DEFINE l == fs[d]
             match == args.file # <<>> => MatchGlob[args.file][PkgName(d) \o f.rel]
             sel == args.package # <<>> => MatchGlob[args.package][PkgName(d)]
  <2>1. l = Filtered(args, d, files) /\ (f \in ToSet(l) <=> f \in ToSet(files[d]) /\ match)
    BY <1>1, NarrowedProps
  <2>2. f \in ToSet(l) => l # <<>>
    BY DEF ToSet
  <2>3. f \in ToSet(files[d]) => files[d] # <<>>
    BY DEF ToSet
  <2>4. d \in E <=> /\ files[d] # <<>> /\ sel /\ Filtered(args, d, files) # <<>>
                    /\ ~MatchAny(args.exempt, PkgName(d))
    BY DEF Selected, Found, Exempted
  <2>5. f \in given(d) <=> f \in ToSet(files[d]) /\ ~MatchAny(args.exempt, PkgName(d)) /\ sel /\ match
    OBVIOUS
  <2> HIDE DEF given, E, l, match, sel
  <2>6. f \in given(d) <=> d \in E /\ f \in ToSet(l)
    BY <2>1, <2>2, <2>3, <2>4, <2>5
  <2> QED
    BY <2>6 DEF l
<1>4. \A d \in ToSet(Dirs) : \A f \in ToSet(files[d]) :
        /\ Run(f) <=> cfg.all \/ hits(f.rel) # {}
        /\ hits(f.rel) # {} => f.tests \in hits(f.rel) /\ \A i \in hits(f.rel) : f.tests <= i
  BY RunProps DEF Hits
<1> HIDE DEF G, fs, ex, D, E
<1>5. /\ DOMAIN queue = DOMAIN G /\ DOMAIN G = 1 .. Len(G) /\ Len(G) \in Nat
      /\ \A i \in DOMAIN G : /\ queue[i] = Work(G[i], recorded) /\ G[i] \in Pkg
                              /\ \E d \in E : G[i] = Entry(d, fs, ex)
  <2>1. G \in Seq(Pkg)
    BY <1>2 DEF IsListing
  <2>2. \A i \in DOMAIN G : G[i] \in Pkg /\ G[i] \in ToSet(G)
    BY <2>1, LenProperties, ElementOfSeq DEF ToSet
  <2> QED
    BY <1>1, <1>2, <2>1, <2>2, LenProperties DEF IsListing
<1>6. ASSUME NEW i \in DOMAIN G, NEW d \in E, G[i] = Entry(d, fs, ex)
      PROVE  /\ queue[i].name = PkgName(d)
             /\ \A f : f \in ToSet(queue[i].pending) <=>
                          /\ f \in ToSet(fs[d]) /\ Run(f)
                          /\ [package |-> PkgName(d), file |-> f.rel] \notin recorded
             /\ \A f : f \in ToSet(queue[i].skipped) <=> f \in ToSet(fs[d]) /\ ~Run(f)
  <2> DEFINE p == G[i]
  <2>1. p.name = PkgName(d) /\ p.files = fs[d] /\ p \in Pkg /\ queue[i] = Work(p, recorded)
    BY <1>5, <1>6 DEF Entry
  <2> HIDE DEF p
  <2>2. /\ Work(p, recorded).name = p.name
        /\ \A f : f \in ToSet(Work(p, recorded).pending) <=>
                      f \in ToSet(p.files) /\ Run(f) /\ [package |-> p.name, file |-> f.rel] \notin recorded
        /\ \A f : f \in ToSet(Work(p, recorded).skipped) <=> f \in ToSet(p.files) /\ ~Run(f)
    BY <2>1, WorkProps
  <2> QED
    BY <2>1, <2>2
<1>7. \A d \in ToSet(Dirs) : \A i : i \in at(d) <=> i \in DOMAIN G /\ d \in E /\ G[i] = Entry(d, fs, ex)
  <2> SUFFICES ASSUME NEW d \in ToSet(Dirs), NEW i \in DOMAIN G
               PROVE  queue[i].name = PkgName(d) <=> d \in E /\ G[i] = Entry(d, fs, ex)
    BY <1>5
  <2>1. PICK e \in E : G[i] = Entry(e, fs, ex)
    BY <1>5
  <2>2. queue[i].name = PkgName(e) /\ e \in ToSet(Dirs)
    BY <1>1, <1>6, <2>1
  <2>3. queue[i].name = PkgName(d) => d = e
    BY <2>2, PkgNameInjective
  <2>4. d \in E /\ G[i] = Entry(d, fs, ex) => queue[i].name = PkgName(d)
    BY <1>6
  <2> QED
    BY <2>1, <2>3, <2>4
<1>8. \A d \in E : \E i \in DOMAIN G : G[i] = Entry(d, fs, ex)
  <2>1. \A d \in E : Entry(d, fs, ex) \in ToSet(G)
    BY <1>2 DEF IsListing
  <2> QED
    BY <2>1 DEF ToSet
<1> HIDE DEF given, at, hits
<1>9. \A d \in ToSet(Dirs) : \A f \in given(d) : f \in ToSet(files[d])
  BY DEF given
<1>10. \A d \in ToSet(Dirs) : \A f : f \in runs(d) <=> \E i \in at(d) : f \in ToSet(queue[i].pending)
  <2> SUFFICES ASSUME NEW d \in ToSet(Dirs), NEW f
               PROVE  f \in runs(d) <=> \E i \in at(d) : f \in ToSet(queue[i].pending)
    OBVIOUS
  <2>1. f \in runs(d) <=> /\ f \in given(d) /\ Run(f)
                          /\ [package |-> PkgName(d), file |-> f.rel] \notin recorded
    BY <1>4, <1>9
  <2> QED
    BY <1>3, <1>6, <1>7, <1>8, <2>1
<1>11. \A d \in ToSet(Dirs) : \A f : f \in skips(d) <=> \E i \in at(d) : f \in ToSet(queue[i].skipped)
  <2> SUFFICES ASSUME NEW d \in ToSet(Dirs), NEW f
               PROVE  f \in skips(d) <=> \E i \in at(d) : f \in ToSet(queue[i].skipped)
    OBVIOUS
  <2>1. f \in skips(d) <=> f \in given(d) /\ ~Run(f)
    BY <1>4, <1>9
  <2> QED
    BY <1>3, <1>6, <1>7, <1>8, <2>1
<1>12. ASSUME NEW d \in ToSet(Dirs)
       PROVE  /\ runs(d) = UNION {ToSet(queue[i].pending) : i \in at(d)}
              /\ skips(d) = UNION {ToSet(queue[i].skipped) : i \in at(d)}
              /\ \A f \in runs(d) : hits(f.rel) # {} => f.tests \in hits(f.rel)
                                        /\ \A i \in hits(f.rel) : f.tests <= i
  <2>1. \A f \in runs(d) : f \in ToSet(files[d])
    BY <1>9
  <2> HIDE DEF runs, skips
  <2>2. \A f \in runs(d) : hits(f.rel) # {} => f.tests \in hits(f.rel)
                                        /\ \A i \in hits(f.rel) : f.tests <= i
    BY <1>4, <2>1
  <2>3. runs(d) = UNION {ToSet(queue[i].pending) : i \in at(d)}
    BY <1>10
  <2>4. skips(d) = UNION {ToSet(queue[i].skipped) : i \in at(d)}
    BY <1>11
  <2> QED
    BY <2>2, <2>3, <2>4
<1>13. Len(queue) = Cardinality({queue[i].name : i \in DOMAIN queue})
  <2> DEFINE n == Len(G)
             f == [i \in 1 .. n |-> queue[i].name]
  <2>1. n \in Nat /\ DOMAIN queue = 1 .. n /\ DOMAIN f = 1 .. n /\ \A i \in 1 .. n : f[i] = queue[i].name
    BY <1>5
  <2>2. ASSUME NEW i \in DOMAIN G, NEW j \in DOMAIN G, queue[i].name = queue[j].name PROVE i = j
    <3>1. PICK d \in E : G[i] = Entry(d, fs, ex)
      BY <1>5
    <3>2. PICK e \in E : G[j] = Entry(e, fs, ex)
      BY <1>5
    <3>3. PkgName(d) = PkgName(e) /\ d \in ToSet(Dirs) /\ e \in ToSet(Dirs)
      BY <1>1, <1>6, <2>2, <3>1, <3>2
    <3>4. d = e
      BY ONLY <3>3, PkgNameInjective
    <3> QED
      BY <1>2, <3>1, <3>2, <3>4 DEF IsListing, IsInjective
  <2>3. queue = [i \in 1 .. n |-> queue[i]]
    BY <1>1, <1>5
  <2>4. Len(queue) = n
    BY <2>1, <2>3
  <2> HIDE DEF f, n
  <2>5. \A i, j \in 1 .. n : f[i] = f[j] => i = j
    BY <1>5, <2>1, <2>2 DEF n
  <2>6. {f[i] : i \in 1 .. n} = {queue[i].name : i \in DOMAIN queue}
    BY <2>1
  <2>7. Cardinality({f[i] : i \in 1 .. n}) = n
    BY <2>1, <2>5, CountDistinct
  <2> QED
    BY <2>4, <2>6, <2>7
<1> QED
  BY <1>12, <1>13 DEF QueueMeaning, given, hits, at

\* A package that is exempt or not selected never reaches the scheduler, and
\* neither does a file that is recorded or not selected; everything else does,
\* with the tests of its first mapping (discover.go:44-46, 173-178; D13).
THEOREM QueueIsWanted == Spec => []QueueMeaning
BY Invariance, QueueMeans, PTL

-----------------------------------------------------------------------------
(* Suffixes, and induction over the length of a sequence *)

\* What holds of a sequence if it holds of every shorter one holds of all.
LEMMA ShorterFirst ==
    ASSUME NEW S, NEW T \in SUBSET Seq(S),
           \A s \in Seq(S) : (\A t \in Seq(S) : Len(t) < Len(s) => t \in T) => s \in T
    PROVE  T = Seq(S)
<1> SUFFICES ASSUME NEW u \in Seq(S), u \notin T PROVE FALSE
  OBVIOUS
<1> DEFINE lens == {n \in Nat : \E s \in Seq(S) : s \notin T /\ Len(s) = n}
<1>1. \A s \in Seq(S) : Len(s) \in Nat
  BY LenProperties
<1>2. lens \in SUBSET Nat /\ Len(u) \in lens
  BY <1>1
<1>3. \E n \in lens : \A m \in lens : n <= m
  <2> HIDE DEF lens
  <2> QED
    BY <1>2, Smallest
<1>4. PICK n \in lens : \A m \in lens : n <= m
  BY <1>3
<1>5. PICK s \in Seq(S) : s \notin T /\ Len(s) = n
  BY <1>4
<1>6. ASSUME NEW t \in Seq(S), Len(t) < Len(s) PROVE t \in T
  <2>1. Len(t) \in Nat /\ Len(t) < n /\ n \in Nat
    BY <1>1, <1>5, <1>6
  <2>2. Len(t) \notin lens
    <3> HIDE DEF lens
    <3> QED
      BY <1>4, <2>1
  <2> QED
    BY <2>1, <2>2
<1> QED
  BY <1>5, <1>6

\* A suffix has the type of its sequence, and what is left of its length.
LEMMA FromProps ==
    ASSUME NEW S, NEW s \in Seq(S), NEW i \in 1 .. Len(s) + 1
    PROVE  /\ From(s, i) \in Seq(S) /\ Len(From(s, i)) = Len(s) - i + 1
           /\ \A k \in 1 .. Len(s) - i + 1 : From(s, i)[k] = s[i + k - 1]
<1>1. \A k \in i .. Len(s) : s[k] \in S
  BY LenProperties, ElementOfSeq
<1>2. i \in Int /\ Len(s) \in Nat
  BY LenProperties
<1> DEFINE m == Len(s)
<1> HIDE DEF m
<1>3. SubSeq(s, i, m) \in Seq(S) /\ Len(SubSeq(s, i, m)) = IF i <= m THEN m - i + 1 ELSE 0
  BY <1>1, <1>2, SubSeqProperties DEF m
<1>4. ASSUME NEW k \in 1 .. m - i + 1 PROVE SubSeq(s, i, m)[k] = s[i + k - 1]
  BY <1>1, <1>2, SubSeqProperties DEF m
<1> QED
  BY <1>2, <1>3, <1>4 DEF From, m

\* Dropping the head leaves the suffix from the second position.
LEMMA TailIsFrom == ASSUME NEW S, NEW s \in Seq(S), s # <<>> PROVE Tail(s) = From(s, 2)
<1>1. Len(s) \in Nat \ {0}
  BY EmptySeq, LenProperties
<1>2. Tail(s) \in Seq(S) /\ Len(Tail(s)) = Len(s) - 1 /\ \A k \in 1 .. Len(Tail(s)) : Tail(s)[k] = s[k + 1]
  BY HeadTailProperties
<1>3. 2 \in 1 .. Len(s) + 1
  BY <1>1
<1>4. /\ From(s, 2) \in Seq(S) /\ Len(From(s, 2)) = Len(s) - 2 + 1
      /\ \A k \in 1 .. Len(s) - 2 + 1 : From(s, 2)[k] = s[2 + k - 1]
  BY <1>3, FromProps
<1>5. \A k \in 1 .. Len(Tail(s)) : Tail(s)[k] = From(s, 2)[k]
  BY <1>1, <1>2, <1>4
<1>6. Len(Tail(s)) = Len(From(s, 2))
  BY <1>1, <1>2, <1>4
<1> QED
  BY <1>2, <1>4, <1>5, <1>6, SeqEqual

-----------------------------------------------------------------------------
(* The meaning of a segment *)

\* The meaning of a segment, without recursion: the least set of pairs of a
\* pattern and a segment that holds the empty pair and every pair that has a
\* first part of it.
Cut(p, s, T) ==
    \E i \in 1 .. Len(p), j \in 0 .. Len(s) :
        /\ StandsFor(SubSeq(p, 1, i), SubSeq(s, 1, j))
        /\ <<From(p, i + 1), From(s, j + 1)>> \in T
Closed(T) == \A p, s \in Segments : (p = <<>> /\ s = <<>>) \/ Cut(p, s, T) => <<p, s>> \in T
Least == {x \in Segments \X Segments : \A T \in SUBSET (Segments \X Segments) : Closed(T) => x \in T}

\* It is a fixed point: it holds these pairs and no other.
LEMMA LeastFixed ==
    \A p, s \in Segments : <<p, s>> \in Least <=> (p = <<>> /\ s = <<>>) \/ Cut(p, s, Least)
<1> SUFFICES ASSUME NEW p \in Segments, NEW s \in Segments
             PROVE  <<p, s>> \in Least <=> (p = <<>> /\ s = <<>>) \/ Cut(p, s, Least)
  OBVIOUS
<1>1. ASSUME NEW T, Closed(T), NEW q \in Segments, NEW t \in Segments, T \in SUBSET (Segments \X Segments),
             (q = <<>> /\ t = <<>>) \/ Cut(q, t, Least)
      PROVE  <<q, t>> \in T
  <2>1. Least \subseteq T
    BY <1>1 DEF Least
  <2>2. Cut(q, t, Least) => Cut(q, t, T)
    BY <2>1 DEF Cut
  <2> QED
    BY <1>1, <2>2 DEF Closed
<1>2. (p = <<>> /\ s = <<>>) \/ Cut(p, s, Least) => <<p, s>> \in Least
  BY <1>1 DEF Least
<1>3. ASSUME <<p, s>> \in Least, ~((p = <<>> /\ s = <<>>) \/ Cut(p, s, Least)) PROVE FALSE
  <2> DEFINE T == Least \ {<<p, s>>}
  <2>1. T \in SUBSET (Segments \X Segments) /\ T \subseteq Least
    BY DEF Least
  <2>2. ASSUME NEW q \in Segments, NEW t \in Segments, (q = <<>> /\ t = <<>>) \/ Cut(q, t, T)
        PROVE  <<q, t>> \in T
    <3>1. Cut(q, t, T) => Cut(q, t, Least)
      BY <2>1 DEF Cut
    <3>2. <<q, t>> \in Least
      BY <1>1, <2>2, <3>1 DEF Least
    <3>3. <<q, t>> # <<p, s>>
      BY <1>3, <2>2, <3>1
    <3> QED
      BY <3>2, <3>3
  <2>3. Closed(T)
    BY <2>2 DEF Closed
  <2> QED
    BY <1>3, <2>1, <2>3 DEF Least
<1> QED
  BY <1>2, <1>3


\* The equation of SegmentMeans.
SegmentCut(f, p, s) ==
    \/ p = <<>> /\ s = <<>>
    \/ \E i \in 1 .. Len(p), j \in 0 .. Len(s) :
          /\ StandsFor(SubSeq(p, 1, i), SubSeq(s, 1, j))
          /\ f[From(p, i + 1)][From(s, j + 1)]

\* SegmentMeans is a function, and satisfies its equation.
LEMMA SegmentMeansIs ==
    \A p, s \in Segments :
        SegmentMeans[p][s] \in BOOLEAN /\ SegmentMeans[p][s] = SegmentCut(SegmentMeans, p, s)
<1> DEFINE W == [p \in Segments |-> [s \in Segments |-> <<p, s>> \in Least]]
<1>1. W = [p \in Segments |-> [s \in Segments |-> SegmentCut(W, p, s)]]
  <2>0. ASSUME NEW p \in Segments, NEW s \in Segments
        PROVE  (<<p, s>> \in Least) = SegmentCut(W, p, s)
    <3>1. ASSUME NEW i \in 1 .. Len(p), NEW j \in 0 .. Len(s)
          PROVE  W[From(p, i + 1)][From(s, j + 1)] <=> <<From(p, i + 1), From(s, j + 1)>> \in Least
      <4> DEFINE a == i + 1
                 b == j + 1
      <4>1. a \in 1 .. Len(p) + 1 /\ b \in 1 .. Len(s) + 1
        BY LenProperties DEF Segments
      <4> HIDE DEF a, b
      <4>2. From(p, a) \in Segments /\ From(s, b) \in Segments
        BY <4>1, FromProps DEF Segments
      <4> QED
        BY <4>2 DEF a, b
    <3> HIDE DEF W
    <3>2. SegmentCut(W, p, s) <=> (p = <<>> /\ s = <<>>) \/ Cut(p, s, Least)
      BY Zenon, <3>1 DEF Cut, SegmentCut
    <3>4. SegmentCut(W, p, s) \in BOOLEAN /\ (<<p, s>> \in Least) \in BOOLEAN
      BY DEF SegmentCut
    <3>3. <<p, s>> \in Least <=> SegmentCut(W, p, s)
      BY <3>2, LeastFixed
    <3> QED
      BY <3>3, <3>4
  <2> QED
    BY <2>0
<1> HIDE DEF W
<1>2. SegmentMeans = [p \in Segments |-> [s \in Segments |-> SegmentCut(SegmentMeans, p, s)]]
  BY Zenon, <1>1 DEF SegmentMeans, SegmentCut
<1>3. \A f, p, s : SegmentCut(f, p, s) \in BOOLEAN
  BY DEF SegmentCut
<1> QED
  BY <1>2, <1>3

-----------------------------------------------------------------------------
(* Classes *)

\* How far the member at i reaches, and whether c is of it.
Width(body, i) == IF IsRange(body, i) THEN 3 ELSE 1
Is(body, i, c) ==
    IF IsRange(body, i) THEN \E k \in Byte(body[i]) .. Byte(body[i + 2]) : c = Alphabet[k]
    ELSE c = body[i]
Begins(body, starts) ==
    1 \in starts /\ \A j \in starts : j + Width(body, j) \in DOMAIN body => j + Width(body, j) \in starts

\* The members of a class begin at 1 and where those of the rest do.
LEMMA MembersFrom ==
    ASSUME NEW body \in Segments, body # <<>>, NEW k \in {1, 3}, k = Width(body, 1),
           NEW rest, rest = From(body, k + 1)
    PROVE  /\ \A i : i \in Members(body) <=> i = 1 \/ \E m \in Members(rest) : i = m + k
           /\ \A m \in DOMAIN rest : \A c : Is(rest, m, c) <=> Is(body, m + k, c)
<1>1. Len(body) \in Nat \ {0} /\ DOMAIN body = 1 .. Len(body)
  BY EmptySeq, LenProperties DEF Segments
<1>2. k <= Len(body)
  BY <1>1 DEF Width, IsRange
<1> DEFINE b == k + 1
<1>3. b \in 1 .. Len(body) + 1
  BY <1>1, <1>2
<1> HIDE DEF b
<1>4. /\ rest \in Segments /\ Len(rest) = Len(body) - b + 1
      /\ \A j \in 1 .. Len(body) - b + 1 : rest[j] = body[b + j - 1]
  <2>1. body \in Seq(Chars) /\ b \in 1 .. Len(body) + 1
    BY <1>3 DEF Segments
  <2>2. /\ From(body, b) \in Seq(Chars) /\ Len(From(body, b)) = Len(body) - b + 1
        /\ \A j \in 1 .. Len(body) - b + 1 : From(body, b)[j] = body[b + j - 1]
    BY ONLY <2>1, FromProps
  <2>3. rest = From(body, b)
    BY DEF b
  <2> QED
    BY <2>2, <2>3 DEF Segments
<1>5. /\ Len(rest) = Len(body) - k /\ DOMAIN rest = 1 .. Len(rest)
      /\ \A j \in 1 .. Len(rest) : rest[j] = body[k + j]
  <2>1. Len(rest) = Len(body) - k
    BY <1>1, <1>4 DEF b
  <2>2. DOMAIN rest = 1 .. Len(rest)
    BY <1>4, LenProperties DEF Segments
  <2>3. ASSUME NEW j \in 1 .. Len(rest) PROVE rest[j] = body[k + j]
    <3>1. j \in 1 .. Len(body) - b + 1 /\ b + j - 1 = k + j
      BY <1>1, <1>4 DEF b
    <3>2. rest[j] = body[b + j - 1]
      BY <1>4, <3>1
    <3> QED
      BY <3>1, <3>2
  <2> QED
    BY <2>1, <2>2, <2>3
<1>6. ASSUME NEW m \in DOMAIN rest
      PROVE  /\ m \in Nat /\ m + k \in DOMAIN body
             /\ IsRange(rest, m) <=> IsRange(body, m + k)
             /\ Width(rest, m) = Width(body, m + k) /\ Width(rest, m) \in {1, 3}
             /\ rest[m] = body[m + k]
             /\ IsRange(rest, m) => rest[m + 2] = body[m + k + 2]
  <2> DEFINE p == m + k
             q == m + 1
             t == m + 2
  <2>1. m \in 1 .. Len(rest) /\ m \in Nat /\ p \in DOMAIN body /\ rest[m] = body[p]
    <3>1. k + m = p
      BY <1>5
    <3> QED
      BY <1>1, <1>5, <3>1
  <2>2. t <= Len(rest) => rest[q] = body[p + 1] /\ rest[t] = body[p + 2]
    <3>1. k + q = p + 1 /\ k + t = p + 2
      BY <2>1
    <3>2. t <= Len(rest) => q \in 1 .. Len(rest) /\ t \in 1 .. Len(rest)
      <4>1. m \in Nat /\ m >= 1 /\ Len(rest) \in Nat
        BY <1>1, <1>5, <2>1
      <4> QED
        BY ONLY <4>1
    <3> QED
      BY <1>5, <3>1, <3>2
  <2>3. t <= Len(rest) <=> p + 2 <= Len(body)
    <3>1. m \in Nat /\ Len(rest) = Len(body) - k /\ Len(body) \in Nat /\ k \in Nat
      BY <1>1, <1>5, <2>1
    <3> QED
      BY ONLY <3>1
  <2>4. IsRange(rest, m) <=> IsRange(body, p)
    BY <2>2, <2>3 DEF IsRange
  <2>5. Width(rest, m) = Width(body, p) /\ Width(rest, m) \in {1, 3}
    BY <2>4 DEF Width
  <2>6. IsRange(rest, m) => rest[t] = body[p + 2]
    BY <2>2 DEF IsRange
  <2> QED
    BY <2>1, <2>4, <2>5, <2>6
<1>7. \A B : Members(B) = {i \in DOMAIN B : \A starts \in SUBSET DOMAIN B : Begins(B, starts) => i \in starts}
  BY DEF Members, Begins, Width
<1>8. ASSUME NEW i \in Members(body), i # 1 PROVE \E m \in Members(rest) : i = m + k
  <2> DEFINE S == {1} \cup {m + k : m \in Members(rest)}
  <2>1. \A m \in Members(rest) : m \in DOMAIN rest
    BY <1>7
  <2>2. S \in SUBSET DOMAIN body
    BY <1>1, <1>6, <2>1
  <2>3. ASSUME NEW j \in S, j + Width(body, j) \in DOMAIN body PROVE j + Width(body, j) \in S
    <3>1. CASE j = 1
      <4>1. 1 \in DOMAIN rest
        BY <1>1, <1>5, <2>3, <3>1
      <4>2. 1 \in Members(rest)
        BY <1>7, <4>1 DEF Begins
      <4> QED
        BY <3>1, <4>2
    <3>2. CASE j # 1
      <4>1. PICK m \in Members(rest) : j = m + k
        BY <3>2
      <4>2. m \in DOMAIN rest /\ Width(rest, m) = Width(body, j) /\ m \in Nat
        BY <1>6, <2>1, <4>1
      <4> DEFINE n == m + Width(rest, m)
      <4>3. n \in DOMAIN rest /\ n + k = j + Width(body, j)
        <5>1. j = m + k /\ j + Width(body, j) <= Len(body) /\ Width(body, j) \in {1, 3}
          BY <1>1, <1>6, <2>3, <4>1, <4>2
        <5>2. n + k = j + Width(body, j)
          BY <4>2, <5>1
        <5>3. n >= 1 /\ n + k <= Len(body) /\ n \in Nat
          BY <4>2, <5>1, <5>2
        <5> QED
          BY <1>1, <1>5, <5>2, <5>3
      <4>4. ASSUME NEW starts \in SUBSET DOMAIN rest, Begins(rest, starts) PROVE n \in starts
        <5>1. m \in starts
          BY <1>7, <4>4
        <5> QED
          BY <4>3, <4>4, <5>1 DEF Begins
      <4> HIDE DEF n
      <4>5. n \in Members(rest)
        BY <1>7, <4>3, <4>4
      <4> QED
        BY <4>3, <4>5
    <3> QED
      BY <3>1, <3>2
  <2>4. Begins(body, S)
    BY <2>3 DEF Begins
  <2> HIDE DEF S
  <2>5. i \in S
    BY <1>7, <2>2, <2>4
  <2> QED
    BY <1>8, <2>5 DEF S
<1>9. 1 \in Members(body)
  BY <1>1, <1>7 DEF Begins
<1>10. ASSUME NEW m \in Members(rest) PROVE m + k \in Members(body)
  <2>1. m \in DOMAIN rest
    BY <1>7
  <2>2. ASSUME NEW starts \in SUBSET DOMAIN body, Begins(body, starts) PROVE m + k \in starts
    <3> DEFINE S == {j \in DOMAIN rest : j + k \in starts}
    <3>1. 1 \in DOMAIN rest
      BY <1>5, <2>1, LenProperties, <1>4
    <3>2. 1 + k \in DOMAIN body
      BY <1>6, <3>1
    <3>3. 1 \in S
      BY <2>2, <3>1, <3>2 DEF Begins
    <3>4. ASSUME NEW j \in S, j + Width(rest, j) \in DOMAIN rest PROVE j + Width(rest, j) \in S
      <4> DEFINE n == j + Width(rest, j)
                 p == j + k
      <4>1. p \in starts /\ Width(body, p) = Width(rest, j) /\ n + k = p + Width(body, p)
        BY <1>6
      <4>2. n + k \in DOMAIN body
        BY <1>6, <3>4
      <4> QED
        BY <2>2, <3>4, <4>1, <4>2 DEF Begins
    <3>5. Begins(rest, S) /\ S \in SUBSET DOMAIN rest
      BY <3>3, <3>4 DEF Begins
    <3> HIDE DEF S
    <3>6. m \in S
      BY <1>7, <3>5
    <3> QED
      BY <3>6 DEF S
  <2>3. m + k \in DOMAIN body
    BY <1>6, <2>1
  <2> QED
    BY <1>7, <2>2, <2>3
<1>11. ASSUME NEW m \in DOMAIN rest, NEW c PROVE Is(rest, m, c) <=> Is(body, m + k, c)
  <2> DEFINE p == m + k
             t == m + 2
  <2>1. IsRange(rest, m) <=> IsRange(body, p)
    BY <1>6
  <2> HIDE DEF p
  <2>3. CASE IsRange(rest, m)
    <3>1. Is(rest, m, c) <=> \E z \in Byte(rest[m]) .. Byte(rest[t]) : c = Alphabet[z]
      BY <2>3 DEF Is
    <3>2. Is(body, p, c) <=> \E z \in Byte(body[p]) .. Byte(body[p + 2]) : c = Alphabet[z]
      BY <2>1, <2>3 DEF Is
    <3>3. rest[m] = body[p] /\ rest[t] = body[p + 2]
      BY <1>6, <2>3 DEF p
    <3> QED
      BY <3>1, <3>2, <3>3 DEF p
  <2>4. CASE ~IsRange(rest, m)
    BY <1>6, <2>1, <2>4 DEF Is, p
  <2> QED
    BY <2>3, <2>4
<1> QED
  BY <1>8, <1>9, <1>10, <1>11

\* A character is in a range of bytes if its byte is.
LEMMA RangeBytes ==
    ASSUME NEW x \in Chars, NEW y \in Chars, NEW c \in Chars
    PROVE  (\E k \in Byte(x) .. Byte(y) : c = Alphabet[k]) <=> Byte(x) <= Byte(c) /\ Byte(c) <= Byte(y)
<1>1. DOMAIN Alphabet = 1 .. Len(Alphabet) /\ Len(Alphabet) \in Nat
  BY AlphabetAssumption, LenProperties
<1>2. \A i, j \in DOMAIN Alphabet : Alphabet[i] = Alphabet[j] => i = j
  BY AlphabetAssumption DEF IsInjective
<1>3. ASSUME NEW d \in Chars PROVE Byte(d) \in DOMAIN Alphabet /\ Alphabet[Byte(d)] = d
  <2>1. \E i \in DOMAIN Alphabet : Alphabet[i] = d
    BY DEF Chars, ToSet
  <2> QED
    BY <2>1 DEF Byte
<1>4. ASSUME NEW k \in Byte(x) .. Byte(y), c = Alphabet[k] PROVE k = Byte(c)
  <2>1. Byte(x) \in 1 .. Len(Alphabet) /\ Byte(y) \in 1 .. Len(Alphabet)
    BY <1>1, <1>3
  <2>2. k \in DOMAIN Alphabet
    BY <1>1, <2>1
  <2> QED
    BY <1>2, <1>3, <1>4, <2>2
<1>5. Byte(x) \in Nat /\ Byte(y) \in Nat /\ Byte(c) \in Nat
  BY <1>1, <1>3
<1> QED
  BY <1>3, <1>4, <1>5

\* The equation of InClass.
ClassLoop(f, class, c) ==
    /\ class # <<>>
    /\ IF Len(class) >= 3 /\ class[2] = "-"
       THEN \/ Byte(class[1]) <= Byte(c) /\ Byte(c) <= Byte(class[3])
            \/ f[From(class, 4)][c]
       ELSE c = class[1] \/ f[Tail(class)][c]

\* A class has the character that its first member has or its rest.
LEMMA ClassHasLoop ==
    ASSUME NEW class \in Segments, NEW c \in Chars, class # <<>>
    PROVE  ClassHas(class, c) <=> IF Len(class) >= 3 /\ class[2] = "-"
             THEN \/ Byte(class[1]) <= Byte(c) /\ Byte(c) <= Byte(class[3])
                  \/ ClassHas(From(class, 4), c)
             ELSE c = class[1] \/ ClassHas(Tail(class), c)
<1>1. Len(class) \in Nat \ {0} /\ \A i \in 1 .. Len(class) : class[i] \in Chars
  BY EmptySeq, LenProperties, ElementOfSeq DEF Segments
<1>2. IsRange(class, 1) <=> Len(class) >= 3 /\ class[2] = "-"
  BY <1>1 DEF IsRange
<1>3. \A B : ClassHas(B, c) <=> \E i \in Members(B) : Is(B, i, c)
  BY DEF ClassHas, Is
<1>4. ASSUME NEW k \in {1, 3}, k = Width(class, 1), NEW rest, rest = From(class, k + 1)
      PROVE  ClassHas(class, c) <=> Is(class, 1, c) \/ ClassHas(rest, c)
  <2>1. /\ \A i : i \in Members(class) <=> i = 1 \/ \E m \in Members(rest) : i = m + k
        /\ \A m \in DOMAIN rest : \A d : Is(rest, m, d) <=> Is(class, m + k, d)
    BY <1>4, MembersFrom
  <2>2. \A m \in Members(rest) : m \in DOMAIN rest
    BY DEF Members
  <2> QED
    BY <1>3, <2>1, <2>2
<1>5. CASE IsRange(class, 1)
  <2>1. 3 = Width(class, 1) /\ From(class, 4) = From(class, 3 + 1)
    BY <1>5 DEF Width
  <2>2. ClassHas(class, c) <=> Is(class, 1, c) \/ ClassHas(From(class, 4), c)
    BY <1>4, <2>1
  <2>3. class[1] \in Chars /\ class[3] \in Chars
    BY <1>1, <1>2, <1>5
  <2>4. Is(class, 1, c) <=> \E k \in Byte(class[1]) .. Byte(class[3]) : c = Alphabet[k]
    <3>1. 1 + 2 = 3
      OBVIOUS
    <3> QED
      BY <1>5, <3>1 DEF Is
  <2>5. Is(class, 1, c) <=> Byte(class[1]) <= Byte(c) /\ Byte(c) <= Byte(class[3])
    BY <2>3, <2>4, RangeBytes
  <2> QED
    BY <1>2, <1>5, <2>2, <2>5
<1>6. CASE ~IsRange(class, 1)
  <2>1. 1 = Width(class, 1) /\ From(class, 2) = From(class, 1 + 1)
    BY <1>6 DEF Width
  <2>2. ClassHas(class, c) <=> Is(class, 1, c) \/ ClassHas(From(class, 2), c)
    BY <1>4, <2>1
  <2>3. Tail(class) = From(class, 2)
    BY TailIsFrom DEF Segments
  <2>4. Is(class, 1, c) <=> c = class[1]
    BY <1>6 DEF Is
  <2> QED
    BY <1>2, <1>6, <2>2, <2>3, <2>4
<1> QED
  BY <1>5, <1>6

\* The loop over a class finds what the class has.
LEMMA InClassIs == \A class \in Segments, c \in Chars : InClass[class][c] = ClassHas(class, c)
<1> DEFINE W == [class \in Segments |-> [c \in Chars |-> ClassHas(class, c)]]
<1>1. W = [class \in Segments |-> [c \in Chars |-> ClassLoop(W, class, c)]]
  <2>1. ASSUME NEW class \in Segments, NEW c \in Chars
        PROVE  ClassHas(class, c) = ClassLoop(W, class, c)
    <3>1. ClassHas(class, c) \in BOOLEAN
      BY DEF ClassHas
    <3>2. CASE class = <<>>
      <4>1. ~ClassHas(class, c)
        BY <3>2 DEF ClassHas, Members
      <4> QED
        BY <3>1, <3>2, <4>1 DEF ClassLoop
    <3>3. CASE class # <<>>
      <4>1. From(class, 4) \in Segments \/ ~(Len(class) >= 3)
        <5>1. Len(class) \in Nat
          BY LenProperties DEF Segments
        <5>2. Len(class) >= 3 => 4 \in 1 .. Len(class) + 1
          BY <5>1
        <5> QED
          BY <5>2, FromProps DEF Segments
      <4>2. Tail(class) \in Segments
        BY <3>3, HeadTailProperties DEF Segments
      <4>3. /\ Len(class) >= 3 => W[From(class, 4)][c] = ClassHas(From(class, 4), c)
            /\ W[Tail(class)][c] = ClassHas(Tail(class), c)
        BY <4>1, <4>2
      <4> HIDE DEF W
      <4>4. ClassHas(class, c) <=> ClassLoop(W, class, c)
        BY <3>3, <4>3, ClassHasLoop DEF ClassLoop
      <4>5. ClassLoop(W, class, c) \in BOOLEAN
        BY <3>3, <4>3 DEF ClassLoop, ClassHas
      <4> QED
        BY <3>1, <4>4, <4>5
    <3> QED
      BY <3>2, <3>3
  <2> QED
    BY <2>1
<1> HIDE DEF W
<1>2. InClass = [class \in Segments |-> [c \in Chars |-> ClassLoop(InClass, class, c)]]
  BY Zenon, <1>1 DEF InClass, ClassLoop
<1> DEFINE T == {class \in Segments : \A c \in Chars : InClass[class][c] = ClassHas(class, c)}
<1>3. ASSUME NEW class \in Segments, \A d \in Segments : Len(d) < Len(class) => d \in T
      PROVE  class \in T
  <2>1. ASSUME NEW c \in Chars PROVE InClass[class][c] = ClassHas(class, c)
    <3>1. InClass[class][c] = ClassLoop(InClass, class, c) /\ ClassHas(class, c) = ClassLoop(W, class, c)
      BY <1>1, <1>2 DEF W
    <3>2. CASE class = <<>>
      BY <3>1, <3>2 DEF ClassLoop
    <3>3. CASE class # <<>>
      <4>1. Len(class) \in Nat
        BY LenProperties DEF Segments
      <4>2. Tail(class) \in Segments /\ Len(Tail(class)) < Len(class)
        BY <3>3, <4>1, HeadTailProperties DEF Segments
      <4>3. Len(class) >= 3 => From(class, 4) \in Segments /\ Len(From(class, 4)) < Len(class)
        <5>1. Len(class) >= 3 => 4 \in 1 .. Len(class) + 1
          BY <4>1
        <5> QED
          BY <4>1, <5>1, FromProps DEF Segments
      <4>4. InClass[Tail(class)][c] = W[Tail(class)][c]
        BY <1>3, <4>2 DEF W
      <4>5. Len(class) >= 3 => InClass[From(class, 4)][c] = W[From(class, 4)][c]
        BY <1>3, <4>3 DEF W
      <4> HIDE DEF W
      <4>6. ClassLoop(InClass, class, c) = ClassLoop(W, class, c)
        BY <4>4, <4>5 DEF ClassLoop
      <4> QED
        BY <3>1, <4>6
    <3> QED
      BY <3>2, <3>3
  <2> QED
    BY <2>1
<1>4. T \in SUBSET Segments
  OBVIOUS
<1> HIDE DEF T
<1>5. T = Segments
  BY <1>3, <1>4, ShorterFirst DEF Segments
<1> QED
  BY <1>5 DEF T

-----------------------------------------------------------------------------
(* Segments *)

\* The first i elements of a sequence.
LEMMA FirstPart ==
    ASSUME NEW S, NEW s \in Seq(S), NEW i \in 0 .. Len(s)
    PROVE  /\ SubSeq(s, 1, i) \in Seq(S) /\ Len(SubSeq(s, 1, i)) = i
           /\ \A k \in 1 .. i : SubSeq(s, 1, i)[k] = s[k]
<1>1. Len(s) \in Nat
  BY LenProperties
<1>2. \A k \in 1 .. i : s[k] \in S
  BY <1>1, ElementOfSeq
<1>3. i \in Int /\ 1 \in Int
  BY <1>1
<1>4. /\ SubSeq(s, 1, i) \in Seq(S)
      /\ Len(SubSeq(s, 1, i)) = IF 1 <= i THEN i - 1 + 1 ELSE 0
      /\ \A k \in 1 .. i - 1 + 1 : SubSeq(s, 1, i)[k] = s[1 + k - 1]
  BY <1>2, <1>3, SubSeqProperties
<1> QED
  BY <1>1, <1>3, <1>4

\* A piece, or a part, of one element or of two.
One(c) == <<c>>
Two(c, d) == <<c, d>>

\* When the first part of a sequence is one element, and when it is two.
LEMMA PartIs ==
    ASSUME NEW S, NEW s \in Seq(S), NEW i \in 0 .. Len(s)
    PROVE  /\ \A c : SubSeq(s, 1, i) = One(c) <=> i = 1 /\ s[1] = c
           /\ \A c, d : SubSeq(s, 1, i) = Two(c, d) <=> i = 2 /\ s[1] = c /\ s[2] = d
<1> DEFINE u == SubSeq(s, 1, i)
<1>1. u \in Seq(S) /\ Len(u) = i /\ \A k \in 1 .. i : u[k] = s[k]
  BY FirstPart
<1>2. i \in Nat
  BY LenProperties
<1>3. \A k \in 1 .. i : u[k] \in S
  BY <1>1, ElementOfSeq
<1> HIDE DEF u
<1>4. ASSUME NEW c PROVE u = <<c>> <=> i = 1 /\ s[1] = c
  <2>1. ASSUME u = <<c>> PROVE i = 1 /\ s[1] = c
    BY <1>1, <2>1
  <2>2. ASSUME i = 1, s[1] = c PROVE u = <<c>>
    <3>1. u[1] = c /\ c \in S
      BY <1>1, <1>3, <2>2
    <3>2. <<c>> \in Seq(S) /\ Len(<<c>>) = 1 /\ <<c>>[1] = c
      BY <3>1
    <3>3. Len(u) = Len(<<c>>) /\ \A k \in 1 .. Len(u) : u[k] = <<c>>[k]
      BY <1>1, <2>2, <3>1, <3>2
    <3> QED
      BY <1>1, <3>2, <3>3, SeqEqual
  <2> QED
    BY <2>1, <2>2
<1>5. ASSUME NEW c, NEW d PROVE u = <<c, d>> <=> i = 2 /\ s[1] = c /\ s[2] = d
  <2>1. ASSUME u = <<c, d>> PROVE i = 2 /\ s[1] = c /\ s[2] = d
    BY <1>1, <2>1
  <2>2. ASSUME i = 2, s[1] = c, s[2] = d PROVE u = <<c, d>>
    <3>1. u[1] = c /\ c \in S /\ u[2] = d /\ d \in S
      BY <1>1, <1>3, <2>2
    <3>2. <<c, d>> \in Seq(S) /\ Len(<<c, d>>) = 2 /\ <<c, d>>[1] = c /\ <<c, d>>[2] = d
      BY <3>1
    <3>3. Len(u) = Len(<<c, d>>) /\ \A k \in 1 .. Len(u) : u[k] = <<c, d>>[k]
      BY <1>1, <2>2, <3>1, <3>2
    <3> QED
      BY <1>1, <3>2, <3>3, SeqEqual
  <2> QED
    BY <2>1, <2>2
<1> QED
  <2>1. \A c : u = One(c) <=> i = 1 /\ s[1] = c
    BY Zenon, <1>4 DEF One
  <2>2. \A c, d : u = Two(c, d) <=> i = 2 /\ s[1] = c /\ s[2] = d
    BY Zenon, <1>5 DEF Two
  <2> QED
    BY <2>1, <2>2 DEF u

\* The part of a class and the character it stands for, by positions: neg is the
\* negation, the body begins at b and the bracket at i closes it.
ClassPart(p, i, b) ==
    /\ b = IF Negates(p[2]) THEN 3 ELSE 2
    /\ b + 1 <= i /\ p[i] = "]" /\ \A k \in b + 1 .. i - 1 : p[k] # "]"

\* The body of a class in a part is that in the pattern.
LEMMA BodyIs ==
    ASSUME NEW p \in Segments, NEW i \in 1 .. Len(p), NEW b \in {2, 3}, b + 1 <= i,
           NEW u, u = SubSeq(p, 1, i), NEW e, e = i - 1
    PROVE  /\ SubSeq(u, b, e) = SubSeq(p, b, e) /\ SubSeq(p, b, e) \in Segments
           /\ SubSeq(p, b, e)[1] = p[b]
           /\ "]" \notin ToSet(From(SubSeq(p, b, e), 2)) <=> \A k \in b + 1 .. i - 1 : p[k] # "]"
<1>1. Len(p) \in Nat /\ i \in Nat /\ e \in Nat /\ b <= e
  BY LenProperties DEF Segments
<1>2. u \in Seq(Chars) /\ Len(u) = i /\ \A k \in 1 .. i : u[k] = p[k]
  <2>1. i \in 0 .. Len(p)
    BY <1>1
  <2> QED
    BY <2>1, FirstPart DEF Segments
<1>3. \A k \in b .. e : p[k] \in Chars /\ u[k] = p[k]
  BY <1>1, <1>2, ElementOfSeq DEF Segments
<1> DEFINE v == SubSeq(u, b, e)
           w == SubSeq(p, b, e)
<1>4. /\ w \in Seq(Chars) /\ Len(w) = IF b <= e THEN e - b + 1 ELSE 0
      /\ \A k \in 1 .. e - b + 1 : w[k] = p[b + k - 1]
  BY <1>1, <1>3, SubSeqProperties
<1>5. /\ v \in Seq(Chars) /\ Len(v) = IF b <= e THEN e - b + 1 ELSE 0
      /\ \A k \in 1 .. e - b + 1 : v[k] = u[b + k - 1]
  <2>1. \A k \in b .. e : u[k] \in Chars
    BY <1>3
  <2> QED
    BY <1>1, <2>1, SubSeqProperties
<1> HIDE DEF v, w
<1>6. Len(v) = i - b /\ Len(w) = i - b /\ i - b \in Nat \ {0}
  BY <1>1, <1>4, <1>5
<1>7. ASSUME NEW k \in 1 .. i - b PROVE v[k] = w[k] /\ w[k] = p[b + k - 1]
  <2> DEFINE n == b + k - 1
  <2>1. k \in 1 .. e - b + 1 /\ n \in b .. e
    BY <1>1
  <2>2. w[k] = p[n] /\ v[k] = u[n]
    BY <1>4, <1>5, <2>1
  <2> HIDE DEF n
  <2>3. u[n] = p[n]
    BY <1>3, <2>1
  <2> QED
    BY <2>2, <2>3 DEF n
<1>8. v = w
  BY <1>4, <1>5, <1>6, <1>7, SeqEqual
<1>9. w[1] = p[b]
  <2>1. b + 1 - 1 = b /\ 1 \in 1 .. i - b
    BY <1>6
  <2> QED
    BY <1>7, <2>1
<1> DEFINE r == From(w, 2)
<1>10. r \in Seq(Chars) /\ Len(r) = i - b - 1 /\ \A k \in 1 .. i - b - 1 : r[k] = w[2 + k - 1]
  <2>1. 2 \in 1 .. Len(w) + 1 /\ Len(w) - 2 + 1 = i - b - 1
    BY <1>6
  <2>2. w \in Seq(Chars)
    BY <1>4
  <2>3. /\ From(w, 2) \in Seq(Chars) /\ Len(From(w, 2)) = Len(w) - 2 + 1
        /\ \A k \in 1 .. Len(w) - 2 + 1 : From(w, 2)[k] = w[2 + k - 1]
    BY ONLY <2>1, <2>2, FromProps
  <2> QED
    BY <2>1, <2>3
<1> HIDE DEF r
<1>11. ASSUME NEW k \in 1 .. i - b - 1 PROVE r[k] = p[b + k]
  <2> DEFINE n == k + 1
  <2>1. 2 + k - 1 = n /\ n \in 1 .. i - b /\ b + n - 1 = b + k
    BY <1>6
  <2> HIDE DEF n
  <2>2. r[k] = w[n] /\ w[n] = p[b + n - 1]
    BY <1>7, <1>10, <2>1
  <2> QED
    BY <2>1, <2>2
<1>12. DOMAIN r = 1 .. i - b - 1
  BY <1>10, LenProperties
<1>13. "]" \in ToSet(r) <=> \E k \in 1 .. i - b - 1 : p[b + k] = "]"
  BY <1>11, <1>12 DEF ToSet
<1>14. (\E k \in 1 .. i - b - 1 : p[b + k] = "]") <=> \E k \in b + 1 .. i - 1 : p[k] = "]"
  <2>1. ASSUME NEW k \in 1 .. i - b - 1, p[b + k] = "]" PROVE b + k \in b + 1 .. i - 1
    BY <1>1
  <2>2. ASSUME NEW k \in b + 1 .. i - 1, p[k] = "]" PROVE \E m \in 1 .. i - b - 1 : p[b + m] = "]"
    <3> DEFINE m == k - b
    <3>1. m \in 1 .. i - b - 1 /\ b + m = k
      BY <1>1
    <3> HIDE DEF m
    <3> QED
      BY <2>2, <3>1
  <2> QED
    BY <2>1, <2>2
<1> QED
  BY <1>4, <1>8, <1>9, <1>13, <1>14 DEF Segments, v, w, r

\* A part that begins a class stands for one character, not of the class or of it.
LEMMA ClassStands ==
    ASSUME NEW p \in Segments, p # <<>>, p[1] = "[", NEW s \in Segments,
           NEW i \in 1 .. Len(p), NEW j \in 0 .. Len(s)
    PROVE  StandsFor(SubSeq(p, 1, i), SubSeq(s, 1, j)) <=>
             /\ j = 1
             /\ \E b \in {2, 3} : /\ ClassPart(p, i, b)
                                  /\ Negates(p[2]) # ClassHas(SubSeq(p, b, i - 1), s[1])
<1> DEFINE u == SubSeq(p, 1, i)
           t == SubSeq(s, 1, j)
           Body(b) == SubSeq(p, b, i - 1)
<1>1. Len(p) \in Nat /\ i \in Nat /\ i \in 0 .. Len(p) /\ Len(s) \in Nat
  BY LenProperties DEF Segments
<1>2. u \in Segments /\ Len(u) = i /\ \A k \in 1 .. i : u[k] = p[k]
  BY <1>1, FirstPart DEF Segments
<1>3. \A c : t = <<c>> <=> j = 1 /\ s[1] = c
  <2>1. s \in Seq(Chars)
    BY DEF Segments
  <2>2. \A c : t = One(c) <=> j = 1 /\ s[1] = c
    BY <2>1, PartIs
  <2> QED
    BY Zenon, <2>2 DEF One
<1>4. u # <<"*">> /\ u # <<"?">> /\ (\A c : u = <<c>> => c = "[") /\ \A c : u # <<"\\", c>>
  <2>1. p \in Seq(Chars) /\ i \in 0 .. Len(p)
    BY <1>1 DEF Segments
  <2>2. /\ \A c : u = One(c) <=> i = 1 /\ p[1] = c
        /\ \A c, d : u = Two(c, d) <=> i = 2 /\ p[1] = c /\ p[2] = d
    BY <2>1, PartIs
  <2> HIDE DEF u
  <2>3. u # One("*") /\ u # One("?") /\ (\A c : u = One(c) => c = "[") /\ \A c : u # Two("\\", c)
    BY <2>2
  <2> QED
    BY Zenon, <2>3 DEF One, Two
<1> DEFINE b == IF Negates(p[2]) THEN 3 ELSE 2
           Closes == i > 2 /\ p[i] = "]" /\ Body(b) # <<>> /\ "]" \notin ToSet(From(Body(b), 2))
           Of(c) == /\ u[1] = "[" /\ u[Len(u)] = "]"
                   /\ LET neg == Negates(u[2])
                          body == SubSeq(u, IF neg THEN 3 ELSE 2, Len(u) - 1)
                      IN  body # <<>> /\ "]" \notin ToSet(From(body, 2)) /\ neg # ClassHas(body, c)
<1>6. StandsFor(u, t) <=> \E c \in Chars : t = <<c>> /\ Len(u) > 2 /\ Of(c)
  <2> HIDE DEF u, t
  <2> QED
    BY <1>4 DEF StandsFor
<1>7. b \in {2, 3} /\ \A d : ClassPart(p, i, d) => d = b
  BY DEF ClassPart
<1>8. ASSUME i > 2 PROVE Body(b) # <<>> <=> b + 1 <= i
  <2> HIDE DEF b
  <2> DEFINE e == i - 1
  <2>1. \A k \in b .. e : p[k] \in Chars
    BY <1>1, <1>7, ElementOfSeq DEF Segments
  <2>2. e \in Int /\ b \in Int
    BY <1>1, <1>7
  <2> HIDE DEF e
  <2>3. SubSeq(p, b, e) \in Seq(Chars) /\ Len(SubSeq(p, b, e)) = IF b <= e THEN e - b + 1 ELSE 0
    BY <2>1, <2>2, SubSeqProperties
  <2>4. SubSeq(p, b, e) # <<>> <=> b <= e
    BY <2>2, <2>3, EmptySeq
  <2> QED
    BY <1>1, <1>7, <2>4 DEF e
<1>9. Closes <=> ClassPart(p, i, b)
  <2>1. CASE i > 2 /\ b + 1 <= i
    <3> HIDE DEF b
    <3> DEFINE e == i - 1
    <3>1. "]" \notin ToSet(From(SubSeq(p, b, e), 2)) <=> \A k \in b + 1 .. i - 1 : p[k] # "]"
      <4>1. b \in {2, 3} /\ b + 1 <= i
        BY <1>7, <2>1
      <4> QED
        BY <4>1, BodyIs
    <3> QED
      BY <1>8, <2>1, <3>1 DEF ClassPart, b
  <2>2. CASE ~(i > 2 /\ b + 1 <= i)
    BY <1>1, <1>7, <1>8, <2>2 DEF ClassPart
  <2> QED
    BY <2>1, <2>2
<1>10. ASSUME NEW c, i > 2 PROVE Of(c) <=> Closes /\ Negates(p[2]) # ClassHas(Body(b), c)
  <2>1. u[1] = "[" /\ u[2] = p[2] /\ u[i] = p[i] /\ Len(u) = i
    BY <1>1, <1>2, <1>10
  <2> DEFINE e == i - 1
             d == IF Negates(u[2]) THEN 3 ELSE 2
  <2>2. d = b
    BY <2>1
  <2>3. SubSeq(u, d, e) = SubSeq(p, b, e)
    <3>1. CASE b + 1 <= i
      <4> HIDE DEF b, d
      <4>1. b \in {2, 3}
        BY <1>7
      <4>2. SubSeq(u, b, e) = SubSeq(p, b, e)
        BY <3>1, <4>1, BodyIs
      <4> QED
        BY <2>2, <4>2
    <3>2. CASE ~(b + 1 <= i)
      <4> HIDE DEF b, d, e, u
      <4>1. b \in Int /\ e \in Int /\ e < b
        BY <1>1, <1>7, <3>2 DEF e
      <4>2. SubSeq(u, b, e) = <<>> /\ SubSeq(p, b, e) = <<>>
        BY <4>1, SubSeqEmpty
      <4> QED
        BY <2>2, <4>2
    <3> QED
      BY <3>1, <3>2
  <2> HIDE DEF d, b, u
  <2>4. Len(u) - 1 = e
    BY <2>1
  <2> HIDE DEF e
  <2>5. (IF Negates(u[2]) THEN 3 ELSE 2) = d
    BY DEF d
  <2> QED
    BY <1>10, <2>1, <2>3, <2>4, <2>5 DEF e
<1>11. ASSUME j = 1 PROVE s[1] \in Chars
  <2>1. 1 \in 1 .. Len(s)
    BY <1>1, <1>11
  <2> QED
    BY <2>1, ElementOfSeq DEF Segments
<1> HIDE DEF b, u, t, Closes, Body, Of
<1>12. StandsFor(u, t) <=> j = 1 /\ i > 2 /\ Closes /\ Negates(p[2]) # ClassHas(Body(b), s[1])
  BY <1>2, <1>3, <1>6, <1>10, <1>11
<1>13. Closes => i > 2
  BY DEF Closes
<1> QED
  BY <1>7, <1>9, <1>12, <1>13 DEF u, t, Body

\* ClassEnd finds the bracket that closes a class, or says that none does.
LEMMA ClassEndIs ==
    ASSUME NEW p \in Segments, NEW b, b = IF Len(p) > 1 /\ Negates(p[2]) THEN 3 ELSE 2
    PROVE  /\ ClassEnd(p) = 0 \/ ClassEnd(p) \in b + 1 .. Len(p)
           /\ \A i \in 1 .. Len(p), d \in {2, 3} :
                 ClassPart(p, i, d) <=> ClassEnd(p) # 0 /\ i = ClassEnd(p) /\ d = b
<1> DEFINE ends == {i \in b + 1 .. Len(p) : p[i] = "]"}
<1>1. Len(p) \in Nat /\ b \in {2, 3}
  BY LenProperties DEF Segments
<1>2. ClassEnd(p) = IF ends = {} THEN 0 ELSE CHOOSE i \in ends : \A j \in ends : i <= j
  BY DEF ClassEnd
<1>3. ends \in SUBSET Nat
  BY <1>1
<1>4. ends # {} => ClassEnd(p) \in ends /\ \A j \in ends : ClassEnd(p) <= j
  <2> HIDE DEF ends
  <2> QED
    BY <1>2, <1>3, Smallest
<1>5. ClassEnd(p) = 0 \/ ClassEnd(p) \in b + 1 .. Len(p)
  BY <1>2, <1>4
<1>6. ASSUME NEW i \in 1 .. Len(p), NEW d \in {2, 3}, ClassPart(p, i, d)
      PROVE  ClassEnd(p) # 0 /\ i = ClassEnd(p) /\ d = b
  <2>1. d = b
    BY <1>1, <1>6 DEF ClassPart
  <2>2. i \in ends
    BY <1>1, <1>6, <2>1 DEF ClassPart
  <2>3. ClassEnd(p) \in b + 1 .. Len(p) /\ p[ClassEnd(p)] = "]" /\ ClassEnd(p) <= i
    BY <1>4, <2>2
  <2>4. \A k \in b + 1 .. i - 1 : p[k] # "]"
    BY <1>6, <2>1 DEF ClassPart
  <2>5. ~(ClassEnd(p) <= i - 1)
    BY <1>1, <2>3, <2>4
  <2> QED
    BY <1>1, <2>1, <2>3, <2>5
<1>7. ASSUME ClassEnd(p) # 0 PROVE ClassPart(p, ClassEnd(p), b)
  <2> DEFINE e == ClassEnd(p)
  <2>1. e \in ends /\ \A j \in ends : e <= j
    BY <1>2, <1>4, <1>7
  <2>2. e \in b + 1 .. Len(p) /\ p[e] = "]"
    BY <2>1
  <2> HIDE DEF e
  <2>3. ASSUME NEW k \in b + 1 .. e - 1 PROVE p[k] # "]"
    <3>1. k \in b + 1 .. Len(p) /\ ~(e <= k)
      BY <1>1, <2>2
    <3>2. k \notin ends
      <4> HIDE DEF ends
      <4> QED
        BY <2>1, <3>1
    <3> QED
      BY <3>1, <3>2
  <2>4. b = IF Negates(p[2]) THEN 3 ELSE 2
    BY <1>1, <2>2
  <2>5. b + 1 <= e
    BY <1>1, <2>2
  <2> QED
    BY <2>2, <2>3, <2>4, <2>5 DEF ClassPart, e
<1> QED
  BY <1>5, <1>6, <1>7

\* The equation of MatchSegment.
SegmentLoop(f, p, s) ==
    IF p = <<>> THEN s = <<>>
    ELSE CASE Head(p) = "*" ->
                  Tail(p) = <<>> \/ \E i \in 1 .. Len(s) + 1 : f[Tail(p)][From(s, i)]
           [] Head(p) = "?" ->
                  s # <<>> /\ f[Tail(p)][Tail(s)]
           [] Head(p) = "[" ->
                  MatchClass(p, s) /\ f[From(p, ClassEnd(p) + 1)][Tail(s)]
           [] Head(p) = "\\" ->
                  /\ Len(p) >= 2 /\ s # <<>> /\ Head(s) = p[2]
                  /\ f[From(p, 3)][Tail(s)]
           [] OTHER ->
                  s # <<>> /\ Head(s) = Head(p) /\ f[Tail(p)][Tail(s)]

\* A pattern whose first part has w characters and stands for one that meets the
\* condition `on`.
LEMMA OnePiece ==
    ASSUME NEW p \in Segments, NEW s \in Segments, p # <<>>, NEW w \in 1 .. Len(p), NEW on,
           \A i \in 1 .. Len(p), j \in 0 .. Len(s) :
               StandsFor(SubSeq(p, 1, i), SubSeq(s, 1, j)) <=> i = w /\ j = 1 /\ on
    PROVE  SegmentMeans[p][s] <=> s # <<>> /\ on /\ SegmentMeans[From(p, w + 1)][Tail(s)]
<1>1. SegmentMeans[p][s] <=> \E i \in 1 .. Len(p), j \in 0 .. Len(s) :
          /\ StandsFor(SubSeq(p, 1, i), SubSeq(s, 1, j))
          /\ SegmentMeans[From(p, i + 1)][From(s, j + 1)]
  BY SegmentMeansIs DEF SegmentCut
<1>2. s # <<>> <=> 1 \in 0 .. Len(s)
  BY EmptySeq, LenProperties DEF Segments
<1>3. s # <<>> => From(s, 1 + 1) = Tail(s)
  BY TailIsFrom DEF Segments
<1>4. ASSUME NEW i \in 1 .. Len(p), NEW j \in 0 .. Len(s), StandsFor(SubSeq(p, 1, i), SubSeq(s, 1, j)),
             SegmentMeans[From(p, i + 1)][From(s, j + 1)]
      PROVE  s # <<>> /\ on /\ SegmentMeans[From(p, w + 1)][Tail(s)]
  <2>1. i = w /\ j = 1 /\ on
    BY <1>4
  <2> QED
    BY <1>2, <1>3, <1>4, <2>1
<1>5. ASSUME s # <<>>, on, SegmentMeans[From(p, w + 1)][Tail(s)]
      PROVE  SegmentMeans[p][s]
  <2>1. StandsFor(SubSeq(p, 1, w), SubSeq(s, 1, 1)) /\ 1 \in 0 .. Len(s)
    BY <1>2, <1>5
  <2>2. SegmentMeans[From(p, w + 1)][From(s, 1 + 1)]
    BY <1>3, <1>5
  <2> QED
    BY <1>1, <2>1, <2>2
<1> QED
  BY <1>1, <1>4, <1>5

\* A pattern no part of which begins it stands for nothing.
LEMMA NoPiece ==
    ASSUME NEW p \in Segments, NEW s \in Segments, p # <<>>,
           \A i \in 1 .. Len(p), j \in 0 .. Len(s) : ~StandsFor(SubSeq(p, 1, i), SubSeq(s, 1, j))
    PROVE  ~SegmentMeans[p][s]
BY SegmentMeansIs DEF SegmentCut

\* What the first part can be, by the first character of the pattern.
LEMMA FirstOf ==
    ASSUME NEW p \in Segments, NEW s \in Segments, p # <<>>, NEW i \in 1 .. Len(p), NEW j \in 0 .. Len(s)
    PROVE  /\ p[1] = "*" => (StandsFor(SubSeq(p, 1, i), SubSeq(s, 1, j)) <=> i = 1)
           /\ p[1] = "?" => (StandsFor(SubSeq(p, 1, i), SubSeq(s, 1, j)) <=> i = 1 /\ j = 1)
           /\ p[1] = "\\" => (StandsFor(SubSeq(p, 1, i), SubSeq(s, 1, j)) <=>
                                i = 2 /\ j = 1 /\ p[2] = s[1])
           /\ p[1] \notin {"*", "?", "[", "\\"} =>
                 (StandsFor(SubSeq(p, 1, i), SubSeq(s, 1, j)) <=> i = 1 /\ j = 1 /\ p[1] = s[1])
<1> DEFINE u == SubSeq(p, 1, i)
           t == SubSeq(s, 1, j)
<1>1. Len(p) \in Nat /\ i \in Nat /\ i \in 0 .. Len(p) /\ Len(s) \in Nat
  BY LenProperties DEF Segments
<1>2. u \in Segments /\ Len(u) = i /\ u[1] = p[1]
  BY <1>1, FirstPart DEF Segments
<1>3. /\ \A c : t = <<c>> <=> j = 1 /\ s[1] = c
      /\ \A c : u = <<c>> <=> i = 1 /\ p[1] = c
      /\ \A c, d : u = <<c, d>> <=> i = 2 /\ p[1] = c /\ p[2] = d
  <2>1. p \in Seq(Chars) /\ i \in 0 .. Len(p) /\ s \in Seq(Chars) /\ j \in 0 .. Len(s)
    BY <1>1 DEF Segments
  <2>2. \A c : t = One(c) <=> j = 1 /\ s[1] = c
    BY <2>1, PartIs
  <2>3. /\ \A c : u = One(c) <=> i = 1 /\ p[1] = c
        /\ \A c, d : u = Two(c, d) <=> i = 2 /\ p[1] = c /\ p[2] = d
    BY <2>1, PartIs
  <2> QED
    BY Zenon, <2>2, <2>3 DEF One, Two
<1>4. Len(t) = j
  BY FirstPart DEF Segments
<1>5. j = 1 => s[1] \in Chars
  <2>1. j = 1 => 1 \in 1 .. Len(s)
    BY <1>1
  <2> QED
    BY <2>1, ElementOfSeq DEF Segments
<1> HIDE DEF u, t
<1> DEFINE A == p[1] = "*" /\ i = 1
           B == p[1] = "?" /\ i = 1 /\ j = 1
           C == p[1] = "\\" /\ i = 2 /\ j = 1 /\ p[2] = s[1]
           D == p[1] \notin {"*", "?", "[", "\\"} /\ i = 1 /\ j = 1 /\ p[1] = s[1]
<1>6. u = <<"*">> <=> A
  BY <1>3
<1>7. u = <<"?">> /\ Len(t) = 1 <=> B
  BY <1>3, <1>4
<1>8. (\E c \in Chars : t = <<c>> /\ u = <<"\\", c>>) <=> C
  BY <1>3, <1>5
<1>9. (\E c \in Chars \ {"*", "?", "[", "\\"} : t = <<c>> /\ u = <<c>>) <=> D
  BY <1>3, <1>5
<1> HIDE DEF A, B, C, D
<1>10. p[1] # "[" => (StandsFor(u, t) <=> A \/ B \/ C \/ D)
  BY <1>2, <1>6, <1>7, <1>8, <1>9 DEF StandsFor
<1>11. p[1] # "[" => (StandsFor(SubSeq(p, 1, i), SubSeq(s, 1, j)) <=> A \/ B \/ C \/ D)
  BY <1>10 DEF u, t
<1> QED
  BY <1>11 DEF A, B, C, D

\* The meaning of a segment satisfies the matcher's equation.
LEMMA SegmentStep ==
    ASSUME NEW p \in Segments, NEW s \in Segments
    PROVE  SegmentMeans[p][s] <=> SegmentLoop(SegmentMeans, p, s)
<1>1. Len(p) \in Nat /\ Len(s) \in Nat
  BY LenProperties DEF Segments
<1>2. CASE p = <<>>
  <2>1. Len(p) = 0
    BY <1>2
  <2>2. SegmentMeans[p][s] <=> s = <<>>
    <3>1. SegmentMeans[p][s] = SegmentCut(SegmentMeans, p, s)
      BY SegmentMeansIs
    <3>2. 1 .. Len(p) = {}
      BY <2>1
    <3> QED
      BY <1>2, <3>1, <3>2 DEF SegmentCut
  <2> QED
    BY <1>2, <2>2 DEF SegmentLoop
<1>3. CASE p # <<>>
  <2>1. Len(p) >= 1 /\ Head(p) = p[1] /\ Tail(p) = From(p, 2) /\ Tail(p) \in Segments
    BY <1>1, <1>3, EmptySeq, TailIsFrom, HeadTailProperties DEF Segments
  <2>2. s # <<>> => Head(s) = s[1] /\ 1 \in 0 .. Len(s)
    BY <1>1, EmptySeq DEF Segments
  <2>3. CASE p[1] = "*"
    <3>1. SegmentMeans[p][s] <=> \E j \in 0 .. Len(s) : SegmentMeans[Tail(p)][From(s, j + 1)]
      <4>1. \A i \in 1 .. Len(p), j \in 0 .. Len(s) : StandsFor(SubSeq(p, 1, i), SubSeq(s, 1, j)) <=> i = 1
        BY <1>3, <2>3, FirstOf
      <4>2. SegmentMeans[p][s] <=> \E i \in 1 .. Len(p), j \in 0 .. Len(s) :
                /\ StandsFor(SubSeq(p, 1, i), SubSeq(s, 1, j))
                /\ SegmentMeans[From(p, i + 1)][From(s, j + 1)]
        BY <1>3, SegmentMeansIs DEF SegmentCut
      <4>3. 1 \in 1 .. Len(p) /\ From(p, 1 + 1) = Tail(p)
        BY <1>1, <2>1
      <4> QED
        BY <4>1, <4>2, <4>3
    <3>2. (\E j \in 0 .. Len(s) : SegmentMeans[Tail(p)][From(s, j + 1)])
          <=> \E i \in 1 .. Len(s) + 1 : SegmentMeans[Tail(p)][From(s, i)]
      <4>1. ASSUME NEW j \in 0 .. Len(s) PROVE j + 1 \in 1 .. Len(s) + 1
        BY <1>1
      <4>2. ASSUME NEW i \in 1 .. Len(s) + 1 PROVE i - 1 \in 0 .. Len(s) /\ (i - 1) + 1 = i
        BY <1>1
      <4> QED
        BY <4>1, <4>2
    <3>3. ASSUME Tail(p) = <<>> PROVE \E i \in 1 .. Len(s) + 1 : SegmentMeans[Tail(p)][From(s, i)]
      <4> DEFINE k == Len(s) + 1
      <4>1. k \in 1 .. Len(s) + 1 /\ Len(s) - k + 1 = 0
        BY <1>1
      <4> HIDE DEF k
      <4>2. From(s, k) \in Segments /\ Len(From(s, k)) = 0
        BY <4>1, FromProps DEF Segments
      <4>3. From(s, k) = <<>>
        BY <4>2, EmptySeq DEF Segments
      <4>4. SegmentMeans[Tail(p)][From(s, k)]
        <5>1. SegmentMeans[Tail(p)][From(s, k)] = SegmentCut(SegmentMeans, Tail(p), From(s, k))
          BY <2>1, <4>2, SegmentMeansIs
        <5> QED
          BY <3>3, <4>3, <5>1 DEF SegmentCut
      <4> QED
        BY <4>1, <4>4
    <3>4. SegmentLoop(SegmentMeans, p, s) <=>
              Tail(p) = <<>> \/ \E i \in 1 .. Len(s) + 1 : SegmentMeans[Tail(p)][From(s, i)]
      BY <1>3, <2>1, <2>3 DEF SegmentLoop
    <3> QED
      BY <3>1, <3>2, <3>3, <3>4
  <2>4. CASE p[1] = "?"
    <3>1. 1 \in 1 .. Len(p) /\ From(p, 1 + 1) = Tail(p)
      BY <1>1, <2>1
    <3>2. \A i \in 1 .. Len(p), j \in 0 .. Len(s) :
              StandsFor(SubSeq(p, 1, i), SubSeq(s, 1, j)) <=> i = 1 /\ j = 1 /\ TRUE
      BY <1>3, <2>4, FirstOf
    <3>3. SegmentMeans[p][s] <=> s # <<>> /\ TRUE /\ SegmentMeans[From(p, 1 + 1)][Tail(s)]
      BY <1>3, <3>1, <3>2, OnePiece
    <3>4. SegmentLoop(SegmentMeans, p, s) <=> s # <<>> /\ SegmentMeans[Tail(p)][Tail(s)]
      BY <1>3, <2>1, <2>4 DEF SegmentLoop
    <3> QED
      BY <3>1, <3>3, <3>4
  <2>5. CASE p[1] = "["
    <3> DEFINE e == ClassEnd(p)
               b == IF Len(p) > 1 /\ Negates(p[2]) THEN 3 ELSE 2
               on == Negates(p[2]) # ClassHas(SubSeq(p, b, e - 1), s[1])
    <3>1. /\ e = 0 \/ e \in b + 1 .. Len(p)
          /\ \A i \in 1 .. Len(p), d \in {2, 3} : ClassPart(p, i, d) <=> e # 0 /\ i = e /\ d = b
      BY ClassEndIs
    <3>2. b \in {2, 3}
      OBVIOUS
    <3>3. \A i \in 1 .. Len(p), j \in 0 .. Len(s) : StandsFor(SubSeq(p, 1, i), SubSeq(s, 1, j)) <=>
             /\ j = 1
             /\ \E d \in {2, 3} : /\ ClassPart(p, i, d)
                                  /\ Negates(p[2]) # ClassHas(SubSeq(p, d, i - 1), s[1])
      BY <1>3, <2>5, ClassStands
    <3>4. SegmentLoop(SegmentMeans, p, s) <=> MatchClass(p, s) /\ SegmentMeans[From(p, e + 1)][Tail(s)]
      BY <1>3, <2>1, <2>5 DEF SegmentLoop
    <3> HIDE DEF e, b
    <3>5. CASE e = 0
      <4>1. ~MatchClass(p, s)
        BY <3>5 DEF MatchClass, e
      <4>2. \A i \in 1 .. Len(p), j \in 0 .. Len(s) : ~StandsFor(SubSeq(p, 1, i), SubSeq(s, 1, j))
        BY <3>1, <3>3, <3>5
      <4> QED
        BY <1>3, <3>4, <4>1, <4>2, NoPiece
    <3>6. CASE e # 0
      <4>1. e \in 1 .. Len(p)
        BY <1>1, <3>1, <3>2, <3>6
      <4>2. \A i \in 1 .. Len(p), j \in 0 .. Len(s) :
                StandsFor(SubSeq(p, 1, i), SubSeq(s, 1, j)) <=> i = e /\ j = 1 /\ on
        BY <3>1, <3>2, <3>3, <3>6
      <4> HIDE DEF on
      <4>3. SegmentMeans[p][s] <=> s # <<>> /\ on /\ SegmentMeans[From(p, e + 1)][Tail(s)]
        BY <1>3, <4>1, <4>2, OnePiece
      <4>4. ASSUME s # <<>> PROVE MatchClass(p, s) <=> on
        <5>1. (IF Negates(p[2]) THEN 3 ELSE 2) = b
          BY <1>1, <3>1, <3>2, <3>6 DEF b
        <5>2. SubSeq(p, b, e - 1) \in Segments
          <6>1. b + 1 <= e
            BY <1>1, <3>1, <3>2, <3>6
          <6> QED
            BY <3>2, <4>1, <6>1, BodyIs
        <5>3. s[1] \in Chars /\ Head(s) = s[1]
          <6>1. 1 \in 1 .. Len(s)
            BY <1>1, <2>2, <4>4
          <6> QED
            BY <2>2, <4>4, <6>1, ElementOfSeq DEF Segments
        <5>4. MatchClass(p, s) <=> Negates(p[2]) # InClass[SubSeq(p, b, e - 1)][s[1]]
          BY <3>6, <4>4, <5>1, <5>3 DEF MatchClass, e
        <5>5. InClass[SubSeq(p, b, e - 1)][s[1]] = ClassHas(SubSeq(p, b, e - 1), s[1])
          BY <5>2, <5>3, InClassIs
        <5> QED
          BY <5>4, <5>5 DEF on
      <4>5. MatchClass(p, s) => s # <<>>
        BY DEF MatchClass
      <4> QED
        BY <3>4, <4>3, <4>4, <4>5
    <3> QED
      BY <3>5, <3>6
  <2>6. CASE p[1] = "\\"
    <3>1. SegmentLoop(SegmentMeans, p, s) <=>
              Len(p) >= 2 /\ s # <<>> /\ Head(s) = p[2] /\ SegmentMeans[From(p, 3)][Tail(s)]
      BY <1>3, <2>1, <2>6 DEF SegmentLoop
    <3> DEFINE on == p[2] = s[1]
    <3>2. \A i \in 1 .. Len(p), j \in 0 .. Len(s) :
              StandsFor(SubSeq(p, 1, i), SubSeq(s, 1, j)) <=> i = 2 /\ j = 1 /\ on
      BY <1>3, <2>6, FirstOf
    <3>3. CASE Len(p) >= 2
      <4>1. 2 \in 1 .. Len(p) /\ From(p, 2 + 1) = From(p, 3)
        BY <1>1, <3>3
      <4> HIDE DEF on
      <4>2. SegmentMeans[p][s] <=> s # <<>> /\ on /\ SegmentMeans[From(p, 2 + 1)][Tail(s)]
        BY <1>3, <3>2, <4>1, OnePiece
      <4> QED
        BY <2>2, <3>1, <3>3, <4>1, <4>2 DEF on
    <3>4. CASE ~(Len(p) >= 2)
      <4>1. \A i \in 1 .. Len(p), j \in 0 .. Len(s) : ~StandsFor(SubSeq(p, 1, i), SubSeq(s, 1, j))
        BY <1>1, <3>2, <3>4
      <4> QED
        BY <1>3, <3>1, <3>4, <4>1, NoPiece
    <3> QED
      BY <3>3, <3>4
  <2>7. CASE p[1] \notin {"*", "?", "[", "\\"}
    <3> DEFINE on == p[1] = s[1]
    <3>1. 1 \in 1 .. Len(p) /\ From(p, 1 + 1) = Tail(p)
      BY <1>1, <2>1
    <3>2. \A i \in 1 .. Len(p), j \in 0 .. Len(s) :
              StandsFor(SubSeq(p, 1, i), SubSeq(s, 1, j)) <=> i = 1 /\ j = 1 /\ on
      BY <1>3, <2>7, FirstOf
    <3> HIDE DEF on
    <3>3. SegmentMeans[p][s] <=> s # <<>> /\ on /\ SegmentMeans[From(p, 1 + 1)][Tail(s)]
      BY <1>3, <3>1, <3>2, OnePiece
    <3>4. SegmentLoop(SegmentMeans, p, s) <=> s # <<>> /\ Head(s) = Head(p) /\ SegmentMeans[Tail(p)][Tail(s)]
      BY <1>3, <2>1, <2>7 DEF SegmentLoop
    <3> QED
      BY <2>1, <2>2, <3>1, <3>3, <3>4 DEF on
  <2> QED
    BY <2>3, <2>4, <2>5, <2>6, <2>7
<1> QED
  BY <1>2, <1>3

\* The matcher's equation looks at shorter patterns only.
LEMMA LoopSame ==
    ASSUME NEW p \in Segments, NEW s \in Segments, NEW f, NEW g,
           \A q, t \in Segments : Len(q) < Len(p) => f[q][t] = g[q][t]
    PROVE  SegmentLoop(f, p, s) = SegmentLoop(g, p, s)
<1>1. Len(p) \in Nat /\ Len(s) \in Nat
  BY LenProperties DEF Segments
<1>2. CASE p = <<>>
  BY <1>2 DEF SegmentLoop
<1>3. CASE p # <<>>
  <2> DEFINE e == ClassEnd(p)
  <2>1. Tail(p) \in Segments /\ Len(Tail(p)) < Len(p) /\ Len(p) >= 1
    BY <1>1, <1>3, HeadTailProperties, EmptySeq DEF Segments
  <2>2. s # <<>> => Tail(s) \in Segments
    BY HeadTailProperties DEF Segments
  <2>3. \A i \in 1 .. Len(s) + 1 : From(s, i) \in Segments
    BY FromProps DEF Segments
  <2>4. Len(p) >= 2 => From(p, 3) \in Segments /\ Len(From(p, 3)) < Len(p)
    <3>1. Len(p) >= 2 => 3 \in 1 .. Len(p) + 1
      BY <1>1
    <3> QED
      BY <1>1, <3>1, FromProps DEF Segments
  <2>5. MatchClass(p, s) => s # <<>> /\ From(p, e + 1) \in Segments /\ Len(From(p, e + 1)) < Len(p)
    <3>1. MatchClass(p, s) => s # <<>> /\ e # 0
      BY DEF MatchClass
    <3>2. e # 0 => e \in 2 .. Len(p)
      <4> DEFINE b == IF Len(p) > 1 /\ Negates(p[2]) THEN 3 ELSE 2
      <4>1. e = 0 \/ e \in b + 1 .. Len(p)
        BY ClassEndIs
      <4>2. b \in {2, 3}
        OBVIOUS
      <4> HIDE DEF b, e
      <4> QED
        BY <1>1, <4>1, <4>2
    <3> HIDE DEF e
    <3> DEFINE k == e + 1
    <3>3. e # 0 => k \in 1 .. Len(p) + 1 /\ Len(p) - k + 1 < Len(p)
      BY <1>1, <3>2
    <3> HIDE DEF k
    <3>4. e # 0 => From(p, k) \in Segments /\ Len(From(p, k)) < Len(p)
      BY <3>3, FromProps DEF Segments
    <3> QED
      BY <3>1, <3>4 DEF k
  <2>6. \A t \in Segments : f[Tail(p)][t] = g[Tail(p)][t]
    BY <2>1
  <2>7. Len(p) >= 2 => \A t \in Segments : f[From(p, 3)][t] = g[From(p, 3)][t]
    BY <2>4
  <2>8. MatchClass(p, s) => \A t \in Segments : f[From(p, e + 1)][t] = g[From(p, e + 1)][t]
    BY <2>5
  <2>9. CASE Head(p) = "*"
    <3>1. (\E i \in 1 .. Len(s) + 1 : f[Tail(p)][From(s, i)])
            = \E i \in 1 .. Len(s) + 1 : g[Tail(p)][From(s, i)]
      BY <2>3, <2>6
    <3> QED
      BY <1>3, <2>9, <3>1 DEF SegmentLoop
  <2>10. CASE Head(p) = "["
    <3>1. MatchClass(p, s) => f[From(p, e + 1)][Tail(s)] = g[From(p, e + 1)][Tail(s)]
      BY <2>2, <2>5, <2>8
    <3>2. \A h : SegmentLoop(h, p, s) = (MatchClass(p, s) /\ h[From(p, e + 1)][Tail(s)])
      BY <1>3, <2>10 DEF SegmentLoop
    <3> QED
      BY <3>1, <3>2
  <2>11. CASE Head(p) = "\\"
    BY <1>3, <2>2, <2>7, <2>11 DEF SegmentLoop
  <2>12. CASE Head(p) \notin {"*", "[", "\\"}
    BY <1>3, <2>2, <2>6, <2>12 DEF SegmentLoop
  <2> QED
    BY <2>9, <2>10, <2>11, <2>12
<1> QED
  BY <1>2, <1>3

\* The matcher of a segment finds what the segment means.
LEMMA MatchSegmentIs == \A p, s \in Segments : MatchSegment[p][s] = SegmentMeans[p][s]
<1> DEFINE W == [p \in Segments |-> [s \in Segments |-> SegmentMeans[p][s]]]
           M == SegmentMeans
<1>1. W = [p \in Segments |-> [s \in Segments |-> SegmentLoop(W, p, s)]]
  <2>1. ASSUME NEW p \in Segments, NEW s \in Segments
        PROVE  M[p][s] = SegmentLoop(W, p, s)
    <3>1. \A q, t \in Segments : Len(q) < Len(p) => W[q][t] = M[q][t]
      OBVIOUS
    <3> HIDE DEF W, M
    <3>2. SegmentLoop(W, p, s) = SegmentLoop(M, p, s)
      BY <3>1, LoopSame
    <3>3. M[p][s] <=> SegmentLoop(M, p, s)
      BY SegmentStep DEF M
    <3>4. M[p][s] \in BOOLEAN
      BY SegmentMeansIs DEF M
    <3>5. SegmentLoop(M, p, s) \in BOOLEAN
      BY DEF SegmentLoop
    <3> QED
      BY <3>2, <3>3, <3>4, <3>5
  <2> QED
    BY <2>1
<1> HIDE DEF W, M
<1>2. MatchSegment = [p \in Segments |-> [s \in Segments |-> SegmentLoop(MatchSegment, p, s)]]
  BY Zenon, <1>1 DEF MatchSegment, SegmentLoop
<1> DEFINE T == {p \in Segments : \A s \in Segments : MatchSegment[p][s] = W[p][s]}
<1>3. ASSUME NEW p \in Segments, \A q \in Segments : Len(q) < Len(p) => q \in T
      PROVE  p \in T
  <2>1. ASSUME NEW s \in Segments PROVE MatchSegment[p][s] = W[p][s]
    <3>1. MatchSegment[p][s] = SegmentLoop(MatchSegment, p, s) /\ W[p][s] = SegmentLoop(W, p, s)
      BY <1>1, <1>2
    <3>2. \A q, t \in Segments : Len(q) < Len(p) => MatchSegment[q][t] = W[q][t]
      BY <1>3
    <3>3. SegmentLoop(MatchSegment, p, s) = SegmentLoop(W, p, s)
      BY <3>2, LoopSame
    <3> QED
      BY <3>1, <3>3
  <2> QED
    BY <2>1
<1>4. T \in SUBSET Segments
  OBVIOUS
<1> HIDE DEF T
<1>5. T = Segments
  BY <1>3, <1>4, ShorterFirst DEF Segments
<1> QED
  BY <1>5 DEF T, W

-----------------------------------------------------------------------------
(* Patterns *)

\* The piece of a name, its first m segments, that the head x of a pattern takes.
Takes(x, name, m) == x = <<"*", "*">> \/ (m = 1 /\ SegmentMeans[x][name[1]])

\* What a cut says of the position i of a pattern.
Fits(pat, name, cut, i) ==
    IF pat[i] = <<"*", "*">> THEN cut[i - 1] <= cut[i]
    ELSE cut[i] = cut[i - 1] + 1 /\ SegmentMeans[pat[i]][name[cut[i]]]

\* The cuts of a name never go back.
LEMMA CutsGrow ==
    ASSUME NEW n \in Nat, NEW cut, \A i \in 1 .. n : cut[i] \in Nat,
           \A i \in 2 .. n : cut[i - 1] <= cut[i]
    PROVE  \A i \in 1 .. n : cut[1] <= cut[i]
<1> SUFFICES ASSUME NEW k \in 1 .. n, ~(cut[1] <= cut[k]) PROVE FALSE
  OBVIOUS
<1> DEFINE T == {i \in 1 .. n : ~(cut[1] <= cut[i])}
<1>1. T \in SUBSET Nat /\ T # {}
  OBVIOUS
<1>2. \E m \in T : \A i \in T : m <= i
  <2> HIDE DEF T
  <2> QED
    BY <1>1, Smallest
<1>3. PICK m \in T : \A i \in T : m <= i
  BY <1>2
<1>4. m \in 2 .. n
  BY <1>3
<1>5. m - 1 \in 1 .. n /\ ~(m <= m - 1)
  BY <1>4
<1>6. m - 1 \notin T
  <2> HIDE DEF T
  <2> QED
    BY <1>3, <1>5
<1>7. cut[1] <= cut[m - 1] /\ cut[m - 1] <= cut[m]
  BY <1>4, <1>5, <1>6
<1>8. cut[1] \in Nat /\ cut[m] \in Nat /\ cut[m - 1] \in Nat /\ ~(cut[1] <= cut[m])
  BY <1>3, <1>4, <1>5
<1> QED
  BY <1>7, <1>8

\* The parts of a suffix of a name.
LEMMA RestIs ==
    ASSUME NEW name \in Paths, NEW m \in 0 .. Len(name), NEW rest, rest = From(name, m + 1)
    PROVE  /\ rest \in Paths /\ Len(rest) = Len(name) - m
           /\ \A k \in 1 .. Len(rest) : rest[k] = name[k + m]
<1> DEFINE b == m + 1
<1>1. Len(name) \in Nat /\ b \in 1 .. Len(name) + 1
  BY LenProperties DEF Paths
<1> HIDE DEF b
<1>2. /\ From(name, b) \in Seq(Segments) /\ Len(From(name, b)) = Len(name) - b + 1
      /\ \A k \in 1 .. Len(name) - b + 1 : From(name, b)[k] = name[b + k - 1]
  BY <1>1, FromProps DEF Paths
<1>3. rest = From(name, b)
  BY DEF b
<1>4. Len(rest) = Len(name) - m
  BY <1>1, <1>2, <1>3 DEF b
<1>5. ASSUME NEW k \in 1 .. Len(rest) PROVE rest[k] = name[k + m]
  <2>1. k \in 1 .. Len(name) - b + 1 /\ b + k - 1 = k + m
    BY <1>1, <1>4 DEF b
  <2>2. rest[k] = name[b + k - 1]
    BY <1>2, <1>3, <2>1
  <2> QED
    BY <2>1, <2>2
<1> QED
  BY <1>2, <1>3, <1>4, <1>5 DEF Paths

\* A cut gives the head a piece of the name, and the rest of the pattern a cut of
\* the rest of the name.
LEMMA CutHead ==
    ASSUME NEW pat \in Paths, NEW name \in Paths, pat # <<>>, GlobMeans(pat, name)
    PROVE  \E m \in 0 .. Len(name) : Takes(pat[1], name, m) /\ GlobMeans(Tail(pat), From(name, m + 1))
<1> DEFINE n == Len(pat)
           l == Len(name)
<1>1. n \in Nat \ {0} /\ l \in Nat /\ DOMAIN pat = 1 .. n
  BY EmptySeq, LenProperties DEF Paths
<1>2. PICK cut \in [0 .. n -> 0 .. l] : /\ cut[0] = 0 /\ cut[n] = l
                                       /\ \A i \in DOMAIN pat : Fits(pat, name, cut, i)
  BY DEF GlobMeans, Fits
<1> DEFINE m == cut[1]
           tail == Tail(pat)
           rest == From(name, m + 1)
           k == n - 1
           c == [i \in 0 .. k |-> cut[i + 1] - m]
<1>3. m \in 0 .. l /\ m \in Nat /\ k \in Nat /\ \A i \in 0 .. n : cut[i] \in 0 .. l
  BY <1>1, <1>2
<1>4. Takes(pat[1], name, m)
  <2>1. Fits(pat, name, cut, 1) /\ 1 - 1 = 0
    BY <1>1, <1>2
  <2> QED
    BY <1>2, <2>1 DEF Fits, Takes
<1>5. \A i \in 1 .. n : m <= cut[i]
  <2>1. \A i \in 1 .. n : cut[i] \in Nat
    BY <1>1, <1>3
  <2>2. \A i \in 2 .. n : cut[i - 1] <= cut[i]
    <3> SUFFICES ASSUME NEW i \in 2 .. n PROVE cut[i - 1] <= cut[i]
      OBVIOUS
    <3>1. Fits(pat, name, cut, i) /\ cut[i] \in Nat /\ cut[i - 1] \in Nat
      BY <1>1, <1>2, <1>3
    <3> QED
      BY <3>1 DEF Fits
  <2> QED
    BY <1>1, <2>1, <2>2, CutsGrow
<1>6. tail \in Paths /\ Len(tail) = k /\ DOMAIN tail = 1 .. k /\ \A i \in 1 .. k : tail[i] = pat[i + 1]
  <2>1. tail \in Seq(Segments) /\ Len(tail) = n - 1 /\ \A i \in 1 .. Len(tail) : tail[i] = pat[i + 1]
    BY HeadTailProperties DEF Paths
  <2> QED
    BY <2>1, LenProperties DEF Paths
<1>7. rest \in Paths /\ Len(rest) = l - m /\ \A j \in 1 .. Len(rest) : rest[j] = name[j + m]
  <2>1. m \in 0 .. Len(name)
    BY <1>3
  <2> HIDE DEF m
  <2> QED
    BY ONLY <2>1, name \in Paths, RestIs
<1> HIDE DEF tail, rest, m, n, l, k
<1>8. c \in [0 .. Len(tail) -> 0 .. Len(rest)] /\ c[0] = 0 /\ c[Len(tail)] = Len(rest)
  <2>1. ASSUME NEW i \in 0 .. k PROVE cut[i + 1] - m \in 0 .. l - m
    <3>1. i + 1 \in 1 .. n /\ i + 1 \in 0 .. n
      BY <1>1 DEF k
    <3> QED
      BY <1>1, <1>3, <1>5, <3>1
  <2>2. c[0] = m - m /\ c[k] = l - m
    <3>1. 0 \in 0 .. k /\ k \in 0 .. k /\ 0 + 1 = 1 /\ k + 1 = n
      BY <1>1, <1>3 DEF k
    <3> QED
      BY <1>2, <3>1 DEF m
  <2> QED
    BY <1>3, <1>6, <1>7, <2>1, <2>2
<1>9. ASSUME NEW i \in DOMAIN tail PROVE Fits(tail, rest, c, i)
  <2>1. i \in 1 .. k /\ i \in 0 .. k /\ i - 1 \in 0 .. k /\ (i - 1) + 1 = i /\ (i + 1) - 1 = i
    <3>1. i \in 1 .. k /\ k \in Nat
      BY <1>3, <1>6
    <3> QED
      BY ONLY <3>1
  <2>2. c[i] = cut[i + 1] - m /\ c[i - 1] = cut[i] - m
    BY <2>1
  <2>3. i + 1 \in 1 .. n /\ i \in 1 .. n
    BY <1>1, <2>1 DEF k
  <2>4. Fits(pat, name, cut, i + 1) /\ tail[i] = pat[i + 1]
    BY <1>1, <1>2, <1>6, <2>1, <2>3
  <2>5. cut[i + 1] \in 0 .. l /\ cut[i] \in 0 .. l /\ m <= cut[i] /\ m <= cut[i + 1]
    BY <1>1, <1>3, <1>5, <2>3
  <2> HIDE DEF c
  <2>6. CASE tail[i] = <<"*", "*">>
    <3>1. cut[i] <= cut[i + 1]
      BY <2>1, <2>4, <2>6 DEF Fits
    <3>2. c[i - 1] <= c[i]
      BY <1>3, <2>2, <2>5, <3>1
    <3> QED
      BY <2>6, <3>2 DEF Fits
  <2>7. CASE tail[i] # <<"*", "*">>
    <3>1. cut[i + 1] = cut[i] + 1 /\ SegmentMeans[tail[i]][name[cut[i + 1]]]
      BY <2>1, <2>4, <2>7 DEF Fits
    <3>2. c[i] = c[i - 1] + 1 /\ c[i] \in 1 .. Len(rest) /\ c[i] + m = cut[i + 1]
      <4>1. m \in Nat /\ l \in Nat /\ cut[i] \in Nat /\ cut[i + 1] \in Nat /\ Len(rest) = l - m
        BY <1>1, <1>3, <1>7, <2>5
      <4>2. m <= cut[i] /\ cut[i + 1] <= l /\ cut[i + 1] = cut[i] + 1
        BY <1>1, <2>5, <3>1
      <4>3. c[i] = cut[i + 1] - m /\ c[i - 1] = cut[i] - m
        BY <2>2
      <4> QED
        BY ONLY <4>1, <4>2, <4>3
    <3>3. rest[c[i]] = name[cut[i + 1]]
      BY <1>7, <3>2
    <3> QED
      BY <2>7, <3>1, <3>2, <3>3 DEF Fits
  <2> QED
    BY <2>6, <2>7
<1> HIDE DEF c
<1>10. GlobMeans(tail, rest)
  BY <1>8, <1>9 DEF GlobMeans, Fits
<1> QED
  BY <1>3, <1>4, <1>10 DEF tail, rest, l

\* The converse: a piece for the head and a cut of what is left make a cut.
LEMMA CutJoin ==
    ASSUME NEW pat \in Paths, NEW name \in Paths, pat # <<>>, NEW m \in 0 .. Len(name),
           Takes(pat[1], name, m), GlobMeans(Tail(pat), From(name, m + 1))
    PROVE  GlobMeans(pat, name)
<1> DEFINE n == Len(pat)
           l == Len(name)
           tail == Tail(pat)
           rest == From(name, m + 1)
           k == n - 1
<1>1. n \in Nat \ {0} /\ l \in Nat /\ DOMAIN pat = 1 .. n /\ m \in Nat /\ m <= l /\ k \in Nat
  BY EmptySeq, LenProperties DEF Paths
<1>2. tail \in Paths /\ Len(tail) = k /\ DOMAIN tail = 1 .. k /\ \A i \in 1 .. k : tail[i] = pat[i + 1]
  <2>1. tail \in Seq(Segments) /\ Len(tail) = n - 1 /\ \A i \in 1 .. Len(tail) : tail[i] = pat[i + 1]
    BY HeadTailProperties DEF Paths
  <2> QED
    BY <2>1, LenProperties DEF Paths
<1>3. rest \in Paths /\ Len(rest) = l - m /\ \A j \in 1 .. Len(rest) : rest[j] = name[j + m]
  BY RestIs
<1> HIDE DEF tail, rest, n, l, k
<1>4. PICK c \in [0 .. k -> 0 .. l - m] : /\ c[0] = 0 /\ c[k] = l - m
                                          /\ \A i \in 1 .. k : Fits(tail, rest, c, i)
  BY <1>2, <1>3 DEF GlobMeans, Fits, tail, rest
<1> DEFINE cut == [i \in 0 .. n |-> IF i = 0 THEN 0 ELSE c[i - 1] + m]
<1>5. \A i \in 0 .. k : c[i] \in 0 .. l - m
  BY <1>4
<1>6. cut \in [0 .. n -> 0 .. l] /\ cut[0] = 0 /\ cut[n] = l /\ cut[1] = m
  <2>1. ASSUME NEW i \in 1 .. n PROVE c[i - 1] + m \in 0 .. l
    <3>1. i - 1 \in 0 .. k
      BY <1>1 DEF k
    <3> QED
      BY <1>1, <1>5, <3>1
  <2>2. n # 0 /\ n - 1 = k /\ 1 - 1 = 0
    BY <1>1 DEF k
  <2> QED
    BY <1>1, <1>4, <2>1, <2>2
<1>7. ASSUME NEW i \in 1 .. n PROVE Fits(pat, name, cut, i)
  <2>1. CASE i = 1
    <3>1. cut[1] = m /\ cut[1 - 1] = 0
      BY <1>6
    <3> HIDE DEF cut
    <3> QED
      BY <1>1, <2>1, <3>1 DEF Fits, Takes
  <2>2. CASE i # 1
    <3> DEFINE j == i - 1
    <3>1. j \in 1 .. k /\ j + 1 = i /\ j - 1 \in 0 .. k /\ j \in 0 .. k /\ j \in 0 .. n
      BY <1>1, <2>2 DEF k
    <3>2. cut[i] = c[j] + m /\ cut[j] = c[j - 1] + m
      BY <1>1, <3>1
    <3>3. Fits(tail, rest, c, j) /\ tail[j] = pat[i]
      BY <1>2, <1>4, <3>1
    <3>4. c[j] \in 0 .. l - m /\ c[j - 1] \in 0 .. l - m
      BY <1>5, <3>1
    <3>5. i - 1 = j
      OBVIOUS
    <3> HIDE DEF cut, j
    <3>6. CASE pat[i] = <<"*", "*">>
      <4>1. c[j - 1] <= c[j]
        BY <3>3, <3>6 DEF Fits
      <4>2. cut[j] <= cut[i]
        <5>1. m \in Nat /\ c[j] \in Nat /\ c[j - 1] \in Nat
          BY <1>1, <3>4
        <5> QED
          BY ONLY <3>2, <4>1, <5>1
      <4> QED
        BY <3>5, <3>6, <4>2 DEF Fits
    <3>7. CASE pat[i] # <<"*", "*">>
      <4>1. c[j] = c[j - 1] + 1 /\ SegmentMeans[pat[i]][rest[c[j]]]
        BY <3>3, <3>7 DEF Fits
      <4>2. cut[i] = cut[j] + 1 /\ c[j] \in 1 .. Len(rest) /\ c[j] + m = cut[i]
        <5>1. m \in Nat /\ l \in Nat /\ c[j] \in Nat /\ c[j - 1] \in Nat /\ Len(rest) = l - m /\ c[j] <= l - m
          BY <1>1, <1>3, <3>4
        <5>2. c[j] = c[j - 1] + 1 /\ cut[i] = c[j] + m /\ cut[j] = c[j - 1] + m
          BY <3>2, <4>1
        <5> QED
          BY ONLY <5>1, <5>2
      <4>3. rest[c[j]] = name[cut[i]]
        BY <1>3, <4>2
      <4> QED
        BY <3>5, <3>7, <4>1, <4>2, <4>3 DEF Fits
    <3> QED
      BY <3>6, <3>7
  <2> QED
    BY <2>1, <2>2
<1> HIDE DEF cut
<1> QED
  BY <1>1, <1>6, <1>7 DEF GlobMeans, Fits, n, l

\* The empty pattern means the empty name.
LEMMA EmptyMeans ==
    ASSUME NEW name \in Paths
    PROVE  GlobMeans(<<>>, name) <=> name = <<>>
<1>1. Len(<<>>) = 0 /\ DOMAIN <<>> = {} /\ Len(name) \in Nat /\ (name = <<>> <=> Len(name) = 0)
  BY EmptySeq, LenProperties DEF Paths
<1>2. ASSUME GlobMeans(<<>>, name) PROVE Len(name) = 0
  <2>1. PICK cut \in [0 .. Len(<<>>) -> 0 .. Len(name)] : cut[0] = 0 /\ cut[Len(<<>>)] = Len(name)
    BY <1>2 DEF GlobMeans
  <2> QED
    BY <1>1, <2>1
<1>3. ASSUME Len(name) = 0 PROVE GlobMeans(<<>>, name)
  <2> DEFINE cut == [i \in 0 .. Len(<<>>) |-> 0]
  <2>1. cut \in [0 .. Len(<<>>) -> 0 .. Len(name)] /\ cut[0] = 0 /\ cut[Len(<<>>)] = Len(name)
    BY <1>1, <1>3
  <2> HIDE DEF cut
  <2> QED
    BY <1>1, <2>1 DEF GlobMeans
<1> QED
  BY <1>1, <1>2, <1>3

\* The equation of MatchGlob.
GlobLoop(f, pat, name) ==
    IF pat = <<>> THEN name = <<>>
    ELSE IF Head(pat) = <<"*", "*">>
    THEN Tail(pat) = <<>> \/ \E i \in 1 .. Len(name) + 1 : f[Tail(pat)][From(name, i)]
    ELSE name # <<>> /\ MatchSegment[Head(pat)][Head(name)] /\ f[Tail(pat)][Tail(name)]

\* The meaning of a pattern satisfies the matcher's equation.
LEMMA GlobStep ==
    ASSUME NEW pat \in Paths, NEW name \in Paths, NEW f,
           \A q, t \in Paths : f[q][t] = GlobMeans(q, t)
    PROVE  GlobMeans(pat, name) <=> GlobLoop(f, pat, name)
<1>1. Len(name) \in Nat /\ (name # <<>> =>
         Len(name) >= 1 /\ Tail(name) = From(name, 2) /\ Head(name) = name[1])
  <2>1. name # <<>> => Tail(name) = From(name, 2)
    BY TailIsFrom DEF Paths
  <2> QED
    BY <2>1, EmptySeq, LenProperties DEF Paths
<1>2. \A i \in 1 .. Len(name) + 1 : From(name, i) \in Paths
  BY FromProps DEF Paths
<1>3. CASE pat = <<>>
  BY <1>3, EmptyMeans DEF GlobLoop
<1>4. CASE pat # <<>>
  <2> DEFINE tail == Tail(pat)
             x == pat[1]
  <2>1. tail \in Paths /\ Head(pat) = x /\ x \in Segments
    BY <1>4, HeadTailProperties DEF Paths
  <2>2. GlobMeans(pat, name) <=>
           \E m \in 0 .. Len(name) : Takes(x, name, m) /\ GlobMeans(tail, From(name, m + 1))
    BY <1>4, CutHead, CutJoin
  <2>3. ASSUME NEW m \in 0 .. Len(name)
        PROVE  m + 1 \in 1 .. Len(name) + 1 /\ GlobMeans(tail, From(name, m + 1)) = f[tail][From(name, m + 1)]
    <3>1. m + 1 \in 1 .. Len(name) + 1
      BY <1>1
    <3>2. From(name, m + 1) \in Paths
      BY <1>2, <3>1
    <3> HIDE DEF tail
    <3> QED
      BY <2>1, <3>1, <3>2
  <2>4. GlobMeans(pat, name) <=> \E m \in 0 .. Len(name) : Takes(x, name, m) /\ f[tail][From(name, m + 1)]
    <3> HIDE DEF tail, x
    <3> QED
      BY <2>2, <2>3
  <2>5. CASE x = <<"*", "*">>
    <3>1. GlobLoop(f, pat, name) <=> tail = <<>> \/ \E i \in 1 .. Len(name) + 1 : f[tail][From(name, i)]
      BY <1>4, <2>1, <2>5 DEF GlobLoop
    <3>2. ASSUME tail = <<>> PROVE \E m \in 0 .. Len(name) : f[tail][From(name, m + 1)]
      <4> DEFINE r == From(name, Len(name) + 1)
      <4>1. r \in Paths /\ Len(r) = Len(name) - (Len(name) + 1) + 1
        <5>1. Len(name) + 1 \in 1 .. Len(name) + 1
          BY <1>1
        <5> QED
          BY <5>1, FromProps DEF Paths
      <4>2. r = <<>>
        <5> HIDE DEF r
        <5>1. Len(r) = 0
          BY <1>1, <4>1
        <5> QED
          BY <4>1, <5>1, EmptySeq DEF Paths
      <4>3. GlobMeans(tail, r)
        BY <3>2, <4>1, <4>2, EmptyMeans
      <4>4. Len(name) \in 0 .. Len(name)
        BY <1>1
      <4> QED
        BY <2>3, <4>3, <4>4
    <3>3. (\E m \in 0 .. Len(name) : f[tail][From(name, m + 1)])
          <=> \E i \in 1 .. Len(name) + 1 : f[tail][From(name, i)]
      <4>1. ASSUME NEW m \in 0 .. Len(name) PROVE m + 1 \in 1 .. Len(name) + 1
        BY <1>1
      <4>2. ASSUME NEW i \in 1 .. Len(name) + 1 PROVE i - 1 \in 0 .. Len(name) /\ (i - 1) + 1 = i
        BY <1>1
      <4> HIDE DEF tail
      <4> QED
        BY <4>1, <4>2
    <3> HIDE DEF tail
    <3> QED
      BY <2>4, <2>5, <3>1, <3>2, <3>3 DEF Takes
  <2>6. CASE x # <<"*", "*">>
    <3>1. GlobLoop(f, pat, name) <=> name # <<>> /\ MatchSegment[x][Head(name)] /\ f[tail][Tail(name)]
      BY <1>4, <2>1, <2>6 DEF GlobLoop
    <3>2. name # <<>> => MatchSegment[x][Head(name)] = SegmentMeans[x][name[1]]
      <4>1. name # <<>> => Head(name) \in Segments
        BY HeadTailProperties DEF Paths
      <4> QED
        BY <1>1, <2>1, <4>1, MatchSegmentIs
    <3>3. name # <<>> <=> 1 \in 0 .. Len(name)
      BY <1>1, EmptySeq DEF Paths
    <3>4. name # <<>> => f[tail][From(name, 1 + 1)] = f[tail][Tail(name)]
      <4>1. 1 + 1 = 2
        OBVIOUS
      <4>2. name # <<>> => From(name, 1 + 1) = Tail(name)
        BY <1>1, <4>1
      <4> HIDE DEF tail
      <4> QED
        BY <4>2
    <3> HIDE DEF tail, x
    <3>5. GlobMeans(pat, name) <=>
             1 \in 0 .. Len(name) /\ SegmentMeans[x][name[1]] /\ f[tail][From(name, 1 + 1)]
      BY <2>4, <2>6 DEF Takes
    <3> QED
      BY <3>1, <3>2, <3>3, <3>4, <3>5
  <2> QED
    BY <2>5, <2>6
<1> QED
  BY <1>3, <1>4

\* The matcher finds what a pattern means.
LEMMA MatchGlobIs == \A pat, name \in Paths : MatchGlob[pat][name] = GlobMeans(pat, name)
<1> DEFINE W == [pat \in Paths |-> [name \in Paths |-> GlobMeans(pat, name)]]
<1>1. \A pat, name \in Paths : W[pat][name] = GlobMeans(pat, name)
  OBVIOUS
<1>2. \A f, pat, name : GlobMeans(pat, name) \in BOOLEAN /\ GlobLoop(f, pat, name) \in BOOLEAN
  BY DEF GlobMeans, GlobLoop
<1>3. W = [pat \in Paths |-> [name \in Paths |-> GlobLoop(W, pat, name)]]
  <2>1. ASSUME NEW pat \in Paths, NEW name \in Paths PROVE GlobMeans(pat, name) = GlobLoop(W, pat, name)
    <3> HIDE DEF W
    <3>1. GlobMeans(pat, name) <=> GlobLoop(W, pat, name)
      BY <1>1, GlobStep
    <3> QED
      BY <1>2, <3>1
  <2> QED
    BY <2>1
<1> HIDE DEF W
<1>4. MatchGlob = [pat \in Paths |-> [name \in Paths |-> GlobLoop(MatchGlob, pat, name)]]
  BY Zenon, <1>3 DEF MatchGlob, GlobLoop, Paths
<1> DEFINE T == {pat \in Paths : \A name \in Paths : MatchGlob[pat][name] = W[pat][name]}
<1>5. ASSUME NEW pat \in Paths, \A q \in Paths : Len(q) < Len(pat) => q \in T
      PROVE  pat \in T
  <2>1. ASSUME NEW name \in Paths PROVE MatchGlob[pat][name] = W[pat][name]
    <3>1. MatchGlob[pat][name] = GlobLoop(MatchGlob, pat, name) /\ W[pat][name] = GlobLoop(W, pat, name)
      BY <1>3, <1>4
    <3>2. pat # <<>> => Tail(pat) \in Paths /\ Len(Tail(pat)) < Len(pat)
      BY HeadTailProperties, LenProperties DEF Paths
    <3>3. pat # <<>> => \A t \in Paths : MatchGlob[Tail(pat)][t] = W[Tail(pat)][t]
      BY <1>5, <3>2
    <3>4. /\ \A i \in 1 .. Len(name) + 1 : From(name, i) \in Paths
          /\ name # <<>> => Tail(name) \in Paths
      BY FromProps, HeadTailProperties DEF Paths
    <3>5. pat # <<>> => (\E i \in 1 .. Len(name) + 1 : MatchGlob[Tail(pat)][From(name, i)])
                        = \E i \in 1 .. Len(name) + 1 : W[Tail(pat)][From(name, i)]
      BY <3>3, <3>4
    <3>6. GlobLoop(MatchGlob, pat, name) = GlobLoop(W, pat, name)
      BY <3>3, <3>4, <3>5 DEF GlobLoop
    <3> QED
      BY <3>1, <3>6
  <2> QED
    BY <2>1
<1>6. T \in SUBSET Paths
  OBVIOUS
<1> HIDE DEF T
<1>7. T = Paths
  BY <1>5, <1>6, ShorterFirst DEF Paths
<1> QED
  BY <1>1, <1>7 DEF T

\* The matcher finds a match exactly when there is one, for patterns and names of
\* any length over any alphabet.
THEOREM MatcherMeans == Spec => []GlobMeaning
<1>1. WalkInv => GlobMeaning
  <2> SUFFICES ASSUME WalkInv, NEW pat \in cfg.include, NEW name \in Probes
               PROVE  MatchGlob[pat][name] = GlobMeans(pat, name)
    BY DEF GlobMeaning
  <2>1. cfg \in Settings
    BY DEF WalkInv, WalkTyped, InputsOK
  <2>2. pat \in Paths /\ name \in Paths
    BY <2>1, SettingsAssumption
  <2> QED
    BY <2>2, MatchGlobIs
<1> QED
  BY <1>1, WalkInvariance, PTL
=============================================================================
