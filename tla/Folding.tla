------------------------------ MODULE Folding ------------------------------
(***************************************************************************)
(* Induction over data for the other proofs.  The library states its       *)
(* induction theorems with an operator parameter; here the property proved *)
(* is a set, the set of the things that have it, so that the theorems can  *)
(* be cited like any other fact.  They follow from the existence of        *)
(* minimal elements in well-founded sets (WFMin).  What follows are the    *)
(* facts about sums, sequences, places and folds that the proofs about the *)
(* components need.  The last part is about the folds of one operator: an  *)
(* instance of this module has those facts for the operator it names.      *)
(***************************************************************************)
EXTENDS Integers, Sequences, FiniteSets, FiniteSetsExt, SequencesExt, Functions, Folds,
        FiniteSetTheorems, SequenceTheorems, WellFoundedInduction, TLAPS

CONSTANT Op(_, _)

(* A set that has 0 and the successor of each of its numbers has all.       *)
LEMMA InductionOnNat ==
    ASSUME NEW G, 0 \in G, \A n \in Nat : n \in G => n + 1 \in G
    PROVE  Nat \subseteq G
<1> DEFINE R == OpToRel(<, Nat)
           T == Nat \ G
<1>1. SUFFICES ASSUME T # {} PROVE FALSE
  OBVIOUS
<1>2. IsWellFoundedOn(R, Nat)
  BY NatLessThanWellFounded
<1>3. PICK x \in T : \A y \in T : ~ (<<y, x>> \in R)
  <2>1. T \subseteq Nat
    OBVIOUS
  <2> HIDE DEF R, T
  <2> QED BY <1>1, <1>2, <2>1, WFMin
<1>4. x # 0 /\ x - 1 \in Nat /\ x - 1 \notin G
  OBVIOUS
<1>5. << x - 1, x >> \in R
  BY <1>4 DEF OpToRel
<1> QED BY <1>3, <1>4, <1>5

(* Induction on the subsets of a finite set, one element less at a time.    *)
Pick(T) == CHOOSE x \in T : TRUE

LEMMA InductionOnSubsets ==
    ASSUME NEW S, IsFiniteSet(S), NEW G, {} \in G,
           \A T \in SUBSET S : T # {} /\ T \ {Pick(T)} \in G => T \in G
    PROVE  \A T \in SUBSET S : T \in G
<1> DEFINE R == StrictSubsetOrdering(S)
           F == FiniteSubsetsOf(S)
           B == (SUBSET S) \ G
<1>1. SUFFICES ASSUME B # {} PROVE FALSE
  OBVIOUS
<1>2. IsWellFoundedOn(R, F) /\ F = SUBSET S
  BY FS_StrictSubsetOrderingWellFounded, FS_FiniteSubsetsOfFinite
<1>3. PICK T \in B : \A U \in B : ~ (<< U, T >> \in R)
  <2>1. B \subseteq F
    BY <1>2
  <2> HIDE DEF R, F, B
  <2> QED BY <1>1, <1>2, <2>1, WFMin
<1>4. T # {} /\ Pick(T) \in T
  <2>1. T # {}
    BY <1>3
  <2> QED BY <2>1 DEF Pick
<1>5. T \ {Pick(T)} \in B
  BY <1>3, <1>4
<1>6. << T \ {Pick(T)}, T >> \in R
  BY <1>4, <1>3 DEF StrictSubsetOrdering
<1> QED BY <1>3, <1>5, <1>6

-----------------------------------------------------------------------------
(* Sums.                                                                    *)

(* it sums f over every subset of S.                                        *)
Sums(f, S, it) ==
    it = [T \in SUBSET S |-> IF T = {} THEN 0
                             ELSE f[CHOOSE x \in T : TRUE] + it[T \ {CHOOSE x \in T : TRUE}]]

LEMMA SumsExist ==
    ASSUME NEW S, IsFiniteSet(S), NEW f \in [S -> Int]
    PROVE  \E it : Sums(f, S, it)
<1> DEFINE Right(it, T) == it[T] = IF T = {} THEN 0 ELSE f[Pick(T)] + it[T \ {Pick(T)}]
           G == { n \in Nat : \E it \in [SUBSET S -> Int] :
                                 \A T \in SUBSET S : Cardinality(T) <= n => Right(it, T) }
<1>0. \A T \in SUBSET S : /\ IsFiniteSet(T) /\ Cardinality(T) \in Nat
                          /\ Cardinality(T) = 0 <=> T = {}
                          /\ T # {} => /\ Pick(T) \in T
                                       /\ Cardinality(T \ {Pick(T)}) = Cardinality(T) - 1
  BY FS_Subset, FS_CardinalityType, FS_EmptySet, FS_RemoveElement DEF Pick
<1>1. 0 \in G
  <2> DEFINE it == [T \in SUBSET S |-> 0]
  <2>1. it \in [SUBSET S -> Int]
    OBVIOUS
  <2>2. ASSUME NEW T \in SUBSET S, Cardinality(T) <= 0 PROVE Right(it, T)
    <3>1. Cardinality(T) \in Nat /\ (Cardinality(T) = 0 <=> T = {})
      BY <1>0
    <3>2. T = {}
      BY <3>1, <2>2
    <3> QED BY <3>2
  <2> QED BY <2>1, <2>2
<1>2. ASSUME NEW n \in Nat, n \in G PROVE n + 1 \in G
  <2>1. PICK it \in [SUBSET S -> Int] : \A T \in SUBSET S : Cardinality(T) <= n => Right(it, T)
    BY <1>2
  <2> DEFINE jt == [T \in SUBSET S |-> IF Cardinality(T) = n + 1
                                       THEN f[Pick(T)] + it[T \ {Pick(T)}] ELSE it[T]]
  <2>2. jt \in [SUBSET S -> Int]
    <3> SUFFICES ASSUME NEW T \in SUBSET S, Cardinality(T) = n + 1
                 PROVE  f[Pick(T)] + it[T \ {Pick(T)}] \in Int
      OBVIOUS
    <3>1. T # {} /\ Pick(T) \in S /\ T \ {Pick(T)} \in SUBSET S
      BY <1>0
    <3>2. f[Pick(T)] \in Int /\ it[T \ {Pick(T)}] \in Int
      BY <3>1
    <3> QED BY <3>2
  <2>3. ASSUME NEW T \in SUBSET S, Cardinality(T) <= n + 1 PROVE Right(jt, T)
    <3>1. CASE T = {}
      BY <3>1, <1>0, <2>1
    <3>2. CASE T # {}
      <4> DEFINE U == T \ {Pick(T)}
      <4>1. U \in SUBSET S /\ Cardinality(U) = Cardinality(T) - 1
        BY <3>2, <1>0
      <4>2. jt[U] = it[U]
        <5>1. Cardinality(U) # n + 1
          BY <4>1, <2>3, <1>0
        <5> HIDE DEF U
        <5> QED BY <5>1, <4>1
      <4>3. CASE Cardinality(T) = n + 1
        BY <4>2, <4>3, <3>2
      <4>4. CASE Cardinality(T) <= n
        <5>1. jt[T] = it[T]
          BY <4>4, <1>0
        <5> QED BY <5>1, <4>2, <4>4, <2>1, <3>2
      <4>5. Cardinality(T) = n + 1 \/ Cardinality(T) <= n
        <5>1. Cardinality(T) \in Nat
          BY <1>0
        <5> QED BY <5>1, <2>3
      <4> HIDE DEF jt, Right, U
      <4> QED BY <4>3, <4>4, <4>5
    <3> QED BY <3>1, <3>2
  <2>4. n + 1 \in Nat
    OBVIOUS
  <2> HIDE DEF jt, Right
  <2> QED BY <2>2, <2>3, <2>4
<1>3. Cardinality(S) \in G
  <2> HIDE DEF G
  <2> QED BY <1>1, <1>2, <1>0, InductionOnNat
<1>4. PICK it \in [SUBSET S -> Int] : \A T \in SUBSET S : Cardinality(T) <= Cardinality(S) => Right(it, T)
  BY <1>3
<1>5. \A T \in SUBSET S : Right(it, T)
  BY <1>4, FS_Subset
<1>6. Sums(f, S, it)
  BY <1>5, <1>4 DEF Sums, Pick
<1> QED BY <1>6

(* The sum over a finite set goes through its subsets, one element less at  *)
(* a time.                                                                  *)
Partial(f, S, it) ==
    /\ it \in [SUBSET S -> Int]
    /\ SumFunctionOnSet(f, S) = it[S]
    /\ it[{}] = 0
    /\ \A T \in SUBSET S : T # {} => it[T] = f[Pick(T)] + it[T \ {Pick(T)}]

LEMMA SumUnfolds ==
    ASSUME NEW S, IsFiniteSet(S), NEW f \in [S -> Int]
    PROVE  \E it : Partial(f, S, it)
<1> DEFINE it == CHOOSE jt : Sums(f, S, jt)
<1>1. SumFunctionOnSet(f, S) = (CHOOSE jt : jt = [T \in SUBSET S |->
              IF T = {} THEN 0 ELSE f[CHOOSE x \in T : TRUE] + jt[T \ {CHOOSE x \in T : TRUE}]])[S]
  BY DEF SumFunctionOnSet, FoldFunctionOnSet, MapThenFoldSet
<1>2. SumFunctionOnSet(f, S) = it[S]
  BY <1>1 DEF Sums
<1>3. Sums(f, S, it)
  BY SumsExist
<1> HIDE DEF it
<1>4. /\ it[{}] = 0
      /\ \A T \in SUBSET S : T # {} => it[T] = f[Pick(T)] + it[T \ {Pick(T)}]
      /\ DOMAIN it = SUBSET S
  BY <1>3 DEF Sums, Pick
<1> DEFINE G == { T \in SUBSET S : it[T] \in Int }
<1>5. {} \in G
  BY <1>4
<1>6. ASSUME NEW T \in SUBSET S, T # {}, T \ {Pick(T)} \in G PROVE T \in G
  <2>1. f[Pick(T)] \in Int
    BY <1>6 DEF Pick
  <2> QED BY <2>1, <1>4, <1>6
<1>7. \A T \in SUBSET S : T \in G
  <2> HIDE DEF G
  <2> QED BY <1>5, <1>6, InductionOnSubsets
<1>8. it \in [SUBSET S -> Int]
  <2>1. it = [T \in SUBSET S |-> it[T]]
    BY <1>3 DEF Sums
  <2> QED BY <1>7, <2>1
<1> QED BY <1>2, <1>4, <1>8 DEF Partial

(* A sum of natural numbers is one.                                         *)
LEMMA SumOfNats ==
    ASSUME NEW S, IsFiniteSet(S), NEW f \in [S -> Nat]
    PROVE  SumFunctionOnSet(f, S) \in Nat
<1>1. f \in [S -> Int]
  OBVIOUS
<1>2. PICK it : Partial(f, S, it)
  BY <1>1, SumUnfolds
<1> USE <1>2 DEF Partial
<1> DEFINE G == { T \in SUBSET S : it[T] \in Nat }
<1>3. {} \in G
  BY <1>2
<1>4. ASSUME NEW T \in SUBSET S, T # {}, T \ {Pick(T)} \in G PROVE T \in G
  <2>1. f[Pick(T)] \in Nat
    BY <1>4 DEF Pick
  <2> QED BY <2>1, <1>2, <1>4
<1>5. \A T \in SUBSET S : T \in G
  <2> HIDE DEF G
  <2> QED BY <1>3, <1>4, InductionOnSubsets
<1> QED BY <1>5, <1>2

(* If f + g <= h everywhere, so it is for their sums.                       *)
LEMMA SumsCompare ==
    ASSUME NEW S, IsFiniteSet(S), NEW f \in [S -> Int], NEW g \in [S -> Int],
           NEW h \in [S -> Int], \A x \in S : f[x] + g[x] <= h[x]
    PROVE  SumFunctionOnSet(f, S) + SumFunctionOnSet(g, S) <= SumFunctionOnSet(h, S)
<1>1. PICK a : Partial(f, S, a)
  BY SumUnfolds
<1>2. PICK b : Partial(g, S, b)
  BY SumUnfolds
<1>3. PICK c : Partial(h, S, c)
  BY SumUnfolds
<1> USE <1>1, <1>2, <1>3 DEF Partial
<1> DEFINE G == { T \in SUBSET S : a[T] + b[T] <= c[T] }
<1>4. {} \in G
  BY <1>1, <1>2, <1>3
<1>5. ASSUME NEW T \in SUBSET S, T # {}, T \ {Pick(T)} \in G PROVE T \in G
  <2> DEFINE x == Pick(T)
             U == T \ {x}
  <2>1. x \in S /\ U \in SUBSET S
    BY <1>5 DEF Pick
  <2>2. /\ f[x] \in Int /\ g[x] \in Int /\ h[x] \in Int /\ f[x] + g[x] <= h[x]
        /\ a[U] \in Int /\ b[U] \in Int /\ c[U] \in Int
    BY <2>1
  <2>3. a[U] + b[U] <= c[U]
    BY <1>5
  <2>4. a[T] = f[x] + a[U] /\ b[T] = g[x] + b[U] /\ c[T] = h[x] + c[U]
    BY <1>5, <1>1, <1>2, <1>3
  <2> HIDE DEF x, U
  <2> QED BY <2>2, <2>3, <2>4
<1>6. \A T \in SUBSET S : T \in G
  <2> HIDE DEF G
  <2> QED BY <1>4, <1>5, InductionOnSubsets
<1> QED BY <1>6, <1>1, <1>2, <1>3

(* The members of a union are at most as many as those of its parts.        *)
LEMMA UnionCounted ==
    ASSUME NEW P, IsFiniteSet(P), NEW part, \A p \in P : IsFiniteSet(part[p]),
           NEW f \in [P -> Int], \A p \in P : Cardinality(part[p]) <= f[p]
    PROVE  /\ IsFiniteSet(UNION { part[p] : p \in P })
           /\ Cardinality(UNION { part[p] : p \in P }) <= SumFunctionOnSet(f, P)
<1>1. PICK it : Partial(f, P, it)
  BY SumUnfolds
<1> USE <1>1 DEF Partial
<1> DEFINE All(T) == UNION { part[p] : p \in T }
           G == { T \in SUBSET P : IsFiniteSet(All(T)) /\ Cardinality(All(T)) <= it[T] }
<1>2. {} \in G
  <2>1. All({}) = {}
    OBVIOUS
  <2>2. IsFiniteSet({}) /\ Cardinality({}) = 0
    BY FS_EmptySet
  <2>3. {} \in SUBSET P
    OBVIOUS
  <2>4. it[{}] = 0
    OBVIOUS
  <2>5. IsFiniteSet(All({})) /\ Cardinality(All({})) <= it[{}]
    <3> HIDE DEF All
    <3>1. 0 <= 0
      OBVIOUS
    <3> QED BY <2>1, <2>2, <2>4, <3>1
  <2> HIDE DEF All
  <2> QED BY <2>3, <2>5
<1>3. ASSUME NEW T \in SUBSET P, T # {}, T \ {Pick(T)} \in G PROVE T \in G
  <2> DEFINE x == Pick(T)
             U == T \ {x}
  <2>1. x \in T
    BY <1>3 DEF Pick
  <2>2. All(T) = part[x] \cup All(U)
    BY <2>1
  <2>3. IsFiniteSet(part[x]) /\ IsFiniteSet(All(U))
    BY <2>1, <1>3
  <2>4. /\ IsFiniteSet(part[x] \cup All(U))
        /\ Cardinality(part[x] \cup All(U))
             = Cardinality(part[x]) + Cardinality(All(U)) - Cardinality(part[x] \cap All(U))
    <3> HIDE DEF All, x
    <3> QED BY <2>3, FS_Union
  <2>5. /\ Cardinality(part[x]) \in Nat /\ Cardinality(All(U)) \in Nat
        /\ Cardinality(part[x] \cap All(U)) \in Nat
    <3> HIDE DEF All, x
    <3> QED BY <2>3, FS_CardinalityType, FS_Intersection
  <2>6. it[T] = f[x] + it[U] /\ f[x] \in Int /\ it[U] \in Int
    BY <1>3, <1>1, <2>1
  <2>7. Cardinality(part[x]) <= f[x] /\ Cardinality(All(U)) <= it[U]
    BY <1>3, <2>1
  <2>8. Cardinality(All(T)) <= it[T]
    <3>1. Cardinality(All(T)) = Cardinality(part[x] \cup All(U))
      BY <2>2
    <3> HIDE DEF All, x, U
    <3> QED BY <3>1, <2>4, <2>5, <2>6, <2>7
  <2> QED BY <2>8, <2>2, <2>4
<1>4. \A T \in SUBSET P : T \in G
  <2> HIDE DEF G
  <2> QED BY <1>2, <1>3, InductionOnSubsets
<1> QED BY <1>4, <1>1

-----------------------------------------------------------------------------
(* Sequences.                                                                 *)

\* s is a sequence, whatever its elements are.
IsSeq(s) == s \in Seq({ s[n] : n \in DOMAIN s })

(* A sequence is one over every set that has its elements.                  *)
LEMMA SeqWithin ==
    ASSUME NEW s, IsSeq(s), NEW S, \A n \in DOMAIN s : s[n] \in S
    PROVE  s \in Seq(S)
<1>1. \A n \in 1 .. Len(s) : s[n] \in S
  BY DEF IsSeq
<1>2. Len(s) \in Nat /\ s = [n \in 1 .. Len(s) |-> s[n]]
  BY DEF IsSeq
<1> QED BY <1>1, <1>2

\* What appending does.
LEMMA Appended ==
    ASSUME NEW s, IsSeq(s), NEW e
    PROVE  /\ IsSeq(Append(s, e))
           /\ Len(s) \in Nat /\ Len(Append(s, e)) = Len(s) + 1
           /\ DOMAIN s = 1 .. Len(s) /\ DOMAIN Append(s, e) = 1 .. Len(s) + 1
           /\ \A n \in DOMAIN s : Append(s, e)[n] = s[n]
           /\ Append(s, e)[Len(s) + 1] = e
<1> DEFINE S == { s[n] : n \in DOMAIN s }
           T == S \cup {e}
           t == Append(s, e)
<1>1. s \in Seq(T)
  BY DEF IsSeq
<1>2. /\ Len(s) \in Nat /\ Len(t) = Len(s) + 1 /\ t \in Seq(T)
      /\ \A n \in 1 .. Len(s) : t[n] = s[n]
      /\ t[Len(s) + 1] = e
  BY <1>1, AppendProperties
<1>3. DOMAIN s = 1 .. Len(s) /\ DOMAIN t = 1 .. Len(s) + 1
  BY <1>1, <1>2, LenProperties
<1>4. t \in Seq({ t[n] : n \in DOMAIN t })
  <2> DEFINE U == { t[n] : n \in DOMAIN t }
  <2>1. T \subseteq U
    BY <1>2, <1>3
  <2>2. QED
    BY <1>2, <2>1, SeqMonotonic
<1>5. QED
  BY <1>2, <1>3, <1>4 DEF IsSeq

-----------------------------------------------------------------------------
(* Places.                                                                    *)

\* The least place of a set is one of it.
LEMMA MinIn ==
    ASSUME NEW I \in SUBSET Nat, I # {}
    PROVE  Min(I) \in I
<1> DEFINE G == { m \in Nat : \A n \in 0 .. m : n \in I => \E x \in I : \A y \in I : x <= y }
<1>1. 0 \in G
  OBVIOUS
<1>2. ASSUME NEW m \in Nat, m \in G PROVE m + 1 \in G
  <2> SUFFICES ASSUME m + 1 \in I, \A n \in 0 .. m : n \notin I
               PROVE  \E x \in I : \A y \in I : x <= y
    BY <1>2
  <2>1. \A y \in I : m + 1 <= y
    OBVIOUS
  <2> QED BY <2>1
<1>3. Nat \subseteq G
  <2> HIDE DEF G
  <2> QED BY <1>1, <1>2, InductionOnNat
<1>4. PICK n \in I : TRUE
  OBVIOUS
<1>5. n \in G /\ n \in 0 .. n
  BY <1>3
<1>6. \E x \in I : \A y \in I : x <= y
  BY <1>4, <1>5
<1> QED BY <1>6 DEF Min

\* The only place is the one found.
LEMMA MinOfOne == ASSUME NEW n \in Nat PROVE Min({n}) = n
<1>1. Min({n}) \in {n}
  BY MinIn
<1> QED BY <1>1

\* A sequence without the element at place k.
LEMMA RemovedAt ==
    ASSUME NEW S, NEW s \in Seq(S), NEW k \in 1 .. Len(s)
    PROVE  LET t == RemoveAt(s, k)
           IN  /\ t \in Seq(S) /\ Len(t) = Len(s) - 1 /\ DOMAIN t = 1 .. Len(s) - 1
               /\ \A n \in 1 .. Len(s) - 1 : t[n] = IF n < k THEN s[n] ELSE s[n + 1]
<1> DEFINE t == RemoveAt(s, k)
           a == SubSeq(s, 1, k - 1)
           b == SubSeq(s, k + 1, Len(s))
<1>0. Len(s) \in Nat /\ k \in Nat /\ k >= 1 /\ k <= Len(s)
  OBVIOUS
<1>1. a \in Seq(S) /\ Len(a) = k - 1 /\ \A n \in 1 .. k - 1 : a[n] = s[n]
  BY <1>0, SubSeqProperties
<1>2. b \in Seq(S) /\ Len(b) = Len(s) - k /\ \A n \in 1 .. Len(s) - k : b[n] = s[k + n]
  BY <1>0, SubSeqProperties
<1>3. t = a \o b
  BY DEF RemoveAt
<1> HIDE DEF t, a, b
<1>4. /\ t \in Seq(S) /\ Len(t) = Len(a) + Len(b)
      /\ \A n \in 1 .. Len(a) + Len(b) : t[n] = IF n <= Len(a) THEN a[n] ELSE b[n - Len(a)]
  BY <1>1, <1>2, <1>3, ConcatProperties
<1>5. Len(t) = Len(s) - 1 /\ Len(a) + Len(b) = Len(s) - 1
  BY <1>0, <1>1, <1>2, <1>4
<1>6. t \in Seq(S) /\ DOMAIN t = 1 .. Len(s) - 1
  BY <1>4, <1>5, LenProperties
<1>7. ASSUME NEW n \in 1 .. Len(s) - 1 PROVE t[n] = IF n < k THEN s[n] ELSE s[n + 1]
  <2>0. n \in Nat /\ n >= 1 /\ n <= Len(s) - 1 /\ n \in 1 .. Len(a) + Len(b)
    BY <1>0, <1>5
  <2>1. CASE n < k
    <3>1. n \in 1 .. k - 1 /\ n <= Len(a)
      BY <2>0, <2>1, <1>0, <1>1
    <3> QED BY <3>1, <2>0, <2>1, <1>1, <1>4
  <2>2. CASE n >= k
    <3>1. /\ n - Len(a) \in 1 .. Len(s) - k /\ k + (n - Len(a)) = n + 1
          /\ ~ (n <= Len(a)) /\ ~ (n < k)
      BY <2>2, <2>0, <1>0, <1>1
    <3>2. t[n] = b[n - Len(a)]
      BY <3>1, <2>0, <1>4
    <3>3. b[n - Len(a)] = s[k + (n - Len(a))]
      BY <3>1, <1>2
    <3> QED BY <3>1, <3>2, <3>3
  <2> QED BY <2>0, <2>1, <2>2, <1>0
<1> QED BY <1>5, <1>6, <1>7 DEF t

\* What is left of a sequence without repetitions when its first x is taken out.
LEMMA FirstRemoved ==
    ASSUME NEW s, IsSeq(s), NEW x \in ToSet(s), \A m, n \in DOMAIN s : s[m] = s[n] => m = n
    PROVE  LET t == RemoveFirst(s, x)
           IN  /\ IsSeq(t) /\ ToSet(t) = ToSet(s) \ {x} /\ Len(t) = Len(s) - 1
               /\ \A m, n \in DOMAIN t : t[m] = t[n] => m = n
<1> DEFINE S == { s[n] : n \in DOMAIN s }
           t == RemoveFirst(s, x)
           I == { i \in 1 .. Len(s) : s[i] = x }
           k == Min(I)
<1>1. s \in Seq(S) /\ DOMAIN s = 1 .. Len(s) /\ Len(s) \in Nat
  BY DEF IsSeq
<1>2. I # {} /\ I \subseteq Nat /\ \E i \in 1 .. Len(s) : s[i] = x
  BY <1>1 DEF ToSet
<1>3. k \in 1 .. Len(s) /\ s[k] = x
  <2>1. k \in I
    BY <1>2, MinIn
  <2> QED BY <2>1
<1>4. t = RemoveAt(s, k)
  BY <1>2 DEF RemoveFirst, SelectInSeq
<1> HIDE DEF k, I
<1>5. s \in Seq(S)
  BY <1>1
<1> HIDE DEF t, S
<1>6. /\ t \in Seq(S) /\ Len(t) = Len(s) - 1 /\ DOMAIN t = 1 .. Len(s) - 1
      /\ \A n \in 1 .. Len(s) - 1 : t[n] = IF n < k THEN s[n] ELSE s[n + 1]
  BY <1>3, <1>4, <1>5, RemovedAt
<1>7. ASSUME NEW m \in DOMAIN t, NEW n \in DOMAIN t, t[m] = t[n] PROVE m = n
  <2> DEFINE Old(i) == IF i < k THEN i ELSE i + 1
  <2>1. \A i \in 1 .. Len(s) - 1 : Old(i) \in DOMAIN s /\ t[i] = s[Old(i)]
    BY <1>1, <1>3, <1>6
  <2>2. \A i, j \in 1 .. Len(s) - 1 : Old(i) = Old(j) => i = j
    BY <1>1, <1>3
  <2> HIDE DEF Old
  <2> QED BY <1>6, <1>7, <2>1, <2>2
<1>8. ToSet(t) = ToSet(s) \ {x}
  <2>1. ASSUME NEW y \in ToSet(t) PROVE y \in ToSet(s) /\ y # x
    <3>1. PICK n \in 1 .. Len(s) - 1 : y = t[n]
      BY <1>6 DEF ToSet
    <3>2. \E j \in 1 .. Len(s) : t[n] = s[j] /\ j # k
      <4>1. CASE n < k
        BY <4>1, <1>1, <1>3, <1>6
      <4>2. CASE ~ (n < k)
        <5>1. n + 1 \in 1 .. Len(s) /\ n + 1 # k
          BY <4>2, <1>1, <1>3
        <5> QED BY <5>1, <4>2, <1>6
      <4> QED BY <4>1, <4>2
    <3> QED BY <3>1, <3>2, <1>1, <1>3 DEF ToSet
  <2>2. ASSUME NEW y \in ToSet(s), y # x PROVE y \in ToSet(t)
    <3>1. PICK n \in 1 .. Len(s) : y = s[n] /\ n # k
      BY <2>2, <1>1, <1>3 DEF ToSet
    <3>2. CASE n < k
      <4>1. n \in 1 .. Len(s) - 1
        BY <3>2, <1>1, <1>3
      <4>2. t[n] = s[n]
        BY <4>1, <3>2, <1>6
      <4> QED BY <3>1, <4>1, <4>2, <1>6 DEF ToSet
    <3>3. CASE n > k
      <4>1. n - 1 \in 1 .. Len(s) - 1 /\ (n - 1) + 1 = n /\ ~ (n - 1 < k)
        BY <3>3, <1>1, <1>3
      <4>2. t[n - 1] = s[n]
        BY <4>1, <1>6
      <4> QED BY <3>1, <4>1, <4>2, <1>6 DEF ToSet
    <3>4. n < k \/ n > k
      BY <3>1, <1>1, <1>3
    <3> QED BY <3>2, <3>3, <3>4
  <2> QED BY <2>1, <2>2
<1>9. IsSeq(t)
  <2>1. \A n \in 1 .. Len(t) : t[n] \in { t[i] : i \in DOMAIN t }
    BY <1>6
  <2> QED BY <2>1, <1>6 DEF IsSeq
<1> QED BY <1>6, <1>7, <1>8, <1>9 DEF t

-----------------------------------------------------------------------------
(* Folds.                                                                     *)

Fold(base, s) == FoldLeft(Op, base, s)

(* Numbers up to a bound have a largest one.                                *)
LEMMA MaxIn ==
    ASSUME NEW n \in Nat, NEW T \in SUBSET (1 .. n), T # {}
    PROVE  Max(T) \in T /\ \A x \in T : Max(T) >= x
<1> DEFINE G == { m \in Nat : \A U \in SUBSET (1 .. m) :
                                U # {} => \E x \in U : \A y \in U : x >= y }
<1>1. 0 \in G
  <2>1. 1 .. 0 = {}
    OBVIOUS
  <2> QED BY <2>1
<1>2. ASSUME NEW m \in Nat, m \in G PROVE m + 1 \in G
  <2> SUFFICES ASSUME NEW U \in SUBSET (1 .. m + 1), U # {}
               PROVE  \E x \in U : \A y \in U : x >= y
    OBVIOUS
  <2>1. CASE m + 1 \in U
    BY <2>1
  <2>2. CASE m + 1 \notin U
    <3>1. U \in SUBSET (1 .. m)
      BY <2>2
    <3> QED BY <1>2, <3>1
  <2> QED BY <2>1, <2>2
<1>3. n \in G
  <2> HIDE DEF G
  <2> QED BY <1>1, <1>2, InductionOnNat
<1>4. \E x \in T : \A y \in T : x >= y
  BY <1>3
<1> QED BY <1>4 DEF Max

(* it folds every subset of the places of s, the largest place last.        *)
Folds(base, s, it) ==
    it = [T \in SUBSET DOMAIN s |-> IF T = {} THEN base
                                    ELSE Op(it[T \ {Max(T)}], s[Max(T)])]

LEMMA FoldsExist ==
    ASSUME NEW S, NEW s \in Seq(S), NEW base
    PROVE  \E it : Folds(base, s, it)
<1> DEFINE D == DOMAIN s
           Right(it, T) == it[T] = IF T = {} THEN base ELSE Op(it[T \ {Max(T)}], s[Max(T)])
           All(it) == it = [T \in SUBSET D |-> it[T]]
           G == { n \in Nat : \E it : All(it) /\ \A T \in SUBSET D : Cardinality(T) <= n => Right(it, T) }
<1>0. D = 1 .. Len(s) /\ Len(s) \in Nat /\ IsFiniteSet(D)
  BY FS_Interval
<1>1. \A T \in SUBSET D : /\ IsFiniteSet(T) /\ Cardinality(T) \in Nat
                          /\ Cardinality(T) = 0 <=> T = {}
                          /\ T # {} => /\ Max(T) \in T
                                       /\ Cardinality(T \ {Max(T)}) = Cardinality(T) - 1
  BY <1>0, FS_Subset, FS_CardinalityType, FS_EmptySet, FS_RemoveElement, MaxIn
<1> HIDE DEF D
<1>2. 0 \in G
  <2> DEFINE it == [T \in SUBSET D |-> base]
  <2>1. All(it)
    OBVIOUS
  <2>2. ASSUME NEW T \in SUBSET D, Cardinality(T) <= 0 PROVE Right(it, T)
    <3>1. Cardinality(T) \in Nat /\ (Cardinality(T) = 0 <=> T = {})
      BY <1>1
    <3>2. T = {}
      BY <3>1, <2>2
    <3> QED BY <3>2
  <2> QED BY <2>1, <2>2
<1>3. ASSUME NEW n \in Nat, n \in G PROVE n + 1 \in G
  <2>1. PICK it : All(it) /\ \A T \in SUBSET D : Cardinality(T) <= n => Right(it, T)
    BY <1>3
  <2> DEFINE jt == [T \in SUBSET D |-> IF Cardinality(T) = n + 1
                                       THEN Op(it[T \ {Max(T)}], s[Max(T)]) ELSE it[T]]
  <2>2. All(jt)
    OBVIOUS
  <2>3. ASSUME NEW T \in SUBSET D, Cardinality(T) <= n + 1 PROVE Right(jt, T)
    <3>0. Cardinality(T) \in Nat /\ (Cardinality(T) = 0 <=> T = {})
      BY <1>1
    <3>1. CASE T = {}
      <4>1. jt[T] = it[T]
        BY <3>1, <1>1
      <4>2. it[T] = base
        <5>1. Cardinality(T) <= n
          BY <3>0, <3>1
        <5> QED BY <2>1, <3>1, <5>1
      <4> QED BY <4>1, <4>2, <3>1
    <3>2. CASE T # {}
      <4> DEFINE U == T \ {Max(T)}
      <4>1. U \in SUBSET D /\ Cardinality(U) = Cardinality(T) - 1
        BY <3>2, <1>1
      <4>2. jt[U] = it[U]
        <5>1. Cardinality(U) # n + 1
          BY <4>1, <2>3, <1>1
        <5> HIDE DEF U
        <5> QED BY <5>1, <4>1
      <4>3. CASE Cardinality(T) = n + 1
        BY <4>2, <4>3, <3>2
      <4>4. CASE Cardinality(T) <= n
        <5>1. jt[T] = it[T]
          BY <4>4, <1>1
        <5>2. it[T] = Op(it[U], s[Max(T)])
          BY <2>1, <4>4, <3>2
        <5> HIDE DEF jt, U
        <5>3. jt[T] = Op(jt[U], s[Max(T)])
          BY <5>1, <5>2, <4>2
        <5> QED BY <5>3, <3>2 DEF U
      <4>5. Cardinality(T) = n + 1 \/ Cardinality(T) <= n
        BY <2>3, <3>0
      <4> HIDE DEF jt, Right, U
      <4> QED BY <4>3, <4>4, <4>5
    <3> QED BY <3>1, <3>2
  <2>4. n + 1 \in Nat
    OBVIOUS
  <2> HIDE DEF jt, Right, All
  <2> QED BY <2>2, <2>3, <2>4
<1>4. Cardinality(D) \in G
  <2> HIDE DEF G
  <2> QED BY <1>2, <1>3, <1>1, InductionOnNat
<1>5. PICK it : All(it) /\ \A T \in SUBSET D : Cardinality(T) <= Cardinality(D) => Right(it, T)
  BY <1>4
<1>6. \A T \in SUBSET D : Right(it, T)
  BY <1>5, <1>0, FS_Subset
<1>7. Folds(base, s, it)
  BY <1>5, <1>6 DEF Folds, D
<1> QED BY <1>7

(* run[k] is the fold of the first k elements of s.                         *)
Runs(base, s, run) ==
    /\ run[0] = base
    /\ \A k \in 1 .. Len(s) : run[k] = Op(run[k - 1], s[k])
    /\ Fold(base, s) = run[Len(s)]

LEMMA FoldRuns ==
    ASSUME NEW S, NEW s \in Seq(S), NEW base
    PROVE  \E run : Runs(base, s, run)
<1> DEFINE it == CHOOSE jt : Folds(base, s, jt)
<1>1. Fold(base, s) = (CHOOSE jt : jt = [T \in SUBSET DOMAIN s |->
              IF T = {} THEN base ELSE Op(jt[T \ {Max(T)}], s[Max(T)])])[DOMAIN s]
  BY DEF Fold, FoldLeft, MapThenFoldSet
<1>2. Fold(base, s) = it[DOMAIN s]
  BY <1>1 DEF Folds
<1>3. Folds(base, s, it)
  BY FoldsExist
<1> HIDE DEF it
<1>4. \A T \in SUBSET DOMAIN s : it[T] = IF T = {} THEN base ELSE Op(it[T \ {Max(T)}], s[Max(T)])
  BY <1>3 DEF Folds
<1>5. DOMAIN s = 1 .. Len(s) /\ Len(s) \in Nat
  OBVIOUS
<1> DEFINE run == [k \in 0 .. Len(s) |-> it[1 .. k]]
<1>6. run[0] = base
  <2>1. 1 .. 0 = {} /\ {} \in SUBSET DOMAIN s
    OBVIOUS
  <2>2. it[{}] = base
    BY <1>4
  <2> QED BY <1>5, <2>1, <2>2
<1>7. ASSUME NEW k \in 1 .. Len(s) PROVE run[k] = Op(run[k - 1], s[k])
  <2> DEFINE T == 1 .. k
  <2>1. T \in SUBSET DOMAIN s /\ k \in Nat /\ k \in T
    BY <1>5
  <2>2. Max(T) = k
    <3>1. Max(T) \in T /\ \A x \in T : Max(T) >= x
      BY <2>1, MaxIn
    <3> QED BY <2>1, <3>1
  <2>3. T \ {k} = 1 .. (k - 1)
    OBVIOUS
  <2>4. it[T] = Op(it[T \ {Max(T)}], s[Max(T)])
    BY <1>4, <2>1
  <2>5. it[1 .. k] = Op(it[1 .. (k - 1)], s[k])
    BY <2>2, <2>3, <2>4
  <2> QED BY <2>5, <1>5
<1>8. Fold(base, s) = run[Len(s)]
  BY <1>2, <1>5
<1> HIDE DEF run
<1> QED BY <1>6, <1>7, <1>8 DEF Runs

(* Folds of sequences that begin alike go the same way.                     *)
LEMMA RunsAgree ==
    ASSUME NEW base, NEW s, NEW t, NEW r, NEW q, Runs(base, s, r), Runs(base, t, q),
           NEW n \in Nat, Len(s) \in Nat, Len(t) \in Nat, n <= Len(s), n <= Len(t),
           \A k \in 1 .. n : s[k] = t[k]
    PROVE  r[n] = q[n]
<1> DEFINE G == { m \in Nat : m <= n => r[m] = q[m] }
<1>1. 0 \in G
  BY DEF Runs
<1>2. ASSUME NEW m \in Nat, m \in G PROVE m + 1 \in G
  <2> SUFFICES ASSUME m + 1 <= n PROVE r[m + 1] = q[m + 1]
    OBVIOUS
  <2>1. r[m] = q[m] /\ m + 1 \in 1 .. Len(s) /\ m + 1 \in 1 .. Len(t) /\ s[m + 1] = t[m + 1]
    BY <1>2
  <2>2. r[m + 1] = Op(r[(m + 1) - 1], s[m + 1]) /\ q[m + 1] = Op(q[(m + 1) - 1], t[m + 1])
    BY <2>1 DEF Runs
  <2>3. (m + 1) - 1 = m
    OBVIOUS
  <2> QED BY <2>1, <2>2, <2>3
<1>3. n \in G
  <2> HIDE DEF G
  <2> QED BY <1>1, <1>2, InductionOnNat
<1> QED BY <1>3

-----------------------------------------------------------------------------

(* The fold of nothing is its base.                                         *)
THEOREM FoldEmpty == ASSUME NEW base PROVE Fold(base, <<>>) = base
<1>1. <<>> \in Seq({}) /\ Len(<<>>) = 0
  OBVIOUS
<1>2. PICK run : Runs(base, <<>>, run)
  BY <1>1, FoldRuns
<1> QED BY <1>1, <1>2 DEF Runs

(* One element more is one step more.                                       *)
THEOREM FoldAppend ==
    ASSUME NEW S, NEW s \in Seq(S), NEW x, NEW base
    PROVE  Fold(base, Append(s, x)) = Op(Fold(base, s), x)
<1> DEFINE t == Append(s, x)
           n == Len(s)
<1>1. /\ t \in Seq(S \cup {x}) /\ Len(t) = n + 1 /\ n \in Nat /\ t[n + 1] = x
      /\ \A k \in 1 .. n : s[k] = t[k]
  OBVIOUS
<1>2. PICK r : Runs(base, s, r)
  BY FoldRuns
<1>3. PICK q : Runs(base, t, q)
  BY <1>1, FoldRuns
<1> HIDE DEF t
<1>4. r[n] = q[n]
  BY <1>1, <1>2, <1>3, RunsAgree
<1>5. q[n + 1] = Op(q[(n + 1) - 1], t[n + 1]) /\ (n + 1) - 1 = n
  BY <1>1, <1>3 DEF Runs
<1>6. Fold(base, t) = q[n + 1] /\ Fold(base, s) = r[n]
  BY <1>1, <1>2, <1>3 DEF Runs
<1> QED BY <1>1, <1>4, <1>5, <1>6 DEF t

(* A fold over two sequences is a fold over the second from where the first *)
(* one led.                                                                 *)
THEOREM FoldConcat ==
    ASSUME NEW S, NEW s \in Seq(S), NEW t \in Seq(S), NEW base
    PROVE  Fold(base, s \o t) = Fold(Fold(base, s), t)
<1> DEFINE P(n) == SubSeq(t, 1, n)
           G == { n \in Nat : n <= Len(t) => Fold(base, s \o P(n)) = Fold(Fold(base, s), P(n)) }
<1>1. 0 \in G
  <2>1. P(0) = <<>> /\ s \o P(0) = s
    OBVIOUS
  <2> QED BY <2>1, FoldEmpty
<1>2. ASSUME NEW n \in Nat, n \in G PROVE n + 1 \in G
  <2> SUFFICES ASSUME n + 1 <= Len(t)
               PROVE  Fold(base, s \o P(n + 1)) = Fold(Fold(base, s), P(n + 1))
    OBVIOUS
  <2>1. P(n) \in Seq(S) /\ s \o P(n) \in Seq(S) /\ t[n + 1] \in S
    OBVIOUS
  <2>2. P(n + 1) = Append(P(n), t[n + 1]) /\ s \o P(n + 1) = Append(s \o P(n), t[n + 1])
    OBVIOUS
  <2>3. Fold(base, s \o P(n)) = Fold(Fold(base, s), P(n))
    BY <1>2
  <2> HIDE DEF P
  <2>4. Fold(base, Append(s \o P(n), t[n + 1])) = Op(Fold(base, s \o P(n)), t[n + 1])
    BY <2>1, FoldAppend
  <2>5. Fold(Fold(base, s), Append(P(n), t[n + 1])) = Op(Fold(Fold(base, s), P(n)), t[n + 1])
    BY <2>1, FoldAppend
  <2> QED BY <2>2, <2>3, <2>4, <2>5
<1>3. Len(t) \in G
  <2> HIDE DEF G
  <2> QED BY <1>1, <1>2, InductionOnNat
<1>4. P(Len(t)) = t
  OBVIOUS
<1> HIDE DEF P
<1> QED BY <1>3, <1>4

(* What every step keeps, the fold has.                                     *)
THEOREM FoldKeeps ==
    ASSUME NEW S, NEW s \in Seq(S), NEW G, NEW base \in G,
           \A a \in G, k \in 1 .. Len(s) : Op(a, s[k]) \in G
    PROVE  Fold(base, s) \in G
<1>1. PICK run : Runs(base, s, run)
  BY FoldRuns
<1> DEFINE H == { n \in Nat : n <= Len(s) => run[n] \in G }
<1>2. 0 \in H
  BY <1>1 DEF Runs
<1>3. ASSUME NEW n \in Nat, n \in H PROVE n + 1 \in H
  <2> SUFFICES ASSUME n + 1 <= Len(s) PROVE run[n + 1] \in G
    OBVIOUS
  <2>1. n + 1 \in 1 .. Len(s) /\ (n + 1) - 1 = n /\ run[n] \in G
    BY <1>3
  <2>2. run[n + 1] = Op(run[n], s[n + 1])
    BY <1>1, <2>1 DEF Runs
  <2> QED BY <2>1, <2>2
<1>4. Len(s) \in H
  <2> HIDE DEF H
  <2> QED BY <1>2, <1>3, InductionOnNat
<1> QED BY <1>1, <1>4 DEF Runs
=============================================================================
