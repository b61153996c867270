---------------------------- MODULE SequenceLemmas ----------------------------
(***************************************************************************)
(* What the proofs need to know of sequences whose elements belong to no   *)
(* set named in advance (such a sequence is one over its own elements), of *)
(* sets of indices and of finite sets.                                     *)
(***************************************************************************)
EXTENDS Integers, SequencesExt, SequenceTheorems, FiniteSetTheorems, TLAPS

(* A sequence over any set is one over its elements.                       *)
LEMMA OwnElements ==
  ASSUME NEW S, NEW s \in Seq(S)
  PROVE  /\ s \in Seq(ToSet(s))
         /\ ToSet(s) \subseteq S
         /\ \A e : e \in ToSet(s) <=> \E i \in 1..Len(s) : s[i] = e
<1>1. Len(s) \in Nat /\ DOMAIN s = 1..Len(s) /\ s \in [1..Len(s) -> S]
  BY LenProperties
<1>2. \A i \in 1..Len(s) : s[i] \in ToSet(s)
  BY <1>1 DEF ToSet
<1>3. s \in [1..Len(s) -> ToSet(s)]
  BY <1>1, <1>2
<1> QED
  BY <1>1, <1>3 DEF ToSet

(* An element appended.                                                    *)
LEMMA OwnAppend ==
  ASSUME NEW s, s \in Seq(ToSet(s)), NEW e
  PROVE  /\ Append(s, e) \in Seq(ToSet(Append(s, e)))
         /\ ToSet(Append(s, e)) = ToSet(s) \cup {e}
         /\ Len(s) \in Nat /\ Len(Append(s, e)) = Len(s) + 1
         /\ \A i \in 1..Len(s) : Append(s, e)[i] = s[i]
         /\ Append(s, e)[Len(s) + 1] = e
<1> DEFINE S == ToSet(s) \cup {e}
<1>1. s \in Seq(S)
  BY SeqMonotonic
<1>2. /\ Append(s, e) \in Seq(S)
      /\ Len(Append(s, e)) = Len(s) + 1
      /\ \A i \in 1..Len(s) : Append(s, e)[i] = s[i]
      /\ Append(s, e)[Len(s) + 1] = e
  BY <1>1, AppendProperties
<1>3. DOMAIN s = 1..Len(s) /\ Len(s) \in Nat
  BY LenProperties
<1>4. DOMAIN Append(s, e) = 1..(Len(s) + 1)
  BY <1>2, LenProperties
<1>5. ToSet(Append(s, e)) = S
  BY <1>2, <1>3, <1>4 DEF ToSet
<1> QED
  BY <1>2, <1>3, <1>5

(* One sequence after another.                                             *)
LEMMA OwnConcat ==
  ASSUME NEW s, s \in Seq(ToSet(s)), NEW t, t \in Seq(ToSet(t))
  PROVE  /\ s \o t \in Seq(ToSet(s \o t))
         /\ \A e : Contains(s \o t, e) <=> Contains(s, e) \/ Contains(t, e)
<1> DEFINE S == ToSet(s) \cup ToSet(t)
<1>1. s \in Seq(S) /\ t \in Seq(S)
  BY SeqMonotonic
<1>2. /\ s \o t \in Seq(S) /\ Len(s) \in Nat /\ Len(t) \in Nat
      /\ Len(s \o t) = Len(s) + Len(t)
      /\ \A i \in 1..Len(s) : (s \o t)[i] = s[i]
      /\ \A i \in 1..Len(t) : (s \o t)[Len(s) + i] = t[i]
  <2> HIDE DEF S
  <2>1. Len(s) \in Nat /\ Len(t) \in Nat
    BY <1>1, LenProperties
  <2> QED
    BY <1>1, <2>1, ConcatProperties
<1>3. ASSUME NEW e
      PROVE  Contains(s \o t, e) <=> Contains(s, e) \/ Contains(t, e)
  <2> HIDE DEF S
  <2>1. \A i \in 1..(Len(s) + Len(t)) : i \in 1..Len(s) \/ \E j \in 1..Len(t) : i = Len(s) + j
    <3>1. \A i \in 1..(Len(s) + Len(t)) : i \notin 1..Len(s) => i - Len(s) \in 1..Len(t) /\ i = Len(s) + (i - Len(s))
      BY <1>2
    <3> QED
      BY <3>1
  <2>2. /\ \A i \in 1..Len(s) : i \in 1..(Len(s) + Len(t))
        /\ \A j \in 1..Len(t) : Len(s) + j \in 1..(Len(s) + Len(t))
    BY <1>2
  <2>3. Contains(s \o t, e) <=> \E i \in 1..(Len(s) + Len(t)) : (s \o t)[i] = e
    BY <1>2 DEF Contains
  <2>4. ASSUME NEW i \in 1..(Len(s) + Len(t)), (s \o t)[i] = e PROVE Contains(s, e) \/ Contains(t, e)
    <3>1. CASE i \in 1..Len(s)
      BY <1>2, <2>4, <3>1 DEF Contains
    <3>2. ASSUME NEW j \in 1..Len(t), i = Len(s) + j PROVE Contains(t, e)
      BY <1>2, <2>4, <3>2 DEF Contains
    <3> QED
      BY <2>1, <3>1, <3>2
  <2>5. ASSUME NEW i \in 1..Len(s), s[i] = e PROVE Contains(s \o t, e)
    BY <1>2, <2>2, <2>3, <2>5
  <2>6. ASSUME NEW j \in 1..Len(t), t[j] = e PROVE Contains(s \o t, e)
    BY <1>2, <2>2, <2>3, <2>6
  <2> QED
    BY <2>3, <2>4, <2>5, <2>6 DEF Contains
<1> QED
  BY <1>2, <1>3, OwnElements

(* Sequences of one and of two elements.                                   *)
LEMMA OwnSingle == \A x : <<x>> \in Seq(ToSet(<<x>>))
<1> SUFFICES ASSUME NEW x PROVE <<x>> \in Seq(ToSet(<<x>>))
  OBVIOUS
<1>1. <<x>> \in Seq({x})
  OBVIOUS
<1> QED
  BY <1>1, OwnElements

LEMMA OwnPair == \A x, y : <<x, y>> \in Seq(ToSet(<<x, y>>))
<1> SUFFICES ASSUME NEW x, NEW y PROVE <<x, y>> \in Seq(ToSet(<<x, y>>))
  OBVIOUS
<1>1. <<x, y>> \in Seq({x, y})
  OBVIOUS
<1> QED
  BY <1>1, OwnElements

(* An element replaced.                                                    *)
LEMMA OwnExcept ==
  ASSUME NEW s, s \in Seq(ToSet(s)), NEW i \in 1..Len(s), NEW e, NEW t, t = [s EXCEPT ![i] = e]
  PROVE  /\ t \in Seq(ToSet(t))
         /\ Len(t) = Len(s)
         /\ \A j \in 1..Len(s) : t[j] = IF j = i THEN e ELSE s[j]
<1> DEFINE S == ToSet(s) \cup {e}
<1>1. s \in Seq(S)
  BY SeqMonotonic
<1>2. /\ t \in Seq(S)
      /\ Len(t) = Len(s)
      /\ \A j \in 1..Len(s) : t[j] = IF j = i THEN e ELSE s[j]
  BY <1>1, ExceptSeq
<1> QED
  BY <1>2, OwnElements

-------------------------------------------------------------------------------
(* A set of indices has a least one.                                       *)
LEMMA LeastIndex ==
  ASSUME NEW n \in Nat, NEW T \in SUBSET (1..n), T # {}
  PROVE  Min(T) \in T /\ \A j \in T : Min(T) <= j
<1> DEFINE F == {1..k : k \in T}
           R == StrictSubsetOrdering(1..n)
<1>1. IsWellFoundedOn(R, SUBSET (1..n))
  <2>1. IsFiniteSet(1..n)
    BY FS_Interval
  <2> QED
    BY <2>1, FS_StrictSubsetOrderingWellFounded, FS_FiniteSubsetsOfFinite
<1>2. F \subseteq SUBSET (1..n) /\ F # {}
  <2>1. \A k \in T : 1..k \in SUBSET (1..n)
    OBVIOUS
  <2> QED
    BY <2>1
<1>3. PICK I \in F : \A J \in F : <<J, I>> \notin R
  <2> HIDE DEF F, R
  <2> QED
    BY <1>1, <1>2, WFMin
<1>4. PICK m \in T : I = 1..m
  OBVIOUS
<1>5. ASSUME NEW j \in T PROVE m <= j
  <2> SUFFICES ASSUME j < m PROVE FALSE
    OBVIOUS
  <2>1. 1..j \in F /\ 1..j \subseteq 1..m /\ 1..j # 1..m
    OBVIOUS
  <2> QED
    BY <1>2, <1>3, <1>4, <2>1 DEF StrictSubsetOrdering
<1> QED
  BY <1>4, <1>5 DEF Min

(* Every element of a finite set once.                                     *)
LEMMA Enumerated ==
  ASSUME NEW S, IsFiniteSet(S)
  PROVE  /\ SetToSeq(S) \in Seq(S)
         /\ \A e : e \in S <=> \E i \in 1..Len(SetToSeq(S)) : SetToSeq(S)[i] = e
<1> DEFINE n == Cardinality(S)
<1>1. n \in Nat /\ ExistsBijection(1..n, S)
  BY FS_CardinalityType
<1>2. \E f \in [1..n -> S] : IsInjective(f)
  BY <1>1 DEF ExistsBijection, Bijection, Injection
<1>3. SetToSeq(S) \in [1..n -> S] /\ IsInjective(SetToSeq(S))
  <2> HIDE DEF n
  <2> QED
    BY <1>2 DEF SetToSeq, n
<1>4. SetToSeq(S) \in Injection(1..n, S)
  BY <1>3 DEF Injection
<1>5. SetToSeq(S) \in Surjection(1..n, S)
  <2>1. IsFiniteSet(1..n) /\ Cardinality(1..n) = n
    BY <1>1, FS_Interval
  <2> QED
    BY <2>1, <1>4, FS_Injection
<1>6. SetToSeq(S) \in Seq(S) /\ Len(SetToSeq(S)) = n
  BY <1>1, <1>3, LenProperties
<1> QED
  BY <1>3, <1>5, <1>6 DEF Surjection

(* A set of indices has a greatest one.                                    *)
LEMMA GreatestIndex ==
  ASSUME NEW n \in Nat, NEW T \in SUBSET (1..n), T # {}
  PROVE  Max(T) \in T /\ \A j \in T : j <= Max(T)
<1> DEFINE U == {n + 1 - k : k \in T}
<1>1. U \in SUBSET (1..n)
  <2>1. \A k \in T : k \in 1..n
    OBVIOUS
  <2>2. \A k \in T : n + 1 - k \in 1..n
    BY <2>1
  <2> QED
    BY <2>2
<1>2. U # {}
  OBVIOUS
<1>3. Min(U) \in U /\ \A j \in U : Min(U) <= j
  <2> HIDE DEF U
  <2> QED
  BY <1>1, <1>2, LeastIndex
<1>4. PICK m \in T : Min(U) = n + 1 - m
  BY <1>3
<1>5. \A j \in T : n + 1 - m <= n + 1 - j
  BY <1>3, <1>4
<1>6. \A j \in T : j \in 1..n
  OBVIOUS
<1>7. \A j \in T : j <= m
  BY <1>5, <1>6
<1>8. \A x, y \in T : (\A j \in T : j <= x) /\ (\A j \in T : j <= y) => x = y
  BY <1>6
<1>9. Max(T) \in T /\ \A j \in T : Max(T) >= j
  BY <1>6, <1>7 DEF Max
<1> QED
  BY <1>6, <1>9

(* A family of finite sets has a member that contains no other.            *)
LEMMA SmallestSubset ==
  ASSUME NEW D, IsFiniteSet(D), NEW F, F \subseteq SUBSET D, F # {}
  PROVE  \E s \in F : \A t \in F : t \subseteq s => t = s
<1>1. IsWellFoundedOn(StrictSubsetOrdering(D), SUBSET D)
  BY FS_StrictSubsetOrderingWellFounded, FS_FiniteSubsetsOfFinite
<1>2. PICK s \in F : \A t \in F : <<t, s>> \notin StrictSubsetOrdering(D)
  BY <1>1, WFMin
<1>3. ASSUME NEW t \in F, t \subseteq s PROVE t = s
  BY <1>2, <1>3 DEF StrictSubsetOrdering
<1> QED
  BY <1>3

-------------------------------------------------------------------------------
(* Folds.  The folds of the community modules run over the sets of         *)
(* indices of a sequence: what a fold comes to over a set is what its step *)
(* makes of one index of it and the fold over the others.                  *)

(* f is the fold of g over the sets of indices in D, the one that `pick`   *)
(* names taken last: g takes what the fold of the others has come to, and  *)
(* that index.                                                             *)
IsFold(f, D, base, g, pick) ==
  \A s \in SUBSET D : f[s] = IF s = {} THEN base ELSE g[<<f[s \ {pick[s]}], pick[s]>>]

(* What the empty fold has and every step hands on, every fold has.        *)
LEMMA FoldInduction ==
  ASSUME NEW D, IsFiniteSet(D),
         NEW pick, \A s \in SUBSET D : s # {} => pick[s] \in s,
         NEW f, NEW G, f[{}] \in G[{}],
         \A s \in SUBSET D : s # {} /\ f[s \ {pick[s]}] \in G[s \ {pick[s]}] => f[s] \in G[s]
  PROVE  \A s \in SUBSET D : f[s] \in G[s]
<1> DEFINE bad == {s \in SUBSET D : f[s] \notin G[s]}
<1> SUFFICES ASSUME bad # {} PROVE FALSE
  OBVIOUS
<1>1. PICK s \in bad : \A t \in bad : t \subseteq s => t = s
  <2>1. bad \subseteq SUBSET D
    OBVIOUS
  <2> HIDE DEF bad
  <2> QED
    BY <2>1, SmallestSubset
<1>2. s \in SUBSET D /\ f[s] \notin G[s] /\ s # {}
  OBVIOUS
<1>3. pick[s] \in s
  BY <1>2
<1>4. s \ {pick[s]} \in SUBSET D /\ s \ {pick[s]} \subseteq s /\ s \ {pick[s]} # s
  BY <1>2, <1>3
<1>5. f[s \ {pick[s]}] \in G[s \ {pick[s]}]
  BY <1>1, <1>4
<1> QED
  BY <1>2, <1>5

(* Folds over the same indices are the same.                               *)
LEMMA FoldUnique ==
  ASSUME NEW D, IsFiniteSet(D),
         NEW pick, \A s \in SUBSET D : s # {} => pick[s] \in s,
         NEW base, NEW g, NEW f, IsFold(f, D, base, g, pick),
         NEW E, D \subseteq E, NEW h, IsFold(h, E, base, g, pick)
  PROVE  \A s \in SUBSET D : f[s] = h[s]
<1> DEFINE G == [s \in SUBSET D |-> {h[s]}]
<1>1. \A s \in SUBSET D : G[s] = {h[s]}
  OBVIOUS
<1>2. \A s \in SUBSET D : s \in SUBSET E
  OBVIOUS
<1> HIDE DEF G
<1>3. {} \in SUBSET D
  OBVIOUS
<1>4. f[{}] \in G[{}]
  <2>1. f[{}] = base
    BY <1>3 DEF IsFold
  <2>2. h[{}] = base
    BY <1>2, <1>3 DEF IsFold
  <2> QED
    BY <1>1, <1>3, <2>1, <2>2
<1>5. ASSUME NEW s \in SUBSET D, s # {}, f[s \ {pick[s]}] \in G[s \ {pick[s]}]
      PROVE  f[s] \in G[s]
  <2> DEFINE t == s \ {pick[s]}
  <2>1. t \in SUBSET D
    OBVIOUS
  <2>2. f[t] = h[t]
    BY <1>1, <1>5, <2>1
  <2> HIDE DEF t
  <2>3. f[s] = g[<<f[t], pick[s]>>] /\ h[s] = g[<<h[t], pick[s]>>]
    BY <1>2, <1>5 DEF IsFold, t
  <2> QED
    BY <1>1, <2>2, <2>3
<1>6. \A s \in SUBSET D : f[s] \in G[s]
  BY <1>4, <1>5, FoldInduction
<1> QED
  BY <1>1, <1>6

(* There is a fold over any finite set of indices.                         *)
LEMMA FoldExists ==
  ASSUME NEW D, IsFiniteSet(D),
         NEW pick, \A s \in SUBSET D : s # {} => pick[s] \in s,
         NEW S, NEW base \in S, NEW g, \A i \in D : \A a \in S : g[<<a, i>>] \in S
  PROVE  \E f \in [SUBSET D -> S] : IsFold(f, D, base, g, pick)
<1> DEFINE runs(X, f) == f \in [SUBSET X -> S] /\ IsFold(f, X, base, g, pick)
           bad == {X \in SUBSET D : ~ \E f : runs(X, f)}
<1> SUFFICES ASSUME bad # {} PROVE FALSE
  OBVIOUS
<1>1. PICK X \in bad : \A Y \in bad : Y \subseteq X => Y = X
  <2>1. bad \subseteq SUBSET D
    OBVIOUS
  <2> HIDE DEF bad
  <2> QED
    BY <2>1, SmallestSubset
<1>2. X \in SUBSET D /\ ~ \E f : runs(X, f)
  OBVIOUS
<1>3. \A Y \in SUBSET X : Y # X => \E f : runs(Y, f)
  BY <1>1, <1>2
<1> HIDE DEF runs, bad
<1> DEFINE run == [Y \in SUBSET X |-> CHOOSE f : runs(Y, f)]
<1>4. \A Y \in SUBSET X : Y # X => runs(Y, run[Y])
  BY <1>3
<1> HIDE DEF run
<1>5. \A Y \in SUBSET X : IsFiniteSet(Y) /\ \A s \in SUBSET Y : s # {} => pick[s] \in s
  <2>1. \A Y \in SUBSET X : IsFiniteSet(Y)
    BY <1>2, FS_Subset
  <2> QED
    BY <1>2, <2>1
<1>6. ASSUME NEW Y \in SUBSET X, Y # X, NEW Z \in SUBSET Y
      PROVE  run[Y][Z] = run[Z][Z]
  <2>1. Z \in SUBSET X /\ Z # X
    BY <1>6
  <2>2. IsFold(run[Y], Y, base, g, pick) /\ IsFold(run[Z], Z, base, g, pick)
    BY <1>4, <1>6, <2>1 DEF runs
  <2>3. \A s \in SUBSET Z : run[Z][s] = run[Y][s]
    <3>1. IsFiniteSet(Z) /\ (\A s \in SUBSET Z : s # {} => pick[s] \in s) /\ Z \subseteq Y
      BY <1>5, <2>1
    <3>2. PICK a, b : a = run[Z] /\ b = run[Y]
      OBVIOUS
    <3>3. IsFold(a, Z, base, g, pick) /\ IsFold(b, Y, base, g, pick)
      BY <2>2, <3>2
    <3>4. \A s \in SUBSET Z : a[s] = b[s]
      BY <3>1, <3>3, FoldUnique
    <3> QED
      BY <3>2, <3>4
  <2> QED
    BY <2>3
<1> DEFINE p == pick[X]
           h == [s \in SUBSET X |-> IF s = X /\ X # {} THEN g[<<run[X \ {p}][X \ {p}], p>>]
                                    ELSE IF X = {} THEN base ELSE run[s][s]]
<1>7. CASE X = {}
  <2> DEFINE e == [s \in SUBSET X |-> base]
  <2>1. e \in [SUBSET X -> S] /\ \A s \in SUBSET X : e[s] = base /\ s = {}
    BY <1>7
  <2>2. IsFold(e, X, base, g, pick)
    BY <2>1 DEF IsFold
  <2> QED
    BY <1>2, <2>1, <2>2 DEF runs
<1>8. CASE X # {}
  <2>1. /\ p \in X /\ p \in D
        /\ X \ {p} \in SUBSET X /\ X \ {p} # X
    BY <1>2, <1>8
  <2> HIDE DEF p
  <2>2. \A s \in SUBSET X : h[s] = IF s = X THEN g[<<run[X \ {p}][X \ {p}], p>>] ELSE run[s][s]
    BY <1>8
  <2> HIDE DEF h
  <2>3. ASSUME NEW s \in SUBSET X, s # X PROVE run[s][s] \in S
    <3>1. run[s] \in [SUBSET s -> S]
      BY <1>4, <2>3 DEF runs
    <3> QED
      BY <3>1
  <2>4. ASSUME NEW s \in SUBSET X
        PROVE  h[s] = IF s = {} THEN base ELSE g[<<h[s \ {pick[s]}], pick[s]>>]
    <3>1. CASE s = {}
      <4>1. IsFold(run[s], s, base, g, pick)
        BY <1>4, <1>8, <3>1 DEF runs
      <4>2. run[s][s] = base
        BY <3>1, <4>1 DEF IsFold
      <4> QED
        BY <1>8, <2>2, <3>1, <4>2
    <3>2. CASE s = X
      <4>1. h[X \ {p}] = run[X \ {p}][X \ {p}]
        BY <2>1, <2>2
      <4>2. pick[s] = p
        BY <3>2 DEF p
      <4> QED
        BY <1>8, <2>2, <3>2, <4>1, <4>2
    <3>3. CASE s # {} /\ s # X
      <4> DEFINE t == s \ {pick[s]}
      <4>1. t \in SUBSET s /\ t \in SUBSET X
        OBVIOUS
      <4>2. t # X
        BY <3>3
      <4> HIDE DEF t
      <4>3. h[t] = run[t][t] /\ run[s][t] = run[t][t]
        BY <1>6, <2>2, <3>3, <4>1, <4>2
      <4>4. IsFold(run[s], s, base, g, pick)
        BY <1>4, <3>3 DEF runs
      <4>5. run[s][s] = g[<<run[s][t], pick[s]>>]
        BY <3>3, <4>4 DEF IsFold, t
      <4>6. h[s] = run[s][s]
        BY <2>2, <3>3
      <4>7. h[s] = g[<<h[t], pick[s]>>]
        BY <4>3, <4>5, <4>6
      <4> QED
        BY <3>3, <4>7 DEF t
    <3> QED
      BY <3>1, <3>2, <3>3
  <2>5. h \in [SUBSET X -> S]
    <3>1. ASSUME NEW s \in SUBSET X PROVE h[s] \in S
      BY <2>1, <2>2, <2>3
    <3>2. h = [s \in SUBSET X |-> h[s]]
      BY DEF h
    <3> QED
      BY <3>1, <3>2
  <2>6. IsFold(h, X, base, g, pick)
    BY <2>4 DEF IsFold
  <2> QED
    BY <1>2, <2>5, <2>6 DEF runs
<1> QED
  BY <1>7, <1>8

(* Folds from the left take the greatest index last, those from the right  *)
(* the least.                                                              *)
LEMMA FoldOrders ==
  ASSUME NEW n \in Nat, NEW D, D = 1..n
  PROVE  /\ IsFiniteSet(D)
         /\ \A s \in SUBSET D : s # {} => Max(s) \in s /\ \A j \in s : j <= Max(s)
         /\ \A s \in SUBSET D : s # {} => Min(s) \in s /\ \A j \in s : Min(s) <= j
<1>1. IsFiniteSet(D)
  BY FS_Interval
<1>2. \A s \in SUBSET D : s # {} => Max(s) \in s /\ \A j \in s : j <= Max(s)
  BY GreatestIndex
<1>3. \A s \in SUBSET D : s # {} => Min(s) \in s /\ \A j \in s : Min(s) <= j
  BY LeastIndex
<1> QED
  BY <1>1, <1>2, <1>3

(* A fold from the left takes the greatest index last.                     *)
IsLeftFold(f, D, base, g) ==
  \A s \in SUBSET D : f[s] = IF s = {} THEN base ELSE g[<<f[s \ {Max(s)}], Max(s)>>]

(* One whose step stays in a set has a value there.                        *)
LEMMA LeftFold ==
  ASSUME NEW n \in Nat, NEW D, D = 1..n, NEW S, NEW base \in S,
         NEW g, \A i \in D : \A a \in S : g[<<a, i>>] \in S
  PROVE  \E f \in [SUBSET D -> S] : IsLeftFold(f, D, base, g)
<1>1. PICK pick : pick = [s \in SUBSET D |-> Max(s)]
  OBVIOUS
<1>2. IsFiniteSet(D) /\ \A s \in SUBSET D : s # {} => pick[s] \in s
  BY <1>1, FoldOrders
<1>3. PICK f \in [SUBSET D -> S] : IsFold(f, D, base, g, pick)
  BY <1>2, FoldExists
<1> QED
  BY <1>1, <1>3 DEF IsFold, IsLeftFold

LEMMA LeftFoldStays ==
  ASSUME NEW n \in Nat, NEW D, D = 1..n, NEW S, NEW f, f[{}] \in S,
         \A s \in SUBSET D : s # {} /\ Max(s) \in D /\ f[s \ {Max(s)}] \in S => f[s] \in S
  PROVE  \A s \in SUBSET D : f[s] \in S
<1>1. PICK pick : pick = [s \in SUBSET D |-> Max(s)]
  OBVIOUS
<1>2. PICK G : G = [s \in SUBSET D |-> S]
  OBVIOUS
<1>3. IsFiniteSet(D) /\ \A s \in SUBSET D : s # {} => pick[s] \in s /\ Max(s) \in D
  BY <1>1, FoldOrders
<1>4. f[{}] \in G[{}]
  BY <1>2
<1>5. ASSUME NEW s \in SUBSET D, s # {}, f[s \ {pick[s]}] \in G[s \ {pick[s]}]
      PROVE  f[s] \in G[s]
  <2>1. pick[s] = Max(s) /\ s \ {Max(s)} \in SUBSET D /\ Max(s) \in D
    BY <1>1, <1>3, <1>5
  <2>2. f[s \ {Max(s)}] \in S
    BY <1>2, <1>5, <2>1
  <2> QED
    BY <1>2, <1>5, <2>1, <2>2
<1>6. \A s \in SUBSET D : f[s] \in G[s]
  BY <1>3, <1>4, <1>5, FoldInduction
<1> QED
  BY <1>2, <1>6

(* Sequences after one another are a sequence.                             *)
LEMMA FlattenedSeq ==
  ASSUME NEW T, NEW seqs \in Seq(Seq(T))
  PROVE  FlattenSeq(seqs) \in Seq(T)
<1> DEFINE n == Len(seqs)
           D == 1..n
           S == Seq(T)
           pick == [s \in SUBSET D |-> Max(s)]
           g == [x \in S \X D |-> IF x[2] = 1 THEN seqs[1] ELSE x[1] \o seqs[x[2]]]
           step(r) == [i \in D |-> IF i = 1 THEN seqs[i] ELSE r[i - 1] \o seqs[i]]
           flat == CHOOSE r : r = step(r)
<1>1. n \in Nat /\ \A i \in D : seqs[i] \in S
  BY LenProperties
<1>2. CASE n = 0
  <2>1. FlattenSeq(seqs) = seqs /\ seqs = <<>>
    BY <1>2, EmptySeq DEF FlattenSeq
  <2> QED
    BY <2>1
<1>3. CASE n # 0
  <2>1. FlattenSeq(seqs) = flat[n]
    BY <1>3 DEF FlattenSeq
  <2>2. \A a \in S : \A i \in D : g[<<a, i>>] = IF i = 1 THEN seqs[1] ELSE a \o seqs[i]
    OBVIOUS
  <2>3. \A s \in SUBSET D : pick[s] = Max(s)
    OBVIOUS
  <2> HIDE DEF pick, g, step, flat, n
  <2>4. /\ IsFiniteSet(D)
        /\ \A s \in SUBSET D : s # {} => pick[s] \in s /\ \A j \in s : j <= pick[s]
    BY <1>1, <2>3, FoldOrders
  <2>5. 1 \in D /\ n \in D
    BY <1>1, <1>3
  <2>6. \A i \in D : \A a \in S : g[<<a, i>>] \in S
    <3>1. \A i \in D : \A a \in S : a \o seqs[i] \in S
      BY <1>1, ConcatProperties
    <3> QED
      BY <1>1, <2>2, <2>5, <3>1
  <2>7. PICK f \in [SUBSET D -> S] : IsFold(f, D, <<>>, g, pick)
    <3>1. <<>> \in S
      OBVIOUS
    <3>2. IsFiniteSet(D) /\ \A s \in SUBSET D : s # {} => pick[s] \in s
      BY <2>4
    <3> HIDE DEF D, S
    <3> QED
      BY <2>6, <3>1, <3>2, FoldExists
  <2> DEFINE h == [i \in D |-> f[1..i]]
  <2>8. ASSUME NEW i \in D
        PROVE  h[i] = IF i = 1 THEN seqs[i] ELSE h[i - 1] \o seqs[i]
    <3>1. 1..i \in SUBSET D /\ 1..i # {} /\ i \in Nat /\ i \in 1..i
      <4>1. i \in Nat /\ 1 <= i /\ i <= n /\ n \in Nat
        BY <1>1
      <4>2. \A j \in 1..i : j \in 1..n
        BY <4>1
      <4>3. 1..i \in SUBSET (1..n)
        BY <4>2
      <4>4. i \in 1..i
        BY <4>1
      <4> QED
        BY <4>1, <4>3, <4>4
    <3>2. pick[1..i] = i
      <4>1. pick[1..i] \in 1..i /\ i <= pick[1..i]
        BY <2>4, <3>1
      <4> QED
        BY <3>1, <4>1
    <3>3. (1..i) \ {i} = 1..(i - 1)
      BY <3>1
    <3>4. f[1..i] = g[<<f[(1..i) \ {i}], i>>]
      BY <2>7, <3>1, <3>2 DEF IsFold
    <3>5. 1..(i - 1) \in SUBSET D /\ (i # 1 => i - 1 \in D)
      BY <1>1
    <3>6. f[1..(i - 1)] \in S
      BY <2>7, <3>5
    <3>7. f[1..i] = IF i = 1 THEN seqs[1] ELSE f[1..(i - 1)] \o seqs[i]
      BY <2>2, <3>3, <3>4, <3>6
    <3> QED
      BY <3>5, <3>7
  <2>9. h = step(h)
    <3>1. h = [i \in D |-> h[i]]
      OBVIOUS
    <3> HIDE DEF h
    <3> QED
      BY <2>8, <3>1 DEF step
  <2>10. flat = step(flat)
    BY <2>9 DEF flat
  <2> DEFINE bad == {i \in D : flat[i] \notin S}
  <2>11. ASSUME bad # {} PROVE FALSE
    <3>1. Min(bad) \in bad /\ \A j \in bad : Min(bad) <= j
      <4>1. bad \in SUBSET (1..n)
        OBVIOUS
      <4> HIDE DEF bad
      <4> QED
        BY <1>1, <2>11, <4>1, LeastIndex
    <3>2. PICK m : m = Min(bad)
      OBVIOUS
    <3>3. m \in D /\ flat[m] \notin S /\ \A j \in D : j < m => flat[j] \in S
      <4>1. m \in D /\ flat[m] \notin S
        BY <3>1, <3>2
      <4>2. \A j \in D : j < m => j \notin bad
        BY <1>1, <3>1, <3>2, <4>1
      <4> QED
        BY <4>1, <4>2
    <3>4. flat[m] = IF m = 1 THEN seqs[m] ELSE flat[m - 1] \o seqs[m]
      BY <2>10, <3>3 DEF step
    <3>5. CASE m = 1
      BY <1>1, <3>3, <3>4, <3>5
    <3>6. CASE m # 1
      <4>1. m - 1 \in D /\ m - 1 < m
        BY <1>1, <3>3, <3>6
      <4>2. flat[m - 1] \in S /\ seqs[m] \in S
        BY <1>1, <3>3, <4>1
      <4>3. flat[m - 1] \o seqs[m] \in S
        BY <4>2, ConcatProperties
      <4> QED
        BY <3>3, <3>4, <3>6, <4>3
    <3> QED
      BY <3>5, <3>6
  <2> QED
    BY <2>1, <2>5, <2>11
<1> QED
  BY <1>2, <1>3

(* Sequences of whatever elements, one after another.                      *)
LEMMA OwnFlatten ==
  ASSUME NEW seqs, seqs \in Seq(ToSet(seqs)), \A i \in DOMAIN seqs : seqs[i] \in Seq(ToSet(seqs[i]))
  PROVE  /\ FlattenSeq(seqs) \in Seq(ToSet(FlattenSeq(seqs)))
         /\ ToSet(FlattenSeq(seqs)) \subseteq UNION {ToSet(seqs[i]) : i \in DOMAIN seqs}
<1> DEFINE T == UNION {ToSet(seqs[i]) : i \in DOMAIN seqs}
<1>1. ASSUME NEW i \in DOMAIN seqs PROVE seqs[i] \in Seq(T)
  <2>1. ToSet(seqs[i]) \subseteq T
    OBVIOUS
  <2> HIDE DEF T
  <2> QED
    BY <2>1, SeqMonotonic
<1>2. seqs \in Seq(Seq(T))
  <2> HIDE DEF T
  <2>1. PICK n \in Nat : n = Len(seqs) /\ DOMAIN seqs = 1..n /\ seqs \in [1..n -> ToSet(seqs)]
    BY LenProperties
  <2>2. seqs \in [1..n -> Seq(T)]
    BY <1>1, <2>1
  <2> QED
    BY <2>2
<1>3. FlattenSeq(seqs) \in Seq(T)
  <2> HIDE DEF T
  <2> QED
    BY <1>2, FlattenedSeq
<1> QED
  BY <1>3, OwnElements
===============================================================================
