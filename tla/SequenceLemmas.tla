--------------------------- MODULE SequenceLemmas ---------------------------
(***************************************************************************)
(* Induction on numbers and on lists, and what the recursive operators on  *)
(* lists compute: FoldLeft, FlattenSeq and Without.                        *)
(*                                                                         *)
(* The library states induction for an operator, which the provers cannot  *)
(* instantiate.  Here it is stated for a set: that of the numbers, or the  *)
(* lists, of which something holds.                                        *)
(***************************************************************************)
EXTENDS SeqFilter, Integers, SequenceTheorems, WellFoundedInduction, TLAPS

\* Induction on numbers, from the well-foundedness of their order.
LEMMA NumberInduction ==
    ASSUME NEW P \in SUBSET Nat, 0 \in P, \A n \in P : n + 1 \in P
    PROVE  P = Nat
<1> DEFINE Bad == Nat \ P
<1>1. SUFFICES ASSUME Bad # {} PROVE FALSE
  OBVIOUS
<1>2. Bad \subseteq Nat
  OBVIOUS
<1>3. \E x \in Bad : \A y \in Bad : ~ (<<y, x>> \in OpToRel(<, Nat))
  <2> HIDE DEF Bad
  <2>1. QED
    BY <1>1, <1>2, NatLessThanWellFounded, WFMin
<1>4. PICK x \in Bad : \A y \in Bad : ~ (<<y, x>> \in OpToRel(<, Nat))
  BY <1>3
<1>5. x \in Nat /\ x # 0
  OBVIOUS
<1>6. x - 1 \in Nat /\ (x - 1) + 1 = x /\ x - 1 < x
  BY <1>5
<1>7. x - 1 \notin Bad
  BY <1>4, <1>5, <1>6 DEF OpToRel
<1>8. QED
  BY <1>6, <1>7

\* Induction on lists, by their last elements.
LEMMA ListInduction ==
    ASSUME NEW S, NEW P \in SUBSET Seq(S), <<>> \in P,
           \A s \in P : \A e \in S : Append(s, e) \in P
    PROVE  P = Seq(S)
<1> DEFINE N == {n \in Nat : \A s \in Seq(S) : Len(s) = n => s \in P}
<1>1. 0 \in N
  BY EmptySeq
<1>2. ASSUME NEW n \in N PROVE n + 1 \in N
  <2> SUFFICES ASSUME NEW s \in Seq(S), Len(s) = n + 1 PROVE s \in P
    OBVIOUS
  <2>1. s # <<>>
    BY <1>2, EmptySeq
  <2>2. PICK t \in Seq(S), e \in S : s = Append(t, e)
    BY <2>1, SequenceEmptyOrAppend
  <2>3. Len(t) = n
    BY <2>2, <1>2, AppendProperties, LenProperties
  <2>4. QED
    BY <1>2, <2>2, <2>3
<1>3. N = Nat
  <2> HIDE DEF N
  <2>1. N \in SUBSET Nat
    BY DEF N
  <2>2. QED
    BY <1>1, <1>2, <2>1, NumberInduction
<1>4. QED
  BY <1>3, LenProperties

----------------------------------------------------------------------------
(***************************************************************************)
(* Folds, as the community modules define them: by the greatest index of   *)
(* the list, then the next, down to the first.                             *)
(***************************************************************************)

\* An interval's nonempty subset has its greatest element; without it, it is
\* within the interval that ends before.
LEMMA GreatestOfInterval ==
    ASSUME NEW n \in Nat, NEW x \in SUBSET (1..n), x # {}
    PROVE  /\ Max(x) \in x
           /\ \A y \in x : y <= Max(x)
<1> DEFINE P == {k \in Nat : \A y \in SUBSET (1..k) :
                    y # {} => \E m \in y : \A z \in y : m >= z}
<1>1. 0 \in P
  <2>1. 1..0 = {}
    OBVIOUS
  <2>2. QED
    BY <2>1
<1>2. ASSUME NEW k \in P PROVE k + 1 \in P
  <2> SUFFICES ASSUME NEW y \in SUBSET (1..(k + 1)), y # {}
               PROVE  \E m \in y : \A z \in y : m >= z
    OBVIOUS
  <2>1. CASE k + 1 \in y
    BY <2>1
  <2>2. CASE k + 1 \notin y
    <3>1. y \in SUBSET (1..k)
      BY <2>2
    <3>2. QED
      BY <3>1
  <2>3. QED
    BY <2>1, <2>2
<1>3. P = Nat
  <2> HIDE DEF P
  <2>1. P \in SUBSET Nat
    BY DEF P
  <2>2. QED
    BY <1>1, <1>2, <2>1, NumberInduction
<1>4. \E m \in x : \A z \in x : m >= z
  BY <1>3
<1>5. Max(x) \in x /\ \A z \in x : Max(x) >= z
  BY <1>4 DEF Max
<1>6. QED
  BY <1>5

\* Taking the greatest element out of a set of indices.
LEMMA WithoutGreatest ==
    ASSUME NEW n \in Nat, NEW x \in SUBSET (1..n), x # {}
    PROVE  /\ Max(x) \in 1..n
           /\ x \ {Max(x)} \in SUBSET (1..n)
           /\ x \ {Max(x)} \in SUBSET (1..(Max(x) - 1))
<1>1. PICK m \in 1..n : m = Max(x) /\ \A y \in x : y <= m
  BY GreatestOfInterval
<1>2. \A y \in x \ {m} : y \in 1..(m - 1)
  <2> SUFFICES ASSUME NEW y \in x, y # m PROVE y \in 1..(m - 1)
    OBVIOUS
  <2>1. y \in 1..n /\ y <= m
    BY <1>1
  <2>2. QED
    BY <2>1
<1>3. QED
  BY <1>1, <1>2

\* it[x] is g folded over the elements of s at the indices x, from b.
FoldsBy(it, g, b, s) ==
    it = [x \in SUBSET DOMAIN s |->
            IF x = {} THEN b ELSE g[<<it[x \ {Max(x)}], s[Max(x)]>>]]

\* g folds elements of A into T.
FoldsInto(g, A, T) == g \in [T \X A -> T]

FoldOf(g, b, s) == (CHOOSE it : FoldsBy(it, g, b, s))[DOMAIN s]

\* What holds of nothing, and of a set of indices if it holds of the set
\* without its greatest one, holds of every set of indices.
LEMMA IndexInduction ==
    ASSUME NEW n \in Nat, NEW H \in SUBSET (SUBSET (1..n)), {} \in H,
           \A x \in SUBSET (1..n) : x # {} /\ x \ {Max(x)} \in H => x \in H
    PROVE  H = SUBSET (1..n)
<1> DEFINE P == {k \in Nat : k <= n => \A x \in SUBSET (1..k) : x \in H}
<1>1. 0 \in P
  <2>1. 1..0 = {}
    OBVIOUS
  <2>2. \A x \in SUBSET (1..0) : x = {}
    BY <2>1
  <2>3. QED
    BY <2>2
<1>2. ASSUME NEW k \in P PROVE k + 1 \in P
  <2> SUFFICES ASSUME k + 1 <= n, NEW x \in SUBSET (1..(k + 1)), x # {} PROVE x \in H
    OBVIOUS
  <2>1. x \in SUBSET (1..n)
    OBVIOUS
  <2>2. x \ {Max(x)} \in SUBSET (1..(Max(x) - 1)) /\ Max(x) \in 1..(k + 1)
    BY WithoutGreatest
  <2>3. x \ {Max(x)} \in SUBSET (1..k)
    BY <2>2
  <2>4. x \ {Max(x)} \in H
    BY <2>3
  <2>5. QED
    BY <2>1, <2>4
<1>3. P = Nat
  <2> HIDE DEF P
  <2>1. P \in SUBSET Nat
    BY DEF P
  <2>2. QED
    BY <1>1, <1>2, <2>1, NumberInduction
<1>4. \A x \in SUBSET (1..n) : x \in H
  <2>1. n \in P
    BY <1>3
  <2>2. n <= n
    OBVIOUS
  <2>3. QED
    BY <2>1, <2>2
<1>5. SUBSET (1..n) \subseteq H
  BY <1>4
<1>6. QED
  BY <1>5

\* There is a fold of every list.
LEMMA FoldExists ==
    ASSUME NEW T, NEW b \in T, NEW A, NEW s \in Seq(A), NEW g, FoldsInto(g, A, T)
    PROVE  \E it \in [SUBSET DOMAIN s -> T] : FoldsBy(it, g, b, s)
<1>0. PICK n \in Nat : n = Len(s) /\ DOMAIN s = 1..n /\ s \in [1..n -> A]
  BY LenProperties
<1> DEFINE Next(it, x) == IF x = {} THEN b ELSE g[<<it[x \ {Max(x)}], s[Max(x)]>>]
           Up(it, k) == \A x \in SUBSET (1..k) : it[x] = Next(it, x)
           P == {k \in Nat : k <= n => \E it \in [SUBSET (1..n) -> T] : Up(it, k)}
<1>1. 0 \in P
  <2> DEFINE it == [x \in SUBSET (1..n) |-> b]
  <2>1. it \in [SUBSET (1..n) -> T] /\ 1..0 = {} /\ {} \in SUBSET (1..n)
    OBVIOUS
  <2>2. Up(it, 0)
    BY <2>1
  <2> HIDE DEF Up, it
  <2>3. QED
    BY <2>1, <2>2
<1>t. ASSUME NEW it \in [SUBSET (1..n) -> T], NEW x \in SUBSET (1..n)
      PROVE  Next(it, x) \in T
  <2>1. CASE x # {}
    <3>1. it[x \ {Max(x)}] \in T /\ s[Max(x)] \in A
      BY <1>0, <2>1, WithoutGreatest
    <3>2. QED
      BY <2>1, <3>1 DEF FoldsInto
  <2>2. QED
    BY <2>1
<1>2. ASSUME NEW k \in P PROVE k + 1 \in P
  <2>0. SUFFICES ASSUME k + 1 <= n
                 PROVE  \E it \in [SUBSET (1..n) -> T] : Up(it, k + 1)
    <3> HIDE DEF Up
    <3>1. k \in Nat /\ k + 1 \in Nat
      OBVIOUS
    <3>2. QED
      BY <3>1
  <2>1. PICK it \in [SUBSET (1..n) -> T] : Up(it, k)
    <3> HIDE DEF Up
    <3>1. k \in Nat /\ k <= n
      BY <2>0
    <3>2. QED
      BY <3>1
  <2> DEFINE jt == [x \in SUBSET (1..n) |-> Next(it, x)]
  <2>2. jt \in [SUBSET (1..n) -> T]
    BY <1>t
  <2>3. ASSUME NEW x \in SUBSET (1..(k + 1)) PROVE jt[x] = Next(jt, x)
    <3>1. x \in SUBSET (1..n)
      BY <2>0
    <3>2. CASE x # {}
      <4>1. x \ {Max(x)} \in SUBSET (1..k)
        <5>1. x \ {Max(x)} \in SUBSET (1..(Max(x) - 1)) /\ Max(x) \in 1..(k + 1)
          <6>1. k + 1 \in Nat
            OBVIOUS
          <6>2. QED
            BY <3>2, <6>1, WithoutGreatest
        <5>2. QED
          BY <5>1
      <4>2. x \ {Max(x)} \in SUBSET (1..n)
        BY <3>1
      <4>3. jt[x \ {Max(x)}] = it[x \ {Max(x)}]
        BY <2>1, <4>1, <4>2
      <4>4. QED
        BY <3>1, <3>2, <4>3
    <3>3. QED
      BY <3>1, <3>2
  <2>4. QED
    BY <2>2, <2>3
<1>3. P = Nat
  <2> HIDE DEF P
  <2>1. P \in SUBSET Nat
    BY DEF P
  <2>2. QED
    BY <1>1, <1>2, <2>1, NumberInduction
<1>4. PICK it \in [SUBSET (1..n) -> T] : Up(it, n)
  <2> HIDE DEF Up
  <2>1. n \in P
    <3> HIDE DEF P
    <3>1. QED
      BY <1>3
  <2>2. n <= n
    OBVIOUS
  <2>3. QED
    BY <2>1, <2>2
<1>5. it = [x \in SUBSET (1..n) |-> Next(it, x)]
  BY <1>4
<1>6. QED
  BY <1>0, <1>4, <1>5 DEF FoldsBy

\* The folds of two lists agree where the lists do.
LEMMA FoldsAgree ==
    ASSUME NEW A, NEW s \in Seq(A), NEW t \in Seq(A), NEW g, NEW b, NEW it, NEW jt,
           FoldsBy(it, g, b, s), FoldsBy(jt, g, b, t),
           Len(s) <= Len(t), \A i \in 1..Len(s) : s[i] = t[i]
    PROVE  it[DOMAIN s] = jt[DOMAIN s]
<1>0. PICK n \in Nat : n = Len(s) /\ DOMAIN s = 1..n
  BY LenProperties
<1>1. 1..n \in SUBSET DOMAIN t /\ DOMAIN t = 1..Len(t)
  BY <1>0, LenProperties
<1> DEFINE H == {x \in SUBSET (1..n) : it[x] = jt[x]}
<1>2. {} \in H
  BY <1>0, <1>1 DEF FoldsBy
<1>3. ASSUME NEW x \in SUBSET (1..n), x # {}, x \ {Max(x)} \in H PROVE x \in H
  <2>1. Max(x) \in 1..n
    BY <1>3, WithoutGreatest
  <2>2. x \in SUBSET DOMAIN s /\ x \in SUBSET DOMAIN t
    BY <1>0, <1>1
  <2>3. it[x] = g[<<it[x \ {Max(x)}], s[Max(x)]>>]
    BY <1>3, <2>2 DEF FoldsBy
  <2>4. jt[x] = g[<<jt[x \ {Max(x)}], t[Max(x)]>>]
    BY <1>3, <2>2 DEF FoldsBy
  <2>5. QED
    BY <1>0, <1>3, <2>1, <2>3, <2>4
<1>4. H = SUBSET (1..n)
  <2> HIDE DEF H
  <2>1. H \in SUBSET (SUBSET (1..n))
    BY DEF H
  <2>2. QED
    BY <1>2, <1>3, <2>1, IndexInduction
<1>5. QED
  BY <1>0, <1>4

\* What a fold computes, step by step from the front of the list.
LEMMA FoldSteps ==
    ASSUME NEW T, NEW b \in T, NEW A, NEW g, FoldsInto(g, A, T)
    PROVE  /\ FoldOf(g, b, <<>>) = b
           /\ \A s \in Seq(A) : FoldOf(g, b, s) \in T
           /\ \A s \in Seq(A), e \in A :
                FoldOf(g, b, Append(s, e)) = g[<<FoldOf(g, b, s), e>>]
<1>1. ASSUME NEW s \in Seq(A)
      PROVE  \E it \in [SUBSET DOMAIN s -> T] :
                FoldsBy(it, g, b, s) /\ FoldOf(g, b, s) = it[DOMAIN s]
  <2>1. PICK it \in [SUBSET DOMAIN s -> T] : FoldsBy(it, g, b, s)
    BY FoldExists
  <2>2. FoldsBy(CHOOSE jt : FoldsBy(jt, g, b, s), g, b, s)
    BY <2>1
  <2>3. it[DOMAIN s] = (CHOOSE jt : FoldsBy(jt, g, b, s))[DOMAIN s]
    BY <2>1, <2>2, FoldsAgree, LenProperties
  <2>4. QED
    BY <2>1, <2>3 DEF FoldOf
<1>2. FoldOf(g, b, <<>>) = b
  <2>1. <<>> \in Seq(A) /\ DOMAIN <<>> = {}
    BY EmptySeq
  <2>2. PICK it : FoldsBy(it, g, b, <<>>) /\ FoldOf(g, b, <<>>) = it[DOMAIN <<>>]
    BY <1>1, <2>1
  <2>3. QED
    BY <2>1, <2>2 DEF FoldsBy
<1>3. ASSUME NEW s \in Seq(A) PROVE FoldOf(g, b, s) \in T
  <2>1. PICK it \in [SUBSET DOMAIN s -> T] : FoldOf(g, b, s) = it[DOMAIN s]
    BY <1>1
  <2>2. QED
    BY <2>1
<1>4. ASSUME NEW s \in Seq(A), NEW e \in A
      PROVE  FoldOf(g, b, Append(s, e)) = g[<<FoldOf(g, b, s), e>>]
  <2>0. PICK n \in Nat : n = Len(s) /\ DOMAIN s = 1..n
    BY LenProperties
  <2>1. PICK t : t = Append(s, e)
    OBVIOUS
  <2>2. /\ t \in Seq(A) /\ Len(t) = n + 1 /\ DOMAIN t = 1..(n + 1)
        /\ \A i \in 1..n : t[i] = s[i]
        /\ t[n + 1] = e
    BY <2>0, <2>1, AppendProperties, LenProperties
  <2>3. PICK it : FoldsBy(it, g, b, s) /\ FoldOf(g, b, s) = it[DOMAIN s]
    BY <1>1
  <2>4. PICK jt : FoldsBy(jt, g, b, t) /\ FoldOf(g, b, t) = jt[DOMAIN t]
    BY <1>1, <2>2
  <2>5. it[DOMAIN s] = jt[DOMAIN s]
    BY <2>0, <2>2, <2>3, <2>4, FoldsAgree
  <2>6. PICK I : I = 1..(n + 1)
    OBVIOUS
  <2>7. I # {} /\ I \ {n + 1} = 1..n /\ n + 1 \in I /\ n + 1 \in Nat
    <3>1. \A i \in I : i # n + 1 => i \in 1..n
      BY <2>6
    <3>2. \A i \in 1..n : i \in I /\ i # n + 1
      BY <2>6
    <3>3. n + 1 \in I /\ n + 1 \in Nat
      BY <2>6
    <3>4. QED
      BY <3>1, <3>2, <3>3
  <2>8. Max(I) = n + 1
    <3>1. Max(I) \in I /\ \A y \in I : y <= Max(I)
      BY <2>6, <2>7, GreatestOfInterval
    <3>2. QED
      BY <2>6, <2>7, <3>1
  <2>10. jt[I] = g[<<jt[1..n], t[n + 1]>>]
    <3>1. I \in SUBSET DOMAIN t
      BY <2>2, <2>6
    <3>2. jt[I] = g[<<jt[I \ {Max(I)}], t[Max(I)]>>]
      BY <2>4, <2>7, <3>1 DEF FoldsBy
    <3>3. QED
      BY <2>7, <2>8, <3>2
  <2>9. QED
    BY <2>0, <2>1, <2>2, <2>3, <2>4, <2>5, <2>6, <2>10
<1>5. QED
  BY <1>2, <1>3, <1>4

\* A recursion over the indices of a list that folds elements of T into
\* elements of T is the fold by that function.
LEMMA FoldIsTyped ==
    ASSUME NEW T, NEW n \in Nat, NEW it, it[{}] \in T,
           \A x \in SUBSET (1..n) : x # {} /\ it[x \ {Max(x)}] \in T => it[x] \in T
    PROVE  \A x \in SUBSET (1..n) : it[x] \in T
<1> DEFINE H == {x \in SUBSET (1..n) : it[x] \in T}
<1>1. {} \in H
  OBVIOUS
<1>2. \A x \in SUBSET (1..n) : x # {} /\ x \ {Max(x)} \in H => x \in H
  OBVIOUS
<1>3. H = SUBSET (1..n)
  <2> HIDE DEF H
  <2>1. H \in SUBSET (SUBSET (1..n))
    BY DEF H
  <2>2. QED
    BY <1>1, <1>2, <2>1, IndexInduction
<1>4. QED
  BY <1>3

\* All folds of a list agree.
LEMMA FoldIsOf ==
    ASSUME NEW T, NEW b \in T, NEW A, NEW s \in Seq(A), NEW g, FoldsInto(g, A, T),
           NEW it, FoldsBy(it, g, b, s)
    PROVE  FoldOf(g, b, s) = it[DOMAIN s]
<1>1. FoldsBy(CHOOSE jt : FoldsBy(jt, g, b, s), g, b, s)
  OBVIOUS
<1>2. (CHOOSE jt : FoldsBy(jt, g, b, s))[DOMAIN s] = it[DOMAIN s]
  BY <1>1, FoldsAgree, LenProperties
<1>3. QED
  BY <1>2 DEF FoldOf

----------------------------------------------------------------------------
(***************************************************************************)
(* Without, and FlattenSeq.                                                *)
(***************************************************************************)

\* The step of Without.
Keep(A, S) == [p \in Seq(A) \X A |-> IF p[2] \in S THEN p[1] ELSE Append(p[1], p[2])]

LEMMA KeepType ==
    ASSUME NEW A, NEW S
    PROVE  /\ FoldsInto(Keep(A, S), A, Seq(A))
           /\ <<>> \in Seq(A)
           /\ \A t \in Seq(A), e \in A :
                Keep(A, S)[<<t, e>>] = IF e \in S THEN t ELSE Append(t, e)
BY DEF Keep, FoldsInto

\* Without is a fold.
LEMMA WithoutIsFold ==
    ASSUME NEW A, NEW S, NEW s \in Seq(A)
    PROVE  Without(s, S) = FoldOf(Keep(A, S), <<>>, s)
<1> DEFINE Step(it, x) ==
               IF x = {} THEN <<>>
               ELSE IF s[Max(x)] \in S THEN it[x \ {Max(x)}]
                    ELSE Append(it[x \ {Max(x)}], s[Max(x)])
<1>0. PICK n \in Nat : n = Len(s) /\ DOMAIN s = 1..n /\ s \in [1..n -> A]
  BY LenProperties
<1>g. PICK g :
        /\ FoldsInto(g, A, Seq(A)) /\ g = Keep(A, S) /\ <<>> \in Seq(A)
        /\ \A t \in Seq(A), e \in A : g[<<t, e>>] = IF e \in S THEN t ELSE Append(t, e)
  BY KeepType
<1>1. PICK it \in [SUBSET DOMAIN s -> Seq(A)] : FoldsBy(it, g, <<>>, s)
  BY <1>g, FoldExists
<1>2. ASSUME NEW x \in SUBSET (1..n), x # {} PROVE s[Max(x)] \in A
  BY <1>0, <1>2, WithoutGreatest
<1>3. it = [x \in SUBSET DOMAIN s |-> Step(it, x)]
  <2>1. ASSUME NEW x \in SUBSET DOMAIN s PROVE it[x] = Step(it, x)
    <3>1. CASE x # {}
      <4>1. it[x] = g[<<it[x \ {Max(x)}], s[Max(x)]>>]
        BY <1>1, <3>1 DEF FoldsBy
      <4>2. it[x \ {Max(x)}] \in Seq(A) /\ s[Max(x)] \in A
        BY <1>0, <1>1, <1>2, <3>1
      <4>3. QED
        BY <1>g, <3>1, <4>1, <4>2
    <3>2. CASE x = {}
      BY <1>1, <3>2 DEF FoldsBy
    <3>3. QED
      BY <3>1, <3>2
  <2>2. QED
    BY <2>1
<1>4. PICK jt : /\ jt = [x \in SUBSET DOMAIN s |-> Step(jt, x)]
                /\ Without(s, S) = jt[DOMAIN s]
  <2>1. Without(s, S) =
          (CHOOSE jt : jt = [x \in SUBSET DOMAIN s |-> Step(jt, x)])[DOMAIN s]
    BY DEF Without, FoldLeft, MapThenFoldSet
  <2> HIDE DEF Step
  <2>2. QED
    BY <1>3, <2>1
<1>5. \A x \in SUBSET (1..n) : jt[x] \in Seq(A)
  <2>1. jt[{}] \in Seq(A)
    BY <1>4, <1>0
  <2>2. ASSUME NEW x \in SUBSET (1..n), x # {}, jt[x \ {Max(x)}] \in Seq(A)
        PROVE  jt[x] \in Seq(A)
    <3>1. jt[x] = Step(jt, x)
      BY <1>4, <1>0
    <3>2. QED
      BY <1>2, <2>2, <3>1
  <2>3. QED
    BY <2>1, <2>2, FoldIsTyped
<1>6. FoldsBy(jt, g, <<>>, s)
  <2>1. ASSUME NEW x \in SUBSET DOMAIN s, x # {}
        PROVE  g[<<jt[x \ {Max(x)}], s[Max(x)]>>] = Step(jt, x)
    <3>1. jt[x \ {Max(x)}] \in Seq(A) /\ s[Max(x)] \in A
      BY <1>0, <1>2, <1>5, <2>1
    <3>2. QED
      BY <1>g, <2>1, <3>1
  <2>2. QED
    BY <1>4, <2>1 DEF FoldsBy
<1>7. FoldOf(g, <<>>, s) = jt[DOMAIN s]
  <2>1. PICK T : T = Seq(A)
    OBVIOUS
  <2>2. FoldsInto(g, A, T) /\ <<>> \in T
    BY <1>g, <2>1
  <2>3. QED
    BY <2>2, <1>6, FoldIsOf
<1>8. QED
  BY <1>g, <1>4, <1>7

\* What Without leaves, element by element.
LEMMA WithoutSteps ==
    ASSUME NEW A, NEW S
    PROVE  /\ Without(<<>>, S) = <<>>
           /\ \A s \in Seq(A) : Without(s, S) \in Seq(A)
           /\ \A s \in Seq(A), e \in A :
                Without(Append(s, e), S) = IF e \in S THEN Without(s, S)
                                           ELSE Append(Without(s, S), e)
<1>1. \A s \in Seq(A) : Without(s, S) = FoldOf(Keep(A, S), <<>>, s)
  BY WithoutIsFold
<1>2. /\ FoldOf(Keep(A, S), <<>>, <<>>) = <<>>
      /\ \A s \in Seq(A) : FoldOf(Keep(A, S), <<>>, s) \in Seq(A)
      /\ \A s \in Seq(A), e \in A :
            FoldOf(Keep(A, S), <<>>, Append(s, e)) = Keep(A, S)[<<FoldOf(Keep(A, S), <<>>, s), e>>]
  <2>1. PICK T : T = Seq(A)
    OBVIOUS
  <2>2. PICK g : FoldsInto(g, A, T) /\ g = Keep(A, S) /\ <<>> \in T
    BY <2>1, KeepType
  <2>3. /\ FoldOf(g, <<>>, <<>>) = <<>>
        /\ \A s \in Seq(A) : FoldOf(g, <<>>, s) \in T
        /\ \A s \in Seq(A), e \in A :
              FoldOf(g, <<>>, Append(s, e)) = g[<<FoldOf(g, <<>>, s), e>>]
    BY <2>2, FoldSteps
  <2>4. QED
    BY <2>1, <2>2, <2>3
<1>3. \A s \in Seq(A), e \in A : Append(s, e) \in Seq(A)
  OBVIOUS
<1>4. ASSUME NEW s \in Seq(A), NEW e \in A
      PROVE  Without(Append(s, e), S) = IF e \in S THEN Without(s, S)
                                        ELSE Append(Without(s, S), e)
  <2>1. PICK t \in Seq(A) : t = FoldOf(Keep(A, S), <<>>, s)
    BY <1>2
  <2>2. Without(Append(s, e), S) = Keep(A, S)[<<t, e>>]
    BY <1>1, <1>2, <1>3, <2>1
  <2>3. QED
    BY <1>1, <2>1, <2>2, KeepType
<1>5. QED
  BY <1>1, <1>2, <1>4, EmptySeq

\* The step of FlattenSeq.
Glue(A) == [p \in Seq(A) \X Seq(A) |-> p[1] \o p[2]]

LEMMA GlueType ==
    ASSUME NEW A
    PROVE  /\ FoldsInto(Glue(A), Seq(A), Seq(A))
           /\ <<>> \in Seq(A)
           /\ \A s, t \in Seq(A) : Glue(A)[<<s, t>>] = s \o t
<1>1. \A s, t \in Seq(A) : s \o t \in Seq(A)
  BY ConcatProperties
<1>2. \A p \in Seq(A) \X Seq(A) : p[1] \in Seq(A) /\ p[2] \in Seq(A)
  OBVIOUS
<1>3. \A p \in Seq(A) \X Seq(A) : p[1] \o p[2] \in Seq(A)
  BY <1>1, <1>2
<1>4. FoldsInto(Glue(A), Seq(A), Seq(A))
  BY <1>3 DEF Glue, FoldsInto
<1>5. \A s, t \in Seq(A) : Glue(A)[<<s, t>>] = s \o t
  BY DEF Glue
<1>6. QED
  BY <1>4, <1>5, EmptySeq

\* The fold by Glue, step by step.
LEMMA GlueSteps ==
    ASSUME NEW A
    PROVE  /\ FoldOf(Glue(A), <<>>, <<>>) = <<>>
           /\ \A ss \in Seq(Seq(A)) : FoldOf(Glue(A), <<>>, ss) \in Seq(A)
           /\ \A ss \in Seq(Seq(A)), s \in Seq(A) :
                FoldOf(Glue(A), <<>>, Append(ss, s)) = FoldOf(Glue(A), <<>>, ss) \o s
<1>1. PICK T : T = Seq(A)
  OBVIOUS
<1>2. PICK g : FoldsInto(g, T, T) /\ g = Glue(A) /\ <<>> \in T
  BY <1>1, GlueType
<1>3. /\ FoldOf(g, <<>>, <<>>) = <<>>
      /\ \A ss \in Seq(T) : FoldOf(g, <<>>, ss) \in T
      /\ \A ss \in Seq(T), s \in T :
            FoldOf(g, <<>>, Append(ss, s)) = g[<<FoldOf(g, <<>>, ss), s>>]
  BY <1>2, FoldSteps
<1>4. \A s, t \in T : g[<<s, t>>] = s \o t
  BY <1>1, <1>2, GlueType
<1>5. ASSUME NEW ss \in Seq(T), NEW s \in T
      PROVE  FoldOf(g, <<>>, Append(ss, s)) = FoldOf(g, <<>>, ss) \o s
  <2>1. PICK t \in T : t = FoldOf(g, <<>>, ss)
    BY <1>3
  <2>2. FoldOf(g, <<>>, Append(ss, s)) = g[<<t, s>>]
    BY <1>3, <2>1
  <2>3. QED
    BY <1>4, <2>1, <2>2
<1>6. QED
  BY <1>1, <1>2, <1>3, <1>5

\* FlattenSeq is a fold.
LEMMA FlattenIsFold ==
    ASSUME NEW A, NEW ss \in Seq(Seq(A)), ss # <<>>
    PROVE  FlattenSeq(ss) = FoldOf(Glue(A), <<>>, ss)
<1>0. PICK n \in Nat \ {0} : n = Len(ss) /\ ss \in [1..n -> Seq(A)]
  BY LenProperties, EmptySeq
<1> DEFINE Step(f, i) == IF i = 1 THEN ss[i] ELSE f[i - 1] \o ss[i]
           G(i) == FoldOf(Glue(A), <<>>, SubSeq(ss, 1, i))
<1>1. \A i \in 0..n : SubSeq(ss, 1, i) \in Seq(Seq(A))
  BY <1>0, SubSeqProperties
<1>2. ASSUME NEW i \in 1..n PROVE G(i) = G(i - 1) \o ss[i]
  <2>1. SubSeq(ss, 1, i) = SubSeq(ss, 1, i - 1) \o <<ss[i]>>
    BY <1>0, SubSeqRecursiveSecond
  <2>2. SubSeq(ss, 1, i) = Append(SubSeq(ss, 1, i - 1), ss[i])
    BY <1>0, <1>1, <2>1, AppendIsConcat
  <2>3. i - 1 \in 0..n /\ ss[i] \in Seq(A)
    BY <1>0
  <2>4. SubSeq(ss, 1, i - 1) \in Seq(Seq(A))
    BY <1>1, <2>3
  <2>5. QED
    BY ZenonT(30), <2>2, <2>3, <2>4, GlueSteps
<1>3. G(0) = <<>> /\ \A i \in 0..n : G(i) \in Seq(A)
  <2>1. SubSeq(ss, 1, 0) = <<>>
    BY SubSeqEmpty
  <2>2. QED
    BY <1>1, <2>1, GlueSteps
<1>4. ASSUME NEW i \in 1..n PROVE G(i) = IF i = 1 THEN ss[i] ELSE G(i - 1) \o ss[i]
  <2>1. CASE i = 1
    <3>1. ss[1] \in Seq(A) /\ i - 1 = 0
      BY <1>0, <2>1
    <3>2. G(i) = <<>> \o ss[1]
      BY <1>2, <1>3, <2>1, <3>1
    <3>3. QED
      BY <2>1, <3>1, <3>2, ConcatEmptySeq
  <2>2. CASE i # 1
    BY <1>2, <2>2
  <2>3. QED
    BY <2>1, <2>2
<1> HIDE DEF G
<1> DEFINE f == [i \in 1..n |-> G(i)]
<1>5. f = [i \in 1..n |-> Step(f, i)]
  <2>1. ASSUME NEW i \in 1..n PROVE f[i] = Step(f, i)
    <3>1. CASE i # 1
      <4>1. i - 1 \in 1..n
        BY <3>1, <1>0
      <4>2. QED
        BY <1>4, <3>1, <4>1
    <3>2. QED
      BY <1>4, <3>1
  <2>2. QED
    BY <2>1
<1>6. PICK h : h = [i \in 1..n |-> Step(h, i)] /\ FlattenSeq(ss) = h[n]
  <2>1. FlattenSeq(ss) = (CHOOSE h : h = [i \in 1..n |-> Step(h, i)])[n]
    BY <1>0 DEF FlattenSeq
  <2> HIDE DEF Step, f
  <2>2. QED
    BY <1>5, <2>1
<1> DEFINE P == {k \in Nat : \A i \in 1..n : i <= k => h[i] = G(i)}
<1>7. 0 \in P
  OBVIOUS
<1>8. ASSUME NEW k \in P PROVE k + 1 \in P
  <2> SUFFICES ASSUME NEW i \in 1..n, i <= k + 1 PROVE h[i] = G(i)
    OBVIOUS
  <2>1. h[i] = Step(h, i)
    BY <1>6
  <2>2. CASE i = 1
    BY <1>4, <2>1, <2>2
  <2>3. CASE i # 1
    <3>1. i - 1 \in 1..n /\ i - 1 <= k
      BY <1>0, <2>3
    <3>2. QED
      BY <1>4, <1>8, <2>1, <2>3, <3>1
  <2>4. QED
    BY <2>2, <2>3
<1>9. P = Nat
  <2> HIDE DEF P
  <2>1. P \in SUBSET Nat
    BY DEF P
  <2>2. QED
    BY <1>7, <1>8, <2>1, NumberInduction
<1>10. h[n] = G(n)
  <2>1. n \in P /\ n \in 1..n /\ n <= n
    BY <1>0, <1>9
  <2>2. QED
    BY <2>1
<1>11. SubSeq(ss, 1, n) = ss
  BY <1>0, SubSeqFull
<1>12. QED
  BY <1>6, <1>10, <1>11 DEF G

\* What FlattenSeq computes, list by list.
LEMMA FlattenSteps ==
    ASSUME NEW A
    PROVE  /\ FlattenSeq(<<>>) = <<>>
           /\ \A ss \in Seq(Seq(A)) : FlattenSeq(ss) \in Seq(A)
           /\ \A ss \in Seq(Seq(A)), s \in Seq(A) :
                FlattenSeq(Append(ss, s)) = FlattenSeq(ss) \o s
<1>1. FlattenSeq(<<>>) = <<>>
  BY EmptySeq DEF FlattenSeq
<1>2. \A ss \in Seq(Seq(A)) : FlattenSeq(ss) = FoldOf(Glue(A), <<>>, ss)
  BY <1>1, FlattenIsFold, GlueSteps
<1>3. \A ss \in Seq(Seq(A)), s \in Seq(A) : Append(ss, s) \in Seq(Seq(A))
  BY AppendProperties
<1>4. QED
  BY <1>1, <1>2, <1>3, GlueSteps

\* Without leaves a list alone that has none of the elements.
LEMMA WithoutNone ==
    ASSUME NEW A, NEW S, NEW s \in Seq(A), \A i \in DOMAIN s : s[i] \notin S
    PROVE  Without(s, S) = s
<1> DEFINE B == A \ S
           P == {t \in Seq(B) : Without(t, S) = t}
<1>1. s \in Seq(B)
  <2>1. s \in [1..Len(s) -> A] /\ Len(s) \in Nat /\ DOMAIN s = 1..Len(s)
    BY LenProperties
  <2>2. s \in [1..Len(s) -> B]
    BY <2>1
  <2>3. QED
    BY <2>1, <2>2, IsASeq
<1>2. <<>> \in P
  <2>1. <<>> \in Seq(B)
    BY EmptySeq
  <2>2. Without(<<>>, S) = <<>>
    BY WithoutSteps
  <2>3. QED
    BY <2>1, <2>2
<1>3. ASSUME NEW t \in P, NEW e \in B PROVE Append(t, e) \in P
  <2>1. t \in Seq(B) /\ Without(t, S) = t /\ e \notin S
    OBVIOUS
  <2>2. Append(t, e) \in Seq(B)
    BY <2>1, AppendProperties
  <2>3. Without(Append(t, e), S) = Append(Without(t, S), e)
    <3>1. t \in Seq(B) /\ e \in B /\ e \notin S
      BY <2>1
    <3>2. \A u \in Seq(B), f \in B :
             Without(Append(u, f), S) = IF f \in S THEN Without(u, S)
                                        ELSE Append(Without(u, S), f)
      <4> HIDE DEF B
      <4>1. QED
        BY WithoutSteps
    <3> HIDE DEF B, P
    <3>3. QED
      BY <3>1, <3>2
  <2>4. QED
    BY <2>1, <2>2, <2>3
<1>4. P = Seq(B)
  <2> HIDE DEF B
  <2>1. P \in SUBSET Seq(B)
    OBVIOUS
  <2> HIDE DEF P
  <2>2. QED
    BY <1>2, <1>3, <2>1, ListInduction
<1>5. QED
  BY <1>1, <1>4

----------------------------------------------------------------------------
(***************************************************************************)
(* Lists put together.                                                     *)
(***************************************************************************)

LEMMA ConcatAppend ==
    ASSUME NEW A, NEW s \in Seq(A), NEW t \in Seq(A), NEW e \in A
    PROVE  s \o Append(t, e) = Append(s \o t, e)
<1>1. <<e>> \in Seq(A) /\ s \o t \in Seq(A)
  BY ConcatProperties
<1>2. Append(t, e) = t \o <<e>> /\ Append(s \o t, e) = (s \o t) \o <<e>>
  BY <1>1, AppendIsConcat
<1>3. QED
  BY <1>1, <1>2, ConcatAssociative

\* A list begins with its prefixes.
LEMMA PrefixIs ==
    ASSUME NEW A, NEW s \in Seq(A), NEW t \in Seq(A)
    PROVE  IsPrefix(s, t) <=> \E u \in Seq(A) : t = s \o u
<1>1. PICK m \in Nat : m = Len(s) /\ s \in [1..m -> A] /\ DOMAIN s = 1..m
  BY LenProperties
<1>2. PICK n \in Nat : n = Len(t) /\ t \in [1..n -> A] /\ DOMAIN t = 1..n
  BY LenProperties
<1>3. SubSeq(s, 1, m) = s
  BY <1>1, SubSeqFull
<1>4. IsPrefix(s, t) <=> m <= n /\ s = SubSeq(t, 1, m)
  BY <1>1, <1>2, <1>3 DEF IsPrefix
<1>5. ASSUME m <= n, s = SubSeq(t, 1, m) PROVE \E u \in Seq(A) : t = s \o u
  <2>1. SubSeq(t, 1, m) \o SubSeq(t, m + 1, n) = SubSeq(t, 1, n)
    <3>1. 1 \in 1..Len(t) + 1 /\ m \in (1 - 1)..Len(t) /\ n \in m..Len(t)
      BY <1>1, <1>2, <1>5
    <3>2. QED
      BY <3>1, ConcatAdjacentSubSeq
  <2>2. SubSeq(t, 1, n) = t
    BY <1>2, SubSeqFull
  <2>3. SubSeq(t, m + 1, n) \in Seq(A)
    <3>1. \A i \in (m + 1)..n : t[i] \in A
      BY <1>1, <1>2
    <3>2. m + 1 \in Int /\ n \in Int
      BY <1>1, <1>2
    <3>3. QED
      BY <3>1, <3>2, SubSeqProperties
  <2>4. QED
    BY <1>5, <2>1, <2>2, <2>3
<1>6. ASSUME NEW u \in Seq(A), t = s \o u PROVE m <= n /\ s = SubSeq(t, 1, m)
  <2>1. PICK k \in Nat : k = Len(u)
    BY LenProperties
  <2>2. n = m + k /\ \A i \in 1..m : t[i] = s[i]
    BY <1>1, <1>2, <1>6, <2>1, ConcatProperties
  <2>3. m <= n
    BY <2>2
  <2>4. /\ SubSeq(t, 1, m) \in Seq(A)
        /\ Len(SubSeq(t, 1, m)) = IF 1 <= m THEN m - 1 + 1 ELSE 0
        /\ \A i \in 1..m - 1 + 1 : SubSeq(t, 1, m)[i] = t[1 + i - 1]
    <3>1. \A i \in 1..m : t[i] \in A
      BY <1>1, <1>2, <2>3
    <3>2. 1 \in Int /\ m \in Int
      BY <1>1
    <3>3. QED
      BY <3>1, <3>2, SubSeqProperties
  <2>5. Len(SubSeq(t, 1, m)) = m /\ \A i \in 1..m : SubSeq(t, 1, m)[i] = s[i]
    BY <1>1, <2>2, <2>4
  <2>6. s = SubSeq(t, 1, m)
    BY <1>1, <2>4, <2>5, SeqEqual
  <2>7. QED
    BY <2>3, <2>6
<1>7. QED
  BY <1>4, <1>5, <1>6

\* FlattenSeq of two lists of lists.
LEMMA FlattenConcat ==
    ASSUME NEW A, NEW ss \in Seq(Seq(A)), NEW tt \in Seq(Seq(A))
    PROVE  FlattenSeq(ss \o tt) = FlattenSeq(ss) \o FlattenSeq(tt)
<1> DEFINE P == {u \in Seq(Seq(A)) : FlattenSeq(ss \o u) = FlattenSeq(ss) \o FlattenSeq(u)}
<1>1. <<>> \in P
  <2>1. <<>> \in Seq(Seq(A)) /\ ss \o <<>> = ss
    BY EmptySeq, ConcatEmptySeq
  <2>2. FlattenSeq(ss) \in Seq(A) /\ FlattenSeq(<<>>) = <<>>
    BY FlattenSteps
  <2>3. QED
    BY <2>1, <2>2, ConcatEmptySeq
<1>2. ASSUME NEW u \in P, NEW s \in Seq(A) PROVE Append(u, s) \in P
  <2>1. PICK v : v = ss \o u
    OBVIOUS
  <2>2. v \in Seq(Seq(A)) /\ u \in Seq(Seq(A)) /\ Append(u, s) \in Seq(Seq(A))
    BY <1>2, <2>1, ConcatProperties, AppendProperties
  <2>3. ss \o Append(u, s) = Append(v, s)
    BY SMTT(30), <2>1, <2>2, ConcatAppend
  <2>4. FlattenSeq(Append(v, s)) = FlattenSeq(v) \o s
    BY <2>2, FlattenSteps
  <2>5. FlattenSeq(Append(u, s)) = FlattenSeq(u) \o s
    BY <2>2, FlattenSteps
  <2>6. PICK a, b : a = FlattenSeq(ss) /\ b = FlattenSeq(u)
    OBVIOUS
  <2>7. a \in Seq(A) /\ b \in Seq(A)
    BY <2>2, <2>6, FlattenSteps
  <2>8. FlattenSeq(v) = a \o b
    BY <1>2, <2>1, <2>6
  <2>9. (a \o b) \o s = a \o (b \o s)
    <3> HIDE DEF P
    <3>1. QED
      BY SMTT(30), <1>2, <2>7, ConcatAssociative
  <2>10. FlattenSeq(ss \o Append(u, s)) = FlattenSeq(ss) \o FlattenSeq(Append(u, s))
    BY <2>3, <2>4, <2>5, <2>6, <2>8, <2>9
  <2>11. QED
    BY <2>2, <2>10
<1>3. P = Seq(Seq(A))
  <2>1. P \in SUBSET Seq(Seq(A))
    OBVIOUS
  <2> HIDE DEF P
  <2>2. QED
    BY <1>1, <1>2, <2>1, ListInduction
<1>4. QED
  BY <1>3

\* h maps A into T.
MapsInto(h, A, T) == h \in [A -> T]

\* A list mapped by h, one element longer.
LEMMA ImageAppend ==
    ASSUME NEW A, NEW T, NEW h, MapsInto(h, A, T), NEW s \in Seq(A), NEW e \in A
    PROVE  /\ [i \in DOMAIN s |-> h[s[i]]] \in Seq(T)
           /\ [i \in DOMAIN Append(s, e) |-> h[Append(s, e)[i]]]
                = Append([i \in DOMAIN s |-> h[s[i]]], h[e])
<1>1. PICK n \in Nat : n = Len(s) /\ DOMAIN s = 1..n /\ s \in [1..n -> A]
  BY LenProperties
<1>2. PICK t : t = Append(s, e)
  OBVIOUS
<1>3. /\ t \in Seq(A) /\ Len(t) = n + 1 /\ DOMAIN t = 1..(n + 1) /\ t \in [1..(n + 1) -> A]
      /\ \A i \in 1..n : t[i] = s[i]
      /\ t[n + 1] = e
  <2>1. /\ t \in Seq(A) /\ Len(t) = n + 1
        /\ \A i \in 1..n : t[i] = s[i]
        /\ t[n + 1] = e
    BY <1>1, <1>2, AppendProperties
  <2>2. QED
    BY <2>1, LenProperties
<1>4. PICK u : u = [i \in 1..n |-> h[s[i]]]
  OBVIOUS
<1>5. u \in Seq(T) /\ Len(u) = n /\ \A i \in 1..n : u[i] = h[s[i]]
  <2>1. u \in [1..n -> T]
    BY <1>1, <1>4 DEF MapsInto
  <2>2. u \in Seq(T)
    BY <1>4, <2>1, IsASeq
  <2>3. QED
    BY <1>4, <2>1, <2>2, LenProperties
<1>6. PICK v : v = [i \in 1..(n + 1) |-> h[t[i]]]
  OBVIOUS
<1>7. v \in Seq(T) /\ Len(v) = n + 1 /\ \A i \in 1..(n + 1) : v[i] = h[t[i]]
  <2>1. v \in [1..(n + 1) -> T] /\ n + 1 \in Nat
    BY <1>3, <1>6 DEF MapsInto
  <2>2. v \in Seq(T)
    BY <1>6, <2>1, IsASeq
  <2>3. QED
    BY <1>6, <2>1, <2>2, LenProperties
<1>8. PICK w : w = Append(u, h[e])
  OBVIOUS
<1>h. h[e] \in T
  BY DEF MapsInto
<1>9. /\ w \in Seq(T) /\ Len(w) = n + 1
      /\ \A i \in 1..n : w[i] = u[i]
      /\ w[n + 1] = h[e]
  BY <1>5, <1>8, <1>h, AppendProperties
<1>10. \A i \in 1..(n + 1) : v[i] = w[i]
  <2> SUFFICES ASSUME NEW i \in 1..(n + 1) PROVE v[i] = w[i]
    OBVIOUS
  <2>1. CASE i \in 1..n
    BY <1>3, <1>5, <1>7, <1>9, <2>1
  <2>2. CASE i = n + 1
    BY <1>3, <1>7, <1>9, <2>2
  <2>3. QED
    BY <2>1, <2>2
<1>11. v = w
  BY <1>7, <1>9, <1>10, SeqEqual
<1>12. QED
  BY <1>1, <1>2, <1>3, <1>4, <1>5, <1>6, <1>8, <1>11

\* Every element replaced by a list, and the lists put together.
Mapped(h, s) == FlattenSeq([i \in DOMAIN s |-> h[s[i]]])

LEMMA MappedSteps ==
    ASSUME NEW A, NEW B, NEW h, MapsInto(h, A, Seq(B))
    PROVE  /\ Mapped(h, <<>>) = <<>>
           /\ \A s \in Seq(A) : Mapped(h, s) \in Seq(B)
           /\ \A s \in Seq(A), e \in A : Mapped(h, Append(s, e)) = Mapped(h, s) \o h[e]
<1>1. Mapped(h, <<>>) = <<>>
  <2>1. [i \in DOMAIN <<>> |-> h[<<>>[i]]] = <<>>
    BY EmptySeq
  <2>2. QED
    BY <2>1, FlattenSteps DEF Mapped
<1>2. PICK T : T = Seq(B)
  OBVIOUS
<1>3. ASSUME NEW s \in Seq(A), NEW e \in A
      PROVE  /\ [i \in DOMAIN s |-> h[s[i]]] \in Seq(T)
             /\ Mapped(h, Append(s, e)) = FlattenSeq(Append([i \in DOMAIN s |-> h[s[i]]], h[e]))
  <2>1. MapsInto(h, A, T)
    BY <1>2
  <2>2. /\ [i \in DOMAIN s |-> h[s[i]]] \in Seq(T)
        /\ [i \in DOMAIN Append(s, e) |-> h[Append(s, e)[i]]]
             = Append([i \in DOMAIN s |-> h[s[i]]], h[e])
    BY <2>1, ImageAppend
  <2>3. QED
    BY <2>2 DEF Mapped
<1>4. ASSUME NEW s \in Seq(A) PROVE [i \in DOMAIN s |-> h[s[i]]] \in Seq(T)
  <2>1. PICK n \in Nat : n = Len(s) /\ DOMAIN s = 1..n /\ s \in [1..n -> A]
    BY LenProperties
  <2>2. [i \in DOMAIN s |-> h[s[i]]] \in [1..n -> T]
    BY <1>2, <2>1 DEF MapsInto
  <2>3. QED
    BY <2>1, <2>2, IsASeq
<1>5. ASSUME NEW s \in Seq(A) PROVE Mapped(h, s) \in Seq(B)
  BY <1>2, <1>4, FlattenSteps DEF Mapped
<1>6. ASSUME NEW s \in Seq(A), NEW e \in A
      PROVE  Mapped(h, Append(s, e)) = Mapped(h, s) \o h[e]
  <2>1. PICK u : u = [i \in DOMAIN s |-> h[s[i]]]
    OBVIOUS
  <2>2. u \in Seq(Seq(B)) /\ h[e] \in Seq(B)
    BY <1>2, <1>3, <2>1 DEF MapsInto
  <2>3. FlattenSeq(Append(u, h[e])) = FlattenSeq(u) \o h[e]
    BY <2>2, FlattenSteps
  <2>4. QED
    BY <1>3, <2>1, <2>3 DEF Mapped
<1>7. QED
  BY <1>1, <1>5, <1>6

LEMMA MappedConcat ==
    ASSUME NEW A, NEW B, NEW h, MapsInto(h, A, Seq(B)), NEW s \in Seq(A), NEW t \in Seq(A)
    PROVE  Mapped(h, s \o t) = Mapped(h, s) \o Mapped(h, t)
<1> DEFINE P == {u \in Seq(A) : Mapped(h, s \o u) = Mapped(h, s) \o Mapped(h, u)}
<1>1. <<>> \in P
  <2>1. <<>> \in Seq(A) /\ s \o <<>> = s
    BY EmptySeq, ConcatEmptySeq
  <2>2. Mapped(h, s) \in Seq(B) /\ Mapped(h, <<>>) = <<>>
    BY MappedSteps
  <2>3. QED
    BY <2>1, <2>2, ConcatEmptySeq
<1>2. ASSUME NEW u \in P, NEW e \in A PROVE Append(u, e) \in P
  <2>1. PICK v : v = s \o u
    OBVIOUS
  <2>2. v \in Seq(A) /\ u \in Seq(A) /\ Append(u, e) \in Seq(A)
    BY <1>2, <2>1, ConcatProperties, AppendProperties
  <2>3. s \o Append(u, e) = Append(v, e)
    BY <2>1, <2>2, ConcatAppend
  <2>4. /\ Mapped(h, Append(v, e)) = Mapped(h, v) \o h[e]
        /\ Mapped(h, Append(u, e)) = Mapped(h, u) \o h[e]
    <3> HIDE DEF P
    <3>1. \A w \in Seq(A), f \in A : Mapped(h, Append(w, f)) = Mapped(h, w) \o h[f]
      BY MappedSteps
    <3>2. QED
      BY <2>2, <3>1
  <2>6. PICK a, b, c : a = Mapped(h, s) /\ b = Mapped(h, u) /\ c = h[e]
    OBVIOUS
  <2>7. a \in Seq(B) /\ b \in Seq(B) /\ c \in Seq(B)
    <3>1. c \in Seq(B)
      BY <2>6 DEF MapsInto
    <3> HIDE DEF P
    <3>2. QED
      BY <2>2, <2>6, <3>1, MappedSteps
  <2>8. Mapped(h, v) = a \o b
    BY <1>2, <2>1, <2>6
  <2>9. (a \o b) \o c = a \o (b \o c)
    <3> HIDE DEF P
    <3>1. QED
      BY <2>7, ConcatAssociative
  <2>10. Mapped(h, s \o Append(u, e)) = Mapped(h, s) \o Mapped(h, Append(u, e))
    BY <2>3, <2>4, <2>6, <2>8, <2>9
  <2>11. QED
    BY <2>2, <2>10
<1>3. P = Seq(A)
  <2>1. P \in SUBSET Seq(A)
    OBVIOUS
  <2> HIDE DEF P
  <2>2. QED
    BY <1>1, <1>2, <2>1, ListInduction
<1>4. QED
  BY <1>3

\* A recursion over the indices of a list that computes what g does, as far as
\* its values are in T.
RecursBy(it, g, b, T, s) ==
    /\ it = [x \in SUBSET DOMAIN s |-> it[x]]
    /\ it[{}] = b
    /\ \A x \in SUBSET DOMAIN s :
          x # {} /\ it[x \ {Max(x)}] \in T => it[x] = g[<<it[x \ {Max(x)}], s[Max(x)]>>]

\* Such a recursion is the fold by g.
LEMMA RecursionIsFold ==
    ASSUME NEW A, NEW T, NEW b \in T, NEW g, FoldsInto(g, A, T), NEW s \in Seq(A),
           NEW it, RecursBy(it, g, b, T, s)
    PROVE  FoldOf(g, b, s) = it[DOMAIN s]
<1>0. PICK n \in Nat : n = Len(s) /\ DOMAIN s = 1..n /\ s \in [1..n -> A]
  BY LenProperties
<1>1. ASSUME NEW x \in SUBSET (1..n), x # {} PROVE s[Max(x)] \in A
  BY <1>0, <1>1, WithoutGreatest
<1>2. \A x \in SUBSET (1..n) : it[x] \in T
  <2>1. ASSUME NEW x \in SUBSET (1..n), x # {}, it[x \ {Max(x)}] \in T
        PROVE  it[x] \in T
    <3>1. it[x] = g[<<it[x \ {Max(x)}], s[Max(x)]>>]
      BY <1>0, <2>1 DEF RecursBy
    <3>2. QED
      BY <1>1, <2>1, <3>1 DEF FoldsInto
  <2>2. it[{}] \in T
    BY DEF RecursBy
  <2>3. QED
    BY <2>1, <2>2, FoldIsTyped
<1>3. FoldsBy(it, g, b, s)
  <2>1. ASSUME NEW x \in SUBSET DOMAIN s
        PROVE  it[x] = IF x = {} THEN b ELSE g[<<it[x \ {Max(x)}], s[Max(x)]>>]
    <3>1. CASE x # {}
      <4>1. x \ {Max(x)} \in SUBSET (1..n)
        BY <1>0
      <4>2. it[x \ {Max(x)}] \in T
        BY <1>2, <4>1
      <4>3. QED
        BY <3>1, <4>2 DEF RecursBy
    <3>2. QED
      BY <3>1 DEF RecursBy
  <2>2. it = [x \in SUBSET DOMAIN s |-> it[x]]
    BY DEF RecursBy
  <2>3. QED
    BY <2>1, <2>2 DEF FoldsBy
<1>4. QED
  BY <1>3, FoldIsOf
=============================================================================
