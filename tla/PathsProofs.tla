----------------------------- MODULE PathsProofs ----------------------------
(***************************************************************************)
(* Proofs about paths as strings: for any disk, any roots, any grants and  *)
(* any requests, whatever characters they are made of; and about the       *)
(* search, for whatever rows the paths leave within its scope.             *)
(***************************************************************************)
EXTENDS ScanRoots, GrantScope, Search, SequenceLemmas, FiniteSetTheorems

\* Of the characters in B: what stands between separators, and the names among
\* these.
Piece(B)  == Seq(B \ {Slash})
Pieces(B) == Seq(Piece(B)) \ {<<>>}
Proper(B)  == Piece(B) \ {<<>>, Dot, Dots}

-----------------------------------------------------------------------------
(***************************************************************************)
(* Split.                                                                  *)
(***************************************************************************)

\* The step of Split.
Cut(B) ==
    [p \in Pieces(B) \X B |->
        IF p[2] = Slash THEN Append(p[1], <<>>)
                        ELSE [p[1] EXCEPT ![Len(p[1])] = Append(@, p[2])]]

\* A character goes to the last piece.
LEMMA LastGrows ==
    ASSUME NEW A, NEW ps \in Seq(A), NEW p \in A, NEW q \in A
    PROVE  [Append(ps, p) EXCEPT ![Len(Append(ps, p))] = q] = Append(ps, q)
<1>1. PICK s : s = Append(ps, p)
  OBVIOUS
<1>2. PICK n \in Nat : n = Len(ps)
  BY LenProperties
<1>3. s \in Seq(A) /\ Len(s) = n + 1 /\ \A i \in 1..n : s[i] = ps[i]
  BY <1>1, <1>2, AppendProperties
<1>4. PICK t : t = [s EXCEPT ![Len(s)] = q]
  OBVIOUS
<1>5. /\ t \in Seq(A) /\ Len(t) = n + 1
      /\ \A j \in 1..(n + 1) : t[j] = IF j = n + 1 THEN q ELSE s[j]
  <2>1. Len(s) \in 1..Len(s)
    BY <1>2, <1>3
  <2>2. QED
    BY <1>3, <1>4, <2>1, ExceptSeq
<1>6. PICK u : u = Append(ps, q)
  OBVIOUS
<1>7. u \in Seq(A) /\ Len(u) = n + 1 /\ u[n + 1] = q /\ \A i \in 1..n : u[i] = ps[i]
  BY <1>2, <1>6, AppendProperties
<1>8. \A j \in 1..(n + 1) : t[j] = u[j]
  <2> SUFFICES ASSUME NEW j \in 1..(n + 1) PROVE t[j] = u[j]
    OBVIOUS
  <2>1. j = n + 1 \/ j \in 1..n
    OBVIOUS
  <2>2. QED
    BY <2>1, <1>2, <1>3, <1>5, <1>7
<1>9. t = u
  BY <1>5, <1>7, <1>8, SeqEqual
<1>10. QED
  BY <1>1, <1>4, <1>6, <1>9

LEMMA CutType ==
    ASSUME NEW B
    PROVE  /\ FoldsInto(Cut(B), B, Pieces(B))
           /\ << <<>> >> \in Pieces(B)
           /\ \A t \in Pieces(B), c \in B :
                Cut(B)[<<t, c>>] = IF c = Slash THEN Append(t, <<>>)
                                   ELSE [t EXCEPT ![Len(t)] = Append(@, c)]
<1>1. << <<>> >> \in Pieces(B)
  <2>1. <<>> \in Piece(B)
    BY EmptySeq DEF Piece
  <2> HIDE DEF Piece
  <2>2. << <<>> >> \in Seq(Piece(B)) /\ << <<>> >> # <<>>
    BY <2>1
  <2>3. QED
    BY <2>2 DEF Pieces
<1>2. ASSUME NEW t \in Pieces(B), NEW c \in B
      PROVE  (IF c = Slash THEN Append(t, <<>>)
              ELSE [t EXCEPT ![Len(t)] = Append(@, c)]) \in Pieces(B)
  <2>1. PICK P : P = Piece(B)
    OBVIOUS
  <2>2. t \in Seq(P) /\ t # <<>> /\ <<>> \in P
    BY <2>1, EmptySeq DEF Pieces, Piece
  <2>3. PICK ps \in Seq(P), p \in P : t = Append(ps, p)
    BY <2>2, SequenceEmptyOrAppend
  <2>4. CASE c = Slash
    <3>1. Append(t, <<>>) \in Seq(P) /\ Append(t, <<>>) # <<>>
      BY <2>2, AppendProperties
    <3>2. QED
      BY <2>1, <2>4, <3>1 DEF Pieces
  <2>5. CASE c # Slash
    <3>1. t[Len(t)] = p
      BY <2>3, AppendProperties
    <3>2. PICK q : q = Append(p, c)
      OBVIOUS
    <3>3. q \in P
      BY <2>1, <2>5, <3>2, AppendProperties DEF Piece
    <3>4. [t EXCEPT ![Len(t)] = q] = Append(ps, q)
      BY <2>3, <3>3, LastGrows
    <3>5. Append(ps, q) \in Seq(P) /\ Append(ps, q) # <<>>
      BY <3>3, AppendProperties
    <3>6. [t EXCEPT ![Len(t)] = Append(@, c)] = [t EXCEPT ![Len(t)] = q]
      BY <3>1, <3>2
    <3>7. QED
      BY <2>1, <2>5, <3>4, <3>5, <3>6 DEF Pieces
  <2>6. QED
    BY <2>4, <2>5
<1>3. QED
  BY <1>1, <1>2 DEF Cut, FoldsInto

\* Split is a fold.
LEMMA SplitIsFold ==
    ASSUME NEW B, NEW s \in Seq(B)
    PROVE  Split(s) = FoldOf(Cut(B), << <<>> >>, s)
<1> DEFINE Step(it, x) ==
               IF x = {} THEN << <<>> >>
               ELSE IF s[Max(x)] = Slash THEN Append(it[x \ {Max(x)}], <<>>)
                    ELSE [it[x \ {Max(x)}] EXCEPT ![Len(it[x \ {Max(x)}])] = Append(@, s[Max(x)])]
<1>0. PICK n \in Nat : n = Len(s) /\ DOMAIN s = 1..n /\ s \in [1..n -> B]
  BY LenProperties
<1>g. PICK g, T, b :
        /\ FoldsInto(g, B, T) /\ g = Cut(B) /\ T = Pieces(B) /\ b = << <<>> >> /\ b \in T
        /\ \A t \in T, c \in B : g[<<t, c>>] = IF c = Slash THEN Append(t, <<>>)
                                               ELSE [t EXCEPT ![Len(t)] = Append(@, c)]
  BY CutType
<1>1. PICK it \in [SUBSET DOMAIN s -> T] : FoldsBy(it, g, b, s)
  BY <1>g, FoldExists
<1>2. ASSUME NEW x \in SUBSET (1..n), x # {} PROVE s[Max(x)] \in B
  BY <1>0, <1>2, WithoutGreatest
<1>3. it = [x \in SUBSET DOMAIN s |-> Step(it, x)]
  <2>1. ASSUME NEW x \in SUBSET DOMAIN s PROVE it[x] = Step(it, x)
    <3>1. CASE x # {}
      <4>1. it[x] = g[<<it[x \ {Max(x)}], s[Max(x)]>>]
        BY <1>1, <3>1 DEF FoldsBy
      <4>2. it[x \ {Max(x)}] \in T /\ s[Max(x)] \in B
        BY <1>0, <1>1, <1>2, <3>1
      <4>3. QED
        BY <1>g, <3>1, <4>1, <4>2
    <3>2. CASE x = {}
      BY <1>1, <1>g, <3>2 DEF FoldsBy
    <3>3. QED
      BY <3>1, <3>2
  <2>2. QED
    BY <2>1
<1>4. PICK jt : /\ jt = [x \in SUBSET DOMAIN s |-> Step(jt, x)]
                /\ Split(s) = jt[DOMAIN s]
  <2>1. Split(s) = (CHOOSE jt : jt = [x \in SUBSET DOMAIN s |-> Step(jt, x)])[DOMAIN s]
    BY DEF Split, FoldLeft, MapThenFoldSet
  <2> HIDE DEF Step
  <2>2. QED
    BY <1>3, <2>1
<1>5. jt = [x \in SUBSET DOMAIN s |-> jt[x]] /\ jt[{}] = b
  BY <1>0, <1>4, <1>g
<1>6. ASSUME NEW x \in SUBSET DOMAIN s, x # {}, jt[x \ {Max(x)}] \in T
      PROVE  jt[x] = g[<<jt[x \ {Max(x)}], s[Max(x)]>>]
  <2>1. jt[x] = Step(jt, x)
    BY <1>4
  <2>2. s[Max(x)] \in B
    BY <1>0, <1>2, <1>6
  <2>3. QED
    BY <1>g, <1>6, <2>1, <2>2
<1>7. FoldOf(g, b, s) = jt[DOMAIN s]
  <2>1. RecursBy(jt, g, b, T, s)
    BY <1>5, <1>6 DEF RecursBy
  <2>2. QED
    BY <1>g, <2>1, RecursionIsFold
<1>8. QED
  BY <1>g, <1>4, <1>7

\* What Split computes, character by character: the last piece grows, and a
\* separator begins another.
LEMMA SplitSteps ==
    ASSUME NEW B
    PROVE  /\ Split(<<>>) = << <<>> >>
           /\ \A s \in Seq(B) : Split(s) \in Pieces(B)
           /\ \A s \in Seq(B), c \in B, ps \in Seq(Piece(B)), p \in Piece(B) :
                Split(s) = Append(ps, p) =>
                  Split(Append(s, c)) = IF c = Slash THEN Append(Append(ps, p), <<>>)
                                        ELSE Append(ps, Append(p, c))
<1>1. PICK g, T, b :
        /\ FoldsInto(g, B, T) /\ g = Cut(B) /\ T = Pieces(B) /\ b = << <<>> >> /\ b \in T
        /\ \A t \in T, c \in B : g[<<t, c>>] = IF c = Slash THEN Append(t, <<>>)
                                               ELSE [t EXCEPT ![Len(t)] = Append(@, c)]
  BY CutType
<1>2. \A s \in Seq(B) : Split(s) = FoldOf(g, b, s)
  BY <1>1, SplitIsFold
<1>3. /\ FoldOf(g, b, <<>>) = b
      /\ \A s \in Seq(B) : FoldOf(g, b, s) \in T
      /\ \A s \in Seq(B), c \in B : FoldOf(g, b, Append(s, c)) = g[<<FoldOf(g, b, s), c>>]
  BY <1>1, FoldSteps
<1>4. <<>> \in Seq(B) /\ \A s \in Seq(B), c \in B : Append(s, c) \in Seq(B)
  BY EmptySeq, AppendProperties
<1>5. ASSUME NEW s \in Seq(B), NEW c \in B, NEW ps \in Seq(Piece(B)), NEW p \in Piece(B),
             Split(s) = Append(ps, p)
      PROVE  Split(Append(s, c)) = IF c = Slash THEN Append(Append(ps, p), <<>>)
                                   ELSE Append(ps, Append(p, c))
  <2>1. PICK t \in T : t = Append(ps, p)
    BY <1>2, <1>3, <1>5
  <2>2. Split(Append(s, c)) = IF c = Slash THEN Append(t, <<>>)
                              ELSE [t EXCEPT ![Len(t)] = Append(@, c)]
    <3>1. Split(Append(s, c)) = g[<<FoldOf(g, b, s), c>>] /\ FoldOf(g, b, s) = Split(s)
      BY <1>2, <1>3, <1>4
    <3>2. Split(Append(s, c)) = g[<<t, c>>]
      BY <1>5, <2>1, <3>1
    <3>3. QED
      BY <1>1, <3>2
  <2>3. CASE c = Slash
    BY <2>1, <2>2, <2>3
  <2>4. CASE c # Slash
    <3>1. PICK q : q = Append(p, c)
      OBVIOUS
    <3>2. q \in Piece(B)
      BY <2>4, <3>1, AppendProperties DEF Piece
    <3>3. t[Len(t)] = p
      BY <2>1, AppendProperties
    <3>4. [t EXCEPT ![Len(t)] = Append(@, c)] = [t EXCEPT ![Len(t)] = q]
      BY <3>1, <3>3
    <3>5. [t EXCEPT ![Len(t)] = q] = Append(ps, q)
      BY <2>1, <3>2, LastGrows
    <3>6. QED
      BY <2>2, <2>4, <3>1, <3>4, <3>5
  <2>5. QED
    BY <2>3, <2>4
<1>6. QED
  BY <1>1, <1>2, <1>3, <1>4, <1>5

\* Its pieces: nothing but separators is lost, so there is a last one.
LEMMA LastPiece ==
    ASSUME NEW B, NEW s \in Seq(B)
    PROVE  \E ps \in Seq(Piece(B)), p \in Piece(B) : Split(s) = Append(ps, p)
<1>1. PICK P : P = Piece(B)
  OBVIOUS
<1>2. Split(s) \in Seq(P) /\ Split(s) # <<>>
  BY <1>1, SplitSteps DEF Pieces
<1>3. QED
  BY <1>1, <1>2, SequenceEmptyOrAppend

\* A text without separators is one piece.
LEMMA SplitOfPiece ==
    ASSUME NEW B, NEW p \in Piece(B)
    PROVE  Split(p) = <<p>>
<1> DEFINE C == B \ {Slash}
           P == {q \in Seq(C) : Split(q) = <<q>>}
<1>1. <<>> \in P
  BY SplitSteps, EmptySeq
<1>2. ASSUME NEW q \in P, NEW c \in C PROVE Append(q, c) \in P
  <2>1. q \in Piece(B) /\ q \in Seq(B) /\ c \in B /\ c # Slash /\ Append(q, c) \in Seq(C)
    <3>1. q \in Seq(C) /\ C \subseteq B
      OBVIOUS
    <3>2. q \in Seq(B)
      <4> HIDE DEF C, P
      <4>1. QED
        BY <3>1, SeqMonotonic
    <3>3. QED
      BY <3>1, <3>2, AppendProperties DEF Piece
  <2>2. PICK A : A = Piece(B)
    OBVIOUS
  <2>3. <<>> \in Seq(A) /\ Append(<<>>, q) = <<q>>
    <3>1. <<>> \in Seq(A) /\ q \in A
      BY <2>1, <2>2, EmptySeq
    <3>2. Append(<<>>, q) = <<>> \o <<q>>
      BY <3>1, AppendIsConcat
    <3>3. <<q>> \in Seq(A)
      BY <3>1
    <3>4. QED
      BY <3>1, <3>2, <3>3, ConcatEmptySeq
  <2>4. PICK r : r = Append(q, c)
    OBVIOUS
  <2>5. Append(<<>>, r) = <<r>>
    <3>1. r \in A
      BY <2>1, <2>2, <2>4 DEF Piece
    <3>2. Append(<<>>, r) = <<>> \o <<r>>
      BY <2>3, <3>1, AppendIsConcat
    <3>3. <<r>> \in Seq(A)
      BY <3>1
    <3>4. QED
      BY <3>2, <3>3, ConcatEmptySeq
  <2>6. Split(q) = Append(<<>>, q)
    BY <1>2, <2>3
  <2>7. Split(Append(q, c)) = Append(<<>>, Append(q, c))
    <3> HIDE DEF P, C
    <3>1. QED
      BY <2>1, <2>2, <2>3, <2>6, SplitSteps
  <2>8. QED
    BY <2>1, <2>4, <2>5, <2>7
<1>3. P = Seq(C)
  <2>1. P \in SUBSET Seq(C)
    OBVIOUS
  <2> HIDE DEF P, C
  <2>2. QED
    BY <1>1, <1>2, <2>1, ListInduction
<1>4. QED
  BY <1>3 DEF Piece

\* A separator divides what Split returns.
LEMMA SplitAtSlash ==
    ASSUME NEW B, Slash \in B, NEW s \in Seq(B), NEW u \in Seq(B)
    PROVE  Split((s \o Root) \o u) = Split(s) \o Split(u)
<1> DEFINE P == {v \in Seq(B) : Split((s \o Root) \o v) = Split(s) \o Split(v)}
<1>0. PICK A, base : A = Piece(B) /\ base = s \o Root
  OBVIOUS
<1>1. /\ Root \in Seq(B) /\ base \in Seq(B) /\ base = Append(s, Slash)
      /\ <<>> \in A /\ Split(s) \in Seq(A)
  <2>1. Root \in Seq(B)
    BY DEF Root
  <2>2. base \in Seq(B) /\ base = Append(s, Slash)
    BY <1>0, <2>1, ConcatProperties, AppendIsConcat DEF Root
  <2>3. <<>> \in A /\ Split(s) \in Seq(A)
    BY <1>0, SplitSteps, EmptySeq DEF Pieces, Piece
  <2>4. QED
    BY <2>1, <2>2, <2>3
<1>2. <<>> \in P
  <2>1. PICK ps \in Seq(A), p \in A : Split(s) = Append(ps, p)
    BY <1>0, LastPiece
  <2>2. Split(Append(s, Slash)) = Append(Split(s), <<>>)
    <3>1. Split(Append(s, Slash)) = Append(Append(ps, p), <<>>)
      BY <1>0, <2>1, SplitSteps
    <3>2. QED
      BY <2>1, <3>1
  <2>3. Append(Split(s), <<>>) = Split(s) \o << <<>> >>
    BY <1>1, AppendIsConcat
  <2>4. base \o <<>> = base /\ <<>> \in Seq(B) /\ Split(<<>>) = << <<>> >>
    BY <1>1, ConcatEmptySeq, EmptySeq, SplitSteps
  <2>5. QED
    BY <1>0, <1>1, <2>2, <2>3, <2>4
<1>3. ASSUME NEW v \in P, NEW c \in B PROVE Append(v, c) \in P
  <2>0. v \in Seq(B) /\ Split(base \o v) = Split(s) \o Split(v)
    BY <1>0
  <2> HIDE DEF P
  <2>1. PICK ps \in Seq(A), p \in A : Split(v) = Append(ps, p)
    BY <1>0, <2>0, LastPiece
  <2>2. PICK qs : qs = Split(s) \o ps
    OBVIOUS
  <2>3. qs \in Seq(A) /\ base \o v \in Seq(B)
    BY <1>1, <2>0, <2>2, ConcatProperties
  <2>4. Split(base \o v) = Append(qs, p)
    BY <1>1, <2>0, <2>1, <2>2, ConcatAppend
  <2>5. Split(Append(base \o v, c)) = IF c = Slash THEN Append(Append(qs, p), <<>>)
                                      ELSE Append(qs, Append(p, c))
    BY <1>0, <2>3, <2>4, SplitSteps
  <2>6. Split(Append(v, c)) = IF c = Slash THEN Append(Append(ps, p), <<>>)
                              ELSE Append(ps, Append(p, c))
    BY <1>0, <2>0, <2>1, SplitSteps
  <2>7. base \o Append(v, c) = Append(base \o v, c) /\ Append(v, c) \in Seq(B)
    BY <1>1, <2>0, ConcatAppend, AppendProperties
  <2>8. Split(base \o Append(v, c)) = Split(s) \o Split(Append(v, c))
    <3>1. CASE c = Slash
      <4>1. Append(ps, p) \in Seq(A)
        BY AppendProperties
      <4>2. Split(s) \o Append(Append(ps, p), <<>>) = Append(Split(s) \o Append(ps, p), <<>>)
        BY <1>1, <4>1, ConcatAppend
      <4>3. Split(s) \o Append(ps, p) = Append(qs, p)
        BY <1>1, <2>2, ConcatAppend
      <4>4. QED
        BY <2>5, <2>6, <2>7, <3>1, <4>2, <4>3
    <3>2. CASE c # Slash
      <4>1. PICK q : q = Append(p, c)
        OBVIOUS
      <4>2. q \in A
        BY <1>0, <3>2, <4>1, AppendProperties DEF Piece
      <4>3. Split(s) \o Append(ps, q) = Append(qs, q)
        BY <1>1, <2>2, <4>2, ConcatAppend
      <4>4. QED
        BY <2>5, <2>6, <2>7, <3>2, <4>1, <4>3
    <3>3. QED
      BY <3>1, <3>2
  <2>9. QED
    BY <1>0, <2>7, <2>8 DEF P
<1>4. P = Seq(B)
  <2>1. P \in SUBSET Seq(B)
    OBVIOUS
  <2> HIDE DEF P
  <2>2. QED
    BY <1>2, <1>3, <2>1, ListInduction
<1>5. QED
  BY <1>4

-----------------------------------------------------------------------------
(***************************************************************************)
(* Join.                                                                   *)
(***************************************************************************)

\* The names with a separator before each.
Flat(names) == FlattenSeq([i \in DOMAIN names |-> Root \o names[i]])
Under(B) == [p \in Piece(B) |-> Root \o p]

LEMMA RootIsText == ASSUME NEW B, Slash \in B PROVE Root \in Seq(B) /\ Len(Root) = 1 /\ Root[1] = Slash
BY DEF Root

LEMMA PieceIsText == ASSUME NEW B, NEW p \in Piece(B) PROVE p \in Seq(B)
<1>1. B \ {Slash} \subseteq B
  OBVIOUS
<1>2. QED
  BY <1>1, SeqMonotonic DEF Piece

LEMMA FlatIsMapped ==
    ASSUME NEW B, Slash \in B
    PROVE  /\ MapsInto(Under(B), Piece(B), Seq(B))
           /\ \A ns \in Seq(Piece(B)) : Flat(ns) = Mapped(Under(B), ns)
           /\ \A p \in Piece(B) : Under(B)[p] = Root \o p
<1>1. \A p \in Piece(B) : Root \o p \in Seq(B)
  BY RootIsText, PieceIsText, ConcatProperties
<1>2. \A p \in Piece(B) : Under(B)[p] = Root \o p
  BY DEF Under
<1>3. MapsInto(Under(B), Piece(B), Seq(B))
  BY <1>1 DEF Under, MapsInto
<1>4. ASSUME NEW ns \in Seq(Piece(B)) PROVE Flat(ns) = Mapped(Under(B), ns)
  <2>1. \A i \in DOMAIN ns : ns[i] \in Piece(B)
    BY LenProperties
  <2>2. [i \in DOMAIN ns |-> Root \o ns[i]] = [i \in DOMAIN ns |-> Under(B)[ns[i]]]
    BY <1>2, <2>1
  <2>3. QED
    BY <2>2 DEF Flat, Mapped
<1>5. QED
  BY <1>2, <1>3, <1>4

LEMMA FlatSteps ==
    ASSUME NEW B, Slash \in B
    PROVE  /\ Flat(<<>>) = <<>>
           /\ \A ns \in Seq(Piece(B)) : Flat(ns) \in Seq(B)
           /\ \A ns \in Seq(Piece(B)), p \in Piece(B) : Flat(Append(ns, p)) = (Flat(ns) \o Root) \o p
           /\ \A ns, ms \in Seq(Piece(B)) : Flat(ns \o ms) = Flat(ns) \o Flat(ms)
<1>1. PICK h, A : /\ h = Under(B) /\ A = Piece(B) /\ MapsInto(h, A, Seq(B))
                  /\ \A ns \in Seq(A) : Flat(ns) = Mapped(h, ns)
                  /\ \A p \in A : h[p] = Root \o p
  BY FlatIsMapped
<1>2. /\ Mapped(h, <<>>) = <<>>
      /\ \A s \in Seq(A) : Mapped(h, s) \in Seq(B)
      /\ \A s \in Seq(A), e \in A : Mapped(h, Append(s, e)) = Mapped(h, s) \o h[e]
  <2>1. MapsInto(h, A, Seq(B))
    BY <1>1
  <2>2. QED
    BY <2>1, MappedSteps
<1>3. Flat(<<>>) = <<>>
  BY <1>1, <1>2, EmptySeq
<1>4. \A ns \in Seq(A) : Flat(ns) \in Seq(B)
  BY <1>1, <1>2
<1>5. ASSUME NEW ns \in Seq(A), NEW p \in A
      PROVE  Flat(Append(ns, p)) = (Flat(ns) \o Root) \o p
  <2>1. Append(ns, p) \in Seq(A)
    BY AppendProperties
  <2>2. Flat(Append(ns, p)) = Flat(ns) \o (Root \o p)
    BY ZenonT(30), <1>1, <1>2, <2>1
  <2>3. Root \in Seq(B) /\ p \in Seq(B) /\ Flat(ns) \in Seq(B)
    BY <1>1, <1>4, RootIsText, PieceIsText
  <2>4. QED
    BY SMTT(30), <2>2, <2>3, ConcatAssociative
<1>6. ASSUME NEW ns \in Seq(A), NEW ms \in Seq(A)
      PROVE  Flat(ns \o ms) = Flat(ns) \o Flat(ms)
  <2>1. ns \o ms \in Seq(A)
    BY ConcatProperties
  <2>2. Mapped(h, ns \o ms) = Mapped(h, ns) \o Mapped(h, ms)
    <3>1. MapsInto(h, A, Seq(B))
      BY <1>1
    <3>2. QED
      BY <3>1, MappedConcat
  <2>3. QED
    BY <1>1, <2>1, <2>2
<1>7. QED
  BY <1>1, <1>3, <1>4, <1>5, <1>6

\* Split takes apart what was put together.
LEMMA SplitOfFlat ==
    ASSUME NEW B, Slash \in B, NEW ns \in Seq(Piece(B))
    PROVE  Split(Flat(ns)) = << <<>> >> \o ns
<1>1. PICK A, one : A = Piece(B) /\ one = << <<>> >> /\ one \in Seq(A)
  BY CutType DEF Pieces
<1> DEFINE P == {ms \in Seq(A) : Split(Flat(ms)) = one \o ms}
<1>2. <<>> \in P
  <2>1. Split(Flat(<<>>)) = one
    BY <1>1, FlatSteps, SplitSteps
  <2>2. QED
    BY <1>1, <2>1, ConcatEmptySeq, EmptySeq
<1>3. ASSUME NEW ms \in P, NEW p \in A PROVE Append(ms, p) \in P
  <2>0. ms \in Seq(A) /\ Split(Flat(ms)) = one \o ms
    OBVIOUS
  <2> HIDE DEF P
  <2>1. Flat(ms) \in Seq(B) /\ p \in Seq(B) /\ Append(ms, p) \in Seq(A)
    BY <1>1, <2>0, FlatSteps, PieceIsText, AppendProperties
  <2>2. Flat(Append(ms, p)) = (Flat(ms) \o Root) \o p
    BY <1>1, <2>0, FlatSteps
  <2>3. Split(Flat(Append(ms, p))) = Split(Flat(ms)) \o Split(p)
    BY <2>1, <2>2, SplitAtSlash
  <2>4. Split(p) = <<p>>
    BY <1>1, SplitOfPiece
  <2>5. (one \o ms) \o <<p>> = one \o Append(ms, p)
    <3>1. one \o ms \in Seq(A)
      BY <1>1, <2>0, ConcatProperties
    <3>2. Append(one \o ms, p) = (one \o ms) \o <<p>>
      BY <3>1, AppendIsConcat
    <3>3. QED
      BY <1>1, <2>0, <3>2, ConcatAppend
  <2>6. QED
    BY <2>0, <2>1, <2>3, <2>4, <2>5 DEF P
<1>4. P = Seq(A)
  <2>1. P \in SUBSET Seq(A)
    OBVIOUS
  <2> HIDE DEF P
  <2>2. QED
    BY <1>2, <1>3, <2>1, ListInduction
<1>5. QED
  BY <1>1, <1>4

\* What was put together starts with a separator.
LEMMA FlatStarts ==
    ASSUME NEW B, Slash \in B, NEW ns \in Seq(Piece(B)), ns # <<>>
    PROVE  \E u \in Seq(B) : Flat(ns) = Root \o u
<1>0. ns # <<>>
  OBVIOUS
<1>1. PICK A : A = Piece(B)
  OBVIOUS
<1>2. Root \in Seq(B)
  BY RootIsText
<1>3. PICK p \in A, ms \in Seq(A) : ns = <<p>> \o ms
  <2>1. Len(ns) \in Nat \ {0}
    BY <1>1, <1>0, EmptySeq
  <2>2. SubSeq(ns, 1, Len(ns)) = <<ns[1]>> \o SubSeq(ns, 1 + 1, Len(ns))
    BY <1>1, <2>1, SubSeqRecursiveFirst
  <2>3. SubSeq(ns, 1, Len(ns)) = ns
    BY <1>1, SubSeqFull
  <2>4. ns[1] \in A /\ SubSeq(ns, 1 + 1, Len(ns)) \in Seq(A)
    <3>1. \A i \in (1 + 1)..Len(ns) : ns[i] \in A
      BY <1>1, <2>1, LenProperties
    <3>2. QED
      BY <1>1, <2>1, <3>1, LenProperties, SubSeqProperties
  <2>5. QED
    BY <2>2, <2>3, <2>4
<1>4. Flat(ns) = Flat(<<p>>) \o Flat(ms) /\ Flat(<<p>>) = Root \o p
  <2>1. <<p>> \in Seq(A) /\ <<>> \in Seq(A) /\ <<p>> = Append(<<>>, p)
    <3>1. <<p>> \in Seq(A) /\ <<>> \in Seq(A)
      BY EmptySeq
    <3>2. Append(<<>>, p) = <<>> \o <<p>>
      BY <3>1, AppendIsConcat
    <3>3. QED
      BY <3>1, <3>2, ConcatEmptySeq
  <2>2. Flat(<<p>>) = (Flat(<<>>) \o Root) \o p /\ Flat(<<>>) = <<>>
    BY <1>1, <2>1, FlatSteps
  <2>3. <<>> \o Root = Root
    BY <1>2, ConcatEmptySeq
  <2>4. QED
    BY <1>1, <1>3, <2>1, <2>2, <2>3, FlatSteps
<1>5. Flat(ns) = Root \o (p \o Flat(ms)) /\ p \o Flat(ms) \in Seq(B)
  <2>1. p \in Seq(B) /\ Flat(ms) \in Seq(B)
    BY <1>1, PieceIsText, FlatSteps
  <2>2. PICK f \in Seq(B) : f = Flat(ms)
    BY <2>1
  <2>3. (Root \o p) \o f = Root \o (p \o f) /\ p \o f \in Seq(B)
    BY SMTT(30), <1>2, <2>1, ConcatAssociative, ConcatProperties
  <2>4. QED
    BY <1>4, <2>2, <2>3
<1>6. QED
  BY <1>5

\* Join is Flat, except of no names.
LEMMA JoinIs ==
    ASSUME NEW B, Slash \in B, NEW ns \in Seq(Piece(B))
    PROVE  /\ Join(<<>>) = Root
           /\ ns # <<>> => Join(ns) = Flat(ns)
           /\ Join(ns) \in Seq(B) /\ Join(ns) # <<>>
           /\ Split(Join(ns)) = << <<>> >> \o (IF ns = <<>> THEN << <<>> >> ELSE ns)
           /\ IsAbsolute(Join(ns))
<1>1. Join(<<>>) = Root /\ (ns # <<>> => Join(ns) = Flat(ns))
  BY DEF Join, Flat
<1>2. PICK A, one : A = Piece(B) /\ one = << <<>> >> /\ one \in Seq(A)
  BY CutType DEF Pieces
<1>3. Root \in Seq(B) /\ Root # <<>> /\ Root[1] = Slash
  BY RootIsText, EmptySeq
<1>4. CASE ns = <<>>
  <2>1. <<>> \in Seq(B) /\ (<<>> \o Root) \o <<>> = Root
    BY <1>3, ConcatEmptySeq, EmptySeq
  <2>2. Split(Root) = one \o one
    BY ZenonT(30), <1>2, <1>3, <2>1, SplitAtSlash, SplitSteps
  <2>3. QED
    BY <1>1, <1>2, <1>3, <1>4, <2>2 DEF IsAbsolute
<1>5. CASE ns # <<>>
  <2>1. Split(Join(ns)) = one \o ns
    BY <1>1, <1>2, <1>5, SplitOfFlat
  <2>2. Join(ns) \in Seq(B)
    BY <1>1, <1>5, FlatSteps
  <2>3. Flat(ns) # <<>> /\ Flat(ns)[1] = Slash
    <3>1. PICK u \in Seq(B) : Flat(ns) = Root \o u
      BY <1>5, FlatStarts
    <3>2. Len(u) \in Nat
      BY LenProperties
    <3>3. Len(Root \o u) = 1 + Len(u) /\ (Root \o u)[1] = Slash
      <4>1. PICK t \in Seq(B) : t = Root /\ Len(t) = 1 /\ t[1] = Slash
        BY RootIsText
      <4>2. Len(t \o u) = Len(t) + Len(u)
        BY <4>1, ConcatProperties
      <4>3. (t \o u)[1] = t[1]
        <5>1. \A i \in 1..(Len(t) + Len(u)) :
                (t \o u)[i] = IF i <= Len(t) THEN t[i] ELSE u[i - Len(t)]
          BY <4>1, ConcatProperties
        <5>2. QED
          BY <3>2, <4>1, <5>1
      <4>4. QED
        BY <4>1, <4>2, <4>3
    <3>4. QED
      BY <3>1, <3>2, <3>3, EmptySeq
  <2>4. QED
    BY <1>1, <1>2, <1>5, <2>1, <2>2, <2>3 DEF IsAbsolute
<1>6. QED
  BY <1>4, <1>5

-----------------------------------------------------------------------------
(***************************************************************************)
(* Components.                                                             *)
(***************************************************************************)

\* Front takes away what was appended.
LEMMA FrontOf == ASSUME NEW A, NEW s \in Seq(A), NEW e \in A PROVE Front(Append(s, e)) = s
<1>1. PICK n \in Nat : n = Len(s) /\ DOMAIN s = 1..n
  BY LenProperties
<1>2. PICK t : t = Append(s, e)
  OBVIOUS
<1>3. t \in Seq(A) /\ Len(t) = n + 1 /\ \A i \in 1..n : t[i] = s[i]
  BY <1>1, <1>2, AppendProperties
<1>4. PICK u : u = SubSeq(t, 1, n)
  OBVIOUS
<1>5. \A i \in 1..n : t[i] \in A
  BY <1>1, <1>3, LenProperties
<1>6. u \in Seq(A) /\ Len(u) = n /\ \A i \in 1..n : u[i] = t[i]
  <2>1. /\ SubSeq(t, 1, n) \in Seq(A)
        /\ Len(SubSeq(t, 1, n)) = IF 1 <= n THEN n - 1 + 1 ELSE 0
        /\ \A i \in 1..n - 1 + 1 : SubSeq(t, 1, n)[i] = t[1 + i - 1]
    BY <1>5, SubSeqProperties
  <2>2. QED
    BY <1>4, <2>1
<1>7. u = s
  BY <1>1, <1>3, <1>6, SeqEqual
<1>8. QED
  BY <1>2, <1>3, <1>4, <1>7 DEF Front

\* The step of Walk.
Passed(t, p) == IF p \in {<<>>, Dot} THEN t
                ELSE IF p = Dots THEN IF t = <<>> THEN <<>> ELSE Front(t)
                ELSE Append(t, p)
Pass(B) == [q \in Seq(Proper(B)) \X Piece(B) |-> Passed(q[1], q[2])]

LEMMA PassType ==
    ASSUME NEW B
    PROVE  /\ FoldsInto(Pass(B), Piece(B), Seq(Proper(B)))
           /\ <<>> \in Seq(Proper(B))
           /\ \A t \in Seq(Proper(B)), p \in Piece(B) : Pass(B)[<<t, p>>] = Passed(t, p)
<1>1. <<>> \in Seq(Proper(B))
  BY EmptySeq
<1>2. ASSUME NEW t \in Seq(Proper(B)), NEW p \in Piece(B)
      PROVE  Passed(t, p) \in Seq(Proper(B))
  <2>1. PICK A : A = Proper(B)
    OBVIOUS
  <2>2. t # <<>> => Front(t) \in Seq(A)
    <3> SUFFICES ASSUME t # <<>> PROVE Front(t) \in Seq(A)
      OBVIOUS
    <3>1. PICK u \in Seq(A), e \in A : t = Append(u, e)
      BY <2>1, SequenceEmptyOrAppend
    <3>2. QED
      BY <3>1, FrontOf
  <2>3. p \notin {<<>>, Dot, Dots} => Append(t, p) \in Seq(A)
    <3> SUFFICES ASSUME p \notin {<<>>, Dot, Dots} PROVE Append(t, p) \in Seq(A)
      OBVIOUS
    <3>1. p \in A
      BY <2>1 DEF Proper
    <3>2. QED
      BY <2>1, <3>1, AppendProperties
  <2>4. QED
    BY <1>1, <2>1, <2>2, <2>3 DEF Passed
<1>3. QED
  BY <1>1, <1>2 DEF Pass, FoldsInto

\* Walk is a fold.
LEMMA WalkIsFold ==
    ASSUME NEW B, NEW s \in Seq(Piece(B))
    PROVE  Walk(s) = FoldOf(Pass(B), <<>>, s)
<1> DEFINE Step(it, x) ==
               IF x = {} THEN <<>>
               ELSE CASE s[Max(x)] \in {<<>>, Dot} -> it[x \ {Max(x)}]
                      [] s[Max(x)] = Dots /\ it[x \ {Max(x)}] = <<>> -> it[x \ {Max(x)}]
                      [] s[Max(x)] = Dots /\ it[x \ {Max(x)}] # <<>> -> Front(it[x \ {Max(x)}])
                      [] OTHER -> Append(it[x \ {Max(x)}], s[Max(x)])
<1>v. PICK g, T, b, A : g = Pass(B) /\ T = Seq(Proper(B)) /\ b = <<>> /\ A = Piece(B)
  OBVIOUS
<1>f. FoldsInto(g, A, T)
  BY <1>v, PassType
<1>e. b \in T
  BY <1>v, PassType
<1>g. \A t \in T, p \in A : g[<<t, p>>] = Passed(t, p)
  BY <1>v, PassType
<1>0. s \in Seq(A)
  BY <1>v
<1>n. PICK n \in Nat : n = Len(s) /\ DOMAIN s = 1..n /\ s \in [1..n -> A]
  BY <1>0, LenProperties
<1>1. PICK it \in [SUBSET DOMAIN s -> T] : FoldsBy(it, g, b, s)
  BY <1>0, <1>f, <1>e, FoldExists
<1>2. ASSUME NEW x \in SUBSET (1..n), x # {} PROVE s[Max(x)] \in A
  BY <1>n, <1>2, WithoutGreatest
<1>d. Dot # Dots /\ <<>> # Dots
  BY DEF Dot, Dots
<1>c. ASSUME NEW x, x # {}, NEW it1, it1[x \ {Max(x)}] \in T, s[Max(x)] \in A
      PROVE  g[<<it1[x \ {Max(x)}], s[Max(x)]>>] = Step(it1, x)
  <2>1. PICK t \in T, p \in A : t = it1[x \ {Max(x)}] /\ p = s[Max(x)]
    BY <1>c
  <2>2. g[<<t, p>>] = Passed(t, p)
    BY <1>g
  <2>3. Step(it1, x) = CASE p \in {<<>>, Dot} -> t
                         [] p = Dots /\ t = <<>> -> t
                         [] p = Dots /\ t # <<>> -> Front(t)
                         [] OTHER -> Append(t, p)
    BY <1>c, <2>1
  <2>4. QED
    BY <1>d, <2>1, <2>2, <2>3 DEF Passed
<1>3. it = [x \in SUBSET DOMAIN s |-> Step(it, x)]
  <2>1. ASSUME NEW x \in SUBSET DOMAIN s PROVE it[x] = Step(it, x)
    <3>1. CASE x # {}
      <4>1. it[x] = g[<<it[x \ {Max(x)}], s[Max(x)]>>]
        BY <1>1, <3>1 DEF FoldsBy
      <4>2. it[x \ {Max(x)}] \in T /\ s[Max(x)] \in A
        BY <1>n, <1>1, <1>2, <3>1
      <4> HIDE DEF Step
      <4>3. QED
        BY <1>c, <3>1, <4>1, <4>2
    <3>2. CASE x = {}
      BY <1>1, <1>v, <3>2 DEF FoldsBy
    <3>3. QED
      BY <3>1, <3>2
  <2> HIDE DEF Step
  <2>2. QED
    BY <2>1
<1>4. PICK jt : /\ jt = [x \in SUBSET DOMAIN s |-> Step(jt, x)]
                /\ Walk(s) = jt[DOMAIN s]
  <2>1. Walk(s) = (CHOOSE jt : jt = [x \in SUBSET DOMAIN s |-> Step(jt, x)])[DOMAIN s]
    BY DEF Walk, FoldLeft, MapThenFoldSet
  <2> HIDE DEF Step
  <2>2. QED
    BY <1>3, <2>1
<1>5. jt = [x \in SUBSET DOMAIN s |-> jt[x]] /\ jt[{}] = b
  <2>1. Step(jt, {}) = b
    BY <1>v
  <2> HIDE DEF Step
  <2>2. QED
    BY <1>4, <2>1
<1>6. ASSUME NEW x \in SUBSET DOMAIN s, x # {}, jt[x \ {Max(x)}] \in T
      PROVE  jt[x] = g[<<jt[x \ {Max(x)}], s[Max(x)]>>]
  <2> HIDE DEF Step
  <2>1. jt[x] = Step(jt, x)
    BY <1>4
  <2>2. s[Max(x)] \in A
    BY <1>n, <1>2, <1>6
  <2>3. QED
    BY <1>c, <1>6, <2>1, <2>2
<1>7. FoldOf(g, b, s) = jt[DOMAIN s]
  <2>1. RecursBy(jt, g, b, T, s)
    BY <1>5, <1>6 DEF RecursBy
  <2>2. QED
    BY <1>0, <1>f, <1>e, <2>1, RecursionIsFold
<1>8. QED
  BY <1>v, <1>4, <1>7

\* What Walk computes, piece by piece.
LEMMA WalkSteps ==
    ASSUME NEW B
    PROVE  /\ Walk(<<>>) = <<>>
           /\ \A s \in Seq(Piece(B)) : Walk(s) \in Seq(Proper(B))
           /\ \A s \in Seq(Piece(B)), p \in Piece(B) :
                /\ p \in {<<>>, Dot} => Walk(Append(s, p)) = Walk(s)
                /\ p \in Proper(B) => Walk(Append(s, p)) = Append(Walk(s), p)
<1>1. PICK g, T, b, A : g = Pass(B) /\ T = Seq(Proper(B)) /\ b = <<>> /\ A = Piece(B)
  OBVIOUS
<1>f. FoldsInto(g, A, T)
  BY <1>1, PassType
<1>e. b \in T
  BY <1>1, PassType
<1>g. \A t \in T, p \in A : g[<<t, p>>] = Passed(t, p)
  BY <1>1, PassType
<1>2. \A s \in Seq(A) : Walk(s) = FoldOf(g, b, s)
  BY <1>1, WalkIsFold
<1>3. /\ FoldOf(g, b, <<>>) = b
      /\ \A s \in Seq(A) : FoldOf(g, b, s) \in T
      /\ \A s \in Seq(A), p \in A : FoldOf(g, b, Append(s, p)) = g[<<FoldOf(g, b, s), p>>]
  BY <1>f, <1>e, FoldSteps
<1>4. <<>> \in Seq(A) /\ \A s \in Seq(A), p \in A : Append(s, p) \in Seq(A)
  BY EmptySeq, AppendProperties
<1>5. ASSUME NEW s \in Seq(A), NEW p \in A
      PROVE  /\ p \in {<<>>, Dot} => Walk(Append(s, p)) = Walk(s)
             /\ p \in Proper(B) => Walk(Append(s, p)) = Append(Walk(s), p)
  <2>1. PICK t \in T : t = Walk(s) /\ t = FoldOf(g, b, s)
    BY <1>2, <1>3
  <2>2. Walk(Append(s, p)) = g[<<t, p>>]
    BY <1>2, <1>3, <1>4, <2>1
  <2>3. Walk(Append(s, p)) = Passed(t, p)
    BY <1>g, <2>1, <2>2
  <2>4. p \in Proper(B) => p \notin {<<>>, Dot, Dots}
    BY DEF Proper
  <2>5. QED
    BY <2>1, <2>3, <2>4 DEF Passed
<1>6. QED
  BY <1>1, <1>2, <1>3, <1>4, <1>5

\* Names are pieces.
LEMMA NamesArePieces == ASSUME NEW B PROVE Proper(B) \subseteq Piece(B) /\ Seq(Proper(B)) \subseteq Seq(Piece(B))
<1>1. Proper(B) \subseteq Piece(B)
  BY DEF Proper
<1>2. QED
  BY <1>1, SeqMonotonic

LEMMA PiecesAreList == ASSUME NEW B PROVE /\ Pieces(B) \subseteq Seq(Piece(B))
                                          /\ <<>> \in Piece(B)
                                          /\ << <<>> >> \in Seq(Piece(B)) /\ <<>> \in Seq(Piece(B))
                                          /\ << <<>> >> = Append(<<>>, <<>>)
<1>1. <<>> \in Piece(B)
  BY EmptySeq DEF Piece
<1>2. Pieces(B) \subseteq Seq(Piece(B)) /\ << <<>> >> \in Seq(Piece(B))
  BY CutType DEF Pieces
<1>3. <<>> \in Seq(Piece(B))
  BY EmptySeq
<1>4. Append(<<>>, <<>>) = <<>> \o << <<>> >>
  BY <1>1, <1>3, AppendIsConcat
<1>5. QED
  BY <1>1, <1>2, <1>3, <1>4, ConcatEmptySeq

\* WithoutSteps, of one step.
LEMMA WithoutStep ==
    ASSUME NEW A, NEW S, NEW s \in Seq(A), NEW e \in A
    PROVE  /\ e \in S => Without(Append(s, e), S) = Without(s, S)
           /\ e \notin S => Without(Append(s, e), S) = Append(Without(s, S), e)
<1>1. Without(Append(s, e), S) = IF e \in S THEN Without(s, S) ELSE Append(Without(s, S), e)
  BY WithoutSteps
<1>2. QED
  BY <1>1

\* Names pass through Walk, and through the filter of the crumbs, as they are.
LEMMA WalkOfNames ==
    ASSUME NEW B, NEW ns \in Seq(Proper(B))
    PROVE  /\ Walk(<< <<>> >> \o ns) = ns
           /\ Without(<< <<>> >> \o ns, {<<>>}) = ns
<1>1. PICK A, N, one : A = Piece(B) /\ N = Proper(B) /\ one = << <<>> >>
  OBVIOUS
<1>2. /\ one \in Seq(A) /\ <<>> \in A /\ <<>> \in Seq(A) /\ one = Append(<<>>, <<>>)
      /\ N \subseteq A /\ Seq(N) \subseteq Seq(A)
  BY <1>1, PiecesAreList, NamesArePieces
<1> DEFINE P == {ms \in Seq(N) : Walk(one \o ms) = ms /\ Without(one \o ms, {<<>>}) = ms}
<1>3. <<>> \in P
  <2>1. one \o <<>> = one /\ <<>> \in Seq(N)
    BY <1>2, ConcatEmptySeq, EmptySeq
  <2>2. Walk(one) = <<>>
    <3>1. Walk(Append(<<>>, <<>>)) = Walk(<<>>) /\ Walk(<<>>) = <<>>
      BY <1>1, <1>2, WalkSteps
    <3>2. QED
      BY <1>2, <3>1
  <2>3. Without(one, {<<>>}) = <<>>
    BY ZenonT(30), <1>2, WithoutSteps
  <2>4. QED
    BY <2>1, <2>2, <2>3
<1>4. ASSUME NEW ms \in P, NEW p \in N PROVE Append(ms, p) \in P
  <2>0. ms \in Seq(N) /\ Walk(one \o ms) = ms /\ Without(one \o ms, {<<>>}) = ms
    OBVIOUS
  <2> HIDE DEF P
  <2>1. PICK q : q = one \o ms
    OBVIOUS
  <2>2. q \in Seq(A) /\ p \in A /\ p # <<>> /\ Append(ms, p) \in Seq(N)
    BY <1>1, <1>2, <2>0, <2>1, ConcatProperties, AppendProperties DEF Proper
  <2>3. one \o Append(ms, p) = Append(q, p)
    BY <1>2, <2>0, <2>1, <2>2, ConcatAppend
  <2>4. Walk(Append(q, p)) = Append(Walk(q), p)
    BY <1>1, <2>2, WalkSteps
  <2>5. Without(Append(q, p), {<<>>}) = Append(Without(q, {<<>>}), p)
    <3>1. p \notin {<<>>}
      BY <2>2
    <3>2. QED
      BY <2>2, <3>1, WithoutStep
  <2>6. QED
    BY <2>0, <2>1, <2>2, <2>3, <2>4, <2>5 DEF P
<1>5. P = Seq(N)
  <2>1. P \in SUBSET Seq(N)
    OBVIOUS
  <2> HIDE DEF P
  <2>2. QED
    BY <1>3, <1>4, <2>1, ListInduction
<1>6. QED
  BY <1>1, <1>5

\* A path joined from names names these.
LEMMA ComponentsOfJoin ==
    ASSUME NEW B, Slash \in B, NEW ns \in Seq(Proper(B))
    PROVE  /\ Components(Join(ns)) = ns
           /\ Without(Split(Join(ns)), {<<>>}) = ns
<1>1. PICK A, N, one : A = Piece(B) /\ N = Proper(B) /\ one = << <<>> >>
  OBVIOUS
<1>2. /\ one \in Seq(A) /\ <<>> \in A /\ <<>> \in Seq(A) /\ one = Append(<<>>, <<>>)
      /\ N \subseteq A /\ Seq(N) \subseteq Seq(A)
  BY <1>1, PiecesAreList, NamesArePieces
<1>3. Split(Join(ns)) = one \o (IF ns = <<>> THEN one ELSE ns)
  BY <1>1, <1>2, JoinIs
<1>4. CASE ns # <<>>
  BY <1>1, <1>3, <1>4, WalkOfNames DEF Components
<1>5. CASE ns = <<>>
  <2>1. one \o one = Append(one \o <<>>, <<>>) /\ one \o <<>> = one
    BY <1>2, ConcatAppend, ConcatEmptySeq
  <2>2. <<>> \in Seq(N)
    BY EmptySeq
  <2>3. Walk(one) = <<>> /\ Without(one, {<<>>}) = <<>>
    BY <1>1, <2>1, <2>2, WalkOfNames
  <2>4. Walk(Append(one, <<>>)) = Walk(one)
    BY <1>1, <1>2, WalkSteps
  <2>5. Without(Append(one, <<>>), {<<>>}) = Without(one, {<<>>})
    BY ZenonT(60), <1>2, WithoutSteps
  <2>6. QED
    BY <1>3, <1>5, <2>1, <2>3, <2>4, <2>5 DEF Components
<1>6. QED
  BY <1>4, <1>5

\* The components of any text are names.
LEMMA ComponentsAreNames ==
    ASSUME NEW B, NEW s \in Seq(B)
    PROVE  Components(s) \in Seq(Proper(B)) /\ Components(s) \in Seq(Piece(B))
<1>1. Split(s) \in Seq(Piece(B))
  BY SplitSteps, PiecesAreList
<1>2. Components(s) \in Seq(Proper(B))
  BY <1>1, WalkSteps DEF Components
<1>3. QED
  BY <1>2, NamesArePieces

\* Without "..", Walk only leaves out.
LEMMA WalkIsFilter ==
    ASSUME NEW B, NEW ps \in Seq(Piece(B)), ~ Contains(ps, Dots)
    PROVE  Walk(ps) = Without(ps, {<<>>, Dot})
<1>1. PICK A : A = Piece(B) /\ ps \in Seq(A)
  OBVIOUS
<1> DEFINE P == {ms \in Seq(A) : (\A i \in 1..Len(ms) : ms[i] # Dots) => Walk(ms) = Without(ms, {<<>>, Dot})}
<1>2. <<>> \in P
  BY <1>1, EmptySeq, WalkSteps, WithoutSteps
<1>3. ASSUME NEW ms \in P, NEW p \in A PROVE Append(ms, p) \in P
  <2>0. ms \in Seq(A) /\ ((\A i \in 1..Len(ms) : ms[i] # Dots) => Walk(ms) = Without(ms, {<<>>, Dot}))
    OBVIOUS
  <2> HIDE DEF P
  <2>1. PICK t : t = Append(ms, p)
    OBVIOUS
  <2>2. PICK n \in Nat : n = Len(ms)
    BY <2>0, LenProperties
  <2>3. t \in Seq(A) /\ Len(t) = n + 1 /\ t[n + 1] = p /\ \A i \in 1..n : t[i] = ms[i]
    BY <2>0, <2>1, <2>2, AppendProperties
  <2>4. ASSUME \A i \in 1..Len(t) : t[i] # Dots PROVE Walk(t) = Without(t, {<<>>, Dot})
    <3>1. \A i \in 1..n : ms[i] # Dots
      BY <2>3, <2>4
    <3>2. p # Dots
      BY <2>3, <2>4
    <3>3. Walk(ms) = Without(ms, {<<>>, Dot})
      BY <2>0, <2>2, <3>1
    <3>5. CASE p \in {<<>>, Dot}
      <4>1. Walk(Append(ms, p)) = Walk(ms)
        BY <1>1, <2>0, <3>5, WalkSteps
      <4>2. Without(Append(ms, p), {<<>>, Dot}) = Without(ms, {<<>>, Dot})
        BY <2>0, <3>5, WithoutStep
      <4>3. QED
        BY <2>1, <3>3, <4>1, <4>2
    <3>6. CASE p \notin {<<>>, Dot}
      <4>1. p \in Proper(B)
        BY <1>1, <3>2, <3>6 DEF Proper
      <4>2. Walk(Append(ms, p)) = Append(Walk(ms), p)
        BY <1>1, <2>0, <4>1, WalkSteps
      <4>3. Without(Append(ms, p), {<<>>, Dot}) = Append(Without(ms, {<<>>, Dot}), p)
        BY <2>0, <3>6, WithoutStep
      <4>4. QED
        BY <2>1, <3>3, <4>2, <4>3
    <3>7. QED
      BY <3>5, <3>6
  <2>5. QED
    BY <2>1, <2>3, <2>4 DEF P
<1>4. P = Seq(A)
  <2>1. P \in SUBSET Seq(A)
    OBVIOUS
  <2> HIDE DEF P
  <2>2. QED
    BY <1>2, <1>3, <2>1, ListInduction
<1>5. \A i \in 1..Len(ps) : ps[i] # Dots
  BY LenProperties DEF Contains
<1>6. QED
  BY <1>1, <1>4, <1>5

-----------------------------------------------------------------------------
(***************************************************************************)
(* Prefixes: what the code compares as strings is what the reference       *)
(* compares by components.                                                 *)
(***************************************************************************)

\* A path is one of the paths below another exactly if its components start with
\* the other's.
LEMMA JoinedBelow ==
    ASSUME NEW B, Slash \in B, NEW ns \in Seq(Proper(B)), NEW qs \in Seq(Proper(B)), qs # <<>>
    PROVE  (Join(ns) = Join(qs) \/ IsPrefix(Join(qs) \o Root, Join(ns))) <=> Below(ns, qs)
<1>1. PICK A, one : A = Piece(B) /\ one = << <<>> >> /\ one \in Seq(A)
  BY PiecesAreList
<1>2. ns \in Seq(A) /\ qs \in Seq(A)
  BY <1>1, NamesArePieces
<1>3. Root \in Seq(B) /\ Join(ns) \in Seq(B) /\ Join(qs) \in Seq(B) /\ Join(qs) \o Root \in Seq(B)
  BY <1>1, <1>2, RootIsText, JoinIs, ConcatProperties
<1>4. ASSUME Join(ns) = Join(qs) PROVE Below(ns, qs)
  <2>1. ns = qs
    BY <1>4, ComponentsOfJoin
  <2>2. qs = qs \o <<>> /\ <<>> \in Seq(A)
    BY <1>2, ConcatEmptySeq, EmptySeq
  <2>3. QED
    BY <1>2, <2>1, <2>2, PrefixIs DEF Below
<1>5. ASSUME IsPrefix(Join(qs) \o Root, Join(ns)) PROVE Below(ns, qs)
  <2>1. PICK u \in Seq(B) : Join(ns) = (Join(qs) \o Root) \o u
    BY <1>3, <1>5, PrefixIs
  <2>2. Split(Join(ns)) = Split(Join(qs)) \o Split(u)
    BY <1>3, <2>1, SplitAtSlash
  <2>3. PICK v \in Seq(A) : v = Split(u) /\ v # <<>>
    BY <1>1, SplitSteps, PiecesAreList DEF Pieces
  <2>4. Split(Join(qs)) = one \o qs
    BY <1>1, <1>2, JoinIs
  <2>5. Split(Join(ns)) = one \o (qs \o v)
    BY <1>1, <1>2, <2>2, <2>3, <2>4, ConcatAssociative
  <2>6. CASE ns # <<>>
    <3>1. one \o ns = one \o (qs \o v)
      BY <1>1, <1>2, <2>5, <2>6, JoinIs
    <3>2. qs \o v \in Seq(A)
      BY <1>2, ConcatProperties
    <3>3. ns = qs \o v
      BY <1>1, <1>2, <3>1, <3>2, ConcatSimplifications
    <3>4. QED
      BY <1>2, <3>3, PrefixIs DEF Below
  <2>7. CASE ns = <<>>
    <3>1. one \o one = one \o (qs \o v)
      BY <1>1, <1>2, <2>5, <2>7, JoinIs
    <3>2. qs \o v \in Seq(A)
      BY <1>2, ConcatProperties
    <3>3. one = qs \o v
      BY <1>1, <3>1, <3>2, ConcatSimplifications
    <3>4. Len(one) = 1 /\ Len(qs \o v) = Len(qs) + Len(v)
      BY <1>1, <1>2, ConcatProperties
    <3>5. Len(qs) \in Nat /\ Len(v) \in Nat /\ Len(qs) # 0 /\ Len(v) # 0
      BY <1>2, <2>3, EmptySeq, LenProperties
    <3>6. QED
      BY <3>3, <3>4, <3>5
  <2>8. QED
    BY <2>6, <2>7
<1>6. ASSUME Below(ns, qs)
      PROVE  Join(ns) = Join(qs) \/ IsPrefix(Join(qs) \o Root, Join(ns))
  <2>1. PICK u \in Seq(A) : ns = qs \o u
    BY <1>2, <1>6, PrefixIs DEF Below
  <2>2. CASE u = <<>>
    BY <1>2, <2>1, <2>2, ConcatEmptySeq
  <2>3. CASE u # <<>>
    <3>1. PICK w \in Seq(B) : Flat(u) = Root \o w
      BY <1>1, <2>3, FlatStarts
    <3>2. Flat(ns) = Flat(qs) \o Flat(u)
      BY <1>1, <1>2, <2>1, FlatSteps
    <3>3. Len(qs \o u) = Len(qs) + Len(u) /\ Len(u) \in Nat /\ Len(u) # 0 /\ Len(qs) \in Nat
      BY <1>2, <2>3, ConcatProperties, LenProperties, EmptySeq
    <3>4. ns # <<>>
      BY <2>1, <3>3
    <3>5. Join(ns) = Flat(ns) /\ Join(qs) = Flat(qs)
      BY <1>1, <1>2, <3>4, JoinIs
    <3>6. Join(ns) = (Join(qs) \o Root) \o w
      <4>1. PICK f \in Seq(B) : f = Join(qs)
        BY <1>3
      <4>2. f \o (Root \o w) = (f \o Root) \o w
        <5>1. PICK r \in Seq(B) : r = Root
          BY <1>3
        <5>2. f \o (r \o w) = (f \o r) \o w
          BY SMTT(30), ConcatAssociative
        <5>3. QED
          BY <5>1, <5>2
      <4>3. QED
        BY <3>1, <3>2, <3>5, <4>1, <4>2
    <3>7. QED
      BY <1>3, <3>6, PrefixIs
  <2>4. QED
    BY <2>2, <2>3
<1>7. QED
  BY <1>4, <1>5, <1>6

\* Only the root's string is a separator; it is a prefix of every path.
LEMMA RootIsAbove ==
    ASSUME NEW B, Slash \in B, NEW ns \in Seq(Proper(B))
    PROVE  /\ Join(ns) = Root <=> ns = <<>>
           /\ IsPrefix(Root, Join(ns))
           /\ Below(ns, <<>>)
<1>1. PICK A : A = Piece(B) /\ ns \in Seq(A) /\ <<>> \in Seq(A)
  BY NamesArePieces, PiecesAreList
<1>2. Join(<<>>) = Root
  BY <1>1, JoinIs
<1>3. Components(Join(ns)) = ns /\ Components(Join(<<>>)) = <<>>
  <2>1. <<>> \in Seq(Proper(B))
    BY EmptySeq
  <2>2. QED
    BY <2>1, ComponentsOfJoin
<1>4. ns = <<>> \o ns
  BY <1>1, ConcatEmptySeq
<1>5. Below(ns, <<>>)
  BY <1>1, <1>4, PrefixIs DEF Below
<1>6. Root \in Seq(B) /\ Join(ns) \in Seq(B)
  BY <1>1, RootIsText, JoinIs
<1>7. \E u \in Seq(B) : Join(ns) = Root \o u
  <2>1. CASE ns = <<>>
    <3>1. Root = Root \o <<>> /\ <<>> \in Seq(B)
      BY <1>6, ConcatEmptySeq, EmptySeq
    <3>2. QED
      BY <1>2, <2>1, <3>1
  <2>2. CASE ns # <<>>
    BY ZenonT(30), <1>1, <2>2, FlatStarts, JoinIs
  <2>3. QED
    BY <2>1, <2>2
<1>8. QED
  BY <1>2, <1>3, <1>5, <1>6, <1>7, PrefixIs

-----------------------------------------------------------------------------
(***************************************************************************)
(* Cutting lists.                                                          *)
(***************************************************************************)

\* The two parts of a concatenation.
LEMMA PartsOfConcat ==
    ASSUME NEW A, NEW s \in Seq(A), NEW t \in Seq(A)
    PROVE  /\ SubSeq(s \o t, 1, Len(s)) = s
           /\ SubSeq(s \o t, Len(s) + 1, Len(s \o t)) = t
           /\ t # <<>> => Last(s \o t) = t[Len(t)]
<1>1. PICK m \in Nat, n \in Nat : m = Len(s) /\ n = Len(t)
  BY LenProperties
<1>2. PICK c : c = s \o t
  OBVIOUS
<1>3. /\ c \in Seq(A) /\ Len(c) = m + n
      /\ \A i \in 1..(m + n) : c[i] = IF i <= m THEN s[i] ELSE t[i - m]
  BY <1>1, <1>2, ConcatProperties
<1>4. \A i \in 1..(m + n) : c[i] \in A
  BY <1>3, LenProperties
<1>5. SubSeq(c, 1, m) = s
  <2>1. PICK u : u = SubSeq(c, 1, m)
    OBVIOUS
  <2>2. \A i \in 1..m : c[i] \in A
    BY <1>1, <1>4
  <2>3. /\ u \in Seq(A) /\ Len(u) = IF 1 <= m THEN m - 1 + 1 ELSE 0
        /\ \A i \in 1..(m - 1 + 1) : u[i] = c[1 + i - 1]
    BY <1>1, <2>1, <2>2, SubSeqProperties
  <2>4. Len(u) = m
    BY <1>1, <2>3
  <2>5. \A i \in 1..m : u[i] = s[i]
    BY <1>1, <1>3, <2>3
  <2>6. u = s
    BY <1>1, <2>3, <2>4, <2>5, SeqEqual
  <2>7. QED
    BY <2>1, <2>6
<1>6. SubSeq(c, m + 1, m + n) = t
  <2>1. PICK u : u = SubSeq(c, m + 1, m + n)
    OBVIOUS
  <2>2. \A i \in (m + 1)..(m + n) : c[i] \in A
    BY <1>1, <1>4
  <2>3. /\ u \in Seq(A) /\ Len(u) = IF m + 1 <= m + n THEN m + n - (m + 1) + 1 ELSE 0
        /\ \A i \in 1..(m + n - (m + 1) + 1) : u[i] = c[m + 1 + i - 1]
    <3>1. m + 1 \in Int /\ m + n \in Int
      BY <1>1
    <3>2. QED
      BY <2>1, <2>2, <3>1, SubSeqProperties
  <2>4. Len(u) = n
    BY <1>1, <2>3
  <2>5. ASSUME NEW i \in 1..n PROVE u[i] = t[i]
    <3>1. i \in 1..(m + n - (m + 1) + 1) /\ m + 1 + i - 1 = m + i
      BY <1>1
    <3>2. u[i] = c[m + i]
      BY <2>3, <3>1
    <3>3. m + i \in 1..(m + n) /\ ~ (m + i <= m) /\ (m + i) - m = i
      BY <1>1
    <3>4. c[m + i] = t[i]
      BY <1>3, <3>3
    <3>5. QED
      BY <3>2, <3>4
  <2>6. u = t
    BY <1>1, <2>3, <2>4, <2>5, SeqEqual
  <2>7. QED
    BY <2>1, <2>6
<1>7. ASSUME t # <<>> PROVE Last(c) = t[n]
  <2>1. n # 0
    BY <1>1, <1>7, EmptySeq
  <2>2. QED
    BY <1>1, <1>3, <2>1 DEF Last
<1>8. QED
  BY <1>1, <1>2, <1>3, <1>5, <1>6, <1>7

\* The last separator of a path is the one before its last name.
LEMMA LastSlash ==
    ASSUME NEW B, Slash \in B, NEW s \in Seq(B), NEW p \in Piece(B)
    PROVE  SelectLastInSeq((s \o Root) \o p, LAMBDA c : c = Slash) = Len(s) + 1
<1>1. PICK m \in Nat, n \in Nat : m = Len(s) /\ n = Len(p)
  BY LenProperties DEF Piece
<1>2. Root \in Seq(B) /\ Len(Root) = 1 /\ Root[1] = Slash /\ p \in Seq(B)
  BY RootIsText, PieceIsText
<1>3. PICK d : d = s \o Root
  OBVIOUS
<1>4. d \in Seq(B) /\ Len(d) = m + 1 /\ d[m + 1] = Slash
  <2>1. /\ d \in Seq(B) /\ Len(d) = Len(s) + Len(Root)
        /\ \A i \in 1..(Len(s) + Len(Root)) : d[i] = IF i <= Len(s) THEN s[i] ELSE Root[i - Len(s)]
    BY <1>2, <1>3, ConcatProperties
  <2>2. QED
    BY <1>1, <1>2, <2>1
<1>5. PICK c : c = d \o p
  OBVIOUS
<1>6. /\ Len(c) = m + 1 + n
      /\ \A i \in 1..(m + 1 + n) : c[i] = IF i <= m + 1 THEN d[i] ELSE p[i - (m + 1)]
  <2>1. /\ Len(c) = Len(d) + Len(p)
        /\ \A i \in 1..(Len(d) + Len(p)) : c[i] = IF i <= Len(d) THEN d[i] ELSE p[i - Len(d)]
    BY <1>2, <1>4, <1>5, ConcatProperties
  <2>2. QED
    BY <1>1, <1>4, <2>1
<1>7. \A i \in 1..n : p[i] # Slash
  BY <1>1, LenProperties DEF Piece
<1>8. PICK I : I = {i \in 1..Len(c) : c[i] = Slash}
  OBVIOUS
<1>9. m + 1 \in I /\ \A i \in I : i <= m + 1 /\ i \in Nat
  <2>1. m + 1 \in 1..Len(c) /\ c[m + 1] = Slash
    BY <1>1, <1>4, <1>6
  <2>2. ASSUME NEW i \in 1..Len(c), i > m + 1 PROVE c[i] # Slash
    <3>1. i - (m + 1) \in 1..n /\ c[i] = p[i - (m + 1)]
      BY <1>1, <1>6, <2>2
    <3>2. QED
      BY <1>7, <3>1
  <2>3. QED
    BY <1>1, <1>6, <1>8, <2>1, <2>2
<1>10. Max(I) = m + 1
  BY <1>1, <1>9 DEF Max
<1>11. SelectLastInSeq(c, LAMBDA e : e = Slash) = IF I # {} THEN Max(I) ELSE 0
  BY <1>8 DEF SelectLastInSeq
<1>12. QED
  BY <1>1, <1>3, <1>5, <1>9, <1>10, <1>11

\* The directory of a path is the path of its directory.
LEMMA ParentOfJoin ==
    ASSUME NEW B, Slash \in B, NEW ns \in Seq(Proper(B)), ns # <<>>
    PROVE  Parent(Join(ns)) = Join(Front(ns))
<1>1. PICK A : A = Piece(B) /\ ns \in Seq(A)
  BY NamesArePieces
<1>2. PICK ms \in Seq(A), p \in A : ns = Append(ms, p)
  BY <1>1, SequenceEmptyOrAppend
<1>3. Front(ns) = ms
  BY <1>2, FrontOf
<1>4. PICK f \in Seq(B) : f = Flat(ms)
  BY <1>1, FlatSteps
<1>5. Join(ns) = (f \o Root) \o p
  <2>1. Join(ns) = Flat(ns)
    BY <1>1, JoinIs
  <2>2. Flat(Append(ms, p)) = (Flat(ms) \o Root) \o p
    BY <1>1, <1>2, FlatSteps
  <2>3. QED
    BY <1>2, <1>4, <2>1, <2>2
<1>6. SelectLastInSeq(Join(ns), LAMBDA c : c = Slash) = Len(f) + 1
  BY <1>1, <1>5, LastSlash
<1>7. Len(f) \in Nat
  BY LenProperties
<1>8. SubSeq(Join(ns), 1, Len(f)) = f
  <2>1. Root \in Seq(B) /\ p \in Seq(B)
    BY <1>1, RootIsText, PieceIsText
  <2>2. PICK r \in Seq(B) : r = Root
    BY <2>1
  <2>3. Join(ns) = f \o (r \o p) /\ r \o p \in Seq(B)
    BY <1>5, <2>1, <2>2, ConcatAssociative, ConcatProperties
  <2>4. QED
    BY <2>3, PartsOfConcat
<1>9. Parent(Join(ns)) = IF Len(f) + 1 = 1 THEN Root ELSE SubSeq(Join(ns), 1, Len(f) + 1 - 1)
  BY <1>6 DEF Parent
<1>10. Len(f) + 1 - 1 = Len(f) /\ (Len(f) + 1 = 1 <=> f = <<>>)
  BY <1>7, EmptySeq
<1>11. Parent(Join(ns)) = IF f = <<>> THEN Root ELSE f
  BY <1>8, <1>9, <1>10
<1>12. CASE ms # <<>>
  <2>1. Join(ms) = f /\ f # <<>>
    BY <1>1, <1>4, <1>12, JoinIs
  <2>2. QED
    BY <1>3, <1>11, <2>1
<1>13. CASE ms = <<>>
  BY <1>1, <1>3, <1>4, <1>11, <1>13, FlatSteps, JoinIs
<1>14. QED
  BY <1>12, <1>13

-----------------------------------------------------------------------------
(***************************************************************************)
(* The scan roots.                                                         *)
(***************************************************************************)

\* The characters, the separator among them, and the lists of names.
Char == STRING \cup {Slash}
NameList == Seq(Proper(Char))

LEMMA CharHasSlash == Slash \in Char /\ Seq(STRING) \subseteq Seq(Char)
BY SeqMonotonic DEF Char

\* A text lacks a character exactly if it is one of the others.
LEMMA LackingIs ==
    ASSUME NEW A, NEW e, NEW s \in Seq(A)
    PROVE  ~ Contains(s, e) <=> s \in Seq(A \ {e})
<1>1. PICK k \in Nat : k = Len(s) /\ s \in [1..k -> A]
  BY LenProperties
<1>2. ASSUME ~ Contains(s, e) PROVE s \in Seq(A \ {e})
  <2>1. \A i \in 1..k : s[i] # e
    BY <1>1, <1>2 DEF Contains
  <2>2. s \in [1..k -> A \ {e}]
    BY <1>1, <2>1
  <2>3. QED
    BY <2>2, SeqDef
<1>3. ASSUME s \in Seq(A \ {e}) PROVE ~ Contains(s, e)
  BY <1>3, LenProperties DEF Contains
<1>4. QED
  BY <1>2, <1>3

\* What is on a disk is lists of names.
LEMMA EntriesAreNames == Seq(EntryName) \subseteq NameList
<1>1. ASSUME NEW n \in EntryName PROVE n \in Proper(Char)
  <2>1. n \in Seq(STRING) /\ n \notin {<<>>, Dot, Dots} /\ ~ Contains(n, Slash)
    BY <1>1 DEF EntryName
  <2>2. n \in Seq(STRING \ {Slash})
    BY <2>1, LackingIs
  <2>3. STRING \ {Slash} \subseteq Char \ {Slash}
    BY DEF Char
  <2>4. n \in Piece(Char)
    BY <2>2, <2>3, SeqMonotonic DEF Piece
  <2>5. QED
    BY <2>1, <2>4 DEF Proper
<1>2. QED
  BY <1>1, SeqMonotonic DEF NameList

\* A configured path that normalize_scan_root accepts.
Legal(raw) == IsAbsolute(raw) /\ ~ Contains(Split(raw), Dots)

LEMMA NormalIs ==
    ASSUME NEW raw \in Seq(STRING)
    PROVE  /\ Components(raw) \in NameList
           /\ Legal(raw) => normalize_scan_root(raw) = Join(Components(raw))
           /\ ~ Legal(raw) => normalize_scan_root(raw) = Refused
<1>1. raw \in Seq(Char)
  BY CharHasSlash
<1>2. Components(raw) \in NameList
  BY <1>1, ComponentsAreNames DEF NameList
<1>3. Split(raw) \in Seq(Piece(Char))
  BY <1>1, SplitSteps, PiecesAreList
<1>4. ASSUME Legal(raw) PROVE Walk(Split(raw)) = Without(Split(raw), {<<>>, Dot})
  BY <1>3, <1>4, WalkIsFilter DEF Legal
<1>5. QED
  BY <1>2, <1>4 DEF Legal, normalize_scan_root, Components

\* What is used of joined paths below, in one place.
LEMMA JoinedNames ==
    ASSUME NEW ns \in NameList
    PROVE  /\ Components(Join(ns)) = ns
           /\ Join(ns) # <<>>
           /\ Join(ns) \in Seq(Char)
           /\ IsAbsolute(Join(ns))
           /\ Join(ns) = Root <=> ns = <<>>
<1>1. ns \in Seq(Proper(Char)) /\ ns \in Seq(Piece(Char)) /\ Slash \in Char
  BY NamesArePieces, CharHasSlash DEF NameList
<1>2. QED
  BY <1>1, ComponentsOfJoin, RootIsAbove, JoinIs

\* scan_root_covers is Below.
LEMMA CoversIsBelow ==
    ASSUME NEW ns \in NameList, NEW qs \in NameList
    PROVE  scan_root_covers(Join(qs), Join(ns)) <=> Below(ns, qs)
<1>1. Slash \in Char /\ ns \in Seq(Proper(Char)) /\ qs \in Seq(Proper(Char))
  BY CharHasSlash DEF NameList
<1>2. CASE qs = <<>>
  BY <1>1, <1>2, RootIsAbove DEF scan_root_covers, scan_root_prefix
<1>3. CASE qs # <<>>
  <2>1. Join(qs) # Root
    BY <1>1, <1>3, RootIsAbove
  <2>2. (Join(ns) = Join(qs) \/ IsPrefix(Join(qs) \o Root, Join(ns))) <=> Below(ns, qs)
    BY <1>1, <1>3, JoinedBelow
  <2>3. QED
    BY <2>1, <2>2 DEF scan_root_covers, scan_root_prefix
<1>4. QED
  BY <1>2, <1>3

\* The roots of a configuration.
LEMMA RootsAre ==
    ASSUME NEW raws, raws \in (SUBSET Seq(STRING)) \ {{}}
    PROVE  LET bases == {Components(raw) : raw \in raws}
               legal == \A raw \in raws : Legal(raw)
               apart == \A p, q \in bases : Below(p, q) => p = q
           IN  /\ bases \subseteq NameList
               /\ RootsOf(raws) # {} <=> legal /\ apart
               /\ RootsOf(raws) # {} => RootsOf(raws) = {Join(base) : base \in bases}
<1> DEFINE bases == {Components(raw) : raw \in raws}
           legal == \A raw \in raws : Legal(raw)
           apart == \A p, q \in bases : Below(p, q) => p = q
           normal == {normalize_scan_root(raw) : raw \in raws}
           clash == \E a, b \in normal : a # b /\ scan_root_covers(a, b)
<1>1. raws \subseteq Seq(STRING) /\ raws # {}
  OBVIOUS
<1>2. bases \subseteq NameList
  BY <1>1, NormalIs
<1>3. RootsOf(raws) = IF Refused \in normal \/ clash THEN {} ELSE normal
  BY DEF RootsOf
<1>4. normal # {}
  BY <1>1
<1>5. ASSUME ~ legal PROVE Refused \in normal
  BY <1>1, <1>5, NormalIs
<1>6. ASSUME legal PROVE normal = {Join(base) : base \in bases}
  BY <1>1, <1>6, NormalIs
<1>7. ASSUME legal PROVE Refused \notin normal
  <2>1. \A base \in bases : Join(base) # <<>>
    BY <1>2, JoinedNames
  <2> HIDE DEF bases, normal
  <2>2. QED
    BY <1>6, <1>7, <2>1 DEF Refused
<1>8. ASSUME legal PROVE clash <=> ~ apart
  <2>1. \A p, q \in bases : /\ scan_root_covers(Join(q), Join(p)) <=> Below(p, q)
                            /\ Join(p) = Join(q) <=> p = q
    BY <1>2, CoversIsBelow, JoinedNames
  <2>2. normal = {Join(base) : base \in bases}
    BY <1>6, <1>8
  <2> HIDE DEF bases, normal
  <2>3. clash <=> \E p, q \in bases : Join(q) # Join(p) /\ scan_root_covers(Join(q), Join(p))
    BY <2>2
  <2>4. QED
    BY <2>1, <2>3
<1>9. QED
  <2> HIDE DEF bases, normal, legal, apart, clash
  <2>1. RootsOf(raws) # {} <=> legal /\ apart
    BY <1>3, <1>4, <1>5, <1>7, <1>8
  <2>2. RootsOf(raws) # {} => RootsOf(raws) = {Join(base) : base \in bases}
    BY <1>3, <1>6, <2>1
  <2>3. QED
    BY <1>2, <2>1, <2>2 DEF bases, legal, apart

\* The row of a path keeps its bytes.
LEMMA BytesOfRow == ASSUME NEW b, b # <<>> PROVE Bytes(RowOf(b)) = b
BY DEF Bytes, RowOf, NoRaw

LEMMA RowOfNames ==
    ASSUME NEW e \in NameList
    PROVE  /\ Bytes(RowOf(Join(e))) = Join(e)
           /\ Names(RowOf(Join(e))) = e
BY JoinedNames, BytesOfRow DEF Names

\* Of the joined paths only that of the root ends in a separator.
LEMMA LastOfJoin == ASSUME NEW ns \in NameList PROVE Last(Join(ns)) = Slash <=> ns = <<>>
<1>1. PICK B, A, N : B = Char /\ A = Piece(B) /\ N = Proper(B)
  OBVIOUS
<1>2. /\ Slash \in B /\ ns \in Seq(N) /\ Seq(N) \subseteq Seq(A)
      /\ Root \in Seq(B) /\ Len(Root) = 1 /\ Root[1] = Slash
  BY <1>1, CharHasSlash, NamesArePieces, RootIsText DEF NameList
<1>3. ASSUME ns = <<>> PROVE Last(Join(ns)) = Slash
  <2>1. Join(ns) = Root
    BY <1>3, JoinedNames
  <2>2. QED
    BY <1>2, <2>1 DEF Last
<1>4. ASSUME ns # <<>> PROVE Last(Join(ns)) # Slash
  <2>1. PICK ms \in Seq(N), p \in N : ns = Append(ms, p)
    BY <1>2, <1>4, SequenceEmptyOrAppend
  <2>2. ms \in Seq(A) /\ p \in A /\ p # <<>> /\ ns \in Seq(A)
    BY <1>1, <1>2, <2>1 DEF Proper
  <2>3. Join(ns) = (Flat(ms) \o Root) \o p
    BY ZenonT(30), <1>1, <1>2, <1>4, <2>1, <2>2, FlatSteps, JoinIs
  <2>4. PICK s \in Seq(B) : s = Flat(ms) \o Root
    BY <1>1, <1>2, <2>2, FlatSteps, ConcatProperties
  <2>5. p \in Seq(B)
    BY <1>1, <2>2, PieceIsText
  <2>6. Last(s \o p) = p[Len(p)]
    BY <2>2, <2>5, PartsOfConcat
  <2>7. Len(p) \in 1..Len(p) /\ p \in Seq(B \ {Slash})
    BY <1>1, <2>2, EmptySeq, LenProperties DEF Piece
  <2>8. p[Len(p)] # Slash
    BY <2>7, LenProperties
  <2>9. QED
    BY <2>3, <2>4, <2>6, <2>8
<1>5. QED
  BY <1>3, <1>4

\* What the walker reports below an accepted root: every path in one spelling.
LEMMA EmittedAre ==
    ASSUME NEW base \in NameList, disk \subseteq NameList
    PROVE  Emitted(Join(base)) = {Join(e) : e \in {d \in disk : Below(d, base)}}
<1> DEFINE root == Join(base)
           Reported(names) == IF names = <<>> THEN root
                              ELSE IF Last(root) = Slash THEN Front(root) \o Join(names)
                              ELSE root \o Join(names)
<1>1. PICK B, A, N : B = Char /\ A = Piece(B) /\ N = Proper(B)
  OBVIOUS
<1>2. Slash \in B /\ NameList = Seq(N) /\ Seq(N) \subseteq Seq(A) /\ Root \in Seq(B)
  BY <1>1, CharHasSlash, NamesArePieces, RootIsText DEF NameList
<1>3. ASSUME NEW e \in NameList, Below(e, base)
      PROVE  Reported(SubSeq(e, Len(base) + 1, Len(e))) = Join(e)
  <2>1. PICK u \in Seq(N) : e = base \o u
    BY <1>2, <1>3, PrefixIs DEF Below
  <2>2. SubSeq(e, Len(base) + 1, Len(e)) = u
    BY <1>2, <2>1, PartsOfConcat
  <2>3. CASE u = <<>>
    <3>1. e = base
      BY <1>2, <2>1, <2>3, ConcatEmptySeq
    <3>2. QED
      BY <2>2, <2>3, <3>1
  <2>4. CASE u # <<>> /\ base = <<>>
    <3>1. e = u
      BY <1>2, <2>1, <2>4, ConcatEmptySeq
    <3>2. root = Root
      BY <2>4, JoinedNames
    <3>3. Last(root) = Slash /\ Front(root) = <<>>
      <4>1. Len(Root) = 1 /\ Root[1] = Slash
        BY <1>1, <1>2, RootIsText
      <4>2. SubSeq(Root, 1, 0) = <<>>
        BY SubSeqEmpty
      <4>3. QED
        BY <3>2, <4>1, <4>2 DEF Last, Front
    <3>4. <<>> \o Join(u) = Join(u)
      BY <1>2, JoinedNames, ConcatEmptySeq
    <3>5. QED
      BY <2>2, <2>4, <3>1, <3>3, <3>4
  <2>5. CASE u # <<>> /\ base # <<>>
    <3>1. PICK ms \in Seq(N), p \in N : base = Append(ms, p)
      BY <1>2, <2>5, SequenceEmptyOrAppend
    <3>2. ms \in Seq(A) /\ p \in A /\ p # <<>> /\ base \in Seq(A) /\ u \in Seq(A)
      BY <1>1, <1>2, <3>1 DEF Proper
    <3>3. root = (Flat(ms) \o Root) \o p
      BY ZenonT(30), <1>1, <1>2, <2>5, <3>1, <3>2, FlatSteps, JoinIs
    <3>4. Last(root) # Slash
      BY <2>5, LastOfJoin
    <3>5. Flat(e) = Flat(base) \o Flat(u)
      BY <1>1, <1>2, <2>1, <3>2, FlatSteps
    <3>6. e \in Seq(A) /\ e # <<>>
      <4>1. e # <<>>
        BY <1>2, <2>1, <2>5, ConcatEqualIffEmpty
      <4>2. QED
        BY <1>2, <4>1
    <3>7. Join(e) = Flat(e) /\ root = Flat(base) /\ Join(u) = Flat(u)
      BY <1>1, <1>2, <2>5, <3>2, <3>6, JoinIs
    <3>8. QED
      BY <2>2, <2>5, <3>4, <3>5, <3>7
  <2>6. QED
    BY <2>3, <2>4, <2>5
<1>4. Components(root) = base
  BY JoinedNames
<1>5. Emitted(root) = {Reported(SubSeq(e, Len(base) + 1, Len(e))) : e \in {d \in disk : Below(d, base)}}
  BY <1>4 DEF Emitted
<1> HIDE DEF Reported
<1>6. QED
  BY <1>3, <1>5

\* The cleanup's scope is the subtrees of the roots.
LEMMA ScopeIsBelow ==
    ASSUME NEW bases \in SUBSET NameList, NEW e \in NameList
    PROVE  InScope(RowOf(Join(e)), {Join(base) : base \in bases})
             <=> \E base \in bases : Below(e, base)
<1>1. PICK rs : rs = {Join(base) : base \in bases}
  OBVIOUS
<1>2. InScope(RowOf(Join(e)), rs) <=> Root \in rs \/ \E root \in rs : scan_root_covers(root, Join(e))
  BY RowOfNames DEF InScope, scan_root_covers
<1>3. ASSUME Root \in rs PROVE \E base \in bases : Below(e, base)
  <2>1. <<>> \in bases
    BY <1>1, <1>3, JoinedNames
  <2>2. Below(e, <<>>)
    BY CharHasSlash, RootIsAbove DEF NameList
  <2>3. QED
    BY <2>1, <2>2
<1>4. (\E root \in rs : scan_root_covers(root, Join(e))) <=> \E base \in bases : Below(e, base)
  BY <1>1, CoversIsBelow
<1>5. QED
  BY <1>1, <1>2, <1>3, <1>4

\* The strengthening: the roots are those of the configuration, and every row is
\* that of a list of names.
RowsInv ==
    /\ config \in RootConfig /\ roots = RootsOf(config)
    /\ disk \subseteq Entry
    /\ \A row \in rows : \E e \in Entry : row = RowOf(Join(e))

\* The subtrees that the configuration names.
Bases == {Components(raw) : raw \in config}

\* The roots, their subtrees and what is on disk, by names.
LEMMA ScanFacts ==
    ASSUME RowsInv
    PROVE  /\ Entry \subseteq NameList /\ disk \subseteq NameList /\ Bases \subseteq NameList
           /\ config \in (SUBSET Seq(STRING)) \ {{}}
           /\ roots # {} => roots = {Join(base) : base \in Bases}
<1>1. Entry \subseteq NameList
  BY RootsAssumption, EntriesAreNames
<1>2. config \in (SUBSET Seq(STRING)) \ {{}}
  BY RootsAssumption DEF RowsInv
<1>3. Bases \subseteq NameList /\ (roots # {} => roots = {Join(base) : base \in Bases})
  BY <1>2, RootsAre DEF RowsInv, Bases
<1>4. QED
  BY <1>1, <1>2, <1>3 DEF RowsInv

\* What a run leaves in the index.
LEMMA RunIs ==
    ASSUME RowsInv, Run
    PROVE  rows' = {row \in rows : ~ InScope(row, roots)}
                   \cup {RowOf(Join(e)) : e \in {d \in disk : \E base \in Bases : Below(d, base)}}
<1>1. disk \subseteq NameList /\ Bases \subseteq NameList /\ roots = {Join(base) : base \in Bases}
  BY ScanFacts DEF Run
<1>2. \A base \in Bases : Emitted(Join(base)) = {Join(e) : e \in {d \in disk : Below(d, base)}}
  BY <1>1, EmittedAre
<1>3. UNION {Emitted(root) : root \in roots}
        = {Join(e) : e \in {d \in disk : \E base \in Bases : Below(d, base)}}
  <2>1. PICK U : U = {Join(e) : e \in {d \in disk : \E base \in Bases : Below(d, base)}}
    OBVIOUS
  <2>2. \A root \in roots : \A b \in Emitted(root) : b \in U
    BY <1>1, <1>2, <2>1
  <2>3. \A b \in U : \E root \in roots : b \in Emitted(root)
    BY <1>1, <1>2, <2>1
  <2>4. QED
    BY <2>1, <2>2, <2>3
<1>4. QED
  BY <1>3 DEF Run

LEMMA RowsInductive == Spec => []RowsInv
<1>1. Init => RowsInv
  BY DEF Init, RowsInv
<1>2. RowsInv /\ [Next]_vars => RowsInv'
  <2> SUFFICES ASSUME RowsInv, [Next]_vars PROVE RowsInv'
    OBVIOUS
  <2>1. CASE Configure
    BY <2>1 DEF Configure, RowsInv
  <2>2. CASE Run
    <3>1. ASSUME NEW row \in rows' PROVE \E e \in Entry : row = RowOf(Join(e))
      <4>1. CASE row \in rows
        BY <4>1 DEF RowsInv
      <4>2. CASE row \notin rows
        <5>1. \E e \in disk : row = RowOf(Join(e))
          BY <2>2, <3>1, <4>2, RunIs
        <5>2. QED
          BY <5>1 DEF RowsInv
      <4>3. QED
        BY <4>1, <4>2
    <3>2. QED
      BY <2>2, <3>1 DEF Run, RowsInv
  <2>3. CASE Appear
    BY <2>3 DEF Appear, RowsInv
  <2>4. CASE Vanish
    BY <2>4 DEF Vanish, RowsInv
  <2>5. CASE UNCHANGED vars
    BY <2>5 DEF vars, RowsInv
  <2>6. QED
    BY <2>1, <2>2, <2>3, <2>4, <2>5 DEF Next
<1>3. QED
  BY <1>1, <1>2, PTL DEF Spec

\* Whatever is configured, the accepted roots are separate subtrees, and a
\* configuration is refused only for a path that is not absolute, for "..", or
\* because two roots overlap: normalize_scan_root, scan_root_covers and the
\* check that IndexerConfig::roots makes with them.
THEOREM RootsSeparate == Spec => []RootsAreSeparate
<1>1. RowsInv => RootsAreSeparate
  <2> SUFFICES ASSUME RowsInv PROVE RootsAreSeparate
    OBVIOUS
  <2>1. config \in (SUBSET Seq(STRING)) \ {{}} /\ Bases \subseteq NameList
    BY ScanFacts
  <2>2. roots # {} <=> (\A raw \in config : Legal(raw)) /\ \A p, q \in Bases : Below(p, q) => p = q
    BY <2>1, RootsAre DEF RowsInv, Bases
  <2>3. ASSUME roots # {} PROVE {Components(root) : root \in roots} = Bases
    <3>1. roots = {Join(base) : base \in Bases}
      BY <2>3, ScanFacts
    <3>2. \A base \in Bases : Components(Join(base)) = base
      BY <2>1, JoinedNames
    <3>3. QED
      BY <3>1, <3>2
  <2>4. QED
    BY <2>2, <2>3 DEF RootsAreSeparate, Legal, Bases
<1>2. QED
  BY <1>1, RowsInductive, PTL

\* Every stored path is in the one spelling that the API asks for, and its
\* parent link is the string its directory is stored under: what the walker
\* emits under a normalised root, and get_parent_path of it.
THEOREM RowsAddressable == Spec => []RowsAreAddressable
<1>1. RowsInv => RowsAreAddressable
  <2> SUFFICES ASSUME RowsInv, NEW row \in rows
               PROVE  /\ Bytes(row) = Join(Names(row))
                      /\ Names(row) # <<>> => Parent(Bytes(row)) = Join(Front(Names(row)))
    BY DEF RowsAreAddressable
  <2>1. PICK e \in NameList : row = RowOf(Join(e))
    BY ScanFacts DEF RowsInv
  <2>2. Bytes(row) = Join(e) /\ Names(row) = e
    BY <2>1, RowOfNames
  <2>3. e # <<>> => Parent(Join(e)) = Join(Front(e))
    BY CharHasSlash, ParentOfJoin DEF NameList
  <2>4. QED
    BY <2>2, <2>3
<1>2. QED
  BY <1>1, RowsInductive, PTL

\* A run leaves below its roots exactly what is on disk, and elsewhere exactly
\* what was there: the upserts of a run and the scope of cleanup_stale_entries.
THEOREM RunsKeepToTheirRoots == Spec => RunRewritesItsRoots
<1> DEFINE Rewrites ==
        /\ \A row \in rows \cup rows' :
              IF \E root \in roots : Below(Names(row), Components(root))
              THEN row \in rows' <=> Names(row) \in disk
              ELSE row \in rows' <=> row \in rows
        /\ \A e \in disk : (\E root \in roots : Below(e, Components(root)))
                          => RowOf(Join(e)) \in rows'
<1>1. RowsInv /\ Run => Rewrites
  <2> SUFFICES ASSUME RowsInv, Run PROVE Rewrites
    OBVIOUS
  <2> DEFINE Within(e) == \E base \in Bases : Below(e, base)
             fresh == {RowOf(Join(e)) : e \in {d \in disk : Within(d)}}
  <2>1. /\ Entry \subseteq NameList /\ disk \subseteq Entry /\ Bases \subseteq NameList
        /\ roots = {Join(base) : base \in Bases}
    BY ScanFacts DEF Run, RowsInv
  <2>2. rows' = {row \in rows : ~ InScope(row, roots)} \cup fresh
    BY RunIs
  <2>3. \A e \in NameList : (\E root \in roots : Below(e, Components(root))) <=> Within(e)
    <3>1. \A base \in Bases : Components(Join(base)) = base
      BY <2>1, JoinedNames
    <3>2. QED
      BY <2>1, <3>1
  <2>4. \A e \in NameList : InScope(RowOf(Join(e)), roots) <=> Within(e)
    BY <2>1, ScopeIsBelow
  <2>5. \A row \in rows \cup rows' : \E e \in NameList : row = RowOf(Join(e)) /\ Names(row) = e
    <3>1. \A row \in rows \cup rows' : \E e \in NameList : row = RowOf(Join(e))
      BY <2>1, <2>2 DEF RowsInv
    <3>2. QED
      BY <3>1, RowOfNames
  <2> HIDE DEF Within
  <2>6. \A row \in fresh : Names(row) \in disk /\ Within(Names(row))
    BY <2>1, RowOfNames
  <2>7. \A e \in disk : Within(e) => RowOf(Join(e)) \in rows'
    BY <2>2
  <2>8. \A row \in rows \cup rows' :
           IF Within(Names(row)) THEN row \in rows' <=> Names(row) \in disk
                                 ELSE row \in rows' <=> row \in rows
    <3> SUFFICES ASSUME NEW row \in rows \cup rows'
                 PROVE  IF Within(Names(row)) THEN row \in rows' <=> Names(row) \in disk
                                              ELSE row \in rows' <=> row \in rows
      OBVIOUS
    <3>1. PICK e \in NameList : row = RowOf(Join(e)) /\ Names(row) = e
      BY <2>5
    <3>2. InScope(row, roots) <=> Within(e)
      BY <2>4, <3>1
    <3> HIDE DEF fresh
    <3>3. CASE Within(e)
      <4>1. row \in rows' => row \in fresh
        BY <2>2, <3>2, <3>3
      <4>2. QED
        BY <2>6, <2>7, <3>1, <3>3, <4>1
    <3>4. CASE ~ Within(e)
      <4>1. row \notin fresh
        BY <2>6, <3>1, <3>4
      <4>2. QED
        BY <2>2, <3>1, <3>2, <3>4, <4>1
    <3>5. QED
      BY <3>3, <3>4
  <2>9. QED
    <3>1. \A row \in rows \cup rows' : Names(row) \in NameList
      BY <2>5
    <3> HIDE DEF fresh
    <3>2. QED
      BY <2>1, <2>3, <2>7, <2>8, <3>1
<1>2. RowsInv /\ [Next]_vars => [Run => Rewrites]_vars
  BY <1>1
<1>3. QED
  BY <1>2, RowsInductive, PTL DEF Spec, RunRewritesItsRoots

-----------------------------------------------------------------------------
(***************************************************************************)
(* The placeholder {user}.                                                 *)
(***************************************************************************)

\* The step of Substituted.
Put(B, n) == [c \in B |-> IF c = User THEN n ELSE <<c>>]

LEMMA SubstitutedIsMapped ==
    ASSUME NEW B, NEW n \in Seq(B)
    PROVE  /\ MapsInto(Put(B, n), B, Seq(B))
           /\ \A s \in Seq(B) : Substituted(s, n) = Mapped(Put(B, n), s)
           /\ \A c \in B : Put(B, n)[c] = IF c = User THEN n ELSE <<c>>
<1>1. \A c \in B : (IF c = User THEN n ELSE <<c>>) \in Seq(B)
  OBVIOUS
<1>2. \A c \in B : Put(B, n)[c] = IF c = User THEN n ELSE <<c>>
  BY DEF Put
<1>3. MapsInto(Put(B, n), B, Seq(B))
  BY <1>1 DEF Put, MapsInto
<1>4. ASSUME NEW s \in Seq(B) PROVE Substituted(s, n) = Mapped(Put(B, n), s)
  <2>1. \A i \in DOMAIN s : s[i] \in B
    BY LenProperties
  <2>2. [i \in DOMAIN s |-> IF s[i] = User THEN n ELSE <<s[i]>>] = [i \in DOMAIN s |-> Put(B, n)[s[i]]]
    BY <1>2, <2>1
  <2>3. QED
    BY <2>2 DEF Substituted, Mapped
<1>5. QED
  BY <1>2, <1>3, <1>4

\* What a character adds, what two parts make, and what is left of the name.
Grown(s, c, n) == /\ c = User => Substituted(Append(s, c), n) = Substituted(s, n) \o n
                  /\ c # User => Substituted(Append(s, c), n) = Substituted(s, n) \o <<c>>
Parted(s, t, n) == Substituted(s \o t, n) = Substituted(s, n) \o Substituted(t, n)
Within(n, s, B) == \E x \in Seq(B) : \E y \in Seq(B) : s = (x \o n) \o y

LEMMA SubstitutedSteps ==
    ASSUME NEW B, NEW n \in Seq(B)
    PROVE  /\ Substituted(<<>>, n) = <<>>
           /\ \A s \in Seq(B) : Substituted(s, n) \in Seq(B)
           /\ \A s \in Seq(B), c \in B : Grown(s, c, n)
           /\ \A s, t \in Seq(B) : Parted(s, t, n)
<1>1. PICK h : h = Put(B, n)
  OBVIOUS
<1>2. MapsInto(h, B, Seq(B))
  BY <1>1, SubstitutedIsMapped
<1>3. \A s \in Seq(B) : Substituted(s, n) = Mapped(h, s)
  BY <1>1, SubstitutedIsMapped
<1>4. \A c \in B : h[c] = IF c = User THEN n ELSE <<c>>
  BY <1>1, SubstitutedIsMapped
<1>5. /\ Mapped(h, <<>>) = <<>>
      /\ \A s \in Seq(B) : Mapped(h, s) \in Seq(B)
      /\ \A s \in Seq(B), c \in B : Mapped(h, Append(s, c)) = Mapped(h, s) \o h[c]
  BY <1>2, MappedSteps
<1>6. ASSUME NEW s \in Seq(B), NEW c \in B
      PROVE  Grown(s, c, n)
  <2>1. Append(s, c) \in Seq(B)
    BY AppendProperties
  <2>2. Substituted(Append(s, c), n) = Mapped(h, s) \o h[c]
    BY <1>3, <1>5, <2>1
  <2>3. QED
    BY <1>3, <1>4, <2>2 DEF Grown
<1>7. ASSUME NEW s \in Seq(B), NEW t \in Seq(B)
      PROVE  Parted(s, t, n)
  <2>1. Mapped(h, s \o t) = Mapped(h, s) \o Mapped(h, t)
    BY <1>2, MappedConcat
  <2>2. s \o t \in Seq(B)
    BY ConcatProperties
  <2>3. QED
    BY <1>3, <2>1, <2>2 DEF Parted
<1>8. <<>> \in Seq(B)
  BY EmptySeq
<1>9. QED
  BY <1>3, <1>5, <1>6, <1>7, <1>8

\* What has the name within it still has with another character.
LEMMA WithinGrows ==
    ASSUME NEW B, NEW n \in Seq(B), NEW r \in Seq(B), NEW c \in B
    PROVE  /\ Within(n, r \o n, B)
           /\ Within(n, r, B) => Within(n, r \o <<c>>, B)
<1>1. <<>> \in Seq(B) /\ <<c>> \in Seq(B) /\ r \o n \in Seq(B)
  BY EmptySeq, ConcatProperties
<1>2. r \o n = (r \o n) \o <<>>
  BY <1>1, ConcatEmptySeq
<1>3. ASSUME Within(n, r, B) PROVE Within(n, r \o <<c>>, B)
  <2>1. PICK x \in Seq(B), y \in Seq(B) : r = (x \o n) \o y
    BY <1>3 DEF Within
  <2>2. PICK d \in Seq(B), l \in Seq(B) : d = x \o n /\ l = <<c>>
    BY <1>1, ConcatProperties
  <2>3. (d \o y) \o l = d \o (y \o l) /\ y \o l \in Seq(B)
    BY SMTT(30), ConcatAssociative, ConcatProperties
  <2>4. QED
    BY <2>1, <2>2, <2>3 DEF Within
<1>4. QED
  BY <1>1, <1>2, <1>3 DEF Within

\* Without a placeholder nothing is substituted; with one, the name is within
\* what comes out.
LEMMA SubstitutedHolds ==
    ASSUME NEW B, NEW n \in Seq(B), NEW s \in Seq(B)
    PROVE  /\ ~ Contains(s, User) => Substituted(s, n) = s
           /\ Contains(s, User) => Within(n, Substituted(s, n), B)
<1> DEFINE Free(t) == \A i \in 1..Len(t) : t[i] # User
           P == {t \in Seq(B) : /\ Free(t) => Substituted(t, n) = t
                                /\ ~ Free(t) => Within(n, Substituted(t, n), B)}
<1>1. <<>> \in P
  <2>1. <<>> \in Seq(B) /\ Len(<<>>) = 0 /\ 1..0 = {}
    BY EmptySeq
  <2>2. Free(<<>>)
    BY <2>1
  <2>3. QED
    BY <2>1, <2>2, SubstitutedSteps
<1>2. ASSUME NEW t \in P, NEW c \in B PROVE Append(t, c) \in P
  <2>0. /\ t \in Seq(B) /\ (Free(t) => Substituted(t, n) = t)
        /\ ~ Free(t) => Within(n, Substituted(t, n), B)
    OBVIOUS
  <2>1. PICK m \in Nat : m = Len(t)
    BY <2>0, LenProperties
  <2>2. /\ Append(t, c) \in Seq(B) /\ Len(Append(t, c)) = m + 1 /\ Append(t, c)[m + 1] = c
        /\ \A i \in 1..m : Append(t, c)[i] = t[i]
    BY <2>0, <2>1, AppendProperties
  <2>3. Free(Append(t, c)) <=> Free(t) /\ c # User
    <3>1. Free(Append(t, c)) => Free(t) /\ c # User
      BY <2>1, <2>2
    <3>2. ASSUME Free(t), c # User, NEW i \in 1..(m + 1) PROVE Append(t, c)[i] # User
      <4>1. i \in 1..m \/ i = m + 1
        BY <2>1
      <4>2. QED
        BY <2>1, <2>2, <3>2, <4>1
    <3>3. QED
      BY <2>2, <3>1, <3>2
  <2> HIDE DEF P, Free
  <2>4. PICK r \in Seq(B) : r = Substituted(t, n)
    BY <2>0, SubstitutedSteps
  <2>5. Grown(t, c, n)
    BY <2>0, SubstitutedSteps
  <2>6. CASE Free(t) /\ c # User
    <3>1. Append(t, c) = t \o <<c>>
      BY <2>0, AppendIsConcat
    <3>2. Substituted(Append(t, c), n) = Append(t, c)
      BY <2>0, <2>5, <2>6, <3>1 DEF Grown
    <3>3. QED
      BY <2>2, <2>3, <2>6, <3>2 DEF P
  <2>7. CASE c = User
    <3>1. Within(n, Substituted(Append(t, c), n), B)
      BY <2>4, <2>5, <2>7, WithinGrows DEF Grown
    <3>2. QED
      BY <2>2, <2>3, <2>7, <3>1 DEF P
  <2>8. CASE ~ Free(t) /\ c # User
    <3>1. Within(n, r, B) => Within(n, r \o <<c>>, B)
      BY WithinGrows
    <3>2. Within(n, Substituted(Append(t, c), n), B)
      BY <2>0, <2>4, <2>5, <2>8, <3>1 DEF Grown
    <3>3. QED
      BY <2>2, <2>3, <2>8, <3>2 DEF P
  <2>9. QED
    BY <2>6, <2>7, <2>8
<1>3. P = Seq(B)
  <2>1. P \in SUBSET Seq(B)
    OBVIOUS
  <2> HIDE DEF P
  <2>2. QED
    BY <1>1, <1>2, <2>1, ListInduction
<1>4. Contains(s, User) <=> ~ Free(s)
  BY DEF Contains
<1>5. s \in P
  <2> HIDE DEF P
  <2>1. QED
    BY <1>3
<1>6. (Free(s) => Substituted(s, n) = s) /\ (~ Free(s) => Within(n, Substituted(s, n), B))
  <2> HIDE DEF Free
  <2>1. QED
    BY <1>5
<1> HIDE DEF Free, P
<1>7. QED
  BY <1>4, <1>6

\* Where the name may stand for {user}, a name with it in place is a name: it is
\* not made empty, nor "." or "..".
LEMMA SubstitutedName ==
    ASSUME NEW B, NEW n \in Proper(B), NEW p \in Proper(B)
    PROVE  Substituted(p, n) \in Proper(B)
<1>1. PICK C : C = B \ {Slash} /\ Piece(B) = Seq(C)
  BY DEF Piece
<1>2. n \in Seq(C) /\ p \in Seq(C) /\ {n, p} \cap {<<>>, Dot, Dots} = {}
  BY <1>1 DEF Proper
<1>3. PICK r \in Seq(C) : r = Substituted(p, n)
  BY <1>2, SubstitutedSteps
<1>4. CASE ~ Contains(p, User)
  BY <1>2, <1>4, SubstitutedHolds
<1>5. CASE Contains(p, User)
  <2>0. Within(n, Substituted(p, n), C)
    BY <1>2, <1>5, SubstitutedHolds
  <2>1. PICK x \in Seq(C), y \in Seq(C) : r = (x \o n) \o y
    BY <1>3, <2>0 DEF Within
  <2>2. PICK a \in Nat, b \in Nat, k \in Nat : a = Len(x) /\ b = Len(y) /\ k = Len(n)
    BY <1>2, LenProperties
  <2>3. PICK z \in Seq(C) : z = x \o n
    BY <1>2, ConcatProperties
  <2>4. Len(z) = a + k /\ \A i \in 1..(a + k) : z[i] = IF i <= a THEN x[i] ELSE n[i - a]
    BY <1>2, <2>2, <2>3, ConcatProperties
  <2>5. Len(r) = a + k + b /\ \A i \in 1..(a + k + b) : r[i] = IF i <= a + k THEN z[i] ELSE y[i - (a + k)]
    BY <2>1, <2>2, <2>3, <2>4, ConcatProperties
  <2>6. ASSUME NEW j \in 1..k PROVE r[a + j] = n[j] /\ a + j \in 1..Len(r)
    <3>1. /\ a + j \in 1..(a + k + b) /\ a + j <= a + k /\ a + j \in 1..(a + k)
          /\ ~ (a + j <= a) /\ (a + j) - a = j
      BY <2>2
    <3>2. r[a + j] = z[a + j] /\ z[a + j] = n[(a + j) - a]
      BY <2>4, <2>5, <3>1
    <3>3. QED
      BY <2>5, <3>1, <3>2
  <2>7. k # 0
    BY <1>2, <2>2, EmptySeq
  <2>8. ASSUME r \in {<<>>, Dot, Dots} PROVE FALSE
    <3>1. Len(r) <= 2 /\ \A i \in 1..Len(r) : r[i] = "."
      <4>1. Len(<<>>) = 0 /\ 1..0 = {}
        BY EmptySeq
      <4>2. Len(Dot) = 1 /\ Dot[1] = "." /\ 1..1 = {1}
        BY DEF Dot
      <4>3. Len(Dots) = 2 /\ Dots[1] = "." /\ Dots[2] = "." /\ 1..2 = {1, 2}
        BY DEF Dots
      <4>4. CASE r = <<>>
        BY <4>1, <4>4
      <4>5. CASE r = Dot
        <5>1. Len(r) = 1 /\ r[1] = "." /\ 1..1 = {1}
          BY <4>2, <4>5
        <5>2. QED
          BY <5>1
      <4>6. CASE r = Dots
        <5>1. Len(r) = 2 /\ r[1] = "." /\ r[2] = "." /\ 1..2 = {1, 2}
          BY <4>3, <4>6
        <5>2. QED
          BY <5>1
      <4>7. QED
        BY <2>8, <4>4, <4>5, <4>6
    <3>2. k \in {1, 2}
      BY <2>2, <2>5, <2>7, <3>1
    <3>3. \A j \in 1..k : n[j] = "."
      BY <2>6, <3>1
    <3>4. CASE k = 1
      <4>1. n[1] = "." /\ n \in Seq(C) /\ Len(n) = 1
        BY <1>2, <2>2, <3>3, <3>4
      <4>2. n = <<".">>
        BY <4>1
      <4>3. QED
        BY <1>2, <4>2 DEF Dot
    <3>5. CASE k = 2
      <4>1. n[1] = "." /\ n[2] = "." /\ n \in Seq(C) /\ Len(n) = 2
        BY <1>2, <2>2, <3>3, <3>5
      <4>2. n = <<".", ".">>
        BY <4>1
      <4>3. QED
        BY <1>2, <4>2 DEF Dots
    <3>6. QED
      BY <3>2, <3>4, <3>5
  <2>9. QED
    BY <1>1, <1>3, <2>8 DEF Proper
<1>6. QED
  BY <1>4, <1>5

\* The names of a path with the name in place.
Spelled(qs, rs, n) == /\ Len(rs) = Len(qs)
                      /\ \A i \in 1..Len(qs) : rs[i] = Substituted(qs[i], n)

LEMMA JoinSubstituted ==
    ASSUME NEW B, Slash \in B, NEW n \in Proper(B), NEW qs \in Seq(Proper(B))
    PROVE  \E rs \in Seq(Proper(B)) : Spelled(qs, rs, n) /\ Substituted(Join(qs), n) = Join(rs)
<1>1. PICK N, A : N = Proper(B) /\ A = Piece(B)
  OBVIOUS
<1>2. N \subseteq A /\ Seq(N) \subseteq Seq(A) /\ n \in N /\ qs \in Seq(N)
  BY <1>1, NamesArePieces
<1>3. n \in Seq(B) /\ Root \in Seq(B)
  BY <1>1, <1>2, PieceIsText, RootIsText
<1>4. Substituted(Root, n) = Root
  <2>1. Grown(<<>>, Slash, n) /\ Substituted(<<>>, n) = <<>>
    BY <1>3, EmptySeq, SubstitutedSteps
  <2>2. Append(<<>>, Slash) = Root /\ <<>> \o <<Slash>> = Root
    <3>1. Append(<<>>, Slash) = <<>> \o <<Slash>>
      BY EmptySeq, AppendIsConcat
    <3>2. <<>> \o <<Slash>> = <<Slash>>
      BY <1>3, ConcatEmptySeq DEF Root
    <3>3. QED
      BY <3>1, <3>2 DEF Root
  <2>3. Slash # User
    BY DEF Slash, User
  <2>4. QED
    BY <2>1, <2>2, <2>3 DEF Grown
<1> DEFINE Good(ms, rs) == Spelled(ms, rs, n) /\ Substituted(Flat(ms), n) = Flat(rs)
           P == {ms \in Seq(N) : \E rs \in Seq(N) : Good(ms, rs)}
<1>5. <<>> \in P
  <2>1. <<>> \in Seq(N) /\ Len(<<>>) = 0 /\ 1..0 = {}
    BY EmptySeq
  <2>2. Flat(<<>>) = <<>> /\ Substituted(<<>>, n) = <<>>
    BY <1>3, FlatSteps, SubstitutedSteps
  <2>3. QED
    BY <2>1, <2>2 DEF Spelled
<1>6. ASSUME NEW ms \in P, NEW q \in N PROVE Append(ms, q) \in P
  <2>0. PICK rs \in Seq(N) : ms \in Seq(N) /\ Good(ms, rs)
    OBVIOUS
  <2> HIDE DEF P
  <2>1. PICK p : p = Substituted(q, n)
    OBVIOUS
  <2>2. p \in N
    BY <1>1, <1>2, <2>1, SubstitutedName
  <2>3. PICK k \in Nat : k = Len(ms) /\ k = Len(rs)
    BY <2>0, LenProperties DEF Spelled
  <2>4. /\ Append(ms, q) \in Seq(N) /\ Len(Append(ms, q)) = k + 1 /\ Append(ms, q)[k + 1] = q
        /\ \A i \in 1..k : Append(ms, q)[i] = ms[i]
    <3>1. PICK s \in Seq(N) : s = ms
      BY <2>0
    <3>2. /\ Append(s, q) \in Seq(N) /\ Len(Append(s, q)) = Len(s) + 1 /\ Append(s, q)[Len(s) + 1] = q
          /\ \A i \in 1..Len(s) : Append(s, q)[i] = s[i]
      BY AppendProperties
    <3>3. QED
      BY <2>3, <3>1, <3>2
  <2>5. /\ Append(rs, p) \in Seq(N) /\ Len(Append(rs, p)) = k + 1 /\ Append(rs, p)[k + 1] = p
        /\ \A i \in 1..k : Append(rs, p)[i] = rs[i]
    BY <2>2, <2>3, AppendProperties
  <2>6. Spelled(Append(ms, q), Append(rs, p), n)
    <3>1. ASSUME NEW i \in 1..(k + 1) PROVE Append(rs, p)[i] = Substituted(Append(ms, q)[i], n)
      <4>1. i \in 1..k \/ i = k + 1
        BY <2>3
      <4>2. \A j \in 1..k : rs[j] = Substituted(ms[j], n)
        BY <2>0, <2>3 DEF Spelled
      <4>3. QED
        BY <2>1, <2>4, <2>5, <4>1, <4>2
    <3>2. QED
      BY <2>4, <2>5, <3>1 DEF Spelled
  <2>7. Substituted(Flat(Append(ms, q)), n) = Flat(Append(rs, p))
    <3>1. Flat(Append(ms, q)) = (Flat(ms) \o Root) \o q /\ Flat(Append(rs, p)) = (Flat(rs) \o Root) \o p
      BY <1>1, <1>2, <2>0, <2>2, FlatSteps
    <3>2. Flat(ms) \in Seq(B) /\ q \in Seq(B) /\ Flat(ms) \o Root \in Seq(B)
      BY <1>1, <1>2, <1>3, <2>0, FlatSteps, PieceIsText, ConcatProperties
    <3>3. Parted(Flat(ms) \o Root, q, n)
      BY <1>3, <3>2, SubstitutedSteps
    <3>4. Parted(Flat(ms), Root, n)
      BY <1>3, <3>2, SubstitutedSteps
    <3>5. QED
      BY <1>4, <2>0, <2>1, <3>1, <3>3, <3>4 DEF Parted
  <2>8. Good(Append(ms, q), Append(rs, p))
    BY <2>6, <2>7
  <2> HIDE DEF Good
  <2>9. QED
    BY <2>4, <2>5, <2>8 DEF P
<1>7. P = Seq(N)
  <2>1. P \in SUBSET Seq(N)
    OBVIOUS
  <2> HIDE DEF P
  <2>2. QED
    BY <1>5, <1>6, <2>1, ListInduction
<1>8. PICK rs \in Seq(N) : Good(qs, rs)
  BY <1>2, <1>7
<1>9. Substituted(Join(qs), n) = Join(rs)
  <2>1. qs \in Seq(A) /\ rs \in Seq(A) /\ Len(qs) = Len(rs)
    BY <1>2, <1>8 DEF Spelled
  <2>2. CASE qs = <<>>
    <3>1. rs = <<>>
      BY <2>1, <2>2, EmptySeq
    <3>2. QED
      BY <1>1, <1>4, <2>1, <2>2, <3>1, JoinIs
  <2>3. CASE qs # <<>>
    <3>1. rs # <<>>
      BY <2>1, <2>3, EmptySeq
    <3>2. QED
      BY <1>1, <1>8, <2>1, <2>3, <3>1, JoinIs
  <2>4. QED
    BY <2>2, <2>3
<1>10. QED
  BY <1>1, <1>8, <1>9

-----------------------------------------------------------------------------
(***************************************************************************)
(* The grants.                                                             *)
(***************************************************************************)

\* Text that is UTF-8, and the lists of names in it.
Clear == Char \ {Invalid}
ClearNames == Seq(Proper(Clear))

LEMMA ClearText ==
    /\ Slash \in Clear /\ Seq(Clear) \subseteq Seq(Char) /\ ClearNames \subseteq NameList
    /\ \A text \in RawPrefix \cup UnixName : text \in Seq(Clear)
<1>1. Slash \in Clear /\ Clear \subseteq Char
  BY CharHasSlash DEF Clear, Slash, Invalid
<1>2. Seq(Clear) \subseteq Seq(Char)
  BY <1>1, SeqMonotonic
<1>3. Proper(Clear) \subseteq Proper(Char)
  <2>1. Clear \ {Slash} \subseteq Char \ {Slash}
    BY <1>1
  <2>2. QED
    BY <2>1, SeqMonotonic DEF Proper, Piece
<1>4. ClearNames \subseteq NameList
  BY <1>3, SeqMonotonic DEF ClearNames, NameList
<1>5. ASSUME NEW text \in RawPrefix \cup UnixName PROVE text \in Seq(Clear)
  <2>1. text \in Seq(STRING) /\ ~ Contains(text, Invalid)
    BY GrantAssumption
  <2>2. text \in Seq(Char)
    BY <2>1, CharHasSlash
  <2>3. QED
    BY <2>1, <2>2, LackingIs DEF Clear
<1>6. QED
  BY <1>1, <1>2, <1>4, <1>5

\* A name that grantUser accepts is the name of an entry.
LEMMA UserIsName == ASSUME NEW n \in UnixName, grantUser(n) PROVE n \in Proper(Clear)
<1>1. n \in Seq(Clear) /\ n \notin {<<>>, Dot, Dots} /\ ~ Contains(n, Slash)
  BY ClearText DEF grantUser
<1>2. n \in Seq(Clear \ {Slash})
  BY <1>1, LackingIs
<1>3. QED
  BY <1>1, <1>2 DEF Proper, Piece

\* The strengthening: the prefixes that are stored are in the canonical form.
GrantInv ==
    /\ name \in UnixName
    /\ \A g \in grants : \E qs \in ClearNames : g = Join(qs)

LEMMA GrantsInductive == GrantSpec => []GrantInv
<1>1. GrantInit => GrantInv
  BY DEF GrantInit, GrantInv
<1>2. GrantInv /\ [GrantNext]_grantVars => GrantInv'
  <2> SUFFICES ASSUME GrantInv, [GrantNext]_grantVars PROVE GrantInv'
    OBVIOUS
  <2>1. ASSUME NEW raw \in RawPrefix, grants' = grants \cup {Clean(raw)}, UNCHANGED name
        PROVE  GrantInv'
    <3>1. Components(raw) \in ClearNames
      BY ClearText, ComponentsAreNames DEF ClearNames
    <3>2. QED
      BY <2>1, <3>1 DEF GrantInv, Clean
  <2>2. CASE AddGrant
    BY <2>1, <2>2 DEF AddGrant
  <2>3. CASE DeleteGrant
    BY <2>3 DEF DeleteGrant, GrantInv
  <2>4. CASE SignIn
    BY <2>4 DEF SignIn, GrantInv
  <2>5. CASE UNCHANGED grantVars
    BY <2>5 DEF grantVars, GrantInv
  <2>6. QED
    BY <2>2, <2>3, <2>4, <2>5 DEF GrantNext
<1>3. QED
  BY <1>1, <1>2, PTL DEF GrantSpec

\* A grant with a placeholder opens the path with the name in place; one without
\* opens its own.
LEMMA GrantOpens ==
    ASSUME GrantInv, NEW qs \in ClearNames, Contains(Join(qs), User) => grantUser(name)
    PROVE  \E rs \in ClearNames :
              /\ Substituted(Join(qs), name) = Join(rs)
              /\ Contains(Join(qs), User) => Spelled(qs, rs, name)
<1>1. Slash \in Clear /\ name \in UnixName /\ qs \in Seq(Proper(Clear))
  BY ClearText DEF GrantInv, ClearNames
<1>2. CASE Contains(Join(qs), User)
  <2>1. name \in Proper(Clear)
    BY <1>1, <1>2, UserIsName
  <2>2. QED
    BY <1>1, <2>1, JoinSubstituted DEF ClearNames
<1>3. CASE ~ Contains(Join(qs), User)
  <2>1. Join(qs) \in Seq(Clear)
    BY <1>1, NamesArePieces, JoinIs
  <2>2. name \in Seq(Clear)
    BY <1>1, ClearText
  <2>3. Substituted(Join(qs), name) = Join(qs)
    BY <1>3, <2>1, <2>2, SubstitutedHolds
  <2>4. QED
    BY <1>3, <2>3
<1>4. QED
  BY <1>2, <1>3

LEMMA OpenedAre ==
    ASSUME GrantInv, NEW pre \in Opened
    PROVE  \E rs \in ClearNames : pre = Join(rs)
<1>1. PICK g \in grants : (Contains(g, User) => grantUser(name)) /\ pre = Substituted(g, name)
  BY DEF Opened
<1>2. PICK qs \in ClearNames : g = Join(qs)
  BY DEF GrantInv
<1>3. QED
  BY <1>1, <1>2, GrantOpens

\* A path is let through exactly if it is in its one spelling and its components
\* start with those of an opened prefix.
LEMMA AllowsIsGranted ==
    ASSUME GrantInv, NEW ns \in NameList
    PROVE  allows(Join(ns)) <=> Granted(ns)
<1>1. IsAbsolute(Join(ns)) /\ Clean(Join(ns)) = Join(ns)
  BY JoinedNames DEF Clean
<1>2. ASSUME NEW pre \in Opened
      PROVE  (pre = Root \/ Join(ns) = pre \/ IsPrefix(pre \o Root, Join(ns))) <=> Below(ns, Components(pre))
  <2>1. PICK rs \in NameList : pre = Join(rs)
    BY OpenedAre, ClearText
  <2>2. Components(pre) = rs /\ (pre = Root <=> rs = <<>>)
    BY <2>1, JoinedNames
  <2>3. Slash \in Char /\ ns \in Seq(Proper(Char)) /\ rs \in Seq(Proper(Char))
    BY CharHasSlash DEF NameList
  <2>4. CASE rs = <<>>
    BY <2>2, <2>3, <2>4, RootIsAbove
  <2>5. CASE rs # <<>>
    BY <2>1, <2>2, <2>3, <2>5, JoinedBelow
  <2>6. QED
    BY <2>4, <2>5
<1>3. QED
  BY <1>1, <1>2 DEF allows, Granted

\* Whatever is granted and asked for: what a request is let through to is inside
\* a granted subtree, and everything indexed there can be asked for.  This is
\* access.allows over the prefixes that AdminGrants stores.
THEOREM ListingsWithinGrants == GrantSpec => []ListedWithinGrants
<1>1. GrantInv => ListedWithinGrants
  <2> SUFFICES ASSUME GrantInv PROVE ListedWithinGrants
    OBVIOUS
  <2>1. ASSUME NEW p \in Request, allows(p) PROVE Granted(Components(p))
    <3>1. p \in Seq(Char) /\ p = Join(Components(p))
      BY <2>1, GrantAssumption, CharHasSlash DEF allows, Clean
    <3>2. Components(p) \in NameList
      BY <3>1, ComponentsAreNames DEF NameList
    <3>3. QED
      BY <2>1, <3>1, <3>2, AllowsIsGranted
  <2>2. ASSUME NEW names \in Indexed, Granted(names) PROVE allows(Join(names))
    <3>1. names \in NameList
      BY GrantAssumption, EntriesAreNames
    <3>2. QED
      BY <2>2, <3>1, AllowsIsGranted
  <2>3. QED
    BY <2>1, <2>2 DEF ListedWithinGrants
<1>2. QED
  BY <1>1, GrantsInductive, PTL

\* A name that is the placeholder makes its path one with a placeholder.
LEMMA PlaceholderIsFound ==
    ASSUME NEW qs \in ClearNames, NEW i \in DOMAIN qs, qs[i] = <<User>>
    PROVE  Contains(Join(qs), User)
<1>1. SUFFICES ASSUME ~ Contains(Join(qs), User) PROVE FALSE
  OBVIOUS
<1>2. qs \in Seq(Proper(Clear)) /\ Slash \in Clear
  BY ClearText DEF ClearNames
<1>3. Join(qs) \in Seq(Clear) /\ Components(Join(qs)) = qs
  BY <1>2, NamesArePieces, JoinIs, ComponentsOfJoin
<1>4. Join(qs) \in Seq(Clear \ {User})
  BY <1>1, <1>3, LackingIs
<1>5. qs \in Seq(Proper(Clear \ {User}))
  BY <1>3, <1>4, ComponentsAreNames
<1>6. <<User>> \in Proper(Clear \ {User})
  BY <1>5, LenProperties
<1>7. <<User>> \in Seq((Clear \ {User}) \ {Slash})
  BY <1>6 DEF Proper, Piece
<1>8. <<User>>[1] \in (Clear \ {User}) \ {Slash}
  <2>1. PICK s \in Seq((Clear \ {User}) \ {Slash}) : s = <<User>> /\ Len(s) = 1
    BY <1>7
  <2>2. QED
    BY <2>1, LenProperties
<1>9. QED
  BY <1>8

\* Where {user} is a directory of its own, the grant opens the directory of that
\* very name and nothing beside it: strings.ReplaceAll in matchingGrants, and
\* the names that grantUser keeps from standing there.
THEOREM UsersOpenTheirOwn == GrantSpec => []UserOpensOwnDirectory
<1>1. GrantInv => UserOpensOwnDirectory
  <2> SUFFICES ASSUME GrantInv, NEW g \in grants, NEW i \in DOMAIN Components(g),
                      grants = {g}, Components(g)[i] = <<User>>,
                      NEW names \in Indexed, allows(Join(names))
               PROVE  Len(names) >= i /\ names[i] = name
    BY DEF UserOpensOwnDirectory
  <2>1. PICK qs \in ClearNames : g = Join(qs)
    BY DEF GrantInv
  <2>2. Components(g) = qs
    BY <2>1, ClearText, JoinedNames
  <2>3. Contains(g, User)
    BY <2>1, <2>2, PlaceholderIsFound
  <2>4. names \in NameList
    BY GrantAssumption, EntriesAreNames
  <2>5. PICK pre \in Opened : Below(names, Components(pre))
    BY <2>4, AllowsIsGranted DEF Granted
  <2>6. pre = Substituted(g, name) /\ grantUser(name)
    BY <2>3 DEF Opened
  <2>7. PICK rs \in ClearNames : pre = Join(rs) /\ Spelled(qs, rs, name)
    BY <2>1, <2>3, <2>6, GrantOpens
  <2>8. Components(pre) = rs /\ rs \in NameList
    BY <2>7, ClearText, JoinedNames
  <2>9. i \in 1..Len(rs) /\ rs[i] = name
    <3>1. i \in 1..Len(qs) /\ qs[i] = <<User>>
      <4>1. qs \in Seq(Proper(Clear))
        BY DEF ClearNames
      <4>2. QED
        BY <2>2, <4>1, LenProperties
    <3>2. rs[i] = Substituted(<<User>>, name) /\ i \in 1..Len(rs)
      BY <2>7, <3>1 DEF Spelled
    <3>3. Substituted(<<User>>, name) = name
      <4>1. name \in Proper(Clear)
        BY <2>6, UserIsName DEF GrantInv
      <4>2. PICK B : B = Clear \cup {User}
        OBVIOUS
      <4>3. name \in Seq(B) /\ User \in B
        <5>1. Clear \subseteq B /\ name \in Seq(Clear)
          BY <4>1, <4>2, PieceIsText DEF Proper
        <5>2. QED
          BY <4>2, <5>1, SeqMonotonic
      <4>4. Grown(<<>>, User, name) /\ Substituted(<<>>, name) = <<>>
        BY <4>3, EmptySeq, SubstitutedSteps
      <4>5. Append(<<>>, User) = <<User>>
        <5>1. <<>> \in Seq(B) /\ <<User>> \in Seq(B)
          BY <4>3, EmptySeq
        <5>2. Append(<<>>, User) = <<>> \o <<User>>
          BY <4>3, <5>1, AppendIsConcat
        <5>3. QED
          BY <5>1, <5>2, ConcatEmptySeq
      <4>6. <<>> \o name = name
        BY <4>3, ConcatEmptySeq
      <4>7. QED
        BY <4>4, <4>5, <4>6 DEF Grown
    <3>4. QED
      BY <3>2, <3>3
  <2>10. PICK u \in Seq(Proper(Char)) : names = rs \o u
    BY ZenonT(30), <2>4, <2>5, <2>8, PrefixIs DEF Below, NameList
  <2>11. /\ Len(names) = Len(rs) + Len(u) /\ Len(rs) \in Nat /\ Len(u) \in Nat
         /\ \A j \in 1..Len(rs) : names[j] = rs[j]
    <3>1. rs \in Seq(Proper(Char))
      BY <2>8 DEF NameList
    <3>2. Len(rs) \in Nat /\ Len(u) \in Nat
      BY <3>1, LenProperties
    <3>3. QED
      BY <2>10, <3>1, <3>2, ConcatProperties
  <2>12. QED
    BY <2>9, <2>11
<1>2. QED
  BY <1>1, GrantsInductive, PTL

-----------------------------------------------------------------------------
(***************************************************************************)
(* LIKE: the pattern of a prefix matches exactly what starts with it.      *)
(***************************************************************************)

\* A list begins with another if it agrees with it as far as that goes.
LEMMA PrefixByElements ==
    ASSUME NEW A, NEW s \in Seq(A), NEW t \in Seq(A)
    PROVE  IsPrefix(s, t) <=> Len(s) <= Len(t) /\ \A i \in 1..Len(s) : s[i] = t[i]
<1>1. PICK m \in Nat, n \in Nat : m = Len(s) /\ n = Len(t)
  BY LenProperties
<1>2. SubSeq(s, 1, m) = s
  BY <1>1, SubSeqFull
<1>3. IsPrefix(s, t) <=> m <= n /\ s = SubSeq(t, 1, m)
  BY <1>1, <1>2 DEF IsPrefix
<1>4. ASSUME m <= n PROVE s = SubSeq(t, 1, m) <=> \A i \in 1..m : s[i] = t[i]
  <2>1. PICK u : u = SubSeq(t, 1, m)
    OBVIOUS
  <2>2. \A i \in 1..m : t[i] \in A
    BY <1>1, <1>4, LenProperties
  <2>3. /\ u \in Seq(A) /\ Len(u) = IF 1 <= m THEN m - 1 + 1 ELSE 0
        /\ \A i \in 1..(m - 1 + 1) : u[i] = t[1 + i - 1]
    BY <2>1, <2>2, SubSeqProperties
  <2>4. Len(u) = m /\ \A i \in 1..m : u[i] = t[i]
    BY <2>3
  <2>5. s = u <=> \A i \in 1..m : s[i] = u[i]
    BY <1>1, <2>3, <2>4, SeqEqual
  <2>6. QED
    BY <2>1, <2>4, <2>5
<1>5. QED
  BY <1>1, <1>3, <1>4

\* It begins with one more element if that is the next.
LEMMA PrefixGrows ==
    ASSUME NEW A, NEW s \in Seq(A), NEW t \in Seq(A), NEW e \in A
    PROVE  IsPrefix(Append(s, e), t) <=> IsPrefix(s, t) /\ Len(s) + 1 <= Len(t) /\ t[Len(s) + 1] = e
<1>1. PICK m \in Nat, n \in Nat : m = Len(s) /\ n = Len(t)
  BY LenProperties
<1>2. PICK u : u = Append(s, e)
  OBVIOUS
<1>3. u \in Seq(A) /\ Len(u) = m + 1 /\ u[m + 1] = e /\ \A i \in 1..m : u[i] = s[i]
  BY <1>1, <1>2, AppendProperties
<1>4. IsPrefix(u, t) <=> m + 1 <= n /\ \A i \in 1..(m + 1) : u[i] = t[i]
  BY <1>1, <1>3, PrefixByElements
<1>5. IsPrefix(s, t) <=> m <= n /\ \A i \in 1..m : s[i] = t[i]
  BY <1>1, PrefixByElements
<1>6. (\A i \in 1..(m + 1) : u[i] = t[i]) <=> (\A i \in 1..m : s[i] = t[i]) /\ e = t[m + 1]
  <2>1. ASSUME \A i \in 1..m : s[i] = t[i], e = t[m + 1], NEW i \in 1..(m + 1) PROVE u[i] = t[i]
    <3>1. i \in 1..m \/ i = m + 1
      BY <1>1
    <3>2. QED
      BY <1>3, <2>1, <3>1
  <2>2. ASSUME \A i \in 1..(m + 1) : u[i] = t[i] PROVE (\A i \in 1..m : s[i] = t[i]) /\ e = t[m + 1]
    <3>1. m + 1 \in 1..(m + 1) /\ \A i \in 1..m : i \in 1..(m + 1)
      BY <1>1
    <3>2. QED
      BY <1>3, <2>2, <3>1
  <2>3. QED
    BY <2>1, <2>2
<1>7. QED
  BY <1>1, <1>2, <1>4, <1>5, <1>6

\* The cells of a match of the text with the pattern, and such a match.
Cells(text, pattern) == (1..Len(text) + 1) \X (1..Len(pattern) + 1)
IsMatch(m, text, pattern) == m = [c \in Cells(text, pattern) |-> Cell(m, text, pattern, c[1], c[2])]

\* The cells that a cell may look at are nearer to the ends.
Alike(k, m, N, M, i, j) ==
    /\ j <= M => k[<<i, j + 1>>] = m[<<i, j + 1>>]
    /\ i <= N => k[<<i + 1, j>>] = m[<<i + 1, j>>]
    /\ i <= N /\ j <= M => k[<<i + 1, j + 1>>] = m[<<i + 1, j + 1>>]
    /\ i <= N /\ j < M => k[<<i + 1, j + 2>>] = m[<<i + 1, j + 2>>]

LEMMA CellsAgree ==
    ASSUME NEW text, NEW pattern, NEW N \in Nat, NEW M \in Nat, N = Len(text), M = Len(pattern),
           NEW i \in 1..(N + 1), NEW j \in 1..(M + 1), NEW k, NEW m, Alike(k, m, N, M, i, j)
    PROVE  Cell(k, text, pattern, i, j) = Cell(m, text, pattern, i, j)
<1>1. CASE j > M
  BY <1>1 DEF Cell
<1>2. CASE ~ (j > M)
  <2>1. j <= M /\ (j < M <=> j # M)
    BY <1>2
  <2>2. Cell(k, text, pattern, i, j) <=> Cell(m, text, pattern, i, j)
    BY <1>2, <2>1 DEF Cell, Alike
  <2>3. Cell(k, text, pattern, i, j) \in BOOLEAN /\ Cell(m, text, pattern, i, j) \in BOOLEAN
    BY <1>2 DEF Cell
  <2>4. QED
    BY <2>2, <2>3
<1>3. QED
  BY <1>1, <1>2

\* There is a match of any text with any pattern.
LEMMA MatchExists ==
    ASSUME NEW text, NEW pattern, NEW N \in Nat, NEW M \in Nat, N = Len(text), M = Len(pattern)
    PROVE  \E m : IsMatch(m, text, pattern)
<1> DEFINE C == Cells(text, pattern)
           Left(i, j) == (N + 1 - i) + (M + 1 - j)
           Up(m, n) == \A i \in 1..(N + 1) : \A j \in 1..(M + 1) :
                          Left(i, j) <= n => m[<<i, j>>] = Cell(m, text, pattern, i, j)
           P == {n \in Nat : \E m : Up(m, n)}
           Next1(m) == [c \in C |-> Cell(m, text, pattern, c[1], c[2])]
<1>1. \A i \in 1..(N + 1) : \A j \in 1..(M + 1) : <<i, j>> \in C
  BY DEF Cells
<1>2. \A m : \A i \in 1..(N + 1) : \A j \in 1..(M + 1) : Next1(m)[<<i, j>>] = Cell(m, text, pattern, i, j)
  <2> HIDE DEF C
  <2>1. QED
    BY <1>1
<1> HIDE DEF Next1
<1>3. ASSUME NEW m, NEW n \in Nat, \A i \in 1..(N + 1) : \A j \in 1..(M + 1) :
                 Left(i, j) < n => m[<<i, j>>] = Cell(m, text, pattern, i, j)
      PROVE  Up(Next1(m), n)
  <2> SUFFICES ASSUME NEW i \in 1..(N + 1), NEW j \in 1..(M + 1), Left(i, j) <= n
               PROVE  Next1(m)[<<i, j>>] = Cell(Next1(m), text, pattern, i, j)
    OBVIOUS
  <2>1. PICK k : k = Next1(m)
    OBVIOUS
  <2>2. ASSUME NEW a \in 1..(N + 1), NEW b \in 1..(M + 1), Left(a, b) < n
        PROVE  k[<<a, b>>] = m[<<a, b>>]
    BY <1>2, <1>3, <2>1, <2>2
  <2>3. j <= M => k[<<i, j + 1>>] = m[<<i, j + 1>>]
    <3>1. j <= M => j + 1 \in 1..(M + 1) /\ Left(i, j + 1) < n
      OBVIOUS
    <3> HIDE DEF Left
    <3>2. QED
      BY <2>2, <3>1
  <2>4. i <= N => k[<<i + 1, j>>] = m[<<i + 1, j>>]
    <3>1. i <= N => i + 1 \in 1..(N + 1) /\ Left(i + 1, j) < n
      OBVIOUS
    <3> HIDE DEF Left
    <3>2. QED
      BY <2>2, <3>1
  <2>5. i <= N /\ j <= M => k[<<i + 1, j + 1>>] = m[<<i + 1, j + 1>>]
    <3>1. i <= N /\ j <= M => i + 1 \in 1..(N + 1) /\ j + 1 \in 1..(M + 1) /\ Left(i + 1, j + 1) < n
      OBVIOUS
    <3> HIDE DEF Left
    <3>2. QED
      BY <2>2, <3>1
  <2>6. i <= N /\ j < M => k[<<i + 1, j + 2>>] = m[<<i + 1, j + 2>>]
    <3>1. i <= N /\ j < M => i + 1 \in 1..(N + 1) /\ j + 2 \in 1..(M + 1) /\ Left(i + 1, j + 2) < n
      OBVIOUS
    <3> HIDE DEF Left
    <3>2. QED
      BY <2>2, <3>1
  <2>7. Cell(k, text, pattern, i, j) = Cell(m, text, pattern, i, j)
    <3>1. Alike(k, m, N, M, i, j)
      BY <2>3, <2>4, <2>5, <2>6 DEF Alike
    <3>2. QED
      BY <3>1, CellsAgree
  <2>8. QED
    BY <1>2, <2>1, <2>7
<1>4. 0 \in P
  <2>1. \A i \in 1..(N + 1) : \A j \in 1..(M + 1) : ~ (Left(i, j) < 0)
    OBVIOUS
  <2> HIDE DEF Left, Up
  <2>2. \A m : Up(Next1(m), 0)
    BY <1>3, <2>1
  <2>3. QED
    BY <2>2
<1>5. ASSUME NEW n \in P PROVE n + 1 \in P
  <2>1. PICK m : Up(m, n)
    OBVIOUS
  <2>2. n \in Nat /\ n + 1 \in Nat
    OBVIOUS
  <2>3. \A i \in 1..(N + 1) : \A j \in 1..(M + 1) :
            Left(i, j) < n + 1 => m[<<i, j>>] = Cell(m, text, pattern, i, j)
    <3>1. \A i \in 1..(N + 1) : \A j \in 1..(M + 1) : Left(i, j) < n + 1 => Left(i, j) <= n
      BY <2>2
    <3> HIDE DEF Left
    <3>2. QED
      BY <2>1, <3>1
  <2> HIDE DEF Left, Up
  <2>4. Up(Next1(m), n + 1)
    BY <1>3, <2>2, <2>3
  <2>5. QED
    BY <2>2, <2>4
<1>6. P = Nat
  <2>1. P \in SUBSET Nat
    OBVIOUS
  <2> HIDE DEF P
  <2>2. QED
    BY <1>4, <1>5, <2>1, NumberInduction
<1>7. PICK m : Up(m, N + M)
  <2>1. N + M \in P
    <3> HIDE DEF P
    <3>1. QED
      BY <1>6
  <2> HIDE DEF Up
  <2>2. QED
    BY <2>1
<1>8. \A i \in 1..(N + 1) : \A j \in 1..(M + 1) : m[<<i, j>>] = Cell(m, text, pattern, i, j)
  <2>1. \A i \in 1..(N + 1) : \A j \in 1..(M + 1) : Left(i, j) <= N + M
    OBVIOUS
  <2> HIDE DEF Left
  <2>2. QED
    BY <1>7, <2>1
<1>9. PICK k : k = Next1(m)
  OBVIOUS
<1>10. \A i \in 1..(N + 1) : \A j \in 1..(M + 1) : k[<<i, j>>] = m[<<i, j>>]
  BY ZenonT(60), <1>2, <1>8, <1>9
<1>11. \A i \in 1..(N + 1) : \A j \in 1..(M + 1) :
           Cell(k, text, pattern, i, j) = Cell(m, text, pattern, i, j)
  <2> SUFFICES ASSUME NEW i \in 1..(N + 1), NEW j \in 1..(M + 1)
               PROVE  Cell(k, text, pattern, i, j) = Cell(m, text, pattern, i, j)
    OBVIOUS
  <2>1. /\ j <= M => j + 1 \in 1..(M + 1)
        /\ i <= N => i + 1 \in 1..(N + 1)
        /\ j < M => j + 2 \in 1..(M + 1)
        /\ j < M => j <= M
    OBVIOUS
  <2>2. Alike(k, m, N, M, i, j)
    BY <1>10, <2>1 DEF Alike
  <2>3. QED
    BY <2>2, CellsAgree
<1>12. ASSUME NEW c \in C PROVE Cell(m, text, pattern, c[1], c[2]) = Cell(k, text, pattern, c[1], c[2])
  <2>1. c[1] \in 1..(N + 1) /\ c[2] \in 1..(M + 1)
    BY DEF Cells
  <2>2. QED
    BY <1>11, <2>1
<1>13. k = [c \in C |-> Cell(k, text, pattern, c[1], c[2])]
  BY <1>9, <1>12 DEF Next1
<1>14. QED
  BY <1>13 DEF IsMatch

\* The characters that escapeLike escapes, and the step of it.
Special == {Backslash, "%", "_"}
Escape(A) == [c \in A |-> IF c \in Special THEN <<Backslash, c>> ELSE <<c>>]

\* What a character adds.
Escaped(s, c) == /\ c \in Special => escapeLike(Append(s, c)) = escapeLike(s) \o <<Backslash, c>>
                 /\ c \notin Special => escapeLike(Append(s, c)) = escapeLike(s) \o <<c>>

LEMMA EscapeSteps ==
    ASSUME NEW A, Backslash \in A
    PROVE  /\ escapeLike(<<>>) = <<>>
           /\ \A s \in Seq(A) : escapeLike(s) \in Seq(A)
           /\ \A s \in Seq(A), c \in A : Escaped(s, c)
<1>1. PICK h : h = Escape(A)
  OBVIOUS
<1>2. \A c \in A : h[c] = IF c \in Special THEN <<Backslash, c>> ELSE <<c>>
  BY <1>1 DEF Escape
<1>3. MapsInto(h, A, Seq(A))
  <2>1. \A c \in A : (IF c \in Special THEN <<Backslash, c>> ELSE <<c>>) \in Seq(A)
    OBVIOUS
  <2>2. QED
    BY <1>1, <2>1 DEF Escape, MapsInto
<1>4. ASSUME NEW s \in Seq(A) PROVE escapeLike(s) = Mapped(h, s)
  <2>1. \A i \in DOMAIN s : s[i] \in A
    BY LenProperties
  <2>2. [i \in DOMAIN s |-> IF s[i] \in Special THEN <<Backslash, s[i]>> ELSE <<s[i]>>]
          = [i \in DOMAIN s |-> h[s[i]]]
    BY <1>2, <2>1
  <2>3. QED
    BY <2>2 DEF escapeLike, Mapped, Special
<1>5. /\ Mapped(h, <<>>) = <<>>
      /\ \A s \in Seq(A) : Mapped(h, s) \in Seq(A)
      /\ \A s \in Seq(A), c \in A : Mapped(h, Append(s, c)) = Mapped(h, s) \o h[c]
  BY <1>3, MappedSteps
<1>6. ASSUME NEW s \in Seq(A), NEW c \in A PROVE Escaped(s, c)
  <2>1. Append(s, c) \in Seq(A)
    BY AppendProperties
  <2>2. escapeLike(Append(s, c)) = Mapped(h, s) \o h[c] /\ escapeLike(s) = Mapped(h, s)
    BY <1>4, <1>5, <2>1
  <2>3. QED
    BY <1>2, <2>2 DEF Escaped
<1>7. QED
  BY <1>4, <1>5, <1>6, EmptySeq

\* What stands in a list after its first part.
LEMMA AfterFirst ==
    ASSUME NEW A, NEW s \in Seq(A), NEW t \in Seq(A)
    PROVE  /\ Len(s \o t) = Len(s) + Len(t) /\ Len(s) \in Nat /\ Len(t) \in Nat
           /\ \A k \in 1..Len(t) : (s \o t)[Len(s) + k] = t[k]
<1>1. PICK m \in Nat, n \in Nat : m = Len(s) /\ n = Len(t)
  BY LenProperties
<1>2. PICK c : c = s \o t
  OBVIOUS
<1>3. Len(c) = m + n /\ \A i \in 1..(m + n) : c[i] = IF i <= m THEN s[i] ELSE t[i - m]
  BY <1>1, <1>2, ConcatProperties
<1>4. ASSUME NEW k \in 1..n PROVE c[m + k] = t[k]
  <2>1. m + k \in 1..(m + n) /\ ~ (m + k <= m) /\ (m + k) - m = k
    BY <1>1
  <2>2. c[m + k] = t[(m + k) - m]
    BY <1>3, <2>1
  <2>3. QED
    BY <2>1, <2>2
<1>5. QED
  BY <1>1, <1>2, <1>3, <1>4

\* The same for the middle one of three parts.
LEMMA InTheMiddle ==
    ASSUME NEW A, NEW s \in Seq(A), NEW e \in Seq(A), NEW t \in Seq(A), t # <<>>,
           NEW p, p = (s \o e) \o t
    PROVE  /\ Len(s) \in Nat /\ Len(e) \in Nat
           /\ Len(p) \in Nat /\ Len(s) + Len(e) < Len(p)
           /\ \A i \in 1..Len(e) : p[Len(s) + i] = e[i]
<1>1. PICK l \in Nat, k \in Nat, r \in Nat : l = Len(s) /\ k = Len(e) /\ r = Len(t) /\ r # 0
  BY LenProperties, EmptySeq
<1>2. PICK d \in Seq(A) : d = s \o e
  BY ConcatProperties
<1>3. Len(d) = l + k /\ \A i \in 1..k : d[l + i] = e[i]
  BY <1>1, <1>2, AfterFirst
<1>4. p = d \o t
  BY <1>2
<1>5. Len(p) = l + k + r /\ \A i \in 1..(l + k + r) : p[i] = IF i <= l + k THEN d[i] ELSE t[i - (l + k)]
  <2>1. Len(p) = Len(d) + Len(t)
    BY <1>4, ConcatProperties
  <2>2. \A i \in 1..(Len(d) + Len(t)) : p[i] = IF i <= Len(d) THEN d[i] ELSE t[i - Len(d)]
    BY <1>4, ConcatProperties
  <2>3. QED
    BY <1>1, <1>3, <2>1, <2>2
<1>6. ASSUME NEW i \in 1..k PROVE p[l + i] = e[i]
  <2>1. l + i \in 1..(l + k + r) /\ l + i <= l + k
    BY <1>1
  <2>2. QED
    BY <1>3, <1>5, <2>1
<1>7. QED
  BY <1>1, <1>2, <1>4, <1>5, <1>6

\* The cells of a match.
LEMMA CellOfMatch ==
    ASSUME NEW text, NEW pattern, NEW m, IsMatch(m, text, pattern),
           NEW i \in 1..(Len(text) + 1), NEW j \in 1..(Len(pattern) + 1)
    PROVE  m[<<i, j>>] = Cell(m, text, pattern, i, j)
<1>1. <<i, j>> \in Cells(text, pattern)
  BY DEF Cells
<1>2. m = [c \in Cells(text, pattern) |-> Cell(m, text, pattern, c[1], c[2])]
  BY DEF IsMatch
<1>3. m[<<i, j>>] = Cell(m, text, pattern, <<i, j>>[1], <<i, j>>[2])
  <2>1. PICK D : D = Cells(text, pattern)
    OBVIOUS
  <2>2. QED
    BY <1>1, <1>2, <2>1
<1>4. QED
  BY <1>3

\* Where a match stands once the text has been found to start with a.
Reached(m, text, pattern, a) ==
    IF IsPrefix(a, text) THEN m[<<Len(a) + 1, Len(escapeLike(a)) + 1>>] ELSE FALSE

\* A character of the prefix is matched by itself: the escaped ones by what
\* follows the backslash, the others as what they are.
LEMMA CharacterMatches ==
    ASSUME NEW A, Backslash \in A, NEW text \in Seq(A), NEW pattern, NEW m, IsMatch(m, text, pattern),
           NEW a \in Seq(A), NEW c \in A, NEW rest \in Seq(A), rest # <<>>,
           pattern = escapeLike(Append(a, c)) \o rest
    PROVE  Reached(m, text, pattern, a) <=> Reached(m, text, pattern, Append(a, c))
<1>1. PICK ea \in Seq(A), e \in Seq(A) :
          /\ ea = escapeLike(a) /\ escapeLike(Append(a, c)) = ea \o e
          /\ c \in Special => e = <<Backslash, c>>
          /\ c \notin Special => e = <<c>>
  <2>1. Escaped(a, c) /\ escapeLike(a) \in Seq(A)
    BY EscapeSteps
  <2>2. <<Backslash, c>> \in Seq(A) /\ <<c>> \in Seq(A)
    OBVIOUS
  <2>3. QED
    BY <2>1, <2>2 DEF Escaped
<1>2. PICK N \in Nat, n \in Nat, l \in Nat, r \in Nat :
          N = Len(text) /\ n = Len(a) /\ l = Len(ea) /\ r = Len(rest) /\ r # 0
  BY LenProperties, EmptySeq
<1>3. pattern = (ea \o e) \o rest
  BY <1>1
<1>4. PICK M \in Nat : /\ M = Len(pattern) /\ l + Len(e) < M
                       /\ \A i \in 1..Len(e) : pattern[l + i] = e[i]
  <2>1. /\ Len(pattern) \in Nat /\ Len(ea) + Len(e) < Len(pattern)
        /\ \A i \in 1..Len(e) : pattern[Len(ea) + i] = e[i]
    BY <1>3, InTheMiddle
  <2>2. QED
    BY <1>2, <2>1
<1>5. PICK b \in Seq(A) : b = Append(a, c)
  BY AppendProperties
<1>6. Len(b) = n + 1
  BY <1>2, <1>5, AppendProperties
<1>7. IsPrefix(b, text) <=> IsPrefix(a, text) /\ n + 1 <= N /\ text[n + 1] = c
  BY <1>2, <1>5, PrefixGrows
<1>8. PICK k \in Nat : k = Len(e)
  BY LenProperties
<1>9. Len(escapeLike(b)) = l + k
  BY <1>1, <1>2, <1>5, <1>8, AfterFirst
<1>10. CASE ~ IsPrefix(a, text)
  BY <1>5, <1>7, <1>10 DEF Reached
<1>11. CASE IsPrefix(a, text)
  <2>1. n <= N
    BY <1>2, <1>11, PrefixByElements
  <2>2. n + 1 \in 1..(N + 1) /\ l + 1 \in 1..(M + 1) /\ (k # 0 => ~ (l + 1 > M))
    BY <1>2, <1>4, <1>8, <2>1
  <2>3. m[<<n + 1, l + 1>>] = Cell(m, text, pattern, n + 1, l + 1)
    <3>1. PICK i \in 1..(Len(text) + 1), j \in 1..(Len(pattern) + 1) : i = n + 1 /\ j = l + 1
      BY <1>2, <1>4, <2>2
    <3>2. m[<<i, j>>] = Cell(m, text, pattern, i, j)
      BY CellOfMatch
    <3>3. QED
      BY <3>1, <3>2
  <2>4. Reached(m, text, pattern, a) <=> Cell(m, text, pattern, n + 1, l + 1)
    BY <1>1, <1>2, <1>11, <2>3 DEF Reached
  <2>5. Reached(m, text, pattern, b) <=> n + 1 <= N /\ text[n + 1] = c /\ m[<<n + 2, l + k + 1>>]
    <3>1. Len(b) + 1 = n + 2
      BY <1>2, <1>6
    <3>2. QED
      BY <1>7, <1>9, <1>11, <3>1 DEF Reached
  <2>6. Cell(m, text, pattern, n + 1, l + 1)
          <=> n + 1 <= N /\ text[n + 1] = c /\ m[<<n + 2, l + k + 1>>]
    <3>1. n + 1 + 1 = n + 2 /\ l + 1 + 1 = l + 2 /\ l + 1 + 2 = l + 2 + 1
      BY <1>2
    <3>2. CASE c \in Special
      <4>1. k = 2 /\ e[1] = Backslash /\ e[2] = c
        BY <1>1, <1>8, <3>2
      <4>2. pattern[l + 1] = Backslash /\ pattern[l + 2] = c
        <5>1. 1 \in 1..2 /\ 2 \in 1..2
          OBVIOUS
        <5>2. QED
          BY <1>4, <1>8, <4>1, <5>1
      <4>3. l + 1 < M /\ ~ (l + 1 > M) /\ l + 2 + 1 = l + k + 1
        BY SMTT(30), <1>2, <1>4, <1>8, <4>1
      <4>4. Backslash # "%" /\ Backslash # "_"
        BY DEF Backslash
      <4>5. Cell(m, text, pattern, n + 1, l + 1)
              <=> n + 1 <= N /\ text[n + 1] = pattern[l + 2] /\ m[<<n + 2, l + 2 + 1>>]
        <5>1. PICK i, j, j2, i2, j3 : i = n + 1 /\ j = l + 1 /\ i2 = n + 2 /\ j2 = l + 2 /\ j3 = l + 2 + 1
          OBVIOUS
        <5>2. /\ ~ (j > M) /\ j < M /\ pattern[j] = Backslash
              /\ i + 1 = i2 /\ j + 1 = j2 /\ j + 2 = j3
          BY <3>1, <4>2, <4>3, <5>1
        <5>3. Cell(m, text, pattern, i, j) <=> i <= N /\ text[i] = pattern[j2] /\ m[<<i2, j3>>]
          BY <1>2, <1>4, <4>4, <5>2 DEF Cell
        <5>4. QED
          BY <5>1, <5>3
      <4>6. QED
        BY <4>2, <4>3, <4>5
    <3>3. CASE c \notin Special
      <4>1. k = 1 /\ e[1] = c
        BY <1>1, <1>8, <3>3
      <4>2. pattern[l + 1] = c /\ c \notin {"%", "_", Backslash}
        <5>1. 1 \in 1..1
          OBVIOUS
        <5>2. QED
          BY <1>4, <1>8, <3>3, <4>1, <5>1 DEF Special
      <4>3. ~ (l + 1 > M) /\ l + 2 = l + k + 1
        BY <1>2, <1>4, <1>8, <4>1
      <4>4. Cell(m, text, pattern, n + 1, l + 1)
              <=> n + 1 <= N /\ text[n + 1] = c /\ m[<<n + 2, l + 2>>]
        <5>1. PICK i, j, j2, i2 : i = n + 1 /\ j = l + 1 /\ i2 = n + 2 /\ j2 = l + 2
          OBVIOUS
        <5>2. ~ (j > M) /\ pattern[j] = c /\ i + 1 = i2 /\ j + 1 = j2
          BY <3>1, <4>2, <4>3, <5>1
        <5>3. Cell(m, text, pattern, i, j) <=> i <= N /\ text[i] = c /\ m[<<i2, j2>>]
          BY <1>2, <1>4, <4>2, <5>2 DEF Cell
        <5>4. QED
          BY <5>1, <5>3
      <4>5. QED
        BY <4>3, <4>4
    <3>4. QED
      BY <3>2, <3>3
  <2>7. QED
    BY <1>5, <2>4, <2>5, <2>6
<1>12. QED
  BY <1>10, <1>11

Regrouped(u, v, w) == (u \o v) \o w = u \o (v \o w)

\* Concatenation is associative, said of three texts at a time.
LEMMA Regroups ==
    ASSUME NEW A, NEW u \in Seq(A), NEW v \in Seq(A), NEW w \in Seq(A)
    PROVE  Regrouped(u, v, w)
BY ConcatAssociative DEF Regrouped

\* All of a prefix is matched by itself.
LEMMA PrefixMatches ==
    ASSUME NEW A, Backslash \in A, NEW text \in Seq(A), NEW pattern, NEW m, IsMatch(m, text, pattern),
           NEW pre \in Seq(A), NEW tail \in Seq(A), tail # <<>>, pattern = escapeLike(pre) \o tail
    PROVE  m[<<1, 1>>] <=> Reached(m, text, pattern, pre)
<1> DEFINE Fits(a, rest) == rest # <<>> /\ pattern = escapeLike(a) \o rest
           P == {a \in Seq(A) : \A rest \in Seq(A) :
                    Fits(a, rest) => (m[<<1, 1>>] <=> Reached(m, text, pattern, a))}
<1>1. <<>> \in P
  <2>1. <<>> \in Seq(A) /\ Len(<<>>) = 0 /\ escapeLike(<<>>) = <<>> /\ 0 + 1 = 1
    BY EmptySeq, EscapeSteps
  <2>2. IsPrefix(<<>>, text)
    <3>1. text = <<>> \o text
      BY ConcatEmptySeq
    <3>2. QED
      BY <2>1, <3>1, PrefixIs
  <2>3. m[<<1, 1>>] <=> Reached(m, text, pattern, <<>>)
    BY <2>1, <2>2 DEF Reached
  <2> HIDE DEF Fits
  <2>4. QED
    BY <2>1, <2>3
<1>2. ASSUME NEW a \in P, NEW c \in A PROVE Append(a, c) \in P
  <2>0. a \in Seq(A)
    OBVIOUS
  <2>1. PICK b \in Seq(A) : b = Append(a, c)
    BY <2>0, AppendProperties
  <2>2. ASSUME NEW rest \in Seq(A), Fits(b, rest)
        PROVE  m[<<1, 1>>] <=> Reached(m, text, pattern, b)
    <3>1. PICK ea \in Seq(A), e \in Seq(A) : ea = escapeLike(a) /\ escapeLike(b) = ea \o e
      <4>1. Escaped(a, c) /\ escapeLike(a) \in Seq(A)
        BY <2>0, EscapeSteps
      <4>2. <<Backslash, c>> \in Seq(A) /\ <<c>> \in Seq(A)
        OBVIOUS
      <4>3. QED
        BY <2>1, <4>1, <4>2 DEF Escaped
    <3>2. PICK er \in Seq(A) : er = e \o rest
      BY ConcatProperties
    <3>3. pattern = ea \o er
      <4>1. Regrouped(ea, e, rest)
        BY <2>2, <3>1, Regroups
      <4>2. pattern = (ea \o e) \o rest
        BY <2>2, <3>1
      <4>3. QED
        BY <3>2, <4>1, <4>2 DEF Regrouped
    <3>4. er # <<>>
      BY <2>2, <3>2, ConcatEqualIffEmpty
    <3>5. m[<<1, 1>>] <=> Reached(m, text, pattern, a)
      BY <3>1, <3>3, <3>4
    <3>6. pattern = escapeLike(Append(a, c)) \o rest /\ rest # <<>>
      BY <2>1, <2>2
    <3>7. Reached(m, text, pattern, a) <=> Reached(m, text, pattern, Append(a, c))
      BY <2>0, <3>6, CharacterMatches
    <3>8. QED
      BY <2>1, <3>5, <3>7
  <2> HIDE DEF Fits
  <2>3. b \in P
    BY <2>2
  <2>4. QED
    BY <2>1, <2>3
<1>3. P = Seq(A)
  <2>1. P \in SUBSET Seq(A)
    OBVIOUS
  <2> HIDE DEF P
  <2>2. QED
    BY <1>1, <1>2, <2>1, ListInduction
<1>4. pre \in P
  <2> HIDE DEF P
  <2>1. QED
    BY <1>3
<1>5. Fits(pre, tail)
  OBVIOUS
<1> HIDE DEF Fits
<1>6. QED
  BY <1>4, <1>5

TailStarts(m, text, N, l, i) == m[<<i, l + 1>>] <=> i <= N /\ text[i] = Slash

\* What follows the prefix in the pattern, a separator and %, matches whatever
\* starts with a separator.
LEMMA TailMatches ==
    ASSUME NEW text, NEW pattern, NEW m, IsMatch(m, text, pattern),
           NEW N \in Nat, N = Len(text), NEW l \in Nat, Len(pattern) = l + 2,
           pattern[l + 1] = Slash, pattern[l + 2] = "%", NEW i \in 1..(N + 1)
    PROVE  TailStarts(m, text, N, l, i)
<1> DEFINE P == {d \in Nat : d <= N => m[<<N + 1 - d, l + 2>>]}
<1>0. PICK M, j1, j2, j3 : M = Len(pattern) /\ M = j2 /\ j1 = l + 1 /\ j2 = l + 2 /\ j3 = l + 3
  OBVIOUS
<1>1. \A a \in 1..(N + 1) : \A b \in {j1, j2, j3} : m[<<a, b>>] = Cell(m, text, pattern, a, b)
  <2> SUFFICES ASSUME NEW a \in 1..(N + 1), NEW b \in {j1, j2, j3}
               PROVE  m[<<a, b>>] = Cell(m, text, pattern, a, b)
    OBVIOUS
  <2>1. a \in 1..(Len(text) + 1) /\ b \in 1..(Len(pattern) + 1)
    BY <1>0
  <2>2. QED
    BY <2>1, CellOfMatch
<1>2. /\ pattern[j1] = Slash /\ pattern[j2] = "%" /\ j1 + 1 = j2 /\ j2 + 1 = j3
      /\ ~ (j1 > M) /\ ~ (j2 > M) /\ j3 > M
  BY <1>0
<1>3. 0 \in P
  <2>1. PICK a \in 1..(N + 1) : a = N + 1 /\ a = N + 1 - 0 /\ a > N
    <3>1. N + 1 \in 1..(N + 1) /\ N + 1 = N + 1 - 0 /\ N + 1 > N
      OBVIOUS
    <3>2. QED
      BY <3>1
  <2>2. Cell(m, text, pattern, a, j3)
    BY <1>0, <1>2, <2>1 DEF Cell
  <2>3. m[<<a, j3>>]
    BY <1>1, <2>2
  <2>4. Cell(m, text, pattern, a, j2)
    BY <1>0, <1>2, <2>3 DEF Cell
  <2>5. m[<<a, j2>>]
    BY <1>1, <2>4
  <2>6. QED
    BY <1>0, <2>1, <2>5
<1>4. ASSUME NEW d \in P PROVE d + 1 \in P
  <2>d. d \in Nat /\ (d <= N => m[<<N + 1 - d, l + 2>>]) /\ d + 1 \in Nat
    OBVIOUS
  <2> SUFFICES ASSUME d + 1 <= N PROVE m[<<N + 1 - (d + 1), l + 2>>]
    BY <2>d
  <2>1. PICK a \in 1..(N + 1) : a = N + 1 - (d + 1) /\ a <= N /\ a + 1 = N + 1 - d /\ d <= N
    <3> DEFINE e == N + 1 - (d + 1)
    <3>1. e \in 1..(N + 1) /\ e <= N /\ e + 1 = N + 1 - d /\ d <= N
      BY <2>d
    <3>2. QED
      BY <3>1
  <2>2. m[<<a + 1, j2>>]
    BY <1>0, <2>1, <2>d
  <2>3. Cell(m, text, pattern, a, j2)
    BY <1>0, <1>2, <2>1, <2>2 DEF Cell
  <2>4. QED
    BY <1>0, <1>1, <2>1, <2>3
<1>5. P = Nat
  <2>1. P \in SUBSET Nat
    OBVIOUS
  <2> HIDE DEF P
  <2>2. QED
    BY <1>3, <1>4, <2>1, NumberInduction
<1>6. ASSUME NEW a \in 1..(N + 1) PROVE m[<<a, j2>>]
  <2>1. PICK d \in Nat : d = N + 1 - a /\ d <= N /\ N + 1 - d = a
    <3> DEFINE e == N + 1 - a
    <3>1. e \in Nat /\ e <= N /\ N + 1 - e = a
      OBVIOUS
    <3>2. QED
      BY <3>1
  <2>2. d \in P
    <3> HIDE DEF P
    <3>1. QED
      BY <1>5
  <2>3. QED
    BY <1>0, <2>1, <2>2
<1>7. Cell(m, text, pattern, i, j1) <=> i <= N /\ text[i] = Slash /\ m[<<i + 1, j2>>]
  <2>1. Slash # "%" /\ Slash # "_" /\ Slash # Backslash
    BY DEF Slash, Backslash
  <2>2. PICK c, y, z : c = pattern[j1] /\ y = m[<<i + 1, j2>>] /\ z = (j1 > M)
    OBVIOUS
  <2>3. c = Slash /\ c # "%" /\ c # "_" /\ c # Backslash /\ ~ z
    BY <1>2, <2>1, <2>2
  <2>4. Cell(m, text, pattern, i, j1) <=> i <= N /\ text[i] = c /\ y
    BY <1>0, <1>2, <2>2, <2>3 DEF Cell
  <2>5. QED
    BY <2>2, <2>3, <2>4
<1>8. i <= N => m[<<i + 1, j2>>]
  <2>1. i <= N => i + 1 \in 1..(N + 1)
    OBVIOUS
  <2>2. QED
    BY <1>6, <2>1
<1>9. m[<<i, j1>>] = Cell(m, text, pattern, i, j1)
  BY <1>1
<1>10. QED
  BY <1>0, <1>7, <1>8, <1>9 DEF TailStarts

\* The SQL condition of a search is the string test of a listing.
LEMMA LikeIsPrefix ==
    ASSUME NEW A, {Backslash, Slash, "%"} \subseteq A, NEW text \in Seq(A), NEW pre \in Seq(A)
    PROVE  Like(text, escapeLike(pre) \o <<Slash, "%">>) <=> IsPrefix(pre \o Root, text)
<1>1. PICK ep \in Seq(A), tail \in Seq(A) :
          ep = escapeLike(pre) /\ tail = <<Slash, "%">> /\ tail # <<>>
          /\ Len(tail) = 2 /\ tail[1] = Slash /\ tail[2] = "%"
  <2>1. escapeLike(pre) \in Seq(A)
    BY EscapeSteps
  <2>2. <<Slash, "%">> \in Seq(A) /\ <<Slash, "%">> # <<>>
    OBVIOUS
  <2>3. QED
    BY <2>1, <2>2
<1>2. PICK pattern \in Seq(A) : pattern = ep \o tail
  BY ConcatProperties
<1>3. PICK N \in Nat, n \in Nat, l \in Nat : N = Len(text) /\ n = Len(pre) /\ l = Len(ep)
  BY LenProperties
<1>4. Len(pattern) = l + 2 /\ pattern[l + 1] = Slash /\ pattern[l + 2] = "%"
  <2>1. Len(pattern) = l + 2 /\ \A k \in 1..2 : pattern[l + k] = tail[k]
    BY <1>1, <1>2, <1>3, AfterFirst
  <2>2. 1 \in 1..2 /\ 2 \in 1..2
    OBVIOUS
  <2>3. QED
    BY <1>1, <2>1, <2>2
<1>5. PICK m : IsMatch(m, text, pattern) /\ (Like(text, pattern) <=> m[<<1, 1>>])
  <2>1. \E k : IsMatch(k, text, pattern)
    BY <1>3, <1>4, MatchExists
  <2>2. Like(text, pattern)
          = (CHOOSE k : k = [c \in Cells(text, pattern) |-> Cell(k, text, pattern, c[1], c[2])])[<<1, 1>>]
    BY DEF Like, Cells
  <2>3. PICK k : k = [c \in Cells(text, pattern) |-> Cell(k, text, pattern, c[1], c[2])]
                 /\ Like(text, pattern) = k[<<1, 1>>]
    BY <2>1, <2>2 DEF IsMatch
  <2>4. QED
    BY <2>3 DEF IsMatch
<1>6. m[<<1, 1>>] <=> Reached(m, text, pattern, pre)
  BY <1>1, <1>2, <1>5, PrefixMatches
<1>7. Reached(m, text, pattern, pre) <=> IsPrefix(pre, text) /\ m[<<n + 1, l + 1>>]
  BY <1>1, <1>3 DEF Reached
<1>8. IsPrefix(pre, text) => n + 1 \in 1..(N + 1)
  BY <1>3, PrefixByElements
<1>9. IsPrefix(pre, text) => (m[<<n + 1, l + 1>>] <=> n + 1 <= N /\ text[n + 1] = Slash)
  <2> SUFFICES ASSUME IsPrefix(pre, text)
               PROVE  m[<<n + 1, l + 1>>] <=> n + 1 <= N /\ text[n + 1] = Slash
    OBVIOUS
  <2>1. PICK i \in 1..(N + 1) : i = n + 1
    BY <1>8
  <2>2. IsMatch(m, text, pattern) /\ N = Len(text) /\ Len(pattern) = l + 2
        /\ pattern[l + 1] = Slash /\ pattern[l + 2] = "%"
    BY <1>3, <1>4, <1>5
  <2>3. TailStarts(m, text, N, l, i)
    BY <2>2, TailMatches
  <2>4. QED
    BY <2>1, <2>3 DEF TailStarts
<1>10. pre \o Root = Append(pre, Slash)
  BY AppendIsConcat DEF Root
<1>11. IsPrefix(Append(pre, Slash), text) <=> IsPrefix(pre, text) /\ n + 1 <= N /\ text[n + 1] = Slash
  BY <1>3, PrefixGrows
<1>12. QED
  BY <1>1, <1>2, <1>5, <1>6, <1>7, <1>9, <1>10, <1>11

-----------------------------------------------------------------------------
(***************************************************************************)
(* Searches and breadcrumbs show what listings show.                       *)
(***************************************************************************)

\* The characters of paths, of what is rendered of them, and of patterns.
Text == Char \cup {Slash, Backslash, "%", Replacement}

\* What is rendered of a path: as long, the same where it is UTF-8, and with the
\* same beginning as far as that is.
LEMMA RenderedKeeps ==
    ASSUME NEW bytes \in Seq(Char)
    PROVE  /\ Rendered(bytes) \in Seq(Text)
           /\ bytes \in Seq(Clear) => Rendered(bytes) = bytes
           /\ \A s \in Seq(Clear) : IsPrefix(s, bytes) => IsPrefix(s, Rendered(bytes))
<1>1. PICK k \in Nat : k = Len(bytes) /\ bytes \in [1..k -> Char] /\ DOMAIN bytes = 1..k
  BY LenProperties
<1>2. PICK r : r = Rendered(bytes)
  OBVIOUS
<1>3. /\ r = [i \in 1..k |-> IF bytes[i] = Invalid THEN Replacement ELSE bytes[i]]
      /\ r \in [1..k -> Text]
  BY <1>1, <1>2 DEF Rendered, Text
<1>4. r \in Seq(Text) /\ Len(r) = k
  BY <1>3, SeqDef, LenProperties
<1>5. Char \subseteq Text /\ Clear \subseteq Text /\ Seq(Char) \subseteq Seq(Text) /\ Seq(Clear) \subseteq Seq(Text)
  <2>1. Char \subseteq Text /\ Clear \subseteq Text
    BY DEF Text, Clear
  <2>2. QED
    BY <2>1, SeqMonotonic
<1>6. ASSUME bytes \in Seq(Clear) PROVE r = bytes
  <2>1. \A i \in 1..k : bytes[i] # Invalid
    BY <1>1, <1>6, LenProperties DEF Clear
  <2>2. QED
    BY <1>1, <1>3, <2>1
<1>7. ASSUME NEW s \in Seq(Clear), IsPrefix(s, bytes) PROVE IsPrefix(s, r)
  <2>1. PICK n \in Nat : n = Len(s) /\ \A i \in 1..n : s[i] \in Clear
    BY <1>7, LenProperties
  <2>2. s \in Seq(Text) /\ bytes \in Seq(Text)
    BY <1>5
  <2>3. n <= k /\ \A i \in 1..n : s[i] = bytes[i]
    BY <1>1, <1>7, <2>1, <2>2, PrefixByElements
  <2>4. \A i \in 1..n : s[i] = r[i]
    <3> SUFFICES ASSUME NEW i \in 1..n PROVE s[i] = r[i]
      OBVIOUS
    <3>1. i \in 1..k /\ s[i] = bytes[i] /\ s[i] # Invalid
      BY <2>1, <2>3 DEF Clear
    <3>2. QED
      BY <1>3, <3>1
  <2>5. QED
    BY <1>4, <2>1, <2>2, <2>3, <2>4, PrefixByElements
<1>8. QED
  BY <1>2, <1>4, <1>6, <1>7

\* An opened prefix is UTF-8, and so is what its pattern stands for.
LEMMA OpenedIsText ==
    ASSUME GrantInv, NEW pre \in Opened
    PROVE  pre \in Seq(Clear) /\ pre \o Root \in Seq(Clear)
<1>1. PICK rs \in ClearNames : pre = Join(rs)
  BY OpenedAre
<1>2. Slash \in Clear /\ rs \in Seq(Piece(Clear))
  BY ClearText, NamesArePieces DEF ClearNames
<1>3. pre \in Seq(Clear) /\ Root \in Seq(Clear)
  BY <1>1, <1>2, JoinIs, RootIsText
<1>4. QED
  BY <1>3, ConcatProperties

\* What the pattern of an opened prefix matches.
LEMMA PatternIsPrefix ==
    ASSUME GrantInv, NEW pre \in Opened, NEW text \in Seq(Text)
    PROVE  Like(text, escapeLike(pre) \o <<Slash, "%">>) <=> IsPrefix(pre \o Root, text)
<1>1. {Backslash, Slash, "%"} \subseteq Text /\ Clear \subseteq Text
  BY DEF Text, Clear
<1>2. pre \in Seq(Text)
  BY <1>1, OpenedIsText, SeqMonotonic
<1>3. QED
  BY <1>1, <1>2, LikeIsPrefix

\* A search shows what a listing shows, and nothing else where paths are UTF-8.
LEMMA SearchShowsListed ==
    ASSUME GrantInv, NEW ns \in NameList
    PROVE  /\ allows(Join(ns)) => scopeClause(RowOf(Join(ns)))
           /\ Legible(ns) => (scopeClause(RowOf(Join(ns))) => allows(Join(ns)))
<1>1. PICK bytes \in Seq(Char) :
          bytes = Join(ns) /\ IsAbsolute(bytes) /\ Clean(bytes) = bytes
  BY JoinedNames DEF Clean
<1>2. PICK r \in Seq(Text) :
          /\ r = Rendered(bytes)
          /\ bytes \in Seq(Clear) => r = bytes
          /\ \A s \in Seq(Clear) : IsPrefix(s, bytes) => IsPrefix(s, r)
  BY RenderedKeeps
<1>3. RowOf(bytes).path = r
  BY <1>2 DEF RowOf
<1>4. scopeClause(RowOf(bytes))
        <=> \E pre \in Opened : pre = Root \/ r = pre \/ IsPrefix(pre \o Root, r)
  <2>1. \A pre \in Opened : Like(r, escapeLike(pre) \o <<Slash, "%">>) <=> IsPrefix(pre \o Root, r)
    BY PatternIsPrefix
  <2>2. QED
    BY <1>3, <2>1 DEF scopeClause
<1>5. allows(bytes) <=> \E pre \in Opened : pre = Root \/ bytes = pre \/ IsPrefix(pre \o Root, bytes)
  BY <1>1 DEF allows
<1>6. ASSUME NEW pre \in Opened, pre = Root \/ bytes = pre \/ IsPrefix(pre \o Root, bytes)
      PROVE  pre = Root \/ r = pre \/ IsPrefix(pre \o Root, r)
  <2>1. pre \in Seq(Clear) /\ pre \o Root \in Seq(Clear)
    BY OpenedIsText
  <2>2. QED
    BY <1>2, <1>6, <2>1
<1>7. ASSUME Legible(ns) PROVE r = bytes
  <2>1. ~ Contains(bytes, Invalid)
    BY <1>1, <1>7 DEF Legible
  <2>2. bytes \in Seq(Clear)
    BY <2>1, LackingIs DEF Clear
  <2>3. QED
    BY <1>2, <2>2
<1>8. QED
  BY <1>1, <1>4, <1>5, <1>6, <1>7

\* The test of the breadcrumbs is the subtree of the prefix.
LEMMA UnderPrefixIsBelow ==
    ASSUME NEW ns \in NameList, NEW rs \in NameList
    PROVE  underPrefix(Join(ns), Join(rs)) <=> Below(ns, rs)
<1>1. Slash \in Char /\ ns \in Seq(Proper(Char)) /\ rs \in Seq(Proper(Char))
  BY CharHasSlash DEF NameList
<1>2. Last(Join(rs)) = Slash <=> rs = <<>>
  BY LastOfJoin
<1>3. CASE rs = <<>>
  <2>1. Join(rs) = Root
    BY <1>3, JoinedNames
  <2>2. QED
    BY <1>1, <1>2, <1>3, <2>1, RootIsAbove DEF underPrefix
<1>4. CASE rs # <<>>
  BY <1>1, <1>2, <1>4, JoinedBelow DEF underPrefix
<1>5. QED
  BY <1>3, <1>4

\* A breadcrumb is active exactly if what it leads to is let through.
LEMMA CrumbsOpen ==
    ASSUME GrantInv, NEW ns \in NameList, NEW crumb \in Crumbs(Join(ns))
    PROVE  crumbActive(crumb) <=> allows(crumb)
<1>1. Without(Split(Join(ns)), {<<>>}) = ns
  BY CharHasSlash, ComponentsOfJoin DEF NameList
<1>2. PICK n \in 0..Len(ns) : crumb = Join(SubSeq(ns, 1, n))
  BY <1>1 DEF Crumbs
<1>3. PICK ms \in NameList : ms = SubSeq(ns, 1, n)
  <2>1. Len(ns) \in Nat /\ \A i \in 1..Len(ns) : ns[i] \in Proper(Char)
    BY LenProperties DEF NameList
  <2>2. \A i \in 1..n : ns[i] \in Proper(Char)
    BY <2>1
  <2>3. SubSeq(ns, 1, n) \in Seq(Proper(Char))
    BY <2>1, <2>2, SubSeqProperties
  <2>4. QED
    BY <2>3 DEF NameList
<1>4. ASSUME NEW pre \in Opened PROVE underPrefix(crumb, pre) <=> Below(ms, Components(pre))
  <2>1. PICK rs \in NameList : pre = Join(rs)
    BY OpenedAre, ClearText
  <2>2. Components(pre) = rs
    BY <2>1, JoinedNames
  <2>3. QED
    BY <1>2, <1>3, <2>1, <2>2, UnderPrefixIsBelow
<1>5. crumbActive(crumb) <=> Granted(ms)
  BY <1>4 DEF crumbActive, Granted
<1>6. QED
  BY <1>2, <1>3, <1>5, AllowsIsGranted

\* Whatever is granted and indexed: what a search finds and what the breadcrumbs
\* offer is what a listing would show.  The three tests are written three times,
\* in SQL (scopeClause), in Go (access.allows) and in TypeScript (underPrefix).
THEOREM ViewsAreOne == GrantSpec => []ViewsAgree
<1>1. GrantInv => ViewsAgree
  <2> SUFFICES ASSUME GrantInv, NEW names \in Indexed
               PROVE  /\ allows(Join(names)) => scopeClause(RowOf(Join(names)))
                      /\ Legible(names) => (scopeClause(RowOf(Join(names))) => allows(Join(names)))
                      /\ \A crumb \in Crumbs(Join(names)) : crumbActive(crumb) <=> allows(crumb)
    BY DEF ViewsAgree
  <2>1. names \in NameList
    BY GrantAssumption, EntriesAreNames
  <2>2. QED
    BY <2>1, SearchShowsListed, CrumbsOpen
<1>2. QED
  BY <1>1, GrantsInductive, PTL

-----------------------------------------------------------------------------
(***************************************************************************)
(* The search: for any index, any stats and any list of rules.             *)
(***************************************************************************)

Aggregate == {{}} \cup {{c} : c \in Counts}
File == [row : Row, aggregates : Aggregate]

TypeOK ==
    /\ owner \in [Row -> Owner \cup {NULL}]
    /\ stats \in [Row -> Aggregate]
    /\ scope \in SUBSET Row
    /\ pc \in {"idle", "query", "attach", "answered"}
    /\ req \in [rules : Seq(Rule), limit : Nat, byDir : BOOLEAN]
    /\ files \in Seq(File)
    /\ answer \in {"200", "400", "500"}
    /\ published \in Nat
    /\ found \in Seq(Row)
    /\ during \in SUBSET [Row -> Aggregate]
    /\ failed \in BOOLEAN

\* A request that reaches the database has only fields it knows; its result is
\* of the scope, and until the lookup has the rows of the statement and no
\* aggregates, while the stats to be looked up are among those that stood since.
SearchInv ==
    /\ TypeOK
    /\ pc = "query" => \A i \in DOMAIN req.rules : req.rules[i].field # "unknown"
    /\ \A i \in DOMAIN files : files[i].row \in scope
    /\ pc = "attach" => files = Plain(found) /\ stats \in during /\ ~ NeedsDirStats(req)
    /\ DecoratedAsOfOneMoment

\* The joined statement returns rows of those it read, each with its stats.
LEMMA JoinedIs ==
    ASSUME TypeOK, SearchAssumption, NEW R \in SUBSET Row, NEW page \in Seq(R),
           NEW kept, kept = Without(page, TooLarge(stats))
    PROVE  /\ kept \in Seq(R)
           /\ Joined(page) \in Seq(File) /\ Len(Joined(page)) = Len(kept)
           /\ \A i \in 1..Len(kept) : /\ Joined(page)[i].row = kept[i]
                                      /\ Joined(page)[i].aggregates = stats[kept[i]]
<1>1. kept \in Seq(R)
  BY ZenonT(30), WithoutSteps
<1>2. kept \in [1..Len(kept) -> R] /\ Len(kept) \in Nat /\ DOMAIN kept = 1..Len(kept)
  BY <1>1, LenProperties
<1>3. {row \in Row : ~ Scanned(row)} = TooLarge(stats)
  <2>1. ASSUME NEW row \in Row PROVE ~ Scanned(row) <=> \E c \in stats[row] : c > MaxInt32
    <3>1. stats[row] \in Aggregate /\ Counts \subseteq Nat /\ MaxInt32 \in Nat
      BY DEF TypeOK, SearchAssumption
    <3>2. ASSUME NEW c \in stats[row] PROVE c \in Nat
      BY <3>1 DEF Aggregate
    <3>3. QED
      BY <3>1, <3>2 DEF Scanned
  <2>2. QED
    BY <2>1 DEF TooLarge
<1>4. PICK fs : fs = Joined(page)
  OBVIOUS
<1>5. fs = [i \in 1..Len(kept) |-> [row |-> kept[i], aggregates |-> stats[kept[i]]]]
  BY <1>2, <1>3, <1>4 DEF Joined
<1>6. fs \in [1..Len(kept) -> File]
  BY <1>2, <1>5 DEF File, TypeOK
<1>7. fs \in Seq(File) /\ Len(fs) = Len(kept)
  BY <1>2, <1>6, IsASeq, LenProperties
<1>8. \A i \in 1..Len(kept) : fs[i].row = kept[i] /\ fs[i].aggregates = stats[kept[i]]
  BY <1>5
<1>9. QED
  BY <1>1, <1>4, <1>7, <1>8

----------------------------------------------------------------------------
(* Every step keeps SearchInv                                              *)

LEMMA InitSearch == ASSUME SearchAssumption PROVE SearchInit => SearchInv
<1> SUFFICES ASSUME SearchInit PROVE SearchInv
  OBVIOUS
<1>1. <<>> \in Seq(Rule) /\ <<>> \in Seq(File) /\ <<>> \in Seq(Row) /\ DOMAIN <<>> = {}
  BY EmptySeq
<1>2. TypeOK
  <2>1. stats \in [Row -> Aggregate]
    BY DEF SearchInit, Stats, Aggregate
  <2>2. owner \in [Row -> Owner \cup {NULL}] /\ scope \in SUBSET Row
    BY DEF SearchInit, SearchAssumption
  <2>3. req \in [rules : Seq(Rule), limit : Nat, byDir : BOOLEAN]
    BY <1>1 DEF SearchInit
  <2>4. files \in Seq(File) /\ found \in Seq(Row) /\ during \in SUBSET [Row -> Aggregate]
    BY <1>1 DEF SearchInit
  <2>5. QED
    BY <2>1, <2>2, <2>3, <2>4 DEF SearchInit, TypeOK
<1>3. QED
  BY <1>1, <1>2 DEF SearchInit, SearchInv, DecoratedAsOfOneMoment

LEMMA ReceiveKeeps == ASSUME SearchInv, SearchAssumption, Receive PROVE SearchInv'
<1>1. PICK rules \in BoundedSeq(Rule, MaxRules), limit \in Limits, byDir \in BOOLEAN :
        /\ req' = [rules |-> rules, limit |-> limit, byDir |-> byDir]
        /\ \/ /\ rules = <<>> \/ \E i \in DOMAIN rules : rules[i].field = "unknown"
              /\ pc' = "answered" /\ answer' = "400"
           \/ /\ rules # <<>> /\ \A i \in DOMAIN rules : rules[i].field # "unknown"
              /\ pc' = "query" /\ UNCHANGED answer
  BY DEF Receive
<1>2. PICK m \in 0..MaxRules : rules \in [1..m -> Rule]
  BY DEF BoundedSeq, SeqOf
<1>3. rules \in Seq(Rule)
  <2>1. m \in Nat
    BY <1>2
  <2>2. QED
    BY <1>2, <2>1, IsASeq
<1>4. TypeOK'
  BY <1>1, <1>3 DEF Receive, requestVars, SearchInv, TypeOK, SearchAssumption
<1>5. (pc = "query" => \A i \in DOMAIN req.rules : req.rules[i].field # "unknown")'
  BY <1>1
<1>6. DecoratedAsOfOneMoment' /\ pc' # "attach"
  BY <1>1 DEF DecoratedAsOfOneMoment
<1>7. QED
  BY <1>1, <1>4, <1>5, <1>6 DEF Receive, SearchInv

\* The rows of a page are rows that match.
LEMMA PageMatches ==
    ASSUME TypeOK, SearchAssumption,
           NEW R \in SUBSET Row, NEW order \in SetToSeqs(R), NEW n \in Nat
    PROVE  SubSeq(order, 1, IF n < Len(order) THEN n ELSE Len(order)) \in Seq(R)
<1>1. Cardinality(R) \in Nat
  BY FS_Subset, FS_CardinalityType DEF SearchAssumption
<1>2. order \in [1..Cardinality(R) -> R]
  BY DEF SetToSeqs
<1>3. order \in Seq(R)
  BY <1>1, <1>2, IsASeq
<1>4. Len(order) \in Nat
  BY <1>3, LenProperties
<1>5. PICK k \in 0..Len(order) : k = IF n < Len(order) THEN n ELSE Len(order)
  BY <1>4
<1>6. SubSeq(order, 1, k) \in Seq(R)
  <2>1. \A i \in 1..k : order[i] \in R
    BY <1>3, <1>4, LenProperties, ElementOfSeq
  <2>2. QED
    BY <1>3, <1>4, SubSeqProperties
<1>7. QED
  BY <1>5, <1>6

LEMMA QueryKeeps == ASSUME SearchInv, SearchAssumption, Query PROVE SearchInv'
<1> DEFINE R == {row \in Row : Matches(req.rules, row)}
<1>0. TypeOK
  BY DEF SearchInv
<1>1. R \in SUBSET Row /\ R \subseteq scope
  BY DEF Matches
<1> HIDE DEF R
<1> DEFINE Page(order) ==
             SubSeq(order, 1, IF Limit(req) < Len(order) THEN Limit(req) ELSE Len(order))
           Answered(page) ==
             /\ files' = IF NeedsDirStats(req) THEN Joined(page) ELSE Plain(page)
             /\ pc' = IF NeedsDirStats(req) \/ \A i \in DOMAIN page : page[i] \notin IsDir
                      THEN "answered" ELSE "attach"
             /\ found' = page
<1>o. PICK order \in SetToSeqs(R) : Answered(Page(order))
  BY DEF Query, R
<1>2. PICK page : page = Page(order) /\ Answered(page)
  BY <1>o
<1>3. Limit(req) \in Nat
  BY <1>0 DEF Limit, TypeOK, SearchAssumption
<1>4. page \in Seq(R) /\ page \in Seq(Row)
  <2>1. page \in Seq(R)
    BY <1>0, <1>1, <1>2, <1>3, PageMatches
  <2>2. QED
    BY <1>1, <2>1, SeqMonotonic
<1>5. Len(page) \in Nat /\ DOMAIN page = 1..Len(page) /\ page \in [1..Len(page) -> R]
  BY <1>4, LenProperties
<1>6. /\ found' = page /\ during' = {stats} /\ req' = req /\ pc' \in {"answered", "attach"}
      /\ NeedsDirStats(req)' = NeedsDirStats(req)
  BY <1>2 DEF Query, NeedsDirStats
<1>7. ASSUME files' \in Seq(File) PROVE TypeOK'
  <2>1. during' \in SUBSET [Row -> Aggregate]
    BY <1>0, <1>6 DEF TypeOK
  <2>2. QED
    BY <1>0, <1>4, <1>6, <1>7, <2>1 DEF Query, TypeOK
<1>8. PICK s : s = stats
  OBVIOUS
<1>9. CASE NeedsDirStats(req)
  <2>1. files' = Joined(page) /\ pc' = "answered"
    BY <1>2, <1>9
  <2>2. PICK kept : kept = Without(page, TooLarge(s))
    OBVIOUS
  <2>3. /\ kept \in Seq(R)
        /\ files' \in Seq(File) /\ Len(files') = Len(kept)
        /\ \A i \in 1..Len(kept) : files'[i].row = kept[i] /\ files'[i].aggregates = s[kept[i]]
    BY <1>0, <1>1, <1>4, <1>8, <2>1, <2>2, JoinedIs
  <2>4. /\ DOMAIN kept = 1..Len(kept) /\ \A i \in DOMAIN kept : kept[i] \in R
        /\ DOMAIN files' = 1..Len(kept)
    BY <2>3, LenProperties, ElementOfSeq
  <2>5. TooLarge(s)' = TooLarge(s)
    BY DEF TooLarge
  <2>6. DecoratedWith(s)'
    BY <1>6, <1>9, <2>2, <2>3, <2>4, <2>5 DEF DecoratedWith
  <2>7. DecoratedAsOfOneMoment'
    BY <1>6, <1>8, <2>6 DEF DecoratedAsOfOneMoment
  <2>8. \A i \in DOMAIN files' : files'[i].row \in scope'
    BY <1>1, <2>3, <2>4 DEF Query
  <2>9. QED
    BY <1>7, <2>1, <2>3, <2>7, <2>8 DEF SearchInv
<1>10. CASE ~ NeedsDirStats(req)
  <2>1. files' = Plain(page) /\ files' = Plain(found)'
    BY <1>2, <1>6, <1>10 DEF Plain
  <2>2. files' = [i \in 1..Len(page) |-> [row |-> page[i], aggregates |-> {}]]
    BY <1>5, <2>1 DEF Plain
  <2>3. files' \in [1..Len(page) -> File]
    BY <1>1, <1>5, <2>2 DEF File, Aggregate
  <2>4. files' \in Seq(File) /\ Len(files') = Len(page)
    BY <1>5, <2>3, IsASeq, LenProperties
  <2>5. \A i \in DOMAIN files' : files'[i].row \in scope'
    BY <1>1, <1>5, <2>2 DEF Query
  <2>6. ASSUME pc' = "answered" PROVE DecoratedWith(s)'
    <3>1. \A i \in DOMAIN page : page[i] \notin IsDir
      BY <1>2, <1>10, <2>6
    <3>2. \A i \in DOMAIN page : files'[i].row = page[i] /\ files'[i].aggregates = {}
      BY <1>5, <2>2
    <3>3. QED
      BY <1>6, <1>10, <2>4, <3>1, <3>2 DEF DecoratedWith
  <2>7. DecoratedAsOfOneMoment'
    BY <1>6, <1>8, <2>6 DEF DecoratedAsOfOneMoment
  <2>8. (pc = "attach" => files = Plain(found) /\ stats \in during /\ ~ NeedsDirStats(req))'
    BY <1>6, <1>10, <2>1 DEF Query
  <2>9. pc' # "query"
    BY <1>6
  <2>10. QED
    BY <1>7, <2>4, <2>5, <2>7, <2>8, <2>9 DEF SearchInv
<1>11. QED
  BY <1>9, <1>10

\* What the lookup leaves of a page without aggregates: the rows, with the stats
\* of its moment for directories.
LEMMA AttachedIs ==
    ASSUME TypeOK, files = Plain(found)
    PROVE  /\ Len(found) \in Nat /\ DOMAIN found = 1..Len(found) /\ DOMAIN files = 1..Len(found)
           /\ files \in [1..Len(found) -> File] /\ Attached(files) \in [1..Len(found) -> File]
           /\ \A i \in 1..Len(found) :
                /\ files[i].row = found[i] /\ files[i].aggregates = {}
                /\ Attached(files)[i].row = found[i]
                /\ Attached(files)[i].aggregates = IF found[i] \in IsDir THEN stats[found[i]] ELSE {}
<1>1. Len(found) \in Nat /\ DOMAIN found = 1..Len(found) /\ found \in [1..Len(found) -> Row]
  BY LenProperties DEF TypeOK
<1>2. files = [i \in 1..Len(found) |-> [row |-> found[i], aggregates |-> {}]]
  BY <1>1 DEF Plain
<1>3. Attached(files) = [i \in 1..Len(found) |->
          IF found[i] \in IsDir THEN [files[i] EXCEPT !.aggregates = stats[found[i]]] ELSE files[i]]
  BY <1>1, <1>2 DEF Attached
<1>4. ASSUME NEW i \in 1..Len(found)
      PROVE  /\ files[i] \in File /\ Attached(files)[i] \in File
             /\ files[i].row = found[i] /\ files[i].aggregates = {}
             /\ Attached(files)[i].row = found[i]
             /\ Attached(files)[i].aggregates = IF found[i] \in IsDir THEN stats[found[i]] ELSE {}
  <2>1. files[i] = [row |-> found[i], aggregates |-> {}] /\ found[i] \in Row
    BY <1>1, <1>2
  <2>2. stats[found[i]] \in Aggregate /\ {} \in Aggregate
    BY <2>1 DEF TypeOK, Aggregate
  <2>3. Attached(files)[i] = [row |-> found[i],
                              aggregates |-> IF found[i] \in IsDir THEN stats[found[i]] ELSE {}]
    <3>1. PICK f : f = files[i]
      OBVIOUS
    <3>2. \A x : [f EXCEPT !.aggregates = x] = [row |-> found[i], aggregates |-> x]
      BY <2>1, <3>1
    <3>3. Attached(files)[i] =
            IF found[i] \in IsDir THEN [f EXCEPT !.aggregates = stats[found[i]]] ELSE f
      BY <1>3, <3>1
    <3>4. QED
      BY <2>1, <3>1, <3>2, <3>3
  <2>4. QED
    BY <2>1, <2>2, <2>3 DEF File
<1>5. files \in [1..Len(found) -> File] /\ Attached(files) \in [1..Len(found) -> File]
  BY <1>2, <1>3, <1>4
<1>6. QED
  BY <1>1, <1>2, <1>4, <1>5

\* Whatever rows the lookup reached, the answer is the page decorated with the
\* stats of its moment; a lookup that ended reached all of them.
LEMMA LookupKeeps ==
    ASSUME SearchInv, SearchAssumption, pc = "attach", pc' = "answered",
           NEW lost \in SUBSET DOMAIN files, lost = {} \/ failed',
           files' = [i \in DOMAIN files |-> IF i \in lost THEN files[i] ELSE Attached(files)[i]],
           failed' \in BOOLEAN,
           UNCHANGED <<owner, stats, scope, req, answer, published, found, during>>
    PROVE  SearchInv'
<1>0. TypeOK /\ files = Plain(found) /\ stats \in during /\ ~ NeedsDirStats(req)
  BY DEF SearchInv
<1>1. /\ Len(found) \in Nat /\ DOMAIN found = 1..Len(found) /\ DOMAIN files = 1..Len(found)
      /\ files \in [1..Len(found) -> File] /\ Attached(files) \in [1..Len(found) -> File]
      /\ \A i \in 1..Len(found) :
           /\ files[i].row = found[i] /\ files[i].aggregates = {}
           /\ Attached(files)[i].row = found[i]
           /\ Attached(files)[i].aggregates = IF found[i] \in IsDir THEN stats[found[i]] ELSE {}
  BY <1>0, AttachedIs
<1>2. /\ files' \in [1..Len(found) -> File]
      /\ \A i \in 1..Len(found) :
           /\ files'[i].row = found[i]
           /\ \/ files'[i].aggregates = stats[found[i]]
              \/ files'[i].aggregates = {} /\ (failed' \/ found[i] \notin IsDir)
  BY <1>1
<1>3. files' \in Seq(File) /\ Len(files') = Len(found) /\ DOMAIN files' = 1..Len(found)
  BY <1>1, <1>2, IsASeq, LenProperties
<1>4. TypeOK'
  BY <1>0, <1>3 DEF TypeOK
<1>5. PICK s : s = stats
  OBVIOUS
<1>6. ~ NeedsDirStats(req)'
  BY <1>0 DEF NeedsDirStats
<1>7. DecoratedWith(s)'
  BY <1>1, <1>2, <1>3, <1>5, <1>6 DEF DecoratedWith
<1>8. DecoratedAsOfOneMoment'
  BY <1>0, <1>5, <1>7 DEF DecoratedAsOfOneMoment
<1>9. \A i \in DOMAIN files' : files'[i].row \in scope'
  BY <1>1, <1>2, <1>3 DEF SearchInv
<1>10. QED
  BY <1>4, <1>8, <1>9 DEF SearchInv

LEMMA AttachKeeps == ASSUME SearchInv, SearchAssumption, Attach PROVE SearchInv'
<1>0. TypeOK /\ files = Plain(found)
  BY DEF SearchInv, Attach
<1>1. DOMAIN Attached(files) = DOMAIN files
  BY DEF Attached
<1>2. files' = [i \in DOMAIN files |-> IF i \in {} THEN files[i] ELSE Attached(files)[i]]
  BY <1>1 DEF Attach, Attached
<1>3. failed' \in BOOLEAN
  BY <1>0 DEF Attach, requestVars, TypeOK
<1>4. QED
  BY <1>2, <1>3, LookupKeeps DEF Attach, requestVars

LEMMA AttachFailsKeeps == ASSUME SearchInv, SearchAssumption, AttachFails PROVE SearchInv'
  BY LookupKeeps DEF AttachFails

LEMMA OthersKeep ==
    ASSUME SearchInv, SearchAssumption, QueryFails \/ Publish \/ Done PROVE SearchInv'
<1>0. TypeOK
  BY DEF SearchInv
<1>1. <<>> \in Seq(Rule) /\ <<>> \in Seq(File) /\ <<>> \in Seq(Row) /\ DOMAIN <<>> = {}
  BY EmptySeq
<1>2. CASE QueryFails
  <2>1. TypeOK'
    BY <1>0, <1>1, <1>2 DEF QueryFails, requestVars, TypeOK
  <2>2. DecoratedAsOfOneMoment'
    BY <1>2 DEF QueryFails, DecoratedAsOfOneMoment
  <2>3. QED
    BY <1>1, <1>2, <2>1, <2>2 DEF QueryFails, SearchInv
<1>3. CASE Publish
  <2>1. stats' \in [Row -> Aggregate]
    BY <1>0, <1>3 DEF Publish, TypeOK, Stats, Aggregate
  <2>2. owner' \in [Row -> Owner \cup {NULL}]
    BY <1>0, <1>3 DEF Publish, TypeOK
  <2>3. published' \in Nat
    BY <1>0, <1>3 DEF Publish, TypeOK
  <2>4. during' \in SUBSET [Row -> Aggregate]
    BY <1>0, <1>3, <2>1 DEF Publish, TypeOK
  <2>5. TypeOK'
    BY <1>0, <1>3, <2>1, <2>2, <2>3, <2>4 DEF Publish, TypeOK
  <2>6. UNCHANGED <<scope, pc, req, files, answer, found, failed>>
    BY <1>3 DEF Publish
  <2>7. Plain(found)' = Plain(found) /\ NeedsDirStats(req)' = NeedsDirStats(req)
    BY <2>6 DEF Plain, NeedsDirStats
  <2>8. pc = "attach" => stats' \in during'
    BY <1>3 DEF Publish
  <2>9. DecoratedAsOfOneMoment'
    <3> SUFFICES ASSUME pc' = "answered", answer' = "200" PROVE \E s \in during' : DecoratedWith(s)'
      BY DEF DecoratedAsOfOneMoment
    <3>1. pc = "answered" /\ answer = "200" /\ during' = during
      BY <1>3, <2>6 DEF Publish
    <3>2. PICK s \in during : DecoratedWith(s)
      BY <3>1 DEF SearchInv, DecoratedAsOfOneMoment
    <3>3. TooLarge(s)' = TooLarge(s)
      BY DEF TooLarge
    <3>4. DecoratedWith(s)'
      BY <2>6, <2>7, <3>2, <3>3 DEF DecoratedWith
    <3>5. QED
      BY <3>1, <3>4
  <2>10. QED
    BY <2>5, <2>6, <2>7, <2>8, <2>9 DEF SearchInv
<1>4. CASE Done
  <2>1. /\ req' \in [rules : Seq(Rule), limit : Nat, byDir : BOOLEAN]
        /\ files' \in Seq(File) /\ found' \in Seq(Row) /\ during' \in SUBSET [Row -> Aggregate]
    BY <1>1, <1>4 DEF Done
  <2>2. TypeOK'
    BY <1>0, <1>4, <2>1 DEF Done, TypeOK
  <2>3. QED
    BY <1>1, <1>4, <2>2 DEF Done, SearchInv, DecoratedAsOfOneMoment
<1>5. QED
  BY <1>2, <1>3, <1>4

LEMMA StutterKeeps == ASSUME SearchInv, UNCHANGED searchVars PROVE SearchInv'
<1>1. TypeOK'
  BY DEF searchVars, SearchInv, TypeOK
<1>2. Plain(found)' = Plain(found) /\ NeedsDirStats(req)' = NeedsDirStats(req)
  BY DEF searchVars, Plain, NeedsDirStats
<1>3. ASSUME NEW s PROVE DecoratedWith(s)' = DecoratedWith(s)
  BY <1>2 DEF searchVars, DecoratedWith, TooLarge
<1>4. DecoratedAsOfOneMoment'
  BY <1>3 DEF searchVars, SearchInv, DecoratedAsOfOneMoment
<1>5. QED
  BY <1>1, <1>2, <1>4 DEF searchVars, SearchInv

\* SearchInv holds throughout.
THEOREM InductiveSearch == SearchSpec => []SearchInv
<1>1. SearchInit => SearchInv
  BY InitSearch, SearchAssumption
<1>2. SearchInv /\ [SearchNext]_searchVars => SearchInv'
  <2>1. CASE UNCHANGED searchVars
    BY <2>1, StutterKeeps
  <2>2. QED
    BY <2>1, ReceiveKeeps, QueryKeeps, AttachKeeps, AttachFailsKeeps, OthersKeep, SearchAssumption
       DEF SearchNext
<1>3. QED
  BY <1>1, <1>2, PTL DEF SearchSpec

----------------------------------------------------------------------------
(* What the run checks                                                     *)

\* A restricted user's search returns rows of the granted subtrees only,
\* whatever the rules and their connectors.
THEOREM SearchIsScoped == SearchSpec => []SearchStaysInScope
<1>1. SearchInv => SearchStaysInScope
  BY DEF SearchInv, SearchStaysInScope, Results
<1>2. QED
  BY <1>1, InductiveSearch, PTL

\* A condition is TRUE, FALSE or NULL, and does not depend on the negation.
LEMMA CondOfRule ==
    ASSUME TypeOK, NEW rule \in Rule, rule.field # "unknown", NEW negate \in BOOLEAN,
           NEW row \in Row
    PROVE  /\ [rule EXCEPT !.negate = negate].negate = negate
           /\ Cond([rule EXCEPT !.negate = negate], row) = Cond(rule, row)
           /\ Cond(rule, row) \in {"T", "F", NULL}
<1>1. rule.field \in {"path", "user", "dir_file_count"}
  BY DEF Rule
<1>2. PICK other : other = [rule EXCEPT !.negate = negate]
  OBVIOUS
<1>3. other.field = rule.field /\ other.match = rule.match /\ other.negate = negate
  BY <1>2 DEF Rule
<1>4. Cond(other, row) = Cond(rule, row)
  BY <1>3 DEF Cond
<1>5. Cond(rule, row) \in {"T", "F", NULL}
  BY <1>1 DEF Cond
<1>6. QED
  BY <1>2, <1>3, <1>4, <1>5

\* The clause of one rule is the rule's.
LEMMA ClauseOfOne ==
    ASSUME NEW rule, NEW row
    PROVE  Clause(<<rule>>, row) = Or3("F", Predicate(rule, row))
<1> DEFINE base == [either |-> "F", all |-> Predicate(rule, row)]
           Step(acc, r) == IF r.connector = "OR"
                           THEN [either |-> Or3(acc.either, acc.all), all |-> Predicate(r, row)]
                           ELSE [acc EXCEPT !.all = And3(@, Predicate(r, row))]
           Up(f, s) == [x \in SUBSET DOMAIN s |->
                          IF x = {} THEN base ELSE Step(f[x \ {Max(x)}], s[Max(x)])]
           it == [x \in SUBSET {} |-> base]
<1>1. Tail(<<rule>>) = <<>> /\ <<rule>>[1] = rule /\ DOMAIN <<>> = {}
  OBVIOUS
<1>2. it = Up(it, <<>>)
  BY <1>1
<1>3. \A f : f = Up(f, <<>>) => f[{}] = base
  BY <1>1
<1>4. PICK f : /\ f = Up(f, <<>>)
               /\ Clause(<<rule>>, row) = Or3(f[{}].either, f[{}].all)
  <2>1. Clause(<<rule>>, row) =
          LET whole == (CHOOSE f : f = Up(f, Tail(<<rule>>)))[DOMAIN Tail(<<rule>>)]
          IN  Or3(whole.either, whole.all)
    BY <1>1 DEF Clause, FoldLeft, MapThenFoldSet
  <2> HIDE DEF Up, it
  <2>2. QED
    BY <1>1, <1>2, <2>1
<1>5. f[{}] = base
  <2> HIDE DEF Up, base
  <2>1. QED
    BY <1>3, <1>4
<1>6. QED
  BY <1>4, <1>5

\* NOT turns what a rule finds into its complement, also where a name or stats
\* are missing.
THEOREM NegationIsComplement == SearchSpec => []NotIsComplement
<1>1. ASSUME SearchInv PROVE NotIsComplement
  <2> SUFFICES ASSUME pc = "query", Len(req.rules) = 1
               PROVE  LET rule == req.rules[1]
                          Found(negate) ==
                            {row \in scope : Matches(<<[rule EXCEPT !.negate = negate]>>, row)}
                      IN  Found(TRUE) = scope \ Found(FALSE)
    BY DEF NotIsComplement
  <2>1. PICK rule : rule = req.rules[1]
    OBVIOUS
  <2>2. rule \in Rule /\ rule.field # "unknown" /\ TypeOK /\ scope \subseteq Row
    BY <1>1, <2>1, ElementOfSeq, LenProperties DEF SearchInv, TypeOK
  <2>3. ASSUME NEW row \in scope, NEW negate \in BOOLEAN
        PROVE  Matches(<<[rule EXCEPT !.negate = negate]>>, row)
                 <=> (IF negate THEN Cond(rule, row) # "T" ELSE Cond(rule, row) = "T")
    <3>1. PICK other : other = [rule EXCEPT !.negate = negate]
      OBVIOUS
    <3>2. /\ other.negate = negate
          /\ Cond(other, row) = Cond(rule, row)
          /\ Cond(rule, row) \in {"T", "F", NULL}
      BY <2>2, <3>1, CondOfRule
    <3>3. Clause(<<other>>, row) = Or3("F", Predicate(other, row))
      BY ClauseOfOne
    <3>4. Predicate(other, row) =
            IF negate THEN IF Cond(rule, row) = "T" THEN "F" ELSE "T" ELSE Cond(rule, row)
      BY <3>2 DEF Predicate
    <3>5. Clause(<<other>>, row) = "T" <=>
            (IF negate THEN Cond(rule, row) # "T" ELSE Cond(rule, row) = "T")
      BY <3>2, <3>3, <3>4 DEF Or3, NULL
    <3>6. QED
      BY <3>1, <3>5 DEF Matches
  <2>4. QED
    BY <2>1, <2>3
<1>2. QED
  BY <1>1, InductiveSearch, PTL

\* For any number of rows, rules and publications, and any counts: the rows of a
\* statement are answered with the aggregates of one moment of the request, less
\* those of a join that are too large to be read; a failed lookup loses no row.
THEOREM DecorationIsOfOneMoment == SearchSpec => []DecoratedAsOfOneMoment
<1>1. SearchInv => DecoratedAsOfOneMoment
  BY DEF SearchInv
<1>2. QED
  BY <1>1, InductiveSearch, PTL
=============================================================================
