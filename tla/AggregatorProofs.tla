-------------------------- MODULE AggregatorProofs -------------------------
(***************************************************************************)
(* Proofs about fs_aggregator, for every tree, index, number of runs,      *)
(* order of the rows and failure: what it publishes are the totals that    *)
(* StatsContract promises.                                                 *)
(***************************************************************************)
EXTENDS Aggregator, FiniteSetTheorems, TLAPS

Times(i, S) == {i[p].time : p \in S}
IsLeast(t, T) == t \in T /\ \A u \in T : t <= u
IsGreatest(t, T) == t \in T /\ \A u \in T : u <= t

\* t are the totals of the rows S of the index i: of a directory, of an owner.
DirIs(t, i, S) ==
    /\ t \in Totals
    /\ t.size = Contract!SumOfSizes(i, S) /\ t.count = Cardinality(S)
    /\ IsLeast(t.first, Times(i, S)) /\ IsGreatest(t.last, Times(i, S))

OwnerIs(t, i, S) ==
    /\ t \in OwnerTotals
    /\ t.size = Contract!SumOfSizes(i, S) /\ t.count = Cardinality(S)

\* The rows among Q below a directory, and those of an owner.
Under(Q, d) == {p \in Q : d \in Anc[p]}
Of(i, Q, o) == {p \in Q : o \in Owners(i[p])}

\* The maps hold the totals of the rows Q: an entry for each directory that
\* has one below it, and for each owner of one.
DirsAre(agg, i, Q) ==
    /\ DOMAIN agg = UNION {Ancestors(p) : p \in Q}
    /\ agg = [d \in DOMAIN agg |-> agg[d]]
    /\ \A d \in DOMAIN agg : DirIs(agg[d], i, Under(Q, d))

OwnersAre(agg, i, Q) ==
    /\ DOMAIN agg = UNION {Owners(i[p]) : p \in Q}
    /\ agg = [o \in DOMAIN agg |-> agg[o]]
    /\ \A o \in DOMAIN agg : OwnerIs(agg[o], i, Of(i, Q, o))

\* The rows of the portal that have been folded.
Folded == Contract!Counted(snapshot) \ rows

\* Stages in which the maps hold what the portal returned, before, while and
\* after the tables are copied.
Streamed == {"fold", "truncate", "copy_dirs", "copy_users", "commit"}

FoldInv ==
    /\ pc \notin Streamed =>
         aggregates = NoStats /\ user_aggregates = NoStats
    /\ pc \in Streamed =>
         /\ rows \subseteq Contract!Counted(snapshot)
         /\ pc # "fold" => rows = {}
         /\ DirsAre(aggregates, snapshot, Folded)
         /\ OwnersAre(user_aggregates, snapshot, Folded)
         /\ processed = Cardinality(Folded)
    /\ pc = "success" => processed = Cardinality(Contract!Counted(snapshot))

\* What the transaction holds in the tables it has truncated.
TablesInv ==
    /\ pc \in {"copy_dirs", "copy_users"} => new_user_stats = NoStats
    /\ pc = "copy_dirs" => new_dir_stats = NoStats
    /\ pc \in {"copy_users", "commit"} => new_dir_stats = aggregates
    /\ pc = "commit" => new_user_stats = user_aggregates

\* The run is committed once its transaction is, and no run is before it started.
SessionInv ==
    /\ \A s \in committed : s <= run
    /\ pc \notin {"idle", "success"} => run \notin committed
    /\ pc = "success" => run \in committed
    /\ \A s \in Runs : status[s] = "success" => s \in committed

IInv == TypeOK /\ FoldInv /\ TablesInv /\ SessionInv

----------------------------------------------------------------------------
(***************************************************************************)
(* Sums of sizes.                                                          *)
(***************************************************************************)

\* The operators of the libraries are the same in both specifications.
LEMMA SameOperators ==
    ASSUME NEW S
    PROVE  /\ Contract!Cardinality(S) = Cardinality(S)
           /\ Contract!Min(S) = Min(S) /\ Contract!Max(S) = Max(S)
BY DEF Contract!Cardinality, Cardinality, Contract!Min, Min, Contract!Max, Max

\* A row that is counted is a row, with a size and a time.
LEMMA CountedIsRow ==
    ASSUME NEW i \in Contract!Index, NEW p \in Contract!Counted(i)
    PROVE  /\ p \in Path /\ i[p] \in Row /\ i[p].size \in 0..MaxSize /\ i[p].size \in Nat
           /\ i[p].time \in Nat
BY RowAssumption DEF Contract!Index, Contract!Counted

\* The capped sum.
LEMMA CappedIs ==
    ASSUME NEW n \in Nat
    PROVE  Contract!Capped(n) = IF n > MaxSize THEN MaxSize ELSE n
<1>1. MaxSize \in Nat
  BY RowAssumption
<1>2. PICK T : T = {n, MaxSize}
  OBVIOUS
<1>3. PICK m : m = IF n > MaxSize THEN MaxSize ELSE n
  OBVIOUS
<1>4. m \in T /\ \A y \in T : m =< y
  BY <1>1, <1>2, <1>3
<1>5. \A x \in T : (\A y \in T : x =< y) => x = m
  BY <1>1, <1>2, <1>3
<1>6. Min(T) = m
  BY <1>4, <1>5 DEF Min
<1>7. QED
  BY <1>2, <1>3, <1>6, SameOperators DEF Contract!Capped

\* The bytes of a set of rows are as many as those of one row and of the rest.
LEMMA BytesGrow ==
    ASSUME NEW i \in Contract!Index, NEW S \in SUBSET Contract!Counted(i),
           NEW p \in Contract!Counted(i), p \notin S
    PROVE  /\ Cardinality(Contract!Bytes(i, S)) \in Nat
           /\ Cardinality(Contract!Bytes(i, S \cup {p}))
                = Cardinality(Contract!Bytes(i, S)) + i[p].size
<1>1. PICK B : B = Contract!Bytes(i, S)
  OBVIOUS
<1>2. PICK C : C = {p} \X (1..i[p].size)
  OBVIOUS
<1>3. i[p].size \in Nat /\ MaxSize \in Nat
  BY CountedIsRow, RowAssumption
<1>4. IsFiniteSet(B)
  <2>1. PICK I : I = 1..MaxSize
    OBVIOUS
  <2>2. IsFiniteSet(I)
    BY <1>3, <2>1, FS_Interval
  <2>3. IsFiniteSet(S)
    <3>1. S \subseteq Path
      BY DEF Contract!Counted
    <3>2. QED
      BY <3>1, FS_Subset, TreeAssumption
  <2>4. IsFiniteSet(S \X I)
    BY <2>2, <2>3, FS_Product
  <2>5. B \subseteq S \X I
    <3>1. \A q \in S : i[q].size \in 0..MaxSize
      BY CountedIsRow
    <3>2. \A q \in S : 1..i[q].size \subseteq I
      BY <1>3, <2>1, <3>1
    <3>3. QED
      BY <1>1, <3>2 DEF Contract!Bytes
  <2>6. QED
    BY <2>4, <2>5, FS_Subset
<1>5. IsFiniteSet(C) /\ Cardinality(C) = i[p].size
  <2>1. PICK I : I = 1..i[p].size
    OBVIOUS
  <2>2. IsFiniteSet(I) /\ Cardinality(I) = i[p].size
    <3>1. 1 \in Int /\ i[p].size \in Int
      BY <1>3
    <3>2. /\ IsFiniteSet(I)
          /\ Cardinality(I) = IF 1 > i[p].size THEN 0 ELSE i[p].size - 1 + 1
      BY <2>1, <3>1, FS_Interval
    <3>3. QED
      BY <1>3, <3>2
  <2>3. IsFiniteSet({p}) /\ Cardinality({p}) = 1
    BY FS_Singleton
  <2>4. IsFiniteSet({p} \X I) /\ Cardinality({p} \X I) = 1 * i[p].size
    BY <2>2, <2>3, FS_Product
  <2>5. QED
    BY <1>2, <1>3, <2>1, <2>4
<1>6. B \cap C = {}
  BY <1>1, <1>2 DEF Contract!Bytes
<1>7. Contract!Bytes(i, S \cup {p}) = B \cup C
  BY <1>1, <1>2 DEF Contract!Bytes
<1>8. Cardinality(B \cup C) = Cardinality(B) + Cardinality(C) - Cardinality(B \cap C)
  BY <1>4, <1>5, FS_Union
<1>9. Cardinality(B) \in Nat /\ Cardinality(B \cap C) = 0
  BY <1>4, <1>6, FS_CardinalityType, FS_EmptySet
<1>10. Cardinality(B \cup C) = Cardinality(B) + i[p].size
  BY <1>3, <1>5, <1>8, <1>9
<1>11. QED
  BY <1>1, <1>7, <1>9, <1>10

\* Adding up one row after the other and stopping at MaxSize gives the capped
\* sum of all, in whatever order.
LEMMA SumGrows ==
    ASSUME NEW i \in Contract!Index, NEW S \in SUBSET Contract!Counted(i),
           NEW p \in Contract!Counted(i), p \notin S
    PROVE  Contract!SumOfSizes(i, S \cup {p}) = SaturatingAdd(Contract!SumOfSizes(i, S), i[p].size)
<1>1. PICK b : b = Cardinality(Contract!Bytes(i, S))
  OBVIOUS
<1>2. b \in Nat /\ Cardinality(Contract!Bytes(i, S \cup {p})) = b + i[p].size
  BY <1>1, BytesGrow
<1>3. i[p].size \in Nat /\ i[p].size <= MaxSize /\ MaxSize \in Nat
  BY CountedIsRow, RowAssumption
<1>4. /\ Contract!SumOfSizes(i, S) = IF b > MaxSize THEN MaxSize ELSE b
      /\ Contract!SumOfSizes(i, S \cup {p})
           = IF b + i[p].size > MaxSize THEN MaxSize ELSE b + i[p].size
  BY <1>1, <1>2, <1>3, CappedIs, SameOperators DEF Contract!SumOfSizes
<1>5. QED
  BY <1>2, <1>3, <1>4 DEF SaturatingAdd

\* The sum over one row, and over none.
LEMMA SumStarts ==
    ASSUME NEW i \in Contract!Index, NEW p \in Contract!Counted(i)
    PROVE  Contract!SumOfSizes(i, {p}) = i[p].size
<1>1. Cardinality(Contract!Bytes(i, {})) = 0
  BY FS_EmptySet DEF Contract!Bytes
<1>2. i[p].size \in Nat /\ i[p].size <= MaxSize /\ MaxSize \in Nat
  BY CountedIsRow, RowAssumption
<1>3. Contract!SumOfSizes(i, {}) = 0
  BY <1>1, <1>2, CappedIs, SameOperators DEF Contract!SumOfSizes
<1>4. Contract!SumOfSizes(i, {} \cup {p}) = SaturatingAdd(0, i[p].size)
  BY <1>3, SumGrows
<1>5. {} \cup {p} = {p}
  OBVIOUS
<1>6. QED
  BY <1>2, <1>4, <1>5 DEF SaturatingAdd

\* The number of rows.
LEMMA CountGrows ==
    ASSUME NEW i \in Contract!Index, NEW S \in SUBSET Contract!Counted(i)
    PROVE  /\ Cardinality(S) \in Nat
           /\ \A p \in Contract!Counted(i) \ S : Cardinality(S \cup {p}) = Cardinality(S) + 1
<1>1. IsFiniteSet(S)
  <2>1. S \subseteq Path
    BY DEF Contract!Counted
  <2>2. QED
    BY <2>1, FS_Subset, TreeAssumption
<1>2. QED
  BY <1>1, FS_CardinalityType, FS_AddElement

\* The lesser and the greater of two numbers.
LEMMA OfTwo ==
    ASSUME NEW m \in Nat, NEW n \in Nat
    PROVE  /\ Min({m, n}) = IF m <= n THEN m ELSE n
           /\ Max({m, n}) = IF m <= n THEN n ELSE m
<1>1. PICK T : T = {m, n}
  OBVIOUS
<1>2. PICK a : a = IF m <= n THEN m ELSE n
  OBVIOUS
<1>3. PICK b : b = IF m <= n THEN n ELSE m
  OBVIOUS
<1>4. /\ a \in T /\ \A y \in T : a =< y
      /\ b \in T /\ \A y \in T : b >= y
  BY <1>1, <1>2, <1>3
<1>5. /\ \A x \in T : (\A y \in T : x =< y) => x = a
      /\ \A x \in T : (\A y \in T : x >= y) => x = b
  BY <1>1, <1>2, <1>3
<1>6. Min(T) = a /\ Max(T) = b
  BY <1>4, <1>5 DEF Min, Max
<1>7. QED
  BY <1>1, <1>2, <1>3, <1>6

\* The least and the greatest element of a set are its Min and its Max.
LEMMA ExtremesAre ==
    ASSUME NEW T \in SUBSET Nat, NEW a, NEW b, IsLeast(a, T), IsGreatest(b, T)
    PROVE  Min(T) = a /\ Max(T) = b
<1>1. /\ a \in T /\ \A y \in T : a =< y
      /\ b \in T /\ \A y \in T : b >= y
  BY DEF IsLeast, IsGreatest
<1>2. /\ \A x \in T : (\A y \in T : x =< y) => x = a
      /\ \A x \in T : (\A y \in T : x >= y) => x = b
  BY <1>1
<1>3. QED
  BY <1>1, <1>2 DEF Min, Max

----------------------------------------------------------------------------
(***************************************************************************)
(* One row folded into the maps.                                           *)
(***************************************************************************)

\* A directory's totals with one more row, and those of its first.
LEMMA DirGrows ==
    ASSUME NEW i \in Contract!Index, NEW S \in SUBSET Contract!Counted(i),
           NEW p \in Contract!Counted(i) \ S, NEW t, DirIs(t, i, S)
    PROVE  DirIs([size  |-> SaturatingAdd(t.size, i[p].size),
                  first |-> Min({t.first, i[p].time}),
                  last  |-> Max({t.last, i[p].time}),
                  count |-> t.count + 1], i, S \cup {p})
<1>1. /\ i[p].size \in Nat /\ i[p].time \in Nat /\ MaxSize \in Nat
      /\ \A q \in S : i[q].time \in Nat
  BY CountedIsRow, RowAssumption
<1>2. /\ t.size \in 0..MaxSize /\ t.first \in Nat /\ t.last \in Nat /\ t.count \in Nat
      /\ t.size = Contract!SumOfSizes(i, S) /\ t.count = Cardinality(S)
      /\ IsLeast(t.first, Times(i, S)) /\ IsGreatest(t.last, Times(i, S))
  BY DEF DirIs, Totals
<1>3. Times(i, S \cup {p}) = Times(i, S) \cup {i[p].time} /\ Times(i, S) \subseteq Nat
  BY <1>1 DEF Times
<1>4. PICK f, l : /\ f = IF t.first <= i[p].time THEN t.first ELSE i[p].time
                  /\ l = IF t.last <= i[p].time THEN i[p].time ELSE t.last
  OBVIOUS
<1>5. Min({t.first, i[p].time}) = f /\ Max({t.last, i[p].time}) = l
  BY <1>1, <1>2, <1>4, OfTwo
<1>6. /\ f \in Nat /\ l \in Nat
      /\ IsLeast(f, Times(i, S \cup {p})) /\ IsGreatest(l, Times(i, S \cup {p}))
  <2>1. PICK u : u = i[p].time
    OBVIOUS
  <2>2. PICK T : T = Times(i, S)
    OBVIOUS
  <2>3. T \subseteq Nat /\ u \in Nat /\ Times(i, S \cup {p}) = T \cup {u}
    BY <1>1, <1>3, <2>1, <2>2
  <2>4. /\ t.first \in T /\ \A v \in T : t.first <= v
        /\ t.last \in T /\ \A v \in T : v <= t.last
    BY <1>2, <2>2 DEF IsLeast, IsGreatest
  <2>5. /\ f \in Nat /\ f \in T \cup {u} /\ f <= u /\ f <= t.first
        /\ l \in Nat /\ l \in T \cup {u} /\ u <= l /\ t.last <= l
    BY <1>2, <1>4, <2>1, <2>3, <2>4
  <2>6. \A v \in T : f <= v /\ v <= l
    <3> SUFFICES ASSUME NEW v \in T PROVE f <= v /\ v <= l
      OBVIOUS
    <3>1. v \in Nat /\ t.first <= v /\ v <= t.last
      BY <2>3, <2>4
    <3>2. QED
      BY <1>2, <2>5, <3>1
  <2>7. QED
    BY <2>3, <2>5, <2>6 DEF IsLeast, IsGreatest
<1>7. PICK z : z = SaturatingAdd(t.size, i[p].size)
  OBVIOUS
<1>8. z \in 0..MaxSize /\ z = Contract!SumOfSizes(i, S \cup {p})
  <2>1. z \in 0..MaxSize
    BY <1>1, <1>2, <1>7 DEF SaturatingAdd
  <2>2. QED
    BY <1>2, <1>7, <2>1, SumGrows
<1>9. t.count + 1 = Cardinality(S \cup {p}) /\ t.count + 1 \in Nat
  BY <1>2, CountGrows
<1>10. QED
  BY <1>5, <1>6, <1>7, <1>8, <1>9 DEF DirIs, Totals

LEMMA DirStarts ==
    ASSUME NEW i \in Contract!Index, NEW p \in Contract!Counted(i)
    PROVE  DirIs([size |-> i[p].size, first |-> i[p].time, last |-> i[p].time, count |-> 1],
                 i, {p})
<1>1. i[p].size \in 0..MaxSize /\ i[p].time \in Nat
  BY CountedIsRow
<1>2. Contract!SumOfSizes(i, {p}) = i[p].size
  BY SumStarts
<1>3. Cardinality({p}) = 1
  BY FS_Singleton
<1>4. IsLeast(i[p].time, Times(i, {p})) /\ IsGreatest(i[p].time, Times(i, {p}))
  BY <1>1 DEF IsLeast, IsGreatest, Times
<1>5. QED
  BY <1>1, <1>2, <1>3, <1>4 DEF DirIs, Totals

\* The same for an owner.
LEMMA OwnerGrows ==
    ASSUME NEW i \in Contract!Index, NEW S \in SUBSET Contract!Counted(i),
           NEW p \in Contract!Counted(i) \ S, NEW t, OwnerIs(t, i, S)
    PROVE  OwnerIs([size |-> SaturatingAdd(t.size, i[p].size), count |-> t.count + 1],
                   i, S \cup {p})
<1>1. i[p].size \in Nat /\ MaxSize \in Nat
  BY CountedIsRow, RowAssumption
<1>2. /\ t.size \in 0..MaxSize /\ t.count \in Nat
      /\ t.size = Contract!SumOfSizes(i, S) /\ t.count = Cardinality(S)
  BY DEF OwnerIs, OwnerTotals
<1>3. PICK z : z = SaturatingAdd(t.size, i[p].size)
  OBVIOUS
<1>4. z \in 0..MaxSize /\ z = Contract!SumOfSizes(i, S \cup {p})
  <2>1. z \in 0..MaxSize
    BY <1>1, <1>2, <1>3 DEF SaturatingAdd
  <2>2. QED
    BY <1>2, <1>3, <2>1, SumGrows
<1>5. t.count + 1 = Cardinality(S \cup {p}) /\ t.count + 1 \in Nat
  BY <1>2, CountGrows
<1>6. QED
  BY <1>3, <1>4, <1>5 DEF OwnerIs, OwnerTotals

LEMMA OwnerStarts ==
    ASSUME NEW i \in Contract!Index, NEW p \in Contract!Counted(i)
    PROVE  OwnerIs([size |-> i[p].size, count |-> 1], i, {p})
<1>1. i[p].size \in 0..MaxSize
  BY CountedIsRow
<1>2. Contract!SumOfSizes(i, {p}) = i[p].size
  BY SumStarts
<1>3. Cardinality({p}) = 1
  BY FS_Singleton
<1>4. QED
  BY <1>1, <1>2, <1>3 DEF OwnerIs, OwnerTotals

\* The map of the directories, with the row p folded into all above it.
LEMMA DirsGrow ==
    ASSUME NEW i \in Contract!Index, NEW Q \in SUBSET Contract!Counted(i),
           NEW p \in Contract!Counted(i) \ Q, NEW agg, DirsAre(agg, i, Q),
           NEW new, new = [d \in DOMAIN agg \cup Ancestors(p) |->
                             IF d \in Ancestors(p) THEN FoldDir(agg, d, i[p]) ELSE agg[d]]
    PROVE  DirsAre(new, i, Q \cup {p})
<1>1. DOMAIN new = UNION {Ancestors(q) : q \in Q \cup {p}}
  BY DEF DirsAre
<1>2. new = [d \in DOMAIN new |-> new[d]]
  OBVIOUS
<1>3. ASSUME NEW d \in DOMAIN new
      PROVE  DirIs(new[d], i, Under(Q \cup {p}, d))
  <2>1. PICK S : S = Under(Q, d)
    OBVIOUS
  <2>2. S \in SUBSET Contract!Counted(i) /\ p \in Contract!Counted(i) \ S
    BY <2>1 DEF Under
  <2>3. CASE d \in Ancestors(p) /\ d \in DOMAIN agg
    <3>1. Under(Q \cup {p}, d) = S \cup {p}
      BY <2>1, <2>3 DEF Under, Ancestors
    <3>2. DirIs(agg[d], i, S)
      BY <2>1, <2>3 DEF DirsAre
    <3>3. new[d] = [size  |-> SaturatingAdd(agg[d].size, i[p].size),
                    first |-> Min({agg[d].first, i[p].time}),
                    last  |-> Max({agg[d].last, i[p].time}),
                    count |-> agg[d].count + 1]
      BY <2>3 DEF FoldDir
    <3>4. PICK old : old = agg[d]
      OBVIOUS
    <3>5. DirIs(old, i, S)
      BY <3>2, <3>4
    <3>6. DirIs([size  |-> SaturatingAdd(old.size, i[p].size),
                 first |-> Min({old.first, i[p].time}),
                 last  |-> Max({old.last, i[p].time}),
                 count |-> old.count + 1], i, S \cup {p})
      BY <2>2, <3>5, DirGrows
    <3>7. QED
      BY <3>1, <3>3, <3>4, <3>6
  <2>4. CASE d \in Ancestors(p) /\ d \notin DOMAIN agg
    <3>1. S = {}
      BY <2>1, <2>4 DEF Under, DirsAre, Ancestors
    <3>2. Under(Q \cup {p}, d) = {p}
      BY <2>1, <2>4, <3>1 DEF Under, Ancestors
    <3>3. new[d] = [size |-> i[p].size, first |-> i[p].time, last |-> i[p].time, count |-> 1]
      BY <2>4 DEF FoldDir
    <3>4. QED
      BY <3>2, <3>3, DirStarts
  <2>5. CASE d \notin Ancestors(p)
    <3>1. d \in DOMAIN agg /\ new[d] = agg[d]
      BY <2>5
    <3>2. d # Slash
      BY <3>1 DEF DirsAre, Ancestors
    <3>3. Under(Q \cup {p}, d) = S
      BY <2>1, <2>5, <3>2 DEF Under, Ancestors
    <3>4. QED
      BY <2>1, <3>1, <3>3 DEF DirsAre
  <2>6. QED
    BY <2>3, <2>4, <2>5
<1>4. QED
  BY <1>1, <1>2, <1>3 DEF DirsAre

\* The map of the owners, with the row p folded into its user and its group.
LEMMA OwnersGrow ==
    ASSUME NEW i \in Contract!Index, NEW Q \in SUBSET Contract!Counted(i),
           NEW p \in Contract!Counted(i) \ Q, NEW agg, OwnersAre(agg, i, Q),
           NEW new, new = [o \in DOMAIN agg \cup Owners(i[p]) |->
                             IF o \in Owners(i[p]) THEN FoldOwner(agg, o, i[p]) ELSE agg[o]]
    PROVE  OwnersAre(new, i, Q \cup {p})
<1>1. DOMAIN new = UNION {Owners(i[q]) : q \in Q \cup {p}}
  BY DEF OwnersAre
<1>2. new = [o \in DOMAIN new |-> new[o]]
  OBVIOUS
<1>3. ASSUME NEW o \in DOMAIN new
      PROVE  OwnerIs(new[o], i, Of(i, Q \cup {p}, o))
  <2>1. PICK S : S = Of(i, Q, o)
    OBVIOUS
  <2>2. S \in SUBSET Contract!Counted(i) /\ p \in Contract!Counted(i) \ S
    BY <2>1 DEF Of
  <2>3. CASE o \in Owners(i[p]) /\ o \in DOMAIN agg
    <3>1. Of(i, Q \cup {p}, o) = S \cup {p}
      BY <2>1, <2>3 DEF Of
    <3>2. OwnerIs(agg[o], i, S)
      BY <2>1, <2>3 DEF OwnersAre
    <3>3. new[o] = [size |-> SaturatingAdd(agg[o].size, i[p].size), count |-> agg[o].count + 1]
      BY <2>3 DEF FoldOwner
    <3>4. PICK old : old = agg[o]
      OBVIOUS
    <3>5. OwnerIs(old, i, S)
      BY <3>2, <3>4
    <3>6. OwnerIs([size |-> SaturatingAdd(old.size, i[p].size), count |-> old.count + 1],
                  i, S \cup {p})
      BY <2>2, <3>5, OwnerGrows
    <3>7. QED
      BY <3>1, <3>3, <3>4, <3>6
  <2>4. CASE o \in Owners(i[p]) /\ o \notin DOMAIN agg
    <3>1. S = {}
      BY <2>1, <2>4 DEF Of, OwnersAre
    <3>2. Of(i, Q \cup {p}, o) = {p}
      BY <2>1, <2>4, <3>1 DEF Of
    <3>3. new[o] = [size |-> i[p].size, count |-> 1]
      BY <2>4 DEF FoldOwner
    <3>4. QED
      BY <3>2, <3>3, OwnerStarts
  <2>5. CASE o \notin Owners(i[p])
    <3>1. o \in DOMAIN agg /\ new[o] = agg[o]
      BY <2>5
    <3>2. Of(i, Q \cup {p}, o) = S
      BY <2>1, <2>5 DEF Of
    <3>3. QED
      BY <2>1, <3>1, <3>2 DEF OwnersAre
  <2>6. QED
    BY <2>3, <2>4, <2>5
<1>4. QED
  BY <1>1, <1>2, <1>3 DEF OwnersAre

\* Maps of all counted rows are the tables the contract promises.
LEMMA DirsPublished ==
    ASSUME NEW i \in Contract!Index, NEW agg, DirsAre(agg, i, Contract!Counted(i))
    PROVE  agg = Contract!DirTotals(i)
<1>1. PICK D : D = {d \in Path \ {Slash} : Contract!Below(i, d) # {}}
  OBVIOUS
<1>2. \A d : Contract!Below(i, d) = Under(Contract!Counted(i), d)
  BY DEF Contract!Below, Under
<1>3. DOMAIN agg = D
  BY <1>1, <1>2, TreeAssumption DEF DirsAre, Under, Ancestors, Contract!Counted
<1>4. ASSUME NEW d \in D
      PROVE  agg[d] = [size  |-> Contract!SumOfSizes(i, Contract!Below(i, d)),
                       first |-> Contract!Min({i[p].time : p \in Contract!Below(i, d)}),
                       last  |-> Contract!Max({i[p].time : p \in Contract!Below(i, d)}),
                       count |-> Contract!Cardinality(Contract!Below(i, d))]
  <2>1. PICK S : S = Contract!Below(i, d)
    OBVIOUS
  <2>2. DirIs(agg[d], i, S)
    BY <1>2, <1>3, <2>1 DEF DirsAre
  <2>3. Times(i, S) \in SUBSET Nat
    BY <2>1, CountedIsRow DEF Times, Contract!Below
  <2>4. agg[d].first = Min(Times(i, S)) /\ agg[d].last = Max(Times(i, S))
    BY <2>2, <2>3, ExtremesAre DEF DirIs
  <2>5. agg[d] \in Totals /\ agg[d].size = Contract!SumOfSizes(i, S)
        /\ agg[d].count = Cardinality(S)
    BY <2>2 DEF DirIs
  <2>6. /\ Contract!Min(Times(i, S)) = Min(Times(i, S))
        /\ Contract!Max(Times(i, S)) = Max(Times(i, S))
        /\ Contract!Cardinality(S) = Cardinality(S)
    BY SameOperators
  <2>7. agg[d] = [size  |-> Contract!SumOfSizes(i, S), first |-> Contract!Min(Times(i, S)),
                  last  |-> Contract!Max(Times(i, S)), count |-> Contract!Cardinality(S)]
    BY <2>4, <2>5, <2>6 DEF Totals
  <2>8. QED
    BY <2>1, <2>7 DEF Times
<1>5. QED
  BY <1>1, <1>3, <1>4 DEF DirsAre, Contract!DirTotals

LEMMA OwnersPublished ==
    ASSUME NEW i \in Contract!Index, NEW agg, OwnersAre(agg, i, Contract!Counted(i))
    PROVE  agg = Contract!UserTotals(i)
<1>1. PICK D : D = UNION {Contract!OwnersOf(i[p]) : p \in Contract!Counted(i)}
  OBVIOUS
<1>2. \A o : Contract!OwnedBy(i, o) = Of(i, Contract!Counted(i), o)
  BY DEF Contract!OwnedBy, Of, Contract!OwnersOf, Owners
<1>3. DOMAIN agg = D
  BY <1>1 DEF OwnersAre, Contract!OwnersOf, Owners
<1>4. ASSUME NEW o \in D
      PROVE  agg[o] = [size  |-> Contract!SumOfSizes(i, Contract!OwnedBy(i, o)),
                       count |-> Contract!Cardinality(Contract!OwnedBy(i, o))]
  <2>1. OwnerIs(agg[o], i, Contract!OwnedBy(i, o))
    BY <1>2, <1>3 DEF OwnersAre
  <2>2. QED
    BY <2>1, SameOperators DEF OwnerIs, OwnerTotals
<1>5. QED
  BY <1>1, <1>3, <1>4 DEF OwnersAre, Contract!UserTotals

----------------------------------------------------------------------------
(***************************************************************************)
(* The invariant.                                                          *)
(***************************************************************************)

\* What the maps and the tables may hold.
DirTable(t) == IsTable(t, Path \ {Slash}, Totals)
OwnerTable(t) == IsTable(t, Owner, OwnerTotals)

\* The part of the type that is not about tables.
PlainOK ==
    /\ index \in Contract!Index /\ legacy \in BOOLEAN /\ logged \in BOOLEAN
    /\ status \in [Runs -> {"none", "running", "success", "failed"}]
    /\ files_scanned \in [Runs -> Nat]
    /\ lock \in {"free", "queued", "held"}
    /\ run \in 0..MaxRuns /\ (pc # "idle" => run \in Runs)
    /\ pc \in Working \cup {"idle", "record", "success", "failed"}
    /\ rows \subseteq Path /\ processed \in Nat
    /\ request \in [Request -> {"idle", "waiting", "reading"}]
    /\ snapshot \in Contract!Index
    /\ committed \subseteq Runs
    /\ changes \in 0..MaxChanges /\ faults \in 0..MaxFaults

\* The type, table by table.
TypeParts ==
    /\ PlainOK
    /\ DirTable(dir_stats) /\ DirTable(aggregates) /\ DirTable(new_dir_stats)
    /\ OwnerTable(user_stats) /\ OwnerTable(user_aggregates) /\ OwnerTable(new_user_stats)

\* An empty table is one of either kind, and so are the totals of counted rows.
LEMMA TablesAre ==
    /\ DirTable(NoStats) /\ OwnerTable(NoStats)
    /\ \A i \in Contract!Index : \A Q \in SUBSET Contract!Counted(i) : \A agg :
         /\ DirsAre(agg, i, Q) => DirTable(agg)
         /\ OwnersAre(agg, i, Q) => OwnerTable(agg)
<1>1. DirTable(NoStats) /\ OwnerTable(NoStats)
  BY DEF DirTable, OwnerTable, IsTable, NoStats, Contract!NoStats
<1>2. ASSUME NEW i \in Contract!Index, NEW Q \in SUBSET Contract!Counted(i), NEW agg,
             DirsAre(agg, i, Q)
      PROVE  DirTable(agg)
  <2>1. DOMAIN agg \subseteq Path \ {Slash}
    <3>1. \A p \in Q : Ancestors(p) \subseteq Path \ {Slash}
      BY CountedIsRow, TreeAssumption DEF Ancestors
    <3>2. QED
      BY <1>2, <3>1 DEF DirsAre
  <2>2. \A d \in DOMAIN agg : agg[d] \in Totals
    BY <1>2 DEF DirsAre, DirIs
  <2>3. QED
    BY <2>1, <2>2 DEF DirTable, IsTable
<1>3. ASSUME NEW i \in Contract!Index, NEW Q \in SUBSET Contract!Counted(i), NEW agg,
             OwnersAre(agg, i, Q)
      PROVE  OwnerTable(agg)
  <2>1. DOMAIN agg \subseteq Owner
    <3>1. \A p \in Q : Owners(i[p]) \subseteq Owner
      BY CountedIsRow DEF Owner
    <3>2. QED
      BY <1>3, <3>1 DEF OwnersAre
  <2>2. \A o \in DOMAIN agg : agg[o] \in OwnerTotals
    BY <1>3 DEF OwnersAre, OwnerIs
  <2>3. QED
    BY <2>1, <2>2 DEF OwnerTable, IsTable
<1>4. QED
  BY <1>1, <1>2, <1>3

\* Without rows there is nothing to hold.
LEMMA NothingFolded ==
    ASSUME NEW i
    PROVE  DirsAre(NoStats, i, {}) /\ OwnersAre(NoStats, i, {}) /\ Cardinality({}) = 0
BY FS_EmptySet DEF DirsAre, OwnersAre, NoStats, Contract!NoStats

\* The invariant, with the type table by table.
Invs == FoldInv /\ TablesInv /\ SessionInv

LEMMA IInvIs == IInv => TypeParts /\ Invs
BY DEF IInv, Invs, TypeOK, TypeParts, PlainOK, DirTable, OwnerTable

LEMMA IInvFrom == TypeParts' /\ Invs' => IInv'
BY DEF IInv, Invs, TypeOK, TypeParts, PlainOK, DirTable, OwnerTable

\* A step of a request, or one of the indexer.
LEMMA OthersKeep ==
    ASSUME IInv,
           IndexerWrites \/ \E q \in Request : AskStats(q) \/ RequestStep(q)
    PROVE  IInv'
<1> USE DEF contractVars, sessionVars, foldVars, newVars
<1>1. TypeParts /\ Invs
  BY IInvIs
<1>2. /\ UNCHANGED <<snapshot, dir_stats, user_stats, logged, status, files_scanned, lock, run, pc,
                     rows, aggregates, user_aggregates, processed, new_dir_stats, new_user_stats,
                     committed, faults>>
      /\ index' \in Contract!Index /\ legacy' \in BOOLEAN /\ changes' \in 0..MaxChanges
      /\ request' \in [Request -> {"idle", "waiting", "reading"}]
  <2>1. CASE IndexerWrites
    <3>1. index' \in Contract!Index
      BY <1>1, <2>1 DEF IndexerWrites, TypeParts, PlainOK, Contract!Index, NoRows, Contract!NoRows
    <3>2. changes' \in 0..MaxChanges
      BY <1>1, <2>1, BoundsAssumption DEF IndexerWrites, TypeParts, PlainOK
    <3>3. QED
      BY <1>1, <2>1, <3>1, <3>2 DEF IndexerWrites, TypeParts, PlainOK
  <2>2. CASE \E q \in Request : AskStats(q) \/ RequestStep(q)
    BY <1>1, <2>2 DEF AskStats, RequestStep, OpenStats, AnswerStats, TypeParts, PlainOK
  <2>3. QED
    BY <2>1, <2>2
<1>3. TypeParts'
  BY <1>1, <1>2 DEF TypeParts, PlainOK, DirTable, OwnerTable
<1>4. Invs'
  BY <1>1, <1>2 DEF Invs, FoldInv, Folded, TablesInv, SessionInv
<1>5. QED
  BY <1>3, <1>4, IInvFrom

\* The run starts, records its session, and goes as far as its statement.
LEMMA StartKeeps ==
    ASSUME IInv, StartRun \/ RecordScanStart \/ CheckPathHashWidth \/ RemoveKcore
    PROVE  IInv'
<1> USE DEF contractVars, sessionVars, foldVars, newVars
<1>1. TypeParts /\ Invs /\ MaxRuns \in Nat /\ MaxFaults \in Nat
  BY IInvIs, BoundsAssumption
<1>2. /\ UNCHANGED <<snapshot, dir_stats, user_stats, legacy, logged, files_scanned, lock,
                     rows, aggregates, user_aggregates, processed, new_dir_stats, new_user_stats,
                     request, committed, changes>>
      /\ pc \in {"idle", "record", "check", "kcore"}
      /\ pc' \in {"idle", "record", "check", "kcore", "query", "failed"}
      /\ pc' = "failed" => pc = "check"
  BY <1>1 DEF StartRun, RecordScanStart, CheckPathHashWidth, RemoveKcore, TypeParts, PlainOK
<1>3. /\ run' = run \/ (pc = "idle" /\ run' = run + 1 /\ run < MaxRuns)
      /\ pc # "idle" => run' = run
      /\ pc = "idle" => run' = run + 1 /\ run < MaxRuns /\ pc' = "record"
  BY DEF StartRun, RecordScanStart, CheckPathHashWidth, RemoveKcore
<1>4. faults' \in 0..MaxFaults
  BY <1>1 DEF StartRun, RecordScanStart, CheckPathHashWidth, RemoveKcore, Fault, TypeParts, PlainOK
<1>5. /\ status' \in [Runs -> {"none", "running", "success", "failed"}]
      /\ \A s \in Runs : status'[s] = "success" => status[s] = "success"
  BY <1>1 DEF StartRun, RecordScanStart, CheckPathHashWidth, RemoveKcore, ReapStaleSessions,
              TypeParts, PlainOK
<1>6. index' \in Contract!Index
  BY <1>1 DEF StartRun, RecordScanStart, CheckPathHashWidth, RemoveKcore, TypeParts, PlainOK,
              Contract!Index
<1>7. run' \in 0..MaxRuns /\ run' \in Runs
  BY <1>1, <1>2, <1>3 DEF TypeParts, PlainOK, Runs
<1>8. TypeParts'
  BY <1>1, <1>2, <1>4, <1>5, <1>6, <1>7 DEF TypeParts, PlainOK, DirTable, OwnerTable, Working
<1>9. FoldInv' /\ TablesInv'
  BY <1>1, <1>2 DEF Invs, FoldInv, TablesInv, Streamed
<1>10. SessionInv'
  <2>1. \A s \in committed : s <= run'
    BY <1>1, <1>3 DEF TypeParts, PlainOK, Runs, Invs, SessionInv
  <2>2. pc' # "idle" => run' \notin committed
    BY <1>1, <1>2, <1>3 DEF TypeParts, PlainOK, Runs, Invs, SessionInv
  <2>3. QED
    BY <1>1, <1>2, <1>5, <2>1, <2>2 DEF Invs, SessionInv
<1>11. QED
  BY <1>8, <1>9, <1>10, IInvFrom DEF Invs

\* The portal is opened: nothing of it is folded yet.
LEMMA StreamKeeps ==
    ASSUME IInv, StreamIndex
    PROVE  IInv'
<1> USE DEF StreamIndex, newVars, sessionVars
<1>1. TypeParts /\ Invs
  BY IInvIs
<1>2. rows' = Contract!Counted(index) /\ snapshot' = index
  BY DEF Contract!Counted
<1>3. Folded' = {}
  BY <1>2 DEF Folded
<1>4. aggregates' = NoStats /\ user_aggregates' = NoStats
  BY <1>1 DEF Invs, FoldInv, Streamed
<1>5. TypeParts'
  BY <1>1 DEF TypeParts, PlainOK, DirTable, OwnerTable, Working
<1>6. FoldInv'
  <2>1. DirsAre(aggregates, snapshot, Folded)' /\ OwnersAre(user_aggregates, snapshot, Folded)'
        /\ processed' = Cardinality(Folded)'
    BY <1>3, <1>4, NothingFolded
  <2>2. QED
    BY <1>2, <2>1 DEF FoldInv, Streamed
<1>7. TablesInv' /\ SessionInv'
  BY <1>1 DEF Invs, TablesInv, SessionInv
<1>8. QED
  BY <1>5, <1>6, <1>7, IInvFrom DEF Invs

\* One more row is folded into every directory above it and its two owners.
LEMMA FoldKeeps ==
    ASSUME IInv, NEW p \in rows, FoldRow(p)
    PROVE  IInv'
<1> USE DEF FoldRow, newVars, sessionVars, contractVars
<1>1. TypeParts /\ Invs
  BY IInvIs
<1>2. PICK i, Q : i = snapshot /\ Q = Folded
  OBVIOUS
<1>3. /\ pc = "fold" /\ rows \subseteq Contract!Counted(i) /\ i \in Contract!Index
      /\ DirsAre(aggregates, i, Q) /\ OwnersAre(user_aggregates, i, Q)
      /\ processed = Cardinality(Q)
  BY <1>1, <1>2 DEF Invs, FoldInv, TypeParts, PlainOK, Streamed
<1>4. Q \in SUBSET Contract!Counted(i) /\ p \in Contract!Counted(i) \ Q
  BY <1>2, <1>3 DEF Folded
<1>5. Folded' = Q \cup {p} /\ rows' \subseteq Contract!Counted(i)
  BY <1>2, <1>3 DEF Folded
<1>6. DirsAre(aggregates', i, Q \cup {p})
  <2>1. PICK agg : agg = aggregates
    OBVIOUS
  <2>2. PICK new : new = aggregates'
    OBVIOUS
  <2>3. new = [d \in DOMAIN agg \cup Ancestors(p) |->
                 IF d \in Ancestors(p) THEN FoldDir(agg, d, i[p]) ELSE agg[d]]
    BY <1>2, <2>1, <2>2
  <2>4. DirsAre(agg, i, Q)
    BY <1>3, <2>1
  <2>5. DirsAre(new, i, Q \cup {p})
    BY <1>3, <1>4, <2>3, <2>4, DirsGrow
  <2>6. QED
    BY <2>2, <2>5
<1>7. OwnersAre(user_aggregates', i, Q \cup {p})
  <2>1. PICK agg : agg = user_aggregates
    OBVIOUS
  <2>2. PICK new : new = user_aggregates'
    OBVIOUS
  <2>3. new = [o \in DOMAIN agg \cup Owners(i[p]) |->
                 IF o \in Owners(i[p]) THEN FoldOwner(agg, o, i[p]) ELSE agg[o]]
    BY <1>2, <2>1, <2>2
  <2>4. OwnersAre(agg, i, Q)
    BY <1>3, <2>1
  <2>5. OwnersAre(new, i, Q \cup {p})
    BY <1>3, <1>4, <2>3, <2>4, OwnersGrow
  <2>6. QED
    BY <2>2, <2>5
<1>8. processed' = Cardinality(Q \cup {p}) /\ processed' \in Nat
  BY <1>3, <1>4, CountGrows
<1>9. FoldInv'
  BY <1>2, <1>3, <1>5, <1>6, <1>7, <1>8 DEF FoldInv, Streamed
<1>10. DirTable(aggregates)' /\ OwnerTable(user_aggregates)'
  <2>1. Q \cup {p} \in SUBSET Contract!Counted(i)
    BY <1>4
  <2>2. DirTable(aggregates') /\ OwnerTable(user_aggregates')
    BY <1>3, <1>6, <1>7, <2>1, TablesAre
  <2>3. QED
    BY <2>2 DEF DirTable, OwnerTable
<1>11. TypeParts'
  BY <1>1, <1>8, <1>10 DEF TypeParts, PlainOK, DirTable, OwnerTable
<1>12. TablesInv' /\ SessionInv'
  BY <1>1, <1>3 DEF Invs, TablesInv, SessionInv
<1>13. QED
  BY <1>9, <1>11, <1>12, IInvFrom DEF Invs

\* The stream has ended, and the tables are truncated and copied.
LEMMA CopyKeeps ==
    ASSUME IInv, RequestTruncate \/ TruncateTables \/ CopyDirStats \/ CopyUserStats
    PROVE  IInv'
<1> USE DEF foldVars, newVars, sessionVars, contractVars
<1>1. TypeParts /\ Invs
  BY IInvIs
<1>2. /\ UNCHANGED <<index, snapshot, dir_stats, user_stats, legacy, logged, status, files_scanned,
                     run, rows, aggregates, user_aggregates, processed, request, committed,
                     changes, faults>>
      /\ pc \in {"fold", "truncate", "copy_dirs", "copy_users"} /\ pc' \in Streamed \ {"fold"}
      /\ lock' \in {"free", "queued", "held"}
      /\ rows = {}
      /\ pc' \in {"copy_dirs", "copy_users"} => new_user_stats' = NoStats
      /\ pc' = "copy_dirs" => new_dir_stats' = NoStats
      /\ pc' = "copy_users" => pc = "copy_dirs" /\ new_dir_stats' = Copied(NoStats, aggregates)
      /\ pc' = "commit" => /\ pc = "copy_users" /\ new_dir_stats' = new_dir_stats
                           /\ new_user_stats' = Copied(NoStats, user_aggregates)
      /\ pc' = "truncate" => new_dir_stats' = new_dir_stats /\ new_user_stats' = new_user_stats
      /\ pc' = "copy_users" => new_user_stats' = new_user_stats
  BY <1>1 DEF RequestTruncate, TruncateTables, CopyDirStats, CopyUserStats, Streamed, Invs, FoldInv,
              TablesInv, TypeParts, PlainOK
<1>3. /\ DirsAre(aggregates, snapshot, Folded) /\ OwnersAre(user_aggregates, snapshot, Folded)
      /\ DirTable(aggregates) /\ OwnerTable(user_aggregates)
      /\ DirTable(new_dir_stats) /\ OwnerTable(new_user_stats)
      /\ processed = Cardinality(Folded) /\ rows \subseteq Contract!Counted(snapshot)
  BY <1>1, <1>2 DEF Invs, FoldInv, TypeParts, Streamed
<1>4. Copied(NoStats, aggregates) = aggregates /\ Copied(NoStats, user_aggregates) = user_aggregates
  <2>1. ASSUME NEW map, map = [x \in DOMAIN map |-> map[x]]
        PROVE  Copied(NoStats, map) = map
    <3>1. DOMAIN NoStats = {}
      BY DEF NoStats, Contract!NoStats
    <3>2. Copied(NoStats, map) = [x \in DOMAIN map |-> map[x]]
      BY <3>1 DEF Copied
    <3>3. QED
      BY <2>1, <3>2
  <2>2. /\ aggregates = [x \in DOMAIN aggregates |-> aggregates[x]]
        /\ user_aggregates = [x \in DOMAIN user_aggregates |-> user_aggregates[x]]
    BY <1>3 DEF DirsAre, OwnersAre
  <2>3. QED
    BY <2>1, <2>2
<1>5. TablesInv'
  BY <1>1, <1>2, <1>4 DEF Invs, TablesInv
<1>6. DirTable(new_dir_stats') /\ OwnerTable(new_user_stats')
  BY <1>2, <1>3, <1>4, TablesAre DEF Streamed
<1>7. TypeParts'
  BY <1>1, <1>2, <1>6 DEF TypeParts, PlainOK, DirTable, OwnerTable, Streamed, Working
<1>8. FoldInv'
  <2>1. Folded' = Folded
    BY <1>2 DEF Folded
  <2>2. QED
    BY <1>2, <1>3, <2>1 DEF FoldInv, Streamed
<1>9. SessionInv'
  BY <1>1, <1>2 DEF Invs, SessionInv, Streamed
<1>10. QED
  BY <1>5, <1>7, <1>8, <1>9, IInvFrom DEF Invs

\* The tables of the transaction become those everyone reads.
LEMMA CommitKeeps ==
    ASSUME IInv, Commit
    PROVE  IInv'
<1> USE DEF Commit, EndTransaction, sessionVars
<1>1. TypeParts /\ Invs
  BY IInvIs
<1>2. rows = {} /\ processed = Cardinality(Contract!Counted(snapshot)) /\ run \in Runs
  BY <1>1 DEF Invs, FoldInv, Streamed, Folded, TypeParts, PlainOK
<1>3. /\ DirTable(dir_stats') /\ OwnerTable(user_stats')
      /\ DirTable(aggregates') /\ OwnerTable(user_aggregates')
      /\ DirTable(new_dir_stats') /\ OwnerTable(new_user_stats')
  BY <1>1, TablesAre DEF TypeParts
<1>4. TypeParts'
  BY <1>1, <1>2, <1>3 DEF TypeParts, PlainOK, DirTable, OwnerTable
<1>5. FoldInv' /\ TablesInv'
  BY <1>2 DEF FoldInv, TablesInv, Streamed
<1>6. SessionInv'
  BY <1>1, <1>2 DEF Invs, SessionInv, Runs
<1>7. QED
  BY <1>4, <1>5, <1>6, IInvFrom DEF Invs

\* The transaction ends otherwise: nothing of it is left.
LEMMA EndKeeps ==
    ASSUME IInv, Fail \/ Kill \/ DatabaseCrash
    PROVE  IInv'
<1> USE DEF sessionVars, contractVars
<1>1. TypeParts /\ Invs
  BY IInvIs
<1>2. /\ UNCHANGED <<status, files_scanned, run, request, snapshot, committed, changes>>
      /\ EndTransaction
      /\ \/ pc' = "idle" /\ processed' = 0
         \/ pc' = "failed" /\ processed' = processed /\ pc \in Working
      /\ \/ UNCHANGED <<dir_stats, user_stats>>
         \/ dir_stats' = NoStats /\ user_stats' = NoStats
      /\ \/ UNCHANGED <<index, legacy>>
         \/ index' = NoRows /\ legacy' = FALSE
      /\ logged' = logged
  BY DEF Fail, Kill, DatabaseCrash, Dies
<1>3. faults' \in 0..MaxFaults
  BY <1>1, BoundsAssumption DEF Fail, Kill, DatabaseCrash, Fault, TypeParts, PlainOK
<1>4. index' \in Contract!Index /\ legacy' \in BOOLEAN
  BY <1>1, <1>2 DEF TypeParts, PlainOK, NoRows, Contract!NoRows, Contract!Index
<1>5. /\ DirTable(dir_stats') /\ OwnerTable(user_stats')
      /\ DirTable(aggregates') /\ OwnerTable(user_aggregates')
      /\ DirTable(new_dir_stats') /\ OwnerTable(new_user_stats')
  BY <1>1, <1>2, TablesAre DEF TypeParts, EndTransaction
<1>6. pc \in Working => run \in Runs
  BY <1>1 DEF TypeParts, PlainOK, Working
<1>7. TypeParts'
  BY <1>1, <1>2, <1>3, <1>4, <1>5, <1>6 DEF TypeParts, PlainOK, DirTable, OwnerTable, EndTransaction
<1>8. FoldInv' /\ TablesInv'
  BY <1>2 DEF FoldInv, TablesInv, Streamed, EndTransaction
<1>9. SessionInv'
  BY <1>1, <1>2 DEF Invs, SessionInv, Working
<1>10. QED
  BY <1>7, <1>8, <1>9, IInvFrom DEF Invs

\* The outcome is recorded: success of a run that is committed.
LEMMA RecordKeeps ==
    ASSUME IInv, EndScanSession
    PROVE  IInv'
<1> USE DEF sessionVars, contractVars, newVars
<1>1. TypeParts /\ Invs
  BY IInvIs
<1>2. /\ UNCHANGED <<index, snapshot, dir_stats, user_stats, legacy, logged, lock, run, rows,
                     aggregates, user_aggregates, new_dir_stats, new_user_stats, request,
                     committed, changes>>
      /\ pc \in {"success", "failed"} /\ pc' = "idle" /\ processed' = 0
      /\ status' = status \/ status' = [status EXCEPT ![run] = pc]
  BY DEF EndScanSession
<1>3. faults' \in 0..MaxFaults
  BY <1>1, BoundsAssumption DEF EndScanSession, Fault, TypeParts, PlainOK
<1>4. /\ status' \in [Runs -> {"none", "running", "success", "failed"}]
      /\ files_scanned' \in [Runs -> Nat]
  BY <1>1 DEF EndScanSession, TypeParts, PlainOK
<1>5. TypeParts'
  BY <1>1, <1>2, <1>3, <1>4 DEF TypeParts, PlainOK, DirTable, OwnerTable
<1>6. aggregates = NoStats /\ user_aggregates = NoStats
  BY <1>1, <1>2 DEF Invs, FoldInv, Streamed
<1>7. FoldInv' /\ TablesInv'
  BY <1>2, <1>6 DEF FoldInv, TablesInv, Streamed
<1>8. SessionInv'
  <2>1. \A s \in Runs : status'[s] = "success" => s \in committed
    BY <1>1, <1>2 DEF Invs, SessionInv, TypeParts, PlainOK
  <2>2. QED
    BY <1>1, <1>2, <2>1 DEF Invs, SessionInv
<1>9. QED
  BY <1>5, <1>7, <1>8, IInvFrom DEF Invs

\* Nothing has run yet.
LEMMA InitEstablishes == Init => IInv
<1> SUFFICES ASSUME Init PROVE IInv
    OBVIOUS
<1>1. /\ index \in Contract!Index /\ snapshot \in Contract!Index
  BY BoundsAssumption DEF Init, Contract!Index, NoRows, Contract!NoRows
<1>2. legacy \in BOOLEAN
  <2>1. legacy = FALSE \/ legacy = (index # NoRows)
    BY DEF Init
  <2>2. QED
    BY <2>1, Zenon
<1>3. /\ status \in [Runs -> {"none", "running", "success", "failed"}]
      /\ files_scanned \in [Runs -> Nat]
  BY DEF Init
<1>4. PlainOK
  BY <1>1, <1>2, <1>3, BoundsAssumption DEF Init, PlainOK
<1>5. TypeParts
  BY <1>4, TablesAre DEF Init, TypeParts
<1>6. FoldInv /\ TablesInv /\ SessionInv
  BY DEF Init, FoldInv, TablesInv, SessionInv, Streamed
<1>7. QED
  BY <1>5, <1>6 DEF IInv, TypeOK, TypeParts, PlainOK, DirTable, OwnerTable

\* Every step keeps it.
LEMMA StepKeeps ==
    ASSUME IInv, [Next]_vars
    PROVE  IInv'
<1>1. CASE UNCHANGED vars
  <2>1. TypeParts /\ Invs
    BY IInvIs
  <2>2. TypeParts'
    BY <1>1, <2>1 DEF vars, TypeParts, PlainOK, DirTable, OwnerTable
  <2>3. Invs'
    BY <1>1, <2>1 DEF vars, Invs, FoldInv, Folded, TablesInv, SessionInv
  <2>4. QED
    BY <2>2, <2>3, IInvFrom
<1>2. CASE Next
  BY <1>2, OthersKeep, StartKeeps, StreamKeeps, FoldKeeps, CopyKeeps, CommitKeeps, EndKeeps,
     RecordKeeps DEF Next, MainStep
<1>3. QED
  BY <1>1, <1>2

\* The inductive invariant of fs_aggregator: the maps are, at every moment, the
\* totals of the rows folded so far, and the tables of the transaction those
\* maps.
THEOREM Inductive == Spec => []IInv
<1>1. IInv /\ [Next]_vars => IInv'
  BY StepKeeps
<1>2. QED
  BY <1>1, InitEstablishes, PTL DEF Spec

\* Every variable of the run, the tables and the index keeps its type.
THEOREM TypeCorrect == Spec => []TypeOK
BY Inductive, PTL DEF IInv

\* A session that says success has its stats committed, a run that fails has
\* not, and the number of entries is that of the counted rows.
THEOREM OutcomesAreHonest == Spec => []OutcomeIsHonest
<1>1. ASSUME IInv PROVE OutcomeIsHonest
  BY <1>1 DEF IInv, FoldInv, SessionInv, OutcomeIsHonest
<1>2. QED
  BY <1>1, Inductive, PTL

\* What is committed are the totals the contract promises of the state of the
\* index that was streamed.
LEMMA CommitPublishes ==
    ASSUME IInv, Commit
    PROVE  Contract!Publish
<1>1. TypeParts /\ Invs
  BY IInvIs
<1>2. /\ dir_stats' = aggregates /\ user_stats' = user_aggregates
      /\ UNCHANGED <<index, snapshot>>
  BY <1>1 DEF Commit, Invs, TablesInv
<1>3. PICK i, a, u : i = snapshot /\ a = aggregates /\ u = user_aggregates
  OBVIOUS
<1>4. i \in Contract!Index /\ Folded = Contract!Counted(i)
  BY <1>1, <1>3 DEF Commit, TypeParts, PlainOK, Invs, FoldInv, Streamed, Folded
<1>5. DirsAre(a, i, Contract!Counted(i)) /\ OwnersAre(u, i, Contract!Counted(i))
  BY <1>1, <1>3, <1>4 DEF Commit, Invs, FoldInv, Streamed
<1>6. a = Contract!DirTotals(i) /\ u = Contract!UserTotals(i)
  BY <1>4, <1>5, DirsPublished, OwnersPublished
<1>7. QED
  BY <1>2, <1>3, <1>6 DEF Contract!Publish

\* Every step is one of the contract, or shows nothing of itself.
LEMMA StepRefines ==
    ASSUME IInv, IInv', [Next]_vars
    PROVE  [Contract!Next]_(Contract!vars)
<1> USE DEF contractVars, Contract!vars, Contract!Next
<1>1. index' \in Contract!Index
  BY DEF IInv, TypeOK
<1>2. CASE UNCHANGED vars
  BY <1>2 DEF vars
<1>3. CASE Commit
  BY <1>3, CommitPublishes
<1>4. CASE StreamIndex
  BY <1>4 DEF StreamIndex, Contract!TakeSnapshot
<1>5. CASE RemoveKcore \/ IndexerWrites
  BY <1>1, <1>5 DEF RemoveKcore, IndexerWrites, Contract!ChangeIndex
<1>6. CASE DatabaseCrash
  BY <1>1, <1>6 DEF DatabaseCrash, Dies, NoStats, Contract!ChangeIndex, Contract!Lose
<1>7. CASE StartRun \/ RecordScanStart \/ CheckPathHashWidth \/ (\E p \in rows : FoldRow(p))
             \/ RequestTruncate \/ TruncateTables \/ CopyDirStats \/ CopyUserStats
             \/ Fail \/ EndScanSession \/ Kill
             \/ \E q \in Request : AskStats(q) \/ RequestStep(q)
  BY <1>7 DEF StartRun, RecordScanStart, CheckPathHashWidth, FoldRow, RequestTruncate,
              TruncateTables, CopyDirStats, CopyUserStats, Fail, EndScanSession, Kill, Dies,
              AskStats, RequestStep, OpenStats, AnswerStats
<1>8. QED
  BY <1>2, <1>3, <1>4, <1>5, <1>6, <1>7 DEF Next, MainStep

\* fs_aggregator implements its contract: in whatever order the rows come, and
\* whoever writes the index meanwhile, both tables change in one step, to the
\* capped totals of one state the index was in.
THEOREM PublishesTotals == Spec => StatsAreTotals
<1>1. Init => Contract!Init
  BY BoundsAssumption DEF Init, Contract!Init, Contract!Index, NoStats, NoRows
<1>2. IInv /\ IInv' /\ [Next]_vars => [Contract!Next]_(Contract!vars)
  BY StepRefines
<1>3. Spec => Contract!Spec
  BY <1>1, <1>2, Inductive, PTL DEF Spec, Contract!Spec
<1>4. QED
  BY <1>3 DEF StatsAreTotals
=============================================================================
