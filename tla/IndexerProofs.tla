--------------------------- MODULE IndexerProofs ---------------------------
(***************************************************************************)
(* Proofs about the indexer, for every tree, every set of scan roots and   *)
(* every bound; at the end, that it implements IndexContract.              *)
(***************************************************************************)
EXTENDS Indexer, TLAPS

\* What appending to the channel or to the batch adds to its elements.
LEMMA RangeOfAppend ==
    ASSUME NEW S, NEW s \in Seq(S), NEW e \in S
    PROVE  /\ Append(s, e) \in Seq(S)
           /\ Len(Append(s, e)) = Len(s) + 1
           /\ Range(Append(s, e)) = Range(s) \cup {e}
<1>1. /\ Append(s, e) \in Seq(S)
      /\ Len(Append(s, e)) = Len(s) + 1
      /\ \A i \in 1..Len(s) : Append(s, e)[i] = s[i]
      /\ Append(s, e)[Len(s) + 1] = e
  OBVIOUS
<1>2. DOMAIN Append(s, e) = 1..(Len(s) + 1) /\ DOMAIN s = 1..Len(s) /\ Len(s) \in Nat
  BY <1>1
<1>3. QED
  BY <1>1, <1>2 DEF Range

\* What receiving takes from the elements of the channel.
LEMMA RangeOfTail ==
    ASSUME NEW S, NEW s \in Seq(S), s # <<>>
    PROVE  /\ Head(s) \in S
           /\ Tail(s) \in Seq(S)
           /\ Len(Tail(s)) = Len(s) - 1
           /\ Len(s) \in Nat \ {0}
           /\ Range(s) = Range(Tail(s)) \cup {Head(s)}
<1>1. /\ Head(s) \in S /\ Head(s) = s[1]
      /\ Tail(s) \in Seq(S)
      /\ Len(Tail(s)) = Len(s) - 1
      /\ Len(s) \in Nat \ {0}
      /\ \A i \in 1..(Len(s) - 1) : Tail(s)[i] = s[i + 1]
  OBVIOUS
<1>2. DOMAIN Tail(s) = 1..(Len(s) - 1) /\ DOMAIN s = 1..Len(s)
  BY <1>1
<1>3. ASSUME NEW x \in Range(s) PROVE x \in Range(Tail(s)) \cup {Head(s)}
  <2>1. PICK i \in 1..Len(s) : x = s[i]
    BY <1>2, <1>3 DEF Range
  <2>2. CASE i = 1
    BY <2>1, <2>2, <1>1
  <2>3. CASE i # 1
    <3>1. i - 1 \in 1..(Len(s) - 1) /\ Tail(s)[i - 1] = s[(i - 1) + 1] /\ (i - 1) + 1 = i
      BY <2>1, <2>3, <1>1
    <3>2. QED
      BY <3>1, <2>1, <1>2 DEF Range
  <2>4. QED
    BY <2>2, <2>3
<1>4. Range(Tail(s)) \cup {Head(s)} \subseteq Range(s)
  BY <1>1, <1>2 DEF Range
<1>5. QED
  BY <1>1, <1>3, <1>4

\* An empty channel or batch has no elements.
LEMMA RangeOfEmpty ==
    /\ Range(<< >>) = {}
    /\ Len(<< >>) = 0
    /\ \A S : << >> \in Seq(S)
BY DEF Range

\* The rows a batch leaves in the index are rows.
LEMMA UpsertedType ==
    ASSUME TypeOK
    PROVE  /\ Upserted \in [Path -> Entry]
           /\ BatchPaths \subseteq Path
<1>1. Range(batch) \subseteq Record
  BY DEF TypeOK, Range
<1>2. ASSUME NEW p \in BatchPaths
      PROVE  (CHOOSE r \in Range(batch) : r.path = p).meta \in Meta
  <2>1. \E r \in Range(batch) : r.path = p
    BY <1>2 DEF BatchPaths, PathsOf
  <2>2. (CHOOSE r \in Range(batch) : r.path = p) \in Range(batch)
    BY <2>1
  <2>3. QED
    BY <2>2, <1>1 DEF Record
<1>3. BatchPaths \subseteq Path
  BY <1>1 DEF BatchPaths, PathsOf, Record
<1>4. QED
  BY <1>2, <1>3 DEF Upserted, Entry, TypeOK

\* The rows the cleanup leaves are rows.
LEMMA PrunedType == TypeOK => Pruned \in [Path -> Entry]
BY DEF TypeOK, Pruned, Entry

\* Counting a failure.
LEMMA FaultType == TypeOK /\ (Fault \/ UNCHANGED faults) => faults' \in Nat
BY DEF TypeOK, Fault

----------------------------------------------------------------------------
\* Type correctness of every step of the walker threads.
LEMMA WalkerType ==
    ASSUME TypeOK, WalkerStep PROVE TypeOK'
<1> USE TreeAssumption, BoundsAssumption
        DEF TypeOK, Fault, diskVars, dbVars, mainVars
<1>1. CASE \E p \in stack : Stat(p)
  BY <1>1 DEF Stat, Record, Entry
<1>2. CASE \E p \in stack : StatFails(p)
  BY <1>2 DEF StatFails
<1>3. CASE \E r \in held : Send(r)
  <2>1. PICK r \in held : Send(r)
    BY <1>3
  <2>2. channel' \in Seq(Record) /\ Len(channel') <= CHANNEL_CAPACITY
    BY <2>1, RangeOfAppend DEF Send
  <2>3. r.path \in Path
    BY <2>1 DEF Record
  <2>4. QED
    BY <2>1, <2>2, <2>3 DEF Send
<1>4. CASE \E p \in opened : ReadDir(p)
  BY <1>4 DEF ReadDir, Children
<1>5. CASE \E p \in opened : ReadDirFails(p)
  BY <1>5 DEF ReadDirFails
<1>6. CASE WalkerPanic
  BY <1>6 DEF WalkerPanic
<1>7. QED
  BY <1>1, <1>2, <1>3, <1>4, <1>5, <1>6 DEF WalkerStep

\* The state an exit leaves is well typed.
LEMMA ExitType ==
    ASSUME TypeOK, Exit,
           UNCHANGED diskVars, index' = index, legacy' = legacy,
           status' \in [Runs -> {"none", "running", "success", "failed"}],
           files_scanned' \in [Runs -> Nat],
           faults' \in Nat
    PROVE  TypeOK'
<1>1. life' \in [Path -> SUBSET Entry]
  BY DEF Exit
<1>2. /\ channel' \in Seq(Record) /\ Len(channel') <= CHANNEL_CAPACITY
      /\ batch' \in Seq(Record) /\ Len(batch') < BATCH_SIZE /\ Len(batch') <= BATCH_SIZE
  BY RangeOfEmpty, BoundsAssumption DEF Exit
<1>3. pc' \in PC /\ pc' = "idle" /\ run' \in 0..MaxRuns
  BY DEF Exit, PC, TypeOK
<1>4. /\ roots' \subseteq Path /\ conn' \in BOOLEAN /\ seen' \subseteq Path
      /\ insert_failed' \in BOOLEAN /\ total_processed' \in Nat
      /\ stack' \subseteq Path /\ held' \subseteq Record /\ opened' \subseteq Path
      /\ panicked' \in BOOLEAN /\ unstatted' \subseteq Path /\ unlisted' \subseteq Path
  BY DEF Exit
<1>5. /\ disk' \in [Path -> Entry] /\ changes' \in Nat
      /\ index' \in [Path -> Entry] /\ legacy' \in BOOLEAN
  BY DEF diskVars, TypeOK
<1>6. QED
  BY <1>1, <1>2, <1>3, <1>4, <1>5 DEF TypeOK

\* Type correctness of every step of main().
LEMMA MainType ==
    ASSUME TypeOK, MainStep PROVE TypeOK'
<1> USE BoundsAssumption
<1> USE DEF diskVars, tableVars, walkVars, dbVars, PC, Setup
<1>1. CASE ConnectAndReap
  BY <1>1, FaultType DEF ConnectAndReap, ReapStaleSessions, TypeOK
<1>2. CASE MigrateHashWidth
  BY <1>2 DEF MigrateHashWidth, TypeOK, NoRows, Entry
<1>3. CASE RecordScanStart
  BY <1>3 DEF RecordScanStart, TypeOK
<1>4. CASE SetupFails
  <2>1. faults' \in Nat
    BY <1>4, FaultType DEF SetupFails
  <2>2. QED
    BY <1>4, <2>1, ExitType DEF SetupFails, TypeOK
<1>5. CASE Recv
  BY <1>5, RangeOfAppend, RangeOfTail DEF Recv, TypeOK
<1>6. CASE RecvClosed
  BY <1>6 DEF RecvClosed, TypeOK
<1>7. CASE InsertBatch
  BY <1>7, UpsertedType, RangeOfEmpty DEF InsertBatch, TypeOK, AfterFlush
<1>8. CASE InsertBatchFails
  <2>1. /\ index' \in [Path -> Entry] /\ seen' \subseteq Path /\ conn' \in BOOLEAN
        /\ faults' \in Nat
    <3>1. faults' \in Nat
      BY <1>8, FaultType DEF InsertBatchFails
    <3>2. QED
      BY <1>8, <3>1, UpsertedType DEF InsertBatchFails, TypeOK
  <2>2. /\ pc' \in PC /\ pc' \notin {"idle", "flush"} /\ insert_failed' \in BOOLEAN
        /\ batch' \in Seq(Record) /\ Len(batch') < BATCH_SIZE
        /\ pc # "idle"
    BY <1>8, RangeOfEmpty DEF InsertBatchFails, AfterFlush
  <2>3. QED
    BY <1>8, <2>1, <2>2 DEF InsertBatchFails, TypeOK
<1>9. CASE JoinProducer
  BY <1>9 DEF JoinProducer, TypeOK
<1>10. CASE ResolveIdentities
  BY <1>10 DEF ResolveIdentities, TypeOK
<1>11. CASE CleanupStaleEntries
  BY <1>11 DEF CleanupStaleEntries, TypeOK, Pruned, Entry
<1>12. CASE CreateQueryIndexes
  BY <1>12 DEF CreateQueryIndexes, TypeOK
<1>13. CASE ClosingFails
  <2>1. /\ index' \in [Path -> Entry] /\ seen' \subseteq Path /\ conn' \in BOOLEAN
        /\ faults' \in Nat
    <3>1. faults' \in Nat
      BY <1>13, FaultType DEF ClosingFails
    <3>2. QED
      BY <1>13, <3>1, PrunedType DEF ClosingFails, TypeOK
  <2>2. pc' \in PC /\ pc' \notin {"idle", "flush"} /\ pc \notin {"idle", "flush"}
    BY <1>13 DEF ClosingFails
  <2>3. QED
    BY <1>13, <2>1, <2>2 DEF ClosingFails, TypeOK
<1>14. CASE EndScanSession
  BY <1>14, ExitType DEF EndScanSession, TypeOK
<1>15. CASE EndScanSessionFails
  <2>1. faults' \in Nat
    BY <1>15, FaultType DEF EndScanSessionFails
  <2>2. QED
    BY <1>15, <2>1, ExitType DEF EndScanSessionFails, TypeOK
<1>16. QED
  BY <1>1, <1>2, <1>3, <1>4, <1>5, <1>6, <1>7, <1>8, <1>9, <1>10, <1>11, <1>12,
     <1>13, <1>14, <1>15 DEF MainStep

\* Type correctness of every step of the environment.
LEMMA EnvironmentType ==
    ASSUME TypeOK, Environment PROVE TypeOK'
<1> USE BoundsAssumption
<1> USE DEF diskVars, tableVars, walkVars, mainVars, dbVars
<1>1. CASE \E R \in RootSets : StartRun(R)
  <2>1. PICK R \in RootSets : StartRun(R)
    BY <1>1
  <2>2. R \subseteq Path
    BY RootsAssumption
  <2>3. QED
    BY <2>1, <2>2 DEF StartRun, TypeOK, Runs, PC, Setup
<1>2. CASE \E p \in Path, m \in Entry : DiskChange(p, m)
  BY <1>2 DEF DiskChange, TypeOK
<1>3. CASE Kill
  BY <1>3, ExitType, FaultType DEF Kill, TypeOK
<1>4. CASE ConnectionLost
  <2>1. faults' \in Nat /\ conn' \in BOOLEAN /\ seen' \subseteq Path
    BY <1>4, FaultType DEF ConnectionLost
  <2>2. QED
    BY <1>4, <2>1 DEF ConnectionLost, TypeOK
<1>5. CASE DatabaseCrash
  <2>1. /\ index' \in [Path -> Entry] /\ legacy' \in BOOLEAN /\ seen' \subseteq Path
        /\ conn' \in BOOLEAN /\ faults' \in Nat
    <3>1. NoRows \in [Path -> Entry]
      BY DEF NoRows, Entry
    <3>2. faults' \in Nat
      BY <1>5, FaultType DEF DatabaseCrash
    <3>3. QED
      BY <1>5, <3>1, <3>2 DEF DatabaseCrash, TypeOK
  <2>2. status' \in [Runs -> {"none", "running", "success", "failed"}]
    BY <1>5 DEF DatabaseCrash, TypeOK, RowBefore
  <2>3. QED
    BY <1>5, <2>1, <2>2 DEF DatabaseCrash, TypeOK
<1>6. QED
  BY <1>1, <1>2, <1>3, <1>4, <1>5 DEF Environment, Write, Remove, Entry

\* The initial state is well typed.
LEMMA InitType == Init => TypeOK
<1> SUFFICES ASSUME Init PROVE TypeOK
  OBVIOUS
<1>1. /\ channel \in Seq(Record) /\ Len(channel) <= CHANNEL_CAPACITY
      /\ batch \in Seq(Record) /\ Len(batch) < BATCH_SIZE /\ Len(batch) <= BATCH_SIZE
  BY RangeOfEmpty, BoundsAssumption DEF Init
<1>2. /\ disk \in [Path -> Entry] /\ index \in [Path -> Entry] /\ legacy \in BOOLEAN
      /\ status \in [Runs -> {"none", "running", "success", "failed"}]
      /\ files_scanned \in [Runs -> Nat]
      /\ life \in [Path -> SUBSET Entry]
  BY DEF Init, Entry, NoRows
<1>3. pc \in PC /\ pc = "idle" /\ run \in 0..MaxRuns
  BY BoundsAssumption DEF Init, PC
<1>4. QED
  BY <1>1, <1>2, <1>3 DEF Init, TypeOK

\* The variables of the indexer keep their types: in particular the channel
\* and the batch never outgrow the capacities of main.rs.
THEOREM TypeCorrect == Spec => []TypeOK
<1>1. Init => TypeOK
  BY InitType
<1>2. TypeOK /\ [Next]_vars => TypeOK'
  <2> SUFFICES ASSUME TypeOK, [Next]_vars PROVE TypeOK'
    OBVIOUS
  <2>1. CASE ReportProgress
    BY <2>1 DEF ReportProgress, TypeOK, diskVars, mainVars, walkVars
  <2>2. CASE UNCHANGED vars
    BY <2>2 DEF vars, TypeOK
  <2>3. QED
    BY <2>1, <2>2, WalkerType, MainType, EnvironmentType DEF Next
<1>3. QED
  BY <1>1, <1>2, PTL DEF Spec

----------------------------------------------------------------------------
\* What the invariant says of the current state, with the types it needs.
LEMMA InFlightType ==
    ASSUME TypeOK
    PROVE  /\ InFlight \subseteq Record
           /\ PathsOf(InFlight) \subseteq Path
           /\ PathsOf(held) \subseteq Path
<1>1. Range(channel) \subseteq Record /\ Range(batch) \subseteq Record
  BY DEF TypeOK, Range
<1>2. InFlight \subseteq Record /\ held \subseteq Record
  BY <1>1 DEF TypeOK, InFlight
<1>3. QED
  BY <1>2 DEF PathsOf, Record

\* One more record adds its path.
LEMMA PathsOfAdd ==
    ASSUME NEW S, NEW r
    PROVE  PathsOf(S \cup {r}) = PathsOf(S) \cup {r.path}
BY DEF PathsOf

\* A directory above an entry is a directory: it has a child on the way down.
LEMMA AncestorIsDir ==
    ASSUME NEW p \in Path, NEW a \in Anc[p]
    PROVE  /\ a \in Path
           /\ IsDir(a)
           /\ \E c \in Children(a) : c = p \/ c \in Anc[p]
BY TreeAssumption DEF IsDir

\* The children of a directory under the scan roots are under the scan roots.
LEMMA ChildrenInScope ==
    ASSUME NEW d \in Scope, NEW c \in Children(d)
    PROVE  c \in Scope
BY DEF Scope, Under, Children

\* An entry that stays on disk keeps the directories above it on disk.
LEMMA SteadyPathOnDisk ==
    ASSUME IInv, pc # "idle", NEW p \in Path, Steady(p)
    PROVE  disk[p] # None /\ \A a \in Anc[p] : disk[a] # None
<1>1. disk[p] # None
  BY DEF IInv, FreshRecords, Steady
<1>2. QED
  BY <1>1 DEF IInv, DiskIsTree

\* The parts of the invariant that no step of the walker threads can reach.
LEMMA WalkerFrame ==
    ASSUME IInv, UNCHANGED <<diskVars, dbVars, mainVars, life>>
    PROVE  DiskIsTree' /\ OnlySeenRows' /\ SessionIsOpen' /\ Scope' = Scope
BY DEF IInv, DiskIsTree, OnlySeenRows, SessionIsOpen, Scope, Under, diskVars, dbVars, mainVars

\* Every step of the walker threads keeps the invariant.
LEMMA WalkerInv ==
    ASSUME IInv, WalkerStep PROVE IInv'
<1> USE DEF diskVars, dbVars, mainVars
<1>t. TypeOK'
  BY WalkerType DEF IInv
<1>a. ~WalkDone => pc # "idle"
  BY DEF IInv, StageFacts
<1>1. CASE \E p \in stack : Stat(p)
  <2>1. PICK p \in stack : Stat(p)
    BY <1>1
  <2> DEFINE rec == [path |-> p, meta |-> disk[p]]
  <2>2. /\ InFlight' = InFlight \cup {rec}
        /\ PathsOf(InFlight)' = PathsOf(InFlight) \cup {p}
        /\ PathsOf(held)' = PathsOf(held) \cup {p}
    <3>1. held' = held \cup {rec} /\ channel' = channel /\ batch' = batch
      BY <2>1 DEF Stat
    <3>2. InFlight' = InFlight \cup {rec}
      BY <3>1 DEF InFlight
    <3>3. QED
      <4>1. /\ PathsOf(InFlight') = PathsOf(InFlight) \cup {rec.path}
            /\ PathsOf(held') = PathsOf(held) \cup {rec.path}
        BY <3>1, <3>2, PathsOfAdd
      <4>2. rec.path = p
        OBVIOUS
      <4>3. QED
        BY <4>1, <4>2, <3>2 DEF PathsOf
  <2>3. DiskIsTree' /\ OnlySeenRows' /\ SessionIsOpen' /\ Scope' = Scope
    BY <2>1, WalkerFrame DEF Stat
  <2>4. StageFacts'
    BY <2>1 DEF IInv, StageFacts, Stat, WalkDone
  <2>5. WalkInScope'
    BY <2>1, <2>2, <2>3 DEF IInv, WalkInScope, Stat
  <2>6. FreshRecords'
    BY <2>1, <2>2 DEF IInv, TypeOK, FreshRecords, Stat
  <2>7. NoneForgotten'
    BY ZenonT(30), <2>1, <2>2, <2>3 DEF IInv, NoneForgotten, Accounted, Blind, Steady, Stat
  <2>8. QED
    BY <1>t, <2>3, <2>4, <2>5, <2>6, <2>7 DEF IInv
<1>2. CASE \E p \in stack : StatFails(p)
  <2>1. PICK p \in stack : StatFails(p)
    BY <1>2
  <2>2. InFlight' = InFlight /\ held' = held /\ p \in Path
    BY <2>1 DEF StatFails, InFlight, IInv, TypeOK
  <2>3. DiskIsTree' /\ OnlySeenRows' /\ SessionIsOpen' /\ Scope' = Scope
    BY <2>1, WalkerFrame DEF StatFails
  <2>4. StageFacts'
    BY <2>1 DEF IInv, StageFacts, StatFails, WalkDone
  <2>5. WalkInScope'
    BY <2>1, <2>2, <2>3 DEF IInv, WalkInScope, StatFails
  <2>6. FreshRecords'
    BY <2>1, <2>2 DEF IInv, FreshRecords, StatFails
  <2>7. NoneForgotten'
    <3>1. ASSUME NEW q \in Path, Accounted(q) PROVE Accounted(q)'
      <4>1. CASE p = q
        BY <2>1, <4>1 DEF StatFails, Accounted, Blind
      <4>2. CASE p \in Anc[q]
        BY <2>1, <2>2, <4>2, AncestorIsDir DEF StatFails, Accounted, Blind
      <4>3. CASE p # q /\ p \notin Anc[q]
        BY <2>1, <2>2, <3>1, <4>3 DEF StatFails, Accounted, Blind
      <4>4. QED
        BY <4>1, <4>2, <4>3
    <3>2. QED
      BY <2>1, <2>3, <3>1 DEF IInv, NoneForgotten, Steady, StatFails, Scope
  <2>8. QED
    BY <1>t, <2>3, <2>4, <2>5, <2>6, <2>7 DEF IInv
<1>3. CASE \E r \in held : Send(r)
  <2>1. PICK r \in held : Send(r)
    BY <1>3
  <2>0. r \in Record /\ r.path \in Path /\ channel \in Seq(Record)
    BY <2>1 DEF IInv, TypeOK, Record
  <2>2. /\ InFlight' = InFlight
        /\ PathsOf(held) \subseteq PathsOf(held)' \cup {r.path}
    BY <2>0, <2>1, RangeOfAppend DEF Send, InFlight, PathsOf
  <2>3. DiskIsTree' /\ OnlySeenRows' /\ SessionIsOpen' /\ Scope' = Scope
    BY <2>1, WalkerFrame DEF Send
  <2>4. StageFacts'
    BY <2>1 DEF IInv, StageFacts, Send, WalkDone
  <2>5. WalkInScope'
    BY <2>1, <2>2, <2>3 DEF IInv, WalkInScope, Send, InFlight, PathsOf
  <2>6. FreshRecords'
    BY <2>1, <2>2 DEF IInv, FreshRecords, Send
  <2>7. NoneForgotten'
    <3>1. ASSUME NEW q \in Path, Accounted(q) PROVE Accounted(q)'
      <4>1. CASE r.path \in Anc[q]
        BY <2>1, <4>1, AncestorIsDir DEF Send, Accounted
      <4>2. CASE r.path \notin Anc[q]
        BY <2>1, <2>2, <3>1, <4>2 DEF Send, Accounted, Blind, PathsOf
      <4>3. QED
        BY <4>1, <4>2
    <3>2. QED
      BY <2>1, <2>3, <3>1 DEF IInv, NoneForgotten, Steady, Send, Scope
  <2>8. QED
    BY <1>t, <2>3, <2>4, <2>5, <2>6, <2>7 DEF IInv
<1>4. CASE \E p \in opened : ReadDir(p)
  <2>1. PICK p \in opened : ReadDir(p)
    BY <1>4
  <2>2. InFlight' = InFlight /\ held' = held /\ p \in Path
    BY <2>1 DEF ReadDir, InFlight, IInv, TypeOK
  <2>3. DiskIsTree' /\ OnlySeenRows' /\ SessionIsOpen' /\ Scope' = Scope
    BY <2>1, WalkerFrame DEF ReadDir
  <2>4. StageFacts'
    BY <2>1 DEF IInv, StageFacts, ReadDir, WalkDone
  <2>5. WalkInScope'
    <3>1. Children(p) \subseteq Scope
      BY <2>1, ChildrenInScope DEF IInv, WalkInScope
    <3>2. QED
      BY <2>1, <2>2, <2>3, <3>1 DEF IInv, WalkInScope, ReadDir
  <2>6. FreshRecords'
    BY <2>1, <2>2 DEF IInv, FreshRecords, ReadDir
  <2>7. NoneForgotten'
    <3>0. pc # "idle"
      BY <1>a, <2>1 DEF WalkDone
    <3>1. ASSUME NEW q \in Path, Steady(q), Accounted(q) PROVE Accounted(q)'
      <4>1. CASE p \in Anc[q]
        <5>1. PICK c \in Children(p) : c = q \/ c \in Anc[q]
          BY <4>1, AncestorIsDir
        <5>2. disk[c] # None
          BY <3>0, <3>1, <5>1, SteadyPathOnDisk
        <5>3. QED
          BY <2>1, <5>1, <5>2 DEF ReadDir, Accounted
      <4>2. CASE p \notin Anc[q]
        BY <2>1, <2>2, <3>1, <4>2 DEF ReadDir, Accounted, Blind
      <4>3. QED
        BY <4>1, <4>2
    <3>2. QED
      BY <2>1, <2>3, <3>1 DEF IInv, NoneForgotten, Steady, ReadDir, Scope
  <2>8. QED
    BY <1>t, <2>3, <2>4, <2>5, <2>6, <2>7 DEF IInv
<1>5. CASE \E p \in opened : ReadDirFails(p)
  <2>1. PICK p \in opened : ReadDirFails(p)
    BY <1>5
  <2>2. InFlight' = InFlight /\ held' = held /\ p \in Path
    BY <2>1 DEF ReadDirFails, InFlight, IInv, TypeOK
  <2>3. DiskIsTree' /\ OnlySeenRows' /\ SessionIsOpen' /\ Scope' = Scope
    BY <2>1, WalkerFrame DEF ReadDirFails
  <2>4. StageFacts'
    BY <2>1 DEF IInv, StageFacts, ReadDirFails, WalkDone
  <2>5. WalkInScope'
    BY <2>1, <2>2, <2>3 DEF IInv, WalkInScope, ReadDirFails
  <2>6. FreshRecords'
    BY <2>1, <2>2 DEF IInv, FreshRecords, ReadDirFails
  <2>7. NoneForgotten'
    <3>1. ASSUME NEW q \in Path, Accounted(q) PROVE Accounted(q)'
      <4>1. CASE p \in Anc[q]
        BY <2>1, <4>1 DEF ReadDirFails, Accounted, Blind
      <4>2. CASE p \notin Anc[q]
        BY <2>1, <2>2, <3>1, <4>2 DEF ReadDirFails, Accounted, Blind
      <4>3. QED
        BY <4>1, <4>2
    <3>2. QED
      BY <2>1, <2>3, <3>1 DEF IInv, NoneForgotten, Steady, ReadDirFails, Scope
  <2>8. QED
    BY <1>t, <2>3, <2>4, <2>5, <2>6, <2>7 DEF IInv
<1>6. CASE WalkerPanic
  <2>1. InFlight' \subseteq InFlight /\ opened' \subseteq opened
    BY <1>6 DEF WalkerPanic, InFlight
  <2>2. DiskIsTree' /\ OnlySeenRows' /\ SessionIsOpen' /\ Scope' = Scope
    BY <1>6, WalkerFrame DEF WalkerPanic
  <2>3. StageFacts'
    BY <1>6 DEF IInv, StageFacts, WalkerPanic, WalkDone
  <2>4. WalkInScope'
    BY <1>6, <2>1, <2>2 DEF IInv, WalkInScope, WalkerPanic, PathsOf
  <2>5. FreshRecords'
    BY <1>6, <2>1 DEF IInv, FreshRecords, WalkerPanic
  <2>6. NoneForgotten'
    BY <1>6 DEF NoneForgotten, WalkerPanic
  <2>7. QED
    BY <1>t, <2>2, <2>3, <2>4, <2>5, <2>6 DEF IInv
<1>7. QED
  BY <1>1, <1>2, <1>3, <1>4, <1>5, <1>6 DEF WalkerStep

----------------------------------------------------------------------------
\* The state an exit leaves satisfies the invariant.
LEMMA ExitInv ==
    ASSUME IInv, Exit, TypeOK', UNCHANGED diskVars,
           \A s \in Runs : s > run => status'[s] = "none"
    PROVE  IInv'
<1>1. DiskIsTree'
  BY DEF IInv, DiskIsTree, diskVars
<1>2. StageFacts'
  BY DEF Exit, StageFacts, WalkDone
<1>3. WalkInScope'
  BY RangeOfEmpty DEF Exit, WalkInScope, InFlight, PathsOf
<1>4. FreshRecords' /\ NoneForgotten' /\ OnlySeenRows' /\ SessionIsOpen'
  BY DEF Exit, FreshRecords, NoneForgotten, OnlySeenRows, SessionIsOpen, Setup
<1>5. QED
  BY <1>1, <1>2, <1>3, <1>4 DEF IInv

\* A step of main() that only moves on keeps what the walk and the table hold.
LEMMA StageFrame ==
    ASSUME IInv, pc # "idle", pc' \notin {"idle", "setup"},
           UNCHANGED <<disk, index, seen, conn, roots, batch, insert_failed,
                       walkVars, channel, life>>
    PROVE  /\ DiskIsTree' /\ WalkInScope' /\ FreshRecords' /\ NoneForgotten'
           /\ Scope' = Scope
<1> USE DEF walkVars
<1>1. InFlight' = InFlight /\ Scope' = Scope
  BY DEF InFlight, Scope, Under
<1>2. DiskIsTree' /\ WalkInScope' /\ FreshRecords'
  BY <1>1 DEF IInv, DiskIsTree, WalkInScope, FreshRecords
<1>3. NoneForgotten'
  BY <1>1 DEF IInv, NoneForgotten, Accounted, Blind, Steady
<1>4. QED
  BY <1>1, <1>2, <1>3

\* The tables of the sessions keep their part of the invariant.
LEMMA SessionFrame ==
    ASSUME IInv, UNCHANGED <<status, run>>, pc # "idle", pc' \notin {"setup", "migrate", "record"}
    PROVE  SessionIsOpen'
BY DEF IInv, SessionIsOpen, Setup

\* The steps of the setup keep the invariant.
LEMMA SetupInv ==
    ASSUME IInv, ConnectAndReap \/ MigrateHashWidth \/ RecordScanStart \/ SetupFails
    PROVE  IInv'
<1>t. TypeOK' /\ TypeOK
  BY MainType DEF IInv, MainStep
<1>1. CASE ConnectAndReap
  <2> USE <1>1 DEF ConnectAndReap, diskVars, walkVars
  <2>1. InFlight' = InFlight /\ Scope' = Scope
    BY DEF InFlight, Scope, Under
  <2>2. DiskIsTree' /\ WalkInScope' /\ FreshRecords'
    BY <2>1 DEF IInv, DiskIsTree, WalkInScope, FreshRecords
  <2>3. StageFacts'
    BY DEF IInv, StageFacts, WalkDone, Setup
  <2>4. NoneForgotten'
    BY <2>1 DEF IInv, NoneForgotten, Accounted, Blind, Steady
  <2>5. OnlySeenRows'
    BY DEF OnlySeenRows
  <2>6. SessionIsOpen'
    <3>1. run \in Runs /\ \A s \in Runs : status[s] = "none" => status'[s] = "none"
      BY <1>t DEF TypeOK, ReapStaleSessions
    <3>2. QED
      BY <3>1 DEF IInv, SessionIsOpen, Setup
  <2>7. QED
    BY <1>t, <2>2, <2>3, <2>4, <2>5, <2>6 DEF IInv
<1>2. CASE MigrateHashWidth
  <2> USE <1>2 DEF MigrateHashWidth, diskVars, walkVars
  <2>1. InFlight' = InFlight /\ Scope' = Scope
    BY DEF InFlight, Scope, Under
  <2>2. seen = {}
    BY DEF IInv, StageFacts, Setup
  <2>3. DiskIsTree' /\ WalkInScope' /\ FreshRecords'
    BY <2>1, <2>2 DEF IInv, DiskIsTree, WalkInScope, FreshRecords
  <2>4. StageFacts'
    BY DEF IInv, StageFacts, WalkDone, Setup
  <2>5. NoneForgotten'
    BY <2>1 DEF IInv, NoneForgotten, Accounted, Blind, Steady
  <2>6. OnlySeenRows' /\ SessionIsOpen'
    BY DEF OnlySeenRows, IInv, SessionIsOpen, Setup
  <2>7. QED
    BY <1>t, <2>3, <2>4, <2>5, <2>6 DEF IInv
<1>3. CASE RecordScanStart
  <2> USE <1>3 DEF RecordScanStart, diskVars
  <2>1. DiskIsTree' /\ WalkInScope' /\ FreshRecords' /\ NoneForgotten'
    BY StageFrame
  <2>2. StageFacts' /\ OnlySeenRows'
    BY DEF IInv, StageFacts, WalkDone, Setup, OnlySeenRows, walkVars
  <2>3. SessionIsOpen'
    BY <1>t DEF IInv, SessionIsOpen, Setup, TypeOK, Runs
  <2>4. QED
    BY <1>t, <2>1, <2>2, <2>3 DEF IInv
<1>4. CASE SetupFails
  BY <1>4, <1>t, ExitInv DEF SetupFails, IInv, SessionIsOpen, tableVars
<1>5. QED
  BY <1>1, <1>2, <1>3, <1>4

\* The committed batch: its paths have rows that show what the walk saw.
LEMMA UpsertedIsFresh ==
    ASSUME IInv, pc # "idle"
    PROVE  /\ \A p \in seen \cup BatchPaths : Upserted[p] \in life[p] \ {None}
           /\ BatchPaths \subseteq PathsOf(InFlight)
           /\ PathsOf(InFlight) = PathsOf(held \cup Range(channel)) \cup BatchPaths
<1>1. /\ BatchPaths \subseteq PathsOf(InFlight)
      /\ PathsOf(InFlight) = PathsOf(held \cup Range(channel)) \cup BatchPaths
  BY DEF BatchPaths, InFlight, PathsOf
<1>2. seen \subseteq Path /\ BatchPaths \subseteq Path
  BY UpsertedType DEF IInv, TypeOK
<1>3. ASSUME NEW p \in BatchPaths PROVE Upserted[p] \in life[p] \ {None}
  <2> DEFINE r == CHOOSE x \in Range(batch) : x.path = p
  <2>1. \E x \in Range(batch) : x.path = p
    BY <1>3 DEF BatchPaths, PathsOf
  <2>2. r \in Range(batch) /\ r.path = p
    BY <2>1
  <2>3. r.meta \in life[p]
    BY <2>2 DEF IInv, FreshRecords, InFlight
  <2>4. r \in Record
    BY <2>2, InFlightType DEF IInv, InFlight
  <2>5. r.meta \in Meta
    BY <2>4 DEF Record
  <2>6. Upserted[p] = r.meta
    BY <1>2, <1>3 DEF Upserted
  <2>7. QED
    BY <2>3, <2>5, <2>6, BoundsAssumption
<1>4. ASSUME NEW p \in seen, p \notin BatchPaths PROVE Upserted[p] \in life[p] \ {None}
  BY <1>2, <1>4 DEF Upserted, IInv, FreshRecords
<1>5. QED
  BY <1>1, <1>3, <1>4

\* The steps of the receiving loop keep the invariant.
LEMMA ConsumerInv ==
    ASSUME IInv, Recv \/ RecvClosed \/ InsertBatch \/ InsertBatchFails \/ ReportProgress
    PROVE  IInv'
<1>t. TypeOK' /\ TypeOK
  <2>1. ASSUME ReportProgress PROVE TypeOK'
    BY <2>1 DEF ReportProgress, IInv, TypeOK, diskVars, mainVars, walkVars
  <2>2. QED
    BY <2>1, MainType DEF IInv, MainStep
<1>1. CASE Recv
  <2> USE <1>1 DEF Recv, diskVars, dbVars, walkVars
  <2>1. InFlight' = InFlight
    <3>1. /\ Range(channel) = Range(channel') \cup {Head(channel)}
          /\ Range(batch') = Range(batch) \cup {Head(channel)}
      BY <1>t, RangeOfTail, RangeOfAppend DEF TypeOK
    <3>2. QED
      BY <3>1 DEF InFlight
  <2>2. Scope' = Scope
    BY DEF Scope, Under
  <2>3. DiskIsTree' /\ WalkInScope' /\ FreshRecords'
    BY <2>1, <2>2 DEF IInv, DiskIsTree, WalkInScope, FreshRecords
  <2>4. StageFacts'
    BY DEF IInv, StageFacts, Setup
  <2>5. NoneForgotten'
    BY <2>1, <2>2 DEF IInv, NoneForgotten, Accounted, Blind, Steady
  <2>6. OnlySeenRows' /\ SessionIsOpen'
    BY SessionFrame DEF OnlySeenRows
  <2>7. QED
    BY <1>t, <2>3, <2>4, <2>5, <2>6 DEF IInv
<1>2. CASE RecvClosed
  <2> USE <1>2 DEF RecvClosed, diskVars, dbVars
  <2>1. DiskIsTree' /\ WalkInScope' /\ FreshRecords' /\ NoneForgotten'
    BY StageFrame
  <2>2. StageFacts'
    BY DEF IInv, StageFacts, WalkDone, walkVars, Setup
  <2>3. OnlySeenRows' /\ SessionIsOpen'
    BY SessionFrame DEF OnlySeenRows
  <2>4. QED
    BY <1>t, <2>1, <2>2, <2>3 DEF IInv
<1>3. CASE InsertBatch
  <2> USE <1>3 DEF InsertBatch, diskVars, walkVars
  <2>0. pc # "idle" /\ pc' \in {"consume", "join"}
    BY DEF AfterFlush
  <2>1. /\ InFlight' = held \cup Range(channel)
        /\ PathsOf(InFlight) \cup seen = PathsOf(InFlight') \cup seen'
        /\ InFlight' \subseteq InFlight
    BY <2>0, UpsertedIsFresh, RangeOfEmpty DEF InFlight
  <2>2. Scope' = Scope
    BY DEF Scope, Under
  <2>3. DiskIsTree' /\ WalkInScope'
    BY <2>1, <2>2 DEF IInv, DiskIsTree, WalkInScope
  <2>4. FreshRecords'
    BY <2>0, <2>1, UpsertedIsFresh DEF IInv, FreshRecords
  <2>5. StageFacts'
    BY <2>0 DEF IInv, StageFacts, WalkDone, Setup, AfterFlush
  <2>6. NoneForgotten'
    BY <2>0, <2>1, <2>2 DEF IInv, NoneForgotten, Accounted, Blind, Steady, PathsOf
  <2>7. OnlySeenRows' /\ SessionIsOpen'
    BY <2>0, SessionFrame DEF OnlySeenRows
  <2>8. QED
    BY <1>t, <2>3, <2>4, <2>5, <2>6, <2>7 DEF IInv
<1>4. CASE InsertBatchFails
  <2> USE <1>4 DEF InsertBatchFails, diskVars, walkVars
  <2>0. pc # "idle" /\ pc' \in {"consume", "join"} /\ seen' \subseteq seen
    BY DEF AfterFlush
  <2>1. InFlight' \subseteq InFlight /\ Scope' = Scope
    BY RangeOfEmpty DEF InFlight, Scope, Under
  <2>2. DiskIsTree' /\ WalkInScope'
    BY <2>0, <2>1 DEF IInv, DiskIsTree, WalkInScope, PathsOf
  <2>3. FreshRecords'
    BY <2>0, <2>1 DEF IInv, FreshRecords
  <2>4. StageFacts'
    BY <2>0 DEF IInv, StageFacts, WalkDone, Setup, AfterFlush
  <2>5. NoneForgotten'
    BY DEF NoneForgotten
  <2>6. OnlySeenRows' /\ SessionIsOpen'
    BY <2>0, SessionFrame DEF OnlySeenRows
  <2>7. QED
    BY <1>t, <2>2, <2>3, <2>4, <2>5, <2>6 DEF IInv
<1>5. CASE ReportProgress
  <2> USE <1>5 DEF ReportProgress, diskVars, mainVars
  <2>1. DiskIsTree' /\ WalkInScope' /\ FreshRecords' /\ NoneForgotten'
    BY StageFrame
  <2>2. StageFacts' /\ OnlySeenRows' /\ SessionIsOpen'
    BY SessionFrame DEF IInv, StageFacts, WalkDone, walkVars, OnlySeenRows
  <2>3. QED
    BY <1>t, <2>1, <2>2 DEF IInv
<1>6. QED
  BY <1>1, <1>2, <1>3, <1>4, <1>5

\* The closing steps, from join() to the end of the session.
LEMMA ClosingInv ==
    ASSUME IInv,
           \/ JoinProducer \/ ResolveIdentities \/ CleanupStaleEntries
           \/ CreateQueryIndexes \/ ClosingFails \/ EndScanSession
           \/ EndScanSessionFails
    PROVE  IInv'
<1>t. TypeOK' /\ TypeOK
  BY MainType DEF IInv, MainStep
<1>1. CASE JoinProducer
  <2> USE <1>1 DEF JoinProducer, diskVars, dbVars
  <2>1. DiskIsTree' /\ WalkInScope' /\ FreshRecords' /\ NoneForgotten'
    BY StageFrame
  <2>2. StageFacts'
    BY DEF IInv, StageFacts, WalkDone, walkVars, Setup
  <2>3. OnlySeenRows' /\ SessionIsOpen'
    BY SessionFrame DEF OnlySeenRows
  <2>4. QED
    BY <1>t, <2>1, <2>2, <2>3 DEF IInv
<1>2. CASE ResolveIdentities
  <2> USE <1>2 DEF ResolveIdentities, diskVars, dbVars
  <2>1. DiskIsTree' /\ WalkInScope' /\ FreshRecords' /\ NoneForgotten'
    BY StageFrame
  <2>2. StageFacts'
    BY DEF IInv, StageFacts, WalkDone, walkVars, Setup
  <2>3. OnlySeenRows' /\ SessionIsOpen'
    BY SessionFrame DEF OnlySeenRows
  <2>4. QED
    BY <1>t, <2>1, <2>2, <2>3 DEF IInv
<1>3. CASE CleanupStaleEntries
  <2> USE <1>3 DEF CleanupStaleEntries, diskVars, walkVars
  <2>1. InFlight' = InFlight /\ Scope' = Scope
    BY DEF InFlight, Scope, Under
  <2>2. \A p \in seen : index'[p] = index[p]
    BY <1>t DEF Pruned, TypeOK
  <2>3. DiskIsTree' /\ WalkInScope' /\ FreshRecords'
    BY <2>1, <2>2 DEF IInv, DiskIsTree, WalkInScope, FreshRecords
  <2>4. StageFacts'
    BY DEF IInv, StageFacts, WalkDone, Setup
  <2>5. NoneForgotten'
    BY <2>1 DEF IInv, NoneForgotten, Accounted, Blind, Steady
  <2>6. OnlySeenRows'
    BY <2>1 DEF OnlySeenRows, Pruned, Scope
  <2>7. SessionIsOpen'
    BY SessionFrame
  <2>8. QED
    BY <1>t, <2>3, <2>4, <2>5, <2>6, <2>7 DEF IInv
<1>4. CASE CreateQueryIndexes
  <2> USE <1>4 DEF CreateQueryIndexes, diskVars, dbVars
  <2>1. DiskIsTree' /\ WalkInScope' /\ FreshRecords' /\ NoneForgotten' /\ Scope' = Scope
    BY StageFrame
  <2>2. StageFacts'
    BY DEF IInv, StageFacts, WalkDone, walkVars, Setup
  <2>3. OnlySeenRows' /\ SessionIsOpen'
    BY <2>1, SessionFrame DEF IInv, OnlySeenRows
  <2>4. QED
    BY <1>t, <2>1, <2>2, <2>3 DEF IInv
<1>5. CASE ClosingFails
  <2> USE <1>5 DEF ClosingFails, diskVars, walkVars
  <2>0. pc # "idle" /\ seen' \subseteq seen /\ InFlight' = InFlight /\ Scope' = Scope
    BY DEF InFlight, Scope, Under
  <2>1. DiskIsTree' /\ WalkInScope' /\ FreshRecords'
    BY <2>0 DEF IInv, DiskIsTree, WalkInScope, FreshRecords
  <2>2. StageFacts'
    BY DEF IInv, StageFacts, WalkDone, Setup
  <2>3. NoneForgotten'
    BY <2>0 DEF IInv, NoneForgotten, Accounted, Blind, Steady
  <2>4. OnlySeenRows' /\ SessionIsOpen'
    BY SessionFrame DEF OnlySeenRows
  <2>5. QED
    BY <1>t, <2>1, <2>2, <2>3, <2>4 DEF IInv
<1>6. CASE EndScanSession
  <2>1. \A s \in Runs : s > run => status'[s] = "none"
    BY <1>6, <1>t DEF EndScanSession, IInv, SessionIsOpen, TypeOK, Runs
  <2>2. QED
    BY <1>6, <1>t, <2>1, ExitInv DEF EndScanSession
<1>7. CASE EndScanSessionFails
  BY <1>7, <1>t, ExitInv DEF EndScanSessionFails, IInv, SessionIsOpen, tableVars
<1>8. QED
  BY <1>1, <1>2, <1>3, <1>4, <1>5, <1>6, <1>7

\* Every step of the environment keeps the invariant.
LEMMA EnvironmentInv ==
    ASSUME IInv, Environment PROVE IInv'
<1>t. TypeOK' /\ TypeOK
  BY EnvironmentType DEF IInv
<1>1. CASE \E R \in RootSets : StartRun(R)
  <2>1. PICK R \in RootSets : StartRun(R)
    BY <1>1
  <2> USE <2>1 DEF StartRun, diskVars, dbVars
  <2>2. /\ R \subseteq Path
        /\ held = {} /\ opened = {} /\ channel = << >> /\ batch = << >> /\ seen = {}
    BY RootsAssumption DEF IInv, StageFacts, WalkDone, Setup
  <2>3. InFlight' = {} /\ PathsOf(InFlight') = {}
    BY <2>2, RangeOfEmpty DEF InFlight, PathsOf
  <2>4. R \subseteq Scope' /\ Scope' = {p \in Path : \E r \in R : p = r \/ r \in Anc[p]}
    BY <2>2 DEF Scope, Under
  <2>5. DiskIsTree' /\ WalkInScope'
    BY <2>2, <2>3, <2>4 DEF IInv, DiskIsTree, WalkInScope
  <2>6. FreshRecords'
    BY <2>2, <2>3 DEF FreshRecords
  <2>7. StageFacts'
    BY <2>2 DEF IInv, StageFacts
  <2>8. NoneForgotten'
    BY <2>4 DEF NoneForgotten, Accounted
  <2>9. OnlySeenRows' /\ SessionIsOpen'
    BY <1>t DEF OnlySeenRows, IInv, SessionIsOpen, TypeOK, Runs
  <2>10. QED
    BY <1>t, <2>5, <2>6, <2>7, <2>8, <2>9 DEF IInv
<1>2. ASSUME NEW p \in Path, NEW m \in Entry, DiskChange(p, m), DiskIsTree'
      PROVE  IInv'
  <2> USE <1>2 DEF DiskChange, dbVars, mainVars, walkVars
  <2>1. InFlight' = InFlight /\ Scope' = Scope
    BY DEF InFlight, Scope, Under
  <2>2. pc # "idle" => \A q \in Path : life[q] \subseteq life'[q] /\ disk'[q] \in life'[q]
    BY <1>t DEF IInv, FreshRecords, TypeOK
  <2>3. FreshRecords'
    <3>1. InFlight \subseteq Record /\ seen \subseteq Path
      BY <1>t, InFlightType DEF TypeOK
    <3>2. \A r \in InFlight : r.path \in Path
      BY <3>1 DEF Record
    <3>3. QED
      BY <2>1, <2>2, <3>1, <3>2 DEF IInv, FreshRecords
  <2>4. StageFacts' /\ OnlySeenRows' /\ SessionIsOpen' /\ WalkInScope'
    BY <2>1 DEF IInv, StageFacts, WalkDone, OnlySeenRows, SessionIsOpen, WalkInScope
  <2>5. NoneForgotten'
    <3>1. ASSUME pc # "idle", NEW q \in Path, Steady(q)' PROVE Steady(q)
      BY <2>2, <3>1 DEF Steady
    <3>2. QED
      BY <2>1, <3>1 DEF IInv, NoneForgotten, Accounted, Blind, Scope
  <2>6. QED
    BY <1>t, <2>3, <2>4, <2>5 DEF IInv
<1>3. CASE \E p \in Path, m \in Meta : Write(p, m)
  <2>1. PICK p \in Path, m \in Meta : Write(p, m)
    BY <1>3
  <2>2. DiskIsTree'
    BY <2>1, <1>t, TreeAssumption, BoundsAssumption DEF Write, DiskChange, IInv, DiskIsTree, TypeOK
  <2>3. QED
    BY <2>1, <2>2, <1>2 DEF Write, Entry
<1>4. CASE \E p \in Path : Remove(p)
  <2>1. PICK p \in Path : Remove(p)
    BY <1>4
  <2>2. DiskIsTree'
    BY <2>1, <1>t, TreeAssumption DEF Remove, DiskChange, IInv, DiskIsTree, TypeOK
  <2>3. QED
    BY <2>1, <2>2, <1>2 DEF Remove, Entry
<1>5. CASE Kill
  BY <1>5, <1>t, ExitInv DEF Kill, IInv, SessionIsOpen, tableVars
<1>6. CASE ConnectionLost \/ DatabaseCrash
  <2>0. UNCHANGED <<disk, mainVars, walkVars, channel, life>> /\ seen' = {} /\ ~conn'
    BY <1>6 DEF ConnectionLost, DatabaseCrash, diskVars
  <2> USE <2>0 DEF mainVars, walkVars
  <2>1. InFlight' = InFlight /\ Scope' = Scope
    BY <2>0 DEF InFlight, Scope, Under
  <2>2. DiskIsTree' /\ WalkInScope' /\ FreshRecords'
    BY <2>0, <2>1 DEF IInv, DiskIsTree, WalkInScope, FreshRecords
  <2>3. StageFacts'
    BY <2>0 DEF IInv, StageFacts, WalkDone
  <2>4. NoneForgotten'
    BY <2>1 DEF IInv, NoneForgotten, Accounted, Blind, Steady, StageFacts
  <2>5. OnlySeenRows'
    BY <2>0 DEF OnlySeenRows
  <2>6. SessionIsOpen'
    BY <1>6, <1>t DEF ConnectionLost, DatabaseCrash, tableVars, IInv, SessionIsOpen,
                      TypeOK, RowBefore, Runs, Setup
  <2>7. QED
    BY <1>t, <2>2, <2>3, <2>4, <2>5, <2>6 DEF IInv
<1>7. QED
  BY <1>1, <1>3, <1>4, <1>5, <1>6 DEF Environment

----------------------------------------------------------------------------
\* One step keeps the invariant.
LEMMA StepInv == IInv /\ [Next]_vars => IInv'
<1> SUFFICES ASSUME IInv, [Next]_vars PROVE IInv'
  OBVIOUS
<1>1. CASE UNCHANGED vars
  BY ZenonT(30), <1>1 DEF vars, IInv, TypeOK, DiskIsTree, StageFacts, WalkDone, WalkInScope,
      FreshRecords, NoneForgotten, Accounted, Blind, Steady, OnlySeenRows,
      SessionIsOpen, InFlight, Scope, Under
<1>2. CASE Next
  BY <1>2, WalkerInv, SetupInv, ConsumerInv, ClosingInv, EnvironmentInv
     DEF Next, MainStep
<1>3. QED
  BY <1>1, <1>2

\* The inductive invariant holds in every reachable state: in particular no
\* entry that stays on disk is forgotten on its way from the walk to
\* seen_hashes unless the run skipped it or records that it failed.
THEOREM Inductive == Spec => []IInv
<1>1. Init => IInv
  <2> SUFFICES ASSUME Init PROVE IInv
    OBVIOUS
  <2>1. TypeOK
    BY InitType
  <2>2. DiskIsTree /\ StageFacts
    BY DEF Init, DiskIsTree, StageFacts, WalkDone, Setup
  <2>3. WalkInScope
    BY RangeOfEmpty DEF Init, WalkInScope, InFlight, PathsOf
  <2>4. FreshRecords /\ NoneForgotten /\ OnlySeenRows /\ SessionIsOpen
    BY DEF Init, FreshRecords, NoneForgotten, OnlySeenRows, SessionIsOpen, Setup
  <2>5. QED
    BY <2>1, <2>2, <2>3, <2>4 DEF IInv
<1>2. QED
  BY <1>1, StepInv, PTL DEF Spec

\* The only steps that write filesystem_index.
LEMMA IndexWriters ==
    ASSUME [Next]_vars, index' # index
    PROVE  \/ MigrateHashWidth
           \/ InsertBatch
           \/ InsertBatchFails /\ index' = Upserted
           \/ pc = "cleanup" /\ conn /\ index' = Pruned
           \/ DatabaseCrash /\ index' = NoRows
<1>1. ~WalkerStep
  BY DEF WalkerStep, Stat, StatFails, Send, ReadDir, ReadDirFails, WalkerPanic, dbVars
<1>2. CASE MainStep
  BY <1>2 DEF MainStep, ConnectAndReap, RecordScanStart, SetupFails, tableVars, Recv,
      RecvClosed, JoinProducer, InsertBatchFails, ResolveIdentities, CleanupStaleEntries,
      CreateQueryIndexes, ClosingFails, EndScanSession, EndScanSessionFails, dbVars
<1>3. ~ReportProgress /\ ~UNCHANGED vars
  BY DEF ReportProgress, vars
<1>4. CASE Environment
  BY <1>4 DEF Environment, StartRun, Write, Remove, DiskChange, Kill, ConnectionLost,
      DatabaseCrash, dbVars, tableVars
<1>5. QED
  BY <1>1, <1>2, <1>3, <1>4 DEF Next

\* At the end of a run whose walk is over and of which no batch was lost, an
\* entry that was there all the time was seen, or skipped.
LEMMA SteadyIsSeen ==
    ASSUME IInv, pc \in {"cleanup", "finish"}, conn, NEW p \in Scope, Steady(p), ~Blind(p)
    PROVE  p \in seen
<1>1. /\ WalkDone /\ channel = << >> /\ batch = << >>
      /\ ~panicked /\ ~insert_failed
  BY DEF IInv, StageFacts
<1>2. PathsOf(InFlight) = {} /\ PathsOf(held) = {} /\ stack = {} /\ opened = {}
  BY <1>1, RangeOfEmpty DEF InFlight, WalkDone, PathsOf
<1>3. QED
  BY <1>1, <1>2 DEF IInv, NoneForgotten, Accounted

\* The gate protects the cleanup: whatever batches fail, walkers panic or
\* connections drop, a row that is pruned belongs to an entry that was away
\* from the disk at some time during the run, or that the run skipped.
THEOREM CleanupIsSafe == Spec => PruneIsJustified
<1>1. IInv /\ [Next]_vars =>
        \A p \in Path : pc = "cleanup" /\ index[p] # None /\ index'[p] = None =>
            \/ ~Steady(p)
            \/ Blind(p)
            \/ ~conn' /\ index' = NoRows
  <2> SUFFICES ASSUME IInv, [Next]_vars, NEW p \in Path,
                      pc = "cleanup" /\ index[p] # None /\ index'[p] = None,
                      ~(DatabaseCrash /\ index' = NoRows)
               PROVE  ~Steady(p) \/ Blind(p)
    BY DEF DatabaseCrash
  <2>0. index' # index
    OBVIOUS
  <2>1. conn /\ index' = Pruned
    BY <2>0, IndexWriters DEF MigrateHashWidth, InsertBatch, InsertBatchFails, DatabaseCrash
  <2>2. p \in Scope /\ p \notin seen
    BY <2>1 DEF Pruned
  <2>3. QED
    BY <2>1, <2>2, SteadyIsSeen
<1>2. QED
  BY <1>1, Inductive, PTL DEF Spec, PruneIsJustified

\* A run writes and prunes only below its own scan roots.
THEOREM ScopeIsRespected == Spec => RunStaysInScope
<1>1. IInv /\ [Next]_vars =>
        \A p \in Path : index'[p] # index[p] =>
            \/ p \in Scope
            \/ index' = NoRows /\ (pc = "migrate" \/ ~conn')
  <2> SUFFICES ASSUME IInv, [Next]_vars, NEW p \in Path, index'[p] # index[p],
                      p \notin Scope
               PROVE  index' = NoRows /\ (pc = "migrate" \/ ~conn')
    OBVIOUS
  <2>0. index' # index
    OBVIOUS
  <2>1. p \notin BatchPaths
    BY DEF IInv, WalkInScope, BatchPaths, InFlight, PathsOf
  <2>2. Upserted[p] = index[p] /\ Pruned[p] = index[p]
    BY <2>1 DEF Upserted, Pruned
  <2>3. index' # Upserted /\ index' # Pruned
    BY <2>2
  <2>4. MigrateHashWidth \/ (DatabaseCrash /\ index' = NoRows)
    <3>1. \/ MigrateHashWidth
          \/ InsertBatch
          \/ InsertBatchFails /\ index' = Upserted
          \/ pc = "cleanup" /\ conn /\ index' = Pruned
          \/ DatabaseCrash /\ index' = NoRows
      BY <2>0, IndexWriters
    <3>2. ~InsertBatch
      BY <2>3 DEF InsertBatch
    <3>3. QED
      BY <2>3, <3>1, <3>2
  <2>5. QED
    BY <2>0, <2>4 DEF MigrateHashWidth, DatabaseCrash
<1>2. QED
  BY <1>1, Inductive, PTL DEF Spec, RunStaysInScope

\* A run about to report success leaves a scan of the disk under its roots.
THEOREM SuccessIsHonest == Spec => []SuccessReflectsDisk
<1>1. IInv => SuccessReflectsDisk
  <2> SUFFICES ASSUME IInv, pc = "finish", conn, NEW p \in Scope
               PROVE  /\ index[p] # None => index[p] \in life[p]
                      /\ Steady(p) /\ ~Blind(p) => index[p] # None
    BY DEF SuccessReflectsDisk
  <2>1. Steady(p) /\ ~Blind(p) => p \in seen
    BY SteadyIsSeen
  <2>2. index[p] # None => p \in seen
    BY DEF IInv, OnlySeenRows
  <2>3. p \in seen => index[p] \in life[p] \ {None}
    BY DEF IInv, FreshRecords
  <2>4. QED
    BY <2>1, <2>2, <2>3
<1>2. QED
  BY <1>1, Inductive, PTL

\* The outcome of a session is final, except for a database crash.
THEOREM OutcomesAreFinal == Spec => OutcomeIsFinal
<1>1. IInv /\ [Next]_vars =>
        \A s \in Runs : status[s] \in {"success", "failed"} /\ status'[s] # status[s] =>
            DatabaseCrash
  <2> SUFFICES ASSUME IInv, [Next]_vars, NEW s \in Runs,
                      status[s] \in {"success", "failed"}, status'[s] # status[s]
               PROVE  DatabaseCrash
    OBVIOUS
  <2>1. TypeOK
    BY DEF IInv
  <2>2. ~WalkerStep
    BY DEF WalkerStep, Stat, StatFails, Send, ReadDir, ReadDirFails, WalkerPanic, dbVars
  <2>3. ~ReportProgress /\ ~UNCHANGED vars
    BY DEF ReportProgress, vars
  <2>4. ~RecordScanStart /\ ~EndScanSession
    <3>1. pc # "idle" => s # run
      BY DEF IInv, SessionIsOpen
    <3>2. QED
      BY <2>1, <3>1 DEF RecordScanStart, EndScanSession, TypeOK
  <2>5. ~ConnectAndReap
    BY DEF ConnectAndReap, ReapStaleSessions
  <2>6. ~MainStep
    BY <2>4, <2>5 DEF MainStep, MigrateHashWidth, SetupFails, tableVars, Recv, RecvClosed,
        InsertBatch, InsertBatchFails, JoinProducer, ResolveIdentities,
        CleanupStaleEntries, CreateQueryIndexes, ClosingFails, EndScanSessionFails, dbVars
  <2>7. Environment
    BY <2>2, <2>3, <2>6 DEF Next
  <2>8. QED
    BY <2>7 DEF Environment, StartRun, Write, Remove, DiskChange, Kill, ConnectionLost,
        dbVars, tableVars
<1>2. QED
  BY <1>1, Inductive, PTL DEF Spec, OutcomeIsFinal


----------------------------------------------------------------------------
(***************************************************************************)
(* Parents come first.                                                     *)
(***************************************************************************)

\* The record of a path was sent, or the path was skipped for its metadata.
Left(p) == p \in unstatted \cup PathsOf(Range(channel) \cup Range(batch)) \cup seen

\* A path the walk has got to.
Reached(p) == p \in stack \cup opened \cup PathsOf(InFlight) \cup seen

\* The run is under way, and every batch so far is in the index.
NoBatchLost == pc # "idle" /\ (conn \/ pc = "setup") /\ ~insert_failed

\* As long as no batch is lost, a directory is sent before it is listed, so
\* every entry the walk has got to below a root comes after its parent.
ParentsFirst ==
    NoBatchLost =>
        /\ \A p \in opened : Left(p)
        /\ \A d \in Scope : \A c \in Children(d) : Reached(c) => Left(d)

\* An entry is a child of one directory.
LEMMA OneParent ==
    ASSUME NEW p \in Path, NEW d \in Path, NEW c \in Children(p), c \in Children(d)
    PROVE  p = d
BY TreeAssumption DEF Children

\* A step that takes nothing back, lists only what was sent or skipped and
\* reaches only what comes after its parent, keeps parents first.
LEMMA ParentsFirstStep ==
    ASSUME ParentsFirst, NoBatchLost' => NoBatchLost, roots' = roots,
           \A p \in Path : Left(p) => Left(p)',
           opened \subseteq Path,
           \A p \in opened' \ opened : Left(p)',
           \A d \in Scope : \A c \in Children(d) : Reached(c)' => Reached(c) \/ Left(d)'
    PROVE  ParentsFirst'
<1>1. Scope' = Scope /\ Scope \subseteq Path
  BY DEF Scope, Under
<1>2. SUFFICES ASSUME NoBatchLost'
               PROVE  /\ \A p \in opened' : Left(p)'
                      /\ \A d \in Scope : \A c \in Children(d) : Reached(c)' => Left(d)'
  BY <1>1 DEF ParentsFirst
<1>3. /\ \A p \in opened : Left(p)
      /\ \A d \in Scope : \A c \in Children(d) : Reached(c) => Left(d)
  BY <1>2 DEF ParentsFirst
<1>4. QED
  BY <1>1, <1>3

\* A step that leaves the walk, the channel, the batch and the hashes seen
\* alone keeps parents first.
LEMMA ParentsFirstFrame ==
    ASSUME IInv, ParentsFirst, NoBatchLost' => NoBatchLost,
           UNCHANGED <<roots, stack, held, opened, unstatted, channel, batch, seen>>
    PROVE  ParentsFirst'
<1>1. \A p \in Path : Left(p) => Left(p)'
  BY DEF Left
<1>2. \A c : Reached(c)' => Reached(c)
  BY DEF Reached, InFlight
<1>3. QED
  BY <1>1, <1>2, ParentsFirstStep DEF IInv, TypeOK

\* The walker threads list a directory only after they sent or skipped it.
LEMMA WalkerParents ==
    ASSUME IInv, ParentsFirst, WalkerStep PROVE ParentsFirst'
<1> USE DEF diskVars, dbVars, mainVars
<1>0. opened \subseteq Path /\ held \subseteq Record /\ channel \in Seq(Record)
  BY DEF IInv, TypeOK
<1>g. (NoBatchLost' => NoBatchLost) /\ roots' = roots /\ seen' = seen /\ batch' = batch
  BY DEF WalkerStep, Stat, StatFails, Send, ReadDir, ReadDirFails, WalkerPanic, NoBatchLost
<1>1. CASE \E p \in stack : Stat(p)
  <2>1. PICK p \in stack : Stat(p)
    BY <1>1
  <2> DEFINE rec == [path |-> p, meta |-> disk[p]]
  <2>2. /\ stack' = stack \ {p} /\ opened' = opened /\ unstatted' = unstatted
        /\ InFlight' = InFlight \cup {rec} /\ channel' = channel
    BY <2>1, <1>g DEF Stat, InFlight
  <2>3. PathsOf(InFlight') = PathsOf(InFlight) \cup {rec.path} /\ rec.path = p
    BY <2>2, PathsOfAdd
  <2>4. \A q \in Path : Left(q) => Left(q)'
    BY <2>2, <1>g DEF Left
  <2>5. PathsOf(InFlight)' = PathsOf(InFlight')
    BY DEF PathsOf
  <2>6. \A c : Reached(c)' => Reached(c)
    BY <2>1, <2>2, <2>3, <2>5, <1>g DEF Reached
  <2>7. QED
    BY <2>2, <2>4, <2>6, <1>0, <1>g, ParentsFirstStep
<1>2. CASE \E p \in stack : StatFails(p)
  <2>1. PICK p \in stack : StatFails(p)
    BY <1>2
  <2>2. /\ stack' = stack \ {p} /\ opened' \subseteq opened \cup {p}
        /\ unstatted' = unstatted \cup {p} /\ channel' = channel /\ held' = held
    BY <2>1 DEF StatFails
  <2>3. \A q : (Left(q) => Left(q)') /\ Left(p)'
    BY <2>2, <1>g DEF Left
  <2>4. \A c : Reached(c)' => Reached(c)
    BY <2>2, <1>g DEF Reached, InFlight
  <2>5. QED
    BY <2>2, <2>3, <2>4, <1>0, <1>g, ParentsFirstStep
<1>3. CASE \E r \in held : Send(r)
  <2>1. PICK r \in held : Send(r)
    BY <1>3
  <2>2. Range(channel') = Range(channel) \cup {r}
    BY <2>1, <1>0, RangeOfAppend DEF Send
  <2>3. /\ stack' = stack /\ opened' \subseteq opened \cup {r.path}
        /\ unstatted' = unstatted /\ held' = held \ {r}
    BY <2>1 DEF Send
  <2>4. \A q : (Left(q) => Left(q)') /\ Left(r.path)'
    BY <2>2, <2>3, <1>g DEF Left, PathsOf
  <2>5. \A c : Reached(c)' => Reached(c)
    <3>1. InFlight' = InFlight
      BY <2>2, <2>3, <1>g, <2>1 DEF InFlight
    <3>2. PathsOf(InFlight)' = PathsOf(InFlight) /\ r.path \in PathsOf(InFlight)
      BY <3>1, <2>1 DEF PathsOf, InFlight
    <3>3. QED
      BY <3>2, <2>3, <1>g DEF Reached
  <2>6. QED
    BY <2>3, <2>4, <2>5, <1>0, <1>g, ParentsFirstStep
<1>4. CASE \E p \in opened : ReadDir(p)
  <2>1. PICK p \in opened : ReadDir(p)
    BY <1>4
  <2>2. /\ stack' \subseteq stack \cup Children(p) /\ opened' \subseteq opened
        /\ unstatted' = unstatted /\ channel' = channel /\ held' = held
    BY <2>1 DEF ReadDir
  <2>3. \A q : Left(q) => Left(q)'
    BY <2>2, <1>g DEF Left
  <2>4. SUFFICES ASSUME NoBatchLost' PROVE ParentsFirst'
    BY DEF ParentsFirst
  <2>5. Left(p) /\ p \in Path
    BY <2>1, <2>4, <1>g, <1>0 DEF ParentsFirst
  <2>6. ASSUME NEW d \in Scope, NEW c \in Children(d), Reached(c)'
        PROVE  Reached(c) \/ Left(d)'
    <3>1. CASE c \in Children(p)
      <4>1. d \in Path
        BY DEF Scope
      <4>2. p = d
        BY <3>1, <4>1, <2>5, OneParent
      <4>3. QED
        BY <4>2, <2>3, <2>5
    <3>2. CASE c \notin Children(p)
      BY <3>2, <2>2, <2>6, <1>g DEF Reached, InFlight
    <3>3. QED
      BY <3>1, <3>2
  <2>7. QED
    BY <2>2, <2>3, <2>6, <1>0, <1>g, ParentsFirstStep
<1>5. CASE (\E p \in opened : ReadDirFails(p)) \/ WalkerPanic
  <2>1. /\ stack' = stack /\ opened' \subseteq opened /\ unstatted' = unstatted
        /\ channel' = channel /\ held' \subseteq held
    BY <1>5 DEF ReadDirFails, WalkerPanic
  <2>2. \A q : Left(q) => Left(q)'
    BY <2>1, <1>g DEF Left
  <2>3. \A c : Reached(c)' => Reached(c)
    BY <2>1, <1>g DEF Reached, InFlight, PathsOf
  <2>4. QED
    BY <2>1, <2>2, <2>3, <1>0, <1>g, ParentsFirstStep
<1>6. QED
  BY <1>1, <1>2, <1>3, <1>4, <1>5 DEF WalkerStep

\* The consumer hands records on in the order it received them, into the
\* hashes seen or into a failed batch.
LEMMA ConsumerParents ==
    ASSUME IInv, ParentsFirst, Recv \/ RecvClosed \/ InsertBatch \/ InsertBatchFails
    PROVE  ParentsFirst'
<1> USE DEF diskVars, dbVars, walkVars
<1>0. opened \subseteq Path /\ channel \in Seq(Record) /\ batch \in Seq(Record)
  BY DEF IInv, TypeOK
<1>1. CASE Recv
  <2>1. Range(channel') \cup Range(batch') = Range(channel) \cup Range(batch)
    <3>1. /\ Head(channel) \in Record
          /\ Range(channel) = Range(Tail(channel)) \cup {Head(channel)}
      BY <1>0, <1>1, RangeOfTail DEF Recv
    <3>2. Range(Append(batch, Head(channel))) = Range(batch) \cup {Head(channel)}
      BY <1>0, <3>1, RangeOfAppend
    <3>3. QED
      BY <3>1, <3>2, <1>1 DEF Recv
  <2>2. /\ UNCHANGED <<stack, held, opened, unstatted, seen, roots>>
        /\ NoBatchLost' => NoBatchLost
    BY <1>1 DEF Recv, NoBatchLost
  <2>3. \A q : Left(q) => Left(q)'
    BY <2>1, <2>2 DEF Left
  <2>4. \A c : Reached(c)' => Reached(c)
    <3>1. InFlight' = InFlight
      BY <2>1, <2>2 DEF InFlight
    <3>2. QED
      BY <3>1, <2>2 DEF Reached, PathsOf
  <2>5. QED
    BY <2>2, <2>3, <2>4, <1>0, ParentsFirstStep
<1>2. CASE RecvClosed
  BY <1>2, ParentsFirstFrame DEF RecvClosed, NoBatchLost
<1>3. CASE InsertBatch
  <2>1. /\ Range(batch') = {} /\ seen' = seen \cup PathsOf(Range(batch))
        /\ UNCHANGED <<stack, held, opened, unstatted, channel, roots>>
        /\ NoBatchLost' => NoBatchLost
    BY <1>3, RangeOfEmpty DEF InsertBatch, BatchPaths, NoBatchLost
  <2>2. \A q : Left(q) => Left(q)'
    BY <2>1 DEF Left, PathsOf
  <2>3. \A c : Reached(c)' => Reached(c)
    BY <2>1 DEF Reached, InFlight, PathsOf
  <2>4. QED
    BY <2>1, <2>2, <2>3, <1>0, ParentsFirstStep
<1>4. CASE InsertBatchFails
  BY <1>4 DEF InsertBatchFails, ParentsFirst, NoBatchLost
<1>5. QED
  BY <1>1, <1>2, <1>3, <1>4

\* A run starts at its roots, and no root lies below another.
LEMMA StartParents ==
    ASSUME IInv, NEW R \in RootSets, StartRun(R) PROVE ParentsFirst'
<1>1. /\ opened = {} /\ held = {} /\ channel = <<>> /\ batch = <<>> /\ seen = {}
  BY DEF StartRun, IInv, StageFacts, WalkDone
<1>2. InFlight = {}
  BY <1>1, RangeOfEmpty DEF InFlight
<1>3. /\ UNCHANGED <<opened, held, channel, batch, seen>> /\ stack' = R /\ roots' = R
  BY DEF StartRun, dbVars
<1>4. \A c : Reached(c)' => c \in R
  BY <1>1, <1>2, <1>3 DEF Reached, InFlight, PathsOf
<1>5. ASSUME NEW d \in Scope', NEW c \in Children(d), c \in R PROVE FALSE
  <2>1. PICK r \in R : d = r \/ r \in Anc[d]
    BY <1>3 DEF Scope, Under
  <2>2. c \in Path /\ Anc[c] = Anc[d] \cup {d}
    BY DEF Children
  <2>3. r \in Anc[c]
    BY <2>1, <2>2
  <2>4. QED
    BY <2>3, <1>5, RootsAssumption
<1>6. QED
  BY <1>1, <1>3, <1>4, <1>5 DEF ParentsFirst

\* Every step keeps parents first.
LEMMA StepParents ==
    ASSUME IInv, ParentsFirst, [Next]_vars PROVE ParentsFirst'
<1> USE DEF diskVars, tableVars, dbVars, mainVars, walkVars
<1>1. CASE Exit
  BY <1>1 DEF Exit, ParentsFirst, NoBatchLost
<1>2. CASE /\ UNCHANGED <<roots, stack, held, opened, unstatted, channel, batch, seen>>
           /\ NoBatchLost' => NoBatchLost
  BY <1>2, ParentsFirstFrame
<1>3. CASE ~NoBatchLost'
  BY <1>3 DEF ParentsFirst
<1>4. ASSUME MainStep PROVE ParentsFirst'
  <2>1. CASE ConnectAndReap \/ MigrateHashWidth \/ RecordScanStart
    BY <2>1, <1>2 DEF ConnectAndReap, MigrateHashWidth, RecordScanStart, NoBatchLost
  <2>2. CASE SetupFails \/ EndScanSession \/ EndScanSessionFails
    BY <2>2, <1>1 DEF SetupFails, EndScanSession, EndScanSessionFails
  <2>3. CASE \/ JoinProducer \/ ResolveIdentities \/ CleanupStaleEntries
             \/ CreateQueryIndexes
    BY <2>3, <1>2 DEF JoinProducer, ResolveIdentities, CleanupStaleEntries,
        CreateQueryIndexes, NoBatchLost
  <2>4. CASE ClosingFails
    BY <2>4, <1>2, <1>3 DEF ClosingFails, NoBatchLost
  <2>5. QED
    BY <1>4, <2>1, <2>2, <2>3, <2>4, ConsumerParents DEF MainStep
<1>5. ASSUME Environment PROVE ParentsFirst'
  <2>1. CASE \E p \in Path, m \in Entry : DiskChange(p, m)
    BY <2>1, <1>2 DEF DiskChange, NoBatchLost
  <2>2. CASE Kill
    BY <2>2, <1>1 DEF Kill
  <2>3. CASE ConnectionLost
    BY <2>3, <1>3 DEF ConnectionLost, IInv, StageFacts, NoBatchLost
  <2>4. CASE DatabaseCrash
    <3>1. CASE pc = "setup"
      BY <2>4, <3>1, <1>2 DEF DatabaseCrash, IInv, StageFacts, Setup, NoBatchLost
    <3>2. CASE pc # "setup"
      BY <2>4, <3>2, <1>3 DEF DatabaseCrash, NoBatchLost
    <3>3. QED
      BY <3>1, <3>2
  <2>5. QED
    BY <1>5, <2>1, <2>2, <2>3, <2>4, StartParents DEF Environment, Write, Remove, Entry
<1>6. CASE ReportProgress \/ UNCHANGED vars
  BY <1>6, <1>2 DEF ReportProgress, vars, NoBatchLost
<1>7. QED
  BY <1>4, <1>5, <1>6, WalkerParents DEF Next

\* When a run is about to report success, the parent of every row below a
\* root has a row, unless its own metadata could not be read: the tree that
\* /api/list walks by parent_hash has no orphans, whatever the walk met.
THEOREM NoRowIsOrphaned == Spec => []NoOrphans
<1>1. Init => ParentsFirst
  BY DEF Init, ParentsFirst, NoBatchLost
<1>2. IInv /\ ParentsFirst /\ [Next]_vars => ParentsFirst'
  BY StepParents
<1>3. IInv /\ ParentsFirst => NoOrphans
  <2> SUFFICES ASSUME IInv, ParentsFirst, pc = "finish", conn,
                      NEW d \in Scope, NEW c \in Children(d), index[c] # None,
                      d \notin unstatted
               PROVE  index[d] # None
    BY DEF NoOrphans
  <2>1. c \in Scope
    BY ChildrenInScope
  <2>2. c \in seen
    BY <2>1 DEF IInv, OnlySeenRows
  <2>3. NoBatchLost /\ channel = <<>> /\ batch = <<>>
    BY DEF IInv, StageFacts, NoBatchLost
  <2>4. Left(d)
    BY <2>2, <2>3 DEF ParentsFirst, Reached
  <2>5. d \in seen
    BY <2>3, <2>4, RangeOfEmpty DEF Left, PathsOf
  <2>6. QED
    BY <2>5 DEF IInv, FreshRecords
<1>4. QED
  BY <1>1, <1>2, <1>3, Inductive, PTL DEF Spec

----------------------------------------------------------------------------
(***************************************************************************)
(* The indexer keeps what IndexContract promises.                          *)
(***************************************************************************)

\* Between runs nothing is left of a run; the one under way has the roots it
\* was configured with, and past the setup, as long as it has its connection,
\* its session is open.
RunsApart ==
    /\ pc = "idle" => roots = {} /\ unstatted = {} /\ unlisted = {} /\ life = [p \in Path |-> {}]
    /\ pc # "idle" => roots \in RootSets
    /\ conn /\ pc \notin Setup \cup {"idle"} => status[run] = "running"

\* A step within a run that leaves the sessions alone.
LEMMA RunsApartFrame ==
    ASSUME RunsApart, pc # "idle", pc' # "idle", UNCHANGED <<roots, status, run>>,
           conn' => conn /\ (pc' \in Setup \/ pc \notin Setup)
    PROVE  RunsApart'
BY DEF RunsApart

LEMMA ExitKeepsApart == ASSUME Exit PROVE RunsApart'
BY DEF Exit, RunsApart

\* Every step keeps the runs apart.
LEMMA StepApart ==
    ASSUME IInv, RunsApart, [Next]_vars PROVE RunsApart'
<1> USE DEF diskVars, tableVars, dbVars, mainVars, walkVars
<1>0. TypeOK /\ StageFacts /\ SessionIsOpen
  BY DEF IInv
<1>1. CASE Exit
  BY <1>1, ExitKeepsApart
<1>2. CASE WalkerStep
  <2>1. pc # "idle"
    BY <1>0, <1>2 DEF WalkerStep, StageFacts, WalkDone, Stat, StatFails, Send, ReadDir, ReadDirFails, WalkerPanic
  <2>2. UNCHANGED <<pc, roots, status, run, conn>>
    BY <1>2 DEF WalkerStep, Stat, StatFails, Send, ReadDir, ReadDirFails, WalkerPanic
  <2>3. QED
    BY <2>1, <2>2, RunsApartFrame
<1>3. CASE ConnectAndReap
  BY <1>3 DEF ConnectAndReap, RunsApart, Setup
<1>4. CASE RecordScanStart
  <2>1. run \in Runs /\ status' = [status EXCEPT ![run] = "running"]
    BY <1>0, <1>4 DEF RecordScanStart, TypeOK
  <2>2. status'[run] = "running" /\ UNCHANGED <<run, roots>> /\ pc # "idle" /\ pc' # "idle"
    BY <1>0, <1>4, <2>1 DEF RecordScanStart, TypeOK
  <2>3. QED
    BY <2>2 DEF RunsApart
<1>5. CASE \/ MigrateHashWidth \/ Recv \/ RecvClosed \/ InsertBatch \/ InsertBatchFails \/ JoinProducer
           \/ ResolveIdentities \/ CleanupStaleEntries \/ CreateQueryIndexes \/ ClosingFails
           \/ ReportProgress
  <2>1. /\ pc # "idle" /\ pc' # "idle" /\ UNCHANGED <<roots, status, run>> /\ (conn' => conn)
        /\ pc' \in Setup \/ pc \notin Setup
    BY <1>5 DEF MigrateHashWidth, Recv, RecvClosed, InsertBatch, InsertBatchFails, AfterFlush, JoinProducer,
        ResolveIdentities, CleanupStaleEntries, CreateQueryIndexes, ClosingFails, ReportProgress, Setup
  <2>2. QED
    BY <2>1, RunsApartFrame
<1>6. CASE \E R \in RootSets : StartRun(R)
  BY <1>0, <1>6 DEF StartRun, RunsApart, StageFacts
<1>7. CASE (\E p \in Path : Remove(p) \/ \E m \in Meta : Write(p, m)) \/ UNCHANGED vars
  BY <1>7 DEF Remove, Write, DiskChange, RunsApart, vars
<1>8. CASE ConnectionLost \/ DatabaseCrash
  BY <1>8 DEF ConnectionLost, DatabaseCrash, RunsApart
<1>9. QED
  BY <1>1, <1>2, <1>3, <1>4, <1>5, <1>6, <1>7, <1>8
     DEF Next, MainStep, Environment, SetupFails, EndScanSession, EndScanSessionFails, Kill

\* A run is about something exactly while it is under way.
LEMMA ScopeIsOfRun ==
    ASSUME RunsApart
    PROVE  /\ pc = "idle" => Scope = {}
           /\ pc # "idle" => Scope # {} /\ Scope \in {{p \in Path : Under(p, R)} : R \in RootSets}
<1>1. pc = "idle" => Scope = {}
  BY DEF RunsApart, Scope, Under
<1>2. ASSUME pc # "idle" PROVE Scope # {} /\ Scope \in {{p \in Path : Under(p, R)} : R \in RootSets}
  <2>1. roots \in RootSets /\ roots # {} /\ roots \subseteq Path
    BY <1>2, RootsAssumption DEF RunsApart
  <2>2. roots \subseteq Scope
    BY <2>1 DEF Scope, Under
  <2>3. QED
    BY <2>1, <2>2 DEF Scope
<1>3. QED
  BY <1>1, <1>2

\* What the run has skipped, for the contract.
Skipped == {p \in Path : Blind(p)}

\* Nothing that readers are promised anything about changes.
LEMMA Stutters ==
    ASSUME UNCHANGED <<disk, index, status, run, roots, life, unstatted, unlisted>>
    PROVE  UNCHANGED Contract!vars
<1>1. Scope' = Scope /\ Skipped' = Skipped
  BY DEF Scope, Under, Skipped, Blind
<1>2. QED
  BY <1>1 DEF Contract!vars, Skipped

\* A step of the walker skips, or it is none of the readers' business.
LEMMA WalkerPromise ==
    ASSUME IInv, RunsApart, WalkerStep
    PROVE  [Contract!Next]_(Contract!vars)
<1> USE DEF dbVars, mainVars, diskVars
<1>1. /\ UNCHANGED <<disk, index, status, run, roots, life, pc>>
      /\ unstatted \subseteq unstatted' /\ unlisted \subseteq unlisted'
  BY DEF WalkerStep, Stat, StatFails, Send, ReadDir, ReadDirFails, WalkerPanic
<1>2. Scope' = Scope /\ Skipped \subseteq Skipped' /\ Skipped' \subseteq Path
  BY <1>1 DEF Scope, Under, Skipped, Blind
<1>3. pc # "idle"
  BY DEF IInv, WalkerStep, StageFacts, WalkDone, Stat, StatFails, Send, ReadDir, ReadDirFails, WalkerPanic
<1>4. Contract!Skip
  BY <1>1, <1>2, <1>3, ScopeIsOfRun DEF Contract!Skip, Skipped
<1>5. QED
  BY <1>4 DEF Contract!Next

\* The process is gone: the scan has ended without a word, or with the outcome
\* it has written.
LEMMA ExitPromise ==
    ASSUME RunsApart, pc # "idle", Exit, UNCHANGED <<disk, index>>
    PROVE  Contract!End
<1>1. Scope' = {}
  BY DEF Exit, Scope, Under
<1>2. Skipped' = {}
  BY TreeAssumption DEF Exit, Skipped, Blind
<1>3. life' = Contract!Nothing /\ run' = run
  BY DEF Exit, Contract!Nothing
<1>4. QED
  BY <1>1, <1>2, <1>3, ScopeIsOfRun DEF Contract!End, Skipped

\* The setup reaps, drops the rows of an older release, and opens the session.
LEMMA SetupPromise ==
    ASSUME IInv, RunsApart, ConnectAndReap \/ MigrateHashWidth \/ RecordScanStart \/ SetupFails
    PROVE  [Contract!Next]_(Contract!vars)
<1> USE DEF diskVars, tableVars, dbVars, walkVars, mainVars
<1>0. pc # "idle" /\ Scope # {} /\ status[run] = "none"
  BY ScopeIsOfRun DEF ConnectAndReap, MigrateHashWidth, RecordScanStart, SetupFails, Setup, IInv, SessionIsOpen
<1>1. CASE ConnectAndReap
  <2>1. /\ UNCHANGED <<disk, index, run, roots, life, unstatted, unlisted>>
        /\ ReapStaleSessions \/ UNCHANGED status
    BY <1>1 DEF ConnectAndReap
  <2>2. Scope' = Scope /\ Skipped' = Skipped
    BY <2>1 DEF Scope, Under, Skipped, Blind
  <2>3. CASE ReapStaleSessions
    BY <1>0, <2>1, <2>2, <2>3 DEF ReapStaleSessions, Contract!Reap, Contract!Next, Skipped
  <2>4. QED
    BY <2>1, <2>3, Stutters
<1>2. CASE MigrateHashWidth
  <2>1. UNCHANGED <<disk, status, run, roots, life, unstatted, unlisted>> /\ index' \in {index, NoRows}
    BY <1>2 DEF MigrateHashWidth
  <2>2. Scope' = Scope /\ Skipped' = Skipped /\ NoRows = Contract!NoRows
    BY <2>1 DEF Scope, Under, Skipped, Blind, NoRows, Contract!NoRows
  <2>3. Contract!Lose
    BY <2>1, <2>2 DEF Contract!Lose, Skipped
  <2>4. QED
    BY <2>3 DEF Contract!Next
<1>3. CASE RecordScanStart
  <2>1. /\ UNCHANGED <<disk, index, run, roots, life, unstatted, unlisted>>
        /\ status' = [status EXCEPT ![run] = "running"]
    BY <1>3 DEF RecordScanStart
  <2>2. Scope' = Scope /\ Skipped' = Skipped
    BY <2>1 DEF Scope, Under, Skipped, Blind
  <2>3. Contract!Record
    BY <1>0, <2>1, <2>2 DEF Contract!Record, Skipped
  <2>4. QED
    BY <2>3 DEF Contract!Next
<1>4. CASE SetupFails
  <2>1. Contract!End /\ UNCHANGED status
    BY <1>0, <1>4, ExitPromise DEF SetupFails
  <2>2. QED
    BY <2>1 DEF Contract!GiveUp, Contract!Next
<1>5. QED
  BY <1>1, <1>2, <1>3, <1>4

\* A batch writes what its records say, which their paths have been.
LEMMA ConsumerPromise ==
    ASSUME IInv, RunsApart, Recv \/ RecvClosed \/ InsertBatch \/ InsertBatchFails \/ ReportProgress
    PROVE  [Contract!Next]_(Contract!vars)
<1> USE DEF diskVars, tableVars, dbVars, walkVars, mainVars
<1>1. /\ UNCHANGED <<disk, status, run, roots, life, unstatted, unlisted>> /\ pc # "idle"
      /\ index' \in {index, Upserted}
  BY DEF Recv, RecvClosed, InsertBatch, InsertBatchFails, ReportProgress
<1>2. CASE index' = index
  BY <1>1, <1>2, Stutters
<1>3. CASE index' = Upserted
  <2>1. Scope' = Scope /\ Skipped' = Skipped
    BY <1>1 DEF Scope, Under, Skipped, Blind
  <2>2. Upserted \in [Path -> Entry]
    BY UpsertedType DEF IInv
  <2>3. ASSUME NEW p \in Path, index'[p] # index[p]
        PROVE  p \in Scope /\ index'[p] \in life[p] \ {None}
    <3>1. p \in BatchPaths
      BY <1>3, <2>3 DEF Upserted
    <3>2. p \in PathsOf(InFlight) /\ index'[p] \in life[p] \ {None}
      BY <1>1, <1>3, <3>1, UpsertedIsFresh
    <3>3. QED
      BY <3>2 DEF IInv, WalkInScope
  <2>4. Contract!Write
    BY <1>1, <1>3, <2>1, <2>2, <2>3 DEF Contract!Write, Contract!Index, Entry, Skipped
  <2>5. QED
    BY <2>4 DEF Contract!Next
<1>4. QED
  BY <1>1, <1>2, <1>3

\* The cleanup deletes what was gone or skipped.
LEMMA PrunePromise ==
    ASSUME IInv, RunsApart, pc = "cleanup", conn, index' = Pruned,
           UNCHANGED <<disk, status, run, roots, life, unstatted, unlisted>>
    PROVE  Contract!Prune
<1>1. Scope' = Scope /\ Skipped' = Skipped
  BY DEF Scope, Under, Skipped, Blind
<1>2. Pruned \in [Path -> Entry]
  BY PrunedType DEF IInv
<1>3. ASSUME NEW p \in Path, index'[p] # index[p]
      PROVE  p \in Scope /\ index'[p] = None /\ (None \in life[p] \/ p \in Skipped)
  <2>1. p \in Scope /\ p \notin seen /\ index'[p] = None
    BY <1>3 DEF Pruned
  <2>2. ~Steady(p) \/ Blind(p)
    BY <2>1, SteadyIsSeen
  <2>3. QED
    BY <2>1, <2>2 DEF Steady, Skipped
<1>4. QED
  BY <1>1, <1>2, <1>3 DEF Contract!Prune, Contract!Index, Entry, Skipped

\* A run that reports success leaves the rows of its paths showing the disk.
LEMMA SuccessPromise ==
    ASSUME IInv, RunsApart, EndScanSession
    PROVE  [Contract!Next]_(Contract!vars)
<1>1. /\ pc \in {"finish", "fail"} /\ conn /\ Exit /\ UNCHANGED <<disk, index>>
      /\ status' = [status EXCEPT ![run] = IF pc = "finish" THEN "success" ELSE "failed"]
  BY DEF EndScanSession, diskVars
<1>2. Contract!End /\ status[run] = "running"
  BY <1>1, ExitPromise DEF RunsApart, Setup
<1>3. CASE pc = "finish"
  <2>1. ASSUME NEW p \in Scope PROVE Contract!Shown(p)
    <3>1. /\ index[p] # None => p \in seen
          /\ p \in seen => index[p] \in life[p] \ {None}
      BY <1>1, <1>3 DEF IInv, OnlySeenRows, FreshRecords
    <3>2. None \notin life[p] /\ ~Blind(p) => p \in seen
      BY <1>1, <1>3, SteadyIsSeen DEF Steady
    <3>3. QED
      BY <3>1, <3>2 DEF Contract!Shown, Scope
  <2>2. Contract!Succeed
    BY <1>1, <1>2, <1>3, <2>1 DEF Contract!Succeed
  <2>3. QED
    BY <2>2 DEF Contract!Next
<1>4. CASE pc = "fail"
  BY <1>1, <1>2, <1>4 DEF Contract!GiveUp, Contract!Next
<1>5. QED
  BY <1>1, <1>3, <1>4

\* What surrounds the indexer.
LEMMA EnvironmentPromise ==
    ASSUME IInv, RunsApart, Environment
    PROVE  [Contract!Next]_(Contract!vars)
<1> USE DEF diskVars, tableVars, dbVars, walkVars, mainVars
<1>1. ASSUME NEW R \in RootSets, StartRun(R) PROVE Contract!Begin
  <2>1. /\ pc = "idle" /\ roots' = R /\ run' = run + 1 /\ life' = [p \in Path |-> {disk[p]}]
        /\ UNCHANGED <<disk, index, status, unstatted, unlisted>>
    BY <1>1 DEF StartRun
  <2>2. Scope = {} /\ Scope' = {p \in Path : Under(p, R)} /\ Skipped' = Skipped
    BY <2>1, ScopeIsOfRun DEF Scope, Skipped, Blind, Under
  <2>3. QED
    BY <2>1, <2>2 DEF Contract!Begin, Skipped
<1>2. ASSUME NEW p \in Path, NEW m \in Entry, DiskChange(p, m) PROVE Contract!Change
  <2>1. /\ disk' = [disk EXCEPT ![p] = m] /\ UNCHANGED <<index, status, run, roots, unstatted, unlisted>>
        /\ life' = IF pc = "idle" THEN life ELSE [life EXCEPT ![p] = @ \cup {m}]
    BY <1>2 DEF DiskChange
  <2>2. Scope' = Scope /\ Skipped' = Skipped /\ (Scope = {} <=> pc = "idle")
    BY <2>1, ScopeIsOfRun DEF Scope, Skipped, Blind, Under
  <2>3. QED
    BY <2>1, <2>2 DEF Contract!Change, Skipped, Entry
<1>3. CASE Kill
  <2>1. Contract!End /\ UNCHANGED status
    BY <1>3, ExitPromise DEF Kill
  <2>2. QED
    BY <2>1 DEF Contract!GiveUp, Contract!Next
<1>4. CASE ConnectionLost
  BY <1>4, Stutters DEF ConnectionLost
<1>5. CASE DatabaseCrash
  <2>1. UNCHANGED <<disk, run, roots, life, unstatted, unlisted>> /\ index' \in {index, NoRows}
    BY <1>5 DEF DatabaseCrash
  <2>2. \/ UNCHANGED status
        \/ /\ run > 0 /\ status[run] # "none"
           /\ status' = [status EXCEPT ![run] = RowBefore(@)]
    BY <1>5 DEF DatabaseCrash
  <2>3. run \in Nat /\ (run > 0 => run \in Runs)
    BY BoundsAssumption DEF IInv, TypeOK, Runs
  <2>4. Scope' = Scope /\ Skipped' = Skipped /\ NoRows = Contract!NoRows
    BY <2>1 DEF Scope, Under, Skipped, Blind, NoRows, Contract!NoRows
  <2>5. Contract!Lose
    BY <2>1, <2>2, <2>3, <2>4 DEF Contract!Lose, Skipped, RowBefore
  <2>6. QED
    BY <2>5 DEF Contract!Next
<1>6. QED
  BY <1>1, <1>2, <1>3, <1>4, <1>5 DEF Environment, Remove, Write, Entry, Contract!Next

\* The indexer implements IndexContract.
THEOREM IndexerKeepsContract == Spec => IndexIsScanned
<1>1. Init => Contract!Init /\ RunsApart
  <2> SUFFICES ASSUME Init PROVE Contract!Init /\ RunsApart
    OBVIOUS
  <2>1. RunsApart
    BY DEF Init, RunsApart
  <2>2. Scope = {} /\ Skipped = {}
    BY TreeAssumption DEF Init, Scope, Under, Skipped, Blind
  <2>3. disk \in [Path -> Entry] /\ index \in [Path -> Entry]
    BY DEF Init, NoRows, Entry
  <2>4. QED
    BY <2>1, <2>2, <2>3 DEF Init, Contract!Init, Contract!Index, Contract!Nothing, Entry, Skipped
<1>2. IInv /\ RunsApart /\ [Next]_vars => RunsApart'
  BY StepApart
<1>3. IInv /\ RunsApart /\ [Next]_vars => [Contract!Next]_(Contract!vars)
  <2> SUFFICES ASSUME IInv, RunsApart, [Next]_vars PROVE [Contract!Next]_(Contract!vars)
    OBVIOUS
  <2>1. CASE WalkerStep
    BY <2>1, WalkerPromise
  <2>2. CASE ConnectAndReap \/ MigrateHashWidth \/ RecordScanStart \/ SetupFails
    BY <2>2, SetupPromise
  <2>3. CASE Recv \/ RecvClosed \/ InsertBatch \/ InsertBatchFails \/ ReportProgress
    BY <2>3, ConsumerPromise
  <2>4. CASE \/ JoinProducer \/ ResolveIdentities \/ CleanupStaleEntries \/ CreateQueryIndexes \/ ClosingFails
    <3>1. /\ UNCHANGED <<disk, status, run, roots, life, unstatted, unlisted>>
          /\ index' = index \/ (pc = "cleanup" /\ conn /\ index' = Pruned)
      BY <2>4 DEF JoinProducer, ResolveIdentities, CleanupStaleEntries, CreateQueryIndexes, ClosingFails,
          diskVars, dbVars, walkVars
    <3>2. CASE index' = index
      BY <3>1, <3>2, Stutters
    <3>3. CASE pc = "cleanup" /\ conn /\ index' = Pruned
      BY <3>1, <3>3, PrunePromise DEF Contract!Next
    <3>4. QED
      BY <3>1, <3>2, <3>3
  <2>5. CASE EndScanSession
    BY <2>5, SuccessPromise
  <2>6. CASE EndScanSessionFails
    <3>1. Contract!End /\ UNCHANGED status
      BY <2>6, ExitPromise DEF EndScanSessionFails, diskVars, tableVars
    <3>2. QED
      BY <3>1 DEF Contract!GiveUp, Contract!Next
  <2>7. CASE Environment
    BY <2>7, EnvironmentPromise
  <2>8. CASE UNCHANGED vars
    BY <2>8, Stutters DEF vars
  <2>9. QED
    BY <2>1, <2>2, <2>3, <2>4, <2>5, <2>6, <2>7, <2>8 DEF Next, MainStep
<1>4. QED
  BY <1>1, <1>2, <1>3, Inductive, PTL DEF Spec, IndexIsScanned, Contract!Spec

=============================================================================
