----------------------------- MODULE Aggregator -----------------------------
(***************************************************************************)
(* fs_aggregator: one batch process that streams filesystem_index in       *)
(* whatever order PostgreSQL produces it, folds every row into each        *)
(* directory above it and into its owners, and replaces dir_stats and      *)
(* user_stats, all in one transaction.                                     *)
(*                                                                         *)
(* fs_indexer may write the index at the same time, requests of fs_api     *)
(* read the stats, statements fail, the process is killed, the database    *)
(* crashes.  Runs follow one another; two at a time are not modelled here. *)
(***************************************************************************)
EXTENDS Naturals, FiniteSets, FiniteSetsExt

CONSTANTS
    Path,             \* positions in the directory tree
    Slash,            \* "/"
    Kcore,            \* "/proc/kcore"
    Anc,              \* Anc[p]: the strict ancestors of p, Slash included
    Row,              \* rows of filesystem_index: [file_type, size, time, uid, gid]
    None,             \* no such row
    MaxSize,          \* i64::MAX
    FirstIndexes,     \* bound: the states of the index to begin with
    Request,          \* requests of fs_api that read the stats
    MaxRuns,          \* bound: runs of the aggregator
    MaxFaults,        \* bound: failures of the environment
    MaxChanges        \* bound: writes of fs_indexer

ASSUME TreeAssumption ==
    /\ Anc \in [Path -> SUBSET Path]
    /\ Slash \in Path /\ Kcore \in Path
    /\ \A p \in Path : p \notin Anc[p] /\ \A a \in Anc[p] : Anc[a] \subseteq Anc[p]
    /\ IsFiniteSet(Path)

ASSUME RowAssumption ==
    /\ MaxSize \in Nat
    /\ None \notin Row
    /\ \A r \in Row : r.size \in 0..MaxSize /\ r.time \in Nat

ASSUME BoundsAssumption ==
    /\ FirstIndexes \subseteq [Path -> Row \cup {None}]
    /\ MaxRuns \in Nat
    /\ MaxFaults \in Nat
    /\ MaxChanges \in Nat

VARIABLES
    \* The database.
    index,            \* filesystem_index: [Path -> Row \cup {None}]
    legacy,           \* its rows are keyed by path hashes of another width
    dir_stats,        \* the committed tables: a set of paths, a set of owners,
    user_stats,       \* each with its totals
    logged,           \* the stats tables predate UNLOGGED
    status,           \* scan_sessions.status of each run, "none" without a row
    files_scanned,    \* scan_sessions.files_scanned of each run
    lock,             \* ACCESS EXCLUSIVE on the stats tables: free, queued, held
    \* The process.
    run,              \* the number of runs started; the current run's session
    pc,               \* where the process stands; "idle" when there is none
    rows,             \* paths of the rows the portal has still to return
    aggregates,
    user_aggregates,
    processed,
    new_dir_stats,    \* the stats tables as the transaction sees them
    new_user_stats,
    \* fs_api.
    request,          \* [Request -> {"idle", "waiting", "reading"}]
    \* History and bounds.
    snapshot,         \* the state of the index the portal was opened on
    committed,        \* the runs whose transaction was committed
    changes,
    faults

contractVars == <<index, snapshot, dir_stats, user_stats>>
sessionVars  == <<status, files_scanned>>
foldVars     == <<rows, aggregates, user_aggregates, processed>>
newVars      == <<new_dir_stats, new_user_stats>>
vars == <<index, legacy, dir_stats, user_stats, logged, status, files_scanned, lock,
          run, pc, rows, aggregates, user_aggregates, processed, new_dir_stats,
          new_user_stats, request, snapshot, committed, changes, faults>>

\* The abstract specification this one implements.
Contract == INSTANCE StatsContract

Runs    == 1..MaxRuns
NoStats == Contract!NoStats
NoRows  == Contract!NoRows

\* Stages in which a statement, and so the run, can fail.
Working == {"check", "kcore", "query", "fold", "truncate", "copy_dirs",
            "copy_users", "commit"}

\* The environment fails once more, within the bound.
Fault == faults < MaxFaults /\ faults' = faults + 1

----------------------------------------------------------------------------
Init ==
    /\ index \in FirstIndexes
    /\ legacy \in {FALSE, index # NoRows} /\ logged \in BOOLEAN
    /\ dir_stats = NoStats /\ user_stats = NoStats
    /\ status = [s \in Runs |-> "none"] /\ files_scanned = [s \in Runs |-> 0]
    /\ lock = "free"
    /\ run = 0 /\ pc = "idle"
    /\ rows = {} /\ aggregates = NoStats /\ user_aggregates = NoStats /\ processed = 0
    /\ new_dir_stats = NoStats /\ new_user_stats = NoStats
    /\ request = [q \in Request |-> "idle"]
    /\ snapshot = NoRows /\ committed = {}
    /\ changes = 0 /\ faults = 0

\* Mutant: the transaction is left open.
KeepTransaction ==
    /\ lock' = lock
    /\ rows' = {} /\ aggregates' = NoStats /\ user_aggregates' = NoStats
    /\ new_dir_stats' = NoStats /\ new_user_stats' = NoStats

\* The transaction ends, and what the process holds in memory is forgotten.
EndTransaction ==
    /\ lock' = "free"
    /\ rows' = {} /\ aggregates' = NoStats /\ user_aggregates' = NoStats
    /\ new_dir_stats' = NoStats /\ new_user_stats' = NoStats

----------------------------------------------------------------------------
(* main(): connect, reap, record the session                               *)

\* The reap of sessions a dead run left 'running' may fail; that is only reported.
ReapStaleSessions ==
    status' = [s \in Runs |-> IF status[s] = "running" THEN "failed" ELSE status[s]]

StartRun ==
    /\ pc = "idle"
    /\ run < MaxRuns
    /\ run' = run + 1
    /\ pc' = "record"
    /\ \/ ReapStaleSessions /\ UNCHANGED faults
       \/ Fault /\ UNCHANGED status
    /\ UNCHANGED <<contractVars, legacy, logged, files_scanned, lock, foldVars,
                   newVars, request, committed, changes>>

\* A failure here ends main() with no session row.
RecordScanStart ==
    /\ pc = "record"
    /\ \/ /\ status' = [status EXCEPT ![run] = "running"]
          /\ pc' = "check"
          /\ UNCHANGED faults
       \/ /\ Fault
          /\ pc' = "idle"
          /\ UNCHANGED status
    /\ UNCHANGED <<contractVars, legacy, logged, files_scanned, lock, run, foldVars,
                   newVars, request, committed, changes>>

----------------------------------------------------------------------------
(* run_aggregation()                                                       *)

\* Refuse an index keyed by path hashes of another width.
CheckPathHashWidth ==
    /\ pc = "check"
    /\ pc' = IF legacy THEN "failed" ELSE "kcore"
    /\ UNCHANGED <<contractVars, legacy, logged, sessionVars, lock, run, foldVars,
                   newVars, request, committed, changes, faults>>

\* DELETE the row of /proc/kcore: a statement, so a transaction, of its own.
\* The CREATE TABLE IF NOT EXISTS that follows changes nothing kept here.
RemoveKcore ==
    /\ pc = "kcore"
    /\ index' = [index EXCEPT ![Kcore] = None]
    /\ pc' = "query"
    /\ UNCHANGED <<snapshot, dir_stats, user_stats, legacy, logged, sessionVars, lock,
                   run, foldVars, newVars, request, committed, changes, faults>>

\* The transaction begins, and query_raw opens a portal on the rows of type
\* 1 and 2 as they are now.
StreamIndex ==
    /\ pc = "query"
    /\ snapshot' = index
    /\ rows' = {p \in Path : index[p] # None /\ index[p].file_type \in {"file", "dir"}}
    /\ processed' = 0
    /\ pc' = "fold"
    /\ UNCHANGED <<index, dir_stats, user_stats, legacy, logged, sessionVars, lock, run,
                   aggregates, user_aggregates, newVars, request, committed, changes, faults>>

\* Mutant: a plain +, which wraps in the release build.
WrappingAdd(a, b) == (a + b) % (MaxSize + 1)

\* saturating_add: totals stop at i64::MAX.
SaturatingAdd(a, b) == IF a + b > MaxSize THEN MaxSize ELSE a + b

\* ancestors().skip(1), up to but without "/".
Ancestors(p) == Anc[p] \ {Slash}

\* One row folded into the totals of a directory.
FoldDir(agg, d, r) ==
    IF d \in DOMAIN agg
    THEN [size  |-> SaturatingAdd(agg[d].size, r.size),
          first |-> Min({agg[d].first, r.time}),
          last  |-> Max({agg[d].last, r.time}),
          count |-> agg[d].count + 1]
    ELSE [size |-> r.size, first |-> r.time, last |-> r.time, count |-> 1]

\* Mutant: a first row is inserted and then added as well.
FoldOwnerTwice(agg, o, r) ==
    IF o \in DOMAIN agg
    THEN [size |-> SaturatingAdd(agg[o].size, r.size), count |-> agg[o].count + 1]
    ELSE [size |-> SaturatingAdd(r.size, r.size), count |-> 2]

\* One row folded into the totals of its user or its group.
FoldOwner(agg, o, r) ==
    IF o \in DOMAIN agg
    THEN [size |-> SaturatingAdd(agg[o].size, r.size), count |-> agg[o].count + 1]
    ELSE [size |-> r.size, count |-> 1]

Owners(r) == {<<"uid", r.uid>>, <<"gid", r.gid>>}

\* The portal returns its rows in any order.
FoldRow(p) ==
    /\ pc = "fold"
    /\ p \in rows
    /\ rows' = rows \ {p}
    /\ aggregates' =
          [d \in DOMAIN aggregates \cup Ancestors(p) |->
              IF d \in Ancestors(p) THEN FoldDir(aggregates, d, snapshot[p]) ELSE aggregates[d]]
    /\ user_aggregates' =
          [o \in DOMAIN user_aggregates \cup Owners(snapshot[p]) |->
              IF o \in Owners(snapshot[p]) THEN FoldOwner(user_aggregates, o, snapshot[p])
              ELSE user_aggregates[o]]
    /\ processed' = processed + 1
    /\ UNCHANGED <<contractVars, legacy, logged, sessionVars, lock, run, pc, newVars,
                   request, committed, changes, faults>>

\* The stream ends; TRUNCATE asks for ACCESS EXCLUSIVE on both tables and
\* queues behind the requests that are reading them.
RequestTruncate ==
    /\ pc = "fold"
    /\ rows = {}
    /\ lock' = "queued"
    /\ pc' = "truncate"
    /\ UNCHANGED <<contractVars, legacy, logged, sessionVars, run, foldVars, newVars,
                   request, committed, changes, faults>>

\* Mutant: the previous generation is kept.
KeepTables ==
    /\ pc = "truncate"
    /\ lock = "queued"
    /\ \A q \in Request : request[q] # "reading"
    /\ lock' = "held"
    /\ new_dir_stats' = dir_stats
    /\ new_user_stats' = user_stats
    /\ pc' = "copy_dirs"
    /\ UNCHANGED <<contractVars, legacy, logged, sessionVars, run, foldVars, request,
                   committed, changes, faults>>

\* The lock is granted: the tables are empty in this transaction.  The ALTER
\* and ensure_unlogged that follow find no row to rewrite.
TruncateTables ==
    /\ pc = "truncate"
    /\ lock = "queued"
    /\ \A q \in Request : request[q] # "reading"
    /\ lock' = "held"
    /\ new_dir_stats' = NoStats
    /\ new_user_stats' = NoStats
    /\ pc' = "copy_dirs"
    /\ UNCHANGED <<contractVars, legacy, logged, sessionVars, run, foldVars, request,
                   committed, changes, faults>>

\* COPY adds a row for each entry of a map to those a table already has.
Copied(table, map) ==
    [x \in DOMAIN table \cup DOMAIN map |-> IF x \in DOMAIN map THEN map[x] ELSE table[x]]

CopyDirStats ==
    /\ pc = "copy_dirs"
    /\ new_dir_stats' = Copied(new_dir_stats, aggregates)
    /\ pc' = "copy_users"
    /\ UNCHANGED <<contractVars, legacy, logged, sessionVars, lock, run, foldVars,
                   new_user_stats, request, committed, changes, faults>>

CopyUserStats ==
    /\ pc = "copy_users"
    /\ new_user_stats' = Copied(new_user_stats, user_aggregates)
    /\ pc' = "commit"
    /\ UNCHANGED <<contractVars, legacy, logged, sessionVars, lock, run, foldVars,
                   new_dir_stats, request, committed, changes, faults>>

Commit ==
    /\ pc = "commit"
    /\ dir_stats' = new_dir_stats
    /\ user_stats' = new_user_stats
    /\ logged' = FALSE
    /\ committed' = committed \cup {run}
    /\ EndTransaction
    /\ pc' = "success"
    /\ UNCHANGED <<index, snapshot, legacy, sessionVars, run, processed, request,
                   changes, faults>>

\* Mutant: the error is printed and the run goes on to its end.
FailUnnoticed ==
    /\ pc \in Working
    /\ Fault
    /\ EndTransaction
    /\ pc' = "success"
    /\ UNCHANGED <<contractVars, legacy, logged, sessionVars, run, processed, request,
                   committed, changes>>

\* A statement fails: the transaction is rolled back, main() goes on to
\* record the failure.
Fail ==
    /\ pc \in Working
    /\ Fault
    /\ EndTransaction
    /\ pc' = "failed"
    /\ UNCHANGED <<contractVars, legacy, logged, sessionVars, run, processed, request,
                   committed, changes>>

\* The outcome is recorded; a failure to record it is not.
EndScanSession ==
    /\ pc \in {"success", "failed"}
    /\ \/ /\ status' = [status EXCEPT ![run] = pc]
          /\ files_scanned' =
                [files_scanned EXCEPT ![run] = IF pc = "success" THEN processed ELSE 0]
          /\ UNCHANGED faults
       \/ Fault /\ UNCHANGED sessionVars
    /\ pc' = "idle"
    /\ processed' = 0
    /\ UNCHANGED <<contractVars, legacy, logged, lock, run, rows, aggregates,
                   user_aggregates, newVars, request, committed, changes>>

----------------------------------------------------------------------------
(* The environment                                                         *)

\* Nothing more of this process reaches the database.
Dies ==
    /\ pc' = "idle"
    /\ processed' = 0
    /\ EndTransaction
    /\ UNCHANGED <<sessionVars, run, request, snapshot, committed, changes>>

\* The process is killed, or loses its connection: not even the failure is recorded.
Kill ==
    /\ pc # "idle"
    /\ Fault
    /\ Dies
    /\ UNCHANGED <<index, dir_stats, user_stats, legacy, logged>>

\* Crash recovery truncates unlogged tables; tables of an older release keep
\* their rows.
DatabaseCrash ==
    /\ Fault
    /\ Dies
    /\ IF logged THEN UNCHANGED <<dir_stats, user_stats>>
       ELSE dir_stats' = NoStats /\ user_stats' = NoStats
    /\ \/ UNCHANGED <<index, legacy>>
       \/ index' = NoRows /\ legacy' = FALSE
    /\ UNCHANGED logged

\* fs_indexer commits a row, prunes one, or clears an index of another width.
IndexerWrites ==
    /\ changes < MaxChanges
    /\ changes' = changes + 1
    /\ IF legacy
       THEN index' = NoRows
       ELSE \E p \in Path : \E r \in Row \cup {None} : index' = [index EXCEPT ![p] = r]
    /\ legacy' = FALSE
    /\ UNCHANGED <<snapshot, dir_stats, user_stats, logged, sessionVars, lock, run, pc,
                   foldVars, newVars, request, committed, faults>>

\* Mutant: a request does not queue behind a TRUNCATE that waits.
OpenStatsBarging(q) ==
    /\ request[q] = "waiting"
    /\ lock # "held"
    /\ request' = [request EXCEPT ![q] = "reading"]
    /\ UNCHANGED <<contractVars, legacy, logged, sessionVars, lock, run, pc, foldVars,
                   newVars, committed, changes, faults>>

\* A request of fs_api asks for ACCESS SHARE on the stats tables, ...
AskStats(q) ==
    /\ request[q] = "idle"
    /\ request' = [request EXCEPT ![q] = "waiting"]
    /\ UNCHANGED <<contractVars, legacy, logged, sessionVars, lock, run, pc, foldVars,
                   newVars, committed, changes, faults>>

\* ... is granted it unless ACCESS EXCLUSIVE is held or queued, ...
OpenStats(q) ==
    /\ request[q] = "waiting"
    /\ lock = "free"
    /\ request' = [request EXCEPT ![q] = "reading"]
    /\ UNCHANGED <<contractVars, legacy, logged, sessionVars, lock, run, pc, foldVars,
                   newVars, committed, changes, faults>>

\* ... and is answered from the committed tables.
AnswerStats(q) ==
    /\ request[q] = "reading"
    /\ request' = [request EXCEPT ![q] = "idle"]
    /\ UNCHANGED <<contractVars, legacy, logged, sessionVars, lock, run, pc, foldVars,
                   newVars, committed, changes, faults>>

----------------------------------------------------------------------------
MainStep ==
    \/ RecordScanStart \/ CheckPathHashWidth \/ RemoveKcore \/ StreamIndex
    \/ \E p \in rows : FoldRow(p)
    \/ RequestTruncate \/ TruncateTables \/ CopyDirStats \/ CopyUserStats \/ Commit
    \/ Fail \/ EndScanSession

RequestStep(q) == OpenStats(q) \/ AnswerStats(q)

Next ==
    \/ StartRun \/ MainStep \/ Kill \/ DatabaseCrash \/ IndexerWrites
    \/ \E q \in Request : AskStats(q) \/ RequestStep(q)

\* The process is scheduled, a granted query ends, a lock that stays free is
\* granted; nothing else is required to happen.
Fairness == /\ WF_vars(MainStep /\ UNCHANGED faults)
            /\ \A q \in Request : WF_vars(RequestStep(q))

Spec == Init /\ [][Next]_vars /\ Fairness

----------------------------------------------------------------------------
Totals == [size : 0..MaxSize, first : Nat, last : Nat, count : Nat]
OwnerTotals == [size : 0..MaxSize, count : Nat]
Owner == UNION {Owners(r) : r \in Row}

IsTable(t, K, V) == DOMAIN t \subseteq K /\ \A x \in DOMAIN t : t[x] \in V

TypeOK ==
    /\ index \in Contract!Index /\ legacy \in BOOLEAN
    /\ \A t \in {dir_stats, aggregates, new_dir_stats} : IsTable(t, Path \ {Slash}, Totals)
    /\ \A t \in {user_stats, user_aggregates, new_user_stats} : IsTable(t, Owner, OwnerTotals)
    /\ logged \in BOOLEAN
    /\ status \in [Runs -> {"none", "running", "success", "failed"}]
    /\ files_scanned \in [Runs -> Nat]
    /\ lock \in {"free", "queued", "held"}
    /\ run \in 0..MaxRuns /\ (pc # "idle" => run \in Runs)
    /\ pc \in Working \cup {"idle", "record", "success", "failed"}
    /\ rows \subseteq Path /\ processed \in Nat
    /\ request \in [Request -> {"idle", "waiting", "reading"}]
    /\ snapshot \in Contract!Index
    /\ committed \subseteq Runs
    /\ changes \in 0..MaxChanges /\ faults \in 0..MaxFaults

\* What is published are the totals of one state the index was in, users and
\* directories of the same state, whatever order the rows come in and whoever
\* writes the index meanwhile; a run that fails publishes nothing.
StatsAreTotals == Contract!Spec

\* A session ends 'success' only if its stats were committed, with the number
\* of entries they are of, and records the failure of a run itself only if
\* they were not: `failed` over committed stats is left to the reap of a run
\* that died in between.
OutcomeIsHonest ==
    /\ \A s \in Runs : status[s] = "success" => s \in committed
    /\ pc = "failed" => run \notin committed
    /\ pc = "success" => processed = Cardinality(Contract!Counted(snapshot))

\* Requests that wait for the stats tables are let in again: TRUNCATE gives
\* its lock back whatever becomes of the run.
RequestsAreServed == \A q \in Request : request[q] = "waiting" ~> request[q] # "waiting"

\* Every run ends: new requests queue behind the TRUNCATE, so it gets its
\* lock once those already reading are done.
RunEnds == pc # "idle" ~> pc = "idle"

\* The comment above the TRUNCATE: "TRUNCATE here is part of the transaction,
\* so readers keep seeing the old stats until we commit."
ReadersKeepSeeing == \A q \in Request : request[q] = "waiting" => lock # "held"
=============================================================================
