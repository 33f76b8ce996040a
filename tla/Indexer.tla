------------------------------ MODULE Indexer ------------------------------
(***************************************************************************)
(* fs_indexer: one batch process that walks the configured scan roots with *)
(* a pool of walker threads, hands every entry over a bounded channel to   *)
(* one consumer, upserts the entries into filesystem_index in batches, and *)
(* at the end prunes the rows of entries it did not see.                   *)
(*                                                                         *)
(* The filesystem changes while the walk runs; directories cannot be read, *)
(* statements fail, the connection drops, the walker panics, the process   *)
(* is killed and the database crashes.  Runs follow one another; two runs  *)
(* at a time are not modelled here.                                        *)
(***************************************************************************)
EXTENDS Naturals, Sequences, FiniteSets, Functions

CONSTANTS
    Path,             \* positions in the directory tree
    Anc,              \* Anc[p]: the strict ancestors of p
    RootSets,         \* the sets of scan roots a run may be configured with
    Meta,             \* what lstat reports of an entry
    None,             \* no such entry, no such row
    Threads,          \* walker threads
    CHANNEL_CAPACITY,
    BATCH_SIZE,
    MaxRuns,          \* bound: runs of the indexer
    MaxFaults,        \* bound: failures of the environment
    MaxChanges        \* bound: changes of the filesystem

\* The entries directly in directory d.
Children(d) == {c \in Path : d \in Anc[c] /\ Anc[c] = Anc[d] \cup {d}}

\* Anc describes a forest: between an entry and any of its ancestors there is
\* a chain of entries, each a child of the one before.
ASSUME TreeAssumption ==
    /\ Anc \in [Path -> SUBSET Path]
    /\ \A p \in Path : p \notin Anc[p]
    /\ \A p \in Path : \A a \in Anc[p] :
          /\ Anc[a] \subseteq Anc[p]
          /\ \E c \in Children(a) : c = p \/ c \in Anc[p]

\* IndexerConfig::roots rejects an empty list and overlapping roots.
ASSUME RootsAssumption ==
    \A R \in RootSets : /\ R # {}
                        /\ R \subseteq Path
                        /\ \A r, s \in R : r \notin Anc[s]

ASSUME BoundsAssumption ==
    /\ None \notin Meta
    /\ Threads \in Nat \ {0}
    /\ CHANNEL_CAPACITY \in Nat \ {0}
    /\ BATCH_SIZE \in Nat \ {0}
    /\ MaxRuns \in Nat
    /\ MaxFaults \in Nat
    /\ MaxChanges \in Nat

VARIABLES
    \* The filesystem, and the bound on its changes.
    disk,             \* [Path -> Meta \cup {None}]
    changes,
    \* The database.
    index,            \* filesystem_index: [Path -> Meta \cup {None}]
    legacy,           \* the rows are keyed by path hashes of another width
    status,           \* scan_sessions.status of each run, "none" without a row
    files_scanned,    \* scan_sessions.files_scanned of each run
    seen,             \* temp table seen_hashes of the current connection
    conn,             \* the consumer's connection is usable
    \* The consumer (the main thread).
    run,              \* the number of runs started; the current run's session
    pc,               \* where main() stands; "idle" when no process exists
    roots,            \* the scan roots of the current run
    batch,
    insert_failed,
    total_processed,
    \* The producer (the walker threads) and the channel.
    stack,            \* entries listed but not yet visited by a thread
    held,             \* records a thread has built and is sending
    opened,           \* directories whose record is sent, to be listed next
    panicked,
    unstatted,        \* skipped: entries whose metadata could not be read
    unlisted,         \* skipped: directories that could not be listed
    channel,
    \* History and bounds.
    life,             \* every state each path has been in since the run began
    faults

diskVars   == <<disk, changes>>
tableVars  == <<index, legacy, status, files_scanned>>
dbVars     == <<index, legacy, status, files_scanned, seen, conn>>
mainVars   == <<run, pc, roots, batch, insert_failed, total_processed>>
walkVars   == <<stack, held, opened, panicked, unstatted, unlisted>>
vars == <<disk, changes, index, legacy, status, files_scanned, seen, conn,
          run, pc, roots, batch, insert_failed, total_processed,
          stack, held, opened, panicked, unstatted, unlisted, channel,
          life, faults>>

\* The paths of a set of records.
PathsOf(S) == {r.path : r \in S}

Entry  == Meta \cup {None}
Record == [path : Path, meta : Meta]
Runs   == 1..MaxRuns
Setup  == {"setup", "migrate", "record"}
PC     == Setup \cup {"idle", "consume", "flush", "lastflush", "join",
                      "resolve", "cleanup", "indexes", "finish", "fail"}

NoRows   == [p \in Path |-> None]
IsDir(p) == Children(p) # {}
Under(p, R) == \E r \in R : p = r \/ r \in Anc[p]

\* The paths the current run may write and prune.
Scope == {p \in Path : Under(p, roots)}

\* The entry has been on disk, and the walk could reach it, all through the run.
Steady(p) == None \notin life[p]

\* The run skipped this entry: its own metadata, or a directory above it.
Blind(p) == p \in unstatted \/ Anc[p] \cap unlisted # {}

\* The walk is over and every sender is dropped: the channel is closed.
WalkDone == stack = {} /\ held = {} /\ opened = {}

\* The environment fails once more, within the bound.
Fault == faults < MaxFaults /\ faults' = faults + 1

----------------------------------------------------------------------------
Init ==
    /\ disk \in {d \in [Path -> Entry] :
                    \A p \in Path : d[p] # None => \A a \in Anc[p] : d[a] # None}
    /\ \/ index \in {NoRows, disk} /\ legacy = FALSE  \* new, or left by an earlier run
       \/ index = disk /\ legacy = TRUE               \* left by an older release
    /\ status = [s \in Runs |-> "none"]
    /\ files_scanned = [s \in Runs |-> 0]
    /\ seen = {} /\ conn = FALSE
    /\ run = 0 /\ pc = "idle" /\ roots = {}
    /\ batch = <<>> /\ insert_failed = FALSE /\ total_processed = 0
    /\ stack = {} /\ held = {} /\ opened = {} /\ panicked = FALSE
    /\ unstatted = {} /\ unlisted = {} /\ channel = <<>>
    /\ life = [p \in Path |-> {}]
    /\ changes = 0 /\ faults = 0

\* The process is gone, and with it its threads, its channel and its
\* connection (which drops the temp tables).
Exit ==
    /\ pc' = "idle" /\ roots' = {} /\ conn' = FALSE /\ seen' = {}
    /\ batch' = <<>> /\ insert_failed' = FALSE /\ total_processed' = 0
    /\ stack' = {} /\ held' = {} /\ opened' = {} /\ panicked' = FALSE
    /\ unstatted' = {} /\ unlisted' = {} /\ channel' = <<>>
    /\ life' = [p \in Path |-> {}]
    /\ UNCHANGED run

\* systemd starts the indexer.  The producer thread is spawned before main()
\* touches the database.
StartRun(R) ==
    /\ pc = "idle"
    /\ run < MaxRuns
    /\ run' = run + 1
    /\ roots' = R
    /\ stack' = R
    /\ life' = [p \in Path |-> {disk[p]}]
    /\ pc' = "setup"
    /\ UNCHANGED <<diskVars, dbVars, batch, insert_failed, total_processed,
                   held, opened, panicked, unstatted, unlisted, channel, faults>>

----------------------------------------------------------------------------
(* main(): database setup                                                  *)

\* UPDATE scan_sessions SET status = 'failed' WHERE status = 'running'.
ReapStaleSessions ==
    status' = [s \in Runs |-> IF status[s] = "running" THEN "failed" ELSE status[s]]

\* Connect, create the schema, reap.  A failed reap is only reported.
ConnectAndReap ==
    /\ pc = "setup"
    /\ conn' = TRUE
    /\ pc' = "migrate"
    /\ \/ ReapStaleSessions /\ UNCHANGED faults
       \/ Fault /\ UNCHANGED status
    /\ UNCHANGED <<diskVars, index, legacy, files_scanned, seen, run, roots,
                   batch, insert_failed, total_processed, walkVars, channel, life>>

\* Rows keyed by hashes of another width are unreachable: drop them all.
MigrateHashWidth ==
    /\ pc = "migrate"
    /\ conn
    /\ index' = IF legacy THEN NoRows ELSE index
    /\ legacy' = FALSE
    /\ pc' = "record"
    /\ UNCHANGED <<diskVars, status, files_scanned, seen, conn, run, roots,
                   batch, insert_failed, total_processed, walkVars, channel, life, faults>>

RecordScanStart ==
    /\ pc = "record"
    /\ conn
    /\ status' = [status EXCEPT ![run] = "running"]
    /\ pc' = "consume"
    /\ UNCHANGED <<diskVars, index, legacy, files_scanned, seen, conn, run, roots,
                   batch, insert_failed, total_processed, walkVars, channel, life, faults>>

\* Any other failure of the setup ends main() with `?`.
SetupFails ==
    /\ pc \in Setup
    /\ \/ pc # "setup" /\ ~conn /\ UNCHANGED faults
       \/ Fault
    /\ Exit
    /\ UNCHANGED <<diskVars, tableVars>>

----------------------------------------------------------------------------
(* The walker threads                                                      *)

\* A thread with no work at hand exists.
FreeThread == Cardinality(held) + Cardinality(opened) < Threads

\* A thread takes an entry and reads its metadata into a record.
Stat(p) ==
    /\ p \in stack
    /\ FreeThread
    /\ disk[p] # None
    /\ stack' = stack \ {p}
    /\ held' = held \cup {[path |-> p, meta |-> disk[p]]}
    /\ UNCHANGED <<diskVars, dbVars, mainVars, opened, panicked, unstatted,
                   unlisted, channel, life, faults>>

\* The metadata cannot be read: the entry is counted as skipped, the walk
\* goes on, into the entry if it was listed as a directory.  A root that
\* cannot be opened is not descended into.
StatFails(p) ==
    /\ p \in stack
    /\ FreeThread
    /\ IF disk[p] = None THEN UNCHANGED faults ELSE Fault
    /\ stack' = stack \ {p}
    /\ unstatted' = unstatted \cup {p}
    /\ \/ /\ opened' = IF IsDir(p) THEN opened \cup {p} ELSE opened
          /\ UNCHANGED unlisted
       \/ /\ p \in roots
          /\ unlisted' = unlisted \cup {p}
          /\ UNCHANGED opened
    /\ UNCHANGED <<diskVars, dbVars, mainVars, held, panicked, channel, life>>

\* tx.send: blocks while the channel is full.
Send(r) ==
    /\ r \in held
    /\ Len(channel) < CHANNEL_CAPACITY
    /\ channel' = Append(channel, r)
    /\ held' = held \ {r}
    /\ opened' = IF IsDir(r.path) THEN opened \cup {r.path} ELSE opened
    /\ UNCHANGED <<diskVars, dbVars, mainVars, stack, panicked, unstatted,
                   unlisted, life, faults>>

\* The directory's entries become work for any thread.
ReadDir(p) ==
    /\ p \in opened
    /\ opened' = opened \ {p}
    /\ stack' = stack \cup {c \in Children(p) : disk[c] # None}
    /\ UNCHANGED <<diskVars, dbVars, mainVars, held, panicked, unstatted,
                   unlisted, channel, life, faults>>

\* The directory cannot be listed: a walk error, counted as skipped.
ReadDirFails(p) ==
    /\ p \in opened
    /\ IF disk[p] = None THEN UNCHANGED faults ELSE Fault
    /\ opened' = opened \ {p}
    /\ unlisted' = unlisted \cup {p}
    /\ UNCHANGED <<diskVars, dbVars, mainVars, stack, held, panicked,
                   unstatted, channel, life>>

\* A thread dies with the entry it holds; join() will report it.
WalkerPanic ==
    /\ Fault
    /\ panicked' = TRUE
    /\ \/ \E r \in held : held' = held \ {r} /\ UNCHANGED opened
       \/ \E p \in opened : opened' = opened \ {p} /\ UNCHANGED held
    /\ UNCHANGED <<diskVars, dbVars, mainVars, stack, unstatted, unlisted,
                   channel, life>>

----------------------------------------------------------------------------
(* main(): the consumer                                                    *)

Recv ==
    /\ pc = "consume"
    /\ channel # <<>>
    /\ channel' = Tail(channel)
    /\ batch' = Append(batch, Head(channel))
    /\ total_processed' = total_processed + 1
    /\ pc' = IF Len(batch') >= BATCH_SIZE THEN "flush" ELSE "consume"
    /\ UNCHANGED <<diskVars, dbVars, run, roots, insert_failed, walkVars, life, faults>>

\* The 30-second progress report; its failure is ignored.
ReportProgress ==
    /\ pc = "consume"
    /\ conn
    /\ total_processed > 0
    /\ files_scanned' = [files_scanned EXCEPT ![run] = total_processed]
    /\ UNCHANGED <<diskVars, index, legacy, status, seen, conn, mainVars,
                   walkVars, channel, life, faults>>

\* Mutant: the records of the last, partial batch are not flushed.
RecvClosedNoFlush ==
    /\ pc = "consume"
    /\ channel = <<>>
    /\ WalkDone
    /\ pc' = "join"
    /\ batch' = <<>>
    /\ UNCHANGED <<diskVars, dbVars, run, roots, insert_failed,
                   total_processed, walkVars, channel, life, faults>>

\* Mutant: try_recv, which also fails while the walkers are at work.
TryRecvFails ==
    /\ pc = "consume"
    /\ channel = <<>>
    /\ pc' = IF batch = <<>> THEN "join" ELSE "lastflush"
    /\ UNCHANGED <<diskVars, dbVars, run, roots, batch, insert_failed,
                   total_processed, walkVars, channel, life, faults>>

\* rx.recv() fails: the channel is empty and every sender is gone.
RecvClosed ==
    /\ pc = "consume"
    /\ channel = <<>>
    /\ WalkDone
    /\ pc' = IF batch = <<>> THEN "join" ELSE "lastflush"
    /\ UNCHANGED <<diskVars, dbVars, run, roots, batch, insert_failed,
                   total_processed, walkVars, channel, life, faults>>

\* What insert_batch commits in its one transaction: the hashes seen and one
\* row per path.
BatchPaths == PathsOf(Range(batch))
\* Mutant: ON CONFLICT DO NOTHING.
UpsertedDoNothing ==
    [p \in Path |-> IF p \in BatchPaths /\ index[p] = None
                    THEN (CHOOSE r \in Range(batch) : r.path = p).meta
                    ELSE index[p]]
Upserted ==
    [p \in Path |-> IF p \in BatchPaths
                    THEN (CHOOSE r \in Range(batch) : r.path = p).meta
                    ELSE index[p]]
AfterFlush == IF pc = "flush" THEN "consume" ELSE "join"

InsertBatch ==
    /\ pc \in {"flush", "lastflush"}
    /\ conn
    /\ index' = Upserted
    /\ seen' = seen \cup BatchPaths
    /\ batch' = <<>>
    /\ pc' = AfterFlush
    /\ UNCHANGED <<diskVars, legacy, status, files_scanned, conn, run, roots,
                   insert_failed, total_processed, walkVars, channel, life, faults>>

\* Mutant: a failed batch is reported but does not set insert_failed.
InsertBatchFailsUnrecorded ==
    /\ pc \in {"flush", "lastflush"}
    /\ IF conn THEN Fault ELSE UNCHANGED faults
    /\ batch' = <<>>
    /\ pc' = AfterFlush
    /\ UNCHANGED <<diskVars, dbVars, run, roots, insert_failed, total_processed,
                   walkVars, channel, life>>

\* The transaction rolls back, or its commit is applied and the answer lost
\* with the connection.  Either way the consumer goes on receiving.
InsertBatchFails ==
    /\ pc \in {"flush", "lastflush"}
    /\ \/ /\ IF conn THEN Fault ELSE UNCHANGED faults
          /\ UNCHANGED <<index, seen, conn>>
       \/ /\ conn
          /\ Fault
          /\ index' = Upserted
          /\ conn' = FALSE
          /\ seen' = {}
    /\ insert_failed' = TRUE
    /\ batch' = <<>>
    /\ pc' = AfterFlush
    /\ UNCHANGED <<diskVars, legacy, status, files_scanned, run, roots,
                   total_processed, walkVars, channel, life>>

\* Mutant: the gate overlooks a panic of the walker.
JoinProducerIgnoresPanic ==
    /\ pc = "join"
    /\ WalkDone
    /\ pc' = IF insert_failed THEN "fail" ELSE "resolve"
    /\ UNCHANGED <<diskVars, dbVars, run, roots, batch, insert_failed,
                   total_processed, walkVars, channel, life, faults>>

\* producer.join() and the gate that protects the cleanup.
JoinProducer ==
    /\ pc = "join"
    /\ WalkDone
    /\ pc' = IF panicked \/ insert_failed THEN "fail" ELSE "resolve"
    /\ UNCHANGED <<diskVars, dbVars, run, roots, batch, insert_failed,
                   total_processed, walkVars, channel, life, faults>>

\* resolve_identities and create_query_indexes do not touch the rows of
\* filesystem_index.
ResolveIdentities ==
    /\ pc = "resolve"
    /\ conn
    /\ pc' = "cleanup"
    /\ UNCHANGED <<diskVars, dbVars, run, roots, batch, insert_failed,
                   total_processed, walkVars, channel, life, faults>>

\* Mutant: the anti-join is not restricted to the scan roots.
PrunedEverywhere == [p \in Path |-> IF p \notin seen THEN None ELSE index[p]]

\* DELETE every row of the scan roots whose hash was not seen.
Pruned == [p \in Path |-> IF p \in Scope /\ p \notin seen THEN None ELSE index[p]]

CleanupStaleEntries ==
    /\ pc = "cleanup"
    /\ conn
    /\ index' = Pruned
    /\ pc' = "indexes"
    /\ UNCHANGED <<diskVars, legacy, status, files_scanned, seen, conn, run, roots,
                   batch, insert_failed, total_processed, walkVars, channel, life, faults>>

CreateQueryIndexes ==
    /\ pc = "indexes"
    /\ conn
    /\ pc' = "finish"
    /\ UNCHANGED <<diskVars, dbVars, run, roots, batch, insert_failed,
                   total_processed, walkVars, channel, life, faults>>

\* One of the three closing statements fails; the DELETE may have been
\* applied before the connection was lost.
ClosingFails ==
    /\ pc \in {"resolve", "cleanup", "indexes"}
    /\ \/ /\ IF conn THEN Fault ELSE UNCHANGED faults
          /\ UNCHANGED <<index, seen, conn>>
       \/ /\ pc = "cleanup"
          /\ conn
          /\ Fault
          /\ index' = Pruned
          /\ conn' = FALSE
          /\ seen' = {}
    /\ pc' = "fail"
    /\ UNCHANGED <<diskVars, legacy, status, files_scanned, run, roots, batch,
                   insert_failed, total_processed, walkVars, channel, life>>

EndScanSession ==
    /\ pc \in {"finish", "fail"}
    /\ conn
    /\ status' = [status EXCEPT ![run] = IF pc = "finish" THEN "success" ELSE "failed"]
    /\ files_scanned' = [files_scanned EXCEPT ![run] = total_processed]
    /\ Exit
    /\ UNCHANGED <<diskVars, index, legacy, faults>>

\* The row stays 'running' until the next run reaps it.
EndScanSessionFails ==
    /\ pc \in {"finish", "fail"}
    /\ IF conn THEN Fault ELSE UNCHANGED faults
    /\ Exit
    /\ UNCHANGED <<diskVars, tableVars>>

----------------------------------------------------------------------------
(* The environment                                                         *)

\* A path changes to entry m; a run in progress has it in its history.
DiskChange(p, m) ==
    /\ changes < MaxChanges
    /\ changes' = changes + 1
    /\ m # disk[p]
    /\ disk' = [disk EXCEPT ![p] = m]
    /\ life' = IF pc = "idle" THEN life ELSE [life EXCEPT ![p] = @ \cup {m}]
    /\ UNCHANGED <<dbVars, mainVars, walkVars, channel, faults>>

\* An entry is created in a directory that exists, or rewritten.
Write(p, m) ==
    /\ \A a \in Anc[p] : disk[a] # None
    /\ DiskChange(p, m)

\* An entry is removed; a directory only when it is empty.
Remove(p) ==
    /\ \A c \in Path : p \in Anc[c] => disk[c] = None
    /\ DiskChange(p, None)

\* SIGKILL, out of memory, power loss of the indexer's host.
Kill ==
    /\ pc # "idle"
    /\ Fault
    /\ Exit
    /\ UNCHANGED <<diskVars, tableVars>>

ConnectionLost ==
    /\ conn
    /\ Fault
    /\ conn' = FALSE
    /\ seen' = {}
    /\ UNCHANGED <<diskVars, tableVars, mainVars, walkVars, channel, life>>

\* Crash recovery truncates unlogged tables; a table that predates UNLOGGED
\* keeps its rows.  scan_sessions is logged, but synchronous_commit is off:
\* the last write to the current session's row may not have reached the disk.
RowBefore(s) == IF s = "running" THEN "none" ELSE "running"

DatabaseCrash ==
    /\ Fault
    /\ \E kept \in {FALSE, legacy} :
          /\ index' = IF kept THEN index ELSE NoRows
          /\ legacy' = kept
    /\ \/ UNCHANGED status
       \/ /\ run > 0
          /\ status[run] # "none"
          /\ status' = [status EXCEPT ![run] = RowBefore(@)]
    /\ conn' = FALSE
    /\ seen' = {}
    /\ UNCHANGED <<diskVars, files_scanned, mainVars, walkVars, channel, life>>

----------------------------------------------------------------------------
WalkerStep ==
    \/ \E p \in stack : Stat(p) \/ StatFails(p)
    \/ \E r \in held : Send(r)
    \/ \E p \in opened : ReadDir(p) \/ ReadDirFails(p)
    \/ WalkerPanic

MainStep ==
    \/ ConnectAndReap \/ MigrateHashWidth \/ RecordScanStart \/ SetupFails
    \/ Recv \/ RecvClosed \/ InsertBatch \/ InsertBatchFails \/ JoinProducer
    \/ ResolveIdentities \/ CleanupStaleEntries \/ CreateQueryIndexes
    \/ ClosingFails \/ EndScanSession \/ EndScanSessionFails

Environment ==
    \/ \E R \in RootSets : StartRun(R)
    \/ \E p \in Path : Remove(p) \/ \E m \in Meta : Write(p, m)
    \/ Kill \/ ConnectionLost \/ DatabaseCrash

Next == WalkerStep \/ MainStep \/ ReportProgress \/ Environment

\* The operating system schedules the walker threads and the main thread; no
\* failure, progress report or step of the environment is ever required.
Fairness == /\ WF_vars(WalkerStep /\ UNCHANGED faults)
            /\ WF_vars(MainStep /\ UNCHANGED faults)

Spec == Init /\ [][Next]_vars /\ Fairness

----------------------------------------------------------------------------
TypeOK ==
    /\ disk \in [Path -> Entry] /\ changes \in Nat
    /\ index \in [Path -> Entry] /\ legacy \in BOOLEAN
    /\ status \in [Runs -> {"none", "running", "success", "failed"}]
    /\ files_scanned \in [Runs -> Nat]
    /\ seen \subseteq Path /\ conn \in BOOLEAN
    /\ run \in 0..MaxRuns /\ (pc # "idle" => run \in Runs)
    /\ pc \in PC /\ roots \subseteq Path
    /\ batch \in Seq(Record) /\ insert_failed \in BOOLEAN /\ total_processed \in Nat
    /\ stack \subseteq Path /\ held \subseteq Record /\ opened \subseteq Path
    /\ panicked \in BOOLEAN /\ unstatted \subseteq Path /\ unlisted \subseteq Path
    /\ channel \in Seq(Record) /\ Len(channel) <= CHANNEL_CAPACITY
    /\ Len(batch) <= BATCH_SIZE /\ (pc # "flush" => Len(batch) < BATCH_SIZE)
    /\ life \in [Path -> SUBSET Entry]
    /\ faults \in Nat

\* A run writes and prunes only the rows of paths under its own roots
\* (cleanup_stale_entries: separate roots share one index).  The exceptions
\* empty the table: the hash-width migration and a database crash.
RunStaysInScope ==
    [][\A p \in Path : index'[p] # index[p] =>
          \/ p \in Scope
          \/ index' = NoRows /\ (pc = "migrate" \/ ~conn')]_vars

\* The cleanup deletes the row of an entry that was on disk all through the
\* run only if the run skipped the entry: failed batches, a panic of the
\* walker and a lost connection never cost a live entry its row.
PruneIsJustified ==
    [][\A p \in Path : pc = "cleanup" /\ index[p] # None /\ index'[p] = None =>
          \/ ~Steady(p)
          \/ Blind(p)
          \/ ~conn' /\ index' = NoRows]_vars

\* The same without the exemption of skipped entries, as the comment above
\* the gate in main() has it: "Only prune stale entries if we are confident
\* the index fully reflects the current filesystem.  Otherwise a partial scan
\* would delete live entries".
PruneOnlyStale ==
    [][CleanupStaleEntries =>
          \A p \in Path : index[p] # None /\ index'[p] = None => ~Steady(p)]_vars

\* When a run is about to report success, the rows under its roots are a scan
\* of the disk: every row is a state its path was in during the run, and every
\* entry that was there all through the run and was not skipped has its row.
SuccessReflectsDisk ==
    pc = "finish" /\ conn =>
        \A p \in Scope : /\ index[p] # None => index[p] \in life[p]
                         /\ Steady(p) /\ ~Blind(p) => index[p] # None

\* After a completed run every row below a root hangs in the tree that
\* /api/list walks by parent_hash: its parent has a row, unless the parent's
\* metadata could not be read.
NoOrphans ==
    pc = "finish" /\ conn =>
        \A d \in Path : \A c \in Children(d) :
            d \in Scope /\ index[c] # None => index[d] # None \/ d \in unstatted

\* A finished session keeps its outcome: neither the reap of a later run nor
\* anything but a database crash changes it.
OutcomeIsFinal ==
    [][\A s \in Runs : status[s] \in {"success", "failed"} /\ status'[s] # status[s] =>
          DatabaseCrash]_vars

\* What readers of the index and of scan_sessions may rely on, as one machine:
\* rows change only to what a scan under way may write or delete, and a session
\* turns to "success" only over rows that show the disk (cleanup_stale_entries,
\* end_scan_session).
Contract == INSTANCE IndexContract WITH
    Scopes  <- {{p \in Path : Under(p, R)} : R \in RootSets},
    scope   <- Scope,
    during  <- life,
    skipped <- {p \in Path : Blind(p)}
IndexIsScanned == Contract!Spec

\* Every run ends: the consumer drains the channel to its end whatever fails,
\* so no walker thread stays blocked in send and join() returns.
RunEnds == pc # "idle" ~> pc = "idle"

----------------------------------------------------------------------------
(***************************************************************************)
(* The inductive invariant behind the properties of the cleanup.           *)
(***************************************************************************)

\* Nothing is on disk outside a directory that is on disk.
DiskIsTree ==
    \A p \in Path : disk[p] # None => \A a \in Anc[p] : disk[a] # None

\* What each stage of main() may rely on: the connection is opened by the
\* setup; before the walk and past the closed channel there is no walker; past the last
\* flush there is no batch left; past the gate nothing has failed.
StageFacts ==
    /\ pc \in {"idle", "setup"} => ~conn
    /\ pc \in Setup \cup {"idle"} \/ ~conn => seen = {}
    /\ pc \in {"idle", "lastflush", "join", "resolve", "cleanup", "indexes", "finish"} =>
          WalkDone /\ channel = <<>>
    /\ pc \in {"idle", "join", "resolve", "cleanup", "indexes", "finish"} => batch = <<>>
    /\ pc \in {"resolve", "cleanup", "indexes", "finish"} => ~panicked /\ ~insert_failed

\* The records between a walker thread and the index.
InFlight == held \cup Range(channel) \cup Range(batch)

\* The walk and the hashes seen stay under the scan roots.
WalkInScope ==
    stack \cup opened \cup PathsOf(InFlight) \cup seen \subseteq Scope

\* The history holds the present, each record under way and each row seen.
FreshRecords ==
    pc # "idle" => /\ \A p \in Path : disk[p] \in life[p]
                   /\ \A r \in InFlight : r.meta \in life[r.path]
                   /\ \A p \in seen : index[p] \in life[p] \ {None}

\* An entry the run has not seen yet is under way: it, or a directory above
\* it, is still in the hands of the walk; or the run skipped it.
Accounted(p) ==
    \/ p \in seen \cup PathsOf(InFlight)
    \/ ({p} \cup Anc[p]) \cap stack # {}
    \/ Anc[p] \cap (opened \cup PathsOf(held)) # {}
    \/ Blind(p)

\* No entry that stays on disk is forgotten while nothing has failed.
NoneForgotten ==
    pc # "idle" /\ (conn \/ pc = "setup") /\ ~panicked /\ ~insert_failed =>
        \A p \in Scope : Steady(p) => Accounted(p)

\* After the cleanup every row under the roots was seen in this run.
OnlySeenRows ==
    pc \in {"indexes", "finish"} /\ conn =>
        \A p \in Scope : index[p] # None => p \in seen

\* The current session, once recorded, is open, and no later one exists.
SessionIsOpen ==
    /\ pc \in Setup => status[run] = "none"
    /\ pc # "idle" => status[run] \in {"none", "running"}
    /\ \A s \in Runs : s > run => status[s] = "none"

\* The invariant that the proofs in IndexerProofs carry from step to step;
\* checked on the small instance before it is proved for every instance.
IInv == /\ TypeOK
        /\ DiskIsTree
        /\ StageFacts
        /\ WalkInScope
        /\ FreshRecords
        /\ NoneForgotten
        /\ OnlySeenRows
        /\ SessionIsOpen

=============================================================================
