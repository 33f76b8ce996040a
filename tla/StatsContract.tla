--------------------------- MODULE StatsContract ---------------------------
(***************************************************************************)
(* What fs_aggregator promises to the readers of dir_stats and user_stats, *)
(* without saying how it computes them: both tables change together, and   *)
(* what they hold are the recursive totals of one state the index was in.  *)
(***************************************************************************)
EXTENDS Naturals, FiniteSets, FiniteSetsExt

CONSTANTS
    Path,             \* positions in the directory tree
    Slash,            \* "/", which has no row in dir_stats
    Anc,              \* Anc[p]: the strict ancestors of p, Slash included
    Row,              \* rows of filesystem_index: [file_type, size, time, uid, gid]
    None,             \* no such row
    MaxSize           \* i64::MAX

VARIABLES
    index,            \* filesystem_index: [Path -> Row \cup {None}]
    snapshot,         \* a state of the index
    dir_stats,
    user_stats

vars == <<index, snapshot, dir_stats, user_stats>>

Index == [Path -> Row \cup {None}]

\* Regular files and directories are counted; links, sockets and the like are not.
Counted(i) == {p \in Path : i[p] # None /\ i[p].file_type \in {"file", "dir"}}

\* The size of a set of rows is the number of their bytes, up to i64::MAX.
Bytes(i, S) == UNION {{p} \X (1..i[p].size) : p \in S}
Capped(n) == Min({n, MaxSize})
SumOfSizes(i, S) == Capped(Cardinality(Bytes(i, S)))

\* The counted rows strictly below a directory.
Below(i, d) == {p \in Counted(i) : d \in Anc[p]}

\* The totals of every directory that has anything below it, "/" excepted.
DirTotals(i) ==
    [d \in {d \in Path \ {Slash} : Below(i, d) # {}} |->
        [size  |-> SumOfSizes(i, Below(i, d)),
         first |-> Min({i[p].time : p \in Below(i, d)}),
         last  |-> Max({i[p].time : p \in Below(i, d)}),
         count |-> Cardinality(Below(i, d))]]

\* The totals of every user and of every group that owns anything.
OwnersOf(r) == {<<"uid", r.uid>>, <<"gid", r.gid>>}
OwnedBy(i, o) == {p \in Counted(i) : o \in OwnersOf(i[p])}
UserTotals(i) ==
    [o \in UNION {OwnersOf(i[p]) : p \in Counted(i)} |->
        [size  |-> SumOfSizes(i, OwnedBy(i, o)),
         count |-> Cardinality(OwnedBy(i, o))]]

NoStats == [x \in {} |-> 0]
NoRows  == [p \in Path |-> None]

Init ==
    /\ index \in Index
    /\ snapshot = NoRows
    /\ dir_stats = NoStats
    /\ user_stats = NoStats

\* The index moves on; the stats stay as they are.
ChangeIndex ==
    /\ index' \in Index
    /\ UNCHANGED <<snapshot, dir_stats, user_stats>>

\* An aggregation picks the state of the index it will describe.
TakeSnapshot ==
    /\ snapshot' = index
    /\ UNCHANGED <<index, dir_stats, user_stats>>

\* The whole generation of stats is replaced in one step.
Publish ==
    /\ dir_stats' = DirTotals(snapshot)
    /\ user_stats' = UserTotals(snapshot)
    /\ UNCHANGED <<index, snapshot>>

\* A database crash empties the unlogged tables.
Lose ==
    /\ index' \in Index
    /\ dir_stats' = NoStats
    /\ user_stats' = NoStats
    /\ UNCHANGED snapshot

Next == ChangeIndex \/ TakeSnapshot \/ Publish \/ Lose

Spec == Init /\ [][Next]_vars
=============================================================================
