---------------------------- MODULE IndexContract ---------------------------
(***************************************************************************)
(* What fs_indexer promises to the readers of filesystem_index and of      *)
(* scan_sessions, without saying how it walks, batches and prunes: a scan  *)
(* rewrites the rows of the paths it is about and no others; what it       *)
(* writes, the path was; what it deletes was not there all the time, or    *)
(* could not be read; and a session says "success" exactly of a scan that *)
(* has left rows which show its paths.                                     *)
(***************************************************************************)
EXTENDS Naturals

CONSTANTS
    Path,             \* positions in the directory tree
    Scopes,           \* the sets of paths a scan may be about, none of them empty
    Meta,             \* what a row shows of an entry
    None,             \* no such entry, no such row
    Runs              \* the sessions

VARIABLES
    disk,             \* the filesystem: [Path -> Meta \cup {None}]
    index,            \* filesystem_index: [Path -> Meta \cup {None}]
    status,           \* scan_sessions.status of each run, "none" without a row
    run,              \* the session of the scan that began last
    scope,            \* the paths the scan under way is about; {} between scans
    during,           \* what each path has been since that scan began
    skipped           \* paths the scan could not read, or not get to

vars == <<disk, index, status, run, scope, during, skipped>>

Index   == [Path -> Meta \cup {None}]
NoRows  == [p \in Path |-> None]
Nothing == [p \in Path |-> {}]

Init ==
    /\ disk \in Index /\ index \in Index
    /\ status = [s \in Runs |-> "none"] /\ run = 0
    /\ scope = {} /\ during = Nothing /\ skipped = {}

\* One path of the filesystem changes.
Change ==
    /\ \E p \in Path, m \in Meta \cup {None} :
         /\ disk' = [disk EXCEPT ![p] = m]
         /\ during' = IF scope = {} THEN during ELSE [during EXCEPT ![p] = @ \cup {m}]
    /\ UNCHANGED <<index, status, run, scope, skipped>>

Begin ==
    /\ scope = {} /\ scope' \in Scopes
    /\ run' = run + 1
    /\ during' = [p \in Path |-> {disk[p]}]
    /\ UNCHANGED <<disk, index, status, skipped>>

\* Sessions that earlier scans have left open are closed.
Reap ==
    /\ scope # {} /\ status[run] = "none"
    /\ status' = [s \in Runs |-> IF status[s] = "running" THEN "failed" ELSE status[s]]
    /\ UNCHANGED <<disk, index, run, scope, during, skipped>>

Record ==
    /\ scope # {} /\ status[run] = "none"
    /\ status' = [status EXCEPT ![run] = "running"]
    /\ UNCHANGED <<disk, index, run, scope, during, skipped>>

Skip ==
    /\ scope # {}
    /\ skipped \subseteq skipped' /\ skipped' \subseteq Path
    /\ UNCHANGED <<disk, index, status, run, scope, during>>

\* Rows are written: what their paths are, or were since the scan began.
Write ==
    /\ index' \in Index
    /\ \A p \in Path : index'[p] # index[p] => p \in scope /\ index'[p] \in during[p] \ {None}
    /\ UNCHANGED <<disk, status, run, scope, during, skipped>>

\* Rows are deleted: of paths that were gone at some time, or not looked at.
Prune ==
    /\ index' \in Index
    /\ \A p \in Path : index'[p] # index[p] =>
          p \in scope /\ index'[p] = None /\ (None \in during[p] \/ p \in skipped)
    /\ UNCHANGED <<disk, status, run, scope, during, skipped>>

\* All rows are lost: they were those of an older release, or the database has
\* crashed, which may also take back what was last said of the last session.
Lose ==
    /\ index' \in {index, NoRows}
    /\ \/ UNCHANGED status
       \/ /\ run \in Runs /\ status[run] # "none"
          /\ status' = [status EXCEPT ![run] = IF @ = "running" THEN "none" ELSE "running"]
    /\ UNCHANGED <<disk, run, scope, during, skipped>>

End ==
    /\ scope # {} /\ scope' = {} /\ during' = Nothing /\ skipped' = {}
    /\ UNCHANGED <<disk, index, run>>

\* The index shows a path: a row of it is what it was, and there is one if it
\* was there all the time and could be read.
Shown(p) ==
    /\ index[p] # None => index[p] \in during[p]
    /\ None \notin during[p] /\ p \notin skipped => index[p] # None

Succeed ==
    /\ status[run] = "running"
    /\ \A p \in scope : Shown(p)
    /\ status' = [status EXCEPT ![run] = "success"]
    /\ End

\* A scan that does not succeed says so, or it says nothing: it was killed, or
\* has lost the database.
GiveUp ==
    /\ \/ UNCHANGED status
       \/ status[run] = "running" /\ status' = [status EXCEPT ![run] = "failed"]
    /\ End

Next ==
    \/ Change \/ Begin \/ Reap \/ Record \/ Skip \/ Write \/ Prune \/ Lose
    \/ Succeed \/ GiveUp

Spec == Init /\ [][Next]_vars
=============================================================================
