---------------------------- MODULE MCAggregator ----------------------------
(***************************************************************************)
(* "/" with /proc/kcore directly below it, and a directory with a          *)
(* subdirectory that holds a file.  Sizes are such that three rows exceed  *)
(* MaxSize.                                                                *)
(***************************************************************************)
EXTENDS Aggregator

CONSTANTS slash, kcore, home, docs, note, u1, u2, g1

MCPath == {slash, kcore, home, docs, note}
MCAnc == [p \in MCPath |-> CASE p = slash -> {}
                             [] p = docs  -> {slash, home}
                             [] p = note  -> {slash, home, docs}
                             [] OTHER     -> {slash}]

dir  == [file_type |-> "dir",   size |-> 1, time |-> 2, uid |-> u1, gid |-> g1]
file == [file_type |-> "file",  size |-> 3, time |-> 1, uid |-> u2, gid |-> g1]
link == [file_type |-> "other", size |-> 1, time |-> 3, uid |-> u2, gid |-> g1]
MCRow == {dir, file, link}

\* An index of directories and a file, one with an orphan, and an empty one.
Tree == [p \in MCPath |-> CASE p = note -> file [] p = kcore -> file [] OTHER -> dir]
MCFirstIndexes == {Tree, [Tree EXCEPT ![docs] = None], [p \in MCPath |-> None]}
=============================================================================
