----------------------------- MODULE MCIndexer -----------------------------
(***************************************************************************)
(* A directory with a subdirectory that holds a file.  Runs scan the whole *)
(* of it, or the subdirectory alone.                                       *)
(***************************************************************************)
EXTENDS Indexer

CONSTANTS home, docs, note, m1, m2

MCPath == {home, docs, note}
MCAnc  == [p \in MCPath |-> CASE p = docs -> {home}
                              [] p = note -> {home, docs}
                              [] OTHER    -> {}]
MCRootSets == {{home}, {docs}}
=============================================================================
