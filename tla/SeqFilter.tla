----------------------------- MODULE SeqFilter ------------------------------
(***************************************************************************)
(* Leaving elements out of a list.  It is SelectSeq with a set where that  *)
(* has a test, as the provers know nothing of SelectSeq.                   *)
(***************************************************************************)
EXTENDS Sequences, SequencesExt

\* The elements of seq that are not in S, in their order.
Without(seq, S) ==
    FoldLeft(LAMBDA kept, x : IF x \in S THEN kept ELSE Append(kept, x), <<>>, seq)
=============================================================================
