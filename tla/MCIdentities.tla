---------------------------- MODULE MCIdentities ---------------------------
(* Two accounts and a group, with a name of each kind to spare. *)
EXTENDS Identities, TLC
CONSTANTS u1, u2, g1, alice, bob, carol, eng, ops

\* Ids are alike: what is called what is chosen in the initial state.
Symmetry == Permutations(Uid) \cup Permutations(Gid)
=============================================================================
