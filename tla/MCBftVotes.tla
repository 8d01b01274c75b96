------------------------------ MODULE MCBftVotes ------------------------------
(* Symmetry for the runs of BftVotes: the correct nodes, and the blocks. *)
EXTENDS BftVotes, TLC

Symmetry == Permutations(Node \ Faulty) \cup Permutations(Block)
=============================================================================
