----------------------------- MODULE MCCrdtMemory -----------------------------
(* The parts of the memory are updated in turn; only a join touches them all. *)
EXTENDS CrdtMemory

MCMixes == {{"write"}, {"add", "remove"}, {"increment", "tick"}}
=============================================================================
