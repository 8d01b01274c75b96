------------------------------- MODULE MCReplay -------------------------------
(* Operations and stored states for the run of Replay. *)
EXTENDS Replay

MCOp == {[kind |-> "balance", delta |-> 1], [kind |-> "reputation", delta |-> 60]}

S(balance) == [balance |-> balance, reputation |-> 50, tasks |-> 0, ticks |-> 0]

\* One from which the balance can grow by one, one from which it cannot.
MCStartState == {S(0), S(1)}

Symmetry == Permutations(Key \ {RootKey}) \cup Permutations(Orisha) \cup Permutations(TraceId)
            \cup Permutations(Claim)
=============================================================================
