------------------------------- MODULE BftVotes -------------------------------
(***************************************************************************)
(* BftNode::receive_vote (consensus-bft): a node collects votes in slots   *)
(* keyed by "round/block_hash" and answers a call with a quorum            *)
(* certificate or with None.  A round has no "/" in it, so a key is the    *)
(* pair of the round and the block.                                        *)
(*                                                                         *)
(* The network is the environment: votes arrive in any order and any       *)
(* number of times; a correct node votes for one block of a round, a       *)
(* faulty one for as many as it likes.                                     *)
(***************************************************************************)
EXTENDS Integers, Sequences, FiniteSets

CONSTANTS
  Node, Faulty, Round, Block,
  Total,         \* total_nodes, which the caller passes with every vote
  GrowsAt,       \* the sizes at which the hash map reallocates: 4, 8, 15, ...
  NoCertificate  \* None

ASSUME BftAssumption ==
  /\ IsFiniteSet(Node)
  /\ Faulty \subseteq Node
  /\ Total \in Nat
  /\ Cardinality(Node) <= Total
  /\ 3 * Cardinality(Faulty) <= Total

VARIABLES
  pending_votes,  \* per key, the voters in the order of their votes; <<>>: no entry
  last,           \* the key that pending_votes.values() yields last
  answer,         \* what the latest call returned
  issued          \* every certificate a call has returned

vars == <<pending_votes, last, answer, issued>>

Slot == Round \X Block

Voters(votes) == {votes[i] : i \in 1..Len(votes)}

Entries(pending) == {k \in Slot : pending[k] # <<>>}

QuorumCertificate(k, votes) == [round |-> k[1], block_hash |-> k[2], votes |-> votes]

\* Mutant: the threshold is one third of the nodes.
IsQuorumThird(votes) == Len(votes) * 3 > Total

IsQuorum(votes) == Len(votes) * 3 > Total * 2

Init ==
  /\ pending_votes = [k \in Slot |-> <<>>]
  /\ last \in Slot
  /\ answer = NoCertificate
  /\ issued = {}

\* What the network may deliver: a vote of a faulty node, or one that does not
\* contradict an earlier vote of its node.
MayArrive(n, k) ==
  n \in Faulty \/ \A b \in Block \ {k[2]} : n \notin Voters(pending_votes[<<k[1], b>>])

HasVoted(n, k) == n \in Voters(pending_votes[k])

\* A HashMap yields its values in an order of its own, which an insertion
\* leaves as it is, but for the new entry, unless the map reallocates.
LastAmong(k, pending) ==
  IF pending_votes[k] # <<>> THEN {last}
  ELSE IF Cardinality(Entries(pending)) \in GrowsAt THEN Entries(pending)
  ELSE IF Entries(pending) = {k} THEN {k}
  ELSE {last, k}

\* Mutant: the votes of one slot go under the name of another.
CertificateMixed(k, l, pending) == QuorumCertificate(k, pending[l])

\* The certificate is built from the last slot of the map, not from the
\* slot k of the vote.
CertificateOf(k, l, pending) == QuorumCertificate(l, pending[l])

DuplicateVote(n, k) ==
  /\ HasVoted(n, k)
  /\ answer' = NoCertificate
  /\ UNCHANGED <<pending_votes, last, issued>>

FreshVote(n, k) ==
  /\ ~HasVoted(n, k)
  /\ pending_votes' = [pending_votes EXCEPT ![k] = Append(@, n)]
  /\ last' \in LastAmong(k, pending_votes')
  /\ LET qc == CertificateOf(k, last', pending_votes') IN
       IF IsQuorum(qc.votes)
       THEN answer' = qc /\ issued' = issued \cup {qc}
       ELSE answer' = NoCertificate /\ issued' = issued

ReceiveVote(n, k) ==
  /\ MayArrive(n, k)
  /\ DuplicateVote(n, k) \/ FreshVote(n, k)

Next == \E n \in Node, k \in Slot : ReceiveVote(n, k)

Spec == Init /\ [][Next]_vars

-----------------------------------------------------------------------------
(* Properties of the code *)

\* The slots hold votes of nodes, and the entry that the map yields last is
\* one of its entries: what `.expect("just inserted")` relies on.
TypeOK ==
  /\ pending_votes \in [Slot -> Seq(Node)]
  /\ last \in Slot
  /\ pending_votes[last] = <<>> => Entries(pending_votes) = {}

\* A slot never holds two votes of one node, whatever the network repeats:
\* "each node may only vote once per (round, block_hash)".
VotesDistinct ==
  \A k \in Slot : \A i, j \in 1..Len(pending_votes[k]) :
    pending_votes[k][i] = pending_votes[k][j] => i = j

\* Every certificate names a round and a block for which more than two thirds
\* of all nodes, counted as nodes and not as messages, have really voted: also
\* when it was built from a slot other than that of the vote.
CertificateBacked ==
  \A qc \in issued :
    LET k == <<qc.round, qc.block_hash>> IN
    /\ k \in Slot
    /\ Voters(qc.votes) \subseteq Voters(pending_votes[k])
    /\ Cardinality(Voters(qc.votes)) * 3 > Total * 2

\* With at most a third of the nodes faulty, no two certificates of a round
\* are for different blocks, however the slots interleave and whichever slot
\* the map yields last.
Agreement ==
  \A qc1, qc2 \in issued :
    qc1.round = qc2.round => qc1.block_hash = qc2.block_hash

\* What Agreement rests on: a correct node is in one slot of a round.
CorrectOnce ==
  \A n \in Node \ Faulty, r \in Round : \A b1, b2 \in Block :
    n \in Voters(pending_votes[<<r, b1>>]) /\ n \in Voters(pending_votes[<<r, b2>>])
      => b1 = b2
=============================================================================
