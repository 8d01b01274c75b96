------------------------------ MODULE Arbitration ------------------------------
(***************************************************************************)
(* ArbitrationEngine::arbitrate (arbitration.rs): the conflicts of one     *)
(* request are resolved in turn, each by the strategy of its pair, and the *)
(* decisions are aggregated.  A strategy of consensus asks the registered  *)
(* policies of its quorum one after the other and waits for each.  What a  *)
(* policy answers is its own affair: it may answer otherwise when it is    *)
(* asked again for the next conflict, and a hash may fall on either side.  *)
(***************************************************************************)
EXTENDS Integers, Sequences, FiniteSets

CONSTANTS
  Orisha,          \* the names of the policies
  Rank,            \* their order as strings
  Registered,      \* the orishas with a policy in the engine
  Strategies,      \* arbitration_graph.resolution_strategies, by pair
  DefaultStrategy, \* arbitration_graph.default_strategy
  Threshold,       \* consensus_threshold, in percent
  Conflict,        \* the conflicts that requests hold
  MaxConflicts     \* bound on the conflicts of a request

ASSUME ArbitrationAssumption ==
  /\ Rank \in [Orisha -> Nat]
  /\ \A a, b \in Orisha : Rank[a] = Rank[b] => a = b
  /\ Registered \subseteq Orisha
  /\ DOMAIN Strategies \subseteq Orisha \X Orisha
  /\ Threshold \in 1..100
  /\ MaxConflicts \in Nat

VARIABLES
  request,    \* conflicting_policies
  decisions,  \* the decisions so far
  approvals,  \* the counters of resolve_consensus
  rejections,
  heard,      \* history: per conflict, the answers of the quorum so far
  outcome     \* what arbitrate returned

vars == <<request, decisions, approvals, rejections, heard, outcome>>

Answer == {"Approved", "Rejected", "Conditional"}
PolicyConflict ==
  [orisha_a : Orisha, orisha_b : Orisha, a_result : Answer, b_result : Answer]
Decision == [kind : {"Approve", "Reject", "Conditional", "Defer"},
             by : Orisha \cup {"consensus", "nobody"}]
Pending == [kind |-> "pending"]
StrategyKind == {"weighted_vote", "lexical_order", "hierarchical",
                 "consensus_required", "random_deterministic"}

\* A conflict is one of two orishas.
ASSUME ConflictAssumption ==
  \A c \in Conflict : c \in PolicyConflict /\ c.orisha_a # c.orisha_b

\* A quorum is short enough for the counters, which are bytes.
ASSUME StrategyAssumption ==
  \A s \in {DefaultStrategy} \cup {Strategies[pair] : pair \in DOMAIN Strategies} :
    /\ s.kind \in StrategyKind
    /\ s.kind = "weighted_vote" => \A o \in DOMAIN s.weights : s.weights[o] \in Nat
    /\ s.kind = "consensus_required" => Len(s.quorum) \in 0..255

NoConflictToResolve == [kind |-> "no conflict to resolve"]

Init ==
  /\ request \in UNION {[1..n -> Conflict] : n \in 0..MaxConflicts}
  /\ decisions = <<>>
  /\ approvals = 0
  /\ rejections = 0
  /\ heard = <<>>
  /\ outcome = Pending

-----------------------------------------------------------------------------
(* The strategy of a conflict, and those that decide at once *)

Strategy(c) ==
  LET ab == <<c.orisha_a, c.orisha_b>>
      ba == <<c.orisha_b, c.orisha_a>>
  IN  IF ab \in DOMAIN Strategies THEN Strategies[ab]
      ELSE IF ba \in DOMAIN Strategies THEN Strategies[ba]
      ELSE DefaultStrategy

DecisionOf(answer, orisha) ==
  [by   |-> orisha,
   kind |-> CASE answer = "Approved" -> "Approve"
              [] answer = "Rejected" -> "Reject"
              [] answer = "Conditional" -> "Conditional"]

SideA(c) == DecisionOf(c.a_result, c.orisha_a)
SideB(c) == DecisionOf(c.b_result, c.orisha_b)

Lexical(c) == IF Rank[c.orisha_a] <= Rank[c.orisha_b] THEN SideA(c) ELSE SideB(c)

Weight(weights, o) == IF o \in DOMAIN weights THEN weights[o] ELSE 5

WeightedVote(c, weights) ==
  LET a == Weight(weights, c.orisha_a)
      b == Weight(weights, c.orisha_b)
  IN  IF a > b THEN SideA(c) ELSE IF b > a THEN SideB(c) ELSE Lexical(c)

Hierarchical(c, superior) ==
  IF c.orisha_a = superior THEN SideA(c)
  ELSE IF c.orisha_b = superior THEN SideB(c)
  ELSE [kind |-> "Defer", by |-> "nobody"]

\* The hash of the request and the names may fall on either side.
DeterministicRandom(c) == {SideA(c), SideB(c)}

\* The decisions a strategy other than consensus can come to.
Resolutions(c, strategy) ==
  CASE strategy.kind = "weighted_vote" -> {WeightedVote(c, strategy.weights)}
    [] strategy.kind = "lexical_order" -> {Lexical(c)}
    [] strategy.kind = "hierarchical" -> {Hierarchical(c, strategy.superior)}
    [] strategy.kind = "random_deterministic" -> DeterministicRandom(c)

-----------------------------------------------------------------------------
(* The loop over the conflicts *)

At == Len(decisions) + 1
Working == outcome = Pending /\ At <= Len(request)

Decide(d) ==
  /\ decisions' = Append(decisions, d)
  /\ approvals' = 0 /\ rejections' = 0
  /\ heard' = IF Len(heard) = At THEN heard ELSE Append(heard, <<>>)
  /\ UNCHANGED <<request, outcome>>

Resolve ==
  /\ Working
  /\ Strategy(request[At]).kind # "consensus_required"
  /\ \E d \in Resolutions(request[At], Strategy(request[At])) : Decide(d)

\* resolve_consensus is at the member after those it has heard.
Quorum == Strategy(request[At]).quorum
Heard == IF Len(heard) = At THEN heard[At] ELSE <<>>
Asking ==
  /\ Working
  /\ Strategy(request[At]).kind = "consensus_required"

\* Mutant: whoever does not reject approves.
CountsNoRejection(answer) ==
  /\ approvals' = IF answer \in {"Approved", "Conditional"} THEN approvals + 1 ELSE approvals
  /\ rejections' = IF answer = "Rejected" THEN rejections + 1 ELSE rejections

Counts(answer) ==
  /\ approvals' = IF answer = "Approved" THEN approvals + 1 ELSE approvals
  /\ rejections' = IF answer = "Rejected" THEN rejections + 1 ELSE rejections

\* The next member is asked; one without a policy is passed over.
Ask(answer) ==
  /\ Asking
  /\ Len(Heard) < Len(Quorum)
  /\ answer \in (IF Quorum[Len(Heard) + 1] \in Registered THEN Answer ELSE {"absent"})
  /\ Counts(answer)
  /\ heard' = [i \in 1..At |-> IF i = At THEN Append(Heard, answer) ELSE heard[i]]
  /\ UNCHANGED <<request, decisions, outcome>>

ConsensusDecision(yes, no) ==
  IF yes + no = 0 THEN [kind |-> "Defer", by |-> "nobody"]
  ELSE [kind |-> IF yes * 100 >= Threshold * (yes + no) THEN "Approve" ELSE "Reject",
        by   |-> "consensus"]

Consensus ==
  /\ Asking
  /\ Len(Heard) = Len(Quorum)
  /\ Decide(ConsensusDecision(approvals, rejections))

-----------------------------------------------------------------------------
(* aggregate_decisions *)

\* The kinds in the order in which they are looked for.
Precedence == <<"Reject", "Conditional", "Defer", "Approve">>

\* The first decision of the first kind there is.
Aggregate(ds) ==
  LET present == {k \in 1..4 : \E i \in 1..Len(ds) : ds[i].kind = Precedence[k]}
      worst   == Precedence[CHOOSE k \in present : \A l \in present : k <= l]
      of      == {i \in 1..Len(ds) : ds[i].kind = worst}
  IN  ds[CHOOSE i \in of : \A j \in of : i <= j]

Return ==
  /\ outcome = Pending
  /\ At > Len(request)
  /\ outcome' = IF request = <<>> THEN NoConflictToResolve ELSE Aggregate(decisions)
  /\ UNCHANGED <<request, decisions, approvals, rejections, heard>>

Next == Resolve \/ (\E answer \in Answer \cup {"absent"} : Ask(answer)) \/ Consensus \/ Return

Spec == Init /\ [][Next]_vars

-----------------------------------------------------------------------------
(* Properties of the code *)

\* The request, the counters, the decisions and the outcome keep their types,
\* and the counters never exceed what was heard nor a byte.
TypeOK ==
  /\ request \in Seq(PolicyConflict)
  /\ decisions \in Seq(Decision) /\ Len(decisions) <= Len(request)
  /\ heard \in Seq(Seq(Answer \cup {"absent"}))
  /\ Len(heard) \in {Len(decisions), Len(decisions) + 1}
  /\ approvals \in Nat /\ rejections \in Nat
  /\ approvals + rejections <= Len(Heard) /\ approvals + rejections <= 255
  /\ outcome \in {Pending, NoConflictToResolve} \cup Decision

Votes(i, answer) == Cardinality({k \in 1..Len(heard[i]) : heard[i][k] = answer})

\* Conflict i was decided the way `answer` says: by a party to the conflict
\* that gave this answer, or by those of a quorum who answered yes or no, as
\* few as they may be: members without a policy and conditional answers count
\* for neither side.
Favours(i, answer) ==
  LET c == request[i]
      d == decisions[i]
  IN  \/ d.by = c.orisha_a /\ c.a_result = answer
      \/ d.by = c.orisha_b /\ c.b_result = answer
      \/ /\ d.by = "consensus"
         /\ LET yes   == Votes(i, "Approved")
                total == yes + Votes(i, "Rejected")
            IN  IF answer = "Approved" THEN yes > 0 /\ yes * 100 >= Threshold * total
                ELSE yes * 100 < Threshold * total

\* A request is approved only when every one of its conflicts was decided for
\* a party that approves or by a quorum of whose votes, yes or no, the
\* threshold's share and at least one are approvals: one deferred, conditional or rejected conflict is
\* enough to withhold approval.  It is rejected only when some party or quorum
\* rejected, whatever the order of the conflicts.
OutcomeIsBacked ==
  /\ outcome.kind = "Approve" => \A i \in 1..Len(request) : Favours(i, "Approved")
  /\ outcome.kind = "Reject" => \E i \in 1..Len(request) : Favours(i, "Rejected")

Swapped(c) == [orisha_a |-> c.orisha_b, orisha_b |-> c.orisha_a,
               a_result |-> c.b_result, b_result |-> c.a_result]

\* Which of the two orishas a conflict names first has no influence on how it
\* is decided, where the strategy neither asks nor draws and the graph does not
\* name the pair in both orders (which nothing prevents): the lookup, the
\* weights, their ties and the hierarchy treat both sides alike.
NamedTwice(c) ==
  {<<c.orisha_a, c.orisha_b>>, <<c.orisha_b, c.orisha_a>>} \subseteq DOMAIN Strategies

SidesAreAlike ==
  \A i \in 1..Len(decisions) :
    LET mirrored == Swapped(request[i]) IN
    /\ Strategy(request[i]).kind \in {"weighted_vote", "lexical_order", "hierarchical"}
    /\ ~NamedTwice(request[i])
    => /\ Strategy(mirrored) = Strategy(request[i])
       /\ Resolutions(mirrored, Strategy(mirrored)) = {decisions[i]}
=============================================================================
