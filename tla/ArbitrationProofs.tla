--------------------------- MODULE ArbitrationProofs ---------------------------
(***************************************************************************)
(* Proofs about Arbitration, for every set of policies, every graph of     *)
(* strategies and every request: the types, that an outcome is backed by   *)
(* what the parties and the quorums answered, and that the sides of a      *)
(* conflict are alike.  Along the way every decision stays one that its    *)
(* strategy can come to, a quorum's one that its answers give.             *)
(***************************************************************************)
EXTENDS Arbitration, FiniteSetTheorems, SequenceTheorems, WellFoundedInduction, TLAPS

Reply == Answer \cup {"absent"}
Deferred == [kind |-> "Defer", by |-> "nobody"]

\* The answers in a sequence that are `answer`.
VotesIn(s, answer) == Cardinality({k \in 1..Len(s) : s[k] = answer})

\* Decision i is one the strategy of conflict i can come to; that of a quorum
\* is the one its answers give.
MadeBy(i) ==
  IF Strategy(request[i]).kind = "consensus_required"
  THEN decisions[i] = ConsensusDecision(VotesIn(heard[i], "Approved"),
                                        VotesIn(heard[i], "Rejected"))
  ELSE decisions[i] \in Resolutions(request[i], Strategy(request[i]))

Shape ==
  /\ request \in Seq(Conflict)
  /\ decisions \in Seq(Decision)
  /\ heard \in Seq(Seq(Reply))
  /\ Len(decisions) <= Len(request)
  /\ Len(heard) = Len(decisions) \/ Len(heard) = Len(decisions) + 1

\* While a quorum is asked, the counters count what it answered.
Counting ==
  IF Len(heard) = At
  THEN /\ At <= Len(request)
       /\ Strategy(request[At]).kind = "consensus_required"
       /\ Len(heard[At]) <= Len(Quorum)
       /\ approvals = VotesIn(heard[At], "Approved")
       /\ rejections = VotesIn(heard[At], "Rejected")
       /\ approvals + rejections <= Len(heard[At])
  ELSE approvals = 0 /\ rejections = 0

Returned ==
  outcome = Pending
    \/ /\ Len(decisions) = Len(request)
       /\ outcome = IF request = <<>> THEN NoConflictToResolve ELSE Aggregate(decisions)

IInv ==
  /\ Shape
  /\ approvals \in Nat /\ rejections \in Nat
  /\ Counting
  /\ \A i \in 1..Len(decisions) : MadeBy(i)
  /\ Returned

-----------------------------------------------------------------------------
(* Least elements *)

LEMMA LessThanIsWellFounded ==
  IsWellFoundedOn({ss \in Nat \X Nat : ss[1] < ss[2]}, Nat)
  BY NatLessThanWellFounded, Zenon DEF OpToRel

LEMMA LeastElement ==
  ASSUME NEW S \in SUBSET Nat, S # {}
  PROVE  \E i \in S : \A j \in S : i <= j
<1> DEFINE R == {ss \in Nat \X Nat : ss[1] < ss[2]}
<1>1. IsWellFoundedOn(R, Nat)
  BY LessThanIsWellFounded
<1>2. \A i, j \in Nat : <<j, i>> \notin R => i <= j
  OBVIOUS
<1> HIDE DEF R
<1>3. PICK i \in S : \A j \in S : ~ (<<j, i>> \in R)
  BY <1>1, WFMin
<1> QED
  BY <1>2, <1>3

-----------------------------------------------------------------------------
(* Counting votes *)

LEMMA VotesInNat ==
  ASSUME NEW s \in Seq(Reply), NEW a
  PROVE  VotesIn(s, a) \in Nat
<1>1. IsFiniteSet(1..Len(s))
  BY FS_Interval
<1>2. IsFiniteSet({k \in 1..Len(s) : s[k] = a})
  BY <1>1, FS_Subset
<1> QED
  BY <1>2, FS_CardinalityType DEF VotesIn

LEMMA VotesInNothing == \A a : VotesIn(<<>>, a) = 0
<1>1. \A a : {k \in 1..Len(<<>>) : <<>>[k] = a} = {}
  OBVIOUS
<1> QED
  BY <1>1, FS_EmptySet DEF VotesIn

LEMMA VotesInAppend ==
  ASSUME NEW s \in Seq(Reply), NEW x \in Reply, NEW a
  PROVE  VotesIn(Append(s, x), a) = IF x = a THEN VotesIn(s, a) + 1 ELSE VotesIn(s, a)
<1> DEFINE S == {k \in 1..Len(s) : s[k] = a}
           T == {k \in 1..Len(Append(s, x)) : Append(s, x)[k] = a}
           n == Len(s) + 1
<1>1. IsFiniteSet(S)
  BY FS_Interval, FS_Subset
<1>2. n \notin S
  OBVIOUS
<1>3. x = a => T = S \cup {n}
  OBVIOUS
<1>4. x # a => T = S
  OBVIOUS
<1>5. VotesIn(s, a) = Cardinality(S) /\ VotesIn(Append(s, x), a) = Cardinality(T)
  BY DEF VotesIn
<1> HIDE DEF S, T, n
<1>6. Cardinality(S \cup {n}) = Cardinality(S) + 1
  BY <1>1, <1>2, FS_AddElement
<1> QED
  BY <1>3, <1>4, <1>5, <1>6

-----------------------------------------------------------------------------
(* Strategies and what they come to *)

LEMMA StrategyKnown ==
  ASSUME NEW c
  PROVE  Strategy(c) \in {DefaultStrategy} \cup {Strategies[pair] : pair \in DOMAIN Strategies}
  BY DEF Strategy

LEMMA StrategyKinds ==
  ASSUME NEW c
  PROVE  /\ Strategy(c).kind \in StrategyKind
         /\ Strategy(c).kind = "weighted_vote"
              => \A o \in DOMAIN Strategy(c).weights : Strategy(c).weights[o] \in Nat
         /\ Strategy(c).kind = "consensus_required" => Len(Strategy(c).quorum) \in 0..255
<1> DEFINE s == Strategy(c)
<1>1. s \in {DefaultStrategy} \cup {Strategies[pair] : pair \in DOMAIN Strategies}
  BY StrategyKnown
<1> HIDE DEF s
<1>2. /\ s.kind \in StrategyKind
      /\ s.kind = "weighted_vote" => \A o \in DOMAIN s.weights : s.weights[o] \in Nat
      /\ s.kind = "consensus_required" => Len(s.quorum) \in 0..255
  BY <1>1, StrategyAssumption
<1> QED
  BY <1>2 DEF s

LEMMA DecisionOfAnswer ==
  ASSUME NEW answer \in Answer, NEW o \in Orisha
  PROVE  /\ DecisionOf(answer, o) \in Decision
         /\ DecisionOf(answer, o).by = o
         /\ DecisionOf(answer, o).kind = "Approve" => answer = "Approved"
         /\ DecisionOf(answer, o).kind = "Reject" => answer = "Rejected"
<1>1. CASE answer = "Approved"
  BY <1>1 DEF DecisionOf, Decision
<1>2. CASE answer = "Rejected"
  BY <1>2 DEF DecisionOf, Decision
<1>3. CASE answer = "Conditional"
  BY <1>3 DEF DecisionOf, Decision
<1> QED
  BY <1>1, <1>2, <1>3 DEF Answer

\* A strategy other than consensus comes to a side of the conflict or defers.
LEMMA ResolvesToASide ==
  ASSUME NEW c, Strategy(c).kind # "consensus_required",
         NEW d \in Resolutions(c, Strategy(c))
  PROVE  d = SideA(c) \/ d = SideB(c) \/ d = Deferred
<1> DEFINE s == Strategy(c)
<1>0. s.kind \in StrategyKind \ {"consensus_required"}
  BY StrategyKinds
<1> HIDE DEF s
<1>1. d \in Resolutions(c, s)
  BY DEF s
<1>2. Lexical(c) = SideA(c) \/ Lexical(c) = SideB(c)
  BY DEF Lexical
<1>3. CASE s.kind = "weighted_vote"
  <2>1. d = WeightedVote(c, s.weights)
    BY <1>1, <1>3 DEF Resolutions
  <2> QED
    BY <1>2, <2>1 DEF WeightedVote
<1>4. CASE s.kind = "lexical_order"
  <2>1. d = Lexical(c)
    BY <1>1, <1>4 DEF Resolutions
  <2> QED
    BY <1>2, <2>1
<1>5. CASE s.kind = "hierarchical"
  <2>1. d = Hierarchical(c, s.superior)
    BY <1>1, <1>5 DEF Resolutions
  <2> QED
    BY <2>1 DEF Hierarchical, Deferred
<1>6. CASE s.kind = "random_deterministic"
  <2>1. d \in DeterministicRandom(c)
    BY <1>1, <1>6 DEF Resolutions
  <2> QED
    BY <2>1 DEF DeterministicRandom
<1> QED
  BY <1>0, <1>3, <1>4, <1>5, <1>6 DEF StrategyKind

LEMMA SidesAreDecisions ==
  ASSUME NEW c \in Conflict
  PROVE  SideA(c) \in Decision /\ SideB(c) \in Decision /\ Deferred \in Decision
<1>1. /\ c.orisha_a \in Orisha /\ c.orisha_b \in Orisha
      /\ c.a_result \in Answer /\ c.b_result \in Answer
  BY ConflictAssumption DEF PolicyConflict
<1> QED
  BY <1>1, DecisionOfAnswer DEF SideA, SideB, Deferred, Decision

LEMMA ConsensusDecides ==
  ASSUME NEW yes \in Nat, NEW no \in Nat
  PROVE  /\ ConsensusDecision(yes, no) \in Decision
         /\ ConsensusDecision(yes, no).kind = "Approve"
              => /\ ConsensusDecision(yes, no).by = "consensus"
                 /\ yes > 0 /\ yes * 100 >= Threshold * (yes + no)
         /\ ConsensusDecision(yes, no).kind = "Reject"
              => /\ ConsensusDecision(yes, no).by = "consensus"
                 /\ yes * 100 < Threshold * (yes + no)
<1>0. Threshold \in Nat /\ Threshold >= 1
  BY ArbitrationAssumption
<1>1. CASE yes + no = 0
  BY <1>1 DEF ConsensusDecision, Decision
<1>2. CASE yes + no # 0 /\ yes * 100 >= Threshold * (yes + no)
  <2>1. ConsensusDecision(yes, no) = [kind |-> "Approve", by |-> "consensus"]
    BY <1>2 DEF ConsensusDecision
  <2>2. yes > 0
    <3> SUFFICES ASSUME yes = 0
                 PROVE  FALSE
      OBVIOUS
    <3>1. no \in Nat /\ no >= 1 /\ 0 >= Threshold * no
      BY <1>2, <1>0
    <3>2. \A a, b \in Nat : a >= 1 /\ b >= 1 => a * b >= 1
      OBVIOUS
    <3>3. Threshold * no >= 1
      BY <1>0, <3>1, <3>2
    <3>4. Threshold * no \in Nat
      BY <1>0
    <3> QED
      BY <3>1, <3>3, <3>4
  <2> QED
    BY <1>2, <2>1, <2>2 DEF Decision
<1>3. CASE yes + no # 0 /\ ~(yes * 100 >= Threshold * (yes + no))
  <2>1. ConsensusDecision(yes, no) = [kind |-> "Reject", by |-> "consensus"]
    BY <1>3 DEF ConsensusDecision
  <2>2. Threshold * (yes + no) \in Nat /\ yes * 100 \in Nat
    BY <1>0
  <2>3. yes * 100 < Threshold * (yes + no)
    BY <1>3, <2>2
  <2> QED
    BY <2>1, <2>3 DEF Decision
<1> QED
  BY <1>1, <1>2, <1>3

-----------------------------------------------------------------------------
(* Aggregating *)

\* The aggregate is one of the decisions, and none comes before its kind.
LEMMA AggregateIsWorst ==
  ASSUME NEW ds \in Seq(Decision), ds # <<>>
  PROVE  /\ \E i \in 1..Len(ds) : Aggregate(ds) = ds[i]
         /\ Aggregate(ds).kind = "Approve" => \A i \in 1..Len(ds) : ds[i].kind = "Approve"
<1> DEFINE present == {k \in 1..4 : \E i \in 1..Len(ds) : ds[i].kind = Precedence[k]}
           least   == CHOOSE k \in present : \A l \in present : k <= l
           worst   == Precedence[least]
           of      == {i \in 1..Len(ds) : ds[i].kind = worst}
           first   == CHOOSE i \in of : \A j \in of : i <= j
<1>1. /\ Precedence[1] = "Reject" /\ Precedence[2] = "Conditional"
      /\ Precedence[3] = "Defer" /\ Precedence[4] = "Approve"
  BY DEF Precedence
<1>2. \A i \in 1..Len(ds) : \E k \in 1..4 : ds[i].kind = Precedence[k]
  <2> SUFFICES ASSUME NEW i \in 1..Len(ds)
               PROVE  \E k \in 1..4 : ds[i].kind = Precedence[k]
    OBVIOUS
  <2>0. ds[i] \in Decision
    OBVIOUS
  <2>1. ds[i].kind \in {"Approve", "Reject", "Conditional", "Defer"}
    <3> HIDE DEF present, least, worst, of, first
    <3> QED
      BY <2>0 DEF Decision
  <2> QED
    BY <1>1, <2>1
<1>3. present # {} /\ present \in SUBSET Nat
  <2>1. 1 \in 1..Len(ds)
    OBVIOUS
  <2> QED
    BY <1>2, <2>1
<1>4. least \in present /\ \A l \in present : least <= l
  <2> HIDE DEF present
  <2>1. \E k \in present : \A l \in present : k <= l
    BY <1>3, LeastElement
  <2> QED
    BY <2>1
<1>5. of # {} /\ of \in SUBSET Nat
  <2> HIDE DEF least
  <2>1. PICK i \in 1..Len(ds) : ds[i].kind = Precedence[least]
    BY <1>4
  <2> QED
    BY <2>1
<1>6. first \in of
  <2> HIDE DEF of
  <2>1. \E i \in of : \A j \in of : i <= j
    BY <1>5, LeastElement
  <2> QED
    BY <2>1
<1>7. Aggregate(ds) = ds[first] /\ ds[first].kind = worst /\ first \in 1..Len(ds)
  BY <1>6 DEF Aggregate
<1>8. ASSUME worst = "Approve", NEW i \in 1..Len(ds)
      PROVE  ds[i].kind = "Approve"
  <2>1. least = 4
    BY <1>1, <1>4, <1>8
  <2>2. PICK k \in 1..4 : ds[i].kind = Precedence[k]
    BY <1>2
  <2>3. k \in present
    BY <2>2
  <2> HIDE DEF present, least
  <2>4. k = 4
    BY <1>4, <2>1, <2>3
  <2> QED
    BY <1>1, <2>2, <2>4
<1> QED
  BY <1>7, <1>8

-----------------------------------------------------------------------------
(* The invariant *)

LEMMA InitIInv == Init => IInv
<1> SUFFICES ASSUME Init
             PROVE  IInv
  OBVIOUS
<1>1. request \in Seq(Conflict)
  BY DEF Init
<1>2. /\ decisions = <<>> /\ heard = <<>> /\ approvals = 0 /\ rejections = 0
      /\ outcome = Pending
  BY DEF Init
<1>3. Shape
  BY <1>1, <1>2 DEF Shape
<1>4. Counting
  BY <1>2 DEF Counting, At
<1> QED
  BY <1>2, <1>3, <1>4 DEF IInv, Returned

\* A decision that its strategy can come to keeps the invariant.
LEMMA DecideKeeps ==
  ASSUME IInv, Working, NEW d \in Decision, Decide(d),
         IF Strategy(request[At]).kind = "consensus_required"
         THEN d = ConsensusDecision(VotesIn(Heard, "Approved"), VotesIn(Heard, "Rejected"))
         ELSE d \in Resolutions(request[At], Strategy(request[At]))
  PROVE  IInv'
<1>1. /\ request' = request /\ outcome' = Pending
      /\ decisions' = Append(decisions, d)
      /\ approvals' = 0 /\ rejections' = 0
      /\ heard' = IF Len(heard) = At THEN heard ELSE Append(heard, <<>>)
  BY DEF Decide, Working
<1>2. Shape
  BY DEF IInv
<1>3. /\ decisions' \in Seq(Decision) /\ Len(decisions') = Len(decisions) + 1
      /\ decisions'[At] = d
      /\ \A i \in 1..Len(decisions) : decisions'[i] = decisions[i]
  BY <1>1, <1>2 DEF Shape, At
<1>4. <<>> \in Seq(Reply)
  OBVIOUS
<1>5. /\ heard' \in Seq(Seq(Reply)) /\ Len(heard') = At
      /\ heard'[At] = Heard
      /\ \A i \in 1..Len(decisions) : heard'[i] = heard[i]
  <2>1. CASE Len(heard) = At
    BY <1>1, <1>2, <2>1 DEF Shape, At, Heard
  <2>2. CASE Len(heard) # At
    <3>1. Len(heard) = Len(decisions) /\ heard' = Append(heard, <<>>)
      BY <1>1, <1>2, <2>2 DEF Shape, At
    <3> QED
      BY <1>2, <1>4, <2>2, <3>1 DEF Shape, At, Heard
  <2> QED
    BY <2>1, <2>2
<1>6. Shape'
  BY <1>1, <1>2, <1>3, <1>5 DEF Shape, At, Working
<1>7. Counting'
  BY <1>1, <1>2, <1>3, <1>5 DEF Counting, At, Shape
<1>8. ASSUME NEW i \in 1..Len(decisions')
      PROVE  MadeBy(i)'
  <2>1. CASE i \in 1..Len(decisions)
    <3>1. MadeBy(i)
      BY <2>1 DEF IInv
    <3> QED
      BY <1>1, <1>3, <1>5, <2>1, <3>1 DEF MadeBy
  <2>2. CASE i = At
    <3>1. decisions'[i] = d /\ heard'[i] = Heard /\ request'[i] = request[At]
      BY <1>1, <1>3, <1>5, <2>2
    <3> QED
      BY <2>2, <3>1 DEF MadeBy
  <2> QED
    BY <1>2, <1>3, <1>8, <2>1, <2>2 DEF Shape, At
<1> QED
  BY <1>1, <1>6, <1>7, <1>8 DEF IInv, Returned

\* The conflict at hand is one of the request's.
LEMMA AtHand ==
  ASSUME IInv, Working
  PROVE  At \in 1..Len(request) /\ request[At] \in Conflict
  BY DEF IInv, Shape, Working, At

LEMMA ResolveKeeps == IInv /\ Resolve => IInv'
<1> SUFFICES ASSUME IInv, Resolve
             PROVE  IInv'
  OBVIOUS
<1>1. Working /\ Strategy(request[At]).kind # "consensus_required"
  BY DEF Resolve
<1>2. PICK d \in Resolutions(request[At], Strategy(request[At])) : Decide(d)
  BY DEF Resolve
<1>3. d \in Decision
  BY <1>1, AtHand, ResolvesToASide, SidesAreDecisions
<1> QED
  BY <1>1, <1>2, <1>3, DecideKeeps

\* What was heard and counted of the conflict at hand.
LEMMA HeardCounted ==
  ASSUME IInv
  PROVE  /\ Heard \in Seq(Reply)
         /\ approvals = VotesIn(Heard, "Approved")
         /\ rejections = VotesIn(Heard, "Rejected")
         /\ approvals + rejections <= Len(Heard)
         /\ Asking => Len(Heard) <= Len(Quorum) /\ Len(Quorum) \in 0..255
<1>1. Shape /\ Counting
  BY DEF IInv
<1>2. Asking => Len(Quorum) \in 0..255
  BY StrategyKinds DEF Asking, Quorum
<1>3. CASE Len(heard) = At
  <2>1. Heard = heard[At] /\ At \in 1..Len(heard)
    BY <1>1, <1>3 DEF Heard, Shape, At
  <2> QED
    BY <1>1, <1>2, <1>3, <2>1, SMTT(30) DEF Shape, Counting
<1>4. CASE Len(heard) # At
  <2>1. Heard = <<>>
    BY <1>4 DEF Heard
  <2> QED
    BY <1>1, <1>2, <1>4, <2>1, VotesInNothing, SMTT(30) DEF Counting
<1> QED
  BY <1>3, <1>4

LEMMA ConsensusKeeps == IInv /\ Consensus => IInv'
<1> SUFFICES ASSUME IInv, Consensus
             PROVE  IInv'
  OBVIOUS
<1>1. /\ Working /\ Strategy(request[At]).kind = "consensus_required"
      /\ Decide(ConsensusDecision(approvals, rejections))
  BY DEF Consensus, Asking
<1>2. approvals \in Nat /\ rejections \in Nat
  BY DEF IInv
<1>3. ConsensusDecision(approvals, rejections) \in Decision
  BY <1>2, ConsensusDecides
<1> QED
  BY <1>1, <1>3, HeardCounted, DecideKeeps

LEMMA AskKeeps ==
  ASSUME IInv, NEW answer, Ask(answer)
  PROVE  IInv'
<1>1. /\ Working /\ Strategy(request[At]).kind = "consensus_required"
      /\ Len(Heard) < Len(Quorum) /\ answer \in Reply
  BY DEF Ask, Asking, Reply
<1>2. /\ request' = request /\ decisions' = decisions /\ outcome' = outcome
      /\ approvals' = IF answer = "Approved" THEN approvals + 1 ELSE approvals
      /\ rejections' = IF answer = "Rejected" THEN rejections + 1 ELSE rejections
      /\ heard' = [i \in 1..At |-> IF i = At THEN Append(Heard, answer) ELSE heard[i]]
  BY DEF Ask, Counts
<1>3. Shape /\ approvals \in Nat /\ rejections \in Nat
  BY DEF IInv
<1>4. /\ Heard \in Seq(Reply) /\ Len(Quorum) \in 0..255
      /\ approvals = VotesIn(Heard, "Approved") /\ rejections = VotesIn(Heard, "Rejected")
      /\ approvals + rejections <= Len(Heard)
  BY <1>1, HeardCounted DEF Asking
<1>5. At \in Nat /\ At = Len(decisions) + 1 /\ At \in 1..Len(request)
  BY <1>1, <1>3 DEF Shape, At, Working
<1>6. Append(Heard, answer) \in Seq(Reply) /\ Len(Append(Heard, answer)) = Len(Heard) + 1
  BY <1>1, <1>4
<1>7. \A i \in 1..At : i # At => i \in 1..Len(heard)
  BY <1>3, <1>5 DEF Shape
<1>8. \A i \in 1..At : (IF i = At THEN Append(Heard, answer) ELSE heard[i]) \in Seq(Reply)
  BY <1>3, <1>6, <1>7 DEF Shape
<1>9. /\ heard' \in Seq(Seq(Reply)) /\ Len(heard') = At
      /\ heard'[At] = Append(Heard, answer)
      /\ \A i \in 1..Len(decisions) : heard'[i] = heard[i]
  BY <1>2, <1>5, <1>8
<1>10. Shape' /\ At' = At /\ Quorum' = Quorum
  BY <1>2, <1>3, <1>5, <1>9 DEF Shape, At, Quorum
<1>11. /\ approvals' = VotesIn(heard'[At], "Approved")
       /\ rejections' = VotesIn(heard'[At], "Rejected")
  <2>1. \A a : VotesIn(Append(Heard, answer), a)
                = IF answer = a THEN VotesIn(Heard, a) + 1 ELSE VotesIn(Heard, a)
    BY <1>1, <1>4, VotesInAppend
  <2> QED
    BY <1>2, <1>4, <1>9, <2>1
<1>12. /\ approvals' \in Nat /\ rejections' \in Nat
       /\ approvals' + rejections' <= Len(heard'[At])
       /\ Len(heard'[At]) <= Len(Quorum)
  <2>1. Len(heard'[At]) = Len(Heard) + 1 /\ Len(Heard) \in Nat /\ Len(Quorum) \in Nat
    BY <1>4, <1>6, <1>9, SMTT(30)
  <2>2. answer = "Approved" => answer # "Rejected"
    OBVIOUS
  <2>3. approvals' \in Nat /\ rejections' \in Nat
    BY <1>2, <1>3
  <2>4. approvals' + rejections' <= approvals + rejections + 1
    BY <1>2, <1>3, <2>2
  <2>5. Len(Heard) < Len(Quorum) /\ approvals + rejections <= Len(Heard)
    BY <1>1, <1>4
  <2>6. \A a, b, x, y, n, q \in Nat :
          (x + y <= a + b + 1 /\ a + b <= n /\ n < q) => (x + y <= n + 1 /\ n + 1 <= q)
    OBVIOUS
  <2>7. approvals' + rejections' <= Len(Heard) + 1 /\ Len(Heard) + 1 <= Len(Quorum)
    BY <1>3, <2>1, <2>3, <2>4, <2>5, <2>6
  <2> QED
    BY <2>1, <2>3, <2>7
<1>13. Counting'
  BY <1>1, <1>2, <1>5, <1>9, <1>10, <1>11, <1>12 DEF Counting
<1>14. ASSUME NEW i \in 1..Len(decisions')
       PROVE  MadeBy(i)'
  <2>1. MadeBy(i)
    BY <1>2, <1>14 DEF IInv
  <2> QED
    BY <1>2, <1>9, <1>14, <2>1 DEF MadeBy
<1>15. Returned'
  BY <1>1, <1>2 DEF Returned, Working
<1> QED
  BY <1>10, <1>12, <1>13, <1>14, <1>15 DEF IInv

LEMMA ReturnKeeps == IInv /\ Return => IInv'
<1> SUFFICES ASSUME IInv, Return
             PROVE  IInv'
  OBVIOUS
<1>1. /\ request' = request /\ decisions' = decisions /\ heard' = heard
      /\ approvals' = approvals /\ rejections' = rejections
      /\ At > Len(request)
      /\ outcome' = IF request = <<>> THEN NoConflictToResolve ELSE Aggregate(decisions)
  BY DEF Return
<1>2. Len(decisions) = Len(request)
  BY <1>1 DEF IInv, Shape, At
<1>3. Shape' /\ Counting'
  BY <1>1 DEF IInv, Shape, Counting, At, Quorum
<1>4. Returned'
  BY <1>1, <1>2 DEF Returned
<1>5. \A i \in 1..Len(decisions') : MadeBy(i)'
  BY <1>1 DEF IInv, MadeBy
<1> QED
  BY <1>1, <1>3, <1>4, <1>5 DEF IInv

LEMMA StepIInv == IInv /\ [Next]_vars => IInv'
<1> SUFFICES ASSUME IInv, [Next]_vars
             PROVE  IInv'
  OBVIOUS
<1>1. CASE UNCHANGED vars
  <2>1. /\ request' = request /\ decisions' = decisions /\ heard' = heard
        /\ approvals' = approvals /\ rejections' = rejections /\ outcome' = outcome
    BY <1>1 DEF vars
  <2>2. \A i : MadeBy(i)' <=> MadeBy(i)
    BY <2>1 DEF MadeBy
  <2>3. (Shape' <=> Shape) /\ (Counting' <=> Counting) /\ (Returned' <=> Returned)
    BY <2>1 DEF Shape, Counting, Returned, At, Quorum
  <2> QED
    BY <2>1, <2>2, <2>3 DEF IInv
<1> QED
  BY <1>1, ResolveKeeps, ConsensusKeeps, AskKeeps, ReturnKeeps DEF Next

LEMMA Invariance == Spec => []IInv
  BY InitIInv, StepIInv, PTL DEF Spec

-----------------------------------------------------------------------------
(* Types *)

LEMMA InvTypes == IInv => TypeOK
<1> SUFFICES ASSUME IInv
             PROVE  TypeOK
  OBVIOUS
<1>1. Shape /\ Counting /\ Returned /\ approvals \in Nat /\ rejections \in Nat
  BY DEF IInv
<1>2. request \in Seq(PolicyConflict)
  <2>1. \A i \in 1..Len(request) : request[i] \in PolicyConflict
    BY <1>1, ConflictAssumption DEF Shape
  <2>2. request = [i \in 1..Len(request) |-> request[i]] /\ Len(request) \in Nat
    BY <1>1 DEF Shape
  <2> QED
    BY <2>1, <2>2, SeqDef
<1>3. /\ heard \in Seq(Seq(Answer \cup {"absent"})) /\ decisions \in Seq(Decision)
      /\ Len(decisions) <= Len(request)
      /\ Len(heard) \in {Len(decisions), Len(decisions) + 1}
  BY <1>1 DEF Shape, Reply
<1>4. approvals + rejections <= Len(Heard)
  BY HeardCounted
<1>5. approvals + rejections <= 255
  <2>1. CASE Len(heard) = At
    <3>1. /\ Strategy(request[At]).kind = "consensus_required"
          /\ Len(heard[At]) <= Len(Quorum) /\ approvals + rejections <= Len(heard[At])
      BY <1>1, <2>1 DEF Counting
    <3>2. Len(Quorum) \in 0..255
      BY <3>1, StrategyKinds DEF Quorum
    <3>3. Len(heard[At]) \in Nat
      <4>1. At \in 1..Len(heard)
        BY <1>1, <2>1 DEF Shape, At
      <4>2. heard[At] \in Seq(Reply)
        BY <1>1, <4>1 DEF Shape
      <4> QED
        BY <4>2
    <3>4. \A a, b, n, q \in Nat : a + b <= n /\ n <= q /\ q <= 255 => a + b <= 255
      OBVIOUS
    <3>5. Len(Quorum) \in Nat /\ Len(Quorum) <= 255
      <4>1. \A q \in 0..255 : q \in Nat /\ q <= 255
        OBVIOUS
      <4> QED
        BY <3>2, <4>1, Zenon
    <3>6. approvals \in Nat /\ rejections \in Nat
      BY <1>1
    <3> QED
      BY <3>1, <3>3, <3>4, <3>5, <3>6
  <2>2. CASE Len(heard) # At
    BY <1>1, <2>2 DEF Counting
  <2> QED
    BY <2>1, <2>2
<1>6. outcome \in {Pending, NoConflictToResolve} \cup Decision
  <2>1. CASE outcome = Pending
    BY <2>1
  <2>2. CASE outcome # Pending /\ request = <<>>
    BY <1>1, <2>2 DEF Returned
  <2>3. CASE outcome # Pending /\ request # <<>>
    <3>1. decisions # <<>> /\ outcome = Aggregate(decisions)
      BY <1>1, <2>3 DEF Returned, Shape
    <3>2. PICK i \in 1..Len(decisions) : Aggregate(decisions) = decisions[i]
      BY <1>3, <3>1, AggregateIsWorst
    <3>3. decisions[i] \in Decision
      BY <1>3, <3>2
    <3> QED
      BY <3>1, <3>2, <3>3
  <2> QED
    BY <2>1, <2>2, <2>3
<1> QED
  BY <1>1, <1>2, <1>3, <1>4, <1>5, <1>6 DEF TypeOK

\* The types hold for every request, and the counters of a quorum, which are
\* bytes, never exceed what its members have said.
THEOREM TypeCorrect == Spec => []TypeOK
  BY Invariance, InvTypes, PTL

-----------------------------------------------------------------------------
(* The outcome is backed *)

\* A decision that approves or rejects favours the answer it gives.
LEMMA DecisionsFavour ==
  ASSUME IInv, NEW i \in 1..Len(decisions)
  PROVE  /\ decisions[i].kind = "Approve" => Favours(i, "Approved")
         /\ decisions[i].kind = "Reject" => Favours(i, "Rejected")
<1> DEFINE c == request[i]
           d == decisions[i]
           yes == VotesIn(heard[i], "Approved")
           no  == VotesIn(heard[i], "Rejected")
<1>1. Shape /\ MadeBy(i)
  BY DEF IInv
<1>2. c \in Conflict /\ heard[i] \in Seq(Reply)
  BY <1>1 DEF Shape
<1>3. Votes(i, "Approved") = yes /\ Votes(i, "Rejected") = no
  BY DEF Votes, VotesIn
<1>4. CASE Strategy(c).kind = "consensus_required"
  <2>1. d = ConsensusDecision(yes, no)
    BY <1>1, <1>4 DEF MadeBy
  <2>2. yes \in Nat /\ no \in Nat
    BY <1>2, VotesInNat
  <2> HIDE DEF c, d, yes, no
  <2>3. /\ d.kind = "Approve"
             => d.by = "consensus" /\ yes > 0 /\ yes * 100 >= Threshold * (yes + no)
        /\ d.kind = "Reject" => d.by = "consensus" /\ yes * 100 < Threshold * (yes + no)
    BY <2>1, <2>2, ConsensusDecides
  <2>4. "Approved" # "Rejected"
    OBVIOUS
  <2>5. d.kind = "Approve" => Favours(i, "Approved")
    BY <1>3, <2>3, Zenon DEF Favours, d
  <2>6. d.kind = "Reject" => Favours(i, "Rejected")
    BY <1>3, <2>3, <2>4, Zenon DEF Favours, d
  <2> QED
    BY <2>5, <2>6 DEF d
<1>5. CASE Strategy(c).kind # "consensus_required"
  <2>1. d \in Resolutions(c, Strategy(c))
    BY <1>1, <1>5 DEF MadeBy
  <2>2. d = SideA(c) \/ d = SideB(c) \/ d = Deferred
    BY <1>5, <2>1, ResolvesToASide
  <2>3. /\ c.orisha_a \in Orisha /\ c.orisha_b \in Orisha
        /\ c.a_result \in Answer /\ c.b_result \in Answer
    BY <1>2, ConflictAssumption DEF PolicyConflict
  <2>4. Deferred.kind = "Defer"
    BY DEF Deferred
  <2> HIDE DEF c, d
  <2>5. /\ SideA(c).by = c.orisha_a
        /\ SideA(c).kind = "Approve" => c.a_result = "Approved"
        /\ SideA(c).kind = "Reject" => c.a_result = "Rejected"
    BY <2>3, DecisionOfAnswer DEF SideA
  <2>6. /\ SideB(c).by = c.orisha_b
        /\ SideB(c).kind = "Approve" => c.b_result = "Approved"
        /\ SideB(c).kind = "Reject" => c.b_result = "Rejected"
    BY <2>3, DecisionOfAnswer DEF SideB
  <2>7. "Defer" # "Approve" /\ "Defer" # "Reject"
    OBVIOUS
  <2>8. /\ d.kind = "Approve" => (d.by = c.orisha_a /\ c.a_result = "Approved")
                                   \/ (d.by = c.orisha_b /\ c.b_result = "Approved")
        /\ d.kind = "Reject" => (d.by = c.orisha_a /\ c.a_result = "Rejected")
                                  \/ (d.by = c.orisha_b /\ c.b_result = "Rejected")
    BY <2>2, <2>4, <2>5, <2>6, <2>7
  <2> QED
    BY <2>8 DEF Favours, c, d
<1> QED
  BY <1>4, <1>5

LEMMA InvBacked == IInv => OutcomeIsBacked
<1> SUFFICES ASSUME IInv
             PROVE  OutcomeIsBacked
  OBVIOUS
<1>1. CASE outcome = Pending
  BY <1>1 DEF OutcomeIsBacked, Pending
<1>2. CASE outcome # Pending /\ request = <<>>
  <2>1. outcome = [kind |-> "no conflict to resolve"]
    BY <1>2 DEF IInv, Returned, NoConflictToResolve
  <2> QED
    BY <2>1 DEF OutcomeIsBacked
<1>3. CASE outcome # Pending /\ request # <<>>
  <2>1. /\ decisions \in Seq(Decision) /\ decisions # <<>>
        /\ Len(decisions) = Len(request) /\ outcome = Aggregate(decisions)
    BY <1>3 DEF IInv, Returned, Shape
  <2>2. PICK i \in 1..Len(decisions) : outcome = decisions[i]
    BY <2>1, AggregateIsWorst
  <2>3. outcome.kind = "Approve" => \A j \in 1..Len(request) : Favours(j, "Approved")
    BY <2>1, AggregateIsWorst, DecisionsFavour
  <2>4. outcome.kind = "Reject" => \E j \in 1..Len(request) : Favours(j, "Rejected")
    BY <2>1, <2>2, DecisionsFavour
  <2> QED
    BY <2>3, <2>4 DEF OutcomeIsBacked
<1> QED
  BY <1>1, <1>2, <1>3

\* Approval needs every conflict decided for a party that approves or by a
\* quorum past its threshold; rejection needs one that was rejected.
THEOREM OutcomeIsBackedHolds == Spec => []OutcomeIsBacked
  BY Invariance, InvBacked, PTL

-----------------------------------------------------------------------------
(* Both sides of a conflict are alike *)

LEMMA SameStrategy ==
  ASSUME NEW c \in Conflict, ~NamedTwice(c)
  PROVE  Strategy(Swapped(c)) = Strategy(c)
<1>1. <<c.orisha_a, c.orisha_b>> \in DOMAIN Strategies
        => <<c.orisha_b, c.orisha_a>> \notin DOMAIN Strategies
  BY DEF NamedTwice
<1>2. Swapped(c).orisha_a = c.orisha_b /\ Swapped(c).orisha_b = c.orisha_a
  BY DEF Swapped
<1> QED
  BY <1>1, <1>2 DEF Strategy

LEMMA SameSides ==
  ASSUME NEW c
  PROVE  SideA(Swapped(c)) = SideB(c) /\ SideB(Swapped(c)) = SideA(c)
  BY DEF SideA, SideB, Swapped

LEMMA SameLexical ==
  ASSUME NEW c \in Conflict
  PROVE  Lexical(Swapped(c)) = Lexical(c)
<1>1. /\ c.orisha_a \in Orisha /\ c.orisha_b \in Orisha /\ c.orisha_a # c.orisha_b
  BY ConflictAssumption DEF PolicyConflict
<1>2. /\ Rank[c.orisha_a] \in Nat /\ Rank[c.orisha_b] \in Nat
      /\ Rank[c.orisha_a] # Rank[c.orisha_b]
  BY <1>1, ArbitrationAssumption
<1>3. Swapped(c).orisha_a = c.orisha_b /\ Swapped(c).orisha_b = c.orisha_a
  BY DEF Swapped
<1> QED
  BY <1>2, <1>3, SameSides DEF Lexical

\* A strategy that neither asks nor draws comes to one decision, the same for
\* the mirrored conflict.
LEMMA SameResolutions ==
  ASSUME NEW c \in Conflict,
         Strategy(c).kind \in {"weighted_vote", "lexical_order", "hierarchical"},
         NEW d \in Resolutions(c, Strategy(c))
  PROVE  Resolutions(Swapped(c), Strategy(c)) = {d}
<1> DEFINE s == Strategy(c)
<1>1. s.kind = "weighted_vote" => \A o \in DOMAIN s.weights : s.weights[o] \in Nat
  BY StrategyKinds
<1>2. Swapped(c).orisha_a = c.orisha_b /\ Swapped(c).orisha_b = c.orisha_a
  BY DEF Swapped
<1>3. c.orisha_a # c.orisha_b
  BY ConflictAssumption
<1>4. d \in Resolutions(c, s)
  OBVIOUS
<1> HIDE DEF s
<1>5. CASE s.kind = "weighted_vote"
  <2>1. d = WeightedVote(c, s.weights)
        /\ Resolutions(Swapped(c), s) = {WeightedVote(Swapped(c), s.weights)}
    BY <1>4, <1>5 DEF Resolutions
  <2>2. \A o : Weight(s.weights, o) \in Nat
    BY <1>1, <1>5 DEF Weight
  <2>3. WeightedVote(Swapped(c), s.weights) = WeightedVote(c, s.weights)
    BY <1>2, <2>2, SameSides, SameLexical DEF WeightedVote
  <2> QED
    BY <2>1, <2>3 DEF s
<1>6. CASE s.kind = "lexical_order"
  <2>1. d = Lexical(c) /\ Resolutions(Swapped(c), s) = {Lexical(Swapped(c))}
    BY <1>4, <1>6 DEF Resolutions
  <2> QED
    BY <2>1, SameLexical DEF s
<1>7. CASE s.kind = "hierarchical"
  <2>1. d = Hierarchical(c, s.superior)
        /\ Resolutions(Swapped(c), s) = {Hierarchical(Swapped(c), s.superior)}
    BY <1>4, <1>7 DEF Resolutions
  <2>2. Hierarchical(Swapped(c), s.superior) = Hierarchical(c, s.superior)
    BY <1>2, <1>3, SameSides DEF Hierarchical
  <2> QED
    BY <2>1, <2>2 DEF s
<1> QED
  BY <1>5, <1>6, <1>7 DEF s

LEMMA InvSides == IInv => SidesAreAlike
<1> SUFFICES ASSUME IInv, NEW i \in 1..Len(decisions),
                    Strategy(request[i]).kind
                      \in {"weighted_vote", "lexical_order", "hierarchical"},
                    ~NamedTwice(request[i])
             PROVE  /\ Strategy(Swapped(request[i])) = Strategy(request[i])
                    /\ Resolutions(Swapped(request[i]), Strategy(Swapped(request[i])))
                         = {decisions[i]}
  BY DEF SidesAreAlike
<1>1. request[i] \in Conflict /\ MadeBy(i)
  BY DEF IInv, Shape
<1>2. decisions[i] \in Resolutions(request[i], Strategy(request[i]))
  BY <1>1 DEF MadeBy
<1> QED
  BY <1>1, <1>2, SameStrategy, SameResolutions

\* Which orisha a conflict names first does not decide it, unless the graph
\* names the pair in both orders.
THEOREM SidesAreAlikeHolds == Spec => []SidesAreAlike
  BY Invariance, InvSides, PTL
=============================================================================
