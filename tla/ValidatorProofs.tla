--------------------------- MODULE ValidatorProofs ---------------------------
(***************************************************************************)
(* Theorems about what validators sign: certificates of the vote collector *)
(* are backed by distinct voters, two quorums of more than two thirds share*)
(* a correct node; and a replay that is promoted was recorded, signed with *)
(* the keys of the validators it names, and tokens are the registry's own. *)
(***************************************************************************)
EXTENDS BftVotes, Replay, FiniteSetTheorems, FunctionTheorems, SequenceTheorems,
        WellFoundedInduction, TLAPS

Distinct(votes) == \A i, j \in 1..Len(votes) : votes[i] = votes[j] => i = j

-----------------------------------------------------------------------------
(* Lemmas about sequences of votes *)

\* push: the voters of a slot after a new vote.
LEMMA AppendVote ==
  ASSUME NEW votes \in Seq(Node), NEW n \in Node
  PROVE  /\ Append(votes, n) \in Seq(Node)
         /\ Append(votes, n) # <<>>
         /\ Voters(Append(votes, n)) = Voters(votes) \cup {n}
         /\ Distinct(votes) /\ n \notin Voters(votes) => Distinct(Append(votes, n))
<1> DEFINE w == Append(votes, n)
<1>1. /\ w \in Seq(Node)
      /\ Len(w) = Len(votes) + 1
      /\ w[Len(votes) + 1] = n
      /\ \A i \in 1..Len(votes) : w[i] = votes[i]
  OBVIOUS
<1>2. w # <<>>
  BY <1>1
<1> HIDE DEF w
<1>3. 1..Len(w) = (1..Len(votes)) \cup {Len(votes) + 1}
  BY <1>1
<1>4. Voters(w) = Voters(votes) \cup {n}
  BY <1>1, <1>3 DEF Voters
<1>5. ASSUME Distinct(votes), n \notin Voters(votes)
      PROVE  Distinct(w)
  BY <1>1, <1>3, <1>5 DEF Distinct, Voters
<1> QED
  BY <1>1, <1>2, <1>4, <1>5 DEF w

\* Without duplicates a sequence has as many voters as votes: what lets
\* is_quorum count messages.
LEMMA DistinctCount ==
  ASSUME NEW votes \in Seq(Node), Distinct(votes)
  PROVE  /\ Voters(votes) \subseteq Node
         /\ IsFiniteSet(Voters(votes))
         /\ Cardinality(Voters(votes)) = Len(votes)
<1> DEFINE I == 1..Len(votes)
           f == [i \in I |-> votes[i]]
<1>1. Len(votes) \in Nat /\ \A i \in I : votes[i] \in Node
  OBVIOUS
<1>2. IsFiniteSet(I) /\ Cardinality(I) = Len(votes)
  <2>1. IsFiniteSet(1..Len(votes))
        /\ Cardinality(1..Len(votes)) = IF 1 > Len(votes) THEN 0 ELSE Len(votes) - 1 + 1
    BY <1>1, FS_Interval
  <2> QED
    BY <1>1, <2>1
<1>3. Voters(votes) \subseteq Node
  BY <1>1 DEF Voters
<1>4. f \in Bijection(I, Voters(votes))
  <2>1. f \in [I -> Voters(votes)]
    BY DEF Voters
  <2>2. \A i, j \in I : f[i] = f[j] => i = j
    BY DEF Distinct
  <2>3. \A v \in Voters(votes) : \E i \in I : f[i] = v
    BY DEF Voters
  <2> QED
    BY <2>1, <2>2, <2>3, Fun_IsBij
<1>5. IsFiniteSet(Voters(votes)) /\ Cardinality(Voters(votes)) = Cardinality(I)
  BY <1>2, <1>4, FS_Bijection DEF ExistsBijection
<1> QED
  BY <1>2, <1>3, <1>5

-----------------------------------------------------------------------------
(* Two quorums share a correct node *)

LEMMA QuorumsMeet ==
  ASSUME NEW A \in SUBSET Node, NEW B \in SUBSET Node,
         Cardinality(A) * 3 > Total * 2, Cardinality(B) * 3 > Total * 2
  PROVE  \E n \in Node \ Faulty : n \in A /\ n \in B
<1>1. /\ IsFiniteSet(Node) /\ Total \in Nat /\ Cardinality(Node) <= Total
      /\ Faulty \subseteq Node /\ 3 * Cardinality(Faulty) <= Total
  BY BftAssumption
<1>2. IsFiniteSet(A) /\ IsFiniteSet(B) /\ IsFiniteSet(Faulty)
  BY <1>1, FS_Subset
<1>3. IsFiniteSet(A \cup B) /\ IsFiniteSet(A \cap B)
  BY <1>2, FS_Union, FS_Intersection
<1>4. /\ Cardinality(A \cup B)
           = Cardinality(A) + Cardinality(B) - Cardinality(A \cap B)
      /\ Cardinality(A \cup B) <= Cardinality(Node)
  BY <1>1, <1>2, FS_Union, FS_Subset
<1>5. /\ Cardinality(A) \in Nat /\ Cardinality(B) \in Nat /\ Cardinality(Node) \in Nat
      /\ Cardinality(A \cap B) \in Nat /\ Cardinality(A \cup B) \in Nat
      /\ Cardinality(Faulty) \in Nat
  BY <1>1, <1>2, <1>3, FS_CardinalityType
<1>6. Cardinality(A \cap B) > Cardinality(Faulty)
  BY <1>1, <1>4, <1>5
<1>7. ~(A \cap B \subseteq Faulty)
  <2> SUFFICES ASSUME A \cap B \subseteq Faulty
               PROVE  FALSE
    OBVIOUS
  <2>1. Cardinality(A \cap B) <= Cardinality(Faulty)
    BY <1>2, FS_Subset
  <2> QED
    BY <1>5, <1>6, <2>1
<1> QED
  BY <1>7

-----------------------------------------------------------------------------
(* The inductive invariant *)

\* A certificate is a snapshot of a slot: the slot has only grown since.
Snapshot(qc) ==
  /\ <<qc.round, qc.block_hash>> \in Slot
  /\ qc.votes \in Seq(Node)
  /\ Distinct(qc.votes)
  /\ Voters(qc.votes) \subseteq Voters(pending_votes[<<qc.round, qc.block_hash>>])
  /\ IsQuorum(qc.votes)

IInv ==
  /\ TypeOK
  /\ \A k \in Slot : Distinct(pending_votes[k])
  /\ CorrectOnce
  /\ \A qc \in issued : Snapshot(qc)

LEMMA InitIInv == Init => IInv
<1> SUFFICES ASSUME Init
             PROVE  IInv
  OBVIOUS
<1>1. \A k \in Slot : pending_votes[k] = <<>>
  BY DEF Init
<1>2. TypeOK
  BY <1>1 DEF Init, TypeOK, Entries
<1>3. \A k \in Slot : Distinct(pending_votes[k]) /\ Voters(pending_votes[k]) = {}
  BY <1>1 DEF Distinct, Voters
<1>4. CorrectOnce
  BY <1>3 DEF CorrectOnce, Slot
<1> QED
  BY <1>2, <1>3, <1>4 DEF Init, IInv

\* What a new vote does to the slots.
LEMMA FreshSlots ==
  ASSUME TypeOK, NEW n \in Node, NEW k \in Slot, FreshVote(n, k)
  PROVE  /\ pending_votes' \in [Slot -> Seq(Node)]
         /\ pending_votes'[k] = Append(pending_votes[k], n)
         /\ \A l \in Slot \ {k} : pending_votes'[l] = pending_votes[l]
         /\ Voters(pending_votes'[k]) = Voters(pending_votes[k]) \cup {n}
         /\ k \in Entries(pending_votes')
<1>1. pending_votes[k] \in Seq(Node)
  BY DEF TypeOK
<1>2. pending_votes' = [pending_votes EXCEPT ![k] = Append(@, n)]
  BY DEF FreshVote
<1>3. Append(pending_votes[k], n) \in Seq(Node)
  BY <1>1, AppendVote
<1>4. pending_votes'[k] = Append(pending_votes[k], n)
  BY <1>2 DEF TypeOK
<1>5. pending_votes' \in [Slot -> Seq(Node)]
  BY <1>2, <1>3 DEF TypeOK
<1>6. \A l \in Slot \ {k} : pending_votes'[l] = pending_votes[l]
  BY <1>2 DEF TypeOK
<1> QED
  BY <1>1, <1>4, <1>5, <1>6, AppendVote DEF Entries

LEMMA LastStays ==
  ASSUME TypeOK, NEW n \in Node, NEW k \in Slot, FreshVote(n, k)
  PROVE  last' \in Entries(pending_votes')
<1>1. last' \in LastAmong(k, pending_votes')
  BY DEF FreshVote
<1>2. \A l \in Slot : pending_votes[l] # <<>> => l \in Entries(pending_votes')
  BY FreshSlots DEF Entries
<1>3. k \in Entries(pending_votes')
  BY FreshSlots
<1>4. ASSUME last \notin Entries(pending_votes')
      PROVE  Entries(pending_votes') = {k} /\ pending_votes[k] = <<>>
  <2>1. Entries(pending_votes) = {}
    BY <1>2, <1>4 DEF TypeOK
  <2>2. \A l \in Slot : pending_votes[l] = <<>>
    BY <2>1 DEF Entries
  <2> QED
    BY <1>3, <2>2, FreshSlots DEF Entries
<1> QED
  BY <1>1, <1>3, <1>4 DEF LastAmong

LEMMA StepIInv ==
  ASSUME IInv, [Next]_vars
  PROVE  IInv'
<1>1. ASSUME NEW n \in Node, NEW k \in Slot, MayArrive(n, k), FreshVote(n, k)
      PROVE  IInv'
  <2>0. TypeOK
    BY DEF IInv
  <2>1. TypeOK'
    BY <1>1, <2>0, FreshSlots, LastStays DEF TypeOK, Entries
  <2>2. \A l \in Slot : Distinct(pending_votes'[l])
    <3>1. Distinct(pending_votes'[k])
      BY <1>1, <2>0, FreshSlots, AppendVote DEF IInv, FreshVote, HasVoted, TypeOK
    <3> QED
      BY <1>1, <2>0, <3>1, FreshSlots DEF IInv
  <2>3. \A l \in Slot : Voters(pending_votes[l]) \subseteq Voters(pending_votes'[l])
    BY <1>1, <2>0, FreshSlots
  <2>4. CorrectOnce'
    <3> SUFFICES ASSUME NEW m \in Node \ Faulty, NEW r \in Round,
                        NEW b1 \in Block, NEW b2 \in Block,
                        m \in Voters(pending_votes'[<<r, b1>>]),
                        m \in Voters(pending_votes'[<<r, b2>>])
                 PROVE  b1 = b2
      BY DEF CorrectOnce
    <3>1. <<r, b1>> \in Slot /\ <<r, b2>> \in Slot
      BY DEF Slot
    <3>2. \A l \in Slot : m \in Voters(pending_votes'[l]) =>
             m \in Voters(pending_votes[l]) \/ (m = n /\ l = k)
      <4> SUFFICES ASSUME NEW l \in Slot, m \in Voters(pending_votes'[l])
                   PROVE  m \in Voters(pending_votes[l]) \/ (m = n /\ l = k)
        OBVIOUS
      <4>1. CASE l = k
        <5>1. Voters(pending_votes'[k]) = Voters(pending_votes[k]) \cup {n}
          BY <1>1, <2>0, FreshSlots
        <5> QED
          BY <4>1, <5>1
      <4>2. CASE l # k
        <5>1. pending_votes'[l] = pending_votes[l]
          BY <1>1, <2>0, <4>2, FreshSlots
        <5> QED
          BY <5>1
      <4> QED
        BY <4>1, <4>2
    <3>3. ASSUME NEW b \in Block, NEW c \in Block,
                 <<r, b>> = k, m = n, m \in Voters(pending_votes[<<r, c>>])
          PROVE  b = c
      BY <1>1, <3>3 DEF MayArrive
    <3>4. \A b \in Block, c \in Block : <<r, b>> = <<r, c>> => b = c
      OBVIOUS
    <3>5. m \in Voters(pending_votes[<<r, b1>>]) /\ m \in Voters(pending_votes[<<r, b2>>])
            => b1 = b2
      BY DEF IInv, CorrectOnce
    <3> QED
      BY <3>1, <3>2, <3>3, <3>4, <3>5
  <2>5. \A qc \in issued : Snapshot(qc)'
    BY <2>3 DEF IInv, Snapshot
  <2>6. ASSUME NEW qc \in issued', qc \notin issued
        PROVE  Snapshot(qc)'
    <3>1. /\ qc = QuorumCertificate(last', pending_votes'[last'])
          /\ IsQuorum(qc.votes)
      BY <1>1, <2>6 DEF FreshVote, CertificateOf
    <3>2. last' \in Slot
      BY <2>1 DEF TypeOK
    <3>3. <<last'[1], last'[2]>> = last'
      BY <3>2 DEF Slot
    <3>4. <<qc.round, qc.block_hash>> = last' /\ qc.votes = pending_votes'[last']
      BY <3>1, <3>3 DEF QuorumCertificate
    <3> QED
      BY <2>1, <2>2, <3>1, <3>2, <3>4 DEF Snapshot, TypeOK, IsQuorum
  <2> QED
    BY <2>1, <2>2, <2>4, <2>5, <2>6 DEF IInv
<1>2. ASSUME UNCHANGED <<pending_votes, last, issued>>
      PROVE  IInv'
  BY <1>2 DEF IInv, TypeOK, Entries, CorrectOnce, Snapshot, IsQuorum
<1> QED
  BY <1>1, <1>2 DEF Next, ReceiveVote, DuplicateVote, vars

LEMMA Invariance == Spec => []IInv
  BY InitIInv, StepIInv, PTL DEF Spec

-----------------------------------------------------------------------------
(* The theorems *)

\* The type of the slots, and that values().last() is never None.
THEOREM TypeCorrect == Spec => []TypeOK
<1>1. IInv => TypeOK
  BY DEF IInv
<1> QED
  BY <1>1, Invariance, PTL

\* No slot counts a node twice.
THEOREM VotesDistinctHolds == Spec => []VotesDistinct
<1>1. IInv => VotesDistinct
  BY DEF IInv, Distinct, VotesDistinct
<1> QED
  BY <1>1, Invariance, PTL

\* Every certificate is backed by more than two thirds of the nodes.
THEOREM CertificatesBacked == Spec => []CertificateBacked
<1>1. ASSUME IInv
      PROVE  CertificateBacked
  <2> SUFFICES ASSUME NEW qc \in issued
               PROVE  LET k == <<qc.round, qc.block_hash>> IN
                      /\ k \in Slot
                      /\ Voters(qc.votes) \subseteq Voters(pending_votes[k])
                      /\ Cardinality(Voters(qc.votes)) * 3 > Total * 2
    BY DEF CertificateBacked
  <2>1. Snapshot(qc)
    BY <1>1 DEF IInv
  <2>2. Cardinality(Voters(qc.votes)) = Len(qc.votes)
    BY <2>1, DistinctCount DEF Snapshot
  <2> QED
    BY <2>1, <2>2 DEF Snapshot, IsQuorum
<1> QED
  BY <1>1, Invariance, PTL

\* Two certificates of one round are for one block.
THEOREM AgreementHolds == Spec => []Agreement
<1>1. ASSUME IInv
      PROVE  Agreement
  <2> SUFFICES ASSUME NEW qc1 \in issued, NEW qc2 \in issued, qc1.round = qc2.round
               PROVE  qc1.block_hash = qc2.block_hash
    BY DEF Agreement
  <2>1. Snapshot(qc1) /\ Snapshot(qc2)
    BY <1>1 DEF IInv
  <2>2. /\ Voters(qc1.votes) \subseteq Node
        /\ Cardinality(Voters(qc1.votes)) * 3 > Total * 2
    BY <2>1, DistinctCount DEF Snapshot, IsQuorum
  <2>3. /\ Voters(qc2.votes) \subseteq Node
        /\ Cardinality(Voters(qc2.votes)) * 3 > Total * 2
    BY <2>1, DistinctCount DEF Snapshot, IsQuorum
  <2>4. PICK n \in Node \ Faulty : n \in Voters(qc1.votes) /\ n \in Voters(qc2.votes)
    BY <2>2, <2>3, QuorumsMeet
  <2>5. /\ n \in Voters(pending_votes[<<qc1.round, qc1.block_hash>>])
        /\ n \in Voters(pending_votes[<<qc1.round, qc2.block_hash>>])
    BY <2>1, <2>4 DEF Snapshot
  <2>6. qc1.round \in Round /\ qc1.block_hash \in Block /\ qc2.block_hash \in Block
    BY <2>1 DEF Snapshot, Slot
  <2> QED
    BY <1>1, <2>4, <2>5, <2>6 DEF IInv, CorrectOnce
<1> QED
  BY <1>1, Invariance, PTL

-----------------------------------------------------------------------------
(* Tokens *)

RegistryInv ==
  /\ keys \in [KeyId -> Key \cup {None}]
  /\ now \in 0..MaxTime
  /\ \A t \in tokens :
       \E claim \in Claim, expiry \in 0..MaxTime, key \in Key, id \in KeyId :
         t = Token(claim, expiry, Payload(claim, expiry),
                   Signature(key, Payload(claim, expiry)), id)

LEMMA SignatureTells ==
  ASSUME NEW k, NEW m, NEW j, NEW n, Signature(k, m) = Signature(j, n)
  PROVE  k = j /\ m = n
  BY DEF Signature

LEMMA TokenFields ==
  ASSUME NEW c, NEW e, NEW h, NEW s, NEW i
  PROVE  LET t == Token(c, e, h, s, i)
         IN  /\ t.claim = c /\ t.expiry = e /\ t.payload_hash = h
             /\ t.signature = s /\ t.signer_key_id = i
  BY DEF Token

LEMMA TokenFollows == RegistryInv => TokenIsGenuine
<1> SUFFICES ASSUME RegistryInv
             PROVE  TokenIsGenuine
  OBVIOUS
<1>1. ASSUME NEW token \in Presented, VerifyToken(token) = "ok"
      PROVE  /\ now <= token.expiry
             /\ \E t \in tokens : /\ CanonicalPayload(t) = CanonicalPayload(token)
                                  /\ t.signature.key = keys[token.signer_key_id]
  <2>1. PICK c \in Claim, e \in 0..MaxTime, i \in KeyId, t \in tokens,
             h \in [claim : Claim, expiry : 0..MaxTime] :
          token = Token(c, e, h, t.signature, i)
    BY DEF Presented
  <2>2. /\ token.claim = c /\ token.expiry = e /\ token.payload_hash = h
        /\ token.signature = t.signature /\ token.signer_key_id = i
    BY <2>1, TokenFields
  <2>3. /\ token.signature = Signature(keys[i], token.payload_hash)
        /\ token.payload_hash = CanonicalPayload(token)
        /\ ~ (now > token.expiry)
    BY <1>1, <2>2 DEF VerifyToken
  <2>4. PICK tc \in Claim, te \in 0..MaxTime, k \in Key, ti \in KeyId :
          t = Token(tc, te, Payload(tc, te), Signature(k, Payload(tc, te)), ti)
    BY DEF RegistryInv
  <2>5. /\ t.claim = tc /\ t.expiry = te /\ t.signature = Signature(k, Payload(tc, te))
    BY <2>4, TokenFields
  <2>6. k = keys[i] /\ Payload(tc, te) = token.payload_hash
    <3>1. Signature(k, Payload(tc, te)) = Signature(keys[i], token.payload_hash)
      BY <2>2, <2>3, <2>5
    <3> QED
      BY <3>1, SignatureTells
  <2>7. CanonicalPayload(t) = CanonicalPayload(token) /\ t.signature.key = keys[i]
    BY <2>3, <2>5, <2>6 DEF CanonicalPayload, Signature
  <2>8. now <= token.expiry
    BY <2>2, <2>3, RegistryAssumption DEF RegistryInv
  <2> QED
    BY <2>2, <2>7, <2>8
<1>2. ASSUME NEW t \in tokens, keys[t.signer_key_id] = t.signature.key, now <= t.expiry
      PROVE  VerifyToken(t) = "ok"
  <2>1. PICK c \in Claim, e \in 0..MaxTime, k \in Key, i \in KeyId :
          t = Token(c, e, Payload(c, e), Signature(k, Payload(c, e)), i)
    BY DEF RegistryInv
  <2>2. /\ t.claim = c /\ t.expiry = e /\ t.payload_hash = Payload(c, e)
        /\ t.signature = Signature(k, Payload(c, e)) /\ t.signer_key_id = i
    BY <2>1, TokenFields
  <2>3. t.signature.key = k /\ k # None
    BY <2>2, RegistryAssumption DEF Signature
  <2>4. ~ (now > t.expiry)
    BY <1>2, <2>2, RegistryAssumption DEF RegistryInv
  <2> QED
    BY <1>2, <2>2, <2>3, <2>4 DEF VerifyToken, CanonicalPayload
<1> QED
  BY <1>1, <1>2, Zenon DEF TokenIsGenuine

LEMMA RegistryStep == RegistryInv /\ [ReplayNext]_replayVars => RegistryInv'
<1> SUFFICES ASSUME RegistryInv, [ReplayNext]_replayVars
             PROVE  RegistryInv'
  OBVIOUS
<1>1. ASSUME UNCHANGED registryVars
      PROVE  RegistryInv'
  BY <1>1 DEF RegistryInv, registryVars
<1>2. ASSUME NEW id \in KeyId, RootEndorses(id)
      PROVE  RegistryInv'
  BY <1>2 DEF RegistryInv, RootEndorses
<1>3. ASSUME NEW id \in KeyId, NEW key \in Key, RegisterKey(id, key)
      PROVE  RegistryInv'
  BY <1>3 DEF RegistryInv, RegisterKey
<1>4. ASSUME NEW claim \in Claim, NEW expiry \in 0..MaxTime, NEW key \in Key, NEW id \in KeyId,
             SignToken(claim, expiry, key, id)
      PROVE  RegistryInv'
  BY <1>4 DEF RegistryInv, SignToken
<1>5. ASSUME ClockChange
      PROVE  RegistryInv'
  BY <1>5 DEF RegistryInv, ClockChange
<1>6. CASE Prepare
  <2>1. ASSUME NEW state \in StartState, StoreState(state)
        PROVE  UNCHANGED registryVars
    BY <2>1 DEF StoreState, registryVars
  <2>2. ASSUME NEW id, NEW ops, Record(id, ops)
        PROVE  UNCHANGED registryVars
    BY <2>2 DEF Record, registryVars
  <2>3. ASSUME NEW trace, NEW orisha, NEW key, Validate(trace, orisha, key)
        PROVE  UNCHANGED registryVars
    BY <2>3 DEF Validate, registryVars
  <2> QED
    BY <1>1, <1>2, <1>3, <1>4, <1>5, <1>6, <2>1, <2>2, <2>3 DEF Prepare
<1>7. CASE Promote
  BY <1>1, <1>7 DEF Promote, VerifyAndPromote, registryVars
<1>8. ASSUME NEW outcome, Post(outcome)
      PROVE  RegistryInv'
  BY <1>1, <1>8 DEF Post, registryVars
<1>9. CASE SendReturns
  BY <1>1, <1>9 DEF SendReturns, registryVars
<1>10. CASE UNCHANGED replayVars
  BY <1>1, <1>10 DEF replayVars
<1> QED
  BY <1>6, <1>7, <1>8, <1>9, <1>10 DEF ReplayNext

LEMMA RegistryInvHolds == ReplaySpec => []RegistryInv
<1>1. ReplayInit => RegistryInv
  BY RegistryAssumption DEF ReplayInit, RegistryInit, RegistryInv
<1> QED
  BY <1>1, RegistryStep, PTL DEF ReplaySpec

\* A token is believed exactly when the key now under its signer's id signed
\* what it says and it has not expired.
THEOREM TokenIsGenuineHolds == ReplaySpec => []TokenIsGenuine
  BY RegistryInvHolds, TokenFollows, PTL

-----------------------------------------------------------------------------
(* Traces: every recorded trace is the run of operations on its start, every *)
(* signature is about a recorded trace, and a state stays stored.            *)

LEMMA LessThanIsWellFounded ==
  IsWellFoundedOn({ss \in Nat \X Nat : ss[1] < ss[2]}, Nat)
  BY NatLessThanWellFounded, Zenon DEF OpToRel

LEMMA LeastElement ==
  ASSUME NEW S \in SUBSET Nat, S # {}
  PROVE  \E i \in S : \A j \in S : i <= j
<1> DEFINE R == {ss \in Nat \X Nat : ss[1] < ss[2]}
<1>1. IsWellFoundedOn(R, Nat)
  BY LessThanIsWellFounded
<1>2. \A i, j \in Nat : <<j, i>> \notin R => i <= j
  OBVIOUS
<1> HIDE DEF R
<1>3. PICK i \in S : \A j \in S : ~ (<<j, i>> \in R)
  BY <1>1, WFMin
<1> QED
  BY <1>2, <1>3

\* A trace without its validators' signatures.
TraceOf(id, ops, start) ==
  [trace_id |-> id, input_state_hash |-> "zero",
   ops |-> [i \in 1..Len(ops) |-> HonestStep(ops[i], After(start, SubSeq(ops, 1, i)))],
   output_state_hash |-> "zero"]

IsRun(r) ==
  \E id \in TraceId, ops \in Seq(Op) :
    /\ r.trace = TraceOf(id, ops, r.start)
    /\ \A i \in 1..Len(ops) : Fits(After(r.start, SubSeq(ops, 1, i)))

Signs(s, trace) == \E o \in Orisha, key \in Key : s = Signature(key, SigPayload(trace, o))

TraceInv ==
  /\ state_store \in [{"zero", "other"} -> StartState \cup {None}]
  /\ recorded # {} => state_store["zero"] # None
  /\ \A r \in recorded : IsRun(r)
  /\ \A s \in signed : \E r \in recorded : Signs(s, r.trace)
  /\ SignedIsRecorded

\* Without an error every check has passed.
LEMMA NoError ==
  ASSUME NEW n \in Nat, NEW e, DOMAIN e = 1..n
  PROVE  FirstError(e) = "ok" <=> \A i \in 1..n : e[i] = "ok"
<1>1. CASE \A i \in 1..n : e[i] = "ok"
  BY <1>1 DEF FirstError
<1>2. CASE ~ \A i \in 1..n : e[i] = "ok"
  <2> DEFINE S == {i \in 1..n : e[i] # "ok"}
  <2>1. S \in SUBSET Nat /\ S # {}
    BY <1>2
  <2>2. PICK i \in S : \A j \in S : i <= j
    BY <2>1, LeastElement
  <2>3. i \in 1..n /\ e[i] # "ok" /\ \A j \in 1..(i - 1) : e[j] = "ok"
    BY <2>2
  <2> DEFINE c == CHOOSE k \in 1..n : e[k] # "ok" /\ \A j \in 1..(k - 1) : e[j] = "ok"
  <2>4. e[c] # "ok"
    BY <2>3
  <2>5. FirstError(e) = e[c]
    BY <1>2 DEF FirstError
  <2> QED
    BY <1>2, <2>4, <2>5
<1> QED
  BY <1>1, <1>2

LEMMA PayloadTells ==
  ASSUME NEW t, NEW u, NEW o, NEW p, SigPayload(t, o) = SigPayload(u, p)
  PROVE  \A q : SigPayload(t, q) = SigPayload(u, q)
  BY DEF SigPayload

LEMMA TraceFields ==
  ASSUME NEW trace, NEW sigs
  PROVE  LET t == WithSignatures(trace, sigs)
         IN  /\ t.trace_id = trace.trace_id
             /\ t.input_state_hash = trace.input_state_hash
             /\ t.ops = trace.ops
             /\ t.output_state_hash = trace.output_state_hash
             /\ t.validator_signatures = sigs
  BY DEF WithSignatures

LEMMA GenuineFollows == TraceInv => GenuineVerifies
<1> SUFFICES ASSUME TraceInv, NEW r \in recorded, NEW o \in Orisha, NEW key \in Registered
             PROVE  LET s == Signature(key, SigPayload(r.trace, o))
                        t == WithSignatures(r.trace, <<ValidatorSignature(o, key, s)>>)
                    IN  /\ VerifyTrace(t) = "ok"
                        /\ state_store["zero"] = r.start => ~ ReplayPanics(t)
  BY DEF GenuineVerifies
<1> DEFINE s == Signature(key, SigPayload(r.trace, o))
           sigs == <<ValidatorSignature(o, key, s)>>
           t == WithSignatures(r.trace, sigs)
<1>1. PICK id \in TraceId, ops \in Seq(Op) :
        /\ r.trace = TraceOf(id, ops, r.start)
        /\ \A i \in 1..Len(ops) : Fits(After(r.start, SubSeq(ops, 1, i)))
  BY DEF TraceInv, IsRun
<1> DEFINE n == Len(ops)
<1>2. /\ r.trace.input_state_hash = "zero" /\ r.trace.output_state_hash = "zero"
      /\ r.trace.ops = [i \in 1..n |-> HonestStep(ops[i], After(r.start, SubSeq(ops, 1, i)))]
  BY <1>1 DEF TraceOf
<1>3. n \in Nat /\ Len(r.trace.ops) = n
  BY <1>2
<1>4. \A i \in 1..n : /\ r.trace.ops[i].ir_op = ops[i]
                      /\ r.trace.ops[i].op_hash = ops[i]
                      /\ r.trace.ops[i].post_state_hash = "zero"
  BY <1>2 DEF HonestStep, HashCanonical, ComputeHash
<1>5. /\ t.input_state_hash = "zero" /\ t.output_state_hash = "zero"
      /\ t.ops = r.trace.ops /\ t.validator_signatures = sigs
      /\ t.trace_id = r.trace.trace_id
  BY <1>2, TraceFields
<1>6. SigPayload(t, o) = SigPayload(r.trace, o)
  BY <1>5, <1>2 DEF SigPayload
<1> HIDE DEF t
<1>7. \A i \in 1..n : StepError(t, i) = "ok"
  BY <1>4, <1>5 DEF StepError, HashCanonical, ComputeHash
<1>8. FirstError(StepErrors(t)) = "ok"
  <2>1. DOMAIN StepErrors(t) = 1..n /\ \A i \in 1..n : StepErrors(t)[i] = StepError(t, i)
    BY <1>3, <1>5 DEF StepErrors
  <2> QED
    BY <1>3, <1>7, <2>1, NoError
<1>9. SigError(t, sigs[1]) = "ok"
  <2>1. key # None /\ GetKeyByHash(key) = key
    BY DEF Registered, GetKeyByHash
  <2>2. sigs[1] = [orisha |-> o, public_key_hash |-> key, signature |-> s]
    BY DEF ValidatorSignature
  <2> QED
    BY <1>6, <2>1, <2>2 DEF SigError
<1>10. FirstError([i \in DOMAIN sigs |-> SigError(t, sigs[i])]) = "ok"
  <2> DEFINE e == [i \in DOMAIN sigs |-> SigError(t, sigs[i])]
  <2>1. DOMAIN e = 1..1 /\ \A i \in 1..1 : e[i] = "ok"
    BY <1>9
  <2> HIDE DEF e
  <2>2. FirstError(e) = "ok"
    BY <2>1, NoError
  <2> QED
    BY <2>2 DEF e
<1>11. VerifyTrace(t) = "ok"
  <2>1. state_store["zero"] # None
    BY DEF TraceInv
  <2> HIDE DEF sigs
  <2> QED
    BY <1>5, <1>8, <1>10, <2>1 DEF VerifyTrace, ComputeHash
<1>12. ASSUME state_store["zero"] = r.start
       PROVE  ~ ReplayPanics(t)
  <2>1. IrOps(t) = ops
    <3>1. IrOps(t) = [i \in 1..n |-> ops[i]]
      BY <1>3, <1>4, <1>5 DEF IrOps
    <3> QED
      BY <3>1
  <2>2. ASSUME NEW i \in 1..n
        PROVE  ~ Overflows(t, i)
    <3>1. StateAfter(t, i) = After(r.start, SubSeq(ops, 1, i))
      BY <1>5, <1>12, <2>1 DEF StateAfter
    <3> QED
      BY <1>1, <3>1 DEF Overflows
  <2> QED
    BY <1>3, <1>5, <2>2 DEF ReplayPanics
<1> QED
  BY <1>11, <1>12 DEF t

\* A signature that verifies for a trace is about it.
LEMMA SignedAlike ==
  ASSUME TraceInv, NEW t, VerifyTrace(t) = "ok", NEW m \in Nat,
         NEW S, \A v \in S : v.signature \in signed,
         t.validator_signatures \in [1..m -> S], t.validator_signatures # <<>>
  PROVE  \E r \in recorded : \A o \in Orisha : SigPayload(t, o) = SigPayload(r.trace, o)
<1> DEFINE sigs == t.validator_signatures
           e == [i \in DOMAIN sigs |-> SigError(t, sigs[i])]
<1>1. m # 0
  <2> SUFFICES ASSUME m = 0
               PROVE  sigs = <<>>
    OBVIOUS
  <2>1. sigs \in Seq(S) /\ Len(sigs) = 0
    OBVIOUS
  <2> QED
    BY <2>1, EmptySeq
<1>2. 1 \in 1..m /\ sigs[1] \in S
  BY <1>1
<1>3. DOMAIN e = 1..m /\ \A i \in 1..m : e[i] = SigError(t, sigs[i])
  OBVIOUS
<1>4. FirstError(e) = "ok"
  BY DEF VerifyTrace
<1> HIDE DEF e
<1>5. SigError(t, sigs[1]) = "ok"
  BY <1>2, <1>3, <1>4, NoError
<1> DEFINE v == sigs[1]
<1>6. v.signature = Signature(v.public_key_hash, SigPayload(t, v.orisha))
  BY <1>5 DEF SigError
<1>7. PICK r \in recorded, o \in Orisha, key \in Key :
        v.signature = Signature(key, SigPayload(r.trace, o))
  BY <1>2 DEF TraceInv, Signs
<1>8. SigPayload(t, v.orisha) = SigPayload(r.trace, o)
  BY <1>6, <1>7 DEF Signature
<1>9. \A q : SigPayload(t, q) = SigPayload(r.trace, q)
  BY <1>8, PayloadTells
<1> QED
  BY <1>9

LEMMA TraceStep == TraceInv /\ [ReplayNext]_replayVars => TraceInv'
<1> SUFFICES ASSUME TraceInv, [ReplayNext]_replayVars
             PROVE  TraceInv'
  OBVIOUS
<1>1. ASSUME UNCHANGED <<state_store, recorded, signed, verified>>
      PROVE  TraceInv'
  BY <1>1 DEF TraceInv, SignedIsRecorded, IsRun, Signs
<1>2. ASSUME NEW state \in StartState, StoreState(state)
      PROVE  TraceInv'
  <2>1. state # None
    BY ReplayAssumption
  <2>2. /\ state_store' \in [{"zero", "other"} -> StartState \cup {None}]
        /\ state_store'["zero"] # None
    BY <1>2, <2>1 DEF TraceInv, StoreState, ComputeHash
  <2>3. UNCHANGED <<recorded, signed, verified>>
    BY <1>2 DEF StoreState
  <2> QED
    BY <2>2, <2>3 DEF TraceInv, SignedIsRecorded, IsRun, Signs
<1>3. ASSUME NEW id \in TraceId, NEW n \in 0..MaxSteps, NEW ops \in [1..n -> Op], Record(id, ops)
      PROVE  TraceInv'
  <2> DEFINE start == state_store["zero"]
             r == [trace |-> TraceOf(id, ops, start), start |-> start]
  <2>1. /\ start # None
        /\ \A i \in 1..Len(ops) : Fits(After(start, SubSeq(ops, 1, i)))
        /\ recorded' = recorded \cup {r}
        /\ UNCHANGED <<state_store, signed, verified>>
    BY <1>3, Zenon DEF Record, TraceOf, ComputeHash
  <2>2. ops \in Seq(Op)
    BY ReplayAssumption
  <2>3. IsRun(r)
    BY <2>1, <2>2 DEF IsRun
  <2> HIDE DEF r
  <2>4. \A x \in recorded' : IsRun(x)
    BY <2>1, <2>3 DEF TraceInv
  <2>5. SignedIsRecorded'
    BY <2>1 DEF TraceInv, SignedIsRecorded
  <2>6. \A s \in signed' : \E x \in recorded' : Signs(s, x.trace)
    BY <2>1 DEF TraceInv
  <2> QED
    BY <2>1, <2>4, <2>5, <2>6 DEF TraceInv
<1>4. ASSUME NEW r \in recorded, NEW orisha \in Orisha, NEW key \in Key,
             Validate(r.trace, orisha, key)
      PROVE  TraceInv'
  <2>1. /\ signed' = signed \cup {Signature(key, SigPayload(r.trace, orisha))}
        /\ UNCHANGED <<state_store, recorded, verified>>
    BY <1>4 DEF Validate
  <2>2. \A s \in signed' : \E x \in recorded' : Signs(s, x.trace)
    BY <2>1 DEF TraceInv, Signs
  <2> QED
    BY <2>1, <2>2 DEF TraceInv, SignedIsRecorded
<1>5. CASE Prepare
  <2>1. ASSUME UNCHANGED engineVars
        PROVE  TraceInv'
    BY <1>1, <2>1 DEF engineVars
  <2> QED
    BY <1>2, <1>3, <1>4, <1>5, <2>1 DEF Prepare
<1>6. CASE Promote
  <2>1. PICK r \in recorded, m \in 0..MaxSigned, robust \in BOOLEAN :
          \E copy \in Copies(r.trace),
             sigs \in [1..m -> {ValidatorSignature(o, key, s) :
                                  o \in Orisha, key \in Key, s \in signed}] :
            VerifyAndPromote(WithSignatures(copy, sigs), robust)
    BY <1>6 DEF Promote
  <2> DEFINE S == {ValidatorSignature(o, key, s) : o \in Orisha, key \in Key, s \in signed}
  <2>2. PICK copy, sigs : /\ sigs \in [1..m -> S]
                          /\ VerifyAndPromote(WithSignatures(copy, sigs), robust)
    BY <2>1
  <2>3. \A v \in S : v.signature \in signed
    BY DEF ValidatorSignature
  <2> HIDE DEF S
  <2> DEFINE t == WithSignatures(copy, sigs)
  <2>4. t.validator_signatures = sigs
    BY TraceFields
  <2>5. /\ verified' = IF VerifyTrace(t) = "ok" THEN verified \cup {t} ELSE verified
        /\ UNCHANGED <<state_store, recorded, signed>>
    BY <2>2 DEF VerifyAndPromote
  <2> HIDE DEF t
  <2>6. VerifyTrace(t) = "ok" /\ sigs # <<>> =>
          \E x \in recorded : \A o \in Orisha : SigPayload(t, o) = SigPayload(x.trace, o)
    <3>1. m \in Nat /\ t.validator_signatures \in [1..m -> S]
      BY <2>2, <2>4, ReplayAssumption
    <3> QED
      BY <2>3, <2>4, <3>1, SignedAlike
  <2>7. SignedIsRecorded'
    BY <2>4, <2>5, <2>6 DEF TraceInv, SignedIsRecorded
  <2> QED
    BY <2>5, <2>7 DEF TraceInv
<1>7. ASSUME NEW outcome, Post(outcome)
      PROVE  TraceInv'
  BY <1>1, <1>7 DEF Post
<1>8. CASE SendReturns
  BY <1>1, <1>8 DEF SendReturns
<1>9. CASE UNCHANGED replayVars
  BY <1>1, <1>9 DEF replayVars, engineVars
<1> QED
  BY <1>5, <1>6, <1>7, <1>8, <1>9 DEF ReplayNext

LEMMA TraceInvHolds == ReplaySpec => []TraceInv
<1>1. ReplayInit => TraceInv
  BY DEF ReplayInit, TraceInv, SignedIsRecorded
<1> QED
  BY <1>1, TraceStep, PTL DEF ReplaySpec

\* A trace that verifies and is signed at all is the one that was recorded, but
\* for its steps.
THEOREM SignedIsRecordedHolds == ReplaySpec => []SignedIsRecorded
<1>1. TraceInv => SignedIsRecorded
  BY DEF TraceInv
<1> QED
  BY <1>1, TraceInvHolds, PTL

\* A genuine trace verifies while its validators' keys are registered, and its
\* replay does not panic while its start is the state that is stored.
THEOREM GenuineVerifiesHolds == ReplaySpec => []GenuineVerifies
  BY TraceInvHolds, GenuineFollows, PTL

-----------------------------------------------------------------------------
(* Promotions: the runs are numbered one after the other, and what a run may *)
(* still deposit depends on what it has left on the field.                   *)

Landed(f, run) == {d \in f : d.run = run}

Earned(v, trace_id) == \E t \in v : t.trace_id = trace_id

NoneLeft == <<>>
WarnLeft == <<"warn">>
GoldLeft == <<"gold">>
BothLeft == <<"gold", "bounded">>
BoundedLeft == <<"bounded">>

OnItsWay ==
  /\ promotion.run = Cardinality(reports)
  /\ promotion.left \in {NoneLeft, WarnLeft, GoldLeft, BothLeft, BoundedLeft}
  /\ promotion.left \notin {NoneLeft, WarnLeft} => Earned(verified, promotion.trace_id)
  /\ promotion.left \notin {NoneLeft, BoundedLeft} => Landed(field, promotion.run) = {}
  /\ promotion.left = BoundedLeft => \A d \in Landed(field, promotion.run) : d.kind = "gold"
  /\ promotion.landed <= Cardinality(Landed(field, promotion.run))

PromotionInv ==
  /\ IsFiniteSet(field) /\ IsFiniteSet(reports)
  /\ promotion \in Promotion \cup {None}
  /\ promotion # None => OnItsWay
  /\ \A d \in field : /\ d.run \in Nat
                      /\ \/ d.run < Cardinality(reports)
                         \/ promotion # None /\ d.run = promotion.run
  /\ \A r \in reports : /\ r.run \in Nat /\ r.run < Cardinality(reports)
                        /\ r.count \in Nat
  /\ PromotionIsHonest

LEMMA Lefts ==
  /\ Head(WarnLeft) = "warn" /\ Tail(WarnLeft) = NoneLeft
  /\ Head(GoldLeft) = "gold" /\ Tail(GoldLeft) = NoneLeft
  /\ Head(BothLeft) = "gold" /\ Tail(BothLeft) = BoundedLeft
  /\ Head(BoundedLeft) = "bounded" /\ Tail(BoundedLeft) = NoneLeft
  /\ Len(BothLeft) = 2
  /\ \A left \in {WarnLeft, GoldLeft, BoundedLeft} : Len(left) = 1
  /\ Len(NoneLeft) = 0
  /\ {NoneLeft, WarnLeft, GoldLeft, BothLeft, BoundedLeft}
       \subseteq Seq({"gold", "bounded", "warn"})
  BY DEF NoneLeft, WarnLeft, GoldLeft, BothLeft, BoundedLeft

LEMMA LeftsDiffer ==
  /\ NoneLeft \notin {WarnLeft, GoldLeft, BothLeft, BoundedLeft}
  /\ WarnLeft \notin {GoldLeft, BothLeft, BoundedLeft}
  /\ GoldLeft \notin {BothLeft, BoundedLeft}
  /\ BothLeft # BoundedLeft
<1>1. NoneLeft \notin {WarnLeft, GoldLeft, BothLeft, BoundedLeft} /\ WarnLeft # BothLeft
      /\ GoldLeft # BothLeft /\ BothLeft # BoundedLeft
  BY Lefts, SMTT(30)
<1>2. WarnLeft # GoldLeft /\ WarnLeft # BoundedLeft /\ GoldLeft # BoundedLeft
  BY Lefts, SMTT(30)
<1> QED
  BY <1>1, <1>2

LEMMA CopiesKeepId ==
  ASSUME NEW r, IsRun(r), NEW copy \in Copies(r.trace)
  PROVE  copy.trace_id \in TraceId
<1> DEFINE trace == r.trace
<1>1. PICK id \in TraceId, ops \in Seq(Op) : trace = TraceOf(id, ops, r.start)
  BY DEF IsRun
<1>2. trace.trace_id \in TraceId
  BY <1>1 DEF TraceOf
<1>3. DOMAIN trace = {"trace_id", "input_state_hash", "ops", "output_state_hash"}
  BY <1>1 DEF TraceOf
<1>4. copy \in Copies(trace)
  OBVIOUS
<1> HIDE DEF trace
<1>5. \/ \E other \in TraceId : copy = [trace EXCEPT !.trace_id = other]
      \/ \E h : copy = [trace EXCEPT !.output_state_hash = h]
      \/ \E h : copy = [trace EXCEPT !.input_state_hash = h]
      \/ \E o : copy = [trace EXCEPT !.ops = o]
      \/ copy = trace
  <2> DEFINE n == Len(trace.ops)
             hashes == {trace, [trace EXCEPT !.output_state_hash = "other"],
                        [trace EXCEPT !.input_state_hash = "other"]}
             renamed == {[trace EXCEPT !.trace_id = other] : other \in TraceId}
             shortened == {[trace EXCEPT !.ops = SubSeq(@, 1, i - 1)] : i \in 1..n}
             redone == {[trace EXCEPT !.ops[i].ir_op = op] : i \in 1..n, op \in Op}
             replaced == {[trace EXCEPT !.ops[i] =
                             [ir_op |-> op, op_hash |-> HashCanonical(op),
                              post_state_hash |-> @.post_state_hash]] :
                          i \in 1..n, op \in Op}
             rehashed == {[trace EXCEPT !.ops[i].post_state_hash = "other"] : i \in 1..n}
  <2>1. Copies(trace) = hashes \cup renamed \cup shortened \cup redone \cup replaced
                          \cup rehashed
    BY DEF Copies
  <2>2. CASE copy \in hashes
    BY <2>2
  <2>3. CASE copy \in renamed
    BY <2>3
  <2>4. CASE copy \in shortened
    BY <2>4
  <2>5. CASE copy \in redone
    BY <2>5
  <2>6. CASE copy \in replaced
    BY <2>6
  <2>7. CASE copy \in rehashed
    BY <2>7
  <2> HIDE DEF hashes, renamed, shortened, redone, replaced, rehashed
  <2> QED
    BY <1>4, <2>1, <2>2, <2>3, <2>4, <2>5, <2>6, <2>7
<1> QED
  BY <1>2, <1>3, <1>5

LEMMA LandedFinite ==
  ASSUME IsFiniteSet(field), NEW run
  PROVE  IsFiniteSet(Landed(field, run)) /\ Cardinality(Landed(field, run)) \in Nat
<1>1. IsFiniteSet(Landed(field, run))
  BY FS_Subset DEF Landed
<1> QED
  BY <1>1, FS_CardinalityType

LEMMA HonestIs ==
  PromotionIsHonest
    <=> /\ \A d \in field : d.kind # "warn" =>
             Earned(verified, d.receipt) /\ \A e \in field : e.run = d.run => e.kind # "warn"
        /\ \A r \in reports : r.count <= Cardinality(Landed(field, r.run))
  BY Zenon DEF PromotionIsHonest, Landed, Earned

LEMMA PostKeeps ==
  ASSUME PromotionInv, NEW outcome \in {"stored", "unanswered", "lost"}, Post(outcome)
  PROVE  PromotionInv'
<1> DEFINE p == promotion
           d == Deposit
           q == [p EXCEPT !.left = Tail(@),
                          !.landed = IF outcome = "stored" THEN @ + 1 ELSE @]
<1>1. /\ p # None /\ p.left # <<>> /\ p \in Promotion
      /\ field' = IF outcome = "lost" THEN field ELSE field \cup {d}
      /\ promotion' = q
      /\ UNCHANGED <<verified, reports>>
  BY DEF Post, PromotionInv
<1>2. OnItsWay /\ IsFiniteSet(field)
  BY <1>1 DEF PromotionInv
<1>3. \/ p.left = WarnLeft /\ Tail(p.left) = NoneLeft
      \/ p.left = GoldLeft /\ Tail(p.left) = NoneLeft
      \/ p.left = BothLeft /\ Tail(p.left) = BoundedLeft
      \/ p.left = BoundedLeft /\ Tail(p.left) = NoneLeft
  BY <1>1, <1>2, Lefts DEF OnItsWay, NoneLeft
<1>4. /\ d.run = p.run /\ d.receipt = p.trace_id /\ d.kind = Head(p.left)
      /\ p.run \in Nat /\ p.landed \in Nat /\ p.run = Cardinality(reports)
  BY <1>1, <1>2 DEF Deposit, Promotion, OnItsWay
<1>5. /\ q.run = p.run /\ q.trace_id = p.trace_id /\ q.left = Tail(p.left)
      /\ q.landed = IF outcome = "stored" THEN p.landed + 1 ELSE p.landed
      /\ q \in Promotion
  <2>1. Tail(p.left) \in Seq({"gold", "bounded", "warn"})
    BY <1>3, Lefts
  <2>2. DOMAIN p = {"run", "trace_id", "left", "landed"} /\ p.landed \in Nat
    BY <1>1 DEF Promotion
  <2>3. /\ q.run = p.run /\ q.trace_id = p.trace_id /\ q.left = Tail(p.left)
        /\ q.landed = IF outcome = "stored" THEN p.landed + 1 ELSE p.landed
    BY <2>2
  <2>4. q = [run |-> q.run, trace_id |-> q.trace_id, left |-> q.left, landed |-> q.landed]
    <3> DEFINE left == Tail(p.left)
               landed == IF outcome = "stored" THEN p.landed + 1 ELSE p.landed
               fields == {"run", "trace_id", "left", "landed"}
    <3>1. q = [p EXCEPT !.left = left, !.landed = landed]
      OBVIOUS
    <3> HIDE DEF left, landed, q
    <3>2. q = [x \in fields |-> q[x]]
      BY <2>2, <3>1
    <3> QED
      BY <3>2
  <2> HIDE DEF q
  <2>5. q.run \in Nat /\ q.trace_id \in TraceId /\ q.landed \in Nat
        /\ q.left \in Seq({"gold", "bounded", "warn"})
    BY <1>1, <2>1, <2>2, <2>3 DEF Promotion
  <2>6. q \in Promotion
    BY <2>4, <2>5 DEF Promotion
  <2> QED
    BY <2>3, <2>6
<1>6. q # None
  BY <1>5, ReplayAssumption
<1> HIDE DEF q, d
<1>7. d \notin Landed(field, p.run)
  <2>1. p.left = BoundedLeft => d.kind = "bounded"
    BY <1>4, Lefts
  <2>2. p.left # BoundedLeft => Landed(field, p.run) = {}
    BY <1>2, <1>3, LeftsDiffer DEF OnItsWay, NoneLeft
  <2> QED
    BY <1>2, <2>1, <2>2 DEF OnItsWay
<1>8. /\ Landed(field', p.run) = IF outcome = "lost" THEN Landed(field, p.run)
                                ELSE Landed(field, p.run) \cup {d}
      /\ \A run : run # p.run => Landed(field', run) = Landed(field, run)
  BY <1>1, <1>4 DEF Landed
<1>9. p.left # WarnLeft => Earned(verified, p.trace_id)
  BY <1>2, <1>3, LeftsDiffer DEF OnItsWay, NoneLeft
<1>10. IsFiniteSet(field')
  BY <1>1, <1>2, FS_AddElement
<1>11. q.landed <= Cardinality(Landed(field', p.run))
  <2>1. /\ IsFiniteSet(Landed(field, p.run)) /\ Cardinality(Landed(field, p.run)) \in Nat
        /\ p.landed <= Cardinality(Landed(field, p.run))
    BY <1>2, LandedFinite DEF OnItsWay
  <2>2. Cardinality(Landed(field, p.run) \cup {d}) = Cardinality(Landed(field, p.run)) + 1
    BY <2>1, <1>7, FS_AddElement
  <2> QED
    BY <1>4, <1>5, <1>8, <2>1, <2>2
<1>12. OnItsWay'
  <2>1. q.left \notin {NoneLeft, WarnLeft} => Earned(verified', q.trace_id)
    BY <1>1, <1>3, <1>5, <1>9, LeftsDiffer DEF Earned
  <2>2. q.left = BoundedLeft => \A e \in Landed(field', p.run) : e.kind = "gold"
    <3> SUFFICES ASSUME q.left = BoundedLeft
                 PROVE  \A e \in Landed(field', p.run) : e.kind = "gold"
      OBVIOUS
    <3>1. p.left = BothLeft
      BY <1>3, <1>5, LeftsDiffer
    <3>2. Landed(field, p.run) = {} /\ d.kind = "gold"
      BY <3>1, <1>2, <1>4, Lefts, LeftsDiffer DEF OnItsWay, NoneLeft
    <3> QED
      BY <3>2, <1>8
  <2>3. q.left \in {NoneLeft, BoundedLeft} /\ q.run = Cardinality(reports')
    BY <1>1, <1>3, <1>4, <1>5
  <2>4. Landed(field', q.run) = Landed(field', p.run)
    BY <1>5
  <2> QED
    BY <1>1, <1>5, <1>11, <2>1, <2>2, <2>3, <2>4, LeftsDiffer DEF OnItsWay, NoneLeft
<1>13. PromotionIsHonest'
  <2>1. ASSUME NEW x \in field', x.kind # "warn"
        PROVE  Earned(verified', x.receipt) /\ \A e \in field' : e.run = x.run => e.kind # "warn"
    <3>1. p.left = WarnLeft => d.kind = "warn" /\ Landed(field, p.run) = {}
      BY <1>2, <1>4, Lefts, LeftsDiffer DEF OnItsWay, NoneLeft
    <3>2. p.left # WarnLeft => /\ d.kind # "warn"
                                 /\ \A e \in Landed(field, p.run) : e.kind # "warn"
      BY <1>2, <1>3, <1>4, Lefts, LeftsDiffer DEF OnItsWay, NoneLeft
    <3>3. CASE x \in field
      <4>1. Earned(verified, x.receipt) /\ \A e \in field : e.run = x.run => e.kind # "warn"
        BY <2>1, <3>3, HonestIs DEF PromotionInv
      <4>2. Earned(verified', x.receipt)
        BY <1>1, <4>1 DEF Earned
      <4>3. d.run = x.run => d.kind # "warn"
        BY <3>1, <3>2, <3>3, <1>4 DEF Landed
      <4> QED
        BY <1>1, <4>1, <4>2, <4>3
    <3>4. CASE x = d
      <4>1. p.left # WarnLeft
        BY <2>1, <3>1, <3>4
      <4>2. Earned(verified', x.receipt)
        BY <1>1, <1>4, <1>9, <3>4, <4>1 DEF Earned
      <4>3. \A e \in field : e.run = d.run => e.kind # "warn"
        BY <1>4, <3>2, <4>1 DEF Landed
      <4> QED
        BY <1>1, <2>1, <3>4, <4>2, <4>3
    <3> QED
      BY <1>1, <3>3, <3>4
  <2>2. ASSUME NEW r \in reports'
        PROVE  r.count <= Cardinality(Landed(field', r.run))
    <3>1. r \in reports /\ r.run # p.run
      BY <1>1, <1>4 DEF PromotionInv
    <3>2. r.count <= Cardinality(Landed(field, r.run))
      BY <3>1, HonestIs DEF PromotionInv
    <3> QED
      BY <3>1, <3>2, <1>8
  <2>3. /\ \A x \in field' : x.kind # "warn" =>
             Earned(verified', x.receipt) /\ \A e \in field' : e.run = x.run => e.kind # "warn"
        /\ \A r \in reports' : r.count <= Cardinality(Landed(field', r.run))
    BY <2>1, <2>2
  <2> QED
    BY <2>3, Zenon DEF PromotionIsHonest, Landed, Earned
<1>14. \A x \in field' : /\ x.run \in Nat
                         /\ x.run < Cardinality(reports') \/ x.run = q.run
  BY <1>1, <1>4, <1>5 DEF PromotionInv
<1>15. \A r \in reports' : /\ r.run \in Nat /\ r.run < Cardinality(reports')
                           /\ r.count \in Nat
  BY <1>1 DEF PromotionInv
<1>16. IsFiniteSet(reports')
  BY <1>1 DEF PromotionInv
<1> QED
  BY <1>1, <1>5, <1>6, <1>10, <1>12, <1>13, <1>14, <1>15, <1>16 DEF PromotionInv

LEMMA PromoteKeeps ==
  ASSUME PromotionInv, NEW trace, trace.trace_id \in TraceId, NEW robust \in BOOLEAN,
         VerifyAndPromote(trace, robust)
  PROVE  PromotionInv'
<1> DEFINE passed == VerifyTrace(trace) = "ok"
           n == Cardinality(reports)
           q == [run |-> n, trace_id |-> trace.trace_id, left |-> Deposits(passed, robust),
                 landed |-> 0]
<1>1. /\ promotion = None
      /\ verified' = IF passed THEN verified \cup {trace} ELSE verified
      /\ promotion' = q
      /\ UNCHANGED <<field, reports>>
  BY DEF VerifyAndPromote
<1>2. n \in Nat
  BY FS_CardinalityType DEF PromotionInv
<1>3. /\ ~ passed => Deposits(passed, robust) = WarnLeft
      /\ passed => Deposits(passed, robust) \in {GoldLeft, BothLeft}
  BY DEF Deposits, WarnLeft, GoldLeft, BothLeft
<1> HIDE DEF passed
<1>4. /\ q.run = n /\ q.trace_id = trace.trace_id /\ q.left = Deposits(passed, robust)
      /\ q.landed = 0
  OBVIOUS
<1>5. q \in Promotion
  <2>1. Deposits(passed, robust) \in Seq({"gold", "bounded", "warn"})
    BY <1>3, Lefts
  <2> QED
    BY <1>2, <2>1 DEF Promotion
<1> HIDE DEF q
<1>6. Landed(field', n) = {}
  BY <1>1, <1>2 DEF Landed, PromotionInv
<1>7. passed => Earned(verified', trace.trace_id)
  BY <1>1 DEF Earned
<1>8. OnItsWay'
  <2>1. q.left \in {WarnLeft, GoldLeft, BothLeft}
    BY <1>3, <1>4
  <2>2. q.left # WarnLeft => Earned(verified', q.trace_id)
    BY <1>3, <1>4, <1>7
  <2>4. Landed(field', q.run) = {} /\ Cardinality({}) = 0
    BY <1>4, <1>6, FS_EmptySet
  <2>5. q.landed <= Cardinality(Landed(field', q.run))
    BY <1>4, <2>4
  <2> QED
    BY <1>1, <1>4, <2>1, <2>2, <2>4, <2>5, LeftsDiffer DEF OnItsWay, NoneLeft
<1>9. PromotionIsHonest'
  <2>1. \A d \in field : Earned(verified, d.receipt) => Earned(verified', d.receipt)
    BY <1>1 DEF Earned
  <2>2. /\ \A d \in field : d.kind # "warn" =>
             Earned(verified', d.receipt) /\ \A e \in field : e.run = d.run => e.kind # "warn"
        /\ \A r \in reports : r.count <= Cardinality(Landed(field, r.run))
    BY <2>1, HonestIs DEF PromotionInv
  <2> QED
    BY <1>1, <2>2, Zenon DEF PromotionIsHonest, Landed, Earned
<1> QED
  BY <1>1, <1>5, <1>8, <1>9 DEF PromotionInv

LEMMA SendKeeps ==
  ASSUME PromotionInv, SendReturns
  PROVE  PromotionInv'
<1> DEFINE p == promotion
           r == [run |-> p.run, count |-> p.landed]
           n == Cardinality(reports)
<1>1. /\ p # None /\ p \in Promotion /\ OnItsWay
      /\ reports' = reports \cup {r}
      /\ promotion' = None
      /\ UNCHANGED <<verified, field>>
  BY DEF SendReturns, PromotionInv
<1>2. n \in Nat /\ IsFiniteSet(reports)
  BY FS_CardinalityType DEF PromotionInv
<1>3. r.run = n /\ r.count = p.landed /\ p.landed \in Nat /\ p.run = n
  BY <1>1 DEF OnItsWay, Promotion
<1> HIDE DEF r
<1>4. r \notin reports
  BY <1>2, <1>3 DEF PromotionInv
<1>5. IsFiniteSet(reports') /\ Cardinality(reports') = n + 1
  BY <1>1, <1>2, <1>4, FS_AddElement
<1> HIDE DEF n
<1>6. \A d \in field' : d.run \in Nat /\ d.run < Cardinality(reports')
  BY <1>1, <1>2, <1>3, <1>5 DEF PromotionInv, n
<1>7. \A x \in reports' : x.run \in Nat /\ x.run < Cardinality(reports') /\ x.count \in Nat
  BY <1>1, <1>2, <1>3, <1>5 DEF PromotionInv, n
<1>8. PromotionIsHonest'
  <2>1. r.count <= Cardinality(Landed(field, r.run))
    BY <1>1, <1>3 DEF OnItsWay
  <2>2. /\ \A d \in field : d.kind # "warn" =>
             Earned(verified, d.receipt) /\ \A e \in field : e.run = d.run => e.kind # "warn"
        /\ \A x \in reports : x.count <= Cardinality(Landed(field, x.run))
    BY HonestIs DEF PromotionInv
  <2>3. \A x \in reports' : x.count <= Cardinality(Landed(field, x.run))
    BY <1>1, <2>1, <2>2
  <2> QED
    BY <1>1, <2>2, <2>3, Zenon DEF PromotionIsHonest, Landed, Earned
<1> QED
  BY <1>1, <1>5, <1>6, <1>7, <1>8 DEF PromotionInv

LEMMA PromotionStep == TraceInv /\ PromotionInv /\ [ReplayNext]_replayVars => PromotionInv'
<1> SUFFICES ASSUME TraceInv, PromotionInv, [ReplayNext]_replayVars
             PROVE  PromotionInv'
  OBVIOUS
<1>1. ASSUME UNCHANGED <<verified, promotion, field, reports>>
      PROVE  PromotionInv'
  BY <1>1 DEF PromotionInv, PromotionIsHonest, OnItsWay, Landed, Earned
<1>2. CASE Prepare
  <2>1. ASSUME NEW state \in StartState, StoreState(state)
        PROVE  PromotionInv'
    BY <1>1, <2>1 DEF StoreState
  <2>2. ASSUME NEW id, NEW ops, Record(id, ops)
        PROVE  PromotionInv'
    BY <1>1, <2>2 DEF Record
  <2>3. ASSUME NEW trace, NEW orisha, NEW key, Validate(trace, orisha, key)
        PROVE  PromotionInv'
    BY <1>1, <2>3 DEF Validate
  <2>4. ASSUME UNCHANGED engineVars
        PROVE  PromotionInv'
    BY <1>1, <2>4 DEF engineVars
  <2> QED
    BY <1>2, <2>1, <2>2, <2>3, <2>4 DEF Prepare
<1>3. CASE Promote
  <2>1. PICK r \in recorded, robust \in BOOLEAN :
          \E copy \in Copies(r.trace) : \E sigs : VerifyAndPromote(WithSignatures(copy, sigs), robust)
    BY <1>3 DEF Promote
  <2>2. PICK copy \in Copies(r.trace) :
          \E sigs : VerifyAndPromote(WithSignatures(copy, sigs), robust)
    BY <2>1
  <2>4. PICK sigs : VerifyAndPromote(WithSignatures(copy, sigs), robust)
    BY <2>2
  <2>3. WithSignatures(copy, sigs).trace_id \in TraceId
    BY CopiesKeepId, TraceFields DEF TraceInv
  <2> QED
    BY <2>4, <2>3, PromoteKeeps
<1>4. ASSUME NEW outcome \in {"stored", "unanswered", "lost"}, Post(outcome)
      PROVE  PromotionInv'
  BY <1>4, PostKeeps
<1>5. CASE SendReturns
  BY <1>5, SendKeeps
<1>6. CASE UNCHANGED replayVars
  BY <1>1, <1>6 DEF replayVars, engineVars
<1> QED
  BY <1>2, <1>3, <1>4, <1>5, <1>6 DEF ReplayNext

LEMMA PromotionInvHolds == ReplaySpec => []PromotionInv
<1>1. ReplayInit => PromotionInv
  BY FS_EmptySet DEF ReplayInit, PromotionInv, PromotionIsHonest
<1> QED
  BY <1>1, TraceInvHolds, PromotionStep, PTL DEF ReplaySpec

\* Gold and bounded are left on the field only for a trace that verified, no
\* warning stands beside them, and no more is counted than has landed, whichever
\* deposits were lost.
THEOREM PromotionIsHonestHolds == ReplaySpec => []PromotionIsHonest
<1>1. PromotionInv => PromotionIsHonest
  BY DEF PromotionInv
<1> QED
  BY <1>1, PromotionInvHolds, PTL
=============================================================================
