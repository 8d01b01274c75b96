--------------------------- MODULE QuarantineProofs ---------------------------
(* Proofs about Quarantine, for every value of its constants. *)
EXTENDS Quarantine, SequenceTheorems, TLAPS

-----------------------------------------------------------------------------
(* Lemmas on sequences *)

\* Vec::remove: what is left keeps its order and closes the gap.
LEMMA RemoveAtProperties ==
  ASSUME NEW S, NEW q \in Seq(S), NEW i \in 1..Len(q)
  PROVE  /\ RemoveAt(q, i) \in Seq(S)
         /\ Len(RemoveAt(q, i)) = Len(q) - 1
         /\ \A j \in 1..(Len(q) - 1) :
              RemoveAt(q, i)[j] = IF j < i THEN q[j] ELSE q[j + 1]
<1> DEFINE front == SubSeq(q, 1, i - 1)
           back  == SubSeq(q, i + 1, Len(q))
<1>1. /\ Len(q) \in Nat
      /\ \A j \in 1..Len(q) : q[j] \in S
  BY LenProperties, ElementOfSeq
<1>2. /\ front \in Seq(S)
      /\ Len(front) = i - 1
      /\ \A j \in 1..(i - 1) : front[j] = q[j]
  <2>1. \A j \in 1..(i - 1) : q[j] \in S
    BY <1>1
  <2>2. 1 \in Int /\ i - 1 \in Int
    BY <1>1
  <2>3. /\ front \in Seq(S)
        /\ Len(front) = IF 1 <= i - 1 THEN i - 1 - 1 + 1 ELSE 0
        /\ \A j \in 1..(i - 1 - 1 + 1) : front[j] = q[1 + j - 1]
    BY <2>1, <2>2, SubSeqProperties
  <2> QED
    BY <1>1, <2>3
<1>3. /\ back \in Seq(S)
      /\ Len(back) = Len(q) - i
      /\ \A j \in 1..(Len(q) - i) : back[j] = q[i + j]
  <2>1. \A j \in (i + 1)..Len(q) : q[j] \in S
    BY <1>1
  <2>2. i + 1 \in Int /\ Len(q) \in Int
    BY <1>1
  <2>3. /\ back \in Seq(S)
        /\ Len(back) = IF i + 1 <= Len(q) THEN Len(q) - (i + 1) + 1 ELSE 0
        /\ \A j \in 1..(Len(q) - (i + 1) + 1) : back[j] = q[i + 1 + j - 1]
    BY <2>1, <2>2, SubSeqProperties
  <2> QED
    BY <1>1, <2>3
<1>4. /\ front \o back \in Seq(S)
      /\ Len(front \o back) = Len(front) + Len(back)
      /\ \A j \in 1..(Len(front) + Len(back)) :
           (front \o back)[j] =
             IF j <= Len(front) THEN front[j] ELSE back[j - Len(front)]
  BY <1>2, <1>3, ConcatProperties
<1>5. RemoveAt(q, i) = front \o back
  BY DEF RemoveAt
<1> HIDE DEF front, back
<1>6. Len(front \o back) = Len(q) - 1
  BY <1>1, <1>2, <1>3, <1>4
<1>7. ASSUME NEW j \in 1..(Len(q) - 1)
      PROVE  (front \o back)[j] = IF j < i THEN q[j] ELSE q[j + 1]
  <2>1. (front \o back)[j] = IF j <= i - 1 THEN front[j] ELSE back[j - (i - 1)]
    BY <1>1, <1>2, <1>4, <1>6
  <2>2. CASE j < i
    BY <2>1, <2>2, <1>1, <1>2
  <2>3. CASE ~(j < i)
    <3>1. j - (i - 1) \in 1..(Len(q) - i) /\ i + (j - (i - 1)) = j + 1
      BY <2>3, <1>1
    <3>2. (front \o back)[j] = back[j - (i - 1)]
      BY <2>1, <2>3, <1>1
    <3>3. back[j - (i - 1)] = q[j + 1]
      <4> DEFINE k == j - (i - 1)
      <4>1. back[k] = q[i + k]
        BY <3>1, <1>3
      <4> QED
        BY <4>1, <3>1
    <3> QED
      BY <2>3, <3>2, <3>3
  <2> QED
    BY <2>2, <2>3
<1> QED
  BY <1>4, <1>5, <1>6, <1>7

\* The queue as a function on its positions, the form the proofs use.
LEMMA QueueElements ==
  ASSUME NEW S, NEW q \in Seq(S)
  PROVE  /\ Len(q) \in Nat
         /\ DOMAIN q = 1..Len(q)
         /\ \A i \in 1..Len(q) : q[i] \in S
BY LenProperties, ElementOfSeq

\* Replacing one candidate of the queue.
LEMMA ReplaceCandidate ==
  ASSUME NEW S, NEW q \in Seq(S), NEW i \in 1..Len(q), NEW e \in S
  PROVE  /\ [q EXCEPT ![i] = e] \in Seq(S)
         /\ Len([q EXCEPT ![i] = e]) = Len(q)
         /\ \A j \in 1..Len(q) : [q EXCEPT ![i] = e][j] = IF j = i THEN e ELSE q[j]
BY ExceptSeq

-----------------------------------------------------------------------------
(* What each operation does to the queue, said once *)

LEMMA NewlyIsPending ==
  ASSUME NEW candidate
  PROVE  Newly(candidate) \subseteq candidate.pending_conditions
BY DEF Newly

\* record_orisha_approval and an evaluation without release replace one
\* candidate by another for the same id.
LEMMA RecordQueue ==
  ASSUME TypeOK, NEW id \in QuarantineId, NEW o \in Orisha,
         RecordOrishaApproval(id, o)
  PROVE  \E i \in 1..Len(release_queue) : \E e \in ReleaseCandidate :
           /\ release_queue' = [release_queue EXCEPT ![i] = e]
           /\ e.quarantine_id = release_queue[i].quarantine_id
           /\ e.pending_conditions = release_queue[i].pending_conditions
           /\ e.satisfied_conditions = release_queue[i].satisfied_conditions
           /\ release_queue[i].orisha_approvals \subseteq e.orisha_approvals
<1>1. PICK i \in 1..Len(release_queue) :
        release_queue' = [release_queue EXCEPT ![i].orisha_approvals = @ \cup {o}]
  BY DEF RecordOrishaApproval
<1>2. release_queue[i] \in ReleaseCandidate
  BY QueueElements DEF TypeOK
<1> DEFINE e == [release_queue[i] EXCEPT !.orisha_approvals = @ \cup {o}]
<1>3. e \in ReleaseCandidate
  BY <1>2 DEF ReleaseCandidate
<1>4. release_queue' = [release_queue EXCEPT ![i] = e]
  BY <1>1
<1>5. /\ e.quarantine_id = release_queue[i].quarantine_id
      /\ e.pending_conditions = release_queue[i].pending_conditions
      /\ e.satisfied_conditions = release_queue[i].satisfied_conditions
      /\ release_queue[i].orisha_approvals \subseteq e.orisha_approvals
  BY <1>2 DEF ReleaseCandidate
<1> QED
  BY <1>3, <1>4, <1>5

LEMMA ProgressQueue ==
  ASSUME TypeOK, NEW id \in QuarantineId, NEW i \in 1..Len(release_queue),
         Progress(i, id)
  PROVE  \E e \in ReleaseCandidate :
           /\ release_queue' = [release_queue EXCEPT ![i] = e]
           /\ e.quarantine_id = release_queue[i].quarantine_id
           /\ e.pending_conditions =
                release_queue[i].pending_conditions \ Newly(release_queue[i])
           /\ e.satisfied_conditions =
                release_queue[i].satisfied_conditions \cup Newly(release_queue[i])
           /\ e.orisha_approvals = release_queue[i].orisha_approvals
<1> DEFINE c == release_queue[i]
           e == [c EXCEPT !.pending_conditions = @ \ Newly(c),
                          !.satisfied_conditions = @ \cup Newly(c)]
<1>1. c \in ReleaseCandidate
  BY QueueElements DEF TypeOK
<1>2. Newly(c) \subseteq c.pending_conditions
  BY NewlyIsPending
<1>3. /\ e \in ReleaseCandidate
      /\ e.quarantine_id = c.quarantine_id
      /\ e.pending_conditions = c.pending_conditions \ Newly(c)
      /\ e.satisfied_conditions = c.satisfied_conditions \cup Newly(c)
      /\ e.orisha_approvals = c.orisha_approvals
  BY <1>1, <1>2 DEF ReleaseCandidate
<1>4. release_queue' = [release_queue EXCEPT ![i] = e]
  BY DEF Progress
<1> QED
  BY <1>3, <1>4

-----------------------------------------------------------------------------
(* Type correctness *)

LEMMA InitType == Init => TypeOK
<1>1. /\ <<>> \in Seq(ReleaseCandidate)
      /\ <<>> \in Seq(Time \cup {SetBack})
  BY EmptySeq
<1> QED
  BY <1>1 DEF Init, TypeOK, Active

LEMMA QuarantineType ==
  ASSUME TypeOK, NEW m \in Memory, NEW s \in Scope, NEW r \in Reason,
         NEW conds \in ConditionSets, Quarantine(m, s, r, conds)
  PROVE  TypeOK'
<1> DEFINE id  == [hash |-> m, scope |-> s, reason |-> r]
           st  == [original_state_hash |-> m, created_at |-> now,
                   release_conditions |-> conds]
           new == [quarantine_id |-> id, satisfied_conditions |-> {},
                   pending_conditions |-> conds, orisha_approvals |-> {}]
<1>1. conds \in SUBSET ReleaseCondition
  BY QuarantineAssumption
<1>2. /\ id \in QuarantineId
      /\ id.hash = m
  BY DEF QuarantineId
<1>3. st \in QuarantinedState /\ st.original_state_hash = m
  BY <1>1 DEF TypeOK, QuarantinedState
<1>4. new \in ReleaseCandidate
  BY <1>1, <1>2 DEF ReleaseCandidate
<1>5. quarantined_states' = [quarantined_states EXCEPT ![id] = st]
  BY DEF Quarantine
<1>6. release_queue' = Append(release_queue, new)
  BY DEF Quarantine
<1>7. merge_blocklist' \subseteq BlockedMerge
  BY DEF Quarantine, BlockEntry, BlockedMerge, TypeOK
<1>8. release_queue' \in Seq(ReleaseCandidate)
  BY <1>4, <1>6, AppendProperties DEF TypeOK
<1>10. /\ since' \in Seq(Time \cup {SetBack})
       /\ Len(since') = Len(release_queue')
  BY <1>4, <1>6, AppendProperties DEF Quarantine, TypeOK
<1> HIDE DEF id, st, new
<1>9. /\ quarantined_states' \in [QuarantineId -> QuarantinedState \cup {Absent}]
      /\ \A x \in Active' : quarantined_states'[x].original_state_hash = x.hash
  BY <1>2, <1>3, <1>5 DEF TypeOK, Active
<1> QED
  BY <1>7, <1>8, <1>9, <1>10 DEF TypeOK, Quarantine

LEMMA ReleaseType ==
  ASSUME TypeOK, NEW id \in QuarantineId, NEW i \in 1..Len(release_queue),
         Release(i, id)
  PROVE  TypeOK'
<1>1. /\ release_queue' \in Seq(ReleaseCandidate)
      /\ since' \in Seq(Time \cup {SetBack})
      /\ Len(since') = Len(release_queue')
  <2>1. /\ release_queue' \in Seq(ReleaseCandidate)
        /\ Len(release_queue') = Len(release_queue) - 1
    BY RemoveAtProperties DEF Release, TypeOK
  <2>2. /\ since' \in Seq(Time \cup {SetBack})
        /\ Len(since') = Len(since) - 1
    BY RemoveAtProperties DEF Release, TypeOK
  <2> QED
    BY <2>1, <2>2 DEF TypeOK
<1>2. /\ quarantined_states' \in [QuarantineId -> QuarantinedState \cup {Absent}]
      /\ \A x \in Active' : quarantined_states'[x].original_state_hash = x.hash
  BY DEF Release, TypeOK, Active
<1>3. merge_blocklist' \subseteq BlockedMerge
  BY DEF Release, UnblockMerges, TypeOK
<1> QED
  BY <1>1, <1>2, <1>3 DEF Release, TypeOK

LEMMA EvaluateType ==
  ASSUME TypeOK, NEW id \in QuarantineId, EvaluateRelease(id)
  PROVE  TypeOK'
<1>1. PICK i \in 1..Len(release_queue) :
        OrphanPanics(id) \/ ClockPanics(i, id) \/ Progress(i, id) \/ Release(i, id)
  BY DEF EvaluateRelease
<1>2. CASE OrphanPanics(id)
  BY <1>2 DEF OrphanPanics, TypeOK, Active
<1>3. CASE ClockPanics(i, id)
  BY <1>3 DEF ClockPanics, TypeOK, Active
<1>4. CASE Progress(i, id)
  <2>1. release_queue' \in Seq(ReleaseCandidate) /\ Len(release_queue') = Len(release_queue)
    BY <1>4, ProgressQueue, ReplaceCandidate DEF TypeOK
  <2> QED
    BY <1>4, <2>1 DEF Progress, TypeOK, Active
<1>5. CASE Release(i, id)
  BY <1>5, ReleaseType
<1> QED
  BY <1>1, <1>2, <1>3, <1>4, <1>5

LEMMA RecordType ==
  ASSUME TypeOK, NEW id \in QuarantineId, NEW o \in Orisha,
         RecordOrishaApproval(id, o)
  PROVE  TypeOK'
<1>1. release_queue' \in Seq(ReleaseCandidate) /\ Len(release_queue') = Len(release_queue)
  BY RecordQueue, ReplaceCandidate DEF TypeOK
<1> QED
  BY <1>1 DEF RecordOrishaApproval, TypeOK, Active

\* A clock that is set back marks every candidate; one that advances marks none.
LEMMA ClockTurns ==
  ASSUME TypeOK, ClockChange
  PROVE  /\ since' \in Seq(Time \cup {SetBack})
         /\ Len(since') = Len(since)
         /\ \A i \in 1..Len(since) : since'[i] # SetBack => since'[i] = since[i] /\ now <= now'
<1>1. /\ Len(since) \in Nat
      /\ DOMAIN since = 1..Len(since)
      /\ now \in Int /\ now' \in Int
  BY QueueElements DEF TypeOK, ClockChange, Time
<1>2. CASE now' < now
  <2>1. since' = [i \in 1..Len(since) |-> SetBack]
    BY <1>1, <1>2 DEF ClockChange
  <2>2. since' \in Seq(Time \cup {SetBack})
    BY <1>1, <2>1, SeqDef
  <2>3. Len(since') = Len(since)
    BY <1>1, <2>1, <2>2, LenProperties
  <2> QED
    BY <2>1, <2>2, <2>3
<1>3. CASE ~(now' < now)
  BY <1>1, <1>3 DEF ClockChange, TypeOK
<1> QED
  BY <1>2, <1>3

LEMMA NextType == TypeOK /\ [Next]_vars => TypeOK'
<1> SUFFICES ASSUME TypeOK, [Next]_vars
             PROVE  TypeOK'
  OBVIOUS
<1>1. CASE UNCHANGED vars
  BY <1>1 DEF vars, TypeOK, Active
<1>2. CASE ClockChange
  <2>1. since' \in Seq(Time \cup {SetBack}) /\ Len(since') = Len(since)
    BY <1>2, ClockTurns
  <2> QED
    BY <1>2, <2>1 DEF ClockChange, TypeOK, Active
<1> QED
  BY <1>1, <1>2, QuarantineType, RecordType, EvaluateType DEF Next

\* Every reachable state is well typed, and each map entry is filed under the
\* hash of the state it holds.
THEOREM TypeCorrect == Spec => []TypeOK
BY InitType, NextType, PTL DEF Spec

-----------------------------------------------------------------------------
(* The blocklist holds no stale entry *)

LEMMA BlockStep == TypeOK /\ NoStaleBlock /\ [Next]_vars => NoStaleBlock'
<1> SUFFICES ASSUME TypeOK, NoStaleBlock, [Next]_vars
             PROVE  NoStaleBlock'
  OBVIOUS
<1>1. ASSUME NEW m \in Memory, NEW s \in Scope, NEW r \in Reason,
             NEW conds \in ConditionSets, Quarantine(m, s, r, conds)
      PROVE  NoStaleBlock'
  <2> DEFINE id == [hash |-> m, scope |-> s, reason |-> r]
             st == [original_state_hash |-> m, created_at |-> now,
                    release_conditions |-> conds]
  <2>1. id \in QuarantineId /\ id.hash = m
    BY DEF QuarantineId
  <2>2. st # Absent
    <3>1. st \in QuarantinedState
      BY QuarantineAssumption DEF TypeOK, QuarantinedState
    <3> QED
      BY <3>1, QuarantineAssumption
  <2>3. quarantined_states' = [quarantined_states EXCEPT ![id] = st]
    BY <1>1 DEF Quarantine
  <2>4. \A b \in merge_blocklist' :
          b \in merge_blocklist \/ (b.left_hash = m /\ b.right_hash = m)
    BY <1>1 DEF Quarantine, BlockEntry
  <2> HIDE DEF id, st
  <2>5. id \in Active' /\ Active \subseteq Active'
    BY <2>1, <2>2, <2>3 DEF Active, TypeOK
  <2> QED
    BY <2>1, <2>4, <2>5 DEF NoStaleBlock
<1>2. ASSUME NEW id \in QuarantineId, NEW i \in 1..Len(release_queue),
             Release(i, id)
      PROVE  NoStaleBlock'
  <2>1. id \in Active /\ quarantined_states[id].original_state_hash = id.hash
    BY <1>2 DEF Release, TypeOK
  <2>2. Active' = Active \ {id}
    BY <1>2 DEF Release, Active, TypeOK
  <2>3. merge_blocklist' =
          {b \in merge_blocklist : b.left_hash # id.hash /\ b.right_hash # id.hash}
    BY <1>2, <2>1 DEF Release, UnblockMerges
  <2> QED
    BY <2>2, <2>3 DEF NoStaleBlock
<1>3. CASE UNCHANGED <<quarantined_states, merge_blocklist>>
  BY <1>3 DEF NoStaleBlock, Active
<1>4. ASSUME NEW id \in QuarantineId, EvaluateRelease(id)
      PROVE  NoStaleBlock'
  BY <1>2, <1>3, <1>4
     DEF EvaluateRelease, OrphanPanics, ClockPanics, Progress
<1> QED
  BY <1>1, <1>3, <1>4 DEF Next, vars, RecordOrishaApproval, ClockChange

\* No merge stays blocked once every quarantine of its state has ended.
THEOREM NoStaleBlockHolds == Spec => []NoStaleBlock
<1>1. Init => NoStaleBlock
  BY DEF Init, NoStaleBlock
<1> QED
  BY <1>1, BlockStep, TypeCorrect, PTL DEF Spec

-----------------------------------------------------------------------------
(* What is satisfied is evidenced, and so a release is earned *)

\* As long as the clock has not gone back, a candidate was queued before the
\* entry was last written, and that was before now.
TimesInOrder ==
  \A i \in 1..Len(release_queue) :
    since[i] # SetBack =>
      /\ since[i] <= now
      /\ release_queue[i].quarantine_id \in Active =>
           /\ since[i] <= quarantined_states[release_queue[i].quarantine_id].created_at
           /\ quarantined_states[release_queue[i].quarantine_id].created_at <= now

EvidenceInv == SatisfiedIsEvidenced /\ TimesInOrder

\* Evidence and order for a candidate, its time and its entry, on any clock.
Evidenced(c, candidate, at, clock) ==
  /\ c.type # "manual_override"
  /\ c.type = "orisha_approval" => c.required \subseteq candidate.orisha_approvals
  /\ c.type = "time_elapsed" /\ at # SetBack => clock - at >= c.min_duration

Ordered(at, id, states, clock) ==
  at # SetBack =>
    /\ at <= clock
    /\ states[id] # Absent => at <= states[id].created_at /\ states[id].created_at <= clock

Sound(candidate, at, states, clock) ==
  /\ \A c \in candidate.satisfied_conditions : Evidenced(c, candidate, at, clock)
  /\ Ordered(at, candidate.quarantine_id, states, clock)

LEMMA EvidenceIsSound ==
  ASSUME TypeOK
  PROVE  EvidenceInv <=> \A i \in 1..Len(release_queue) :
                           Sound(release_queue[i], since[i], quarantined_states, now)
<1>1. \A i \in 1..Len(release_queue) : release_queue[i].quarantine_id \in QuarantineId
  <2>1. \A i \in 1..Len(release_queue) : release_queue[i] \in ReleaseCandidate
    BY QueueElements DEF TypeOK
  <2> QED
    BY <2>1 DEF ReleaseCandidate
<1>2. SatisfiedIsEvidenced <=>
        \A i \in 1..Len(release_queue) :
          \A c \in release_queue[i].satisfied_conditions :
            Evidenced(c, release_queue[i], since[i], now)
  BY DEF SatisfiedIsEvidenced, Evidence, Evidenced
<1>3. ASSUME NEW i \in 1..Len(release_queue)
      PROVE  release_queue[i].quarantine_id \in Active
               <=> quarantined_states[release_queue[i].quarantine_id] # Absent
  BY <1>1 DEF Active
<1>4. TimesInOrder <=>
        \A i \in 1..Len(release_queue) :
          Ordered(since[i], release_queue[i].quarantine_id, quarantined_states, now)
  BY <1>3, Zenon DEF TimesInOrder, Ordered
<1> QED
  BY <1>2, <1>4, Zenon DEF EvidenceInv, Sound

LEMMA QueueTypes ==
  ASSUME TypeOK
  PROVE  /\ Len(release_queue) \in Nat
         /\ Len(since) = Len(release_queue)
         /\ now \in 1..MaxTime
         /\ \A i \in 1..Len(release_queue) :
              /\ release_queue[i] \in ReleaseCandidate
              /\ since[i] \in 0..MaxTime
         /\ \A id \in Active : quarantined_states[id].created_at \in 1..MaxTime
<1>1. /\ Len(release_queue) \in Nat
      /\ \A i \in 1..Len(release_queue) : release_queue[i] \in ReleaseCandidate
  BY QueueElements DEF TypeOK
<1>2. \A i \in 1..Len(release_queue) : since[i] \in Time \cup {SetBack}
  BY QueueElements DEF TypeOK
<1> QED
  BY <1>1, <1>2, QuarantineAssumption DEF TypeOK, Time, SetBack, Active, QuarantinedState

\* A condition that moves to the satisfied ones is evidenced: a difference of
\* times in order does not wrap.
LEMMA NewlyIsEvidenced ==
  ASSUME TypeOK, EvidenceInv, NEW i \in 1..Len(release_queue),
         release_queue[i].quarantine_id \in Active, NEW c \in Newly(release_queue[i])
  PROVE  Evidenced(c, release_queue[i], since[i], now)
<1> DEFINE from == quarantined_states[release_queue[i].quarantine_id].created_at
<1>1. c \in ReleaseCondition
  BY QueueTypes DEF Newly, ReleaseCandidate
<1>2. Holds(c, release_queue[i], quarantined_states[release_queue[i].quarantine_id])
  BY DEF Newly
<1>3. ASSUME c.type = "time_elapsed", since[i] # SetBack
      PROVE  now - since[i] >= c.min_duration
  <2>1. c.min_duration \in Nat
    BY <1>1, <1>3, QuarantineAssumption DEF ReleaseCondition
  <2>2. Elapsed(from) >= c.min_duration
    BY <1>2, <1>3 DEF Holds
  <2>3. since[i] <= from /\ from <= now
    BY <1>3 DEF EvidenceInv, TimesInOrder
  <2>4. now \in 1..MaxTime /\ from \in 1..MaxTime /\ since[i] \in 0..MaxTime
    BY QueueTypes
  <2>5. now - from \in 0..(Modulus - 1)
    BY <2>3, <2>4, QuarantineAssumption
  <2>6. Elapsed(from) = now - from
    BY <2>5, QuarantineAssumption DEF Elapsed
  <2> QED
    BY <2>1, <2>2, <2>3, <2>4, <2>6
<1> QED
  BY <1>2, <1>3 DEF Holds, Evidenced

LEMMA EvidenceStep == TypeOK /\ EvidenceInv /\ [Next]_vars => EvidenceInv'
<1> SUFFICES ASSUME TypeOK, EvidenceInv, [Next]_vars
             PROVE  EvidenceInv'
  OBVIOUS
<1> DEFINE IsSound(i) == Sound(release_queue[i], since[i], quarantined_states, now)
<1>0. TypeOK'
  BY NextType
<1>1. \A i \in 1..Len(release_queue) : IsSound(i)
  BY EvidenceIsSound
<1>2. ASSUME \A i \in 1..Len(release_queue') :
               Sound(release_queue'[i], since'[i], quarantined_states', now')
      PROVE  EvidenceInv'
  <2>1. TypeOK' => (EvidenceInv' <=> (\A i \in 1..Len(release_queue) : IsSound(i))')
    BY EvidenceIsSound, PTL
  <2> QED
    BY <1>0, <1>2, <2>1
<1> HIDE DEF IsSound
<1>3. ASSUME NEW m \in Memory, NEW s \in Scope, NEW r \in Reason,
             NEW conds \in ConditionSets, Quarantine(m, s, r, conds),
             NEW i \in 1..Len(release_queue')
      PROVE  Sound(release_queue'[i], since'[i], quarantined_states', now')
  <2> DEFINE id == [hash |-> m, scope |-> s, reason |-> r]
             st == [original_state_hash |-> m, created_at |-> now,
                    release_conditions |-> conds]
             new == [quarantine_id |-> id, satisfied_conditions |-> {},
                     pending_conditions |-> conds, orisha_approvals |-> {}]
             n == Len(release_queue)
  <2>1. /\ quarantined_states' = [quarantined_states EXCEPT ![id] = st]
        /\ release_queue' = Append(release_queue, new)
        /\ since' = Append(since, now) /\ now' = now
    BY <1>3 DEF Quarantine
  <2>2. new \in ReleaseCandidate /\ id \in QuarantineId
    BY QuarantineAssumption DEF ReleaseCandidate, QuarantineId
  <2>3. new.quarantine_id = id /\ new.satisfied_conditions = {} /\ st.created_at = now
    OBVIOUS
  <2> HIDE DEF id, st, new
  <2>4. /\ Len(release_queue') = n + 1 /\ n \in Nat /\ Len(since) = n
        /\ \A j \in 1..n : release_queue'[j] = release_queue[j]
        /\ release_queue'[n + 1] = new
    BY <2>1, <2>2, QueueTypes, AppendProperties DEF TypeOK
  <2>5. since'[n + 1] = now /\ \A j \in 1..n : since'[j] = since[j]
    <3>1. now \in Time \cup {SetBack}
      BY DEF TypeOK
    <3> QED
      BY <2>1, <2>4, <3>1, AppendProperties DEF TypeOK
  <2>6. quarantined_states'[id] = st
    BY <2>1, <2>2 DEF TypeOK
  <2>7. now \in 1..MaxTime
    BY QueueTypes
  <2>8. CASE i = n + 1
    BY <2>1, <2>3, <2>4, <2>5, <2>6, <2>7, <2>8 DEF Sound, Ordered
  <2>9. CASE i \in 1..n
    <3>1. IsSound(i) /\ release_queue[i].quarantine_id \in QuarantineId
      BY <1>1, <2>9, QueueTypes DEF ReleaseCandidate
    <3>2. since[i] \in 0..MaxTime
      BY <2>9, QueueTypes
    <3>3. CASE release_queue[i].quarantine_id = id
      BY <2>1, <2>3, <2>4, <2>5, <2>6, <2>7, <2>9, <3>1, <3>2, <3>3
         DEF IsSound, Sound, Ordered
    <3>4. CASE release_queue[i].quarantine_id # id
      <4>1. quarantined_states'[release_queue[i].quarantine_id]
              = quarantined_states[release_queue[i].quarantine_id]
        BY <2>1, <3>1, <3>4 DEF TypeOK
      <4> QED
        BY <2>1, <2>4, <2>5, <2>9, <3>1, <4>1 DEF IsSound, Sound, Ordered
    <3> QED
      BY <3>3, <3>4
  <2> QED
    BY <2>4, <2>8, <2>9
<1>4. ASSUME NEW k \in 1..Len(release_queue), NEW e \in ReleaseCandidate,
             release_queue' = [release_queue EXCEPT ![k] = e],
             e.quarantine_id = release_queue[k].quarantine_id,
             \A c \in e.satisfied_conditions : Evidenced(c, e, since[k], now),
             UNCHANGED <<quarantined_states, since, now>>,
             NEW i \in 1..Len(release_queue')
      PROVE  Sound(release_queue'[i], since'[i], quarantined_states', now')
  <2>1. /\ Len(release_queue') = Len(release_queue)
        /\ \A j \in 1..Len(release_queue) :
             release_queue'[j] = IF j = k THEN e ELSE release_queue[j]
    BY <1>4, ReplaceCandidate DEF TypeOK
  <2>2. IsSound(i)
    BY <1>1, <2>1
  <2> QED
    BY <1>4, <2>1, <2>2 DEF IsSound, Sound
<1>5. ASSUME NEW id \in QuarantineId, NEW o \in Orisha, RecordOrishaApproval(id, o)
      PROVE  EvidenceInv'
  <2>1. PICK k \in 1..Len(release_queue), e \in ReleaseCandidate :
           /\ release_queue' = [release_queue EXCEPT ![k] = e]
           /\ e.quarantine_id = release_queue[k].quarantine_id
           /\ e.satisfied_conditions = release_queue[k].satisfied_conditions
           /\ release_queue[k].orisha_approvals \subseteq e.orisha_approvals
    BY <1>5, RecordQueue
  <2>2. \A c \in e.satisfied_conditions : Evidenced(c, e, since[k], now)
    BY <1>1, <2>1 DEF IsSound, Sound, Evidenced
  <2> QED
    BY <1>2, <1>4, <1>5, <2>1, <2>2 DEF RecordOrishaApproval
<1>6. ASSUME NEW id \in QuarantineId, NEW k \in 1..Len(release_queue), IsFirst(k, id),
             Progress(k, id)
      PROVE  EvidenceInv'
  <2>1. PICK e \in ReleaseCandidate :
           /\ release_queue' = [release_queue EXCEPT ![k] = e]
           /\ e.quarantine_id = release_queue[k].quarantine_id
           /\ e.satisfied_conditions =
                release_queue[k].satisfied_conditions \cup Newly(release_queue[k])
           /\ e.orisha_approvals = release_queue[k].orisha_approvals
    BY <1>6, ProgressQueue
  <2>2. release_queue[k].quarantine_id \in Active
    BY <1>6 DEF Progress, IsFirst
  <2>3. \A c \in e.satisfied_conditions : Evidenced(c, release_queue[k], since[k], now)
    BY <1>1, <2>1, <2>2, NewlyIsEvidenced DEF IsSound, Sound
  <2>4. \A c \in e.satisfied_conditions : Evidenced(c, e, since[k], now)
    BY <2>1, <2>3 DEF Evidenced
  <2> QED
    BY <1>2, <1>4, <1>6, <2>1, <2>4 DEF Progress
<1>7. ASSUME NEW id \in QuarantineId, NEW k \in 1..Len(release_queue), Release(k, id),
             NEW i \in 1..Len(release_queue')
      PROVE  Sound(release_queue'[i], since'[i], quarantined_states', now')
  <2> DEFINE n == Len(release_queue)
             j == IF i < k THEN i ELSE i + 1
  <2>1. n \in Nat /\ Len(since) = n
    BY QueueTypes
  <2>0. /\ release_queue \in Seq(ReleaseCandidate) /\ since \in Seq(Time \cup {SetBack})
        /\ release_queue' = RemoveAt(release_queue, k) /\ since' = RemoveAt(since, k)
    BY <1>7 DEF TypeOK, Release
  <2>2. /\ Len(release_queue') = n - 1
        /\ \A l \in 1..(n - 1) :
             release_queue'[l] = IF l < k THEN release_queue[l] ELSE release_queue[l + 1]
    BY <2>0, RemoveAtProperties
  <2>3. \A l \in 1..(n - 1) : since'[l] = IF l < k THEN since[l] ELSE since[l + 1]
    <3>1. k \in 1..Len(since)
      BY <2>1
    <3> QED
      BY <2>0, <2>1, <3>1, RemoveAtProperties
  <2>4. j \in 1..n /\ release_queue'[i] = release_queue[j] /\ since'[i] = since[j]
    BY <2>1, <2>2, <2>3
  <2>5. IsSound(j) /\ release_queue[j].quarantine_id \in QuarantineId
    BY <1>1, <2>4, QueueTypes DEF ReleaseCandidate
  <2>6. \A x \in QuarantineId : quarantined_states'[x] \in {quarantined_states[x], Absent}
    BY <1>7 DEF Release, TypeOK
  <2>7. now' = now
    BY <1>7 DEF Release
  <2> HIDE DEF j
  <2>8. Ordered(since[j], release_queue[j].quarantine_id, quarantined_states', now)
    BY <2>5, <2>6 DEF IsSound, Sound, Ordered
  <2> QED
    BY <2>4, <2>5, <2>7, <2>8 DEF IsSound, Sound
<1>8. CASE UNCHANGED <<quarantined_states, release_queue, since, now>>
  <2>1. ASSUME NEW i \in 1..Len(release_queue')
        PROVE  Sound(release_queue'[i], since'[i], quarantined_states', now')
    <3>1. IsSound(i)
      BY <1>1, <1>8
    <3> QED
      BY <1>8, <3>1 DEF IsSound
  <2> QED
    BY <1>2, <2>1
<1>9. CASE ClockChange
  <2>1. ASSUME NEW i \in 1..Len(release_queue')
        PROVE  Sound(release_queue'[i], since'[i], quarantined_states', now')
    <3>1. /\ release_queue' = release_queue
          /\ quarantined_states' = quarantined_states
          /\ now' \in 1..MaxTime
      BY <1>9 DEF ClockChange, Time
    <3>2. since'[i] # SetBack => since'[i] = since[i] /\ now <= now'
      BY <1>9, <3>1, ClockTurns, QueueTypes
    <3>3. IsSound(i) /\ release_queue[i] \in ReleaseCandidate /\ since[i] \in 0..MaxTime
      BY <1>1, <3>1, QueueTypes
    <3>4. now \in 1..MaxTime
          /\ \A x \in Active : quarantined_states[x].created_at \in 1..MaxTime
      BY QueueTypes
    <3>5. ASSUME NEW c \in release_queue[i].satisfied_conditions
          PROVE  Evidenced(c, release_queue[i], since'[i], now')
      <4>1. c \in ReleaseCondition /\ Evidenced(c, release_queue[i], since[i], now)
        BY <3>3, <3>5 DEF IsSound, Sound, ReleaseCandidate
      <4>2. ASSUME c.type = "time_elapsed", since'[i] # SetBack
            PROVE  now' - since'[i] >= c.min_duration
        <5>1. c.min_duration \in Nat
          BY <4>1, <4>2, QuarantineAssumption DEF ReleaseCondition
        <5> QED
          BY <3>1, <3>2, <3>3, <3>4, <4>1, <4>2, <5>1 DEF Evidenced
      <4> QED
        BY <4>1, <4>2 DEF Evidenced
    <3>6. Ordered(since'[i], release_queue[i].quarantine_id, quarantined_states, now')
      <4>1. release_queue[i].quarantine_id \in QuarantineId
        BY <3>3 DEF ReleaseCandidate
      <4> QED
        BY <3>1, <3>2, <3>3, <3>4, <4>1 DEF IsSound, Sound, Ordered, Active
    <3> QED
      BY <3>1, <3>5, <3>6 DEF Sound
  <2> QED
    BY <1>2, <2>1
<1>10. ASSUME NEW id \in QuarantineId, EvaluateRelease(id)
       PROVE  EvidenceInv'
  <2>1. PICK k \in 1..Len(release_queue) :
          /\ IsFirst(k, id)
          /\ OrphanPanics(id) \/ ClockPanics(k, id) \/ Progress(k, id) \/ Release(k, id)
    BY <1>10 DEF EvaluateRelease
  <2> QED
    BY <1>2, <1>6, <1>7, <1>8, <2>1 DEF OrphanPanics, ClockPanics
<1> QED
  BY <1>2, <1>3, <1>5, <1>8, <1>9, <1>10 DEF Next, vars

\* Whatever a candidate counts as satisfied it has evidence for; of a time, that
\* it has passed since the candidate was queued, on a clock not set back.
THEOREM EvidenceHolds == Spec => []SatisfiedIsEvidenced
<1>1. Init => EvidenceInv
  BY DEF Init, EvidenceInv, SatisfiedIsEvidenced, TimesInOrder
<1>2. EvidenceInv => SatisfiedIsEvidenced
  BY DEF EvidenceInv
<1> QED
  BY <1>1, <1>2, EvidenceStep, TypeCorrect, PTL DEF Spec

ReleaseEarnedStep ==
  \A id \in Active \ Active' :
    \E i \in 1..Len(release_queue) :
      /\ IsFirst(i, id)
      /\ \A c \in release_queue[i].pending_conditions
                   \cup release_queue[i].satisfied_conditions :
           Evidence(c, i)

LEMMA OnlyReleaseDeactivates ==
  ASSUME TypeOK, EvidenceInv, [Next]_vars
  PROVE  ReleaseEarnedStep
<1>1. ASSUME NEW m \in Memory, NEW s \in Scope, NEW r \in Reason,
             NEW conds \in ConditionSets, Quarantine(m, s, r, conds)
      PROVE  Active \subseteq Active'
  <2> DEFINE id == [hash |-> m, scope |-> s, reason |-> r]
             st == [original_state_hash |-> m, created_at |-> now,
                    release_conditions |-> conds]
  <2>1. st # Absent
    BY QuarantineAssumption DEF TypeOK, QuarantinedState
  <2>2. quarantined_states' = [quarantined_states EXCEPT ![id] = st]
    BY <1>1 DEF Quarantine
  <2> HIDE DEF id, st
  <2> QED
    BY <2>1, <2>2 DEF Active, TypeOK
<1>2. ASSUME NEW id \in QuarantineId, EvaluateRelease(id)
      PROVE  ReleaseEarnedStep
  <2>1. PICK i \in 1..Len(release_queue) :
          /\ IsFirst(i, id)
          /\ OrphanPanics(id) \/ ClockPanics(i, id)
               \/ Progress(i, id) \/ Release(i, id)
    BY <1>2 DEF EvaluateRelease
  <2>2. CASE Release(i, id)
    <3>1. Active \ Active' = {id}
      BY <2>2 DEF Release, Active, TypeOK
    <3>2. \A c \in release_queue[i].pending_conditions : Evidence(c, i)
      <4>1. release_queue[i].quarantine_id \in Active
        BY <2>1, <2>2 DEF Release, IsFirst
      <4> QED
        BY <2>2, <4>1, NewlyIsEvidenced DEF Release, Evidence, Evidenced
    <3>3. \A c \in release_queue[i].satisfied_conditions : Evidence(c, i)
      BY DEF EvidenceInv, SatisfiedIsEvidenced
    <3> QED
      BY <2>1, <3>1, <3>2, <3>3 DEF ReleaseEarnedStep
  <2>3. CASE ~Release(i, id)
    BY <2>1, <2>3 DEF OrphanPanics, ClockPanics, Progress, Active,
                      ReleaseEarnedStep
  <2> QED
    BY <2>2, <2>3
<1>3. CASE UNCHANGED quarantined_states
  BY <1>3 DEF Active, ReleaseEarnedStep
<1> QED
  BY <1>1, <1>2, <1>3
     DEF Next, vars, RecordOrishaApproval, ClockChange, ReleaseEarnedStep

\* No order of calls ends a quarantine without the approvals that the oldest
\* candidate for it demands, nor, on a clock not set back, before its time.
THEOREM ReleaseEarned == Spec => ReleaseIsEarned
<1>1. TypeOK /\ EvidenceInv /\ [Next]_vars => [ReleaseEarnedStep]_vars
  BY OnlyReleaseDeactivates
<1>2. ReleaseIsEarned <=> [][ReleaseEarnedStep]_vars
  BY PTL DEF ReleaseIsEarned, ReleaseEarnedStep
<1>3. Init => EvidenceInv
  BY DEF Init, EvidenceInv, SatisfiedIsEvidenced, TimesInOrder
<1> QED
  BY <1>1, <1>2, <1>3, EvidenceStep, TypeCorrect, PTL DEF Spec

-----------------------------------------------------------------------------
(* The last candidate of an active quarantine bears its terms *)

\* Position i of the queue q holds the last candidate for id, under state's terms.
Serves(q, i, id, state) ==
  /\ q[i].quarantine_id = id
  /\ \A j \in (i + 1)..Len(q) : q[j].quarantine_id # id
  /\ q[i].pending_conditions \cup q[i].satisfied_conditions
       = state.release_conditions

LEMMA CandidateStep ==
  TypeOK /\ LastHasTerms /\ [Next]_vars => LastHasTerms'
<1> SUFFICES ASSUME TypeOK, LastHasTerms, [Next]_vars
             PROVE  LastHasTerms'
  OBVIOUS
<1> USE DEF LastHasTerms
<1>0. Len(release_queue) \in Nat
  BY QueueElements DEF TypeOK
<1>1. ASSUME NEW m \in Memory, NEW s \in Scope, NEW r \in Reason,
             NEW conds \in ConditionSets, Quarantine(m, s, r, conds)
      PROVE  LastHasTerms'
  <2> DEFINE id == [hash |-> m, scope |-> s, reason |-> r]
             st == [original_state_hash |-> m, created_at |-> now,
                    release_conditions |-> conds]
             new == [quarantine_id |-> id, satisfied_conditions |-> {},
                     pending_conditions |-> conds, orisha_approvals |-> {}]
             n == Len(release_queue)
  <2>1. quarantined_states' = [quarantined_states EXCEPT ![id] = st]
    BY <1>1 DEF Quarantine
  <2>2. release_queue' = Append(release_queue, new)
    BY <1>1 DEF Quarantine
  <2>3. new \in ReleaseCandidate /\ id \in QuarantineId
    BY QuarantineAssumption DEF ReleaseCandidate, QuarantineId
  <2>4. /\ new.quarantine_id = id
        /\ new.pending_conditions \cup new.satisfied_conditions
             = st.release_conditions
    OBVIOUS
  <2> HIDE DEF id, st, new
  <2>5. /\ Len(release_queue') = n + 1
        /\ \A i \in 1..n : release_queue'[i] = release_queue[i]
        /\ release_queue'[n + 1] = new
    BY <2>2, <2>3, AppendProperties DEF TypeOK
  <2>6. n + 1 \in 1..Len(release_queue')
    BY <2>5, <1>0
  <2>7. ASSUME NEW x \in Active', x = id
        PROVE  \E i \in 1..Len(release_queue') :
                 Serves(release_queue', i, x, quarantined_states'[x])
    <3>1. quarantined_states'[x] = st
      BY <2>1, <2>3, <2>7 DEF TypeOK
    <3> QED
      BY <1>0, <2>4, <2>5, <2>6, <2>7, <3>1 DEF Serves
  <2>8. ASSUME NEW x \in Active', x # id
        PROVE  \E i \in 1..Len(release_queue') :
                 Serves(release_queue', i, x, quarantined_states'[x])
    <3>1. x \in Active /\ quarantined_states'[x] = quarantined_states[x]
      BY <2>1, <2>3, <2>8 DEF Active, TypeOK
    <3>2. PICK i \in 1..n : Serves(release_queue, i, x, quarantined_states[x])
      BY <3>1 DEF Serves
    <3>3. i \in 1..Len(release_queue')
      BY <2>5, <1>0
    <3>4. ASSUME NEW j \in (i + 1)..Len(release_queue')
          PROVE  release_queue'[j].quarantine_id # x
      <4>1. j = n + 1 \/ j \in (i + 1)..n
        BY <2>5, <1>0
      <4> QED
        BY <1>0, <2>4, <2>5, <2>8, <3>2, <4>1 DEF Serves
    <3> QED
      BY <2>5, <3>1, <3>2, <3>3, <3>4 DEF Serves
  <2> QED
    BY <2>7, <2>8 DEF Serves
<1>2. ASSUME NEW i \in 1..Len(release_queue), NEW e \in ReleaseCandidate,
             release_queue' = [release_queue EXCEPT ![i] = e],
             e.quarantine_id = release_queue[i].quarantine_id,
             e.pending_conditions \cup e.satisfied_conditions =
               release_queue[i].pending_conditions
                 \cup release_queue[i].satisfied_conditions,
             UNCHANGED quarantined_states
      PROVE  LastHasTerms'
  <2>1. /\ Len(release_queue') = Len(release_queue)
        /\ \A j \in 1..Len(release_queue) :
             release_queue'[j] = IF j = i THEN e ELSE release_queue[j]
    BY <1>2, ReplaceCandidate DEF TypeOK
  <2>2. \A j \in 1..Len(release_queue) :
          release_queue'[j].quarantine_id = release_queue[j].quarantine_id
    BY <1>2, <2>1
  <2>3. ASSUME NEW x \in Active'
        PROVE  \E j \in 1..Len(release_queue') :
                 Serves(release_queue', j, x, quarantined_states'[x])
    <3>1. x \in Active /\ quarantined_states'[x] = quarantined_states[x]
      BY <1>2, <2>3 DEF Active
    <3>2. PICK j \in 1..Len(release_queue) :
            Serves(release_queue, j, x, quarantined_states[x])
      BY <3>1 DEF Serves
    <3>3. \A l \in (j + 1)..Len(release_queue') : release_queue'[l].quarantine_id # x
      BY <1>0, <2>1, <2>2, <3>2 DEF Serves
    <3>4. release_queue'[j].pending_conditions \cup release_queue'[j].satisfied_conditions
            = release_queue[j].pending_conditions \cup release_queue[j].satisfied_conditions
      BY <1>2, <2>1
    <3> QED
      BY <2>1, <2>2, <3>1, <3>2, <3>3, <3>4 DEF Serves
  <2> QED
    BY <2>3 DEF Serves
<1>3. ASSUME NEW id \in QuarantineId, NEW i \in 1..Len(release_queue),
             Release(i, id), IsFirst(i, id)
      PROVE  LastHasTerms'
  <2> DEFINE n == Len(release_queue)
  <2>1. release_queue' = RemoveAt(release_queue, i)
    BY <1>3 DEF Release
  <2>2. /\ Len(release_queue') = n - 1
        /\ \A j \in 1..(n - 1) :
             release_queue'[j] =
               IF j < i THEN release_queue[j] ELSE release_queue[j + 1]
    <3>1. release_queue \in Seq(ReleaseCandidate)
      BY DEF TypeOK
    <3> QED
      BY <2>1, <3>1, RemoveAtProperties
  <2>3. \A x \in Active' : /\ x \in Active
                           /\ x # id
                           /\ quarantined_states'[x] = quarantined_states[x]
    BY <1>3 DEF Release, Active, TypeOK
  <2>4. ASSUME NEW x \in Active'
        PROVE  \E j \in 1..Len(release_queue') :
                 Serves(release_queue', j, x, quarantined_states'[x])
    <3>1. PICK k \in 1..n : Serves(release_queue, k, x, quarantined_states[x])
      BY <2>3 DEF Serves
    <3>2. k # i
      BY <1>3, <2>3, <3>1 DEF IsFirst, Serves
    <3> DEFINE j == IF k < i THEN k ELSE k - 1
    <3>3. j \in 1..(n - 1)
      BY <1>0, <3>2
    <3>4. release_queue'[j] = release_queue[k]
      BY <1>0, <2>2, <3>2, <3>3
    <3>5. ASSUME NEW l \in (j + 1)..(n - 1)
          PROVE  release_queue'[l].quarantine_id # x
      <4> DEFINE was == IF l < i THEN l ELSE l + 1
      <4>1. l \in 1..(n - 1)
        BY <1>0, <3>3
      <4>2. release_queue'[l] = release_queue[was]
        BY <2>2, <4>1
      <4>3. was \in (k + 1)..n
        BY <1>0, <3>2, <4>1
      <4> QED
        BY <3>1, <4>2, <4>3 DEF Serves
    <3> QED
      BY <2>2, <2>3, <3>1, <3>3, <3>4, <3>5 DEF Serves
  <2> QED
    BY <2>4 DEF Serves
<1>4. CASE UNCHANGED <<quarantined_states, release_queue>>
  BY <1>4 DEF Active
<1>5. ASSUME NEW id \in QuarantineId, NEW o \in Orisha,
             RecordOrishaApproval(id, o)
      PROVE  LastHasTerms'
  <2>1. UNCHANGED quarantined_states
    BY <1>5 DEF RecordOrishaApproval
  <2> QED
    BY <1>2, <1>5, <2>1, RecordQueue
<1>6. ASSUME NEW id \in QuarantineId, EvaluateRelease(id)
      PROVE  LastHasTerms'
  <2>1. PICK i \in 1..Len(release_queue) :
          /\ IsFirst(i, id)
          /\ OrphanPanics(id) \/ ClockPanics(i, id)
               \/ Progress(i, id) \/ Release(i, id)
    BY <1>6 DEF EvaluateRelease
  <2>2. CASE Progress(i, id)
    <3>1. PICK e \in ReleaseCandidate :
           /\ release_queue' = [release_queue EXCEPT ![i] = e]
           /\ e.quarantine_id = release_queue[i].quarantine_id
           /\ e.pending_conditions =
                release_queue[i].pending_conditions \ Newly(release_queue[i])
           /\ e.satisfied_conditions =
                release_queue[i].satisfied_conditions \cup Newly(release_queue[i])
      BY <2>2, ProgressQueue
    <3>2. e.pending_conditions \cup e.satisfied_conditions =
            release_queue[i].pending_conditions
              \cup release_queue[i].satisfied_conditions
      BY <3>1, NewlyIsPending
    <3>3. UNCHANGED quarantined_states
      BY <2>2 DEF Progress
    <3> QED
      BY <1>2, <3>1, <3>2, <3>3
  <2>3. CASE OrphanPanics(id) \/ ClockPanics(i, id)
    BY <1>4, <2>3 DEF OrphanPanics, ClockPanics
  <2> QED
    BY <1>3, <2>1, <2>2, <2>3
<1> QED
  BY <1>1, <1>4, <1>5, <1>6 DEF Next, vars, ClockChange

\* However often a state is quarantined again and released, the terms of an
\* active entry are those of the last candidate for it.
THEOREM LastHasTermsHolds == Spec => []LastHasTerms
<1>1. Init => LastHasTerms
  BY DEF Init, LastHasTerms, Active
<1> QED
  BY <1>1, CandidateStep, TypeCorrect, PTL DEF Spec
=============================================================================
