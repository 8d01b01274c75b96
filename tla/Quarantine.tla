------------------------------ MODULE Quarantine ------------------------------
(***************************************************************************)
(* The QuarantineManager of crates/zangbeto-enforcement (quarantine.rs).   *)
(*                                                                         *)
(* It keeps three collections that must agree: the map of quarantined      *)
(* states, the blocklist of merges, and the queue of release candidates.   *)
(* Every method takes &mut self, so the operations are atomic; what is     *)
(* hard is the order in which they are called.  Nothing in the repository  *)
(* calls evaluate_release or record_orisha_approval: they are the public   *)
(* interface, and any caller may use them in any order.                    *)
(*                                                                         *)
(* Abstractions: a CrdtMemory is a model value and is its own SHA-256      *)
(* hash; snapshots and access capabilities, which nothing reads, are left  *)
(* out; the Vec of release conditions is the BTreeSet it is collected to.  *)
(***************************************************************************)
EXTENDS SequencesExt

CONSTANTS
  Memory,        \* the states that may be quarantined
  Scope,         \* QuarantineScope values
  Reason,        \* AnomalyClassification values
  Orisha,        \* who may approve a release
  ConditionSets, \* the release_conditions a caller may ask for
  Trace,         \* verification_trace values of AnomalyResolved
  MaxTime,       \* bound on the clock
  Modulus,       \* 2^64, scaled down: where u64 subtraction wraps
  MaxQueue,      \* bound on the length of release_queue
  Absent         \* "no entry" in quarantined_states

Time == 1..MaxTime

ReleaseCondition ==
       [type : {"time_elapsed"}, min_duration : 0..(Modulus - 1)]
  \cup [type : {"orisha_approval"}, required : SUBSET Orisha]
  \cup [type : {"anomaly_resolved"}, verification_trace : Trace]
  \cup [type : {"manual_override"}]

QuarantineId == [hash : Memory, scope : Scope, reason : Reason]

QuarantinedState ==
  [original_state_hash : Memory,
   created_at          : Time,
   release_conditions  : SUBSET ReleaseCondition]

BlockedMerge == [left_hash : Memory, right_hash : Memory, blocked_at : Time]

ReleaseCandidate ==
  [quarantine_id        : QuarantineId,
   satisfied_conditions : SUBSET ReleaseCondition,
   pending_conditions   : SUBSET ReleaseCondition,
   orisha_approvals     : SUBSET Orisha]

ASSUME QuarantineAssumption ==
  /\ MaxTime \in Nat \ {0}
  /\ Modulus \in Nat /\ Modulus > MaxTime
  /\ MaxQueue \in Nat
  /\ ConditionSets \subseteq SUBSET ReleaseCondition
  /\ Absent \notin QuarantinedState

VARIABLES
  quarantined_states, \* QuarantineId -> QuarantinedState, or Absent
  merge_blocklist,    \* a set of BlockedMerge
  release_queue,      \* a sequence of ReleaseCandidate
  since,              \* history, in step with release_queue: when each candidate
                      \* was queued, or SetBack if the clock went back after that
  now,                \* the wall clock current_timestamp() reads
  panicked            \* a method has panicked: its caller is gone

vars == <<quarantined_states, merge_blocklist, release_queue, since, now, panicked>>

SetBack == 0

Active == {id \in QuarantineId : quarantined_states[id] # Absent}

Init ==
  /\ quarantined_states = [id \in QuarantineId |-> Absent]
  /\ merge_blocklist = {}
  /\ release_queue = <<>>
  /\ since = <<>>
  /\ now \in Time
  /\ panicked = FALSE

-----------------------------------------------------------------------------
(* quarantine() *)

BlockEntry(h) == [left_hash |-> h, right_hash |-> h, blocked_at |-> now]

\* The id is the hash of (state, scope, reason): a second quarantine of the
\* same triple overwrites the map entry but pushes one more candidate.
Quarantine(m, s, r, conds) ==
  LET id == [hash |-> m, scope |-> s, reason |-> r] IN
  /\ ~panicked
  /\ Len(release_queue) < MaxQueue
  /\ merge_blocklist' = merge_blocklist \cup {BlockEntry(m)}
  /\ quarantined_states' =
       [quarantined_states EXCEPT ![id] =
          [original_state_hash |-> m,
           created_at          |-> now,
           release_conditions  |-> conds]]
  /\ release_queue' =
       Append(release_queue,
         [quarantine_id        |-> id,
          satisfied_conditions |-> {},
          pending_conditions   |-> conds,
          orisha_approvals     |-> {}])
  /\ since' = Append(since, now)
  /\ UNCHANGED <<now, panicked>>

-----------------------------------------------------------------------------
(* record_orisha_approval() and evaluate_release() *)

\* `position` and `find` stop at the first candidate with the id.
IsFirst(i, id) ==
  /\ release_queue[i].quarantine_id = id
  /\ \A j \in 1..(i - 1) : release_queue[j].quarantine_id # id

\* QuarantineNotFound, the answer for an unknown id, changes nothing.
RecordOrishaApproval(id, o) ==
  /\ ~panicked
  /\ \E i \in 1..Len(release_queue) :
       /\ IsFirst(i, id)
       /\ release_queue' =
            [release_queue EXCEPT ![i].orisha_approvals = @ \cup {o}]
  /\ UNCHANGED <<quarantined_states, merge_blocklist, since, now, panicked>>

\* now - created_at on u64: when the clock has gone back it wraps in a build
\* without overflow checks and panics in a build with them.
Elapsed(from) == (now - from) % Modulus
ClockWentBack(id) == now < quarantined_states[id].created_at

\* verify_anomaly_resolved returns true; ManualOverride is never satisfied.
Holds(c, candidate, state) ==
  \/ c.type = "time_elapsed" /\ Elapsed(state.created_at) >= c.min_duration
  \/ c.type = "orisha_approval" /\ c.required \subseteq candidate.orisha_approvals
  \/ c.type = "anomaly_resolved"

Newly(candidate) ==
  {c \in candidate.pending_conditions :
     Holds(c, candidate, quarantined_states[candidate.quarantine_id])}

\* `quarantined_states.get(quarantine_id).unwrap()` finds no entry.
OrphanPanics(id) ==
  /\ id \notin Active
  /\ panicked' = TRUE
  /\ UNCHANGED <<quarantined_states, merge_blocklist, release_queue, since, now>>

\* A pending TimeElapsed condition meets a clock that has gone back.
ClockPanics(i, id) ==
  /\ id \in Active
  /\ ClockWentBack(id)
  /\ \E c \in release_queue[i].pending_conditions : c.type = "time_elapsed"
  /\ panicked' = TRUE
  /\ UNCHANGED <<quarantined_states, merge_blocklist, release_queue, since, now>>

\* Mutant: a satisfied condition is removed and not remembered.
ProgressForgets(i, id) ==
  LET candidate == release_queue[i] IN
  /\ id \in Active
  /\ Newly(candidate) # candidate.pending_conditions
  /\ release_queue' =
       [release_queue EXCEPT ![i].pending_conditions = @ \ Newly(candidate)]
  /\ UNCHANGED <<quarantined_states, merge_blocklist, since, now, panicked>>

\* Pending or NoProgress: what is satisfied stays satisfied.
Progress(i, id) ==
  LET candidate == release_queue[i] IN
  /\ id \in Active
  /\ Newly(candidate) # candidate.pending_conditions
  /\ release_queue' =
       [release_queue EXCEPT
          ![i].pending_conditions   = @ \ Newly(candidate),
          ![i].satisfied_conditions = @ \cup Newly(candidate)]
  /\ UNCHANGED <<quarantined_states, merge_blocklist, since, now, panicked>>

\* Mutant: only the entries made at the time of the release are dropped.
UnblockCurrent(h) == {b \in merge_blocklist : b.left_hash # h \/ b.blocked_at # now}

\* unblock_merges drops every entry that names the hash, whoever added it.
UnblockMerges(h) ==
  {b \in merge_blocklist : b.left_hash # h /\ b.right_hash # h}

\* Mutant: one newly satisfied condition is enough to release.
ReleaseEager(i, id) ==
  /\ id \in Active
  /\ Newly(release_queue[i]) # {}
  /\ quarantined_states' = [quarantined_states EXCEPT ![id] = Absent]
  /\ release_queue' = RemoveAt(release_queue, i)
  /\ since' = RemoveAt(since, i)
  /\ merge_blocklist' =
       UnblockMerges(quarantined_states[id].original_state_hash)
  /\ UNCHANGED <<now, panicked>>

\* The duration of the answer is computed last: if the clock has gone back
\* this subtraction too may panic, after the release has been done.
Release(i, id) ==
  LET candidate == release_queue[i] IN
  /\ id \in Active
  /\ Newly(candidate) = candidate.pending_conditions
  /\ quarantined_states' = [quarantined_states EXCEPT ![id] = Absent]
  /\ release_queue' = RemoveAt(release_queue, i)
  /\ since' = RemoveAt(since, i)
  /\ merge_blocklist' =
       UnblockMerges(quarantined_states[id].original_state_hash)
  /\ \/ panicked' = FALSE
     \/ ClockWentBack(id) /\ panicked' = TRUE
  /\ UNCHANGED now

\* NotFound, the answer when no candidate has the id, changes nothing.
EvaluateRelease(id) ==
  /\ ~panicked
  /\ \E i \in 1..Len(release_queue) :
       /\ IsFirst(i, id)
       /\ \/ OrphanPanics(id)
          \/ ClockPanics(i, id)
          \/ Progress(i, id)
          \/ Release(i, id)

\* SystemTime is the wall clock: it advances, and an adjustment may set it back.
ClockChange ==
  /\ ~panicked
  /\ now' \in Time \ {now}
  /\ since' = IF now' < now THEN [i \in DOMAIN since |-> SetBack] ELSE since
  /\ UNCHANGED <<quarantined_states, merge_blocklist, release_queue, panicked>>

Next ==
  \/ \E m \in Memory, s \in Scope, r \in Reason, conds \in ConditionSets :
       Quarantine(m, s, r, conds)
  \/ \E id \in QuarantineId, o \in Orisha : RecordOrishaApproval(id, o)
  \/ \E id \in QuarantineId : EvaluateRelease(id)
  \/ ClockChange

Spec == Init /\ [][Next]_vars

-----------------------------------------------------------------------------
(* Properties of the code *)

\* Every collection holds values of its Rust type, and a map entry is filed
\* under the hash of the state it describes.
TypeOK ==
  /\ quarantined_states \in [QuarantineId -> QuarantinedState \cup {Absent}]
  /\ \A id \in Active : quarantined_states[id].original_state_hash = id.hash
  /\ merge_blocklist \subseteq BlockedMerge
  /\ release_queue \in Seq(ReleaseCandidate)
  /\ since \in Seq(Time \cup {SetBack}) /\ Len(since) = Len(release_queue)
  /\ now \in Time
  /\ panicked \in BOOLEAN

\* No block outlives its cause: whenever a merge is on the blocklist, some
\* state with that hash is in quarantine, however quarantines of the same
\* state under several scopes and reasons are created and released.
NoStaleBlock ==
  \A b \in merge_blocklist :
    \E id \in Active : id.hash = b.left_hash /\ id.hash = b.right_hash

\* A later quarantine() of the same triple queues its terms behind the earlier
\* ones: the last candidate of an active quarantine bears the terms the entry
\* has, met and unmet, and so evaluate_release, which begins with the first,
\* comes to them in the end unless an earlier candidate's terms are met.
LastHasTerms ==
  \A id \in Active : \E i \in 1..Len(release_queue) :
    /\ release_queue[i].quarantine_id = id
    /\ \A j \in (i + 1)..Len(release_queue) : release_queue[j].quarantine_id # id
    /\ release_queue[i].pending_conditions \cup release_queue[i].satisfied_conditions
         = quarantined_states[id].release_conditions

\* What candidate i counts as satisfied it has evidence for: every approval
\* was recorded on that candidate, no manual override was ever granted, and the
\* time demanded has passed since it was queued, provided the clock was not set
\* back after that.  An AnomalyResolved is believed without evidence.
Evidence(c, i) ==
  /\ c.type # "manual_override"
  /\ c.type = "orisha_approval" => c.required \subseteq release_queue[i].orisha_approvals
  /\ c.type = "time_elapsed" /\ since[i] # SetBack => now - since[i] >= c.min_duration

SatisfiedIsEvidenced ==
  \A i \in 1..Len(release_queue) :
    \A c \in release_queue[i].satisfied_conditions : Evidence(c, i)

\* A quarantine ends only through the oldest candidate for its id, and only
\* when each of that candidate's conditions is evidenced: no order of calls
\* releases a state for which an approval that candidate requires is missing,
\* nor, on a clock that goes forward, one that has not waited its time, however
\* often the entry was overwritten in between.
ReleaseIsEarned ==
  [][\A id \in Active \ Active' :
       \E i \in 1..Len(release_queue) :
         /\ IsFirst(i, id)
         /\ \A c \in release_queue[i].pending_conditions
                      \cup release_queue[i].satisfied_conditions :
              Evidence(c, i)]_vars
=============================================================================
