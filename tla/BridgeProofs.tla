----------------------------- MODULE BridgeProofs -----------------------------
(***************************************************************************)
(* Proofs about Bridge: one signing identity over crashes and concurrent   *)
(* first requests, durable answers, and what a poller can miss.  And about *)
(* Verdicts: the two bridges' answers to the same words.                   *)
(***************************************************************************)
EXTENDS Bridge, Verdicts, TLAPS

\* What the properties need of the types.
Types ==
  /\ seed \in Key \cup {Absent, Torn}
  /\ guardian \in Key \cup {Absent}
  /\ rows \in Seq(Signed)
  /\ task \in [Task -> TaskState]
  /\ drawn \in 0..MaxReceipts
  /\ now \in 0..MaxTime
  /\ answered \subseteq Signed
  /\ late \in Seq(SUBSET Poller) /\ Len(late) = Len(rows)

PollTypes ==
  /\ cursor \in [Poller -> 0..MaxTime]
  /\ reply \in [Poller -> SUBSET (1..Len(rows))]
  /\ seen \in [Poller -> SUBSET (1..Len(rows))]
  /\ reach \in [Poller -> 0..MaxTime]

Holds(t) == task[t].stage \in {"signed", "answering"}

Inits(t) == task[t].stage \in {"generating", "writing"}

-----------------------------------------------------------------------------
(* Types *)

\* The states of a task, one stage at a time.
LEMMA TaskStages ==
  ASSUME NEW s \in TaskState
  PROVE  /\ s.stage = "idle" => s = Idle
         /\ s.stage = "routed" => s.req \in Request /\ s = [stage |-> "routed", req |-> s.req]
         /\ s.stage \in {"generating", "writing"} => s.req \in Request /\ s.key \in Key
         /\ s.stage \in {"signed", "answering"} =>
              s.receipt \in Signed
         /\ s.stage \in {"idle", "routed", "generating", "writing", "signed", "answering"}
BY DEF TaskState, Idle

LEMMA TypesInit == Init => Types /\ PollTypes
BY BridgeAssumption DEF Init, Types, PollTypes, TaskState, Idle

LEMMA TypesNext == Types /\ [Next]_vars => Types'
<1> SUFFICES ASSUME Types, [Next]_vars
             PROVE  Types'
  OBVIOUS
<1> USE DEF Types, guardVars, tableVars, pollVars
<1>a. Idle \in TaskState
  BY DEF TaskState
<1>1. ASSUME NEW t \in Task, NEW req \in Request, Accept(t, req)
      PROVE  Types'
  <2>1. [stage |-> "routed", req |-> req] \in TaskState
    BY DEF TaskState
  <2> QED
    BY <1>1, <2>1 DEF Accept, Become
<1>2. ASSUME NEW t \in Task, LoadSeed(t)
      PROVE  Types'
  BY <1>2, BridgeAssumption DEF LoadSeed, Alone
<1>3. ASSUME NEW t \in Task, LoadTorn(t)
      PROVE  Types'
  BY <1>a, <1>3 DEF LoadTorn, Become
<1>4. ASSUME NEW t \in Task, NEW key \in Key, GenerateSeed(t, key)
      PROVE  Types'
  <2>1. [stage |-> "generating", req |-> task[t].req, key |-> key] \in TaskState
    <3>1. task[t] \in TaskState /\ task[t].stage = "routed"
      BY <1>4 DEF GenerateSeed, Alone
    <3>2. task[t].req \in Request
      BY <3>1, TaskStages
    <3> QED
      BY <3>2 DEF TaskState
  <2> QED
    BY <1>4, <2>1 DEF GenerateSeed, Alone, Become
<1>c. ASSUME NEW t \in Task, CreateSeed(t)
      PROVE  Types'
  <2>1. task[t] \in TaskState /\ task[t].stage = "generating"
    BY <1>c DEF CreateSeed
  <2>2. task[t].req \in Request /\ task[t].key \in Key
    BY <2>1, TaskStages
  <2>3. [stage |-> "writing", req |-> task[t].req, key |-> task[t].key] \in TaskState
    BY <2>2 DEF TaskState
  <2> QED
    BY <1>c, <2>3 DEF CreateSeed, Become
<1>5. ASSUME NEW t \in Task, WriteSeed(t)
      PROVE  Types'
  <2>1. task[t] \in TaskState /\ task[t].stage = "writing"
    BY <1>5 DEF WriteSeed
  <2>2. task[t].req \in Request /\ task[t].key \in Key
    BY <2>1, TaskStages
  <2>3. [stage |-> "routed", req |-> task[t].req] \in TaskState
    BY <2>2 DEF TaskState
  <2> QED
    BY <1>5, <2>2, <2>3 DEF WriteSeed, Become
<1>6. ASSUME NEW t \in Task, WriteFails(t)
      PROVE  Types'
  <2>1. task[t] \in TaskState /\ task[t].stage = "writing"
    BY <1>6 DEF WriteFails
  <2>2. task[t].key \in Key
    BY <2>1, TaskStages
  <2> QED
    BY <1>a, <1>6, <2>2 DEF WriteFails, Become
<1>7. ASSUME NEW t \in Task, Sign(t)
      PROVE  Types'
  <2> DEFINE r == [id |-> drawn', req |-> task[t].req, key |-> guardian,
                   timestamp |-> IF task[t].req.route \in Persistent THEN now ELSE 0]
  <2>1. task[t] \in TaskState /\ task[t].stage = "routed"
    BY <1>7 DEF Sign
  <2>2. task[t].req \in Request
    BY <2>1, TaskStages
  <2>3. drawn' \in 1..MaxReceipts /\ guardian \in Key
    BY <1>7, BridgeAssumption DEF Sign
  <2>4. r.timestamp \in 0..MaxTime
    BY BridgeAssumption
  <2>5. r \in Signed
    BY <2>2, <2>3, <2>4 DEF Signed
  <2>6. \E s \in {"signed", "answering"} : Become(t, [stage |-> s, receipt |-> r])
    BY <1>7 DEF Sign
  <2>7. \A s \in {"signed", "answering"} : [stage |-> s, receipt |-> r] \in TaskState
    BY <2>5 DEF TaskState
  <2>8. task' \in [Task -> TaskState]
    BY <2>6, <2>7 DEF Become
  <2> QED
    BY <1>7, <2>3, <2>8 DEF Sign
<1>8. ASSUME NEW t \in Task, Emit(t)
      PROVE  Types'
  <2>1. task[t] \in TaskState /\ task[t].stage = "signed"
    BY <1>8 DEF Emit
  <2>2. task[t].receipt \in Signed
    BY <2>1, TaskStages
  <2>3. [stage |-> "answering", receipt |-> task[t].receipt] \in TaskState
    BY <2>2 DEF TaskState
  <2>4. ReadPast(task[t].receipt) \in SUBSET Poller
    BY DEF ReadPast
  <2>5. rows' \in Seq(Signed) /\ late' \in Seq(SUBSET Poller) /\ Len(late') = Len(rows')
    BY <1>8, <2>2, <2>4 DEF Emit
  <2> QED
    BY <1>8, <2>3, <2>5 DEF Emit, Become
<1>9. ASSUME NEW t \in Task, EmitFails(t)
      PROVE  Types'
  BY <1>a, <1>9 DEF EmitFails, Become
<1>10. ASSUME NEW t \in Task, Answer(t)
       PROVE  Types'
  <2>1. task[t] \in TaskState /\ task[t].stage = "answering"
    BY <1>10 DEF Answer
  <2>2. task[t].receipt \in Signed
    BY <2>1, TaskStages
  <2> QED
    BY <1>a, <1>10, <2>2 DEF Answer, Become
<1>11. ASSUME NEW p \in Poller, Poll(p) \/ PollAnswer(p)
       PROVE  Types'
  BY <1>11 DEF Poll, PollAnswer
<1>12. ASSUME ClockChange
       PROVE  Types'
  BY <1>12 DEF ClockChange
<1>13. ASSUME Crash
       PROVE  Types'
  BY <1>a, <1>13 DEF Crash
<1>14. ASSUME UNCHANGED vars
       PROVE  Types'
  BY <1>14 DEF vars
<1> QED
  BY <1>1, <1>2, <1>3, <1>4, <1>c, <1>5, <1>6, <1>7, <1>8, <1>9, <1>10, <1>11, <1>12,
     <1>13, <1>14 DEF Next, Handle

-----------------------------------------------------------------------------
(* One identity *)

\* Before the seed is whole nothing is signed and at most one task writes it;
\* from then on every signature is of that seed.
IdentityInv ==
  /\ guardian # Absent => guardian = seed
  /\ \A t, u \in Task : Inits(t) /\ Inits(u) => t = u
  /\ \A t \in Task : Inits(t) => seed \in {Absent, Torn} /\ guardian = Absent
  /\ \A t \in Task : Holds(t) => task[t].receipt.key = seed
  /\ OneIdentity

LEMMA SignedByKey ==
  ASSUME Types, IdentityInv, seed \notin Key
  PROVE  /\ guardian = Absent
         /\ InTable = {} /\ answered = {}
         /\ \A t \in Task : ~Holds(t)
<1>1. guardian = Absent
  BY DEF Types, IdentityInv
<1>2. InTable \subseteq Signed
  BY DEF Types, InTable
<1>3. \A r \in Signed : r.key \in Key
  BY DEF Signed
<1>4. InTable = {} /\ answered = {}
  BY <1>2, <1>3 DEF Types, IdentityInv, OneIdentity
<1>5. ASSUME NEW t \in Task, Holds(t)
      PROVE  FALSE
  <2>1. task[t] \in TaskState
    BY DEF Types
  <2>2. task[t].receipt \in Signed
    BY <1>5, <2>1, TaskStages DEF Holds
  <2> QED
    BY <1>3, <1>5, <2>2 DEF IdentityInv
<1> QED
  BY <1>1, <1>4, <1>5

LEMMA IdentityInit == Init => IdentityInv
BY DEF Init, IdentityInv, Inits, Holds, OneIdentity, InTable, Idle

LEMMA IdentityNext == Types /\ IdentityInv /\ [Next]_vars => IdentityInv'
<1> SUFFICES ASSUME Types, IdentityInv, [Next]_vars
             PROVE  IdentityInv'
  OBVIOUS
<1> USE DEF guardVars, tableVars, pollVars
<1>t. task \in [Task -> TaskState] /\ rows \in Seq(Signed)
  BY DEF Types
<1>i. Idle.stage = "idle"
  BY DEF Idle
<1>s. (seed \in Key /\ guardian = Absent) \/ guardian = seed \/ seed \notin Key
  BY DEF Types, IdentityInv
\* Steps of one task that leave the seed, the table and the answers alone and
\* give the task no receipt.
<1>q. ASSUME NEW t \in Task, NEW state, Become(t, state),
             state.stage \in {"idle", "routed"},
             UNCHANGED <<seed, rows, answered>>,
             guardian' = guardian \/ guardian' = seed,
             guardian' # guardian => ~Initialising
      PROVE  IdentityInv'
  <2>1. /\ task'[t] = state
        /\ \A u \in Task : u # t => task'[u] = task[u]
    BY <1>q, <1>t DEF Become
  <2>2. \A u \in Task : Inits(u)' => Inits(u) /\ u # t
    BY <1>q, <2>1 DEF Inits
  <2>3. \A u \in Task : Holds(u)' => u # t /\ Holds(u) /\ task'[u].receipt = task[u].receipt
    BY <1>q, <2>1 DEF Holds
  <2> QED
    BY <1>q, <2>2, <2>3 DEF Inits, IdentityInv, OneIdentity, InTable, Initialising, Inits
<1>1. ASSUME NEW t \in Task, NEW req \in Request, Accept(t, req)
      PROVE  IdentityInv'
  BY <1>1, <1>q DEF Accept
<1>2. ASSUME NEW t \in Task, LoadSeed(t)
      PROVE  IdentityInv'
  <2>1. ~Initialising /\ guardian' = seed
    BY <1>2 DEF LoadSeed, Alone
  <2>2. \A u \in Task : task'[u] = task[u]
    BY <1>2 DEF LoadSeed
  <2> QED
    BY <1>2, <2>1, <2>2 DEF LoadSeed, IdentityInv, OneIdentity, InTable, Initialising, Inits, Holds
<1>3. ASSUME NEW t \in Task, LoadTorn(t)
      PROVE  IdentityInv'
  BY <1>3, <1>q, <1>i DEF LoadTorn
<1>4. ASSUME NEW t \in Task, NEW key \in Key, GenerateSeed(t, key)
      PROVE  IdentityInv'
  <2>1. seed = Absent /\ seed \notin Key /\ ~Initialising
        /\ UNCHANGED <<seed, guardian, rows, answered>>
    BY <1>4, BridgeAssumption DEF GenerateSeed, Alone
  <2>2. guardian = Absent /\ InTable = {} /\ answered = {} /\ \A u \in Task : ~Holds(u)
    BY <2>1, SignedByKey
  <2>3. /\ task'[t] = [stage |-> "generating", req |-> task[t].req, key |-> key]
        /\ \A u \in Task : u # t => task'[u] = task[u]
    BY <1>4, <1>t DEF GenerateSeed, Become
  <2>4. \A u \in Task : Inits(u)' => u = t
    BY <2>1, <2>3 DEF Initialising, Inits
  <2>5. \A u \in Task : ~Holds(u)'
    BY <2>2, <2>3 DEF Holds
  <2> QED
    BY <2>1, <2>2, <2>4, <2>5 DEF Inits, IdentityInv, OneIdentity, InTable
<1>c. ASSUME NEW t \in Task, CreateSeed(t)
      PROVE  IdentityInv'
  <2>1. seed \notin Key /\ Inits(t) /\ seed' = Torn
        /\ UNCHANGED <<guardian, rows, answered>>
    BY <1>c, BridgeAssumption DEF CreateSeed, IdentityInv, Inits
  <2>2. guardian = Absent /\ InTable = {} /\ answered = {} /\ \A u \in Task : ~Holds(u)
    BY <2>1, SignedByKey
  <2>3. /\ task'[t] = [stage |-> "writing", req |-> task[t].req, key |-> task[t].key]
        /\ \A u \in Task : u # t => task'[u] = task[u]
    BY <1>c, <1>t DEF CreateSeed, Become
  <2>4. \A u \in Task : Inits(u)' => u = t
    BY <2>1, <2>3 DEF Inits, IdentityInv, Inits
  <2>5. \A u \in Task : ~Holds(u)'
    BY <2>2, <2>3 DEF Holds
  <2> QED
    BY <2>1, <2>2, <2>4, <2>5 DEF Inits, IdentityInv, OneIdentity, InTable
<1>5. ASSUME NEW t \in Task, WriteSeed(t)
      PROVE  IdentityInv'
  <2>1. seed \notin Key /\ Inits(t)
        /\ UNCHANGED <<rows, answered>> /\ seed' = guardian'
    BY <1>5, BridgeAssumption DEF WriteSeed, Inits, IdentityInv
  <2>2. InTable = {} /\ answered = {} /\ \A u \in Task : ~Holds(u)
    BY <2>1, SignedByKey
  <2>3. /\ task'[t] = [stage |-> "routed", req |-> task[t].req]
        /\ \A u \in Task : u # t => task'[u] = task[u]
    BY <1>5, <1>t DEF WriteSeed, Become
  <2>4. \A u \in Task : ~Inits(u)'
    BY <2>1, <2>3 DEF Inits, IdentityInv
  <2>5. \A u \in Task : ~Holds(u)'
    BY <2>2, <2>3 DEF Holds
  <2> QED
    BY <2>1, <2>2, <2>4, <2>5 DEF Inits, IdentityInv, OneIdentity, InTable
<1>6. ASSUME NEW t \in Task, WriteFails(t)
      PROVE  IdentityInv'
  <2>1. seed \notin Key /\ Inits(t)
        /\ UNCHANGED <<guardian, rows, answered>>
    BY <1>6, BridgeAssumption DEF WriteFails, Inits, IdentityInv
  <2>2. guardian = Absent /\ InTable = {} /\ answered = {} /\ \A u \in Task : ~Holds(u)
    BY <2>1, SignedByKey
  <2>3. /\ task'[t] = Idle
        /\ \A u \in Task : u # t => task'[u] = task[u]
    BY <1>6, <1>t DEF WriteFails, Become
  <2>4. \A u \in Task : ~Inits(u)'
    BY <1>i, <2>1, <2>3 DEF Inits, IdentityInv
  <2>5. \A u \in Task : ~Holds(u)'
    BY <1>i, <2>2, <2>3 DEF Holds
  <2> QED
    BY <2>1, <2>2, <2>4, <2>5 DEF Inits, IdentityInv, OneIdentity, InTable
<1>7. ASSUME NEW t \in Task, Sign(t)
      PROVE  IdentityInv'
  <2>1. /\ task'[t].stage \in {"signed", "answering"}
        /\ task'[t].receipt.key = guardian
        /\ \A u \in Task : u # t => task'[u] = task[u]
    BY <1>7, <1>t DEF Sign, Become
  <2>2. guardian = seed /\ UNCHANGED <<seed, guardian, rows, answered>>
    BY <1>7 DEF Sign, IdentityInv
  <2>3. \A u \in Task : Inits(u)' => Inits(u) /\ u # t
    BY <2>1 DEF Inits
  <2>4. \A u \in Task : Holds(u)' => task'[u].receipt.key = seed
    BY <2>1, <2>2 DEF Holds, IdentityInv
  <2> QED
    BY <2>2, <2>3, <2>4 DEF Inits, IdentityInv, OneIdentity, InTable
<1>8. ASSUME NEW t \in Task, Emit(t)
      PROVE  IdentityInv'
  <2>1. task[t] \in TaskState /\ task[t].stage = "signed"
    BY <1>8, <1>t DEF Emit
  <2>2. task[t].receipt \in Signed
    BY <2>1, TaskStages
  <2>3. /\ task'[t] = [stage |-> "answering", receipt |-> task[t].receipt]
        /\ \A u \in Task : u # t => task'[u] = task[u]
    BY <1>8, <1>t, <2>2 DEF Emit, Become
  <2>4. InTable' = InTable \cup {task[t].receipt}
    BY <1>8, <1>t, <2>2 DEF Emit, InTable
  <2>5. task[t].receipt.key = seed
    BY <2>1 DEF Inits, IdentityInv, Holds
  <2>6. \A u \in Task : Inits(u)' => Inits(u) /\ u # t
    BY <2>3 DEF Inits
  <2>7. \A u \in Task : Holds(u)' => Holds(u) /\ task'[u].receipt = task[u].receipt
    BY <2>1, <2>3 DEF Holds
  <2> QED
    BY <1>8, <2>4, <2>5, <2>6, <2>7 DEF Emit, IdentityInv, OneIdentity
<1>9. ASSUME NEW t \in Task, EmitFails(t)
      PROVE  IdentityInv'
  BY <1>9, <1>q, <1>i DEF EmitFails
<1>10. ASSUME NEW t \in Task, Answer(t)
       PROVE  IdentityInv'
  <2>1. task[t].receipt.key = seed
    BY <1>10 DEF Answer, Holds, IdentityInv
  <2>2. /\ task'[t] = Idle
        /\ \A u \in Task : u # t => task'[u] = task[u]
    BY <1>10, <1>t DEF Answer, Become
  <2>3. \A u \in Task : Inits(u)' => Inits(u)
    BY <1>i, <2>2 DEF Inits
  <2>4. \A u \in Task : Holds(u)' => Holds(u) /\ task'[u].receipt = task[u].receipt
    BY <1>i, <2>2 DEF Holds
  <2> QED
    BY <1>10, <2>1, <2>3, <2>4 DEF Answer, IdentityInv, OneIdentity, InTable
<1>11. ASSUME NEW p \in Poller, Poll(p) \/ PollAnswer(p)
       PROVE  IdentityInv'
  BY <1>11 DEF Poll, PollAnswer, IdentityInv, Inits, Holds, OneIdentity, InTable
<1>12. ASSUME ClockChange
       PROVE  IdentityInv'
  BY <1>12 DEF ClockChange, IdentityInv, Inits, Holds, OneIdentity, InTable
<1>13. ASSUME Crash
       PROVE  IdentityInv'
  <2>1. \A u \in Task : task'[u] = Idle
    BY <1>13 DEF Crash
  <2> QED
    BY <1>13, <1>i, <2>1 DEF Crash, IdentityInv, Inits, Holds, OneIdentity, InTable
<1>14. ASSUME UNCHANGED vars
       PROVE  IdentityInv'
  BY <1>14 DEF vars, IdentityInv, Inits, Holds, OneIdentity, InTable
<1> QED
  BY <1>1, <1>2, <1>3, <1>4, <1>c, <1>5, <1>6, <1>7, <1>8, <1>9, <1>10, <1>11, <1>12,
     <1>13, <1>14 DEF Next, Handle

\* Every signature, in the table or in a client's hands, verifies with the
\* seed on disk, whatever crashes and whichever first requests race.
THEOREM OneIdentityHolds == Spec => []OneIdentity
<1>1. Init => Types /\ IdentityInv
  BY TypesInit, IdentityInit
<1>2. Types /\ IdentityInv /\ [Next]_vars => (Types /\ IdentityInv)'
  BY TypesNext, IdentityNext
<1>3. IdentityInv => OneIdentity
  BY DEF Inits, IdentityInv
<1> QED
  BY <1>1, <1>2, <1>3, PTL DEF Spec

-----------------------------------------------------------------------------
(* What a poller can miss *)

\* A reply on its way to a poller stops at the newest timestamp read for it,
\* and leaves out only late rows between the cursor and its own newest row.
ReplyInv ==
  \A p \in Poller :
    /\ cursor[p] <= reach[p]
    /\ \A j \in reply[p] :
         /\ rows[j].timestamp <= reach[p]
         /\ \A i \in 1..Len(rows) :
              /\ Wanted(p, i)
              /\ cursor[p] < rows[i].timestamp
              /\ rows[i].timestamp <= rows[j].timestamp
              /\ i \notin reply[p]
              => p \in late[i]

PollInv == PollTypes /\ ReplyInv /\ MissesOnlyLate

LEMMA RowTypes ==
  ASSUME Types
  PROVE  /\ Len(rows) \in Nat
         /\ \A i \in 1..Len(rows) : rows[i] \in Signed /\ rows[i].timestamp \in 0..MaxTime
         /\ \A p \in Poller : Since(p) \subseteq 1..Len(rows)
<1>1. rows \in Seq(Signed)
  BY DEF Types
<1>2. Len(rows) \in Nat /\ \A i \in 1..Len(rows) : rows[i] \in Signed
  BY <1>1
<1>3. \A r \in Signed : r.timestamp \in 0..MaxTime
  BY DEF Signed
<1>4. \A p \in Poller : Since(p) \subseteq 1..Len(rows)
  BY DEF Since
<1> QED
  BY <1>2, <1>3, <1>4

LEMMA PollInit == Init => PollInv
BY BridgeAssumption DEF Init, PollInv, PollTypes, ReplyInv, MissesOnlyLate

LEMMA PollNext == Types /\ PollInv /\ [Next]_vars => PollInv'
<1> SUFFICES ASSUME Types, PollInv, [Next]_vars
             PROVE  PollInv'
  OBVIOUS
<1> USE DEF guardVars, tableVars, pollVars
<1>t. /\ MaxTime \in Nat
      /\ Len(rows) \in Nat
      /\ \A i \in 1..Len(rows) : rows[i].timestamp \in 0..MaxTime
  BY BridgeAssumption, RowTypes
<1>1. ASSUME UNCHANGED <<rows, late, cursor, reply, seen, reach>>
      PROVE  PollInv'
  BY <1>1 DEF PollInv, PollTypes, ReplyInv, MissesOnlyLate, Wanted
<1>2. ASSUME NEW t \in Task, Emit(t)
      PROVE  PollInv'
  <2> DEFINE r == task[t].receipt
             n == Len(rows) + 1
  <2>1. r \in Signed
    <3>1. task[t] \in TaskState /\ task[t].stage = "signed"
      BY <1>2 DEF Emit, Types
    <3> QED
      BY <3>1, TaskStages
  <2>2. rows \in Seq(Signed) /\ late \in Seq(SUBSET Poller) /\ Len(late) = Len(rows)
    BY DEF Types
  <2>3. rows' = Append(rows, r) /\ late' = Append(late, ReadPast(r))
        /\ UNCHANGED <<cursor, reply, seen, reach>>
    BY <1>2 DEF Emit
  <2>4. ReadPast(r) \in SUBSET Poller
    BY DEF ReadPast
  <2>5. /\ Len(rows') = n
        /\ rows'[n] = r /\ late'[n] = ReadPast(r)
        /\ \A i \in 1..Len(rows) : rows'[i] = rows[i] /\ late'[i] = late[i]
    BY <2>1, <2>2, <2>3, <2>4
  <2>6. 1..n = 1..Len(rows) \cup {n}
    BY <1>t
  <2>7. \A p \in Poller : /\ cursor[p] \in 0..MaxTime /\ reach[p] \in 0..MaxTime
                          /\ reply[p] \subseteq 1..Len(rows)
                          /\ cursor[p] <= reach[p]
                          /\ \A j \in reply[p] : rows[j].timestamp <= reach[p]
    BY DEF PollInv, PollTypes, ReplyInv
  <2>8. r.timestamp \in 0..MaxTime
    BY <2>1 DEF Signed
  <2>9. \A p \in Poller : reach[p] >= r.timestamp => p \in late'[n]
    BY <2>5 DEF ReadPast
  <2>10. PollTypes'
    <3>1. 1..Len(rows) \subseteq 1..Len(rows')
      BY <2>5, <2>6
    <3> QED
      BY <2>3, <3>1 DEF PollInv, PollTypes
  <2>11. ReplyInv'
    <3> SUFFICES ASSUME NEW p \in Poller, NEW j \in reply[p], NEW i \in 1..n,
                        Wanted(p, i)', cursor[p] < rows'[i].timestamp,
                        rows'[i].timestamp <= rows'[j].timestamp,
                        i \notin reply[p]
                 PROVE  p \in late'[i]
      BY <2>3, <2>5, <2>7 DEF ReplyInv
    <3>1. j \in 1..Len(rows) /\ rows'[j] = rows[j] /\ rows[j].timestamp <= reach[p]
      BY <2>5, <2>7
    <3>2. CASE i = n
      BY <1>t, <2>5, <2>7, <2>8, <2>9, <3>1, <3>2
    <3>3. CASE i \in 1..Len(rows)
      <4>1. rows'[i] = rows[i] /\ late'[i] = late[i]
        BY <2>5, <3>3
      <4>2. Wanted(p, i)
        BY <4>1 DEF Wanted
      <4> QED
        BY <3>1, <3>3, <4>1, <4>2 DEF PollInv, ReplyInv
    <3> QED
      BY <2>6, <3>2, <3>3
  <2>12. MissesOnlyLate'
    <3> SUFFICES ASSUME NEW p \in Poller, NEW i \in 1..n,
                        Wanted(p, i)', rows'[i].timestamp \in 1..cursor[p],
                        i \notin seen[p]
                 PROVE  p \in late'[i]
      BY <2>3, <2>5 DEF MissesOnlyLate
    <3>1. CASE i = n
      BY <2>5, <2>7, <2>8, <2>9, <3>1
    <3>2. CASE i \in 1..Len(rows)
      <4>1. rows'[i] = rows[i] /\ late'[i] = late[i]
        BY <2>5, <3>2
      <4>2. Wanted(p, i)
        BY <4>1 DEF Wanted
      <4> QED
        BY <3>2, <4>1, <4>2 DEF PollInv, MissesOnlyLate
    <3> QED
      BY <2>6, <3>1, <3>2
  <2> QED
    BY <2>10, <2>11, <2>12 DEF PollInv
<1>3. ASSUME NEW p \in Poller, Poll(p)
      PROVE  PollInv'
  <2>1. /\ reply' = [reply EXCEPT ![p] = Since(p)]
        /\ UNCHANGED <<rows, late, cursor, seen>>
    BY <1>3 DEF Poll
  <2>2. PICK ts \in 0..MaxTime : /\ IsNewest(ts, Since(p), reach[p])
                                 /\ reach' = [reach EXCEPT ![p] = ts]
    BY <1>3 DEF Poll
  <2>3. Since(p) \subseteq 1..Len(rows)
    BY RowTypes
  <2>4. ts >= reach[p] /\ \A i \in Since(p) : rows[i].timestamp <= ts
    BY <1>t, <2>2, <2>3 DEF IsNewest
  <2>5. \A q \in Poller : cursor[q] \in 0..MaxTime /\ reach[q] \in 0..MaxTime
    BY DEF PollInv, PollTypes
  <2>6. PollTypes'
    BY <2>1, <2>2, <2>3 DEF PollInv, PollTypes
  <2>7. ReplyInv'
    <3> SUFFICES ASSUME NEW q \in Poller
                 PROVE  (/\ cursor[q] <= reach[q]
                         /\ \A j \in reply[q] :
                              /\ rows[j].timestamp <= reach[q]
                              /\ \A i \in 1..Len(rows) :
                                   /\ Wanted(q, i)
                                   /\ cursor[q] < rows[i].timestamp
                                   /\ rows[i].timestamp <= rows[j].timestamp
                                   /\ i \notin reply[q]
                                   => q \in late[i])'
      BY DEF ReplyInv
    <3>1. CASE q = p
      <4>1. reply'[q] = Since(q) /\ reach'[q] = ts
        BY <2>1, <2>2, <3>1 DEF PollInv, PollTypes
      <4>2. cursor[q] <= ts
        BY <2>4, <2>5, <3>1 DEF PollInv, ReplyInv
      <4>3. \A i \in 1..Len(rows) :
              Wanted(q, i)' /\ cursor[q] < rows[i].timestamp => i \in Since(q)
        BY <1>t, <2>1, <2>5 DEF Since, Wanted
      <4> QED
        BY <2>1, <2>4, <3>1, <4>1, <4>2, <4>3
    <3>2. CASE q # p
      <4>1. reply'[q] = reply[q] /\ reach'[q] = reach[q]
        BY <2>1, <2>2, <3>2 DEF PollInv, PollTypes
      <4> QED
        BY <2>1, <4>1 DEF PollInv, ReplyInv, Wanted
    <3> QED
      BY <3>1, <3>2
  <2>8. MissesOnlyLate'
    BY <2>1 DEF PollInv, MissesOnlyLate, Wanted
  <2> QED
    BY <2>6, <2>7, <2>8 DEF PollInv
<1>4. ASSUME NEW p \in Poller, PollAnswer(p)
      PROVE  PollInv'
  <2>1. reply' = [reply EXCEPT ![p] = {}] /\ UNCHANGED <<rows, late, reach>>
    BY <1>4 DEF PollAnswer
  <2>2. /\ reply'[p] = {}
        /\ \A q \in Poller : q # p => reply'[q] = reply[q]
    BY <2>1 DEF PollInv, PollTypes
  <2>3. CASE UNCHANGED <<seen, cursor>>
    <3>1. PollTypes'
      BY <2>1, <2>3 DEF PollInv, PollTypes
    <3>2. ReplyInv'
      BY <2>1, <2>2, <2>3 DEF PollInv, ReplyInv, Wanted
    <3>3. MissesOnlyLate'
      BY <2>1, <2>3 DEF PollInv, MissesOnlyLate, Wanted
    <3> QED
      BY <3>1, <3>2, <3>3 DEF PollInv
  <2>4. CASE /\ seen' = [seen EXCEPT ![p] = @ \cup reply[p]]
             /\ \E ts \in 0..MaxTime : /\ IsNewest(ts, reply[p], cursor[p])
                                       /\ cursor' = [cursor EXCEPT ![p] = ts]
    <3>1. PICK ts \in 0..MaxTime : /\ IsNewest(ts, reply[p], cursor[p])
                                   /\ cursor' = [cursor EXCEPT ![p] = ts]
      BY <2>4
    <3>2. /\ reply[p] \subseteq 1..Len(rows) /\ seen[p] \subseteq 1..Len(rows)
          /\ cursor[p] \in 0..MaxTime /\ reach[p] \in 0..MaxTime
          /\ cursor[p] <= reach[p]
          /\ \A j \in reply[p] : rows[j].timestamp <= reach[p]
      BY DEF PollInv, PollTypes, ReplyInv
    <3>3. /\ cursor'[p] = ts /\ seen'[p] = seen[p] \cup reply[p]
          /\ \A q \in Poller : q # p => cursor'[q] = cursor[q] /\ seen'[q] = seen[q]
      BY <2>4, <3>1 DEF PollInv, PollTypes
    <3>4. ts = cursor[p] \/ \E j \in reply[p] : ts = rows[j].timestamp
      BY <3>1 DEF IsNewest
    <3>5. PollTypes'
      BY <2>1, <2>4, <3>1, <3>2 DEF PollInv, PollTypes
    <3>6. ReplyInv'
      <4> SUFFICES ASSUME NEW q \in Poller
                   PROVE  (/\ cursor[q] <= reach[q]
                           /\ \A j \in reply[q] :
                                /\ rows[j].timestamp <= reach[q]
                                /\ \A i \in 1..Len(rows) :
                                     /\ Wanted(q, i)
                                     /\ cursor[q] < rows[i].timestamp
                                     /\ rows[i].timestamp <= rows[j].timestamp
                                     /\ i \notin reply[q]
                                     => q \in late[i])'
        BY DEF ReplyInv
      <4>1. CASE q = p
        BY <2>1, <2>2, <3>2, <3>3, <3>4, <4>1
      <4>2. CASE q # p
        BY <2>1, <2>2, <3>3, <4>2 DEF PollInv, ReplyInv, Wanted
      <4> QED
        BY <4>1, <4>2
    <3>7. MissesOnlyLate'
      <4> SUFFICES ASSUME NEW q \in Poller, NEW i \in 1..Len(rows),
                          Wanted(q, i), rows[i].timestamp \in 1..cursor'[q],
                          i \notin seen'[q]
                   PROVE  q \in late[i]
        BY <2>1 DEF MissesOnlyLate, Wanted
      <4>1. CASE q # p
        BY <3>3, <4>1 DEF PollInv, MissesOnlyLate
      <4>2. CASE q = p /\ rows[i].timestamp <= cursor[p]
        <5>1. rows[i].timestamp \in 1..cursor[p]
          BY <1>t, <3>2, <4>2
        <5> QED
          BY <3>3, <4>2, <5>1 DEF PollInv, MissesOnlyLate
      <4>3. CASE q = p /\ ~(rows[i].timestamp <= cursor[p])
        <5>1. cursor[p] < rows[i].timestamp /\ rows[i].timestamp <= ts
          BY <1>t, <3>2, <3>3, <4>3
        <5>2. PICK j \in reply[p] : ts = rows[j].timestamp
          BY <1>t, <3>2, <3>4, <5>1
        <5> QED
          BY <3>3, <4>3, <5>1, <5>2 DEF PollInv, ReplyInv
      <4> QED
        BY <4>1, <4>2, <4>3
    <3> QED
      BY <3>5, <3>6, <3>7 DEF PollInv
  <2> QED
    BY <1>4, <2>3, <2>4 DEF PollAnswer
<1>5. ASSUME Crash
      PROVE  PollInv'
  <2>1. /\ UNCHANGED <<rows, late, cursor, seen, reach>>
        /\ reply' = [q \in Poller |-> {}]
    BY <1>5 DEF Crash
  <2> QED
    BY <2>1 DEF PollInv, PollTypes, ReplyInv, MissesOnlyLate, Wanted
<1>6. ASSUME NEW t \in Task, Handle(t)
      PROVE  PollInv'
  <2>1. Emit(t) \/ UNCHANGED <<rows, late, cursor, reply, seen, reach>>
    BY <1>6 DEF Handle, LoadSeed, LoadTorn, CreateSeed, WriteSeed, WriteFails, GenerateSeed,
                Sign, EmitFails, Answer
  <2> QED
    BY <1>1, <1>2, <2>1
<1>7. ASSUME NEW t \in Task, NEW req \in Request, Accept(t, req)
      PROVE  PollInv'
  BY <1>1, <1>7 DEF Accept
<1>8. ASSUME ClockChange \/ UNCHANGED vars
      PROVE  PollInv'
  BY <1>1, <1>8 DEF ClockChange, vars
<1> QED
  BY <1>3, <1>4, <1>5, <1>6, <1>7, <1>8 DEF Next

\* A poller misses only receipts inserted after its reads had gone past their
\* timestamps, for any number of pollers, tasks and crashes.
THEOREM MissesOnlyLateHolds == Spec => []MissesOnlyLate
<1>1. Init => Types /\ PollInv
  BY TypesInit, PollInit
<1>2. Types /\ PollInv /\ [Next]_vars => (Types /\ PollInv)'
  BY TypesNext, PollNext
<1>3. PollInv => MissesOnlyLate
  BY DEF PollInv
<1> QED
  BY <1>1, <1>2, <1>3, PTL DEF Spec

-----------------------------------------------------------------------------
(* Acknowledged receipts *)

\* No two of the tasks, the table and the future share an identifier, a signed
\* receipt is not in the table yet and a persistent one is there before the
\* answer.
DurableInv ==
  /\ \A t \in Task : Holds(t) => task[t].receipt.id <= drawn
  /\ \A i \in 1..Len(rows) : rows[i].id <= drawn
  /\ \A t, u \in Task :
       Holds(t) /\ Holds(u) /\ task[t].receipt.id = task[u].receipt.id => t = u
  /\ \A t \in Task : task[t].stage = "signed" =>
       \A i \in 1..Len(rows) : rows[i].id # task[t].receipt.id
  /\ \A t \in Task :
       task[t].stage = "answering" /\ task[t].receipt.req.route \in Persistent
         => task[t].receipt \in InTable
  /\ AcknowledgedPersists

LEMMA DurableInit == Init => DurableInv
BY DEF Init, DurableInv, Holds, AcknowledgedPersists, Idle

LEMMA DurableNext == Types /\ DurableInv /\ [Next]_vars => DurableInv'
<1> SUFFICES ASSUME Types, DurableInv, [Next]_vars
             PROVE  DurableInv'
  OBVIOUS
<1> USE DEF guardVars, tableVars, pollVars
<1>t. task \in [Task -> TaskState] /\ drawn \in Nat
  BY BridgeAssumption DEF Types
<1>i. Idle.stage = "idle"
  BY DEF Idle
\* A task that holds no receipt after the step; nobody else changes.
<1>q. ASSUME NEW t \in Task, NEW state, Become(t, state),
             state.stage \notin {"signed", "answering"},
             UNCHANGED <<rows, drawn, answered>>
      PROVE  DurableInv'
  <2>1. /\ task'[t] = state
        /\ \A u \in Task : u # t => task'[u] = task[u]
    BY <1>q, <1>t DEF Become
  <2>2. \A u \in Task : task'[u].stage \in {"signed", "answering"} => task'[u] = task[u]
    BY <1>q, <2>1
  <2>3. InTable' = InTable /\ AcknowledgedPersists'
    BY <1>q DEF DurableInv, AcknowledgedPersists, InTable
  <2>4. \A u \in Task : Holds(u)' => Holds(u) /\ task'[u] = task[u]
    BY <2>2 DEF Holds
  <2> QED
    BY <1>q, <2>2, <2>3, <2>4 DEF DurableInv
<1>1. ASSUME UNCHANGED <<rows, task, drawn, answered>>
      PROVE  DurableInv'
  BY <1>1 DEF DurableInv, Holds, InTable, AcknowledgedPersists
<1>2. ASSUME NEW t \in Task, Sign(t)
      PROVE  DurableInv'
  <2> DEFINE new == task'[t]
  <2>1. /\ new.stage = IF task[t].req.route \in Persistent THEN "signed" ELSE "answering"
        /\ new.receipt.id = drawn + 1
        /\ new.receipt.req = task[t].req
        /\ \A u \in Task : u # t => task'[u] = task[u]
    BY <1>2, <1>t DEF Sign, Become
  <2>2. drawn' = drawn + 1 /\ UNCHANGED <<rows, answered>>
    BY <1>2 DEF Sign
  <2>3. \A u \in Task : Holds(u)' /\ u # t => Holds(u) /\ task'[u] = task[u]
    BY <2>1 DEF Holds
  <2>4. \A u \in Task : Holds(u) => task[u].receipt.id \in Nat /\ task[u].receipt.id <= drawn
    <3> SUFFICES ASSUME NEW u \in Task, Holds(u)
                 PROVE  task[u].receipt.id \in Nat /\ task[u].receipt.id <= drawn
      OBVIOUS
    <3>1. task[u] \in TaskState
      BY <1>t
    <3>2. task[u].receipt \in Signed
      BY <3>1, TaskStages DEF Holds
    <3>3. task[u].receipt.id \in Nat
      BY <3>2 DEF Signed
    <3> QED
      BY <3>3 DEF DurableInv
  <2>5. \A i \in 1..Len(rows) : rows[i].id \in Nat /\ rows[i].id <= drawn
    <3>1. \A i \in 1..Len(rows) : rows[i] \in Signed
      BY RowTypes
    <3>2. \A r \in Signed : r.id \in Nat
      BY DEF Signed
    <3> QED
      BY <3>1, <3>2 DEF DurableInv
  <2>6. InTable' = InTable /\ AcknowledgedPersists'
    BY <2>2 DEF DurableInv, AcknowledgedPersists, InTable
  <2>7. \A u \in Task : Holds(u)' => task'[u].receipt.id <= drawn'
    BY <1>t, <2>1, <2>2, <2>3, <2>4
  <2>8. \A i \in 1..Len(rows') : rows'[i].id <= drawn'
    BY <1>t, <2>2, <2>5
  <2>9. ASSUME NEW u \in Task, NEW v \in Task, Holds(u)', Holds(v)',
               task'[u].receipt.id = task'[v].receipt.id
        PROVE  u = v
    BY <1>t, <2>1, <2>3, <2>4, <2>9 DEF DurableInv
  <2>10. \A u \in Task : task'[u].stage = "signed" =>
           \A i \in 1..Len(rows') : rows'[i].id # task'[u].receipt.id
    BY <1>t, <2>1, <2>2, <2>5 DEF DurableInv
  <2>11. \A u \in Task :
           task'[u].stage = "answering" /\ task'[u].receipt.req.route \in Persistent
             => task'[u].receipt \in InTable'
    BY <2>1, <2>6 DEF DurableInv
  <2> QED
    BY <2>6, <2>7, <2>8, <2>9, <2>10, <2>11 DEF DurableInv
<1>3. ASSUME NEW t \in Task, Emit(t)
      PROVE  DurableInv'
  <2> DEFINE r == task[t].receipt
             n == Len(rows) + 1
  <2>1. task[t] \in TaskState /\ task[t].stage = "signed" /\ Holds(t)
    BY <1>3, <1>t DEF Emit, Holds
  <2>2. r \in Signed /\ rows \in Seq(Signed)
    BY <2>1, TaskStages DEF Types
  <2>3. rows' = Append(rows, r) /\ UNCHANGED <<drawn, answered>>
    BY <1>3 DEF Emit
  <2>4. /\ Len(rows') = n /\ rows'[n] = r
        /\ \A i \in 1..Len(rows) : rows'[i] = rows[i]
        /\ 1..n = 1..Len(rows) \cup {n}
        /\ n \notin 1..Len(rows)
    BY <2>2, <2>3
  <2>5. InTable' = InTable \cup {r}
    BY <2>4 DEF InTable
  <2>6. /\ task'[t] = [stage |-> "answering", receipt |-> r]
        /\ \A u \in Task : u # t => task'[u] = task[u]
    BY <1>3, <1>t DEF Emit, Become
  <2>7. \A u \in Task : Holds(u)' => Holds(u) /\ task'[u].receipt = task[u].receipt
    BY <2>1, <2>6 DEF Holds
  <2>8. \A i \in 1..Len(rows) : rows[i].id # r.id
    BY <2>1 DEF DurableInv
  <2>9. \A i \in 1..Len(rows') : rows'[i].id <= drawn'
    BY <2>1, <2>3, <2>4 DEF DurableInv
  <2>10. ASSUME NEW u \in Task, task'[u].stage = "signed",
                NEW i \in 1..Len(rows'), rows'[i].id = task'[u].receipt.id
         PROVE  FALSE
    <3>1. u # t /\ task'[u] = task[u] /\ Holds(u)
      BY <2>6, <2>10 DEF Holds
    <3>2. CASE i = n
      BY <2>1, <2>4, <2>10, <3>1, <3>2 DEF DurableInv
    <3>3. CASE i \in 1..Len(rows)
      BY <2>4, <2>10, <3>1, <3>3 DEF DurableInv
    <3> QED
      BY <2>4, <3>2, <3>3
  <2>11. \A u \in Task :
           task'[u].stage = "answering" /\ task'[u].receipt.req.route \in Persistent
             => task'[u].receipt \in InTable'
    BY <2>5, <2>6 DEF DurableInv
  <2>12. AcknowledgedPersists'
    <3>1. ASSUME NEW i \in 1..n, NEW j \in 1..n, rows'[i].id = rows'[j].id
          PROVE  i = j
      <4>1. CASE i = n /\ j = n
        BY <4>1
      <4>2. CASE i \in 1..Len(rows) /\ j = n
        BY <2>4, <2>8, <3>1, <4>2
      <4>3. CASE i = n /\ j \in 1..Len(rows)
        BY <2>4, <2>8, <3>1, <4>3
      <4>4. CASE i \in 1..Len(rows) /\ j \in 1..Len(rows)
        BY <2>4, <3>1, <4>4 DEF DurableInv, AcknowledgedPersists
      <4> QED
        BY <2>4, <4>1, <4>2, <4>3, <4>4
    <3> QED
      BY <2>3, <2>4, <2>5, <3>1 DEF DurableInv, AcknowledgedPersists
  <2>13. /\ \A u \in Task : Holds(u)' => task'[u].receipt.id <= drawn'
         /\ \A u, v \in Task :
              Holds(u)' /\ Holds(v)' /\ task'[u].receipt.id = task'[v].receipt.id => u = v
    BY <2>3, <2>7 DEF DurableInv
  <2> QED
    BY <2>9, <2>10, <2>11, <2>12, <2>13 DEF DurableInv
<1>4. ASSUME NEW t \in Task, Answer(t)
      PROVE  DurableInv'
  <2>1. task[t].stage = "answering" /\ Become(t, Idle) /\ UNCHANGED <<rows, drawn>>
        /\ answered' \in {answered, answered \cup {task[t].receipt}}
    BY <1>4 DEF Answer
  <2>2. /\ task'[t] = Idle
        /\ \A u \in Task : u # t => task'[u] = task[u]
    BY <1>t, <2>1 DEF Become
  <2>3. \A u \in Task : task'[u].stage \in {"signed", "answering"} => task'[u] = task[u]
    BY <1>i, <2>2
  <2>4. \A u \in Task : Holds(u)' => Holds(u) /\ task'[u] = task[u]
    BY <2>3 DEF Holds
  <2>5. InTable' = InTable /\ AcknowledgedPersists'
    BY <2>1 DEF DurableInv, AcknowledgedPersists, InTable
  <2> QED
    BY <2>1, <2>3, <2>4, <2>5 DEF DurableInv
<1>5. ASSUME Crash
      PROVE  DurableInv'
  <2>1. (\A u \in Task : task'[u] = Idle) /\ UNCHANGED <<rows, drawn, answered>>
    BY <1>5 DEF Crash
  <2> QED
    BY <1>i, <2>1 DEF DurableInv, Holds, InTable, AcknowledgedPersists
<1>6. ASSUME NEW t \in Task, Handle(t)
      PROVE  DurableInv'
  <2>1. CASE LoadSeed(t)
    BY <1>1, <2>1 DEF LoadSeed
  <2>c. CASE CreateSeed(t)
    BY <1>q, <2>c DEF CreateSeed
  <2>2. CASE LoadTorn(t) \/ WriteFails(t) \/ EmitFails(t)
    BY <1>i, <1>q, <2>2 DEF LoadTorn, WriteFails, EmitFails
  <2>3. CASE WriteSeed(t)
    BY <1>q, <2>3 DEF WriteSeed
  <2>4. CASE \E key \in Key : GenerateSeed(t, key)
    BY <1>q, <2>4 DEF GenerateSeed
  <2> QED
    BY <1>2, <1>3, <1>4, <1>6, <2>1, <2>c, <2>2, <2>3, <2>4 DEF Handle
<1>7. ASSUME NEW t \in Task, NEW req \in Request, Accept(t, req)
      PROVE  DurableInv'
  BY <1>7, <1>q DEF Accept
<1>8. ASSUME ClockChange \/ UNCHANGED vars \/ \E p \in Poller : Poll(p) \/ PollAnswer(p)
      PROVE  DurableInv'
  BY <1>1, <1>8 DEF ClockChange, vars, Poll, PollAnswer
<1> QED
  BY <1>5, <1>6, <1>7, <1>8 DEF Next

\* A receipt whose 200 a client has seen is in the table and stays there, and
\* the primary key never collides.
THEOREM AcknowledgedPersistsHolds == Spec => []AcknowledgedPersists
<1>1. Init => Types /\ DurableInv
  BY TypesInit, DurableInit
<1>2. Types /\ DurableInv /\ [Next]_vars => (Types /\ DurableInv)'
  BY TypesNext, DurableNext
<1>3. DurableInv => AcknowledgedPersists
  BY DEF DurableInv
<1> QED
  BY <1>1, <1>2, <1>3, PTL DEF Spec

-----------------------------------------------------------------------------
(* All variables keep their types *)

LEMMA CrashesNext == crashes \in 0..MaxCrashes /\ [Next]_vars => crashes' \in 0..MaxCrashes
<1> SUFFICES ASSUME crashes \in 0..MaxCrashes, [Next]_vars
             PROVE  crashes' \in 0..MaxCrashes
  OBVIOUS
<1>1. ASSUME NEW t \in Task, Handle(t)
      PROVE  crashes' = crashes
  BY <1>1 DEF Handle, LoadSeed, LoadTorn, CreateSeed, WriteSeed, WriteFails, GenerateSeed, Sign,
              Emit, EmitFails, Answer
<1>2. crashes' = crashes \/ Crash
  BY <1>1 DEF Next, Accept, Poll, PollAnswer, ClockChange, vars
<1> QED
  BY <1>2, BridgeAssumption DEF Crash

\* The seed file, the table, the tasks and the pollers' cursors keep their
\* types through crashes and failed writes.
THEOREM TypeCorrect == Spec => []TypeOK
<1>1. Init => Types /\ PollInv /\ crashes \in 0..MaxCrashes
  BY TypesInit, PollInit, BridgeAssumption DEF Init
<1>2. Types /\ PollInv /\ crashes \in 0..MaxCrashes /\ [Next]_vars
        => (Types /\ PollInv /\ crashes \in 0..MaxCrashes)'
  BY TypesNext, PollNext, CrashesNext
<1>3. Types /\ PollInv /\ crashes \in 0..MaxCrashes => TypeOK
  BY DEF Types, PollInv, PollTypes, TypeOK
<1> QED
  BY <1>1, <1>2, <1>3, PTL DEF Spec

-----------------------------------------------------------------------------
(* Verdicts *)

\* Without rules the severity decides.
LEMMA NoRules ==
  ASSUME NEW report
  PROVE  L!DetermineAction(report).action = L!SeverityAction(report)
<1>1. {i \in 1..Len(<<>>) : L!RuleMatches(<<>>[i], report)} = {}
  OBVIOUS
<1> QED
  BY <1>1 DEF L!DetermineAction

\* On the documented words the two parsers agree.
LEMMA SameWords ==
  ASSUME NEW i \in 1..4, NEW type \in Kinds
  PROVE  /\ ServerSeverity(Word(Severities[i])) = i - 1
         /\ HttpSeverity(Word(Severities[i])) = i - 1
         /\ ServerType(Word(type)) = type
         /\ HttpType(Word(type)) = type
<1>1. /\ Severities[1] = "observational" /\ Severities[2] = "warning"
      /\ Severities[3] = "critical" /\ Severities[4] = "catastrophic"
  BY DEF Severities
<1>a. \A v, w : Word(v) = Word(w) => v = w
  BY DEF Word
<1>b. \A w : Word(w).text = w
  BY DEF Word
<1>2. /\ ServerSeverity(Word(Severities[i])) = i - 1
      /\ HttpSeverity(Word(Severities[i])) = i - 1
  <2> USE DEF ServerSeverity, HttpSeverity, L!Observational, L!Warning, L!Critical, L!Catastrophic
  <2>1. CASE i = 1
    BY <1>1, <1>a, <1>b, <2>1
  <2>2. CASE i = 2
    BY <1>1, <1>a, <1>b, <2>2
  <2>3. CASE i = 3
    BY <1>1, <1>a, <1>b, <2>3
  <2>4. CASE i = 4
    BY <1>1, <1>a, <1>b, <2>4
  <2> QED
    BY <2>1, <2>2, <2>3, <2>4
<1>3. /\ ServerType(Word(type)) = type
      /\ HttpType(Word(type)) = type
  BY DEF ServerType, HttpType, Word, Kinds
<1> QED
  BY <1>2, <1>3

\* What the ladder without rules answers, and who gates it.
Gated(i, type) ==
  \/ i = 4
  \/ i = 3 /\ type \in {"concurrency_conflict", "economic_anomaly"}

KindOf(i, type) == L!SeverityAction(Report(i - 1, type)).kind

LEMMA Verdict ==
  ASSUME NEW i \in 1..4, NEW type \in Kinds
  PROVE  /\ KindOf(i, type) \in {"observe", "flag_for_review", "quarantine_state",
                               "rollback_transition", "emergency_halt"}
         /\ Blocks(KindOf(i, type)) <=> Gated(i, type)
<1> DEFINE report == Report(i - 1, type)
<1>1. report.severity = i - 1 /\ report.classification.type = type
  BY DEF Report
<1>2. KindOf(i, type) = L!SeverityAction(report).kind
  BY DEF KindOf
<1> HIDE DEF report
<1>a. \A s, c : L!QuarantineState(s, c).kind = "quarantine_state"
  BY DEF L!QuarantineState
<1> USE DEF L!Observational, L!Warning, L!Critical, L!Catastrophic
<1>3. CASE i = 1
  <2>1. L!SeverityAction(report) = L!Observe
    BY <1>1, <1>3 DEF L!SeverityAction
  <2>2. KindOf(i, type) = "observe"
    BY <1>2, <2>1 DEF L!Observe
  <2> QED
    BY <1>3, <2>2 DEF Blocks, Gated
<1>4. CASE i = 2
  <2>1. L!SeverityAction(report) = L!FlagForReview({"obatala"})
    BY <1>1, <1>4 DEF L!SeverityAction
  <2>2. KindOf(i, type) = "flag_for_review"
    BY <1>2, <2>1 DEF L!FlagForReview
  <2> QED
    BY <1>4, <2>2 DEF Blocks, Gated
<1>5. CASE i = 3 /\ type = "concurrency_conflict"
  <2>1. L!SeverityAction(report)
          = L!QuarantineState("branch unknown", L!ApprovalOf({"yemoja", "esu"}))
    BY <1>1, <1>5 DEF L!SeverityAction
  <2>2. KindOf(i, type) = "quarantine_state"
    BY <1>a, <1>2, <2>1
  <2> QED
    BY <1>5, <2>2 DEF Blocks, Gated
<1>6. CASE i = 3 /\ type = "economic_anomaly"
  <2>1. L!SeverityAction(report) = L!RollbackTransition("state_before")
    BY <1>1, <1>6 DEF L!SeverityAction
  <2>2. KindOf(i, type) = "rollback_transition"
    BY <1>2, <2>1 DEF L!RollbackTransition
  <2> QED
    BY <1>6, <2>2 DEF Blocks, Gated
<1>7. CASE i = 3 /\ type \notin {"concurrency_conflict", "economic_anomaly"}
  <2>1. L!SeverityAction(report) = L!FlagForReview({"esu"})
    <3>1. /\ report.severity = 2
          /\ report.classification.type # "concurrency_conflict"
          /\ report.classification.type # "economic_anomaly"
      BY <1>1, <1>7
    <3>2. 2 # 0 /\ 2 # 1 /\ 2 # 3
      OBVIOUS
    <3> QED
      BY <3>1, <3>2, Zenon DEF L!SeverityAction
  <2>2. KindOf(i, type) = "flag_for_review"
    BY <1>2, <2>1 DEF L!FlagForReview
  <2> QED
    BY <1>7, <2>2 DEF Blocks, Gated
<1>8. CASE i = 4
  <2>1. L!SeverityAction(report)
          = L!EmergencyHalt("global", {"esu", "obatala", "sango"}, "reconciled")
    BY <1>1, <1>8 DEF L!SeverityAction
  <2>2. KindOf(i, type) = "emergency_halt"
    BY <1>2, <2>1 DEF L!EmergencyHalt
  <2>3. Blocks("emergency_halt")
    BY DEF Blocks
  <2> QED
    BY <1>8, <2>2, <2>3 DEF Gated
<1>9. \/ i = 1 \/ i = 2 \/ i = 4
      \/ i = 3 /\ type = "concurrency_conflict"
      \/ i = 3 /\ type = "economic_anomaly"
      \/ i = 3 /\ type \notin {"concurrency_conflict", "economic_anomaly"}
  <2>1. i = 1 \/ i = 2 \/ i = 3 \/ i = 4
    BY SMT
  <2> QED
    BY <2>1, Zenon
<1> QED
  BY <1>3, <1>4, <1>5, <1>6, <1>7, <1>8, <1>9, Zenon

\* The boolean that http.rs gives an action is the one server.rs gives it.
LEMMA Keywords ==
  ASSUME NEW kind \in {"observe", "flag_for_review", "quarantine_state",
                      "rollback_transition", "emergency_halt"}
  PROVE  Blocks(kind) <=> ActionVerdict(kind).blocking
<1>1. CASE kind = "observe"
  <2>1. ActionVerdict("observe") = [action |-> "observe", blocking |-> FALSE]
    BY DEF ActionVerdict
  <2>2. ~ Blocks(kind)
    BY <1>1 DEF Blocks
  <2> QED
    BY <1>1, <2>1, <2>2
<1>2. CASE kind = "flag_for_review"
  <2>1. ActionVerdict("flag_for_review") = [action |-> "review", blocking |-> FALSE]
    BY DEF ActionVerdict
  <2>2. ~ Blocks(kind)
    BY <1>2 DEF Blocks
  <2> QED
    BY <1>2, <2>1, <2>2
<1>3. CASE kind = "quarantine_state"
  <2>1. ActionVerdict("quarantine_state") = [action |-> "quarantine", blocking |-> TRUE]
    BY DEF ActionVerdict
  <2>2. Blocks(kind)
    BY <1>3 DEF Blocks
  <2> QED
    BY <1>3, <2>1, <2>2
<1>4. CASE kind = "rollback_transition"
  <2>1. ActionVerdict("rollback_transition") = [action |-> "block", blocking |-> TRUE]
    BY DEF ActionVerdict
  <2>2. Blocks(kind)
    BY <1>4 DEF Blocks
  <2> QED
    BY <1>4, <2>1, <2>2
<1>5. CASE kind = "emergency_halt"
  <2>1. ActionVerdict("emergency_halt") = [action |-> "halt", blocking |-> TRUE]
    BY DEF ActionVerdict
  <2>2. Blocks(kind)
    BY <1>5 DEF Blocks
  <2> QED
    BY <1>5, <2>1, <2>2
<1> QED
  BY <1>1, <1>2, <1>3, <1>4, <1>5

\* Whatever word is written for the kind, each bridge reads a documented one.
LEMMA TypesRead ==
  ASSUME NEW word
  PROVE  ServerType(word) \in Kinds /\ HttpType(word) \in Kinds
BY DEF ServerType, HttpType, Kinds

\* What a documented severity and any word for the kind come to.
LEMMA GatesIs ==
  ASSUME NEW i \in 1..4, NEW word
  PROVE  /\ Gates("server", Word(Severities[i]), word) <=> Gated(i, ServerType(word))
         /\ Gates("http", Word(Severities[i]), word) <=> Gated(i, HttpType(word))
<1>1. "schema_drift" \in Kinds
  BY DEF Kinds
<1>2. /\ ServerSeverity(Word(Severities[i])) = i - 1
      /\ HttpSeverity(Word(Severities[i])) = i - 1
  BY <1>1, SameWords
<1>3. /\ ServerVerdict(Word(Severities[i]), word).block = Blocks(KindOf(i, ServerType(word)))
      /\ HttpVerdict(Word(Severities[i]), word) = ActionVerdict(KindOf(i, HttpType(word)))
  BY <1>2, NoRules DEF ServerVerdict, HttpVerdict, KindOf
<1>4. Blocks(KindOf(i, ServerType(word))) <=> Gated(i, ServerType(word))
  BY TypesRead, Verdict
<1>5. ActionVerdict(KindOf(i, HttpType(word))).blocking <=> Gated(i, HttpType(word))
  BY TypesRead, Verdict, Keywords
<1> QED
  BY <1>3, <1>4, <1>5 DEF Gates

\* A higher severity of the same kind is not gated less.
LEMMA GatedEscalates ==
  ASSUME NEW i \in 1..4, NEW j \in 1..4, i <= j, NEW type, Gated(i, type)
  PROVE  Gated(j, type)
BY DEF Gated

\* The routes with words of their own.
LEMMA OwnWords ==
  /\ ServerReview.block = Gates("server", Word("warning"), Word("capability_escape"))
  /\ CanaryVerdict.block = Gates("server", Word("critical"), Word("capability_escape"))
  /\ HttpReview.blocking = Gates("http", Word("warning"), Word("capability_escape"))
<1>1. "capability_escape" \in Kinds /\ Severities[2] = "warning"
  BY DEF Kinds, Severities
<1>2. /\ HttpSeverity(Word("warning")) = 1
      /\ HttpType(Word("capability_escape")) = "capability_escape"
  BY <1>1, SameWords
<1>3. HttpVerdict(Word("warning"), Word("capability_escape")) = HttpReview
  BY <1>2 DEF HttpVerdict, HttpReview, L!Warning
<1> QED
  BY <1>3 DEF Gates, ServerReview, CanaryVerdict

\* Every verdict a client holds is the bridge's on its words.
Given ==
  \A v \in verdicts : /\ v.bridge \in {"server", "http"}
                     /\ v.gates = Gates(v.bridge, v.severity, v.classification)

LEMMA GivenNext == Given /\ [VerdictNext]_verdicts => Given'
<1> SUFFICES ASSUME Given, [VerdictNext]_verdicts
             PROVE  Given'
  OBVIOUS
<1>1. ASSUME NEW bridge \in {"server", "http"}, NEW s, NEW c,
             Told(bridge, s, c, Gates(bridge, s, c))
      PROVE  Given'
  <2> DEFINE new == [bridge |-> bridge, severity |-> s, classification |-> c,
                     gates |-> Gates(bridge, s, c)]
  <2>1. verdicts' = verdicts \cup {new}
    BY <1>1 DEF Told
  <2>2. /\ new.bridge \in {"server", "http"}
        /\ new.gates = Gates(new.bridge, new.severity, new.classification)
    OBVIOUS
  <2> HIDE DEF new
  <2> QED
    BY <2>1, <2>2 DEF Given
<1>2. CASE UNCHANGED verdicts
  BY <1>2 DEF Given
<1>3. CASE Review
  BY <1>1, <1>3, OwnWords DEF Review
<1>4. CASE CanaryTrip
  BY <1>1, <1>4, OwnWords DEF CanaryTrip
<1>5. ASSUME NEW bridge \in {"server", "http"}, NEW s \in SeverityWord, NEW c \in KindWord,
             Enforce(bridge, s, c)
      PROVE  Given'
  BY <1>1, <1>5 DEF Enforce
<1> QED
  BY <1>2, <1>3, <1>4, <1>5 DEF VerdictNext

\* Whatever words clients write, known or not: a report repeated at the same
\* documented severity or a higher one is not gated less, by either bridge for
\* the documented kinds and by the same bridge for any.
THEOREM VerdictsAgreeHolds == VerdictSpec => []VerdictsAgree
<1>1. Given => VerdictsAgree
  <2> SUFFICES ASSUME Given, NEW v \in verdicts, NEW w \in verdicts,
                      NEW i \in 1..4, NEW j \in 1..4,
                      v.severity = Word(Severities[i]), w.severity = Word(Severities[j]),
                      i <= j, v.classification = w.classification,
                      v.bridge = w.bridge \/ Documented(v.classification),
                      v.gates
               PROVE  w.gates
    BY DEF VerdictsAgree
  <2> DEFINE word == v.classification
             Type(bridge) == IF bridge = "server" THEN ServerType(word) ELSE HttpType(word)
  <2>1. \A x \in {v, w} : /\ x.bridge \in {"server", "http"}
                         /\ x.gates = Gates(x.bridge, x.severity, word)
    BY DEF Given
  <2>2. Gated(i, Type(v.bridge))
    BY <2>1, GatesIs
  <2>3. Type(v.bridge) = Type(w.bridge)
    <3>1. ASSUME Documented(word)
          PROVE  ServerType(word) = HttpType(word)
      <4>1. PICK type \in Kinds : word = Word(type)
        BY <3>1 DEF Documented
      <4> QED
        BY <4>1, SameWords
    <3> QED
      BY <3>1
  <2>4. Gated(j, Type(w.bridge))
    BY <2>2, <2>3, GatedEscalates
  <2> QED
    BY <2>1, <2>4, GatesIs
<1>2. VerdictInit => Given
  BY DEF VerdictInit, Given
<1> QED
  BY <1>1, <1>2, GivenNext, PTL DEF VerdictSpec
=============================================================================
