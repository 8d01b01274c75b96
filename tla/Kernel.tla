------------------------------ MODULE Kernel ------------------------------
(***************************************************************************)
(* omo-kernel, as its callers reach it: the transition engine              *)
(* (kernel/engine.rs), diffs applied by a caller and audited by            *)
(* ZangbetoAuditor (audit/zangbeto.rs), the branch DAG (branching/mod.rs), *)
(* capability tokens (capability/mod.rs) and RealityVM::execute (lib.rs),  *)
(* which strings them together.  Every method takes &mut self, so one call *)
(* is one step; what varies is the order of the calls, and the states,     *)
(* diffs and tokens they are given, which callers keep and reuse at will.  *)
(***************************************************************************)
EXTENDS StateDiffs

CONSTANTS Peers,     \* nodes whose memory vector a context may carry
          Forecasts, \* reasons a caller may fork for
          Roots,     \* the tokens issued by the system
          Opcodes,   \* opcodes a token may name, "*" among them
          Texts,     \* paths a caller names itself, cut into pieces of text
          DeniablePaths,  \* paths a token may deny, cut likewise
          MaxCalls   \* bound on the calls of a behaviour

ASSUME CallsAssumption == MaxCalls \in Nat
(* Calls number the tokens they make from 1, so the roots' ids are below.  *)
ASSUME RootsAssumption ==
    /\ \A r \in Roots : /\ r.id \in Int /\ r.id <= 0 /\ r.chain = <<>>
                        /\ r.denied \subseteq DeniablePaths
    /\ \A r, q \in Roots : r.id = q.id => r = q

VARIABLES states,    \* the states callers hold
          returned,  \* those a transition returned: a history variable
          history,   \* ZangbetoAuditor::history
          branches,  \* RealityDAG::branches
          tip,       \* RealityDAG::mainline_tip
          index,     \* RealityDAG::branch_index, a sequence of ids per head
          tokens,    \* the tokens agents hold
          peers,     \* MemoryConsensusProtocol::peer_vectors
          diverged,  \* the score of the local vector is above zero
          localHash, \* the memory hash of the local vector
          calls      \* calls made; numbers tasks and tokens (fresh UUIDs)

vars == <<states, returned, history, branches, tip, index, tokens, peers, diverged,
          localHash, calls>>
dag == <<branches, tip, index>>
memory == <<peers, diverged, localHash>>

\* A map with a value put under a key.
Inserted(map, key, value) ==
    [k \in DOMAIN map \cup {key} |-> IF k = key THEN value ELSE map[k]]

Counted == calls < MaxCalls /\ calls' = calls + 1

-----------------------------------------------------------------------------
(***************************************************************************)
(* Capability tokens.  `allowed` maps each opcode the token names to       *)
(* whether it needs a blessing.  A path is text, and a denied path one it  *)
(* begins with; here it is cut into pieces wherever a denied path may end. *)
(***************************************************************************)
AddTaskOp == [opcode |-> "add_task"]
UpdateMemoryOps == [opcode : {"update_memory"}, scope : {"public", "private", "ephemeral"}]
Operations ==
    {AddTaskOp} \cup UpdateMemoryOps \cup [opcode : {"bless_path", "seal_data"}, path : Texts]

(* The scope goes into the path by its Rust name, not by the one it has in *)
(* JSON.                                                                   *)
Printed == [public |-> "Public", private |-> "Private", ephemeral |-> "Ephemeral"]

(* target_path: only these two operations have one; an operation that      *)
(* seals data has a path, but not one that is asked for.                   *)
TargetPaths(op) ==
    CASE op.opcode = "update_memory" -> {<<"/memory/", Printed[op.scope], "/key">>}
      [] op.opcode = "bless_path" -> {op.path}
      [] OTHER -> {}

Denies(token, op) ==
    \E path \in TargetPaths(op), p \in token.denied : IsPrefix(p, path)

Permits(token, op, now) ==
    LET name == IF op.opcode \in DOMAIN token.allowed THEN op.opcode ELSE "*"
    IN  IF \/ now > token.expiry
           \/ name \notin DOMAIN token.allowed
           \/ Denies(token, op)
        THEN "denied"
        ELSE IF token.allowed[name] THEN "conditional" ELSE "permitted"

\* Mutant: the child takes the restriction's denied paths for its own.
DelegatedAfresh(token, id, allowed, extra, expiry) ==
    [id |-> id, allowed |-> allowed, denied |-> extra, expiry |-> expiry,
     chain |-> Append(token.chain, token.id)]

(* delegate: a restriction replaces the operations and the expiry, denied  *)
(* paths are added to the parent's, the chain grows by the parent.         *)
Delegated(token, id, allowed, extra, expiry) ==
    [id |-> id, allowed |-> allowed, denied |-> token.denied \cup extra,
     expiry |-> expiry, chain |-> Append(token.chain, token.id)]

Delegate(token) ==
    /\ Counted
    /\ \E allowed \in {t.allowed : t \in Roots}, extra \in SUBSET DeniablePaths,
          expiry \in {t.expiry : t \in Roots} :
          tokens' = tokens \cup {Delegated(token, calls + 1, allowed, extra, expiry)}
    /\ UNCHANGED <<states, returned, history, dag, memory>>

-----------------------------------------------------------------------------
(***************************************************************************)
(* The transition engine.                                                  *)
(***************************************************************************)
Generated(s, intent) ==
    [input |-> s.hash, ops |-> <<AddTask(calls + 1, intent, "pending")>>]

(* The states a transition may return, none when it is refused. *)
Transitioned(s, intent) ==
    LET diff == Generated(s, intent)
    IN  IF Resolve(Required, Refusing(s, diff))
        THEN {Hashed(t) : t \in Applied(diff, s)}
        ELSE {}

Transition(s, intent) ==
    /\ Counted
    /\ IF Transitioned(s, intent) = {}
       THEN UNCHANGED <<states, returned>>
       ELSE \E t \in Transitioned(s, intent) :
                states' = states \cup {t} /\ returned' = returned \cup {t}
    /\ UNCHANGED <<history, dag, tokens, memory>>

(* A caller applies a diff of its own to a state, outside the engine: what *)
(* it adds no validator has seen, a task with an intent of any kind and in *)
(* any status included.  It numbers its tasks itself, all of them alike.   *)
CallerOps ==
    {<<AddKey(k)>> : k \in Keys} \cup {<<Increment(1)>>, <<Increment(1), AddLost>>}
    \cup {<<AddTask(0, i, status)>> : i \in Intents, status \in {"pending", "completed"}}
CallerDiffs == [input : {s.hash : s \in states}, ops : CallerOps]

ApplyDiff(s, diff) ==
    /\ Counted
    /\ IF Applied(diff, s) = {}
       THEN UNCHANGED states
       ELSE \E t \in Applied(diff, s) : states' = states \cup {t}
    /\ UNCHANGED <<returned, history, dag, tokens, memory>>

-----------------------------------------------------------------------------
(***************************************************************************)
(* The auditor.  A snapshot keeps the two states and the diff beside the   *)
(* verdict; the code keeps their hashes.                                   *)
(***************************************************************************)
\* Mutant: the state after is taken at its word, its hash never recomputed.
VerdictOnHashes(before, after, diff, passed, replay) ==
    /\ before.hash = diff.input
    /\ \E t \in replay : t.hash = after.hash
    /\ passed

(* The verdict when the replay of the diff, if it succeeds, is `replay`. *)
Verdict(before, after, diff, passed, replay) ==
    /\ after.hash = Digest(after)
    /\ before.hash = diff.input
    /\ \E t \in replay : t.hash = after.hash
    /\ passed

(* A state somebody altered without recomputing its hash. *)
Altered(s) == [s EXCEPT !.balance = @ + 1]

VerifyTransition(before, after, diff, passed) ==
    /\ Counted
    /\ \E replay \in IF Applied(diff, before) = {} THEN {{}}
                      ELSE {{t} : t \in Applied(diff, before)} :
          history' = Append(history,
              [before |-> before, after |-> after, diff |-> diff, passed |-> passed,
               verified |-> Verdict(before, after, diff, passed, replay)])
    /\ UNCHANGED <<states, returned, dag, tokens, memory>>

-----------------------------------------------------------------------------
(***************************************************************************)
(* The branch DAG.  A branch's id is the hash of its parent's head and of  *)
(* the reason; heads never move, so every one is the genesis state's.      *)
(***************************************************************************)
AutoMerge == [kind |-> "auto", threshold |-> 90]
OrishaArbitration == [kind |-> "arbitration", required |-> {"obatala"}]
Policies == {AutoMerge, OrishaArbitration, [kind |-> "human"], [kind |-> "abandon"]}
GenesisHead == NoHash
NoParent == "0"
Genesis == <<"genesis">>
BranchId(head, reason) == <<head, reason>>

\* Mutant: a branch made before is found in the index and left alone.
ForkedOnce(parent, reason, confidence, policy) ==
    LET head == branches[parent].head
        id == BranchId(head, reason)
    IN  /\ branches' = Inserted(branches, id,
               [parent |-> head, reason |-> reason, confidence |-> confidence, head |-> head,
                speculative |-> policy.kind = "auto", policy |-> policy])
        /\ UNCHANGED index

(* fork: a branch with this id that exists already is replaced, and listed *)
(* in the index once more.                                                 *)
Forked(parent, reason, confidence, policy) ==
    LET head == branches[parent].head
        id == BranchId(head, reason)
    IN  /\ branches' = Inserted(branches, id,
               [parent |-> head, reason |-> reason, confidence |-> confidence, head |-> head,
                speculative |-> policy.kind = "auto", policy |-> policy])
        /\ index' = Inserted(index, head,
               Append(IF head \in DOMAIN index THEN index[head] ELSE <<>>, id))

Fork(parent, reason) ==
    /\ Counted
    /\ \E confidence \in {85, 95}, policy \in Policies :
          Forked(parent, [kind |-> "forecast", of |-> reason], confidence, policy)
    /\ UNCHANGED <<states, returned, history, tip, tokens, memory>>

(* The policies that let a merge through; every other answer changes       *)
(* nothing.  `approvals` is the set of validators recorded as approving.   *)
Mergeable(branch, approvals) ==
    \/ branch.policy.kind = "auto" /\ branch.confidence >= branch.policy.threshold
    \/ branch.policy.kind = "arbitration" /\ branch.policy.required \subseteq approvals

Merge(id, approvals) ==
    /\ Counted
    /\ IF Mergeable(branches[id], approvals)
       THEN /\ tip' = id
            /\ branches' = [branches EXCEPT ![id].speculative = FALSE]
       ELSE UNCHANGED <<tip, branches>>
    /\ UNCHANGED <<states, returned, history, index, tokens, memory>>

-----------------------------------------------------------------------------
(***************************************************************************)
(* RealityVM::execute: the capability gate, the shadow run, the transition,*)
(* the fork of a speculative context and the sync of a distributed one.    *)
(* The state the transition returns is dropped, only its hash is answered. *)
(***************************************************************************)
(* The shadow run: each model answers 0.1 whatever it is shown, so the     *)
(* weighted risk, in thousandths, always lets the call proceed.            *)
ShadowRisk == [schema |-> 100, ethical |-> 100, economic |-> 100, temporal |-> 0, memory |-> 0]
OverallRisk(risk) ==
    (300 * risk.schema + 250 * risk.ethical + 200 * risk.economic
        + 150 * risk.temporal + 100 * risk.memory) \div 1000
Recommended(risk) ==
    CASE OverallRisk(risk) < 300 -> "proceed"
      [] OverallRisk(risk) \in 300 .. 599 -> "monitor"
      [] OverallRisk(risk) >= 600 /\ risk.ethical > 800 -> "validate"
      [] OTHER -> "abort"

(* Blessings and validations are granted by stubs; conditional passes.     *)
Gate(token, now) ==
    /\ Permits(token, AddTaskOp, now) # "denied"
    /\ Recommended(ShadowRisk) # "abort"

(* sync_with_peer: no conflict is ever detected; the states compared are   *)
(* those before and after.                                                 *)
Sync(peer, peerHash, before, after) ==
    /\ peers' = Inserted(peers, peer, peerHash)
    /\ diverged' = (peerHash # localHash /\ MemoryDigest(before) # MemoryDigest(after))
    /\ UNCHANGED localHash

(* reconcile, with the strategy the VM is made with: the local values of   *)
(* the conflicts a caller names go into the hive, which is rebuilt and so  *)
(* iterates in any order.  The memory hash is computed anew, the hash of   *)
(* the state is not.  The other three strategies leave the state alone.    *)
Reconcile(s, conflicts) ==
    /\ Counted
    /\ \E order \in Orders(ToSet(s.hive) \cup conflicts) :
          LET t == [s EXCEPT !.hive = order]
          IN  /\ states' = states \cup {t}
              /\ localHash' = MemoryDigest(t)
    /\ diverged' = FALSE
    /\ UNCHANGED <<returned, history, dag, tokens, peers>>

Execute(s, intent, token, now, speculative, distributed) ==
    /\ Counted
    /\ IF Gate(token, now) /\ Transitioned(s, intent) # {}
       THEN /\ IF speculative
               THEN Forked(tip, [kind |-> "intent", of |-> intent], 85, AutoMerge)
               ELSE UNCHANGED <<branches, index>>
            /\ IF distributed
               THEN \E t \in Transitioned(s, intent), p \in Peers,
                       h \in {NoHash, MemoryDigest(s)} :
                       Sync(p, h, s, t)
               ELSE UNCHANGED memory
       ELSE UNCHANGED <<branches, index, memory>>
    /\ UNCHANGED <<states, returned, history, tip, tokens>>

-----------------------------------------------------------------------------
Init ==
    /\ states = {DefaultState}
    /\ returned = {}
    /\ history = <<>>
    /\ branches = [id \in {Genesis} |->
           [parent |-> NoParent, reason |-> [kind |-> "forecast", of |-> "genesis"],
            confidence |-> 100, head |-> GenesisHead, speculative |-> FALSE,
            policy |-> [kind |-> "human"]]]
    /\ tip = Genesis
    /\ index = [head \in {NoParent} |-> <<Genesis>>]
    /\ tokens = Roots
    /\ peers = <<>>
    /\ diverged = FALSE
    /\ localHash = NoHash
    /\ calls = 0

Next ==
    \/ \E s \in states, i \in Intents : Transition(s, i)
    \/ \E s \in states, d \in CallerDiffs : ApplyDiff(s, d)
    \/ \E b \in states, a \in states \cup {Altered(s) : s \in states}, d \in CallerDiffs,
          ok \in BOOLEAN : VerifyTransition(b, a, d, ok)
    \/ \E s \in states, conflicts \in SUBSET Keys : Reconcile(s, conflicts)
    \/ \E t \in tokens : Delegate(t)
    \/ \E id \in DOMAIN branches, f \in Forecasts : Fork(id, f)
    \/ \E id \in DOMAIN branches, approvals \in SUBSET {"eshu", "obatala"} : Merge(id, approvals)
    \/ \E s \in states, i \in Intents, t \in tokens, now \in 1 .. 3,
          speculative, distributed \in BOOLEAN : Execute(s, i, t, now, speculative, distributed)

Spec == Init /\ [][Next]_vars

-----------------------------------------------------------------------------
(***************************************************************************)
(* Properties.                                                             *)
(***************************************************************************)
(* Every value is one the program's types and constructors allow; the tip  *)
(* names a branch, and the index lists under each head the branches forked *)
(* from it and no others (branching/mod.rs).                               *)
TypeOK ==
    /\ \A s \in states : /\ s.version \in 0 .. MaxCalls
                         /\ IsInjective(s.hive) /\ ToSet(s.hive) \subseteq Keys
                         /\ s.hash = NoHash <=> s.version = 0
    /\ returned \subseteq states
    /\ \A i \in DOMAIN history : history[i].verified \in BOOLEAN
    /\ tip \in DOMAIN branches
    /\ DOMAIN index = {branches[id].parent : id \in DOMAIN branches}
    /\ \A head \in DOMAIN index :
          ToSet(index[head]) = {id \in DOMAIN branches : branches[id].parent = head}
    /\ \A id \in DOMAIN branches : branches[id].speculative => branches[id].policy.kind = "auto"
    /\ \A t \in tokens : t.denied \subseteq DeniablePaths
    /\ DOMAIN peers \subseteq Peers /\ diverged \in BOOLEAN
    /\ localHash = NoHash \/ \E s \in states : localHash = MemoryDigest(s)
    /\ calls \in 0 .. MaxCalls

(* No state the engine returns has a harmful task to do, although callers  *)
(* hand it states they put such tasks into by themselves, whose memory they*)
(* reconciled, or that an earlier transition returned (Obatala's vote      *)
(* decides; kernel/validators.rs).                                         *)
HarmLeavesNothing ==
    \A s \in returned : \A task \in Pending(s) : task.intent \notin Harmful

(* A verified snapshot is a true one: the state after carries its own hash *)
(* and means what the diff makes of the state before, so no altered state  *)
(* is certified as the outcome.  The state before is taken as it is: its   *)
(* hash is compared, never computed anew (audit/zangbeto.rs).              *)
AuditIsSound ==
    \A i \in DOMAIN history :
        LET h == history[i]
        IN  h.verified => /\ h.passed
                          /\ h.after.hash = Digest(h.after)
                          /\ \E t \in Applied(h.diff, h.before) : SameContent(t, h.after)

(* What a path denied to a token keeps it from, it keeps every token from  *)
(* that is delegated from it, at any depth and whatever operations and     *)
(* expiry the delegation granted (capability/mod.rs).                      *)
DeniedStaysDenied ==
    \A ancestor, t \in tokens :
        ancestor.id \in ToSet(t.chain) =>
            \A op \in Operations, now \in 1 .. 3 :
                Denies(ancestor, op) => Permits(t, op, now) = "denied"
=============================================================================
