# Zàngbétò: a TLA+ development

TLA+ models of the enforcement core of this repository, the TLC runs that check
them on small instances, and theorems about them that TLAPS proves for every
value of the constants. Paths are relative to `src/`; `ze/` stands for
`crates/zangbeto-enforcement/src/`.

`PROJECT.json` is the index: the components, the runs with their properties,
for every property a *mutant* (a plausible bug in a mapped definition that must
violate it), the lines each definition models, the hazards and the findings.

## 1. The system

| Part | State | Operations | Hard behaviour |
|---|---|---|---|
| `QuarantineManager` (`ze/quarantine.rs`) | map of quarantined states, blocklist of merges, queue of release candidates | `quarantine`, `is_merge_allowed`, `record_orisha_approval`, `evaluate_release` | three collections that must agree under any order of calls; a wall clock that may go back; two `unwrap`s |
| `ZangbetoDaemon` (`ze/daemon.rs`) | `running`, the channel's two ends, the manager | `start`, `handle_anomaly`, `execute_enforcement_action` | a loop that sends into the bounded channel it reads; producers on other threads; a future that may be dropped |
| `ActionLadder` (`ze/action_ladder.rs`, policy in `ze/lib.rs`) | none | `determine_action`, the rules' matchers | which rule or severity decides |
| `ArbitrationEngine` (`ze/arbitration.rs`) | conflict graph | `arbitrate` | several strategies aggregated |
| Bridges (`ze/server.rs`, `ze/http.rs`) | process-wide guardian and receipt store | `/enforce`, `/review`, `/canary-trip`, `/receipts` | two bridges with their own verdicts; requests served concurrently |
| `ReceiptStore` (`ze/receipts.rs`), `Guardian` (`ze/guardian.rs`) | an SQLite table, a seed file | `emit`, `since`, `load_or_create` | timestamps taken before the insert; a crash while the seed is written |
| Nostr relay client (`ze/nostr_relay.rs`) | a socket | `authenticate`, `publish`, `has_event` | frames in any order, no timeouts |
| `BftNode` (`crates/consensus-bft`) | slots of votes | `receive_vote` | repeated, reordered, contradictory votes; the order of a hash map |
| `CrdtMemory` (`crates/crdt-memory`) | registers, OR-set, counter, vector clock | updates, `join`, `meet`, `conflict_set` | copies that are stale, repeated, reordered |
| `ReplayEngine`, policy runtime (`crates/replay-engine`, `crates/policy-runtime`) | a store of states | `verify_trace` | traces that travel and are altered; states stored over each other |
| Crypto kernel (`crates/crypto-kernel`) | registered keys | `register_key`, `sign`, `verify` | keys replaced while what they signed is about; a clock set back |
| Waggle promoter (`crates/waggle-promoter`) | none | `deposits`, `send` | deposits lost one by one, or landed with the answer lost |
| OMO kernel (`crates/omo-kernel`, `zangbeto/` for its `src/zangbeto/`) | identity, branches, ledger, capabilities, memory vectors | `execute`, `fork`, `merge_branch`, `sync_with_peer`, `reconcile`, `execute_with_audit`, `append`, `delegate` | branches and thresholds; ledgers that are cloned, stored and read back |
| Diagnostic agent (`crates/omo-diagnostic`) | a channel, the Reality VM's state, an archive, the guardian's key | `handle_line`, the steward's loop, `execute_repair` | readers and the loop share a bounded channel; the loop does not wait for verification; answers of the guardian may be lost or confused |
| Shrine (`shrine/sources`) | on-chain registry | `submit_diagnostic`, `mark_fixed_and_reward` | order of transactions |

Producers detect anomalies and send them to the daemon's channel. The daemon
asks the ladder for a decision, the arbitration engine when the decision
requires consensus, and the manager when the action is a quarantine; its
receipts go back into its own channel. The manager's other operations are the
owner's to call: nothing in the repository calls `evaluate_release`. The bridges
use the ladder's vocabulary but none of this state; they write receipts to the
store and, through the relay client, to a relay. The diagnostic agent uses the
kernel's transition engine and submits security diagnostics to the guardian's
bridge. The replay engine checks traces against the key registry, and the
promoter reports a replay's outcome to the waggle field.

### What makes each part correct

- **Quarantine manager.** The map, the blocklist and the queue describe one set
  of quarantines: no block without a quarantine that explains it, the terms in
  force queued behind all earlier ones, no approval that a candidate requires
  passed over at its release, and no waiting time on a clock that goes forward,
  in whatever order the methods are called. Where releases and the blocklist
  fall short of the specification is told in section 6.
- **Daemon.** No anomaly is lost or enforced twice while events are put back
  into the channel they came from; nothing is in quarantine but what an
  enforced anomaly that waits for no human put there; what needs no human is
  enforced; an ended loop stays ended.
- **Arbitration.** An outcome rests on answers that were really given: a
  consensus on the threshold's share of those who answered yes or no, however
  few they were. The two sides of a conflict are treated alike.
- **BFT votes.** A certificate is backed by more than two thirds of the nodes,
  and two certificates of a round are for the same block.
- **CRDT memory.** What a copy shows is a function of the updates it is based
  on, however the copies travelled; clocks order copies as their knowledge does.
- **Bridges, receipts, guardian.** One signing identity across crashes and
  racing requests; what was acknowledged as persisted is persisted; a poller
  misses nothing but what entered the table behind its cursor; every request
  ends.
- **Relay client.** What it reports is true of the relay, although frames of
  earlier calls, dropped calls and unasked traffic share one stream.
- **Bridges' verdicts.** A higher severity is gated no less: by whichever of
  the two binaries for the documented kinds, by the same one for any other word.
- **Replay, keys, promotion.** What a registered key has not signed is not
  believed, what it has signed is not refused; the field holds no praise that a
  replay has not earned.
- **Kernel.** No state that the engine returns holds a harmful task to do; an
  audit certifies only a state that is what its replay makes of the state
  before, which it takes at its word; what a denied path keeps a token from, it
  keeps all its descendants from.
- **Audit trail.** A ledger's tip tells its whole history; a receipt is about
  exactly the entries before it; compensation is recommended only where
  validators object.
- **Diagnostic agent.** What the court refuses leaves no trace; what it lets
  through is taken once and applied at most once; a receipt is believed only if
  the guardian signed it; an eligible repair is reached.

## 2. Modules

`X.tla` models a component, `MCX.tla` gives its constants values for TLC,
`XProofs.tla` holds its theorems (those of `Verdicts` are in `BridgeProofs`). Names of variables, actions and fields are the
code's where TLA+ allows it. Two modules of theorems are about several components:
`OmoProofs` (`Kernel`, `Steward`, `AuditTrail`) and `ValidatorProofs` (`BftVotes`,
`KeyRegistry`, `Replay`). Each EXTENDS its components, which is why the
specifications of `Steward`, `AuditTrail` and `Replay` are called `StewardSpec`,
`TrailSpec` and `ReplaySpec`, and so on for their parts.

| Module | Models | Used by |
|---|---|---|
| `Quarantine` | `QuarantineManager` | `Daemon` (`Q == INSTANCE Quarantine`) |
| `ActionLadder` | `determine_action`, the default policy | `Daemon` (EXTENDS) |
| `Delivery` | what `ZangbetoDaemon` promises to producers: an abstract specification | `Daemon` (`D == INSTANCE Delivery`) |
| `Daemon` | `ZangbetoDaemon` with its channel and its manager | |
| `Arbitration` | `ArbitrationEngine::arbitrate` | |
| `BftVotes` | `BftNode` | |
| `CrdtMemory` | `Register`, `OrSet`, `GCounter`, `VectorClock`, `CrdtMemory` | |
| `Verdicts` | the words and verdicts of `server.rs` and `http.rs`, and what clients were told | |
| `Bridge` | `server.rs` routes, `ReceiptStore`, `Guardian` | |
| `RelayClient` | `NostrRelay` and its peer | |
| `StateDiffs` | `KernelState`, hashes, diffs, validators: values, no state | `Kernel` (EXTENDS) |
| `Kernel` | engine, auditor, branches, tokens, shadow, memory protocol, `RealityVM::execute` | |
| `KeyRegistry` | `KeyRegistry`, `CapabilityToken` of the crypto kernel | `Replay` (EXTENDS) |
| `Replay` | `ReplayEngine`, the states of the policy runtime, `Promotion` | |
| `AuditTrail` | `EventLedger`, `DriftClassifier`, `ZangbetoPipeline` | |
| `Steward` | `DiagnosticHandler`, `WhiteCourt`, `Archive`, the steward's `main`, `ZangbetoClient` | |

Some modules hold, just before a definition, an operator marked `\* Mutant:`.
It is the definition with a plausible bug, used only to show that a property
depends on that definition. No specification uses one.

### Quarantine

`quarantined_states`, `merge_blocklist`, `release_queue` are the fields of
`QuarantineManager`; `now` is the wall clock the methods read, `panicked` says
that an `unwrap` or an overflow check ended the caller. `Quarantine` is the
whole method: it writes the map (replacing an entry with the same id), pushes a
candidate (without replacing any) and blocks merges. `EvaluateRelease` is
`evaluate_release` for one id: it finds the *first* candidate, panics when the
map has no entry (`OrphanPanics`) or when a checked subtraction underflows
(`ClockPanics`), keeps the conditions newly satisfied (`Progress`), or releases
(`Release`). `now - created_at` is arithmetic modulo `Modulus` in builds without
overflow checks; both builds are in the model. `is_merge_allowed` changes
nothing and is left out (section 6). `ClockChange` sets the clock
anywhere, backwards too, as an operating system may. `since[i]` is history:
when candidate `i` was queued, or `SetBack` once the clock has been behind that.

The strings of a quarantine's id (`hash:scope:reason`) are a record of the three
parts: a name is a model value that contains no separator.

### ActionLadder and Daemon

`ActionLadder` is a translation of `determine_action`: the rules in order, then
the severity. `Daemon` holds `running`, the channel (`chan`), the place of the
loop (`loop`: new, recv, sending, ended), the event in hand while a send
waits (`out`), and the manager's variables. `HandleAnomaly` is one turn of the
loop up to its first `await` that can really wait: the ladder's decision, the
arbitration's failure (which ends `start()`), the quarantine, the send of the
receipt or of the anomaly that needs a human. When the channel is full, the
loop is in `"sending"` until `FinishSend`. `Cancel` drops the future of
`start()` at any await. Producers (`Produce`, `ProduceNotice`) are other tasks;
they wait while the channel is full and are refused when the receiver is gone.
`OwnerApproves` and `OwnerEvaluates` are calls of the manager by the
application that owns the daemon; `OwnerEvaluates` needs a loop that does not
run, since `start` borrows the daemon mutably and the manager with it.
`QuarantinesAssumption` says of a policy given to the daemon what the Rust types
say: a rule that quarantines names a scope and release conditions.
`sent`, `times`, `lost` are history: what producers sent, how often each
anomaly was enforced, what was dropped with the loop.

`Delivery` is the abstract specification: a daemon that is open takes
anomalies, enforces each at most once and only if no human and no arbitration
has to see it, and drops what waits when it closes. `Daemon` implements it with
`open <- loop # "ended"`, `waiting <- Queued \cup InHand`,
`enforced <- Executed`, `dropped <- lost` (`DeliversOnce == D!Spec`). An anomaly
that needs a human is put back into the channel: for `Delivery`, a stutter.

### Arbitration

`request` is the list of conflicts given to `arbitrate`, `decisions` the
decisions so far, `approvals` and `rejections` the counters of a consensus
round, `heard` what each member answered. `Ask` is one member's policy call,
`Resolve` the four strategies that ask nobody, `Consensus` the comparison with
the threshold, `Return` the aggregation. Orisha names are ordered by their
bytes (`Rank`), as `str` comparison is. The weight of an orisha without one is
5. `DeterministicRandom` may fall on either side: which, is a hash.

### BftVotes

`pending_votes` is the map from (round, block) to votes, `last` the slot that
the iteration of that map yields last, `answer` the return value, `issued` the
certificates given so far. A vote for an occupied slot cannot change the
iteration order; a new slot may (`GrowsAt`: at these sizes a hash map
rehashes and the order is arbitrary; otherwise the new key goes somewhere and
the last is the old or the new one). A correct node votes for one block a
round, on the network's side; the collector does not check it.

### CrdtMemory

`memory[r]` is the `CrdtMemory` of node `r`; `net` the copies in transit, which
are never consumed: they may arrive late, twice, in any order or never. `seen[r]`
is history, the set of updates `memory[r]` is based on. `Receive` joins a copy
on either side (`self.join(other)` and `other.join(self)` are different
computations: the register and the OR-set break ties in favour of one argument).
`Meet` and `ConflictSet` are operators. Nodes are finitely many
(`NodesAssumption`): the keys of a map in memory are.

### Bridge

`seed` is the file (absent, torn, a key), `guardian` the process-wide
`OnceLock`, `rows` the table, `task[t]` the stage of a connection's handler:
accepted, loading or generating the seed, creating and writing the file,
signing (the timestamp is drawn here), inserting, answering. `cursor` and
`reply` belong to the pollers, which call `since` and take the greatest
timestamp they received as the next cursor; `seen`, `reach`, `late` and
`answered` are history. `Crash` empties what is in memory and keeps the file
and the table; `WriteFails`, `LoadTorn` and `EmitFails` are the error paths. A
panic in the initialiser leaves the `OnceLock` empty: the next request tries
again.

`Verdicts` translates the words of a report as each bridge parses them, the
ladder without rules that both construct (an instance of `ActionLadder`), and
what each answers. A word is its text in small letters without blanks, and
whether it was written so: `http.rs` trims and lowers, `server.rs` compares as
it is. Any word may be sent: one that is absent or unknown gets the bridge's
default. `verdicts` is what clients were told by either bridge. `Bridge` models
how requests are served and stored, which no verdict changes.

### RelayClient

`up` and `down` are the two directions of the socket, `call` the call in
progress with the frames it still waits for, `last` the outcome of the last
one. `relayVars` is the relay: what it admits, stores, accepts, refuses, which
subscriptions are open. Each `Read...` action consumes one frame under the
match arm that takes it. `Drop` abandons a call at an await and leaves the
frames it caused in the stream, as dropping the future does. The relay
(external) may refuse, say yes and not store, send a frame nobody asked for,
end a subscription and hang up.

### StateDiffs and Kernel

`StateDiffs` says what a `KernelState` is as a value: `Digest` is what
`compute_hash` feeds the hash with. It iterates a `HashMap`, so two equal
memories may have different digests: a state carries the order its hive
iterates in (`Orders`). `Applied` is `StateDiff::apply_to` with its
skipped operations; `Resolve` the weighted threshold of the validators, which
look at what is still pending. A task is its place, intent and status.
`ApplyDiff` is a caller's own diff, applied with no validation, tasks included;
`returned` is history, the states that `transition` gave out.
`Kernel` holds the states callers keep (`states`), what the engine and the
auditor did (`history`), branches, tip and index of the branch graph, tokens
and the peers' memories. One call is one action: nothing in the kernel is
concurrent, and every `async fn` of it runs to its end without waiting. `calls`
bounds a behaviour. `Sync` compares a peer's memory hash with that of the local
vector (`localHash`). A path is cut into pieces, and the scope of a memory
operation is the piece that `{:?}` prints (`Printed`): capital letter and all,
which no lower-case piece of a denied path is a prefix of. `Reconcile` is `reconcile` under the strategy that
`RealityVM::new` sets: it rebuilds the hive, whose map may then iterate in any
order, and the hash of the local vector, and leaves the state's own hash as it
was.

### KeyRegistry and Replay

`keys` is the registry's map from id to key, `endorsed` the ids the root has
signed, `tokens` what `CapabilityToken::sign` has made, `now` the clock. The
root's signature covers the id alone, so `RegisterKey` may put any key under an
endorsed id, in place of the one before. A signature is a record of the key and
what it signs: it can be copied anywhere and made by the holder alone. `Presented` is what `verify` may be given: any fields with
any signature that was ever made.

`state_store` is the engine's map from hash to state, `recorded` the traces as
executors made them, `signed` the validators' signatures. `Copies` are the ways
in which a trace may be altered; `VerifyTrace` follows `verify_trace` in its
order of errors (steps, last hash, signatures). `compute_hash` is a constant, so
every state is stored under one hash. `Execute` clamps reputation, and a balance
out of its width makes the build with overflow checks panic
(`ReplayPanics`). `VerifyAndPromote`, `Post` and `SendReturns` are a promotion: a
deposit is stored and answered, stored with the answer lost, or lost.

### AuditTrail

`ledger[h]` is the `EventLedger` that holder `h` uses, made for one of the states
`GenesisState` whose hash is its first tip; `events` are the events built so far
(`RealityEvent`, with the divergence, confidence and dissent the classifier
looks at), `committed` (history) the entries `append` has made, for whatever ledger.
`ExecuteWithAudit` is the pipeline's method with the parts the code leaves as
stubs as it leaves them: the default state is predicted, with confidence 0.9,
and one validator report is in favour. `AppendEntry` is `append`. `Build`,
`AppendEvent`, `Clone` and `ReadBack` are what users of the library do with its
public methods and fields: events made outside the pipeline, a ledger cloned
and appended to on both sides, a stored ledger whose entries were lost, repeated
or mixed up and which is used if `verify_chain` accepts it. An entry's hash is
the record of what it covers: the entry before, the event and the drift report,
not the receipt. Severities are in hundredths. Fingerprints and `query_drift`,
which change nothing, are left out. `RefusedIntent` are the intents whose
transition the validators refuse, as in `Kernel`.

### Steward

`loop` is the place of `main()` (boot, receiving, repairing), `chan` its
channel, `call[r]` what reader `r`'s call of `handle_line` is doing (idle,
sending, submitting, submitted), `pubkey` the guardian's key as fetched at the
start and `key` the one it signs with now. `HandleLine` is the call up to its
first wait (a line that does not parse changes nothing), `Send` the send into
the channel with the branch after it (`AfterSend`), `Submit`, `ReceiptArrives`
and `SubmitFails` the two halves of the submission. `ReceiptArrives` may bring
any receipt the guardian has ever signed. `ProcessDiagnostic` is one turn of
the loop: archive (whose failure is ignored), transition of the Reality VM,
and `EndRepair` when `should_auto_merge` says so. A diagnostic is a record of
what the code branches on; its message is one bit, whether it holds the words
the court looks for. `Refused` are the codes whose intent the kernel's
validators refuse (`Kernel` models why). Nothing in the repository calls
`handle_line`: the readers are the environment the steward is written for.

## 3. Runs

All passing runs are exhaustive over their bounds.

| Run | Distinct states | Bounds | Why they are enough |
|---|---|---|---|
| `quarantine` | 235 811 | 2 states, 2 scopes, 1 reason, 3 sets of conditions, queue of 2, clock 1..2, width 4 | two quarantines of one state under different scopes, a repeated id, every kind of condition, a clock set back over both; a third entry only repeats a pair |
| `daemon` | 9 605 | 4 anomalies, one per branch of the handler, 1 notice, channel of 5 (100 in the code) | 5 is one place for each event there can be: `HandledEventually` is about a channel with room; the full channel is `daemon_self_send` |
| `arbitration` | 375 626 | default graph and a pair for each other strategy, both orders of a pair, 2 of 3 quorum members registered, 2 conflicts | a missing member, every pair of decisions to aggregate, every mix of answers |
| `bft` | 224 880 | 4 nodes, 1 faulty, 2 rounds, 2 blocks, map grows at 3 entries | the least number with a faulty node; a slot of another round may be last; equivocation in both rounds |
| `crdt` | 61 022 | 3 nodes, 1 key, 2 values, stamps 0..1, 3 updates of one part, 2 copies | equal stamps, concurrent updates at each node, a stale copy after a removal; a join touches the parts independently, so updates of different parts in one behaviour add nothing (`Mixes`) |
| `bridge` | 481 380 | 2 connections, 3 routes, 2 receipts, 2 keys, 1 crash, 1 poller, clock 0..2; 2 verdicts, 8 severities and 9 kinds | both races for the seed, a crash at each point of the write, a receipt that enters behind the cursor; documented, absent, unknown, short and capitalised words, and every pair of reports to either bridge |
| `relay` | 294 635 | 2 events, 3 calls, 1 dropped call, 1 unasked frame | a stale frame needs a call that leaves it and one that reads it; the third call comes after a verified one |
| `steward` | 173 556 | 2 readers, 3 lines, channel of 2 (100 in the code), 9 diagnostics, 2 receipts, 2 keys | one diagnostic for each way through the court and `should_auto_merge`, two that differ in their code alone, a full channel with two senders, a key changed between fetch and signature |
| `audit` | 80 635 | 2 holders, 2 genesis states, 2 events, 3 entries in a ledger and 3 made in all, 5 outlines of events, one refused intent | a ledger and its clone that part after an entry, an event appended twice, entries of both sides read back together; one outline for each branch of the classifier |
| `kernel` | 1 168 456 | 3 calls, 2 intents (1 harmful), 2 hive keys, 2 root tokens, 2 deniable paths (one as documented, one as printed), 1 peer | delegate-delegate-use, apply-transition-transition, transition-alter-verify, transition-reconcile-verify, fork-merge-fork |
| `replay` | 416 118 | 2 ids, 3 keys, 2 claims, clock 0..1, 2 traces, 2 orishas, 2 operations, 2 stored states, balance of 2 bits, 1 step, 1 validator signature, 1 promotion, 6 calls | a key replaced between signature and verification, a state stored over the one a trace starts from, a signature moved to another trace, orisha or key, a balance at its limit; a behaviour has tokens or traces (`Apart`), since neither reads the other's state |

What they check:

- `quarantine`: `NoStaleBlock` (each blocklist entry belongs to an active
  quarantine of its state), `LastHasTerms` (the last candidate of each active
  quarantine has its current terms: `evaluate_release`, which takes the first,
  comes to them once the earlier ones are released, and never does if one of
  these is not), `ReleaseIsEarned` (a release happens only through the first
  candidate of the id, every approval it requires recorded on it, its time
  waited on a clock that was not set back, and never over a manual override).
- `daemon`: `ExactlyOnce` (every anomaly sent is in the channel, in hand,
  enforced or lost with an ended loop, exactly one of these),
  `QuarantinesAreCaused` (each active quarantine is that of an enforced anomaly
  that waits for no human and for which the ladder's decision is to quarantine), `DeliversOnce` (every step is a step of `Delivery` or
  leaves it alone), `HandledEventually`.
- `arbitration`: `OutcomeIsBacked` (from the outcome back to the answers that
  carry it; the share is taken of those who answered yes or no).
- `bft`: `CertificateBacked`, `Agreement`.
- `crdt`: `HiveHoldsLatest`, `ElementsExact`, `CounterExact`,
  `ClockTellsKnowledge`.
- `bridge`: `OneIdentity`, `AcknowledgedPersists`, `MissesOnlyLate`,
  `EveryRequestEnds`, and `VerdictsAgree` (a report repeated at the same or a
  higher documented severity is gated no less, by either bridge if its kind is a
  documented one, by the same bridge whatever its kind). The run composes
  `Bridge` and `Verdicts`, neither of which reads the other's state: a behaviour
  serves requests (`Serve`) or gives verdicts (`Judge`).
- `relay`: `VerifiedIsServed`, `NotServedIsTrue` and
  `AuthIsReal` (the last two for a connection on which no call was abandoned; after a
  drop the code can report otherwise, see section 6), `CallEnds`.
- `kernel`: `HarmLeavesNothing` (no state that a transition gave out holds a
  pending harmful task, whatever the state it began with, a caller's own diff
  included), `AuditIsSound` (what is certified of the state after; the hash of
  the state before is compared and not recomputed), `DeniedStaysDenied` (at any
  depth of delegation, whatever operations and expiry were granted), and in
  `TypeOK` that the merged tip is always a branch of the graph.
- `steward`: `RefusedLeavesNoTrace` (neither a task, a receipt nor a repair of a
  diagnostic the court rejects or escalates, and no repair without a human of
  one about security or identity), `TakenOnce` (each line let through is in the
  channel or was taken by the loop, once; it is applied at most once, never if
  its transition is refused, and exactly once if it is not about security),
  `VerifiedIsSigned`, `EligibleIsRepaired` (each answer LocalRepairEligible is
  followed by an attempt at a repair).

- `audit`: `TipTellsHistory` (two ledgers in use with one tip have the same
  genesis and entries), `RootsTellPast` (the receipt of every entry in use is
  about the entries before it), `CompensationIsWarranted`, and in `TrailTypeOK` that
  a ledger in use verifies and holds entries that `append` made.
- `replay`: `TokenIsGenuine` (a token is believed exactly when the key now under
  its signer's id signed its fields and it has not expired), `SignedIsRecorded`
  (a signed trace that verifies is, but for its steps, one that was recorded),
  `GenuineVerifies` (a recorded and signed trace is never refused while its
  validator's key is registered), `PromotionIsHonest` (gold and bounded only of
  a verified trace, no warning beside them, and `send` counts no more than
  landed).

`TypeOK` of each module is its type invariant. Those of `Quarantine`, `Daemon`,
`BftVotes`, `Bridge`, `RelayClient`, `Arbitration` and `CrdtMemory` are proved for
every value of the constants (`TypeCorrect`) and no run repeats them; those of
`Kernel`, `Steward` (`StewardTypeOK`) and `AuditTrail` (`TrailTypeOK`) say more than
types, are checked and proved. `Replay` has none: its state is
built by its actions out of the sets of its constants.

Each property of a passing run has a mutant in `PROJECT.json` that violates
it under the run's own bounds: the case it guards does happen there.

`SYMMETRY` is used by `bft`, over the three correct nodes and the two blocks,
by `audit`, over the holders and the genesis states, and by `replay`, over the
keys other than the root's, the orishas, the traces and the claims: nothing in
these modules tells them apart, and none of these runs checks liveness.

`CHECK_DEADLOCK FALSE` is set where the system really stops: after a panic or
at a full bound (`quarantine`), when the loop has ended and all anomalies are
sent (`daemon`), when `arbitrate` has returned, when the calls are used up
(`relay`, `kernel`, `replay`), and when all lines are read and processed (`steward`).

### The run that finds a violation

It states what a comment of the repository says.

| Run | Says | TLC finds |
|---|---|---|
| `daemon_self_send` | "continuous enforcement loop" (`ze/daemon.rs:10`) | producers fill the channel between the loop's receive and its send; the loop waits for room only it can make. Capacity 2 here for 100; the run needs no more than as many anomalies as places |

### Fairness

- `Daemon`: `WF(LoopStep)`. The runtime polls `start()` again whenever it can
  go on; nothing is assumed of producers, owner or clock.
- `Bridge`: `WF(Handle(t))` for each connection: the runtime polls a task that
  can go on. Clients, pollers and crashes have none.
- `RelayClient`: `WF(ClientReads)`, the executor polls the call when a frame is
  there; `WF(RelayAnswers)`, the relay goes on answering or hangs up. The second
  is an assumption about a program outside this repository. `CallEnds` needs
  it: the client has no timeout and waits for ever for a relay that is silent.
- `Steward`: `WF(LoopStep)`. The runtime polls `main()` when it can go on, and
  the `cp` that fills a repair's sandbox ends. Readers, the guardian and the
  network have none.
- The other modules check safety only.

## 4. Proofs

TLAPS proves the theorems below for every value of the constants that the
named assumptions of the modules allow, without the bounds of TLC's runs
(counters that bound a behaviour, such as `MaxCalls`, are arbitrary numbers).

| Module | Theorems | Argument |
|---|---|---|
| `QuarantineProofs` | `TypeCorrect`, `NoStaleBlockHolds`, `EvidenceHolds`, `ReleaseEarned`, `LastHasTermsHolds` | each invariant is inductive given `TypeOK`. Removing the candidate of a release shifts the queue, so lemmas say where each remaining candidate was before; the release of an id may take its only candidate, but then its entry goes too. `EvidenceInv` adds to `SatisfiedIsEvidenced` that, unless the clock was set back since, a candidate was queued no later than its entry was last written, and that no later than now (`TimesInOrder`): only then is the `u64` difference at most the time it has waited |
| `DaemonProofs` | `TypeCorrect`, `EndIsFinalHolds`, `ExactlyOnceHolds`, `QuarantinesAreCausedHolds`, `DeliversOnceHolds` | `ExactlyOnce` is not inductive: a turn of the loop that enforces an anomaly must know that no receipt of it is about. `IInv == ExactlyOnce /\ ReceiptsFollow` is. Under it each action maps to one of `Delivery` or to a stutter: an anomaly is in one place only, so taking, enforcing and dropping it move it between `Delivery`'s sets. `CausedInv` adds the type of the map to `QuarantinesAreCaused`: a turn of the loop activates the identifier of the anomaly it enforces and no other, and the owner's calls activate nothing |
| `ValidatorProofs` (votes) | `TypeCorrect`, `VotesDistinctHolds`, `CertificatesBacked`, `AgreementHolds` | `IInv` adds to the types that a correct node is in one slot of a round and that a certificate's votes are a part of its slot (`Snapshot`). Distinct votes make a sequence's length the number of its voters; two sets of more than two thirds share more than a third, hence a correct node (`QuorumsMeet`) |
| `CrdtMemoryProofs` | `TypeCorrect`, `HiveHoldsLatestHolds`, `ElementsExactHolds`, `ConflictFreeMeetsHolds`, `ClockTellsKnowledgeHolds`, `CounterExactHolds` | `DataInv`: each copy, in a node or in transit, is `Based` on its updates: a register holds the latest write of its key among them, and a node is among those that added (removed) an element exactly when one of them is its addition (removal); of the stamps in an element nothing can be said, since a join takes either side's. Joining two copies that are so gives one that is based on the union (`LatestJoin`, `SealJoins`). `ClockInv`: an entry `n` of a clock is the number of `n`'s ticks a copy is based on, and these are the first ones. Intervals from 1 are ordered by inclusion as their ends are. `CountInv`: an entry `n` of a counter is the sum of `n`'s increments the copy is based on, and these are all of `n`'s up to that total, so that joining keeps the longer beginning. That a sum over a finite set is the same in any order, and the sum of its parts, is shown from the definition of the fold by a smallest counterexample, since no induction can be cited |
| `ArbitrationProofs` | `TypeCorrect`, `OutcomeIsBackedHolds`, `SidesAreAlikeHolds` | `IInv`: the counters are the numbers of answers heard of each kind in the round at hand (`Counting`), each decision was made by its strategy or by a round whose answers `heard` keeps (`MadeBy`), and the outcome is the aggregate of the decisions (`Returned`). `AggregateIsWorst` finds, for each outcome, a decision of its kind. Sides: a pair is looked up under both orders, and each strategy that neither asks nor draws is symmetric in them; a graph that names a pair in both orders, with a strategy for each, is possible (`NamedTwice`) and then nothing is said of that pair |
| `BridgeProofs` | `TypeCorrect`, `OneIdentityHolds`, `MissesOnlyLateHolds`, `AcknowledgedPersistsHolds`, `VerdictsAgreeHolds` | independent invariants. `IdentityInv`: at most one task initialises, the guardian holds the seed of the file, and every signature in a task is made with it. `PollInv`: what a cursor has passed was seen, or entered the table afterwards. `DurableInv`: identifiers are drawn once, and a receipt being answered is in the table. The verdicts follow from the tables of words, for any words sent: each verdict was given for its report (`Given`), and the severity decides in each bridge once the kind is fixed |
| `RelayClientProofs` | `TypeCorrect`, `VerifiedIsServedHolds`, `PublishedIsAcceptedHolds`, `NotServedIsTrueHolds`, `AuthIsRealHolds` | `BackedInv`: every frame in the stream towards the client, whoever it was meant for, is backed by what the relay stores or accepted. Nothing is ever removed from the relay's sets, so a frame stays backed however late it is read. What is *not* stored or admitted needs order: `ClientInv` says that, as long as no call was abandoned, at most one frame that asks for an answer is under way, it is the last one sent and belongs to the call in progress, or else its answer is in the stream and no answer follows it (`InStep`); and what came before is settled |
| `ValidatorProofs` (keys, traces, promotions) | `TokenIsGenuineHolds`, `SignedIsRecordedHolds`, `GenuineVerifiesHolds`, `PromotionIsHonestHolds` | `RegistryInv`: a token carries the signature that its key's holder made over its fields, and an unregistered id has no key. `TraceInv`: each recorded trace is a run of its operations from its start, so that `StepError` and `SigError` find nothing (`GenuineFollows`); a signature covers the trace's id, last hash and number of steps, which is all that `SignedIsRecorded` can say. `PromotionInv`: runs are numbered one after the other, what a run may still deposit follows from its verdict (`OnItsWay`), and each deposit counted as landed is in the field under the run's number; taking one more deposit adds one to a cardinality |
| `OmoProofs` (kernel) | `TypeCorrect`, `HarmLeavesNothingHolds`, `AuditIsSoundHolds`, `DeniedStaysDeniedHolds` | `AuditInv`: the history is a sequence of snapshots that certify; a digest decides the content of a state. `TokenInv`: ids are given once, chains hold ids already given, and a child inherits each denied path. `StateInv`: every kept state has its shape and a version no call has passed, and every state the engine has returned holds no harmful task that is pending (`Sober`): the validators look at what is pending in the state and at what is added, and an objection to harm outweighs the rest, whatever diffs callers applied before. `BranchInv`: the index of the graph lists each branch under its parent's head once, although a fork may replace the branch that bears its identifier; the tip is in the graph. `CallerInv`: what the engine and the peers keep |
| `OmoProofs` (steward) | `StewardTypeCorrect`, `RefusedLeavesNoTraceHolds`, `TakenOnceHolds`, `VerifiedIsSignedHolds` | `StewardShape` adds to the types that the histories count. `CourtInv`: what is in the channel, in a call, applied, taken or attempted has passed the court's rules, which nobody asks again. `TakenOnce` is inductive given the shape: appending to a sequence and taking its head change the number of a line's places by one. `ReceiptInv` adds to `VerifiedIsSigned` that nothing is verified before the loop has fetched the key, which it does once |
| `OmoProofs` (trail) | `TrailTypeCorrect`, `TipTellsHistoryHolds`, `RootsTellPastHolds`, `CompensationIsWarrantedHolds` | `TrailInv`: every ledger in use verifies and holds entries that append made, and every such entry has a past (`HasPast`): a verifying ledger with its previous hash for a tip, whose root it carries. A hash contains the one before, and none is contained in itself endlessly; so two chains with one tip agree from the end to the beginning (`BackFromTip`, `SameTip`), and an entry's past is the prefix before it |

What the theorems rest on: the `ASSUME`s of the modules (finite sets where a
cardinality is taken, a threshold of faulty nodes, capacities that are
positive, a value that stands for nothing and is not one of the others), which
TLC evaluates for the instances, and the abstractions of section 5.

Every safety property a run checks is proved. Only model-checked are the
liveness properties `HandledEventually`, `EveryRequestEnds`, `CallEnds` and
`EligibleIsRepaired`: TLAPS 1.4 does not reason about ENABLED.

The other way round, `SatisfiedIsEvidenced`, `EndIsFinal`, `VotesDistinct`,
`PublishedIsAccepted`, `SidesAreAlike` and `ConflictFreeMeets` are proved and no
run repeats them.

## 5. Abstractions and assumptions about the environment

- Hashes do not collide and identifiers drawn at random are fresh.
- A policy (arbitration) may answer anything, and may not be registered; that
  one never answers is not modelled, since the code bounds no wait.
- BFT: a correct node votes for one block a round; at most a third of the nodes
  is faulty; `Total` does not change.
- CRDT: a replica updates under its own node id and stamps a write after the
  writes it has seen of that key. Stamps of different nodes may be equal.
- Crashes end the process; what the operating system has been given is not
  lost. An SQLite insert happens as a whole or fails.
- A signature of the crypto kernel can be copied, and made by the key's holder
  only. Executors record what they ran; what travels may be altered.
- The socket delivers in order or is closed. HTTP answers to the steward may be
  lost or be the answer to another request; a signature cannot be forged.
- Timestamps are small numbers. `min_duration` is compared in the unit the
  code compares it in.

## 6. What was met in the code

The finding with a run: section 3. The other places where the code and what is
said of it part. No run of their own isolates them; the models contain those
about state that they keep, and the properties of section 3 are worded so that
they hold beside them:

Quarantine and daemon
- The same state, scope and reason quarantined twice makes one entry and two
  candidates; after one release the next evaluation of that id panics on the
  `unwrap` at `ze/quarantine.rs:176` (`OrphanPanics` in `Quarantine`).
- Releases and `ENFORCEMENT_SPEC.md:22` (in `crates/zangbeto-enforcement/specs/`),
  "only released via time, consensus, or resolution proofs": the first candidate
  of an id decides (`ze/quarantine.rs:170`), so a state quarantined again under
  harder terms is released on the old ones, or never, when those are not met;
  once the clock has been set back behind `created_at` the `u64` difference wraps
  and any wait is over (`:186`), so that `ReleaseIsEarned` leaves such candidates
  out; and `verify_anomaly_resolved` answers true for every trace (`:271`), so
  that it asks no evidence of an AnomalyResolved.
- The blocklist and `ENFORCEMENT_SPEC.md:21`, "Prevents reintegration of divergent
  hashes": `unblock_merges` removes every entry of a state's hash, those of other
  quarantines still in force included (`ze/quarantine.rs:284`); and
  `is_merge_allowed` looks for an entry whose `blocked_at` is 0 (`:143`), which
  `block_conflicting_merges` never writes (`:279`): no merge is ever denied.
- `created_at` is in seconds and is compared with `min_duration_ms`
  (`ze/quarantine.rs:186`).
- One failing arbitration ends the enforcement loop for good
  (`ze/daemon.rs:117`): `running` stays true, so `start()` answers AlreadyRunning.
- The list of actions that need a human holds a halt with other fields than the
  halt the ladder builds (`ze/lib.rs:130`, `ze/action_ladder.rs:177`): it never
  matches. The matcher `OrishaSpecific` matches nothing
  (`ze/action_ladder.rs:223`).
- `Critical` is documented as "always quarantine" (`ze/anomaly.rs:45`); for
  some classifications the ladder flags instead (`ze/action_ladder.rs:182`).

Consensus and memory
- A consensus takes its threshold of those who answered yes or no
  (`ze/arbitration.rs:200`) and passes over the members without a policy (`:181`):
  one vote can be all of them, against "Multi-party quorum required for critical
  actions" (`ENFORCEMENT_SPEC.md:28`). `OutcomeIsBacked` takes the same fraction.
- `contains` wants an adder's own removal (`crates/crdt-memory/src/lib.rs:79`): when
  a node removes what another added, the element stays, although the comment
  says "Element exists if added and not removed by any node" (`:78`).
  `ElementsExact` says what the code computes.
- The certificate returned is that of the slot the map yields last, not of the
  vote (`crates/consensus-bft/src/lib.rs:66`): at the vote that completes a
  quorum the answer can be `None`, and the answer to a later vote can be another
  round's certificate.
- `OrSet::merge` takes the other's stamps (`crates/crdt-memory/src/lib.rs:93`):
  memberships merge commutatively, the stamps do not. `meet` keeps the clock of
  `self` (`:183`). `HappensBefore` is what `compare` answers when self is
  *ahead*.

Bridges and relay
- A torn seed file is never repaired: every start panics at its first signature
  (`ze/guardian.rs:37`).
- A receipt is stamped before it is inserted, in whole seconds: a poller that
  has passed that second misses it (`ze/receipts.rs:145`, `:230`).
- The two bridges agree on the documented kinds only. A kind that neither knows
  is a concurrency conflict to `ze/server.rs:239`, as documented ("default for
  unknowns", `:30`), and a capability escape to `ze/http.rs:155`: at `critical` the
  first blocks and the second does not.
- `CRITICAL` is a warning to `ze/server.rs:217` and critical to
  `ze/http.rs:131`: `VerdictsAgree` is about severities written as documented.
- `authenticate` takes any OK for its answer (`ze/nostr_relay.rs:213`), all
  verifications share one subscription id (`:282`), and nothing has a timeout.
- `publish` returns `Rejected` for any CLOSED frame, whatever its subscription
  (`ze/nostr_relay.rs:259`): a relay that ends an earlier verification makes it
  report "the relay explicitly refused the event" (`:52`) of one the relay has
  not read.

Kernel
- `delegate` may widen the allowed operations and the expiry
  (`crates/omo-kernel/src/capability/mod.rs:86`), although it is to "Derive child
  token with reduced permissions" (`:81`). A denied path is compared with a path
  made with `{:?}` (`zangbeto/ir.rs:135`), so the example of the comment,
  `/memory/private` (`capability/mod.rs:11`), is no prefix of the path of the
  private memory, `/memory/Private/...`, and denies nothing to any token.
- A caller's own diff is applied with no validation (`kernel/diff.rs:44`): it may
  add a harmful task, which only the next transition refuses to pass on.
- A fork of the same head for the same reason replaces the branch, the merged
  tip included (`branching/mod.rs:90`). The head is never updated (`:13`).
- `execute` merges with confidence 0.85 under a threshold of 0.9 (`lib.rs:160`):
  never.
- A state's hash depends on the iteration order of a `HashMap`, so the audit
  (`audit/zangbeto.rs:36`) can refuse a genuine transition, and two equal
  memories can be found to diverge (`memory/consensus.rs:263`).
- The weighted threshold of the validators is truncated to an integer
  (`kernel/validators.rs:347`): a set can pass with 68 of 100.
- Some operations of a diff are skipped without a word (`kernel/diff.rs:62`).
- `verify_chain` follows the links and recomputes no entry's hash (only a comment
  does, `zangbeto/ledger.rs:106`): an altered event is accepted, although the
  method is to "Verify entire chain integrity" (`:98`). The hash covers the drift
  report and not the receipt; its field says "sha256(prev_hash + event + receipt)"
  (`:22`).
- The pipeline starts each time from the default state and predicts the default
  state (`zangbeto/pipeline.rs:73`, `:20`): it never reports a drift.
- The classifier compares the prediction with a default state
  (`zangbeto/drift.rs:203`): ethical, memory, temporal and execution drifts cannot
  come out, and a severity is at most 0.7, so neither can the rollback above it
  (`:196`).
- `reconcile` replaces the hive and leaves the state's `state_hash` as it was
  (`memory/consensus.rs:178`); the audit compares the hash fields of the state
  before, so it accepts one whose content was altered under its old hash.

Replay, keys and promotion
- `compute_hash` returns zeroes (`crates/policy-runtime/src/lib.rs:67`): the store
  holds one state, a trace is replayed from whichever was stored last, and every
  state of a replay has the hash that was recorded.
- A validator's signature covers the number of a trace's operations and not the
  operations (`crates/replay-engine/src/lib.rs:198`): with the steps changed and
  their hashes made anew the trace still verifies. Any registered key may
  sign as any orisha, and `signed_payload_hash` is never read.
- The root's signature covers the id and not the key
  (`crates/crypto-kernel/src/lib.rs:40`): it also fits the next key under that id.
- A `bounded` deposit may land without the gold it belongs to
  (`crates/waggle-promoter/src/lib.rs:84`): each is posted whatever became of the
  one before.

Diagnostic agent (`da/` for `crates/omo-diagnostic/src/`)
- A security diagnostic is in the loop's channel before its receipt is asked
  for (`da/agent/diagnostic_handler.rs:52`, the log line "awaiting Zangbeto
  verification" at `:56`): the loop may apply it to the Reality VM although the
  receipt is never given or does not verify. `todo.md:73` says "never trust a
  diagnostic that isn't signed by a Zàngbétò Guardian". `TakenOnce` does not ask
  for it: it bounds how often such a diagnostic is applied, and no more.
- A receipt signs neither the trace id nor the source (`da/zangbeto_client.rs:32`):
  it fits two diagnostics that differ in these alone.
- The archive's file name is code and trace id; `seal_week` counts the seal of
  the week before as a diagnostic (`da/agent/archive.rs:43`).
- `main` keeps a sender of its own channel in the handler, so `recv` never
  returns `None` and the archive is never sealed (`da/bin/steward.rs:60`, `:91`).
- The key fetched at the start is not fetched again: after the guardian has a
  new seed, all its receipts fail until the steward is restarted.

## 7. Not modelled, and why

- *Nostr events* (`ze/nostr_bridge.rs`): encoding, hashing and signing of
  events, computation over bytes without state or protocol. Their way to a
  relay is `RelayClient`.
- *`glyph_audit`* of the crypto kernel: pure functions over fixed tables.
- *Loading and running WASM policies*: the runtime of a library. What a policy
  answers is any answer (`Arbitration`).
- *Framing of HTTP* and the content of a receipt's detail in the bridges.
- *RollbackManager* (`ze/rollback.rs`): a list that only grows and a lookup;
  nothing calls it, the daemon's rollback action touches no point. Its
  identifiers, whole seconds and the length of the list, stay unique because
  nothing can be removed.
- *Temporal consensus* (`consensus/temporal.rs`): `RealityVM` constructs the
  engine and never calls it, so no caller says with which records it is used.
- *Reality replay* (`zangbeto/replay.rs`): nothing constructs it or fills its
  snapshots, so `rewind_to` always answers `None`, and its reconstruction of a
  state is a stub. `zangbeto/ir.rs` formats operations as text; `Kernel` models
  the paths a token is asked for.
- *Arbitration's liveness*: a policy that never answers keeps `arbitrate`
  waiting, nothing bounds the wait, so there is nothing to check.
- *Heartbeat binary*, *red and blue courts*, `apply_patch`, `seal_week`: not
  reached, or a fixed script that emits examples.
- *Shrine contracts*: `pub fun` (`zbt_diagnostics.move:186`) does not compile, so
  they have no behaviour to be faithful to.
- *Python and Julia scripts*: single passes without state.
- A u64 counter that overflows (`crates/crdt-memory/src/lib.rs:111`): the model's
  counters are unbounded naturals.

## 8. Plan

1. Proofs: what the merge policies and thresholds of `Kernel` guarantee of a merged tip.
2. Abstract specifications for the receipt store (a log with cursors) and for
   the votes (one block a round), implemented by `Bridge` and `BftVotes`.
3. When the code calls them: temporal consensus, reality replay and the rollback
   points.
