-------------------------------- MODULE Replay --------------------------------
(***************************************************************************)
(* The replay engine over the key registry, and the waggle promoter that   *)
(* reports a replay's outcome to the field.  Executors record traces from  *)
(* the state that is stored, validators sign them, traces travel and may   *)
(* be altered, keys are replaced meanwhile; the deposits of a promotion    *)
(* may be lost one by one.                                                 *)
(***************************************************************************)
EXTENDS KeyRegistry, Integers, Sequences, FiniteSets, SequencesExt

CONSTANTS
  TraceId, Orisha,
  Op,          \* operations, see OpType
  StartState,  \* states a caller may put into the store
  Bits,        \* width of the balance
  MaxSteps,    \* bound on the steps of a trace
  MaxSigned,   \* bound on the signatures of validators
  MaxRuns,     \* bound on the promotions
  MaxCalls,    \* bound on the calls before promotions
  Apart        \* bound: a behaviour has tokens or traces, not both

\* Only the first two kinds have a delta; those of "other" change nothing.
OpType == [kind : {"balance", "reputation", "task", "other"}, delta : Int]

CanonicalState == [balance : Int, reputation : 0..100, tasks : Nat, ticks : Nat]

\* A promotion on its way: its number, the deposits left and those that counted.
Promotion == [run : Nat, trace_id : TraceId, left : Seq({"gold", "bounded", "warn"}), landed : Nat]

ASSUME ReplayAssumption ==
  /\ Op \subseteq OpType /\ StartState \subseteq CanonicalState
  /\ None \notin CanonicalState \cup Promotion
  /\ Apart \in BOOLEAN
  /\ {Bits, MaxSteps, MaxSigned, MaxRuns, MaxCalls} \subseteq Nat

VARIABLES
  state_store,  \* the state stored under each hash, or None
  recorded,     \* the traces as executors recorded them, each with its start
  signed,       \* the signatures validators have made
  verified,     \* history: the traces that verify_trace has let through
  promotion,    \* the promotion being sent, or None
  field,        \* the deposits that reached the field
  reports,      \* what send has returned
  calls

engineVars == <<state_store, recorded, signed, verified, promotion, field, reports>>
replayVars == <<registryVars, engineVars, calls>>

ReplayInit ==
  /\ RegistryInit
  /\ state_store = [h \in {"zero", "other"} |-> None]
  /\ recorded = {} /\ signed = {} /\ verified = {}
  /\ promotion = None /\ field = {} /\ reports = {}
  /\ calls = 0

-----------------------------------------------------------------------------
(* Execution *)

\* compute_hash is the same for every state.
ComputeHash(state) == "zero"

\* Of an operation's canonical encoding: operations have distinct hashes.
HashCanonical(op) == op

Clamp(x) == IF x < 0 THEN 0 ELSE IF x > 100 THEN 100 ELSE x

\* Reputations are in hundredths.  Every operation ticks the clock.
Execute(state, op) ==
  LET ticked == [state EXCEPT !.ticks = @ + 1]
  IN  CASE op.kind = "task"       -> [ticked EXCEPT !.tasks = @ + 1]
        [] op.kind = "balance"    -> [ticked EXCEPT !.balance = @ + op.delta]
        [] op.kind = "reputation" -> [ticked EXCEPT !.reputation = Clamp(@ + op.delta)]
        [] op.kind = "other"      -> ticked

After(state, ops) == FoldLeft(Execute, state, ops)

Fits(state) == state.balance \in -(2 ^ (Bits - 1)) .. 2 ^ (Bits - 1) - 1

IrOps(trace) == [i \in 1..Len(trace.ops) |-> trace.ops[i].ir_op]

StateAfter(trace, i) ==
  After(state_store[trace.input_state_hash], SubSeq(IrOps(trace), 1, i))

\* The addition of step i leaves the range: with overflow checks a panic.
Overflows(trace, i) == ~ Fits(StateAfter(trace, i))

-----------------------------------------------------------------------------
(* verify_trace *)

StepError(trace, i) ==
  IF HashCanonical(trace.ops[i].ir_op) # trace.ops[i].op_hash THEN "op_hash_mismatch"
  ELSE IF ComputeHash(StateAfter(trace, i)) # trace.ops[i].post_state_hash
    THEN "state_hash_mismatch"
  ELSE "ok"

\* What a validator signs: the number of steps, not the steps.
SigPayload(trace, orisha) ==
  [trace_id |-> trace.trace_id, orisha |-> orisha,
   input_hash |-> trace.input_state_hash, ops_count |-> Len(trace.ops),
   output_hash |-> trace.output_state_hash]

\* Mutant: what was signed is not compared.
SigErrorKeyOnly(trace, sig) ==
  IF GetKeyByHash(sig.public_key_hash) = None THEN "key_not_found"
  ELSE IF sig.signature.key # sig.public_key_hash THEN "invalid_validator_signature"
  ELSE "ok"

SigError(trace, sig) ==
  IF GetKeyByHash(sig.public_key_hash) = None THEN "key_not_found"
  ELSE IF sig.signature # Signature(sig.public_key_hash, SigPayload(trace, sig.orisha))
    THEN "invalid_validator_signature"
  ELSE "ok"

FirstError(errors) ==
  IF \A i \in DOMAIN errors : errors[i] = "ok" THEN "ok"
  ELSE errors[CHOOSE i \in DOMAIN errors :
                errors[i] # "ok" /\ \A j \in 1 .. i - 1 : errors[j] = "ok"]

StepErrors(trace) == [i \in 1..Len(trace.ops) |-> StepError(trace, i)]

VerifyTrace(trace) ==
  LET sigs  == trace.validator_signatures
      steps == FirstError(StepErrors(trace))
      final == StateAfter(trace, Len(trace.ops))
  IN  IF state_store[trace.input_state_hash] = None THEN "state_not_found"
      ELSE IF steps # "ok" THEN steps
      ELSE IF ComputeHash(final) # trace.output_state_hash THEN "final_state_hash_mismatch"
      ELSE FirstError([i \in DOMAIN sigs |-> SigError(trace, sigs[i])])

\* With overflow checks the replay panics, unless it has stopped before.
ReplayPanics(trace) ==
  /\ state_store[trace.input_state_hash] # None
  /\ \E i \in 1..Len(trace.ops) :
       /\ Overflows(trace, i)
       /\ HashCanonical(trace.ops[i].ir_op) = trace.ops[i].op_hash
       /\ \A j \in 1 .. i - 1 : StepError(trace, j) = "ok"

-----------------------------------------------------------------------------
(* Callers of the engine *)

\* The store is a map from hashes to states, and all hashes are equal.
StoreState(state) ==
  /\ state_store' = [state_store EXCEPT ![ComputeHash(state)] = state]
  /\ UNCHANGED <<registryVars, recorded, signed, verified, promotion, field, reports>>

\* A step as an executor records it.
HonestStep(op, state) ==
  [ir_op |-> op, op_hash |-> HashCanonical(op), post_state_hash |-> ComputeHash(state)]

\* An executor runs operations on the stored state, its balance in range, and
\* records the run.
Record(trace_id, ops) ==
  LET start  == state_store["zero"]
      at(i)  == After(start, SubSeq(ops, 1, i))
      trace  == [trace_id |-> trace_id, input_state_hash |-> ComputeHash(start),
                 ops |-> [i \in 1..Len(ops) |-> HonestStep(ops[i], at(i))],
                 output_state_hash |-> ComputeHash(at(Len(ops)))]
  IN  /\ start # None
      /\ \A r \in recorded : r.trace.trace_id # trace_id
      /\ \A i \in 1..Len(ops) : Fits(at(i))
      /\ recorded' = recorded \cup {[trace |-> trace, start |-> start]}
      /\ UNCHANGED <<registryVars, state_store, signed, verified, promotion, field, reports>>

\* The holder of a key signs a recorded trace for an orisha.
Validate(trace, orisha, key) ==
  /\ signed' = signed \cup {Signature(key, SigPayload(trace, orisha))}
  /\ Cardinality(signed') <= MaxSigned
  /\ UNCHANGED <<registryVars, state_store, recorded, verified, promotion, field, reports>>

\* A recorded trace as it may be presented: as it was, under another id, without
\* its last step, or with an operation, a hash of it or a state's changed.
Copies(trace) ==
  LET n == Len(trace.ops)
  IN  {trace, [trace EXCEPT !.output_state_hash = "other"],
       [trace EXCEPT !.input_state_hash = "other"]}
      \cup {[trace EXCEPT !.trace_id = id] : id \in TraceId}
      \cup {[trace EXCEPT !.ops = SubSeq(@, 1, i - 1)] : i \in 1..n}
      \cup {[trace EXCEPT !.ops[i].ir_op = op] : i \in 1..n, op \in Op}
      \cup {[trace EXCEPT !.ops[i] = [ir_op |-> op, op_hash |-> HashCanonical(op),
                                     post_state_hash |-> @.post_state_hash]] :
              i \in 1..n, op \in Op}
      \cup {[trace EXCEPT !.ops[i].post_state_hash = "other"] : i \in 1..n}

ValidatorSignature(orisha, key, s) ==
  [orisha |-> orisha, public_key_hash |-> key, signature |-> s]

WithSignatures(trace, sigs) ==
  [trace_id |-> trace.trace_id, input_state_hash |-> trace.input_state_hash, ops |-> trace.ops,
   output_state_hash |-> trace.output_state_hash, validator_signatures |-> sigs]

-----------------------------------------------------------------------------
(* Promotion *)

\* Mutant: gold is written before the verdict is looked at.
DepositsEager(passed, robust) ==
  IF robust THEN <<"gold", "bounded">> ELSE IF passed THEN <<"gold">> ELSE <<"warn">>

\* The kinds of the deposits; gold and bounded have the tier
\* "zangbeto-verified", warn has "watch-derived".
Deposits(passed, robust) ==
  IF ~ passed THEN <<"warn">>
  ELSE IF robust THEN <<"gold", "bounded">> ELSE <<"gold">>

\* A trace is verified and the outcome promoted.  A panic promotes nothing.
VerifyAndPromote(trace, robust) ==
  LET passed == VerifyTrace(trace) = "ok"
  IN  /\ promotion = None /\ Cardinality(reports) < MaxRuns
      /\ verified' = IF passed THEN verified \cup {trace} ELSE verified
      /\ promotion' = [run |-> Cardinality(reports), trace_id |-> trace.trace_id,
                       left |-> Deposits(passed, robust), landed |-> 0]
      /\ UNCHANGED <<registryVars, state_store, recorded, signed, field, reports>>

Deposit == [run |-> promotion.run, receipt |-> promotion.trace_id, kind |-> Head(promotion.left)]

\* Mutant: a deposit that was written counts, answered or not.
PostAnyway(outcome) ==
  /\ promotion # None /\ promotion.left # <<>>
  /\ field' = IF outcome = "lost" THEN field ELSE field \cup {Deposit}
  /\ promotion' = [promotion EXCEPT !.left = Tail(@), !.landed = @ + 1]
  /\ UNCHANGED <<registryVars, state_store, recorded, signed, verified, reports>>

\* One deposit is posted.  It is stored and answered with 200, stored with the
\* answer lost or late, or lost; only the first counts.
Post(outcome) ==
  /\ promotion # None /\ promotion.left # <<>>
  /\ field' = IF outcome = "lost" THEN field ELSE field \cup {Deposit}
  /\ promotion' = [promotion EXCEPT !.left = Tail(@),
                                    !.landed = IF outcome = "stored" THEN @ + 1 ELSE @]
  /\ UNCHANGED <<registryVars, state_store, recorded, signed, verified, reports>>

SendReturns ==
  /\ promotion # None /\ promotion.left = <<>>
  /\ reports' = reports \cup {[run |-> promotion.run, count |-> promotion.landed]}
  /\ promotion' = None
  /\ UNCHANGED <<registryVars, state_store, recorded, signed, verified, field>>

-----------------------------------------------------------------------------

\* What precedes the promotions: calls of the root, of key holders, executors
\* and validators, in any order.
Prepare ==
  \/ /\ \E id \in KeyId : RootEndorses(id) \/ \E key \in Key : RegisterKey(id, key)
     /\ UNCHANGED engineVars
  \/ /\ Apart => recorded = {}
     /\ \/ \E claim \in Claim, expiry \in 0..MaxTime, key \in Key, id \in KeyId :
             SignToken(claim, expiry, key, id)
        \/ ClockChange
     /\ UNCHANGED engineVars
  \/ \E state \in StartState : StoreState(state)
  \/ /\ Apart => tokens = {} /\ now = 0
     /\ \E id \in TraceId, n \in 0..MaxSteps : \E ops \in [1..n -> Op] : Record(id, ops)
  \/ \E r \in recorded, orisha \in Orisha, key \in Key : Validate(r.trace, orisha, key)

\* A trace is presented with signatures of validators, of this trace or not.
Promote ==
  \E r \in recorded, m \in 0..MaxSigned, robust \in BOOLEAN :
  \E copy \in Copies(r.trace),
     sigs \in [1..m -> {ValidatorSignature(o, key, s) : o \in Orisha, key \in Key, s \in signed}] :
    VerifyAndPromote(WithSignatures(copy, sigs), robust)

ReplayNext ==
  \/ Prepare /\ calls < MaxCalls /\ calls' = calls + 1
  \/ /\ \/ Promote
        \/ \E outcome \in {"stored", "unanswered", "lost"} : Post(outcome)
        \/ SendReturns
     /\ UNCHANGED calls

ReplaySpec == ReplayInit /\ [][ReplayNext]_replayVars
-----------------------------------------------------------------------------
(* Properties of the code *)

\* A trace that verifies and is signed at all is, but for its steps, the one
\* that an executor recorded: same id, same hashes, as many steps.  A signature
\* of another trace, or of a key that is not the one it is given for, is not
\* enough, whatever was done to the trace on its way.
SignedIsRecorded ==
  \A t \in verified : t.validator_signatures # <<>> =>
    \E r \in recorded : \A o \in Orisha : SigPayload(t, o) = SigPayload(r.trace, o)

\* A trace verifies as it was recorded and signed, as long as its validators'
\* keys are registered, whatever else was registered, replaced or stored in
\* the meantime; and its replay does not panic while the state it was recorded
\* from is the one stored.
GenuineVerifies ==
  \A r \in recorded, o \in Orisha, key \in Registered :
    LET s == Signature(key, SigPayload(r.trace, o))
        t == WithSignatures(r.trace, <<ValidatorSignature(o, key, s)>>)
    IN  s \in signed => /\ VerifyTrace(t) = "ok"
                        /\ state_store["zero"] = r.start => ~ ReplayPanics(t)

\* What a promotion leaves on the field was earned, although its deposits are
\* lost one by one: gold and bounded only of a trace that verified, and no
\* warning beside them in one run; and send never counts more than has landed.
PromotionIsHonest ==
  /\ \A d \in field : d.kind # "warn" =>
       /\ \E t \in verified : t.trace_id = d.receipt
       /\ \A e \in field : e.run = d.run => e.kind # "warn"
  /\ \A r \in reports : r.count <= Cardinality({d \in field : d.run = r.run})
=============================================================================
