---------------------------- MODULE StateDiffs ----------------------------
(***************************************************************************)
(* The values of omo-kernel: the canonical system state (kernel/css.rs),   *)
(* the diffs that change it (kernel/diff.rs) and the validators that judge *)
(* a diff (kernel/validators.rs).  No variables: Kernel.tla is the machine *)
(* that uses them.                                                         *)
(*                                                                         *)
(* A digest is a value that two states share exactly when the bytes hashed *)
(* are the same.  The public hive is a HashMap, and its bytes are written  *)
(* in iteration order: a map rebuilt from JSON has a hasher of its own, so *)
(* its order is any order of its keys, while a clone keeps the order.  The *)
(* hive of a state is therefore the sequence of its keys.                  *)
(***************************************************************************)
EXTENDS Integers, Sequences, FiniteSets, FiniteSetsExt, SequencesExt

CONSTANTS Intents,   \* what an agent may ask for
          Harmful,   \* the intents whose text has "harm" or "deceive"
          Keys,      \* keys of the public hive
          NoHash     \* the empty string a default state carries as its hash

ASSUME IntentsAssumption == Harmful \subseteq Intents
ASSUME KeysAssumption == IsFiniteSet(Keys)

(* A task is pending until it is done; nothing in the crate moves it on.   *)
Task == [id : Nat, intent : Intents, status : {"pending", "completed"}]

(* What is hashed: version, tasks, hive and balance. *)
Hashable == Nat \X Seq(Task) \X Seq(Keys) \X Int
ASSUME NoHashAssumption == NoHash \notin Hashable

(* Every order in which a HashMap with these keys may be iterated. *)
Orders(keys) == {q \in [1 .. Cardinality(keys) -> keys] : IsInjective(q)}

(* compute_hash: every field but state_hash, the hive in iteration order. *)
Digest(s) == <<s.version, s.tasks, s.hive, s.balance>>

Hashed(s) == [s EXCEPT !.hash = Digest(s)]

(* The hash of the memory subtree (memory/consensus.rs). *)
MemoryDigest(s) == s.hive

(* Two states that mean the same: the hive is a map, its order is nothing. *)
SameContent(s, t) ==
    /\ s.version = t.version
    /\ s.tasks = t.tasks
    /\ ToSet(s.hive) = ToSet(t.hive)
    /\ s.balance = t.balance

DefaultState ==
    [version |-> 0, tasks |-> <<>>, hive |-> <<>>, balance |-> 0, hash |-> NoHash]

-----------------------------------------------------------------------------
(* The operations of a diff; "lost" is an Add whose parent does not exist. *)
AddTask(id, intent, status) ==
    [op |-> "task", task |-> [id |-> id, intent |-> intent, status |-> status]]
AddKey(key) == [op |-> "key", key |-> key]
Increment(delta) == [op |-> "increment", delta |-> delta]
AddLost == [op |-> "lost"]

(* What one operation does to the JSON value of the state. *)
Effect(value, op) ==
    CASE op.op = "task" -> [value EXCEPT !.tasks = Append(@, op.task)]
      [] op.op = "key" -> [value EXCEPT !.keys = @ \cup {op.key}]
      [] op.op = "increment" -> [value EXCEPT !.balance = @ + op.delta]
      [] OTHER -> value

ValueOf(s) == [tasks |-> s.tasks, keys |-> ToSet(s.hive), balance |-> s.balance]

(* The value a diff leaves, its operations applied in order. *)
ValueAfter(diff, s) == FoldLeft(Effect, ValueOf(s), diff.ops)

(***************************************************************************)
(* apply_to: the states one application may leave, none when it fails: the *)
(* diff was made for another state, or an operation cannot be applied (the *)
(* operations work on a copy, so a failure in the middle changes nothing). *)
(***************************************************************************)
Applied(diff, s) ==
    IF \/ s.hash # NoHash /\ s.hash # diff.input
       \/ \E i \in DOMAIN diff.ops : diff.ops[i].op = "lost"
    THEN {}
    ELSE LET value == ValueAfter(diff, s)
         IN  {Hashed([version |-> s.version + 1, tasks |-> value.tasks, hive |-> order,
                      balance |-> value.balance, hash |-> s.hash]) :
              order \in Orders(value.keys)}

-----------------------------------------------------------------------------
(* authority_weight of each validator in the registry. *)
Weight == [eshu |-> 10, obatala |-> 8, oshun |-> 7, yemoja |-> 6, ogun |-> 9,
           oya |-> 5, shango |-> 9]

(* Eshu refuses an empty diff (no task path holds "private"). *)
EshuRefuses(diff) == diff.ops = <<>>

(* Obatala reads the pending tasks of the state and every task of the diff.*)
Pending(s) == {task \in ToSet(s.tasks) : task.status = "pending"}
Added(diff) == {diff.ops[i].task : i \in {j \in DOMAIN diff.ops : diff.ops[j].op = "task"}}
ObatalaRefuses(s, diff) ==
    \E task \in Pending(s) \cup Added(diff) : task.intent \in Harmful

(* The two validators a generated diff requires, those that refuse it. *)
Required == {"eshu", "obatala"}
Refusing(s, diff) ==
    {v \in Required : \/ v = "eshu" /\ EshuRefuses(diff)
                      \/ v = "obatala" /\ ObatalaRefuses(s, diff)}

(* ConsensusResult::resolve: 70% of the weight, the threshold cut to u16. *)
WeightOf(validators) == MapThenSumSet(LAMBDA v : Weight[v], validators)

\* Mutant: the threshold is a simple majority of the weight.
ResolveHalf(required, refusing) ==
    WeightOf(required \ refusing) >= WeightOf(required) \div 2

Resolve(required, refusing) ==
    WeightOf(required \ refusing) >= (WeightOf(required) * 7) \div 10

=============================================================================
