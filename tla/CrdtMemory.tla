------------------------------ MODULE CrdtMemory ------------------------------
(***************************************************************************)
(* CrdtMemory (crdt-memory): replicas that update their own copy of the    *)
(* memory and join the copies of others.  A copy that has been shared may  *)
(* arrive at any replica, any number of times, late or never.              *)
(*                                                                         *)
(* seen is a history variable: the updates a copy is based on.  What a     *)
(* copy shows must follow from these updates alone.                        *)
(***************************************************************************)
EXTENDS Integers, FiniteSetsExt

CONSTANTS
  Node,        \* node ids, as numbers: their order is the lexicographic one
  Key, Value,  \* of the public hive
  Element,     \* of the private seal
  Delta,       \* increments of the ephemeral counter
  MaxStamp,    \* bound on the timestamps callers pass
  MaxUpdates,  \* bound on the updates of all replicas together
  MaxCopies,   \* bound on the copies in the network
  Mixes,       \* bound on which operations one behaviour mixes
  Absent       \* no entry in a map

ASSUME CrdtAssumption ==
  /\ Node \subseteq Nat
  /\ MaxStamp \in Nat /\ MaxUpdates \in Nat /\ MaxCopies \in Nat
  /\ Delta \subseteq Nat

\* A map in memory has finitely many keys.
ASSUME NodesAssumption == IsFiniteSet(Node)

VARIABLES
  memory,  \* the memory of each replica
  seen,    \* the updates it is based on
  net      \* copies that have been shared

vars == <<memory, seen, net>>

Max2(a, b) == IF a >= b THEN a ELSE b

-----------------------------------------------------------------------------
(* The parts of the memory *)

Register == [value : Value, timestamp : 0..MaxStamp, node_id : Node]

\* No entry is neither a timestamp nor a register.
ASSUME AbsentAssumption == Absent \notin 0..MaxStamp /\ Absent \notin Register

\* Mutant: a later timestamp loses against a smaller node id.
RegisterMergeByNode(self, other) ==
  IF self.node_id <= other.node_id THEN self ELSE other

RegisterMerge(self, other) ==
  CASE self.timestamp > other.timestamp -> self
    [] other.timestamp > self.timestamp -> other
    [] OTHER -> IF self.node_id <= other.node_id THEN self ELSE other

HiveJoin(self, other) ==
  [k \in Key |-> CASE other[k] = Absent -> self[k]
                   [] self[k] = Absent  -> other[k]
                   [] OTHER             -> RegisterMerge(self[k], other[k])]

\* Option<OrSet>: None shows what an empty set shows, and a join treats it so.
EmptySeal == [e \in Element |->
               [added_by   |-> [n \in Node |-> Absent],
                removed_by |-> [n \in Node |-> Absent]]]

\* BTreeMap::extend: the entries of other replace those of self.
Extend(self, other) == [n \in Node |-> IF other[n] # Absent THEN other[n] ELSE self[n]]

SealMerge(self, other) ==
  [e \in Element |-> [added_by   |-> Extend(self[e].added_by, other[e].added_by),
                      removed_by |-> Extend(self[e].removed_by, other[e].removed_by)]]

Keys(map) == {n \in Node : map[n] # Absent}

\* Mutant: the removals are looked up by count, not by node.
ContainsByCount(seal, e) ==
  Cardinality(Keys(seal[e].added_by)) > Cardinality(Keys(seal[e].removed_by))

Contains(seal, e) == \E n \in Keys(seal[e].added_by) : seal[e].removed_by[n] = Absent

\* Mutant: counts of both copies are added up.
CountsMergeSum(self, other) == [n \in Node |-> self[n] + other[n]]

CountsMerge(self, other) == [n \in Node |-> Max2(self[n], other[n])]

CounterValue(counts) == MapThenSumSet(LAMBDA n : counts[n], Node)

ClockMerge(self, other) == [n \in Node |-> Max2(self[n], other[n])]

\* Mutant: one greater component decides.
CompareFirst(self, other) ==
  CASE \E n \in Node : self[n] > other[n] -> "HappensBefore"
    [] \E n \in Node : other[n] > self[n] -> "HappensAfter"
    [] OTHER -> "Equal"

Compare(self, other) ==
  LET self_greater  == \E n \in Node : self[n] > other[n]
      other_greater == \E n \in Node : other[n] > self[n]
  IN  CASE self_greater /\ ~other_greater -> "HappensBefore"
        [] other_greater /\ ~self_greater -> "HappensAfter"
        [] self_greater /\ other_greater  -> "Concurrent"
        [] OTHER                          -> "Equal"

-----------------------------------------------------------------------------
(* The memory: MergeAlgebra *)

NewMemory ==
  [public_hive  |-> [k \in Key |-> Absent],
   private_seal |-> EmptySeal,
   ephemeral    |-> [n \in Node |-> 0],
   vector_clock |-> [n \in Node |-> 0]]

Join(self, other) ==
  [public_hive  |-> HiveJoin(self.public_hive, other.public_hive),
   private_seal |-> SealMerge(self.private_seal, other.private_seal),
   ephemeral    |-> CountsMerge(self.ephemeral, other.ephemeral),
   vector_clock |-> ClockMerge(self.vector_clock, other.vector_clock)]

Filled(hive) == {k \in Key : hive[k] # Absent}

\* The keys on which two hives agree; None when both are filled and agree on none.
Common(self, other) ==
  {k \in Filled(self) \cap Filled(other) : self[k].value = other[k].value}

HasMeet(self, other) ==
  \/ Common(self.public_hive, other.public_hive) # {}
  \/ Filled(self.public_hive) = {} \/ Filled(other.public_hive) = {}

Meet(self, other) ==
  [public_hive  |-> [k \in Key |->
                      IF k \in Common(self.public_hive, other.public_hive)
                      THEN self.public_hive[k] ELSE Absent],
   private_seal |-> EmptySeal,
   ephemeral    |-> [n \in Node |-> 0],
   vector_clock |-> self.vector_clock]

ConflictSet(self, other) ==
  {k \in Filled(self.public_hive) \cup Filled(other.public_hive) :
     k \notin Common(self.public_hive, other.public_hive)}

-----------------------------------------------------------------------------
(* Updates of the own copy *)

Updates == UNION {seen[r] : r \in Node}

\* Stamps of the writes a copy is based on, per key.
Stamps(r, k) == {u.stamp : u \in {v \in seen[r] : v.op = "write" /\ v.key = k}}

Update(r, new, u) ==
  /\ Cardinality(Updates) < MaxUpdates
  /\ \E mix \in Mixes : {v.op : v \in Updates \cup {u}} \subseteq mix
  /\ memory' = [memory EXCEPT ![r] = new]
  /\ seen' = [seen EXCEPT ![r] = @ \cup {u}]
  /\ UNCHANGED net

\* public_hive.entries.insert(..): callers stamp a write later than what they
\* have of that key.
Write(r, k, v, t) ==
  /\ \A s \in Stamps(r, k) : t > s
  /\ Update(r, [memory[r] EXCEPT !.public_hive[k] =
                  [value |-> v, timestamp |-> t, node_id |-> r]],
            [op |-> "write", node |-> r, key |-> k, value |-> v, stamp |-> t])

Add(r, e, t) ==
  Update(r, [memory[r] EXCEPT !.private_seal[e].added_by[r] = t],
         [op |-> "add", node |-> r, element |-> e, stamp |-> t])

\* An element without an entry stays without one.
Remove(r, e, t) ==
  /\ Keys(memory[r].private_seal[e].added_by) # {}
  /\ Update(r, [memory[r] EXCEPT !.private_seal[e].removed_by[r] = t],
            [op |-> "remove", node |-> r, element |-> e, stamp |-> t])

Increment(r, d) ==
  LET n == memory[r].ephemeral[r] + d IN
  Update(r, [memory[r] EXCEPT !.ephemeral[r] = n],
         [op |-> "increment", node |-> r, delta |-> d, total |-> n])

\* Mutant: a tick of a node is counted on every node known.
TickAll(r) ==
  LET n == memory[r].vector_clock[r] + 1 IN
  Update(r, [memory[r] EXCEPT !.vector_clock = [m \in Node |-> @[m] + 1]],
         [op |-> "tick", node |-> r, count |-> n])

Tick(r) ==
  LET n == memory[r].vector_clock[r] + 1 IN
  Update(r, [memory[r] EXCEPT !.vector_clock[r] = n],
         [op |-> "tick", node |-> r, count |-> n])

-----------------------------------------------------------------------------
(* Copies of others *)

CopyOf(r) == [memory |-> memory[r], seen |-> seen[r]]

Share(r) ==
  /\ Cardinality(net) < MaxCopies
  /\ net' = net \cup {CopyOf(r)}
  /\ UNCHANGED <<memory, seen>>

\* Either copy may be the receiver of the call.
Receive(r, copy) ==
  /\ \/ memory' = [memory EXCEPT ![r] = Join(@, copy.memory)]
     \/ memory' = [memory EXCEPT ![r] = Join(copy.memory, @)]
  /\ seen' = [seen EXCEPT ![r] = @ \cup copy.seen]
  /\ UNCHANGED net

Init ==
  /\ memory = [r \in Node |-> NewMemory]
  /\ seen = [r \in Node |-> {}]
  /\ net = {}

LocalUpdate(r) ==
  \/ \E k \in Key, v \in Value, t \in 0..MaxStamp : Write(r, k, v, t)
  \/ \E e \in Element, t \in 0..MaxStamp : Add(r, e, t)
  \/ \E e \in Element, t \in 0..MaxStamp : Remove(r, e, t)
  \/ \E d \in Delta : Increment(r, d)
  \/ Tick(r)

Next == \E r \in Node :
  \/ LocalUpdate(r)
  \/ Share(r)
  \/ \E copy \in net : Receive(r, copy)

Spec == Init /\ [][Next]_vars

-----------------------------------------------------------------------------
(* Properties of the code *)

\* What a node holds keeps its types, and no removal is known of an element
\* without an addition: Remove and the joins leave no tombstone on its own.
TypeOK ==
  /\ \A r \in Node :
       /\ memory[r].public_hive \in [Key -> Register \cup {Absent}]
       /\ memory[r].ephemeral \in [Node -> Nat]
       /\ memory[r].vector_clock \in [Node -> Nat]
       /\ \A e \in Element, n \in Node :
            memory[r].private_seal[e].removed_by[n] # Absent
              => Keys(memory[r].private_seal[e].added_by) # {}
  /\ Cardinality(net) <= MaxCopies

Copies == net \cup {CopyOf(r) : r \in Node}

\* The hive of a copy holds, for each key, the latest write the copy is based
\* on, ties going to the smaller node id, whatever order the copies came in.
HiveHoldsLatest ==
  \A c \in Copies : \A k \in Key :
    LET writes == {u \in c.seen : u.op = "write" /\ u.key = k}
        reg == c.memory.public_hive[k]
    IN  IF writes = {} THEN reg = Absent
        ELSE /\ reg # Absent
             /\ \E u \in writes :
                  /\ reg = [value |-> u.value, timestamp |-> u.stamp, node_id |-> u.node]
                  /\ \A v \in writes :
                       v.stamp < u.stamp \/ (v.stamp = u.stamp /\ v.node >= u.node)

\* The counter counts each increment of each node once, however often and in
\* whatever order copies are joined.
CounterExact ==
  \A c \in Copies :
    CounterValue(c.memory.ephemeral)
      = LET increments == {u \in c.seen : u.op = "increment"}
        IN  MapThenSumSet(LAMBDA u : u.delta, increments)

\* A copy contains an element exactly if some node has added it and has not
\* itself removed it, in the updates the copy is based on: the joins it went
\* through leave no other trace.  This is what the code does, a removal undoes
\* the addition of its own node alone; what its comment says is RemovedIsGone.
Nodes(copy, op, e) ==
  {u.node : u \in {v \in copy.seen : v.op = op /\ v.element = e}}

ElementsExact ==
  \A c \in Copies, e \in Element :
    Contains(c.memory.private_seal, e)
      <=> Nodes(c, "add", e) \ Nodes(c, "remove", e) # {}

\* Comparing the clocks of two copies tells which of them knows more: self
\* "happens before" other when self has every tick of other and more.
Ticks(copy) == {<<u.node, u.count>> : u \in {v \in copy.seen : v.op = "tick"}}

ClockTellsKnowledge ==
  \A c, d \in Copies :
    LET causality == Compare(c.memory.vector_clock, d.memory.vector_clock) IN
    /\ causality \in {"HappensBefore", "Equal"} <=> Ticks(d) \subseteq Ticks(c)
    /\ causality \in {"HappensAfter", "Equal"} <=> Ticks(c) \subseteq Ticks(d)

\* Copies without a conflict meet, and their meet shows what their join shows.
ConflictFreeMeets ==
  \A c, d \in Copies :
    ConflictSet(c.memory, d.memory) = {} =>
      /\ HasMeet(c.memory, d.memory)
      /\ LET meet == Meet(c.memory, d.memory).public_hive
             join == Join(c.memory, d.memory).public_hive
         IN  /\ Filled(meet) = Filled(join)
             /\ \A k \in Filled(meet) : meet[k].value = join[k].value
=============================================================================
