--------------------------- MODULE CrdtMemoryProofs ---------------------------
(***************************************************************************)
(* Proofs about CrdtMemory, for every set of nodes and every number of     *)
(* copies.  The clock of a copy counts, for each node, the ticks the copy  *)
(* is based on, and so comparing clocks compares knowledge.  The hive and  *)
(* the seal of a copy are what the updates it is based on make of them,    *)
(* whatever copies were joined, in whatever order and however often.       *)
(* A counter is a sum over nodes; sums over finite sets are first shown    *)
(* not to depend on the order of summing, by a smallest counterexample.    *)
(***************************************************************************)
EXTENDS CrdtMemory, FiniteSetTheorems, WellFoundedInduction, TLAPS

\* The ticks of n that a set of updates holds.
TicksOf(updates, n) == {u.count : u \in {v \in updates : v.op = "tick" /\ v.node = n}}

\* A clock that counts exactly the ticks in a set of updates, which are those
\* of nodes.
Counts(clock, updates) ==
  /\ clock \in [Node -> Nat]
  /\ \A u \in updates : u.op = "tick" => u.node \in Node
  /\ \A n \in Node : TicksOf(updates, n) = 1..clock[n]

Fields == {"public_hive", "private_seal", "ephemeral", "vector_clock"}

ClockInv ==
  /\ DOMAIN memory = Node /\ DOMAIN seen = Node
  /\ \A r \in Node : DOMAIN memory[r] = Fields
  /\ \A r \in Node : Counts(memory[r].vector_clock, seen[r])
  /\ \A c \in net : Counts(c.memory.vector_clock, c.seen)

-----------------------------------------------------------------------------
(* Lemmas about clocks *)

LEMMA IntervalUnion ==
  ASSUME NEW a \in Nat, NEW b \in Nat
  PROVE  (1..a) \cup (1..b) = 1..Max2(a, b)
  BY DEF Max2

LEMMA IntervalOrder ==
  ASSUME NEW a \in Nat, NEW b \in Nat
  PROVE  1..a \subseteq 1..b <=> a <= b
<1>1. a <= b => 1..a \subseteq 1..b
  OBVIOUS
<1>2. ASSUME 1..a \subseteq 1..b, ~(a <= b)
      PROVE  FALSE
  <2>1. a \in 1..a
    BY <1>2
  <2> QED
    BY <1>2, <2>1
<1> QED
  BY <1>1, <1>2

LEMMA IntervalNext ==
  ASSUME NEW a \in Nat
  PROVE  (1..a) \cup {a + 1} = 1..(a + 1)
  OBVIOUS

LEMMA TicksOfOne ==
  ASSUME NEW u, NEW n, u.op = "tick"
  PROVE  /\ u.node = n => TicksOf({u}, n) = {u.count}
         /\ u.node # n => TicksOf({u}, n) = {}
<1> DEFINE T == {v \in {u} : v.op = "tick" /\ v.node = n}
<1>1. TicksOf({u}, n) = {v.count : v \in T}
  BY DEF TicksOf
<1>2. u.node = n => T = {u}
  OBVIOUS
<1>3. u.node # n => T = {}
  OBVIOUS
<1> QED
  BY <1>1, <1>2, <1>3

\* Merging clocks is joining knowledge.
LEMMA MergeCounts ==
  ASSUME NEW c, NEW d, NEW S, NEW T, Counts(c, S), Counts(d, T)
  PROVE  Counts(ClockMerge(c, d), S \cup T) /\ Counts(ClockMerge(d, c), S \cup T)
<1>1. ASSUME NEW x, NEW y, NEW U, NEW V, Counts(x, U), Counts(y, V)
      PROVE  Counts(ClockMerge(x, y), U \cup V)
  <2>1. \A n \in Node : x[n] \in Nat /\ y[n] \in Nat
    BY <1>1 DEF Counts
  <2>2. ClockMerge(x, y) \in [Node -> Nat]
    BY <2>1 DEF ClockMerge, Max2
  <2>3. ASSUME NEW n \in Node
        PROVE  TicksOf(U \cup V, n) = 1..ClockMerge(x, y)[n]
    <3>1. TicksOf(U \cup V, n) = (1..x[n]) \cup (1..y[n])
      <4>1. TicksOf(U, n) = 1..x[n] /\ TicksOf(V, n) = 1..y[n]
        BY <1>1 DEF Counts
      <4>2. TicksOf(U \cup V, n) = TicksOf(U, n) \cup TicksOf(V, n)
        BY DEF TicksOf
      <4> QED
        BY <4>1, <4>2
    <3>2. ClockMerge(x, y)[n] = Max2(x[n], y[n])
      BY DEF ClockMerge
    <3>3. (1..x[n]) \cup (1..y[n]) = 1..Max2(x[n], y[n])
      BY <2>1, IntervalUnion
    <3> QED
      BY <3>1, <3>2, <3>3
  <2> QED
    BY <1>1, <2>2, <2>3 DEF Counts
<1>2. S \cup T = T \cup S
  OBVIOUS
<1> QED
  BY <1>1, <1>2

\* An update that is no tick is not counted.
LEMMA OtherUpdate ==
  ASSUME NEW c, NEW S, NEW u, Counts(c, S), u.op # "tick"
  PROVE  Counts(c, S \cup {u})
<1>1. \A n \in Node : TicksOf(S \cup {u}, n) = TicksOf(S, n)
  BY DEF TicksOf
<1> QED
  BY <1>1 DEF Counts

\* A tick of a node is counted once, on that node.
LEMMA TickUpdate ==
  ASSUME NEW c, NEW S, NEW r \in Node, Counts(c, S)
  PROVE  LET u == [op |-> "tick", node |-> r, count |-> c[r] + 1]
         IN  Counts([c EXCEPT ![r] = c[r] + 1], S \cup {u})
<1> DEFINE u == [op |-> "tick", node |-> r, count |-> c[r] + 1]
           d == [c EXCEPT ![r] = c[r] + 1]
<1>1. c \in [Node -> Nat] /\ d \in [Node -> Nat]
  BY DEF Counts
<1>2. ASSUME NEW n \in Node
      PROVE  TicksOf(S \cup {u}, n) = 1..d[n]
  <2>1. TicksOf(S, n) = 1..c[n]
    BY DEF Counts
  <2>0. TicksOf(S \cup {u}, n) = TicksOf(S, n) \cup TicksOf({u}, n)
    <3> HIDE DEF u
    <3> QED
      BY DEF TicksOf
  <2>2. CASE n = r
    <3>1. TicksOf({u}, n) = {c[n] + 1}
      <4>1. u.op = "tick" /\ u.node = n /\ u.count = c[n] + 1
        BY <2>2
      <4> HIDE DEF u
      <4> QED
        BY <4>1, TicksOfOne
    <3>2. d[n] = c[n] + 1 /\ c[n] \in Nat
      BY <1>1, <2>2
    <3>3. TicksOf(S \cup {u}, n) = (1..c[n]) \cup {c[n] + 1}
      BY <2>0, <2>1, <3>1
    <3> QED
      BY <3>2, <3>3, IntervalNext
  <2>3. CASE n # r
    <3>1. TicksOf({u}, n) = {}
      <4>1. u.op = "tick" /\ u.node # n
        BY <2>3
      <4> HIDE DEF u
      <4> QED
        BY <4>1, TicksOfOne
    <3>2. d[n] = c[n]
      BY <1>1, <2>3
    <3> QED
      BY <2>0, <2>1, <3>1, <3>2
  <2> QED
    BY <2>2, <2>3
<1>3. \A v \in S \cup {u} : v.op = "tick" => v.node \in Node
  BY DEF Counts
<1> QED
  BY <1>1, <1>2, <1>3 DEF Counts

-----------------------------------------------------------------------------
(* The invariant *)

LEMMA InitClockInv == Init => ClockInv
<1> SUFFICES ASSUME Init
             PROVE  ClockInv
  OBVIOUS
<1>1. \A r \in Node : DOMAIN NewMemory = Fields /\ memory[r] = NewMemory /\ seen[r] = {}
  BY DEF Init, NewMemory, Fields
<1>2. Counts(NewMemory.vector_clock, {})
  BY DEF NewMemory, Counts, TicksOf
<1> QED
  BY <1>1, <1>2 DEF Init, ClockInv

\* An update of one copy keeps the invariant if it keeps it for that copy.
LEMMA UpdateKeeps ==
  ASSUME ClockInv, NEW r \in Node, NEW new, NEW u, Update(r, new, u),
         DOMAIN new = Fields, Counts(new.vector_clock, seen[r] \cup {u})
  PROVE  ClockInv'
<1>1. /\ memory' = [memory EXCEPT ![r] = new]
      /\ seen' = [seen EXCEPT ![r] = @ \cup {u}]
      /\ net' = net
  BY DEF Update
<1>2. DOMAIN memory' = Node /\ DOMAIN seen' = Node
  BY <1>1 DEF ClockInv
<1>3. /\ memory'[r] = new /\ seen'[r] = seen[r] \cup {u}
      /\ \A s \in Node \ {r} : memory'[s] = memory[s] /\ seen'[s] = seen[s]
  BY <1>1 DEF ClockInv
<1> QED
  BY <1>1, <1>2, <1>3 DEF ClockInv

LEMMA LocalUpdateKeeps ==
  ASSUME ClockInv, NEW r \in Node, LocalUpdate(r)
  PROVE  ClockInv'
<1>0. DOMAIN memory[r] = Fields /\ Counts(memory[r].vector_clock, seen[r])
  BY DEF ClockInv
<1>1. ASSUME NEW new, NEW u, Update(r, new, u), DOMAIN new = Fields, u.op # "tick",
             new.vector_clock = memory[r].vector_clock
      PROVE  ClockInv'
  BY <1>0, <1>1, OtherUpdate, UpdateKeeps
<1>2. ASSUME NEW k \in Key, NEW v \in Value, NEW t \in 0..MaxStamp, Write(r, k, v, t)
      PROVE  ClockInv'
  BY <1>0, <1>1, <1>2 DEF Write, Fields
<1>3. ASSUME NEW e \in Element, NEW t \in 0..MaxStamp, Add(r, e, t)
      PROVE  ClockInv'
  BY <1>0, <1>1, <1>3 DEF Add, Fields
<1>4. ASSUME NEW e \in Element, NEW t \in 0..MaxStamp, Remove(r, e, t)
      PROVE  ClockInv'
  BY <1>0, <1>1, <1>4 DEF Remove, Fields
<1>5. ASSUME NEW d \in Delta, Increment(r, d)
      PROVE  ClockInv'
  BY <1>0, <1>1, <1>5 DEF Increment, Fields
<1>6. ASSUME Tick(r)
      PROVE  ClockInv'
  <2> DEFINE c == memory[r].vector_clock
             new == [memory[r] EXCEPT !.vector_clock[r] = c[r] + 1]
             u == [op |-> "tick", node |-> r, count |-> c[r] + 1]
  <2>1. Update(r, new, u)
    BY <1>6 DEF Tick
  <2>2. DOMAIN new = Fields /\ new.vector_clock = [c EXCEPT ![r] = c[r] + 1]
    BY <1>0 DEF Fields
  <2>3. Counts([c EXCEPT ![r] = c[r] + 1], seen[r] \cup {u})
    BY <1>0, TickUpdate
  <2> QED
    BY <2>1, <2>2, <2>3, UpdateKeeps
<1> QED
  BY <1>2, <1>3, <1>4, <1>5, <1>6 DEF LocalUpdate

LEMMA ReceiveKeeps ==
  ASSUME ClockInv, NEW r \in Node, NEW copy \in net, Receive(r, copy)
  PROVE  ClockInv'
<1>1. Counts(memory[r].vector_clock, seen[r]) /\ Counts(copy.memory.vector_clock, copy.seen)
  BY DEF ClockInv
<1>2. PICK new : /\ new \in {Join(memory[r], copy.memory), Join(copy.memory, memory[r])}
                 /\ memory' = [memory EXCEPT ![r] = new]
  BY DEF Receive
<1>3. DOMAIN new = Fields /\ Counts(new.vector_clock, seen[r] \cup copy.seen)
  BY <1>1, <1>2, MergeCounts DEF Join, Fields
<1>4. seen' = [seen EXCEPT ![r] = @ \cup copy.seen] /\ net' = net
  BY DEF Receive
<1>5. DOMAIN memory' = Node /\ DOMAIN seen' = Node
  BY <1>2, <1>4 DEF ClockInv
<1>6. /\ memory'[r] = new /\ seen'[r] = seen[r] \cup copy.seen
      /\ \A s \in Node \ {r} : memory'[s] = memory[s] /\ seen'[s] = seen[s]
  BY <1>2, <1>4 DEF ClockInv
<1> QED
  BY <1>3, <1>4, <1>5, <1>6 DEF ClockInv

LEMMA StepClockInv == ClockInv /\ [Next]_vars => ClockInv'
<1> SUFFICES ASSUME ClockInv, [Next]_vars
             PROVE  ClockInv'
  OBVIOUS
<1>1. ASSUME NEW r \in Node, Share(r)
      PROVE  ClockInv'
  <2>1. /\ memory' = memory /\ seen' = seen
        /\ \A c \in net' : c \in net \/ (c.memory = memory[r] /\ c.seen = seen[r])
    BY <1>1 DEF Share, CopyOf
  <2> QED
    BY <2>1 DEF ClockInv
<1>2. CASE UNCHANGED vars
  BY <1>2 DEF vars, ClockInv
<1> QED
  BY <1>1, <1>2, LocalUpdateKeeps, ReceiveKeeps DEF Next

-----------------------------------------------------------------------------
(* Comparing clocks *)

LEMMA CompareKnowledge ==
  ASSUME NEW c, NEW d, Counts(c.memory.vector_clock, c.seen),
         Counts(d.memory.vector_clock, d.seen)
  PROVE  Ticks(d) \subseteq Ticks(c)
           <=> \A n \in Node : d.memory.vector_clock[n] <= c.memory.vector_clock[n]
<1> DEFINE C == c.memory.vector_clock
           D == d.memory.vector_clock
<1>1. \A n \in Node : C[n] \in Nat /\ D[n] \in Nat
  BY DEF Counts
<1>2. Ticks(d) \subseteq Ticks(c)
        <=> \A n \in Node : TicksOf(d.seen, n) \subseteq TicksOf(c.seen, n)
  <2>1. \A u \in d.seen \cup c.seen : u.op = "tick" => u.node \in Node
    BY DEF Counts
  <2>2. \A n, x : <<n, x>> \in Ticks(d) <=> n \in Node /\ x \in TicksOf(d.seen, n)
    BY <2>1 DEF Ticks, TicksOf
  <2>3. \A n, x : <<n, x>> \in Ticks(c) <=> n \in Node /\ x \in TicksOf(c.seen, n)
    BY <2>1 DEF Ticks, TicksOf
  <2>4. \A p \in Ticks(d) : p = <<p[1], p[2]>>
    BY DEF Ticks
  <2>5. ASSUME Ticks(d) \subseteq Ticks(c), NEW n \in Node, NEW x \in TicksOf(d.seen, n)
        PROVE  x \in TicksOf(c.seen, n)
    <3>1. <<n, x>> \in Ticks(d)
      BY <2>2
    <3> QED
      BY <2>3, <2>5, <3>1
  <2>6. ASSUME \A n \in Node : TicksOf(d.seen, n) \subseteq TicksOf(c.seen, n),
               NEW p \in Ticks(d)
        PROVE  p \in Ticks(c)
    <3>1. <<p[1], p[2]>> \in Ticks(d)
      BY <2>4
    <3>2. p[1] \in Node /\ p[2] \in TicksOf(d.seen, p[1])
      BY <2>2, <3>1
    <3>3. <<p[1], p[2]>> \in Ticks(c)
      BY <2>3, <2>6, <3>2
    <3> QED
      BY <2>4, <3>3
  <2> QED
    BY <2>5, <2>6
<1>3. \A n \in Node : TicksOf(d.seen, n) = 1..D[n] /\ TicksOf(c.seen, n) = 1..C[n]
  BY DEF Counts
<1>4. \A n \in Node : 1..D[n] \subseteq 1..C[n] <=> D[n] <= C[n]
  BY <1>1, IntervalOrder
<1> QED
  BY <1>2, <1>3, <1>4

\* The order of the clocks is the order of what the copies know.
THEOREM ClockTellsKnowledgeHolds == Spec => []ClockTellsKnowledge
<1>1. ASSUME ClockInv
      PROVE  ClockTellsKnowledge
  <2> SUFFICES ASSUME NEW c \in Copies, NEW d \in Copies
               PROVE  LET causality == Compare(c.memory.vector_clock, d.memory.vector_clock) IN
                      /\ causality \in {"HappensBefore", "Equal"} <=> Ticks(d) \subseteq Ticks(c)
                      /\ causality \in {"HappensAfter", "Equal"} <=> Ticks(c) \subseteq Ticks(d)
    BY DEF ClockTellsKnowledge
  <2>1. \A x \in Copies : Counts(x.memory.vector_clock, x.seen)
    BY <1>1 DEF ClockInv, Copies, CopyOf
  <2> DEFINE C == c.memory.vector_clock
             D == d.memory.vector_clock
  <2>2. \A n \in Node : C[n] \in Nat /\ D[n] \in Nat
    BY <2>1 DEF Counts
  <2>3. Ticks(d) \subseteq Ticks(c) <=> ~\E n \in Node : D[n] > C[n]
    BY <2>1, <2>2, CompareKnowledge
  <2>4. Ticks(c) \subseteq Ticks(d) <=> ~\E n \in Node : C[n] > D[n]
    BY <2>1, <2>2, CompareKnowledge
  <2> HIDE DEF C, D
  <2> QED
    BY <2>3, <2>4 DEF Compare, C, D
<1> QED
  BY <1>1, InitClockInv, StepClockInv, PTL DEF Spec

-----------------------------------------------------------------------------
(* The hive and the seal of a copy follow from its updates *)

WritesTo(updates, k) == {u \in updates : u.op = "write" /\ u.key = k}

\* The register is the latest of the writes, ties going to the smaller node.
Latest(reg, writes) ==
  IF writes = {} THEN reg = Absent
  ELSE /\ reg # Absent
       /\ \E u \in writes :
            /\ reg = [value |-> u.value, timestamp |-> u.stamp, node_id |-> u.node]
            /\ \A v \in writes : v.stamp < u.stamp \/ (v.stamp = u.stamp /\ v.node >= u.node)

NodesOf(updates, op, e) == {u.node : u \in {v \in updates : v.op = op /\ v.element = e}}

Stamped(updates) ==
  \A u \in updates :
    /\ u.op = "write" => u.value \in Value /\ u.stamp \in 0..MaxStamp /\ u.node \in Node
    /\ u.op \in {"add", "remove"} => u.node \in Node

HiveOf(hive, updates) ==
  /\ hive \in [Key -> Register \cup {Absent}]
  /\ \A k \in Key : Latest(hive[k], WritesTo(updates, k))

Entries == [Node -> (0..MaxStamp) \cup {Absent}]

SealOf(seal, updates) ==
  /\ seal \in [Element -> [added_by : Entries, removed_by : Entries]]
  /\ \A e \in Element, n \in Node :
       /\ seal[e].added_by[n] # Absent <=> n \in NodesOf(updates, "add", e)
       /\ seal[e].removed_by[n] # Absent <=> n \in NodesOf(updates, "remove", e)
       /\ seal[e].removed_by[n] # Absent => Keys(seal[e].added_by) # {}

Based(m, updates) ==
  /\ DOMAIN m = Fields
  /\ Stamped(updates)
  /\ HiveOf(m.public_hive, updates)
  /\ SealOf(m.private_seal, updates)
  /\ m.ephemeral \in [Node -> Nat]

DataInv ==
  /\ DOMAIN memory = Node /\ DOMAIN seen = Node
  /\ \A r \in Node : Based(memory[r], seen[r])
  /\ \A c \in net : Based(c.memory, c.seen)
  /\ IsFiniteSet(net) /\ Cardinality(net) <= MaxCopies

-----------------------------------------------------------------------------
(* Joining copies *)

\* The register of a join is the latest of the writes of both.
LEMMA LatestJoin ==
  ASSUME NEW a, NEW b, NEW W, NEW V, W # {}, V # {}, Latest(a, W), Latest(b, V),
         \A u \in W \cup V : u.stamp \in Nat /\ u.node \in Nat
  PROVE  Latest(RegisterMerge(a, b), W \cup V)
<1>1. PICK u \in W :
        /\ a = [value |-> u.value, timestamp |-> u.stamp, node_id |-> u.node]
        /\ \A x \in W : x.stamp < u.stamp \/ (x.stamp = u.stamp /\ x.node >= u.node)
  BY DEF Latest
<1>2. PICK v \in V :
        /\ b = [value |-> v.value, timestamp |-> v.stamp, node_id |-> v.node]
        /\ \A x \in V : x.stamp < v.stamp \/ (x.stamp = v.stamp /\ x.node >= v.node)
  BY DEF Latest
<1>3. /\ a.timestamp = u.stamp /\ a.node_id = u.node
      /\ b.timestamp = v.stamp /\ b.node_id = v.node
  BY <1>1, <1>2
<1>4. /\ u.stamp \in Nat /\ u.node \in Nat /\ v.stamp \in Nat /\ v.node \in Nat
      /\ a # Absent /\ b # Absent
  BY DEF Latest
<1>5. CASE u.stamp > v.stamp \/ (u.stamp = v.stamp /\ u.node <= v.node)
  <2>1. RegisterMerge(a, b) = a
    BY <1>3, <1>4, <1>5 DEF RegisterMerge
  <2>2. \A x \in W \cup V : x.stamp < u.stamp \/ (x.stamp = u.stamp /\ x.node >= u.node)
    BY <1>1, <1>2, <1>4, <1>5
  <2> QED
    BY <1>1, <1>4, <2>1, <2>2 DEF Latest
<1>6. CASE v.stamp > u.stamp \/ (u.stamp = v.stamp /\ v.node < u.node)
  <2>1. RegisterMerge(a, b) = b
    BY <1>3, <1>4, <1>6 DEF RegisterMerge
  <2>2. \A x \in W \cup V : x.stamp < v.stamp \/ (x.stamp = v.stamp /\ x.node >= v.node)
    BY <1>1, <1>2, <1>4, <1>6
  <2> QED
    BY <1>2, <1>4, <2>1, <2>2 DEF Latest
<1> QED
  BY <1>4, <1>5, <1>6

LEMMA RegisterMergeIsOne ==
  ASSUME NEW a, NEW b
  PROVE  RegisterMerge(a, b) = a \/ RegisterMerge(a, b) = b
  BY DEF RegisterMerge

LEMMA HiveJoins ==
  ASSUME NEW g, NEW h, NEW S, NEW T, HiveOf(g, S), HiveOf(h, T), Stamped(S), Stamped(T)
  PROVE  HiveOf(HiveJoin(g, h), S \cup T)
<1> DEFINE j == HiveJoin(g, h)
<1>1. ASSUME NEW k \in Key
      PROVE  /\ j[k] \in Register \cup {Absent}
             /\ Latest(j[k], WritesTo(S \cup T, k))
  <2> DEFINE W == WritesTo(S, k)
             V == WritesTo(T, k)
  <2>1. WritesTo(S \cup T, k) = W \cup V
    BY DEF WritesTo
  <2>2. /\ Latest(g[k], W) /\ Latest(h[k], V)
        /\ g[k] \in Register \cup {Absent} /\ h[k] \in Register \cup {Absent}
    BY DEF HiveOf
  <2>3. j[k] = CASE h[k] = Absent -> g[k]
                 [] g[k] = Absent -> h[k]
                 [] OTHER -> RegisterMerge(g[k], h[k])
    BY DEF HiveJoin
  <2>4. \A u \in W \cup V : u.stamp \in Nat /\ u.node \in Nat
    <3>1. \A u \in W \cup V : u.stamp \in 0..MaxStamp /\ u.node \in Node
      BY DEF Stamped, WritesTo
    <3>2. \A x \in 0..MaxStamp : x \in Nat
      BY CrdtAssumption
    <3> HIDE DEF W, V
    <3> QED
      BY <3>1, <3>2, CrdtAssumption
  <2>5. /\ W = {} <=> g[k] = Absent
        /\ V = {} <=> h[k] = Absent
    BY <2>2 DEF Latest
  <2> HIDE DEF W, V, j
  <2>6. CASE h[k] = Absent
    BY <2>1, <2>2, <2>3, <2>5, <2>6
  <2>7. CASE h[k] # Absent /\ g[k] = Absent
    <3>1. j[k] = h[k] /\ W = {}
      BY <2>3, <2>5, <2>7
    <3> QED
      BY <2>1, <2>2, <3>1
  <2>8. CASE h[k] # Absent /\ g[k] # Absent
    <3>1. j[k] = RegisterMerge(g[k], h[k]) /\ W # {} /\ V # {}
      BY <2>3, <2>5, <2>8
    <3>2. Latest(j[k], W \cup V)
      BY <2>2, <2>4, <3>1, LatestJoin
    <3> QED
      BY <2>1, <2>2, <3>1, <3>2, RegisterMergeIsOne
  <2> QED
    BY <2>6, <2>7, <2>8
<1>2. j = [k \in Key |-> j[k]]
  BY DEF HiveJoin
<1> QED
  BY <1>1, <1>2 DEF HiveOf

LEMMA ExtendJoins ==
  ASSUME NEW f \in Entries, NEW g \in Entries
  PROVE  /\ Extend(f, g) \in Entries
         /\ \A n \in Node : Extend(f, g)[n] # Absent <=> f[n] # Absent \/ g[n] # Absent
  BY DEF Extend, Entries

LEMMA SealJoins ==
  ASSUME NEW s, NEW t, NEW S, NEW T, SealOf(s, S), SealOf(t, T)
  PROVE  SealOf(SealMerge(s, t), S \cup T)
<1> DEFINE j == SealMerge(s, t)
<1>1. ASSUME NEW e \in Element
      PROVE  /\ s[e].added_by \in Entries /\ s[e].removed_by \in Entries
             /\ t[e].added_by \in Entries /\ t[e].removed_by \in Entries
             /\ j[e] = [added_by   |-> Extend(s[e].added_by, t[e].added_by),
                        removed_by |-> Extend(s[e].removed_by, t[e].removed_by)]
  BY DEF SealOf, SealMerge
<1>2. j \in [Element -> [added_by : Entries, removed_by : Entries]]
  <2>1. ASSUME NEW e \in Element
        PROVE  j[e] \in [added_by : Entries, removed_by : Entries]
    <3> HIDE DEF j
    <3>1. /\ Extend(s[e].added_by, t[e].added_by) \in Entries
          /\ Extend(s[e].removed_by, t[e].removed_by) \in Entries
      BY <1>1, <2>1, ExtendJoins
    <3>2. j[e] = [added_by   |-> Extend(s[e].added_by, t[e].added_by),
                  removed_by |-> Extend(s[e].removed_by, t[e].removed_by)]
      BY <1>1, <2>1, Zenon
    <3> QED
      BY <3>1, <3>2
  <2>2. j = [e \in Element |-> j[e]]
    BY DEF SealMerge
  <2> HIDE DEF j
  <2> QED
    BY <2>1, <2>2
<1>3. ASSUME NEW e \in Element, NEW n \in Node
      PROVE  /\ j[e].added_by[n] # Absent <=> n \in NodesOf(S \cup T, "add", e)
             /\ j[e].removed_by[n] # Absent <=> n \in NodesOf(S \cup T, "remove", e)
             /\ j[e].removed_by[n] # Absent => Keys(j[e].added_by) # {}
  <2>1. \A op : NodesOf(S \cup T, op, e) = NodesOf(S, op, e) \cup NodesOf(T, op, e)
    BY DEF NodesOf
  <2>2. /\ j[e].added_by = Extend(s[e].added_by, t[e].added_by)
        /\ j[e].removed_by = Extend(s[e].removed_by, t[e].removed_by)
    <3> HIDE DEF j
    <3>1. j[e] = [added_by   |-> Extend(s[e].added_by, t[e].added_by),
                  removed_by |-> Extend(s[e].removed_by, t[e].removed_by)]
      BY <1>1, Zenon
    <3> QED
      BY <3>1
  <2>3. /\ \A m \in Node : j[e].added_by[m] # Absent
                            <=> s[e].added_by[m] # Absent \/ t[e].added_by[m] # Absent
        /\ j[e].removed_by[n] # Absent
             <=> s[e].removed_by[n] # Absent \/ t[e].removed_by[n] # Absent
    <3> HIDE DEF j
    <3>1. /\ s[e].added_by \in Entries /\ t[e].added_by \in Entries
          /\ s[e].removed_by \in Entries /\ t[e].removed_by \in Entries
      BY <1>1
    <3> QED
      BY <2>2, <3>1, ExtendJoins
  <2>4. /\ s[e].added_by[n] # Absent <=> n \in NodesOf(S, "add", e)
        /\ t[e].added_by[n] # Absent <=> n \in NodesOf(T, "add", e)
        /\ s[e].removed_by[n] # Absent <=> n \in NodesOf(S, "remove", e)
        /\ t[e].removed_by[n] # Absent <=> n \in NodesOf(T, "remove", e)
        /\ s[e].removed_by[n] # Absent => Keys(s[e].added_by) # {}
        /\ t[e].removed_by[n] # Absent => Keys(t[e].added_by) # {}
    BY DEF SealOf
  <2> HIDE DEF j
  <2>5. Keys(s[e].added_by) # {} \/ Keys(t[e].added_by) # {} => Keys(j[e].added_by) # {}
    BY <2>3 DEF Keys
  <2> QED
    BY <2>1, <2>3, <2>4, <2>5
<1> HIDE DEF j
<1> QED
  BY <1>2, <1>3 DEF SealOf, j

LEMMA JoinsBased ==
  ASSUME NEW m, NEW o, NEW S, NEW T, Based(m, S), Based(o, T)
  PROVE  Based(Join(m, o), S \cup T) /\ Based(Join(o, m), S \cup T)
<1>1. ASSUME NEW x, NEW y, NEW U, NEW V, Based(x, U), Based(y, V)
      PROVE  Based(Join(x, y), U \cup V)
  <2>1. /\ DOMAIN Join(x, y) = Fields
        /\ Join(x, y).public_hive = HiveJoin(x.public_hive, y.public_hive)
        /\ Join(x, y).private_seal = SealMerge(x.private_seal, y.private_seal)
        /\ Join(x, y).ephemeral = CountsMerge(x.ephemeral, y.ephemeral)
    BY DEF Join, Fields
  <2>2. Stamped(U) /\ Stamped(V) /\ Stamped(U \cup V)
    BY <1>1 DEF Based, Stamped
  <2>3. HiveOf(HiveJoin(x.public_hive, y.public_hive), U \cup V)
    BY <1>1, <2>2, HiveJoins DEF Based
  <2>4. SealOf(SealMerge(x.private_seal, y.private_seal), U \cup V)
    BY <1>1, SealJoins DEF Based
  <2>5. CountsMerge(x.ephemeral, y.ephemeral) \in [Node -> Nat]
    BY <1>1 DEF Based, CountsMerge, Max2
  <2> QED
    BY <2>1, <2>2, <2>3, <2>4, <2>5 DEF Based
<1>2. S \cup T = T \cup S
  OBVIOUS
<1> QED
  BY <1>1, <1>2

-----------------------------------------------------------------------------
(* Updates of the own copy *)

LEMMA HiveKept ==
  ASSUME NEW h, NEW S, NEW u, HiveOf(h, S), u.op # "write"
  PROVE  HiveOf(h, S \cup {u})
<1>1. \A k : WritesTo(S \cup {u}, k) = WritesTo(S, k)
  BY DEF WritesTo
<1> QED
  BY <1>1 DEF HiveOf

LEMMA SealKept ==
  ASSUME NEW s, NEW S, NEW u, SealOf(s, S), u.op # "add", u.op # "remove"
  PROVE  SealOf(s, S \cup {u})
<1>1. ASSUME NEW op \in {"add", "remove"}, NEW e
      PROVE  NodesOf(S \cup {u}, op, e) = NodesOf(S, op, e)
  <2>1. {v \in S \cup {u} : v.op = op /\ v.element = e} = {v \in S : v.op = op /\ v.element = e}
    OBVIOUS
  <2> QED
    BY <2>1 DEF NodesOf
<1>2. \A e : /\ NodesOf(S \cup {u}, "add", e) = NodesOf(S, "add", e)
             /\ NodesOf(S \cup {u}, "remove", e) = NodesOf(S, "remove", e)
  BY <1>1
<1> QED
  BY <1>2 DEF SealOf

\* A write that is later than what the copy has of its key is the latest.
LEMMA WriteBased ==
  ASSUME NEW h, NEW S, HiveOf(h, S), Stamped(S), NEW r \in Node, NEW k \in Key,
         NEW v \in Value, NEW t \in 0..MaxStamp,
         \A x \in WritesTo(S, k) : t > x.stamp
  PROVE  HiveOf([h EXCEPT ![k] = [value |-> v, timestamp |-> t, node_id |-> r]],
                S \cup {[op |-> "write", node |-> r, key |-> k, value |-> v, stamp |-> t]})
<1> DEFINE u == [op |-> "write", node |-> r, key |-> k, value |-> v, stamp |-> t]
           reg == [value |-> v, timestamp |-> t, node_id |-> r]
           j == [h EXCEPT ![k] = reg]
<1>1. /\ u.op = "write" /\ u.key = k /\ u.stamp = t /\ u.node = r /\ u.value = v
      /\ t \in Nat /\ r \in Nat
  BY CrdtAssumption
<1>2. reg \in Register /\ reg # Absent
  BY AbsentAssumption DEF Register
<1>3. reg = [value |-> u.value, timestamp |-> u.stamp, node_id |-> u.node]
  OBVIOUS
<1> HIDE DEF u, reg
<1>4. /\ h \in [Key -> Register \cup {Absent}]
      /\ \A l \in Key : Latest(h[l], WritesTo(S, l))
  BY DEF HiveOf
<1>5. j \in [Key -> Register \cup {Absent}] /\ j[k] = reg
      /\ \A l \in Key : l # k => j[l] = h[l]
  BY <1>2, <1>4
<1>6. WritesTo(S \cup {u}, k) = WritesTo(S, k) \cup {u}
  BY <1>1 DEF WritesTo
<1>7. \A l \in Key : l # k => WritesTo(S \cup {u}, l) = WritesTo(S, l)
  BY <1>1 DEF WritesTo
<1>8. Latest(reg, WritesTo(S \cup {u}, k))
  <2>1. \A x \in WritesTo(S, k) : x.stamp < u.stamp
    <3>1. \A x \in WritesTo(S, k) : x.stamp \in 0..MaxStamp
      BY DEF WritesTo, Stamped
    <3>2. \A x \in 0..MaxStamp : x \in Nat
      BY CrdtAssumption
    <3> QED
      BY <1>1, <3>1, <3>2
  <2>2. u.stamp = u.stamp /\ u.node >= u.node
    BY <1>1
  <2> QED
    BY <1>2, <1>3, <1>6, <2>1, <2>2 DEF Latest
<1> HIDE DEF j
<1>9. \A l \in Key : Latest(j[l], WritesTo(S \cup {u}, l))
  BY <1>4, <1>5, <1>7, <1>8
<1> QED
  BY <1>5, <1>9 DEF HiveOf, u, reg, j

LEMMA NodesOfGrows ==
  \A S, u, op, e : u.op = op /\ u.element = e
    => NodesOf(S \cup {u}, op, e) = NodesOf(S, op, e) \cup {u.node}
<1> SUFFICES ASSUME NEW S, NEW u, NEW op, NEW e, u.op = op, u.element = e
             PROVE  NodesOf(S \cup {u}, op, e) = NodesOf(S, op, e) \cup {u.node}
  OBVIOUS
<1>1. {v \in S \cup {u} : v.op = op /\ v.element = e}
        = {v \in S : v.op = op /\ v.element = e} \cup {u}
  OBVIOUS
<1> QED
  BY <1>1 DEF NodesOf

LEMMA NodesOfSame ==
  \A S, u, op, e : ~(u.op = op /\ u.element = e)
    => NodesOf(S \cup {u}, op, e) = NodesOf(S, op, e)
<1> SUFFICES ASSUME NEW S, NEW u, NEW op, NEW e, ~(u.op = op /\ u.element = e)
             PROVE  NodesOf(S \cup {u}, op, e) = NodesOf(S, op, e)
  OBVIOUS
<1>1. {v \in S \cup {u} : v.op = op /\ v.element = e}
        = {v \in S : v.op = op /\ v.element = e}
  OBVIOUS
<1> QED
  BY <1>1 DEF NodesOf

\* The entry of the own node follows its own additions and removals.
LEMMA AddBased ==
  ASSUME NEW s, NEW S, SealOf(s, S), NEW r \in Node, NEW e \in Element, NEW t \in 0..MaxStamp
  PROVE  SealOf([s EXCEPT ![e].added_by[r] = t],
                S \cup {[op |-> "add", node |-> r, element |-> e, stamp |-> t]})
<1> DEFINE u == [op |-> "add", node |-> r, element |-> e, stamp |-> t]
           j == [s EXCEPT ![e].added_by[r] = t]
<1>1. u.op = "add" /\ u.node = r /\ u.element = e /\ t # Absent
  BY AbsentAssumption
<1> HIDE DEF u
<1>2. s \in [Element -> [added_by : Entries, removed_by : Entries]]
  BY DEF SealOf
<1>3. s[e].added_by \in Entries /\ s[e].removed_by \in Entries
  BY <1>2
<1>4. [s[e].added_by EXCEPT ![r] = t] \in Entries
  BY <1>3 DEF Entries
<1>5. /\ j \in [Element -> [added_by : Entries, removed_by : Entries]]
      /\ j[e].added_by = [s[e].added_by EXCEPT ![r] = t]
      /\ j[e].removed_by = s[e].removed_by
      /\ \A f \in Element : f # e => j[f] = s[f]
  BY <1>2, <1>3, <1>4
<1>6. ASSUME NEW f
      PROVE  /\ NodesOf(S \cup {u}, "add", f)
                  = IF f = e THEN NodesOf(S, "add", f) \cup {r} ELSE NodesOf(S, "add", f)
             /\ NodesOf(S \cup {u}, "remove", f) = NodesOf(S, "remove", f)
  <2>1. f = e => NodesOf(S \cup {u}, "add", f) = NodesOf(S, "add", f) \cup {r}
    BY <1>1, NodesOfGrows
  <2>2. f # e => NodesOf(S \cup {u}, "add", f) = NodesOf(S, "add", f)
    BY <1>1, NodesOfSame
  <2>3. NodesOf(S \cup {u}, "remove", f) = NodesOf(S, "remove", f)
    BY <1>1, NodesOfSame
  <2> QED
    BY <2>1, <2>2, <2>3
<1> HIDE DEF j
<1>7. ASSUME NEW f \in Element, NEW n \in Node
      PROVE  /\ j[f].added_by[n] # Absent <=> n \in NodesOf(S \cup {u}, "add", f)
             /\ j[f].removed_by[n] # Absent <=> n \in NodesOf(S \cup {u}, "remove", f)
             /\ j[f].removed_by[n] # Absent => Keys(j[f].added_by) # {}
  <2>1. /\ s[f].added_by[n] # Absent <=> n \in NodesOf(S, "add", f)
        /\ s[f].removed_by[n] # Absent <=> n \in NodesOf(S, "remove", f)
        /\ s[f].removed_by[n] # Absent => Keys(s[f].added_by) # {}
    BY DEF SealOf
  <2>2. CASE f # e
    BY <1>5, <1>6, <2>1, <2>2
  <2>3. CASE f = e
    <3>1. /\ j[f].added_by[n] = IF n = r THEN t ELSE s[f].added_by[n]
          /\ j[f].added_by[r] = t
      BY <1>3, <1>5, <2>3 DEF Entries
    <3>2. Keys(j[f].added_by) # {}
      BY <1>1, <3>1 DEF Keys
    <3>3. /\ j[f].removed_by = s[f].removed_by
          /\ NodesOf(S \cup {u}, "add", f) = NodesOf(S, "add", f) \cup {r}
          /\ NodesOf(S \cup {u}, "remove", f) = NodesOf(S, "remove", f)
      BY <1>5, <1>6, <2>3
    <3> QED
      BY <1>1, <2>1, <3>1, <3>2, <3>3
  <2> QED
    BY <2>2, <2>3
<1> QED
  BY <1>5, <1>7 DEF SealOf, j, u

LEMMA RemoveBased ==
  ASSUME NEW s, NEW S, SealOf(s, S), NEW r \in Node, NEW e \in Element, NEW t \in 0..MaxStamp,
         Keys(s[e].added_by) # {}
  PROVE  SealOf([s EXCEPT ![e].removed_by[r] = t],
                S \cup {[op |-> "remove", node |-> r, element |-> e, stamp |-> t]})
<1> DEFINE u == [op |-> "remove", node |-> r, element |-> e, stamp |-> t]
           j == [s EXCEPT ![e].removed_by[r] = t]
<1>1. u.op = "remove" /\ u.node = r /\ u.element = e /\ t # Absent
  BY AbsentAssumption
<1> HIDE DEF u
<1>2. s \in [Element -> [added_by : Entries, removed_by : Entries]]
  BY DEF SealOf
<1>3. s[e].added_by \in Entries /\ s[e].removed_by \in Entries
  BY <1>2
<1>4. [s[e].removed_by EXCEPT ![r] = t] \in Entries
  BY <1>3 DEF Entries
<1>5. /\ j \in [Element -> [added_by : Entries, removed_by : Entries]]
      /\ j[e].removed_by = [s[e].removed_by EXCEPT ![r] = t]
      /\ j[e].added_by = s[e].added_by
      /\ \A f \in Element : f # e => j[f] = s[f]
  BY <1>2, <1>3, <1>4
<1>6. ASSUME NEW f
      PROVE  /\ NodesOf(S \cup {u}, "remove", f)
                  = IF f = e THEN NodesOf(S, "remove", f) \cup {r} ELSE NodesOf(S, "remove", f)
             /\ NodesOf(S \cup {u}, "add", f) = NodesOf(S, "add", f)
  <2>1. f = e => NodesOf(S \cup {u}, "remove", f) = NodesOf(S, "remove", f) \cup {r}
    BY <1>1, NodesOfGrows
  <2>2. f # e => NodesOf(S \cup {u}, "remove", f) = NodesOf(S, "remove", f)
    BY <1>1, NodesOfSame
  <2>3. NodesOf(S \cup {u}, "add", f) = NodesOf(S, "add", f)
    BY <1>1, NodesOfSame
  <2> QED
    BY <2>1, <2>2, <2>3
<1> HIDE DEF j
<1>7. ASSUME NEW f \in Element, NEW n \in Node
      PROVE  /\ j[f].added_by[n] # Absent <=> n \in NodesOf(S \cup {u}, "add", f)
             /\ j[f].removed_by[n] # Absent <=> n \in NodesOf(S \cup {u}, "remove", f)
             /\ j[f].removed_by[n] # Absent => Keys(j[f].added_by) # {}
  <2>1. /\ s[f].added_by[n] # Absent <=> n \in NodesOf(S, "add", f)
        /\ s[f].removed_by[n] # Absent <=> n \in NodesOf(S, "remove", f)
        /\ s[f].removed_by[n] # Absent => Keys(s[f].added_by) # {}
    BY DEF SealOf
  <2>2. CASE f # e
    BY <1>5, <1>6, <2>1, <2>2
  <2>3. CASE f = e
    <3>1. j[f].removed_by[n] = IF n = r THEN t ELSE s[f].removed_by[n]
      BY <1>3, <1>5, <2>3 DEF Entries
    <3>2. /\ j[f].added_by = s[f].added_by
          /\ NodesOf(S \cup {u}, "remove", f) = NodesOf(S, "remove", f) \cup {r}
          /\ NodesOf(S \cup {u}, "add", f) = NodesOf(S, "add", f)
      BY <1>5, <1>6, <2>3
    <3>3. Keys(j[f].added_by) # {}
      BY <2>3, <3>2
    <3> QED
      BY <1>1, <2>1, <3>1, <3>2, <3>3
  <2> QED
    BY <2>2, <2>3
<1> QED
  BY <1>5, <1>7 DEF SealOf, j, u

\* An update of one copy keeps the invariant if it keeps it for that copy.
LEMMA UpdateKeepsData ==
  ASSUME DataInv, NEW r \in Node, NEW new, NEW u, Update(r, new, u),
         Based(new, seen[r] \cup {u})
  PROVE  DataInv'
<1>1. /\ memory' = [memory EXCEPT ![r] = new]
      /\ seen' = [seen EXCEPT ![r] = @ \cup {u}]
      /\ net' = net
  BY DEF Update
<1>2. DOMAIN memory' = Node /\ DOMAIN seen' = Node
  BY <1>1 DEF DataInv
<1>3. /\ memory'[r] = new /\ seen'[r] = seen[r] \cup {u}
      /\ \A s \in Node \ {r} : memory'[s] = memory[s] /\ seen'[s] = seen[s]
  BY <1>1 DEF DataInv
<1> QED
  BY <1>1, <1>2, <1>3 DEF DataInv

LEMMA LocalUpdateKeepsData ==
  ASSUME DataInv, NEW r \in Node, LocalUpdate(r)
  PROVE  DataInv'
<1> DEFINE m == memory[r]
           S == seen[r]
<1>0. /\ Based(m, S) /\ DOMAIN m = Fields /\ Stamped(S)
      /\ HiveOf(m.public_hive, S) /\ SealOf(m.private_seal, S)
      /\ m.ephemeral \in [Node -> Nat]
  BY DEF DataInv, Based
<1>2. ASSUME NEW k \in Key, NEW v \in Value, NEW t \in 0..MaxStamp, Write(r, k, v, t)
      PROVE  DataInv'
  <2> DEFINE u == [op |-> "write", node |-> r, key |-> k, value |-> v, stamp |-> t]
             h == [m.public_hive EXCEPT ![k] =
                     [value |-> v, timestamp |-> t, node_id |-> r]]
             new == [m EXCEPT !.public_hive = h]
  <2>1. Update(r, new, u)
    BY <1>2 DEF Write
  <2>2. \A x \in WritesTo(S, k) : t > x.stamp
    BY <1>2 DEF Write, Stamps, WritesTo
  <2>3. HiveOf(h, S \cup {u})
    BY <1>0, <2>2, WriteBased
  <2>4. u.op = "write" /\ u.value = v /\ u.stamp = t /\ u.node = r
    OBVIOUS
  <2>5. /\ DOMAIN new = Fields /\ new.public_hive = h
        /\ new.private_seal = m.private_seal /\ new.ephemeral = m.ephemeral
    BY <1>0 DEF Fields
  <2> HIDE DEF u, h, new, m, S
  <2>6. Stamped(S \cup {u})
    BY <1>0, <2>4 DEF Stamped
  <2>7. SealOf(m.private_seal, S \cup {u})
    BY <1>0, <2>4, SealKept
  <2>8. Based(new, S \cup {u})
    BY <1>0, <2>3, <2>5, <2>6, <2>7 DEF Based
  <2> QED
    BY <2>1, <2>8, UpdateKeepsData DEF S
<1>3. ASSUME NEW e \in Element, NEW t \in 0..MaxStamp, Add(r, e, t)
      PROVE  DataInv'
  <2> DEFINE u == [op |-> "add", node |-> r, element |-> e, stamp |-> t]
             s == [m.private_seal EXCEPT ![e].added_by[r] = t]
             new == [m EXCEPT !.private_seal = s]
  <2>1. Update(r, new, u)
    BY <1>3 DEF Add
  <2>2. SealOf(s, S \cup {u})
    BY <1>0, AddBased
  <2>3. u.op = "add" /\ u.node = r
    OBVIOUS
  <2>4. /\ DOMAIN new = Fields /\ new.public_hive = m.public_hive
        /\ new.private_seal = s /\ new.ephemeral = m.ephemeral
    BY <1>0 DEF Fields
  <2> HIDE DEF u, s, new, m, S
  <2>5. Stamped(S \cup {u})
    BY <1>0, <2>3 DEF Stamped
  <2>6. HiveOf(m.public_hive, S \cup {u})
    BY <1>0, <2>3, HiveKept
  <2>7. Based(new, S \cup {u})
    BY <1>0, <2>2, <2>4, <2>5, <2>6 DEF Based
  <2> QED
    BY <2>1, <2>7, UpdateKeepsData DEF S
<1>4. ASSUME NEW e \in Element, NEW t \in 0..MaxStamp, Remove(r, e, t)
      PROVE  DataInv'
  <2> DEFINE u == [op |-> "remove", node |-> r, element |-> e, stamp |-> t]
             s == [m.private_seal EXCEPT ![e].removed_by[r] = t]
             new == [m EXCEPT !.private_seal = s]
  <2>1. Update(r, new, u) /\ Keys(m.private_seal[e].added_by) # {}
    BY <1>4 DEF Remove
  <2>2. SealOf(s, S \cup {u})
    BY <1>0, <2>1, RemoveBased
  <2>3. u.op = "remove" /\ u.node = r
    OBVIOUS
  <2>4. /\ DOMAIN new = Fields /\ new.public_hive = m.public_hive
        /\ new.private_seal = s /\ new.ephemeral = m.ephemeral
    BY <1>0 DEF Fields
  <2> HIDE DEF u, s, new, m, S
  <2>5. Stamped(S \cup {u})
    BY <1>0, <2>3 DEF Stamped
  <2>6. HiveOf(m.public_hive, S \cup {u})
    BY <1>0, <2>3, HiveKept
  <2>7. Based(new, S \cup {u})
    BY <1>0, <2>2, <2>4, <2>5, <2>6 DEF Based
  <2> QED
    BY <2>1, <2>7, UpdateKeepsData DEF S
<1>5. ASSUME NEW new, NEW u, Update(r, new, u), u.op \notin {"write", "add", "remove"},
             DOMAIN new = Fields, new.public_hive = m.public_hive,
             new.private_seal = m.private_seal, new.ephemeral \in [Node -> Nat]
      PROVE  DataInv'
  <2>1. Stamped(S \cup {u})
    BY <1>0, <1>5 DEF Stamped
  <2>2. HiveOf(m.public_hive, S \cup {u})
    BY <1>0, <1>5, HiveKept
  <2>3. SealOf(m.private_seal, S \cup {u})
    BY <1>0, <1>5, SealKept
  <2>4. Based(new, S \cup {u})
    BY <1>5, <2>1, <2>2, <2>3 DEF Based
  <2> QED
    BY <1>5, <2>4, UpdateKeepsData
<1>6. ASSUME NEW d \in Delta, Increment(r, d)
      PROVE  DataInv'
  <2> DEFINE n == m.ephemeral[r] + d
             new == [m EXCEPT !.ephemeral[r] = n]
             u == [op |-> "increment", node |-> r, delta |-> d, total |-> n]
  <2>1. Update(r, new, u) /\ u.op = "increment"
    BY <1>6 DEF Increment
  <2>2. n \in Nat
    BY <1>0, CrdtAssumption
  <2>3. /\ DOMAIN new = Fields /\ new.public_hive = m.public_hive
        /\ new.private_seal = m.private_seal /\ new.ephemeral = [m.ephemeral EXCEPT ![r] = n]
    BY <1>0 DEF Fields
  <2> HIDE DEF new, u, n, m, S
  <2>4. new.ephemeral \in [Node -> Nat]
    BY <1>0, <2>2, <2>3
  <2> QED
    BY <1>5, <2>1, <2>3, <2>4
<1>7. ASSUME Tick(r)
      PROVE  DataInv'
  <2> DEFINE n == m.vector_clock[r] + 1
             new == [m EXCEPT !.vector_clock[r] = n]
             u == [op |-> "tick", node |-> r, count |-> n]
  <2>1. Update(r, new, u) /\ u.op = "tick"
    BY <1>7 DEF Tick
  <2>2. /\ DOMAIN new = Fields /\ new.public_hive = m.public_hive
        /\ new.private_seal = m.private_seal /\ new.ephemeral = m.ephemeral
    BY <1>0 DEF Fields
  <2> HIDE DEF new, u, n, m, S
  <2> QED
    BY <1>0, <1>5, <2>1, <2>2
<1> QED
  BY <1>2, <1>3, <1>4, <1>6, <1>7 DEF LocalUpdate

LEMMA ReceiveKeepsData ==
  ASSUME DataInv, NEW r \in Node, NEW copy \in net, Receive(r, copy)
  PROVE  DataInv'
<1>1. Based(memory[r], seen[r]) /\ Based(copy.memory, copy.seen)
  BY DEF DataInv
<1>2. PICK new : /\ new \in {Join(memory[r], copy.memory), Join(copy.memory, memory[r])}
                 /\ memory' = [memory EXCEPT ![r] = new]
  BY DEF Receive
<1>3. Based(new, seen[r] \cup copy.seen)
  BY <1>1, <1>2, JoinsBased
<1>4. seen' = [seen EXCEPT ![r] = @ \cup copy.seen] /\ net' = net
  BY DEF Receive
<1>5. DOMAIN memory' = Node /\ DOMAIN seen' = Node
  BY <1>2, <1>4 DEF DataInv
<1>6. /\ memory'[r] = new /\ seen'[r] = seen[r] \cup copy.seen
      /\ \A s \in Node \ {r} : memory'[s] = memory[s] /\ seen'[s] = seen[s]
  BY <1>2, <1>4 DEF DataInv
<1> QED
  BY <1>3, <1>4, <1>5, <1>6 DEF DataInv

LEMMA ShareKeepsData ==
  ASSUME DataInv, NEW r \in Node, Share(r)
  PROVE  DataInv'
<1>1. /\ memory' = memory /\ seen' = seen
      /\ net' = net \cup {CopyOf(r)} /\ Cardinality(net) < MaxCopies
  BY DEF Share
<1>2. Based(CopyOf(r).memory, CopyOf(r).seen)
  BY DEF DataInv, CopyOf
<1>3. \A c \in net' : Based(c.memory, c.seen)
  BY <1>1, <1>2 DEF DataInv
<1>4. IsFiniteSet(net) /\ Cardinality(net) \in Nat /\ MaxCopies \in Nat
  BY FS_CardinalityType, CrdtAssumption DEF DataInv
<1>5. /\ IsFiniteSet(net')
      /\ Cardinality(net') = Cardinality(net) \/ Cardinality(net') = Cardinality(net) + 1
  BY <1>1, <1>4, FS_AddElement
<1>6. Cardinality(net') <= MaxCopies
  BY <1>1, <1>4, <1>5
<1> QED
  BY <1>1, <1>3, <1>5, <1>6 DEF DataInv

LEMMA InitDataInv == Init => DataInv
<1> SUFFICES ASSUME Init
             PROVE  DataInv
  OBVIOUS
<1>1. /\ DOMAIN memory = Node /\ DOMAIN seen = Node /\ net = {}
      /\ \A r \in Node : memory[r] = NewMemory /\ seen[r] = {}
  BY DEF Init
<1>2. /\ DOMAIN NewMemory = Fields
      /\ NewMemory.public_hive = [k \in Key |-> Absent]
      /\ NewMemory.private_seal = EmptySeal
      /\ NewMemory.ephemeral = [n \in Node |-> 0]
  BY DEF NewMemory, Fields
<1>3. HiveOf([k \in Key |-> Absent], {})
  BY DEF HiveOf, Latest, WritesTo
<1>4. SealOf(EmptySeal, {})
  <2>1. EmptySeal \in [Element -> [added_by : Entries, removed_by : Entries]]
    BY DEF EmptySeal, Entries
  <2>2. \A e \in Element, n \in Node :
          EmptySeal[e].added_by[n] = Absent /\ EmptySeal[e].removed_by[n] = Absent
    BY DEF EmptySeal
  <2>3. \A op, e : NodesOf({}, op, e) = {}
    BY DEF NodesOf
  <2> QED
    BY <2>1, <2>2, <2>3 DEF SealOf
<1>5. Stamped({})
  BY DEF Stamped
<1>6. Based(NewMemory, {})
  BY <1>2, <1>3, <1>4, <1>5 DEF Based
<1>7. IsFiniteSet({}) /\ Cardinality({}) = 0
  BY FS_EmptySet
<1> QED
  BY <1>1, <1>6, <1>7, CrdtAssumption DEF DataInv

LEMMA StepDataInv == DataInv /\ [Next]_vars => DataInv'
<1> SUFFICES ASSUME DataInv, [Next]_vars
             PROVE  DataInv'
  OBVIOUS
<1>1. CASE UNCHANGED vars
  BY <1>1 DEF vars, DataInv
<1> QED
  BY <1>1, LocalUpdateKeepsData, ReceiveKeepsData, ShareKeepsData DEF Next

LEMMA DataInvariance == Spec => []DataInv
  BY InitDataInv, StepDataInv, PTL DEF Spec

-----------------------------------------------------------------------------
(* What the copies show *)

LEMMA CopiesBased ==
  ASSUME DataInv, NEW c \in Copies
  PROVE  Based(c.memory, c.seen)
  BY DEF DataInv, Copies, CopyOf

\* The hive of every copy holds the latest write of each key that the copy is
\* based on: copies based on the same updates show the same.
THEOREM HiveHoldsLatestHolds == Spec => []HiveHoldsLatest
<1>1. ASSUME DataInv
      PROVE  HiveHoldsLatest
  <2> SUFFICES ASSUME NEW c \in Copies, NEW k \in Key
               PROVE  Latest(c.memory.public_hive[k], WritesTo(c.seen, k))
    BY DEF HiveHoldsLatest, Latest, WritesTo
  <2> QED
    BY <1>1, CopiesBased DEF Based, HiveOf
<1> QED
  BY <1>1, DataInvariance, PTL

\* An element is in the seal of a copy exactly if some node added it and did
\* not itself remove it.
THEOREM ElementsExactHolds == Spec => []ElementsExact
<1>1. ASSUME DataInv
      PROVE  ElementsExact
  <2> SUFFICES ASSUME NEW c \in Copies, NEW e \in Element
               PROVE  Contains(c.memory.private_seal, e)
                        <=> Nodes(c, "add", e) \ Nodes(c, "remove", e) # {}
    BY DEF ElementsExact
  <2> DEFINE s == c.memory.private_seal
  <2>1. SealOf(s, c.seen) /\ Stamped(c.seen)
    BY <1>1, CopiesBased DEF Based
  <2>2. \A op : Nodes(c, op, e) = NodesOf(c.seen, op, e)
    BY DEF Nodes, NodesOf
  <2>3. \A n \in NodesOf(c.seen, "add", e) : n \in Node
    BY <2>1 DEF NodesOf, Stamped
  <2>4. \A n \in Node : /\ s[e].added_by[n] # Absent <=> n \in NodesOf(c.seen, "add", e)
                        /\ s[e].removed_by[n] # Absent <=> n \in NodesOf(c.seen, "remove", e)
    BY <2>1 DEF SealOf
  <2> HIDE DEF s
  <2>5. Contains(s, e)
          <=> \E n \in NodesOf(c.seen, "add", e) : n \notin NodesOf(c.seen, "remove", e)
    BY <2>3, <2>4 DEF Contains, Keys
  <2> QED
    BY <2>2, <2>5 DEF s
<1> QED
  BY <1>1, DataInvariance, PTL

\* Copies without a conflict meet, and the meet shows what the join shows.
THEOREM ConflictFreeMeetsHolds == Spec => []ConflictFreeMeets
<1>1. ConflictFreeMeets
  <2> SUFFICES ASSUME NEW c \in Copies, NEW d \in Copies,
                      ConflictSet(c.memory, d.memory) = {}
               PROVE  /\ HasMeet(c.memory, d.memory)
                      /\ LET meet == Meet(c.memory, d.memory).public_hive
                             join == Join(c.memory, d.memory).public_hive
                         IN  /\ Filled(meet) = Filled(join)
                             /\ \A k \in Filled(meet) : meet[k].value = join[k].value
    BY DEF ConflictFreeMeets
  <2> DEFINE g == c.memory.public_hive
             h == d.memory.public_hive
             meet == [k \in Key |-> IF k \in Common(g, h) THEN g[k] ELSE Absent]
             join == HiveJoin(g, h)
  <2>1. Filled(g) \cup Filled(h) \subseteq Common(g, h)
    BY DEF ConflictSet
  <2>2. Meet(c.memory, d.memory).public_hive = meet
        /\ Join(c.memory, d.memory).public_hive = join
    BY DEF Meet, Join
  <2> HIDE DEF g, h
  <2>3. Common(g, h) \subseteq Filled(g) \cap Filled(h)
    BY DEF Common
  <2>4. HasMeet(c.memory, d.memory)
    <3>1. Common(g, h) # {} \/ Filled(g) = {}
      BY <2>1
    <3> QED
      BY <3>1 DEF HasMeet, g, h
  <2>5. ASSUME NEW k \in Key
        PROVE  /\ meet[k] = Absent <=> join[k] = Absent
               /\ meet[k] # Absent => meet[k].value = join[k].value
    <3>1. CASE k \in Common(g, h)
      <4>1. g[k] # Absent /\ h[k] # Absent /\ g[k].value = h[k].value
        BY <3>1, <2>3 DEF Common, Filled
      <4>2. meet[k] = g[k] /\ join[k] = RegisterMerge(g[k], h[k])
        BY <3>1, <4>1 DEF HiveJoin
      <4> QED
        BY <4>1, <4>2, RegisterMergeIsOne
    <3>2. CASE k \notin Common(g, h)
      <4>1. g[k] = Absent /\ h[k] = Absent
        BY <2>1, <3>2 DEF Filled
      <4> QED
        BY <3>2, <4>1 DEF HiveJoin
    <3> QED
      BY <3>1, <3>2
  <2> HIDE DEF meet, join
  <2>6. Filled(meet) = Filled(join) /\ \A k \in Filled(meet) : meet[k].value = join[k].value
    BY <2>5 DEF Filled
  <2> QED
    BY <2>2, <2>4, <2>6
<1> QED
  BY <1>1, PTL

\* The registers, counts and entries keep their types, an element that was
\* removed has been added, and the network holds no more than its bound.
THEOREM TypeCorrect == Spec => []TypeOK
<1>1. ASSUME DataInv, ClockInv
      PROVE  TypeOK
  <2>1. ASSUME NEW r \in Node
        PROVE  /\ memory[r].public_hive \in [Key -> Register \cup {Absent}]
               /\ memory[r].ephemeral \in [Node -> Nat]
               /\ memory[r].vector_clock \in [Node -> Nat]
               /\ \A e \in Element, n \in Node :
                    memory[r].private_seal[e].removed_by[n] # Absent
                      => Keys(memory[r].private_seal[e].added_by) # {}
    BY <1>1, <2>1 DEF DataInv, ClockInv, Counts, Based, HiveOf, SealOf
  <2> QED
    BY <1>1, <2>1 DEF TypeOK, DataInv
<1>2. Spec => []ClockInv
  BY InitClockInv, StepClockInv, PTL DEF Spec
<1> QED
  BY <1>1, <1>2, DataInvariance, PTL

-----------------------------------------------------------------------------
(* Sums over finite sets.  MapThenSumSet takes the elements in an order of   *)
(* its own; what a proof needs is that any other order gives the same sum.   *)

Chosen(s) == CHOOSE x \in s : TRUE

Folds(g, f, S) ==
  g = [s \in SUBSET S |-> IF s = {} THEN 0 ELSE f[Chosen(s)] + g[s \ {Chosen(s)}]]

Total(f, S) == MapThenSumSet(LAMBDA x : f[x], S)

\* Of all the sets of a family there is one without a smaller one in it.
LEMMA LessThanIsWellFounded ==
  IsWellFoundedOn({ss \in Nat \X Nat : ss[1] < ss[2]}, Nat)
  BY NatLessThanWellFounded, Zenon DEF OpToRel

LEMMA LeastElement ==
  ASSUME NEW S \in SUBSET Nat, S # {}
  PROVE  \E i \in S : \A j \in S : i <= j
<1> DEFINE R == {ss \in Nat \X Nat : ss[1] < ss[2]}
<1>1. IsWellFoundedOn(R, Nat)
  BY LessThanIsWellFounded
<1>2. \A i, j \in Nat : <<j, i>> \notin R => i <= j
  OBVIOUS
<1> HIDE DEF R
<1>3. PICK i \in S : \A j \in S : ~ (<<j, i>> \in R)
  BY <1>1, WFMin
<1> QED
  BY <1>2, <1>3

LEMMA LeastSet ==
  ASSUME NEW S, IsFiniteSet(S), NEW Family \in SUBSET (SUBSET S), Family # {}
  PROVE  \E T \in Family : \A U \in SUBSET T : U # T => U \notin Family
<1> DEFINE Sizes == {Cardinality(T) : T \in Family}
<1>1. \A T \in SUBSET S : IsFiniteSet(T) /\ Cardinality(T) \in Nat
  BY FS_Subset, FS_CardinalityType
<1>2. Sizes \in SUBSET Nat /\ Sizes # {}
  BY <1>1
<1>3. PICK n \in Sizes : \A m \in Sizes : n <= m
  BY <1>2, LeastElement
<1>4. PICK T \in Family : Cardinality(T) = n
  BY <1>3
<1>5. ASSUME NEW U \in SUBSET T, U # T, U \in Family
      PROVE  FALSE
  <2>1. IsFiniteSet(T) /\ Cardinality(T) \in Nat /\ Cardinality(U) \in Nat
    BY <1>1, <1>5
  <2>2. Cardinality(U) <= Cardinality(T) /\ Cardinality(U) # Cardinality(T)
    BY <2>1, <1>5, FS_Subset
  <2>3. Cardinality(T) <= Cardinality(U)
    BY <1>3, <1>4, <1>5
  <2> QED
    BY <2>1, <2>2, <2>3
<1> QED
  BY <1>4, <1>5

LEMMA ChosenIn == \A s : s # {} => Chosen(s) \in s
  BY DEF Chosen

\* What a fold is on each set.
LEMMA FoldAt ==
  ASSUME NEW g, NEW f, NEW S, Folds(g, f, S), NEW s \in SUBSET S
  PROVE  g[s] = IF s = {} THEN 0 ELSE f[Chosen(s)] + g[s \ {Chosen(s)}]
<1> DEFINE v(t) == IF t = {} THEN 0 ELSE f[Chosen(t)] + g[t \ {Chosen(t)}]
<1>1. g = [t \in SUBSET S |-> v(t)]
  BY DEF Folds
<1> HIDE DEF v
<1>2. g[s] = v(s)
  BY <1>1
<1> QED
  BY <1>2 DEF v

LEMMA FoldsAgree ==
  ASSUME NEW S, IsFiniteSet(S), NEW T \in SUBSET S, NEW f, NEW e,
         \A x \in T : f[x] = e[x],
         NEW g, Folds(g, f, S), NEW h, Folds(h, e, T)
  PROVE  \A s \in SUBSET T : g[s] = h[s]
<1> DEFINE Bad == {s \in SUBSET T : g[s] # h[s]}
<1>1. SUFFICES ASSUME Bad # {}
               PROVE  FALSE
  OBVIOUS
<1>2. IsFiniteSet(T)
  BY FS_Subset
<1>3. PICK s \in Bad : \A u \in SUBSET s : u # s => u \notin Bad
  <2>1. Bad \in SUBSET (SUBSET T)
    OBVIOUS
  <2> HIDE DEF Bad
  <2> QED
    BY <1>1, <1>2, <2>1, LeastSet
<1>4. g[s] = (IF s = {} THEN 0 ELSE f[Chosen(s)] + g[s \ {Chosen(s)}])
  <2>1. s \in SUBSET S
    BY <1>3
  <2> QED
    BY <2>1, FoldAt
<1>5. h[s] = (IF s = {} THEN 0 ELSE e[Chosen(s)] + h[s \ {Chosen(s)}])
  BY <1>3, FoldAt
<1>6. s # {}
  BY <1>3, <1>4, <1>5
<1>7. Chosen(s) \in s
  BY <1>6, ChosenIn
<1>8. g[s \ {Chosen(s)}] = h[s \ {Chosen(s)}]
  BY <1>3, <1>7
<1>9. g[s] = h[s]
  BY <1>4, <1>5, <1>6, <1>7, <1>8
<1> QED
  BY <1>3, <1>9

LEMMA FoldExists ==
  ASSUME NEW S, IsFiniteSet(S), NEW f, \A x \in S : f[x] \in Nat
  PROVE  \E g \in [SUBSET S -> Nat] : Folds(g, f, S)
<1> DEFINE v(g, s) == IF s = {} THEN 0 ELSE f[Chosen(s)] + g[s \ {Chosen(s)}]
           UpTo(n) == \E g \in [SUBSET S -> Nat] :
                        \A s \in SUBSET S : Cardinality(s) <= n => g[s] = v(g, s)
           C == {n \in Nat : ~ UpTo(n)}
<1>1. \A s \in SUBSET S : IsFiniteSet(s) /\ Cardinality(s) \in Nat
                          /\ Cardinality(s) <= Cardinality(S)
  BY FS_Subset, FS_CardinalityType
<1>2. \A s \in SUBSET S : s # {} => /\ Chosen(s) \in s
                                    /\ Cardinality(s \ {Chosen(s)}) = Cardinality(s) - 1
  BY <1>1, ChosenIn, FS_RemoveElement
<1>3. UpTo(0)
  <2> DEFINE g == [s \in SUBSET S |-> 0]
  <2>1. g \in [SUBSET S -> Nat]
    OBVIOUS
  <2>2. \A s \in SUBSET S : Cardinality(s) <= 0 => s = {}
    BY <1>1, FS_EmptySet
  <2>3. \A s \in SUBSET S : Cardinality(s) <= 0 => g[s] = v(g, s)
    BY <2>2
  <2> QED
    BY <2>1, <2>3
<1>4. ASSUME NEW n \in Nat, UpTo(n)
      PROVE  UpTo(n + 1)
  <2>1. PICK g \in [SUBSET S -> Nat] :
               \A s \in SUBSET S : Cardinality(s) <= n => g[s] = v(g, s)
    BY <1>4
  <2> DEFINE h == [s \in SUBSET S |-> v(g, s)]
  <2>2. ASSUME NEW s \in SUBSET S
        PROVE  v(g, s) \in Nat
    <3>1. CASE s = {}
      BY <3>1
    <3>2. CASE s # {}
      <4>1. Chosen(s) \in S /\ s \ {Chosen(s)} \in SUBSET S
        BY <3>2, <1>2
      <4>2. f[Chosen(s)] \in Nat /\ g[s \ {Chosen(s)}] \in Nat
        BY <4>1
      <4> QED
        BY <3>2, <4>2
    <3> QED
      BY <3>1, <3>2
  <2>3. h \in [SUBSET S -> Nat]
    BY <2>2
  <2>4. ASSUME NEW s \in SUBSET S, Cardinality(s) <= n + 1
        PROVE  h[s] = v(h, s)
    <3>1. h[s] = v(g, s)
      OBVIOUS
    <3>2. CASE s = {}
      BY <3>1, <3>2
    <3>3. CASE s # {}
      <4> DEFINE u == s \ {Chosen(s)}
      <4>1. u \in SUBSET S /\ Cardinality(u) <= n
        BY <1>1, <1>2, <2>4, <3>3
      <4>2. h[u] = v(g, u) /\ g[u] = v(g, u)
        BY <2>1, <4>1
      <4> HIDE DEF h
      <4> QED
        BY <3>1, <3>3, <4>2
    <3> QED
      BY <3>2, <3>3
  <2> HIDE DEF h, v
  <2> QED
    BY <2>3, <2>4
<1> HIDE DEF UpTo
<1>5. C = {}
  <2> SUFFICES ASSUME C # {}
               PROVE  FALSE
    OBVIOUS
  <2>1. PICK n \in C : \A m \in C : n <= m
    BY LeastElement
  <2>2. n \in Nat /\ n # 0
    BY <2>1, <1>3
  <2>3. n - 1 \in Nat /\ n - 1 \notin C /\ (n - 1) + 1 = n
    BY <2>1, <2>2
  <2> QED
    BY <2>1, <2>3, <1>4
<1>6. UpTo(Cardinality(S))
  BY <1>5, FS_CardinalityType
<1>7. PICK g \in [SUBSET S -> Nat] : \A s \in SUBSET S : g[s] = v(g, s)
  BY <1>1, <1>6 DEF UpTo
<1>8. g = [s \in SUBSET S |-> v(g, s)]
  <2> HIDE DEF v
  <2> QED
    BY <1>7
<1> QED
  BY <1>7, <1>8 DEF Folds

\* The sum over a set is the fold's value on it.
LEMMA TotalIsFold ==
  ASSUME NEW f, NEW S, IsFiniteSet(S), \A x \in S : f[x] \in Nat
  PROVE  \E g \in [SUBSET S -> Nat] : Folds(g, f, S) /\ Total(f, S) = g[S]
<1> DEFINE c == CHOOSE g : Folds(g, f, S)
<1>1. Total(f, S) = c[S]
  BY DEF Total, MapThenSumSet, MapThenFoldSet, Folds, Chosen
<1>2. PICK g \in [SUBSET S -> Nat] : Folds(g, f, S)
  BY FoldExists
<1>3. Folds(c, f, S)
  BY <1>2, Zenon
<1>4. c = [s \in SUBSET S |-> c[s]]
  <2>1. \E d : c = d /\ d = [s \in SUBSET S |-> IF s = {} THEN 0 ELSE f[Chosen(s)] + d[s \ {Chosen(s)}]]
    BY <1>3 DEF Folds
  <2> QED
    BY <2>1
<1> HIDE DEF c
<1>5. \A s \in SUBSET S : g[s] = c[s]
  BY <1>2, <1>3, FoldsAgree
<1>6. c \in [SUBSET S -> Nat]
  BY <1>2, <1>4, <1>5
<1> QED
  BY <1>1, <1>3, <1>6

LEMMA TotalType ==
  ASSUME NEW f, NEW S, IsFiniteSet(S), \A x \in S : f[x] \in Nat
  PROVE  Total(f, S) \in Nat
<1>1. PICK g \in [SUBSET S -> Nat] : Total(f, S) = g[S]
  BY TotalIsFold
<1> QED
  BY <1>1

\* Functions that agree on a set have one sum over it.
LEMMA TotalSame ==
  ASSUME NEW S, IsFiniteSet(S), NEW f, NEW e, \A x \in S : f[x] \in Nat /\ f[x] = e[x]
  PROVE  Total(f, S) = Total(e, S)
<1>1. \A x \in S : e[x] \in Nat
  OBVIOUS
<1>2. PICK g : Folds(g, f, S) /\ Total(f, S) = g[S]
  BY TotalIsFold
<1>3. PICK h : Folds(h, e, S) /\ Total(e, S) = h[S]
  BY <1>1, TotalIsFold
<1> QED
  BY <1>2, <1>3, FoldsAgree

LEMMA TotalEmpty ==
  ASSUME NEW f
  PROVE  Total(f, {}) = 0
<1>1. PICK g : Folds(g, f, {}) /\ Total(f, {}) = g[{}]
  BY TotalIsFold, FS_EmptySet
<1> QED
  BY <1>1, FoldAt

LEMMA TotalChosen ==
  ASSUME NEW f, NEW S, IsFiniteSet(S), \A x \in S : f[x] \in Nat, S # {}
  PROVE  Total(f, S) = f[Chosen(S)] + Total(f, S \ {Chosen(S)})
<1> DEFINE T == S \ {Chosen(S)}
<1>1. T \in SUBSET S /\ IsFiniteSet(T) /\ \A x \in T : f[x] \in Nat
  BY FS_Subset
<1>2. PICK g : Folds(g, f, S) /\ Total(f, S) = g[S]
  BY TotalIsFold
<1>3. PICK h : Folds(h, f, T) /\ Total(f, T) = h[T]
  BY <1>1, TotalIsFold
<1>4. g[T] = h[T]
  BY <1>1, <1>2, <1>3, FoldsAgree
<1>5. g[S] = f[Chosen(S)] + g[T]
  BY <1>2, FoldAt
<1> QED
  BY <1>2, <1>3, <1>4, <1>5

\* Any element may be taken out first.
LEMMA TotalRemove ==
  ASSUME NEW f, NEW S, IsFiniteSet(S), \A x \in S : f[x] \in Nat, NEW a \in S
  PROVE  Total(f, S) = f[a] + Total(f, S \ {a})
<1> DEFINE Fine(T) == \A x \in T : Total(f, T) = f[x] + Total(f, T \ {x})
           Bad == {T \in SUBSET S : ~ Fine(T)}
<1>1. SUFFICES Bad = {}
  OBVIOUS
<1>2. SUFFICES ASSUME Bad # {}
               PROVE  FALSE
  OBVIOUS
<1>3. PICK T \in Bad : \A U \in SUBSET T : U # T => U \notin Bad
  <2>1. Bad \in SUBSET (SUBSET S)
    OBVIOUS
  <2> HIDE DEF Bad
  <2> QED
    BY <1>2, <2>1, LeastSet
<1>4. PICK x \in T : Total(f, T) # f[x] + Total(f, T \ {x})
  BY <1>3
<1> DEFINE c == Chosen(T)
<1>5. T \in SUBSET S /\ c \in T /\ IsFiniteSet(T) /\ \A y \in T : f[y] \in Nat
  BY <1>3, <1>4, ChosenIn, FS_Subset
<1>6. Total(f, T) = f[c] + Total(f, T \ {c})
  BY <1>4, <1>5, TotalChosen
<1> HIDE DEF c
<1>7. x # c
  BY <1>4, <1>6
<1>8. Fine(T \ {c}) /\ Fine(T \ {x})
  <2>1. T \ {c} \in SUBSET T /\ T \ {c} # T /\ T \ {x} \in SUBSET T /\ T \ {x} # T
    BY <1>4, <1>5
  <2> QED
    BY <2>1, <1>3, <1>5
<1>9. /\ Total(f, T \ {c}) = f[x] + Total(f, (T \ {c}) \ {x})
      /\ Total(f, T \ {x}) = f[c] + Total(f, (T \ {x}) \ {c})
  BY <1>4, <1>5, <1>7, <1>8
<1>10. (T \ {c}) \ {x} = (T \ {x}) \ {c}
  OBVIOUS
<1> DEFINE rest == Total(f, (T \ {x}) \ {c})
<1>11. rest \in Nat
  <2>1. IsFiniteSet((T \ {x}) \ {c})
    BY <1>5, FS_Subset
  <2> QED
    BY <2>1, <1>5, TotalType
<1>12. f[x] \in Nat /\ f[c] \in Nat
  BY <1>4, <1>5
<1>13. Total(f, T) = f[c] + (f[x] + rest) /\ Total(f, T \ {x}) = f[c] + rest
  BY <1>6, <1>9, <1>10
<1> HIDE DEF rest
<1>14. Total(f, T) = f[x] + Total(f, T \ {x})
  BY <1>11, <1>12, <1>13
<1> QED
  BY <1>4, <1>14

LEMMA TotalAdd ==
  ASSUME NEW f, NEW S, IsFiniteSet(S), NEW a, a \notin S, \A x \in S \cup {a} : f[x] \in Nat
  PROVE  Total(f, S \cup {a}) = f[a] + Total(f, S)
<1>1. IsFiniteSet(S \cup {a}) /\ a \in S \cup {a} /\ (S \cup {a}) \ {a} = S
  BY FS_AddElement
<1> QED
  BY <1>1, TotalRemove

\* The sum over two sets without a common element.
LEMMA TotalUnion ==
  ASSUME NEW f, NEW A, IsFiniteSet(A), NEW B, IsFiniteSet(B), A \cap B = {},
         \A x \in A \cup B : f[x] \in Nat
  PROVE  Total(f, A \cup B) = Total(f, A) + Total(f, B)
<1> DEFINE Fine(T) == Total(f, A \cup T) = Total(f, A) + Total(f, T)
           Bad == {T \in SUBSET B : ~ Fine(T)}
<1>1. SUFFICES Bad = {}
  OBVIOUS
<1>2. SUFFICES ASSUME Bad # {}
               PROVE  FALSE
  OBVIOUS
<1>3. PICK T \in Bad : \A U \in SUBSET T : U # T => U \notin Bad
  <2>1. Bad \in SUBSET (SUBSET B)
    OBVIOUS
  <2> HIDE DEF Bad
  <2> QED
    BY <1>2, <2>1, LeastSet
<1>4. Total(f, A) \in Nat
  BY TotalType
<1>5. T # {}
  <2>1. A \cup {} = A
    OBVIOUS
  <2>2. Fine({})
    BY <2>1, <1>4, TotalEmpty
  <2> QED
    BY <2>2, <1>3
<1>6. PICK a : a \in T
  BY <1>5
<1> DEFINE U == T \ {a}
<1>7. /\ U \in SUBSET T /\ U # T /\ U \in SUBSET B /\ T \in SUBSET B
      /\ IsFiniteSet(U) /\ IsFiniteSet(A \cup U)
      /\ U \cup {a} = T /\ (A \cup U) \cup {a} = A \cup T
      /\ a \notin U /\ a \notin A \cup U
  <2>1. U \in SUBSET T /\ U # T /\ U \in SUBSET B /\ T \in SUBSET B
    BY <1>3, <1>6
  <2>2. IsFiniteSet(U)
    BY <2>1, FS_Subset
  <2>3. IsFiniteSet(A \cup U)
    BY <2>2, FS_Union
  <2> QED
    BY <1>6, <2>1, <2>2, <2>3
<1>8. Fine(U)
  BY <1>3, <1>7
<1>9. Total(f, T) = f[a] + Total(f, U)
  BY <1>7, TotalAdd
<1>10. Total(f, A \cup T) = f[a] + Total(f, A \cup U)
  BY <1>7, TotalAdd
<1>11. f[a] \in Nat /\ Total(f, U) \in Nat
  BY <1>6, <1>7, TotalType
<1>12. Total(f, A \cup T) = Total(f, A) + Total(f, T)
  BY <1>4, <1>8, <1>9, <1>10, <1>11
<1> QED
  BY <1>3, <1>12

-----------------------------------------------------------------------------
(* The counter: what a copy counts for a node is the sum of the increments   *)
(* of that node it is based on, and these are the first ones of those the    *)
(* node has made.  An increment by 0 leaves no mark on a counter, so the     *)
(* order is one of the others.                                               *)

Gain(updates) == Total([u \in updates |-> u.delta], updates)

Steps(updates, n) ==
  {u \in updates : u.op = "increment" /\ u.node = n /\ u.delta # 0}

\* What each node has counted of its own, and its own steps.
Top == [n \in Node |-> memory[n].ephemeral[n]]
Own == [n \in Node |-> Steps(seen[n], n)]

Counted(counts, updates, top, own) ==
  /\ counts \in [Node -> Nat]
  /\ IsFiniteSet(updates)
  /\ \A u \in updates : u.op = "increment" =>
       u.node \in Node /\ u.delta \in Nat /\ u.total \in Nat
  /\ \A n \in Node :
       /\ counts[n] <= top[n]
       /\ Steps(updates, n) = {u \in own[n] : u.total <= counts[n]}
       /\ Gain(Steps(updates, n)) = counts[n]

CountInv ==
  /\ \A r \in Node : Counted(memory[r].ephemeral, seen[r], Top, Own)
  /\ \A c \in net : Counted(c.memory.ephemeral, c.seen, Top, Own)

\* The property's sum is one of those above.
LEMMA GainIsSum ==
  ASSUME NEW S, IsFiniteSet(S), \A u \in S : u.delta \in Nat
  PROVE  MapThenSumSet(LAMBDA u : u.delta, S) = Gain(S)
<1> DEFINE f == [u \in S |-> u.delta]
           ByDelta(g) ==
             g = [s \in SUBSET S |-> IF s = {} THEN 0
                                     ELSE Chosen(s).delta + g[s \ {Chosen(s)}]]
           c == CHOOSE g : ByDelta(g)
<1>1. MapThenSumSet(LAMBDA u : u.delta, S) = c[S]
  BY DEF MapThenSumSet, MapThenFoldSet, Chosen
<1>2. \A x \in S : f[x] \in Nat /\ f[x] = x.delta
  OBVIOUS
<1>3. ASSUME NEW g
      PROVE  ByDelta(g) <=> Folds(g, f, S)
  <2> DEFINE v(s) == IF s = {} THEN 0 ELSE Chosen(s).delta + g[s \ {Chosen(s)}]
             w(s) == IF s = {} THEN 0 ELSE f[Chosen(s)] + g[s \ {Chosen(s)}]
  <2>1. \A s \in SUBSET S : v(s) = w(s)
    <3> SUFFICES ASSUME NEW s \in SUBSET S
                 PROVE  v(s) = w(s)
      OBVIOUS
    <3>1. CASE s = {}
      BY <3>1
    <3>2. CASE s # {}
      <4>1. Chosen(s) \in S
        BY <3>2, ChosenIn
      <4>2. f[Chosen(s)] = Chosen(s).delta
        BY <1>2, <4>1
      <4> HIDE DEF f
      <4> QED
        BY <3>2, <4>2
    <3> QED
      BY <3>1, <3>2
  <2> HIDE DEF v, w
  <2>2. [s \in SUBSET S |-> v(s)] = [s \in SUBSET S |-> w(s)]
    BY <2>1
  <2> QED
    BY <2>2 DEF v, w, Folds
<1> HIDE DEF f
<1>4. PICK g : Folds(g, f, S) /\ Total(f, S) = g[S]
  <2> HIDE DEF ByDelta, c
  <2>1. \A x \in S : f[x] \in Nat
    BY <1>2
  <2> QED
    BY <2>1, TotalIsFold
<1>5. ByDelta(g)
  BY <1>3, <1>4
<1>6. ByDelta(c)
  <2> HIDE DEF ByDelta
  <2> QED
    BY <1>5, Zenon
<1>7. Folds(c, f, S)
  BY <1>3, <1>6
<1> HIDE DEF c, ByDelta
<1>8. c[S] = g[S]
  BY <1>4, <1>7, FoldsAgree
<1> QED
  BY <1>1, <1>4, <1>8 DEF Gain, f

LEMMA GainUnion ==
  ASSUME NEW A, IsFiniteSet(A), NEW B, IsFiniteSet(B), A \cap B = {},
         \A u \in A \cup B : u.delta \in Nat
  PROVE  Gain(A \cup B) = Gain(A) + Gain(B) /\ Gain(A) \in Nat /\ Gain(B) \in Nat
<1> DEFINE f == [u \in A \cup B |-> u.delta]
           a == [u \in A |-> u.delta]
           b == [u \in B |-> u.delta]
<1>1. /\ \A u \in A \cup B : f[u] \in Nat
      /\ \A u \in A : a[u] \in Nat /\ a[u] = f[u]
      /\ \A u \in B : b[u] \in Nat /\ b[u] = f[u]
  OBVIOUS
<1>2. Gain(A \cup B) = Total(f, A \cup B) /\ Gain(A) = Total(a, A) /\ Gain(B) = Total(b, B)
  BY DEF Gain
<1> HIDE DEF f, a, b
<1>3. Total(a, A) = Total(f, A) /\ Total(b, B) = Total(f, B)
  BY <1>1, TotalSame
<1>4. Total(f, A \cup B) = Total(f, A) + Total(f, B)
  BY <1>1, TotalUnion
<1>5. Total(a, A) \in Nat /\ Total(b, B) \in Nat
  BY <1>1, TotalType
<1> QED
  BY <1>2, <1>3, <1>4, <1>5

LEMMA GainOne ==
  ASSUME NEW u, u.delta \in Nat
  PROVE  Gain({u}) = u.delta
<1> DEFINE f == [v \in {u} |-> v.delta]
<1>1. f[u] = u.delta
  OBVIOUS
<1>2. Gain({u}) = Total(f, {u})
  BY DEF Gain
<1> HIDE DEF f
<1>3. {u} = {} \cup {u} /\ u \notin {} /\ \A x \in {} \cup {u} : f[x] \in Nat
  BY <1>1
<1>4. Total(f, {} \cup {u}) = f[u] + Total(f, {})
  BY <1>3, TotalAdd, FS_EmptySet
<1> QED
  BY <1>1, <1>2, <1>3, <1>4, TotalEmpty

LEMMA GainEmpty == Gain({}) = 0
  BY TotalEmpty DEF Gain

\* Increments by 0 add nothing.
LEMMA GainNothing ==
  ASSUME NEW Z, IsFiniteSet(Z), \A u \in Z : u.delta = 0
  PROVE  Gain(Z) = 0
<1> DEFINE Bad == {T \in SUBSET Z : Gain(T) # 0}
<1>1. SUFFICES ASSUME Bad # {}
               PROVE  FALSE
  OBVIOUS
<1>2. PICK T \in Bad : \A U \in SUBSET T : U # T => U \notin Bad
  <2>1. Bad \in SUBSET (SUBSET Z)
    OBVIOUS
  <2> HIDE DEF Bad
  <2> QED
    BY <1>1, <2>1, LeastSet
<1>3. T # {}
  BY <1>2, GainEmpty
<1>4. PICK a : a \in T
  BY <1>3
<1> DEFINE U == T \ {a}
<1>5. U \in SUBSET T /\ U # T /\ U \cup {a} = T /\ U \cap {a} = {}
  BY <1>4
<1>6. Gain(U) = 0
  BY <1>2, <1>5
<1>7. IsFiniteSet(U) /\ IsFiniteSet({a}) /\ \A u \in U \cup {a} : u.delta = 0
  BY <1>2, <1>4, FS_Subset, FS_Singleton
<1> HIDE DEF U
<1>8. Gain(U \cup {a}) = Gain(U) + Gain({a})
  <2>1. \A u \in U \cup {a} : u.delta \in Nat
    BY <1>7
  <2> QED
    BY <2>1, <1>5, <1>7, GainUnion
<1>9. Gain({a}) = 0
  <2>1. a.delta = 0
    BY <1>7
  <2> QED
    BY <2>1, GainOne
<1>10. Gain(T) = 0
  BY <1>5, <1>6, <1>8, <1>9
<1> QED
  BY <1>2, <1>10

-----------------------------------------------------------------------------
(* Counting is kept *)

LEMMA StepsUnion ==
  ASSUME NEW S, NEW T, NEW n
  PROVE  Steps(S \cup T, n) = Steps(S, n) \cup Steps(T, n)
  BY DEF Steps

\* The greater of two counts comes with the larger set of steps.
LEMMA MergeCounted ==
  ASSUME NEW c, NEW d, NEW S, NEW T, NEW top, NEW own,
         Counted(c, S, top, own), Counted(d, T, top, own)
  PROVE  Counted(CountsMerge(c, d), S \cup T, top, own)
<1> DEFINE m == CountsMerge(c, d)
<1>1. c \in [Node -> Nat] /\ d \in [Node -> Nat]
  BY DEF Counted
<1>2. \A n \in Node : m[n] = Max2(c[n], d[n])
  BY DEF CountsMerge
<1>3. m \in [Node -> Nat]
  BY <1>1 DEF CountsMerge, Max2
<1>4. IsFiniteSet(S \cup T)
  BY FS_Union DEF Counted
<1>5. \A u \in S \cup T : u.op = "increment" =>
        u.node \in Node /\ u.delta \in Nat /\ u.total \in Nat
  BY DEF Counted
<1> HIDE DEF m
<1>6. ASSUME NEW n \in Node
      PROVE  /\ m[n] <= top[n]
             /\ Steps(S \cup T, n) = {u \in own[n] : u.total <= m[n]}
             /\ Gain(Steps(S \cup T, n)) = m[n]
  <2>1. c[n] \in Nat /\ d[n] \in Nat
    BY <1>1
  <2>2. /\ c[n] <= top[n] /\ Steps(S, n) = {u \in own[n] : u.total <= c[n]}
        /\ Gain(Steps(S, n)) = c[n]
        /\ d[n] <= top[n] /\ Steps(T, n) = {u \in own[n] : u.total <= d[n]}
        /\ Gain(Steps(T, n)) = d[n]
    BY DEF Counted
  <2>3. \A u \in Steps(S, n) \cup Steps(T, n) : u.total \in Nat
    BY DEF Counted, Steps
  <2>4. CASE c[n] >= d[n]
    <3>1. m[n] = c[n]
      BY <1>2, <2>4 DEF Max2
    <3>2. Steps(T, n) \subseteq Steps(S, n)
      BY <2>1, <2>2, <2>3, <2>4
    <3>3. Steps(S \cup T, n) = Steps(S, n)
      <4>1. Steps(S \cup T, n) = Steps(S, n) \cup Steps(T, n)
        BY StepsUnion
      <4> QED
        BY <3>2, <4>1
    <3> QED
      BY <2>2, <3>1, <3>3
  <2>5. CASE ~ (c[n] >= d[n])
    <3>1. m[n] = d[n] /\ c[n] <= d[n]
      BY <1>2, <2>1, <2>5 DEF Max2
    <3>2. Steps(S, n) \subseteq Steps(T, n)
      BY <2>1, <2>2, <2>3, <3>1
    <3>3. Steps(S \cup T, n) = Steps(T, n)
      <4>1. Steps(S \cup T, n) = Steps(S, n) \cup Steps(T, n)
        BY StepsUnion
      <4> QED
        BY <3>2, <4>1
    <3> QED
      BY <2>2, <3>1, <3>3
  <2> QED
    BY <2>4, <2>5
<1> QED
  BY <1>3, <1>4, <1>5, <1>6 DEF Counted, m

\* An update that is no step changes no count.
LEMMA UncountedUpdate ==
  ASSUME NEW c, NEW S, NEW top, NEW own, Counted(c, S, top, own), NEW u,
         u.op = "increment" =>
           u.node \in Node /\ u.delta = 0 /\ u.total \in Nat
  PROVE  Counted(c, S \cup {u}, top, own)
<1>1. \A n \in Node : Steps(S \cup {u}, n) = Steps(S, n)
  BY DEF Steps
<1>2. IsFiniteSet(S \cup {u})
  BY FS_AddElement DEF Counted
<1>3. \A v \in S \cup {u} : v.op = "increment" =>
        v.node \in Node /\ v.delta \in Nat /\ v.total \in Nat
  BY DEF Counted
<1> QED
  BY <1>1, <1>2, <1>3 DEF Counted

\* Node r has made one step more, u.
Advanced(top, own, r, u, top2, own2) ==
  \A n \in Node : /\ own2[n] = own[n] \cup (IF n = r THEN {u} ELSE {})
                  /\ top2[n] = IF n = r THEN u.total ELSE top[n]

\* A step of r makes a total that no copy has reached.
LEMMA StepAhead ==
  ASSUME NEW c, NEW S, NEW top \in [Node -> Nat], NEW own, Counted(c, S, top, own),
         NEW r \in Node, NEW d \in Nat \ {0}, NEW u, u.total = top[r] + d,
         NEW top2, NEW own2, Advanced(top, own, r, u, top2, own2)
  PROVE  Counted(c, S, top2, own2)
<1>1. \A n \in Node : /\ own2[n] = own[n] \cup (IF n = r THEN {u} ELSE {})
                      /\ top2[n] = IF n = r THEN top[r] + d ELSE top[n]
  BY DEF Advanced
<1>2. ASSUME NEW n \in Node
      PROVE  /\ c[n] <= top2[n]
             /\ Steps(S, n) = {v \in own2[n] : v.total <= c[n]}
  <2>1. c[n] \in Nat /\ top[n] \in Nat /\ c[n] <= top[n]
        /\ Steps(S, n) = {v \in own[n] : v.total <= c[n]}
    BY DEF Counted
  <2>2. CASE n = r
    <3>1. ~ (u.total <= c[n])
      BY <2>1, <2>2
    <3>2. own2[n] = own[n] \cup {u} /\ top2[n] = top[n] + d
      BY <1>1, <2>2
    <3> QED
      BY <2>1, <3>1, <3>2
  <2>3. CASE n # r
    BY <1>1, <2>1, <2>3
  <2> QED
    BY <2>2, <2>3
<1> QED
  BY <1>2 DEF Counted

\* The node that makes the step counts it.
LEMMA StepCounted ==
  ASSUME NEW c, NEW S, NEW top \in [Node -> Nat], NEW own, Counted(c, S, top, own),
         NEW r \in Node, c[r] = top[r], Steps(S, r) = own[r],
         NEW d \in Nat \ {0}, NEW u, u.op = "increment", u.node = r, u.delta = d,
         u.total = top[r] + d,
         NEW top2, NEW own2, Advanced(top, own, r, u, top2, own2)
  PROVE  Counted([c EXCEPT ![r] = @ + d], S \cup {u}, top2, own2)
<1> DEFINE c2 == [c EXCEPT ![r] = @ + d]
<1>0. c \in [Node -> Nat]
  BY DEF Counted
<1>1. \A n \in Node : /\ own2[n] = own[n] \cup (IF n = r THEN {u} ELSE {})
                      /\ top2[n] = IF n = r THEN top[r] + d ELSE top[n]
                      /\ c2[n] = IF n = r THEN c[r] + d ELSE c[n]
  BY <1>0 DEF Advanced
<1>2. c2 \in [Node -> Nat]
  BY <1>0
<1> HIDE DEF c2
<1>3. IsFiniteSet(S \cup {u})
  BY FS_AddElement DEF Counted
<1>4. \A v \in S \cup {u} : v.op = "increment" =>
        v.node \in Node /\ v.delta \in Nat /\ v.total \in Nat
  BY DEF Counted
<1>5. ASSUME NEW n \in Node
      PROVE  /\ c2[n] <= top2[n]
             /\ Steps(S \cup {u}, n) = {v \in own2[n] : v.total <= c2[n]}
             /\ Gain(Steps(S \cup {u}, n)) = c2[n]
  <2>1. /\ c[n] \in Nat /\ top[n] \in Nat /\ c[n] <= top[n]
        /\ Steps(S, n) = {v \in own[n] : v.total <= c[n]}
        /\ Gain(Steps(S, n)) = c[n]
    BY DEF Counted
  <2>2. CASE n # r
    <3>1. Steps(S \cup {u}, n) = Steps(S, n)
      BY <2>2 DEF Steps
    <3> QED
      BY <1>1, <2>1, <2>2, <3>1
  <2>3. CASE n = r
    <3>1. Steps(S \cup {u}, n) = Steps(S, n) \cup {u}
      BY <2>3 DEF Steps
    <3>2. own2[n] = own[n] \cup {u} /\ top2[n] = top[n] + d /\ c2[n] = c[n] + d /\ c[n] = top[n]
      BY <1>1, <2>3
    <3>3. \A v \in Steps(S, n) : v.total \in Nat /\ v.total <= c[n] /\ v.delta \in Nat
      BY <2>1 DEF Steps, Counted
    <3>4. u \notin Steps(S, n) /\ u.total <= c2[n]
      BY <2>1, <2>3, <3>2, <3>3
    <3>5. {v \in own2[n] : v.total <= c2[n]} = Steps(S, n) \cup {u}
      BY <2>1, <2>3, <3>2, <3>3, <3>4
    <3>6. IsFiniteSet(Steps(S, n)) /\ IsFiniteSet({u})
      BY FS_Subset, FS_Singleton DEF Counted, Steps
    <3>7. Gain(Steps(S, n) \cup {u}) = Gain(Steps(S, n)) + Gain({u})
      <4>1. Steps(S, n) \cap {u} = {}
        BY <3>4
      <4>2. \A v \in Steps(S, n) \cup {u} : v.delta \in Nat
        BY <3>3
      <4> QED
        BY <4>1, <4>2, <3>6, GainUnion
    <3>8. Gain({u}) = d
      BY GainOne
    <3>9. Gain(Steps(S \cup {u}, n)) = c2[n]
      BY <2>1, <3>1, <3>2, <3>7, <3>8
    <3>10. c2[n] <= top2[n]
      BY <2>1, <3>2
    <3> QED
      BY <3>1, <3>5, <3>9, <3>10
  <2> QED
    BY <2>2, <2>3
<1> QED
  BY <1>2, <1>3, <1>4, <1>5 DEF Counted, c2

-----------------------------------------------------------------------------
(* The invariant *)

LEMMA InitCountInv == Init => CountInv
<1> SUFFICES ASSUME Init
             PROVE  CountInv
  OBVIOUS
<1>1. \A r \in Node : memory[r].ephemeral = [n \in Node |-> 0] /\ seen[r] = {}
  BY DEF Init, NewMemory
<1>2. \A n : Steps({}, n) = {}
  BY DEF Steps
<1>3. \A n \in Node : Top[n] = 0 /\ Own[n] = {}
  BY <1>1, <1>2 DEF Top, Own
<1>4. Counted([n \in Node |-> 0], {}, Top, Own)
  <2> HIDE DEF Top, Own
  <2> QED
    BY <1>2, <1>3, GainEmpty, FS_EmptySet DEF Counted
<1> QED
  BY <1>1, <1>4 DEF Init, CountInv

\* The node's own copy holds all its steps.
LEMMA OwnCounted ==
  ASSUME DataInv, CountInv
  PROVE  /\ Top \in [Node -> Nat]
         /\ \A r \in Node : /\ Counted(memory[r].ephemeral, seen[r], Top, Own)
                            /\ memory[r].ephemeral[r] = Top[r]
                            /\ Steps(seen[r], r) = Own[r]
  BY DEF DataInv, Based, Top, Own, CountInv

\* An update by r that is no step.
LEMMA UncountedKeeps ==
  ASSUME DataInv, CountInv, NEW r \in Node, NEW new, NEW u, Update(r, new, u),
         new.ephemeral = memory[r].ephemeral,
         u.op = "increment" =>
           u.node \in Node /\ u.delta = 0 /\ u.total \in Nat
  PROVE  CountInv'
<1>1. /\ memory'[r] = new /\ seen'[r] = seen[r] \cup {u} /\ net' = net
      /\ \A s \in Node \ {r} : memory'[s] = memory[s] /\ seen'[s] = seen[s]
  BY DEF Update, DataInv
<1>2. \A n \in Node : Steps(seen'[n], n) = Steps(seen[n], n)
  BY <1>1 DEF Steps
<1>3. Top' = Top /\ Own' = Own
  <2>1. \A n \in Node : memory'[n].ephemeral[n] = memory[n].ephemeral[n]
    BY <1>1
  <2> QED
    BY <1>2, <2>1 DEF Top, Own
<1>4. Counted(new.ephemeral, seen[r] \cup {u}, Top, Own)
  BY UncountedUpdate DEF CountInv
<1> QED
  BY <1>1, <1>3, <1>4 DEF CountInv

LEMMA IncrementKeeps ==
  ASSUME DataInv, CountInv, NEW r \in Node, NEW d \in Delta, Increment(r, d)
  PROVE  CountInv'
<1> DEFINE k == memory[r].ephemeral[r] + d
           new == [memory[r] EXCEPT !.ephemeral[r] = k]
           u == [op |-> "increment", node |-> r, delta |-> d, total |-> k]
<1>1. Update(r, new, u)
  BY DEF Increment
<1>2. d \in Nat /\ memory[r].ephemeral[r] \in Nat
  BY CrdtAssumption DEF DataInv, Based
<1>3. new.ephemeral = [memory[r].ephemeral EXCEPT ![r] = @ + d]
  BY DEF DataInv, Based, Fields
<1>4. u.op = "increment" /\ u.node = r /\ u.delta = d /\ u.total = k /\ k \in Nat
  BY <1>2
<1>5. memory[r].ephemeral \in [Node -> Nat]
  BY DEF DataInv, Based
<1> HIDE DEF new, u
<1>6. CASE d = 0
  <2>1. new.ephemeral = memory[r].ephemeral
    BY <1>2, <1>3, <1>5, <1>6
  <2> QED
    BY <1>1, <1>4, <1>6, <2>1, UncountedKeeps
<1>7. CASE d # 0
  <2>1. /\ memory'[r] = new /\ seen'[r] = seen[r] \cup {u} /\ net' = net
        /\ \A s \in Node \ {r} : memory'[s] = memory[s] /\ seen'[s] = seen[s]
    BY <1>1 DEF Update, DataInv
  <2>2. /\ Top \in [Node -> Nat] /\ k = Top[r] + d
        /\ \A s \in Node : Counted(memory[s].ephemeral, seen[s], Top, Own)
        /\ memory[r].ephemeral[r] = Top[r] /\ Steps(seen[r], r) = Own[r]
    BY OwnCounted
  <2>3. \A n \in Node : Steps(seen'[n], n) = Steps(seen[n], n) \cup (IF n = r THEN {u} ELSE {})
    BY <1>4, <1>7, <2>1 DEF Steps
  <2>4. new.ephemeral[r] = k
    BY <1>3, <1>5
  <2>5. \A n \in Node : memory'[n].ephemeral[n] = IF n = r THEN k ELSE memory[n].ephemeral[n]
    BY <2>1, <2>4
  <2>6. Advanced(Top, Own, r, u, Top', Own')
    BY <1>4, <2>3, <2>5 DEF Advanced, Top, Own
  <2>7. d \in Nat \ {0}
    BY <1>2, <1>7
  <2>8. ASSUME NEW c, NEW S, Counted(c, S, Top, Own)
        PROVE  Counted(c, S, Top', Own')
    <3>1. u.total = Top[r] + d /\ Top \in [Node -> Nat]
      BY <1>4, <2>2
    <3> QED
      BY <2>6, <2>7, <2>8, <3>1, StepAhead
  <2>9. Counted(new.ephemeral, seen[r] \cup {u}, Top', Own')
    <3>1. /\ Counted(memory[r].ephemeral, seen[r], Top, Own)
          /\ Top \in [Node -> Nat] /\ memory[r].ephemeral[r] = Top[r]
          /\ Steps(seen[r], r) = Own[r] /\ u.total = Top[r] + d
      BY <1>4, <2>2
    <3>2. u.op = "increment" /\ u.node = r /\ u.delta = d
      BY <1>4
    <3>3. Counted([memory[r].ephemeral EXCEPT ![r] = @ + d], seen[r] \cup {u}, Top', Own')
      BY <2>6, <2>7, <3>1, <3>2, StepCounted
    <3> QED
      BY <1>3, <3>3
  <2>10. \A s \in Node : Counted(memory'[s].ephemeral, seen'[s], Top', Own')
    BY <2>1, <2>2, <2>8, <2>9
  <2>11. \A c \in net' : Counted(c.memory.ephemeral, c.seen, Top', Own')
    BY <2>1, <2>8 DEF CountInv
  <2> QED
    BY <2>10, <2>11 DEF CountInv
<1> QED
  BY <1>6, <1>7

LEMMA ReceiveKeepsCount ==
  ASSUME DataInv, CountInv, NEW r \in Node, NEW copy \in net, Receive(r, copy)
  PROVE  CountInv'
<1>1. /\ Counted(memory[r].ephemeral, seen[r], Top, Own)
      /\ Counted(copy.memory.ephemeral, copy.seen, Top, Own)
  BY DEF CountInv
<1>2. PICK new : /\ new \in {Join(memory[r], copy.memory), Join(copy.memory, memory[r])}
                 /\ memory' = [memory EXCEPT ![r] = new]
  BY DEF Receive
<1>3. seen[r] \cup copy.seen = copy.seen \cup seen[r]
  OBVIOUS
<1>4. new.ephemeral \in {CountsMerge(memory[r].ephemeral, copy.memory.ephemeral),
                         CountsMerge(copy.memory.ephemeral, memory[r].ephemeral)}
  BY <1>2 DEF Join
<1>5. Counted(new.ephemeral, seen[r] \cup copy.seen, Top, Own)
  BY <1>1, <1>3, <1>4, MergeCounted
<1>6. /\ memory'[r] = new /\ seen'[r] = seen[r] \cup copy.seen /\ net' = net
      /\ \A s \in Node \ {r} : memory'[s] = memory[s] /\ seen'[s] = seen[s]
  BY <1>2 DEF Receive, DataInv
<1>7. /\ Top \in [Node -> Nat] /\ memory[r].ephemeral[r] = Top[r]
      /\ Steps(seen[r], r) = Own[r]
  BY OwnCounted
<1>8. Steps(seen[r] \cup copy.seen, r) = Steps(seen[r], r)
  <2>1. Steps(copy.seen, r) \subseteq Own[r]
    BY <1>1 DEF Counted
  <2>2. Steps(seen[r] \cup copy.seen, r) = Steps(seen[r], r) \cup Steps(copy.seen, r)
    BY StepsUnion
  <2> QED
    BY <1>7, <2>1, <2>2
<1>9. new.ephemeral[r] = memory[r].ephemeral[r]
  <2>1. /\ memory[r].ephemeral[r] \in Nat /\ copy.memory.ephemeral[r] \in Nat
        /\ copy.memory.ephemeral[r] <= memory[r].ephemeral[r]
    BY <1>1, <1>7 DEF Counted
  <2> QED
    BY <1>4, <2>1 DEF CountsMerge, Max2
<1>10. Own' = Own
  BY <1>6, <1>8 DEF Own
<1>11. Top' = Top
  BY <1>6, <1>9 DEF Top
<1> QED
  BY <1>5, <1>6, <1>10, <1>11 DEF CountInv

LEMMA StepCountInv == DataInv /\ CountInv /\ [Next]_vars => CountInv'
<1> SUFFICES ASSUME DataInv, CountInv, [Next]_vars
             PROVE  CountInv'
  OBVIOUS
<1>1. CASE UNCHANGED vars
  BY <1>1 DEF vars, CountInv, Top, Own
<1>2. ASSUME NEW r \in Node, Share(r)
      PROVE  CountInv'
  <2>1. /\ Top' = Top /\ Own' = Own /\ memory' = memory /\ seen' = seen
        /\ net' = net \cup {CopyOf(r)}
    BY <1>2 DEF Share, Top, Own
  <2>2. Counted(CopyOf(r).memory.ephemeral, CopyOf(r).seen, Top, Own)
    BY DEF CopyOf, CountInv
  <2> QED
    BY <2>1, <2>2 DEF CountInv
<1>3. ASSUME NEW r \in Node, LocalUpdate(r)
      PROVE  CountInv'
  <2>0. DOMAIN memory[r] = Fields
    BY DEF DataInv, Based
  <2>1. ASSUME NEW k \in Key, NEW v \in Value, NEW t \in 0..MaxStamp, Write(r, k, v, t)
        PROVE  CountInv'
    BY <2>0, <2>1, UncountedKeeps DEF Write, Fields
  <2>2. ASSUME NEW e \in Element, NEW t \in 0..MaxStamp, Add(r, e, t)
        PROVE  CountInv'
    BY <2>0, <2>2, UncountedKeeps DEF Add, Fields
  <2>3. ASSUME NEW e \in Element, NEW t \in 0..MaxStamp, Remove(r, e, t)
        PROVE  CountInv'
    BY <2>0, <2>3, UncountedKeeps DEF Remove, Fields
  <2>4. ASSUME Tick(r)
        PROVE  CountInv'
    BY <2>0, <2>4, UncountedKeeps DEF Tick, Fields
  <2> QED
    BY <1>3, <2>1, <2>2, <2>3, <2>4, IncrementKeeps DEF LocalUpdate
<1> QED
  BY <1>1, <1>2, <1>3, ReceiveKeepsCount DEF Next

-----------------------------------------------------------------------------
(* From the nodes' counts to the counter *)

LEMMA NodeGain ==
  ASSUME NEW counts, NEW updates, NEW top, NEW own, Counted(counts, updates, top, own),
         NEW n \in Node
  PROVE  Gain({u \in updates : u.op = "increment" /\ u.node = n}) = counts[n]
<1> DEFINE all == {u \in updates : u.op = "increment" /\ u.node = n}
           A == Steps(updates, n)
           Z == {u \in updates : u.op = "increment" /\ u.node = n /\ u.delta = 0}
<1>1. all = A \cup Z /\ A \cap Z = {}
  BY DEF Steps
<1>2. IsFiniteSet(A) /\ IsFiniteSet(Z)
  <2>1. A \in SUBSET updates /\ Z \in SUBSET updates /\ IsFiniteSet(updates)
    BY DEF Steps, Counted
  <2> QED
    BY <2>1, FS_Subset
<1>3. \A u \in A \cup Z : u.delta \in Nat
  BY DEF Steps, Counted
<1>4. Gain(Z) = 0
  BY <1>2, GainNothing
<1>5. Gain(A) = counts[n] /\ counts[n] \in Nat
  BY DEF Counted
<1> HIDE DEF A, Z, all
<1>6. Gain(A \cup Z) = Gain(A) + Gain(Z)
  BY <1>1, <1>2, <1>3, GainUnion
<1>7. Gain(all) = counts[n]
  BY <1>1, <1>4, <1>5, <1>6
<1> QED
  BY <1>7 DEF all

LEMMA CounterIsGain ==
  ASSUME NEW counts, NEW updates, NEW top, NEW own, Counted(counts, updates, top, own)
  PROVE  CounterValue(counts) = Gain({u \in updates : u.op = "increment"})
<1> DEFINE Of(N) == {u \in updates : u.op = "increment" /\ u.node \in N}
           Bad == {N \in SUBSET Node : Total(counts, N) # Gain(Of(N))}
<1>0. counts \in [Node -> Nat] /\ IsFiniteSet(updates)
      /\ \A u \in updates : u.op = "increment" => u.node \in Node /\ u.delta \in Nat
  BY DEF Counted
<1>1. \A N \in SUBSET Node : IsFiniteSet(N) /\ \A n \in N : counts[n] \in Nat
  BY <1>0, NodesAssumption, FS_Subset
<1>2. \A N \in SUBSET Node : IsFiniteSet(Of(N)) /\ \A u \in Of(N) : u.delta \in Nat
  <2>1. \A N \in SUBSET Node : Of(N) \in SUBSET updates
    OBVIOUS
  <2>2. \A N \in SUBSET Node : IsFiniteSet(Of(N))
    BY <1>0, <2>1, FS_Subset
  <2> QED
    BY <1>0, <2>2
<1>3. Bad = {}
  <2> SUFFICES ASSUME Bad # {}
               PROVE  FALSE
    OBVIOUS
  <2>1. PICK N \in Bad : \A M \in SUBSET N : M # N => M \notin Bad
    <3>1. Bad \in SUBSET (SUBSET Node)
      OBVIOUS
    <3> HIDE DEF Bad
    <3> QED
      BY <3>1, NodesAssumption, LeastSet
  <2>2. Of({}) = {}
    OBVIOUS
  <2>3. Total(counts, {}) = Gain(Of({}))
    BY <2>2, TotalEmpty, GainEmpty
  <2>4. PICK n : n \in N
    BY <2>1, <2>3
  <2> DEFINE M == N \ {n}
  <2>5. /\ N \in SUBSET Node /\ n \in Node /\ M \in SUBSET Node
        /\ M \in SUBSET N /\ M # N /\ M \cup {n} = N /\ n \notin M
    BY <2>1, <2>4
  <2>6. Total(counts, M) = Gain(Of(M))
    BY <2>1, <2>5
  <2>7. Of(N) = Of(M) \cup Of({n}) /\ Of(M) \cap Of({n}) = {}
    BY <2>5
  <2>8. Gain(Of({n})) = counts[n]
    <3>1. Of({n}) = {u \in updates : u.op = "increment" /\ u.node = n}
      OBVIOUS
    <3> QED
      BY <3>1, <2>5, NodeGain
  <2> HIDE DEF M, Of
  <2>9. Total(counts, M \cup {n}) = counts[n] + Total(counts, M)
    BY <1>1, <2>5, TotalAdd
  <2>10. /\ IsFiniteSet(Of(M)) /\ IsFiniteSet(Of({n}))
         /\ \A u \in Of(M) \cup Of({n}) : u.delta \in Nat
    BY <1>2, <2>5
  <2>11. /\ Gain(Of(M) \cup Of({n})) = Gain(Of(M)) + Gain(Of({n}))
         /\ Gain(Of(M)) \in Nat /\ Gain(Of({n})) \in Nat
    BY <2>7, <2>10, GainUnion
  <2>12. Total(counts, N) = Gain(Of(N))
    <3>1. Total(counts, N) = counts[n] + Total(counts, M)
      BY <2>5, <2>9
    <3>2. Gain(Of(N)) = Gain(Of(M)) + Gain(Of({n}))
      BY <2>7, <2>11
    <3>3. Gain(Of(N)) = Gain(Of({n})) + Gain(Of(M))
      BY <2>11, <3>2
    <3> QED
      BY <2>6, <2>8, <3>1, <3>3
  <2> QED
    BY <2>1, <2>12
<1>4. Total(counts, Node) = Gain(Of(Node))
  BY <1>3
<1>5. Of(Node) = {u \in updates : u.op = "increment"}
  BY <1>0
<1>6. CounterValue(counts) = Total(counts, Node)
  BY DEF CounterValue, Total
<1> QED
  BY <1>4, <1>5, <1>6

\* The counter of every copy is the sum of the increments the copy is based on,
\* each counted once, for any nodes and however often copies were joined.
THEOREM CounterExactHolds == Spec => []CounterExact
<1>1. ASSUME CountInv
      PROVE  CounterExact
  <2> SUFFICES ASSUME NEW c \in Copies
               PROVE  CounterValue(c.memory.ephemeral)
                        = MapThenSumSet(LAMBDA u : u.delta,
                                        {u \in c.seen : u.op = "increment"})
    BY DEF CounterExact
  <2>1. Counted(c.memory.ephemeral, c.seen, Top, Own)
    BY <1>1 DEF CountInv, Copies, CopyOf
  <2> DEFINE increments == {u \in c.seen : u.op = "increment"}
  <2>2. IsFiniteSet(increments) /\ \A u \in increments : u.delta \in Nat
    BY <2>1, FS_Subset DEF Counted
  <2>3. CounterValue(c.memory.ephemeral) = Gain(increments)
    BY <2>1, CounterIsGain
  <2> HIDE DEF increments
  <2>4. MapThenSumSet(LAMBDA u : u.delta, increments) = Gain(increments)
    BY <2>2, GainIsSum
  <2> QED
    BY <2>3, <2>4 DEF increments
<1> QED
  BY <1>1, InitCountInv, StepCountInv, InitDataInv, StepDataInv, PTL DEF Spec
=============================================================================
