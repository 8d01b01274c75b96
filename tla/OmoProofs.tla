------------------------------ MODULE OmoProofs ------------------------------
(***************************************************************************)
(* Theorems about the omo side: the kernel its callers reach, the steward  *)
(* that runs it, and the audit trail the nodes keep of it.  The three have *)
(* no state in common; they are proved side by side.                       *)
(***************************************************************************)
EXTENDS Kernel, Steward, AuditTrail, FiniteSetTheorems, SequenceTheorems,
        WellFoundedInduction, TLAPS

-----------------------------------------------------------------------------
(* The steps of the machine, named as the proofs split them.               *)
Audits == \E b \in states, a \in states \cup {Altered(s) : s \in states}, d \in CallerDiffs,
             ok \in BOOLEAN : VerifyTransition(b, a, d, ok)
Delegates == \E t \in tokens : Delegate(t)

(* Only an audit extends the history.                                      *)
LEMMA OthersKeepHistory == [Next]_vars /\ ~Audits => history' = history
  BY DEF Next, vars, dag, memory, Audits, Transition, ApplyDiff, Reconcile, Delegate, Fork, Merge,
         Execute

(* Only a delegation makes a token; every call is counted.                 *)
LEMMA OthersKeepTokens ==
    [Next]_vars /\ ~Delegates => tokens' = tokens /\ (calls' = calls \/ calls' = calls + 1)
  BY DEF Next, vars, dag, memory, Delegates, Transition, ApplyDiff, Reconcile, VerifyTransition, Fork,
         Merge, Execute, Counted

-----------------------------------------------------------------------------
(* A state that a diff left carries its own hash.                          *)
LEMMA AppliedIsHashed ==
    ASSUME NEW diff, NEW s, NEW t \in Applied(diff, s)
    PROVE  t.hash = Digest(t)
  BY DEF Applied, Hashed, Digest

(* States that are hashed alike mean the same.                             *)
LEMMA DigestDecides ==
    ASSUME NEW s, NEW t, Digest(s) = Digest(t)
    PROVE  SameContent(s, t)
  BY DEF Digest, SameContent

(* What a snapshot certifies, and that an audit makes only such snapshots. *)
Certifies(h) ==
    h.verified => /\ h.passed
                  /\ h.after.hash = Digest(h.after)
                  /\ \E t \in Applied(h.diff, h.before) : SameContent(t, h.after)

LEMMA AuditCertifies ==
    ASSUME NEW before, NEW after, NEW diff, NEW passed \in BOOLEAN,
           NEW replay \in IF Applied(diff, before) = {} THEN {{}}
                          ELSE {{t} : t \in Applied(diff, before)}
    PROVE  Certifies([before |-> before, after |-> after, diff |-> diff, passed |-> passed,
                      verified |-> Verdict(before, after, diff, passed, replay)])
<1>1. replay \subseteq Applied(diff, before)
  OBVIOUS
<1> SUFFICES ASSUME Verdict(before, after, diff, passed, replay)
             PROVE  /\ passed
                    /\ after.hash = Digest(after)
                    /\ \E t \in Applied(diff, before) : SameContent(t, after)
  BY DEF Certifies
<1>2. passed /\ after.hash = Digest(after)
  BY DEF Verdict
<1>3. PICK t \in replay : t.hash = after.hash
  BY DEF Verdict
<1>4. t \in Applied(diff, before) /\ Digest(t) = Digest(after)
  BY <1>1, <1>2, <1>3, AppliedIsHashed
<1> QED
  BY <1>2, <1>4, DigestDecides

(* The history is a sequence of snapshots that certify.                    *)
AuditInv == \E S : history \in Seq(S) /\ \A h \in S : Certifies(h)

LEMMA AppendKeeps ==
    ASSUME NEW S, NEW seq \in Seq(S), NEW e
    PROVE  Append(seq, e) \in Seq(S \cup {e})
<1>1. seq \in Seq(S \cup {e})
  OBVIOUS
<1> QED
  BY <1>1

(* AuditIsSound: a verified snapshot is a true one (audit/zangbeto.rs).    *)
THEOREM AuditIsSoundHolds == Spec => []AuditIsSound
<1>1. Init => AuditInv
  <2> SUFFICES ASSUME Init PROVE history \in Seq({}) /\ \A h \in {} : Certifies(h)
    BY DEF AuditInv
  <2> QED
    BY DEF Init
<1>2. AuditInv /\ [Next]_vars => AuditInv'
  <2> SUFFICES ASSUME AuditInv, [Next]_vars PROVE AuditInv'
    OBVIOUS
  <2>1. CASE Audits
    <3>1. PICK b \in states, a \in states \cup {Altered(s) : s \in states}, d \in CallerDiffs,
               ok \in BOOLEAN : VerifyTransition(b, a, d, ok)
      BY <2>1 DEF Audits
    <3>2. PICK replay \in IF Applied(d, b) = {} THEN {{}} ELSE {{t} : t \in Applied(d, b)} :
             history' = Append(history,
                [before |-> b, after |-> a, diff |-> d, passed |-> ok,
                 verified |-> Verdict(b, a, d, ok, replay)])
      BY <3>1 DEF VerifyTransition
    <3> DEFINE e == [before |-> b, after |-> a, diff |-> d, passed |-> ok,
                     verified |-> Verdict(b, a, d, ok, replay)]
    <3>3. Certifies(e)
      BY AuditCertifies
    <3> HIDE DEF e
    <3>4. PICK S : history \in Seq(S) /\ \A h \in S : Certifies(h)
      BY DEF AuditInv
    <3>5. Append(history, e) \in Seq(S \cup {e})
      BY <3>4, AppendKeeps
    <3>6. \A h \in S \cup {e} : Certifies(h)
      BY <3>3, <3>4
    <3>7. history' = Append(history, e)
      BY <3>2 DEF e
    <3> QED
      BY <3>5, <3>6, <3>7 DEF AuditInv
  <2>2. CASE ~Audits
    BY <2>2, OthersKeepHistory DEF AuditInv
  <2> QED
    BY <2>1, <2>2
<1>3. AuditInv => AuditIsSound
  <2> SUFFICES ASSUME AuditInv, NEW i \in DOMAIN history PROVE Certifies(history[i])
    BY DEF AuditIsSound, Certifies
  <2>1. PICK S : history \in Seq(S) /\ \A h \in S : Certifies(h)
    BY DEF AuditInv
  <2>2. history[i] \in S
    BY <2>1
  <2> QED
    BY <2>1, <2>2
<1> QED
  BY <1>1, <1>2, <1>3, PTL DEF Spec

-----------------------------------------------------------------------------
(***************************************************************************)
(* Tokens.  The lineage of a token is a sequence of ids that were given    *)
(* out before its own; ids are never given out twice, and every ancestor's *)
(* denied paths are the token's.                                           *)
(***************************************************************************)
Given == {r.id : r \in Roots} \cup (1 .. calls)

TokenInv ==
    /\ calls \in Nat
    /\ \A t \in tokens : t.id \in Given /\ t.chain \in Seq(Given)
    /\ \A t, u \in tokens : t.id = u.id => t = u
    /\ \A a, t \in tokens : a.id \in ToSet(t.chain) => a.denied \subseteq t.denied

LEMMA GivenIsInt == Given \subseteq Int
  BY RootsAssumption DEF Given

(* A call that makes no token keeps the invariant: ids given stay given.   *)
LEMMA Recounted ==
    ASSUME TokenInv, tokens' = tokens, calls' = calls \/ calls' = calls + 1
    PROVE  TokenInv'
<1>1. calls' \in Nat /\ Given \subseteq Given'
  BY DEF TokenInv, Given
<1>2. \A t \in tokens : t.chain \in Seq(Given')
  BY <1>1 DEF TokenInv
<1> QED
  BY <1>1, <1>2 DEF TokenInv

LEMMA ChildOfChain ==
    ASSUME NEW S, NEW chain \in Seq(S), NEW id
    PROVE  ToSet(Append(chain, id)) \subseteq ToSet(chain) \cup {id}
  BY DEF ToSet

LEMMA ChainIds ==
    ASSUME NEW S, NEW chain \in Seq(S)
    PROVE  ToSet(chain) \subseteq S
  BY DEF ToSet

LEMMA DelegateKeeps ==
    ASSUME TokenInv, Delegates
    PROVE  TokenInv'
<1>1. PICK p \in tokens : Delegate(p)
  BY DEF Delegates
<1>2. PICK allowed, extra, expiry :
         tokens' = tokens \cup {Delegated(p, calls + 1, allowed, extra, expiry)}
  BY <1>1 DEF Delegate
<1> DEFINE child == Delegated(p, calls + 1, allowed, extra, expiry)
<1>3. /\ child.id = calls + 1
      /\ child.denied = p.denied \cup extra
      /\ child.chain = Append(p.chain, p.id)
  BY DEF Delegated
<1> HIDE DEF child
<1>4. calls \in Nat /\ calls' = calls + 1 /\ tokens' = tokens \cup {child}
  BY <1>1, <1>2 DEF Delegate, Counted, TokenInv, child
<1>5. Given \subseteq Given' /\ calls + 1 \in Given' /\ calls + 1 \notin Given
  BY <1>4, RootsAssumption DEF Given
<1>6. child.id \in Given' /\ child.chain \in Seq(Given')
  <2>1. p.chain \in Seq(Given') /\ p.id \in Given'
    BY <1>5 DEF TokenInv
  <2> QED
    BY <2>1, <1>3, <1>5
<1>7. \A t \in tokens : t.id \in Given' /\ t.chain \in Seq(Given') /\ t.id # child.id
  BY <1>3, <1>5 DEF TokenInv
<1>8. \A t \in tokens' : t.id \in Given' /\ t.chain \in Seq(Given')
  BY <1>4, <1>6, <1>7
<1>9. \A t, u \in tokens' : t.id = u.id => t = u
  BY <1>4, <1>7 DEF TokenInv
<1>10. \A a, t \in tokens' : a.id \in ToSet(t.chain) => a.denied \subseteq t.denied
  <2> SUFFICES ASSUME NEW a \in tokens', NEW t \in tokens', a.id \in ToSet(t.chain)
               PROVE  a.denied \subseteq t.denied
    OBVIOUS
  <2>1. a.id \in Given
    <3>1. \A u \in tokens : ToSet(u.chain) \subseteq Given
      BY ChainIds DEF TokenInv
    <3>2. ToSet(child.chain) \subseteq ToSet(p.chain) \cup {p.id}
      BY <1>3, ChildOfChain DEF TokenInv
    <3>3. ToSet(child.chain) \subseteq Given
      BY <3>1, <3>2 DEF TokenInv
    <3> QED
      BY <1>4, <3>1, <3>3
  <2>2. a \in tokens
    BY <2>1, <1>3, <1>4, <1>5
  <2>3. CASE t \in tokens
    BY <2>2, <2>3 DEF TokenInv
  <2>4. CASE t = child
    <3>1. a.id \in ToSet(p.chain) \cup {p.id}
      BY <2>4, <1>3, ChildOfChain DEF TokenInv
    <3>2. a.denied \subseteq p.denied
      BY <3>1, <2>2 DEF TokenInv
    <3> QED
      BY <3>2, <2>4, <1>3
  <2> QED
    BY <2>3, <2>4, <1>4
<1>11. calls' \in Nat
  BY <1>4
<1> QED
  BY <1>8, <1>9, <1>10, <1>11 DEF TokenInv

(* DeniedStaysDenied: what is denied to a token is denied to all that are  *)
(* delegated from it (capability/mod.rs).                                  *)
THEOREM DeniedStaysDeniedHolds == Spec => []DeniedStaysDenied
<1>1. Init => TokenInv
  <2> SUFFICES ASSUME Init PROVE TokenInv
    OBVIOUS
  <2>1. tokens = Roots /\ calls = 0
    BY DEF Init
  <2>2. ASSUME NEW r \in Roots
        PROVE  r.id \in Given /\ r.chain \in Seq(Given) /\ ToSet(r.chain) = {}
    <3>1. r.chain = <<>>
      BY RootsAssumption
    <3>2. <<>> \in Seq(Given) /\ ToSet(<<>>) = {}
      BY DEF ToSet
    <3>3. r.id \in Given
      BY DEF Given
    <3> QED
      BY <3>1, <3>2, <3>3
  <2> QED
    BY <2>1, <2>2, RootsAssumption DEF TokenInv
<1>2. TokenInv /\ [Next]_vars => TokenInv'
  BY OthersKeepTokens, Recounted, DelegateKeeps
<1>3. TokenInv => DeniedStaysDenied
  BY DEF TokenInv, DeniedStaysDenied, Permits, Denies
<1> QED
  BY <1>1, <1>2, <1>3, PTL DEF Spec

-----------------------------------------------------------------------------
(* What one operation does, and what two validators weigh.                   *)

(* A fold over one operation is its effect.                                  *)
LEMMA FoldOne ==
  ASSUME NEW op, NEW value
  PROVE  FoldLeft(Effect, value, <<op>>) = Effect(value, op)
<1> DEFINE S == DOMAIN <<op>>
           R(f) == f = [s \in SUBSET S |-> IF s = {} THEN value
                          ELSE LET x == Max(s) IN Effect(f[s \ {x}], <<op>>[x])]
           g == [s \in SUBSET S |-> IF s = {} THEN value ELSE Effect(value, op)]
           iter == CHOOSE f : R(f)
<1>1. S = {1}
  OBVIOUS
<1>2. Max({1}) = 1
  BY DEF Max
<1>3. \A s \in SUBSET S : s = {} \/ s = {1}
  BY <1>1
<1>4. R(g)
  <2>1. ASSUME NEW s \in SUBSET S
        PROVE  g[s] = IF s = {} THEN value
                      ELSE LET x == Max(s) IN Effect(g[s \ {x}], <<op>>[x])
    <3>1. CASE s = {}
      BY <3>1
    <3>2. CASE s = {1}
      <4>1. Max(s) = 1 /\ s \ {1} = {} /\ s # {} /\ <<op>>[1] = op
        BY <3>2, <1>2
      <4>2. g[s] = Effect(value, op) /\ g[{}] = value
        BY <4>1
      <4> HIDE DEF g
      <4> QED
        BY <4>1, <4>2
    <3> QED
      BY <1>3, <3>1, <3>2
  <2>2. g = [s \in SUBSET S |-> g[s]]
    OBVIOUS
  <2> HIDE DEF g
  <2> QED
    BY <2>1, <2>2, Zenon
<1>5. R(iter)
  BY <1>4
<1>6. iter[{}] = value
  BY <1>5
<1>7. iter[S] = Effect(iter[{}], op)
  <2>1. S \in SUBSET S /\ S # {} /\ Max(S) = 1 /\ S \ {1} = {}
    BY <1>1, <1>2
  <2>2. iter[S] = Effect(iter[S \ {Max(S)}], <<op>>[Max(S)])
    BY <1>5, <2>1, Zenon
  <2>3. <<op>>[1] = op
    OBVIOUS
  <2> HIDE DEF iter, S
  <2> QED
    BY <2>1, <2>2, <2>3
<1>8. FoldLeft(Effect, value, <<op>>) = iter[S]
  BY DEF FoldLeft, MapThenFoldSet
<1> QED
  BY <1>6, <1>7, <1>8

(* The weights of the validators a generated diff requires.                  *)
LEMMA Weights ==
  /\ WeightOf({}) = 0
  /\ WeightOf({"eshu"}) = 10
  /\ WeightOf(Required) = 18
<1> DEFINE W(v) == Weight[v]
           Recursion(f, S) ==
             f = [s \in SUBSET S |-> IF s = {} THEN 0
                    ELSE LET x == CHOOSE x \in s : TRUE IN W(x) + f[s \ {x}]]
           Iter(S) == CHOOSE f : Recursion(f, S)
<1>1. \A S : WeightOf(S) = Iter(S)[S]
  BY DEF WeightOf, MapThenSumSet, MapThenFoldSet
<1>2. W("eshu") = 10 /\ W("obatala") = 8
  BY DEF Weight
<1> DEFINE w(s) == (IF "eshu" \in s THEN 10 ELSE 0) + (IF "obatala" \in s THEN 8 ELSE 0)
<1>3. \A s \in SUBSET Required : \A x \in s : w(s) = W(x) + w(s \ {x})
  <2> SUFFICES ASSUME NEW s \in SUBSET Required, NEW x \in s
               PROVE  w(s) = W(x) + w(s \ {x})
    OBVIOUS
  <2>1. CASE x = "eshu"
    BY <2>1, <1>2
  <2>2. CASE x = "obatala"
    BY <2>2, <1>2
  <2> QED
    BY <2>1, <2>2 DEF Required
<1>4. w({}) = 0
  OBVIOUS
<1> HIDE DEF W, w
<1>5. ASSUME NEW S \in SUBSET Required
      PROVE  Recursion(Iter(S), S)
  <2> DEFINE g == [s \in SUBSET S |-> w(s)]
  <2>1. ASSUME NEW s \in SUBSET S
        PROVE  w(s) = IF s = {} THEN 0
                      ELSE LET x == CHOOSE y \in s : TRUE IN W(x) + g[s \ {x}]
    <3>1. CASE s = {}
      BY <3>1, <1>4
    <3>2. CASE s # {}
      <4>1. PICK x : x = CHOOSE y \in s : TRUE
        OBVIOUS
      <4>2. x \in s
        BY <3>2, <4>1
      <4>3. w(s) = W(x) + w(s \ {x}) /\ g[s \ {x}] = w(s \ {x})
        BY <4>2, <1>3
      <4> HIDE DEF g
      <4> QED
        BY <3>2, <4>1, <4>3
    <3> QED
      BY <3>1, <3>2
  <2>2. Recursion(g, S)
    BY <2>1
  <2> HIDE DEF g, Recursion
  <2> QED
    BY <2>2
<1> HIDE DEF Iter
<1>6. ASSUME NEW S \in SUBSET Required, NEW s \in SUBSET S, s # {}
      PROVE  \E x \in s : Iter(S)[s] = W(x) + Iter(S)[s \ {x}]
  <2>1. PICK x : x = CHOOSE y \in s : TRUE
    OBVIOUS
  <2>2. x \in s
    BY <1>6, <2>1
  <2>3. Iter(S)[s] = W(x) + Iter(S)[s \ {x}]
    BY <1>5, <1>6, <2>1
  <2> QED
    BY <2>2, <2>3
<1>7. \A S \in SUBSET Required : Iter(S)[{}] = 0
  BY <1>5
<1> HIDE DEF Recursion
<1>8. ASSUME NEW S \in SUBSET Required, NEW v \in S
      PROVE  Iter(S)[{v}] = W(v)
  <2>1. PICK x \in {v} : Iter(S)[{v}] = W(x) + Iter(S)[{v} \ {x}]
    BY <1>6
  <2>2. x = v /\ {v} \ {x} = {} /\ W(v) \in Int
    BY <1>2 DEF Required
  <2>3. Iter(S)[{v} \ {x}] = 0
    BY <1>7, <2>2
  <2>4. Iter(S)[{v}] = W(v) + 0
    BY <2>1, <2>2, <2>3
  <2> QED
    BY <2>2, <2>4
<1>9. Iter(Required)[Required] = 18
  <2>1. Required \in SUBSET Required /\ Required # {}
    BY DEF Required
  <2>2. PICK x \in Required : Iter(Required)[Required] = W(x) + Iter(Required)[Required \ {x}]
    BY <1>6, <2>1
  <2>3. PICK y \in Required : Required \ {x} = {y} /\ {x, y} = Required
    BY <2>2 DEF Required
  <2>4. Iter(Required)[Required] = W(x) + W(y)
    BY <2>1, <2>2, <2>3, <1>8
  <2> QED
    BY <2>3, <2>4, <1>2 DEF Required
<1>10. WeightOf({}) = 0
  BY <1>1, <1>7
<1>11. WeightOf({"eshu"}) = 10
  BY <1>1, <1>2, <1>8 DEF Required
<1> QED
  BY <1>1, <1>9, <1>10, <1>11

(* A diff that carries a harmful intent is not let through: without Obatala  *)
(* the weight stays below the threshold.                                     *)
LEMMA ObatalaDecides ==
  ASSUME NEW s, NEW diff, ObatalaRefuses(s, diff)
  PROVE  ~ Resolve(Required, Refusing(s, diff))
<1>1. Required \ Refusing(s, diff) \in {{}, {"eshu"}}
  BY DEF Required, Refusing
<1>2. WeightOf(Required \ Refusing(s, diff)) \in {0, 10}
  BY <1>1, Weights
<1> QED
  BY <1>2, Weights DEF Resolve

-----------------------------------------------------------------------------
(* The states: a state is a record of the types of the code, and its version *)
(* counts calls.  Of the tasks of a state the engine returned, none is a     *)
(* harmful one still to do: they are sober.                                  *)
Sober == {task \in Task : task.status = "pending" => task.intent \notin Harmful}

ShapeOver(s, T) ==
  /\ s = [version |-> s.version, tasks |-> s.tasks, hive |-> s.hive, balance |-> s.balance,
          hash |-> s.hash]
  /\ s.version \in Nat
  /\ s.tasks \in Seq(T)
  /\ s.hive \in Seq(Keys) /\ IsInjective(s.hive)
  /\ s.balance \in Int
  /\ s.hash = NoHash <=> s.version = 0

StateShape(s) == ShapeOver(s, Task)

StateInv ==
  /\ calls \in 0 .. MaxCalls
  /\ \A s \in states : StateShape(s) /\ s.version <= calls
  /\ returned \subseteq states
  /\ \A s \in returned : s.tasks \in Seq(Sober)

LEMMA OrdersShape ==
  ASSUME NEW keys \in SUBSET Keys, NEW q \in Orders(keys)
  PROVE  q \in Seq(Keys) /\ IsInjective(q)
<1>1. IsFiniteSet(keys) /\ Cardinality(keys) \in Nat
  BY KeysAssumption, FS_Subset, FS_CardinalityType
<1> QED
  BY <1>1 DEF Orders

LEMMA SeqToSet ==
  ASSUME NEW S, NEW q \in Seq(S)
  PROVE  ToSet(q) \subseteq S
  BY DEF ToSet

LEMMA SeqOfMore ==
  ASSUME NEW S, NEW T, S \subseteq T, NEW q \in Seq(S)
  PROVE  q \in Seq(T)
  OBVIOUS

(* A state that one operation made of another, with the operations a caller  *)
(* or the engine puts in a diff; only a task of the diff is added.           *)
LEMMA AppliedShape ==
  ASSUME NEW T \in SUBSET Task, NEW s, ShapeOver(s, T), NEW input, NEW op,
         \/ \E added \in Keys : op = AddKey(added)
         \/ op = Increment(1)
         \/ \E task \in T : op = AddTask(task.id, task.intent, task.status),
         NEW t \in Applied([input |-> input, ops |-> <<op>>], s)
  PROVE  ShapeOver(t, T) /\ t.version = s.version + 1
<1> DEFINE diff == [input |-> input, ops |-> <<op>>]
           value == ValueAfter(diff, s)
           raw(order) == [version |-> s.version + 1, tasks |-> value.tasks, hive |-> order,
                          balance |-> value.balance, hash |-> s.hash]
<1>1. PICK order \in Orders(value.keys) : t = Hashed(raw(order))
  <2>1. Applied(diff, s) # {}
    OBVIOUS
  <2>2. Applied(diff, s) = {Hashed(raw(order)) : order \in Orders(value.keys)}
    BY <2>1, Zenon DEF Applied
  <2> HIDE DEF diff, value, raw
  <2> QED
    BY <2>2 DEF diff
<1>2. value = Effect(ValueOf(s), op)
  BY FoldOne DEF ValueAfter
<1>3. ValueOf(s) = [tasks |-> s.tasks, keys |-> ToSet(s.hive), balance |-> s.balance]
  BY DEF ValueOf
<1>4. ToSet(s.hive) \subseteq Keys
  BY SeqToSet DEF ShapeOver
<1>5. value.tasks \in Seq(T) /\ value.keys \in SUBSET Keys /\ value.balance \in Int
  <2>1. ASSUME NEW added \in Keys, op = AddKey(added)
        PROVE  value.tasks = s.tasks /\ value.keys = ToSet(s.hive) \cup {added}
               /\ value.balance = s.balance
    BY <1>2, <1>3, <2>1 DEF Effect, AddKey
  <2>2. ASSUME op = Increment(1)
        PROVE  value.tasks = s.tasks /\ value.keys = ToSet(s.hive)
               /\ value.balance = s.balance + 1
    BY <1>2, <1>3, <2>2 DEF Effect, Increment
  <2>3. ASSUME NEW task \in T, op = AddTask(task.id, task.intent, task.status)
        PROVE  /\ value.tasks = Append(s.tasks, task)
               /\ value.keys = ToSet(s.hive) /\ value.balance = s.balance
    <3>1. task = [id |-> task.id, intent |-> task.intent, status |-> task.status]
      BY DEF Task
    <3>2. op.op = "task" /\ op.task = task
      BY <2>3, <3>1 DEF AddTask
    <3> QED
      BY <1>2, <1>3, <3>2 DEF Effect
  <2>5. s.tasks \in Seq(T) /\ s.balance \in Int
    BY DEF ShapeOver
  <2> HIDE DEF value
  <2>6. CASE \E added \in Keys : op = AddKey(added)
    BY <1>4, <2>1, <2>5, <2>6
  <2>7. CASE op = Increment(1)
    BY <1>4, <2>2, <2>5, <2>7
  <2>8. CASE \E task \in T : op = AddTask(task.id, task.intent, task.status)
    <3>1. PICK task \in T : op = AddTask(task.id, task.intent, task.status)
      BY <2>8
    <3>2. value.tasks = Append(s.tasks, task)
      BY <2>3, <3>1
    <3>3. value.tasks \in Seq(T)
      BY <2>5, <3>2
    <3> QED
      BY <1>4, <2>3, <2>5, <3>1, <3>3
  <2> QED
    BY <2>6, <2>7, <2>8
<1> HIDE DEF value
<1>6. order \in Seq(Keys) /\ IsInjective(order)
  BY <1>5, OrdersShape
<1>7. t = [version |-> s.version + 1, tasks |-> value.tasks, hive |-> order,
           balance |-> value.balance,
           hash |-> <<s.version + 1, value.tasks, order, value.balance>>]
  BY <1>1 DEF Hashed, Digest
<1>8. t.hash # NoHash
  <2>1. value.tasks \in Seq(T)
    BY <1>5
  <2>2. value.tasks \in Seq(Task)
    BY <2>1, SeqOfMore, Zenon
  <2>3. t.hash \in Hashable
    BY <1>5, <1>6, <1>7, <2>2 DEF Hashable, ShapeOver
  <2> QED
    BY <2>3, NoHashAssumption
<1> QED
  BY <1>5, <1>6, <1>7, <1>8 DEF ShapeOver

LEMMA HashedShape ==
  ASSUME NEW T \in SUBSET Task, NEW t, ShapeOver(t, T), t.version # 0
  PROVE  ShapeOver(Hashed(t), T) /\ Hashed(t).version = t.version
<1>1. Hashed(t) = [version |-> t.version, tasks |-> t.tasks, hive |-> t.hive,
                   balance |-> t.balance, hash |-> Digest(t)]
  BY DEF Hashed, ShapeOver
<1>2. Digest(t) # NoHash
  <2>1. t.tasks \in Seq(Task)
    BY SeqOfMore DEF ShapeOver
  <2>2. Digest(t) \in Hashable
    BY <2>1 DEF Hashable, ShapeOver, Digest
  <2> QED
    BY <2>2, NoHashAssumption
<1> HIDE DEF Digest
<1> QED
  BY <1>1, <1>2 DEF ShapeOver

(* What the engine lets through is sober, whatever tasks a caller put into   *)
(* the state it was given: one harmful task to do, and Obatala refuses.      *)
LEMMA TransitionedShape ==
  ASSUME StateInv, NEW s \in states, NEW intent \in Intents, NEW t \in Transitioned(s, intent)
  PROVE  ShapeOver(t, Sober) /\ t.version = s.version + 1
<1> DEFINE diff == Generated(s, intent)
           task == [id |-> calls + 1, intent |-> intent, status |-> "pending"]
           op == AddTask(task.id, task.intent, task.status)
<1>1. diff = [input |-> s.hash, ops |-> <<op>>] /\ task \in Task /\ task.intent = intent
  BY CallsAssumption DEF Generated, StateInv, Task
<1>2. /\ Resolve(Required, Refusing(s, diff))
      /\ \E u \in Applied(diff, s) : t = Hashed(u)
  BY DEF Transitioned
<1>3. ~ ObatalaRefuses(s, diff)
  BY <1>2, ObatalaDecides
<1>4. intent \notin Harmful
  <2>1. 1 \in {j \in DOMAIN diff.ops : diff.ops[j].op = "task"} /\ diff.ops[1].task = task
    BY <1>1 DEF AddTask
  <2>2. task \in Added(diff)
    BY <2>1, Zenon DEF Added
  <2> HIDE DEF diff, task
  <2> QED
    BY <1>1, <1>3, <2>2 DEF ObatalaRefuses
<1>5. task \in Sober
  BY <1>1, <1>4 DEF Sober
<1>6. ShapeOver(s, Task) /\ s.version \in Nat
  BY DEF StateInv, StateShape, ShapeOver
<1>7. ShapeOver(s, Sober)
  <2>1. s.tasks \in Seq(Task)
    BY <1>6 DEF ShapeOver
  <2>2. ASSUME NEW i \in 1 .. Len(s.tasks)
        PROVE  s.tasks[i] \in Sober
    <3>1. s.tasks[i] \in Task /\ s.tasks[i] \in ToSet(s.tasks)
      BY <2>1 DEF ToSet
    <3>2. s.tasks[i].status = "pending" => s.tasks[i].intent \notin Harmful
      BY <1>3, <3>1 DEF ObatalaRefuses, Pending
    <3> QED
      BY <3>1, <3>2 DEF Sober
  <2>3. s.tasks \in Seq(Sober)
    BY <2>1, <2>2
  <2> QED
    BY <1>6, <2>3 DEF ShapeOver
<1>8. PICK u \in Applied([input |-> s.hash, ops |-> <<op>>], s) : t = Hashed(u)
  BY <1>1, <1>2
<1>9. ShapeOver(u, Sober) /\ u.version = s.version + 1
  <2>1. \E k \in Sober : op = AddTask(k.id, k.intent, k.status)
    BY <1>5
  <2>2. Sober \in SUBSET Task
    BY DEF Sober
  <2> HIDE DEF op
  <2> QED
    BY <1>7, <2>1, <2>2, AppliedShape
<1>10. Sober \in SUBSET Task /\ u.version # 0
  BY <1>6, <1>9 DEF Sober
<1> QED
  BY <1>8, <1>9, <1>10, HashedShape

LEMMA SoberIsShape ==
  ASSUME NEW t, ShapeOver(t, Sober)
  PROVE  StateShape(t) /\ t.tasks \in Seq(Sober)
<1>1. Sober \subseteq Task
  BY DEF Sober
<1>2. t.tasks \in Seq(Task)
  BY <1>1, SeqOfMore DEF ShapeOver
<1> QED
  BY <1>2 DEF ShapeOver, StateShape

LEMMA CallerOpsAre ==
  ASSUME NEW ops \in CallerOps
  PROVE  \/ ops = <<Increment(1)>> \/ ops = <<Increment(1), AddLost>>
         \/ \E added \in Keys : ops = <<AddKey(added)>>
         \/ \E i \in Intents, status \in {"pending", "completed"} : ops = <<AddTask(0, i, status)>>
<1>1. CASE ops \in {<<AddKey(k)>> : k \in Keys}
  BY <1>1
<1>2. CASE ops \in {<<Increment(1)>>, <<Increment(1), AddLost>>}
  BY <1>2
<1>3. CASE ops \in {<<AddTask(0, i, status)>> : i \in Intents, status \in {"pending", "completed"}}
  BY <1>3
<1> QED
  BY <1>1, <1>2, <1>3 DEF CallerOps

LEMMA CallerShape ==
  ASSUME NEW s, StateShape(s), NEW diff \in CallerDiffs, NEW t \in Applied(diff, s)
  PROVE  StateShape(t) /\ t.version = s.version + 1
<1>1. PICK ops \in CallerOps : diff = [input |-> diff.input, ops |-> ops]
  BY DEF CallerDiffs
<1>2. ops # <<Increment(1), AddLost>>
  <2> SUFFICES ASSUME ops = <<Increment(1), AddLost>>
               PROVE  Applied(diff, s) = {}
    OBVIOUS
  <2>1. 2 \in DOMAIN diff.ops /\ diff.ops[2].op = "lost"
    BY <1>1 DEF AddLost
  <2> QED
    BY <2>1 DEF Applied
<1>3. PICK op : /\ ops = <<op>>
                /\ \/ op = Increment(1)
                   \/ \E added \in Keys : op = AddKey(added)
                   \/ \E task \in Task : op = AddTask(task.id, task.intent, task.status)
  <2>1. CASE \E i \in Intents, status \in {"pending", "completed"} : ops = <<AddTask(0, i, status)>>
    <3>1. PICK i \in Intents, status \in {"pending", "completed"} : ops = <<AddTask(0, i, status)>>
      BY <2>1
    <3> DEFINE task == [id |-> 0, intent |-> i, status |-> status]
    <3>2. task \in Task /\ AddTask(0, i, status) = AddTask(task.id, task.intent, task.status)
      BY DEF Task
    <3> HIDE DEF task
    <3> QED
      BY <3>1, <3>2
  <2>2. CASE ops = <<Increment(1)>> \/ \E added \in Keys : ops = <<AddKey(added)>>
    BY <2>2
  <2>3. \/ ops = <<Increment(1)>> \/ ops = <<Increment(1), AddLost>>
        \/ \E added \in Keys : ops = <<AddKey(added)>>
        \/ \E i \in Intents, status \in {"pending", "completed"} : ops = <<AddTask(0, i, status)>>
    BY <1>1, CallerOpsAre
  <2> QED
    BY <1>2, <2>1, <2>2, <2>3
<1>4. Task \in SUBSET Task
  OBVIOUS
<1> QED
  BY <1>1, <1>3, <1>4, AppliedShape DEF StateShape

LEMMA StateStep == StateInv /\ [Next]_vars => StateInv'
<1> SUFFICES ASSUME StateInv, [Next]_vars
             PROVE  StateInv'
  OBVIOUS
<1>0. calls \in Nat /\ MaxCalls \in Nat /\ \A s \in states : s.version \in Nat
  BY CallsAssumption DEF StateInv, StateShape, ShapeOver
<1>1. ASSUME states' = states, returned' = returned, Counted \/ calls' = calls
      PROVE  StateInv'
  BY <1>0, <1>1 DEF StateInv, Counted
<1>2. ASSUME NEW t, states' = states \cup {t}, Counted, StateShape(t), t.version <= calls + 1,
             \/ returned' = returned
             \/ returned' = returned \cup {t} /\ t.tasks \in Seq(Sober)
      PROVE  StateInv'
  BY <1>0, <1>2 DEF StateInv, Counted
<1>3. ASSUME NEW s \in states, NEW intent \in Intents, Transition(s, intent)
      PROVE  StateInv'
  <2>1. CASE Transitioned(s, intent) = {}
    BY <1>1, <1>3, <2>1 DEF Transition
  <2>2. CASE Transitioned(s, intent) # {}
    <3>1. PICK t \in Transitioned(s, intent) :
             states' = states \cup {t} /\ returned' = returned \cup {t}
      BY <1>3, <2>2 DEF Transition
    <3>2. /\ StateShape(t) /\ t.tasks \in Seq(Sober)
          /\ t.version = s.version + 1 /\ s.version <= calls
      BY TransitionedShape, SoberIsShape DEF StateInv
    <3>3. Counted
      BY <1>3 DEF Transition
    <3>4. t.version <= calls + 1
      BY <1>0, <3>2
    <3> QED
      BY <1>2, <3>1, <3>2, <3>3, <3>4
  <2> QED
    BY <2>1, <2>2
<1>4. ASSUME NEW s \in states, NEW diff \in CallerDiffs, ApplyDiff(s, diff)
      PROVE  StateInv'
  <2>1. CASE Applied(diff, s) = {}
    BY <1>1, <1>4, <2>1 DEF ApplyDiff
  <2>2. CASE Applied(diff, s) # {}
    <3>1. PICK t \in Applied(diff, s) : states' = states \cup {t} /\ returned' = returned
      BY <1>4, <2>2 DEF ApplyDiff
    <3>2. StateShape(t) /\ t.version = s.version + 1 /\ s.version <= calls
      BY CallerShape DEF StateInv
    <3>3. Counted
      BY <1>4 DEF ApplyDiff
    <3>4. t.version <= calls + 1
      BY <1>0, <3>2
    <3> QED
      BY <1>2, <3>1, <3>2, <3>3, <3>4
  <2> QED
    BY <2>1, <2>2
<1>5. ASSUME NEW s \in states, NEW conflicts \in SUBSET Keys, Reconcile(s, conflicts)
      PROVE  StateInv'
  <2>1. PICK order \in Orders(ToSet(s.hive) \cup conflicts) :
          states' = states \cup {[s EXCEPT !.hive = order]} /\ returned' = returned
    BY <1>5 DEF Reconcile
  <2>2. StateShape(s) /\ s.version <= calls
    BY DEF StateInv
  <2>3. ToSet(s.hive) \cup conflicts \in SUBSET Keys
    BY <2>2, SeqToSet DEF StateShape, ShapeOver
  <2>4. order \in Seq(Keys) /\ IsInjective(order)
    BY <2>3, OrdersShape
  <2> DEFINE t == [s EXCEPT !.hive = order]
  <2>5. t = [version |-> s.version, tasks |-> s.tasks, hive |-> order, balance |-> s.balance,
             hash |-> s.hash]
    BY <2>2 DEF StateShape, ShapeOver
  <2> HIDE DEF t
  <2>6. StateShape(t) /\ t.version <= calls + 1
    BY <1>0, <2>2, <2>4, <2>5 DEF StateShape, ShapeOver
  <2>7. Counted
    BY <1>5 DEF Reconcile
  <2> QED
    BY <1>2, <2>1, <2>6, <2>7 DEF t
<1>6. ASSUME \/ \E b, a, d, ok : VerifyTransition(b, a, d, ok)
             \/ \E t : Delegate(t)
             \/ \E id, f : Fork(id, f)
             \/ \E id, approvals : Merge(id, approvals)
             \/ \E s, i, t, now, speculative, distributed :
                  Execute(s, i, t, now, speculative, distributed)
             \/ UNCHANGED vars
      PROVE  StateInv'
  <2>1. states' = states /\ returned' = returned /\ (Counted \/ calls' = calls)
    BY <1>6 DEF VerifyTransition, Delegate, Fork, Merge, Execute, vars
  <2> QED
    BY <1>1, <2>1
<1> QED
  BY <1>3, <1>4, <1>5, <1>6 DEF Next

LEMMA StateInvHolds == Spec => []StateInv
<1>1. Init => StateInv
  <2> SUFFICES ASSUME Init
               PROVE  StateInv
    OBVIOUS
  <2>1. <<>> \in Seq(Task) /\ <<>> \in Seq(Keys) /\ IsInjective(<<>>)
    BY DEF IsInjective
  <2>2. StateShape(DefaultState) /\ DefaultState.version = 0
    BY <2>1 DEF DefaultState, StateShape, ShapeOver
  <2>3. states = {DefaultState} /\ returned = {} /\ calls = 0
    BY DEF Init
  <2> HIDE DEF DefaultState
  <2> QED
    BY <2>2, <2>3, CallsAssumption DEF StateInv
<1> QED
  BY <1>1, StateStep, PTL DEF Spec

-----------------------------------------------------------------------------
(* The branches: heads never move, so every branch but the first hangs from  *)
(* the genesis head, and a fork that replaces one leaves it where it was.    *)
BranchShape(id, b) ==
  /\ DOMAIN b = {"parent", "reason", "confidence", "head", "speculative", "policy"}
  /\ b.head = GenesisHead
  /\ id = Genesis \/ b.parent = GenesisHead
  /\ b.speculative => b.policy.kind = "auto"

Children(br, head) == {id \in DOMAIN br : br[id].parent = head}

Lists(ix, br) ==
  /\ DOMAIN ix = {br[id].parent : id \in DOMAIN br}
  /\ \A head \in DOMAIN ix : /\ ix[head] \in Seq(DOMAIN br)
                             /\ ToSet(ix[head]) = Children(br, head)

BranchInv ==
  /\ tip \in DOMAIN branches
  /\ \A id \in DOMAIN branches : BranchShape(id, branches[id])
  /\ Lists(index, branches)

LEMMA AppendToSet ==
  ASSUME NEW S, NEW q \in Seq(S), NEW x
  PROVE  Append(q, x) \in Seq(S \cup {x}) /\ ToSet(Append(q, x)) = ToSet(q) \cup {x}
<1>1. q \in Seq(S \cup {x})
  BY SeqOfMore
<1>2. Append(q, x) \in Seq(S \cup {x})
  BY <1>1
<1>3. DOMAIN q = 1 .. Len(q) /\ Len(q) \in Nat
  OBVIOUS
<1>4. /\ DOMAIN Append(q, x) = 1 .. (Len(q) + 1)
      /\ \A i \in 1 .. Len(q) : Append(q, x)[i] = q[i]
      /\ Append(q, x)[Len(q) + 1] = x
  OBVIOUS
<1>5. 1 .. (Len(q) + 1) = (1 .. Len(q)) \cup {Len(q) + 1}
  BY <1>3
<1>6. ASSUME NEW y
      PROVE  y \in ToSet(Append(q, x)) <=> y \in ToSet(q) \/ y = x
  <2>1. ASSUME NEW i \in DOMAIN Append(q, x), y = Append(q, x)[i]
        PROVE  y \in ToSet(q) \/ y = x
    BY <2>1, <1>3, <1>4, <1>5 DEF ToSet
  <2>2. ASSUME NEW i \in DOMAIN q, y = q[i]
        PROVE  i \in DOMAIN Append(q, x) /\ y = Append(q, x)[i]
    BY <2>2, <1>3, <1>4, <1>5
  <2>3. Len(q) + 1 \in DOMAIN Append(q, x)
    BY <1>3, <1>4
  <2> QED
    BY <2>1, <2>2, <2>3, <1>4 DEF ToSet
<1> QED
  BY <1>2, <1>6

LEMMA InsertedIs ==
  ASSUME NEW map, NEW place, NEW value
  PROVE  /\ DOMAIN Inserted(map, place, value) = DOMAIN map \cup {place}
         /\ Inserted(map, place, value)[place] = value
         /\ \A k \in DOMAIN map : k # place => Inserted(map, place, value)[k] = map[k]
  BY DEF Inserted

LEMMA ForkKeeps ==
  ASSUME BranchInv, NEW parent \in DOMAIN branches, NEW reason,
         NEW confidence, NEW policy, Forked(parent, reason, confidence, policy), tip' = tip
  PROVE  BranchInv'
<1> DEFINE head == branches[parent].head
           id == BranchId(head, reason)
           b == [parent |-> head, reason |-> reason, confidence |-> confidence, head |-> head,
                 speculative |-> policy.kind = "auto", policy |-> policy]
           old == IF head \in DOMAIN index THEN index[head] ELSE <<>>
<1>1. branches' = Inserted(branches, id, b) /\ index' = Inserted(index, head, Append(old, id))
  BY DEF Forked
<1>2. head = GenesisHead
  BY DEF BranchInv, BranchShape
<1>3. id # Genesis
  <2>1. Len(id) = 2 /\ Len(Genesis) = 1
    BY DEF BranchId, Genesis
  <2> QED
    BY <2>1
<1>4. BranchShape(id, b)
  BY <1>2 DEF BranchShape
<1>5. b.parent = head
  OBVIOUS
<1>6. /\ tip \in DOMAIN branches /\ Lists(index, branches)
      /\ \A k \in DOMAIN branches : BranchShape(k, branches[k])
  BY DEF BranchInv
<1>7. id \in DOMAIN branches => branches[id].parent = head
  BY <1>2, <1>3, <1>6 DEF BranchShape
<1> HIDE DEF b, id, head
<1>8. /\ DOMAIN branches' = DOMAIN branches \cup {id}
      /\ branches'[id] = b
      /\ \A k \in DOMAIN branches : k # id => branches'[k] = branches[k]
  BY <1>1 DEF Inserted
<1>9. /\ DOMAIN index' = DOMAIN index \cup {head}
      /\ index'[head] = Append(old, id)
      /\ \A h \in DOMAIN index : h # head => index'[h] = index[h]
  BY <1>1 DEF Inserted
<1>10. \A k \in DOMAIN branches' : BranchShape(k, branches'[k])
  BY <1>4, <1>6, <1>8
<1>11. \A h : Children(branches', h) = IF h = head THEN Children(branches, h) \cup {id}
                                       ELSE Children(branches, h)
  BY <1>5, <1>7, <1>8 DEF Children
<1>12. old \in Seq(DOMAIN branches) /\ ToSet(old) = Children(branches, head)
  <2>1. CASE head \in DOMAIN index
    BY <2>1, <1>6 DEF Lists
  <2>2. CASE head \notin DOMAIN index
    <3>1. Children(branches, head) = {}
      BY <2>2, <1>6 DEF Lists, Children
    <3>2. ToSet(<<>>) = {} /\ <<>> \in Seq(DOMAIN branches)
      BY DEF ToSet
    <3> QED
      BY <2>2, <3>1, <3>2
  <2> QED
    BY <2>1, <2>2
<1> HIDE DEF old
<1>13. /\ index'[head] \in Seq(DOMAIN branches')
       /\ ToSet(index'[head]) = Children(branches', head)
  <2>1. /\ Append(old, id) \in Seq(DOMAIN branches \cup {id})
        /\ ToSet(Append(old, id)) = ToSet(old) \cup {id}
    BY <1>12, AppendToSet
  <2>2. Children(branches', head) = Children(branches, head) \cup {id}
    BY <1>11
  <2> QED
    BY <2>1, <2>2, <1>8, <1>9, <1>12
<1>14. ASSUME NEW h \in DOMAIN index', h # head
       PROVE  index'[h] \in Seq(DOMAIN branches') /\ ToSet(index'[h]) = Children(branches', h)
  <2>1. h \in DOMAIN index /\ index'[h] = index[h]
    BY <1>9, <1>14
  <2>2. index[h] \in Seq(DOMAIN branches) /\ ToSet(index[h]) = Children(branches, h)
    BY <2>1, <1>6 DEF Lists
  <2>3. index[h] \in Seq(DOMAIN branches')
    BY <2>2, <1>8, SeqOfMore
  <2> QED
    BY <2>1, <2>2, <2>3, <1>11, <1>14
<1>15. DOMAIN index' = {branches'[k].parent : k \in DOMAIN branches'}
  <2>1. DOMAIN index = {branches[k].parent : k \in DOMAIN branches}
    BY <1>6 DEF Lists
  <2>2. \A h : h \in DOMAIN index' <=> \E k \in DOMAIN branches' : branches'[k].parent = h
    <3> SUFFICES ASSUME NEW h
                 PROVE  h \in DOMAIN index' <=> \E k \in DOMAIN branches' : branches'[k].parent = h
      OBVIOUS
    <3>1. CASE h = head
      BY <3>1, <1>5, <1>8, <1>9
    <3>2. CASE h # head
      BY <3>2, <2>1, <1>5, <1>7, <1>8, <1>9
    <3> QED
      BY <3>1, <3>2
  <2> QED
    BY <2>2
<1>16. Lists(index', branches')
  BY <1>13, <1>14, <1>15, Zenon DEF Lists
<1> QED
  BY <1>6, <1>8, <1>10, <1>16 DEF BranchInv

LEMMA MergeKeeps ==
  ASSUME BranchInv, NEW id \in DOMAIN branches, NEW approvals, Merge(id, approvals)
  PROVE  BranchInv'
<1>1. CASE ~ Mergeable(branches[id], approvals)
  BY <1>1 DEF Merge, BranchInv
<1>2. CASE Mergeable(branches[id], approvals)
  <2> DEFINE a == branches[id]
             b == [a EXCEPT !.speculative = FALSE]
  <2>1. tip' = id /\ branches' = [branches EXCEPT ![id] = b] /\ index' = index
    BY <1>2 DEF Merge
  <2>2. BranchShape(id, branches[id])
    BY DEF BranchInv
  <2> HIDE DEF a
  <2>3. DOMAIN a = {"parent", "reason", "confidence", "head", "speculative", "policy"}
    BY <2>2 DEF BranchShape, a
  <2>4. /\ DOMAIN b = DOMAIN a
        /\ b.speculative = FALSE /\ b.parent = a.parent /\ b.head = a.head
        /\ b.reason = a.reason /\ b.policy = a.policy
    BY <2>3
  <2> HIDE DEF b
  <2>5. BranchShape(id, b) /\ b.parent = branches[id].parent
    BY <2>2, <2>3, <2>4 DEF BranchShape, a
  <2>6. /\ DOMAIN branches' = DOMAIN branches
        /\ branches'[id] = b
        /\ \A k \in DOMAIN branches : k # id => branches'[k] = branches[k]
    BY <2>1 DEF b
  <2>7. \A k \in DOMAIN branches' : BranchShape(k, branches'[k])
    BY <2>5, <2>6 DEF BranchInv
  <2>8. \A k \in DOMAIN branches : branches'[k].parent = branches[k].parent
    BY <2>5, <2>6
  <2>9. \A h : Children(branches', h) = Children(branches, h)
    BY <2>6, <2>8 DEF Children
  <2>10. Lists(index', branches')
    <3>1. Lists(index, branches)
      BY DEF BranchInv
    <3>2. {branches'[k].parent : k \in DOMAIN branches'} = {branches[k].parent : k \in DOMAIN branches}
      BY <2>6, <2>8
    <3>3. DOMAIN index' = {branches'[k].parent : k \in DOMAIN branches'}
      BY <3>1, <3>2, <2>1 DEF Lists
    <3>4. \A h \in DOMAIN index' : /\ index'[h] \in Seq(DOMAIN branches')
                                  /\ ToSet(index'[h]) = Children(branches', h)
      BY <3>1, <2>1, <2>6, <2>9 DEF Lists
    <3> QED
      BY <3>3, <3>4, Zenon DEF Lists
  <2> QED
    BY <2>1, <2>6, <2>7, <2>10 DEF BranchInv
<1> QED
  BY <1>1, <1>2

LEMMA BranchStep == BranchInv /\ [Next]_vars => BranchInv'
<1> SUFFICES ASSUME BranchInv, [Next]_vars
             PROVE  BranchInv'
  OBVIOUS
<1>1. ASSUME UNCHANGED dag
      PROVE  BranchInv'
  BY <1>1 DEF BranchInv, dag
<1>2. ASSUME NEW id \in DOMAIN branches, NEW f \in Forecasts, Fork(id, f)
      PROVE  BranchInv'
  <2>1. PICK confidence, policy :
          Forked(id, [kind |-> "forecast", of |-> f], confidence, policy)
    BY <1>2 DEF Fork
  <2>2. tip' = tip
    BY <1>2 DEF Fork
  <2> QED
    BY <2>1, <2>2, ForkKeeps
<1>3. ASSUME NEW s \in states, NEW i \in Intents, NEW t, NEW now, NEW speculative, NEW distributed,
             Execute(s, i, t, now, speculative, distributed)
      PROVE  BranchInv'
  <2>1. tip' = tip /\ tip \in DOMAIN branches
    BY <1>3 DEF Execute, BranchInv
  <2>2. CASE UNCHANGED <<branches, index>>
    BY <2>1, <2>2, <1>1 DEF dag
  <2>3. CASE ~ UNCHANGED <<branches, index>>
    <3>1. Forked(tip, [kind |-> "intent", of |-> i], 85, AutoMerge)
      BY <1>3, <2>3 DEF Execute
    <3> QED
      BY <2>1, <3>1, ForkKeeps
  <2> QED
    BY <2>2, <2>3
<1>4. ASSUME \/ \E s, i : Transition(s, i)
             \/ \E s, d : ApplyDiff(s, d)
             \/ \E b, a, d, ok : VerifyTransition(b, a, d, ok)
             \/ \E s, conflicts : Reconcile(s, conflicts)
             \/ \E t : Delegate(t)
             \/ UNCHANGED vars
      PROVE  BranchInv'
  <2>1. UNCHANGED dag
    BY <1>4 DEF Transition, ApplyDiff, VerifyTransition, Reconcile, Delegate, vars, dag
  <2> QED
    BY <1>1, <2>1
<1> QED
  BY <1>2, <1>3, <1>4, MergeKeeps DEF Next

LEMMA BranchInvHolds == Spec => []BranchInv
<1>1. Init => BranchInv
  <2> SUFFICES ASSUME Init
               PROVE  BranchInv
    OBVIOUS
  <2> DEFINE b == [parent |-> NoParent, reason |-> [kind |-> "forecast", of |-> "genesis"],
                   confidence |-> 100, head |-> GenesisHead, speculative |-> FALSE,
                   policy |-> [kind |-> "human"]]
  <2>1. /\ branches = [id \in {Genesis} |-> b] /\ tip = Genesis
        /\ index = [head \in {NoParent} |-> <<Genesis>>]
    BY DEF Init
  <2>2. BranchShape(Genesis, b) /\ b.parent = NoParent
    BY DEF BranchShape
  <2> HIDE DEF b
  <2>3. /\ DOMAIN branches = {Genesis} /\ branches[Genesis] = b
        /\ DOMAIN index = {NoParent} /\ index[NoParent] = <<Genesis>>
    BY <2>1
  <2>4. <<Genesis>> \in Seq({Genesis}) /\ ToSet(<<Genesis>>) = {Genesis}
    BY DEF ToSet
  <2>5. Children(branches, NoParent) = {Genesis}
    BY <2>2, <2>3 DEF Children
  <2>6. DOMAIN index = {branches[id].parent : id \in DOMAIN branches}
    BY <2>2, <2>3
  <2>7. Lists(index, branches)
    BY <2>3, <2>4, <2>5, <2>6 DEF Lists
  <2> QED
    BY <2>1, <2>2, <2>3, <2>7 DEF BranchInv
<1> QED
  BY <1>1, BranchStep, PTL DEF Spec

(* No state the engine returns has a harmful task to do, whatever tasks its  *)
(* callers put into the states they gave it (kernel/validators.rs).          *)
THEOREM HarmLeavesNothingHolds == Spec => []HarmLeavesNothing
<1>1. StateInv => HarmLeavesNothing
  <2> SUFFICES ASSUME StateInv, NEW s \in returned, NEW task \in Pending(s)
               PROVE  task.intent \notin Harmful
    BY DEF HarmLeavesNothing
  <2>1. s.tasks \in Seq(Sober)
    BY DEF StateInv
  <2>2. task \in Sober /\ task.status = "pending"
    BY <2>1, SeqToSet DEF Pending
  <2> QED
    BY <2>2 DEF Sober
<1> QED
  BY <1>1, StateInvHolds, PTL

-----------------------------------------------------------------------------
(* What is left of the types.                                                *)
CallerInv ==
  /\ \E S : history \in Seq(S) /\ \A h \in S : h.verified \in BOOLEAN
  /\ \A t \in tokens : t.denied \subseteq DeniablePaths
  /\ DOMAIN peers \subseteq Peers /\ diverged \in BOOLEAN
  /\ localHash = NoHash \/ \E s \in states : localHash = MemoryDigest(s)

LEMMA CallerStep == CallerInv /\ [Next]_vars => CallerInv'
<1> SUFFICES ASSUME CallerInv, [Next]_vars
             PROVE  CallerInv'
  OBVIOUS
<1>1. ASSUME UNCHANGED <<history, tokens, memory>>, states \subseteq states'
      PROVE  CallerInv'
  BY <1>1 DEF CallerInv, memory
<1>2. ASSUME NEW b, NEW a, NEW d, NEW ok \in BOOLEAN, VerifyTransition(b, a, d, ok)
      PROVE  CallerInv'
  <2>1. PICK replay : history' = Append(history,
          [before |-> b, after |-> a, diff |-> d, passed |-> ok,
           verified |-> Verdict(b, a, d, ok, replay)])
    BY <1>2 DEF VerifyTransition
  <2> DEFINE e == [before |-> b, after |-> a, diff |-> d, passed |-> ok,
                   verified |-> Verdict(b, a, d, ok, replay)]
  <2>2. e.verified \in BOOLEAN
    BY DEF Verdict
  <2> HIDE DEF e
  <2>3. PICK S : history \in Seq(S) /\ \A h \in S : h.verified \in BOOLEAN
    BY DEF CallerInv
  <2>4. Append(history, e) \in Seq(S \cup {e})
    BY <2>3, AppendToSet
  <2>5. \E T : history' \in Seq(T) /\ \A h \in T : h.verified \in BOOLEAN
    <3>1. history' \in Seq(S \cup {e}) /\ \A h \in S \cup {e} : h.verified \in BOOLEAN
      BY <2>1, <2>2, <2>3, <2>4 DEF e
    <3> QED
      BY <3>1
  <2>6. UNCHANGED <<states, tokens, memory>>
    BY <1>2 DEF VerifyTransition
  <2> QED
    BY <2>5, <2>6 DEF CallerInv, memory
<1>3. ASSUME NEW t \in tokens, Delegate(t)
      PROVE  CallerInv'
  <2>1. PICK allowed \in {r.allowed : r \in Roots}, extra \in SUBSET DeniablePaths,
             expiry \in {r.expiry : r \in Roots} :
          tokens' = tokens \cup {Delegated(t, calls + 1, allowed, extra, expiry)}
    BY <1>3, Zenon DEF Delegate
  <2>2. Delegated(t, calls + 1, allowed, extra, expiry).denied \subseteq DeniablePaths
    BY DEF Delegated, CallerInv
  <2>3. UNCHANGED <<states, history, memory>>
    BY <1>3 DEF Delegate
  <2> QED
    BY <2>1, <2>2, <2>3 DEF CallerInv, memory
<1>4. ASSUME NEW s, NEW conflicts, Reconcile(s, conflicts)
      PROVE  CallerInv'
  BY <1>4 DEF Reconcile, CallerInv
<1>5. ASSUME NEW s, NEW i, NEW t, NEW now, NEW speculative, NEW distributed \in BOOLEAN,
             Execute(s, i, t, now, speculative, distributed)
      PROVE  CallerInv'
  <2>1. UNCHANGED <<states, history, tokens>>
    BY <1>5 DEF Execute
  <2>2. CASE UNCHANGED memory
    BY <1>1, <2>1, <2>2
  <2>3. CASE ~ UNCHANGED memory
    <3>1. PICK p \in Peers, h \in {NoHash, MemoryDigest(s)}, u \in Transitioned(s, i) :
            Sync(p, h, s, u)
      BY <1>5, <2>3 DEF Execute
    <3>2. /\ DOMAIN peers' = DOMAIN peers \cup {p}
          /\ diverged' \in BOOLEAN /\ localHash' = localHash
      BY <3>1, InsertedIs DEF Sync
    <3> QED
      BY <2>1, <3>2 DEF CallerInv
  <2> QED
    BY <2>2, <2>3
<1>6. ASSUME \/ \E s, i : Transition(s, i)
             \/ \E s, d : ApplyDiff(s, d)
             \/ \E id, f : Fork(id, f)
             \/ \E id, approvals : Merge(id, approvals)
             \/ UNCHANGED vars
      PROVE  CallerInv'
  <2>1. UNCHANGED <<history, tokens, memory>>
    BY <1>6, Zenon DEF Transition, ApplyDiff, Fork, Merge, vars, memory
  <2>2. states \subseteq states'
    BY <1>6 DEF Transition, ApplyDiff, Fork, Merge, vars
  <2> QED
    BY <1>1, <2>1, <2>2
<1> QED
  BY <1>2, <1>3, <1>4, <1>5, <1>6 DEF Next

LEMMA CallerInvHolds == Spec => []CallerInv
<1>1. Init => CallerInv
  <2> SUFFICES ASSUME Init
               PROVE  CallerInv
    OBVIOUS
  <2>1. \E S : history \in Seq(S) /\ \A h \in S : h.verified \in BOOLEAN
    <3>1. history \in Seq({})
      BY DEF Init
    <3> QED
      BY <3>1
  <2>2. DOMAIN peers = {}
    BY DEF Init
  <2> QED
    BY <2>1, <2>2, RootsAssumption DEF Init, CallerInv
<1> QED
  BY <1>1, CallerStep, PTL DEF Spec

(* The types of the states, branches, tokens and vectors that callers can    *)
(* come by; the index lists under each head exactly the branches that were   *)
(* forked from it, although forks replace branches (branching/mod.rs).       *)
THEOREM TypeCorrect == Spec => []TypeOK
<1>1. StateInv /\ BranchInv /\ CallerInv => TypeOK
  <2> SUFFICES ASSUME StateInv, BranchInv, CallerInv
               PROVE  TypeOK
    OBVIOUS
  <2>1. ASSUME NEW s \in states
        PROVE  /\ s.version \in 0 .. MaxCalls
               /\ IsInjective(s.hive) /\ ToSet(s.hive) \subseteq Keys
               /\ s.hash = NoHash <=> s.version = 0
    BY SeqToSet, CallsAssumption DEF StateInv, StateShape, ShapeOver
  <2>2. ASSUME NEW i \in DOMAIN history
        PROVE  history[i].verified \in BOOLEAN
    <3>1. PICK S : history \in Seq(S) /\ \A h \in S : h.verified \in BOOLEAN
      BY DEF CallerInv
    <3>2. history[i] \in S
      BY <3>1
    <3> QED
      BY <3>1, <3>2
  <2>3. /\ DOMAIN index = {branches[id].parent : id \in DOMAIN branches}
        /\ \A head \in DOMAIN index :
             ToSet(index[head]) = {id \in DOMAIN branches : branches[id].parent = head}
    BY DEF BranchInv, Lists, Children
  <2>4. \A id \in DOMAIN branches :
          branches[id].speculative => branches[id].policy.kind = "auto"
    BY DEF BranchInv, BranchShape
  <2> QED
    BY <2>1, <2>2, <2>3, <2>4, Zenon DEF TypeOK, StateInv, BranchInv, CallerInv
<1> QED
  BY <1>1, StateInvHolds, BranchInvHolds, CallerInvHolds, PTL

-----------------------------------------------------------------------------
(***************************************************************************)
(* The steward: types.  Histories count, of which StewardTypeOK says       *)
(* nothing.                                                                *)
(***************************************************************************)
CallState == {Idle} \cup [at : {"sending", "submitting", "submitted"}, diag : Diag]

OnlySecurityWaits(calls_) ==
    \A r \in Reader : calls_[r].at \in {"submitting", "submitted"} => IsSecurity(calls_[r].diag)

Histories ==
    /\ accepted \in [Diag -> Nat] /\ taken \in [Diag -> Nat]
    /\ applied \in [Diag -> Nat] /\ attempted \in [Diag -> Nat]

StewardShape == StewardTypeOK /\ Histories

LEMMA CallStates ==
    /\ Idle \in CallState /\ Idle.at = "idle"
    /\ \A stage \in {"sending", "submitting", "submitted"}, d \in Diag :
          [at |-> stage, diag |-> d] \in CallState
    /\ \A c \in CallState : c.at # "idle" =>
          /\ c.diag \in Diag
          /\ [c EXCEPT !.at = "submitted"] = [at |-> "submitted", diag |-> c.diag]
  BY DEF CallState, Idle

LEMMA LoopStates ==
    ASSUME StewardTypeOK
    PROVE  loop.at = "repairing" => loop.diag \in Diag
  BY DEF StewardTypeOK, Receiving

LEMMA OneMore ==
    ASSUME NEW f \in [Diag -> Nat], NEW d \in Diag
    PROVE  /\ [f EXCEPT ![d] = @ + 1] \in [Diag -> Nat]
           /\ [f EXCEPT ![d] = @ + 1][d] = f[d] + 1
           /\ \A e \in Diag \ {d} : [f EXCEPT ![d] = @ + 1][e] = f[e]
  OBVIOUS

LEMMA ChanHead ==
    ASSUME chan \in Seq(Diag), chan # <<>>
    PROVE  Head(chan) \in Diag /\ Tail(chan) \in Seq(Diag) /\ Len(Tail(chan)) = Len(chan) - 1
  BY HeadTailProperties

(* A step that moves one call and keeps the rest of what is typed.         *)
LEMMA CallMoves ==
    ASSUME StewardTypeOK, NEW r \in Reader, NEW c \in CallState,
           c.at \in {"submitting", "submitted"} => IsSecurity(c.diag),
           call' = [call EXCEPT ![r] = c]
    PROVE  call' \in [Reader -> CallState] /\ OnlySecurityWaits(call')
  BY DEF StewardTypeOK, CallState, OnlySecurityWaits

LEMMA StewardTypeInit == StewardInit => StewardShape
<1> SUFFICES ASSUME StewardInit PROVE StewardShape
  OBVIOUS
<1>1. chan \in Seq(Diag) /\ Len(chan) <= Capacity
  BY StewardAssumption, EmptySeq DEF StewardInit
<1>2. key \in 1..MaxKeys /\ pubkey \in 1..key /\ lines \in 0..MaxLines
  BY StewardAssumption DEF StewardInit
<1>3. call \in [Reader -> {Idle}] /\ \A r \in Reader : call[r].at = "idle"
  BY DEF StewardInit, Idle
<1> QED
  BY <1>1, <1>2, <1>3 DEF StewardInit, StewardShape, StewardTypeOK, Histories

LEMMA StewardTypeStep == StewardShape /\ [StewardNext]_stewardVars => StewardShape'
<1> SUFFICES ASSUME StewardShape, [StewardNext]_stewardVars PROVE StewardShape'
  OBVIOUS
<1>0. StewardTypeOK /\ Histories /\ call \in [Reader -> CallState]
  BY DEF StewardShape, StewardTypeOK, CallState
<1>1. CASE Boot
  BY <1>0, <1>1 DEF Boot, Receiving, vmVars, StewardShape, StewardTypeOK, Histories
<1>2. CASE ProcessDiagnostic
  <2>1. Head(chan) \in Diag /\ Tail(chan) \in Seq(Diag) /\ Len(Tail(chan)) <= Capacity
    BY <1>0, <1>2, ChanHead, LenProperties, StewardAssumption DEF ProcessDiagnostic, StewardTypeOK
  <2>2. loop' \in {Receiving} \cup {[at |-> "repairing", diag |-> d] : d \in Diag}
    BY <1>2, <2>1 DEF ProcessDiagnostic, AfterTransition
  <2>3. applied' \in [Diag -> Nat] /\ taken' \in [Diag -> Nat]
    BY <1>0, <1>2, <2>1, OneMore DEF ProcessDiagnostic, Histories
  <2>4. archive' \subseteq {File(d) : d \in Diag}
    BY <1>0, <1>2, <2>1 DEF ProcessDiagnostic, StewardTypeOK
  <2> QED
    BY <1>0, <1>2, <2>1, <2>2, <2>3, <2>4
       DEF ProcessDiagnostic, guardVars, StewardShape, StewardTypeOK, Histories
<1>3. CASE EndRepair
  <2>1. attempted' \in [Diag -> Nat]
    BY <1>0, <1>3, LoopStates, OneMore DEF EndRepair, Histories
  <2> QED
    BY <1>0, <1>3, <2>1 DEF EndRepair, guardVars, StewardShape, StewardTypeOK, Histories
<1>4. ASSUME NEW r \in Reader, NEW d \in Diag, HandleLine(r, d)
      PROVE  StewardShape'
  <2>1. PICK c \in CallState :
           /\ c.at \notin {"submitting", "submitted"}
           /\ call' = [call EXCEPT ![r] = c]
    BY <1>4, CallStates DEF HandleLine, HandleRefused, HandleApproved, Answered
  <2>2. call' \in [Reader -> CallState] /\ OnlySecurityWaits(call')
    BY <1>0, <2>1, CallMoves
  <2>3. lines' \in 0..MaxLines
    BY <1>0, <1>4, StewardAssumption DEF HandleLine, StewardTypeOK
  <2> QED
    BY <1>0, <1>4, <2>2, <2>3
       DEF HandleLine, vmVars, guardVars, StewardShape, StewardTypeOK, Histories, CallState,
           OnlySecurityWaits
<1>5. ASSUME NEW r \in Reader, Send(r)
      PROVE  StewardShape'
  <2> DEFINE d == call[r].diag
  <2>1. d \in Diag
    BY <1>0, <1>5, CallStates DEF Send
  <2>2. chan' \in Seq(Diag) /\ Len(chan') <= Capacity
    BY <1>0, <1>5, <2>1, AppendProperties, LenProperties, StewardAssumption
       DEF Send, StewardTypeOK
  <2>3. PICK c \in CallState :
           /\ c.at \in {"submitting", "submitted"} => IsSecurity(c.diag)
           /\ call' = [call EXCEPT ![r] = c]
    <3>1. CASE IsSecurity(d)
      BY <1>5, <2>1, <3>1, CallStates DEF Send, AfterSend
    <3>2. CASE ~IsSecurity(d)
      BY <1>5, <3>2, CallStates DEF Send, AfterSend, Answered
    <3> QED
      BY <3>1, <3>2
  <2>4. call' \in [Reader -> CallState] /\ OnlySecurityWaits(call')
    BY <1>0, <2>3, CallMoves
  <2>5. accepted' \in [Diag -> Nat]
    BY <1>0, <1>5, <2>1, OneMore DEF Send, Histories
  <2> QED
    BY <1>0, <1>5, <2>2, <2>4, <2>5
       DEF Send, vmVars, guardVars, StewardShape, StewardTypeOK, Histories, CallState,
           OnlySecurityWaits
<1>6. ASSUME NEW r \in Reader, NEW id \in Receipt, Submit(r, id)
      PROVE  StewardShape'
  <2>1. call[r] \in CallState /\ call[r].at = "submitting" /\ IsSecurity(call[r].diag)
    BY <1>0, <1>6 DEF Submit, StewardTypeOK
  <2> DEFINE c == [at |-> "submitted", diag |-> call[r].diag]
  <2>2. c \in CallState /\ IsSecurity(c.diag) /\ call' = [call EXCEPT ![r] = c]
    BY <1>6, <2>1, CallStates DEF Submit
  <2>3. call' \in [Reader -> CallState] /\ OnlySecurityWaits(call')
    BY <1>0, <2>2, CallMoves
  <2>4. \A s \in signed' : s.key \in 1..key
    BY <1>0, <1>6, StewardAssumption DEF Submit, Signature, StewardTypeOK
  <2> QED
    BY <1>0, <1>6, <2>3, <2>4
       DEF Submit, vmVars, StewardShape, StewardTypeOK, Histories, CallState, OnlySecurityWaits
<1>7. ASSUME NEW r \in Reader, Answered(r),
             UNCHANGED <<loop, chan, vmVars, pubkey, key, signed, lines, accepted, promised>>
      PROVE  StewardShape'
  <2>1. call' \in [Reader -> CallState] /\ OnlySecurityWaits(call')
    BY <1>0, <1>7, CallStates, CallMoves DEF Answered
  <2> QED
    BY <1>0, <1>7, <2>1
       DEF vmVars, StewardShape, StewardTypeOK, Histories, CallState, OnlySecurityWaits
<1>8. CASE Rekey
  BY <1>0, <1>8, StewardAssumption DEF Rekey, vmVars, StewardShape, StewardTypeOK, Histories
<1>9. CASE UNCHANGED stewardVars
  BY <1>0, <1>9 DEF stewardVars, vmVars, guardVars, StewardShape, StewardTypeOK, Histories
<1> QED
  BY <1>1, <1>2, <1>3, <1>4, <1>5, <1>6, <1>7, <1>8, <1>9
     DEF StewardNext, LoopStep, ReceiptArrives, SubmitFails, guardVars

(* StewardTypeOK: the channel keeps its capacity, only security            *)
(* diagnostics wait for the guardian, and the loop repairs what it took    *)
(* (bin/steward.rs, agent/diagnostic_handler.rs).                          *)
THEOREM StewardTypeCorrect == StewardSpec => []StewardTypeOK
<1>1. StewardShape => StewardTypeOK
  BY DEF StewardShape
<1> QED
  BY <1>1, StewardTypeInit, StewardTypeStep, PTL DEF StewardSpec
-----------------------------------------------------------------------------
(***************************************************************************)
(* What the court refuses.  CourtInv follows a diagnostic from the call    *)
(* that the court let through, along the channel, to the loop: wherever    *)
(* one is, the court has approved it, and what is being repaired may be    *)
(* merged without a human.                                                 *)
(***************************************************************************)
Passed(d) == Arbitrate(d) = "approve"

CourtInv ==
    /\ \A r \in Reader : call[r].at # "idle" => Passed(call[r].diag)
    /\ \A i \in 1..Len(chan) : Passed(chan[i])
    /\ loop.at = "repairing" => Passed(loop.diag) /\ ShouldAutoMerge(loop.diag)
    /\ \A d \in Diag : applied[d] + taken[d] + attempted[d] > 0 => Passed(d)
    /\ \A d \in Diag : attempted[d] > 0 => ShouldAutoMerge(d)
    /\ \A v \in verified : Passed(v.diag)

LEMMA CourtInit == StewardInit => CourtInv
<1> SUFFICES ASSUME StewardInit PROVE CourtInv
  OBVIOUS
<1>1. \A r \in Reader : call[r].at = "idle"
  BY DEF StewardInit, Idle
<1>2. \A d \in Diag : applied[d] = 0 /\ taken[d] = 0 /\ attempted[d] = 0
  BY DEF StewardInit
<1>3. Len(chan) = 0 /\ verified = {} /\ loop.at = "boot"
  BY DEF StewardInit
<1> QED
  BY <1>1, <1>2, <1>3 DEF CourtInv

LEMMA CourtStep == StewardShape /\ CourtInv /\ [StewardNext]_stewardVars => CourtInv'
<1> SUFFICES ASSUME StewardShape, CourtInv, [StewardNext]_stewardVars PROVE CourtInv'
  OBVIOUS
<1>0. StewardTypeOK /\ Histories /\ call \in [Reader -> CallState] /\ chan \in Seq(Diag)
  BY DEF StewardShape, StewardTypeOK, CallState
<1>1. CASE Boot
  BY <1>1 DEF Boot, Receiving, vmVars, CourtInv
<1>2. CASE ProcessDiagnostic
  <2> DEFINE d == Head(chan)
  <2>1. d \in Diag /\ Passed(d) /\ 1 \in 1..Len(chan) /\ d = chan[1]
    BY <1>0, <1>2, ChanHead, EmptySeq DEF ProcessDiagnostic, CourtInv
  <2>2. \A i \in 1..Len(chan') : Passed(chan'[i])
    BY <1>0, <1>2, HeadTailProperties, LenProperties DEF ProcessDiagnostic, CourtInv
  <2>3. loop'.at = "repairing" => Passed(loop'.diag) /\ ShouldAutoMerge(loop'.diag)
    BY <1>2, <2>1 DEF ProcessDiagnostic, AfterTransition, Receiving
  <2>4. \A e \in Diag \ {d} : applied'[e] = applied[e] /\ taken'[e] = taken[e]
    BY <1>0, <1>2, <2>1, OneMore DEF ProcessDiagnostic, Histories
  <2> HIDE DEF d
  <2>5. \A e \in Diag : applied'[e] + taken'[e] + attempted[e] > 0 => Passed(e)
    BY <2>1, <2>4 DEF CourtInv
  <2> QED
    BY <1>2, <2>2, <2>3, <2>5 DEF ProcessDiagnostic, guardVars, CourtInv
<1>3. CASE EndRepair
  <2> DEFINE d == loop.diag
  <2>1. d \in Diag /\ Passed(d) /\ ShouldAutoMerge(d)
    BY <1>0, <1>3, LoopStates DEF EndRepair, CourtInv
  <2>2. \A e \in Diag \ {d} : attempted'[e] = attempted[e]
    BY <1>0, <1>3, <2>1, OneMore DEF EndRepair, Histories
  <2> HIDE DEF d
  <2>3. \A e \in Diag : /\ applied[e] + taken[e] + attempted'[e] > 0 => Passed(e)
                        /\ attempted'[e] > 0 => ShouldAutoMerge(e)
    BY <2>1, <2>2 DEF CourtInv
  <2> QED
    BY <1>3, <2>3 DEF EndRepair, Receiving, guardVars, CourtInv
<1>4. ASSUME NEW r \in Reader, NEW d \in Diag, HandleLine(r, d)
      PROVE  CourtInv'
  <2>1. PICK c \in CallState : (c.at # "idle" => Passed(c.diag)) /\ call' = [call EXCEPT ![r] = c]
    BY <1>4, CallStates DEF HandleLine, HandleRefused, HandleApproved, Answered, Passed
  <2>2. \A q \in Reader : call'[q].at # "idle" => Passed(call'[q].diag)
    BY <1>0, <2>1 DEF CourtInv
  <2> QED
    BY <1>4, <2>2 DEF HandleLine, vmVars, guardVars, CourtInv
<1>5. ASSUME NEW r \in Reader, Send(r)
      PROVE  CourtInv'
  <2> DEFINE d == call[r].diag
  <2>1. d \in Diag /\ Passed(d)
    BY <1>0, <1>5, CallStates DEF Send, CourtInv
  <2>2. \A i \in 1..Len(chan') : Passed(chan'[i])
    BY <1>0, <1>5, <2>1, AppendProperties, LenProperties DEF Send, CourtInv
  <2>3. PICK c : (c.at # "idle" => c.diag = d) /\ call' = [call EXCEPT ![r] = c]
    BY <1>5, CallStates DEF Send, AfterSend, Answered
  <2>4. \A q \in Reader : call'[q].at # "idle" => Passed(call'[q].diag)
    BY <1>0, <2>1, <2>3 DEF CourtInv
  <2> QED
    BY <1>5, <2>2, <2>4 DEF Send, vmVars, guardVars, CourtInv
<1>6. ASSUME NEW r \in Reader, NEW id \in Receipt, Submit(r, id)
      PROVE  CourtInv'
  <2>1. call[r] \in CallState /\ call[r].at # "idle" /\ Passed(call[r].diag)
    BY <1>0, <1>6 DEF Submit, CourtInv
  <2>2. call' = [call EXCEPT ![r] = [at |-> "submitted", diag |-> call[r].diag]]
    BY <1>6, <2>1, CallStates DEF Submit
  <2>3. \A q \in Reader : call'[q].at # "idle" => Passed(call'[q].diag)
    BY <1>0, <2>1, <2>2 DEF CourtInv
  <2> QED
    BY <1>6, <2>3 DEF Submit, vmVars, CourtInv
<1>7. ASSUME NEW r \in Reader, NEW sig \in signed, ReceiptArrives(r, sig)
      PROVE  CourtInv'
  <2>1. Passed(call[r].diag)
    BY <1>0, <1>7 DEF ReceiptArrives, CourtInv
  <2>2. \A v \in verified' : Passed(v.diag)
    BY <1>7, <2>1 DEF ReceiptArrives, CourtInv
  <2>3. \A q \in Reader : call'[q].at # "idle" => Passed(call'[q].diag)
    BY <1>0, <1>7, CallStates DEF ReceiptArrives, Answered, CourtInv
  <2> QED
    BY <1>7, <2>2, <2>3 DEF ReceiptArrives, vmVars, CourtInv
<1>8. ASSUME NEW r \in Reader, SubmitFails(r)
      PROVE  CourtInv'
  <2>1. \A q \in Reader : call'[q].at # "idle" => Passed(call'[q].diag)
    BY <1>0, <1>8, CallStates DEF SubmitFails, Answered, CourtInv
  <2> QED
    BY <1>8, <2>1 DEF SubmitFails, vmVars, guardVars, CourtInv
<1>9. CASE Rekey
  BY <1>9 DEF Rekey, vmVars, CourtInv
<1>10. CASE UNCHANGED stewardVars
  BY <1>10 DEF stewardVars, vmVars, guardVars, CourtInv
<1> QED
  BY <1>1, <1>2, <1>3, <1>4, <1>5, <1>6, <1>7, <1>8, <1>9, <1>10 DEF StewardNext, LoopStep

(* RefusedLeavesNoTrace: what the court rejects or escalates is neither    *)
(* taken by the loop, applied, certified nor repaired, and no repair       *)
(* without a human is about security or an identity (bin/steward.rs).      *)
THEOREM RefusedLeavesNoTraceHolds == StewardSpec => []RefusedLeavesNoTrace
<1>1. StewardShape /\ CourtInv => RefusedLeavesNoTrace
  <2> SUFFICES ASSUME StewardShape, CourtInv, NEW d \in Diag
               PROVE  /\ ~ Passed(d) => Traces(d) = 0 /\ \A v \in verified : v.diag # d
                      /\ attempted[d] > 0 => ShouldAutoMerge(d)
    BY DEF RefusedLeavesNoTrace, Passed, Arbitrate, ShouldAutoMerge, IsSecurity,
           SecurityCategories
  <2>1. applied[d] \in Nat /\ taken[d] \in Nat /\ attempted[d] \in Nat
    BY DEF StewardShape, Histories
  <2> QED
    BY <2>1 DEF CourtInv, Traces
<1> QED
  BY <1>1, StewardTypeInit, StewardTypeStep, CourtInit, CourtStep, PTL DEF StewardSpec

-----------------------------------------------------------------------------
(***************************************************************************)
(* What waits in the channel.                                              *)
(***************************************************************************)
Places(s, d) == {i \in 1..Len(s) : s[i] = d}

LEMMA PlacesFinite ==
    ASSUME NEW s \in Seq(Diag), NEW d
    PROVE  IsFiniteSet(Places(s, d)) /\ Cardinality(Places(s, d)) \in Nat
<1>1. IsFiniteSet(1..Len(s)) /\ Places(s, d) \in SUBSET (1..Len(s))
  BY FS_Interval, LenProperties DEF Places
<1> QED
  BY <1>1, FS_Subset, FS_CardinalityType

LEMMA PlacesAppend ==
    ASSUME NEW s \in Seq(Diag), NEW e \in Diag, NEW d
    PROVE  Cardinality(Places(Append(s, e), d)) =
             Cardinality(Places(s, d)) + IF e = d THEN 1 ELSE 0
<1> DEFINE n == Len(s)
<1>1. /\ Len(Append(s, e)) = n + 1 /\ Append(s, e)[n + 1] = e
      /\ \A i \in 1..n : Append(s, e)[i] = s[i]
      /\ n \in Nat
  BY AppendProperties, LenProperties
<1>2. e = d => Places(Append(s, e), d) = Places(s, d) \cup {n + 1}
  BY <1>1 DEF Places
<1>3. e # d => Places(Append(s, e), d) = Places(s, d)
  BY <1>1 DEF Places
<1>4. n + 1 \notin Places(s, d)
  BY <1>1 DEF Places
<1>5. Cardinality(Places(s, d) \cup {n + 1}) = Cardinality(Places(s, d)) + 1
  BY <1>4, PlacesFinite, FS_AddElement
<1>6. Cardinality(Places(s, d)) \in Nat
  BY PlacesFinite
<1> HIDE DEF n
<1>7. CASE e = d
  BY <1>2, <1>5, <1>7
<1>8. CASE e # d
  BY <1>3, <1>6, <1>8
<1> QED
  BY <1>7, <1>8

LEMMA PlacesTail ==
    ASSUME NEW s \in Seq(Diag), s # <<>>, NEW d
    PROVE  Cardinality(Places(s, d)) =
             Cardinality(Places(Tail(s), d)) + IF Head(s) = d THEN 1 ELSE 0
<1> DEFINE n == Len(s)
           S == Places(s, d) \ {1}
           T == Places(Tail(s), d)
           f == [i \in T |-> i + 1]
<1>1. /\ n \in Nat \ {0} /\ Head(s) = s[1] /\ Len(Tail(s)) = n - 1
      /\ \A i \in 1..(n - 1) : Tail(s)[i] = s[i + 1]
      /\ Tail(s) \in Seq(Diag)
  BY HeadTailProperties, EmptySeq
<1>2. f \in Bijection(T, S)
  <2>1. f \in [T -> S]
    BY <1>1 DEF Places
  <2>2. \A i, j \in T : f[i] = f[j] => i = j
    BY <1>1 DEF Places
  <2>3. ASSUME NEW j \in S PROVE \E i \in T : f[i] = j
    <3>1. j - 1 \in T
      BY <1>1 DEF Places
    <3>2. f[j - 1] = j
      BY <1>1, <3>1 DEF Places
    <3> QED
      BY <3>1, <3>2
  <2> QED
    BY <2>1, <2>2, <2>3 DEF Bijection, Injection, Surjection, IsInjective
<1>3. ExistsBijection(T, S) /\ IsFiniteSet(T) /\ Cardinality(T) \in Nat
  BY <1>1, <1>2, PlacesFinite DEF ExistsBijection
<1>4. Cardinality(S) = Cardinality(T)
  BY <1>3, FS_Bijection
<1>5. 1 \in Places(s, d) <=> Head(s) = d
  BY <1>1 DEF Places
<1>6. Cardinality(S) = IF 1 \in Places(s, d) THEN Cardinality(Places(s, d)) - 1
                       ELSE Cardinality(Places(s, d))
  BY PlacesFinite, FS_RemoveElement
<1> QED
  BY <1>3, <1>4, <1>5, <1>6, PlacesFinite

LEMMA TakenOnceInit == StewardInit => TakenOnce
<1> SUFFICES ASSUME StewardInit, NEW d \in Diag
             PROVE  accepted[d] = taken[d] + Waiting(d) /\ applied[d] = 0 /\ taken[d] = 0
  BY DEF TakenOnce
<1>1. {i \in 1..Len(chan) : chan[i] = d} = {}
  BY DEF StewardInit
<1>2. Waiting(d) = 0
  BY <1>1, FS_EmptySet DEF Waiting
<1> QED
  BY <1>2 DEF StewardInit

LEMMA TakenOnceStep == StewardShape /\ TakenOnce /\ [StewardNext]_stewardVars => TakenOnce'
<1> SUFFICES ASSUME StewardShape, TakenOnce, [StewardNext]_stewardVars PROVE TakenOnce'
  OBVIOUS
<1>0. StewardTypeOK /\ Histories /\ call \in [Reader -> CallState] /\ chan \in Seq(Diag)
  BY DEF StewardShape, StewardTypeOK, CallState
<1>1. CASE ProcessDiagnostic
  <2> SUFFICES ASSUME NEW d \in Diag
               PROVE  /\ accepted'[d] = taken'[d] + Waiting(d)'
                      /\ applied'[d] <= IF d.code \in Refused THEN 0 ELSE taken'[d]
                      /\ ~IsSecurity(d) /\ d.code \notin Refused => applied'[d] = taken'[d]
    BY DEF TakenOnce
  <2> DEFINE h == Head(chan)
  <2>1. h \in Diag /\ chan # <<>> /\ chan' = Tail(chan) /\ accepted' = accepted
        /\ taken' = [taken EXCEPT ![h] = @ + 1]
        /\ applied' = IF h.code \in Refused THEN applied ELSE [applied EXCEPT ![h] = @ + 1]
    BY <1>0, <1>1, ChanHead DEF ProcessDiagnostic
  <2>2. Waiting(d) = Cardinality(Places(chan, d)) /\ Waiting(d)' = Cardinality(Places(chan', d))
    BY DEF Waiting, Places
  <2>3. /\ Cardinality(Places(chan', d)) \in Nat
        /\ Cardinality(Places(chan, d)) =
             Cardinality(Places(chan', d)) + IF h = d THEN 1 ELSE 0
    BY <1>0, <2>1, ChanHead, PlacesTail, PlacesFinite
  <2>4. /\ taken[d] \in Nat /\ applied[d] \in Nat /\ accepted[d] \in Nat
        /\ accepted[d] = taken[d] + Waiting(d)
    BY <1>0 DEF Histories, TakenOnce
  <2>5. taken'[d] = taken[d] + IF h = d THEN 1 ELSE 0
    BY <1>0, <2>1, <2>4, OneMore, SMTT(30) DEF Histories
  <2>6. applied'[d] = IF h = d /\ h.code \notin Refused THEN applied[d] + 1 ELSE applied[d]
    BY <1>0, <2>1, OneMore DEF Histories
  <2>7. /\ applied[d] <= IF d.code \in Refused THEN 0 ELSE taken[d]
        /\ ~IsSecurity(d) /\ d.code \notin Refused => applied[d] = taken[d]
    BY <1>0 DEF Histories, TakenOnce
  <2> HIDE DEF h
  <2>8. accepted'[d] = taken'[d] + Waiting(d)'
    <3>1. accepted'[d] = accepted[d]
      BY <2>1
    <3> QED
      BY <3>1, <2>2, <2>3, <2>4, <2>5
  <2>9. applied'[d] <= IF d.code \in Refused THEN 0 ELSE taken'[d]
    BY <2>4, <2>5, <2>6, <2>7
  <2>10. ~IsSecurity(d) /\ d.code \notin Refused => applied'[d] = taken'[d]
    <3> SUFFICES ASSUME ~IsSecurity(d), d.code \notin Refused PROVE applied'[d] = taken'[d]
      OBVIOUS
    <3> QED
      BY <2>4, <2>5, <2>6, <2>7
  <2> QED
    BY <2>8, <2>9, <2>10
<1>2. ASSUME NEW r \in Reader, Send(r)
      PROVE  TakenOnce'
  <2> SUFFICES ASSUME NEW d \in Diag
               PROVE  /\ accepted'[d] = taken'[d] + Waiting(d)'
                      /\ applied'[d] <= IF d.code \in Refused THEN 0 ELSE taken'[d]
                      /\ ~IsSecurity(d) /\ d.code \notin Refused => applied'[d] = taken'[d]
    BY DEF TakenOnce
  <2> DEFINE e == call[r].diag
  <2>1. /\ e \in Diag /\ chan' = Append(chan, e) /\ taken' = taken /\ applied' = applied
        /\ accepted' = [accepted EXCEPT ![e] = @ + 1]
    BY <1>0, <1>2, CallStates DEF Send, vmVars
  <2>2. Waiting(d) = Cardinality(Places(chan, d)) /\ Waiting(d)' = Cardinality(Places(chan', d))
    BY DEF Waiting, Places
  <2>3. /\ Cardinality(Places(chan, d)) \in Nat
        /\ Cardinality(Places(chan', d)) =
             Cardinality(Places(chan, d)) + IF e = d THEN 1 ELSE 0
    BY <1>0, <2>1, PlacesAppend, PlacesFinite
  <2>4. /\ taken[d] \in Nat /\ accepted[d] \in Nat /\ applied[d] \in Nat
        /\ accepted[d] = taken[d] + Waiting(d)
        /\ applied[d] <= IF d.code \in Refused THEN 0 ELSE taken[d]
        /\ ~IsSecurity(d) /\ d.code \notin Refused => applied[d] = taken[d]
    BY <1>0 DEF Histories, TakenOnce
  <2>5. accepted'[d] = accepted[d] + IF e = d THEN 1 ELSE 0
    BY <1>0, <2>1, <2>4, OneMore DEF Histories
  <2> HIDE DEF e
  <2> QED
    BY <2>1, <2>2, <2>3, <2>4, <2>5
<1>3. CASE UNCHANGED <<chan, accepted, taken, applied>>
  BY <1>3 DEF TakenOnce, Waiting
<1> QED
  BY <1>1, <1>2, <1>3
     DEF StewardNext, LoopStep, stewardVars, vmVars, guardVars, Boot, EndRepair, HandleLine, Submit,
         ReceiptArrives, SubmitFails, Rekey

(* TakenOnce: each line let into the channel is in it or was taken by the  *)
(* loop, once; it was applied at most then, not if the kernel refuses it,  *)
(* and certainly if no guardian has to see it (bin/steward.rs).            *)
THEOREM TakenOnceHolds == StewardSpec => []TakenOnce
  BY StewardTypeInit, StewardTypeStep, TakenOnceInit, TakenOnceStep, PTL DEF StewardSpec

-----------------------------------------------------------------------------
(***************************************************************************)
(* Receipts.  Until the loop runs no line is read, so the key a call       *)
(* compares with is the one that was fetched.                              *)
(***************************************************************************)
ReceiptInv ==
    /\ loop.at = "boot" => verified = {} /\ \A r \in Reader : call[r].at = "idle"
    /\ VerifiedIsSigned

LEMMA ReceiptStep == StewardShape /\ ReceiptInv /\ [StewardNext]_stewardVars => ReceiptInv'
<1> SUFFICES ASSUME StewardShape, ReceiptInv, [StewardNext]_stewardVars PROVE ReceiptInv'
  OBVIOUS
<1>0. StewardTypeOK /\ call \in [Reader -> CallState]
  BY DEF StewardShape, StewardTypeOK, CallState
<1>1. CASE Boot
  BY <1>1 DEF Boot, Receiving, ReceiptInv, VerifiedIsSigned
<1>2. CASE LoopStep
  <2>1. loop.at # "boot" /\ loop'.at # "boot"
    BY <1>2 DEF LoopStep, ProcessDiagnostic, EndRepair, AfterTransition, Receiving
  <2> QED
    BY <1>2, <2>1
       DEF LoopStep, ProcessDiagnostic, EndRepair, guardVars, ReceiptInv, VerifiedIsSigned
<1>3. ASSUME NEW r \in Reader, NEW d \in Diag, loop.at # "boot", HandleLine(r, d)
      PROVE  ReceiptInv'
  BY <1>3 DEF HandleLine, guardVars, ReceiptInv, VerifiedIsSigned
<1>4. ASSUME NEW r \in Reader, Send(r)
      PROVE  ReceiptInv'
  BY <1>0, <1>4 DEF Send, guardVars, ReceiptInv, VerifiedIsSigned
<1>5. ASSUME NEW r \in Reader, NEW id \in Receipt, Submit(r, id)
      PROVE  ReceiptInv'
  <2>1. loop.at # "boot" /\ loop' = loop
    BY <1>5 DEF Submit, ReceiptInv
  <2>2. VerifiedIsSigned'
    BY <1>5 DEF Submit, Signature, ReceiptInv, VerifiedIsSigned
  <2> QED
    BY <2>1, <2>2 DEF ReceiptInv
<1>6. ASSUME NEW r \in Reader, NEW sig \in signed, ReceiptArrives(r, sig)
      PROVE  ReceiptInv'
  <2>1. loop.at # "boot" /\ loop' = loop
    BY <1>6 DEF ReceiptArrives, ReceiptInv
  <2>2. VerifiedIsSigned'
    BY <1>6 DEF ReceiptArrives, VerifySignature, Signature, ReceiptInv, VerifiedIsSigned
  <2> QED
    BY <2>1, <2>2 DEF ReceiptInv
<1>7. ASSUME NEW r \in Reader, SubmitFails(r)
      PROVE  ReceiptInv'
  BY <1>7 DEF SubmitFails, guardVars, ReceiptInv, VerifiedIsSigned
<1>8. CASE Rekey
  BY <1>8 DEF Rekey, Signature, ReceiptInv, VerifiedIsSigned
<1>9. CASE UNCHANGED stewardVars
  BY <1>9 DEF stewardVars, guardVars, ReceiptInv, VerifiedIsSigned
<1> QED
  BY <1>1, <1>2, <1>3, <1>4, <1>5, <1>6, <1>7, <1>8, <1>9 DEF StewardNext

(* VerifiedIsSigned: VerifiedOnChain is answered only with a receipt that  *)
(* the guardian signed for it with the key fetched at the start            *)
(* (agent/diagnostic_handler.rs, zangbeto_client.rs).                      *)
THEOREM VerifiedIsSignedHolds == StewardSpec => []VerifiedIsSigned
<1>1. StewardInit => ReceiptInv
  BY DEF StewardInit, Idle, ReceiptInv, VerifiedIsSigned
<1>2. ReceiptInv => VerifiedIsSigned
  BY DEF ReceiptInv
<1> QED
  BY <1>1, <1>2, StewardTypeInit, StewardTypeStep, ReceiptStep, PTL DEF StewardSpec

-----------------------------------------------------------------------------
(* The audit trail: the inductive invariant.  What a ledger needs for its    *)
(* tip to tell its history is that it verifies and holds entries that append *)
(* made; what a receipt needs is a ledger, in use or not, that it was made   *)
(* at the end of.                                                            *)

\* The hash the i-th entry of a ledger has to follow.
Before(l, i) == IF i = 1 THEN l.genesis_hash ELSE l.events[i - 1].entry_hash

\* A ledger of entries in S that verifies.
Genuine(l, S) ==
  /\ l = EventLedger(l.genesis_hash, l.events, l.current_tip)
  /\ l.genesis_hash \in GenesisHash
  /\ l.events \in Seq(S)
  /\ VerifyChain(l)

\* The five fields of an entry, and its hash.
WellHashed(e) ==
  /\ e = [event |-> e.event, drift_report |-> e.drift_report, merkle_root |-> e.merkle_root,
          prev_hash |-> e.prev_hash, entry_hash |-> e.entry_hash]
  /\ e.entry_hash = EntryHash(e.prev_hash, e.event, e.drift_report)

AllHashed(S) == \A e \in S : WellHashed(e)

\* Two ledgers are alike but for their receipts.
SameChain(a, b) ==
  /\ a.genesis_hash = b.genesis_hash
  /\ Len(a.events) = Len(b.events)
  /\ \A i \in 1..Len(a.events) :
       /\ a.events[i].prev_hash = b.events[i].prev_hash
       /\ a.events[i].event = b.events[i].event
       /\ a.events[i].drift_report = b.events[i].drift_report
       /\ a.events[i].entry_hash = b.events[i].entry_hash

\* An entry was made at the end of a ledger that verified.
HasPast(e, S) ==
  \E past : /\ Genuine(past, S)
            /\ past.current_tip = e.prev_hash
            /\ e.merkle_root = MerkleRoot(past.events)

EventsAre ==
  /\ IsFiniteSet(events)
  /\ Cardinality(events) <= MaxEvents
  /\ \A v \in events : /\ v.diverged \in (SUBSET {Wallet, Balance}) \cup {None}
                       /\ v.confidence \in 0..100
                       /\ v.dissent \in Nat

EntriesAre ==
  \A e \in committed :
    /\ WellHashed(e)
    /\ HasPast(e, committed)
    /\ e.event \in events /\ e.event.hashed
    /\ e.drift_report \in {None, Classify(e.event)}

LedgersAre ==
  /\ DOMAIN ledger = Holder
  /\ \A h \in Holder : Genuine(ledger[h], committed) /\ Len(ledger[h].events) <= MaxLength

TrailInv == EventsAre /\ EntriesAre /\ LedgersAre

-----------------------------------------------------------------------------
(* Chains *)

LEMMA LessThanIsWellFounded ==
  IsWellFoundedOn({ss \in Nat \X Nat : ss[1] < ss[2]}, Nat)
  BY NatLessThanWellFounded, Zenon DEF OpToRel

LEMMA LeastElement ==
  ASSUME NEW S \in SUBSET Nat, S # {}
  PROVE  \E i \in S : \A j \in S : i <= j
<1> DEFINE R == {ss \in Nat \X Nat : ss[1] < ss[2]}
<1>1. IsWellFoundedOn(R, Nat)
  BY LessThanIsWellFounded
<1>2. \A i, j \in Nat : <<j, i>> \notin R => i <= j
  OBVIOUS
<1> HIDE DEF R
<1>3. PICK i \in S : \A j \in S : ~ (<<j, i>> \in R)
  BY <1>1, WFMin
<1> QED
  BY <1>2, <1>3

LEMMA VerifyIsBefore ==
  ASSUME NEW l
  PROVE  VerifyChain(l)
           <=> /\ \A i \in 1..Len(l.events) : l.events[i].prev_hash = Before(l, i)
               /\ l.current_tip = Before(l, Len(l.events) + 1)
  BY Zenon DEF VerifyChain, Before

LEMMA HashesDiffer ==
  \A g \in GenesisHash : \A p, v, d : g # EntryHash(p, v, d)
<1> SUFFICES ASSUME NEW s \in GenesisState, NEW p, NEW v, NEW d
             PROVE  [state |-> s] # [prev |-> p, event |-> v, drift |-> d]
  BY DEF GenesisHash, EntryHash
<1>1. DOMAIN [state |-> s] = {"state"}
  OBVIOUS
<1>2. "prev" \in DOMAIN [prev |-> p, event |-> v, drift |-> d]
  OBVIOUS
<1>3. "prev" \notin {"state"}
  OBVIOUS
<1> QED
  BY <1>1, <1>2, <1>3

\* The hash after an entry is made of the one before it.
LEMMA StepBack ==
  ASSUME NEW S, AllHashed(S), NEW l, Genuine(l, S), NEW i \in 1..Len(l.events)
  PROVE  /\ l.events[i] \in S
         /\ l.events[i].entry_hash = Before(l, i + 1)
         /\ Before(l, i + 1) = EntryHash(Before(l, i), l.events[i].event, l.events[i].drift_report)
<1>1. l.events[i] \in S /\ Len(l.events) \in Nat
  BY DEF Genuine
<1>2. l.events[i].prev_hash = Before(l, i)
  BY VerifyIsBefore DEF Genuine
<1>3. l.events[i].entry_hash = Before(l, i + 1)
  BY <1>1 DEF Before
<1> QED
  BY <1>1, <1>2, <1>3, Zenon DEF WellHashed, AllHashed

\* Back from the same tip, the shorter ledger is not left before the other ends.
LEMMA BackFromTip ==
  ASSUME NEW S, AllHashed(S),
         NEW a, Genuine(a, S), NEW b, Genuine(b, S), a.current_tip = b.current_tip
  PROVE  \A k \in 0..Len(a.events) :
           /\ k <= Len(b.events)
           /\ Before(a, Len(a.events) + 1 - k) = Before(b, Len(b.events) + 1 - k)
<1> DEFINE n == Len(a.events)
           m == Len(b.events)
           P(k) == k <= m /\ Before(a, n + 1 - k) = Before(b, m + 1 - k)
           C == {k \in 0..n : ~ P(k)}
<1>0. n \in Nat /\ m \in Nat
  BY DEF Genuine
<1>1. SUFFICES C = {}
  BY <1>1
<1>2. SUFFICES ASSUME C # {}
               PROVE  FALSE
  OBVIOUS
<1>3. C \in SUBSET Nat
  BY <1>0
<1>4. PICK k \in C : \A j \in C : k <= j
  BY <1>2, <1>3, LeastElement
<1>5. P(0)
  <2>1. a.current_tip = Before(a, n + 1) /\ b.current_tip = Before(b, m + 1)
    BY VerifyIsBefore DEF Genuine
  <2>2. n + 1 - 0 = n + 1 /\ m + 1 - 0 = m + 1 /\ 0 <= m
    BY <1>0
  <2> QED
    BY <2>1, <2>2, Zenon
<1>6. k \in 1..n
  <2>1. k \in 0..n /\ ~ P(k)
    OBVIOUS
  <2>2. k # 0
    BY <2>1, <1>5
  <2> QED
    BY <2>1, <2>2, <1>0
<1>7. P(k - 1)
  <2>1. k - 1 \in 0..n /\ ~ (k <= k - 1)
    BY <1>6, <1>0
  <2> QED
    BY <2>1, <1>4
<1> DEFINE i == n + 1 - k
           j == m + 1 - k
<1>8. /\ i \in 1..n /\ n + 1 - (k - 1) = i + 1
      /\ k - 1 <= m /\ m + 1 - (k - 1) = j + 1
  BY <1>6, <1>7, <1>0
<1>9. Before(a, i + 1) = Before(b, j + 1)
  BY <1>7, <1>8
<1>10. Before(a, i + 1) = EntryHash(Before(a, i), a.events[i].event, a.events[i].drift_report)
  BY <1>8, StepBack
<1>11. k # m + 1
  <2> SUFFICES ASSUME k = m + 1
               PROVE  FALSE
    OBVIOUS
  <2>1. j + 1 = 1
    BY <1>0
  <2>2. Before(b, j + 1) = b.genesis_hash
    BY <2>1 DEF Before
  <2> QED
    BY <2>2, <1>9, <1>10, HashesDiffer, Zenon DEF Genuine
<1>12. j \in 1..m
  BY <1>11, <1>8, <1>6, <1>0
<1>13. Before(b, j + 1) = EntryHash(Before(b, j), b.events[j].event, b.events[j].drift_report)
  BY <1>12, StepBack
<1>14. Before(a, i) = Before(b, j)
  BY <1>9, <1>10, <1>13 DEF EntryHash
<1>15. P(k)
  BY <1>14, <1>12, <1>6, <1>0
<1> QED
  BY <1>15

\* Two ledgers that verify and have the same tip have the same genesis and the
\* same chain of hashes, so the same events and reports.
LEMMA SameTip ==
  ASSUME NEW S, AllHashed(S),
         NEW a, Genuine(a, S), NEW b, Genuine(b, S), a.current_tip = b.current_tip
  PROVE  SameChain(a, b)
<1> DEFINE n == Len(a.events)
<1>0. n \in Nat /\ Len(b.events) \in Nat
  BY DEF Genuine
<1>1. n <= Len(b.events)
  <2>1. n \in 0..n
    BY <1>0
  <2> QED
    BY <2>1, BackFromTip
<1>2. Len(b.events) <= n
  <2>1. Len(b.events) \in 0..Len(b.events)
    BY <1>0
  <2> QED
    BY <2>1, BackFromTip
<1>3. n = Len(b.events)
  BY <1>0, <1>1, <1>2
<1>4. \A i \in 1..(n + 1) : Before(a, i) = Before(b, i)
  <2> SUFFICES ASSUME NEW i \in 1..(n + 1)
               PROVE  Before(a, i) = Before(b, i)
    OBVIOUS
  <2>1. n + 1 - i \in 0..n /\ n + 1 - (n + 1 - i) = i
    BY <1>0
  <2>2. \A k \in 0..n : Before(a, n + 1 - k) = Before(b, Len(b.events) + 1 - k)
    BY BackFromTip
  <2>3. Before(a, n + 1 - (n + 1 - i)) = Before(b, n + 1 - (n + 1 - i))
    BY <2>1, <2>2, <1>3
  <2> QED
    BY <2>1, <2>3
<1>5. a.genesis_hash = b.genesis_hash
  <2>1. 1 \in 1..(n + 1)
    BY <1>0
  <2> QED
    BY <2>1, <1>4 DEF Before
<1>6. ASSUME NEW i \in 1..n
      PROVE  /\ a.events[i].prev_hash = b.events[i].prev_hash
             /\ a.events[i].event = b.events[i].event
             /\ a.events[i].drift_report = b.events[i].drift_report
             /\ a.events[i].entry_hash = b.events[i].entry_hash
  <2>1. i \in 1..Len(b.events) /\ i \in 1..(n + 1) /\ i + 1 \in 1..(n + 1)
    BY <1>0, <1>3
  <2>2. a.events[i].entry_hash = b.events[i].entry_hash
    BY <2>1, <1>4, StepBack
  <2>3. WellHashed(a.events[i]) /\ WellHashed(b.events[i])
    BY <2>1, StepBack DEF AllHashed
  <2> QED
    BY <2>2, <2>3 DEF WellHashed, EntryHash
<1> QED
  BY <1>3, <1>5, <1>6 DEF SameChain

LEMMA RootOfHashes ==
  ASSUME NEW s, NEW t, Len(s) = Len(t),
         \A i \in 1..Len(s) : s[i].entry_hash = t[i].entry_hash
  PROVE  MerkleRoot(s) = MerkleRoot(t)
  BY DEF MerkleRoot

\* What a ledger held before its i-th entry is a ledger that verifies.
LEMMA PrefixIsGenuine ==
  ASSUME NEW S, NEW l, Genuine(l, S), NEW i \in 1..Len(l.events)
  PROVE  Genuine(EventLedger(l.genesis_hash, SubSeq(l.events, 1, i - 1), Before(l, i)), S)
<1> DEFINE s == SubSeq(l.events, 1, i - 1)
           p == EventLedger(l.genesis_hash, s, Before(l, i))
<1>1. l.events \in Seq(S) /\ Len(l.events) \in Nat
  BY DEF Genuine
<1>2. s \in Seq(S) /\ Len(s) = i - 1 /\ \A j \in 1..(i - 1) : s[j] = l.events[j]
  BY <1>1
<1>3. p.genesis_hash = l.genesis_hash /\ p.events = s /\ p.current_tip = Before(l, i)
  BY DEF EventLedger
<1> HIDE DEF p, s
<1>4. ASSUME NEW j \in 1..i
      PROVE  Before(p, j) = Before(l, j)
  <2>1. CASE j = 1
    BY <2>1, <1>3 DEF Before
  <2>2. CASE j # 1
    <3>1. j - 1 \in 1..(i - 1)
      BY <2>2
    <3> QED
      BY <3>1, <2>2, <1>2, <1>3 DEF Before
  <2> QED
    BY <2>1, <2>2
<1>5. \A j \in 1..Len(p.events) : p.events[j].prev_hash = Before(p, j)
  <2> SUFFICES ASSUME NEW j \in 1..Len(p.events)
               PROVE  p.events[j].prev_hash = Before(p, j)
    OBVIOUS
  <2>1. j \in 1..(i - 1) /\ j \in 1..i /\ j \in 1..Len(l.events)
    BY <1>1, <1>2, <1>3
  <2>2. l.events[j].prev_hash = Before(l, j)
    BY <2>1, VerifyIsBefore DEF Genuine
  <2> QED
    BY <2>1, <2>2, <1>2, <1>3, <1>4
<1>6. p.current_tip = Before(p, Len(p.events) + 1)
  <2>1. Len(p.events) + 1 = i /\ i \in 1..i
    BY <1>2, <1>3
  <2> QED
    BY <2>1, <1>3, <1>4
<1>7. VerifyChain(p)
  BY <1>5, <1>6, VerifyIsBefore
<1>8. p = EventLedger(p.genesis_hash, p.events, p.current_tip)
  BY <1>3 DEF p
<1>9. Genuine(p, S)
  BY <1>2, <1>3, <1>7, <1>8 DEF Genuine
<1> QED
  BY <1>9 DEF p, s

LEMMA GenuineGrows ==
  ASSUME NEW S, NEW T, S \subseteq T, NEW l, Genuine(l, S)
  PROVE  Genuine(l, T)
<1>1. l.events \in Seq(T)
  BY DEF Genuine
<1> QED
  BY <1>1 DEF Genuine

-----------------------------------------------------------------------------
(* What follows from the invariant *)

LEMMA RootsFollow == TrailInv => RootsTellPast
<1> SUFFICES ASSUME TrailInv, NEW h \in Holder, NEW i \in 1..Len(ledger[h].events)
             PROVE  ledger[h].events[i].merkle_root
                      = MerkleRoot(SubSeq(ledger[h].events, 1, i - 1))
  BY DEF RootsTellPast
<1> DEFINE l == ledger[h]
           p == EventLedger(l.genesis_hash, SubSeq(l.events, 1, i - 1), Before(l, i))
<1>1. Genuine(l, committed) /\ AllHashed(committed)
  BY DEF TrailInv, LedgersAre, EntriesAre, AllHashed
<1>2. Genuine(p, committed)
  BY <1>1, PrefixIsGenuine
<1>3. l.events[i] \in committed /\ l.events[i].prev_hash = Before(l, i)
  BY <1>1, StepBack, VerifyIsBefore DEF Genuine
<1>4. PICK past : /\ Genuine(past, committed)
                  /\ past.current_tip = l.events[i].prev_hash
                  /\ l.events[i].merkle_root = MerkleRoot(past.events)
  BY <1>3, Zenon DEF TrailInv, EntriesAre, HasPast
<1>5. p.current_tip = past.current_tip /\ p.events = SubSeq(l.events, 1, i - 1)
  BY <1>3, <1>4 DEF EventLedger
<1> HIDE DEF p
<1>6. SameChain(past, p)
  BY <1>1, <1>2, <1>4, <1>5, SameTip
<1>7. MerkleRoot(past.events) = MerkleRoot(p.events)
  BY <1>6, RootOfHashes DEF SameChain
<1> QED
  BY <1>4, <1>5, <1>7

LEMMA TipFollows == TrailInv => TipTellsHistory
<1> SUFFICES ASSUME TrailInv, NEW g \in Holder, NEW h \in Holder,
                    ledger[g].current_tip = ledger[h].current_tip
             PROVE  ledger[g] = ledger[h]
  BY DEF TipTellsHistory
<1> DEFINE a == ledger[g]
           b == ledger[h]
<1>1. Genuine(a, committed) /\ Genuine(b, committed) /\ AllHashed(committed)
  BY DEF TrailInv, LedgersAre, EntriesAre, AllHashed
<1>2. SameChain(a, b)
  BY <1>1, SameTip
<1>3. a.events \in Seq(committed) /\ b.events \in Seq(committed)
  BY <1>1 DEF Genuine
<1>4. ASSUME NEW i \in 1..Len(a.events)
      PROVE  a.events[i] = b.events[i]
  <2> DEFINE s == SubSeq(a.events, 1, i - 1)
             t == SubSeq(b.events, 1, i - 1)
  <2>1. a.events[i].merkle_root = MerkleRoot(s) /\ b.events[i].merkle_root = MerkleRoot(t)
    BY <1>2, RootsFollow DEF RootsTellPast, SameChain
  <2>2. Len(s) = Len(t) /\ \A k \in 1..Len(s) : s[k].entry_hash = t[k].entry_hash
    BY <1>2, <1>3 DEF SameChain
  <2>3. MerkleRoot(s) = MerkleRoot(t)
    BY <2>2, RootOfHashes
  <2>4. WellHashed(a.events[i]) /\ WellHashed(b.events[i])
    BY <1>1, <1>2, <1>3 DEF SameChain, AllHashed
  <2> HIDE DEF s, t
  <2> QED
    BY <1>2, <2>1, <2>3, <2>4, Zenon DEF WellHashed, SameChain
<1>5. a.events = b.events
  BY <1>2, <1>3, <1>4, SeqEqual DEF SameChain
<1> QED
  BY <1>1, <1>2, <1>5 DEF Genuine, SameChain

LEMMA CompensationFollows == TrailInv => CompensationIsWarranted
<1> SUFFICES ASSUME TrailInv, NEW e \in committed, e.drift_report # None,
                    e.drift_report.recommended_action = "compensate"
             PROVE  e.event.diverged = {Balance} /\ e.event.dissent > 0
  BY DEF CompensationIsWarranted
<1> DEFINE v == e.event
           severity == ComputeSeverity(v)
<1>1. /\ v.diverged \in (SUBSET {Wallet, Balance}) \cup {None}
      /\ v.confidence \in 0..100
      /\ v.dissent \in Nat
      /\ e.drift_report = Classify(v)
  BY Zenon DEF TrailInv, EventsAre, EntriesAre
<1>2. v.diverged \notin {None, {}}
  <2>1. NoDrift.recommended_action # "compensate"
    BY DEF NoDrift
  <2> QED
    BY <1>1, <2>1 DEF Classify
<1>3. RecommendRepair(DriftType(v), severity) = "compensate"
  BY <1>1, <1>2 DEF Classify
<1>4. DriftType(v) = "economic" /\ severity > 50
  <2>1. DriftType(v) \in {"schema", "economic"}
    BY DEF DriftType
  <2> QED
    BY <2>1, <1>3 DEF RecommendRepair
<1>5. Wallet \notin v.diverged
  BY <1>4 DEF DriftType
<1>6. v.diverged = {Balance}
  BY <1>1, <1>2, <1>5
<1>7. Cardinality(v.diverged) = 1
  BY <1>6, FS_Singleton
<1>8. v.dissent # 0
  <2> SUFFICES ASSUME v.dissent = 0
               PROVE  FALSE
    OBVIOUS
  <2>1. (100 - v.confidence) \div 5 \in 0..20
    BY <1>1
  <2>2. severity = MinOf(100, MinOf(50, 10 * 1) + MinOf(30, 5 * 0) + (100 - v.confidence) \div 5)
    BY <1>7 DEF ComputeSeverity
  <2> QED
    BY <2>1, <2>2, <1>4 DEF MinOf
<1> QED
  BY <1>1, <1>6, <1>8

LEMMA TypeFollows == TrailInv => TrailTypeOK
<1> SUFFICES ASSUME TrailInv
             PROVE  TrailTypeOK
  OBVIOUS
<1>1. ASSUME NEW h \in Holder
      PROVE  Range(ledger[h].events) \subseteq committed
  <2>1. ledger[h].events \in Seq(committed)
    BY DEF TrailInv, LedgersAre, Genuine
  <2> QED
    BY <2>1 DEF Range
<1> QED
  BY <1>1 DEF TrailTypeOK, TrailInv, LedgersAre, EntriesAre, EventsAre, Genuine

-----------------------------------------------------------------------------
(* The steps of the audit trail *)

LEMMA EmptyIsGenuine ==
  ASSUME NEW g \in GenesisHash, NEW S
  PROVE  Genuine(EventLedger(g, <<>>, g), S)
<1> DEFINE l == EventLedger(g, <<>>, g)
<1>1. l.genesis_hash = g /\ l.events = <<>> /\ l.current_tip = g
  BY DEF EventLedger
<1>2. l = EventLedger(l.genesis_hash, l.events, l.current_tip)
  BY <1>1
<1> HIDE DEF l
<1>3. VerifyChain(l)
  BY <1>1 DEF VerifyChain
<1>4. Genuine(l, S)
  BY <1>1, <1>2, <1>3 DEF Genuine
<1> QED
  BY <1>4 DEF l

LEMMA TrailInitHolds == TrailInit => TrailInv
<1> SUFFICES ASSUME TrailInit
             PROVE  TrailInv
  OBVIOUS
<1>1. PICK g \in [Holder -> GenesisHash] :
        ledger = [h \in Holder |-> EventLedger(g[h], <<>>, g[h])]
  BY DEF TrailInit
<1>2. LedgersAre
  <2>1. \A h \in Holder : Genuine(ledger[h], committed)
    BY <1>1, EmptyIsGenuine
  <2>2. \A h \in Holder : Len(ledger[h].events) = 0
    BY <1>1 DEF EventLedger
  <2> QED
    BY <1>1, <2>1, <2>2, AuditAssumption DEF LedgersAre
<1>3. EventsAre
  BY FS_EmptySet, AuditAssumption DEF TrailInit, EventsAre
<1>4. EntriesAre
  BY DEF TrailInit, EntriesAre
<1> QED
  BY <1>2, <1>3, <1>4 DEF TrailInv

\* A ledger with one more entry verifies.
LEMMA AppendIsGenuine ==
  ASSUME NEW S, NEW l, Genuine(l, S), NEW v, NEW d
  PROVE  LET e == Entry(l, v, d)
             k == EventLedger(l.genesis_hash, Append(l.events, e), e.entry_hash)
         IN  Genuine(k, S \cup {e})
<1> DEFINE e == Entry(l, v, d)
           k == EventLedger(l.genesis_hash, Append(l.events, e), e.entry_hash)
           n == Len(l.events)
<1>1. /\ k.genesis_hash = l.genesis_hash /\ k.events = Append(l.events, e)
      /\ k.current_tip = e.entry_hash
  BY DEF EventLedger
<1>2. k = EventLedger(k.genesis_hash, k.events, k.current_tip)
  BY <1>1
<1>3. e.prev_hash = l.current_tip
  BY DEF Entry
<1> HIDE DEF k, e
<1>4. l.events \in Seq(S) /\ n \in Nat
  BY DEF Genuine
<1>5. /\ Len(k.events) = n + 1
      /\ k.events[n + 1] = e
      /\ \A i \in 1..n : k.events[i] = l.events[i]
      /\ k.events \in Seq(S \cup {e})
  BY <1>1, <1>4
<1>6. \A i \in 1..(n + 1) : Before(k, i) = Before(l, i)
  <2> SUFFICES ASSUME NEW i \in 1..(n + 1)
               PROVE  Before(k, i) = Before(l, i)
    OBVIOUS
  <2>1. CASE i = 1
    BY <2>1, <1>1 DEF Before
  <2>2. CASE i # 1
    <3>1. i - 1 \in 1..n
      BY <2>2, <1>4
    <3> QED
      BY <3>1, <2>2, <1>5 DEF Before
  <2> QED
    BY <2>1, <2>2
<1>7. \A i \in 1..Len(k.events) : k.events[i].prev_hash = Before(k, i)
  <2> SUFFICES ASSUME NEW i \in 1..(n + 1)
               PROVE  k.events[i].prev_hash = Before(k, i)
    BY <1>5
  <2>1. CASE i \in 1..n
    BY <2>1, <1>5, <1>6, VerifyIsBefore DEF Genuine
  <2>2. CASE i = n + 1
    BY <2>2, <1>3, <1>5, <1>6, VerifyIsBefore DEF Genuine
  <2> QED
    BY <2>1, <2>2, <1>4
<1>8. k.current_tip = Before(k, Len(k.events) + 1)
  <2>1. Before(k, (n + 1) + 1) = k.events[n + 1].entry_hash
    BY <1>4 DEF Before
  <2> QED
    BY <2>1, <1>1, <1>5
<1>9. VerifyChain(k)
  BY <1>7, <1>8, VerifyIsBefore
<1>10. Genuine(k, S \cup {e})
  BY <1>1, <1>2, <1>5, <1>9 DEF Genuine
<1> QED
  BY <1>10 DEF k, e

\* What append does to the ledgers and to the entries there are.
LEMMA TrailAppendKeeps ==
  ASSUME TrailInv, NEW h \in Holder, NEW v, NEW d, AppendEntry(h, v, d),
         v \in events', events \subseteq events', d \in {None, Classify(v)}
  PROVE  EntriesAre' /\ LedgersAre'
<1> DEFINE e == Entry(ledger[h], v, d)
           k == EventLedger(ledger[h].genesis_hash, Append(ledger[h].events, e), e.entry_hash)
<1>1. Genuine(ledger[h], committed) /\ DOMAIN ledger = Holder
  BY DEF TrailInv, LedgersAre
<1>2. committed' = committed \cup {e}
  BY DEF AppendEntry
<1>3. Genuine(k, committed')
  BY <1>1, <1>2, AppendIsGenuine
<1>4. /\ e.event = v /\ e.drift_report = d /\ e.prev_hash = ledger[h].current_tip
      /\ e.merkle_root = MerkleRoot(ledger[h].events)
      /\ WellHashed(e)
  BY DEF Entry, WellHashed
<1>5. ledger' = [ledger EXCEPT ![h] = k]
  BY DEF AppendEntry
<1> HIDE DEF e, k
<1>6. LedgersAre'
  <2>1. Len(k.events) <= MaxLength
    <3>1. ledger[h].events \in Seq(committed)
      BY <1>1 DEF Genuine
    <3>2. k.events = Append(ledger[h].events, e)
      BY DEF k, EventLedger
    <3>3. Len(ledger[h].events) < MaxLength /\ MaxLength \in Nat
      BY AuditAssumption DEF AppendEntry
    <3> QED
      BY <3>1, <3>2, <3>3
  <2>2. ASSUME NEW j \in Holder
        PROVE  Genuine(ledger'[j], committed') /\ Len(ledger'[j].events) <= MaxLength
    <3>1. CASE j = h
      BY <3>1, <1>1, <1>3, <1>5, <2>1
    <3>2. CASE j # h
      <4>1. ledger'[j] = ledger[j]
        BY <3>2, <1>1, <1>5
      <4>2. Genuine(ledger[j], committed) /\ Len(ledger[j].events) <= MaxLength
        BY DEF TrailInv, LedgersAre
      <4>3. Genuine(ledger[j], committed')
        BY <1>2, <4>2, GenuineGrows
      <4> QED
        BY <4>1, <4>2, <4>3
    <3> QED
      BY <3>1, <3>2
  <2>3. DOMAIN ledger' = Holder
    BY <1>1, <1>5
  <2> QED
    BY <2>2, <2>3 DEF LedgersAre
<1>7. EntriesAre'
  <2>1. ASSUME NEW x \in committed'
        PROVE  /\ WellHashed(x)
               /\ HasPast(x, committed')
               /\ x.event \in events' /\ x.event.hashed
               /\ x.drift_report \in {None, Classify(x.event)}
    <3>1. CASE x \in committed
      <4>1. /\ WellHashed(x) /\ HasPast(x, committed)
            /\ x.event \in events /\ x.event.hashed
            /\ x.drift_report \in {None, Classify(x.event)}
        BY <3>1, Zenon DEF TrailInv, EntriesAre
      <4>2. HasPast(x, committed')
        BY <1>2, <4>1, GenuineGrows DEF HasPast
      <4> QED
        BY <4>1, <4>2
    <3>2. CASE x = e
      <4>1. Genuine(ledger[h], committed')
        BY <1>1, <1>2, GenuineGrows
      <4>2. HasPast(e, committed')
        BY <1>4, <4>1, Zenon DEF HasPast
      <4>3. v.hashed
        BY DEF AppendEntry
      <4> QED
        BY <1>4, <3>2, <4>2, <4>3
    <3> QED
      BY <1>2, <3>1, <3>2
  <2> QED
    BY <2>1, Zenon DEF EntriesAre
<1> QED
  BY <1>6, <1>7

\* One more event.
LEMMA BuildKeeps ==
  ASSUME EventsAre, Cardinality(events) < MaxEvents,
         NEW id, NEW intent, NEW outline \in Outline,
         events' = events \cup {RealityEvent(id, intent, outline)}
  PROVE  EventsAre'
<1> DEFINE v == RealityEvent(id, intent, outline)
<1>1. /\ v.diverged \in (SUBSET {Wallet, Balance}) \cup {None}
      /\ v.confidence \in 0..100
      /\ v.dissent \in Nat
  BY DEF RealityEvent, Outline
<1> HIDE DEF v
<1>2. IsFiniteSet(events) /\ Cardinality(events) \in Nat
  BY FS_CardinalityType DEF EventsAre
<1>3. IsFiniteSet(events') /\ Cardinality(events') <= Cardinality(events) + 1
  BY <1>2, FS_AddElement DEF v
<1>4. Cardinality(events') <= MaxEvents
  BY <1>2, <1>3, FS_CardinalityType, AuditAssumption
<1> QED
  BY <1>1, <1>3, <1>4 DEF EventsAre, v

LEMMA TrailStep == TrailInv /\ [TrailNext]_trailVars => TrailInv'
<1> SUFFICES ASSUME TrailInv, [TrailNext]_trailVars
             PROVE  TrailInv'
  OBVIOUS
<1>0. EventsAre /\ EntriesAre /\ LedgersAre
  BY DEF TrailInv
<1>1. ASSUME NEW h \in Holder, NEW intent \in Intent, ExecuteWithAudit(h, intent)
      PROVE  TrailInv'
  <2> DEFINE v == RealityEvent(Fresh, intent, Prediction)
  <2>1. AppendEntry(h, v, Classify(v)) /\ events' = events \cup {v}
    BY <1>1, Zenon DEF ExecuteWithAudit
  <2>2. Prediction \in Outline
    BY DEF Prediction, Outline
  <2>3. EventsAre'
    BY <1>0, <1>1, <2>1, <2>2, BuildKeeps DEF ExecuteWithAudit
  <2> HIDE DEF v
  <2>4. EntriesAre' /\ LedgersAre'
    BY <2>1, TrailAppendKeeps
  <2> QED
    BY <2>3, <2>4 DEF TrailInv
<1>2. ASSUME NEW h \in Holder, NEW v \in events, AppendEvent(h, v)
      PROVE  TrailInv'
  <2>1. PICK d \in {None, Classify(v)} : AppendEntry(h, v, d)
    BY <1>2, Zenon DEF AppendEvent
  <2>2. events' = events
    BY <1>2 DEF AppendEvent
  <2>3. EntriesAre' /\ LedgersAre'
    BY <2>1, <2>2, TrailAppendKeeps
  <2> QED
    BY <1>0, <2>2, <2>3 DEF TrailInv, EventsAre
<1>3. ASSUME NEW h \in Holder, UNCHANGED <<events, committed>>,
             NEW l, ledger' = [ledger EXCEPT ![h] = l],
             Genuine(l, committed), Len(l.events) <= MaxLength
      PROVE  TrailInv'
  <2>1. LedgersAre'
    BY <1>0, <1>3 DEF LedgersAre
  <2>2. EntriesAre'
    BY <1>0, <1>3, Zenon DEF EntriesAre
  <2>3. EventsAre'
    BY <1>0, <1>3 DEF EventsAre
  <2> QED
    BY <2>1, <2>2, <2>3 DEF TrailInv
<1>4. ASSUME NEW h \in Holder, NEW from \in Holder \ {h}, Clone(from, h)
      PROVE  TrailInv'
  BY <1>0, <1>3, <1>4 DEF Clone, LedgersAre
<1>5. ASSUME NEW h \in Holder, ReadBack(h)
      PROVE  TrailInv'
  <2>1. PICK g \in GenesisHash, n \in 0..MaxLength :
          \E entries \in [1..n -> committed],
             end \in GenesisHash \cup {e.entry_hash : e \in committed} :
            LET l == EventLedger(g, entries, end)
            IN  VerifyChain(l) /\ ledger' = [ledger EXCEPT ![h] = l]
    BY <1>5 DEF ReadBack
  <2>2. PICK entries \in [1..n -> committed],
             end \in GenesisHash \cup {e.entry_hash : e \in committed} :
          LET l == EventLedger(g, entries, end)
          IN  VerifyChain(l) /\ ledger' = [ledger EXCEPT ![h] = l]
    BY <2>1, Zenon
  <2> DEFINE l == EventLedger(g, entries, end)
  <2>3. l.genesis_hash = g /\ l.events = entries /\ l.current_tip = end
    BY DEF EventLedger
  <2>4. VerifyChain(l) /\ ledger' = [ledger EXCEPT ![h] = l]
    BY <2>2
  <2>5. l = EventLedger(l.genesis_hash, l.events, l.current_tip)
    BY <2>3
  <2> HIDE DEF l
  <2>6. entries \in Seq(committed) /\ Len(entries) = n /\ n <= MaxLength
    BY AuditAssumption
  <2>7. Genuine(l, committed)
    BY <2>3, <2>4, <2>5, <2>6 DEF Genuine
  <2>8. UNCHANGED <<events, committed>>
    BY <1>5 DEF ReadBack
  <2> QED
    BY <1>3, <2>3, <2>4, <2>6, <2>7, <2>8
<1>6. ASSUME NEW outline \in Observed, Build(outline)
      PROVE  TrailInv'
  <2>1. EventsAre'
    BY <1>0, <1>6, BuildKeeps, AuditAssumption DEF Build
  <2>2. events \subseteq events' /\ UNCHANGED <<ledger, committed>>
    BY <1>6 DEF Build
  <2>3. LedgersAre'
    BY <1>0, <2>2 DEF LedgersAre
  <2>4. EntriesAre'
    BY <1>0, <2>2, Zenon DEF EntriesAre
  <2> QED
    BY <2>1, <2>3, <2>4 DEF TrailInv
<1>7. ASSUME UNCHANGED trailVars
      PROVE  TrailInv'
  BY <1>0, <1>7, Zenon DEF TrailInv, EventsAre, EntriesAre, LedgersAre, trailVars
<1> QED
  BY <1>1, <1>2, <1>4, <1>5, <1>6, <1>7 DEF TrailNext

LEMMA TrailInvHolds == TrailSpec => []TrailInv
  BY TrailInitHolds, TrailStep, PTL DEF TrailSpec

\* Whatever is cloned, appended, stored and read back, every ledger in use
\* verifies and holds entries that append has made, of events that were built.
THEOREM TrailTypeCorrect == TrailSpec => []TrailTypeOK
  BY TrailInvHolds, TypeFollows, PTL

\* Two ledgers in use with the same tip are the same ledger, whatever happened
\* to them on the way and however many entries they have.
THEOREM TipTellsHistoryHolds == TrailSpec => []TipTellsHistory
  BY TrailInvHolds, TipFollows, PTL

\* The receipt of every entry in use is about exactly the entries before it.
THEOREM RootsTellPastHolds == TrailSpec => []RootsTellPast
  BY TrailInvHolds, RootsFollow, PTL

\* Compensation is recommended only for a balance that diverges alone and that
\* validators are against.
THEOREM CompensationIsWarrantedHolds == TrailSpec => []CompensationIsWarranted
  BY TrailInvHolds, CompensationFollows, PTL
=============================================================================
