----------------------------- MODULE DaemonProofs -----------------------------
(***************************************************************************)
(* Proofs about Daemon, for every set of anomalies, every policy, every    *)
(* capacity and every configuration.                                       *)
(***************************************************************************)
EXTENDS Daemon, SequenceTheorems, TLAPS

-----------------------------------------------------------------------------
(* The channel *)

LEMMA EventsDiffer ==
  /\ \A a, b : AnomalyDetected(a) = AnomalyDetected(b) => a = b
  /\ \A a, b : ActionExecuted(a) = ActionExecuted(b) => a = b
  /\ \A a, b : AnomalyDetected(a) # ActionExecuted(b)
  /\ \A a : AnomalyDetected(a) # QuarantineReleased
  /\ \A a : ActionExecuted(a) # QuarantineReleased
  /\ \A a : AnomalyDetected(a) # Nothing
  /\ \A a : ActionExecuted(a) # Nothing
  /\ \A a : AnomalyDetected(a).kind = "anomaly_detected"
BY DEF AnomalyDetected, ActionExecuted, QuarantineReleased, Nothing

\* Sending adds the event and nothing else.
LEMMA AppendOccurs ==
  ASSUME NEW S, NEW q \in Seq(S), NEW e \in S
  PROVE  /\ Append(q, e) \in Seq(S)
         /\ Len(Append(q, e)) = Len(q) + 1
         /\ \A x : Occurs(x, Append(q, e)) <=> (Occurs(x, q) \/ x = e)
         /\ (NoDuplicates(q) /\ (~Occurs(e, q) \/ e = QuarantineReleased))
              => NoDuplicates(Append(q, e))
<1> DEFINE t == Append(q, e)
           n == Len(q)
<1>1. /\ t \in Seq(S)
      /\ Len(t) = n + 1
      /\ \A i \in 1..n : t[i] = q[i]
      /\ t[n + 1] = e
  BY AppendProperties
<1>2. n \in Nat
  BY LenProperties
<1> HIDE DEF t, n
<1>3. 1..(n + 1) = 1..n \cup {n + 1} /\ n + 1 \notin 1..n
  BY <1>2
<1>4. ASSUME NEW x
      PROVE  (\E i \in 1..(n + 1) : t[i] = x) <=> ((\E i \in 1..n : q[i] = x) \/ x = e)
  BY <1>1, <1>3
<1>5. ASSUME NoDuplicates(q), ~Occurs(e, q) \/ e = QuarantineReleased
      PROVE  NoDuplicates(t)
  <2> SUFFICES ASSUME NEW i \in 1..(n + 1), NEW j \in 1..(n + 1),
                      t[i] = t[j], t[i] # QuarantineReleased
               PROVE  i = j
    BY <1>1 DEF NoDuplicates
  <2>1. CASE i \in 1..n /\ j \in 1..n
    BY <1>1, <1>5, <2>1 DEF NoDuplicates, n
  <2>2. CASE i = n + 1 /\ j \in 1..n
    BY <1>1, <1>5, <2>2 DEF Occurs, n
  <2>3. CASE i \in 1..n /\ j = n + 1
    BY <1>1, <1>5, <2>3 DEF Occurs, n
  <2> QED
    BY <1>3, <2>1, <2>2, <2>3
<1> QED
  BY <1>1, <1>4, <1>5 DEF Occurs, t, n

\* Receiving takes the first event and nothing else.
LEMMA TailOccurs ==
  ASSUME NEW S, NEW q \in Seq(S), q # <<>>
  PROVE  /\ Tail(q) \in Seq(S)
         /\ Len(Tail(q)) = Len(q) - 1
         /\ Occurs(Head(q), q)
         /\ \A x : Occurs(x, q) <=> (x = Head(q) \/ Occurs(x, Tail(q)))
         /\ NoDuplicates(q) => NoDuplicates(Tail(q))
         /\ (NoDuplicates(q) /\ Head(q) # QuarantineReleased)
              => ~Occurs(Head(q), Tail(q))
<1> DEFINE t == Tail(q)
           n == Len(q)
<1>1. /\ t \in Seq(S)
      /\ Len(t) = n - 1
      /\ \A i \in 1..(n - 1) : t[i] = q[i + 1]
  BY HeadTailProperties
<1>2. n \in Nat \ {0}
  BY EmptySeq
<1>3. Head(q) = q[1]
  OBVIOUS
<1> HIDE DEF t, n
<1>4. /\ 1 \in 1..n
      /\ \A i \in 1..(n - 1) : i + 1 \in 1..n
      /\ \A i \in 1..n : i = 1 \/ i - 1 \in 1..(n - 1)
  BY <1>2
<1>5. ASSUME NEW x
      PROVE  (\E i \in 1..n : q[i] = x)
               <=> (x = q[1] \/ \E i \in 1..(n - 1) : t[i] = x)
  <2>1. ASSUME NEW i \in 1..n, q[i] = x, i # 1
        PROVE  \E j \in 1..(n - 1) : t[j] = x
    <3>1. i - 1 \in 1..(n - 1) /\ (i - 1) + 1 = i
      BY <1>2, <2>1
    <3> QED
      BY <1>1, <2>1, <3>1
  <2> QED
    BY <1>1, <1>4, <2>1
<1>6. ASSUME NoDuplicates(q)
      PROVE  NoDuplicates(t)
  <2> SUFFICES ASSUME NEW i \in 1..(n - 1), NEW j \in 1..(n - 1),
                      t[i] = t[j], t[i] # QuarantineReleased
               PROVE  i = j
    BY <1>1 DEF NoDuplicates
  <2>1. i + 1 \in 1..n /\ j + 1 \in 1..n /\ q[i + 1] = q[j + 1]
          /\ q[i + 1] # QuarantineReleased
    BY <1>1, <1>4
  <2>2. i + 1 = j + 1
    BY <1>6, <2>1 DEF NoDuplicates, n
  <2> QED
    BY <1>2, <2>2
<1>7. ASSUME NoDuplicates(q), q[1] # QuarantineReleased,
             NEW i \in 1..(n - 1), t[i] = q[1]
      PROVE  FALSE
  <2>1. i + 1 \in 1..n /\ q[i + 1] = q[1]
    BY <1>1, <1>4, <1>7
  <2>2. i + 1 = 1
    BY <1>4, <1>7, <2>1 DEF NoDuplicates, n
  <2> QED
    BY <1>2, <2>2
<1> QED
  BY <1>1, <1>3, <1>4, <1>5, <1>6, <1>7 DEF Occurs, t, n

LEMMA EventType ==
  /\ \A a \in Anomaly : AnomalyDetected(a) \in Event /\ ActionExecuted(a) \in Event
  /\ QuarantineReleased \in Event
BY DEF Event

\* The steps of the manager and of the clock leave the daemon alone.
ManagerStep == OwnerApproves \/ OwnerEvaluates \/ Clock

LEMMA ManagerStepUnchanged == ManagerStep => UNCHANGED daemonVars
BY DEF ManagerStep, OwnerApproves, OwnerEvaluates, Clock

-----------------------------------------------------------------------------
(* Type correctness *)

LEMMA TypeStep == TypeOK /\ [Next]_vars => TypeOK'
<1> SUFFICES ASSUME TypeOK, [Next]_vars
             PROVE  TypeOK'
  OBVIOUS
<1> USE DEF TypeOK
<1>0. Len(chan) \in Nat /\ Capacity \in Nat \ {0}
  BY DaemonAssumption, LenProperties
<1>1. ASSUME NEW a \in Anomaly, Produce(a)
      PROVE  TypeOK'
  BY <1>0, <1>1, EventType, AppendOccurs DEF Produce
<1>2. ASSUME NEW a \in Anomaly, ProduceRefused(a)
      PROVE  TypeOK'
  BY <1>2 DEF ProduceRefused
<1>3. CASE ProduceNotice
  BY <1>0, <1>3, EventType, AppendOccurs DEF ProduceNotice
<1>4. CASE Start
  BY <1>4 DEF Start
<1>5. CASE Ignore
  BY <1>0, <1>5, TailOccurs DEF Ignore
<1>6. ASSUME NEW dropped \in SUBSET Anomaly, End(dropped), loop # "new"
      PROVE  TypeOK'
  <2>1. <<>> \in Seq(Event) /\ Len(<<>>) = 0
    BY EmptySeq
  <2>2. lost' \subseteq Anomaly
    BY <1>6 DEF End, Queued
  <2> QED
    BY <1>0, <1>6, <2>1, <2>2 DEF End
<1>7. ASSUME NEW a \in Anomaly, HandleAnomaly(a)
      PROVE  TypeOK'
  <2>1. CASE ArbitrationFails(a)
    BY <1>6, <1>7, <2>1 DEF HandleAnomaly, ArbitrationFails
  <2>2. CASE Enforce(a)
    <3>1. times' \in [Anomaly -> Nat]
      BY <2>2 DEF Enforce, Execute
    <3> QED
      BY <1>0, <1>7, <2>2, <3>1, EventType, TailOccurs DEF HandleAnomaly, Enforce
  <2>3. CASE SendBack(a)
    BY <1>0, <1>7, <2>3, EventType, TailOccurs DEF HandleAnomaly, SendBack
  <2> QED
    BY <1>7, <2>1, <2>2, <2>3 DEF HandleAnomaly
<1>8. CASE FinishSend
  BY <1>0, <1>8, AppendOccurs DEF FinishSend
<1>9. CASE Cancel
  BY <1>6, <1>9 DEF Cancel, InHand
<1>10. CASE UNCHANGED daemonVars
  BY <1>10 DEF daemonVars
<1> QED
  BY <1>1, <1>2, <1>3, <1>4, <1>5, <1>7, <1>8, <1>9, <1>10, ManagerStepUnchanged
     DEF Next, LoopStep, vars, daemonVars, ManagerStep

\* The channel stays within its capacity and holds only events.
THEOREM TypeCorrect == Spec => []TypeOK
<1>1. Init => TypeOK
  <2>1. <<>> \in Seq(Event) /\ Len(<<>>) = 0
    BY EmptySeq
  <2> SUFFICES ASSUME Init
               PROVE  TypeOK
    OBVIOUS
  <2>2. chan \in Seq(Event) /\ Len(chan) <= Capacity
    BY <2>1, DaemonAssumption DEF Init
  <2>3. IF loop = "sending" THEN out \in Event ELSE out = Nothing
    BY DEF Init
  <2>4. times \in [Anomaly -> Nat]
    BY DEF Init
  <2>5. running \in BOOLEAN /\ (running <=> loop # "new")
    BY DEF Init
  <2>6. loop \in {"new", "recv", "sending", "ended"}
    BY DEF Init
  <2>7. sent \subseteq Anomaly /\ lost \subseteq Anomaly
    BY DEF Init
  <2> QED
    BY <2>2, <2>3, <2>4, <2>5, <2>6, <2>7 DEF TypeOK
<1> QED
  BY <1>1, TypeStep, PTL DEF Spec

-----------------------------------------------------------------------------
(* The end of the loop is final *)

EndStep == loop = "ended" => loop' = "ended" /\ times' = times

LEMMA EndStays ==
  ASSUME TypeOK, [Next]_vars
  PROVE  EndStep
<1> SUFFICES ASSUME loop = "ended"
             PROVE  loop' = "ended" /\ times' = times
  BY DEF EndStep
<1>1. CASE UNCHANGED daemonVars
  BY <1>1 DEF daemonVars
<1> QED
  BY <1>1, ManagerStepUnchanged
     DEF TypeOK, Next, LoopStep, Produce, ProduceRefused, ProduceNotice, Start,
         Ignore, HandleAnomaly, FinishSend, Cancel, vars, daemonVars, ManagerStep

\* No call and no interleaving brings an ended loop back or enforces anything
\* after it: whatever ended start() ended the enforcement.
THEOREM EndIsFinalHolds == Spec => EndIsFinal
<1>1. TypeOK /\ [Next]_vars => [EndStep]_vars
  BY EndStays
<1>2. EndIsFinal <=> [][EndStep]_vars
  BY PTL DEF EndIsFinal, EndStep
<1> QED
  BY <1>1, <1>2, TypeCorrect, PTL DEF Spec

-----------------------------------------------------------------------------
(* No anomaly is lost or enforced twice *)

IInv == ExactlyOnce /\ ReceiptsFollow

\* One step of the channel keeps IInv when the places of one anomaly, and
\* nothing else, change as the step says.  The cases below give the places.
LEMMA ProduceKeeps ==
  ASSUME TypeOK, IInv, NEW a \in Anomaly, Produce(a)
  PROVE  IInv'
<1>1. a \notin Queued \cup InHand \cup Executed \cup lost
  BY DEF Produce, IInv, ExactlyOnce
<1>2. ~Occurs(AnomalyDetected(a), chan)
  BY <1>1 DEF Queued
<1>3. /\ \A x : Occurs(x, chan') <=> (Occurs(x, chan) \/ x = AnomalyDetected(a))
      /\ NoDuplicates(chan')
  BY <1>2, AppendOccurs, EventType DEF Produce, TypeOK, IInv, ExactlyOnce
<1>4. Queued' = Queued \cup {a}
  BY <1>3, EventsDiffer DEF Queued
<1>5. InHand' = InHand /\ Executed' = Executed /\ lost' = lost
        /\ sent' = sent \cup {a} /\ times' = times /\ out' = out
  BY DEF Produce, InHand, Executed
<1>6. ExactlyOnce'
  BY <1>1, <1>3, <1>4, <1>5 DEF IInv, ExactlyOnce
<1>7. ReceiptsFollow'
  BY <1>3, <1>5, EventsDiffer DEF IInv, ReceiptsFollow
<1> QED
  BY <1>6, <1>7 DEF IInv

LEMMA NoticeKeeps ==
  ASSUME TypeOK, IInv, ProduceNotice
  PROVE  IInv'
<1>1. /\ \A x : Occurs(x, chan') <=> (Occurs(x, chan) \/ x = QuarantineReleased)
      /\ NoDuplicates(chan')
  BY AppendOccurs, EventType DEF ProduceNotice, TypeOK, IInv, ExactlyOnce
<1>2. Queued' = Queued
  BY <1>1, EventsDiffer DEF Queued
<1>3. InHand' = InHand /\ Executed' = Executed /\ lost' = lost
        /\ sent' = sent /\ times' = times /\ out' = out
  BY DEF ProduceNotice, InHand, Executed
<1> QED
  BY <1>1, <1>2, <1>3, EventsDiffer DEF IInv, ExactlyOnce, ReceiptsFollow

LEMMA RefusedKeeps ==
  ASSUME TypeOK, IInv, NEW a \in Anomaly, ProduceRefused(a)
  PROVE  IInv'
<1>1. a \notin Queued \cup InHand \cup Executed \cup lost
  BY DEF ProduceRefused, IInv, ExactlyOnce
<1>2. Queued' = Queued /\ InHand' = InHand /\ Executed' = Executed
        /\ lost' = lost \cup {a} /\ sent' = sent \cup {a}
        /\ times' = times /\ out' = out /\ chan' = chan
  BY DEF ProduceRefused, Queued, InHand, Executed
<1> QED
  BY <1>1, <1>2 DEF IInv, ExactlyOnce, ReceiptsFollow

LEMMA IgnoreKeeps ==
  ASSUME TypeOK, IInv, Ignore
  PROVE  IInv'
<1>1. /\ \A x : Occurs(x, chan) <=> (x = Head(chan) \/ Occurs(x, chan'))
      /\ NoDuplicates(chan')
  BY TailOccurs DEF Ignore, TypeOK, IInv, ExactlyOnce
<1>2. \A a \in Anomaly : Head(chan) # AnomalyDetected(a)
  BY EventsDiffer DEF Ignore
<1>3. Queued' = Queued
  BY <1>1, <1>2 DEF Queued
<1>4. InHand' = InHand /\ Executed' = Executed /\ lost' = lost
        /\ sent' = sent /\ times' = times /\ out' = out
  BY DEF Ignore, InHand, Executed
<1> QED
  BY <1>1, <1>3, <1>4 DEF IInv, ExactlyOnce, ReceiptsFollow

\* What HandleAnomaly finds: the anomaly is queued, once, and nowhere else.
LEMMA Received ==
  ASSUME TypeOK, IInv, NEW a \in Anomaly,
         loop = "recv", chan # <<>>, Head(chan) = AnomalyDetected(a)
  PROVE  /\ a \in Queued /\ a \in sent
         /\ a \notin InHand \cup Executed \cup lost
         /\ out = Nothing /\ InHand = {}
         /\ NoDuplicates(Tail(chan))
         /\ {b \in Anomaly : Occurs(AnomalyDetected(b), Tail(chan))} = Queued \ {a}
         /\ \A b \in Anomaly :
              Occurs(ActionExecuted(b), Tail(chan))
                <=> Occurs(ActionExecuted(b), chan)
<1>1. /\ \A x : Occurs(x, chan) <=> (x = AnomalyDetected(a) \/ Occurs(x, Tail(chan)))
      /\ NoDuplicates(Tail(chan))
      /\ ~Occurs(AnomalyDetected(a), Tail(chan))
  BY TailOccurs, EventsDiffer DEF TypeOK, IInv, ExactlyOnce
<1>2. a \in Queued
  BY <1>1 DEF Queued
<1>3. out = Nothing /\ InHand = {}
  BY EventsDiffer DEF TypeOK, InHand
<1>4. {b \in Anomaly : Occurs(AnomalyDetected(b), Tail(chan))} = Queued \ {a}
  BY <1>1, EventsDiffer DEF Queued
<1>5. \A b \in Anomaly : Occurs(ActionExecuted(b), Tail(chan))
                           <=> Occurs(ActionExecuted(b), chan)
  BY <1>1, EventsDiffer
<1>6. a \in sent /\ a \notin InHand \cup Executed \cup lost
  BY <1>2 DEF IInv, ExactlyOnce
<1> QED
  BY <1>1, <1>2, <1>3, <1>4, <1>5, <1>6

LEMMA EnforceKeeps ==
  ASSUME TypeOK, IInv, NEW a \in Anomaly,
         loop = "recv", chan # <<>>, Head(chan) = AnomalyDetected(a), Enforce(a)
  PROVE  IInv'
<1>1. times' = [times EXCEPT ![a] = @ + 1] /\ times[a] = 0 /\ times \in [Anomaly -> Nat]
  BY Received DEF Enforce, Execute, Executed, TypeOK
<1>2. Executed' = Executed \cup {a} /\ \A b \in Anomaly : times'[b] <= 1
  BY <1>1 DEF Executed, IInv, ExactlyOnce
<1>3. chan' = Tail(chan) /\ out' = ActionExecuted(a)
        /\ lost' = lost /\ sent' = sent
  BY DEF Enforce
<1>4. Queued' = Queued \ {a}
  BY <1>3, Received DEF Queued
<1>5. InHand' = {}
  BY <1>3, EventsDiffer DEF InHand
<1>6. ExactlyOnce'
  BY <1>2, <1>3, <1>4, <1>5, Received DEF IInv, ExactlyOnce
<1>7. ~Occurs(ActionExecuted(a), chan)
  BY Received DEF IInv, ReceiptsFollow
<1>8. ReceiptsFollow'
  BY <1>2, <1>3, <1>7, Received, EventsDiffer DEF IInv, ReceiptsFollow
<1> QED
  BY <1>6, <1>8 DEF IInv

LEMMA SendBackKeeps ==
  ASSUME TypeOK, IInv, NEW a \in Anomaly,
         loop = "recv", chan # <<>>, Head(chan) = AnomalyDetected(a), SendBack(a)
  PROVE  IInv'
<1>1. chan' = Tail(chan) /\ out' = AnomalyDetected(a)
        /\ lost' = lost /\ sent' = sent /\ times' = times /\ Executed' = Executed
  BY DEF SendBack, Executed
<1>2. Queued' = Queued \ {a}
  BY <1>1, Received DEF Queued
<1>3. InHand' = {a}
  BY <1>1, EventsDiffer DEF InHand
<1>4. ExactlyOnce'
  BY <1>1, <1>2, <1>3, Received DEF IInv, ExactlyOnce
<1>5. ReceiptsFollow'
  BY <1>1, Received, EventsDiffer DEF IInv, ReceiptsFollow
<1> QED
  BY <1>4, <1>5 DEF IInv

LEMMA EndKeeps ==
  ASSUME TypeOK, IInv, NEW dropped \in SUBSET Anomaly, End(dropped),
         InHand \subseteq dropped, dropped \subseteq InHand \cup Queued
  PROVE  IInv'
<1>1. chan' = <<>> /\ out' = Nothing /\ lost' = lost \cup Queued \cup dropped
        /\ sent' = sent /\ times' = times /\ Executed' = Executed
  BY DEF End, Executed
<1>2. /\ \A x : ~Occurs(x, chan')
      /\ NoDuplicates(chan')
  BY <1>1 DEF Occurs, NoDuplicates
<1>3. Queued' = {} /\ InHand' = {}
  BY <1>1, <1>2, EventsDiffer DEF Queued, InHand
<1>4. ExactlyOnce'
  BY <1>1, <1>2, <1>3 DEF IInv, ExactlyOnce
<1>5. ReceiptsFollow'
  BY <1>1, <1>2, EventsDiffer DEF ReceiptsFollow
<1> QED
  BY <1>4, <1>5 DEF IInv

LEMMA FinishSendKeeps ==
  ASSUME TypeOK, IInv, FinishSend
  PROVE  IInv'
<1>1. chan' = Append(chan, out) /\ out \in Event /\ out' = Nothing
        /\ lost' = lost /\ sent' = sent /\ times' = times /\ Executed' = Executed
  BY DEF FinishSend, TypeOK, Executed
<1>2. ~Occurs(out, chan) \/ out = QuarantineReleased
  BY <1>1 DEF Event, IInv, ExactlyOnce, ReceiptsFollow, Queued, InHand
<1>3. /\ \A x : Occurs(x, chan') <=> (Occurs(x, chan) \/ x = out)
      /\ NoDuplicates(chan')
  BY <1>1, <1>2, AppendOccurs DEF TypeOK, IInv, ExactlyOnce
<1>4. Queued' = Queued \cup InHand
  BY <1>3 DEF Queued, InHand
<1>5. InHand' = {}
  BY <1>1, EventsDiffer DEF InHand
<1>6. ExactlyOnce'
  BY <1>1, <1>3, <1>4, <1>5 DEF IInv, ExactlyOnce
<1>7. ReceiptsFollow'
  BY <1>1, <1>3, EventsDiffer DEF IInv, ReceiptsFollow
<1> QED
  BY <1>6, <1>7 DEF IInv

LEMMA StepKeeps == TypeOK /\ IInv /\ [Next]_vars => IInv'
<1> SUFFICES ASSUME TypeOK, IInv, [Next]_vars
             PROVE  IInv'
  OBVIOUS
<1>1. ASSUME NEW a \in Anomaly, HandleAnomaly(a)
      PROVE  IInv'
  <2>1. loop = "recv" /\ chan # <<>> /\ Head(chan) = AnomalyDetected(a)
    BY <1>1 DEF HandleAnomaly
  <2>2. CASE ArbitrationFails(a)
    <3>1. End({a}) /\ InHand \subseteq {a} /\ {a} \subseteq InHand \cup Queued
      BY <2>1, <2>2, Received DEF ArbitrationFails
    <3> QED
      BY <3>1, EndKeeps
  <2> QED
    BY <1>1, <2>1, <2>2, EnforceKeeps, SendBackKeeps DEF HandleAnomaly
<1>2. CASE Cancel
  BY <1>2, EndKeeps DEF Cancel, InHand
<1>3. CASE Start
  BY <1>3 DEF Start, IInv, ExactlyOnce, ReceiptsFollow, Queued, InHand, Executed
<1>4. CASE UNCHANGED daemonVars
  BY <1>4 DEF daemonVars, IInv, ExactlyOnce, ReceiptsFollow, Queued, InHand, Executed
<1> QED
  BY <1>1, <1>2, <1>3, <1>4, ProduceKeeps, RefusedKeeps, NoticeKeeps,
     IgnoreKeeps, FinishSendKeeps, ManagerStepUnchanged
     DEF Next, LoopStep, vars, daemonVars, ManagerStep

LEMMA InitIInv == Init => IInv
<1> SUFFICES ASSUME Init
             PROVE  IInv
  OBVIOUS
<1>1. /\ \A x : ~Occurs(x, chan)
      /\ NoDuplicates(chan)
  BY DEF Init, Occurs, NoDuplicates
<1>2. Queued = {} /\ InHand = {} /\ Executed = {} /\ lost = {} /\ sent = {}
        /\ \A a \in Anomaly : times[a] <= 1
  BY <1>1, EventsDiffer DEF Init, Queued, InHand, Executed
<1> QED
  BY <1>1, <1>2, EventsDiffer DEF Init, IInv, ExactlyOnce, ReceiptsFollow

\* Every anomaly a producer has sent is in exactly one place and is enforced
\* at most once, wherever the loop is interrupted.
THEOREM ExactlyOnceHolds == Spec => []ExactlyOnce
<1>1. IInv => ExactlyOnce
  BY DEF IInv
<1> QED
  BY <1>1, InitIInv, StepKeeps, TypeCorrect, PTL DEF Spec
-----------------------------------------------------------------------------
(* What is in quarantine was enforced *)

CausedInv ==
  /\ DOMAIN quarantined_states = Q!QuarantineId
  /\ QuarantinesAreCaused

\* A step keeps CausedInv that keeps what is enforced and activates nothing.
LEMMA CausedKeeps ==
  ASSUME CausedInv, Executed \subseteq Executed', Q!Active' \subseteq Q!Active,
         DOMAIN quarantined_states' = DOMAIN quarantined_states
  PROVE  CausedInv'
BY DEF CausedInv, QuarantinesAreCaused

\* A quarantine activates its own identifier and no other.
LEMMA EnforceCaused ==
  ASSUME TypeOK, CausedInv, NEW a \in Anomaly, loop = "recv", Enforce(a)
  PROVE  CausedInv'
<1> DEFINE action == DetermineAction(a).action
           id == QuarantineOf(a)
<1>1. times' = [times EXCEPT ![a] = @ + 1] /\ times \in [Anomaly -> Nat]
  BY DEF Enforce, Execute, TypeOK
<1>2. Executed' = Executed \cup {a}
  BY <1>1 DEF Executed
<1>3. a \in Automatic
  BY DEF Enforce, NeedsHuman, Automatic
<1>4. CASE action.kind = "quarantine_state"
  <2>1. Q!Quarantine(DefaultMemory, action.scope, a.classification, action.release_conditions)
    BY <1>4 DEF Enforce, Execute
  <2>2. PICK state : quarantined_states' = [quarantined_states EXCEPT ![id] = state]
    BY <2>1 DEF Q!Quarantine, QuarantineOf
  <2>3. /\ DOMAIN quarantined_states' = DOMAIN quarantined_states
        /\ \A k \in DOMAIN quarantined_states :
             k # id => quarantined_states'[k] = quarantined_states[k]
    BY <2>2
  <2> HIDE DEF id
  <2>4. Q!Active' \subseteq Q!Active \cup {id}
    BY <2>3 DEF CausedInv, Q!Active
  <2> QED
    BY <1>2, <1>3, <1>4, <2>3, <2>4 DEF CausedInv, QuarantinesAreCaused, id
<1>5. CASE action.kind # "quarantine_state"
  <2>1. quarantined_states' = quarantined_states
    BY <1>5 DEF Enforce, Execute, managerVars
  <2> QED
    BY <1>2, <2>1, CausedKeeps DEF Q!Active
<1> QED
  BY <1>4, <1>5

LEMMA StepCaused == TypeOK /\ CausedInv /\ [Next]_vars => CausedInv'
<1> SUFFICES ASSUME TypeOK, CausedInv, [Next]_vars
             PROVE  CausedInv'
  OBVIOUS
<1>1. ASSUME UNCHANGED <<quarantined_states, times>>
      PROVE  CausedInv'
  BY <1>1, CausedKeeps DEF Executed, Q!Active
<1>2. CASE Start \/ OwnerApproves \/ Clock
  BY <1>1, <1>2
     DEF Start, OwnerApproves, Clock, Q!RecordOrishaApproval, Q!ClockChange,
         managerVars, daemonVars
<1>3. CASE OwnerEvaluates
  <2>1. PICK id \in Q!QuarantineId : Q!EvaluateRelease(id)
    BY <1>3 DEF OwnerEvaluates
  <2>2. CASE UNCHANGED quarantined_states
    BY <1>1, <1>3, <2>2 DEF OwnerEvaluates, daemonVars
  <2>3. CASE quarantined_states' = [quarantined_states EXCEPT ![id] = Absent]
    <3>1. /\ DOMAIN quarantined_states' = DOMAIN quarantined_states
          /\ \A k \in DOMAIN quarantined_states :
               quarantined_states'[k] \in {quarantined_states[k], Absent}
      BY <2>3
    <3>2. Q!Active' \subseteq Q!Active
      BY <3>1 DEF CausedInv, Q!Active
    <3>3. Executed' = Executed
      BY <1>3 DEF OwnerEvaluates, daemonVars, Executed
    <3> QED
      BY <3>1, <3>2, <3>3, CausedKeeps
  <2> QED
    BY <2>1, <2>2, <2>3
       DEF Q!EvaluateRelease, Q!OrphanPanics, Q!ClockPanics, Q!Progress, Q!Release
<1>4. CASE Ignore \/ FinishSend \/ Cancel
  BY <1>4, <1>1 DEF Ignore, FinishSend, Cancel, End, managerVars
<1>5. ASSUME NEW a \in Anomaly, HandleAnomaly(a)
      PROVE  CausedInv'
  <2>1. CASE Enforce(a)
    BY <1>5, <2>1, EnforceCaused DEF HandleAnomaly
  <2>2. CASE ArbitrationFails(a) \/ SendBack(a)
    BY <1>5, <2>2, <1>1 DEF HandleAnomaly, ArbitrationFails, SendBack, End, managerVars
  <2> QED
    BY <1>5, <2>1, <2>2 DEF HandleAnomaly
<1>6. CASE ProduceNotice \/ \E a \in Anomaly : Produce(a) \/ ProduceRefused(a)
  BY <1>6, <1>1 DEF ProduceNotice, Produce, ProduceRefused, managerVars
<1>7. CASE UNCHANGED vars
  BY <1>7, <1>1 DEF vars
<1> QED
  BY <1>2, <1>3, <1>4, <1>5, <1>6, <1>7 DEF Next, LoopStep

\* Every state in quarantine was put there by an anomaly that was enforced and
\* needed neither a human nor an arbitration, wherever the loop was dropped and
\* whatever the owner released before.
THEOREM QuarantinesAreCausedHolds == Spec => []QuarantinesAreCaused
<1>1. Init => CausedInv
  BY DEF Init, Q!Init, CausedInv, QuarantinesAreCaused, Q!Active
<1>2. CausedInv => QuarantinesAreCaused
  BY DEF CausedInv
<1> QED
  BY <1>1, <1>2, StepCaused, TypeCorrect, PTL DEF Spec
-----------------------------------------------------------------------------
(* The daemon implements Delivery *)

\* What one step of the daemon is to Delivery.
Delivered == [D!Next]_(D!deliveryVars)

LEMMA TakeMaps ==
  ASSUME TypeOK, IInv, NEW a \in Anomaly, Produce(a)
  PROVE  D!Take(a)
<1>1. a \notin Queued \cup InHand \cup Executed \cup lost
  BY DEF Produce, IInv, ExactlyOnce
<1>2. \A x : Occurs(x, chan') <=> (Occurs(x, chan) \/ x = AnomalyDetected(a))
  <2>1. ~Occurs(AnomalyDetected(a), chan)
    BY <1>1 DEF Queued
  <2> QED
    BY <2>1, AppendOccurs, EventType DEF Produce, TypeOK, IInv, ExactlyOnce
<1>3. Queued' = Queued \cup {a}
  BY <1>2, EventsDiffer DEF Queued
<1>4. InHand' = InHand /\ Executed' = Executed /\ lost' = lost
        /\ loop # "ended" /\ loop' = loop
  BY DEF Produce, InHand, Executed
<1> QED
  BY <1>1, <1>3, <1>4 DEF D!Take, D!New

LEMMA RefuseMaps ==
  ASSUME TypeOK, IInv, NEW a \in Anomaly, ProduceRefused(a)
  PROVE  D!Refuse(a)
<1>1. a \notin Queued \cup InHand \cup Executed \cup lost
  BY DEF ProduceRefused, IInv, ExactlyOnce
<1>2. Queued' = Queued /\ InHand' = InHand /\ Executed' = Executed
        /\ lost' = lost \cup {a} /\ loop = "ended" /\ loop' = loop
  BY DEF ProduceRefused, Queued, InHand, Executed
<1> QED
  BY <1>1, <1>2 DEF D!Refuse, D!New

LEMMA EnforceMaps ==
  ASSUME TypeOK, IInv, NEW a \in Anomaly,
         loop = "recv", chan # <<>>, Head(chan) = AnomalyDetected(a), Enforce(a)
  PROVE  D!Enforce(a)
<1>1. times' = [times EXCEPT ![a] = @ + 1] /\ times[a] = 0 /\ times \in [Anomaly -> Nat]
  BY Received DEF Enforce, Execute, Executed, TypeOK
<1>2. Executed' = Executed \cup {a}
  BY <1>1 DEF Executed
<1>3. chan' = Tail(chan) /\ out' = ActionExecuted(a) /\ lost' = lost /\ loop' = "sending"
  BY DEF Enforce
<1>4. Queued' = Queued \ {a}
  BY <1>3, Received DEF Queued
<1>5. InHand = {} /\ InHand' = {} /\ a \in Queued
  BY <1>3, Received, EventsDiffer DEF InHand
<1>6. a \in Automatic
  <2>1. DetermineAction(a).requires_consensus = {} /\ ~NeedsHuman(DetermineAction(a).action)
    BY DEF Enforce
  <2> QED
    BY <2>1, DaemonAssumption DEF NeedsHuman, Automatic
<1> QED
  BY <1>2, <1>3, <1>4, <1>5, <1>6 DEF D!Enforce

LEMMA CloseMaps ==
  ASSUME TypeOK, NEW gone \in SUBSET Anomaly, End(gone), loop # "ended",
         InHand \subseteq gone, gone \subseteq InHand \cup Queued
  PROVE  D!Close
<1>1. chan' = <<>> /\ out' = Nothing /\ lost' = lost \cup Queued \cup gone
        /\ loop' = "ended" /\ Executed' = Executed
  BY DEF End, Executed
<1>2. \A x : ~Occurs(x, chan')
  BY <1>1 DEF Occurs
<1>3. Queued' = {} /\ InHand' = {}
  BY <1>1, <1>2, EventsDiffer DEF Queued, InHand
<1> QED
  BY <1>1, <1>3 DEF D!Close

\* The steps that Delivery does not see.
Unseen ==
  /\ (loop' = "ended") <=> (loop = "ended")
  /\ (Queued \cup InHand)' = Queued \cup InHand
  /\ Executed' = Executed /\ lost' = lost

LEMMA UnseenStutters == ASSUME Unseen PROVE Delivered
<1>1. (loop # "ended")' = (loop # "ended")
  BY DEF Unseen
<1> QED
  BY <1>1 DEF Unseen, Delivered, D!deliveryVars

LEMMA UnseenSteps ==
  ASSUME TypeOK, IInv,
         \/ ProduceNotice
         \/ Start
         \/ Ignore
         \/ FinishSend
         \/ UNCHANGED daemonVars
  PROVE  Unseen
<1>1. CASE ProduceNotice
  <2>1. \A x : Occurs(x, chan') <=> (Occurs(x, chan) \/ x = QuarantineReleased)
    BY <1>1, AppendOccurs, EventType DEF ProduceNotice, TypeOK, IInv, ExactlyOnce
  <2>2. Queued' = Queued
    BY <2>1, EventsDiffer DEF Queued
  <2> QED
    BY <1>1, <2>2 DEF ProduceNotice, Unseen, InHand, Executed
<1>2. CASE Start
  BY <1>2 DEF Start, TypeOK, Unseen, Queued, InHand, Executed
<1>3. CASE Ignore
  <2>1. \A x : Occurs(x, chan) <=> (x = Head(chan) \/ Occurs(x, chan'))
    BY <1>3, TailOccurs DEF Ignore, TypeOK, IInv, ExactlyOnce
  <2>2. \A a \in Anomaly : Head(chan) # AnomalyDetected(a)
    BY <1>3, EventsDiffer DEF Ignore
  <2>3. Queued' = Queued
    BY <2>1, <2>2 DEF Queued
  <2> QED
    BY <1>3, <2>3 DEF Ignore, Unseen, InHand, Executed
<1>4. CASE FinishSend
  <2>1. chan' = Append(chan, out) /\ out \in Event /\ out' = Nothing
    BY <1>4 DEF FinishSend, TypeOK
  <2>2. ~Occurs(out, chan) \/ out = QuarantineReleased
    BY <1>4, <2>1 DEF Event, IInv, ExactlyOnce, ReceiptsFollow, Queued, InHand
  <2>3. \A x : Occurs(x, chan') <=> (Occurs(x, chan) \/ x = out)
    BY <2>1, <2>2, AppendOccurs DEF TypeOK, IInv, ExactlyOnce
  <2>4. Queued' = Queued \cup InHand
    BY <2>3 DEF Queued, InHand
  <2>5. InHand' = {}
    BY <2>1, EventsDiffer DEF InHand
  <2> QED
    BY <1>4, <2>4, <2>5 DEF FinishSend, Unseen, Executed
<1>5. CASE UNCHANGED daemonVars
  BY <1>5 DEF daemonVars, Unseen, Queued, InHand, Executed
<1> QED
  BY <1>1, <1>2, <1>3, <1>4, <1>5

\* A turn that sends the anomaly back moves it from the channel to the hand.
LEMMA SendBackUnseen ==
  ASSUME TypeOK, IInv, NEW a \in Anomaly,
         loop = "recv", chan # <<>>, Head(chan) = AnomalyDetected(a), SendBack(a)
  PROVE  Unseen
<1>1. chan' = Tail(chan) /\ out' = AnomalyDetected(a) /\ loop' = "sending"
        /\ lost' = lost /\ Executed' = Executed
  BY DEF SendBack, Executed
<1>2. Queued' = Queued \ {a}
  BY <1>1, Received DEF Queued
<1>3. InHand' = {a} /\ InHand = {} /\ a \in Queued
  BY <1>1, Received, EventsDiffer DEF InHand
<1> QED
  BY <1>1, <1>2, <1>3 DEF Unseen

LEMMA StepDelivers == TypeOK /\ IInv /\ [Next]_vars => Delivered
<1> SUFFICES ASSUME TypeOK, IInv, [Next]_vars
             PROVE  Delivered
  OBVIOUS
<1>1. ASSUME NEW a \in Anomaly, Produce(a) \/ ProduceRefused(a)
      PROVE  Delivered
  <2>1. D!Take(a) \/ D!Refuse(a)
    BY <1>1, TakeMaps, RefuseMaps
  <2> QED
    BY <2>1 DEF Delivered, D!Next
<1>2. ASSUME NEW gone \in SUBSET Anomaly, End(gone), loop # "ended",
             InHand \subseteq gone, gone \subseteq InHand \cup Queued
      PROVE  Delivered
  <2>1. D!Close
    BY <1>2, CloseMaps
  <2> QED
    BY <2>1 DEF Delivered, D!Next
<1>3. ASSUME NEW a \in Anomaly, HandleAnomaly(a)
      PROVE  Delivered
  <2>1. loop = "recv" /\ chan # <<>> /\ Head(chan) = AnomalyDetected(a)
    BY <1>3 DEF HandleAnomaly
  <2>2. CASE ArbitrationFails(a)
    <3>1. End({a}) /\ InHand \subseteq {a} /\ {a} \subseteq InHand \cup Queued
      BY <2>1, <2>2, Received DEF ArbitrationFails
    <3> QED
      BY <1>2, <2>1, <3>1
  <2>3. CASE Enforce(a)
    <3>1. D!Enforce(a)
      BY <2>1, <2>3, EnforceMaps
    <3> QED
      BY <3>1 DEF Delivered, D!Next
  <2>4. CASE SendBack(a)
    BY <2>1, <2>4, SendBackUnseen, UnseenStutters
  <2> QED
    BY <1>3, <2>2, <2>3, <2>4 DEF HandleAnomaly
<1>4. CASE Cancel
  BY <1>2, <1>4 DEF Cancel, InHand
<1> QED
  BY <1>1, <1>3, <1>4, UnseenSteps, UnseenStutters, ManagerStepUnchanged
     DEF Next, LoopStep, vars, daemonVars, ManagerStep

LEMMA InitDelivers == Init => D!Init
<1> SUFFICES ASSUME Init
             PROVE  D!Init
  OBVIOUS
<1>1. \A x : ~Occurs(x, chan)
  BY DEF Init, Occurs
<1>2. Queued = {} /\ InHand = {} /\ Executed = {} /\ lost = {} /\ loop = "new"
  BY <1>1, EventsDiffer DEF Init, Queued, InHand, Executed
<1> QED
  BY <1>2 DEF D!Init

\* Every behaviour of the daemon is one of Delivery, for every capacity of the
\* channel and every policy: its channel, the events it sends to itself and the
\* places where it is interrupted are not to be seen from outside.
THEOREM DeliversOnceHolds == Spec => DeliversOnce
<1>1. TypeOK /\ IInv /\ [Next]_vars => [D!Next]_(D!deliveryVars)
  BY StepDelivers DEF Delivered
<1>2. Spec => []IInv
  BY InitIInv, StepKeeps, TypeCorrect, PTL DEF Spec
<1> QED
  BY <1>1, <1>2, InitDelivers, TypeCorrect, PTL DEF Spec, DeliversOnce, D!Spec
=============================================================================
