-------------------------------- MODULE Daemon --------------------------------
(***************************************************************************)
(* ZangbetoDaemon (daemon.rs): one loop that receives anomalies from a     *)
(* bounded channel, decides with the action ladder, enforces through the   *)
(* quarantine manager, and sends the receipt back into the channel it      *)
(* reads from.                                                             *)
(*                                                                         *)
(* Producers hold clones of event_tx and run on other threads: they may    *)
(* fill the channel between any two steps of the loop.  start() borrows    *)
(* the daemon mutably until it returns, so its owner can reach the         *)
(* quarantine manager only before the start and after the end.             *)
(***************************************************************************)
EXTENDS ActionLadder, FiniteSets

CONSTANTS
  Anomaly,       \* the anomalies producers detect: [id, severity, classification]
  Capacity,      \* mpsc::channel(100), scaled down
  AutoEnforce,   \* config.auto_enforce
  HumanApproval, \* config.require_human_approval_for
  MaxNotices,    \* bound on the QuarantineReleased events in the channel
  MayCancel,     \* the owner may drop the future of start()
  Scope, Orisha, Trace, DefaultMemory, MaxTime, Modulus, MaxQueue, Absent

VARIABLES
  running,  \* self.running
  loop,     \* where start() is: "new", "recv", "sending" or "ended"
  chan,     \* the events in the channel
  out,      \* the event that self.event_tx.send(..) is sending
  sent,     \* the anomalies handed to event_tx.send by producers
  times,    \* how often execute_enforcement_action ran for an anomaly
  lost,     \* anomalies refused by, or dropped with, the closed channel
  quarantined_states, merge_blocklist, release_queue, since, now, panicked

daemonVars == <<running, loop, chan, out, sent, times, lost>>
managerVars == <<quarantined_states, merge_blocklist, release_queue, since, now, panicked>>
vars == <<running, loop, chan, out, sent, times, lost,
          quarantined_states, merge_blocklist, release_queue, since, now, panicked>>

\* state_snapshot() returns CrdtMemory::default(): every quarantine the
\* daemon makes is of that one state.
Q == INSTANCE Quarantine WITH
       Memory <- {DefaultMemory}, Reason <- Classification, ConditionSets <- {}

ASSUME DaemonAssumption ==
  /\ Capacity \in Nat \ {0}
  /\ AutoEnforce \in BOOLEAN
  /\ MayCancel \in BOOLEAN
  /\ MaxNotices \in Nat
  /\ MaxQueue >= Cardinality(Anomaly)
  /\ \A a \in Anomaly : /\ a.severity \in Severity
                        /\ a.classification \in Classification

\* The quarantines the rules ask for are ones the manager's types admit.
ASSUME QuarantinesAssumption ==
  /\ MaxTime \in Nat \ {0}
  /\ Absent \notin Q!QuarantinedState
  /\ \A a \in Anomaly :
       DetermineAction(a).action.kind = "quarantine_state" =>
         /\ DetermineAction(a).action.scope \in Scope
         /\ DetermineAction(a).action.release_conditions \subseteq Q!ReleaseCondition

AnomalyDetected(a) == [kind |-> "anomaly_detected", anomaly |-> a]
ActionExecuted(a)  == [kind |-> "action_executed", anomaly |-> a]
QuarantineReleased == [kind |-> "quarantine_released"]
Event == {AnomalyDetected(a) : a \in Anomaly} \cup {ActionExecuted(a) : a \in Anomaly}
           \cup {QuarantineReleased}
Nothing == [kind |-> "nothing"]

Init ==
  /\ running = FALSE
  /\ loop = "new"
  /\ chan = <<>>
  /\ out = Nothing
  /\ sent = {}
  /\ times = [a \in Anomaly |-> 0]
  /\ lost = {}
  /\ Q!Init

-----------------------------------------------------------------------------
(* Producers *)

\* send().await completes when the channel has room.
Produce(a) ==
  /\ a \notin sent
  /\ loop # "ended"
  /\ Len(chan) < Capacity
  /\ chan' = Append(chan, AnomalyDetected(a))
  /\ sent' = sent \cup {a}
  /\ UNCHANGED <<running, loop, out, times, lost, managerVars>>

\* The receiver is gone: send() returns an error and the anomaly with it.
ProduceRefused(a) ==
  /\ a \notin sent
  /\ loop = "ended"
  /\ sent' = sent \cup {a}
  /\ lost' = lost \cup {a}
  /\ UNCHANGED <<running, loop, chan, out, times, managerVars>>

Notices == {i \in 1..Len(chan) : chan[i] = QuarantineReleased}

ProduceNotice ==
  /\ loop # "ended"
  /\ Len(chan) < Capacity
  /\ Cardinality(Notices) < MaxNotices
  /\ chan' = Append(chan, QuarantineReleased)
  /\ UNCHANGED <<running, loop, out, sent, times, lost, managerVars>>

-----------------------------------------------------------------------------
(* start() *)

\* Mutant: the end of the loop, not running, decides whether to start.
StartAgain ==
  /\ ~panicked
  /\ loop \in {"new", "ended"}
  /\ running' = TRUE
  /\ loop' = "recv"
  /\ UNCHANGED <<chan, out, sent, times, lost, managerVars>>

\* A start() while running is TRUE answers AlreadyRunning and changes nothing.
Start ==
  /\ ~panicked
  /\ ~running
  /\ running' = TRUE
  /\ loop' = "recv"
  /\ UNCHANGED <<chan, out, sent, times, lost, managerVars>>

Occurs(e, q) == \E i \in 1..Len(q) : q[i] = e

Queued == {a \in Anomaly : Occurs(AnomalyDetected(a), chan)}

InHand == {a \in Anomaly : out = AnomalyDetected(a)}

\* start() returns or is dropped: the receiver goes with it, and so does every
\* event in the channel.  running stays TRUE, so nobody can start again.
End(dropped) ==
  /\ loop' = "ended"
  /\ chan' = <<>>
  /\ out' = Nothing
  /\ lost' = lost \cup Queued \cup dropped
  /\ UNCHANGED <<running, sent, times>>

\* QuarantineReleased has an empty arm; the receipts, ActionExecuted, fall
\* into `_ => {}`.
Ignore ==
  /\ loop = "recv"
  /\ chan # <<>>
  /\ Head(chan).kind # "anomaly_detected"
  /\ chan' = Tail(chan)
  /\ UNCHANGED <<running, loop, out, sent, times, lost, managerVars>>

Execute(a, action) ==
  /\ times' = [times EXCEPT ![a] = @ + 1]
  /\ IF action.kind = "quarantine_state"
     THEN Q!Quarantine(DefaultMemory, action.scope, a.classification,
                       action.release_conditions)
     ELSE UNCHANGED managerVars

\* Mutant: the test of the human approval list is inverted.
NeedsNoHuman(action) == AutoEnforce /\ action \notin HumanApproval

NeedsHuman(action) == ~AutoEnforce \/ action \in HumanApproval

\* The arbitration request carries no conflicting policies, so arbitrate
\* answers NoConflictToResolve and `?` ends start() with ArbitrationFailed.
ArbitrationFails(a) ==
  /\ DetermineAction(a).requires_consensus # {}
  /\ End({a})
  /\ UNCHANGED managerVars

\* No await point lies between recv and the send: nothing of the daemon runs
\* in between, but the producers do before the send completes.
Enforce(a) ==
  LET decision == DetermineAction(a) IN
  /\ decision.requires_consensus = {}
  /\ ~NeedsHuman(decision.action)
  /\ Execute(a, decision.action)
  /\ out' = ActionExecuted(a)
  /\ loop' = "sending"
  /\ chan' = Tail(chan)
  /\ UNCHANGED <<running, sent, lost>>

\* Mutant: the anomaly is enforced and then also sent back.
SendBackExecuted(a) ==
  LET decision == DetermineAction(a) IN
  /\ decision.requires_consensus = {}
  /\ NeedsHuman(decision.action)
  /\ Execute(a, decision.action)
  /\ out' = AnomalyDetected(a)
  /\ loop' = "sending"
  /\ chan' = Tail(chan)
  /\ UNCHANGED <<running, sent, lost>>

\* The anomaly waits for a human by going round the channel.
SendBack(a) ==
  LET decision == DetermineAction(a) IN
  /\ decision.requires_consensus = {}
  /\ NeedsHuman(decision.action)
  /\ out' = AnomalyDetected(a)
  /\ loop' = "sending"
  /\ chan' = Tail(chan)
  /\ UNCHANGED <<running, sent, times, lost, managerVars>>

HandleAnomaly(a) ==
  /\ loop = "recv"
  /\ chan # <<>>
  /\ Head(chan) = AnomalyDetected(a)
  /\ ArbitrationFails(a) \/ Enforce(a) \/ SendBack(a)

FinishSend ==
  /\ loop = "sending"
  /\ Len(chan) < Capacity
  /\ chan' = Append(chan, out)
  /\ out' = Nothing
  /\ loop' = "recv"
  /\ UNCHANGED <<running, sent, times, lost, managerVars>>

\* The future of start() is dropped at one of its await points.
Cancel ==
  /\ MayCancel
  /\ loop \in {"recv", "sending"}
  /\ End(InHand)
  /\ UNCHANGED managerVars

-----------------------------------------------------------------------------
(* The owner, while start() does not hold the daemon *)

OwnerApproves ==
  /\ loop \in {"new", "ended"}
  /\ \E id \in Q!QuarantineId, o \in Orisha : Q!RecordOrishaApproval(id, o)
  /\ UNCHANGED daemonVars

OwnerEvaluates ==
  /\ loop \in {"new", "ended"}
  /\ \E id \in Q!QuarantineId : Q!EvaluateRelease(id)
  /\ UNCHANGED daemonVars

Clock == Q!ClockChange /\ UNCHANGED daemonVars

LoopStep == Ignore \/ (\E a \in Anomaly : HandleAnomaly(a)) \/ FinishSend

Next ==
  \/ \E a \in Anomaly : Produce(a) \/ ProduceRefused(a)
  \/ ProduceNotice
  \/ Start
  \/ LoopStep
  \/ Cancel
  \/ OwnerApproves
  \/ OwnerEvaluates
  \/ Clock

Spec == Init /\ [][Next]_vars

\* The runtime polls the task of start() whenever it can make progress.
Fairness == WF_vars(LoopStep)

FairSpec == Spec /\ Fairness
-----------------------------------------------------------------------------
(* Properties of the code *)

\* The channel never exceeds its capacity, and the event in hand is there
\* exactly while the loop is in a send.
TypeOK ==
  /\ running \in BOOLEAN
  /\ loop \in {"new", "recv", "sending", "ended"}
  /\ running <=> loop # "new"
  /\ chan \in Seq(Event) /\ Len(chan) <= Capacity
  /\ IF loop = "sending" THEN out \in Event ELSE out = Nothing
  /\ sent \subseteq Anomaly /\ lost \subseteq Anomaly
  /\ times \in [Anomaly -> Nat]

\* The enforcement loop neither loses nor duplicates an anomaly: each one a
\* producer has sent is in exactly one place (queued, in hand, enforced, or
\* lost with a closed channel), is queued once, and is enforced at most once,
\* however often it goes round the channel and wherever start() is dropped.
Executed == {a \in Anomaly : times[a] > 0}

NoDuplicates(q) ==
  \A i, j \in 1..Len(q) : q[i] = q[j] /\ q[i] # QuarantineReleased => i = j

ExactlyOnce ==
  /\ Queued \cup InHand \cup Executed \cup lost = sent
  /\ Queued \cap (InHand \cup Executed \cup lost) = {}
  /\ InHand \cap (Executed \cup lost) = {}
  /\ Executed \cap lost = {}
  /\ \A a \in Anomaly : times[a] <= 1
  /\ NoDuplicates(chan)

\* What makes ExactlyOnce inductive: a receipt is in the channel or in hand,
\* never both, and only for an anomaly that has been enforced.
ReceiptsFollow ==
  \A a \in Anomaly :
    /\ Occurs(ActionExecuted(a), chan) => a \in Executed
    /\ out = ActionExecuted(a) => a \in Executed
    /\ ~(out = ActionExecuted(a) /\ Occurs(ActionExecuted(a), chan))

Automatic ==
  {a \in Anomaly : /\ DetermineAction(a).requires_consensus = {}
                   /\ AutoEnforce /\ DetermineAction(a).action \notin HumanApproval}

QuarantineOf(a) ==
  [hash |-> DefaultMemory, scope |-> DetermineAction(a).action.scope,
   reason |-> a.classification]

\* Nothing is in quarantine but what an enforced anomaly put there: one that
\* waits for a human, or for an arbitration that never comes, leaves no trace
\* in the manager, however often it goes round the channel, and a loop that is
\* dropped leaves no quarantine that was not counted as enforced.
QuarantinesAreCaused ==
  \A id \in Q!Active : \E a \in Executed \cap Automatic :
    /\ DetermineAction(a).action.kind = "quarantine_state"
    /\ id = QuarantineOf(a)

\* Once start() has ended it has ended for good: running stays TRUE, so no
\* later call can start the loop again, and nothing is enforced any more.
EndIsFinal ==
  [][loop = "ended" => loop' = "ended" /\ times' = times]_vars

\* With room in the channel for every anomaly and every notice, each anomaly in
\* the channel of a running daemon that waits for no human is enforced, or
\* start() ends, however many others go round the channel waiting for one.
HandledEventually ==
  Cardinality(Anomaly) + MaxNotices <= Capacity
    => \A a \in Anomaly :
         AutoEnforce /\ DetermineAction(a).action \notin HumanApproval =>
           ((a \in Queued /\ loop \in {"recv", "sending"})
              ~> (a \in Executed \/ loop = "ended"))

\* The daemon keeps the promise of Delivery, whatever goes round its channel
\* and wherever start() is interrupted: an anomaly that waits for a human, goes
\* out and comes back is still one that waits, none that needs a human or an
\* arbitration is ever enforced, none is taken twice, and what an ended loop
\* leaves behind is dropped and nothing else.
D == INSTANCE Delivery WITH
       open <- loop # "ended", waiting <- Queued \cup InHand,
       enforced <- Executed, dropped <- lost

DeliversOnce == D!Spec

-----------------------------------------------------------------------------
(* A statement of a comment that the code does not live up to *)

\* "continuous enforcement loop" (daemon.rs): the loop never stays for ever
\* in the send of an event.
SendCompletes == (loop = "sending") ~> (loop # "sending")
=============================================================================
