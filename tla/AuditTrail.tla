------------------------------ MODULE AuditTrail ------------------------------
(***************************************************************************)
(* The audit trail of omo-kernel (zangbeto/ledger.rs, pipeline.rs and      *)
(* drift.rs).  The pipeline turns an intent into a reality event, has its  *)
(* drift classified and appends it to a hash-chained ledger.  A ledger can *)
(* be cloned and appended to on its own, and it can be stored and read     *)
(* back: what is read back may have lost, repeated or mixed up its         *)
(* entries, and verify_chain is all that stands between it and its use.    *)
(***************************************************************************)
EXTENDS Naturals, Sequences, FiniteSets, SequencesExt

CONSTANTS
  Holder,        \* those who hold a ledger
  GenesisState,  \* the states ledgers begin with
  Intent,        \* intents given to the pipeline
  RefusedIntent, \* intents whose transition the validators refuse
  Observed,      \* what events built outside the pipeline may carry, see Outline
  MaxEvents,     \* bound on the events of one behaviour
  MaxLength,     \* bound on the entries of a ledger
  MaxCommits,    \* bound on the entries of all ledgers together
  None

Wallet == "/identity/wallet"
Balance == "/economy/balance"

\* Of an event: whether its hash has the prefix, the fields in which the
\* prediction differs from the default state (None without a prediction), the
\* prediction's confidence in percent, and the weight of the validators
\* against it.
Outline == [hashed : BOOLEAN, diverged : (SUBSET {Wallet, Balance}) \cup {None},
            confidence : 0..100, dissent : Nat]

\* Hashes do not collide: that of a state is no entry's, see EntryHash.
GenesisHash == [state : GenesisState]

ASSUME AuditAssumption ==
  /\ Holder # {} /\ GenesisState # {}
  /\ RefusedIntent \subseteq Intent /\ Observed \subseteq Outline
  /\ {MaxEvents, MaxLength, MaxCommits} \subseteq Nat

RealityEvent(id, intent, outline) ==
  [id |-> id, intent |-> intent, hashed |-> outline.hashed, diverged |-> outline.diverged,
   confidence |-> outline.confidence, dissent |-> outline.dissent]

VARIABLES
  ledger,    \* the EventLedger of each holder
  events,    \* the events built so far
  committed  \* history: the entries append has made, for whatever ledger

trailVars == <<ledger, events, committed>>

EventLedger(genesis_hash, entries, tip) ==
  [genesis_hash |-> genesis_hash, events |-> entries, current_tip |-> tip]

TrailInit ==
  /\ \E g \in [Holder -> GenesisHash] :
       ledger = [h \in Holder |-> EventLedger(g[h], <<>>, g[h])]
  /\ events = {}
  /\ committed = {}

-----------------------------------------------------------------------------
(* DriftClassifier; severities in hundredths *)

MinOf(x, y) == IF x < y THEN x ELSE y

\* Mutant: the confidence weighs as much as the validators together.
ComputeSeverityUnsure(event) ==
  MinOf(100, MinOf(50, 10 * Cardinality(event.diverged))
             + MinOf(30, 5 * event.dissent)
             + (100 - event.confidence))

ComputeSeverity(event) ==
  MinOf(100, MinOf(50, 10 * Cardinality(event.diverged))
             + MinOf(30, 5 * event.dissent)
             + (100 - event.confidence) \div 5)

\* The paths are looked at in their order, the wallet's first.
DriftType(event) == IF Wallet \in event.diverged THEN "schema" ELSE "economic"

RecommendRepair(type, severity) ==
  CASE type = "schema" /\ severity > 70 -> "rollback"
    [] type = "economic" /\ severity > 50 -> "compensate"
    [] OTHER -> "patch"

NoDrift == [drift_detected |-> FALSE, drift_type |-> None, severity |-> 0,
            recommended_action |-> "patch"]

Classify(event) ==
  IF event.diverged \in {None, {}} THEN NoDrift
  ELSE [drift_detected |-> TRUE,
        drift_type |-> DriftType(event),
        severity |-> ComputeSeverity(event),
        recommended_action |-> RecommendRepair(DriftType(event), ComputeSeverity(event))]

-----------------------------------------------------------------------------
(* EventLedger *)

\* Mutant: the hash does not cover the entry before.
EntryHashAlone(prev, event, drift) == [prev |-> None, event |-> event, drift |-> drift]

\* The receipt is not covered.
EntryHash(prev, event, drift) == [prev |-> prev, event |-> event, drift |-> drift]

MerkleRoot(entries) == [i \in 1..Len(entries) |-> entries[i].entry_hash]

Entry(l, event, drift) ==
  [event |-> event, drift_report |-> drift, merkle_root |-> MerkleRoot(l.events),
   prev_hash |-> l.current_tip, entry_hash |-> EntryHash(l.current_tip, event, drift)]

\* Mutant: only the last link is followed.
VerifyLast(l) ==
  l.current_tip = IF l.events = <<>> THEN l.genesis_hash ELSE Last(l.events).entry_hash

VerifyChain(l) ==
  LET before(i) == IF i = 1 THEN l.genesis_hash ELSE l.events[i - 1].entry_hash
  IN  /\ \A i \in 1..Len(l.events) : l.events[i].prev_hash = before(i)
      /\ l.current_tip = before(Len(l.events) + 1)

\* Mutant: the hash is not looked at.
AppendUnchecked(h, event, drift) ==
  /\ Len(ledger[h].events) < MaxLength
  /\ LET entry == Entry(ledger[h], event, drift)
     IN  /\ ledger' = [ledger EXCEPT ![h] =
                         EventLedger(@.genesis_hash, Append(@.events, entry), entry.entry_hash)]
         /\ committed' = committed \cup {entry}
         /\ Cardinality(committed') <= MaxCommits

\* append; an event whose hash has no prefix is refused.
AppendEntry(h, event, drift) ==
  /\ event.hashed
  /\ Len(ledger[h].events) < MaxLength
  /\ LET entry == Entry(ledger[h], event, drift)
     IN  /\ ledger' = [ledger EXCEPT ![h] =
                         EventLedger(@.genesis_hash, Append(@.events, entry), entry.entry_hash)]
         /\ committed' = committed \cup {entry}
         /\ Cardinality(committed') <= MaxCommits

Fresh == Cardinality(events) + 1

-----------------------------------------------------------------------------
(* ZangbetoPipeline *)

\* The prediction is the default state with confidence 0.9, and the one
\* validator report is in favour.
Prediction == [hashed |-> TRUE, diverged |-> {}, confidence |-> 90, dissent |-> 0]

\* A refused transition ends the call before anything is built.
ExecuteWithAudit(h, intent) ==
  /\ Cardinality(events) < MaxEvents
  /\ intent \notin RefusedIntent
  /\ LET event == RealityEvent(Fresh, intent, Prediction)
     IN  /\ AppendEntry(h, event, Classify(event))
         /\ events' = events \cup {event}

-----------------------------------------------------------------------------
(* What holders do with the public methods and fields *)

\* An event is built outside the pipeline.
Build(outline) ==
  /\ Cardinality(events) < MaxEvents
  /\ events' = events \cup {RealityEvent(Fresh, None, outline)}
  /\ UNCHANGED <<ledger, committed>>

\* An event is appended, the first time or again, with or without its report.
AppendEvent(h, event) ==
  /\ \E drift \in {None, Classify(event)} : AppendEntry(h, event, drift)
  /\ UNCHANGED events

Clone(from, to) ==
  /\ ledger' = [ledger EXCEPT ![to] = ledger[from]]
  /\ UNCHANGED <<events, committed>>

\* A stored ledger is read back and used if it verifies: entries of any
\* ledgers in any order under any tip.
ReadBack(h) ==
  /\ \E g \in GenesisHash, n \in 0..MaxLength :
     \E entries \in [1..n -> committed],
        tip \in GenesisHash \cup {e.entry_hash : e \in committed} :
       LET l == EventLedger(g, entries, tip)
       IN  VerifyChain(l) /\ ledger' = [ledger EXCEPT ![h] = l]
  /\ UNCHANGED <<events, committed>>

TrailNext ==
  \/ \E h \in Holder :
       \/ \E intent \in Intent : ExecuteWithAudit(h, intent)
       \/ \E event \in events : AppendEvent(h, event)
       \/ \E from \in Holder \ {h} : Clone(from, h)
       \/ ReadBack(h)
  \/ \E outline \in Observed : Build(outline)

TrailSpec == TrailInit /\ [][TrailNext]_trailVars
-----------------------------------------------------------------------------
(* Properties of the code *)

\* Ledgers hold entries that append has made, of events that were built, and
\* always verify.
TrailTypeOK ==
  /\ \A h \in Holder :
       /\ ledger[h].genesis_hash \in GenesisHash
       /\ Range(ledger[h].events) \subseteq committed
       /\ Len(ledger[h].events) <= MaxLength
       /\ VerifyChain(ledger[h])
  /\ \A e \in committed : e.event \in events /\ e.event.hashed
  /\ Cardinality(events) <= MaxEvents

\* The tip tells the history: whatever was cloned, appended on both sides,
\* lost, repeated or mixed up on the way, two ledgers in use with the same tip
\* have the same genesis and the same entries, receipts included, which the
\* hashes do not cover.
TipTellsHistory ==
  \A g, h \in Holder : ledger[g].current_tip = ledger[h].current_tip => ledger[g] = ledger[h]

\* The receipt of every entry in use is about exactly the entries before it, on
\* whichever side of a clone it was made and however it got here.
RootsTellPast ==
  \A h \in Holder : \A i \in 1..Len(ledger[h].events) :
    ledger[h].events[i].merkle_root = MerkleRoot(SubSeq(ledger[h].events, 1, i - 1))

\* Compensation is recommended only for a balance that diverges alone, and only
\* when validators are against the event: an unsure prediction is not enough.
CompensationIsWarranted ==
  \A e \in committed :
    e.drift_report # None /\ e.drift_report.recommended_action = "compensate"
      => e.event.diverged = {Balance} /\ e.event.dissent > 0
=============================================================================
