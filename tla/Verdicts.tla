-------------------------------- MODULE Verdicts --------------------------------
(***************************************************************************)
(* The verdicts of the two enforcement bridges, server.rs and http.rs.     *)
(* There is a binary for each, zangbeto_server and zangbeto-server; both   *)
(* read the words of a report, ask a ladder without rules and tell the     *)
(* runtime whether to gate the act.  Neither keeps anything: clients send  *)
(* any words to either, again and in any order, and hold what they were    *)
(* told.                                                                   *)
(*                                                                         *)
(* A word is its text in small letters without blanks around it, and       *)
(* whether it was written so (plain); one that is absent has no text.      *)
(***************************************************************************)
EXTENDS Naturals, FiniteSets

CONSTANTS
  SeverityWord, \* the severities clients write
  KindWord,     \* the classifications clients write
  MaxVerdicts   \* bound on the verdicts that are compared

VARIABLE verdicts \* what clients were told: [bridge, severity, classification, gates]

L == INSTANCE ActionLadder WITH Rules <- <<>>, Detail <- {"detail"}

Word(text) == [text |-> text, plain |-> TRUE]

Report(severity, type) ==
  [severity |-> severity, classification |-> [type |-> type, details |-> "detail"]]

-----------------------------------------------------------------------------
(* server.rs *)

ServerSeverity(word) ==
  CASE word = Word("observational") -> L!Observational
    [] word = Word("critical")      -> L!Critical
    [] word = Word("catastrophic")  -> L!Catastrophic
    [] OTHER                        -> L!Warning

\* Mutant: what is not known escapes a capability.
ServerTypeEscape(word) ==
  IF word.plain /\ word.text \in {"schema_drift", "economic_anomaly", "temporal_inconsistency"}
  THEN word.text ELSE "capability_escape"

ServerType(word) ==
  IF word.plain /\ word.text \in {"schema_drift", "economic_anomaly",
                                  "temporal_inconsistency", "capability_escape"}
  THEN word.text ELSE "concurrency_conflict"

Blocks(action_kind) ==
  action_kind \in {"quarantine_state", "rollback_transition", "punish_agent", "emergency_halt"}

\* decide: the action's tag and the boolean the runtime reads.
ServerVerdict(severity, classification) ==
  LET report == Report(ServerSeverity(severity), ServerType(classification))
      kind   == L!DetermineAction(report).action.kind
  IN  [action_kind |-> kind, block |-> Blocks(kind)]

\* /review reports a proposed act as a capability use at warning; /canary-trip
\* reports its host.
ServerReview == ServerVerdict(Word("warning"), Word("capability_escape"))
CanaryVerdict == ServerVerdict(Word("critical"), Word("capability_escape"))

-----------------------------------------------------------------------------
(* http.rs *)

HttpSeverity(word) ==
  CASE word.text \in {"observational", "observation", "info"} -> L!Observational
    [] word.text = "critical"                                 -> L!Critical
    [] word.text \in {"catastrophic", "fatal"}                -> L!Catastrophic
    [] OTHER                                                  -> L!Warning

HttpType(word) ==
  CASE word.text \in {"economic_anomaly", "economic"}             -> "economic_anomaly"
    [] word.text \in {"concurrency_conflict", "concurrency"}      -> "concurrency_conflict"
    [] word.text \in {"temporal_inconsistency", "temporal"}       -> "temporal_inconsistency"
    [] word.text \in {"schema_drift", "schema"}                   -> "schema_drift"
    [] OTHER                                                      -> "capability_escape"

ActionVerdict(kind) ==
  CASE kind = "observe"             -> [action |-> "observe", blocking |-> FALSE]
    [] kind = "flag_for_review"     -> [action |-> "review", blocking |-> FALSE]
    [] kind = "quarantine_state"    -> [action |-> "quarantine", blocking |-> TRUE]
    [] kind = "rollback_transition" -> [action |-> "block", blocking |-> TRUE]
    [] kind = "punish_agent"        -> [action |-> "deny", blocking |-> TRUE]
    [] kind = "emergency_halt"      -> [action |-> "halt", blocking |-> TRUE]

HttpVerdict(severity, classification) ==
  LET report == Report(HttpSeverity(severity), HttpType(classification))
  IN  ActionVerdict(L!DetermineAction(report).action.kind)

HttpReview ==
  ActionVerdict(L!DetermineAction(Report(L!Warning, "capability_escape")).action.kind)

-----------------------------------------------------------------------------
(* The words that the documentation of server.rs lists *)

Severities == <<"observational", "warning", "critical", "catastrophic">>
Kinds == {"schema_drift", "economic_anomaly", "temporal_inconsistency",
          "capability_escape", "concurrency_conflict"}

Documented(word) == word \in {Word(type) : type \in Kinds}

-----------------------------------------------------------------------------
(* Clients *)

Gates(bridge, severity, classification) ==
  IF bridge = "server" THEN ServerVerdict(severity, classification).block
                       ELSE HttpVerdict(severity, classification).blocking

Told(bridge, severity, classification, gates) ==
  /\ verdicts' = verdicts \cup
       {[bridge |-> bridge, severity |-> severity, classification |-> classification,
         gates |-> gates]}
  /\ Cardinality(verdicts') <= MaxVerdicts

Enforce(bridge, severity, classification) ==
  Told(bridge, severity, classification, Gates(bridge, severity, classification))

\* A proposed act is a capability use at warning to both bridges.
Review ==
  \/ Told("server", Word("warning"), Word("capability_escape"), ServerReview.block)
  \/ Told("http", Word("warning"), Word("capability_escape"), HttpReview.blocking)

CanaryTrip ==
  Told("server", Word("critical"), Word("capability_escape"), CanaryVerdict.block)

VerdictInit == verdicts = {}

VerdictNext ==
  \/ \E bridge \in {"server", "http"}, s \in SeverityWord, c \in KindWord :
       Enforce(bridge, s, c)
  \/ Review
  \/ CanaryTrip

VerdictSpec == VerdictInit /\ [][VerdictNext]_verdicts

-----------------------------------------------------------------------------
(* Properties of the code *)

\* A report that is repeated, at the same documented severity or a higher one,
\* is not gated less than before: by the other bridge if its kind is one of the
\* documented ones, and by the same bridge whatever word was written for it.
\* Reviews and canary trips are reports like any other.
VerdictsAgree ==
  \A v, w \in verdicts : \A i, j \in 1..4 :
    /\ v.severity = Word(Severities[i]) /\ w.severity = Word(Severities[j]) /\ i <= j
    /\ v.classification = w.classification
    /\ v.bridge = w.bridge \/ Documented(v.classification)
    => (v.gates => w.gates)
=============================================================================
