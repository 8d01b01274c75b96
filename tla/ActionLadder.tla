----------------------------- MODULE ActionLadder -----------------------------
(***************************************************************************)
(* How an anomaly becomes an enforcement decision: the escalation rules    *)
(* and the severity ladder of action_ladder.rs, and the default policy of  *)
(* lib.rs.  Constant operators only; the daemon and the bridges use them.  *)
(*                                                                         *)
(* The details of a classification (metric, nodes, principle, ...) are one *)
(* value of Detail; timeouts, penalties' amounts and rationales are left   *)
(* out, and a list of names is the set of them.                            *)
(***************************************************************************)
EXTENDS Naturals, Sequences

CONSTANTS
  Rules,  \* policy.escalation_rules, in order
  Detail  \* what a classification may carry

Observational == 0
Warning       == 1
Critical      == 2
Catastrophic  == 3
Severity == Observational..Catastrophic

ClassificationType ==
  {"schema_drift", "ethical_violation", "economic_anomaly",
   "concurrency_conflict", "temporal_inconsistency", "capability_escape"}

Classification == [type : ClassificationType, details : Detail]

-----------------------------------------------------------------------------
(* Enforcement actions *)

Observe == [kind |-> "observe"]
FlagForReview(reviewers) == [kind |-> "flag_for_review", reviewers |-> reviewers]
QuarantineState(scope, conditions) ==
  [kind |-> "quarantine_state", scope |-> scope, release_conditions |-> conditions]
RollbackTransition(to) == [kind |-> "rollback_transition", to_state |-> to]
EmergencyHalt(scope, quorum, resume) ==
  [kind |-> "emergency_halt", scope |-> scope,
   require_quorum |-> quorum, auto_resume_condition |-> resume]

ApprovalOf(required) == {[type |-> "orisha_approval", required |-> required]}

-----------------------------------------------------------------------------
(* Escalation rules *)

\* A classification serializes to {"type", "details"}: the keys that the
\* OrishaSpecific matcher reads are never there, and it matches nothing.
MatcherMatches(matcher, c) ==
  \/ matcher.kind = "any"
  \/ matcher.kind = "exact" /\ matcher.classification = c
  \/ /\ matcher.kind = "pattern"
     /\ matcher.type = c.type
     /\ c.details \in matcher.details

RuleMatches(rule, anomaly) ==
  /\ anomaly.severity >= rule.min_severity
  /\ MatcherMatches(rule.match_classification, anomaly.classification)

SeverityAction(anomaly) ==
  LET type == anomaly.classification.type IN
  CASE anomaly.severity = Observational -> Observe
    [] anomaly.severity = Warning -> FlagForReview({"obatala"})
    [] anomaly.severity = Critical /\ type = "concurrency_conflict" ->
         QuarantineState("branch unknown", ApprovalOf({"yemoja", "esu"}))
    [] anomaly.severity = Critical /\ type = "economic_anomaly" ->
         RollbackTransition("state_before")
    [] anomaly.severity = Catastrophic ->
         EmergencyHalt("global", {"esu", "obatala", "sango"}, "reconciled")
    [] OTHER -> FlagForReview({"esu"})

\* The first rule that matches decides; without one, the severity does.
DetermineAction(anomaly) ==
  LET matching == {i \in 1..Len(Rules) : RuleMatches(Rules[i], anomaly)}
      first    == CHOOSE i \in matching : \A j \in matching : i <= j
  IN  IF matching = {}
      THEN [action |-> SeverityAction(anomaly), requires_consensus |-> {}]
      ELSE [action |-> Rules[first].action,
            requires_consensus |-> Rules[first].requires_consensus]

-----------------------------------------------------------------------------
(* The policy and the configuration of create_default_enforcer *)

DefaultRules ==
  << [match_classification |->
        [kind |-> "exact",
         classification |-> [type |-> "economic_anomaly",
                             details |-> "balance, deviation 0"]],
      min_severity |-> Critical,
      action |-> RollbackTransition("zero"),
      requires_consensus |-> {"sango"}],
     [match_classification |->
        [kind |-> "pattern", type |-> "concurrency_conflict", details |-> Detail],
      min_severity |-> Critical,
      action |-> QuarantineState("branch unknown", ApprovalOf({"yemoja", "esu"})),
      requires_consensus |-> {"yemoja"}] >>

DefaultHumanApproval == {EmergencyHalt("global", {}, "none")}
=============================================================================
