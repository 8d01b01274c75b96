------------------------------- MODULE MCDaemon -------------------------------
(* Anomalies, rules and configurations for the runs of Daemon. *)
EXTENDS Daemon

CONSTANT t1

A(id, severity, type, details) ==
  [id |-> id, severity |-> severity,
   classification |-> [type |-> type, details |-> details]]

\* One anomaly per branch of the handler: a rule that requires consensus, a
\* quarantine, a quarantine that a human approves first, and a plain flag.
MCAnomaly ==
  { A(1, Critical, "concurrency_conflict", "x"),
    A(2, Critical, "capability_escape", "x"),
    A(3, Critical, "ethical_violation", "x"),
    A(4, Warning, "schema_drift", "x") }

Rule(type, conditions) ==
  [match_classification |->
     [classification |-> [type |-> type, details |-> "x"], kind |-> "exact"],
   min_severity |-> Warning,
   action |-> QuarantineState("branch unknown", conditions),
   requires_consensus |-> {}]

\* The default policy, a quarantine that ends when its anomaly is resolved, and
\* one that a human has to approve.
MCRules == DefaultRules \o
  << Rule("capability_escape",
          {[type |-> "anomaly_resolved", verification_trace |-> t1]}),
     Rule("ethical_violation", ApprovalOf({"yemoja"})) >>

MCHumanApproval == {QuarantineState("branch unknown", ApprovalOf({"yemoja"}))}

\* Three anomalies that are all enforced at once.
MCEnforcedAnomaly ==
  { A(1, Critical, "concurrency_conflict", "x"),
    A(2, Critical, "concurrency_conflict", "x"),
    A(3, Observational, "schema_drift", "x") }

NoRules == <<>>
=============================================================================
