------------------------------ MODULE MCSteward ------------------------------
(* Diagnostics for the runs of Steward: one for each way through the code. *)
EXTENDS Steward

D(code, severity, category, sabbath, introspection, strategy) ==
  [code |-> code, trace_id |-> 1, severity |-> severity, category |-> category,
   sabbath_active |-> sabbath, introspection |-> introspection, strategy |-> strategy]

Repaired == D("repaired", 1, {"logic"}, FALSE, FALSE, "auto")
Severe == D("severe", 2, {"receipt"}, FALSE, FALSE, "auto")
Secured == D("secured", 1, {"security", "receipt"}, FALSE, FALSE, "auto")

MCDiag ==
  { Repaired, Severe, Secured, [Secured EXCEPT !.code = "other"],
    D("harm", 0, {"type"}, FALSE, FALSE, "auto"),
    D("rest", 1, {"rhythm"}, TRUE, FALSE, "none"),
    D("soul", 0, {"logic"}, FALSE, TRUE, "auto"),
    D("self", 0, {"identity"}, FALSE, FALSE, "auto"),
    D("breach", 2, {"security"}, FALSE, FALSE, "manual") }
=============================================================================
