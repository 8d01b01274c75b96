---------------------------- MODULE MCQuarantine ----------------------------
(* Values for the constants of Quarantine that a .cfg cannot write. *)
EXTENDS Quarantine

CONSTANTS o1, o2, t1

Approvals(orishas) == [type |-> "orisha_approval", required |-> orishas]
Waiting == [type |-> "time_elapsed", min_duration |-> 1]
Resolution == [type |-> "anomaly_resolved", verification_trace |-> t1]

MCTerms ==
  { {Approvals({o1})},
    {Approvals({o1, o2}), Waiting},
    {Resolution, [type |-> "manual_override"]} }
=============================================================================
