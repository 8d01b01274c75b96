-------------------------------- MODULE Delivery --------------------------------
(***************************************************************************)
(* What ZangbetoDaemon (daemon.rs) promises to whoever reports anomalies,  *)
(* without its loop, its channel and the events it sends to itself: as     *)
(* long as it is open it takes anomalies and enforces each of them at most *)
(* once, and only those that no human and no arbitration has to see; when  *)
(* it closes, what waited is dropped, and so is what comes later.          *)
(***************************************************************************)
CONSTANTS
  Anomaly,   \* what may be reported
  Automatic  \* the anomalies enforced without a human or an arbitration

VARIABLES
  open,     \* the daemon has not ended
  waiting,  \* taken, and neither enforced nor dropped
  enforced,
  dropped

deliveryVars == <<open, waiting, enforced, dropped>>

New(a) == a \notin waiting \cup enforced \cup dropped

Init ==
  /\ open = TRUE
  /\ waiting = {} /\ enforced = {} /\ dropped = {}

Take(a) ==
  /\ open /\ New(a)
  /\ waiting' = waiting \cup {a}
  /\ UNCHANGED <<open, enforced, dropped>>

Refuse(a) ==
  /\ ~open /\ New(a)
  /\ dropped' = dropped \cup {a}
  /\ UNCHANGED <<open, waiting, enforced>>

Enforce(a) ==
  /\ open /\ a \in waiting \cap Automatic
  /\ enforced' = enforced \cup {a}
  /\ waiting' = waiting \ {a}
  /\ UNCHANGED <<open, dropped>>

Close ==
  /\ open
  /\ open' = FALSE
  /\ dropped' = dropped \cup waiting
  /\ waiting' = {}
  /\ UNCHANGED enforced

Next == Close \/ \E a \in Anomaly : Take(a) \/ Refuse(a) \/ Enforce(a)

Spec == Init /\ [][Next]_deliveryVars
=============================================================================
