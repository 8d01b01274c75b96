----------------------------- MODULE MCAuditTrail -----------------------------
(* Events for the run of AuditTrail. *)
EXTENDS AuditTrail, TLC

O(hashed, diverged, confidence, dissent) ==
  [hashed |-> hashed, diverged |-> diverged, confidence |-> confidence, dissent |-> dissent]

\* An unsure prediction alone, validators against an event, both paths, no
\* prediction, a hash without prefix.
MCObserved ==
  { O(TRUE, {Balance}, 0, 0), O(TRUE, {Balance}, 0, 5),
    O(TRUE, {Wallet, Balance}, 0, 10), O(TRUE, None, 0, 0), O(FALSE, {}, 90, 0) }

Symmetry == Permutations(Holder) \cup Permutations(GenesisState)
=============================================================================
