----------------------------- MODULE MCRelayClient -----------------------------
(* RelayClient needs no definitions of its own for TLC. *)
EXTENDS RelayClient
=============================================================================
