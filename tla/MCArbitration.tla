----------------------------- MODULE MCArbitration -----------------------------
(***************************************************************************)
(* The engine of create_default_enforcer, one pair of orishas for each     *)
(* strategy that its graph does not use, and one pair named in both orders.*)
(***************************************************************************)
EXTENDS Arbitration, TLC

\* The names in the order of their bytes: yemọja, èṣù, ògún, ṣàngó, ọbàtálá.
MCRank == "yemoja" :> 1 @@ "esu" :> 2 @@ "ogun" :> 3 @@ "sango" :> 4 @@ "obatala" :> 5
MCOrisha == DOMAIN MCRank

DefaultGraph ==
  <<"esu", "obatala">> :> [kind |-> "weighted_vote", weights |-> "esu" :> 10 @@ "obatala" :> 9]
  @@ <<"sango", "yemoja">> :> [kind |-> "hierarchical", superior |-> "sango"]

MCStrategies ==
  DefaultGraph
  @@ <<"sango", "esu">> :> [kind |-> "weighted_vote", weights |-> "sango" :> 5]
  @@ <<"obatala", "yemoja">> :> [kind |-> "hierarchical", superior |-> "sango"]
  @@ <<"ogun", "esu">> :> [kind |-> "lexical_order"]
  @@ <<"esu", "ogun">> :> [kind |-> "hierarchical", superior |-> "esu"]
  @@ <<"ogun", "yemoja">> :> [kind |-> "random_deterministic"]

MCDefaultStrategy ==
  [kind |-> "consensus_required", quorum |-> <<"esu", "obatala", "sango">>]

\* Conflicts of either order, for the pairs of the graph and one without.
MCConflict ==
  LET pairs == DOMAIN MCStrategies \cup {<<"sango", "obatala">>}
  IN  {c \in PolicyConflict :
         \/ <<c.orisha_a, c.orisha_b>> \in pairs
         \/ <<c.orisha_b, c.orisha_a>> \in pairs}
=============================================================================
