---------------------------- MODULE MCAgentReview ----------------------------
(* Instances of AgentReview for TLC. *)
EXTENDS AgentReview

OneFile == {"a"}
TwoFiles == {"a", "b"}
=============================================================================
