--------------------------- MODULE MCAgentRegistry ---------------------------
(* AgentRegistry on small instances. *)
EXTENDS AgentRegistry
=============================================================================
