-------------------------- MODULE MCAdministration --------------------------
(* Administration on small instances.  The last request served is history, *)
(* read only by the properties of the step that serves it.                 *)
EXTENDS Administration

MCView == <<users, roles, nextRole, mappings, providers, waiting, served.count>>
=============================================================================
