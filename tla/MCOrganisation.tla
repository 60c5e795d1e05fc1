--------------------------- MODULE MCOrganisation ---------------------------
(* Organisation on small instances.  Whether the last request served was overtaken *)
(* is history, read only by the properties of the step that serves it.             *)
EXTENDS Organisation

MCView == <<customers, folders, sources, grants, nextId, waiting, served.count>>
=============================================================================
