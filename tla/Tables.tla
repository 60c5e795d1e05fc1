------------------------------- MODULE Tables -------------------------------
(***************************************************************************)
(* Database tables as functions from the ids of their rows.                *)
(***************************************************************************)
EXTENDS Integers, FiniteSets

Put(table, id, row) ==
    [i \in DOMAIN table \cup {id} |-> IF i = id THEN row ELSE table[i]]

Drop(table, ids) == [i \in DOMAIN table \ ids |-> table[i]]

\* The id SQLite gives a new row of a table without AUTOINCREMENT: one above the
\* highest there is, so that the id of a deleted row may come back.
FreeId(table) == 1 + Cardinality(UNION {1..i : i \in DOMAIN table})
=============================================================================
