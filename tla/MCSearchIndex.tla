--------------------------- MODULE MCSearchIndex ---------------------------
(* SearchIndex on small instances. *)
EXTENDS SearchIndex, TLC

CONSTANTS s1, f1, f2

\* Two files of one source.
MCOneSource == f1 :> s1 @@ f2 :> s1

\* A content and the one that replaces it when the file grows or shrinks.
MCContents == {"short", "long"}
MCSizeOf == "short" :> 1 @@ "long" :> 2

=============================================================================
