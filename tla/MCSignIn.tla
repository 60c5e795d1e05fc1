------------------------------ MODULE MCSignIn ------------------------------
(* SignIn on small instances. *)
EXTENDS SignIn, TLC

MCSymmetry == Permutations(Reqs) \cup Permutations(Tokens)

\* The columns of the loaded row that the request still looks at.
Needed(q) ==
    CASE q.op \in {"change", "reset"} -> {"mustChange"}
      [] q.op = "enroll" -> {"mfa", "secret"}
      [] q.op \in {"confirm", "disable"} -> {"mfa", "secret", "lastStep"}
      [] q.op = "regenerate" -> IF q.stage = "checking" THEN {"mfa"} ELSE {}
      [] OTHER -> DOMAIN q.row

\* States that differ only in columns nobody will look at again, or in which of the
\* replaced secrets were once confirmed, count as one: no secret comes back.
MCView ==
    <<throttle, now, account, backup, sessions, chosen,
      account.secret \in confirmed, overtaken,
      [r \in Reqs |-> IF req[r] = Idle THEN Idle
                      ELSE [req[r] EXCEPT !.row = [f \in Needed(req[r]) |-> @[f]]]]>>
=============================================================================
