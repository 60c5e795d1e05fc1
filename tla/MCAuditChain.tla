---------------------------- MODULE MCAuditChain ----------------------------
(* AuditChain on small instances, from the databases a first boot may find. *)
EXTENDS AuditChain, TLC

OldRow(i, prev, hash) ==
    [id |-> i, at |-> 0, prev |-> prev, hash |-> hash, valid |-> hash # NoHash]

\* A new install: no rows, no state row (its migration inserts none).
NewInstall == [log |-> <<>>, chainStates |-> <<>>, now |-> 0]

\* Rows from before the chain existed; the migration left the cutoff.
BeforeTheChain ==
    [log |-> <<OldRow(1, NoHash, NoHash), OldRow(2, NoHash, NoHash)>>,
     chainStates |-> <<[NewChainState EXCEPT !.cutoffId = 2]>>,
     now |-> 0]

MCHistories == {NewInstall, BeforeTheChain}
MCNewInstall == {NewInstall}

MCRetentions == {0, 1}

MCSymmetry == Permutations(Writers)
=============================================================================
