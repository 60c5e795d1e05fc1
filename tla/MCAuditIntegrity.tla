-------------------------- MODULE MCAuditIntegrity --------------------------
(* AuditIntegrity on small instances. *)
EXTENDS AuditIntegrity, TLC

OldRow(i, at, prev, hash) ==
    [id |-> i, at |-> at, prev |-> prev, hash |-> hash, valid |-> TRUE]

NewInstall == [log |-> <<>>, chainStates |-> <<>>, now |-> 0]

\* A log forked by the #213 race: rows 2 and 3 both chain from row 1, so row 2 is
\* a leaf and row 3 a break, a day younger; the migration left the cutoff.
Forked ==
    [log |-> <<OldRow(1, 0, NoHash, 1), OldRow(2, 0, 1, 2), OldRow(3, 1, 1, 3)>>,
     chainStates |-> <<[NewChainState EXCEPT !.cutoffId = 3]>>,
     now |-> 1]

\* A log that a sweep had emptied up to row 3 (its hash is 5) and whose ids have started
\* again; then the race forked it: rows 1 and 2 both chain from the anchor.
Restarted ==
    [log |-> <<OldRow(1, 0, 5, 6), OldRow(2, 1, 5, 7)>>,
     chainStates |-> <<[NewChainState EXCEPT !.cutoffId = 2, !.anchorId = 3,
                                             !.anchorHash = 5]>>,
     now |-> 1]

MCHistories == {[NewInstall EXCEPT !.now = 3], Forked}
MCNewInstall == {NewInstall}
MCRestarted == {Restarted}
MCRetentions == {0, 1}

\* What a check finds goes nowhere but into the status columns, and those into no property
\* of the runs that use this view; what a verification has read, only into what it finds.
NoStatus(state) == [state EXCEPT !.status = "ok", !.brokenId = NoId]

MCView ==
    <<log, [i \in 1..Len(chainStates) |-> NoStatus(chainStates[i])],
      writeLock, tx, purge, now, nextHash, up, notes, edits,
      [c \in Checkers |->
            IF check[c].goal = "verify" THEN [pc |-> check[c].pc, found |-> check[c].found]
            ELSE [check[c] EXCEPT !.state = NoStatus(@), !.result = NoStatus(@)]]>>
=============================================================================
