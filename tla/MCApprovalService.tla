------------------------- MODULE MCApprovalService -------------------------
(***************************************************************************)
(* Small instances of ApprovalService for TLC.                             *)
(***************************************************************************)
EXTENDS ApprovalService, TLC

CONSTANTS i1, i2, old, t1, t2, t3, alice, bob

MCForgotten == {old}
MCOneId == {i1}
MCTwoIds == {i1, i2}
MCIdAndOld == {i1, old}
MCNone == {}
MCTwoTasks == {t1, t2}
MCThreeTasks == {t1, t2, t3}
MCHuman == {alice, bob}
MCOneHuman == {alice}

\* Tasks and approvers are interchangeable in a safety property, and so are
\* the ids new_approval_id() draws.
MCSymmetry == Permutations(Task) \cup Permutations(Human)
                \cup Permutations(Id \ Forgotten)
=============================================================================
