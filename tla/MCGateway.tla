----------------------------- MODULE MCGateway -----------------------------
(***************************************************************************)
(* Small instances of Gateway for TLC.                                     *)
(***************************************************************************)
EXTENDS Gateway, TLC

CONSTANTS i1, old, c1, c2, c3, desk, alice, read, write

MCId == {i1, old}
MCForgotten == {old}
MCTwoCalls == {c1, c2}
MCThreeCalls == {c1, c2, c3}
MCDesk == {desk}
MCHuman == {alice}
MCTool == {read, write}

\* Calls are interchangeable, and tools.
MCSymmetry == Permutations(Call) \cup Permutations(Tool)
=============================================================================
