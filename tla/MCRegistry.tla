----------------------------- MODULE MCRegistry -----------------------------
(***************************************************************************)
(* Small instances of Registry and Serve for TLC.                          *)
(***************************************************************************)
EXTENDS Serve, TLC

\* Two upstreams, and a tool with a separator in its name.
MCUpstreams == <<<<"f">>, <<"g", "_", "h">>>>
MCToolName == {<<"r", "_", "_", "r">>}

MCSymmetry == Permutations(Client \ {Main}) \cup Permutations(Definition)
=============================================================================
