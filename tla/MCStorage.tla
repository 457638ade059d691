------------------------------ MODULE MCStorage ------------------------------
(***************************************************************************)
(* A small instance of Storage for TLC.                                    *)
(***************************************************************************)
EXTENDS Storage

CONSTANTS t1, t2, i1

MCTask == {t1, t2}
MCId == {i1}
=============================================================================
