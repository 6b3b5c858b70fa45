--------------------------- MODULE MCClientMedia ---------------------------
(***************************************************************************)
(* ClientMedia and the invariant of its proofs for TLC.                    *)
(***************************************************************************)
EXTENDS ClientMediaProofs
=============================================================================
