--------------------------- MODULE MCClientProxy ----------------------------
(***************************************************************************)
(* ClientProxy and the invariant of its proofs for TLC.                    *)
(***************************************************************************)
EXTENDS ClientProxyProofs
=============================================================================
