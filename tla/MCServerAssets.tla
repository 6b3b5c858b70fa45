--------------------------- MODULE MCServerAssets ---------------------------
(***************************************************************************)
(* Small instances of ServerAssets for TLC.                                *)
(***************************************************************************)
EXTENDS ServerAssetsProofs, TLC

PeerSymmetry == Permutations(Peer)
=============================================================================
