--------------------------- MODULE MCPlaceServer ---------------------------
(***************************************************************************)
(* Instances of PlaceServer.                                               *)
(***************************************************************************)
EXTENDS PlaceServer, TLC

Symmetry == Permutations(Client)
=============================================================================
