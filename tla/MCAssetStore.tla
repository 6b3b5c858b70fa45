---------------------------- MODULE MCAssetStore ----------------------------
(***************************************************************************)
(* Instances of AssetStore.  The server's clients write chunks of one      *)
(* length, aligned, the last one shorter (Chunked); a user of the library  *)
(* may write anything (Arbitrary, one asset).                              *)
(***************************************************************************)
EXTENDS AssetStore, TLC

CONSTANTS large, small1, small2, small3

ChunkLength == 2

Assets == {large, small1, small2, small3}

Sizes == [a \in Assets |-> IF a = large THEN 5 ELSE 2]

Chunked ==
  [a \in Assets |-> {<<k, Lesser(ChunkLength, Sizes[a] - k)>> :
                       k \in {k \in 0 .. Sizes[a] - 1 : k % ChunkLength = 0}}]

Arbitrary ==
  [a \in Assets |->
     IF a = large
       THEN {<<k, n>> \in (0 .. Sizes[a] - 1) \X (1 .. Sizes[a]) : k + n <= Sizes[a]}
       ELSE {}]

\* The small assets are alike.
Symmetry == Permutations({small1, small2, small3})
=============================================================================
