---------------------------- MODULE MCSimulation ----------------------------
(***************************************************************************)
(* Instances of Simulation.                                                *)
(***************************************************************************)
EXTENDS Simulation

Spots == {1}

\* Hold the hand while walking; stand still with the hand anywhere.
Gestures == {[hold |-> TRUE, stick |-> TRUE], [hold |-> FALSE, stick |-> FALSE]}

\* A hand, which others can take, one that follows another's, and a handle of
\* what it is part of
Hands     == [poses |-> TRUE, follows |-> FALSE, grab |-> "self"]
Followers == [poses |-> TRUE, follows |-> TRUE, grab |-> "no"]
Handles   == [poses |-> FALSE, follows |-> FALSE, grab |-> "parent"]

SpawnedShapes == {Hands, Handles}

AvatarChildren == {<<>>, <<Hands>>, <<Hands, Followers>>}

\* One that is over in the second step, one that never is, one of nothing
AddedAnimations ==
  {[applies |-> TRUE, from |-> 20, to |-> 30, start |-> 0, duration |-> 1, repeats |-> FALSE],
   [applies |-> TRUE, from |-> 40, to |-> 60, start |-> 1, duration |-> 2, repeats |-> TRUE],
   [applies |-> FALSE, from |-> 0, to |-> 0, start |-> 0, duration |-> 1, repeats |-> FALSE]}
=============================================================================
