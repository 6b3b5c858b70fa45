---------------------------- MODULE MCStateSync ----------------------------
(***************************************************************************)
(* Small instances of StateSync for TLC.                                   *)
(***************************************************************************)
EXTENDS StateSyncProofs

\* The world before anything was spawned.
MCInitWorld == [e \in Entity |-> Absent]
=============================================================================
