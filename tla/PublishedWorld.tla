--------------------------- MODULE PublishedWorld ---------------------------
(***************************************************************************)
(* What state replication promises to the users of a place, without deltas,*)
(* acknowledgements or packets: the place publishes one world after        *)
(* another, and what a connected client sees is always one of them, later  *)
(* ones replacing earlier ones.                                            *)
(***************************************************************************)
EXTENDS Integers

CONSTANTS Client, World, InitWorld, NoState

VARIABLES
  rev,     \* the number of the last published world
  log,     \* log[r]: the world published as number r
  online,  \* the connected clients
  view     \* the numbered world each client sees, or NoState

vars == <<rev, log, online, view>>

Init ==
  /\ rev = 1
  /\ log[1] = InitWorld
  /\ online = {}
  /\ view = [c \in Client |-> NoState]

Publish(w) ==
  /\ rev' = rev + 1
  /\ log' = [log EXCEPT ![rev'] = w]
  /\ UNCHANGED <<online, view>>

Join(c) ==
  /\ c \notin online
  /\ online' = online \cup {c}
  /\ view' = [view EXCEPT ![c] = NoState]
  /\ UNCHANGED <<rev, log>>

Leave(c) ==
  /\ c \in online
  /\ online' = online \ {c}
  /\ UNCHANGED <<rev, log, view>>

\* A client gets to see some later world, possibly skipping others.
Observe(c) ==
  /\ c \in online
  /\ \E r \in 2 .. rev :
       /\ r > view[c].rev
       /\ view' = [view EXCEPT ![c] = [rev |-> r, world |-> log[r]]]
  /\ UNCHANGED <<rev, log, online>>

Next ==
  \/ \E w \in World : Publish(w)
  \/ \E c \in Client : Join(c) \/ Leave(c) \/ Observe(c)

Spec == Init /\ [][Next]_vars
=============================================================================
