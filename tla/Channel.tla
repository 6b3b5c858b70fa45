------------------------------ MODULE Channel ------------------------------
(***************************************************************************)
(* What each direction of the threaded client (src/src/clientproxy.c)      *)
(* promises, without threads, mutexes or polls: what one side has sent     *)
(* gets to the other side once and in the order it was sent.               *)
(***************************************************************************)
EXTENDS Integers, Sequences

VARIABLES
  sent,   \* how many messages were sent; they are numbered from 1
  got     \* the numbers of those that arrived, in the order they did

vars == <<sent, got>>

Init == sent = 0 /\ got = <<>>

Send ==
  /\ sent' = sent + 1
  /\ UNCHANGED got

Deliver ==
  /\ Len(got) < sent
  /\ got' = Append(got, Len(got) + 1)
  /\ UNCHANGED sent

Next == Send \/ Deliver

Spec == Init /\ [][Next]_vars
=============================================================================
