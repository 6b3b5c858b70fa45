---------------------------- MODULE StateHistory ----------------------------
(***************************************************************************)
(* The ring of world states that the server and every client keep          *)
(* (statehistory_t, src/src/delta.h), and the two functions that turn it    *)
(* into deltas and back: allo_delta_compute on the server and               *)
(* allo_delta_apply on a client (src/src/delta.c).                          *)
(*                                                                         *)
(* A world is what the "entities" object of a state holds: for each entity *)
(* its components (one abstract Value) or Absent.  The JSON merge patch of *)
(* two worlds is a partial function: the entities that differ, with their  *)
(* new value or Absent (the null of RFC 7386).                             *)
(***************************************************************************)
EXTENDS Integers, Sequences

CONSTANTS
  HistoryLength,  \* allo_statehistory_length, 64 in the code
  RollAt,         \* the revision that is replaced by 0, 2^53 - 2 in the code
  Entity,         \* entity ids
  Value,          \* what the components of an entity can be
  Absent          \* no such entity

ASSUME HistoryAssumption ==
  /\ HistoryLength \in Nat \ {0}
  /\ RollAt \in Nat /\ RollAt > 1
  /\ Absent \notin Value

Rev   == 0 .. (RollAt - 1)
Slots == 0 .. (HistoryLength - 1)
Slot(r) == r % HistoryLength

World == [Entity -> Value \cup {Absent}]
Patch == UNION {[D -> Value \cup {Absent}] : D \in SUBSET Entity}
EmptyWorld == [e \in Entity |-> Absent]

Snapshot == [rev : Rev, world : World]

\* A slot nothing was inserted in yet (a NULL pointer).
NoState == [rev |-> -1, world |-> EmptyWorld]

History == [slot : [Slots -> Snapshot \cup {NoState}], latest : Rev]
EmptyHistory == [slot |-> [s \in Slots |-> NoState], latest |-> 0]

Get(h, r)    == h.slot[Slot(r)]
GetLatest(h) == Get(h, h.latest)
Holds(h, r)  == Get(h, r).rev = r

Insert(h, snap) ==
  [slot |-> [h.slot EXCEPT ![Slot(snap.rev)] = snap], latest |-> snap.rev]

-----------------------------------------------------------------------------
(* Merge patches.                                                          *)

GeneratePatch(old, new) ==
  [e \in {x \in Entity : old[x] # new[x]} |-> new[e]]

MergePatch(old, patch) ==
  [e \in Entity |-> IF e \in DOMAIN patch THEN patch[e] ELSE old[e]]

-----------------------------------------------------------------------------
(* Deltas.  A "set" carries the whole world and no patch_from (-1 here).   *)

SetDelta(snap) ==
  [style |-> "set", from |-> -1, rev |-> snap.rev, body |-> snap.world]

\* MUTANT: the patch does not carry the new revision.
MergeDeltaOldRev(old, snap) ==
  [style |-> "merge", from |-> old.rev, rev |-> old.rev,
   body |-> GeneratePatch(old.world, snap.world)]

MergeDelta(old, snap) ==
  [style |-> "merge", from |-> old.rev, rev |-> snap.rev,
   body |-> GeneratePatch(old.world, snap.world)]

Delta == [style : {"set", "merge"}, from : Rev \cup {-1}, rev : Rev, body : Patch]

\* MUTANT: any state in the slot will do.
ComputeDeltaNoRevCheck(h, old) ==
  IF Get(h, old) # NoState THEN MergeDelta(Get(h, old), GetLatest(h))
                           ELSE SetDelta(GetLatest(h))

\* What the latest state of h is sent as to a client that acknowledged old.
ComputeDelta(h, old) ==
  IF Holds(h, old) THEN MergeDelta(Get(h, old), GetLatest(h))
                   ELSE SetDelta(GetLatest(h))

\* allo_delta_apply refuses a patch from a state that h does not have.
CanApply(h, d) == d.style = "merge" => Holds(h, d.from)

\* MUTANT: the patch is applied to the latest state.
AppliedToLatest(h, d) ==
  [rev   |-> d.rev,
   world |-> IF d.style = "set" THEN d.body
                                ELSE MergePatch(GetLatest(h).world, d.body)]

\* The state a delta that can be applied leads to.
Applied(h, d) ==
  [rev   |-> d.rev,
   world |-> IF d.style = "set" THEN d.body
                                ELSE MergePatch(Get(h, d.from).world, d.body)]

\* MUTANT: the received patch is reported whatever state it starts from.
ReportedPatchReceived(h, d) ==
  IF d.style = "merge"
    THEN d.body
    ELSE GeneratePatch(GetLatest(h).world, Applied(h, d).world)

\* The changes reported to the client, always relative to its latest state:
\* the received patch is used only when it starts there.
ReportedPatch(h, d) ==
  IF d.style = "merge" /\ Slot(d.from) = Slot(h.latest)
    THEN d.body
    ELSE GeneratePatch(GetLatest(h).world, Applied(h, d).world)

NewEntities(h, d) ==
  LET p == ReportedPatch(h, d)
  IN  {e \in DOMAIN p : p[e] # Absent /\ GetLatest(h).world[e] = Absent}

DeletedEntities(h, d) ==
  LET p == ReportedPatch(h, d)
  IN  {e \in DOMAIN p : p[e] = Absent}
=============================================================================
