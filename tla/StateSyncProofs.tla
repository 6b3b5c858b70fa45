-------------------------- MODULE StateSyncProofs --------------------------
(***************************************************************************)
(* The inductive invariant of StateSync and its proof, for as long as the  *)
(* revision neither rolls over nor outgrows an int.                        *)
(***************************************************************************)
EXTENDS StateSync, SequenceTheorems, TLAPS

\* The server publishes less than 2^31 revisions.  (After that a client
\* acknowledges others than it has, see AckOf, and 9e15 revisions later NextRev
\* starts again.)
ASSUME NoWrapAssumption == MaxRev < RollAt /\ MaxRev <= IntMax

\* The refinement: a client sees the latest state of its history.
Abs == INSTANCE PublishedWorld WITH
         view <- [c \in Client |-> GetLatest(chist[c])]

ImplementsPublishedWorld == Abs!Spec

-----------------------------------------------------------------------------
(* The inductive invariant.                                                *)

\* Every published revision is in the server's ring unless a later one took
\* its slot, and what is in the ring was published.
ServerRing ==
  /\ hist.latest = IF rev = 1 THEN 0 ELSE rev
  /\ rev >= 1
  /\ \A s \in Slots :
       hist.slot[s] # NoState =>
         /\ Slot(hist.slot[s].rev) = s
         /\ hist.slot[s].rev \in 2 .. rev
         /\ hist.slot[s].world = log[hist.slot[s].rev]
  /\ \A r \in 2 .. rev : hist.slot[Slot(r)].rev >= r

\* A client's ring holds published worlds up to its latest one.
ClientRing(c) ==
  /\ chist[c].latest \in {0} \cup 2 .. rev
  /\ chist[c].latest # 0 => Holds(chist[c], chist[c].latest)
  /\ \A s \in Slots :
       chist[c].slot[s] # NoState =>
         /\ Slot(chist[c].slot[s].rev) = s
         /\ chist[c].slot[s].rev \in 2 .. chist[c].latest
         /\ chist[c].slot[s].world = log[chist[c].slot[s].rev]

\* Client c applied revision a once: it has it, or a later one in its slot.
HasApplied(c, a) ==
  /\ a \in 2 .. chist[c].latest
  /\ chist[c].slot[Slot(a)].rev >= a

\* The slot of revision "from" is not used again up to revision "to".
NotReused(from, to) == \A r \in (from + 1) .. to : Slot(r) # Slot(from)

\* A delta describes published worlds.
GoodDelta(d) ==
  /\ d.rev \in 2 .. rev
  /\ d.style = "set" => d.body = log[d.rev]
  /\ d.style = "merge" =>
       /\ d.from \in 2 .. (d.rev - 1)
       /\ NotReused(d.from, d.rev)
       /\ d.body = GeneratePatch(log[d.from], log[d.rev])

AcksApplied(c) ==
  /\ acked[c] = 0 \/ HasApplied(c, acked[c])
  /\ \A i \in DOMAIN up[c] : up[c][i] = 0 \/ HasApplied(c, up[c][i])

DeltasGood(c) ==
  \A i \in DOMAIN down[c] :
    /\ GoodDelta(down[c][i])
    /\ down[c][i].style = "merge" => HasApplied(c, down[c][i].from)
    /\ chist[c].latest < down[c][i].rev
    /\ \A j \in DOMAIN down[c] : j < i => down[c][j].rev < down[c][i].rev

\* The running broadcast has not sent its revision to c yet.
NotYetSent(c) ==
  /\ rev >= 2
  /\ chist[c].latest < rev
  /\ \A i \in DOMAIN down[c] : down[c][i].rev < rev

CacheFresh ==
  \A s \in Slots :
    /\ cache[s].to <= hist.latest
    /\ cache[s].to = hist.latest => cache[s].delta = ComputeDelta(hist, cache[s].from)

IInv ==
  /\ TypeOK
  /\ rev <= MaxRev \/ rev = 1
  /\ ServerRing
  /\ CacheFresh
  /\ \A c \in Client : ClientRing(c)
  /\ \A c \in online : AcksApplied(c) /\ DeltasGood(c)
  /\ \A c \in pending : NotYetSent(c)
  /\ \A c \in Client \ online : down[c] = <<>> /\ up[c] = <<>>
-----------------------------------------------------------------------------
(* Facts about the operators of StateHistory.                              *)

LEMMA SlotType == \A r \in Int : Slot(r) \in Slots
BY HistoryAssumption, SMT DEF Slot, Slots

LEMMA NoStateFact == NoState \notin Snapshot /\ NoState.rev = -1
BY DEF NoState, Snapshot, Rev

LEMMA WorldInPatch == World \subseteq Patch
BY DEF World, Patch

LEMMA GeneratePatchType ==
  ASSUME NEW old \in World, NEW new \in World
  PROVE  GeneratePatch(old, new) \in Patch
<1> DEFINE D == {x \in Entity : old[x] # new[x]}
<1>1. GeneratePatch(old, new) \in [D -> Value \cup {Absent}]
  BY DEF GeneratePatch, World
<1>2. D \in SUBSET Entity
  OBVIOUS
<1>3. QED
  BY <1>1, <1>2 DEF Patch

LEMMA MergePatchType ==
  ASSUME NEW old \in World, NEW p \in Patch
  PROVE  MergePatch(old, p) \in World
BY DEF MergePatch, World, Patch

\* Merging the patch between two worlds into the first gives the second.
LEMMA PatchRoundTrip ==
  ASSUME NEW old \in World, NEW new \in World
  PROVE  MergePatch(old, GeneratePatch(old, new)) = new
<1>1. \A e \in Entity : MergePatch(old, GeneratePatch(old, new))[e] = new[e]
  BY DEF MergePatch, GeneratePatch, World
<1>2. MergePatch(old, GeneratePatch(old, new)) \in World
  BY GeneratePatchType, MergePatchType
<1>3. QED
  BY <1>1, <1>2 DEF World

LEMMA HistoryGet ==
  ASSUME NEW h \in History, NEW r \in Int
  PROVE  Get(h, r) \in Snapshot \cup {NoState}
BY SlotType DEF Get, History

LEMMA WorldOfState ==
  ASSUME NEW s \in Snapshot \cup {NoState}
  PROVE  s.world \in World /\ s.rev \in Rev \cup {-1}
BY DEF Snapshot, NoState, World, EmptyWorld

LEMMA InsertType ==
  ASSUME NEW h \in History, NEW snap \in Snapshot
  PROVE  /\ Insert(h, snap) \in History
         /\ Insert(h, snap).latest = snap.rev
         /\ \A s \in Slots : Insert(h, snap).slot[s] =
              IF s = Slot(snap.rev) THEN snap ELSE h.slot[s]
BY DEF Insert, History, Snapshot

LEMMA ComputeDeltaType ==
  ASSUME NEW h \in History, NEW old \in Rev, GetLatest(h) # NoState
  PROVE  ComputeDelta(h, old) \in Delta
<1>1. Rev \subseteq Int
  BY HistoryAssumption DEF Rev
<1>2. h.latest \in Rev
  BY DEF History
<1>3. GetLatest(h) \in Snapshot
  BY <1>1, <1>2, HistoryGet DEF GetLatest
<1>4. Get(h, old) \in Snapshot \cup {NoState}
  BY <1>1, HistoryGet
<1>5. GetLatest(h).rev \in Rev /\ GetLatest(h).world \in World
  BY <1>3 DEF Snapshot
<1>6. GeneratePatch(Get(h, old).world, GetLatest(h).world) \in Patch
  BY <1>4, <1>5, WorldOfState, GeneratePatchType
<1>7. Get(h, old).rev \in Rev \cup {-1}
  BY <1>4, WorldOfState
<1>8. GetLatest(h).world \in Patch
  BY <1>5, WorldInPatch
<1>9. QED
  BY <1>5, <1>6, <1>7, <1>8 DEF ComputeDelta, MergeDelta, SetDelta, Delta

LEMMA AppliedType ==
  ASSUME NEW h \in History, NEW d \in Delta, d.style = "set" => d.body \in World
  PROVE  Applied(h, d) \in Snapshot
<1>1. d.from \in Int /\ d.rev \in Rev /\ d.body \in Patch
  BY HistoryAssumption DEF Delta, Rev
<1>2. MergePatch(Get(h, d.from).world, d.body) \in World
  BY <1>1, HistoryGet, WorldOfState, MergePatchType
<1>3. QED
  BY <1>1, <1>2 DEF Applied, Snapshot

-----------------------------------------------------------------------------
(* Facts about the channels.                                               *)

LEMMA SuffixOfSeq ==
  ASSUME NEW S, NEW q \in Seq(S), NEW n \in 0 .. Len(q)
  PROVE  /\ SubSeq(q, n + 1, Len(q)) \in Seq(S)
         /\ \A i \in DOMAIN SubSeq(q, n + 1, Len(q)) :
              i + n \in DOMAIN q /\ SubSeq(q, n + 1, Len(q))[i] = q[i + n]
<1>1. n + 1 \in 1 .. (Len(q) + 1) /\ Len(q) \in 0 .. Len(q)
  BY SMT
<1>2. \A i \in (n + 1) .. Len(q) : q[i] \in S
  BY SMT
<1>3. QED
  BY <1>1, <1>2, SubSeqProperties, SMT

LEMMA TailOfSeq ==
  ASSUME NEW S, NEW q \in Seq(S), q # <<>>
  PROVE  /\ Tail(q) \in Seq(S)
         /\ Len(Tail(q)) = Len(q) - 1
         /\ \A i \in DOMAIN Tail(q) : i + 1 \in DOMAIN q /\ Tail(q)[i] = q[i + 1]
BY SMT

\* What is under way after a packet was handed to the network: a suffix of
\* what was there before, perhaps followed by the packet.
LEMMA OfferFact ==
  ASSUME NEW S, NEW q \in Seq(S), NEW p \in S, NEW q2 \in Offer(q, p)
  PROVE  /\ q2 \in Seq(S)
         /\ \E k \in {0, 1} : \A i \in DOMAIN q2 :
              \/ i + k \in DOMAIN q /\ q2[i] = q[i + k]
              \/ i = Len(q2) /\ q2[i] = p
<1>1. CASE q2 = q
  BY <1>1, SMT
<1>2. CASE q2 = Append(q, p)
  BY <1>2, SMT
<1>3. CASE Len(q) >= MaxInFlight /\ q2 = Append(Tail(q), p)
  <2>1. q # <<>>
    BY <1>3, SyncAssumption, SMT
  <2>2. Tail(q) \in Seq(S) /\ \A i \in DOMAIN Tail(q) : i + 1 \in DOMAIN q /\ Tail(q)[i] = q[i + 1]
    BY <2>1, TailOfSeq
  <2>3. q2 \in Seq(S)
    BY <1>3, <2>2, SMT
  <2>4. \A i \in DOMAIN q2 :
          \/ i \in DOMAIN Tail(q) /\ q2[i] = Tail(q)[i]
          \/ i = Len(q2) /\ q2[i] = p
    BY <1>3, <2>2, SMT
  <2>5. QED
    BY <2>2, <2>3, <2>4
<1>4. QED
  BY <1>1, <1>2, <1>3, SyncAssumption, SMT DEF Offer

-----------------------------------------------------------------------------
(* The invariant holds initially and is preserved by each action.          *)

LEMMA RevFacts ==
  /\ Rev \subseteq Nat /\ 0 \in Rev /\ 1 \in Rev
  /\ \A r \in Rev \cup {-1} : r \in Int
BY HistoryAssumption DEF Rev

LEMMA CacheType ==
  ASSUME TypeOK, NEW s \in Slots
  PROVE  cache[s].from \in Int /\ cache[s].to \in Int
<1>1. cache[s] \in [from : Rev \cup {-1}, to : Rev \cup {-1},
                   delta : Delta \cup {SetDelta(NoState)}]
  BY DEF TypeOK
<1>2. cache[s].from \in Rev \cup {-1} /\ cache[s].to \in Rev \cup {-1}
  BY <1>1
<1>3. QED
  BY <1>2, RevFacts

LEMMA EmptyHistoryFacts ==
  /\ EmptyHistory \in History
  /\ EmptyHistory.latest = 0
  /\ \A s \in Slots : EmptyHistory.slot[s] = NoState
BY RevFacts DEF EmptyHistory, History

LEMMA InitIInv == Init => IInv
<1> SUFFICES ASSUME Init PROVE IInv
  OBVIOUS
<1> USE EmptyHistoryFacts, RevFacts DEF Init
<1>1. TypeOK
  <2>1. NoEntry \in [from : Rev \cup {-1}, to : Rev \cup {-1},
                     delta : Delta \cup {SetDelta(NoState)}]
    BY DEF NoEntry
  <2>2. log \in [Rev -> World]
    BY SyncAssumption
  <2>3. QED
    BY <2>1, <2>2 DEF TypeOK
<1>2. ServerRing
  <2>1. 2 .. rev = {}
    BY SMT
  <2>2. QED
    BY <2>1 DEF ServerRing
<1>3. CacheFresh
  BY DEF CacheFresh, NoEntry
<1>4. \A c \in Client : ClientRing(c)
  BY DEF ClientRing
<1>5. QED
  BY <1>1, <1>2, <1>3, <1>4 DEF IInv

LEMMA PublishIInv ==
  ASSUME IInv, NEW w \in World, Publish(w)
  PROVE  IInv'
<1> DEFINE snap == [rev |-> rev + 1, world |-> w]
<1>1. rev \in Nat /\ rev >= 1 /\ rev + 1 \in Rev /\ NextRev = rev + 1
  BY NoWrapAssumption, SyncAssumption, HistoryAssumption, RevFacts
     DEF IInv, TypeOK, ServerRing, Publish, NextRev, Rev
<1>2. /\ rev' = rev + 1
      /\ hist' = Insert(hist, snap)
      /\ log' = [log EXCEPT ![rev + 1] = w]
      /\ pending' = online
      /\ UNCHANGED <<cache, online, acked, chist, mirror, down, up>>
  BY <1>1 DEF Publish, clientVars
<1>3. /\ hist' \in History
      /\ hist'.latest = rev + 1
      /\ \A s \in Slots : hist'.slot[s] = IF s = Slot(rev + 1) THEN snap ELSE hist.slot[s]
  <2>1. snap \in Snapshot /\ hist \in History
    BY <1>1 DEF Snapshot, IInv, TypeOK
  <2>2. QED
    BY <1>2, <2>1, InsertType
<1>4. log' \in [Rev -> World] /\ log'[rev + 1] = w
      /\ \A r \in 2 .. rev : log'[r] = log[r]
  BY <1>1, <1>2 DEF IInv, TypeOK
<1>5. TypeOK'
  BY <1>1, <1>2, <1>3, <1>4 DEF IInv, TypeOK
<1>6. ServerRing'
  <2>1. ASSUME NEW s \in Slots, hist'.slot[s] # NoState
        PROVE  /\ Slot(hist'.slot[s].rev) = s
               /\ hist'.slot[s].rev \in 2 .. (rev + 1)
               /\ hist'.slot[s].world = log'[hist'.slot[s].rev]
    <3>1. CASE s = Slot(rev + 1)
      BY <1>1, <1>3, <1>4, <3>1
    <3>2. CASE s # Slot(rev + 1)
      <4>1. hist'.slot[s] = hist.slot[s]
        BY <1>3, <3>2
      <4>2. /\ Slot(hist.slot[s].rev) = s
            /\ hist.slot[s].rev \in 2 .. rev
            /\ hist.slot[s].world = log[hist.slot[s].rev]
        BY <2>1, <4>1 DEF IInv, ServerRing
      <4>3. QED
        BY <1>1, <1>4, <4>1, <4>2
    <3>3. QED
      BY <3>1, <3>2
  <2>2. ASSUME NEW r \in 2 .. (rev + 1)
        PROVE  hist'.slot[Slot(r)].rev >= r
    <3>1. Slot(r) \in Slots
      BY <1>1, SlotType
    <3>2. CASE Slot(r) = Slot(rev + 1)
      BY <1>1, <1>3, <3>1, <3>2
    <3>3. CASE Slot(r) # Slot(rev + 1)
      <4>1. r \in 2 .. rev
        BY <1>1, <3>3
      <4>2. hist.slot[Slot(r)].rev >= r
        BY <4>1 DEF IInv, ServerRing
      <4>3. QED
        BY <1>3, <3>1, <3>3, <4>2
    <3>4. QED
      BY <3>2, <3>3
  <2>3. QED
    BY <1>1, <1>2, <1>3, <2>1, <2>2 DEF ServerRing
<1>7. CacheFresh'
  <2>1. ASSUME NEW s \in Slots PROVE cache[s].to < rev + 1
    <3>1. cache[s].to <= hist.latest /\ cache[s].to \in Int
      BY CacheType DEF IInv, CacheFresh
    <3>2. hist.latest <= rev /\ hist.latest \in Nat
      BY <1>1, RevFacts DEF IInv, ServerRing
    <3>3. QED
      BY <1>1, <3>1, <3>2
  <2>2. \A s \in Slots : cache[s].to \in Int
    BY CacheType DEF IInv
  <2>3. QED
    BY <1>1, <1>2, <1>3, <2>1, <2>2 DEF CacheFresh
<1>8. ASSUME NEW c \in Client PROVE ClientRing(c)'
  <2>1. ClientRing(c)
    BY DEF IInv
  <2>2. chist[c].latest \in {0} \cup 2 .. rev
    BY <2>1 DEF ClientRing
  <2>3. \A r \in 2 .. chist[c].latest : r \in 2 .. rev
    BY <1>1, <2>2
  <2>4. QED
    BY <1>1, <1>2, <1>4, <2>1, <2>2, <2>3 DEF ClientRing, Holds, Get
<1>9. ASSUME NEW c \in online PROVE (AcksApplied(c) /\ DeltasGood(c))'
  <2>1. c \in Client
    BY DEF IInv, TypeOK
  <2>2. AcksApplied(c)'
    BY <1>2 DEF IInv, AcksApplied, HasApplied
  <2>3. ASSUME NEW i \in DOMAIN down[c] PROVE GoodDelta(down[c][i])'
    <3>1. GoodDelta(down[c][i])
      BY DEF IInv, DeltasGood
    <3>2. CASE down[c][i].style = "merge"
      <4>1. down[c][i].from \in 2 .. (down[c][i].rev - 1) /\ down[c][i].rev \in 2 .. rev
        BY <3>1, <3>2 DEF GoodDelta
      <4>2. down[c][i].from \in 2 .. rev
        BY <1>1, <4>1
      <4>3. QED
        BY <1>1, <1>2, <1>4, <3>1, <3>2, <4>1, <4>2 DEF GoodDelta, NotReused
    <3>3. CASE down[c][i].style # "merge"
      BY <1>1, <1>2, <1>4, <3>1, <3>3 DEF GoodDelta
    <3>4. QED
      BY <3>2, <3>3
  <2>4. DeltasGood(c)'
    BY <1>2, <2>3 DEF IInv, DeltasGood, HasApplied
  <2>5. QED
    BY <2>2, <2>4
<1>10. ASSUME NEW c \in online PROVE NotYetSent(c)'
  <2>1. c \in Client
    BY DEF IInv, TypeOK
  <2>2. chist[c].latest \in {0} \cup 2 .. rev
    BY <2>1 DEF IInv, ClientRing
  <2>3. \A i \in DOMAIN down[c] : down[c][i].rev \in 2 .. rev
    BY DEF IInv, DeltasGood, GoodDelta
  <2>4. QED
    BY <1>1, <1>2, <2>2, <2>3 DEF NotYetSent
<1>11. rev' <= MaxRev
  BY <1>1, <1>2, SyncAssumption DEF Publish
<1>12. QED
  BY <1>2, <1>5, <1>6, <1>7, <1>8, <1>9, <1>10, <1>11 DEF IInv

\* What the server sends to a client the running broadcast has yet to reach.
LEMMA DeltaForFacts ==
  ASSUME IInv, NEW c \in pending
  PROVE  /\ DeltaFor(acked[c]) = ComputeDelta(hist, acked[c])
         /\ DeltaFor(acked[c]) \in Delta
         /\ GoodDelta(DeltaFor(acked[c]))
         /\ DeltaFor(acked[c]).rev = rev
         /\ DeltaFor(acked[c]).style = "merge" => HasApplied(c, DeltaFor(acked[c]).from)
<1> DEFINE a == acked[c]
           d == ComputeDelta(hist, a)
<1>1. c \in online /\ c \in Client /\ a \in Rev /\ a \in Nat
  BY RevFacts DEF IInv, TypeOK
<1>2. rev \in Nat /\ rev >= 2 /\ hist.latest = rev /\ chist[c].latest \in Nat /\ chist[c].latest < rev
  BY <1>1, RevFacts DEF IInv, TypeOK, NotYetSent, ServerRing, ClientRing
<1>3. a = 0 \/ HasApplied(c, a)
  BY <1>1 DEF IInv, AcksApplied
<1>4. a = 0 \/ a \in 2 .. (rev - 1)
  BY <1>2, <1>3 DEF HasApplied
<1>5. DeltaFor(a) = d
  <2>1. Slot(a) \in Slots
    BY <1>1, SlotType
  <2>2. CASE CacheHit(a)
    BY <2>1, <2>2 DEF CacheHit, DeltaFor, IInv, CacheFresh
  <2>3. CASE ~CacheHit(a)
    BY <2>3 DEF DeltaFor
  <2>4. QED
    BY <2>2, <2>3
<1>6. /\ Get(hist, rev) \in Snapshot /\ Get(hist, rev).rev = rev
      /\ Get(hist, rev).world = log[rev]
  <2>1. Slot(rev) \in Slots /\ rev \in 2 .. rev
    BY <1>2, SlotType
  <2>2. hist.slot[Slot(rev)].rev >= rev
    BY <2>1 DEF IInv, ServerRing
  <2>3. hist.slot[Slot(rev)] # NoState
    BY <1>2, <2>2, NoStateFact
  <2>4. /\ hist.slot[Slot(rev)].rev \in 2 .. rev
        /\ hist.slot[Slot(rev)].world = log[hist.slot[Slot(rev)].rev]
    BY <2>1, <2>3 DEF IInv, ServerRing
  <2>5. hist.slot[Slot(rev)] \in Snapshot
    BY <2>1, <2>3 DEF IInv, TypeOK, History
  <2>6. QED
    BY <1>2, <2>2, <2>4, <2>5 DEF Get
<1>7. d \in Delta
  BY <1>1, <1>2, <1>6, ComputeDeltaType, NoStateFact DEF GetLatest, IInv, TypeOK
<1>8. CASE ~Holds(hist, a)
  <2>1. d = SetDelta(Get(hist, rev))
    BY <1>2, <1>8 DEF ComputeDelta, GetLatest
  <2>2. d.style = "set" /\ d.rev = rev /\ d.body = log[rev]
    BY <1>6, <2>1 DEF SetDelta
  <2>3. GoodDelta(d)
    BY <1>2, <2>2 DEF GoodDelta
  <2>4. QED
    BY <1>5, <1>7, <2>2, <2>3
<1>9. CASE Holds(hist, a)
  <2>1. Slot(a) \in Slots
    BY <1>1, SlotType
  <2>2. hist.slot[Slot(a)] # NoState
    BY <1>1, <1>9, NoStateFact DEF Holds, Get
  <2>3. a \in 2 .. rev /\ hist.slot[Slot(a)].rev = a /\ hist.slot[Slot(a)].world = log[a]
    BY <1>9, <2>1, <2>2 DEF IInv, ServerRing, Holds, Get
  <2>4. a \in 2 .. (rev - 1) /\ HasApplied(c, a)
    BY <1>2, <1>3, <1>4, <2>3
  <2>5. d = MergeDelta(Get(hist, a), Get(hist, rev))
    BY <1>2, <1>9 DEF ComputeDelta, GetLatest
  <2>6. /\ d.style = "merge" /\ d.from = a /\ d.rev = rev
        /\ d.body = GeneratePatch(log[a], log[rev])
    BY <1>6, <2>3, <2>5 DEF MergeDelta, Get
  <2>7. NotReused(a, rev)
    <3>1. ASSUME NEW r \in (a + 1) .. rev, Slot(r) = Slot(a) PROVE FALSE
      <4>1. r \in 2 .. rev /\ r > a
        BY <1>2, <2>4
      <4>2. hist.slot[Slot(r)].rev >= r
        BY <4>1 DEF IInv, ServerRing
      <4>3. QED
        BY <2>3, <3>1, <4>1, <4>2
    <3>2. QED
      BY <3>1 DEF NotReused
  <2>8. GoodDelta(d)
    BY <1>2, <2>4, <2>6, <2>7 DEF GoodDelta
  <2>9. QED
    BY <1>5, <1>7, <2>4, <2>6, <2>8
<1>10. QED
  BY <1>8, <1>9

LEMMA SendDeltaIInv ==
  ASSUME IInv, NEW c \in Client, SendDelta(c)
  PROVE  IInv'
<1> DEFINE d == DeltaFor(acked[c])
<1>1. /\ c \in pending
      /\ pending' = pending \ {c}
      /\ cache' = [cache EXCEPT ![Slot(acked[c])] =
                     [from |-> acked[c], to |-> hist.latest, delta |-> d]]
      /\ UNCHANGED <<rev, hist, online, acked, chist, mirror, up, log>>
  BY DEF SendDelta, clientVars
<1>2. PICK queue \in Offer(down[c], d) : down' = [down EXCEPT ![c] = queue]
  BY DEF SendDelta
<1>3. /\ d = ComputeDelta(hist, acked[c]) /\ d \in Delta /\ GoodDelta(d) /\ d.rev = rev
      /\ d.style = "merge" => HasApplied(c, d.from)
  BY <1>1, DeltaForFacts
<1>4. c \in online /\ acked[c] \in Rev /\ hist.latest \in Rev /\ down[c] \in Seq(Delta)
  BY <1>1 DEF IInv, TypeOK, History
<1>5. /\ queue \in Seq(Delta)
      /\ \E k \in {0, 1} : \A i \in DOMAIN queue :
           \/ i + k \in DOMAIN down[c] /\ queue[i] = down[c][i + k]
           \/ i = Len(queue) /\ queue[i] = d
  BY <1>2, <1>3, <1>4, OfferFact
<1>6. Slot(acked[c]) \in Slots
  BY <1>4, RevFacts, SlotType
<1>7. TypeOK'
  <2>1. cache' \in [Slots -> [from : Rev \cup {-1}, to : Rev \cup {-1},
                              delta : Delta \cup {SetDelta(NoState)}]]
    BY <1>1, <1>3, <1>4, <1>6 DEF IInv, TypeOK
  <2>2. down' \in [Client -> Seq(Delta)]
    BY <1>2, <1>5 DEF IInv, TypeOK
  <2>3. QED
    BY <1>1, <2>1, <2>2 DEF IInv, TypeOK
<1>8. ServerRing'
  BY <1>1 DEF IInv, ServerRing
<1>9. CacheFresh'
  <2>1. ASSUME NEW s \in Slots, s # Slot(acked[c])
        PROVE  cache'[s] = cache[s]
    BY <1>1, <2>1 DEF IInv, TypeOK
  <2>2. cache'[Slot(acked[c])] = [from |-> acked[c], to |-> hist.latest, delta |-> d]
    BY <1>1, <1>6 DEF IInv, TypeOK
  <2>3. hist.latest \in Int
    BY <1>4, RevFacts
  <2>4. hist.latest <= hist.latest
    BY <2>3
  <2>5. QED
    BY <1>1, <1>3, <2>1, <2>2, <2>4 DEF IInv, CacheFresh
<1>10. \A b \in Client : ClientRing(b)'
  BY <1>1 DEF IInv, ClientRing
<1>11. ASSUME NEW b \in online PROVE (AcksApplied(b) /\ DeltasGood(b))'
  <2>1. AcksApplied(b)'
    BY <1>1 DEF IInv, AcksApplied, HasApplied
  <2>2. CASE b # c
    <3>1. down'[b] = down[b]
      BY <1>2, <2>2 DEF IInv, TypeOK
    <3>2. QED
      BY <1>1, <2>1, <3>1 DEF IInv, DeltasGood, HasApplied, GoodDelta
  <2>3. CASE b = c
    <3>1. down'[c] = queue
      BY <1>2 DEF IInv, TypeOK
    <3>2. PICK k \in {0, 1} : \A i \in DOMAIN queue :
             \/ i + k \in DOMAIN down[c] /\ queue[i] = down[c][i + k]
             \/ i = Len(queue) /\ queue[i] = d
      BY <1>5
    <3>3. DeltasGood(c) /\ NotYetSent(c)
      BY <1>1, <1>4 DEF IInv
    <3>4. ASSUME NEW i \in DOMAIN queue
          PROVE  /\ GoodDelta(queue[i])
                 /\ queue[i].style = "merge" => HasApplied(c, queue[i].from)
                 /\ chist[c].latest < queue[i].rev
      BY <1>3, <3>2, <3>3 DEF DeltasGood, NotYetSent
    <3>5. ASSUME NEW i \in DOMAIN queue, NEW j \in DOMAIN queue, j < i
          PROVE  queue[j].rev < queue[i].rev
      <4>1. i \in Nat /\ j \in Nat /\ i <= Len(queue)
        BY <1>5
      <4>2. j + k \in DOMAIN down[c] /\ queue[j] = down[c][j + k]
        BY <3>2, <3>5, <4>1
      <4>3. CASE i + k \in DOMAIN down[c] /\ queue[i] = down[c][i + k]
        <5>1. j + k < i + k
          BY <3>5, <4>1
        <5>2. QED
          BY <3>3, <4>2, <4>3, <5>1 DEF DeltasGood
      <4>4. CASE queue[i] = d
        BY <1>3, <3>3, <4>2, <4>4 DEF NotYetSent
      <4>5. QED
        BY <3>2, <4>3, <4>4
    <3>6. DeltasGood(c)'
      BY <1>1, <3>1, <3>4, <3>5 DEF DeltasGood, GoodDelta, HasApplied
    <3>7. QED
      BY <2>1, <2>3, <3>6
  <2>4. QED
    BY <2>2, <2>3
<1>12. ASSUME NEW b \in pending' PROVE NotYetSent(b)'
  <2>1. b \in pending /\ b # c
    BY <1>1
  <2>2. down'[b] = down[b]
    BY <1>2, <2>1 DEF IInv, TypeOK
  <2>3. QED
    BY <1>1, <2>1, <2>2 DEF IInv, NotYetSent
<1>13. ASSUME NEW b \in Client \ online PROVE down'[b] = <<>> /\ up[b] = <<>>
  BY <1>2, <1>4 DEF IInv, TypeOK
<1>14. QED
  BY <1>1, <1>7, <1>8, <1>9, <1>10, <1>11, <1>12, <1>13 DEF IInv

LEMMA ReceiveIntentIInv ==
  ASSUME IInv, NEW c \in Client, ReceiveIntent(c)
  PROVE  IInv'
<1>1. /\ c \in online /\ up[c] # <<>> /\ pending = {}
      /\ acked' = [acked EXCEPT ![c] = Head(up[c])]
      /\ up' = [up EXCEPT ![c] = Tail(up[c])]
      /\ UNCHANGED <<rev, hist, cache, pending, online, chist, mirror, down, log>>
  BY DEF ReceiveIntent, clientVars
<1>2. up[c] \in Seq(Rev)
  BY DEF IInv, TypeOK
<1>3. /\ Tail(up[c]) \in Seq(Rev)
      /\ \A i \in DOMAIN Tail(up[c]) : i + 1 \in DOMAIN up[c] /\ Tail(up[c])[i] = up[c][i + 1]
  BY <1>1, <1>2, TailOfSeq
<1>4. 1 \in DOMAIN up[c] /\ Head(up[c]) = up[c][1] /\ Head(up[c]) \in Rev
  BY <1>1, <1>2
<1>5. TypeOK'
  BY <1>1, <1>3, <1>4 DEF IInv, TypeOK
<1>6. ServerRing' /\ CacheFresh' /\ \A b \in Client : ClientRing(b)'
  BY <1>1 DEF IInv, ServerRing, CacheFresh, ClientRing
<1>7. ASSUME NEW b \in online PROVE (AcksApplied(b) /\ DeltasGood(b))'
  <2>1. DeltasGood(b)'
    BY <1>1 DEF IInv, DeltasGood, GoodDelta, HasApplied
  <2>2. AcksApplied(b)
    BY DEF IInv
  <2>3. CASE b = c
    <3>1. acked'[b] = up[b][1] /\ up'[b] = Tail(up[b])
      BY <1>1, <1>4, <2>3 DEF IInv, TypeOK
    <3>2. AcksApplied(b)'
      BY <1>1, <1>3, <1>4, <2>2, <2>3, <3>1 DEF AcksApplied, HasApplied
    <3>3. QED
      BY <2>1, <3>2
  <2>4. CASE b # c
    <3>1. acked'[b] = acked[b] /\ up'[b] = up[b]
      BY <1>1, <2>4 DEF IInv, TypeOK
    <3>2. AcksApplied(b)'
      BY <1>1, <2>2, <3>1 DEF AcksApplied, HasApplied
    <3>3. QED
      BY <2>1, <3>2
  <2>5. QED
    BY <2>3, <2>4
<1>8. ASSUME NEW b \in Client \ online PROVE down[b] = <<>> /\ up'[b] = <<>>
  BY <1>1 DEF IInv, TypeOK
<1>9. QED
  BY <1>1, <1>5, <1>6, <1>7, <1>8 DEF IInv

LEMMA ConnectIInv ==
  ASSUME IInv, NEW c \in Client, Connect(c)
  PROVE  IInv'
<1>1. /\ c \notin online /\ pending = {}
      /\ online' = online \cup {c}
      /\ acked' = [acked EXCEPT ![c] = 0]
      /\ chist' = [chist EXCEPT ![c] = EmptyHistory]
      /\ mirror' = [mirror EXCEPT ![c] = [e \in Entity |-> 0]]
      /\ UNCHANGED <<rev, hist, cache, pending, down, up, log>>
  BY DEF Connect
<1>2. TypeOK'
  BY <1>1, EmptyHistoryFacts, RevFacts DEF IInv, TypeOK
<1>3. ServerRing' /\ CacheFresh'
  BY <1>1 DEF IInv, ServerRing, CacheFresh
<1>4. ASSUME NEW b \in Client PROVE ClientRing(b)'
  <2>1. CASE b = c
    <3>1. chist'[b] = EmptyHistory
      BY <1>1, <2>1 DEF IInv, TypeOK
    <3>2. QED
      BY <3>1, EmptyHistoryFacts DEF ClientRing
  <2>2. CASE b # c
    <3>1. chist'[b] = chist[b]
      BY <1>1, <2>2 DEF IInv, TypeOK
    <3>2. QED
      BY <1>1, <3>1 DEF IInv, ClientRing
  <2>3. QED
    BY <2>1, <2>2
<1>5. ASSUME NEW b \in online' PROVE (AcksApplied(b) /\ DeltasGood(b))'
  <2>1. CASE b = c
    <3>1. acked'[b] = 0 /\ down'[b] = <<>> /\ up'[b] = <<>>
      BY <1>1, <2>1 DEF IInv, TypeOK
    <3>2. DOMAIN down'[b] = {} /\ DOMAIN up'[b] = {}
      BY <3>1
    <3>3. QED
      BY <3>1, <3>2 DEF AcksApplied, DeltasGood
  <2>2. CASE b # c
    <3>1. b \in online /\ b \in Client
      BY <1>1, <2>2 DEF IInv, TypeOK
    <3>2. chist'[b] = chist[b] /\ acked'[b] = acked[b]
      BY <1>1, <2>2, <3>1 DEF IInv, TypeOK
    <3>3. AcksApplied(b) /\ DeltasGood(b)
      BY <3>1 DEF IInv
    <3>4. AcksApplied(b)'
      BY <1>1, <3>2, <3>3 DEF AcksApplied, HasApplied
    <3>5. DeltasGood(b)'
      BY <1>1, <3>2, <3>3 DEF DeltasGood, GoodDelta, HasApplied
    <3>6. QED
      BY <3>4, <3>5
  <2>3. QED
    BY <2>1, <2>2
<1>6. QED
  BY <1>1, <1>2, <1>3, <1>4, <1>5 DEF IInv

LEMMA DisconnectIInv ==
  ASSUME IInv, NEW c \in Client, Disconnect(c)
  PROVE  IInv'
<1>1. /\ c \in online /\ pending = {}
      /\ online' = online \ {c}
      /\ down' = [down EXCEPT ![c] = <<>>]
      /\ up' = [up EXCEPT ![c] = <<>>]
      /\ UNCHANGED <<rev, hist, cache, pending, acked, chist, mirror, log>>
  BY DEF Disconnect, clientVars
<1>2. TypeOK'
  BY <1>1 DEF IInv, TypeOK
<1>3. ServerRing' /\ CacheFresh' /\ \A b \in Client : ClientRing(b)'
  BY <1>1 DEF IInv, ServerRing, CacheFresh, ClientRing
<1>4. ASSUME NEW b \in online' PROVE (AcksApplied(b) /\ DeltasGood(b))'
  <2>1. b \in online /\ b # c /\ b \in Client
    BY <1>1 DEF IInv, TypeOK
  <2>2. down'[b] = down[b] /\ up'[b] = up[b]
    BY <1>1, <2>1 DEF IInv, TypeOK
  <2>3. AcksApplied(b) /\ DeltasGood(b)
    BY <2>1 DEF IInv
  <2>4. AcksApplied(b)'
    BY <1>1, <2>2, <2>3 DEF AcksApplied, HasApplied
  <2>5. DeltasGood(b)'
    BY <1>1, <2>2, <2>3 DEF DeltasGood, GoodDelta, HasApplied
  <2>6. QED
    BY <2>4, <2>5
<1>5. ASSUME NEW b \in Client \ online' PROVE down'[b] = <<>> /\ up'[b] = <<>>
  BY <1>1 DEF IInv, TypeOK
<1>6. QED
  BY <1>1, <1>2, <1>3, <1>4, <1>5 DEF IInv

\* Any delta under way can be applied, and leads to the published world.
LEMMA ParseFacts ==
  ASSUME IInv, NEW c \in online, NEW n \in DOMAIN down[c]
  PROVE  /\ CanApply(chist[c], down[c][n])
         /\ Applied(chist[c], down[c][n]) =
              [rev |-> down[c][n].rev, world |-> log[down[c][n].rev]]
         /\ Applied(chist[c], down[c][n]) \in Snapshot
         /\ down[c][n].rev \in 2 .. rev
         /\ chist[c].latest < down[c][n].rev
         /\ chist[c].latest \in {0} \cup 2 .. rev
<1> DEFINE d == down[c][n]
           h == chist[c]
<1>1. c \in Client /\ h \in History /\ d \in Delta /\ log \in [Rev -> World] /\ rev \in Nat
  BY RevFacts DEF IInv, TypeOK
<1>2. /\ GoodDelta(d) /\ h.latest < d.rev
      /\ d.style = "merge" => HasApplied(c, d.from)
  BY DEF IInv, DeltasGood
<1>3. d.rev \in 2 .. rev /\ d.rev \in Rev /\ d.rev \in Nat /\ h.latest \in {0} \cup 2 .. rev
  BY <1>1, <1>2, RevFacts DEF GoodDelta, IInv, ClientRing, Delta
<1>4. \A r \in 2 .. rev : log[r] \in World
  BY <1>1, RevFacts, HistoryAssumption DEF IInv, TypeOK, Rev
<1>5. CASE d.style = "set"
  <2>1. d.body = log[d.rev]
    BY <1>2, <1>5 DEF GoodDelta
  <2>2. Applied(h, d) = [rev |-> d.rev, world |-> log[d.rev]]
    BY <1>5, <2>1 DEF Applied
  <2>3. CanApply(h, d)
    BY <1>5 DEF CanApply
  <2>4. Applied(h, d) \in Snapshot
    BY <1>3, <1>4, <2>2 DEF Snapshot
  <2>5. QED
    BY <1>2, <1>3, <2>2, <2>3, <2>4
<1>6. CASE d.style = "merge"
  <2>1. /\ d.from \in 2 .. (d.rev - 1) /\ NotReused(d.from, d.rev)
        /\ d.body = GeneratePatch(log[d.from], log[d.rev])
        /\ d.from \in 2 .. rev /\ d.from \in Nat
        /\ h.slot[Slot(d.from)].rev >= d.from
    <3>1. /\ d.from \in 2 .. (d.rev - 1) /\ NotReused(d.from, d.rev)
          /\ d.body = GeneratePatch(log[d.from], log[d.rev])
      BY <1>2, <1>6 DEF GoodDelta
    <3>2. d.from \in 2 .. rev /\ d.from \in Nat
      BY <1>1, <1>3, <3>1
    <3>3. h.slot[Slot(d.from)].rev >= d.from
      BY <1>2, <1>6 DEF HasApplied
    <3>4. QED
      BY <3>1, <3>2, <3>3
  <2>2. Slot(d.from) \in Slots
    BY <2>1, SlotType
  <2>3. h.slot[Slot(d.from)] # NoState
    BY <2>1, NoStateFact
  <2>4. /\ Slot(h.slot[Slot(d.from)].rev) = Slot(d.from)
        /\ h.slot[Slot(d.from)].rev \in 2 .. h.latest
        /\ h.slot[Slot(d.from)].world = log[h.slot[Slot(d.from)].rev]
    BY <1>1, <2>2, <2>3 DEF IInv, ClientRing
  <2>5. h.slot[Slot(d.from)].rev = d.from
    BY <1>2, <1>3, <2>1, <2>4 DEF NotReused
  <2>6. CanApply(h, d)
    BY <2>5 DEF CanApply, Holds, Get
  <2>7. Applied(h, d) = [rev |-> d.rev, world |-> MergePatch(log[d.from], d.body)]
    BY <1>6, <2>4, <2>5 DEF Applied, Get
  <2>8. MergePatch(log[d.from], d.body) = log[d.rev]
    BY <1>3, <1>4, <2>1, PatchRoundTrip
  <2>9. Applied(h, d) \in Snapshot
    BY <1>3, <1>4, <2>7, <2>8 DEF Snapshot
  <2>10. QED
    BY <1>2, <1>3, <2>6, <2>7, <2>8, <2>9
<1>7. d.style \in {"set", "merge"}
  BY <1>1 DEF Delta
<1>8. QED
  BY <1>5, <1>6, <1>7

\* What a client acknowledges is the revision of its latest state.
LEMMA AckFacts ==
  ASSUME IInv, NEW c \in Client
  PROVE  /\ AckOf(c) = chist[c].latest /\ AckOf(c) \in Rev
         /\ AckOf(c) = 0 \/ HasApplied(c, AckOf(c))
<1>1. chist[c].latest \in Rev /\ chist[c].latest \in Nat
  BY RevFacts DEF IInv, TypeOK, History
<1>2. chist[c].latest \in {0} \cup 2 .. rev /\ (rev <= MaxRev \/ rev = 1) /\ rev \in Nat
  BY RevFacts DEF IInv, ClientRing, TypeOK
<1>3. AckOf(c) = chist[c].latest
  BY <1>1, <1>2, NoWrapAssumption, SyncAssumption DEF AckOf
<1>4. chist[c].latest # 0 => chist[c].slot[Slot(chist[c].latest)].rev = chist[c].latest
  BY DEF IInv, ClientRing, Holds, Get
<1>5. QED
  BY <1>1, <1>2, <1>3, <1>4 DEF HasApplied

\* Applying a newer state makes nothing the client had applied unusable.
LEMMA HasAppliedKept ==
  ASSUME NEW h \in History, NEW snap \in Snapshot, h.latest < snap.rev,
         \A s \in Slots : h.slot[s] # NoState => h.slot[s].rev \in 2 .. h.latest,
         NEW a \in 2 .. h.latest, h.slot[Slot(a)].rev >= a
  PROVE  /\ a \in 2 .. snap.rev
         /\ Insert(h, snap).slot[Slot(a)].rev >= a
<1>1. snap.rev \in Nat /\ h.latest \in Nat
  BY RevFacts DEF Snapshot, History
<1>2. a \in 2 .. snap.rev
  BY <1>1
<1>3. Slot(a) \in Slots
  BY SlotType
<1>4. QED
  BY <1>1, <1>2, <1>3, InsertType

\* What a poll does to the client that polls.
LEMMA PollEffect ==
  ASSUME IInv, NEW c \in Client, Poll(c)
  PROVE  \E n \in 0 .. Len(down[c]), queue \in Offer(up[c], AckOf(c)) :
           /\ c \in online
           /\ up' = [up EXCEPT ![c] = queue]
           /\ down' = [down EXCEPT ![c] = SubSeq(down[c], n + 1, Len(down[c]))]
           /\ \/ n = 0 /\ UNCHANGED <<chist, mirror>>
              \/ /\ n \in DOMAIN down[c]
                 /\ chist' = [chist EXCEPT ![c] = Insert(chist[c], Applied(chist[c], down[c][n]))]
                 /\ mirror' \in [Client -> [Entity -> Int]]
<1>1. c \in online
  BY DEF Poll
<1>2. PICK queue \in Offer(up[c], AckOf(c)) : up' = [up EXCEPT ![c] = queue]
  BY DEF Poll
<1>3. PICK n \in 0 .. Len(down[c]) : ReceiveDeltas(c, n)
  BY DEF Poll
<1>4. down' = [down EXCEPT ![c] = SubSeq(down[c], n + 1, Len(down[c]))]
  BY <1>3 DEF ReceiveDeltas
<1>5. CASE n = 0
  BY <1>1, <1>2, <1>3, <1>4, <1>5 DEF ReceiveDeltas, clientVars
<1>6. CASE n # 0
  <2>1. down[c] \in Seq(Delta)
    BY DEF IInv, TypeOK
  <2>2. n \in DOMAIN down[c]
    BY <1>6, <2>1
  <2>3. ParseStatediff(c, down[c][n]) /\ CanApply(chist[c], down[c][n])
    BY <1>1, <1>3, <1>6, <2>2, ParseFacts DEF ReceiveDeltas
  <2>4. chist' = [chist EXCEPT ![c] = Insert(chist[c], Applied(chist[c], down[c][n]))]
    BY <2>3 DEF ParseStatediff
  <2>5. mirror' \in [Client -> [Entity -> Int]]
    <3> DEFINE m == [e \in Entity |->
                 mirror[c][e] + (IF e \in NewEntities(chist[c], down[c][n]) THEN 1 ELSE 0)
                      - (IF e \in DeletedEntities(chist[c], down[c][n]) THEN 1 ELSE 0)]
    <3>1. mirror \in [Client -> [Entity -> Int]]
      BY DEF IInv, TypeOK
    <3>2. mirror' = [mirror EXCEPT ![c] = m]
      BY <2>3 DEF ParseStatediff
    <3>3. \A e \in Entity : mirror[c][e] \in Int
      BY <3>1
    <3>4. m \in [Entity -> Int]
      BY <3>3
    <3> HIDE DEF m
    <3>5. QED
      BY <3>1, <3>2, <3>4
  <2>6. QED
    BY <1>1, <1>2, <1>4, <2>2, <2>4, <2>5
<1>7. QED
  BY <1>5, <1>6

LEMMA PollIInv ==
  ASSUME IInv, NEW c \in Client, Poll(c)
  PROVE  IInv'
<1>1. PICK n \in 0 .. Len(down[c]), queue \in Offer(up[c], AckOf(c)) :
           /\ c \in online
           /\ up' = [up EXCEPT ![c] = queue]
           /\ down' = [down EXCEPT ![c] = SubSeq(down[c], n + 1, Len(down[c]))]
           /\ \/ n = 0 /\ UNCHANGED <<chist, mirror>>
              \/ /\ n \in DOMAIN down[c]
                 /\ chist' = [chist EXCEPT ![c] = Insert(chist[c], Applied(chist[c], down[c][n]))]
                 /\ mirror' \in [Client -> [Entity -> Int]]
  BY PollEffect
<1>2. UNCHANGED <<rev, hist, cache, pending, acked, online, log>>
  BY DEF Poll, serverVars
<1>3. /\ down[c] \in Seq(Delta) /\ up[c] \in Seq(Rev)
      /\ chist \in [Client -> History] /\ rev \in Nat
  BY RevFacts DEF IInv, TypeOK
<1> DEFINE rest == SubSeq(down[c], n + 1, Len(down[c]))
<1>4. /\ rest \in Seq(Delta)
      /\ \A i \in DOMAIN rest : i + n \in DOMAIN down[c] /\ rest[i] = down[c][i + n]
  BY <1>3, SuffixOfSeq
<1>5. /\ queue \in Seq(Rev)
      /\ \A i \in DOMAIN queue : queue[i] = 0 \/ HasApplied(c, queue[i])
  <2>1. AckOf(c) \in Rev /\ (AckOf(c) = 0 \/ HasApplied(c, AckOf(c)))
    BY AckFacts
  <2>2. \A i \in DOMAIN up[c] : up[c][i] = 0 \/ HasApplied(c, up[c][i])
    BY <1>1 DEF IInv, AcksApplied
  <2>3. /\ queue \in Seq(Rev)
        /\ \E k \in {0, 1} : \A i \in DOMAIN queue :
              \/ i + k \in DOMAIN up[c] /\ queue[i] = up[c][i + k]
              \/ i = Len(queue) /\ queue[i] = AckOf(c)
    BY <1>3, <2>1, OfferFact
  <2>4. QED
    BY <2>1, <2>2, <2>3
<1>6. /\ chist'[c] \in History
      /\ \A b \in Client \ {c} : chist'[b] = chist[b]
      /\ chist' \in [Client -> History] /\ mirror' \in [Client -> [Entity -> Int]]
  <2>1. CASE n = 0
    BY <1>1, <1>3, <2>1 DEF IInv, TypeOK
  <2>2. CASE n \in DOMAIN down[c]
    <3>1. Applied(chist[c], down[c][n]) \in Snapshot
      BY <1>1, <2>2, ParseFacts
    <3>2. n # 0
      BY <1>3, <2>2
    <3>3. chist' = [chist EXCEPT ![c] = Insert(chist[c], Applied(chist[c], down[c][n]))]
      BY <1>1, <3>2
    <3>4. QED
      BY <1>1, <1>3, <3>1, <3>2, <3>3, InsertType
  <2>3. QED
    BY <1>1, <2>1, <2>2
<1>7. TypeOK'
  BY <1>1, <1>2, <1>4, <1>5, <1>6 DEF IInv, TypeOK
\* What the poll leaves true of the client's history.
<1>8. /\ ClientRing(c)'
      /\ \A a : HasApplied(c, a) => HasApplied(c, a)'
      /\ \A i \in DOMAIN rest : chist'[c].latest < rest[i].rev
      /\ chist'[c].latest < rev \/ ~NotYetSent(c)
  <2>0. ClientRing(c) /\ DeltasGood(c)
    BY <1>1 DEF IInv
  <2>1. CASE n = 0
    <3>1. chist' = chist
      BY <1>1, <1>3, <2>1
    <3>2. \A i \in DOMAIN rest : chist[c].latest < rest[i].rev
      BY <1>4, <2>0 DEF DeltasGood
    <3>3. QED
      BY <1>2, <2>0, <3>1, <3>2 DEF ClientRing, HasApplied, NotYetSent
  <2>2. CASE n \in DOMAIN down[c]
    <3> DEFINE d == down[c][n]
               snap == [rev |-> d.rev, world |-> log[d.rev]]
    <3>1. /\ snap \in Snapshot /\ chist[c].latest < d.rev /\ d.rev \in 2 .. rev
          /\ Applied(chist[c], d) = snap /\ chist[c].latest \in {0} \cup 2 .. rev
      BY <1>1, <2>2, ParseFacts
    <3>2. n # 0
      BY <1>3, <2>2
    <3>3. chist'[c] = Insert(chist[c], snap)
      BY <1>1, <1>3, <3>1, <3>2
    <3>4. /\ chist'[c].latest = d.rev
          /\ \A s \in Slots : chist'[c].slot[s] = IF s = Slot(d.rev) THEN snap ELSE chist[c].slot[s]
      BY <1>3, <3>1, <3>3, InsertType
    <3>5. ClientRing(c)'
      <4>1. Slot(d.rev) \in Slots /\ d.rev \in Nat /\ d.rev # 0
        BY <1>3, <3>1, SlotType
      <4>2. chist'[c].latest \in {0} \cup 2 .. rev
        BY <3>1, <3>4
      <4>3. chist'[c].slot[Slot(d.rev)].rev = d.rev
        BY <3>4, <4>1
      <4>4. ASSUME NEW s \in Slots, chist'[c].slot[s] # NoState
            PROVE  /\ Slot(chist'[c].slot[s].rev) = s
                   /\ chist'[c].slot[s].rev \in 2 .. d.rev
                   /\ chist'[c].slot[s].world = log[chist'[c].slot[s].rev]
        <5>1. CASE s = Slot(d.rev)
          BY <3>1, <3>4, <4>1, <5>1
        <5>2. CASE s # Slot(d.rev)
          <6>1. chist'[c].slot[s] = chist[c].slot[s]
            BY <3>4, <5>2
          <6>2. /\ Slot(chist[c].slot[s].rev) = s
                /\ chist[c].slot[s].rev \in 2 .. chist[c].latest
                /\ chist[c].slot[s].world = log[chist[c].slot[s].rev]
            BY <2>0, <4>4, <6>1 DEF ClientRing
          <6>3. chist[c].slot[s].rev \in 2 .. d.rev
            BY <1>3, <3>1, <4>1, <6>2
          <6>4. QED
            BY <6>1, <6>2, <6>3
        <5>3. QED
          BY <5>1, <5>2
      <4>5. QED
        BY <1>2, <3>4, <4>2, <4>3, <4>4 DEF ClientRing, Holds, Get
    <3>6. ASSUME NEW a, HasApplied(c, a) PROVE HasApplied(c, a)'
      <4>1. a \in 2 .. chist[c].latest /\ chist[c].slot[Slot(a)].rev >= a
        BY <3>6 DEF HasApplied
      <4>2. \A s \in Slots : chist[c].slot[s] # NoState => chist[c].slot[s].rev \in 2 .. chist[c].latest
        BY <2>0 DEF ClientRing
      <4>3. chist[c] \in History /\ snap.rev = d.rev
        BY <1>3
      <4>4. a \in 2 .. d.rev /\ Insert(chist[c], snap).slot[Slot(a)].rev >= a
        BY <3>1, <4>1, <4>2, <4>3, HasAppliedKept
      <4>5. QED
        BY <3>3, <3>4, <4>4 DEF HasApplied
    <3>7. ASSUME NEW i \in DOMAIN rest PROVE d.rev < rest[i].rev
      <4>1. i + n \in DOMAIN down[c] /\ rest[i] = down[c][i + n] /\ i \in Nat /\ i > 0
        BY <1>4
      <4>2. n < i + n
        BY <4>1
      <4>3. QED
        BY <2>0, <2>2, <4>1, <4>2 DEF DeltasGood
    <3>8. NotYetSent(c) => d.rev < rev
      BY <2>2 DEF NotYetSent
    <3>9. QED
      BY <3>4, <3>5, <3>6, <3>7, <3>8
  <2>3. QED
    BY <1>1, <2>1, <2>2
<1>9. ServerRing' /\ CacheFresh'
  BY <1>2 DEF IInv, ServerRing, CacheFresh
<1>10. ASSUME NEW b \in Client PROVE ClientRing(b)'
  <2>1. CASE b = c
    BY <1>8, <2>1
  <2>2. CASE b # c
    BY <1>2, <1>6, <2>2 DEF IInv, ClientRing
  <2>3. QED
    BY <2>1, <2>2
<1>11. ASSUME NEW b \in online PROVE (AcksApplied(b) /\ DeltasGood(b))'
  <2>1. AcksApplied(b) /\ DeltasGood(b) /\ b \in Client
    BY DEF IInv, TypeOK
  <2>2. CASE b # c
    <3>1. chist'[b] = chist[b] /\ down'[b] = down[b] /\ up'[b] = up[b]
      BY <1>1, <1>6, <2>1, <2>2 DEF IInv, TypeOK
    <3>2. AcksApplied(b)'
      BY <1>2, <2>1, <3>1 DEF AcksApplied, HasApplied
    <3>3. DeltasGood(b)'
      BY <1>2, <2>1, <3>1 DEF DeltasGood, GoodDelta, HasApplied
    <3>4. QED
      BY <3>2, <3>3
  <2>3. CASE b = c
    <3>1. down'[c] = rest /\ up'[c] = queue
      BY <1>1 DEF IInv, TypeOK
    <3>2. AcksApplied(c)'
      BY <1>2, <1>5, <1>8, <2>1, <2>3, <3>1 DEF AcksApplied
    <3>3. ASSUME NEW i \in DOMAIN rest
          PROVE  /\ GoodDelta(rest[i])
                 /\ rest[i].style = "merge" => HasApplied(c, rest[i].from)
      <4>1. i + n \in DOMAIN down[c] /\ rest[i] = down[c][i + n]
        BY <1>4
      <4>2. QED
        BY <2>1, <2>3, <4>1 DEF DeltasGood
    <3>4. ASSUME NEW i \in DOMAIN rest, NEW j \in DOMAIN rest, j < i
          PROVE  rest[j].rev < rest[i].rev
      <4>1. j + n < i + n
        BY <1>4, <3>4
      <4>2. QED
        BY <1>4, <2>1, <2>3, <4>1 DEF DeltasGood
    <3>5. DeltasGood(c)'
      <4>1. ASSUME NEW i \in DOMAIN down'[c], NEW d, d = down'[c][i]
            PROVE  /\ GoodDelta(d)'
                   /\ d.style = "merge" => HasApplied(c, d.from)'
        <5>1. GoodDelta(d) /\ (d.style = "merge" => HasApplied(c, d.from))
          BY <3>1, <3>3, <4>1
        <5>2. GoodDelta(d)'
          BY <1>2, <5>1 DEF GoodDelta
        <5>3. \A a : HasApplied(c, a) => HasApplied(c, a)'
          BY <1>8
        <5>4. d.style = "merge" => HasApplied(c, d.from)'
          BY <5>1, <5>3 DEF HasApplied
        <5>5. QED
          BY <5>2, <5>4
      <4>2. QED
        BY <1>8, <3>1, <3>4, <4>1 DEF DeltasGood, GoodDelta, HasApplied
    <3>6. QED
      BY <2>3, <3>2, <3>5
  <2>4. QED
    BY <2>2, <2>3
<1>12. ASSUME NEW b \in pending PROVE NotYetSent(b)'
  <2>1. NotYetSent(b) /\ b \in Client
    BY DEF IInv, TypeOK
  <2>2. CASE b = c
    <3>1. down'[c] = rest
      BY <1>1 DEF IInv, TypeOK
    <3>2. \A i \in DOMAIN rest : rest[i].rev < rev
      BY <1>4, <2>1, <2>2 DEF NotYetSent
    <3>3. QED
      BY <1>2, <1>8, <2>1, <2>2, <3>1, <3>2 DEF NotYetSent
  <2>3. CASE b # c
    <3>1. chist'[b] = chist[b] /\ down'[b] = down[b]
      BY <1>1, <1>6, <2>1, <2>3 DEF IInv, TypeOK
    <3>2. QED
      BY <1>2, <2>1, <3>1 DEF NotYetSent
  <2>4. QED
    BY <2>2, <2>3
<1>13. ASSUME NEW b \in Client \ online PROVE down'[b] = <<>> /\ up'[b] = <<>>
  BY <1>1 DEF IInv, TypeOK
<1>14. QED
  BY <1>2, <1>7, <1>9, <1>10, <1>11, <1>12, <1>13 DEF IInv
-----------------------------------------------------------------------------
(* The theorems.                                                           *)

LEMMA StutterIInv == ASSUME IInv, UNCHANGED vars PROVE IInv'
BY DEF vars, serverVars, clientVars, IInv, TypeOK, ServerRing, CacheFresh,
       ClientRing, AcksApplied, DeltasGood, GoodDelta, HasApplied, NotYetSent, CacheHit

LEMMA NextIInv == ASSUME IInv, [Next]_vars PROVE IInv'
<1>1. CASE \E w \in World : Publish(w)
  BY <1>1, PublishIInv
<1>2. ASSUME NEW c \in Client, SendDelta(c) PROVE IInv'
  BY <1>2, SendDeltaIInv
<1>3. ASSUME NEW c \in Client, ReceiveIntent(c) PROVE IInv'
  BY <1>3, ReceiveIntentIInv
<1>4. ASSUME NEW c \in Client, Connect(c) PROVE IInv'
  BY <1>4, ConnectIInv
<1>5. ASSUME NEW c \in Client, Disconnect(c) PROVE IInv'
  BY <1>5, DisconnectIInv
<1>6. ASSUME NEW c \in Client, Poll(c) PROVE IInv'
  BY <1>6, PollIInv
<1>7. CASE UNCHANGED vars
  BY <1>7, StutterIInv
<1>8. QED
  BY <1>1, <1>2, <1>3, <1>4, <1>5, <1>6, <1>7 DEF Next

\* The inductive invariant: both rings hold published worlds under their
\* revisions, what the server believes a client has was applied by it, and no
\* revision under way reuses the slot of the state its patch starts from.
THEOREM Invariance == Spec => []IInv
<1>1. Init => IInv
  BY InitIInv
<1>2. IInv /\ [Next]_vars => IInv'
  BY NextIInv
<1>3. QED
  BY <1>1, <1>2, PTL DEF Spec

\* Every variable keeps its type, whatever is sent, lost or disconnected.
THEOREM TypeCorrect == Spec => []TypeOK
<1>1. IInv => TypeOK
  BY DEF IInv
<1>2. QED
  BY <1>1, Invariance, PTL

\* A patch on its way to a client can always be merged there: allo_delta_apply
\* never fails before the revision counter wraps, so the branch that resets the
\* acknowledgement is not needed up to then.
THEOREM MergeBaseTheorem == Spec => []MergeBaseAvailable
<1>1. ASSUME IInv PROVE MergeBaseAvailable
  <2>1. ASSUME NEW c \in Client, NEW i \in DOMAIN down[c] PROVE CanApply(chist[c], down[c][i])
    <3>1. CASE c \in online
      BY <1>1, <2>1, <3>1, ParseFacts
    <3>2. CASE c \notin online
      BY <1>1, <2>1, <3>2 DEF IInv
    <3>3. QED
      BY <3>1, <3>2
  <2>2. QED
    BY <2>1 DEF MergeBaseAvailable
<1>2. QED
  BY <1>1, Invariance, PTL

\* Whatever chain of sets and patches reached it, each state a client holds is
\* the world the server published under that revision.
THEOREM PublishedTheorem == Spec => []StatesArePublished
<1>1. IInv => StatesArePublished
  BY DEF IInv, ClientRing, StatesArePublished
<1>2. QED
  BY <1>1, Invariance, PTL

\* The server never computes the patch between a state and itself.
THEOREM PatchNotEmptyTheorem == Spec => []PatchNotEmpty
<1>1. ASSUME IInv PROVE PatchNotEmpty
  <2>1. ASSUME NEW c \in pending PROVE acked[c] # hist.latest
    <3>1. c \in online /\ c \in Client
      BY <1>1 DEF IInv, TypeOK
    <3>2. /\ rev >= 2 /\ chist[c].latest < rev /\ rev \in Nat
          /\ chist[c].latest \in Nat /\ hist.latest = rev
      <4>1. /\ rev \in Nat /\ chist[c].latest \in Nat
        BY <1>1, <3>1, RevFacts DEF IInv, TypeOK, History
      <4>2. rev >= 2 /\ chist[c].latest < rev
        BY <1>1 DEF IInv, NotYetSent
      <4>3. hist.latest = rev
        BY <1>1, <4>1, <4>2 DEF IInv, ServerRing
      <4>4. QED
        BY <4>1, <4>2, <4>3
    <3>3. acked[c] = 0 \/ acked[c] \in 2 .. chist[c].latest
      BY <1>1, <3>1 DEF IInv, AcksApplied, HasApplied
    <3>4. QED
      BY <3>2, <3>3
  <2>2. QED
    BY <2>1 DEF PatchNotEmpty
<1>2. QED
  BY <1>1, Invariance, PTL

\* Deltas under way are newer than the client's state and in order.
THEOREM ForwardTheorem == Spec => []DeltasMoveForward
<1>1. ASSUME IInv PROVE DeltasMoveForward
  <2>1. ASSUME NEW c \in Client, NEW i \in DOMAIN down[c]
        PROVE  /\ chist[c].latest < down[c][i].rev
               /\ \A j \in 1 .. (i - 1) : down[c][j].rev < down[c][i].rev
    <3>1. down[c] \in Seq(Delta)
      BY <1>1 DEF IInv, TypeOK
    <3>2. CASE c \in online
      <4>1. DeltasGood(c)
        BY <1>1, <3>2 DEF IInv
      <4>2. \A j \in 1 .. (i - 1) : j \in DOMAIN down[c] /\ j < i
        BY <3>1
      <4>3. QED
        BY <4>1, <4>2 DEF DeltasGood
    <3>3. CASE c \notin online
      BY <1>1, <2>1, <3>3 DEF IInv
    <3>4. QED
      BY <3>2, <3>3
  <2>2. QED
    BY <2>1 DEF DeltasMoveForward
<1>2. QED
  BY <1>1, Invariance, PTL

\* The static diff cache is never stale.
THEOREM CacheTheorem == Spec => []CacheTransparent
<1>1. ASSUME IInv PROVE CacheTransparent
  <2>1. ASSUME NEW from \in Rev, CacheHit(from)
        PROVE  cache[Slot(from)].delta = ComputeDelta(hist, from)
    <3>1. Slot(from) \in Slots
      BY RevFacts, SlotType
    <3>2. QED
      BY <1>1, <2>1, <3>1 DEF IInv, CacheFresh, CacheHit
  <2>2. QED
    BY <2>1 DEF CacheTransparent
<1>2. QED
  BY <1>1, Invariance, PTL

\* What the server believes a client has, and what is on its way to tell it, is
\* never ahead of what the client applied and still has.
THEOREM AcksTheorem == Spec => []AcksTruthful
<1>1. ASSUME IInv PROVE AcksTruthful
  <2>1. ASSUME NEW c \in online
        PROVE  /\ acked[c] <= chist[c].latest
               /\ \A i \in DOMAIN up[c] : up[c][i] <= chist[c].latest
               /\ AckOf(c) # 0 => Holds(chist[c], AckOf(c))
    <3>1. c \in Client /\ chist[c].latest \in Nat
      BY <1>1, RevFacts DEF IInv, TypeOK, History
    <3>2. /\ acked[c] = 0 \/ acked[c] \in 2 .. chist[c].latest
          /\ \A i \in DOMAIN up[c] : up[c][i] = 0 \/ up[c][i] \in 2 .. chist[c].latest
      BY <1>1 DEF IInv, AcksApplied, HasApplied
    <3>3. AckOf(c) = chist[c].latest
      BY <1>1, <3>1, AckFacts
    <3>4. chist[c].latest # 0 => Holds(chist[c], chist[c].latest)
      BY <1>1, <3>1 DEF IInv, ClientRing
    <3>5. QED
      BY <3>1, <3>2, <3>3, <3>4
  <2>2. QED
    BY <2>1 DEF AcksTruthful
<1>2. QED
  BY <1>1, Invariance, PTL

\* What a poll makes of the polling client's latest revision.
LEMMA PollForward ==
  ASSUME IInv, NEW c \in Client, Poll(c)
  PROVE  /\ \A b \in Client \ {c} : chist'[b] = chist[b]
         /\ \/ chist' = chist
            \/ \E d \in Delta :
                 /\ d.rev \in 2 .. rev /\ chist[c].latest < d.rev
                 /\ chist'[c].latest = d.rev
                 /\ GetLatest(chist'[c]) = [rev |-> d.rev, world |-> log[d.rev]]
<1>1. PICK n \in 0 .. Len(down[c]) :
         /\ c \in online
         /\ \/ chist' = chist
            \/ /\ n \in DOMAIN down[c]
               /\ chist' = [chist EXCEPT ![c] = Insert(chist[c], Applied(chist[c], down[c][n]))]
  BY PollEffect
<1>2. chist \in [Client -> History] /\ down[c] \in Seq(Delta)
  BY DEF IInv, TypeOK
<1>3. ASSUME chist' # chist
      PROVE  /\ \A b \in Client \ {c} : chist'[b] = chist[b]
             /\ \E d \in Delta :
                 /\ d.rev \in 2 .. rev /\ chist[c].latest < d.rev
                 /\ chist'[c].latest = d.rev
                 /\ GetLatest(chist'[c]) = [rev |-> d.rev, world |-> log[d.rev]]
  <2> DEFINE d == down[c][n]
             snap == [rev |-> d.rev, world |-> log[d.rev]]
  <2>1. /\ n \in DOMAIN down[c]
        /\ chist' = [chist EXCEPT ![c] = Insert(chist[c], Applied(chist[c], d))]
    BY <1>1, <1>3
  <2>2. /\ Applied(chist[c], d) = snap /\ snap \in Snapshot
        /\ d.rev \in 2 .. rev /\ chist[c].latest < d.rev
    BY <1>1, <2>1, ParseFacts
  <2>3. d \in Delta
    BY <1>2, <2>1
  <2>4. chist'[c] = Insert(chist[c], snap)
    BY <1>2, <2>1, <2>2
  <2>5. /\ chist'[c].latest = d.rev
        /\ \A s \in Slots : chist'[c].slot[s] = IF s = Slot(d.rev) THEN snap ELSE chist[c].slot[s]
    BY <1>2, <2>2, <2>4, InsertType
  <2>6. Slot(d.rev) \in Slots
    BY <2>3, RevFacts, SlotType DEF Delta
  <2>7. GetLatest(chist'[c]) = snap
    BY <2>5, <2>6 DEF GetLatest, Get
  <2>8. \A b \in Client \ {c} : chist'[b] = chist[b]
    BY <1>2, <2>1
  <2>9. QED
    BY <2>2, <2>3, <2>5, <2>7, <2>8
<1>4. QED
  BY <1>3

\* A connected client never sees an older state than it has seen.
THEOREM ForwardOnly == Spec => NeverBackwards
<1> DEFINE Forward == \A c \in online \cap online' : chist[c].latest <= chist'[c].latest
<1>1. ASSUME IInv, Next PROVE Forward
  <2>1. ASSUME NEW c \in online PROVE c \in Client /\ chist[c].latest \in Nat
    BY <1>1, RevFacts DEF IInv, TypeOK, History
  <2>2. CASE chist' = chist
    BY <2>1, <2>2
  <2>3. ASSUME NEW b \in Client, Connect(b) PROVE Forward
    <3>1. \A c \in online : c # b /\ chist'[c] = chist[c]
      BY <1>1, <2>1, <2>3 DEF Connect, IInv, TypeOK
    <3>2. QED
      BY <2>1, <3>1
  <2>4. ASSUME NEW b \in Client, Poll(b) PROVE Forward
    <3>1. ASSUME NEW c \in online PROVE chist[c].latest <= chist'[c].latest
      <4>1. CASE c = b
        <5>1. CASE chist' = chist
          BY <2>1, <3>1, <5>1
        <5>2. CASE chist' # chist
          <6>1. PICK d \in Delta : chist[c].latest < d.rev /\ chist'[c].latest = d.rev
            BY <1>1, <2>4, <4>1, <5>2, PollForward
          <6>2. d.rev \in Nat
            BY RevFacts DEF Delta
          <6>3. QED
            BY <2>1, <3>1, <6>1, <6>2
        <5>3. QED
          BY <5>1, <5>2
      <4>2. CASE c # b
        BY <1>1, <2>1, <2>4, <4>2, PollForward
      <4>3. QED
        BY <4>1, <4>2
    <3>2. QED
      BY <3>1
  <2>5. QED
    BY <1>1, <2>2, <2>3, <2>4
      DEF Next, Publish, SendDelta, ReceiveIntent, Disconnect, clientVars
<1>2. IInv /\ [Next]_vars => [Forward]_vars
  BY <1>1
<1>3. QED
  BY <1>2, Invariance, PTL DEF Spec, NeverBackwards
-----------------------------------------------------------------------------
(* The entity list of a client.                                            *)

\* The changes a client is told of are the difference between its latest world
\* and the one it gets to, whichever state the delta starts from.
LEMMA ReportedFact ==
  ASSUME IInv, NEW c \in online, NEW n \in DOMAIN down[c]
  PROVE  ReportedPatch(chist[c], down[c][n]) =
           GeneratePatch(GetLatest(chist[c]).world, log[down[c][n].rev])
<1> DEFINE d == down[c][n]
           h == chist[c]
<1>0. c \in Client /\ d \in Delta
  <2>1. c \in Client /\ down[c] \in Seq(Delta)
    BY DEF IInv, TypeOK
  <2> QED BY <2>1
<1>1. CanApply(h, d) /\ Applied(h, d).world = log[d.rev]
  <2>1. CanApply(h, d) /\ Applied(h, d) = [rev |-> d.rev, world |-> log[d.rev]]
    BY ParseFacts
  <2> HIDE DEF d, h
  <2> QED BY <2>1
<1>2. CASE d.style = "merge" /\ Slot(d.from) = Slot(h.latest)
  <2>1. /\ d.from \in 2 .. (d.rev - 1)
        /\ d.body = GeneratePatch(log[d.from], log[d.rev])
    BY <1>2 DEF IInv, DeltasGood, GoodDelta
  <2>2. c \in Client /\ d.rev \in Nat /\ d \in Delta
    BY <1>0, RevFacts DEF Delta
  <2>3. Slot(d.from) \in Slots
    BY <2>1, <2>2, SlotType
  <2>4. h.slot[Slot(d.from)].rev = d.from
    BY <1>1, <1>2 DEF CanApply, Holds, Get
  <2>5. h.slot[Slot(d.from)].world = log[d.from]
    BY <2>1, <2>2, <2>3, <2>4, NoStateFact DEF IInv, ClientRing
  <2>6. GetLatest(h).world = log[d.from]
    BY <1>2, <2>5 DEF GetLatest, Get
  <2> QED BY <1>2, <2>1, <2>6 DEF ReportedPatch
<1>3. CASE ~(d.style = "merge" /\ Slot(d.from) = Slot(h.latest))
  BY <1>1, <1>3 DEF ReportedPatch
<1> QED BY <1>2, <1>3

\* Whether the list has an entity of a world
Listed(w, e) == IF w[e] = Absent THEN 0 ELSE 1

\* One more for each entity that is new and one less for each that is gone
LEMMA ListedChange ==
  ASSUME NEW old \in World, NEW new \in World, NEW e \in Entity
  PROVE  LET p == GeneratePatch(old, new)
         IN  Listed(old, e)
               + (IF e \in {x \in DOMAIN p : p[x] # Absent /\ old[x] = Absent} THEN 1 ELSE 0)
               - (IF e \in {x \in DOMAIN p : p[x] = Absent} THEN 1 ELSE 0)
             = Listed(new, e)
<1> DEFINE p == GeneratePatch(old, new)
<1>1. /\ e \in DOMAIN p <=> old[e] # new[e]
      /\ e \in DOMAIN p => p[e] = new[e]
  BY DEF GeneratePatch
<1> HIDE DEF p
<1>2. Listed(old, e)
               + (IF e \in {x \in DOMAIN p : p[x] # Absent /\ old[x] = Absent} THEN 1 ELSE 0)
               - (IF e \in {x \in DOMAIN p : p[x] = Absent} THEN 1 ELSE 0)
             = Listed(new, e)
  BY <1>1 DEF Listed
<1> QED BY <1>2 DEF p

LEMMA MirrorStep ==
  ASSUME IInv, MirrorExact, [Next]_vars
  PROVE  MirrorExact'
<1>0. /\ online \in SUBSET Client /\ chist \in [Client -> History]
      /\ mirror \in [Client -> [Entity -> Int]]
  BY DEF IInv, TypeOK
<1>1. ASSUME NEW c \in Client, Connect(c)
      PROVE  MirrorExact'
  <2>1. /\ online' = online \cup {c} /\ chist' = [chist EXCEPT ![c] = EmptyHistory]
        /\ mirror' = [mirror EXCEPT ![c] = [e \in Entity |-> 0]]
    BY <1>1 DEF Connect
  <2>2. \A e \in Entity : GetLatest(EmptyHistory).world[e] = Absent
    <3>1. Slot(0) \in Slots
      BY SlotType
    <3> QED BY <3>1 DEF GetLatest, Get, EmptyHistory, NoState, EmptyWorld
  <2> QED BY <1>0, <2>1, <2>2 DEF MirrorExact
<1>2. ASSUME NEW c \in Client, Poll(c)
      PROVE  MirrorExact'
  <2>1. c \in online /\ online' = online
    BY <1>2 DEF Poll
  <2>2. PICK n \in 0 .. Len(down[c]) : ReceiveDeltas(c, n)
    BY <1>2 DEF Poll
  <2>3. CASE n = 0
    BY <2>1, <2>2, <2>3 DEF ReceiveDeltas, clientVars, MirrorExact
  <2>4. CASE n # 0
    <3> DEFINE d == down[c][n]
               h == chist[c]
               old == GetLatest(h).world
               new == log[d.rev]
    <3>1. down[c] \in Seq(Delta) /\ n \in DOMAIN down[c]
      BY <2>4 DEF IInv, TypeOK
    <3>2. /\ CanApply(h, d) /\ Applied(h, d) = [rev |-> d.rev, world |-> new]
          /\ Applied(h, d) \in Snapshot
      BY <2>1, <3>1, ParseFacts
    <3>3. ReportedPatch(h, d) = GeneratePatch(old, new)
      BY <2>1, <3>1, ReportedFact
    <3>4. ParseStatediff(c, d)
      BY <2>2, <2>4 DEF ReceiveDeltas
    <3>5. old \in World /\ new \in World
      <4>1. h \in History /\ h.latest \in Int
        BY <1>0, RevFacts DEF History
      <4>2. GetLatest(h) \in Snapshot \cup {NoState}
        BY <4>1, HistoryGet DEF GetLatest
      <4> QED BY <3>2, <4>2, WorldOfState DEF Snapshot
    <3>6. GetLatest(chist'[c]).world = new
      <4>1. chist'[c] = Insert(h, Applied(h, d))
        BY <1>0, <3>2, <3>4 DEF ParseStatediff
      <4>2. d.rev \in Int /\ Slot(d.rev) \in Slots
        <5>1. d \in Delta
          BY <3>1
        <5>2. d.rev \in Int
          BY <5>1, RevFacts DEF Delta
        <5> QED BY <5>2, SlotType
      <4>3. Insert(h, Applied(h, d)).latest = d.rev
            /\ Insert(h, Applied(h, d)).slot[Slot(d.rev)] = Applied(h, d)
        BY <1>0, <3>2, <4>2, InsertType
      <4> QED BY <3>2, <4>1, <4>3 DEF GetLatest, Get
    <3>7. ASSUME NEW e \in Entity
          PROVE  mirror'[c][e] = Listed(new, e)
      <4>1. mirror'[c][e] = mirror[c][e] + (IF e \in NewEntities(h, d) THEN 1 ELSE 0)
                                         - (IF e \in DeletedEntities(h, d) THEN 1 ELSE 0)
        BY <1>0, <3>2, <3>4 DEF ParseStatediff
      <4>2. mirror[c][e] = Listed(old, e)
        BY <2>1 DEF MirrorExact, Listed
      <4>3. LET p == GeneratePatch(old, new)
            IN /\ NewEntities(h, d) = {x \in DOMAIN p : p[x] # Absent /\ old[x] = Absent}
               /\ DeletedEntities(h, d) = {x \in DOMAIN p : p[x] = Absent}
        BY <3>3 DEF NewEntities, DeletedEntities
      <4> HIDE DEF old, new, d, h
      <4> QED BY <3>5, <4>1, <4>2, <4>3, ListedChange
    <3>8. \A b \in Client \ {c} : chist'[b] = chist[b] /\ mirror'[b] = mirror[b]
      BY <1>0, <3>2, <3>4 DEF ParseStatediff
    <3> HIDE DEF new
    <3>9. \A e \in Entity :
            mirror'[c][e] = IF GetLatest(chist'[c]).world[e] = Absent THEN 0 ELSE 1
      BY <3>6, <3>7 DEF Listed
    <3>10. ASSUME NEW b \in online', NEW e \in Entity, b # c
           PROVE  mirror'[b][e] = IF GetLatest(chist'[b]).world[e] = Absent THEN 0 ELSE 1
      BY <1>0, <2>1, <3>8, <3>10 DEF MirrorExact
    <3> QED BY <3>9, <3>10 DEF MirrorExact
  <2> QED BY <2>3, <2>4
<1>3. ASSUME NEW c \in Client, Disconnect(c)
      PROVE  MirrorExact'
  BY <1>0, <1>3 DEF Disconnect, clientVars, MirrorExact
<1>4. CASE UNCHANGED <<online, chist, mirror>>
  BY <1>4 DEF MirrorExact
<1> QED BY <1>1, <1>2, <1>3, <1>4
        DEF Next, Publish, SendDelta, ReceiveIntent, clientVars, vars

\* The entity list a client keeps from the reported changes has exactly the
\* entities of its latest state: nothing is created twice or deleted unseen.
THEOREM MirrorTheorem == Spec => []MirrorExact
<1>1. Init => MirrorExact
  BY DEF Init, MirrorExact
<1>2. IInv /\ MirrorExact /\ [Next]_vars => MirrorExact'
  BY MirrorStep
<1> QED BY <1>1, <1>2, Invariance, PTL DEF Spec

-----------------------------------------------------------------------------
(* Refinement of PublishedWorld.                                           *)

\* What the abstract specification calls the view of the clients.
View == [c \in Client |-> GetLatest(chist[c])]

LEMMA ViewFacts ==
  ASSUME IInv, NEW c \in Client
  PROVE  /\ View[c] = GetLatest(chist[c])
         /\ View[c].rev <= chist[c].latest /\ View[c].rev \in Int
<1>1. View[c] = GetLatest(chist[c])
  BY DEF View
<1>2. chist[c].latest \in Nat /\ chist[c] \in History
  BY RevFacts DEF IInv, TypeOK, History
<1>3. CASE chist[c].latest = 0
  <2>1. Slot(0) \in Slots
    BY SlotType
  <2>2. \A s \in Slots : chist[c].slot[s] = NoState
    BY <1>3 DEF IInv, ClientRing
  <2>3. QED
    BY <1>1, <1>2, <1>3, <2>1, <2>2, NoStateFact DEF GetLatest, Get
<1>4. CASE chist[c].latest # 0
  BY <1>1, <1>2, <1>4 DEF IInv, ClientRing, Holds, GetLatest
<1>5. QED
  BY <1>3, <1>4

LEMMA InitRefines == Init => Abs!Init
<1>1. SUFFICES ASSUME Init PROVE Abs!Init
  OBVIOUS
<1>2. 1 \in Rev
  BY HistoryAssumption DEF Rev
<1>3. log[1] = InitWorld
  BY <1>1, <1>2 DEF Init
<1>4. \A c \in Client : GetLatest(chist[c]) = NoState
  BY <1>1, SlotType, HistoryAssumption, RevFacts DEF Init, EmptyHistory, GetLatest, Get
<1>5. View = [c \in Client |-> NoState]
  BY <1>4 DEF View
<1>6. QED
  BY <1>1, <1>3, <1>5 DEF Init, View, Abs!Init

LEMMA StepRefines ==
  ASSUME IInv, [Next]_vars
  PROVE  [Abs!Next]_(Abs!vars)
<1> USE DEF View
<1>1. CASE View' = View /\ UNCHANGED <<rev, log, online>>
  BY <1>1 DEF Abs!vars
<1>2. ASSUME NEW w \in World, Publish(w) PROVE Abs!Next
  <2>1. rev \in Nat /\ rev < MaxRev
    BY <1>2, RevFacts DEF Publish, IInv, TypeOK
  <2>2. NextRev = rev + 1
    BY <2>1, NoWrapAssumption, HistoryAssumption, SyncAssumption DEF NextRev
  <2>3. rev' = rev + 1 /\ log' = [log EXCEPT ![rev'] = w] /\ UNCHANGED <<online, chist>>
    BY <1>2, <2>2 DEF Publish, clientVars
  <2>4. View' = View
    BY <2>3
  <2>5. Abs!Publish(w)
    BY <2>3, <2>4 DEF Abs!Publish
  <2>6. QED
    BY <2>5 DEF Abs!Next
<1>3. ASSUME NEW c \in Client, Connect(c) PROVE Abs!Next
  <2>1. /\ c \notin online /\ online' = online \cup {c}
        /\ chist' = [chist EXCEPT ![c] = EmptyHistory] /\ UNCHANGED <<rev, log>>
    BY <1>3 DEF Connect
  <2>2. GetLatest(EmptyHistory) = NoState
    BY SlotType DEF EmptyHistory, GetLatest, Get
  <2>3. chist \in [Client -> History]
    BY DEF IInv, TypeOK
  <2>4. View' = [View EXCEPT ![c] = NoState]
    BY <2>1, <2>2, <2>3
  <2>5. Abs!Join(c)
    BY <2>1, <2>4 DEF Abs!Join
  <2>6. QED
    BY <2>5 DEF Abs!Next
<1>4. ASSUME NEW c \in Client, Disconnect(c) PROVE Abs!Next
  <2>1. c \in online /\ online' = online \ {c} /\ UNCHANGED <<rev, log, chist>>
    BY <1>4 DEF Disconnect, clientVars
  <2>2. View' = View
    BY <2>1
  <2>3. Abs!Leave(c)
    BY <2>1, <2>2 DEF Abs!Leave
  <2>4. QED
    BY <2>3 DEF Abs!Next
<1>5. ASSUME NEW c \in Client, Poll(c), chist' # chist PROVE Abs!Next
  <2>1. /\ c \in online /\ UNCHANGED <<rev, log, online>>
        /\ \A b \in Client \ {c} : chist'[b] = chist[b]
    BY <1>5, PollForward DEF Poll, serverVars
  <2>2. PICK d \in Delta :
          /\ d.rev \in 2 .. rev /\ chist[c].latest < d.rev
          /\ GetLatest(chist'[c]) = [rev |-> d.rev, world |-> log[d.rev]]
    BY <1>5, PollForward
  <2>3. View[c].rev < d.rev
    <3>1. View[c].rev <= chist[c].latest /\ View[c].rev \in Int
      BY ViewFacts
    <3>2. chist[c].latest \in Nat /\ d.rev \in Nat
      BY RevFacts DEF IInv, TypeOK, History, Delta
    <3>3. QED
      BY <2>2, <3>1, <3>2
  <2>4. View' = [View EXCEPT ![c] = [rev |-> d.rev, world |-> log[d.rev]]]
    BY <2>1, <2>2
  <2>5. Abs!Observe(c)
    BY <2>1, <2>2, <2>3, <2>4 DEF Abs!Observe
  <2>6. QED
    BY <2>5 DEF Abs!Next
<1>6. CASE chist' = chist /\ UNCHANGED <<rev, log, online>>
  BY <1>1, <1>6
<1>7. CASE UNCHANGED vars
  BY <1>6, <1>7 DEF vars, clientVars, serverVars
<1>8. ASSUME NEW c \in Client, SendDelta(c) \/ ReceiveIntent(c) \/ (Poll(c) /\ chist' = chist)
      PROVE  [Abs!Next]_(Abs!vars)
  BY <1>6, <1>8 DEF SendDelta, ReceiveIntent, Poll, clientVars, serverVars
<1>9. ASSUME NEW c \in Client, Poll(c) PROVE [Abs!Next]_(Abs!vars)
  BY <1>5, <1>8, <1>9
<1>10. CASE Next
  <2>1. CASE \E w \in World : Publish(w)
    BY <1>2, <2>1
  <2>2. ASSUME NEW c \in Client, SendDelta(c) \/ ReceiveIntent(c)
        PROVE  [Abs!Next]_(Abs!vars)
    BY <1>8, <2>2
  <2>3. ASSUME NEW c \in Client, Connect(c) \/ Disconnect(c)
        PROVE  Abs!Next
    BY <1>3, <1>4, <2>3
  <2>4. QED
    BY <1>9, <1>10, <2>1, <2>2, <2>3 DEF Next
<1>11. QED
  BY <1>7, <1>10

\* State replication keeps its promise: seen from its clients the place
\* publishes worlds, and each client sees one of them after another.
THEOREM Refinement == Spec => ImplementsPublishedWorld
<1>1. IInv /\ [Next]_vars => [Abs!Next]_(Abs!vars)
  BY StepRefines
<1>2. QED
  BY <1>1, InitRefines, Invariance, PTL DEF Spec, ImplementsPublishedWorld, Abs!Spec
=============================================================================
