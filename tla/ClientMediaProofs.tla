-------------------------- MODULE ClientMediaProofs --------------------------
(***************************************************************************)
(* Proofs about ClientMedia for any number of entities, tracks and queued  *)
(* messages.                                                               *)
(***************************************************************************)
EXTENDS ClientMedia, TLAPS

-----------------------------------------------------------------------------
(* The inductive invariant.                                                *)

\* Every world that the client still gets to see, and those it compares.
Worlds == {world, before, applied, posting.world}
            \cup {toProxy[i].world : i \in DOMAIN toProxy}

SameOwner(v, w) ==
  \A e, f \in Entity : v[e].id = w[f].id /\ v[e].id # 0 => e = f

\* A track belongs to the same entity in all of them, and its id was allocated.
WorldsOK ==
  /\ \A v, w \in Worlds : SameOwner(v, w)
  /\ \A w \in Worlds : \A e \in Entity : w[e].id < nextId

\* What is left of the difference; at most one update is half done.
DiffOK ==
  /\ handling.type # "delta" => todo = {} /\ before = applied
  /\ \A e \in todo : before[e] # applied[e]
  /\ gap \subseteq Updated
  /\ gap # {} => New = {}
  /\ \A e, f \in gap : e = f

\* The component whose track the list has for an entity, in the middle of a
\* difference too.
Shown == [e \in Entity |->
  IF e \in gap THEN Absent ELSE IF e \in todo THEN before[e] ELSE applied[e]]

TracksOK == tracks = Playing(Shown)

UseOK ==
  /\ net \in {"decoding", "encoding"} => coding \in tracks
  /\ net = "posting" => posting \in Message

\* Media under way is of announced tracks.
MediaOK ==
  /\ posting.type = "media" => posting.id \in announced
  /\ \A i \in DOMAIN toProxy : toProxy[i].type = "media" => toProxy[i].id \in announced
  /\ handling.type = "media" => handling.id \in announced
  /\ Ids(before) \subseteq announced /\ Ids(applied) \subseteq announced

IInv == TypeOK /\ WorldsOK /\ DiffOK /\ TracksOK /\ UseOK /\ MediaOK

-----------------------------------------------------------------------------
(* Types.                                                                  *)

LEMMA ComponentTypes ==
  /\ Absent \notin Component /\ Nowhere \in World
  /\ \A c \in Component : c.id \in Nat /\ c.id # 0 /\ c.format \in Format
  /\ \A w \in World : \A e \in Entity : w[e] \in Component \cup {Absent} /\ w[e].id \in Nat
  /\ \A w \in World : \A e \in Entity : w[e].id = 0 <=> w[e] = Absent
<1>1. \A c \in Component : c.id \in Nat /\ c.id # 0 /\ c.format \in Format
  BY DEF Component
<1>2. Absent \notin Component /\ Absent.id = 0
  BY <1>1 DEF Absent
<1>3. Nowhere \in World
  BY DEF Nowhere, World
<1>4. \A w \in World : \A e \in Entity : w[e] \in Component \cup {Absent}
  BY DEF World
<1> QED BY <1>1, <1>2, <1>3, <1>4

LEMMA Rewidened ==
  ASSUME NEW c \in Component
  PROVE  /\ [c EXCEPT !.wide = ~@] \in Component
         /\ [c EXCEPT !.wide = ~@].id = c.id
<1>1. c.wide \in BOOLEAN
  BY DEF Component
<1>2. (~c.wide) \in BOOLEAN
  OBVIOUS
<1>3. \A b \in BOOLEAN : [c EXCEPT !.wide = b] \in Component /\ [c EXCEPT !.wide = b].id = c.id
  BY DEF Component
<1> QED BY <1>2, <1>3

LEMMA MessageTypes ==
  /\ \A w \in World : Delta(w) \in Message
  /\ \A id \in Nat : Media(id) \in Message
  /\ NoMessage \notin Message
  /\ \A m \in Message : m.world \in World /\ m.id \in Nat
BY ComponentTypes DEF Delta, Media, NoMessage, Message

LEMMA PlayingTypes ==
  ASSUME NEW w \in World, NEW c \in Playing(w)
  PROVE  c \in Component
BY MediaAssumption DEF Playing, World, Absent, Format

LEMMA TypeInit == Init => TypeOK
<1>1. Init => toProxy \in Seq(Message) /\ toBridge \in Seq(Nat)
  BY DEF Init
<1>2. Init => /\ world \in World /\ received \in World /\ before \in World /\ applied \in World
              /\ coding = Absent /\ posting = NoMessage /\ handling = NoMessage
  BY ComponentTypes DEF Init
<1>3. Init => /\ nextId = 1 /\ changes = 0 /\ net = "network" /\ ~polling /\ polling \in BOOLEAN
              /\ todo = {} /\ gap = {} /\ tracks = {} /\ announced = {}
  BY DEF Init
<1> SUFFICES ASSUME Init PROVE TypeOK
  OBVIOUS
<1>4. coding \in Component \cup {Absent} /\ posting \in Message \cup {NoMessage}
      /\ handling \in Message \cup {NoMessage}
  BY <1>2
<1>5. todo \subseteq Entity /\ gap \subseteq Entity /\ tracks \subseteq Component
      /\ announced \subseteq Nat /\ polling \in BOOLEAN
  BY <1>3
<1> QED BY <1>1, <1>2, <1>3, <1>4, <1>5 DEF TypeOK

LEMMA TypeStep == TypeOK /\ UseOK /\ [Next]_vars => TypeOK'
<1> SUFFICES ASSUME TypeOK, UseOK, [Next]_vars
             PROVE  TypeOK'
  OBVIOUS
<1> USE ComponentTypes, MessageTypes
<1>1. ASSUME NEW e \in Entity, NEW format \in Format, Allocate(e, format)
      PROVE  TypeOK'
  <2>1. [id |-> nextId, format |-> format, wide |-> FALSE] \in Component
    BY DEF TypeOK, Component
  <2> QED BY <1>1, <2>1 DEF TypeOK, Allocate, SetComponent, World, netVars, appVars
<1>2. ASSUME NEW e \in Entity, ChangeMetadata(e)
      PROVE  TypeOK'
  <2>1. world[e] \in Component
    BY <1>2 DEF TypeOK, ChangeMetadata
  <2>2. [world[e] EXCEPT !.wide = ~@] \in Component
    BY <2>1, Rewidened
  <2> QED BY <1>2, <2>2 DEF TypeOK, ChangeMetadata, SetComponent, World, netVars, appVars
<1>3. ASSUME NEW e \in Entity, RemoveComponent(e)
      PROVE  TypeOK'
  BY <1>3 DEF TypeOK, RemoveComponent, SetComponent, World, netVars, appVars
<1>4. ASSUME NEW id \in 1 .. (nextId - 1), ReceiveFrame(id)
      PROVE  TypeOK'
  BY <1>4 DEF TypeOK, ReceiveFrame, Found, placeVars, appVars
<1>5. CASE ReceiveDelta
  BY <1>5 DEF TypeOK, ReceiveDelta, placeVars, appVars
<1>6. CASE Decoded
  <2>1. coding.id \in Nat
    BY DEF TypeOK, Absent
  <2> QED BY <1>6, <2>1 DEF TypeOK, Decoded, placeVars, appVars
<1>7. CASE Undecodable
  BY <1>7 DEF TypeOK, Undecodable, placeVars, appVars
<1>8. CASE Post
  BY <1>8 DEF TypeOK, UseOK, Post, placeVars, appVars
<1>9. CASE SendMedia
  <2>1. coding' \in Component \cup {Absent}
    BY <1>9 DEF TypeOK, SendMedia, VideoTrack, Found
  <2> QED BY <1>9, <2>1 DEF TypeOK, SendMedia, placeVars, appVars
<1>10. CASE EndNetwork \/ Encoded \/ EndCalls
  BY <1>10 DEF TypeOK, EndNetwork, Encoded, EndCalls, placeVars, appVars
<1>11. ASSUME NEW id \in 1 .. (nextId - 1), CallSend(id)
       PROVE  TypeOK'
  BY <1>11 DEF TypeOK, CallSend, placeVars, netVars, appVars
<1>12. CASE TakeMessage
  <2>1. handling' \in Message /\ toProxy' \in Seq(Message)
    BY <1>12 DEF TypeOK, TakeMessage
  <2>2. applied' \in World /\ todo' \subseteq Entity
    BY <1>12, <2>1 DEF TypeOK, TakeMessage
  <2>3. Ids(applied') \subseteq Nat
    BY <2>2 DEF Ids
  <2>4. announced' \subseteq Nat
    BY <1>12, <2>3 DEF TypeOK, TakeMessage
  <2> QED BY <1>12, <2>1, <2>2, <2>4 DEF TypeOK, TakeMessage, placeVars, netVars
<1>13. CASE StartPoll \/ FinishMessage \/ EndPoll
  BY <1>13 DEF TypeOK, StartPoll, FinishMessage, EndPoll, placeVars, netVars
<1>14. ASSUME NEW e \in Entity, HandleStateDiff(e)
       PROVE  TypeOK'
  <2>1. e \in todo \/ e \in gap => applied[e] \in Component \cup {Absent}
    BY DEF TypeOK
  <2>2. WithTrack(applied[e]) \subseteq Component
    BY MediaAssumption DEF TypeOK, WithTrack, Absent, Format
  <2>3. WithoutTrack(before[e].id) \subseteq Component
    BY DEF TypeOK, WithoutTrack
  <2>4. tracks' \subseteq Component /\ todo' \subseteq Entity /\ gap' \subseteq Entity
    BY <1>14, <2>2, <2>3
       DEF TypeOK, HandleStateDiff, AddNew, RemoveUpdated, AddUpdated, RemoveDeleted
  <2>5. TrackStep
    BY <1>14 DEF HandleStateDiff, AddNew, RemoveUpdated, AddUpdated, RemoveDeleted
  <2> QED BY <2>4, <2>5 DEF TypeOK, TrackStep, placeVars, netVars
<1>15. CASE UNCHANGED vars
  BY <1>15 DEF TypeOK, vars, placeVars, netVars, appVars
<1> QED
  BY <1>1, <1>2, <1>3, <1>4, <1>5, <1>6, <1>7, <1>8, <1>9, <1>10, <1>11, <1>12,
     <1>13, <1>14, <1>15 DEF Next, PlaceStep, NetStep, AppStep

-----------------------------------------------------------------------------
(* A track has one owner.                                                  *)

\* Only the place makes worlds.
LEMMA WorldsInherited ==
  ASSUME TypeOK, NetStep \/ AppStep \/ UNCHANGED vars
  PROVE  Worlds' \subseteq Worlds \cup {Nowhere} /\ nextId' = nextId
<1>1. CASE Post
  <2>1. \A i \in DOMAIN toProxy' :
          toProxy'[i].world = posting.world \/ (i \in DOMAIN toProxy /\ toProxy'[i] = toProxy[i])
    BY <1>1 DEF Post, TypeOK
  <2>2. posting'.world = Nowhere
    BY <1>1 DEF Post, NoMessage
  <2>3. world' = world /\ before' = before /\ applied' = applied /\ nextId' = nextId
    BY <1>1 DEF Post, placeVars, appVars
  <2> QED BY <2>1, <2>2, <2>3 DEF Worlds
<1>2. CASE TakeMessage
  <2>1. \A i \in DOMAIN toProxy' : i + 1 \in DOMAIN toProxy /\ toProxy'[i] = toProxy[i + 1]
    BY <1>2 DEF TakeMessage, TypeOK
  <2>2. 1 \in DOMAIN toProxy /\ handling' = toProxy[1]
    BY <1>2 DEF TakeMessage, TypeOK
  <2>3. applied' = applied \/ applied' = toProxy[1].world
    BY <1>2, <2>2 DEF TakeMessage
  <2>4. world' = world /\ before' = before /\ posting' = posting /\ nextId' = nextId
    BY <1>2 DEF TakeMessage, placeVars, netVars
  <2>5. \A i \in DOMAIN toProxy' : toProxy'[i].world \in Worlds
    BY <2>1 DEF Worlds
  <2>6. applied' \in Worlds
    BY <2>2, <2>3 DEF Worlds
  <2> QED BY <2>4, <2>5, <2>6 DEF Worlds
<1>3. CASE ReceiveDelta \/ Decoded
  BY <1>3 DEF ReceiveDelta, Decoded, Delta, Media, Worlds, placeVars, appVars
<1>4. CASE FinishMessage
  BY <1>4 DEF FinishMessage, Worlds, placeVars, netVars
<1>5. CASE Undecodable \/ EndNetwork \/ SendMedia \/ Encoded \/ EndCalls
  BY <1>5 DEF Undecodable, EndNetwork, SendMedia, Encoded, EndCalls, Worlds, placeVars, appVars
<1>6. ASSUME NEW id \in 1 .. (nextId - 1), ReceiveFrame(id) \/ CallSend(id)
      PROVE  Worlds' \subseteq Worlds /\ nextId' = nextId
  BY <1>6 DEF ReceiveFrame, CallSend, Worlds, placeVars, netVars, appVars
<1>7. CASE StartPoll \/ EndPoll \/ UNCHANGED vars
  BY <1>7 DEF StartPoll, EndPoll, Worlds, vars, placeVars, netVars, appVars
<1>8. ASSUME NEW e \in Entity, HandleStateDiff(e)
      PROVE  Worlds' \subseteq Worlds /\ nextId' = nextId
  BY <1>8 DEF HandleStateDiff, AddNew, RemoveUpdated, AddUpdated, RemoveDeleted,
              TrackStep, Worlds, placeVars, netVars
<1> QED BY <1>1, <1>2, <1>3, <1>4, <1>5, <1>6, <1>7, <1>8 DEF NetStep, AppStep

\* The place keeps, takes or gives an entity the next id.
LEMMA PlaceWorlds ==
  ASSUME TypeOK, PlaceStep
  PROVE  /\ Worlds' \subseteq Worlds \cup {world'}
         /\ nextId' \in Nat /\ nextId' >= nextId
         /\ \A e \in Entity :
              \/ world'[e].id \in {world[e].id, 0}
              \/ /\ world'[e].id = nextId /\ nextId' = nextId + 1
                 /\ \A f \in Entity : f # e => world'[f] = world[f]
<1>1. PICK e \in Entity : (\E format \in Format : Allocate(e, format))
                          \/ ChangeMetadata(e) \/ RemoveComponent(e)
  BY DEF PlaceStep
<1>2. PICK c : SetComponent(e, c) /\ (c.id \in {world[e].id, 0}
                 \/ (c.id = nextId /\ nextId' = nextId + 1))
  <2>1. ASSUME NEW format \in Format, Allocate(e, format)
        PROVE  \E c : SetComponent(e, c) /\ c.id = nextId /\ nextId' = nextId + 1
    BY <2>1 DEF Allocate
  <2>2. ASSUME ChangeMetadata(e)
        PROVE  \E c : SetComponent(e, c) /\ c.id = world[e].id
    <3>1. [world[e] EXCEPT !.wide = ~@].id = world[e].id
      BY <2>2, Rewidened, ComponentTypes DEF ChangeMetadata, TypeOK
    <3> QED BY <2>2, <3>1 DEF ChangeMetadata
  <2>3. ASSUME RemoveComponent(e)
        PROVE  \E c : SetComponent(e, c) /\ c.id = 0
    BY <2>3 DEF RemoveComponent, Absent
  <2> QED BY <1>1, <2>1, <2>2, <2>3
<1>3. nextId' \in Nat /\ nextId' >= nextId
  <2>1. nextId' = nextId \/ nextId' = nextId + 1
    BY <1>1 DEF Allocate, ChangeMetadata, RemoveComponent
  <2> QED BY <2>1 DEF TypeOK
<1>4. world' = [world EXCEPT ![e] = c] /\ UNCHANGED <<netVars, appVars, toProxy>>
  BY <1>2 DEF SetComponent
<1>5. Worlds' \subseteq Worlds \cup {world'}
  BY <1>4 DEF Worlds, netVars, appVars
<1> QED BY <1>2, <1>3, <1>4, <1>5 DEF TypeOK, World

LEMMA WorldsStep == TypeOK /\ TypeOK' /\ WorldsOK /\ [Next]_vars => WorldsOK'
<1> SUFFICES ASSUME TypeOK, TypeOK', WorldsOK, [Next]_vars
             PROVE  WorldsOK'
  OBVIOUS
<1> DEFINE Made == Worlds \cup {Nowhere}
<1>0. \A w \in Worlds : \A e \in Entity : w[e].id < nextId
  BY DEF WorldsOK
<1>1. \A v, w \in Made : SameOwner(v, w)
  BY DEF WorldsOK, SameOwner, Nowhere, Absent
<1>2. \A w \in Made : \A e \in Entity : w[e].id < nextId
  BY <1>0 DEF Nowhere, Absent, TypeOK
<1>3. CASE NetStep \/ AppStep \/ UNCHANGED vars
  <2>1. Worlds' \subseteq Made /\ nextId' = nextId
    BY <1>3, WorldsInherited
  <2> QED BY <1>1, <1>2, <2>1 DEF WorldsOK, SameOwner
<1>4. CASE PlaceStep
  <2>1. Worlds' \subseteq Worlds \cup {world'} /\ world \in Worlds
    BY <1>4, PlaceWorlds DEF Worlds
  <2>2. \A w \in Worlds : SameOwner(w, world') /\ SameOwner(world', w)
    <3> SUFFICES ASSUME NEW w \in Worlds, NEW e \in Entity, NEW f \in Entity,
                        w[f].id = world'[e].id, world'[e].id # 0
                 PROVE  e = f
      BY DEF SameOwner
    <3>1. world'[e].id # nextId
      BY <1>0 DEF TypeOK
    <3>2. world'[e].id = world[e].id
      BY <1>4, <3>1, PlaceWorlds
    <3> QED BY <3>2, <2>1 DEF WorldsOK, SameOwner
  <2>3. SameOwner(world', world')
    <3> SUFFICES ASSUME NEW e \in Entity, NEW f \in Entity,
                        world'[e].id = world'[f].id, world'[e].id # 0
                 PROVE  e = f
      BY DEF SameOwner
    <3>1. CASE world'[e].id = world[e].id
      BY <3>1, <2>1, <2>2 DEF SameOwner
    <3>2. CASE world'[f].id = world[f].id
      BY <3>2, <2>1, <2>2 DEF SameOwner
    <3>3. CASE world'[e].id = nextId /\ world'[e].id # world[e].id /\ world'[f].id # world[f].id
      <4>1. \A g \in Entity : g # e => world'[g] = world[g]
        BY <1>4, <3>3, PlaceWorlds
      <4> QED BY <3>3, <4>1
    <3> QED BY <1>4, <3>1, <3>2, <3>3, PlaceWorlds
  <2>4. \A e \in Entity : world'[e].id < nextId'
    <3> SUFFICES ASSUME NEW e \in Entity
                 PROVE  world'[e].id < nextId'
      OBVIOUS
    <3>1. world[e].id \in Nat /\ world[e].id < nextId /\ nextId \in Nat \ {0}
      BY <1>0, <2>1, ComponentTypes DEF TypeOK
    <3>2. world'[e].id \in {world[e].id, 0} \/ (world'[e].id = nextId /\ nextId' = nextId + 1)
      BY <1>4, PlaceWorlds
    <3>3. nextId' \in Nat /\ nextId' >= nextId
      BY <1>4, PlaceWorlds
    <3> QED BY <3>1, <3>2, <3>3
  <2>5. \A w \in Worlds : \A e \in Entity : w[e].id < nextId'
    <3> SUFFICES ASSUME NEW w \in Worlds, NEW e \in Entity
                 PROVE  w[e].id < nextId'
      OBVIOUS
    <3>1. w \in World
      BY ComponentTypes, MessageTypes DEF Worlds, TypeOK, NoMessage
    <3> QED BY <1>4, <1>0, <3>1, PlaceWorlds, ComponentTypes DEF TypeOK
  <2> QED BY <2>1, <2>2, <2>3, <2>4, <2>5 DEF WorldsOK
<1> QED BY <1>3, <1>4 DEF Next

-----------------------------------------------------------------------------
(* The difference under way.                                               *)

LEMMA DiffStep == TypeOK /\ DiffOK /\ [Next]_vars => DiffOK'
<1> SUFFICES ASSUME TypeOK, DiffOK, [Next]_vars
             PROVE  DiffOK'
  OBVIOUS
<1> USE DEF New, Deleted, Updated
<1>1. CASE PlaceStep \/ NetStep \/ UNCHANGED vars
  <2>1. UNCHANGED appVars
    BY <1>1 DEF PlaceStep, NetStep, Allocate, ChangeMetadata, RemoveComponent, SetComponent,
                ReceiveDelta, ReceiveFrame, Decoded, Undecodable, Post, EndNetwork,
                SendMedia, Encoded, EndCalls, vars
  <2> QED BY <2>1 DEF DiffOK, appVars
<1>2. CASE TakeMessage
  <2>1. todo = {} /\ gap = {} /\ before = applied
    BY <1>2 DEF DiffOK, TakeMessage, Handling, NoMessage
  <2>2. gap' = {} /\ before' = before
    BY <1>2, <2>1 DEF TakeMessage
  <2>3. CASE handling'.type = "delta"
    BY <1>2, <2>1, <2>2, <2>3 DEF DiffOK, TakeMessage
  <2>4. CASE handling'.type # "delta"
    BY <1>2, <2>1, <2>2, <2>4 DEF DiffOK, TakeMessage
  <2> QED BY <2>3, <2>4
<1>3. CASE FinishMessage
  BY <1>3 DEF DiffOK, FinishMessage, NoMessage
<1>4. CASE StartPoll \/ EndPoll
  BY <1>4 DEF DiffOK, StartPoll, EndPoll
<1>5. ASSUME NEW id \in 1 .. (nextId - 1), CallSend(id)
      PROVE  DiffOK'
  BY <1>5 DEF DiffOK, CallSend, appVars
<1>6. ASSUME NEW e \in Entity, HandleStateDiff(e)
      PROVE  DiffOK'
  <2>1. before' = before /\ applied' = applied /\ handling' = handling
    BY <1>6 DEF HandleStateDiff, AddNew, RemoveUpdated, AddUpdated, RemoveDeleted, TrackStep
  <2>2. handling.type = "delta"
    BY <1>6 DEF DiffOK, HandleStateDiff, AddNew, RemoveUpdated, AddUpdated, RemoveDeleted
  <2>3. CASE AddNew(e)
    BY <2>1, <2>2, <2>3 DEF DiffOK, AddNew
  <2>4. CASE RemoveUpdated(e)
    BY <2>1, <2>2, <2>4 DEF DiffOK, RemoveUpdated
  <2>5. CASE AddUpdated(e)
    BY <2>1, <2>2, <2>5 DEF DiffOK, AddUpdated
  <2>6. CASE RemoveDeleted(e)
    BY <2>1, <2>2, <2>6 DEF DiffOK, RemoveDeleted
  <2> QED BY <1>6, <2>3, <2>4, <2>5, <2>6 DEF HandleStateDiff
<1> QED BY <1>1, <1>2, <1>3, <1>4, <1>5, <1>6 DEF Next, AppStep

-----------------------------------------------------------------------------
(* The track list in the middle of a difference.                           *)

LEMMA InPlaying ==
  ASSUME NEW w, NEW c
  PROVE  c \in Playing(w) <=> \E e \in Entity : c = w[e] /\ w[e].format \in Registered
BY DEF Playing

LEMMA AbsentIsSilent == Absent.format \notin Registered /\ Absent.id = 0
BY MediaAssumption DEF Absent, Format

\* The ids of what is shown are those of the worlds before and after.
LEMMA ShownOwner ==
  ASSUME TypeOK, WorldsOK, NEW e \in Entity, NEW f \in Entity,
         NEW w \in {before, applied}, Shown[f].id = w[e].id, w[e].id # 0
  PROVE  f = e
<1>1. before \in Worlds /\ applied \in Worlds
  BY DEF Worlds
<1>2. Shown[f] \in {before[f], applied[f], Absent}
  BY DEF Shown
<1> QED BY <1>1, <1>2, AbsentIsSilent DEF WorldsOK, SameOwner

\* Only the entity's own track changes.
LEMMA ShownElsewhere ==
  ASSUME NEW e \in Entity, HandleStateDiff(e), DiffOK
  PROVE  \A f \in Entity : f # e => Shown'[f] = Shown[f]
<1>1. before' = before /\ applied' = applied
  BY DEF HandleStateDiff, AddNew, RemoveUpdated, AddUpdated, RemoveDeleted, TrackStep
<1>2. \A f \in Entity : f # e => (f \in todo' <=> f \in todo)
  BY DEF HandleStateDiff, AddNew, RemoveUpdated, AddUpdated, RemoveDeleted
<1>3. \A f \in Entity : f # e => (f \in gap' <=> f \in gap)
  BY DEF HandleStateDiff, AddNew, RemoveUpdated, AddUpdated, RemoveDeleted, DiffOK
<1> QED BY <1>1, <1>2, <1>3 DEF Shown

\* Adding a component's track when the entity shows none.
LEMMA TrackAdded ==
  ASSUME TypeOK, WorldsOK, TracksOK, DiffOK, NEW e \in Entity, HandleStateDiff(e),
         Shown[e] = Absent, Shown'[e] = applied[e], applied[e] # Absent,
         tracks' = WithTrack(applied[e])
  PROVE  tracks' = Playing(Shown')
<1> DEFINE c == applied[e]
<1>1. c.id # 0
  BY ComponentTypes DEF TypeOK
<1>2. Found(c.id) = {}
  <2> SUFFICES ASSUME NEW t \in tracks, t.id = c.id
               PROVE  FALSE
    BY DEF Found
  <2>1. PICK f \in Entity : t = Shown[f]
    BY InPlaying DEF TracksOK
  <2>2. f = e
    BY <1>1, <2>1, ShownOwner
  <2> QED BY <1>1, <2>1, <2>2, AbsentIsSilent
<1>3. tracks' = IF c.format \in Registered THEN tracks \cup {c} ELSE tracks
  BY <1>2 DEF WithTrack
<1>4. \A t : t \in tracks' <=> t \in Playing(Shown) \/ (t = c /\ c.format \in Registered)
  BY <1>3 DEF TracksOK
<1>5. \A t : t \in Playing(Shown') <=> t \in Playing(Shown) \/ (t = c /\ c.format \in Registered)
  <2> SUFFICES ASSUME NEW t
               PROVE  t \in Playing(Shown') <=> t \in Playing(Shown) \/ (t = c /\ c.format \in Registered)
    OBVIOUS
  <2>1. \A f \in Entity : f # e => Shown'[f] = Shown[f]
    BY ShownElsewhere
  <2>2. Shown[e].format \notin Registered
    BY AbsentIsSilent
  <2>3. t \in Playing(Shown) <=> \E f \in Entity : f # e /\ t = Shown[f] /\ Shown[f].format \in Registered
    BY <2>2, InPlaying
  <2>4. t \in Playing(Shown') <=> \E f \in Entity : t = Shown'[f] /\ Shown'[f].format \in Registered
    BY InPlaying
  <2> QED BY <2>1, <2>3, <2>4
<1> QED BY <1>4, <1>5

\* Removing the track of a component that the entity shows.
LEMMA TrackRemoved ==
  ASSUME TypeOK, WorldsOK, TracksOK, DiffOK, NEW e \in Entity, HandleStateDiff(e),
         Shown[e] = before[e], Shown'[e] = Absent, before[e] # Absent,
         tracks' = WithoutTrack(before[e].id)
  PROVE  tracks' = Playing(Shown')
<1>1. before[e].id # 0
  BY ComponentTypes DEF TypeOK
<1>2. \A f \in Entity : Shown[f].id = before[e].id <=> f = e
  BY <1>1, ShownOwner
<1>3. \A t : t \in tracks' <=> t \in Playing(Shown) /\ t.id # before[e].id
  BY DEF WithoutTrack, Found, TracksOK
<1>4. \A t : t \in tracks' <=>
        \E f \in Entity : f # e /\ t = Shown[f] /\ Shown[f].format \in Registered
  BY <1>2, <1>3, InPlaying
<1>5. \A f \in Entity : f # e => Shown'[f] = Shown[f]
  BY ShownElsewhere
<1>6. \A t : t \in Playing(Shown') <=>
        \E f \in Entity : f # e /\ t = Shown[f] /\ Shown[f].format \in Registered
  BY <1>5, AbsentIsSilent, InPlaying
<1> QED BY <1>4, <1>6

LEMMA TracksStep == TypeOK /\ WorldsOK /\ DiffOK /\ TracksOK /\ [Next]_vars => TracksOK'
<1> SUFFICES ASSUME TypeOK, WorldsOK, DiffOK, TracksOK, [Next]_vars
             PROVE  TracksOK'
  OBVIOUS
<1>1. ASSUME UNCHANGED tracks, \A e \in Entity : Shown'[e] = Shown[e]
      PROVE  TracksOK'
  BY <1>1 DEF TracksOK, Playing
<1>2. CASE PlaceStep \/ NetStep \/ UNCHANGED vars
  <2>1. UNCHANGED appVars
    BY <1>2 DEF PlaceStep, NetStep, Allocate, ChangeMetadata, RemoveComponent, SetComponent,
                ReceiveDelta, ReceiveFrame, Decoded, Undecodable, Post, EndNetwork,
                SendMedia, Encoded, EndCalls, vars
  <2> QED BY <1>1, <2>1 DEF appVars, Shown
<1>3. CASE TakeMessage
  <2>1. todo = {} /\ gap = {} /\ before = applied
    BY <1>3 DEF DiffOK, TakeMessage, Handling, NoMessage, Updated
  <2>2. gap' = {} /\ before' = before /\ tracks' = tracks
    BY <1>3, <2>1 DEF TakeMessage
  <2>3. \A e \in Entity : Shown'[e] = applied[e]
    <3>1. \A e \in Entity : e \notin todo' => applied'[e] = applied[e]
      BY <1>3 DEF TakeMessage
    <3> QED BY <2>1, <2>2, <3>1 DEF Shown
  <2> QED BY <1>1, <2>1, <2>2, <2>3 DEF Shown
<1>4. CASE FinishMessage \/ StartPoll \/ EndPoll
  <2>1. UNCHANGED <<todo, gap, applied, tracks>> /\ (todo = {} \/ before' = before)
    BY <1>4 DEF FinishMessage, StartPoll, EndPoll
  <2> QED BY <1>1, <2>1 DEF Shown
<1>5. ASSUME NEW id \in 1 .. (nextId - 1), CallSend(id)
      PROVE  TracksOK'
  BY <1>1, <1>5 DEF CallSend, appVars, Shown
<1>6. ASSUME NEW e \in Entity, HandleStateDiff(e)
      PROVE  TracksOK'
  <2>1. before' = before /\ applied' = applied
    BY <1>6 DEF HandleStateDiff, AddNew, RemoveUpdated, AddUpdated, RemoveDeleted, TrackStep
  <2>2. before[e] # applied[e]
    BY <1>6 DEF DiffOK, HandleStateDiff, AddNew, RemoveUpdated, AddUpdated, RemoveDeleted,
                New, Updated, Deleted
  <2>3. CASE AddNew(e)
    <3>1. Shown[e] = Absent /\ Shown'[e] = applied[e]
      BY <2>1, <2>3 DEF AddNew, New, Shown, DiffOK
    <3> QED BY <1>6, <2>2, <2>3, <3>1, TrackAdded DEF AddNew, New, TracksOK
  <2>4. CASE RemoveUpdated(e)
    <3>1. Shown[e] = before[e] /\ Shown'[e] = Absent
      BY <2>1, <2>4 DEF RemoveUpdated, Updated, Shown
    <3> QED BY <1>6, <2>4, <3>1, TrackRemoved DEF RemoveUpdated, Updated, New, TracksOK
  <2>5. CASE AddUpdated(e)
    <3>1. Shown[e] = Absent /\ Shown'[e] = applied[e]
      BY <2>1, <2>5 DEF AddUpdated, Shown
    <3>2. applied[e] # Absent
      BY <2>5 DEF AddUpdated, DiffOK, Updated, Deleted
    <3> QED BY <1>6, <2>5, <3>1, <3>2, TrackAdded DEF AddUpdated, TracksOK
  <2>6. CASE RemoveDeleted(e)
    <3>1. Shown[e] = before[e] /\ Shown'[e] = Absent /\ before[e] # Absent
      BY <2>1, <2>2, <2>6 DEF RemoveDeleted, Deleted, Updated, Shown, DiffOK
    <3> QED BY <1>6, <2>6, <3>1, TrackRemoved DEF RemoveDeleted, TracksOK
  <2> QED BY <1>6, <2>3, <2>4, <2>5, <2>6 DEF HandleStateDiff
<1> QED BY <1>2, <1>3, <1>4, <1>5, <1>6 DEF Next, AppStep

-----------------------------------------------------------------------------
(* Tracks in use, and media under way.                                     *)

\* What the list has is of the worlds before and after.
LEMMA TracksAnnounced ==
  ASSUME TypeOK, TracksOK, MediaOK
  PROVE  \A t \in tracks : t.id \in announced
<1> SUFFICES ASSUME NEW t \in tracks
             PROVE  t.id \in announced
  OBVIOUS
<1>1. PICK e \in Entity : t = Shown[e]
  BY InPlaying DEF TracksOK
<1>2. t.id # 0
  BY ComponentTypes DEF TypeOK
<1>3. t \in {before[e], applied[e]}
  BY <1>1, <1>2, AbsentIsSilent DEF Shown
<1> QED BY <1>2, <1>3 DEF MediaOK, Ids

LEMMA UseStep == TypeOK /\ UseOK /\ [Next]_vars => UseOK'
<1> SUFFICES ASSUME TypeOK, UseOK, [Next]_vars
             PROVE  UseOK'
  OBVIOUS
<1>1. (net \in {"decoding", "encoding"} => coding \in tracks)'
  <2>1. CASE PlaceStep \/ UNCHANGED vars
    BY <2>1 DEF UseOK, PlaceStep, Allocate, ChangeMetadata, RemoveComponent, SetComponent,
                netVars, appVars, vars
  <2>2. CASE NetStep
    BY <2>2 DEF UseOK, NetStep, ReceiveDelta, ReceiveFrame, Decoded, Undecodable, Post,
                EndNetwork, SendMedia, Encoded, EndCalls, VideoTrack, Found, appVars
  <2>3. ASSUME NEW e \in Entity, HandleStateDiff(e)
        PROVE  (net \in {"decoding", "encoding"} => coding \in tracks)'
    BY <2>3 DEF HandleStateDiff, AddNew, RemoveUpdated, AddUpdated, RemoveDeleted,
                TrackStep, NetHoldsTracks, netVars
  <2>4. CASE StartPoll \/ TakeMessage \/ FinishMessage \/ EndPoll
    BY <2>4 DEF UseOK, StartPoll, TakeMessage, FinishMessage, EndPoll, netVars
  <2>5. ASSUME NEW id \in 1 .. (nextId - 1), CallSend(id)
        PROVE  (net \in {"decoding", "encoding"} => coding \in tracks)'
    BY <2>5 DEF UseOK, CallSend, netVars, appVars
  <2> QED BY <2>1, <2>2, <2>3, <2>4, <2>5 DEF Next, AppStep
<1>2. (net = "posting" => posting \in Message)'
  <2>1. CASE NetStep
    <3>1. CASE ReceiveDelta
      BY <3>1, MessageTypes DEF TypeOK, ReceiveDelta
    <3>2. CASE Decoded
      <4>1. coding.id \in Nat
        BY DEF TypeOK, Component, Absent
      <4> QED BY <3>2, <4>1, MessageTypes DEF Decoded
    <3> QED BY <2>1, <3>1, <3>2 DEF NetStep, ReceiveFrame, Undecodable, Post, EndNetwork,
                SendMedia, Encoded, EndCalls, UseOK
  <2>2. CASE PlaceStep \/ AppStep \/ UNCHANGED vars
    <3>1. UNCHANGED netVars
      BY <2>2 DEF PlaceStep, Allocate, ChangeMetadata, RemoveComponent, SetComponent,
                  AppStep, StartPoll, TakeMessage, FinishMessage, EndPoll, CallSend,
                  HandleStateDiff, AddNew, RemoveUpdated, AddUpdated, RemoveDeleted,
                  TrackStep, vars
    <3> QED BY <3>1 DEF netVars, UseOK
  <2> QED BY <2>1, <2>2 DEF Next
<1> QED BY <1>1, <1>2 DEF UseOK

LEMMA MediaStep == TypeOK /\ TracksOK /\ UseOK /\ MediaOK /\ [Next]_vars => MediaOK'
<1> SUFFICES ASSUME TypeOK, TracksOK, UseOK, MediaOK, [Next]_vars
             PROVE  MediaOK'
  OBVIOUS
<1>1. CASE PlaceStep \/ UNCHANGED vars
  <2>1. UNCHANGED <<netVars, appVars, toProxy>>
    BY <1>1 DEF PlaceStep, Allocate, ChangeMetadata, RemoveComponent, SetComponent, vars
  <2> QED BY <2>1 DEF MediaOK, netVars, appVars, Ids
<1>2. CASE ReceiveDelta
  BY <1>2 DEF MediaOK, ReceiveDelta, Delta, appVars, Ids
<1>3. CASE Decoded
  BY <1>3, TracksAnnounced DEF MediaOK, UseOK, Decoded, Media, appVars, Ids
<1>4. CASE Post
  <2>1. \A i \in DOMAIN toProxy' :
          toProxy'[i] = posting \/ (i \in DOMAIN toProxy /\ toProxy'[i] = toProxy[i])
    BY <1>4 DEF Post, TypeOK
  <2> QED BY <1>4, <2>1 DEF MediaOK, Post, NoMessage, appVars, Ids
<1>5. CASE \/ Undecodable \/ EndNetwork \/ SendMedia \/ Encoded \/ EndCalls
           \/ \E id \in 1 .. (nextId - 1) : ReceiveFrame(id)
  <2>1. UNCHANGED <<posting, toProxy, appVars>>
    BY <1>5 DEF Undecodable, EndNetwork, SendMedia, Encoded, EndCalls, ReceiveFrame
  <2> QED BY <2>1 DEF MediaOK, appVars, Ids
<1>6. CASE TakeMessage
  <2>1. \A i \in DOMAIN toProxy' : i + 1 \in DOMAIN toProxy /\ toProxy'[i] = toProxy[i + 1]
    BY <1>6 DEF TakeMessage, TypeOK
  <2>2. 1 \in DOMAIN toProxy /\ handling' = toProxy[1]
    BY <1>6 DEF TakeMessage, TypeOK
  <2>3. announced \subseteq announced' /\ Ids(applied') \subseteq announced'
    BY <1>6 DEF TakeMessage, MediaOK, Ids
  <2>4. posting' = posting /\ before' = before
    BY <1>6 DEF TakeMessage, netVars
  <2> QED BY <2>1, <2>2, <2>3, <2>4 DEF MediaOK, Ids
<1>7. CASE FinishMessage
  BY <1>7 DEF MediaOK, FinishMessage, NoMessage, netVars, Ids
<1>8. CASE StartPoll \/ EndPoll \/ \E id \in 1 .. (nextId - 1) : CallSend(id)
  BY <1>8 DEF MediaOK, StartPoll, EndPoll, CallSend, netVars, appVars, Ids
<1>9. ASSUME NEW e \in Entity, HandleStateDiff(e)
      PROVE  MediaOK'
  BY <1>9 DEF MediaOK, HandleStateDiff, AddNew, RemoveUpdated, AddUpdated, RemoveDeleted,
              TrackStep, netVars, Ids
<1> QED BY <1>1, <1>2, <1>3, <1>4, <1>5, <1>6, <1>7, <1>8, <1>9 DEF Next, NetStep, AppStep

-----------------------------------------------------------------------------
(* The theorems.                                                           *)

LEMMA InitOK == Init => IInv
<1> SUFFICES ASSUME Init
             PROVE  IInv
  OBVIOUS
<1>1. TypeOK
  BY TypeInit
<1>2. Worlds = {Nowhere} /\ nextId = 1
  BY DEF Init, Worlds, NoMessage
<1>3. WorldsOK
  BY <1>2 DEF WorldsOK, SameOwner, Nowhere, Absent
<1>4. DiffOK
  BY DEF Init, DiffOK, Updated, New, Deleted
<1>5. TracksOK
  <2>1. \A e \in Entity : Shown[e] = Absent
    BY DEF Init, Shown, Nowhere
  <2>2. Playing(Shown) = {}
    BY <2>1, AbsentIsSilent DEF Playing
  <2> QED BY <2>2 DEF TracksOK, Init
<1>6. UseOK
  BY DEF Init, UseOK
<1>7. MediaOK
  BY DEF Init, MediaOK, NoMessage, Ids, Nowhere, Absent
<1> QED BY <1>1, <1>3, <1>4, <1>5, <1>6, <1>7 DEF IInv

LEMMA StepOK == IInv /\ [Next]_vars => IInv'
BY TypeStep, WorldsStep, DiffStep, TracksStep, UseStep, MediaStep DEF IInv

\* The invariant of the track list holds for any number of entities, tracks,
\* changes and messages under way.
THEOREM MediaInvariance == Spec => []IInv
BY InitOK, StepOK, PTL DEF Spec

\* Every variable keeps its type: what is posted is a message the proxy handles.
THEOREM MediaTypes == Spec => []TypeOK
BY MediaInvariance, PTL DEF IInv

\* The track list is that of the application's world between differences
\* (_alloclient_media_handle_statediff).
THEOREM TracksFollowTheorem == Spec => []TracksFollowWorld
<1>1. IInv => TracksFollowWorld
  <2> SUFFICES ASSUME IInv, todo = {}
               PROVE  tracks = Playing(applied)
    BY DEF TracksFollowWorld
  <2>1. \A e \in Entity : Shown[e] = applied[e]
    BY DEF IInv, DiffOK, Updated, Shown
  <2> QED BY <2>1 DEF IInv, TracksOK, Playing
<1> QED BY <1>1, MediaInvariance, PTL

\* The lock keeps the track that a codec works on (_alloclient_parse_media,
\* _alloclient_send_video).
THEOREM TrackInUseTheorem == Spec => []TrackInUseExists
<1>1. IInv => TrackInUseExists
  BY DEF IInv, UseOK, TrackInUseExists
<1> QED BY <1>1, MediaInvariance, PTL

\* No sound or picture outruns the component of its track.
THEOREM MediaAnnouncedTheorem == Spec => []MediaWasAnnounced
<1>1. IInv => MediaWasAnnounced
  BY DEF IInv, MediaOK, MediaWasAnnounced
<1> QED BY <1>1, MediaInvariance, PTL
=============================================================================
