----------------------------- MODULE ClientMedia -----------------------------
(***************************************************************************)
(* The media tracks of a threaded client (src/src/media).  The proxy and   *)
(* the bridge share one track list under the lock of                       *)
(* alloclient_internal_shared.  The application's thread keeps the list in *)
(* step with the live_media components of the world, one component at a    *)
(* time, while the network thread decodes and encodes with those tracks.   *)
(*                                                                         *)
(* Mutexes, in the order they are taken: bridge_to_proxy_mtx (held while   *)
(* polling), proxy_to_bridge_mtx (held in the network thread's turn with   *)
(* the calls), the lock of the track list.  The application holds that     *)
(* lock for one step, the network thread across decoding and encoding.     *)
(***************************************************************************)
EXTENDS Integers, Sequences

CONSTANTS
  Entity,
  Registered,  \* the formats that a registered subsystem accepts
  MaxTracks,   \* BOUND: tracks the place allocates
  MaxChanges,  \* BOUND: changes of a component's metadata
  MaxPosts,    \* BOUND: callbacks that wait before the place sends more
  MaxCalls     \* BOUND: calls that wait before the application makes more

Format == {"opus", "mjpeg", "h264"}

\* _allo_media_initialize; an application may add allo_libav_initialize.
ASSUME MediaAssumption ==
  /\ {"opus", "mjpeg"} \subseteq Registered /\ Registered \subseteq Format
  /\ MaxTracks \in Nat /\ MaxChanges \in Nat
  /\ MaxPosts \in Nat /\ MaxCalls \in Nat

VARIABLES
  world,      \* the place's live_media components
  nextId,     \* next_free_track_id
  changes,    \* metadata changes so far
  received,   \* the world of the last delta the network thread got
  net,        \* where the network thread is
  coding,     \* the track it decodes or encodes with
  posting,    \* the message that waits for bridge_to_proxy_mtx
  toProxy,    \* the queue of callbacks
  toBridge,   \* the queue of send_video and send_audio calls: track ids
  polling,    \* the application is in alloclient_poll
  handling,   \* the message it handles
  before,     \* the world before the delta it handles
  applied,    \* its world
  todo,       \* entities whose component the difference still mentions
  gap,        \* updated components whose track is gone, and not yet there again
  tracks,     \* media_tracks: the components the tracks were initialised from
  announced   \* ids of the tracks its world has had

placeVars == <<world, nextId, changes>>
netVars   == <<received, net, coding, posting>>
appVars   == <<polling, handling, before, applied, todo, gap, tracks, announced>>
vars      == <<placeVars, netVars, appVars, toProxy, toBridge>>

Component == [id : Nat \ {0}, format : Format, wide : BOOLEAN]
Absent    == [id |-> 0, format |-> "none", wide |-> FALSE]
Nowhere   == [e \in Entity |-> Absent]
World     == [Entity -> Component \cup {Absent}]

Delta(w)  == [type |-> "delta", id |-> 0, world |-> w]
Media(id) == [type |-> "media", id |-> id, world |-> Nowhere]
NoMessage == [type |-> "none", id |-> 0, world |-> Nowhere]
Message   == [type : {"delta", "media"}, id : Nat, world : World]

Ids(w) == {w[e].id : e \in Entity} \ {0}

Init ==
  /\ world = Nowhere /\ nextId = 1 /\ changes = 0
  /\ received = Nowhere /\ net = "network" /\ coding = Absent
  /\ posting = NoMessage /\ toProxy = <<>> /\ toBridge = <<>>
  /\ polling = FALSE /\ handling = NoMessage
  /\ before = Nowhere /\ applied = Nowhere
  /\ todo = {} /\ gap = {} /\ tracks = {} /\ announced = {}

-----------------------------------------------------------------------------
(* The track list.                                                         *)

\* MUTANT: the lock is released before the frame is decoded.
NetHoldsTracksToEncode == net = "encoding"

\* MUTANT: the lock is held until the callback has been posted.
NetHoldsTracksToPost == net \in {"decoding", "encoding", "posting"}

\* The network thread holds the lock of the track list.
NetHoldsTracks == net \in {"decoding", "encoding"}

Found(id) == {t \in tracks : t.id = id}

\* A track that no subsystem initialises is destroyed at once.
WithTrack(c) ==
  IF Found(c.id) = {} /\ c.format \in Registered THEN tracks \cup {c} ELSE tracks

WithoutTrack(id) == tracks \ Found(id)

-----------------------------------------------------------------------------
(* The place.                                                              *)

SetComponent(e, c) ==
  /\ world' = [world EXCEPT ![e] = c]
  /\ UNCHANGED <<netVars, appVars, toProxy, toBridge>>

\* allocate_track: one track per entity, and an id of its own.
Allocate(e, format) ==
  /\ world[e] = Absent /\ nextId <= MaxTracks
  /\ SetComponent(e, [id |-> nextId, format |-> format, wide |-> FALSE])
  /\ nextId' = nextId + 1
  /\ UNCHANGED changes

\* change_components with other metadata.
ChangeMetadata(e) ==
  /\ world[e] # Absent /\ changes < MaxChanges
  /\ SetComponent(e, [world[e] EXCEPT !.wide = ~@])
  /\ changes' = changes + 1
  /\ UNCHANGED nextId

\* The component, or its entity, is removed.
RemoveComponent(e) ==
  /\ world[e] # Absent
  /\ SetComponent(e, Absent)
  /\ UNCHANGED <<nextId, changes>>

-----------------------------------------------------------------------------
(* The network thread.                                                     *)

\* Deltas may be lost; one that changes no component here is left out.
ReceiveDelta ==
  /\ net = "network" /\ world # received /\ Len(toProxy) < MaxPosts
  /\ received' = world
  /\ posting' = Delta(world)
  /\ net' = "posting"
  /\ UNCHANGED <<placeVars, appVars, coding, toProxy, toBridge>>

\* MUTANT: a frame of a track that is not there yet creates it.
ReceiveFrameCreates(id) ==
  /\ net = "network" /\ Len(toProxy) < MaxPosts
  /\ coding' = IF Found(id) = {} THEN [id |-> id, format |-> "opus", wide |-> FALSE]
               ELSE CHOOSE t \in Found(id) : TRUE
  /\ tracks' = tracks \cup {coding'}
  /\ net' = "decoding"
  /\ UNCHANGED <<placeVars, received, posting, polling, handling, before,
                 applied, todo, gap, announced, toProxy, toBridge>>

\* _alloclient_parse_media: a frame of any track of the place; one whose track
\* is not in the list is dropped.
ReceiveFrame(id) ==
  /\ net = "network" /\ Len(toProxy) < MaxPosts
  /\ coding' \in Found(id)
  /\ net' = "decoding"
  /\ UNCHANGED <<placeVars, appVars, received, posting, toProxy, toBridge>>

Decoded ==
  /\ net = "decoding"
  /\ posting' = Media(coding.id)
  /\ coding' = Absent
  /\ net' = "posting"
  /\ UNCHANGED <<placeVars, appVars, received, toProxy, toBridge>>

\* parse_video has no picture to pass on.
Undecodable ==
  /\ net = "decoding" /\ coding.format # "opus"
  /\ coding' = Absent
  /\ net' = "network"
  /\ UNCHANGED <<placeVars, appVars, received, posting, toProxy, toBridge>>

\* enqueue_bridge_to_proxy; a delta ends the turn with the network.
Post ==
  /\ net = "posting" /\ ~polling
  /\ toProxy' = Append(toProxy, posting)
  /\ posting' = NoMessage
  /\ net' = IF posting.type = "delta" THEN "calls" ELSE "network"
  /\ UNCHANGED <<placeVars, appVars, received, coding, toBridge>>

EndNetwork ==
  /\ net = "network"
  /\ net' = "calls"
  /\ UNCHANGED <<placeVars, appVars, received, coding, posting, toProxy, toBridge>>

VideoTrack(id) == {t \in Found(id) : t.format # "opus"}

\* _alloclient_send_video encodes with the list locked; without a video track
\* of that id it skips the frame.  Audio has an encoder of its own.
SendMedia ==
  /\ net = "calls" /\ toBridge # <<>>
  /\ toBridge' = Tail(toBridge)
  /\ IF VideoTrack(Head(toBridge)) = {}
       THEN UNCHANGED <<net, coding>>
       ELSE net' = "encoding" /\ coding' \in VideoTrack(Head(toBridge))
  /\ UNCHANGED <<placeVars, appVars, received, posting, toProxy>>

Encoded ==
  /\ net = "encoding"
  /\ coding' = Absent
  /\ net' = "calls"
  /\ UNCHANGED <<placeVars, appVars, received, posting, toProxy, toBridge>>

EndCalls ==
  /\ net = "calls" /\ toBridge = <<>>
  /\ net' = "network"
  /\ UNCHANGED <<placeVars, appVars, received, coding, posting, toProxy, toBridge>>

-----------------------------------------------------------------------------
(* The application's thread.                                               *)

Handling == handling # NoMessage

\* The application's own code runs: between two polls, or in a callback.
AppRuns == polling => Handling /\ todo = {}

CallSend(id) ==
  /\ AppRuns /\ net \notin {"calls", "encoding"} /\ Len(toBridge) < MaxCalls
  /\ toBridge' = Append(toBridge, id)
  /\ UNCHANGED <<placeVars, netVars, appVars, toProxy>>

StartPoll ==
  /\ ~polling
  /\ polling' = TRUE
  /\ UNCHANGED <<placeVars, netVars, handling, before, applied, todo, gap,
                 tracks, announced, toProxy, toBridge>>

\* The proxy's turn with a message.  allo_delta_apply reports the components
\* that differ; the entities have theirs before the tracks are looked at.
TakeMessage ==
  /\ polling /\ ~Handling /\ toProxy # <<>>
  /\ handling' = Head(toProxy)
  /\ toProxy' = Tail(toProxy)
  /\ IF handling'.type = "delta"
       THEN /\ applied' = handling'.world
            /\ todo' = {e \in Entity : applied[e] # applied'[e]}
            /\ announced' = announced \cup Ids(applied')
       ELSE UNCHANGED <<applied, todo, announced>>
  /\ UNCHANGED <<placeVars, netVars, polling, before, gap, tracks, toBridge>>

New     == {e \in todo : before[e] = Absent}
Deleted == {e \in todo : applied[e] = Absent}
Updated == todo \ (New \cup Deleted)

\* One component: the list is locked for a step.
TrackStep ==
  /\ ~NetHoldsTracks
  /\ UNCHANGED <<placeVars, netVars, polling, handling, before, applied,
                 announced, toProxy, toBridge>>

AddNew(e) ==
  /\ e \in New
  /\ tracks' = WithTrack(applied[e])
  /\ todo' = todo \ {e}
  /\ UNCHANGED gap
  /\ TrackStep

\* MUTANT: the track of an updated component is kept.
UpdateKeeps(e) ==
  /\ New = {} /\ gap = {} /\ e \in Updated
  /\ gap' = {e}
  /\ UNCHANGED <<tracks, todo>>
  /\ TrackStep

RemoveUpdated(e) ==
  /\ New = {} /\ gap = {} /\ e \in Updated
  /\ tracks' = WithoutTrack(before[e].id)
  /\ gap' = {e}
  /\ UNCHANGED todo
  /\ TrackStep

\* The lock was released in between.
AddUpdated(e) ==
  /\ e \in gap
  /\ tracks' = WithTrack(applied[e])
  /\ gap' = {}
  /\ todo' = todo \ {e}
  /\ TrackStep

\* MUTANT: the track of a component that is gone stays.
DeleteKeeps(e) ==
  /\ New = {} /\ Updated = {} /\ e \in Deleted
  /\ todo' = todo \ {e}
  /\ UNCHANGED <<tracks, gap>>
  /\ TrackStep

RemoveDeleted(e) ==
  /\ New = {} /\ Updated = {} /\ e \in Deleted
  /\ tracks' = WithoutTrack(before[e].id)
  /\ todo' = todo \ {e}
  /\ UNCHANGED gap
  /\ TrackStep

\* The application's callback returns.
FinishMessage ==
  /\ Handling /\ todo = {}
  /\ handling' = NoMessage
  /\ before' = applied
  /\ UNCHANGED <<placeVars, netVars, polling, applied, todo, gap, tracks,
                 announced, toProxy, toBridge>>

EndPoll ==
  /\ polling /\ ~Handling /\ toProxy = <<>>
  /\ polling' = FALSE
  /\ UNCHANGED <<placeVars, netVars, handling, before, applied, todo, gap,
                 tracks, announced, toProxy, toBridge>>

-----------------------------------------------------------------------------
HandleStateDiff(e) == AddNew(e) \/ RemoveUpdated(e) \/ AddUpdated(e) \/ RemoveDeleted(e)

PlaceStep == \E e \in Entity :
  \/ \E format \in Format : Allocate(e, format)
  \/ ChangeMetadata(e)
  \/ RemoveComponent(e)

NetStep ==
  \/ ReceiveDelta \/ Decoded \/ Undecodable \/ Post \/ EndNetwork
  \/ SendMedia \/ Encoded \/ EndCalls
  \/ \E id \in 1 .. (nextId - 1) : ReceiveFrame(id)

AppStep ==
  \/ StartPoll \/ TakeMessage \/ FinishMessage \/ EndPoll
  \/ \E e \in Entity : HandleStateDiff(e)
  \/ \E id \in 1 .. (nextId - 1) : CallSend(id)

Next == PlaceStep \/ NetStep \/ AppStep

Spec == Init /\ [][Next]_vars

\* Both threads run and callbacks return; the application polls again.  Who
\* waits for a mutex that the other thread takes again and again gets it, and
\* the place sends what it has in each of its steps until a delta arrives.
Fairness ==
  /\ SF_vars(ReceiveDelta) /\ SF_vars(Post)
  /\ WF_vars(Decoded \/ Undecodable \/ SendMedia \/ Encoded \/ EndCalls)
  /\ WF_vars(StartPoll) /\ WF_vars(TakeMessage \/ FinishMessage \/ EndPoll)
  /\ SF_vars(\E e \in Entity : HandleStateDiff(e))

FairSpec == Spec /\ Fairness

-----------------------------------------------------------------------------
(* Properties.                                                             *)

TypeOK ==
  /\ world \in World /\ received \in World /\ before \in World /\ applied \in World
  /\ nextId \in Nat \ {0} /\ changes \in Nat
  /\ net \in {"network", "decoding", "posting", "calls", "encoding"}
  /\ coding \in Component \cup {Absent}
  /\ posting \in Message \cup {NoMessage} /\ handling \in Message \cup {NoMessage}
  /\ toProxy \in Seq(Message) /\ toBridge \in Seq(Nat)
  /\ polling \in BOOLEAN
  /\ todo \subseteq Entity /\ gap \subseteq Entity
  /\ tracks \subseteq Component
  /\ announced \subseteq Nat

Playing(w) == {w[e] : e \in {f \in Entity : w[f].format \in Registered}}

\* Between two differences the track list is exactly what the world the
\* application sees calls for: a decoder for every component, none left of a
\* removed one, each initialised from the metadata of now.
TracksFollowWorld == todo = {} => tracks = Playing(applied)

\* The track a frame is decoded or encoded with stays in the list meanwhile,
\* whatever the application's thread removes and adds.
TrackInUseExists == net \in {"decoding", "encoding"} => coding \in tracks

\* The application only gets the sound and pictures of tracks that its world
\* has, or had, a component for: no frame outruns the component.
MediaWasAnnounced == handling.type = "media" => handling.id \in announced

\* When the place comes to rest, the client's tracks become those of the place.
TracksCatchUp == <>[](tracks = Playing(world))

=============================================================================
