---------------------------- MODULE PlaceServer ----------------------------
(***************************************************************************)
(* What the place server keeps for its agents                              *)
(* (src/src/standalone_server.cpp, and the entities of src/src/state.c):   *)
(* the tree of entities with their owners, the media tracks with their     *)
(* recipients, and the apps it was asked to launch.  Clients connect,      *)
(* announce, change the world and leave, in any order and at any time; the *)
(* server handles one event at a time.                                     *)
(*                                                                         *)
(* Tracks hold pointers to clients, and the memory of a client that left   *)
(* may be that of a later one: a Client is such a place in memory, and     *)
(* agent ids, which are never used again, tell its connections apart.      *)
(* Entity ids are never used again either, and an entity is listed in      *)
(* front of all that are older: ids count upwards, and the list is sorted  *)
(* downwards.                                                              *)
(*                                                                         *)
(* A request may name any entity and any track: the server compares no     *)
(* owner with the client that asks, and looks neither up in the components *)
(* it is given.  What a client names may have gone since it saw it; an id  *)
(* that never was given is like that of an entity that is gone.            *)
(***************************************************************************)
EXTENDS Integers, FiniteSets, Functions

CONSTANTS
  Client,
  NoAgent,         \* no connection; as an owner, the place itself
  None,            \* NULL: no avatar, no parent, no track, no app token
  SubscribesTwice, \* clients subscribe to tracks they are subscribed to
  MaxAgents,       \* BOUND: connections made
  MaxEntities,     \* BOUND: entities made
  MaxTracks,       \* BOUND: tracks allocated
  MaxMade,         \* BOUND: entities made and tracks allocated, together
  MaxEdits,        \* BOUND: entities changed or removed on request
  MaxLaunches      \* BOUND: apps launched

ASSUME PlaceAssumption ==
  /\ NoAgent \notin Nat
  /\ None \notin Nat
  /\ SubscribesTwice \in BOOLEAN
  /\ {MaxAgents, MaxEntities, MaxTracks, MaxMade, MaxEdits, MaxLaunches} \subseteq Nat

VARIABLES
  agent,       \* client->agent_id, NoAgent where nobody is connected
  avatar,      \* client->avatar_entity_id
  entities,    \* serv->state.entities
  tracks,      \* mediatracks
  launches,    \* outstanding_app_launch_requests, by their tokens
  counts,      \* agents, entities, tracks, edits and launches made so far
  running,     \* FALSE once the server used a NULL or freed pointer
  subscribed   \* HISTORY: subscriptions of each connection, less those it ended

vars == <<agent, avatar, entities, tracks, launches, counts, running,
          subscribed>>

Place == 0

Agent == 1 .. MaxAgents

Connected == {c \in Client : agent[c] # NoAgent}

\* The server handles an event of a connected client.
Serves(c) == running /\ c \in Connected

\* The entities that a client can name, those that are gone included
Named == 0 .. counts.entities

NothingMade == [agents |-> 0, entities |-> 0, tracks |-> 0, edits |-> 0,
                launches |-> 0]

NoSubscriptions == [t \in 1 .. MaxTracks |-> 0]

OnlyPlace == [e \in {Place} |->
                [owner |-> NoAgent, parent |-> None, track |-> None]]

Init ==
  /\ agent      = [c \in Client |-> NoAgent]
  /\ avatar     = [c \in Client |-> None]
  /\ entities   = OnlyPlace
  /\ tracks     = <<>>
  /\ launches   = {}
  /\ counts     = NothingMade
  /\ running    = TRUE
  /\ subscribed = [c \in Client |-> NoSubscriptions]

\* A NULL or freed pointer was used: the process ends, with everything it had.
Crash ==
  /\ agent'      = [c \in Client |-> NoAgent]
  /\ avatar'     = [c \in Client |-> None]
  /\ entities'   = OnlyPlace
  /\ tracks'     = <<>>
  /\ launches'   = {}
  /\ counts'     = NothingMade
  /\ running'    = FALSE
  /\ subscribed' = [c \in Client |-> NoSubscriptions]

-----------------------------------------------------------------------------
(* Entities. *)

\* allo_state_add_entity_from_spec: an entity with the components of its spec,
\* and the children that come with it
WithSpawned(es, owner, components, children) ==
  LET first == counts.entities + 1 IN
  [e \in DOMAIN es \cup first .. first + children |->
     IF e \in DOMAIN es THEN es[e]
     ELSE [owner  |-> owner,
           parent |-> IF e = first THEN components.parent ELSE first,
           track  |-> IF e = first THEN components.track ELSE None]]

NoComponents == [parent |-> None, track |-> None]

\* The entities that allo_state_remove_entity destroys with AlloRemovalCascade.
\* MUTANT: only the children, not their children
CascadeChildren(es, e) == {e} \cup {x \in DOMAIN es : es[x].parent = e}
Cascade(es, e) ==
  LET below[n \in 0 .. Cardinality(DOMAIN es)] ==
        IF n = 0 THEN {e}
        ELSE LET above == below[n - 1]
             IN above \cup {x \in DOMAIN es : es[x].parent \in above}
  IN below[Cardinality(DOMAIN es)]

WithoutCascade(es, e) == Restrict(es, DOMAIN es \ Cascade(es, e))

\* AlloRemovalReparent: the children lose their relationships.
\* MUTANT: they keep them
WithoutReparentKeep(es, e) == Restrict(es, DOMAIN es \ {e})
WithoutReparent(es, e) ==
  [x \in DOMAIN es \ {e} |->
     IF es[x].parent = e THEN [es[x] EXCEPT !.parent = None] ELSE es[x]]

\* The entity behind e in the list.
\* MUTANT: a list sorted the other way
SuccessorUp(es, e) == {x \in DOMAIN es : x > e /\ \A y \in DOMAIN es : y > e => x <= y}
Successor(es, e) == {x \in DOMAIN es : x < e /\ \A y \in DOMAIN es : y < e => x >= y}

\* The loop of clients_changed over all entities: those of the owner go, with
\* everything below them.  The loop keeps a pointer to the next entity while it
\* removes one; if that goes too, it continues with freed memory.
\* MUTANT: removed without what is below them
CleanupOwned(es, owner) ==
  [left |-> Restrict(es, {x \in DOMAIN es : es[x].owner # owner}), safe |-> TRUE]
\* MUTANT: stops after the first entity removed
CleanupFirst(es, owner) ==
  LET owned == {x \in DOMAIN es : es[x].owner = owner}
      first == {x \in owned : \A y \in owned : y <= x}
  IN [left |-> Restrict(es, DOMAIN es \ UNION {Cascade(es, x) : x \in first}),
      safe |-> TRUE]
Cleanup(es, owner) ==
  LET after[n \in 0 .. MaxEntities + 1] ==
        IF n = MaxEntities + 1 THEN [left |-> es, safe |-> TRUE]
        ELSE LET before == after[n + 1]
                 now    == before.left
             IN IF n \in DOMAIN now /\ now[n].owner = owner
                  THEN [left |-> WithoutCascade(now, n),
                        safe |-> /\ before.safe
                                 /\ Successor(now, n) \cap Cascade(now, n) = {}]
                  ELSE before
  IN after[0]

-----------------------------------------------------------------------------
(* Connections. *)

\* handle_incoming_connection
Connect(c) ==
  /\ running
  /\ c \notin Connected
  /\ counts.agents < MaxAgents
  /\ counts' = [counts EXCEPT !.agents = @ + 1]
  /\ agent'  = [agent EXCEPT ![c] = counts.agents + 1]
  /\ UNCHANGED <<avatar, entities, tracks, launches, running, subscribed>>

\* MUTANT: without looking for one
LessAlways(n) == n - 1
Less(n) == IF n = 0 THEN 0 ELSE n - 1

\* With one pointer less to the client in its recipients, if there was any.
WithoutRecipient(track, c) == [track EXCEPT !.recipients[c] = Less(@)]

\* The rest of clients_changed: the recipients, and the tracks of the client.
\* MUTANT: its tracks stay
WithoutClientKeepTracks(ts, c) == [t \in DOMAIN ts |-> WithoutRecipient(ts[t], c)]
WithoutClient(ts, c) ==
  [t \in {t \in DOMAIN ts : ts[t].origin # c} |-> WithoutRecipient(ts[t], c)]

\* handle_lost_connection: the client left, timed out, or was disconnected
\* because it announced a wrong version or was kicked.  Until ENet says that it
\* is gone the server goes on handling what it sent (alloserv_disconnect).
Disconnect(c) ==
  /\ Serves(c)
  /\ LET cleanup == Cleanup(entities, agent[c]) IN
     IF ~cleanup.safe THEN Crash
     ELSE /\ entities'   = cleanup.left
          /\ tracks'     = WithoutClient(tracks, c)
          /\ agent'      = [agent EXCEPT ![c] = NoAgent]
          /\ avatar'     = [avatar EXCEPT ![c] = None]
          /\ subscribed' = [subscribed EXCEPT ![c] = NoSubscriptions]
          /\ UNCHANGED <<launches, counts, running>>

\* handle_place_list_agents_interaction looks at every client's avatar, that of
\* one that has not announced itself yet or whose avatar was removed included.
ListAgents(c) ==
  /\ Serves(c)
  /\ \E other \in Connected : avatar[other] \notin DOMAIN entities
  /\ Crash

-----------------------------------------------------------------------------
(* Changing the world. *)

\* handle_place_spawn_entity_interaction
Spawn(c, components, children) ==
  /\ Serves(c)
  /\ counts.entities + 1 + children <= MaxEntities
  /\ counts.entities + 1 + children + counts.tracks <= MaxMade
  /\ entities' = WithSpawned(entities, agent[c], components, children)
  /\ counts'   = [counts EXCEPT !.entities = @ + 1 + children]
  /\ UNCHANGED <<agent, avatar, tracks, launches, running, subscribed>>

\* handle_app_launched: the request is forgotten, whether or not the entity it
\* was made with, and its owner, are still there to be told.
AppLaunched(token) == launches' = launches \ {token}

\* handle_place_announce_interaction.  The avatar is made before the version is
\* compared; a client with a wrong one is sent an error and then disconnected.
Announce(c, token) ==
  /\ Serves(c)
  /\ counts.entities < MaxEntities
  /\ counts.entities + counts.tracks < MaxMade
  /\ entities' = WithSpawned(entities, agent[c], NoComponents, 0)
  /\ avatar'   = [avatar EXCEPT ![c] = counts.entities + 1]
  /\ counts'   = [counts EXCEPT !.entities = @ + 1]
  /\ IF token \in launches THEN AppLaunched(token)
                           ELSE UNCHANGED launches
  /\ UNCHANGED <<agent, tracks, running, subscribed>>

\* handle_place_remove_entity_interaction; anybody may remove anything.
RemoveEntity(c, e, mode) ==
  /\ Serves(c)
  /\ e \in DOMAIN entities
  /\ counts.edits < MaxEdits
  /\ entities' = IF mode = "reparent" THEN WithoutReparent(entities, e)
                                     ELSE WithoutCascade(entities, e)
  /\ counts'   = [counts EXCEPT !.edits = @ + 1]
  /\ UNCHANGED <<agent, avatar, tracks, launches, running, subscribed>>

\* handle_place_change_components_interaction, with the two components that the
\* server itself looks at, "relationships" and "live_media", replaced or removed
ChangeComponents(c, e, components) ==
  /\ Serves(c)
  /\ e \in DOMAIN entities
  /\ counts.edits < MaxEdits
  /\ entities' = [entities EXCEPT ![e].parent = components.parent,
                                  ![e].track  = components.track]
  /\ counts'   = [counts EXCEPT !.edits = @ + 1]
  /\ UNCHANGED <<agent, avatar, tracks, launches, running, subscribed>>

\* The clients that can be named as who asked, with entity e, for an app: the
\* identity of a client that has not announced itself is NULL.
Requestors(e) == {d \in Connected : entities[e].owner = agent[d] /\ avatar[d] # None}

\* handle_place_launch_app_interaction, once the gateway has accepted.  It looks
\* at the owner of the entity that asks, whether or not there is one.
Launch(c, e) ==
  /\ Serves(c)
  /\ counts.launches < MaxLaunches
  /\ IF e \notin DOMAIN entities THEN Crash
     ELSE IF Requestors(e) = {} THEN Crash
     ELSE /\ launches' = launches \cup {counts.launches + 1}
          /\ counts'   = [counts EXCEPT !.launches = @ + 1]
          /\ UNCHANGED <<agent, avatar, entities, tracks, running, subscribed>>

-----------------------------------------------------------------------------
(* Media tracks. *)

\* handle_place_allocate_track_interaction: the track comes from the client that
\* asks, whoever the entity belongs to.
AllocateTrack(c, e) ==
  /\ Serves(c)
  /\ entities[e].track = None
  /\ counts.tracks < MaxTracks
  /\ counts.entities + counts.tracks < MaxMade
  /\ LET t == counts.tracks + 1 IN
     /\ counts'   = [counts EXCEPT !.tracks = t]
     /\ tracks'   = [x \in DOMAIN tracks \cup {t} |->
                      IF x = t THEN [origin     |-> c,
                                     by         |-> agent[c],   \* HISTORY
                                     recipients |-> [d \in Client |-> 0]]
                      ELSE tracks[x]]
     /\ entities' = [entities EXCEPT ![e].track = t]
  /\ UNCHANGED <<agent, avatar, launches, running, subscribed>>

\* handle_place_media_track_interaction: every subscription adds a recipient,
\* also of a client that is one.
Subscribe(c, t) ==
  /\ Serves(c)
  /\ t \in DOMAIN tracks
  /\ SubscribesTwice \/ tracks[t].recipients[c] = 0
  /\ tracks'     = [tracks EXCEPT ![t].recipients[c] = @ + 1]
  /\ subscribed' = [subscribed EXCEPT ![c][t] = @ + 1]
  /\ UNCHANGED <<agent, avatar, entities, launches, counts, running>>

\* MUTANT: every recipient goes, not the client
UnsubscribeAll(c, t) ==
  /\ Serves(c)
  /\ t \in DOMAIN tracks
  /\ tracks'     = [tracks EXCEPT ![t].recipients = [d \in Client |-> 0]]
  /\ subscribed' = [subscribed EXCEPT ![c][t] = Less(@)]
  /\ UNCHANGED <<agent, avatar, entities, launches, counts, running>>

Unsubscribe(c, t) ==
  /\ Serves(c)
  /\ t \in DOMAIN tracks
  /\ tracks'     = [tracks EXCEPT ![t] = WithoutRecipient(@, c)]
  /\ subscribed' = [subscribed EXCEPT ![c][t] = Less(@)]
  /\ UNCHANGED <<agent, avatar, entities, launches, counts, running>>

-----------------------------------------------------------------------------
Components == [parent : Named \cup {None}, track : 1 .. MaxTracks \cup {None}]

Requests(c) ==
  \/ ListAgents(c)
  \/ \E components \in Components, children \in 0 .. 1 : Spawn(c, components, children)
  \/ \E token \in 1 .. MaxLaunches \cup {None} : Announce(c, token)
  \/ \E e \in DOMAIN entities :
       \/ \E mode \in {"reparent", "cascade"} : RemoveEntity(c, e, mode)
       \/ \E components \in Components : ChangeComponents(c, e, components)
       \/ AllocateTrack(c, e)
  \/ \E e \in Named : Launch(c, e)
  \/ \E t \in 1 .. MaxTracks : Subscribe(c, t) \/ Unsubscribe(c, t)

Next == \E c \in Client : Connect(c) \/ Disconnect(c) \/ Requests(c)

Spec == Init /\ [][Next]_vars

-----------------------------------------------------------------------------
(* Properties. *)

EntityType == [owner  : Agent \cup {NoAgent},
               parent : Nat \cup {None},
               track  : Nat \cup {None}]

TrackType == [origin : Client, by : Agent, recipients : [Client -> Nat]]

\* Every variable keeps its type.
TypeOK ==
  /\ agent \in [Client -> Agent \cup {NoAgent}]
  /\ avatar \in [Client -> Nat \cup {None}]
  /\ DOMAIN entities \subseteq 0 .. counts.entities
  /\ \A e \in DOMAIN entities : entities[e] \in EntityType
  /\ DOMAIN tracks \subseteq 1 .. counts.tracks
  /\ \A t \in DOMAIN tracks : tracks[t] \in TrackType
  /\ launches \subseteq 1 .. counts.launches
  /\ counts \in [agents : Nat, entities : Nat, tracks : Nat, edits : Nat,
                  launches : Nat]
  /\ running \in BOOLEAN
  /\ subscribed \in [Client -> [1 .. MaxTracks -> Nat]]

\* Nothing of an agent that left remains in the world: every entity belongs to
\* the place or to an agent that is connected.
OwnersConnected ==
  \A e \in DOMAIN entities :
    entities[e].owner \in {NoAgent} \cup {agent[c] : c \in Connected}

\* allo_state_remove_entity takes whole trees, however entities were put below
\* each other, cycles included: an entity that stays when its parent goes has
\* lost its relationships; on request nothing goes but one entity and what is
\* below it; and with a client that left nothing goes but what it owned and what
\* is below that.
TreesGoWhole ==
  [][LET gone       == DOMAIN entities \ DOMAIN entities'
         roots      == {e \in gone : entities[e].parent \notin gone}
         staying    == {NoAgent} \cup {agent'[c] : c \in Client}
         onRequest  == counts'.edits # counts.edits
     IN /\ \A e \in DOMAIN entities' \cap DOMAIN entities :
             entities[e].parent \in gone => entities'[e].parent = None
        /\ running' /\ onRequest => \A e, f \in roots : e = f
        /\ running' /\ ~onRequest => \A e \in roots : entities[e].owner \notin staying]_vars

\* A track only passes on media of the agent that allocated it: the client it
\* came from is connected, and is not a later one in the same memory.
OriginsConnected == \A t \in DOMAIN tracks : agent[tracks[t].origin] = tracks[t].by

\* "Remove the client from any track recipient lists": media goes to a client as
\* often as its present connection is subscribed, and to nobody who is not.
RecipientsSubscribed ==
  \A t \in DOMAIN tracks, c \in Client : tracks[t].recipients[c] = subscribed[c][t]

\* As long as every entity is newer than its parent, as spawning makes them,
\* the cleanup after a client never steps onto an entity it has just freed.
SafeCleanup ==
  (\A e \in DOMAIN entities : entities[e].parent # None => entities[e].parent < e)
    => \A c \in Connected : Cleanup(entities, agent[c]).safe
=============================================================================
