----------------------------- MODULE Simulation -----------------------------
(***************************************************************************)
(* The simulation of the place server (src/src/simulation): at most five   *)
(* times a second the latest intents of the clients move their avatars,    *)
(* pose the entities that actuate a pose, move what is grabbed, and then   *)
(* animations are applied.  Between two steps clients connect, announce    *)
(* themselves, send intents, spawn, change and remove entities, animate    *)
(* them, and leave.                                                        *)
(*                                                                         *)
(* Agents, entities and animations are numbered as they appear.  Agents    *)
(* and entities are listed newest first (LIST_INSERT_HEAD), the animations *)
(* of an entity oldest first.  All transforms are translations along one   *)
(* axis: numbers, composed by adding them up.  Each agent holds its hand   *)
(* in ways of its own, unlike in its last intent, or not at all (Identity).*)
(* A step takes place at the time that is its number.                      *)
(***************************************************************************)
EXTENDS Integers, Sequences, FiniteSetsExt, Functions

CONSTANTS
  None,           \* NULL: no avatar, no parent, nothing followed or grabbed
  Spot,           \* where stick movement may bring an avatar
  MaxSimulated,   \* the intents that fit in one step, 32 in the code
  Gesture,        \* what an intent may do: hold the hand, use the stick
  Children,       \* the children avatars are announced with, by their shapes
  Shape,          \* what entities clients spawn
  Animation,      \* how they animate them
  MaxAgents,      \* BOUND: connections made
  MaxEntities,    \* BOUND: entities made
  MaxIntents,     \* BOUND: intents sent
  MaxEdits,       \* BOUND: changes and removals of anything, and departures
  MaxAnimations,  \* BOUND: animations added
  MaxEvents,      \* BOUND: events between steps, of all kinds
  MaxSteps        \* BOUND: steps of the simulation

\* An entity may actuate a pose, that of another agent's avatar if it follows
\* one, and may be grabbable: it moves itself, or its parent ("actuate_on").
Shapes == [poses : BOOLEAN, follows : BOOLEAN, grab : {"no", "self", "parent"}]

\* An animation is of the entity's transform, or of nothing the entity has.
Animations == [applies : BOOLEAN, from : Int, to : Int, start : Nat,
               duration : Nat \ {0}, repeats : BOOLEAN]

ASSUME SimulationAssumption ==
  /\ None \notin Int
  /\ Spot \subseteq Int
  /\ MaxSimulated \in Nat \ {0}
  /\ Gesture \subseteq [hold : BOOLEAN, stick : BOOLEAN]
  /\ Children \subseteq Seq(Shapes)
  /\ Shape \subseteq Shapes
  /\ Animation \subseteq Animations

VARIABLES
  clients,     \* serv->clients: avatar_entity_id of each connected agent
  intents,     \* client->intent of each connected agent
  entities,    \* serv->state.entities
  animations,  \* the property_animations of all entities
  counts,      \* agents, entities, intents, edits and so on so far
  running      \* FALSE once the server used a NULL pointer or all its stack

vars == <<clients, intents, entities, animations, counts, running>>

Identity == 0

Agents == DOMAIN clients

\* The entities that a client can name, those that are gone included
Named == 1 .. counts.entities

\* allo_client_intent_create
NoIntent == [by |-> None, hand |-> Identity, stick |-> FALSE, grab |-> None]

NothingMade == [agents |-> 0, entities |-> 0, intents |-> 0, edits |-> 0,
                animations |-> 0, events |-> 0, steps |-> 0]

Init ==
  /\ clients    = <<>>
  /\ intents    = <<>>
  /\ entities   = <<>>
  /\ animations = <<>>
  /\ counts     = NothingMade
  /\ running    = TRUE

\* The process ends, with everything it had.
Crash ==
  /\ clients'    = <<>>
  /\ intents'    = <<>>
  /\ entities'   = <<>>
  /\ animations' = <<>>
  /\ counts'     = NothingMade
  /\ running'    = FALSE

\* allo_state_add_entity_from_spec: the components that the simulation looks at
Entity(owner, shape, parent, followed) ==
  [owner |-> owner, parent |-> parent, poses |-> shape.poses,
   from  |-> IF shape.follows THEN followed ELSE None,
   grab  |-> shape.grab, at |-> Identity]

-----------------------------------------------------------------------------
(* The tree of entities. *)

\* What is in S and below it: the same in every order, cycles included
Below(S) ==
  LET below[n \in 0 .. Cardinality(DOMAIN entities)] ==
        IF n = 0 THEN S
        ELSE LET above == below[n - 1]
             IN above \cup {x \in DOMAIN entities : entities[x].parent \in above}
  IN below[Cardinality(DOMAIN entities)]

\* e and what it is below
Chain(e) ==
  LET chain[n \in 0 .. Cardinality(DOMAIN entities)] ==
        IF n = 0 THEN {e}
        ELSE LET below == chain[n - 1]
             IN below \cup ({entities[x].parent : x \in below} \cap DOMAIN entities)
  IN chain[Cardinality(DOMAIN entities)]

\* entity_get_transform_to_world never comes to an end.
Cyclic(e) == \A x \in Chain(e) : entities[x].parent \in DOMAIN entities

\* entity_get_transform_to_world, from parent to parent; that of no entity is the
\* identity.
InWorld(es, e) ==
  LET toWorld[n \in 0 .. Cardinality(DOMAIN es)] ==
        [x \in DOMAIN es |->
           IF n > 0 /\ es[x].parent \in DOMAIN es
             THEN toWorld[n - 1][es[x].parent] + es[x].at
             ELSE es[x].at]
  IN IF e \in DOMAIN es THEN toWorld[Cardinality(DOMAIN es)][e] ELSE Identity

-----------------------------------------------------------------------------
(* The steps of allo_simulate_iteration for one client.  `es` is the list of *)
(* entities as the steps before left it.                                     *)

\* state_get_entity for the entity an intent is about
HasAvatar(c) == intents[c].by \in DOMAIN entities

\* The array that step() fills: the newest clients, as many as fit.
Simulated == {c \in Agents : Cardinality({d \in Agents : d > c}) < MaxSimulated}

\* The clients whose intents are carried out.  The first that has no avatar
\* ends the iteration.
Reached == {c \in Simulated : \A d \in Simulated : d >= c => HasAvatar(d)}

\* allosim_stick_movement; `to` is where the stick brings each avatar.
StickMoved(es, c, to) ==
  IF intents[c].stick THEN [es EXCEPT ![intents[c].by].at = to[c]] ELSE es

\* MUTANT: any intent that has an avatar
FollowedAny(e) == {d \in Simulated : intents[d].by # None}

\* The clients in the array with the avatar that follower e names
Followed(e) == {d \in Simulated : intents[d].by = entities[e].from}

\* A follower: an entity that poses as the owner of another avatar does
Follows(e) == entities[e].poses /\ entities[e].from # None

\* The loop that looks for the followed compares with the avatar of every intent
\* in front of the match, which a client that sent none yet does not have.
ComparesWithNull(e) ==
  \E c \in Simulated :
    /\ intents[c].by = None
    /\ \A d \in Simulated : d > c => intents[d].by # entities[e].from

\* The agent whose intent is in place when the loop over the entities gets to e
\* on behalf of c: a follower replaces it by that of the first match, for itself
\* and for the entities behind it.
Actuator(c, e) ==
  LET replaced == {f \in DOMAIN entities :
                     /\ f >= e /\ entities[f].owner = c
                     /\ Follows(f) /\ Followed(f) # {}}
  IN IF replaced = {} THEN c ELSE Max(Followed(Min(replaced)))

\* The avatar that an entity poses for unless it follows another: its parent
Body(e) == IF entities[e].parent = None THEN e ELSE entities[e].parent

\* MUTANT: whether the intent is of the body is not looked at
PosesUnchecked(c, e) ==
  /\ entities[e].owner = c
  /\ entities[e].poses
  /\ intents[Actuator(c, e)].hand # Identity

\* The loop poses e on behalf of c.  A pose that is the identity "probably means
\* nothing has been set".
Poses(c, e) ==
  /\ entities[e].owner = c
  /\ entities[e].poses
  /\ entities[e].from = None => intents[Actuator(c, e)].by = Body(e)
  /\ intents[Actuator(c, e)].hand # Identity

\* allosim_pose_movements
Posed(es, c) ==
  [e \in DOMAIN es |->
     IF Poses(c, e) THEN [es[e] EXCEPT !.at = intents[Actuator(c, e)].hand]
                    ELSE es[e]]

\* allosim_get_child_with_pose: the newest of these
HandsOf(avatar) == {e \in DOMAIN entities : entities[e].poses /\ entities[e].parent = avatar}

Hand(c) == Max(HandsOf(intents[c].by))

Grabbable(e) == e \in DOMAIN entities /\ entities[e].grab # "no"

\* What moves when e is grabbed
Actuated(e) == IF entities[e].grab = "parent" THEN entities[e].parent ELSE e

\* There is a hand, something grabbed, and something that moves with it.
Grabs(c) ==
  /\ HandsOf(intents[c].by) # {}
  /\ Grabbable(intents[c].grab)
  /\ Actuated(intents[c].grab) \in DOMAIN entities

\* allosim_handle_grabs, with all axes free
\* MUTANT: not converted to the space of the parent
GrabbedInWorld(es, c) ==
  LET grabbed  == intents[c].grab
      actuated == Actuated(grabbed)
      inWorld  == InWorld(es, Hand(c)) + (InWorld(es, actuated) - InWorld(es, grabbed))
  IN IF Grabs(c) THEN [es EXCEPT ![actuated].at = inWorld] ELSE es
Grabbed(es, c) ==
  LET grabbed  == intents[c].grab
      actuated == Actuated(grabbed)
      inWorld  == InWorld(es, Hand(c)) + (InWorld(es, actuated) - InWorld(es, grabbed))
  IN IF Grabs(c)
       THEN [es EXCEPT ![actuated].at = inWorld - InWorld(es, entities[actuated].parent)]
       ELSE es

\* MUTANT: what is grabbed is moved before the hand
SimulatedForGrabsFirst(es, c, to) == Posed(Grabbed(StickMoved(es, c, to), c), c)

\* One iteration of the loop of allo_simulate_iteration
SimulatedFor(es, c, to) == Grabbed(Posed(StickMoved(es, c, to), c), c)

\* The loop: the entities once the clients down to c had their turn
Iteration(to) ==
  LET After[c \in 1 .. counts.agents + 1] ==
        IF c > counts.agents
          THEN entities
          ELSE IF c \in Reached THEN SimulatedFor(After[c + 1], c, to)
                                ELSE After[c + 1]
  IN After[1]

\* In the turn of c the loop over the followed uses a NULL pointer, or the way
\* from what is grabbed, or from the hand, to the world never ends.
CrashesFor(c) ==
  \/ \E e \in DOMAIN entities :
       entities[e].owner = c /\ Follows(e) /\ ComparesWithNull(e)
  \/ Grabs(c) /\ (Cyclic(Hand(c)) \/ Cyclic(intents[c].grab))

-----------------------------------------------------------------------------
(* The animations: allosim_animate. *)

Now == counts.steps + 1

\* allosim_animate_process sets the value of the property.
Writes(a) == animations[a].spec.applies /\ animations[a].spec.start <= Now

\* "Progress" beyond 1
Over(a) == ~animations[a].spec.repeats /\ Now - animations[a].spec.start > animations[a].spec.duration

\* What it sets, "easing" linearly.  Over is what is done at exactly 1.0.
\* MUTANT: progress is not cut at 1
ValueUncut(a) ==
  LET an == animations[a].spec
  IN an.from + ((an.to - an.from) * (Now - an.start)) \div an.duration
Value(a) ==
  LET an   == animations[a].spec
      into == IF an.repeats THEN (Now - an.start) % an.duration ELSE Now - an.start
  IN IF Over(a) THEN an.to
     ELSE an.from + ((an.to - an.from) * into) \div an.duration

\* allosim_animate_process says that the animation is done.
Done(a) == Writes(a) /\ Over(a)

Foremost(S) == IF S = {} THEN None ELSE Min(S)

\* The loop over the animations of an entity, from the first on.  It goes to the
\* next one before it detaches one that is done.
\* MUTANT: it goes to the next from the one it detached, which has none
RoundDetached(before) ==
  LET a == before.cursor IN
  [cursor |-> IF Done(a) THEN None ELSE Foremost({b \in before.left : b > a}),
   left   |-> IF Done(a) THEN before.left \ {a} ELSE before.left,
   at     |-> IF Writes(a) THEN Value(a) ELSE before.at]
Round(before) ==
  LET a == before.cursor IN
  [cursor |-> Foremost({b \in before.left : b > a}),
   left   |-> IF Done(a) THEN before.left \ {a} ELSE before.left,
   at     |-> IF Writes(a) THEN Value(a) ELSE before.at]

AnimationsOf(e) == {a \in DOMAIN animations : animations[a].on = e}

\* What the loop leaves of them, and where it leaves the entity
Animate(e, at) ==
  LET all == AnimationsOf(e)
      After[n \in 0 .. Cardinality(all)] ==
        IF n = 0 THEN [cursor |-> Foremost(all), left |-> all, at |-> at]
        ELSE LET before == After[n - 1]
             IN IF before.cursor = None THEN before ELSE Round(before)
  IN After[Cardinality(all)]

Animated(es) == [e \in DOMAIN es |-> [es[e] EXCEPT !.at = Animate(e, es[e].at).at]]

Left == UNION {Animate(e, entities[e].at).left : e \in DOMAIN entities}

\* step and allo_simulate, when it is time for a step
Step(to) ==
  /\ running
  /\ counts.steps < MaxSteps
  /\ IF \E c \in Reached : CrashesFor(c) THEN Crash
     ELSE /\ counts' = [counts EXCEPT !.steps = @ + 1]
          /\ IF Reached = Simulated
               THEN /\ entities'   = Animated(Iteration(to))
                    /\ animations' = Restrict(animations, Left)
               ELSE /\ entities' = Iteration(to)
                    /\ UNCHANGED animations
          /\ UNCHANGED <<clients, intents, running>>

-----------------------------------------------------------------------------
(* What happens between two steps. *)

Bounds == [agents |-> MaxAgents, entities |-> MaxEntities, intents |-> MaxIntents,
           edits |-> MaxEdits, animations |-> MaxAnimations]

\* An event that adds n of a kind
Event(kind, n) ==
  /\ running
  /\ counts.events < MaxEvents
  /\ counts[kind] + n <= Bounds[kind]
  /\ counts' = [counts EXCEPT !.events = @ + 1, ![kind] = @ + n]

\* _client_create
Connect ==
  /\ Event("agents", 1)
  /\ LET c == counts.agents + 1 IN
     /\ clients' = [d \in Agents \cup {c} |-> IF d = c THEN None ELSE clients[d]]
     /\ intents' = [d \in Agents \cup {c} |-> IF d = c THEN NoIntent ELSE intents[d]]
  /\ UNCHANGED <<entities, animations, running>>

WithEntities(new) ==
  [e \in DOMAIN entities \cup DOMAIN new |->
     IF e \in DOMAIN new THEN new[e] ELSE entities[e]]

Avatar == [poses |-> FALSE, follows |-> FALSE, grab |-> "no"]

\* handle_place_announce_interaction: an avatar with its children.  A client may
\* announce itself again and has another avatar from then on.
Announce(c, children, followed) ==
  /\ Event("entities", 1 + Len(children))
  /\ LET avatar == counts.entities + 1 IN
     /\ entities' = WithEntities(
          [e \in avatar .. avatar + Len(children) |->
             IF e = avatar THEN Entity(c, Avatar, None, None)
                           ELSE Entity(c, children[e - avatar], avatar, followed)])
     /\ clients'  = [clients EXCEPT ![c] = avatar]
  /\ UNCHANGED <<intents, animations, running>>

\* handle_place_spawn_entity_interaction: below any entity or none, following any
\* if it follows one, and any of these may have gone
Spawn(c, shape, parent, followed) ==
  /\ Event("entities", 1)
  /\ entities' = WithEntities([e \in {counts.entities + 1} |-> Entity(c, shape, parent, followed)])
  /\ UNCHANGED <<clients, intents, animations, running>>

\* handle_place_change_components_interaction, of "relationships"; anybody may
\* put anything below anything.
ChangeComponents(e, parent) ==
  /\ Event("edits", 1)
  /\ entities[e].parent # parent
  /\ entities' = [entities EXCEPT ![e].parent = parent]
  /\ UNCHANGED <<clients, intents, animations, running>>

\* One of two ways in which an agent holds its hand, not the last one
OtherHold(c) == IF intents[c].hand = 2 * c THEN 2 * c + 1 ELSE 2 * c

\* handle_intent.  To grab what cannot be grabbed is to grab nothing.
Intent(c, gesture, grab) ==
  /\ Event("intents", 1)
  /\ intents' = [intents EXCEPT ![c] =
       [by    |-> clients[c],
        hand  |-> IF gesture.hold THEN OtherHold(c) ELSE Identity,
        stick |-> gesture.stick,
        grab  |-> grab]]
  /\ UNCHANGED <<clients, entities, animations, running>>

\* The animations that are part of these entities
AnimationsOn(left) == {a \in DOMAIN animations : animations[a].on \in left}

\* Entities go with what is below them.
Without(gone) ==
  LET left == {e \in DOMAIN entities \ gone : e \notin Below(gone)}
  IN /\ entities' = Restrict(entities, left)
     /\ animations' = Restrict(animations, AnimationsOn(left))

\* AlloRemovalReparent: the children lose their relationships.
WithoutReparent(gone) ==
  /\ entities' = [e \in DOMAIN entities \ {gone} |->
       IF entities[e].parent = gone THEN [entities[e] EXCEPT !.parent = None]
                                    ELSE entities[e]]
  /\ animations' = Restrict(animations, AnimationsOn(DOMAIN entities \ {gone}))

\* handle_place_remove_entity_interaction; anybody may remove anything.
RemoveEntity(e, mode) ==
  /\ Event("edits", 1)
  /\ IF mode = "reparent" THEN WithoutReparent(e) ELSE Without({e})
  /\ UNCHANGED <<clients, intents, running>>

\* MUTANT: its entities stay
LeaveKeepsEntities(c) ==
  /\ Event("edits", 1)
  /\ clients' = Restrict(clients, Agents \ {c})
  /\ intents' = Restrict(intents, Agents \ {c})
  /\ UNCHANGED <<entities, animations, running>>

\* clients_changed: the client left or was lost.  (PlaceServer has what the loop
\* does when it frees the entity it would go on with.)
Leave(c) ==
  /\ Event("edits", 1)
  /\ Without({e \in DOMAIN entities : entities[e].owner = c})
  /\ clients' = Restrict(clients, Agents \ {c})
  /\ intents' = Restrict(intents, Agents \ {c})
  /\ UNCHANGED running

\* handle_place_add_property_animation_interaction and
\* handle_place_remove_property_animation_interaction, of the entity that sends
\* them, which need not be there: it is used without a look.
AddAnimation(e, animation) ==
  IF e \notin DOMAIN entities THEN running /\ Crash
  ELSE /\ Event("animations", 1)
       /\ LET a == counts.animations + 1
          IN animations' = [b \in DOMAIN animations \cup {a} |->
               IF b = a THEN [on |-> e, spec |-> animation] ELSE animations[b]]
       /\ UNCHANGED <<clients, intents, entities, running>>

RemoveAnimation(e, a) ==
  IF e \notin DOMAIN entities THEN running /\ Crash
  ELSE /\ Event("edits", 1)
       /\ a \in AnimationsOf(e)
       /\ animations' = Restrict(animations, DOMAIN animations \ {a})
       /\ UNCHANGED <<clients, intents, entities, running>>

\* The avatars there are, and those that were and are still meant by an intent;
\* to follow anything else is to follow nobody.
Avatars == ({clients[c] : c \in Agents} \cup {intents[c].by : c \in Agents}) \ {None}

\* Whom one of these shapes may follow
Followable(shapes) == IF \E shape \in shapes : shape.follows THEN Avatars \cup {None} ELSE {None}

Requests(c) ==
  \/ \E children \in Children : \E followed \in Followable(Range(children)) :
       Announce(c, children, followed)
  \/ \E shape \in Shape, parent \in Named \cup {None} : \E followed \in Followable({shape}) :
       Spawn(c, shape, parent, followed)
  \/ \E gesture \in Gesture, grab \in {e \in DOMAIN entities : Grabbable(e)} \cup {None} :
       Intent(c, gesture, grab)
  \/ \E e \in DOMAIN entities :
       \/ \E parent \in Named \cup {None} : ChangeComponents(e, parent)
       \/ \E mode \in {"reparent", "cascade"} : RemoveEntity(e, mode)
  \/ \E e \in Named :
       \/ \E animation \in Animation : AddAnimation(e, animation)
       \/ \E a \in DOMAIN animations : RemoveAnimation(e, a)
  \/ Leave(c)

Next ==
  \/ Connect
  \/ \E c \in Agents : Requests(c)
  \/ \E to \in [{c \in Agents : intents[c].stick} -> Spot] : Step(to)

Spec == Init /\ [][Next]_vars

-----------------------------------------------------------------------------
(* Properties. *)

EntityType == [owner : Agents, parent : Nat \cup {None}, poses : BOOLEAN,
               from : Nat \cup {None}, grab : {"no", "self", "parent"}, at : Int]

\* Every variable keeps its type.
TypeOK ==
  /\ Agents \subseteq 1 .. counts.agents
  /\ \A c \in Agents : clients[c] \in Nat \cup {None}
  /\ DOMAIN intents = Agents
  /\ \A c \in Agents : intents[c] \in
       [by : Nat \cup {None}, hand : Nat, stick : BOOLEAN, grab : Nat \cup {None}]
  /\ DOMAIN entities \subseteq Named
  /\ \A e \in DOMAIN entities : entities[e] \in EntityType
  /\ DOMAIN animations \subseteq 1 .. counts.animations
  /\ \A a \in DOMAIN animations : animations[a] \in
       [on : DOMAIN entities, spec : Animations]
  /\ counts \in [agents : Nat, entities : Nat, intents : Nat, edits : Nat,
                  animations : Nat, events : Nat, steps : Nat]
  /\ running \in BOOLEAN

\* The client's intent is carried out in this step: it is simulated and so is
\* every newer client that is.
Heard(c) == c \in Simulated /\ \A d \in Simulated : d >= c => HasAvatar(d)

\* Some step of the simulation that the server survives
Simulates == counts'.steps > counts.steps

\* What the turn of client c moves, and what animations move in the end
MovedWithStick(c) == IF intents[c].stick THEN {intents[c].by} ELSE {}
MovedByGrab(c)    == IF Grabs(c) THEN {Actuated(intents[c].grab)} ELSE {}
MovedByPoses(c)   == {e \in DOMAIN entities : Poses(c, e)}
AnimatedNow       == {animations[a].on : a \in {a \in DOMAIN animations : Writes(a)}}

\* Nothing but a pose moves the entity in this step.
OnlyPosed(e) ==
  /\ e \notin AnimatedNow
  /\ \A c \in Agents : Heard(c) => e \notin MovedWithStick(c) \cup MovedByGrab(c)

\* "if this is a client-side move pose, make sure we're only moving this client's
\* avatar": a step poses an entity only as the client says whose body it is part
\* of, whoever it belongs to, and does so whenever that client owns it and is
\* heard, unless a newer entity of the client follows another avatar.
HandsFollowIntents ==
  [][Simulates =>
     \A e \in DOMAIN entities :
       entities[e].poses /\ entities[e].from = None /\ OnlyPosed(e) =>
       LET intent == intents[entities[e].owner]
           bodies == {c \in Simulated : intents[c].by = Body(e)}
           misled == \E f \in DOMAIN entities :
                       /\ f > e
                       /\ Follows(f)
                       /\ entities[f].owner = entities[e].owner
                       /\ entities[f].from # Body(e)
       IN /\ entities'[e].at \in {entities[e].at} \cup {intents[c].hand : c \in bodies}
          /\ Heard(entities[e].owner) /\ intent.by = Body(e)
             /\ intent.hand # Identity /\ ~misled
               => entities'[e].at = intent.hand]_vars

\* "if this entity wants to actuate some _other_ agent's intent": after a step a
\* follower is held as the followed client's latest intent says, even if that
\* client itself is not heard.
FollowersFollow ==
  [][Simulates =>
     \A e \in DOMAIN entities, d \in Simulated :
       /\ Follows(e) /\ Heard(entities[e].owner) /\ OnlyPosed(e)
       /\ intents[d].by = entities[e].from /\ intents[d].hand # Identity
       => entities'[e].at = intents[d].hand]_vars

\* After a step what is grabbed is where the hand is that grabs it, wherever the
\* step itself moved the avatar, the hand and what they are below, and whether it
\* moves itself or its parent.  Of several clients that grab it the one that
\* connected first has it.  Excepted is what a later turn or an animation moves
\* once more, and a hand that moves with what it grabs.
GrabbedIsInHand ==
  [][Simulates =>
     \A e \in DOMAIN entities :
       LET holders == {c \in Agents : Heard(c) /\ Grabs(c) /\ intents[c].grab = e}
           last    == Min(holders)
           between == Chain(e) \cup Chain(Hand(last))
           moved   == AnimatedNow \cup
                      UNION {MovedWithStick(c) \cup MovedByPoses(c) \cup MovedByGrab(c) :
                             c \in {c \in Agents : Heard(c) /\ c < last}}
       IN /\ holders # {}
          /\ Actuated(e) \notin Chain(Hand(last))
          /\ moved \cap between = {}
          => InWorld(entities', e) = InWorld(entities', Hand(last))]_vars

\* "do one final update pass at exactly 1.0 and then delete the animation": a step
\* in which every client is heard takes away just the animations that are over,
\* however many there are on an entity, and what the last of them animated ends
\* where the animation was to end.
AnimationsEnd ==
  [][Simulates /\ (\A c \in Simulated : HasAvatar(c)) =>
     LET over == {a \in DOMAIN animations :
                    /\ animations[a].spec.applies /\ ~animations[a].spec.repeats
                    /\ Now > animations[a].spec.start + animations[a].spec.duration}
     IN /\ DOMAIN animations' = DOMAIN animations \ over
        /\ \A a \in over :
             (\A b \in AnimationsOf(animations[a].on) : b > a => ~Writes(b))
               => entities'[animations[a].on].at = animations[a].spec.to]_vars
=============================================================================
