--------------------------- MODULE SimulationProofs --------------------------
(***************************************************************************)
(* What the simulation of the place does in a step, proved for any number  *)
(* of agents, entities, intents per step and events.                       *)
(***************************************************************************)
EXTENDS Simulation, FiniteSetTheorems, WellFoundedInduction, TLAPS

-----------------------------------------------------------------------------
(* Numbers.                                                                *)

LEMMA LeastElement ==
  ASSUME NEW T \in SUBSET Nat, T # {}
  PROVE  \E x \in T : \A y \in T : x <= y
<1>1. IsWellFoundedOn(OpToRel(<, Nat), Nat)
  BY NatLessThanWellFounded
<1>2. PICK x \in T : \A y \in T : <<y, x>> \notin OpToRel(<, Nat)
  BY <1>1, WFMin
<1>3. \A y \in T : ~(y < x)
  BY <1>2 DEF OpToRel
<1> QED BY <1>3

LEMMA Induction ==
  ASSUME NEW S \in SUBSET Nat, 0 \in S, \A n \in S : n + 1 \in S
  PROVE  \A n \in Nat : n \in S
<1> SUFFICES ASSUME Nat \ S # {}
             PROVE  FALSE
  OBVIOUS
<1>1. PICK x \in Nat \ S : \A y \in Nat \ S : x <= y
  BY LeastElement
<1>2. x - 1 \in Nat /\ x - 1 \in S
  BY <1>1
<1> QED BY <1>1, <1>2

LEMMA MinNat ==
  ASSUME NEW S \in SUBSET Nat, S # {}
  PROVE  Min(S) \in S /\ \A y \in S : Min(S) <= y
<1>1. \E x \in S : \A y \in S : x <= y
  BY LeastElement
<1> QED BY <1>1 DEF Min

LEMMA MaxNat ==
  ASSUME NEW S \in SUBSET Nat, S # {}, NEW n \in Nat, \A y \in S : y <= n
  PROVE  Max(S) \in S /\ \A y \in S : y <= Max(S)
<1> DEFINE T == {k \in Nat : \A y \in S : y <= k}
<1>1. PICK x \in T : \A y \in T : x <= y
  <2>1. n \in T
    OBVIOUS
  <2> HIDE DEF T
  <2> QED BY <2>1, LeastElement DEF T
<1>2. x \in S
  <2> SUFFICES ASSUME x \notin S
               PROVE  FALSE
    OBVIOUS
  <2>1. PICK y \in S : TRUE
    OBVIOUS
  <2>2. \A z \in S : z <= x - 1
    BY <1>1
  <2>3. x - 1 \in T
    BY <2>1, <2>2
  <2> QED BY <1>1, <2>3
<1>3. \E m \in S : \A y \in S : m >= y
  BY <1>1, <1>2
<1>4. Max(S) \in S /\ \A y \in S : Max(S) >= y
  BY <1>3 DEF Max
<1> QED BY <1>4

\* Where nothing changes from one number to the next, nothing changes.
LEMMA Quiet ==
  ASSUME NEW A, NEW lo \in Nat, NEW hi \in Nat, lo <= hi,
         \A k \in Nat : lo <= k /\ k < hi => A[k] = A[k + 1]
  PROVE  A[lo] = A[hi]
<1> DEFINE S == {n \in Nat : n <= hi - lo => A[hi - n] = A[hi]}
<1>1. 0 \in S
  OBVIOUS
<1>2. ASSUME NEW n \in S
      PROVE  n + 1 \in S
  <2>1. CASE n + 1 <= hi - lo
    <3>1. /\ hi - (n + 1) \in Nat /\ lo <= hi - (n + 1) /\ hi - (n + 1) < hi
          /\ (hi - (n + 1)) + 1 = hi - n
      BY <2>1
    <3>2. A[hi - n] = A[hi]
      BY <2>1
    <3> QED BY <3>1, <3>2
  <2>2. CASE ~(n + 1 <= hi - lo)
    BY <2>2
  <2> QED BY <2>1, <2>2
<1>3. S \in SUBSET Nat
  OBVIOUS
<1> HIDE DEF S
<1>4. \A n \in Nat : n \in S
  BY <1>1, <1>2, <1>3, Induction
<1>5. hi - lo \in Nat /\ hi - (hi - lo) = lo
  OBVIOUS
<1>6. hi - lo \in S
  BY <1>4, <1>5
<1> QED BY <1>5, <1>6 DEF S

\* The values that steps lead to from a base, up to the N-th.
Iterates(T, base, step, N) ==
  {f \in [0 .. N -> T] : /\ f[0] = base
                         /\ \A n \in 1 .. N : f[n] = step[n][f[n - 1]]}

LEMMA IteratesExist ==
  ASSUME NEW T, NEW base \in T, NEW step \in [Nat -> [T -> T]], NEW N \in Nat
  PROVE  Iterates(T, base, step, N) # {}
<1> DEFINE S == {n \in Nat : Iterates(T, base, step, n) # {}}
<1>1. 0 \in S
  <2>1. [n \in 0 .. 0 |-> base] \in Iterates(T, base, step, 0)
    BY DEF Iterates
  <2> QED BY <2>1
<1>2. ASSUME NEW n \in S
      PROVE  n + 1 \in S
  <2>1. PICK f : f \in Iterates(T, base, step, n)
    OBVIOUS
  <2> DEFINE g == [m \in 0 .. n + 1 |-> IF m = n + 1 THEN step[n + 1][f[n]] ELSE f[m]]
  <2>2. f \in [0 .. n -> T] /\ f[0] = base /\ \A m \in 1 .. n : f[m] = step[m][f[m - 1]]
    BY <2>1 DEF Iterates
  <2>3. g \in [0 .. n + 1 -> T]
    BY <2>2
  <2>4. g[0] = base
    BY <2>2
  <2>5. ASSUME NEW m \in 1 .. n + 1
        PROVE  g[m] = step[m][g[m - 1]]
    <3>1. CASE m = n + 1
      BY <3>1
    <3>2. CASE m # n + 1
      <4>1. m \in 1 .. n /\ m - 1 \in 0 .. n + 1 /\ m - 1 # n + 1
        BY <3>2
      <4> QED BY <4>1, <2>2
    <3> QED BY <3>1, <3>2
  <2>6. g \in Iterates(T, base, step, n + 1)
    BY <2>3, <2>4, <2>5 DEF Iterates
  <2> QED BY <2>6
<1> HIDE DEF S
<1>3. \A n \in Nat : n \in S
  BY <1>1, <1>2, Induction DEF S
<1> QED BY <1>3 DEF S

-----------------------------------------------------------------------------
(* The invariant.                                                          *)

\* The list of entities is one.
Listed == entities = [e \in DOMAIN entities |-> entities[e]]

\* The avatars an agent has and had when it sent its last intent
AvatarsOf(c) == {clients[c], intents[c].by} \ {None}

\* They are no other agent's.
OwnAvatars ==
  /\ \A c \in Agents : AvatarsOf(c) \subseteq Named
  /\ \A c, d \in Agents : c # d => AvatarsOf(c) \cap AvatarsOf(d) = {}

World == TypeOK /\ Listed /\ OwnAvatars

IntentType == [by : Nat \cup {None}, hand : Nat, stick : BOOLEAN, grab : Nat \cup {None}]

CountType == [agents : Nat, entities : Nat, intents : Nat, edits : Nat,
              animations : Nat, events : Nat, steps : Nat]

LEMMA Types ==
  TypeOK <=>
    /\ Agents \subseteq 1 .. counts.agents
    /\ \A c \in Agents : clients[c] \in Nat \cup {None}
    /\ DOMAIN intents = Agents
    /\ \A c \in Agents : intents[c] \in IntentType
    /\ DOMAIN entities \subseteq Named
    /\ \A e \in DOMAIN entities : entities[e] \in EntityType
    /\ DOMAIN animations \subseteq 1 .. counts.animations
    /\ \A a \in DOMAIN animations : animations[a] \in [on : DOMAIN entities, spec : Animations]
    /\ counts \in CountType
    /\ running \in BOOLEAN
BY DEF TypeOK, IntentType, CountType

\* The numbers of all things are natural numbers.
LEMMA Numbers ==
  ASSUME World
  PROVE  /\ counts \in CountType
         /\ counts.agents \in Nat /\ counts.entities \in Nat
         /\ counts.animations \in Nat /\ counts.steps \in Nat
         /\ Agents \subseteq Nat /\ DOMAIN entities \subseteq Nat
         /\ DOMAIN animations \subseteq Nat /\ Named \subseteq Nat
         /\ None \notin Nat
<1>1. counts \in CountType
  BY Types DEF World
<1>2. counts.agents \in Nat /\ counts.entities \in Nat
      /\ counts.animations \in Nat /\ counts.steps \in Nat
  BY <1>1 DEF CountType
<1>3. Agents \subseteq 1 .. counts.agents /\ DOMAIN entities \subseteq 1 .. counts.entities
      /\ DOMAIN animations \subseteq 1 .. counts.animations
  BY Types DEF World, Named
<1>4. None \notin Nat
  BY SimulationAssumption
<1> QED BY <1>1, <1>2, <1>3, <1>4 DEF Named

LEMMA InitWorld ==
  ASSUME Init
  PROVE  World
<1>1. /\ DOMAIN clients = {} /\ DOMAIN intents = {}
      /\ DOMAIN entities = {} /\ DOMAIN animations = {}
      /\ entities = [e \in DOMAIN entities |-> entities[e]]
  BY DEF Init
<1>2. TypeOK
  BY <1>1 DEF Init, TypeOK, Agents, NothingMade
<1> QED BY <1>1, <1>2 DEF World, Listed, OwnAvatars, Agents

\* After a crash there is nothing.
LEMMA CrashWorld ==
  ASSUME Crash
  PROVE  World'
<1>1. /\ DOMAIN clients' = {} /\ DOMAIN intents' = {}
      /\ DOMAIN entities' = {} /\ DOMAIN animations' = {}
      /\ entities' = [e \in DOMAIN entities' |-> entities'[e]]
  BY DEF Crash
<1>2. TypeOK'
  BY <1>1 DEF Crash, TypeOK, Agents, NothingMade
<1> QED BY <1>1, <1>2 DEF World, Listed, OwnAvatars, Agents

-----------------------------------------------------------------------------
(* What happens between two steps keeps the invariant.                     *)

LEMMA EventCounts ==
  ASSUME World, NEW n \in Nat,
         NEW kind \in {"agents", "entities", "intents", "edits", "animations"},
         Event(kind, n)
  PROVE  /\ running
         /\ counts' \in CountType
         /\ counts'.agents = IF kind = "agents" THEN counts.agents + n ELSE counts.agents
         /\ counts'.entities = IF kind = "entities" THEN counts.entities + n ELSE counts.entities
         /\ counts'.animations = IF kind = "animations" THEN counts.animations + n
                                                        ELSE counts.animations
         /\ counts'.steps = counts.steps
<1>1. /\ counts \in CountType
      /\ counts' = [[counts EXCEPT !.events = @ + 1] EXCEPT ![kind] = @ + n]
  BY Numbers DEF Event
<1>2. CASE kind = "agents"
  <2>1. counts' = [agents |-> counts.agents + n, entities |-> counts.entities, intents |-> counts.intents,
                   edits |-> counts.edits, animations |-> counts.animations,
                   events |-> counts.events + 1, steps |-> counts.steps]
    BY <1>1, <1>2 DEF CountType
  <2> QED BY <1>1, <1>2, <2>1 DEF Event, CountType
<1>3. CASE kind = "entities"
  <2>1. counts' = [agents |-> counts.agents, entities |-> counts.entities + n, intents |-> counts.intents,
                   edits |-> counts.edits, animations |-> counts.animations,
                   events |-> counts.events + 1, steps |-> counts.steps]
    BY <1>1, <1>3 DEF CountType
  <2> QED BY <1>1, <1>3, <2>1 DEF Event, CountType
<1>4. CASE kind = "intents"
  <2>1. counts' = [agents |-> counts.agents, entities |-> counts.entities, intents |-> counts.intents + n,
                   edits |-> counts.edits, animations |-> counts.animations,
                   events |-> counts.events + 1, steps |-> counts.steps]
    BY <1>1, <1>4 DEF CountType
  <2> QED BY <1>1, <1>4, <2>1 DEF Event, CountType
<1>5. CASE kind = "edits"
  <2>1. counts' = [agents |-> counts.agents, entities |-> counts.entities, intents |-> counts.intents,
                   edits |-> counts.edits + n, animations |-> counts.animations,
                   events |-> counts.events + 1, steps |-> counts.steps]
    BY <1>1, <1>5 DEF CountType
  <2> QED BY <1>1, <1>5, <2>1 DEF Event, CountType
<1>6. CASE kind = "animations"
  <2>1. counts' = [agents |-> counts.agents, entities |-> counts.entities, intents |-> counts.intents,
                   edits |-> counts.edits, animations |-> counts.animations + n,
                   events |-> counts.events + 1, steps |-> counts.steps]
    BY <1>1, <1>6 DEF CountType
  <2> QED BY <1>1, <1>6, <2>1 DEF Event, CountType
<1> QED BY <1>2, <1>3, <1>4, <1>5, <1>6

LEMMA ConnectWorld ==
  ASSUME World, Connect
  PROVE  World'
<1> PICK c : c = counts.agents + 1
  OBVIOUS
<1>1. /\ running /\ counts' \in CountType
      /\ counts'.agents = counts.agents + 1 /\ counts'.entities = counts.entities
      /\ counts'.animations = counts.animations
      /\ counts.agents \in Nat /\ counts.entities \in Nat
  BY EventCounts, Numbers DEF Connect
<1>2. /\ Agents' = Agents \cup {c} /\ DOMAIN intents' = Agents \cup {c}
      /\ clients'[c] = None /\ intents'[c] = NoIntent
      /\ c \notin Agents
      /\ \A d \in Agents : clients'[d] = clients[d] /\ intents'[d] = intents[d]
      /\ UNCHANGED <<entities, animations, running>>
  <2>1. Agents \subseteq 1 .. counts.agents
    BY Types DEF World
  <2>2. c \notin Agents
    BY <1>1, <2>1
  <2> QED BY <2>2 DEF Connect, Agents
<1>3. TypeOK'
  <2>1. NoIntent \in IntentType
    BY DEF NoIntent, IntentType, Identity
  <2>2. \A e \in DOMAIN entities : entities[e] \in EntityType'
    BY <1>2, Types DEF World, EntityType
  <2>3. Agents' \subseteq 1 .. counts'.agents
    <3>1. Agents \subseteq 1 .. counts.agents
      BY Types DEF World
    <3>2. \A d \in 1 .. counts.agents : d \in 1 .. counts.agents + 1
      BY <1>1
    <3>3. c \in 1 .. counts.agents + 1
      BY <1>1
    <3> QED BY <3>1, <3>2, <3>3, <1>1, <1>2
  <2>4. \A d \in Agents' : clients'[d] \in Nat \cup {None} /\ intents'[d] \in IntentType
    BY <1>2, <2>1, Types DEF World
  <2> QED BY <1>1, <1>2, <2>2, <2>3, <2>4, Types
          DEF World, TypeOK, EntityType, IntentType, CountType, Named
<1>4. Listed'
  BY <1>2 DEF World, Listed
<1>5. OwnAvatars'
  <2>1. AvatarsOf(c)' = {}
    BY <1>2 DEF AvatarsOf, NoIntent
  <2>2. \A d \in Agents : AvatarsOf(d)' = AvatarsOf(d)
    BY <1>2 DEF AvatarsOf
  <2> QED BY <1>1, <1>2, <2>1, <2>2 DEF World, OwnAvatars, Named
<1> QED BY <1>3, <1>4, <1>5 DEF World

\* What a client adds to the entities has a type.
LEMMA EntityTypes ==
  ASSUME NEW c \in Agents, NEW shape \in Shapes, NEW parent \in Nat \cup {None},
         NEW followed \in Nat \cup {None}
  PROVE  Entity(c, shape, parent, followed) \in EntityType
BY DEF Entity, EntityType, Shapes, Identity

\* More entities, numbered on, leave a list of entities.
LEMMA WithEntitiesTypes ==
  ASSUME World, NEW new, NEW n \in Nat,
         DOMAIN new \subseteq counts.entities + 1 .. counts.entities + n,
         \A e \in DOMAIN new : new[e] \in EntityType,
         counts'.entities = counts.entities + n, counts' \in CountType,
         counts'.agents = counts.agents, counts'.animations = counts.animations,
         entities' = WithEntities(new), UNCHANGED <<intents, animations, running>>,
         DOMAIN clients' = Agents, \A c \in Agents : clients'[c] \in Nat \cup {None}
  PROVE  /\ TypeOK' /\ Listed' /\ Agents' = Agents
         /\ Named \subseteq Named'
<1>1. /\ DOMAIN entities' = DOMAIN entities \cup DOMAIN new
      /\ \A e \in DOMAIN entities' : entities'[e] = IF e \in DOMAIN new THEN new[e] ELSE entities[e]
      /\ Listed'
  BY DEF WithEntities, Listed
<1>2. Agents' = Agents
  BY DEF Agents
<1>3. counts.entities \in Nat /\ counts'.entities \in Nat
  BY Numbers
<1>4. Named \subseteq Named' /\ DOMAIN new \subseteq Named'
  BY <1>3 DEF Named
<1>5. DOMAIN entities' \subseteq Named'
  BY <1>1, <1>4, Types DEF World
<1>6. \A e \in DOMAIN entities' : entities'[e] \in EntityType
  BY <1>1, Types DEF World
<1>7. \A a \in DOMAIN animations : animations[a] \in [on : DOMAIN entities', spec : Animations]
  BY <1>1, Types DEF World
<1>8. TypeOK'
  BY <1>2, <1>5, <1>6, <1>7, Types DEF World, TypeOK, EntityType, IntentType, CountType
<1> QED BY <1>1, <1>2, <1>4, <1>8

LEMMA AnnounceWorld ==
  ASSUME World, NEW c \in Agents, NEW children \in Children,
         NEW followed \in Nat \cup {None}, Announce(c, children, followed)
  PROVE  World'
<1> PICK avatar : avatar = counts.entities + 1
  OBVIOUS
<1> DEFINE new == [e \in avatar .. avatar + Len(children) |->
                    IF e = avatar THEN Entity(c, Avatar, None, None)
                                  ELSE Entity(c, children[e - avatar], avatar, followed)]
<1>1. children \in Seq(Shapes) /\ Len(children) \in Nat
  BY SimulationAssumption
<1> DEFINE n == 1 + Len(children)
<1>2. /\ running /\ counts' \in CountType
      /\ counts'.agents = counts.agents /\ counts'.entities = counts.entities + n
      /\ counts'.animations = counts.animations
      /\ counts.agents \in Nat /\ counts.entities \in Nat /\ n \in Nat
  <2>1. Event("entities", n) /\ n \in Nat
    BY <1>1 DEF Announce
  <2> HIDE DEF n
  <2> QED BY <2>1, EventCounts, Numbers
<1>3. avatar \in Nat /\ avatar # None /\ avatar \in Nat \cup {None}
  BY <1>2, SimulationAssumption
<1>4. /\ entities' = WithEntities(new)
      /\ clients' = [clients EXCEPT ![c] = avatar]
      /\ UNCHANGED <<intents, animations, running>>
  BY DEF Announce
<1>5. DOMAIN clients' = Agents /\ clients'[c] = avatar
      /\ \A d \in Agents : d # c => clients'[d] = clients[d]
  BY <1>4 DEF Agents
<1>6. DOMAIN new = avatar .. avatar + Len(children)
  OBVIOUS
<1>7. ASSUME NEW e \in DOMAIN new
      PROVE  new[e] \in EntityType
  <2>1. CASE e = avatar
    <3>1. Avatar \in Shapes
      BY DEF Avatar, Shapes
    <3> QED BY <2>1, <3>1, EntityTypes
  <2>2. CASE e # avatar
    <3>1. e - avatar \in 1 .. Len(children)
      BY <1>1, <1>3, <1>6, <2>2
    <3>2. children[e - avatar] \in Shapes
      BY <1>1, <3>1
    <3>3. new[e] = Entity(c, children[e - avatar], avatar, followed)
      BY <2>2
    <3> QED BY <1>3, <3>2, <3>3, EntityTypes
  <2> QED BY <2>1, <2>2
<1>8. DOMAIN new \subseteq counts.entities + 1 .. counts.entities + n
  BY <1>1, <1>2, <1>6
<1>9. \A d \in Agents : clients'[d] \in Nat \cup {None}
  BY <1>3, <1>5, Types DEF World
<1> HIDE DEF new, n
<1>10. /\ TypeOK' /\ Listed' /\ Agents' = Agents
       /\ Named \subseteq Named'
  BY <1>2, <1>4, <1>5, <1>7, <1>8, <1>9, WithEntitiesTypes
<1>11. OwnAvatars'
  <2>1. avatar \in Named' /\ avatar \notin Named
    BY <1>1, <1>2 DEF Named, n
  <2>2. AvatarsOf(c)' \subseteq AvatarsOf(c) \cup {avatar}
    BY <1>4, <1>5 DEF AvatarsOf
  <2>3. \A d \in Agents : d # c => AvatarsOf(d)' = AvatarsOf(d)
    BY <1>4, <1>5 DEF AvatarsOf
  <2>4. \A d \in Agents : AvatarsOf(d) \subseteq Named
    BY DEF World, OwnAvatars
  <2>5. \A d \in Agents : d # c => AvatarsOf(c) \cap AvatarsOf(d) = {}
    BY DEF World, OwnAvatars
  <2>6. \A d, f \in Agents : d # f => AvatarsOf(d)' \cap AvatarsOf(f)' = {}
    <3> SUFFICES ASSUME NEW d \in Agents, NEW f \in Agents, d # f
                 PROVE  AvatarsOf(d)' \cap AvatarsOf(f)' = {}
      OBVIOUS
    <3>1. CASE d = c
      BY <3>1, <2>1, <2>2, <2>3, <2>4, <2>5
    <3>2. CASE f = c
      BY <3>2, <2>1, <2>2, <2>3, <2>4, <2>5
    <3>3. CASE d # c /\ f # c
      BY <3>3, <2>3 DEF World, OwnAvatars
    <3> QED BY <3>1, <3>2, <3>3
  <2>7. \A d \in Agents : AvatarsOf(d)' \subseteq Named'
    BY <1>10, <2>1, <2>2, <2>3, <2>4
  <2> QED BY <1>10, <2>6, <2>7 DEF OwnAvatars
<1> QED BY <1>10, <1>11 DEF World

LEMMA SpawnWorld ==
  ASSUME World, NEW c \in Agents, NEW shape \in Shapes, NEW parent \in Nat \cup {None},
         NEW followed \in Nat \cup {None}, Spawn(c, shape, parent, followed)
  PROVE  World'
<1> PICK new : new = [e \in {counts.entities + 1} |-> Entity(c, shape, parent, followed)]
  OBVIOUS
<1>1. /\ running /\ counts' \in CountType
      /\ counts'.agents = counts.agents /\ counts'.entities = counts.entities + 1
      /\ counts'.animations = counts.animations
      /\ counts.agents \in Nat /\ counts.entities \in Nat
  BY EventCounts, Numbers DEF Spawn
<1>2. entities' = WithEntities(new) /\ UNCHANGED <<clients, intents, animations, running>>
  BY DEF Spawn
<1>3. /\ DOMAIN new \subseteq counts.entities + 1 .. counts.entities + 1
      /\ \A e \in DOMAIN new : new[e] \in EntityType
  BY <1>1, EntityTypes
<1>4. DOMAIN clients' = Agents /\ \A d \in Agents : clients'[d] \in Nat \cup {None}
  BY <1>2, Types DEF World, Agents
<1>5. 1 \in Nat
  OBVIOUS
<1>6. TypeOK' /\ Listed' /\ Agents' = Agents /\ Named \subseteq Named'
  BY <1>1, <1>2, <1>3, <1>4, <1>5, WithEntitiesTypes
<1>7. OwnAvatars'
  <2>1. \A d \in Agents : AvatarsOf(d)' = AvatarsOf(d)
    BY <1>2 DEF AvatarsOf
  <2> QED BY <1>6, <2>1 DEF World, OwnAvatars
<1> QED BY <1>6, <1>7 DEF World

\* Who is connected, and with which avatars and intents, stays as it is.
LEMMA SameAvatars ==
  ASSUME World, UNCHANGED <<clients, intents>>, counts'.entities = counts.entities
  PROVE  OwnAvatars' /\ Agents' = Agents /\ Named' = Named
<1>1. \A d \in Agents : AvatarsOf(d)' = AvatarsOf(d)
  BY DEF AvatarsOf
<1>2. Agents' = Agents /\ Named' = Named
  BY DEF Agents, Named
<1> QED BY <1>1, <1>2 DEF World, OwnAvatars

LEMMA ChangeComponentsWorld ==
  ASSUME World, NEW e \in DOMAIN entities, NEW parent \in Nat \cup {None},
         ChangeComponents(e, parent)
  PROVE  World'
<1>1. /\ counts' \in CountType /\ counts'.agents = counts.agents
      /\ counts'.entities = counts.entities /\ counts'.animations = counts.animations
  BY EventCounts DEF ChangeComponents
<1>2. UNCHANGED <<clients, intents, animations, running>>
  BY DEF ChangeComponents
<1>3. OwnAvatars' /\ Agents' = Agents /\ Named' = Named
  BY <1>1, <1>2, SameAvatars
<1>4. /\ DOMAIN entities' = DOMAIN entities /\ Listed'
      /\ \A x \in DOMAIN entities : x # e => entities'[x] = entities[x]
      /\ entities'[e] = [entities[e] EXCEPT !.parent = parent]
  BY DEF ChangeComponents, Listed
<1>5. entities'[e] \in EntityType
  BY <1>4, Types DEF World, EntityType
<1>6. \A x \in DOMAIN entities : entities'[x] \in EntityType
  BY <1>4, <1>5, Types DEF World
<1>7. TypeOK'
  BY <1>1, <1>2, <1>3, <1>4, <1>6, Types DEF World, TypeOK, EntityType, IntentType, CountType
<1> QED BY <1>3, <1>4, <1>7 DEF World

LEMMA IntentWorld ==
  ASSUME World, NEW c \in Agents, NEW gesture \in Gesture,
         NEW grab \in Nat \cup {None}, Intent(c, gesture, grab)
  PROVE  World'
<1>1. /\ counts' \in CountType /\ counts'.agents = counts.agents
      /\ counts'.entities = counts.entities /\ counts'.animations = counts.animations
  BY EventCounts DEF Intent
<1>2. /\ UNCHANGED <<clients, entities, animations, running>>
      /\ Agents' = Agents /\ Named' = Named /\ DOMAIN intents' = Agents
      /\ intents'[c] = [by    |-> clients[c],
                        hand  |-> IF gesture.hold THEN OtherHold(c) ELSE Identity,
                        stick |-> gesture.stick,
                        grab  |-> grab]
      /\ \A d \in Agents : d # c => intents'[d] = intents[d]
  BY <1>1, Types DEF World, Intent, Agents, Named
<1>3. TypeOK'
  <2>1. clients[c] \in Nat \cup {None} /\ gesture.stick \in BOOLEAN
    BY SimulationAssumption, Types DEF World
  <2>2. OtherHold(c) \in Nat /\ Identity \in Nat
    BY Numbers DEF OtherHold, Identity
  <2>3. intents'[c] \in IntentType
    BY <1>2, <2>1, <2>2 DEF IntentType
  <2>4. \A d \in Agents : intents'[d] \in IntentType
    BY <1>2, <2>3, Types DEF World
  <2> QED BY <1>1, <1>2, <2>4, Types DEF World, TypeOK, EntityType, IntentType, CountType
<1>4. Listed'
  BY <1>2 DEF World, Listed
<1>5. OwnAvatars'
  <2>1. \A d \in Agents : AvatarsOf(d)' \subseteq AvatarsOf(d)
    BY <1>2 DEF AvatarsOf
  <2> QED BY <1>2, <2>1 DEF World, OwnAvatars
<1> QED BY <1>3, <1>4, <1>5 DEF World

\* What is left of the entities and of their animations
Leaves(left) ==
  /\ DOMAIN entities' = left /\ left \subseteq DOMAIN entities /\ Listed'
  /\ \A e \in left : entities'[e] = entities[e] \/ entities'[e] = [entities[e] EXCEPT !.parent = None]
  /\ DOMAIN animations' \subseteq DOMAIN animations
  /\ \A a \in DOMAIN animations' : animations'[a] = animations[a] /\ animations[a].on \in left

LEMMA LeavesTypes ==
  ASSUME World, NEW left, Leaves(left)
  PROVE  /\ DOMAIN entities' \subseteq Named
         /\ \A e \in DOMAIN entities' :
              entities'[e] \in EntityType /\ entities'[e].owner = entities[e].owner
         /\ DOMAIN animations' \subseteq 1 .. counts.animations
         /\ \A a \in DOMAIN animations' :
              animations'[a] \in [on : DOMAIN entities', spec : Animations]
<1>1. /\ DOMAIN entities \subseteq Named /\ DOMAIN animations \subseteq 1 .. counts.animations
      /\ \A e \in DOMAIN entities : entities[e] \in EntityType
      /\ \A a \in DOMAIN animations : animations[a] \in [on : DOMAIN entities, spec : Animations]
  BY Types DEF World
<1>2. ASSUME NEW e \in DOMAIN entities
      PROVE  /\ [entities[e] EXCEPT !.parent = None] \in EntityType
             /\ [entities[e] EXCEPT !.parent = None].owner = entities[e].owner
  BY <1>1 DEF EntityType
<1>3. \A e \in DOMAIN entities' :
        entities'[e] \in EntityType /\ entities'[e].owner = entities[e].owner
  BY <1>1, <1>2 DEF Leaves
<1> QED BY <1>1, <1>3 DEF Leaves

LEMMA WithoutLeaves ==
  ASSUME World, NEW gone, Without(gone)
  PROVE  \E left \in SUBSET (DOMAIN entities \ gone) : Leaves(left)
<1> PICK left : left = {e \in DOMAIN entities \ gone : e \notin Below(gone)}
  OBVIOUS
<1>1. /\ entities' = [e \in left |-> entities[e]]
      /\ animations' = [a \in AnimationsOn(left) |-> animations[a]]
  BY DEF Without, Restrict
<1>2. AnimationsOn(left) \subseteq DOMAIN animations
      /\ \A a \in AnimationsOn(left) : animations[a].on \in left
  BY DEF AnimationsOn
<1>3. Leaves(left)
  BY <1>1, <1>2 DEF Leaves, Listed
<1> QED BY <1>3

LEMMA RemoveEntityWorld ==
  ASSUME World, NEW e \in DOMAIN entities, NEW mode, RemoveEntity(e, mode)
  PROVE  World'
<1>1. /\ counts' \in CountType /\ counts'.agents = counts.agents
      /\ counts'.entities = counts.entities /\ counts'.animations = counts.animations
  BY EventCounts DEF RemoveEntity
<1>2. UNCHANGED <<clients, intents, running>>
  BY DEF RemoveEntity
<1>3. OwnAvatars' /\ Agents' = Agents /\ Named' = Named
  BY <1>1, <1>2, SameAvatars
<1>4. \E left : Leaves(left)
  <2>1. CASE Without({e})
    BY <2>1, WithoutLeaves
  <2>2. CASE WithoutReparent(e)
    <3> PICK left : left = DOMAIN entities \ {e}
      OBVIOUS
    <3>1. /\ entities' = [x \in left |-> IF entities[x].parent = e
                            THEN [entities[x] EXCEPT !.parent = None] ELSE entities[x]]
          /\ animations' = [a \in AnimationsOn(left) |-> animations[a]]
      BY <2>2 DEF WithoutReparent, Restrict
    <3>2. AnimationsOn(left) \subseteq DOMAIN animations
          /\ \A a \in AnimationsOn(left) : animations[a].on \in left
      BY DEF AnimationsOn
    <3>3. Leaves(left)
      BY <3>1, <3>2 DEF Leaves, Listed
    <3> QED BY <3>3
  <2> QED BY <2>1, <2>2 DEF RemoveEntity
<1>5. PICK left : Leaves(left)
  BY <1>4
<1>6. TypeOK'
  BY <1>1, <1>2, <1>3, <1>5, LeavesTypes, Types
     DEF World, TypeOK, EntityType, IntentType, CountType
<1> QED BY <1>3, <1>5, <1>6 DEF World, Leaves

LEMMA LeaveWorld ==
  ASSUME World, NEW c \in Agents, Leave(c)
  PROVE  World'
<1> PICK gone : gone = {e \in DOMAIN entities : entities[e].owner = c}
  OBVIOUS
<1>1. /\ counts' \in CountType /\ counts'.agents = counts.agents
      /\ counts'.entities = counts.entities /\ counts'.animations = counts.animations
  BY EventCounts DEF Leave
<1>2. /\ UNCHANGED running /\ Named' = Named
      /\ Agents' = Agents \ {c} /\ DOMAIN intents' = Agents \ {c}
      /\ \A d \in Agents \ {c} : clients'[d] = clients[d] /\ intents'[d] = intents[d]
  BY <1>1, Types DEF World, Leave, Agents, Restrict, Named
<1>3. Without(gone)
  BY DEF Leave
<1>4. PICK left \in SUBSET (DOMAIN entities \ gone) : Leaves(left)
  BY <1>3, WithoutLeaves
<1>5. /\ DOMAIN entities' \subseteq Named
      /\ \A e \in DOMAIN entities' :
           entities'[e] \in EntityType /\ entities'[e].owner = entities[e].owner
      /\ DOMAIN animations' \subseteq 1 .. counts.animations
      /\ \A a \in DOMAIN animations' :
           animations'[a] \in [on : DOMAIN entities', spec : Animations]
  BY <1>4, LeavesTypes
<1>6. TypeOK'
  <2>1. \A e \in DOMAIN entities' : entities'[e] \in EntityType'
    <3>1. \A e \in DOMAIN entities' : entities[e].owner # c
      BY <1>4 DEF Leaves
    <3> QED BY <1>2, <1>5, <3>1 DEF EntityType
  <2>2. \A d \in Agents' : clients'[d] \in Nat \cup {None} /\ intents'[d] \in IntentType
    BY <1>2, Types DEF World
  <2>3. Agents' \subseteq 1 .. counts'.agents /\ running' \in BOOLEAN
    BY <1>1, <1>2, Types DEF World
  <2> QED BY <1>1, <1>2, <1>5, <2>1, <2>2, <2>3 DEF TypeOK, IntentType, CountType
<1>7. OwnAvatars'
  <2>1. \A d \in Agents \ {c} : AvatarsOf(d)' = AvatarsOf(d)
    BY <1>2 DEF AvatarsOf
  <2> QED BY <1>2, <2>1 DEF World, OwnAvatars
<1> QED BY <1>4, <1>6, <1>7 DEF World, Leaves

LEMMA AddAnimationWorld ==
  ASSUME World, NEW e, NEW animation \in Animation, AddAnimation(e, animation)
  PROVE  World'
<1> SUFFICES ASSUME e \in DOMAIN entities
             PROVE  World'
  BY CrashWorld DEF AddAnimation
<1>1. /\ counts' \in CountType /\ counts'.agents = counts.agents
      /\ counts'.entities = counts.entities /\ counts'.animations = counts.animations + 1
      /\ counts.animations \in Nat
  BY EventCounts, Numbers DEF AddAnimation
<1>2. UNCHANGED <<clients, intents, entities, running>>
  BY DEF AddAnimation
<1>3. OwnAvatars' /\ Agents' = Agents /\ Named' = Named
  BY <1>1, <1>2, SameAvatars
<1> PICK a : a = counts.animations + 1
  OBVIOUS
<1>4. /\ DOMAIN animations' = DOMAIN animations \cup {a}
      /\ animations'[a] = [on |-> e, spec |-> animation]
      /\ \A b \in DOMAIN animations : b # a => animations'[b] = animations[b]
  BY DEF AddAnimation
<1>5. /\ DOMAIN animations' \subseteq 1 .. counts'.animations
      /\ \A b \in DOMAIN animations' :
           animations'[b] \in [on : DOMAIN entities, spec : Animations]
  <2>1. /\ DOMAIN animations \subseteq 1 .. counts.animations
        /\ \A b \in DOMAIN animations : animations[b] \in [on : DOMAIN entities, spec : Animations]
    BY Types DEF World
  <2>2. [on |-> e, spec |-> animation] \in [on : DOMAIN entities, spec : Animations]
    BY SimulationAssumption
  <2> QED BY <1>1, <1>4, <2>1, <2>2
<1>6. TypeOK'
  BY <1>1, <1>2, <1>3, <1>5, Types DEF World, TypeOK, EntityType, IntentType, CountType
<1> QED BY <1>2, <1>3, <1>6 DEF World, Listed

LEMMA RemoveAnimationWorld ==
  ASSUME World, NEW e, NEW a, RemoveAnimation(e, a)
  PROVE  World'
<1> SUFFICES ASSUME e \in DOMAIN entities
             PROVE  World'
  BY CrashWorld DEF RemoveAnimation
<1>1. /\ counts' \in CountType /\ counts'.agents = counts.agents
      /\ counts'.entities = counts.entities /\ counts'.animations = counts.animations
  BY EventCounts DEF RemoveAnimation
<1>2. UNCHANGED <<clients, intents, entities, running>>
  BY DEF RemoveAnimation
<1>3. OwnAvatars' /\ Agents' = Agents /\ Named' = Named
  BY <1>1, <1>2, SameAvatars
<1>4. /\ DOMAIN animations' \subseteq DOMAIN animations
      /\ \A b \in DOMAIN animations' : animations'[b] = animations[b]
  BY DEF RemoveAnimation, Restrict
<1>5. /\ DOMAIN animations' \subseteq 1 .. counts.animations
      /\ \A b \in DOMAIN animations' :
           animations'[b] \in [on : DOMAIN entities, spec : Animations]
  BY <1>4, Types DEF World
<1>6. TypeOK'
  BY <1>1, <1>2, <1>3, <1>5, Types DEF World, TypeOK, EntityType, IntentType, CountType
<1> QED BY <1>2, <1>3, <1>6 DEF World, Listed

-----------------------------------------------------------------------------
(* One client's turn in a step.                                            *)

\* The entities in the course of a step: only where they are changes.
Placements ==
  {es \in [DOMAIN entities -> EntityType] :
     \A e \in DOMAIN entities :
       /\ es[e].owner = entities[e].owner /\ es[e].parent = entities[e].parent
       /\ es[e].poses = entities[e].poses /\ es[e].from = entities[e].from
       /\ es[e].grab = entities[e].grab}

\* Where the stick may bring the avatars
Ways == [{c \in Agents : intents[c].stick} -> Spot]

LEMMA EntitiesPlaced ==
  ASSUME World
  PROVE  entities \in Placements
BY Types DEF World, Listed, Placements

\* The place of an entity is all that such a change changes.
LEMMA PlacedAt ==
  ASSUME NEW es \in Placements, NEW e \in DOMAIN entities, NEW at \in Int
  PROVE  LET r == [es[e] EXCEPT !.at = at]
         IN /\ r \in EntityType /\ r.at = at
            /\ r.owner = entities[e].owner /\ r.parent = entities[e].parent
            /\ r.poses = entities[e].poses /\ r.from = entities[e].from
            /\ r.grab = entities[e].grab
BY DEF Placements, EntityType

\* Another place for some of the entities
LEMMA Moved ==
  ASSUME NEW es \in Placements, NEW es2, DOMAIN es2 = DOMAIN entities,
         es2 = [e \in DOMAIN es2 |-> es2[e]],
         \A e \in DOMAIN entities :
           es2[e] = es[e] \/ \E at \in Int : es2[e] = [es[e] EXCEPT !.at = at]
  PROVE  es2 \in Placements
<1>1. ASSUME NEW e \in DOMAIN entities
      PROVE  /\ es2[e] \in EntityType
             /\ es2[e].owner = entities[e].owner /\ es2[e].parent = entities[e].parent
             /\ es2[e].poses = entities[e].poses /\ es2[e].from = entities[e].from
             /\ es2[e].grab = entities[e].grab
  <2>1. CASE es2[e] = es[e]
    BY <2>1 DEF Placements
  <2>2. ASSUME NEW at \in Int, es2[e] = [es[e] EXCEPT !.at = at]
        PROVE  /\ es2[e] \in EntityType
               /\ es2[e].owner = entities[e].owner /\ es2[e].parent = entities[e].parent
               /\ es2[e].poses = entities[e].poses /\ es2[e].from = entities[e].from
               /\ es2[e].grab = entities[e].grab
    BY <2>2, PlacedAt
  <2> QED BY <2>1, <2>2
<1>2. es2 \in [DOMAIN entities -> EntityType]
  BY <1>1
<1> QED BY <1>1, <1>2 DEF Placements

\* However deep an entity is, it is somewhere in the world.
LEMMA InWorldTypes ==
  ASSUME World, NEW es \in Placements, NEW e
  PROVE  InWorld(es, e) \in Int
<1> SUFFICES ASSUME e \in DOMAIN entities
             PROVE  InWorld(es, e) \in Int
  BY DEF InWorld, Placements, Identity
<1> PICK D : D = DOMAIN entities
  OBVIOUS
<1> PICK N : N = Cardinality(D)
  OBVIOUS
<1>1. N \in Nat
  <2>1. D \subseteq 1 .. counts.entities /\ counts.entities \in Nat
    BY Numbers, Types DEF World, Named
  <2>2. IsFiniteSet(1 .. counts.entities)
    BY <2>1, FS_Interval
  <2> QED BY <2>1, <2>2, FS_Subset, FS_CardinalityType
<1>2. DOMAIN es = D /\ \A x \in D : es[x].at \in Int
  BY DEF Placements, EntityType
<1> DEFINE T == [D -> Int]
           Up(above, n) == [x \in D |-> IF n > 0 /\ es[x].parent \in D
                                          THEN above[es[x].parent] + es[x].at
                                          ELSE es[x].at]
           base == [x \in D |-> es[x].at]
           step == [n \in Nat |-> [above \in T |-> Up(above, n)]]
           Recursive(f) ==
             f = [n \in 0 .. N |->
                    [x \in D |-> IF n > 0 /\ es[x].parent \in D
                                   THEN f[n - 1][es[x].parent] + es[x].at
                                   ELSE es[x].at]]
           toWorld == CHOOSE f : Recursive(f)
<1>3. InWorld(es, e) = toWorld[N][e]
  BY <1>2 DEF InWorld
<1>4. base \in T
  BY <1>2
<1>5. step \in [Nat -> [T -> T]]
  <2>1. ASSUME NEW n \in Nat, NEW above \in T
        PROVE  Up(above, n) \in T
    BY <1>2
  <2> QED BY <2>1
<1>6. PICK f : f \in Iterates(T, base, step, N)
  <2> HIDE DEF T, base, step
  <2> QED BY <1>1, <1>4, <1>5, IteratesExist
<1>7. Recursive(f)
  <2> HIDE DEF T, base, step
  <2>2. /\ f \in [0 .. N -> T] /\ f[0] = base
        /\ \A n \in 1 .. N : f[n] = step[n][f[n - 1]]
    BY <1>6 DEF Iterates
  <2> USE DEF T, base, step
  <2>1. ASSUME NEW n \in 0 .. N
        PROVE  f[n] = [x \in D |-> IF n > 0 /\ es[x].parent \in D
                                     THEN f[n - 1][es[x].parent] + es[x].at
                                     ELSE es[x].at]
    <3>1. CASE n = 0
      BY <2>2, <3>1
    <3>2. CASE n # 0
      <4>2. n - 1 \in 0 .. N /\ n \in 1 .. N /\ n \in Nat /\ n > 0
        BY <1>1, <3>2
      <4>1. f[n] = step[n][f[n - 1]]
        BY <2>2, <4>2
      <4>3. f[n - 1] \in T
        BY <2>2, <4>2
      <4> QED BY <4>1, <4>2, <4>3
    <3> QED BY <3>1, <3>2
  <2> QED BY <2>1, <2>2
<1>8. Recursive(toWorld)
  <2> HIDE DEF Recursive
  <2> QED BY <1>7
<1> DEFINE S == {n \in Nat : n <= N => \A x \in D : toWorld[n][x] \in Int}
<1>9. \A n \in 0 .. N :
        toWorld[n] = [x \in D |-> IF n > 0 /\ es[x].parent \in D
                                    THEN toWorld[n - 1][es[x].parent] + es[x].at
                                    ELSE es[x].at]
  <2> HIDE DEF toWorld
  <2> QED BY <1>8
<1> HIDE DEF toWorld
<1>10. 0 \in S
  <2>1. toWorld[0] = [x \in D |-> es[x].at]
    <3>1. 0 \in 0 .. N /\ ~(0 > 0)
      BY <1>1
    <3> QED BY <1>9, <3>1
  <2> QED BY <1>2, <2>1
<1>11. ASSUME NEW n \in S
       PROVE  n + 1 \in S
  <2> SUFFICES ASSUME n + 1 <= N, NEW x \in D
               PROVE  toWorld[n + 1][x] \in Int
    OBVIOUS
  <2>1. n + 1 \in 0 .. N /\ n + 1 > 0 /\ (n + 1) - 1 = n /\ n <= N
    BY <1>1
  <2>2. \A y \in D : toWorld[n][y] \in Int
    BY <2>1
  <2> PICK m : m = n + 1
    OBVIOUS
  <2>3. toWorld[m][x] = IF es[x].parent \in D THEN toWorld[n][es[x].parent] + es[x].at
                                               ELSE es[x].at
    <3>1. toWorld[m] = [y \in D |-> IF m > 0 /\ es[y].parent \in D
                                     THEN toWorld[m - 1][es[y].parent] + es[y].at
                                     ELSE es[y].at]
      BY <1>9, <2>1
    <3>2. m - 1 = n /\ m > 0
      BY <2>1
    <3> QED BY <3>1, <3>2
  <2> QED BY <1>2, <2>2, <2>3
<1> HIDE DEF S
<1>12. \A n \in Nat : n \in S
  <2>1. S \in SUBSET Nat
    BY DEF S
  <2> QED BY <1>10, <1>11, <2>1, Induction
<1>13. toWorld[N][e] \in Int
  BY <1>1, <1>12 DEF S
<1> QED BY <1>3, <1>13

LEMMA ReachedFacts ==
  ASSUME World, NEW c \in Reached
  PROVE  /\ c \in Agents /\ c \in Simulated /\ c \in Nat
         /\ intents[c] \in IntentType
         /\ intents[c].by \in DOMAIN entities
<1>1. c \in Agents /\ c \in Simulated
  BY DEF Reached, Simulated
<1>2. c \in Nat
  BY <1>1, Numbers
<1>3. intents[c].by \in DOMAIN entities
  BY <1>1, <1>2 DEF Reached, HasAvatar
<1> QED BY <1>1, <1>2, <1>3, Types DEF World

LEMMA StickTurn ==
  ASSUME World, NEW es \in Placements, NEW c \in Reached, NEW to \in Ways
  PROVE  /\ StickMoved(es, c, to) \in Placements
         /\ \A e \in DOMAIN entities :
              e \notin MovedWithStick(c) => StickMoved(es, c, to)[e] = es[e]
<1> PICK a : a = intents[c].by
  OBVIOUS
<1>1. c \in Agents /\ a \in DOMAIN entities
  BY ReachedFacts
<1>2. CASE ~intents[c].stick
  BY <1>2 DEF StickMoved
<1>3. CASE intents[c].stick
  <2>1. to[c] \in Int
    BY <1>1, <1>3, SimulationAssumption DEF Ways
  <2> PICK at \in Int : at = to[c]
    BY <2>1
  <2> PICK es2 : es2 = StickMoved(es, c, to)
    OBVIOUS
  <2>2. es2 = [es EXCEPT ![a] = [es[a] EXCEPT !.at = at]]
    BY <1>3 DEF StickMoved
  <2>3. /\ DOMAIN es2 = DOMAIN entities /\ es2 = [e \in DOMAIN es2 |-> es2[e]]
        /\ \A e \in DOMAIN entities :
             es2[e] = IF e = a THEN [es[e] EXCEPT !.at = at] ELSE es[e]
    BY <2>2 DEF Placements
  <2>5. es2 \in Placements
    BY <2>3, Moved
  <2> QED BY <1>3, <2>3, <2>5 DEF MovedWithStick
<1> QED BY <1>2, <1>3

\* The clients in the array are connected.
LEMMA FollowedFacts ==
  ASSUME World, NEW e, Followed(e) # {}
  PROVE  /\ Max(Followed(e)) \in Followed(e)
         /\ Followed(e) \subseteq Simulated
         /\ Simulated \subseteq Agents
<1>1. Followed(e) \subseteq Simulated /\ Simulated \subseteq Agents
  BY DEF Followed, Simulated
<1>2. /\ Followed(e) \in SUBSET Nat /\ counts.agents \in Nat
      /\ \A d \in Followed(e) : d <= counts.agents
  BY <1>1, Types, Numbers DEF World
<1>3. Max(Followed(e)) \in Followed(e)
  BY <1>2, MaxNat
<1> QED BY <1>1, <1>3

\* The intent that poses an entity is its client's own or that of a client which
\* a follower of the same owner follows.
LEMMA ActuatorFacts ==
  ASSUME World, NEW c \in Agents, NEW e \in DOMAIN entities
  PROVE  /\ Actuator(c, e) \in Agents
         /\ \/ Actuator(c, e) = c
            \/ \E f \in DOMAIN entities :
                 /\ f >= e /\ entities[f].owner = c /\ Follows(f)
                 /\ Actuator(c, e) \in Followed(f)
         /\ \A f \in DOMAIN entities :
              /\ f >= e /\ entities[f].owner = c /\ Follows(f) /\ Followed(f) # {}
              => \E g \in DOMAIN entities :
                   /\ g >= e /\ g <= f /\ entities[g].owner = c /\ Follows(g)
                   /\ Actuator(c, e) \in Followed(g)
<1> DEFINE replaced == {f \in DOMAIN entities :
                          /\ f >= e /\ entities[f].owner = c
                          /\ Follows(f) /\ Followed(f) # {}}
<1>1. Actuator(c, e) = IF replaced = {} THEN c ELSE Max(Followed(Min(replaced)))
  BY DEF Actuator
<1>2. CASE replaced = {}
  BY <1>1, <1>2
<1>3. CASE replaced # {}
  <2>1. replaced \in SUBSET Nat
    BY Numbers
  <2>2. Min(replaced) \in replaced /\ \A f \in replaced : Min(replaced) <= f
    <3> HIDE DEF replaced
    <3> QED BY <1>3, <2>1, MinNat
  <2>3. /\ Max(Followed(Min(replaced))) \in Followed(Min(replaced))
        /\ Followed(Min(replaced)) \subseteq Agents
    <3>1. PICK g : g = Min(replaced)
      OBVIOUS
    <3>2. Followed(g) # {}
      BY <2>2, <3>1
    <3> QED BY <3>1, <3>2, FollowedFacts
  <2>4. Actuator(c, e) \in Followed(Min(replaced)) /\ Actuator(c, e) \in Agents
    BY <1>1, <1>3, <2>3
  <2> QED BY <2>2, <2>4
<1> QED BY <1>2, <1>3

LEMMA PosedTurn ==
  ASSUME World, NEW es \in Placements, NEW c \in Agents
  PROVE  /\ Posed(es, c) \in Placements
         /\ \A e \in DOMAIN entities :
              /\ Poses(c, e) => Posed(es, c)[e].at = intents[Actuator(c, e)].hand
              /\ ~Poses(c, e) => Posed(es, c)[e] = es[e]
<1> PICK es2 : es2 = Posed(es, c)
  OBVIOUS
<1>1. /\ DOMAIN es2 = DOMAIN entities /\ es2 = [e \in DOMAIN es2 |-> es2[e]]
      /\ \A e \in DOMAIN entities :
           es2[e] = IF Poses(c, e) THEN [es[e] EXCEPT !.at = intents[Actuator(c, e)].hand]
                                   ELSE es[e]
  BY DEF Posed, Placements
<1>2. \A e \in DOMAIN entities : intents[Actuator(c, e)].hand \in Int
  BY ActuatorFacts, Types DEF World, IntentType
<1>3. es2 \in Placements
  BY <1>1, <1>2, Moved
<1>4. ASSUME NEW e \in DOMAIN entities, Poses(c, e)
      PROVE  es2[e].at = intents[Actuator(c, e)].hand
  <2> PICK at \in Int : at = intents[Actuator(c, e)].hand
    BY <1>2
  <2>1. es2[e] = [es[e] EXCEPT !.at = at]
    BY <1>1, <1>4
  <2> QED BY <2>1, PlacedAt
<1> QED BY <1>1, <1>3, <1>4

LEMMA GrabbedTurn ==
  ASSUME World, NEW es \in Placements, NEW c \in Reached
  PROVE  /\ Grabbed(es, c) \in Placements
         /\ \A e \in DOMAIN entities :
              e \notin MovedByGrab(c) => Grabbed(es, c)[e] = es[e]
<1>1. CASE ~Grabs(c)
  BY <1>1 DEF Grabbed
<1>2. CASE Grabs(c)
  <2> PICK g, grabbed : g = Actuated(intents[c].grab) /\ grabbed = intents[c].grab
    OBVIOUS
  <2> PICK at : at = (InWorld(es, Hand(c)) + (InWorld(es, g) - InWorld(es, grabbed)))
                      - InWorld(es, entities[g].parent)
    OBVIOUS
  <2>1. at \in Int
    <3>1. \A x : InWorld(es, x) \in Int
      BY InWorldTypes
    <3> QED BY <3>1
  <2> PICK es2 : es2 = Grabbed(es, c)
    OBVIOUS
  <2>2. /\ DOMAIN es2 = DOMAIN entities /\ es2 = [e \in DOMAIN es2 |-> es2[e]]
        /\ \A e \in DOMAIN entities : es2[e] = IF e = g THEN [es[e] EXCEPT !.at = at] ELSE es[e]
    BY <1>2 DEF Grabbed, Placements
  <2>3. es2 \in Placements
    BY <2>1, <2>2, Moved
  <2> QED BY <1>2, <2>2, <2>3 DEF MovedByGrab
<1> QED BY <1>1, <1>2

\* What a turn of client c does to what it neither moves with the stick nor grabs
LEMMA Turn ==
  ASSUME World, NEW es \in Placements, NEW c \in Reached, NEW to \in Ways
  PROVE  /\ SimulatedFor(es, c, to) \in Placements
         /\ \A e \in DOMAIN entities : e \notin MovedWithStick(c) \cup MovedByGrab(c) =>
              /\ Poses(c, e) => SimulatedFor(es, c, to)[e].at = intents[Actuator(c, e)].hand
              /\ ~Poses(c, e) => SimulatedFor(es, c, to)[e] = es[e]
<1> PICK es1 : es1 = StickMoved(es, c, to)
  OBVIOUS
<1> PICK es2 : es2 = Posed(es1, c)
  OBVIOUS
<1>1. /\ es1 \in Placements
      /\ \A e \in DOMAIN entities : e \notin MovedWithStick(c) => es1[e] = es[e]
  BY StickTurn
<1>2. c \in Agents
  BY ReachedFacts
<1>3. /\ es2 \in Placements
      /\ \A e \in DOMAIN entities :
           /\ Poses(c, e) => es2[e].at = intents[Actuator(c, e)].hand
           /\ ~Poses(c, e) => es2[e] = es1[e]
  BY <1>1, <1>2, PosedTurn
<1>4. SimulatedFor(es, c, to) = Grabbed(es2, c)
  BY DEF SimulatedFor
<1>5. /\ Grabbed(es2, c) \in Placements
      /\ \A e \in DOMAIN entities : e \notin MovedByGrab(c) => Grabbed(es2, c)[e] = es2[e]
  BY <1>3, GrabbedTurn
<1> QED BY <1>1, <1>3, <1>4, <1>5

-----------------------------------------------------------------------------
(* The loop over the clients.                                              *)

\* The entities before each turn, from the newest client to the first
Turns(A, to) ==
  /\ A \in [1 .. counts.agents + 1 -> Placements]
  /\ A[counts.agents + 1] = entities
  /\ \A c \in 1 .. counts.agents :
       A[c] = IF c \in Reached THEN SimulatedFor(A[c + 1], c, to) ELSE A[c + 1]

LEMMA IterationTurns ==
  ASSUME World, NEW to \in Ways
  PROVE  \E A : Turns(A, to) /\ Iteration(to) = A[1]
<1> PICK N : N = counts.agents
  OBVIOUS
<1> DEFINE Took(es, c) == IF c \in Reached THEN SimulatedFor(es, c, to) ELSE es
           step == [n \in Nat |-> [es \in Placements |-> Took(es, N + 1 - n)]]
           Recursive(A) ==
             A = [c \in 1 .. N + 1 |->
                    IF c > N THEN entities
                    ELSE IF c \in Reached THEN SimulatedFor(A[c + 1], c, to) ELSE A[c + 1]]
           After == CHOOSE A : Recursive(A)
<1>1. N \in Nat
  BY Numbers
<1>2. entities \in Placements
  BY EntitiesPlaced
<1>3. \A es \in Placements : \A c : Took(es, c) \in Placements
  BY Turn
<1>4. step \in [Nat -> [Placements -> Placements]]
  BY <1>3
<1>5. PICK f : f \in Iterates(Placements, entities, step, N)
  <2> HIDE DEF step
  <2>1. Iterates(Placements, entities, step, N) # {}
    BY <1>1, <1>2, <1>4, IteratesExist
  <2> QED BY <2>1
<1> DEFINE g == [c \in 1 .. N + 1 |-> f[N + 1 - c]]
<1>6. /\ f[0] = entities /\ \A n \in 0 .. N : f[n] \in Placements
      /\ \A n \in 1 .. N : f[n] = Took(f[n - 1], N + 1 - n)
  <2>1. /\ f \in [0 .. N -> Placements] /\ f[0] = entities
        /\ \A n \in 1 .. N : f[n] = step[n][f[n - 1]]
    BY <1>5 DEF Iterates
  <2>2. \A n \in 1 .. N : n \in Nat /\ n - 1 \in 0 .. N
    BY <1>1
  <2>3. \A n \in 1 .. N : f[n - 1] \in Placements
    BY <2>1, <2>2
  <2> HIDE DEF Took
  <2>4. \A n \in 1 .. N : f[n] = Took(f[n - 1], N + 1 - n)
    BY <2>1, <2>2, <2>3
  <2> QED BY <2>1, <2>4
<1>7. g \in [1 .. N + 1 -> Placements] /\ g[N + 1] = entities
  <2>1. \A c \in 1 .. N + 1 : N + 1 - c \in 0 .. N
    BY <1>1
  <2>2. N + 1 \in 1 .. N + 1 /\ N + 1 - (N + 1) = 0
    BY <1>1
  <2> QED BY <1>6, <2>1, <2>2
<1>8. ASSUME NEW c \in 1 .. N
      PROVE  g[c] = Took(g[c + 1], c)
  <2>1. /\ N + 1 - c \in 1 .. N /\ (N + 1 - c) - 1 = N + 1 - (c + 1)
        /\ N + 1 - (N + 1 - c) = c /\ c \in 1 .. N + 1 /\ c + 1 \in 1 .. N + 1
    BY <1>1
  <2> HIDE DEF Took
  <2> QED BY <1>6, <2>1
<1>9. \A c \in 1 .. N + 1 : c > N => c = N + 1
  BY <1>1
<1>10. \A c \in 1 .. N + 1 : ~(c > N) => c \in 1 .. N
  BY <1>1
<1>11. \A c \in 1 .. N : ~(c > N) /\ c \in 1 .. N + 1 /\ c + 1 \in 1 .. N + 1
  BY <1>1
<1>12. N + 1 > N /\ N + 1 \in 1 .. N + 1 /\ 1 \in 1 .. N + 1
  BY <1>1
<1>13. Recursive(g)
  <2>1. \A c \in 1 .. N + 1 :
          g[c] = IF c > N THEN entities
                 ELSE IF c \in Reached THEN SimulatedFor(g[c + 1], c, to) ELSE g[c + 1]
    <3> HIDE DEF g
    <3> QED BY <1>7, <1>8, <1>9, <1>10
  <2>2. g = [c \in 1 .. N + 1 |-> g[c]]
    BY <1>7
  <2> HIDE DEF g
  <2> QED BY <2>1, <2>2
<1>14. Recursive(After)
  BY <1>13
<1>15. Iteration(to) = After[1]
  BY DEF Iteration, After
<1> HIDE DEF After, g
<1>16. After = g
  <2>1. /\ After = [c \in 1 .. N + 1 |-> After[c]]
        /\ \A c \in 1 .. N + 1 :
             After[c] = IF c > N THEN entities
                        ELSE IF c \in Reached THEN SimulatedFor(After[c + 1], c, to)
                             ELSE After[c + 1]
    BY <1>14
  <2>2. /\ g = [c \in 1 .. N + 1 |-> g[c]]
        /\ \A c \in 1 .. N : g[c] = Took(g[c + 1], c)
        /\ g[N + 1] = entities
    BY <1>7, <1>8
  <2> DEFINE S == {n \in Nat : n <= N => After[N + 1 - n] = g[N + 1 - n]}
  <2>3. S \in SUBSET Nat /\ 0 \in S
    <3>1. After[N + 1] = entities
      BY <2>1, <1>12
    <3>2. N + 1 - 0 = N + 1
      BY <1>1
    <3>3. After[N + 1 - 0] = g[N + 1 - 0]
      BY <2>2, <3>1, <3>2
    <3> HIDE DEF Took
    <3> QED BY <3>3
  <2>4. ASSUME NEW n \in S
        PROVE  n + 1 \in S
    <3> SUFFICES ASSUME n + 1 <= N
                 PROVE  After[N + 1 - (n + 1)] = g[N + 1 - (n + 1)]
      OBVIOUS
    <3> PICK c : c = N + 1 - (n + 1)
      OBVIOUS
    <3>1. c \in 1 .. N /\ c + 1 = N + 1 - n
      BY <1>1
    <3>2. After[c + 1] = g[c + 1]
      BY <3>1, <1>1
    <3> QED BY <3>1, <3>2, <2>1, <2>2, <1>11
  <2> HIDE DEF S
  <2>5. \A n \in Nat : n \in S
    BY <2>3, <2>4, Induction
  <2>6. ASSUME NEW c \in 1 .. N + 1
        PROVE  After[c] = g[c]
    <3>1. N + 1 - c \in Nat /\ N + 1 - c <= N /\ N + 1 - (N + 1 - c) = c
      BY <1>1
    <3> QED BY <3>1, <2>5 DEF S
  <2> QED BY <2>1, <2>2, <2>6
<1>17. Turns(g, to)
  BY <1>7, <1>8 DEF Turns
<1> QED BY <1>15, <1>16, <1>17

\* What the whole step does to what no client moves with the stick or grabs: only
\* the turn of its owner matters.
LEMMA Stepped ==
  ASSUME World, NEW to \in Ways
  PROVE  /\ Iteration(to) \in Placements
         /\ \A e \in DOMAIN entities :
              (\A d \in Reached : e \notin MovedWithStick(d) \cup MovedByGrab(d)) =>
                /\ entities[e].owner \in Reached /\ Poses(entities[e].owner, e) =>
                     Iteration(to)[e].at = intents[Actuator(entities[e].owner, e)].hand
                /\ ~(entities[e].owner \in Reached /\ Poses(entities[e].owner, e)) =>
                     Iteration(to)[e] = entities[e]
<1>1. PICK A : Turns(A, to) /\ Iteration(to) = A[1]
  BY IterationTurns
<1> PICK N : N = counts.agents
  OBVIOUS
<1>2. /\ N \in Nat /\ 1 \in Nat /\ N + 1 \in Nat /\ 1 <= N + 1
      /\ 1 \in 1 .. N + 1 /\ N + 1 \in 1 .. N + 1
  BY Numbers
<1>3. /\ \A k \in 1 .. N + 1 : A[k] \in Placements
      /\ A[N + 1] = entities
      /\ \A c \in 1 .. N :
           A[c] = IF c \in Reached THEN SimulatedFor(A[c + 1], c, to) ELSE A[c + 1]
  BY <1>1 DEF Turns
<1>4. \A k \in 1 .. N : k + 1 \in 1 .. N + 1
  BY <1>2
<1>5. A[1] \in Placements
  BY <1>2, <1>3
<1>6. ASSUME NEW e \in DOMAIN entities,
             \A d \in Reached : e \notin MovedWithStick(d) \cup MovedByGrab(d)
      PROVE  LET c == entities[e].owner
             IN /\ c \in Reached /\ Poses(c, e) => A[1][e].at = intents[Actuator(c, e)].hand
                /\ ~(c \in Reached /\ Poses(c, e)) => A[1][e] = entities[e]
  <2> PICK c : c = entities[e].owner
    OBVIOUS
  <2>1. ASSUME NEW k \in 1 .. N
        PROVE  /\ k \in Reached /\ Poses(k, e) => A[k][e].at = intents[Actuator(k, e)].hand
               /\ ~(k \in Reached /\ Poses(k, e)) => A[k][e] = A[k + 1][e]
               /\ c # k => A[k][e] = A[k + 1][e]
    <3>1. CASE k \in Reached
      <4>1. A[k + 1] \in Placements /\ A[k] = SimulatedFor(A[k + 1], k, to)
        BY <3>1, <1>3, <1>4
      <4>2. /\ Poses(k, e) => A[k][e].at = intents[Actuator(k, e)].hand
            /\ ~Poses(k, e) => A[k][e] = A[k + 1][e]
        BY <3>1, <4>1, <1>6, Turn
      <4>3. Poses(k, e) => c = k
        BY DEF Poses
      <4> QED BY <3>1, <4>2, <4>3
    <3>2. CASE k \notin Reached
      BY <3>2, <1>3
    <3> QED BY <3>1, <3>2
  <2>2. ASSUME NEW lo \in 1 .. N + 1, NEW hi \in 1 .. N + 1, lo <= hi,
               \A k \in 1 .. N : lo <= k /\ k < hi => c # k
        PROVE  A[lo][e] = A[hi][e]
    <3> DEFINE B == [k \in Nat |-> A[k][e]]
    <3>1. lo \in Nat /\ hi \in Nat
      OBVIOUS
    <3>2. \A k \in Nat : lo <= k /\ k < hi => B[k] = B[k + 1]
      <4>1. \A k \in Nat : lo <= k /\ k < hi => k \in 1 .. N
        BY <1>2
      <4>2. \A k \in Nat : lo <= k /\ k < hi => A[k][e] = A[k + 1][e]
        BY <2>1, <2>2, <4>1
      <4> QED BY <4>2
    <3>3. B[lo] = A[lo][e] /\ B[hi] = A[hi][e]
      BY <3>1
    <3> HIDE DEF B
    <3>4. B[lo] = B[hi]
      BY <2>2, <3>1, <3>2, Quiet
    <3> QED BY <3>3, <3>4
  <2>3. c \in 1 .. N /\ c \in 1 .. N + 1 /\ c + 1 \in 1 .. N + 1 /\ 1 <= c /\ c + 1 <= N + 1
    <3>1. c \in Agents
      BY Types DEF World, EntityType
    <3>2. c \in 1 .. N
      BY <3>1, Types DEF World
    <3> QED BY <3>2, <1>2
  <2>4. A[1][e] = A[c][e]
    BY <1>2, <2>2, <2>3
  <2>5. A[c + 1][e] = A[N + 1][e]
    <3>1. \A k \in 1 .. N : c + 1 <= k => c # k
      BY <2>3, <1>2
    <3> QED BY <1>2, <2>2, <2>3, <3>1
  <2> QED BY <2>1, <2>3, <2>4, <2>5, <1>3
<1> QED BY <1>1, <1>5, <1>6

-----------------------------------------------------------------------------
(* The loop over the animations of an entity.                              *)

\* The animations that the loop has been at when the cursor is at k
Passed(S, k) == {a \in S : k = None \/ a < k}

\* What holds of the loop over the animations S of an entity that was at `at`:
\* those it has been at are left unless they are done, and the last of them that
\* set the property determines where the entity is.
Sound(r, S, at) ==
  /\ r.left = {a \in S : a \in Passed(S, r.cursor) => ~Done(a)}
  /\ (\A a \in Passed(S, r.cursor) : ~Writes(a)) => r.at = at
  /\ \A a \in Passed(S, r.cursor) :
       Writes(a) /\ (\A b \in Passed(S, r.cursor) : b > a => ~Writes(b)) => r.at = Value(a)

Loops(S) == [cursor : S \cup {None}, left : SUBSET S, at : Int]

LEMMA AnimationTypes ==
  ASSUME World, NEW a \in DOMAIN animations
  PROVE  /\ animations[a].on \in DOMAIN entities
         /\ animations[a].spec \in Animations
         /\ animations[a].spec.from \in Int /\ animations[a].spec.to \in Int
         /\ animations[a].spec.start \in Nat
         /\ animations[a].spec.duration \in Nat /\ animations[a].spec.duration > 0
         /\ Now \in Nat
<1>1. animations[a] \in [on : DOMAIN entities, spec : Animations]
  BY Types DEF World
<1>2. Now \in Nat
  BY Numbers DEF Now
<1> QED BY <1>1, <1>2 DEF Animations

LEMMA ValueTypes ==
  ASSUME World, NEW a \in DOMAIN animations
  PROVE  Value(a) \in Int
<1> PICK from, to, start, duration :
      /\ from = animations[a].spec.from /\ to = animations[a].spec.to
      /\ start = animations[a].spec.start /\ duration = animations[a].spec.duration
  OBVIOUS
<1>1. from \in Int /\ to \in Int /\ start \in Nat /\ duration \in Nat /\ duration > 0 /\ Now \in Nat
  BY AnimationTypes
<1> PICK into : into = IF animations[a].spec.repeats THEN (Now - start) % duration ELSE Now - start
  OBVIOUS
<1>2. into \in Int
  BY <1>1
<1> PICK way : way = (to - from) * into
  OBVIOUS
<1>3. way \in Int
  BY <1>1, <1>2
<1>4. from + (way \div duration) \in Int
  BY <1>1, <1>3
<1>5. Value(a) = IF Over(a) THEN to ELSE from + (way \div duration)
  BY DEF Value
<1> QED BY <1>1, <1>4, <1>5

LEMMA ForemostFacts ==
  ASSUME NEW S \in SUBSET Nat
  PROVE  \/ S = {} /\ Foremost(S) = None
         \/ Foremost(S) \in S /\ \A b \in S : Foremost(S) <= b
BY MinNat DEF Foremost

\* One round goes on to the next animation, and is sound.
LEMMA RoundSound ==
  ASSUME World, NEW S \in SUBSET DOMAIN animations, NEW at \in Int, NEW r \in Loops(S),
         Sound(r, S, at), r.cursor # None
  PROVE  /\ Round(r) \in Loops(S) /\ Sound(Round(r), S, at)
         /\ Passed(S, Round(r).cursor) = Passed(S, r.cursor) \cup {r.cursor}
         /\ r.cursor \notin Passed(S, r.cursor)
<1> PICK a : a = r.cursor
  OBVIOUS
<1>1. /\ S \in SUBSET Nat /\ None \notin Nat /\ a \in S /\ a \in Nat /\ a # None
      /\ r.left \in SUBSET S /\ r.at \in Int
  BY Numbers DEF Loops
<1> PICK later : later = {b \in r.left : b > a}
  OBVIOUS
<1> PICK next : next = Foremost(later)
  OBVIOUS
<1>2. /\ Round(r).cursor = next
      /\ Round(r).left = IF Done(a) THEN r.left \ {a} ELSE r.left
      /\ Round(r).at = IF Writes(a) THEN Value(a) ELSE r.at
      /\ Round(r) = [cursor |-> next,
                     left |-> IF Done(a) THEN r.left \ {a} ELSE r.left,
                     at |-> IF Writes(a) THEN Value(a) ELSE r.at]
  BY DEF Round
<1>3. \A b \in S : b \in Passed(S, a) <=> b < a
  BY <1>1 DEF Passed
<1>4. r.left = {b \in S : b < a => ~Done(b)}
  BY <1>3 DEF Sound
<1>5. later = {b \in S : b > a}
  BY <1>1, <1>4
<1>6. later \in SUBSET Nat
  BY <1>1, <1>5
<1>7. \/ later = {} /\ next = None
      \/ next \in later /\ \A b \in later : next <= b
  BY <1>6, ForemostFacts
<1>8. \A b \in S : b \in Passed(S, next) <=> b < a \/ b = a
  <2>1. CASE later = {} /\ next = None
    BY <1>1, <1>5, <2>1 DEF Passed
  <2>2. CASE next \in later /\ \A b \in later : next <= b
    <3>1. next \in Nat /\ next # None /\ next > a
      BY <1>1, <1>5, <2>2
    <3>2. \A b \in S : b > a => next <= b
      BY <1>5, <2>2
    <3>3. \A b \in S : b \in Nat
      BY <1>1
    <3> QED BY <1>1, <3>1, <3>2, <3>3 DEF Passed
  <2> QED BY <1>7, <2>1, <2>2
<1>9. next \in S \cup {None}
  BY <1>5, <1>7
<1>10. Round(r) \in Loops(S)
  <2>1. Value(a) \in Int
    BY <1>1, ValueTypes
  <2> QED BY <1>1, <1>2, <1>9, <2>1 DEF Loops
<1>11. Round(r).left = {b \in S : b \in Passed(S, next) => ~Done(b)}
  <2>1. \A b \in S : b < a => b # a
    BY <1>1
  <2> QED BY <1>1, <1>2, <1>4, <1>8, <2>1
<1>12. (\A b \in Passed(S, next) : ~Writes(b)) => Round(r).at = at
  <2> SUFFICES ASSUME \A b \in Passed(S, next) : ~Writes(b)
               PROVE  Round(r).at = at
    OBVIOUS
  <2>1. ~Writes(a) /\ \A b \in Passed(S, a) : ~Writes(b)
    BY <1>1, <1>3, <1>8 DEF Passed
  <2> QED BY <1>2, <2>1 DEF Sound
<1>13. ASSUME NEW b \in Passed(S, next), Writes(b),
              \A d \in Passed(S, next) : d > b => ~Writes(d)
       PROVE  Round(r).at = Value(b)
  <2>1. b \in S /\ b \in Nat
    BY <1>1, <1>13 DEF Passed
  <2>2. CASE b = a
    BY <1>2, <1>13, <2>2
  <2>3. CASE b # a
    <3>1. b < a /\ b \in Passed(S, a)
      BY <1>3, <1>8, <1>13, <2>1, <2>3
    <3>2. ~Writes(a)
      BY <1>1, <1>8, <1>13, <2>1, <3>1
    <3>3. \A d \in Passed(S, a) : d > b => ~Writes(d)
      BY <1>3, <1>8, <1>13 DEF Passed
    <3>4. r.at = Value(b)
      BY <1>13, <3>1, <3>3 DEF Sound
    <3> QED BY <1>2, <3>2, <3>4
  <2> QED BY <2>2, <2>3
<1>14. Sound(Round(r), S, at)
  BY <1>2, <1>11, <1>12, <1>13 DEF Sound
<1>15. Passed(S, next) = Passed(S, a) \cup {a}
  <2>1. Passed(S, next) \subseteq S /\ Passed(S, a) \subseteq S
    BY DEF Passed
  <2> QED BY <1>1, <1>3, <1>8, <2>1
<1>16. a \notin Passed(S, a)
  BY <1>1, <1>3
<1> QED BY <1>2, <1>10, <1>14, <1>15, <1>16

\* The loop comes to the end of the list, whichever it detaches.
LEMMA AnimateFacts ==
  ASSUME World, NEW e, NEW at \in Int
  PROVE  /\ Animate(e, at).left = {a \in AnimationsOf(e) : ~Done(a)}
         /\ Animate(e, at).at \in Int
         /\ (\A a \in AnimationsOf(e) : ~Writes(a)) => Animate(e, at).at = at
         /\ \A a \in AnimationsOf(e) :
              Writes(a) /\ (\A b \in AnimationsOf(e) : b > a => ~Writes(b))
                => Animate(e, at).at = Value(a)
<1> PICK S : S = AnimationsOf(e)
  OBVIOUS
<1> PICK N : N = Cardinality(S)
  OBVIOUS
<1>1. S \in SUBSET DOMAIN animations /\ S \in SUBSET Nat
  BY Numbers DEF AnimationsOf
<1>2. IsFiniteSet(S) /\ N \in Nat
  <2>1. S \subseteq 1 .. counts.animations /\ counts.animations \in Nat
    BY <1>1, Numbers, Types DEF World
  <2>2. IsFiniteSet(1 .. counts.animations)
    BY <2>1, FS_Interval
  <2> QED BY <2>1, <2>2, FS_Subset, FS_CardinalityType
<1> DEFINE T == {r \in Loops(S) : Sound(r, S, at)}
           base == [cursor |-> Foremost(S), left |-> S, at |-> at]
           Next1(r) == IF r.cursor = None THEN r ELSE Round(r)
           step == [n \in Nat |-> [r \in T |-> Next1(r)]]
           Recursive(f) ==
             f = [n \in 0 .. N |-> IF n = 0 THEN base
                                   ELSE IF f[n - 1].cursor = None THEN f[n - 1] ELSE Round(f[n - 1])]
           After == CHOOSE f : Recursive(f)
<1>3. Animate(e, at) = After[N]
  BY DEF Animate
<1>4. base \in T /\ Passed(S, base.cursor) = {}
  <2>1. \/ S = {} /\ Foremost(S) = None
        \/ Foremost(S) \in S /\ \A b \in S : Foremost(S) <= b
    BY <1>1, ForemostFacts
  <2>2. None \notin Nat
    BY Numbers
  <2>3. Passed(S, base.cursor) = {}
    BY <1>1, <2>1, <2>2 DEF Passed
  <2>4. base \in Loops(S)
    BY <2>1 DEF Loops
  <2>5. Sound(base, S, at)
    BY <2>3 DEF Sound
  <2> QED BY <2>3, <2>4, <2>5
<1>5. \A r \in T : Next1(r) \in T
  BY <1>1, RoundSound
<1> HIDE DEF base, T
<1>6. step \in [Nat -> [T -> T]]
  <2> HIDE DEF Next1
  <2> QED BY <1>5
<1>7. PICK f : f \in Iterates(T, base, step, N)
  <2> HIDE DEF step
  <2> QED BY <1>2, <1>4, <1>6, IteratesExist
<1>8. Recursive(f)
  <2> HIDE DEF step
  <2>1. /\ f \in [0 .. N -> T] /\ f[0] = base
        /\ \A n \in 1 .. N : f[n] = step[n][f[n - 1]]
    BY <1>7 DEF Iterates
  <2> USE DEF step
  <2>2. ASSUME NEW n \in 0 .. N
        PROVE  f[n] = IF n = 0 THEN base
                      ELSE IF f[n - 1].cursor = None THEN f[n - 1] ELSE Round(f[n - 1])
    <3>1. CASE n = 0
      BY <2>1, <3>1
    <3>2. CASE n # 0
      <4>1. n - 1 \in 0 .. N /\ n \in 1 .. N /\ n \in Nat
        BY <1>2, <3>2
      <4>2. f[n] = step[n][f[n - 1]] /\ f[n - 1] \in T
        BY <2>1, <4>1
      <4> QED BY <3>2, <4>1, <4>2
    <3> QED BY <3>1, <3>2
  <2> QED BY <2>1, <2>2
<1>9. Recursive(After)
  <2> HIDE DEF Recursive
  <2> QED BY <1>8
<1> HIDE DEF After
<1>10. \A n \in 0 .. N :
         After[n] = IF n = 0 THEN base
                    ELSE IF After[n - 1].cursor = None THEN After[n - 1] ELSE Round(After[n - 1])
  BY <1>9
<1> DEFINE P(n) == /\ After[n] \in T
                   /\ After[n].cursor = None \/ Cardinality(Passed(S, After[n].cursor)) = n
           Ns == {n \in Nat : n <= N => P(n)}
<1>11. 0 \in Ns
  <2>1. After[0] = base
    <3>1. 0 \in 0 .. N
      BY <1>2
    <3> QED BY <1>10, <3>1
  <2>2. Cardinality({}) = 0
    BY FS_EmptySet
  <2>3. Cardinality(Passed(S, After[0].cursor)) = 0
    BY <1>4, <2>1, <2>2
  <2> QED BY <1>4, <2>1, <2>3
<1>12. ASSUME NEW n \in Ns
       PROVE  n + 1 \in Ns
  <2> SUFFICES ASSUME n + 1 <= N
               PROVE  P(n + 1)
    OBVIOUS
  <2> PICK m : m = n + 1
    OBVIOUS
  <2>1. m \in 0 .. N /\ m # 0 /\ m - 1 = n /\ n \in Nat /\ n <= N
    BY <1>2
  <2>2. P(n)
    BY <2>1
  <2>3. After[m] = IF After[n].cursor = None THEN After[n] ELSE Round(After[n])
    BY <1>10, <2>1
  <2>4. CASE After[n].cursor = None
    BY <2>2, <2>3, <2>4
  <2>5. CASE After[n].cursor # None
    <3> PICK r : r = After[n]
      OBVIOUS
    <3>1. r \in Loops(S) /\ Sound(r, S, at) /\ r.cursor # None
      BY <2>2, <2>5 DEF T
    <3>2. /\ Passed(S, Round(r).cursor) = Passed(S, r.cursor) \cup {r.cursor}
          /\ r.cursor \notin Passed(S, r.cursor)
      BY <1>1, <3>1, RoundSound
    <3>3. Round(r) \in T
      BY <1>1, <3>1, RoundSound DEF T
    <3>4. IsFiniteSet(Passed(S, r.cursor))
      <4>1. Passed(S, r.cursor) \subseteq S
        BY DEF Passed
      <4> QED BY <4>1, <1>2, FS_Subset
    <3>5. Cardinality(Passed(S, r.cursor)) = n
      BY <2>2, <2>5
    <3>6. Cardinality(Passed(S, r.cursor) \cup {r.cursor}) = n + 1
      BY <3>2, <3>4, <3>5, FS_AddElement
    <3>7. After[m] = Round(r)
      BY <2>3, <2>5
    <3> QED BY <3>2, <3>3, <3>6, <3>7
  <2> QED BY <2>4, <2>5
<1> HIDE DEF P
<1>13. P(N)
  <2>1. Ns \in SUBSET Nat
    OBVIOUS
  <2> HIDE DEF Ns
  <2>2. \A n \in Nat : n \in Ns
    BY <1>11, <1>12, <2>1, Induction
  <2>3. N \in Ns
    BY <1>2, <2>2
  <2> QED BY <1>2, <2>3 DEF Ns
<1> PICK r : r = After[N]
  OBVIOUS
<1>14. r \in Loops(S) /\ Sound(r, S, at)
  BY <1>13 DEF P, T
<1>15. r.cursor = None
  <2> SUFFICES ASSUME r.cursor # None
               PROVE  FALSE
    OBVIOUS
  <2>1. r.cursor \in S /\ r.cursor \in Nat
    BY <1>1, <1>14 DEF Loops
  <2>2. Passed(S, r.cursor) \subseteq S \ {r.cursor}
    BY <1>1, <2>1 DEF Passed
  <2>3. IsFiniteSet(S \ {r.cursor}) /\ Cardinality(S \ {r.cursor}) = N - 1
    BY <1>2, <2>1, FS_RemoveElement
  <2>4. Cardinality(Passed(S, r.cursor)) <= N - 1
    BY <2>2, <2>3, FS_Subset
  <2>5. Cardinality(Passed(S, r.cursor)) = N
    BY <1>13 DEF P
  <2> QED BY <1>2, <2>4, <2>5
<1>16. Passed(S, r.cursor) = S
  BY <1>15 DEF Passed
<1>17. r.left = {a \in S : ~Done(a)}
  BY <1>14, <1>16 DEF Sound
<1>18. (\A a \in S : ~Writes(a)) => r.at = at
  BY <1>14, <1>16 DEF Sound
<1>19. \A a \in S : Writes(a) /\ (\A b \in S : b > a => ~Writes(b)) => r.at = Value(a)
  BY <1>14, <1>16 DEF Sound
<1>20. r.at \in Int
  BY <1>14 DEF Loops
<1> QED BY <1>3, <1>17, <1>18, <1>19, <1>20

LEMMA LeftFacts ==
  ASSUME World
  PROVE  Left = {a \in DOMAIN animations : ~Done(a)}
<1>1. \A e \in DOMAIN entities : entities[e].at \in Int
  BY Types DEF World, EntityType
<1>2. \A e \in DOMAIN entities :
        Animate(e, entities[e].at).left = {a \in AnimationsOf(e) : ~Done(a)}
  BY <1>1, AnimateFacts
<1>3. \A a \in DOMAIN animations : animations[a].on \in DOMAIN entities
  BY AnimationTypes
<1> QED BY <1>2, <1>3 DEF Left, AnimationsOf

LEMMA AnimatedFacts ==
  ASSUME World, NEW es \in Placements
  PROVE  /\ Animated(es) \in Placements
         /\ \A e \in DOMAIN entities : Animated(es)[e].at = Animate(e, es[e].at).at
         /\ \A e \in DOMAIN entities : e \notin AnimatedNow => Animated(es)[e].at = es[e].at
<1> PICK es2 : es2 = Animated(es)
  OBVIOUS
<1>1. /\ DOMAIN es2 = DOMAIN entities /\ es2 = [e \in DOMAIN es2 |-> es2[e]]
      /\ \A e \in DOMAIN entities : es2[e] = [es[e] EXCEPT !.at = Animate(e, es[e].at).at]
  BY DEF Animated, Placements
<1>2. \A e \in DOMAIN entities : es[e].at \in Int
  BY DEF Placements, EntityType
<1>3. \A e \in DOMAIN entities : Animate(e, es[e].at).at \in Int
  BY <1>2, AnimateFacts
<1>4. es2 \in Placements
  <2> PICK at : at = [e \in DOMAIN entities |-> Animate(e, es[e].at).at]
    OBVIOUS
  <2>1. \A e \in DOMAIN entities : at[e] \in Int /\ es2[e] = [es[e] EXCEPT !.at = at[e]]
    BY <1>1, <1>3
  <2>2. ASSUME NEW e \in DOMAIN entities
        PROVE  /\ es2[e] \in EntityType
               /\ es2[e].owner = entities[e].owner /\ es2[e].parent = entities[e].parent
               /\ es2[e].poses = entities[e].poses /\ es2[e].from = entities[e].from
               /\ es2[e].grab = entities[e].grab
    <3> PICK x \in Int : x = at[e]
      BY <2>1
    <3>1. es2[e] = [es[e] EXCEPT !.at = x]
      BY <2>1
    <3> QED BY <3>1, PlacedAt
  <2>3. es2 \in [DOMAIN entities -> EntityType]
    BY <1>1, <2>2
  <2> QED BY <2>2, <2>3 DEF Placements
<1>5. ASSUME NEW e \in DOMAIN entities
      PROVE  es2[e].at = Animate(e, es[e].at).at
  <2> PICK at \in Int : at = Animate(e, es[e].at).at
    BY <1>3
  <2>1. es2[e] = [es[e] EXCEPT !.at = at]
    BY <1>1
  <2> QED BY <2>1, PlacedAt
<1>6. ASSUME NEW e \in DOMAIN entities, e \notin AnimatedNow
      PROVE  es2[e].at = es[e].at
  <2>1. \A a \in AnimationsOf(e) : ~Writes(a)
    BY <1>6 DEF AnimationsOf, AnimatedNow
  <2>2. Animate(e, es[e].at).at = es[e].at
    BY <1>2, <2>1, AnimateFacts
  <2> QED BY <1>5, <2>2
<1> QED BY <1>4, <1>5, <1>6

-----------------------------------------------------------------------------
(* A step keeps the invariant.                                             *)

LEMMA StepWorld ==
  ASSUME World, NEW to \in Ways, Step(to)
  PROVE  World'
<1> SUFFICES ASSUME ~\E c \in Reached : CrashesFor(c)
             PROVE  World'
  BY CrashWorld DEF Step
<1>1. UNCHANGED <<clients, intents, running>> /\ counts' = [counts EXCEPT !.steps = @ + 1]
  BY DEF Step
<1>2. /\ counts' \in CountType /\ counts'.agents = counts.agents
      /\ counts'.entities = counts.entities /\ counts'.animations = counts.animations
  BY <1>1, Numbers DEF CountType
<1>3. OwnAvatars' /\ Agents' = Agents /\ Named' = Named
  BY <1>1, <1>2, SameAvatars
<1>4. Iteration(to) \in Placements
  BY Stepped
<1>5. entities' \in Placements
  BY <1>4, AnimatedFacts DEF Step
<1>6. /\ entities' \in [DOMAIN entities -> EntityType] /\ DOMAIN entities' = DOMAIN entities
  BY <1>5 DEF Placements
<1>7. /\ DOMAIN animations' \subseteq DOMAIN animations
      /\ \A a \in DOMAIN animations' : animations'[a] = animations[a]
  BY LeftFacts DEF Step, Restrict
<1>8. /\ DOMAIN animations' \subseteq 1 .. counts.animations
      /\ \A a \in DOMAIN animations' :
           animations'[a] \in [on : DOMAIN entities, spec : Animations]
  BY <1>7, Types DEF World
<1>9. TypeOK'
  <2>1. \A e \in DOMAIN entities : entities'[e] \in EntityType
    BY <1>6
  <2> QED BY <1>1, <1>2, <1>3, <1>6, <1>8, <2>1, Types
          DEF World, TypeOK, EntityType, IntentType, CountType
<1>10. Listed'
  BY <1>6 DEF Listed
<1> QED BY <1>3, <1>9, <1>10 DEF World

LEMMA RequestsWorld ==
  ASSUME World, NEW c \in Agents, Requests(c)
  PROVE  World'
<1>1. /\ DOMAIN entities \subseteq Nat /\ Named \subseteq Nat
      /\ Shape \subseteq Shapes
  BY Numbers, SimulationAssumption
<1>2. \A shapes : Followable(shapes) \subseteq Nat \cup {None}
  <2>1. Avatars \subseteq Nat
    BY Types DEF World, Avatars, IntentType
  <2> QED BY <2>1 DEF Followable
<1>3. ASSUME NEW children \in Children, NEW followed \in Followable(Range(children)),
             Announce(c, children, followed)
      PROVE  World'
  BY <1>2, <1>3, AnnounceWorld
<1>4. ASSUME NEW shape \in Shape, NEW parent \in Named \cup {None},
             NEW followed \in Followable({shape}), Spawn(c, shape, parent, followed)
      PROVE  World'
  BY <1>1, <1>2, <1>4, SpawnWorld
<1>5. ASSUME NEW gesture \in Gesture,
             NEW grab \in {e \in DOMAIN entities : Grabbable(e)} \cup {None},
             Intent(c, gesture, grab)
      PROVE  World'
  BY <1>1, <1>5, IntentWorld
<1>6. ASSUME NEW e \in DOMAIN entities, NEW parent \in Named \cup {None},
             ChangeComponents(e, parent)
      PROVE  World'
  BY <1>1, <1>6, ChangeComponentsWorld
<1>7. ASSUME NEW e \in DOMAIN entities, NEW mode, RemoveEntity(e, mode)
      PROVE  World'
  BY <1>7, RemoveEntityWorld
<1>8. ASSUME NEW e, NEW animation \in Animation, AddAnimation(e, animation)
      PROVE  World'
  BY <1>8, AddAnimationWorld
<1>9. ASSUME NEW e, NEW a, RemoveAnimation(e, a)
      PROVE  World'
  BY <1>9, RemoveAnimationWorld
<1>10. CASE Leave(c)
  BY <1>10, LeaveWorld
<1> QED BY <1>3, <1>4, <1>5, <1>6, <1>7, <1>8, <1>9, <1>10 DEF Requests

LEMMA NextWorld ==
  ASSUME World, [Next]_vars
  PROVE  World'
<1>1. CASE Connect
  BY <1>1, ConnectWorld
<1>2. ASSUME NEW c \in Agents, Requests(c)
      PROVE  World'
  BY <1>2, RequestsWorld
<1>3. ASSUME NEW to \in Ways, Step(to)
      PROVE  World'
  BY <1>3, StepWorld
<1>4. CASE UNCHANGED vars
  <2>1. UNCHANGED <<clients, intents, entities, animations, counts, running>>
    BY <1>4 DEF vars
  <2>2. TypeOK'
    BY <2>1 DEF World, TypeOK, Agents, Named, EntityType
  <2>3. Listed'
    BY <2>1 DEF World, Listed
  <2>4. OwnAvatars'
    BY <2>1 DEF World, OwnAvatars, AvatarsOf, Agents, Named
  <2> QED BY <2>2, <2>3, <2>4 DEF World
<1> QED BY <1>1, <1>2, <1>3, <1>4 DEF Next, Ways

\* The invariant holds throughout.
THEOREM SimulationInvariance == Spec => []World
<1>1. Init => World
  BY InitWorld
<1>2. World /\ [Next]_vars => World'
  BY NextWorld
<1> QED BY <1>1, <1>2, PTL DEF Spec

\* Every variable keeps its type.
THEOREM SimulationTypes == Spec => []TypeOK
<1>1. World => TypeOK
  BY DEF World
<1> QED BY <1>1, SimulationInvariance, PTL

-----------------------------------------------------------------------------
(* What a step does.                                                       *)

\* Only a step counts steps.
LEMMA SimulatesSteps ==
  ASSUME World, [Next]_vars, Simulates
  PROVE  \E to \in Ways :
           IF Reached = Simulated
             THEN entities' = Animated(Iteration(to)) /\ animations' = Restrict(animations, Left)
             ELSE entities' = Iteration(to)
<1>1. ASSUME NEW n \in Nat,
             NEW kind \in {"agents", "entities", "intents", "edits", "animations"}, Event(kind, n)
      PROVE  FALSE
  BY <1>1, EventCounts, Numbers DEF Simulates
<1>2. ~Crash
  BY Numbers DEF Crash, Simulates, NothingMade
<1>3. ~Connect
  BY <1>1 DEF Connect
<1>4. ASSUME NEW children \in Children, NEW c, NEW followed, Announce(c, children, followed)
      PROVE  FALSE
  <2>1. 1 + Len(children) \in Nat
    BY SimulationAssumption
  <2> QED BY <1>1, <1>4, <2>1 DEF Announce
<1>5. \A c, shape, parent, followed : ~Spawn(c, shape, parent, followed)
  BY <1>1 DEF Spawn
<1>6. \A c, gesture, grab : ~Intent(c, gesture, grab)
  BY <1>1 DEF Intent
<1>7. \A e, parent : ~ChangeComponents(e, parent)
  BY <1>1 DEF ChangeComponents
<1>8. \A e, mode : ~RemoveEntity(e, mode)
  BY <1>1 DEF RemoveEntity
<1>9. \A e, animation : ~AddAnimation(e, animation)
  BY <1>1, <1>2 DEF AddAnimation
<1>10. \A e, a : ~RemoveAnimation(e, a)
  BY <1>1, <1>2 DEF RemoveAnimation
<1>11. \A c : ~Leave(c)
  BY <1>1 DEF Leave
<1>12. ~UNCHANGED vars
  BY Numbers DEF vars, Simulates
<1>13. \A c : ~Requests(c)
  BY <1>4, <1>5, <1>6, <1>7, <1>8, <1>9, <1>10, <1>11 DEF Requests
<1>14. PICK to \in Ways : Step(to)
  BY <1>3, <1>12, <1>13 DEF Next, Ways
<1> QED BY <1>2, <1>14 DEF Step

LEMMA HeardReached ==
  \A c : Heard(c) <=> c \in Reached
BY DEF Heard, Reached

\* No two agents send intents for one avatar.
LEMMA OneAgent ==
  ASSUME World, NEW c \in Agents, NEW d \in Agents,
         intents[c].by = intents[d].by, intents[c].by # None
  PROVE  c = d
<1>1. intents[c].by \in AvatarsOf(c) \cap AvatarsOf(d)
  BY DEF AvatarsOf
<1> QED BY <1>1 DEF World, OwnAvatars

\* What nothing but a pose moves is where its owner's turn put it, if it did.
LEMMA OnlyPosedSteps ==
  ASSUME World, [Next]_vars, Simulates, NEW e \in DOMAIN entities, OnlyPosed(e)
  PROVE  LET c == entities[e].owner
         IN /\ c \in Reached /\ Poses(c, e) => entities'[e].at = intents[Actuator(c, e)].hand
            /\ ~(c \in Reached /\ Poses(c, e)) => entities'[e].at = entities[e].at
<1> PICK c : c = entities[e].owner
  OBVIOUS
<1>1. PICK to \in Ways : entities' = Animated(Iteration(to)) \/ entities' = Iteration(to)
  BY SimulatesSteps
<1>2. Iteration(to) \in Placements
  BY Stepped
<1>3. entities'[e].at = Iteration(to)[e].at
  BY <1>1, <1>2, AnimatedFacts DEF OnlyPosed
<1>4. \A d \in Reached : e \notin MovedWithStick(d) \cup MovedByGrab(d)
  BY HeardReached, ReachedFacts DEF OnlyPosed
<1>5. /\ c \in Reached /\ Poses(c, e) => Iteration(to)[e].at = intents[Actuator(c, e)].hand
      /\ ~(c \in Reached /\ Poses(c, e)) => Iteration(to)[e] = entities[e]
  BY <1>4, Stepped
<1> QED BY <1>3, <1>5

\* What HandsFollowIntents says of a step
HandFollows(e) ==
  entities[e].poses /\ entities[e].from = None /\ OnlyPosed(e) =>
    LET intent == intents[entities[e].owner]
        bodies == {c \in Simulated : intents[c].by = Body(e)}
        misled == \E f \in DOMAIN entities :
                    /\ f > e
                    /\ Follows(f)
                    /\ entities[f].owner = entities[e].owner
                    /\ entities[f].from # Body(e)
    IN /\ entities'[e].at \in {entities[e].at} \cup {intents[c].hand : c \in bodies}
       /\ Heard(entities[e].owner) /\ intent.by = Body(e)
          /\ intent.hand # Identity /\ ~misled
            => entities'[e].at = intent.hand

LEMMA HandSteps ==
  ASSUME World, [Next]_vars, Simulates, NEW e \in DOMAIN entities
  PROVE  HandFollows(e)
<1> SUFFICES ASSUME entities[e].poses, entities[e].from = None, OnlyPosed(e)
             PROVE  HandFollows(e)
  BY DEF HandFollows
<1> PICK c : c = entities[e].owner
  OBVIOUS
<1>1. c \in Agents
  BY Types DEF World, EntityType
<1>2. /\ c \in Reached /\ Poses(c, e) => entities'[e].at = intents[Actuator(c, e)].hand
      /\ ~(c \in Reached /\ Poses(c, e)) => entities'[e].at = entities[e].at
  BY OnlyPosedSteps
<1>3. ASSUME c \in Reached
      PROVE  Actuator(c, e) \in Simulated
  <2>1. c \in Simulated
    BY <1>3, ReachedFacts
  <2>2. \A f : Followed(f) \subseteq Simulated
    BY DEF Followed
  <2> QED BY <1>1, <2>1, <2>2, ActuatorFacts
<1>4. entities'[e].at \in {entities[e].at} \cup
                          {intents[d].hand : d \in {d \in Simulated : intents[d].by = Body(e)}}
  <2>1. CASE c \in Reached /\ Poses(c, e)
    <3>1. intents[Actuator(c, e)].by = Body(e)
      BY <2>1 DEF Poses
    <3> QED BY <1>2, <1>3, <2>1, <3>1
  <2>2. CASE ~(c \in Reached /\ Poses(c, e))
    BY <1>2, <2>2
  <2> QED BY <2>1, <2>2
<1>5. ASSUME c \in Reached, intents[c].by = Body(e), intents[c].hand # Identity,
             \A f \in DOMAIN entities :
               f > e /\ Follows(f) /\ entities[f].owner = c => entities[f].from = Body(e)
      PROVE  entities'[e].at = intents[c].hand
  <2>1. CASE Actuator(c, e) = c
    <3>1. Poses(c, e)
      BY <1>5, <2>1 DEF Poses
    <3> QED BY <1>2, <1>5, <2>1, <3>1
  <2>2. ASSUME NEW f \in DOMAIN entities, f >= e, entities[f].owner = c,
               Follows(f), Actuator(c, e) \in Followed(f)
        PROVE  Actuator(c, e) = c
    <3>1. f # e /\ f \in Nat /\ e \in Nat
      BY <2>2, Numbers DEF Follows
    <3>2. entities[f].from = Body(e)
      BY <1>5, <2>2, <3>1
    <3>3. intents[Actuator(c, e)].by = intents[c].by
      BY <1>5, <2>2, <3>2 DEF Followed
    <3>4. intents[c].by # None
      BY <1>5, ReachedFacts, Numbers
    <3>5. Actuator(c, e) \in Agents
      BY <1>1, ActuatorFacts
    <3> QED BY <1>1, <3>3, <3>4, <3>5, OneAgent
  <2> QED BY <1>1, <2>1, <2>2, ActuatorFacts
<1> QED BY <1>4, <1>5, HeardReached DEF HandFollows

\* A step poses an entity only as a client says whose body it is part of, and does
\* so whenever that client owns it and is heard, unless a newer entity of the
\* client follows another avatar (pose_movement.c).
THEOREM HandsTheorem == Spec => HandsFollowIntents
<1> DEFINE Follow == Simulates => \A e \in DOMAIN entities : HandFollows(e)
<1>1. World /\ [Next]_vars => [Follow]_vars
  BY HandSteps
<1>2. [][Follow]_vars => HandsFollowIntents
  BY DEF HandsFollowIntents, HandFollows
<1> HIDE DEF Follow
<1> QED BY <1>1, <1>2, SimulationInvariance, PTL DEF Spec

LEMMA FollowerSteps ==
  ASSUME World, [Next]_vars, Simulates, NEW e \in DOMAIN entities, NEW d \in Simulated,
         Follows(e), Heard(entities[e].owner), OnlyPosed(e),
         intents[d].by = entities[e].from, intents[d].hand # Identity
  PROVE  entities'[e].at = intents[d].hand
<1> PICK c : c = entities[e].owner
  OBVIOUS
<1>1. c \in Agents /\ d \in Agents
  BY Types DEF World, EntityType, Simulated
<1>2. c \in Reached /\ Poses(c, e) => entities'[e].at = intents[Actuator(c, e)].hand
  BY OnlyPosedSteps
<1>3. d \in Followed(e)
  BY DEF Followed
<1>4. Actuator(c, e) \in Followed(e) /\ Actuator(c, e) \in Agents
  <2>1. e \in Nat /\ e >= e /\ \A g \in DOMAIN entities : g \in Nat
    BY Numbers
  <2>2. PICK g \in DOMAIN entities : g >= e /\ g <= e /\ Actuator(c, e) \in Followed(g)
    BY <1>1, <1>3, <2>1, ActuatorFacts
  <2>3. g = e
    BY <2>1, <2>2
  <2> QED BY <1>1, <2>2, <2>3, ActuatorFacts
<1>5. Actuator(c, e) = d
  BY <1>1, <1>4, OneAgent DEF Followed, Follows
<1>6. c \in Reached /\ Poses(c, e)
  BY <1>5, HeardReached DEF Poses, Follows
<1> QED BY <1>2, <1>5, <1>6

\* After a step a follower is held as the followed client's latest intent says,
\* even if that client itself is not heard (pose_movement.c).
THEOREM FollowersTheorem == Spec => FollowersFollow
<1> DEFINE Follow == Simulates =>
             \A e \in DOMAIN entities, d \in Simulated :
               /\ Follows(e) /\ Heard(entities[e].owner) /\ OnlyPosed(e)
               /\ intents[d].by = entities[e].from /\ intents[d].hand # Identity
               => entities'[e].at = intents[d].hand
<1>1. World /\ [Next]_vars => [Follow]_vars
  BY FollowerSteps
<1>2. [][Follow]_vars => FollowersFollow
  BY DEF FollowersFollow
<1> HIDE DEF Follow
<1> QED BY <1>1, <1>2, SimulationInvariance, PTL DEF Spec

\* What AnimationsEnd says of a step
AnimationsOver ==
  {a \in DOMAIN animations :
     /\ animations[a].spec.applies /\ ~animations[a].spec.repeats
     /\ Now > animations[a].spec.start + animations[a].spec.duration}

AnimationEnds ==
  /\ DOMAIN animations' = DOMAIN animations \ AnimationsOver
  /\ \A a \in AnimationsOver :
       (\A b \in AnimationsOf(animations[a].on) : b > a => ~Writes(b))
         => entities'[animations[a].on].at = animations[a].spec.to

LEMMA AnimationSteps ==
  ASSUME World, [Next]_vars, Simulates, \A c \in Simulated : HasAvatar(c)
  PROVE  AnimationEnds
<1>1. Reached = Simulated
  BY DEF Reached
<1>2. PICK to \in Ways :
        entities' = Animated(Iteration(to)) /\ animations' = Restrict(animations, Left)
  BY <1>1, SimulatesSteps
<1>3. ASSUME NEW a \in DOMAIN animations
      PROVE  /\ a \in AnimationsOver <=> Done(a)
             /\ a \in AnimationsOver => Writes(a) /\ Value(a) = animations[a].spec.to
  <2> PICK start, duration :
        start = animations[a].spec.start /\ duration = animations[a].spec.duration
    OBVIOUS
  <2>1. start \in Nat /\ duration \in Nat /\ Now \in Nat
    BY AnimationTypes
  <2>2. /\ Now > start + duration <=> Now - start > duration
        /\ Now > start + duration => start <= Now
    BY <2>1
  <2> QED BY <2>2 DEF AnimationsOver, Done, Writes, Over, Value
<1>4. DOMAIN animations' = DOMAIN animations \ AnimationsOver
  BY <1>2, <1>3, LeftFacts DEF Restrict
<1>5. ASSUME NEW a \in AnimationsOver,
             \A b \in AnimationsOf(animations[a].on) : b > a => ~Writes(b)
      PROVE  entities'[animations[a].on].at = animations[a].spec.to
  <2> PICK e : e = animations[a].on
    OBVIOUS
  <2>1. a \in DOMAIN animations /\ a \in AnimationsOf(e)
    BY DEF AnimationsOver, AnimationsOf
  <2>2. e \in DOMAIN entities
    BY <2>1, AnimationTypes
  <2>3. Iteration(to) \in Placements
    BY Stepped
  <2> PICK at : at = Iteration(to)[e].at
    OBVIOUS
  <2>4. at \in Int
    BY <2>2, <2>3 DEF Placements, EntityType
  <2>5. entities'[e].at = Animate(e, at).at
    BY <1>2, <2>2, <2>3, AnimatedFacts
  <2>6. Animate(e, at).at = Value(a)
    BY <1>3, <1>5, <2>1, <2>4, AnimateFacts
  <2> QED BY <1>3, <2>1, <2>5, <2>6
<1> QED BY <1>4, <1>5 DEF AnimationEnds

\* A step in which every client is heard takes away just the animations that are
\* over, and leaves what the last of them animated where it was to end
\* (animation.c).
THEOREM AnimationsTheorem == Spec => AnimationsEnd
<1> DEFINE End == Simulates /\ (\A c \in Simulated : HasAvatar(c)) => AnimationEnds
<1>1. World /\ [Next]_vars => [End]_vars
  BY AnimationSteps
<1>2. [][End]_vars => AnimationsEnd
  BY DEF AnimationsEnd, AnimationEnds, AnimationsOver
<1> HIDE DEF End
<1> QED BY <1>1, <1>2, SimulationInvariance, PTL DEF Spec
=============================================================================
