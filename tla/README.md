# Verification of allonet

allonet is the network library of Alloverse: a *place* is a server that keeps a
world of entities, *agents* (visors and apps) are clients that see that world,
act in it through intents and interactions, and share media and assets. This
directory models its core logic in TLA+, checks it with TLC and proves the most
important results with TLAPS.

Paths below are relative to the repository, whose own sources are in `src/`.

## 1. Inventory

### Parts and how they interact

| Part | State | Operations | Talks to |
|---|---|---|---|
| **State replication** (`src/delta.c`, `broadcast_server_state`, `alloclient_parse_statediff`) | a ring of 64 revisions on the server and on each client, a cache of deltas, `ack_state_rev` in each intent | publish, compute a delta, send, apply, report the changes, acknowledge | one unreliable, sequenced channel in each direction |
| **Asset distribution** (`src/server.c`, `src/asset.c`) | `wanted_assets` with recipients, potential sources and a source; the asset store | serve, request, forward, fail, drop a client | reliable channel to every client; the store |
| **Asset store** (`src/assetstore.c`) | per asset: memory, ranges, `complete`, `lru`; the time of the next pruning | write, read, register, prune | called under its lock |
| **Threaded client** (`src/clientproxy.c`) | two queues with a mutex each, a loop flag, the connection | calls of the application, callbacks of the bridge, connect, disconnect and join | application thread and network thread |
| **Place server** (`src/standalone_server.cpp`, `src/state.c`) | clients, the list of entities with owners and parents, media tracks with recipients, launched apps | connect, announce, spawn, remove, change components, allocate, subscribe, launch, clean up | one thread; clients by interactions |
| **Simulation** (`src/simulation/`) | intents, transforms, animations | a step every 200 ms, or after a request to the place: sticks, poses, grabs, animations | reads the clients' intents, writes the entities that are then published |
| **Client media** (`src/media/`) | one list of tracks with their codecs, under a lock | follow the `live_media` components, decode what arrives, encode what is sent | both threads of a client; codec libraries |
| **Clock** (`parse_clock`, `handle_clock`) | the difference to the server's clock | ask once a second, echo, estimate | one unreliable, sequenced channel in each direction |
| Client core (`src/client/client.c`) | the mirror of the world, the latest intent | poll, send intents, parse what arrives | all of the above |
| Helpers | see section 6 | | |

On the server everything runs in one loop: `alloserv_run_standalone` handles
ENet events one at a time, and when a step is due (five times a second, and
after every request to the place) simulates and broadcasts.
A client is either used directly (one thread) or through the proxy (two threads).

### What is hard

* *State replication*: packets are lost while both ends reuse ring slots and
  cached deltas; a patch must fit a state the client still has; revisions are
  kept in a double, sent as a number and read back as an `int`.
* *Asset distribution*: several clients ask, answer, fail and leave in any
  order; entries refer to ENet peers, which later connections use again.
* *Asset store*: chunks overlap, repeat and arrive out of order; writes prune
  as their last step.
* *Threaded client*: mutexes held across callbacks and across a connect of
  five seconds, taken in opposite orders by the two threads; a join.
* *Client media*: the application's thread adds and removes tracks while the
  network thread uses them; three mutexes; frames and components on different
  channels.
* *Clock*: requests and answers are lost, delayed and overtaken.
* *Place server*: tracks hold pointers to clients that are freed; removal
  cascades over parents that anybody sets, to anything, while a loop holds a
  pointer; no request is compared with who owns what it names.
* *Simulation*: the order of clients and entities decides who moves what, and
  animations move it once more; one client without an avatar ends the step for
  those behind it; parents may be gone, or above each other in a cycle.

`PROJECT.json` lists each hazard at its line with the properties aimed at it.

### What makes each part correct

* Replication: a client only ever sees worlds that were published, in order; a
  patch under way can be applied when it arrives; the client's entity list is
  that of its latest state.
* Assets: nobody is forgotten, nobody who left is waited for, one source
  provides all chunks, what is announced is complete.
* Store: the recorded ranges are what was written; complete means complete;
  pruning leaves alone what is in use.
* Threaded client: calls and callbacks arrive once, in order and completely; no
  deadlock; disconnecting returns; the server is told the truth about what the
  application applied.
* Client media: the tracks are those of the world the application sees, a track
  in use is not removed, and no media comes before its component.
* Clock: an estimate is as good as its roundtrip, and never replaced by an older one.
* Place: nothing of an agent that left remains, neither entities nor tracks;
  entities go with all that is below them and with nothing else. (They need not
  be a forest: parents that never were, are gone, or are above each other in a
  cycle are all possible, and so are components that name any track.)
* Simulation: every entity is moved by the intent it names, in its turn; what is
  grabbed is in the hand; an animation that is over has set its last value and goes.

## 2. Modules

    StateHistory  <-- StateSync <-- StateSyncProofs <-- MCStateSync
                          |  (INSTANCE, refinement)
                      PublishedWorld
    ServerAssets  <-- ServerAssetsProofs, MCServerAssets
    ClientProxy   <-- ClientProxyProofs <-- MCClientProxy
                          |  (INSTANCE twice, refinement)
                      Channel
    ClientMedia   <-- ClientMediaProofs <-- MCClientMedia
    ClockSync     (specification and proofs)
    AssetStore    <-- AssetStoreProofs, MCAssetStore
    PlaceServer   <-- PlaceServerProofs, MCPlaceServer
    Simulation    <-- SimulationProofs, MCSimulation

A comment `MUTANT` marks a wrong version of the definition below it: a plausible
bug, with which some property must fail. They are used for that test only.

**StateHistory** has no behaviour: the ring (`statehistory_t`), merge patches of
abstract worlds, `ComputeDelta` (`allo_delta_compute`), `CanApply` and `Applied`
(`allo_delta_apply`), and which entities an applied delta reports as new or
deleted. An entity's components are one abstract value.

**StateSync** adds the server's broadcast (`Publish`, then one `SendDelta` per
client, with the static delta cache), intents with their acknowledgement
(`ReceiveIntent`), connections, and `Poll`, which sends an intent and applies the
newest delta that has arrived. A packet handed to the network may be lost; a
connection keeps the newest `MaxInFlight`, so losing any of those before is
allowed too. `log` is auxiliary: the world of each revision.

**PublishedWorld** is the abstract specification: the place publishes worlds, a
client observes some later one. `StateSyncProofs!Abs` maps a client's view to the
latest state of its history.

**ServerAssets** models the search for one asset: `Ask`, the server's handler
`Serve` (request, data, failure) with `wanted_assets`, the client's `Receive`,
connects, disconnects and a store that may drop the asset (`Prune`). Channels are
queues, because ENet's reliable channel keeps the order; sending to a peer that
is not connected does nothing. Clients differ in how they answer: they have the
asset, lack it, or are silent (no callback installed).

**ClientProxy** models the two threads. Only what holds a mutex across steps is a
state of its own: draining the calls on the network thread, draining the callbacks in
`alloclient_poll`, waiting to post or to enqueue, and the join. `sent`/`handled`
and `posted`/`delivered` number calls and callbacks.

**Channel** is the abstract specification of one direction between the threads:
what is sent arrives once and in order. `ClientProxyProofs` instantiates it as
`Calls` (`sent`, `handled`) and as `Callbacks` (`posted`, `delivered`).

**ClientMedia** models the track list of a threaded client in the context of
both threads. The place allocates, changes and removes `live_media` components; the
network thread gets deltas (or misses them) and frames of any track that was
ever allocated; the application's thread takes a delta, and then works through the difference
one component, and one lock section, at a time: new ones, updated ones (removed
and added again), deleted ones. `todo` is what is left of the difference, `gap`
an update between its two halves. `net` says whether the network thread is in a
codec (with the list locked), waits to post, or has its turn with the calls.
A component is its track's id, its format and one bit of metadata. Each module sees
only its side of what it shares with others: here the queues carry deltas and media, in
`ClientProxy` calls and callbacks of any kind, in `StateSync` a delta's contents.

**ClockSync** models clock requests, the server's echo and the estimate. Time
advances by arbitrary jumps between any two steps, both clocks alike; requests
and answers are sets of packets of which any may be the next to arrive, which
makes the older ones worthless (an unreliable, sequenced channel). The fields
`then` and `roundtrip` of `estimate` are auxiliary, except that half of the latter is
`clock_latency`.

**AssetStore** models `_merge_range`, completeness, reads and writes with the
pruning at their end, in one step each because the lock is held throughout. It
keeps the code's way to record a write of *length* bytes as the inclusive range
*offset..offset+length*. Times are seconds.

**PlaceServer** models clients as places in memory that later connections may
get again; entities with owner, parent and track; tracks with the client they
come from and the number of times each client is among the recipients. Entity ids
are numbers counting up, and the list is in descending order, as
`LIST_INSERT_HEAD` makes it. Requests name any entity and any track, gone ones
included, and put any parent and any track into components, as the server looks up
neither; any client may allocate a track for any entity. (`Named` are the ids given
so far; one that never was given is like one that is gone.) A use of a NULL or freed
pointer ends the server (`running = FALSE`). `subscribed`, and `by` of a track, are
auxiliary: a client's subscriptions, and the agent that allocated the track.

**Simulation** models the step client by client, newest first: stick movement,
poses, grabs (`SimulatedFor`), and then the animations. `Iteration` is the loop over
the clients, as a recursive function from the newest agent to the first; `Reached`
are the clients before its early return. The inner loop of `allosim_pose_movements`
overwrites the intent it works with at each follower; `Actuator` says in closed form
which intent that leaves in place for an entity: the one that the last follower up to
it in the list, which is newest first, has found. TLC has compared this definition
with a step by step version of the C loop, in all states of an instance with
followers. `Animate` is the loop over the animations of an entity, one `Round` at a
time, with its cursor, what is left of the list, and the value set so far.
Every transform is a translation along one axis, so that what is in which space matters
and composition is addition; each agent's hand has values of its own, so that an
entity shows whose intent posed it. A step's number is its time. Where the stick
brings an avatar is chosen freely; `grabber_from_entity_transform` is the identity.
An entity with `"actuate_on": "$parent"` is a handle: to grab it moves its parent.
A hand may be below another client's avatar, a handle below a follower, anything
below what is gone. A turn that would compare with NULL, or convert between spaces
that go round in a cycle, ends the server.

## 3. Runs

| Run | Instance | Distinct states | Shows |
|---|---|---|---|
| `sync_contents` | 1 client, ring of 3, 5 revisions, 2 packets under way, an entity that comes and goes | 40,662 | patches stay applicable, the cache is transparent, acknowledgements are truthful, the entity list is exact, `PublishedWorld` is implemented, a delta under way brings its client up to date |
| `assets_once` | 3 peers, 2 chunks, 3 connections, each asks once | 62,637 | no double request, patience, completeness, nothing sent to whoever left, progress |
| `assets_prune` | 3 peers, 4 connections, the store drops the asset once | 491,478 | sources are connected, one origin, nobody forgotten |
| `assets_partial` | as `assets_once` | violation | see findings |
| `proxy_order` | 2 calls, 2 callbacks before the server falls silent | 22,347 | no circular wait, `Channel` is implemented in both directions, nothing is lost, acknowledgements, `alloclient_disconnect` returns |
| `proxy_callback` | 1 call, 1 callback, disconnect in a callback | violation | see findings |
| `media_tracks` | 2 entities, 2 tracks, 1 change of metadata, 2 callbacks and 1 call waiting, 3 formats of which 2 have a subsystem | 598,496 | the list follows the world, a track in use stays, no frame outruns its component, the client catches up |
| `store_chunks` | 4 assets (5, 2, 2, 2 bytes in chunks of 2), limits of 2 assets and 8 bytes, time 6 | 17,762 | exact ranges, exact completeness, what is in use is kept |
| `store_complete` | one asset, any pieces | violation | see findings |
| `place_world` | 2 clients, 3 connections, 3 entities or tracks, 1 edit, 1 launch | 527,409 | owners, origins of tracks, recipients, whole trees, a safe clean-up |
| `place_tracks` | as `place_world`, with double subscriptions | violation | see findings |
| `simulation_steps` | 3 agents of which 2 fit in a step, 4 entities, 2 intents, 1 edit, 2 animations, 6 events in all, 2 steps | 1,831,279 | poses, followers, grabs and animations |

### Bounds, and why they are enough

* *StateSync*. With a ring of three and five revisions every slot is used twice,
  so that acknowledgements, cached deltas and patches of both generations meet.
  Two packets under way suffice for a poll to skip one. Several clients, which
  share the server's ring and cache, are left to the proofs: they cover every
  ring, queue and number of clients.
* *ServerAssets*. Three peers are one who asks, one who answers and one who
  does either or leaves; two chunks are a first and a last. A fourth connection makes an ENet
  peer be used again. The bounds on asking are needed by one property only: `RecipientsConnected` fails
  if a client may ask twice (`MaxAsks = 2`), because leaving removes one of its
  entries; `AvailableIsComplete` fails if the store may drop the asset in
  between (`MaxPrunes = 1`), and so do `OneRequestPerSource` and `PatientServer`. `NoRequestForgotten` also holds with `MaxAsks = 2`,
  `AnsweredUnlessStuck` also with `MaxJoins = 4`.
* *ClientProxy*. Two calls and two callbacks are enough to reorder; the
  connection can end in each of its ways at each point.
* *ClientMedia*. Two tracks are one in use and one that is changed or removed,
  or one that replaces the other in its entity; one difference can have a new, an updated and a deleted
  component. Two waiting callbacks put media before and behind a delta. The
  proofs cover any number of entities, tracks and messages.
* *AssetStore*. Five bytes in chunks of two give a short last chunk, and three
  positions to be filled in any order; four assets exceed the number, or the
  bytes, in the cache. The proofs cover assets of any size, in any pieces.
* *PlaceServer*. Three connections of two clients reuse a client's memory; three
  entities make trees of depth three, cycles, and children of what is gone. `MaxMade` bounds
  entities and tracks together: with a track there are two entities. The proofs
  cover any number of everything.
* *Simulation*. Six events allow two announced and heard clients of which one
  follows or grabs the other's hand; a client with a hand and a handle below its avatar
  or below anything else, that is grabbed, moved below another entity or animated; two animations of
  one entity of which one, both or none is over; or a client that never announces itself
  in front of or behind them. `MaxSimulated = 2` stands for the 32 intents
  that fit. The three animations are one that is over in the second step, one
  that repeats and starts later, and one of a property the entity does not have. The proofs cover any number of
  clients, entities and animations, and any parents.

All bounds are named in the modules, and `CHECK_DEADLOCK FALSE` is used where
the bounds, or a crash, end all activity.

### Fairness

* `StateSync!FairSpec`: a client polls for ever, and a poll takes what has
  arrived (WF). Nothing is assumed of the network or the server.
* `ServerAssets!FairSpec`: the server serves and the clients receive what is
  under way (WF): ENet's reliable channel delivers or disconnects, and both
  sides poll in a loop.
* `ClientProxy!FairSpec`: the network thread runs, callbacks return and the
  application polls on (WF; "call regularly at 20hz", `include/allonet/client.h`). A thread that
  waits for a mutex which the other takes and releases again and again gets it
  (SF): operating systems do this, though C11 mutexes do not promise it.
* `ClientMedia!FairSpec`: as in `ClientProxy`, with the lock of the track list as
  a third mutex (SF of `Post` and of the steps of `HandleStateDiff`). In addition a
  place that has something new gets a delta through in the end (SF of
  `ReceiveDelta`), because it broadcasts five times a second, and after each request to it. The place itself
  need not do anything: after `MaxTracks` and `MaxChanges` it comes to rest.

### Findings

* `assets_partial`: a request that arrives while the asset is being downloaded
  is answered with bytes nobody wrote (`src/server.c:165`): the server reads
  without asking for the state, against the advice of `include/allonet/assetstore.h:28`.
* `proxy_callback`: `alloclient_disconnect` in the `disconnected_callback`, which
  `src/client/client.c:339` calls the standard thing to do, can hang a threaded
  client: it joins the network thread, which waits for the mutex that
  `alloclient_poll` holds.
* `store_complete`: two writes with one unwritten byte between them are merged
  and complete the asset.
* `place_tracks`: a client that subscribed twice stays a recipient after it left.

Other behaviour the models have, which no documentation contradicts, and which
the properties therefore allow for:

* A client that asks for an asset alone, or of silent clients, waits for ever
  (`ServerAssets!Stuck`).
* A client's own hand stands still while the client owns a newer entity
  that follows another agent's avatar, and a follower whose avatar is gone is
  held as its owner's hand, because `pose_movement.c:29` overwrites the intent
  of the whole loop (excluded in `HandsFollowIntents` and `FollowersFollow`).
* A client that has not sent an intent since it announced itself stops the
  simulation of all clients behind it and of all animations, and a follower that
  searches past it compares with NULL (`ComparesWithNull`).
* `ListAgents` and `Launch` end the server if a client has not announced itself, or if
  its avatar is gone; `Launch` and requests about animations end it if the
  entity in whose name they are made is gone.
* The place accepts parents that do not exist, parents that form a cycle, and
  `live_media` with any track, of any agent or of none: a component may outlive its track and
  a track its component. Grabbing below a cycle never ends (`Cyclic`), and ends the server.
* Anybody may allocate a track for, change or remove an entity of anybody.
* `SafeCleanup`: the loop that removes what a client owned touches freed memory
  if, after a change of parents, a child is right behind its parent in the list.
* A frame that arrives between the two halves of an update finds no track and is
  dropped (`gap`); `media.c:199` expects as much of frames that come too early.
* The clock estimate is ahead of the server by the delay of the request, not by
  half the roundtrip: `parse_clock` adds the whole roundtrip to the server's time.
  `include/allonet/client.h` promises a best effort (`EstimateAhead`).
* Not in a model: `_memstore_get_missing_ranges` converts pairs of positions into
  offsets and lengths in a loop that goes on by one instead of two, so more than
  one range comes out wrong; nothing in `src/` asks for more than their number.
* After 2^31 revisions acknowledgements no longer match (`AckOf`), and
  `MergeBaseAvailable` fails.

## 4. Proofs

TLAPS checks each theorem for all values of the constants. Each proof module states
its inductive invariant, lemmas about queues and operators, and one lemma
per action or group of actions. TLC has also checked each inductive invariant on the
instances above. Every invariant and action property that a run checks is a theorem,
but for `GrabbedIsInHand` (section 5), some under a hypothesis on the bounds that is named here:

| Property | Hypothesis | Why it is needed |
|---|---|---|
| `RecipientsConnected` | `MaxAsks <= 1` | who asks twice is among the recipients twice, and leaving removes it once |
| `OneRequestPerSource`, `PatientServer`, `AvailableIsComplete` | `MaxPrunes = 0` | a store that drops the asset makes the server start anew while answers are under way |
| `CompleteExactly` | `PiecesMeet` | run `store_complete`: writes with one byte between them are merged |
| `RecipientsSubscribed` | `~SubscribesTwice` | run `place_tracks` |
| the properties of `StateSync` | `NoWrapAssumption` | revisions beyond an `int` |
| the properties of `ClientProxy` | `OutsideCallbacks` | run `proxy_callback` |

**StateSyncProofs**, from `NoWrapAssumption` (the server publishes fewer
revisions than fit in an `int`, and none wraps). The properties are not
inductive: that a patch can be merged depends on why the server computed it. `IInv`
adds

* `ServerRing`: each revision is in the ring unless a later one took its slot;
* `ClientRing`: a client's ring has published worlds up to its latest;
* `AcksApplied`: what the server believes, and what is under way to it, was
  applied by the client, whose slot for it now has this or a later revision;
* `DeltasGood`: a patch under way starts at such a revision, and *no revision up to
  its target uses the same slot*. As the client cannot have anything newer than
  the target before the patch arrives, the slot still has the start;
* `CacheFresh` and `NotYetSent`, for the broadcast in progress.

From it follow `TypeCorrect`, `MergeBaseTheorem`, `PublishedTheorem`,
`PatchNotEmptyTheorem`, `ForwardTheorem`, `CacheTheorem`, `AcksTheorem`, the
action property `ForwardOnly`, and `Refinement`: every step of `StateSync` is a
step of `PublishedWorld` or leaves its variables alone. `MirrorTheorem` adds what
is the same before and after a poll: entities listed by an application that follows the reported
changes are those of its latest state, because a report (`ListedChange`) is exactly the difference
of two states (`ReportedFact`).

**ServerAssetsProofs**, from `ProofAssumption` (the bounds are numbers, and
`NotWanted` is no entry). `SourceIsOrigin` (while wanted, the store has only
what the source sent) and `UnstoredUnwritten` carry `OneOriginTheorem`, across a store that
drops the asset. `SourcesConnected` is inductive given the types.
`NoRequestForgottenTheorem` needs `OfflineIdle` and follows each message type
through the queues: an answer is appended before the entry goes.

Three more invariants count messages. `AsksCounted`: the requests of a client under way, its
places among the recipients and the chunks under way to it are together no more than it asked;
so a client that may ask once is in the list at most once, leaves with it, and
`RecipientsConnectedTheorem` follows. `EveryoneCareful`: a client has at most one
question or answer under way, and as long as it has one it is among
the potential sources or the asset is complete; that gives both `OneRequestTheorem` and
`PatientServerTheorem`, which need each other: only a client that is still waited for is not asked
again. `ChunksInOrder`: a chunk
under way, asked for or provided, comes after chunks the store has; so the last one
completes the asset (`AvailableIsCompleteTheorem`).

**ClientProxyProofs**, from `OutsideCallbacks` (the application does not
disconnect in a callback; `proxy_callback` shows that this is needed).
`QuietUntilPosted` is the reason why the opposite lock orders are harmless: a
connect can fail, and post with the calls' mutex held, only before the first callback, when a poll
runs no callback that could call. `ExitAfterDisconnect`, `CallsQueued` and
`CallbacksQueued` relate queue contents to the counters. From these follow
`ProxyTypes`, `NoCircularWaitTheorem`, `CallsInOrderTheorem`,
`HandledAtExitTheorem`, `DeliveredInOrderTheorem` and `ChannelRefinement`: every step of
either thread is a step of `Channel`, or none, in each direction.
`AckFollowsTheorem` needs no more than these: the last acknowledgement in the
queue, or else the bridge's own, is that of what was applied last.

**ClientMediaProofs**, from `MediaAssumption` alone. The list can only be right in the end
if it is right in the middle of a difference, so `IInv` says of what: `Shown` is
the component of each entity that the list is up to date with (the old one while
the entity is in `todo`, none in the `gap`), and `TracksOK` that the list is exactly
what `Shown` calls for. That removing a track by its id removes the right one, and
only it, needs `WorldsOK`: in all worlds under way, old and new, an id belongs
to one entity. `DiffOK` keeps the order of the difference, `UseOK` the track in
use, and `MediaOK` follows the ids of media through the queue.

**AssetStoreProofs**, from `StoreAssumption`, for assets of any size written in any
pieces. The heart is `_merge_range` (`Merged`): the two searches for the first
and the last range that a write touches are shown to find them, in a list that is `Apart`
(sorted, and with a gap between neighbours), and what comes out is `Apart` again and
covers what was covered and the new range. Together with the pruning, which
removes whole entries, this is `IInv` and gives `RangesExactTheorem`: the ranges are determined by
the bytes written. `WrittenIsCompleteTheorem` holds of any pieces;
`CompleteExactlyTheorem` of pieces of which none starts one byte behind the end
of another, and `ChunksMeet` shows that chunks of two bytes or more, as the clients write
them, are such. `InUseKeptTheorem`: a pruning that must free memory spares what was used
in the last `MinAge` seconds, also at the end of a write to something else.

**PlaceServerProofs**, from `PlaceAssumption`. Requests put any parent and any track anywhere,
so nothing about these is invariant, and nothing of it is needed. `CascadeClosed` shows what
`allo_state_remove_entity` relies on: removing children, then their children, has
everything below the entity after as many rounds as there are entities, whatever
parents there are, cycles included (each round that is not the last adds one).
The loop of `clients_changed` (`Cleanup`) removes one such tree after another; that whole trees
one after the other are whole trees (`WholeTreesGoOn`) gives, by induction over the
loop (`CleanupClears`), that nothing of its owner is left, that nothing left
had a parent that went, and that each entity that went is below one of the owner's.
From the invariant, which is the properties themselves
with `CountsOK` (what was numbered so far) and `AgentsOK` (agent ids are not used
twice), follow `OwnersTheorem`, `TreesTheorem` and `OriginsTheorem`; `RecipientsTheorem` needs
`RecipientOnce` as well. `SafeCleanupTheorem` needs `CascadeNewer`:
with parents older than their children, the next entity in the list is never
among those just freed.

**SimulationProofs**, from `SimulationAssumption`, for any number of clients, of
which any number fits in a step, and any parents. The invariant `World` adds to the types, as `OwnAvatars`,
that an avatar in an intent was announced by the agent that sends it and by no
other; so an avatar is in the intent of one client at most (`OneAgent`). Whether avatars, parents
and what is grabbed still exist is part of no invariant, as every request may remove them.
`Turn` says what the turn of one client changes: its avatar, what it poses, and what it
grabs. `IterationTurns` unfolds the loop over the clients, and since the turns of others
leave an entity alone that only poses move (`Quiet`, `OnlyPosedSteps`), `HandSteps` and
`FollowerSteps` say what the whole step does to it; that animations leave it
alone too is `AnimateFacts`, for an entity that none of them writes. `HandsTheorem` and `FollowersTheorem` follow.
The loop over the animations is proved by induction over its rounds: everything behind the cursor
is still to come, everything before it was processed, and of that just the animations
that are done are gone; the value is that of the last that wrote (`RoundSound`,
`AnimateFacts`). As there are as many rounds as animations, the loop comes to the end of
the list, and `AnimationsTheorem` follows.

**ClockSync**, for any `Offset` and any `Jumps`: each answer was computed
between its request and now, and what is under way is newer than what arrived.
`ClockTheorem` bounds the estimate on both sides, `NewestTheorem` orders the estimates.
No run checks this module, as the state of interest is numbers; small
instances (clocks up to 3800, jumps of 400 and 601) were explored with TLC before the proof.

Recursive functions and counts are reasoned about without induction theorems that take an operator: a
set of naturals that has 0, and with n also n + 1, has all of them (`Induction`, from the
well-foundedness of `<`), and that a recursive function exists is shown by the sequence of its
values (`IteratesExist`).

## 5. Only model-checked

* Liveness (`DeltasReachClient`, `AnsweredUnlessStuck`, `NothingLost`,
  `DisconnectReturns`, `TracksCatchUp`): fairness and `ENABLED` are out of the prover's reach.
* `GrabbedIsInHand`. That two ways to the world agree after the step needs induction
  over chains of parents of any length, in a world where the step itself has moved
  entities of either chain. TLC checks it on chains of up to four entities, which
  clients put below each other and hold in any order.
* That the four documented promises under Findings are broken: TLC shows the
  behaviours.
* That the definitions stand for the code: that is for a reader to compare.

## 6. Not modelled

* *Codecs, glTF, hashes, URIs, matrices*: library calls and arithmetic. Media
  matters to the models as tracks with recipients (`PlaceServer`) and as frames
  of a track (`ClientMedia`).
* *A track that moves to another entity within one difference*:
  `_alloclient_media_handle_statediff` would find it when it adds the new component
  and then destroy it with the old one. `allocate_track` never does this, an agent
  that changes components could.
* *Media of a client without threads*, where one thread does everything, and
  tracks across a reconnect of the same `alloclient`.
* *Clocks that drift*: both advance alike in `ClockSync`.
* *Missing ranges* of the asset store and its variant without memory.
* *Parsing and printing* of intents, entities and interactions: data. The one
  conversion with consequences, revisions through an `int`, is in `AckOf`.
* *Null values in components*: a merge patch cannot set a member to null. The
  models have entities as a whole, where Absent is the null.
* *In the simulation*: poses besides one hand per avatar; constraints, grabbing with an
  offset, `actuate_on` with the name of an entity; animations of other properties than the
  transform, easing, reversal, and durations that are not positive; children of what is
  spawned, specs that bring a transform or animations, and changes of components other
  than `relationships`; following what never was an avatar, which is following nobody;
  the entity of the place itself; and the client's own simulation of its intent. Rotations: all
  transforms are translations along one axis. The cleanup after a client removes whole
  trees; that it may touch freed memory is in `PlaceServer` only.
* *In the place server*: children in a spec that name a parent or a track of their
  own; a spec with a member `components`, of which `state.c` uses memory it has
  freed; animations (in `Simulation`).
* *The job scheduler, the simple API, examples and bindings*: users of the
  library, or used by tests only.

## 7. Plan

The order follows importance: replication first, as everything a client sees
passes through it; then the parts with several actors (assets, threads), then
the sequential server.

Done: the modules, runs and theorems above, of which the client's media tracks,
the clock and the abstract channel came last.

What is left to model:

1. Merge patches with members inside an entity, so that null is distinguished
   from a missing member, on bounded worlds against RFC 7386 as a reference.
2. Constraints and `actuate_on` of a named entity in `Simulation`; the client's
   own simulation.
3. Missing ranges in `AssetStore`, against the set of unwritten bytes.
4. Interactions with their responses across the proxy.

Then, proving more:

1. The parts above, when they are modelled.
2. `GrabbedIsInHand`, from a lemma about chains of parents.
3. An abstract place, entities with connected owners that go in whole trees, as a
   specification that `PlaceServer` implements.
4. `ClientMedia` against an abstract list of tracks that is one difference behind.
