----------------------------- MODULE StateSync -----------------------------
(***************************************************************************)
(* State replication between a place and its clients.                      *)
(*                                                                         *)
(* The server (src/src/standalone_server.cpp) publishes a new revision of   *)
(* the world at each heartbeat and sends every connected client a delta    *)
(* from the revision that client acknowledged last.  A client              *)
(* (src/src/client/client.c) polls its socket, applies the newest delta it  *)
(* finds there and acknowledges the result in the intents it sends.  Both  *)
(* directions are unreliable: a packet can be lost, but a packet never     *)
(* arrives after one that was sent later.                                  *)
(***************************************************************************)
EXTENDS StateHistory

CONSTANTS
  Client,       \* clients, each a sequence of connections
  InitWorld,    \* the world of revision 1, which is never sent
  IntMax,       \* the largest cJSON valueint, 2^31 - 1 in the code
  MaxRev,       \* BOUND: revisions the server publishes
  MaxInFlight   \* BOUND: packets under way in one direction of a connection

ASSUME SyncAssumption ==
  /\ InitWorld \in World
  /\ IntMax \in Nat
  /\ MaxRev \in Nat
  /\ MaxInFlight \in Nat \ {0}

VARIABLES
  rev,      \* server: serv->state.revision
  hist,     \* server: the static "hist"
  cache,    \* server: the static diffcache of allo_delta_compute
  pending,  \* server: clients the running broadcast has not reached yet
  online,   \* the connected clients (serv->clients)
  acked,    \* server: ack_state_rev of each client's last intent
  chist,    \* client: its history
  mirror,   \* client: how many entries _state.entities has for an entity
  down,     \* deltas under way to a client
  up,       \* acknowledgements under way to the server
  log       \* the world published as each revision (auxiliary)

serverVars == <<rev, hist, cache, pending, acked>>
clientVars == <<chist, mirror>>
vars == <<serverVars, online, clientVars, down, up, log>>

-----------------------------------------------------------------------------

NoEntry == [from |-> -1, to |-> -1, delta |-> SetDelta(NoState)]

\* A packet handed to the network is lost or follows those under way, of which
\* the network then keeps the newest MaxInFlight.
Offer(queue, packet) ==
  {queue,
   Append(IF Len(queue) < MaxInFlight THEN queue ELSE Tail(queue), packet)}

\* The revision a client acknowledges: that of its latest state, as an int.
AckOf(c) == IF chist[c].latest > IntMax THEN IntMax ELSE chist[c].latest

NextRev == IF rev + 1 = RollAt THEN 0 ELSE rev + 1

Init ==
  /\ rev     = 1
  /\ hist    = EmptyHistory
  /\ cache   = [s \in Slots |-> NoEntry]
  /\ pending = {}
  /\ online  = {}
  /\ acked   = [c \in Client |-> 0]
  /\ chist   = [c \in Client |-> EmptyHistory]
  /\ mirror  = [c \in Client |-> [e \in Entity |-> 0]]
  /\ down    = [c \in Client |-> <<>>]
  /\ up      = [c \in Client |-> <<>>]
  /\ log     = [r \in Rev |-> InitWorld]

-----------------------------------------------------------------------------
(* The server.  It is single-threaded: between the start of a broadcast    *)
(* and its last send it handles no network event.                          *)

\* broadcast_server_state up to its loop: the world, changed by interactions
\* and simulation since the last revision, is published as the next one.
Publish(w) ==
  /\ pending = {}
  /\ rev < MaxRev
  /\ rev'     = NextRev
  /\ hist'    = Insert(hist, [rev |-> NextRev, world |-> w])
  /\ log'     = [log EXCEPT ![NextRev] = w]
  /\ pending' = online
  /\ UNCHANGED <<cache, online, acked, clientVars, down, up>>

\* MUTANT: a cached delta to an earlier revision is used again.
CacheHitAnyTo(from) ==
  LET entry == cache[Slot(from)]
  IN  entry.to # -1 /\ entry.from = from

CacheHit(from) ==
  LET entry == cache[Slot(from)]
  IN  entry.to = hist.latest /\ entry.from = from

\* allo_delta_compute: the cached delta if it has the same ends.
DeltaFor(from) ==
  IF CacheHit(from) THEN cache[Slot(from)].delta ELSE ComputeDelta(hist, from)

\* One iteration of the broadcast loop.
SendDelta(c) ==
  /\ c \in pending
  /\ pending' = pending \ {c}
  /\ cache' = [cache EXCEPT ![Slot(acked[c])] =
                 [from |-> acked[c], to |-> hist.latest, delta |-> DeltaFor(acked[c])]]
  /\ \E queue \in Offer(down[c], DeltaFor(acked[c])) :
        down' = [down EXCEPT ![c] = queue]
  /\ UNCHANGED <<rev, hist, online, acked, clientVars, up, log>>

\* An intent arrives and replaces the client's previous one.
ReceiveIntent(c) ==
  /\ pending = {}
  /\ c \in online
  /\ up[c] # <<>>
  /\ acked' = [acked EXCEPT ![c] = Head(up[c])]
  /\ up'    = [up EXCEPT ![c] = Tail(@)]
  /\ UNCHANGED <<rev, hist, cache, pending, online, clientVars, down, log>>

\* MUTANT: the server keeps the intent of the client's previous connection.
ConnectKeepsIntent(c) ==
  /\ pending = {}
  /\ c \notin online
  /\ online' = online \cup {c}
  /\ chist'  = [chist EXCEPT ![c] = EmptyHistory]
  /\ mirror' = [mirror EXCEPT ![c] = [e \in Entity |-> 0]]
  /\ UNCHANGED <<rev, hist, cache, pending, acked, down, up, log>>

\* A fresh client process connects; the server gives it a fresh intent.
Connect(c) ==
  /\ pending = {}
  /\ c \notin online
  /\ online' = online \cup {c}
  /\ acked'  = [acked EXCEPT ![c] = 0]
  /\ chist'  = [chist EXCEPT ![c] = EmptyHistory]
  /\ mirror' = [mirror EXCEPT ![c] = [e \in Entity |-> 0]]
  /\ UNCHANGED <<rev, hist, cache, pending, down, up, log>>

\* The connection ends, by either side or a timeout; what was under way on it
\* is never delivered to a later connection.
Disconnect(c) ==
  /\ pending = {}
  /\ c \in online
  /\ online' = online \ {c}
  /\ down'   = [down EXCEPT ![c] = <<>>]
  /\ up'     = [up EXCEPT ![c] = <<>>]
  /\ UNCHANGED <<rev, hist, cache, pending, acked, clientVars, log>>

-----------------------------------------------------------------------------
(* The client.                                                             *)

\* alloclient_parse_statediff.  A delta that cannot be applied is dropped
\* without a trace: the handler that would reset the acknowledgement is not
\* called for it.
ParseStatediff(c, d) ==
  IF CanApply(chist[c], d)
    THEN /\ chist'  = [chist EXCEPT ![c] = Insert(@, Applied(@, d))]
         /\ mirror' = [mirror EXCEPT ![c] =
              [e \in Entity |->
                 @[e] + (IF e \in NewEntities(chist[c], d) THEN 1 ELSE 0)
                      - (IF e \in DeletedEntities(chist[c], d) THEN 1 ELSE 0)]]
    ELSE UNCHANGED clientVars

\* MUTANT: the oldest delta is parsed and the newer ones are skipped.
ReceiveDeltasFirst(c, n) ==
  /\ down' = [down EXCEPT ![c] = SubSeq(@, n + 1, Len(@))]
  /\ IF n = 0 THEN UNCHANGED clientVars ELSE ParseStatediff(c, down[c][1])

\* The poll takes the first n deltas out of the socket and parses the last.
ReceiveDeltas(c, n) ==
  /\ down' = [down EXCEPT ![c] = SubSeq(@, n + 1, Len(@))]
  /\ IF n = 0 THEN UNCHANGED clientVars ELSE ParseStatediff(c, down[c][n])

\* alloclient_poll: an intent if one is due, then whatever has arrived.
Poll(c) ==
  /\ c \in online
  /\ \E queue \in Offer(up[c], AckOf(c)) : up' = [up EXCEPT ![c] = queue]
  /\ \E n \in 0 .. Len(down[c]) : ReceiveDeltas(c, n)
  /\ UNCHANGED <<serverVars, online, log>>

-----------------------------------------------------------------------------

Next ==
  \/ \E w \in World : Publish(w)
  \/ \E c \in Client :
        \/ SendDelta(c)
        \/ ReceiveIntent(c)
        \/ Connect(c)
        \/ Disconnect(c)
        \/ Poll(c)

Spec == Init /\ [][Next]_vars

-----------------------------------------------------------------------------
(* Properties.                                                             *)

\* The types of all variables.
TypeOK ==
  /\ rev \in Rev
  /\ hist \in History
  /\ cache \in [Slots -> [from : Rev \cup {-1}, to : Rev \cup {-1},
                          delta : Delta \cup {SetDelta(NoState)}]]
  /\ online \in SUBSET Client
  /\ pending \in SUBSET online
  /\ acked \in [Client -> Rev]
  /\ chist \in [Client -> History]
  /\ mirror \in [Client -> [Entity -> Int]]
  /\ down \in [Client -> Seq(Delta)]
  /\ up \in [Client -> Seq(Rev)]
  /\ log \in [Rev -> World]

\* A patch the server sends can be merged by the client it is sent to: as long
\* as it is under way the client keeps the state it starts from, whatever
\* arrives or is lost before it (delta.h:24, "a client, who can later merge it
\* with their old_revision").
MergeBaseAvailable ==
  \A c \in Client : \A i \in DOMAIN down[c] : CanApply(chist[c], down[c][i])

\* Every state a client holds is exactly the world the server published under
\* that revision, whichever chain of sets and patches produced it.
StatesArePublished ==
  \A c \in Client, s \in Slots :
    LET snap == chist[c].slot[s]
    IN  snap # NoState => snap.world = log[snap.rev]

\* The server never computes a patch from the state it is publishing to that
\* same state: it would be empty and fail the assertion "should never generate a
\* COMPLETELY empty merge" (delta.c:41).
PatchNotEmpty == \A c \in pending : acked[c] # hist.latest

\* A delta under way is newer than the client's state and they arrive in
\* order.  Otherwise a client could compute the merge patch between two equal
\* states and fail the same assertion.
DeltasMoveForward ==
  \A c \in Client : \A i \in DOMAIN down[c] :
    /\ chist[c].latest < down[c][i].rev
    /\ \A j \in 1 .. (i - 1) : down[c][j].rev < down[c][i].rev

\* The entity list a client builds out of the reported changes has exactly
\* one entry for each entity of its latest state: nothing is created twice,
\* and nothing is deleted that it does not have (a NULL dereference in
\* _handle_parsed_statediff).
MirrorExact ==
  \A c \in online, e \in Entity :
    mirror[c][e] = IF GetLatest(chist[c]).world[e] = Absent THEN 0 ELSE 1

\* The static cache never hands out a delta other than the one that would be
\* computed now.
CacheTransparent ==
  \A from \in Rev : CacheHit(from) => cache[Slot(from)].delta = ComputeDelta(hist, from)

\* While it stays connected, a client's state never goes back in time.
NeverBackwards ==
  [][\A c \in online \cap online' : chist[c].latest <= chist'[c].latest]_vars

\* What the server believes a client has is never ahead of the client, and the
\* client never acknowledges a revision it did not apply.
AcksTruthful ==
  \A c \in online :
    /\ acked[c] <= chist[c].latest
    /\ \A i \in DOMAIN up[c] : up[c][i] <= chist[c].latest
    /\ AckOf(c) # 0 => Holds(chist[c], AckOf(c))

-----------------------------------------------------------------------------
(* Liveness.  A client polls for ever and each poll takes what has arrived; *)
(* the network and the server owe it nothing.                              *)

Receives(c) == Poll(c) /\ down'[c] # down[c]

FairSpec == Spec /\ \A c \in Client : WF_vars(Receives(c))

\* No delta is wasted: once one is under way, and unless the connection ends,
\* the client gets to its revision or a later one, also when deltas before it
\* and acknowledgements were lost, when the poll skips it for a newer one, or
\* when it was computed from a state the client has long left behind.
DeltasReachClient ==
  \A c \in Client, r \in Rev :
    (c \in online /\ \E i \in DOMAIN down[c] : down[c][i].rev = r)
      ~> (c \notin online \/ chist[c].latest >= r)
=============================================================================
