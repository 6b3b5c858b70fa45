---------------------------- MODULE ServerAssets ----------------------------
(***************************************************************************)
(* How the server finds an asset for its clients (src/src/server.c with    *)
(* the message handler of src/src/asset.c that server and client share).   *)
(*                                                                         *)
(* A client asks the server for an asset.  The server answers from its     *)
(* store; an asset it does not have becomes wanted and is requested from   *)
(* every other client.  The first client to answer becomes the source and  *)
(* sends the asset chunk by chunk; when its last chunk is stored the       *)
(* clients waiting for the asset get its first chunk and ask for the rest  *)
(* themselves.  Entries of different assets are independent, so one asset  *)
(* is modelled.  The channel is reliable and ordered (ENet).               *)
(***************************************************************************)
EXTENDS Integers, Sequences, FiniteSets

CONSTANTS
  Peer,       \* ENet peers: slots that later connections use again
  NoPeer,     \* NULL: no peer, or a chunk nobody wrote
  NotWanted,  \* there is no wanted_asset entry
  LastChunk,  \* the asset has the chunks 0 .. LastChunk
  MaxAsks,    \* BOUND: requests a client makes on one connection
  MaxJoins,   \* BOUND: connections made
  MaxPrunes   \* BOUND: times the store drops the asset

ASSUME AssetAssumption ==
  /\ NoPeer \notin Peer
  /\ LastChunk \in Nat

VARIABLES
  online,    \* server: connected peers (server->clients)
  stored,    \* server: the store has an entry for the asset
  origin,    \* server: the client that provided each stored chunk
  wanted,    \* server: the wanted_asset entry
  holding,   \* client: how it answers: it "has" or "lacks" the asset or is "silent"
  asking,    \* client: what its application knows of the asset
  asks,      \* client: requests made on this connection
  toServer,  \* messages of each client under way to the server
  toClient,  \* messages under way to each client
  joins,     \* connections made so far
  prunes     \* times the store dropped the asset

vars == <<online, stored, origin, wanted, holding, asking, asks, toServer,
          toClient, joins, prunes>>

Chunk == 0 .. LastChunk

Request(k) == [type |-> "request", chunk |-> k]
Data(k, p) == [type |-> "data", chunk |-> k, from |-> p]
Failure    == [type |-> "failure"]

Message ==
  {Request(k) : k \in Chunk} \cup {Failure}
    \cup {Data(k, p) : k \in Chunk, p \in Peer \cup {NoPeer}}

\* wanted_asset.  The order of its recipients makes no difference, how often
\* a peer is among them does.
WantedAsset ==
  [recipients : [Peer -> Nat], source : Peer \cup {NoPeer},
   remaining : SUBSET Peer]

IsWanted == wanted # NotWanted

Send(queues, p, m) == [queues EXCEPT ![p] = Append(@, m)]
Pop(queues, p)     == [queues EXCEPT ![p] = Tail(@)]

SendToAll(queues, S, m) ==
  [p \in Peer |-> IF p \in S THEN Append(queues[p], m) ELSE queues[p]]

Repeat(m, n) == [i \in 1 .. n |-> m]

\* A message to each recipient; one for a peer without connection is dropped.
SendToRecipients(queues, recipients, connected, m) ==
  [p \in Peer |-> IF p \in connected
                    THEN queues[p] \o Repeat(m, recipients[p])
                    ELSE queues[p]]

Init ==
  /\ online   = {}
  /\ stored   = FALSE
  /\ origin   = [k \in Chunk |-> NoPeer]
  /\ wanted   = NotWanted
  /\ holding  = [p \in Peer |-> "lacks"]
  /\ asking   = [p \in Peer |-> "idle"]
  /\ asks     = [p \in Peer |-> 0]
  /\ toServer = [p \in Peer |-> <<>>]
  /\ toClient = [p \in Peer |-> <<>>]
  /\ joins    = 0
  /\ prunes   = 0

-----------------------------------------------------------------------------
(* Connections.                                                            *)

\* handle_incoming_connection
Connect(p) ==
  /\ joins < MaxJoins
  /\ p \notin online
  /\ joins'  = joins + 1
  /\ online' = online \cup {p}
  /\ \E h \in {"has", "lacks", "silent"} : holding' = [holding EXCEPT ![p] = h]
  /\ UNCHANGED <<stored, origin, wanted, asking, asks, toServer, toClient,
                 prunes>>

\* MUTANT: a lost peer stays a potential source.
RemoveFromWantedRecipientOnly(w, p) ==
  [w EXCEPT !.recipients[p] = IF @ = 0 THEN 0 ELSE @ - 1]

\* MUTANT: a lost peer stays a recipient.
RemoveFromWantedSourceOnly(w, p) == [w EXCEPT !.remaining = @ \ {p}]

\* MUTANT: one recipient is removed without looking for the peer.
RemoveFromWantedUnseen(w, p) ==
  [w EXCEPT !.recipients[p] = @ - 1, !.remaining = @ \ {p}]

\* _remove_client_from_wanted: one occurrence among the recipients is removed.
RemoveFromWanted(w, p) ==
  [w EXCEPT !.recipients[p] = IF @ = 0 THEN 0 ELSE @ - 1,
            !.remaining     = @ \ {p}]

\* handle_lost_connection; what was under way on the connection is gone.
Disconnect(p) ==
  /\ p \in online
  /\ online'   = online \ {p}
  /\ toServer' = [toServer EXCEPT ![p] = <<>>]
  /\ holding'  = [holding EXCEPT ![p] = "lacks"]
  /\ asking'   = [asking EXCEPT ![p] = "idle"]
  /\ asks'     = [asks EXCEPT ![p] = 0]
  /\ LET left  == RemoveFromWanted(wanted, p)
         fails == IsWanted /\ left.remaining = {}
         dropped == [toClient EXCEPT ![p] = <<>>]
     IN /\ wanted' = IF IsWanted /\ ~fails THEN left ELSE NotWanted
        /\ toClient' = IF fails
                         THEN SendToRecipients(dropped, left.recipients,
                                               online \ {p}, Failure)
                         ELSE dropped
  /\ UNCHANGED <<stored, origin, joins, prunes>>

-----------------------------------------------------------------------------
(* The server's handling of a message (handle_assets).                     *)

\* The server takes message m from p's queue.
Takes(p, m) ==
  /\ p \in online
  /\ toServer[p] # <<>>
  /\ m = Head(toServer[p])
  /\ toServer' = Pop(toServer, p)

\* MUTANT: a client that asks for what is wanted already is not noted.
RequestMissingFirstOnly(p) ==
  IF IsWanted
    THEN UNCHANGED <<wanted, toClient>>
    ELSE /\ wanted' = [recipients |-> [q \in Peer |-> IF q = p THEN 1 ELSE 0],
                       source     |-> NoPeer,
                       remaining  |-> online \ {p}]
         /\ toClient' = SendToAll(toClient, online \ {p}, Request(0))

\* MUTANT: every request is broadcast.
RequestMissingAgain(p) ==
  /\ wanted' = [recipients |-> [q \in Peer |->
                  (IF IsWanted THEN wanted.recipients[q] ELSE 0)
                    + IF q = p THEN 1 ELSE 0],
                source     |-> IF IsWanted THEN wanted.source ELSE NoPeer,
                remaining  |-> online \ {p}]
  /\ toClient' = SendToAll(toClient, online \ {p}, Request(0))

\* _request_missing_asset: only what was not wanted yet is broadcast.
RequestMissing(p) ==
  IF IsWanted
    THEN /\ wanted' = [wanted EXCEPT !.recipients[p] = @ + 1]
         /\ UNCHANGED toClient
    ELSE /\ wanted' = [recipients |-> [q \in Peer |-> IF q = p THEN 1 ELSE 0],
                       source     |-> NoPeer,
                       remaining  |-> online \ {p}]
         /\ toClient' = SendToAll(toClient, online \ {p}, Request(0))

\* A request (_asset_request_bytes_func).  assetstore_read gives bytes of any
\* asset the store has an entry for, whether or not they were written.
HandleRequest(p) ==
  \E k \in Chunk :
    /\ Takes(p, Request(k))
    /\ IF stored
         THEN /\ toClient' = Send(toClient, p, Data(k, origin[k]))
              /\ UNCHANGED wanted
         ELSE RequestMissing(p)
    /\ UNCHANGED <<online, stored, origin, holding, asking, asks, joins,
                   prunes>>

\* MUTANT: whoever sends data is written.
AcceptsFromAnyone(p) == IsWanted

\* _asset_write_func: the first to deliver becomes the source.
Accepts(p) == IsWanted /\ wanted.source \in {NoPeer, p}

\* MUTANT: complete one chunk early.
IsLastButOne(k) == k + 1 >= LastChunk

\* "offset + length < total_length" in asset_handle is false.
IsLast(k) == k = LastChunk

\* MUTANT: only the first recipient is told that the asset is there.
ForwardToOne(chunks) ==
  /\ wanted' = NotWanted
  /\ \E r \in Peer :
       toClient' = SendToRecipients(toClient,
         [p \in Peer |-> IF p = r THEN wanted.recipients[p] ELSE 0],
         online, Data(0, chunks[0]))

\* _forward_wanted_asset: the first chunk goes to every recipient.
Forward(chunks) ==
  /\ wanted'   = NotWanted
  /\ toClient' = SendToRecipients(toClient, wanted.recipients, online,
                                  Data(0, chunks[0]))

\* Data: written, then the next chunk is requested or the asset forwarded;
\* anything from another client than the source is ignored.
HandleData(p) ==
  \E k \in Chunk :
    /\ Takes(p, Data(k, p))
    /\ IF Accepts(p)
         THEN LET chunks == [origin EXCEPT ![k] = p]
              IN /\ stored' = TRUE
                 /\ origin' = chunks
                 /\ IF IsLast(k)
                      THEN Forward(chunks)
                      ELSE /\ wanted' = [wanted EXCEPT !.source = p]
                           /\ toClient' = Send(toClient, p, Request(k + 1))
         ELSE UNCHANGED <<stored, origin, wanted, toClient>>
    /\ UNCHANGED <<online, holding, asking, asks, joins, prunes>>

\* MUTANT: the first client without the asset decides.
NobodyLeftFirst(remaining) == TRUE

NobodyLeft(remaining) == remaining = {}

\* Failure (_asset_state_callback_func): once the last potential source has
\* failed, so does the wanted asset.
HandleFailure(p) ==
  /\ Takes(p, Failure)
  /\ LET remaining == wanted.remaining \ {p}
     IN IF ~IsWanted
          THEN UNCHANGED <<wanted, toClient>>
          ELSE IF NobodyLeft(remaining)
            THEN /\ wanted'   = NotWanted
                 /\ toClient' = SendToRecipients(toClient, wanted.recipients,
                                                 online, Failure)
            ELSE /\ wanted' = [wanted EXCEPT !.remaining = remaining]
                 /\ UNCHANGED toClient
  /\ UNCHANGED <<online, stored, origin, holding, asking, asks, joins, prunes>>

Serve(p) == HandleRequest(p) \/ HandleData(p) \/ HandleFailure(p)

\* _lru_prune, called for another asset, drops this one.
Prune ==
  /\ stored
  /\ prunes < MaxPrunes
  /\ prunes' = prunes + 1
  /\ stored' = FALSE
  /\ origin' = [k \in Chunk |-> NoPeer]
  /\ UNCHANGED <<online, wanted, holding, asking, asks, toServer, toClient,
                 joins>>

-----------------------------------------------------------------------------
(* The client.                                                             *)

\* alloclient_asset_request
Ask(p) ==
  /\ p \in online
  /\ asks[p] < MaxAsks
  /\ asks'     = [asks EXCEPT ![p] = @ + 1]
  /\ asking'   = [asking EXCEPT ![p] = "waiting"]
  /\ toServer' = Send(toServer, p, Request(0))
  /\ UNCHANGED <<online, stored, origin, wanted, holding, toClient, joins,
                 prunes>>

\* The client takes message m from its queue.
Gets(p, m) ==
  /\ p \in online
  /\ toClient[p] # <<>>
  /\ m = Head(toClient[p])
  /\ toClient' = Pop(toClient, p)

\* A request of the server: the application answers it or does not.
AnswerRequest(p) ==
  \E k \in Chunk :
    /\ Gets(p, Request(k))
    /\ toServer' = CASE holding[p] = "has"    -> Send(toServer, p, Data(k, p))
                     [] holding[p] = "lacks"  -> Send(toServer, p, Failure)
                     [] holding[p] = "silent" -> toServer
    /\ UNCHANGED <<online, stored, origin, wanted, holding, asking, asks,
                   joins, prunes>>

\* Data: the client asks for the next chunk until it has the last one.
ReceiveData(p) ==
  \E k \in Chunk, q \in Peer \cup {NoPeer} :
    /\ Gets(p, Data(k, q))
    /\ IF IsLast(k)
         THEN /\ asking' = [asking EXCEPT ![p] = "got"]
              /\ UNCHANGED toServer
         ELSE /\ toServer' = Send(toServer, p, Request(k + 1))
              /\ UNCHANGED asking
    /\ UNCHANGED <<online, stored, origin, wanted, holding, asks, joins,
                   prunes>>

ReceiveFailure(p) ==
  /\ Gets(p, Failure)
  /\ asking' = [asking EXCEPT ![p] = "refused"]
  /\ UNCHANGED <<online, stored, origin, wanted, holding, asks, toServer,
                 joins, prunes>>

Receive(p) == AnswerRequest(p) \/ ReceiveData(p) \/ ReceiveFailure(p)

Next ==
  \/ \E p \in Peer : \/ Connect(p)
                     \/ Disconnect(p)
                     \/ Ask(p)
                     \/ Serve(p)
                     \/ Receive(p)
  \/ Prune

Spec == Init /\ [][Next]_vars

\* ENet delivers, the server's loop serves every client and clients poll.
Fairness == \A p \in Peer : WF_vars(Serve(p)) /\ WF_vars(Receive(p))

FairSpec == Spec /\ Fairness

-----------------------------------------------------------------------------
(* Properties.                                                             *)

\* How many messages of a queue have one of these types.
Count(queue, types) ==
  Cardinality({i \in DOMAIN queue : queue[i].type \in types})

\* What the server has asked p for and has not handled the answer of.
Outstanding(p) ==
  Count(toClient[p], {"request"}) + Count(toServer[p], {"data", "failure"})

\* A message of one of these types is in the queue.
Has(queue, types) == \E i \in 1 .. Len(queue) : queue[i].type \in types

\* Every variable has its type.
TypeOK ==
  /\ online \subseteq Peer
  /\ stored \in BOOLEAN
  /\ origin \in [Chunk -> Peer \cup {NoPeer}]
  /\ wanted \in WantedAsset \cup {NotWanted}
  /\ holding \in [Peer -> {"has", "lacks", "silent"}]
  /\ asking \in [Peer -> {"idle", "waiting", "got", "refused"}]
  /\ asks \in [Peer -> Nat]
  /\ toServer \in [Peer -> Seq(Message)]
  /\ toClient \in [Peer -> Seq(Message)]
  /\ joins \in Nat
  /\ prunes \in Nat

\* No client that has left is waited for: without this the wanted asset could
\* never fail (_remove_client_from_wanted against _request_missing_asset).
SourcesConnected == IsWanted => wanted.remaining \subseteq online

\* No client that has left is among the recipients, so that nothing is sent to
\* whoever gets its ENet peer next.  It needs clients that ask once.
RecipientsConnected ==
  IsWanted => \A p \in Peer : wanted.recipients[p] > 0 => p \in online

\* A waiting client is never forgotten: its request is on its way, or it is
\* among the recipients, or an answer is on its way.
NoRequestForgotten ==
  \A p \in online :
    asking[p] = "waiting" =>
      \/ Has(toServer[p], {"request"})
      \/ IsWanted /\ wanted.recipients[p] > 0
      \/ Has(toClient[p], {"data", "failure"})

\* The server never has two requests for the asset at one client: nobody sends
\* the asset twice however many clients ask for it.
OneRequestPerSource == \A p \in Peer : Outstanding(p) <= 1

\* The server does not give up on an asset that a client may still deliver:
\* while a request to it is open, it is among the potential sources, unless
\* the store has got the asset from another.
PatientServer ==
  \A p \in online :
    Outstanding(p) > 0 =>
      \/ IsWanted /\ p \in wanted.remaining
      \/ stored

\* The chunks in the store come from one client, however many answer
\* (wanted->source): two clients' files are never mixed.
OneOrigin ==
  \A k, l \in Chunk :
    origin[k] = origin[l] \/ origin[k] = NoPeer \/ origin[l] = NoPeer

\* Recipients are told of an asset (_forward_wanted_asset) when the store has
\* all of it: the code infers it from the end of the last chunk alone.
AvailableIsComplete ==
  [][\A p \in Peer :
       HandleData(p) /\ IsWanted /\ wanted' = NotWanted
         => \A k \in Chunk : origin'[k] # NoPeer]_vars

\* Only bytes that somebody wrote are sent to a client (assetstore.h:28).
ServedIsWritten ==
  \A p \in Peer : \A i \in DOMAIN toClient[p] :
    toClient[p][i].type = "data" => toClient[p][i].from # NoPeer

\* What the server waits for will not come: it asked nobody, or it asked a
\* client that does not answer, or its source left.
Stuck ==
  /\ IsWanted
  /\ \/ wanted.remaining = {}
     \/ \E p \in wanted.remaining : holding[p] = "silent"
     \/ wanted.source # NoPeer /\ wanted.source \notin wanted.remaining

\* A client that asks gets the asset or learns that nobody has it, unless it
\* leaves or the server is stuck: no other order of answers, departures and
\* later requests leaves it waiting.
AnsweredUnlessStuck ==
  \A p \in Peer : asking[p] = "waiting" ~> (asking[p] # "waiting" \/ Stuck)

=============================================================================
