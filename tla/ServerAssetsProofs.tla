------------------------ MODULE ServerAssetsProofs --------------------------
(***************************************************************************)
(* The safety of the server's asset search, proved for any number of       *)
(* peers, chunks and requests.                                             *)
(***************************************************************************)
EXTENDS ServerAssets, SequenceTheorems, FiniteSetTheorems, TLAPS

\* NotWanted is no entry, and the bounds are numbers.
ASSUME ProofAssumption ==
  /\ NotWanted \notin WantedAsset
  /\ MaxAsks \in Nat /\ MaxJoins \in Nat /\ MaxPrunes \in Nat

-----------------------------------------------------------------------------
(* The inductive invariant.                                                *)

\* While the asset is wanted, the store has only what its source provided.
SourceIsOrigin ==
  IsWanted => \A k \in Chunk : origin[k] \in {NoPeer, wanted.source}

\* What the store has no entry for, nobody wrote.
UnstoredUnwritten == ~stored => \A k \in Chunk : origin[k] = NoPeer

\* A client without connection waits for nothing.
OfflineIdle == \A p \in Peer \ online : asking[p] = "idle"

IInv ==
  /\ TypeOK
  /\ SourcesConnected
  /\ SourceIsOrigin
  /\ UnstoredUnwritten
  /\ OneOrigin
  /\ OfflineIdle
  /\ NoRequestForgotten

-----------------------------------------------------------------------------
(* Queues.                                                                 *)

\* Messages are what the helpers say they are.
LEMMA MessageKinds ==
  /\ Failure \in Message
  /\ \A k \in Chunk : Request(k) \in Message
  /\ \A k \in Chunk, p \in Peer \cup {NoPeer} : Data(k, p) \in Message
  /\ Failure.type = "failure"
  /\ \A k \in Chunk : Request(k).type = "request"
  /\ \A k \in Chunk, p \in Peer \cup {NoPeer} : Data(k, p).type = "data"
  /\ 0 \in Chunk
  /\ \A k \in Chunk : ~IsLast(k) => k + 1 \in Chunk
<1>1. Failure \in Message
  BY DEF Message
<1>2. \A k \in Chunk : Request(k) \in Message
  BY DEF Message
<1>3. \A k \in Chunk, p \in Peer \cup {NoPeer} : Data(k, p) \in Message
  BY DEF Message
<1>4. 0 \in Chunk /\ \A k \in Chunk : ~IsLast(k) => k + 1 \in Chunk
  BY AssetAssumption DEF Chunk, IsLast
<1> QED BY <1>1, <1>2, <1>3, <1>4 DEF Failure, Request, Data

\* Appending a message adds its type to what the queue has.
LEMMA HasAppend ==
  ASSUME NEW q \in Seq(Message), NEW m \in Message, NEW T
  PROVE  /\ Append(q, m) \in Seq(Message)
         /\ Has(q, T) => Has(Append(q, m), T)
         /\ m.type \in T => Has(Append(q, m), T)
BY DEF Has

\* Taking a message of another type away leaves those of types T.
LEMMA HasTail ==
  ASSUME NEW q \in Seq(Message), q # <<>>, NEW T
  PROVE  /\ Tail(q) \in Seq(Message)
         /\ Head(q).type \notin T /\ Has(q, T) => Has(Tail(q), T)
<1>1. Tail(q) \in Seq(Message) /\ Len(Tail(q)) = Len(q) - 1
      /\ \A i \in 1 .. Len(Tail(q)) : Tail(q)[i] = q[i + 1]
  BY HeadTailProperties
<1>2. ASSUME Head(q).type \notin T, Has(q, T)
      PROVE  Has(Tail(q), T)
  <2>1. PICK i \in 1 .. Len(q) : q[i].type \in T
    BY <1>2 DEF Has
  <2>2. i # 1
    BY <1>2, <2>1
  <2>3. i - 1 \in 1 .. Len(Tail(q)) /\ Tail(q)[i - 1] = q[i]
    BY <1>1, <2>1, <2>2
  <2> QED BY <2>1, <2>3 DEF Has
<1> QED BY <1>1, <1>2

\* A queue followed by n times a message.
LEMMA HasRepeat ==
  ASSUME NEW q \in Seq(Message), NEW m \in Message, NEW n \in Nat, NEW T
  PROVE  /\ q \o Repeat(m, n) \in Seq(Message)
         /\ Has(q, T) => Has(q \o Repeat(m, n), T)
         /\ m.type \in T /\ n > 0 => Has(q \o Repeat(m, n), T)
<1>1. Repeat(m, n) \in Seq(Message) /\ Len(Repeat(m, n)) = n
      /\ \A i \in 1 .. n : Repeat(m, n)[i] = m
  BY DEF Repeat
<1>2. /\ q \o Repeat(m, n) \in Seq(Message)
      /\ Len(q \o Repeat(m, n)) = Len(q) + n
      /\ \A i \in 1 .. Len(q) : (q \o Repeat(m, n))[i] = q[i]
      /\ \A i \in Len(q) + 1 .. Len(q) + n :
           (q \o Repeat(m, n))[i] = Repeat(m, n)[i - Len(q)]
  BY <1>1, ConcatProperties
<1>3. n > 0 => (q \o Repeat(m, n))[Len(q) + 1] = m
  BY <1>1, <1>2
<1> QED BY <1>2, <1>3 DEF Has

\* The queue operators keep queues of messages.
LEMMA SendType ==
  ASSUME NEW queues \in [Peer -> Seq(Message)], NEW m \in Message, NEW p \in Peer
  PROVE  Send(queues, p, m) \in [Peer -> Seq(Message)]
BY DEF Send

LEMMA PopType ==
  ASSUME NEW queues \in [Peer -> Seq(Message)], NEW p \in Peer, queues[p] # <<>>
  PROVE  Pop(queues, p) \in [Peer -> Seq(Message)]
BY HasTail DEF Pop

LEMMA ToAllType ==
  ASSUME NEW queues \in [Peer -> Seq(Message)], NEW m \in Message, NEW S
  PROVE  SendToAll(queues, S, m) \in [Peer -> Seq(Message)]
BY DEF SendToAll

LEMMA ToRecipientsType ==
  ASSUME NEW queues \in [Peer -> Seq(Message)], NEW m \in Message,
         NEW r \in [Peer -> Nat], NEW S
  PROVE  SendToRecipients(queues, r, S, m) \in [Peer -> Seq(Message)]
BY HasRepeat DEF SendToRecipients

-----------------------------------------------------------------------------
(* Types.                                                                  *)

LEMMA WantedType ==
  /\ TypeOK /\ IsWanted => wanted \in WantedAsset
  /\ TypeOK /\ IsWanted =>
       /\ wanted.recipients \in [Peer -> Nat]
       /\ wanted.source \in Peer \cup {NoPeer}
       /\ wanted.remaining \in SUBSET Peer
BY DEF TypeOK, IsWanted, WantedAsset

\* The entry that _request_missing_asset leaves.
LEMMA RequestMissingTyped ==
  ASSUME TypeOK, NEW p \in Peer, RequestMissing(p)
  PROVE  wanted' \in WantedAsset /\ toClient' \in [Peer -> Seq(Message)]
<1>1. CASE IsWanted
  <2>1. wanted.recipients[p] + 1 \in Nat
    BY <1>1, WantedType
  <2>2. wanted' \in WantedAsset
    BY <1>1, <2>1, WantedType DEF RequestMissing, WantedAsset
  <2> QED BY <1>1, <2>2 DEF RequestMissing, TypeOK
<1>2. CASE ~IsWanted
  <2>1. wanted' \in WantedAsset
    BY <1>2 DEF RequestMissing, WantedAsset, TypeOK
  <2>2. toClient' \in [Peer -> Seq(Message)]
    <3>1. toClient' = SendToAll(toClient, online \ {p}, Request(0))
      BY <1>2 DEF RequestMissing
    <3>2. Request(0) \in Message /\ toClient \in [Peer -> Seq(Message)]
      BY MessageKinds DEF TypeOK
    <3> QED BY <3>1, <3>2, ToAllType
  <2> QED BY <2>1, <2>2
<1> QED BY <1>1, <1>2

\* A lost client leaves an entry.
LEMMA RemoveTyped ==
  ASSUME TypeOK, IsWanted, NEW p \in Peer
  PROVE  /\ RemoveFromWanted(wanted, p) \in WantedAsset
         /\ RemoveFromWanted(wanted, p).recipients \in [Peer -> Nat]
         /\ RemoveFromWanted(wanted, p).source = wanted.source
         /\ RemoveFromWanted(wanted, p).remaining = wanted.remaining \ {p}
         /\ \A q \in Peer \ {p} :
              RemoveFromWanted(wanted, p).recipients[q] = wanted.recipients[q]
<1>1. wanted.recipients[p] # 0 => wanted.recipients[p] - 1 \in Nat
  BY WantedType
<1> QED BY <1>1, WantedType DEF RemoveFromWanted, WantedAsset

LEMMA TypeInit == Init => TypeOK
BY AssetAssumption DEF Init, TypeOK, Chunk

LEMMA TypeStep == TypeOK /\ [Next]_vars => TypeOK'
<1> SUFFICES ASSUME TypeOK, [Next]_vars
             PROVE  TypeOK'
  OBVIOUS
<1>1. ASSUME NEW p \in Peer, Connect(p)
      PROVE  TypeOK'
  BY <1>1 DEF TypeOK, Connect
<1>2. ASSUME NEW p \in Peer, Disconnect(p)
      PROVE  TypeOK'
  <2>1. wanted' \in WantedAsset \cup {NotWanted}
    BY <1>2, RemoveTyped DEF Disconnect
  <2>2. [toClient EXCEPT ![p] = <<>>] \in [Peer -> Seq(Message)]
    BY DEF TypeOK
  <2>3. toClient' \in [Peer -> Seq(Message)]
    <3>1. CASE IsWanted /\ RemoveFromWanted(wanted, p).remaining = {}
      <4>1. RemoveFromWanted(wanted, p).recipients \in [Peer -> Nat]
        BY <3>1, RemoveTyped
      <4> QED BY <1>2, <3>1, <4>1, <2>2, ToRecipientsType, MessageKinds DEF Disconnect
    <3>2. CASE ~(IsWanted /\ RemoveFromWanted(wanted, p).remaining = {})
      BY <1>2, <3>2, <2>2 DEF Disconnect
    <3> QED BY <3>1, <3>2
  <2>4. toServer' \in [Peer -> Seq(Message)]
    BY <1>2 DEF Disconnect, TypeOK
  <2> QED BY <1>2, <2>1, <2>3, <2>4 DEF Disconnect, TypeOK
<1>3. ASSUME NEW p \in Peer, Ask(p)
      PROVE  TypeOK'
  <2>1. toServer' \in [Peer -> Seq(Message)]
    BY <1>3, SendType, MessageKinds DEF Ask, TypeOK
  <2> QED BY <1>3, <2>1 DEF Ask, TypeOK
<1>4. ASSUME NEW p \in Peer, HandleRequest(p)
      PROVE  TypeOK'
  <2>1. PICK k \in Chunk :
          /\ Takes(p, Request(k))
          /\ IF stored
               THEN /\ toClient' = Send(toClient, p, Data(k, origin[k]))
                    /\ UNCHANGED wanted
               ELSE RequestMissing(p)
    BY <1>4 DEF HandleRequest
  <2>2. toServer' \in [Peer -> Seq(Message)]
    BY <2>1, HasTail DEF Takes, TypeOK, Pop
  <2>3. origin[k] \in Peer \cup {NoPeer}
    BY DEF TypeOK
  <2>4. stored => toClient' \in [Peer -> Seq(Message)]
    <3>1. Data(k, origin[k]) \in Message /\ toClient \in [Peer -> Seq(Message)]
      BY <2>3, MessageKinds DEF TypeOK
    <3> QED BY <2>1, <3>1, SendType
  <2>5. /\ toClient' \in [Peer -> Seq(Message)]
        /\ wanted' \in WantedAsset \cup {NotWanted}
    BY <2>1, <2>4, RequestMissingTyped DEF TypeOK
  <2> QED BY <1>4, <2>2, <2>5 DEF HandleRequest, TypeOK
<1>5. ASSUME NEW p \in Peer, HandleData(p)
      PROVE  TypeOK'
  <2>1. PICK k \in Chunk :
          /\ Takes(p, Data(k, p))
          /\ IF Accepts(p)
               THEN /\ stored' = TRUE
                    /\ origin' = [origin EXCEPT ![k] = p]
                    /\ IF IsLast(k)
                         THEN Forward([origin EXCEPT ![k] = p])
                         ELSE /\ wanted' = [wanted EXCEPT !.source = p]
                              /\ toClient' = Send(toClient, p, Request(k + 1))
               ELSE UNCHANGED <<stored, origin, wanted, toClient>>
    BY <1>5 DEF HandleData
  <2>2. toServer' \in [Peer -> Seq(Message)]
    BY <2>1, HasTail DEF Takes, TypeOK, Pop
  <2>3. stored' \in BOOLEAN /\ origin' \in [Chunk -> Peer \cup {NoPeer}]
    BY <2>1 DEF TypeOK
  <2>4. CASE Accepts(p) /\ IsLast(k)
    <3>1. [origin EXCEPT ![k] = p][0] \in Peer \cup {NoPeer}
      BY MessageKinds DEF TypeOK
    <3>2. toClient' \in [Peer -> Seq(Message)]
      <4>1. Data(0, [origin EXCEPT ![k] = p][0]) \in Message
        BY <3>1, MessageKinds
      <4>2. wanted.recipients \in [Peer -> Nat] /\ online \in SUBSET Peer
        BY <2>4, WantedType DEF Accepts, TypeOK
      <4>3. toClient' = SendToRecipients(toClient, wanted.recipients, online,
                                         Data(0, [origin EXCEPT ![k] = p][0]))
        BY <2>1, <2>4 DEF Forward
      <4>4. toClient \in [Peer -> Seq(Message)]
        BY DEF TypeOK
      <4> QED BY <4>1, <4>2, <4>3, <4>4, ToRecipientsType
    <3>3. wanted' = NotWanted
      BY <2>1, <2>4 DEF Forward
    <3> QED BY <1>5, <2>2, <2>3, <3>2, <3>3 DEF HandleData, TypeOK
  <2>5. CASE Accepts(p) /\ ~IsLast(k)
    <3>1. toClient' \in [Peer -> Seq(Message)]
      <4>1. toClient' = Send(toClient, p, Request(k + 1))
        BY <2>1, <2>5
      <4>2. k + 1 \in Chunk /\ Request(k + 1) \in Message
        BY <2>5, MessageKinds
      <4> QED BY <4>1, <4>2, SendType DEF TypeOK
    <3>2. wanted' \in WantedAsset
      BY <2>1, <2>5, WantedType DEF Accepts, WantedAsset
    <3> QED BY <1>5, <2>2, <2>3, <3>1, <3>2 DEF HandleData, TypeOK
  <2>6. CASE ~Accepts(p)
    BY <1>5, <2>1, <2>2, <2>6 DEF HandleData, TypeOK
  <2> QED BY <2>4, <2>5, <2>6
<1>6. ASSUME NEW p \in Peer, HandleFailure(p)
      PROVE  TypeOK'
  <2>1. toServer' \in [Peer -> Seq(Message)]
    BY <1>6, HasTail DEF HandleFailure, Takes, TypeOK, Pop
  <2>2. IsWanted => [wanted EXCEPT !.remaining = wanted.remaining \ {p}] \in WantedAsset
    BY WantedType DEF WantedAsset
  <2>3. IsWanted => SendToRecipients(toClient, wanted.recipients, online, Failure)
                      \in [Peer -> Seq(Message)]
    BY ToRecipientsType, MessageKinds, WantedType DEF TypeOK
  <2>4. /\ wanted' \in WantedAsset \cup {NotWanted}
        /\ toClient' \in [Peer -> Seq(Message)]
    BY <1>6, <2>2, <2>3 DEF HandleFailure, TypeOK
  <2> QED BY <1>6, <2>1, <2>4 DEF HandleFailure, TypeOK
<1>7. ASSUME NEW p \in Peer, Receive(p)
      PROVE  TypeOK'
  <2>1. toClient' \in [Peer -> Seq(Message)]
    <3>1. toClient[p] # <<>> /\ toClient' = Pop(toClient, p)
      BY <1>7 DEF Receive, AnswerRequest, ReceiveData, ReceiveFailure, Gets
    <3> QED BY <3>1, PopType DEF TypeOK
  <2>2. toServer' \in [Peer -> Seq(Message)] /\ asking' \in [Peer -> {"idle", "waiting", "got", "refused"}]
    <3>1. CASE AnswerRequest(p)
      <4>1. \A k \in Chunk : Send(toServer, p, Data(k, p)) \in [Peer -> Seq(Message)]
        BY SendType, MessageKinds DEF TypeOK
      <4>2. Send(toServer, p, Failure) \in [Peer -> Seq(Message)]
        BY SendType, MessageKinds DEF TypeOK
      <4>3. holding[p] \in {"has", "lacks", "silent"}
        BY DEF TypeOK
      <4> QED BY <3>1, <4>1, <4>2, <4>3 DEF AnswerRequest, TypeOK
    <3>2. CASE ReceiveData(p)
      <4>1. \A k \in Chunk : ~IsLast(k) =>
              Send(toServer, p, Request(k + 1)) \in [Peer -> Seq(Message)]
        BY SendType, MessageKinds DEF TypeOK
      <4> QED BY <3>2, <4>1 DEF ReceiveData, TypeOK
    <3>3. CASE ReceiveFailure(p)
      BY <3>3 DEF ReceiveFailure, TypeOK
    <3> QED BY <1>7, <3>1, <3>2, <3>3 DEF Receive
  <2> QED BY <1>7, <2>1, <2>2 DEF Receive, AnswerRequest, ReceiveData, ReceiveFailure, TypeOK
<1>8. CASE Prune
  <2>1. stored' \in BOOLEAN /\ origin' \in [Chunk -> Peer \cup {NoPeer}]
    BY <1>8 DEF Prune
  <2>2. prunes' \in Nat
    BY <1>8 DEF Prune, TypeOK
  <2> QED BY <1>8, <2>1, <2>2 DEF Prune, TypeOK
<1>9. CASE UNCHANGED vars
  BY <1>9 DEF vars, TypeOK
<1> QED BY <1>1, <1>2, <1>3, <1>4, <1>5, <1>6, <1>7, <1>8, <1>9 DEF Next, Serve

-----------------------------------------------------------------------------
(* Who is waited for.                                                      *)

LEMMA SourcesStep ==
  ASSUME TypeOK, SourcesConnected, [Next]_vars
  PROVE  SourcesConnected'
<1>1. ASSUME NEW p \in Peer, Connect(p)
      PROVE  SourcesConnected'
  BY <1>1 DEF Connect, SourcesConnected, IsWanted
<1>2. ASSUME NEW p \in Peer, Disconnect(p)
      PROVE  SourcesConnected'
  <2>1. CASE IsWanted
    <3>1. RemoveFromWanted(wanted, p).remaining = wanted.remaining \ {p}
      BY <2>1, RemoveTyped
    <3> QED BY <1>2, <2>1, <3>1 DEF Disconnect, SourcesConnected, IsWanted
  <2>2. CASE ~IsWanted
    BY <1>2, <2>2 DEF Disconnect, SourcesConnected, IsWanted
  <2> QED BY <2>1, <2>2
<1>3. ASSUME NEW p \in Peer, Ask(p) \/ Receive(p)
      PROVE  SourcesConnected'
  BY <1>3 DEF Ask, Receive, AnswerRequest, ReceiveData, ReceiveFailure,
              SourcesConnected, IsWanted
<1>4. ASSUME NEW p \in Peer, HandleRequest(p)
      PROVE  SourcesConnected'
  <2>1. CASE UNCHANGED wanted
    BY <1>4, <2>1 DEF HandleRequest, SourcesConnected, IsWanted
  <2>2. CASE RequestMissing(p) /\ IsWanted
    <3>1. wanted'.remaining = wanted.remaining
      BY <2>2, WantedType DEF RequestMissing, WantedAsset
    <3> QED BY <1>4, <2>2, <3>1 DEF HandleRequest, SourcesConnected, IsWanted
  <2>3. CASE RequestMissing(p) /\ ~IsWanted
    BY <1>4, <2>3 DEF HandleRequest, RequestMissing, SourcesConnected, IsWanted
  <2> QED BY <1>4, <2>1, <2>2, <2>3 DEF HandleRequest
<1>5. ASSUME NEW p \in Peer, HandleData(p)
      PROVE  SourcesConnected'
  <2>1. CASE UNCHANGED wanted \/ wanted' = NotWanted
    BY <1>5, <2>1 DEF HandleData, SourcesConnected, IsWanted
  <2>2. CASE IsWanted /\ wanted' = [wanted EXCEPT !.source = p]
    <3>1. wanted'.remaining = wanted.remaining
      BY <2>2, WantedType DEF WantedAsset
    <3> QED BY <1>5, <2>2, <3>1 DEF HandleData, SourcesConnected, IsWanted
  <2> QED BY <1>5, <2>1, <2>2 DEF HandleData, Forward, Accepts
<1>6. ASSUME NEW p \in Peer, HandleFailure(p)
      PROVE  SourcesConnected'
  <2>1. CASE UNCHANGED wanted \/ wanted' = NotWanted
    BY <1>6, <2>1 DEF HandleFailure, SourcesConnected, IsWanted
  <2>2. CASE IsWanted /\ wanted' = [wanted EXCEPT !.remaining = wanted.remaining \ {p}]
    <3>1. wanted'.remaining \subseteq wanted.remaining
      BY <2>2, WantedType DEF WantedAsset
    <3> QED BY <1>6, <2>2, <3>1 DEF HandleFailure, SourcesConnected, IsWanted
  <2> QED BY <1>6, <2>1, <2>2 DEF HandleFailure
<1>7. CASE Prune \/ UNCHANGED vars
  BY <1>7 DEF Prune, vars, SourcesConnected, IsWanted
<1> QED BY <1>1, <1>2, <1>3, <1>4, <1>5, <1>6, <1>7 DEF Next, Serve

-----------------------------------------------------------------------------
(* Where the stored chunks come from.                                      *)

OriginInv == SourceIsOrigin /\ UnstoredUnwritten /\ OneOrigin

\* Only the handling of data and of requests, and pruning, matter.
LEMMA OriginKept ==
  ASSUME OriginInv, UNCHANGED <<stored, origin>>,
         wanted' = NotWanted \/ (IsWanted /\ wanted'.source = wanted.source)
  PROVE  OriginInv'
BY DEF OriginInv, SourceIsOrigin, UnstoredUnwritten, OneOrigin, IsWanted

LEMMA OriginStep ==
  ASSUME TypeOK, OriginInv, [Next]_vars
  PROVE  OriginInv'
<1>1. ASSUME NEW p \in Peer, Connect(p) \/ Ask(p) \/ Receive(p)
      PROVE  OriginInv'
  <2>1. UNCHANGED <<stored, origin, wanted>>
    BY <1>1 DEF Connect, Ask, Receive, AnswerRequest, ReceiveData, ReceiveFailure
  <2> QED BY <2>1, OriginKept DEF IsWanted
<1>2. ASSUME NEW p \in Peer, Disconnect(p)
      PROVE  OriginInv'
  <2>1. UNCHANGED <<stored, origin>>
    BY <1>2 DEF Disconnect
  <2>2. IsWanted => RemoveFromWanted(wanted, p).source = wanted.source
    BY RemoveTyped
  <2>3. wanted' = NotWanted \/ (IsWanted /\ wanted'.source = wanted.source)
    BY <1>2, <2>2 DEF Disconnect
  <2> QED BY <2>1, <2>3, OriginKept
<1>3. ASSUME NEW p \in Peer, HandleRequest(p)
      PROVE  OriginInv'
  <2>1. UNCHANGED <<stored, origin>>
    BY <1>3 DEF HandleRequest
  <2>2. CASE UNCHANGED wanted
    BY <2>1, <2>2, OriginKept DEF IsWanted
  <2>3. CASE RequestMissing(p) /\ IsWanted
    <3>1. wanted'.source = wanted.source
      BY <2>3, WantedType DEF RequestMissing, WantedAsset
    <3> QED BY <2>1, <2>3, <3>1, OriginKept
  <2>4. CASE ~stored /\ RequestMissing(p) /\ ~IsWanted
    <3>1. \A k \in Chunk : origin[k] = NoPeer
      BY <2>4 DEF OriginInv, UnstoredUnwritten
    <3> QED BY <2>1, <3>1 DEF OriginInv, SourceIsOrigin, UnstoredUnwritten, OneOrigin
  <2> QED BY <1>3, <2>2, <2>3, <2>4 DEF HandleRequest
<1>4. ASSUME NEW p \in Peer, HandleData(p)
      PROVE  OriginInv'
  <2>1. PICK k \in Chunk :
          IF Accepts(p)
            THEN /\ stored' = TRUE
                 /\ origin' = [origin EXCEPT ![k] = p]
                 /\ \/ wanted' = NotWanted
                    \/ wanted' = [wanted EXCEPT !.source = p]
            ELSE UNCHANGED <<stored, origin, wanted>>
    BY <1>4 DEF HandleData, Forward
  <2>2. CASE ~Accepts(p)
    BY <2>1, <2>2, OriginKept DEF IsWanted
  <2>3. CASE Accepts(p)
    <3>1. \A l \in Chunk : origin[l] \in {NoPeer, p}
      BY <2>3 DEF OriginInv, SourceIsOrigin, Accepts
    <3>2. \A l \in Chunk : origin'[l] \in {NoPeer, p}
      BY <2>1, <2>3, <3>1 DEF TypeOK
    <3>3. wanted' # NotWanted => wanted'.source = p
      BY <2>1, <2>3, WantedType DEF Accepts, WantedAsset
    <3> QED BY <2>1, <2>3, <3>2, <3>3
            DEF OriginInv, SourceIsOrigin, UnstoredUnwritten, OneOrigin, IsWanted
  <2> QED BY <2>2, <2>3
<1>5. ASSUME NEW p \in Peer, HandleFailure(p)
      PROVE  OriginInv'
  <2>1. UNCHANGED <<stored, origin>>
    BY <1>5 DEF HandleFailure
  <2>2. IsWanted => [wanted EXCEPT !.remaining = wanted.remaining \ {p}].source = wanted.source
    BY WantedType DEF WantedAsset
  <2>3. wanted' = NotWanted \/ (IsWanted /\ wanted'.source = wanted.source)
    BY <1>5, <2>2 DEF HandleFailure, IsWanted
  <2> QED BY <2>1, <2>3, OriginKept
<1>6. CASE Prune
  <2>1. /\ \A k \in Chunk : origin'[k] = NoPeer
        /\ UNCHANGED wanted
    BY <1>6 DEF Prune
  <2> QED BY <2>1 DEF OriginInv, SourceIsOrigin, UnstoredUnwritten, OneOrigin, IsWanted
<1>7. CASE UNCHANGED vars
  BY <1>7, OriginKept DEF vars, IsWanted
<1> QED BY <1>1, <1>2, <1>3, <1>4, <1>5, <1>6, <1>7 DEF Next, Serve

-----------------------------------------------------------------------------
(* Nobody is forgotten.                                                    *)

LEMMA OfflineStep ==
  ASSUME TypeOK, OfflineIdle, [Next]_vars
  PROVE  OfflineIdle'
<1>1. ASSUME NEW p \in Peer, Connect(p) \/ Disconnect(p)
      PROVE  OfflineIdle'
  BY <1>1 DEF Connect, Disconnect, OfflineIdle, TypeOK
<1>2. ASSUME NEW p \in Peer, Ask(p) \/ Receive(p)
      PROVE  OfflineIdle'
  <2>1. p \in online /\ UNCHANGED online
    BY <1>2 DEF Ask, Receive, AnswerRequest, ReceiveData, ReceiveFailure, Gets
  <2>2. \A q \in Peer \ {p} : asking'[q] = asking[q]
    BY <1>2 DEF Ask, Receive, AnswerRequest, ReceiveData, ReceiveFailure, TypeOK
  <2> QED BY <2>1, <2>2 DEF OfflineIdle
<1>3. ASSUME NEW p \in Peer, Serve(p)
      PROVE  OfflineIdle'
  BY <1>3 DEF Serve, HandleRequest, HandleData, HandleFailure, OfflineIdle
<1>4. CASE Prune \/ UNCHANGED vars
  BY <1>4 DEF Prune, vars, OfflineIdle
<1> QED BY <1>1, <1>2, <1>3, <1>4 DEF Next

\* What NoRequestForgotten says of one client.
Noted(p) ==
  \/ Has(toServer[p], {"request"})
  \/ IsWanted /\ wanted.recipients[p] > 0
  \/ Has(toClient[p], {"data", "failure"})

\* A message to every recipient reaches the connected ones.
LEMMA RecipientsReached ==
  ASSUME NEW queues \in [Peer -> Seq(Message)], NEW m \in Message,
         NEW r \in [Peer -> Nat], NEW S, NEW d \in Peer,
         m.type \in {"data", "failure"}
  PROVE  /\ Has(queues[d], {"data", "failure"})
              => Has(SendToRecipients(queues, r, S, m)[d], {"data", "failure"})
         /\ d \in S /\ r[d] > 0
              => Has(SendToRecipients(queues, r, S, m)[d], {"data", "failure"})
BY HasRepeat DEF SendToRecipients

LEMMA NotedDisconnect ==
  ASSUME TypeOK, NEW p \in Peer, Disconnect(p), NEW d \in online, d # p, Noted(d)
  PROVE  Noted(d)'
<1> DEFINE dropped == [toClient EXCEPT ![p] = <<>>]
<1>1. d \in Peer /\ dropped \in [Peer -> Seq(Message)] /\ dropped[d] = toClient[d]
  BY DEF TypeOK
<1>2. toServer'[d] = toServer[d]
  BY <1>1 DEF Disconnect, TypeOK
<1>3. CASE ~IsWanted
  BY <1>1, <1>2, <1>3 DEF Disconnect, Noted
<1>4. CASE IsWanted /\ RemoveFromWanted(wanted, p).remaining # {}
  <2>1. wanted' = RemoveFromWanted(wanted, p) /\ toClient' = dropped
    BY <1>4 DEF Disconnect
  <2>2. wanted' # NotWanted /\ wanted'.recipients[d] = wanted.recipients[d]
    BY <1>1, <1>4, <2>1, RemoveTyped, ProofAssumption
  <2> QED BY <1>1, <1>2, <1>4, <2>1, <2>2 DEF Noted, IsWanted
<1>5. CASE IsWanted /\ RemoveFromWanted(wanted, p).remaining = {}
  <2> DEFINE r == RemoveFromWanted(wanted, p).recipients
  <2>1. toClient' = SendToRecipients(dropped, r, online \ {p}, Failure)
    BY <1>5 DEF Disconnect
  <2>2. r \in [Peer -> Nat] /\ r[d] = wanted.recipients[d]
    BY <1>1, <1>5, RemoveTyped
  <2>3. Failure \in Message /\ Failure.type \in {"data", "failure"}
    BY MessageKinds
  <2> HIDE DEF r, dropped
  <2>4. /\ Has(dropped[d], {"data", "failure"}) => Has(toClient'[d], {"data", "failure"})
        /\ r[d] > 0 => Has(toClient'[d], {"data", "failure"})
    BY <1>1, <2>1, <2>2, <2>3, RecipientsReached
  <2> QED BY <1>1, <1>2, <2>2, <2>4 DEF Noted
<1> QED BY <1>3, <1>4, <1>5

\* A client the server's answer goes to, or that is noted as a recipient.
LEMMA NotedRequest ==
  ASSUME TypeOK, NEW p \in Peer, HandleRequest(p), NEW d \in online, Noted(d)
  PROVE  Noted(d)'
<1>1. PICK k \in Chunk :
        /\ Takes(p, Request(k))
        /\ IF stored
             THEN /\ toClient' = Send(toClient, p, Data(k, origin[k]))
                  /\ UNCHANGED wanted
             ELSE RequestMissing(p)
  BY DEF HandleRequest
<1>2. d \in Peer
  BY DEF TypeOK
<1>3. d # p => toServer'[d] = toServer[d]
  BY <1>1, <1>2 DEF Takes, Pop, TypeOK
<1>4. CASE stored
  <2>1. Data(k, origin[k]) \in Message /\ Data(k, origin[k]).type = "data"
    BY MessageKinds DEF TypeOK
  <2>2. d = p => toClient'[d] = Append(toClient[d], Data(k, origin[k]))
    BY <1>1, <1>2, <1>4 DEF Send, TypeOK
  <2>3. d # p => toClient'[d] = toClient[d]
    BY <1>1, <1>2, <1>4 DEF Send, TypeOK
  <2>4. toClient[d] \in Seq(Message)
    BY <1>2 DEF TypeOK
  <2>5. d = p => Has(toClient'[d], {"data", "failure"})
    <3>1. Data(k, origin[k]).type \in {"data", "failure"}
      BY <2>1
    <3>2. Has(Append(toClient[d], Data(k, origin[k])), {"data", "failure"})
      BY <2>1, <2>4, <3>1, HasAppend
    <3> QED BY <2>2, <3>2
  <2> QED BY <1>1, <1>3, <1>4, <2>3, <2>5 DEF Noted, IsWanted
<1>5. CASE ~stored /\ IsWanted
  <2>1. wanted' = [wanted EXCEPT !.recipients[p] = @ + 1] /\ UNCHANGED toClient
    BY <1>1, <1>5 DEF RequestMissing
  <2>2. wanted' # NotWanted
    BY <1>1, <1>5, RequestMissingTyped, ProofAssumption
  <2>3. IF d = p THEN wanted'.recipients[d] > 0
                 ELSE wanted'.recipients[d] = wanted.recipients[d]
    BY <1>2, <1>5, <2>1, WantedType DEF WantedAsset
  <2> QED BY <1>3, <1>5, <2>1, <2>2, <2>3 DEF Noted, IsWanted
<1>6. CASE ~stored /\ ~IsWanted
  <2>1. wanted'.recipients = [q \in Peer |-> IF q = p THEN 1 ELSE 0]
    BY <1>1, <1>6 DEF RequestMissing
  <2>2. wanted' # NotWanted
    BY <1>1, <1>6, RequestMissingTyped, ProofAssumption
  <2>3. toClient' = SendToAll(toClient, online \ {p}, Request(0))
    BY <1>1, <1>6 DEF RequestMissing
  <2>4. toClient[d] \in Seq(Message) /\ Request(0) \in Message
    BY <1>2, MessageKinds DEF TypeOK
  <2>5. Has(toClient[d], {"data", "failure"}) => Has(toClient'[d], {"data", "failure"})
    BY <1>2, <2>3, <2>4, HasAppend DEF SendToAll
  <2> QED BY <1>2, <1>3, <1>6, <2>1, <2>2, <2>5 DEF Noted, IsWanted
<1> QED BY <1>4, <1>5, <1>6

\* Taking data or a failure from a queue leaves its requests there.
LEMMA TakeKeepsRequests ==
  ASSUME TypeOK, NEW p \in Peer, NEW m, Takes(p, m), m.type # "request",
         NEW d \in Peer, Has(toServer[d], {"request"})
  PROVE  Has(toServer'[d], {"request"})
<1>1. toServer[p] \in Seq(Message) /\ toServer[p] # <<>>
  BY DEF TypeOK, Takes
<1>2. d = p => toServer'[d] = Tail(toServer[p])
  BY DEF Takes, Pop, TypeOK
<1>3. d # p => toServer'[d] = toServer[d]
  BY DEF Takes, Pop, TypeOK
<1>4. Head(toServer[p]).type \notin {"request"}
  BY DEF Takes
<1>5. Has(toServer[p], {"request"}) => Has(Tail(toServer[p]), {"request"})
  BY <1>1, <1>4, HasTail
<1> QED BY <1>2, <1>3, <1>5

LEMMA NotedData ==
  ASSUME TypeOK, NEW p \in Peer, HandleData(p), NEW d \in online, Noted(d)
  PROVE  Noted(d)'
<1>1. PICK k \in Chunk :
        /\ Takes(p, Data(k, p))
        /\ IF Accepts(p)
             THEN IF IsLast(k)
                    THEN Forward([origin EXCEPT ![k] = p])
                    ELSE /\ wanted' = [wanted EXCEPT !.source = p]
                         /\ toClient' = Send(toClient, p, Request(k + 1))
             ELSE UNCHANGED <<stored, origin, wanted, toClient>>
  BY DEF HandleData
<1>2. d \in Peer /\ toClient[d] \in Seq(Message) /\ toClient \in [Peer -> Seq(Message)]
  BY DEF TypeOK
<1>3. Has(toServer[d], {"request"}) => Has(toServer'[d], {"request"})
  BY <1>1, <1>2, MessageKinds, TakeKeepsRequests
<1>4. CASE ~Accepts(p)
  BY <1>1, <1>3, <1>4 DEF Noted, IsWanted
<1>5. CASE Accepts(p) /\ IsLast(k)
  <2> DEFINE m == Data(0, [origin EXCEPT ![k] = p][0])
  <2>1. [origin EXCEPT ![k] = p][0] \in Peer \cup {NoPeer}
    BY MessageKinds DEF TypeOK
  <2>2. m \in Message /\ m.type \in {"data", "failure"}
    BY <2>1, MessageKinds
  <2>3. toClient' = SendToRecipients(toClient, wanted.recipients, online, m)
    BY <1>1, <1>5 DEF Forward
  <2>4. wanted.recipients \in [Peer -> Nat]
    BY <1>5, WantedType DEF Accepts
  <2> HIDE DEF m
  <2>5. /\ Has(toClient[d], {"data", "failure"}) => Has(toClient'[d], {"data", "failure"})
        /\ wanted.recipients[d] > 0 => Has(toClient'[d], {"data", "failure"})
    BY <1>2, <2>2, <2>3, <2>4, RecipientsReached
  <2> QED BY <1>3, <2>5 DEF Noted
<1>6. CASE Accepts(p) /\ ~IsLast(k)
  <2>1. wanted' \in WantedAsset /\ wanted'.recipients = wanted.recipients
    BY <1>1, <1>6, WantedType DEF Accepts, WantedAsset
  <2>2. wanted' # NotWanted
    BY <2>1, ProofAssumption
  <2>3. Request(k + 1) \in Message
    BY <1>6, MessageKinds
  <2>4. toClient'[d] = IF d = p THEN Append(toClient[d], Request(k + 1)) ELSE toClient[d]
    BY <1>1, <1>2, <1>6 DEF Send
  <2>5. Has(toClient[d], {"data", "failure"}) => Has(toClient'[d], {"data", "failure"})
    BY <1>2, <2>3, <2>4, HasAppend
  <2> QED BY <1>3, <1>6, <2>1, <2>2, <2>5 DEF Noted, IsWanted
<1> QED BY <1>4, <1>5, <1>6

LEMMA NotedFailure ==
  ASSUME TypeOK, NEW p \in Peer, HandleFailure(p), NEW d \in online, Noted(d)
  PROVE  Noted(d)'
<1>1. d \in Peer /\ toClient \in [Peer -> Seq(Message)]
  BY DEF TypeOK
<1>2. Takes(p, Failure) /\ Failure.type = "failure" /\ Failure \in Message
  BY MessageKinds DEF HandleFailure
<1>3. Has(toServer[d], {"request"}) => Has(toServer'[d], {"request"})
  BY <1>1, <1>2, TakeKeepsRequests
<1>4. CASE ~IsWanted
  BY <1>3, <1>4 DEF HandleFailure, Noted, IsWanted
<1>5. CASE IsWanted /\ wanted' = NotWanted
  <2>1. toClient' = SendToRecipients(toClient, wanted.recipients, online, Failure)
        \/ (UNCHANGED toClient /\ wanted' = [wanted EXCEPT !.remaining = wanted.remaining \ {p}])
    BY <1>5 DEF HandleFailure
  <2>2. [wanted EXCEPT !.remaining = wanted.remaining \ {p}] \in WantedAsset
    BY <1>5, WantedType DEF WantedAsset
  <2>3. toClient' = SendToRecipients(toClient, wanted.recipients, online, Failure)
    BY <1>5, <2>1, <2>2, ProofAssumption
  <2>4. wanted.recipients \in [Peer -> Nat]
    BY <1>5, WantedType
  <2>5. /\ Has(toClient[d], {"data", "failure"}) => Has(toClient'[d], {"data", "failure"})
        /\ wanted.recipients[d] > 0 => Has(toClient'[d], {"data", "failure"})
    BY <1>1, <1>2, <2>3, <2>4, RecipientsReached
  <2> QED BY <1>3, <2>5 DEF Noted
<1>6. CASE IsWanted /\ wanted' # NotWanted
  <2>1. wanted' = [wanted EXCEPT !.remaining = wanted.remaining \ {p}] /\ UNCHANGED toClient
    BY <1>6 DEF HandleFailure
  <2>2. wanted'.recipients = wanted.recipients
    BY <1>6, <2>1, WantedType DEF WantedAsset
  <2> QED BY <1>3, <1>6, <2>1, <2>2 DEF Noted, IsWanted
<1> QED BY <1>4, <1>5, <1>6

\* A client that goes on waiting after a message has asked for the next chunk,
\* or an answer is still under way to it.
LEMMA NotedReceive ==
  ASSUME TypeOK, NEW p \in Peer, Receive(p), NEW d \in online, Noted(d)
  PROVE  asking'[d] = "waiting" => Noted(d)'
<1>1. d \in Peer /\ toClient[d] \in Seq(Message) /\ toServer[d] \in Seq(Message)
  BY DEF TypeOK
<1>2. UNCHANGED wanted
  BY DEF Receive, AnswerRequest, ReceiveData, ReceiveFailure
<1>3. CASE d # p
  <2>1. toClient'[d] = toClient[d] /\ toServer'[d] = toServer[d]
    BY <1>1, <1>3 DEF Receive, AnswerRequest, ReceiveData, ReceiveFailure, Gets,
                      Pop, Send, TypeOK
  <2> QED BY <1>2, <2>1 DEF Noted, IsWanted
<1>4. CASE d = p /\ AnswerRequest(p)
  <2>1. PICK k \in Chunk :
          /\ Gets(p, Request(k))
          /\ toServer' \in {Send(toServer, p, Data(k, p)), Send(toServer, p, Failure), toServer}
    <3>1. holding[p] \in {"has", "lacks", "silent"}
      BY DEF TypeOK
    <3> QED BY <1>4, <3>1 DEF AnswerRequest
  <2>2. toClient[d] # <<>> /\ Head(toClient[d]).type \notin {"data", "failure"}
        /\ toClient'[d] = Tail(toClient[d])
    BY <1>1, <1>4, <2>1, MessageKinds DEF Gets, Pop, TypeOK
  <2>3. Has(toClient[d], {"data", "failure"}) => Has(toClient'[d], {"data", "failure"})
    BY <1>1, <2>2, HasTail
  <2>4. toServer'[d] \in {Append(toServer[d], Data(k, p)), Append(toServer[d], Failure), toServer[d]}
    BY <1>1, <1>4, <2>1 DEF Send, TypeOK
  <2>5. Data(k, p) \in Message /\ Failure \in Message
    BY MessageKinds
  <2>6. Has(toServer[d], {"request"}) => Has(toServer'[d], {"request"})
    <3>1. ASSUME Has(toServer[d], {"request"})
          PROVE  /\ Has(Append(toServer[d], Data(k, p)), {"request"})
                 /\ Has(Append(toServer[d], Failure), {"request"})
      BY <1>1, <2>5, <3>1, HasAppend
    <3> QED BY <2>4, <3>1
  <2> QED BY <1>2, <2>3, <2>6 DEF Noted, IsWanted
<1>5. CASE d = p /\ ReceiveData(p)
  <2>1. PICK k \in Chunk :
          \/ asking'[p] = "got"
          \/ ~IsLast(k) /\ toServer' = Send(toServer, p, Request(k + 1))
    BY <1>5 DEF ReceiveData, TypeOK
  <2>2. CASE ~IsLast(k) /\ toServer' = Send(toServer, p, Request(k + 1))
    <3>1. Request(k + 1) \in Message /\ Request(k + 1).type = "request"
      BY <2>2, MessageKinds
    <3>2. toServer'[d] = Append(toServer[d], Request(k + 1))
      BY <1>5, <2>2 DEF Send, TypeOK
    <3>3. Has(toServer'[d], {"request"})
      BY <1>1, <3>1, <3>2, HasAppend
    <3> QED BY <3>3 DEF Noted
  <2> QED BY <1>5, <2>1, <2>2
<1>6. CASE d = p /\ ReceiveFailure(p)
  <2>1. asking'[p] = "refused"
    BY <1>6 DEF ReceiveFailure, TypeOK
  <2> QED BY <1>6, <2>1
<1> QED BY <1>3, <1>4, <1>5, <1>6 DEF Receive

LEMMA NotedAsk ==
  ASSUME TypeOK, NEW p \in Peer, Ask(p), NEW d \in online, d = p \/ Noted(d)
  PROVE  Noted(d)'
<1>1. toServer'[p] = Append(toServer[p], Request(0))
  BY DEF Ask, Send, TypeOK
<1>2. Request(0) \in Message /\ Request(0).type = "request"
  BY MessageKinds
<1>3. Has(toServer'[p], {"request"})
  BY <1>1, <1>2, HasAppend DEF TypeOK
<1>4. d # p => toServer'[d] = toServer[d]
  BY DEF Ask, Send, TypeOK
<1> QED BY <1>3, <1>4 DEF Ask, Noted, IsWanted

LEMMA RequestStep ==
  ASSUME TypeOK, OfflineIdle, NoRequestForgotten, [Next]_vars
  PROVE  NoRequestForgotten'
<1>1. \A d \in online : asking[d] = "waiting" => Noted(d)
  BY DEF NoRequestForgotten, Noted
<1>2. SUFFICES ASSUME NEW d \in online', asking'[d] = "waiting"
               PROVE  Noted(d)'
  BY DEF NoRequestForgotten, Noted, IsWanted
<1>3. ASSUME NEW p \in Peer, Connect(p)
      PROVE  Noted(d)'
  <2>1. asking[p] = "idle" /\ asking' = asking
    BY <1>3 DEF Connect, OfflineIdle
  <2>2. d \in online /\ asking[d] = "waiting"
    BY <1>2, <1>3, <2>1 DEF Connect
  <2> QED BY <1>1, <1>3, <2>2 DEF Connect, Noted, IsWanted
<1>4. ASSUME NEW p \in Peer, Disconnect(p)
      PROVE  Noted(d)'
  <2>1. d \in online /\ d # p /\ asking[d] = "waiting"
    BY <1>2, <1>4 DEF Disconnect, TypeOK
  <2> QED BY <1>1, <1>4, <2>1, NotedDisconnect
<1>5. ASSUME NEW p \in Peer, Serve(p)
      PROVE  Noted(d)'
  <2>1. d \in online /\ asking[d] = "waiting"
    BY <1>2, <1>5 DEF Serve, HandleRequest, HandleData, HandleFailure
  <2> QED BY <1>1, <1>5, <2>1, NotedRequest, NotedData, NotedFailure DEF Serve
<1>6. ASSUME NEW p \in Peer, Receive(p)
      PROVE  Noted(d)'
  <2>1. d \in online
    BY <1>6 DEF Receive, AnswerRequest, ReceiveData, ReceiveFailure
  <2>2. asking[d] = "waiting"
    BY <1>2, <1>6 DEF Receive, AnswerRequest, ReceiveData, ReceiveFailure, TypeOK
  <2> QED BY <1>1, <1>2, <1>6, <2>1, <2>2, NotedReceive
<1>7. ASSUME NEW p \in Peer, Ask(p)
      PROVE  Noted(d)'
  <2>1. d \in online /\ (d = p \/ asking[d] = "waiting")
    BY <1>2, <1>7 DEF Ask, TypeOK
  <2> QED BY <1>1, <1>7, <2>1, NotedAsk
<1>8. CASE Prune \/ UNCHANGED vars
  BY <1>1, <1>2, <1>8 DEF Prune, vars, Noted, IsWanted
<1> QED BY <1>3, <1>4, <1>5, <1>6, <1>7, <1>8 DEF Next

-----------------------------------------------------------------------------
(* Counting messages.                                                      *)

\* What a message, or n copies of it, adds to a count
One(m, T)       == IF m.type \in T THEN 1 ELSE 0
Copies(m, n, T) == IF m.type \in T THEN n ELSE 0

LEMMA CountType ==
  ASSUME NEW q \in Seq(Message), NEW T
  PROVE  /\ Count(q, T) \in Nat
         /\ IsFiniteSet({i \in DOMAIN q : q[i].type \in T})
         /\ Count(<<>>, T) = 0
         /\ (\E i \in DOMAIN q : q[i].type \in T) => Count(q, T) > 0
<1> DEFINE S == {i \in DOMAIN q : q[i].type \in T}
<1>1. DOMAIN q = 1 .. Len(q) /\ Len(q) \in Nat
  OBVIOUS
<1>2. IsFiniteSet(S)
  <2>1. IsFiniteSet(1 .. Len(q)) /\ S \subseteq 1 .. Len(q)
    BY <1>1, FS_Interval
  <2> QED BY <2>1, FS_Subset
<1>3. Cardinality(S) \in Nat /\ (Cardinality(S) = 0 <=> S = {})
  BY <1>2, FS_CardinalityType, FS_EmptySet
<1>4. {i \in DOMAIN <<>> : <<>>[i].type \in T} = {}
  OBVIOUS
<1>5. Count(<<>>, T) = 0
  BY <1>4, FS_EmptySet DEF Count
<1> QED BY <1>2, <1>3, <1>5 DEF Count

LEMMA CountAppend ==
  ASSUME NEW q \in Seq(Message), NEW m \in Message, NEW T
  PROVE  Count(Append(q, m), T) = Count(q, T) + One(m, T)
<1> DEFINE S == {i \in DOMAIN q : q[i].type \in T}
           n == Len(q) + 1
           S2 == {i \in DOMAIN Append(q, m) : Append(q, m)[i].type \in T}
<1>1. /\ DOMAIN q = 1 .. Len(q) /\ Len(q) \in Nat
      /\ DOMAIN Append(q, m) = 1 .. n
      /\ \A i \in 1 .. Len(q) : Append(q, m)[i] = q[i]
      /\ Append(q, m)[n] = m
  OBVIOUS
<1>2. IsFiniteSet(S) /\ n \notin S
  <2>1. IsFiniteSet(S)
    BY CountType
  <2> QED BY <1>1, <2>1
<1>0. /\ Count(q, T) = Cardinality(S) /\ Count(q, T) \in Nat
      /\ Count(Append(q, m), T) = Cardinality(S2)
  BY CountType DEF Count
<1>3. CASE m.type \in T
  <2>1. S2 = S \cup {n}
    BY <1>1, <1>3
  <2>2. Cardinality(S \cup {n}) = Cardinality(S) + 1
    <3> HIDE DEF S, n
    <3> QED BY <1>2, FS_AddElement
  <2> HIDE DEF S, S2
  <2> QED BY <1>0, <1>3, <2>1, <2>2 DEF One
<1>4. CASE m.type \notin T
  <2>1. S2 = S
    BY <1>1, <1>4
  <2> HIDE DEF S, S2
  <2> QED BY <1>0, <1>4, <2>1 DEF One
<1> QED BY <1>3, <1>4

LEMMA CountTail ==
  ASSUME NEW q \in Seq(Message), q # <<>>, NEW T
  PROVE  Count(q, T) = Count(Tail(q), T) + One(Head(q), T)
<1> DEFINE S == {i \in DOMAIN q : q[i].type \in T}
           B == {i \in DOMAIN Tail(q) : Tail(q)[i].type \in T}
           A == {i + 1 : i \in B}
           f == [i \in B |-> i + 1]
<1>1. /\ Tail(q) \in Seq(Message) /\ Len(Tail(q)) = Len(q) - 1
      /\ \A i \in 1 .. Len(Tail(q)) : Tail(q)[i] = q[i + 1]
      /\ DOMAIN q = 1 .. Len(q) /\ Len(q) \in Nat /\ Len(q) > 0
      /\ DOMAIN Tail(q) = 1 .. Len(q) - 1
      /\ Head(q) = q[1]
  BY HeadTailProperties
<1>2. IsFiniteSet(B)
  BY <1>1, CountType
<1>3. IsFiniteSet(A) /\ Cardinality(A) = Cardinality(B)
  <2>1. f \in Bijection(B, A)
    <3>1. f \in [B -> A]
      OBVIOUS
    <3>2. \A i \in B : i \in Nat
      BY <1>1
    <3>3. \A i, j \in B : f[i] = f[j] => i = j
      BY <3>2
    <3>4. \A k \in A : \E i \in B : f[i] = k
      OBVIOUS
    <3> HIDE DEF A, B, f
    <3> QED BY <3>1, <3>3, <3>4 DEF Bijection, Injection, IsInjective, Surjection
  <2> HIDE DEF A, B, f
  <2> QED BY <1>2, <2>1, FS_Bijection DEF ExistsBijection
<1>4. 1 \notin A
  BY <1>1
<1>5. \A i \in 2 .. Len(q) : i - 1 \in 1 .. Len(q) - 1 /\ (i - 1) + 1 = i
  BY <1>1
<1>6. S \ {1} = A
  <2>1. ASSUME NEW i \in S, i # 1
        PROVE  i \in A
    <3>1. i \in 2 .. Len(q)
      BY <1>1, <2>1
    <3>2. i - 1 \in B
      BY <1>1, <1>5, <2>1, <3>1
    <3> QED BY <1>5, <3>1, <3>2
  <2>2. ASSUME NEW i \in B
        PROVE  i + 1 \in S /\ i + 1 # 1
    BY <1>1
  <2> QED BY <2>1, <2>2
<1>0. /\ Count(q, T) = Cardinality(S) /\ Count(Tail(q), T) = Cardinality(B)
      /\ Cardinality(B) \in Nat
  <2>1. Count(Tail(q), T) \in Nat
    BY <1>1, CountType
  <2> QED BY <2>1 DEF Count
<1>7. CASE Head(q).type \in T
  <2>1. S = A \cup {1}
    BY <1>1, <1>6, <1>7
  <2>2. Cardinality(A \cup {1}) = Cardinality(A) + 1
    <3> HIDE DEF A
    <3> QED BY <1>3, <1>4, FS_AddElement
  <2> HIDE DEF S, A, B
  <2> QED BY <1>0, <1>3, <1>7, <2>1, <2>2 DEF One
<1>8. CASE Head(q).type \notin T
  <2>1. S = A
    BY <1>1, <1>6, <1>8
  <2> HIDE DEF S, A, B
  <2> QED BY <1>0, <1>3, <1>8, <2>1 DEF One
<1> QED BY <1>7, <1>8

LEMMA CountRepeat ==
  ASSUME NEW q \in Seq(Message), NEW m \in Message, NEW n \in Nat, NEW T
  PROVE  Count(q \o Repeat(m, n), T) = Count(q, T) + IF m.type \in T THEN n ELSE 0
<1> DEFINE r == q \o Repeat(m, n)
           S == {i \in DOMAIN q : q[i].type \in T}
           A == Len(q) + 1 .. Len(q) + n
           S2 == {i \in DOMAIN r : r[i].type \in T}
<1>1. Repeat(m, n) \in Seq(Message) /\ Len(Repeat(m, n)) = n
      /\ \A i \in 1 .. n : Repeat(m, n)[i] = m
  BY DEF Repeat
<1>2. /\ r \in Seq(Message) /\ Len(r) = Len(q) + n
      /\ \A i \in 1 .. Len(q) + n :
           r[i] = IF i <= Len(q) THEN q[i] ELSE Repeat(m, n)[i - Len(q)]
  BY <1>1, ConcatProperties
<1> HIDE DEF r
<1>3. /\ DOMAIN r = 1 .. Len(q) + n /\ DOMAIN q = 1 .. Len(q) /\ Len(q) \in Nat
      /\ \A i \in 1 .. Len(q) : r[i] = q[i]
      /\ \A i \in A : r[i] = m
  <2>1. \A i \in 1 .. Len(q) : i \in 1 .. Len(q) + n /\ i <= Len(q)
    OBVIOUS
  <2>2. \A i \in A : i \in 1 .. Len(q) + n /\ ~(i <= Len(q)) /\ i - Len(q) \in 1 .. n
    OBVIOUS
  <2>3. DOMAIN r = 1 .. Len(r)
    BY <1>2
  <2> HIDE DEF A
  <2> QED BY <1>1, <1>2, <2>1, <2>2, <2>3
<1>0. /\ Count(q, T) = Cardinality(S) /\ Count(q, T) \in Nat
      /\ Count(r, T) = Cardinality(S2)
  BY CountType DEF Count
<1>4. IsFiniteSet(S) /\ Cardinality(S) \in Nat
  BY CountType, FS_CardinalityType
<1>5. CASE m.type \in T
  <2>1. S2 = S \cup A
    BY <1>3, <1>5
  <2>2. IsFiniteSet(A) /\ Cardinality(A) = n
    BY <1>3, FS_Interval
  <2>3. S \cap A = {}
    BY <1>3
  <2>4. Cardinality(S \cup A) = Cardinality(S) + n
    <3> HIDE DEF S, A
    <3>1. Cardinality(S \cup A) = Cardinality(S) + Cardinality(A) - Cardinality(S \cap A)
      BY <1>4, <2>2, FS_Union
    <3>2. Cardinality(S \cap A) = 0
      BY <2>3, FS_EmptySet
    <3> QED BY <1>4, <2>2, <3>1, <3>2
  <2> HIDE DEF S, S2, A
  <2> QED BY <1>0, <1>5, <2>1, <2>4 DEF r
<1>6. CASE m.type \notin T
  <2>1. S2 = S
    BY <1>3, <1>6
  <2> HIDE DEF S, S2, A
  <2> QED BY <1>0, <1>6, <2>1 DEF r
<1> QED BY <1>5, <1>6

\* What the queue operators do to the counts of any queue
LEMMA SendCount ==
  ASSUME NEW queues \in [Peer -> Seq(Message)], NEW p \in Peer, NEW m \in Message,
         NEW d \in Peer, NEW T
  PROVE  Count(Send(queues, p, m)[d], T) = Count(queues[d], T) + IF d = p THEN One(m, T) ELSE 0
<1>1. queues[d] \in Seq(Message) /\ Count(queues[d], T) \in Nat
  BY CountType
<1>2. CASE d = p
  <2>1. Send(queues, p, m)[d] = Append(queues[d], m)
    BY <1>2 DEF Send
  <2> QED BY <1>1, <1>2, <2>1, CountAppend
<1>3. CASE d # p
  BY <1>1, <1>3 DEF Send
<1> QED BY <1>2, <1>3

LEMMA PopCount ==
  ASSUME NEW queues \in [Peer -> Seq(Message)], NEW p \in Peer, queues[p] # <<>>,
         NEW d \in Peer, NEW T
  PROVE  Count(queues[d], T) =
           Count(Pop(queues, p)[d], T) + IF d = p THEN One(Head(queues[p]), T) ELSE 0
<1>1. queues[d] \in Seq(Message) /\ Count(queues[d], T) \in Nat
  BY CountType
<1>2. CASE d = p
  <2>1. Pop(queues, p)[d] = Tail(queues[d])
    BY <1>2 DEF Pop
  <2> QED BY <1>1, <1>2, <2>1, CountTail
<1>3. CASE d # p
  BY <1>1, <1>3 DEF Pop
<1> QED BY <1>2, <1>3

\* A message that reaches the peers of S only
Within(d, S, n) == IF d \in S THEN n ELSE 0

LEMMA ToAllCount ==
  ASSUME NEW queues \in [Peer -> Seq(Message)], NEW S \in SUBSET Peer, NEW m \in Message,
         NEW d \in Peer, NEW T
  PROVE  Count(SendToAll(queues, S, m)[d], T) = Count(queues[d], T) + Within(d, S, One(m, T))
<1>1. queues[d] \in Seq(Message) /\ Count(queues[d], T) \in Nat
  BY CountType
<1>2. CASE d \in S
  <2>1. SendToAll(queues, S, m)[d] = Append(queues[d], m)
    BY <1>2 DEF SendToAll
  <2> QED BY <1>1, <1>2, <2>1, CountAppend DEF Within
<1>3. CASE d \notin S
  BY <1>1, <1>3 DEF SendToAll, Within
<1> QED BY <1>2, <1>3

LEMMA ToRecipientsCount ==
  ASSUME NEW queues \in [Peer -> Seq(Message)], NEW S \in SUBSET Peer, NEW m \in Message,
         NEW r \in [Peer -> Nat], NEW d \in Peer, NEW T
  PROVE  Count(SendToRecipients(queues, r, S, m)[d], T) =
           Count(queues[d], T) + Within(d, S, Copies(m, r[d], T))
<1>1. queues[d] \in Seq(Message) /\ Count(queues[d], T) \in Nat /\ r[d] \in Nat
  BY CountType
<1>2. CASE d \in S
  <2>1. SendToRecipients(queues, r, S, m)[d] = queues[d] \o Repeat(m, r[d])
    BY <1>2 DEF SendToRecipients
  <2>2. Count(queues[d] \o Repeat(m, r[d]), T) =
          Count(queues[d], T) + IF m.type \in T THEN r[d] ELSE 0
    BY <1>1, CountRepeat
  <2> QED BY <1>2, <2>1, <2>2 DEF Within, Copies
<1>3. CASE d \notin S
  BY <1>1, <1>3 DEF SendToRecipients, Within
<1> QED BY <1>2, <1>3

-----------------------------------------------------------------------------
(* What is under way between the server and a client.                      *)

Questions == {"request"}
Replies   == {"data", "failure"}
Contents  == {"data"}

RequestsIn(d)  == Count(toServer[d], Questions)
AnswersIn(d)   == Count(toServer[d], Replies)
RequestsOut(d) == Count(toClient[d], Questions)
DataOut(d)     == Count(toClient[d], Contents)

LEMMA CountsType ==
  ASSUME TypeOK, NEW d \in Peer
  PROVE  /\ RequestsIn(d) \in Nat /\ AnswersIn(d) \in Nat
         /\ RequestsOut(d) \in Nat /\ DataOut(d) \in Nat
BY CountType DEF TypeOK, RequestsIn, AnswersIn, RequestsOut, DataOut

LEMMA Ones ==
  /\ \A k \in Chunk : /\ One(Request(k), Questions) = 1
                      /\ One(Request(k), Replies) = 0
                      /\ One(Request(k), Contents) = 0
  /\ \A k \in Chunk, p \in Peer \cup {NoPeer} : /\ One(Data(k, p), Questions) = 0
                                             /\ One(Data(k, p), Replies) = 1
                                             /\ One(Data(k, p), Contents) = 1
  /\ One(Failure, Questions) = 0 /\ One(Failure, Replies) = 1 /\ One(Failure, Contents) = 0
BY DEF One, Questions, Replies, Contents, Request, Data, Failure

\* With the counts of these two queues unchanged nothing else is of interest.
SameIn(d)  == RequestsIn(d)' = RequestsIn(d) /\ AnswersIn(d)' = AnswersIn(d)
SameOut(d) == RequestsOut(d)' = RequestsOut(d) /\ DataOut(d)' = DataOut(d)

\* The server takes a message.
LEMMA TakesCounts ==
  ASSUME TypeOK, NEW p \in Peer, NEW m \in Message, Takes(p, m), NEW d \in Peer
  PROVE  /\ RequestsIn(d) = RequestsIn(d)' + IF d = p THEN One(m, Questions) ELSE 0
         /\ AnswersIn(d) = AnswersIn(d)' + IF d = p THEN One(m, Replies) ELSE 0
<1>1. /\ toServer \in [Peer -> Seq(Message)] /\ toServer[p] # <<>>
      /\ Head(toServer[p]) = m /\ toServer' = Pop(toServer, p)
  BY DEF TypeOK, Takes
<1>2. Count(toServer[d], Questions) =
        Count(Pop(toServer, p)[d], Questions) + IF d = p THEN One(Head(toServer[p]), Questions) ELSE 0
  BY <1>1, PopCount
<1>3. Count(toServer[d], Replies) =
        Count(Pop(toServer, p)[d], Replies)
          + IF d = p THEN One(Head(toServer[p]), Replies) ELSE 0
  BY <1>1, PopCount
<1> QED BY <1>1, <1>2, <1>3 DEF RequestsIn, AnswersIn

\* A client takes a message.
LEMMA GetsCounts ==
  ASSUME TypeOK, NEW p \in Peer, NEW m \in Message, Gets(p, m), NEW d \in Peer
  PROVE  /\ RequestsOut(d) = RequestsOut(d)' + IF d = p THEN One(m, Questions) ELSE 0
         /\ DataOut(d) = DataOut(d)' + IF d = p THEN One(m, Contents) ELSE 0
<1>1. /\ toClient \in [Peer -> Seq(Message)] /\ toClient[p] # <<>>
      /\ Head(toClient[p]) = m /\ toClient' = Pop(toClient, p)
  BY DEF TypeOK, Gets
<1>2. Count(toClient[d], Questions) =
        Count(Pop(toClient, p)[d], Questions) + IF d = p THEN One(Head(toClient[p]), Questions) ELSE 0
  BY <1>1, PopCount
<1>3. Count(toClient[d], Contents) =
        Count(Pop(toClient, p)[d], Contents) + IF d = p THEN One(Head(toClient[p]), Contents) ELSE 0
  BY <1>1, PopCount
<1> QED BY <1>1, <1>2, <1>3 DEF RequestsOut, DataOut

\* A client sends a message.
LEMMA SendsCounts ==
  ASSUME TypeOK, NEW p \in Peer, NEW m \in Message, NEW d \in Peer
  PROVE  toServer' = Send(toServer, p, m) =>
           /\ RequestsIn(d)' = RequestsIn(d) + IF d = p THEN One(m, Questions) ELSE 0
           /\ AnswersIn(d)' = AnswersIn(d) + IF d = p THEN One(m, Replies) ELSE 0
<1>1. toServer \in [Peer -> Seq(Message)]
  BY DEF TypeOK
<1>2. Count(Send(toServer, p, m)[d], Questions) =
        Count(toServer[d], Questions) + IF d = p THEN One(m, Questions) ELSE 0
  BY <1>1, SendCount
<1>3. Count(Send(toServer, p, m)[d], Replies) =
        Count(toServer[d], Replies) + IF d = p THEN One(m, Replies) ELSE 0
  BY <1>1, SendCount
<1> QED BY <1>1, <1>2, <1>3 DEF RequestsIn, AnswersIn

\* The server sends a message to one client, to all, or to the recipients.
LEMMA ServerSendsCounts ==
  ASSUME TypeOK, NEW p \in Peer, NEW m \in Message, NEW d \in Peer
  PROVE  toClient' = Send(toClient, p, m) =>
           /\ RequestsOut(d)' = RequestsOut(d) + IF d = p THEN One(m, Questions) ELSE 0
           /\ DataOut(d)' = DataOut(d) + IF d = p THEN One(m, Contents) ELSE 0
<1>1. toClient \in [Peer -> Seq(Message)]
  BY DEF TypeOK
<1>2. Count(Send(toClient, p, m)[d], Questions) =
        Count(toClient[d], Questions) + IF d = p THEN One(m, Questions) ELSE 0
  BY <1>1, SendCount
<1>3. Count(Send(toClient, p, m)[d], Contents) =
        Count(toClient[d], Contents) + IF d = p THEN One(m, Contents) ELSE 0
  BY <1>1, SendCount
<1> QED BY <1>1, <1>2, <1>3 DEF RequestsOut, DataOut

LEMMA BroadcastCounts ==
  ASSUME TypeOK, NEW S \in SUBSET Peer, NEW m \in Message, NEW d \in Peer
  PROVE  toClient' = SendToAll(toClient, S, m) =>
           /\ RequestsOut(d)' = RequestsOut(d) + Within(d, S, One(m, Questions))
           /\ DataOut(d)' = DataOut(d) + Within(d, S, One(m, Contents))
<1>1. toClient \in [Peer -> Seq(Message)]
  BY DEF TypeOK
<1>2. Count(SendToAll(toClient, S, m)[d], Questions) =
        Count(toClient[d], Questions) + Within(d, S, One(m, Questions))
  BY <1>1, ToAllCount
<1>3. Count(SendToAll(toClient, S, m)[d], Contents) =
        Count(toClient[d], Contents) + Within(d, S, One(m, Contents))
  BY <1>1, ToAllCount
<1> QED BY <1>1, <1>2, <1>3 DEF RequestsOut, DataOut

LEMMA AnnounceCounts ==
  ASSUME TypeOK, NEW S \in SUBSET Peer, NEW m \in Message, NEW r \in [Peer -> Nat], NEW d \in Peer
  PROVE  toClient' = SendToRecipients(toClient, r, S, m) =>
           /\ RequestsOut(d)' = RequestsOut(d) + Within(d, S, Copies(m, r[d], Questions))
           /\ DataOut(d)' = DataOut(d) + Within(d, S, Copies(m, r[d], Contents))
<1>1. toClient \in [Peer -> Seq(Message)]
  BY DEF TypeOK
<1>2. Count(SendToRecipients(toClient, r, S, m)[d], Questions) =
        Count(toClient[d], Questions) + Within(d, S, Copies(m, r[d], Questions))
  BY <1>1, ToRecipientsCount
<1>3. Count(SendToRecipients(toClient, r, S, m)[d], Contents) =
        Count(toClient[d], Contents) + Within(d, S, Copies(m, r[d], Contents))
  BY <1>1, ToRecipientsCount
<1> QED BY <1>1, <1>2, <1>3 DEF RequestsOut, DataOut

\* A failure sent to the recipients changes neither count.
LEMMA FailureCounts ==
  ASSUME NEW queues \in [Peer -> Seq(Message)], NEW r \in [Peer -> Nat],
         NEW S \in SUBSET Peer, NEW d \in Peer
  PROVE  LET after == SendToRecipients(queues, r, S, Failure)
         IN /\ Count(after[d], Questions) = Count(queues[d], Questions)
            /\ Count(after[d], Contents) = Count(queues[d], Contents)
<1>1. Failure \in Message
  BY MessageKinds
<1>2. Copies(Failure, r[d], Contents) = 0 /\ Copies(Failure, r[d], Questions) = 0
  BY DEF Copies, Failure, Contents, Questions
<1>3. Within(d, S, 0) = 0
  BY DEF Within
<1>4. /\ Count(queues[d], Questions) \in Nat
      /\ Count(queues[d], Contents) \in Nat
  BY CountType
<1>5. Count(SendToRecipients(queues, r, S, Failure)[d], Questions) =
        Count(queues[d], Questions) + Within(d, S, Copies(Failure, r[d], Questions))
  BY <1>1, ToRecipientsCount
<1>6. Count(SendToRecipients(queues, r, S, Failure)[d], Contents) =
        Count(queues[d], Contents) + Within(d, S, Copies(Failure, r[d], Contents))
  BY <1>1, ToRecipientsCount
<1> QED BY <1>2, <1>3, <1>4, <1>5, <1>6

\* What each action does to the counts of a client d.
LEMMA DisconnectCounts ==
  ASSUME TypeOK, NEW p \in Peer, Disconnect(p), NEW d \in Peer
  PROVE  /\ d # p => SameIn(d) /\ SameOut(d)
         /\ d = p => /\ RequestsIn(d)' = 0 /\ AnswersIn(d)' = 0
                     /\ RequestsOut(d)' = 0 /\ DataOut(d)' = 0
<1> DEFINE dropped == [toClient EXCEPT ![p] = <<>>]
           r == RemoveFromWanted(wanted, p).recipients
           others == online \ {p}
<1>1. /\ dropped \in [Peer -> Seq(Message)] /\ <<>> \in Seq(Message)
      /\ toServer'[p] = <<>> /\ dropped[p] = <<>>
      /\ d # p => toServer'[d] = toServer[d] /\ dropped[d] = toClient[d]
  BY DEF TypeOK, Disconnect
<1>2. Count(<<>>, Questions) = 0 /\ Count(<<>>, Replies) = 0 /\ Count(<<>>, Contents) = 0
  BY <1>1, CountType
<1>3. CASE IsWanted /\ RemoveFromWanted(wanted, p).remaining = {}
  <2>1. toClient' = SendToRecipients(dropped, r, others, Failure)
    BY <1>3 DEF Disconnect
  <2>2. r \in [Peer -> Nat] /\ r[d] \in Nat /\ Failure \in Message
        /\ others \in SUBSET Peer
    BY <1>3, RemoveTyped, MessageKinds DEF TypeOK
  <2>3. CASE d = p
    <3>1. toClient'[d] = <<>>
      BY <1>1, <2>1, <2>3 DEF SendToRecipients
    <3> QED BY <1>1, <1>2, <2>3, <3>1 DEF RequestsIn, AnswersIn, RequestsOut, DataOut
  <2>4. CASE d # p
    <3> HIDE DEF dropped, r, others
    <3>1. LET after == SendToRecipients(dropped, r, others, Failure)
          IN /\ Count(after[d], Questions) = Count(dropped[d], Questions)
             /\ Count(after[d], Contents) = Count(dropped[d], Contents)
      BY <1>1, <2>2, FailureCounts
    <3>2. SameOut(d)
      BY <1>1, <2>1, <2>4, <3>1 DEF SameOut, RequestsOut, DataOut
    <3> QED BY <1>1, <2>4, <3>2 DEF SameIn, RequestsIn, AnswersIn
  <2> QED BY <2>3, <2>4
<1>4. CASE ~(IsWanted /\ RemoveFromWanted(wanted, p).remaining = {})
  <2>1. toClient' = dropped
    BY <1>4 DEF Disconnect
  <2> HIDE DEF dropped
  <2> QED BY <1>1, <1>2, <2>1
          DEF SameIn, SameOut, RequestsIn, AnswersIn, RequestsOut, DataOut
<1> QED BY <1>3, <1>4

LEMMA AskCounts ==
  ASSUME TypeOK, NEW p \in Peer, Ask(p), NEW d \in Peer
  PROVE  /\ RequestsIn(d)' = RequestsIn(d) + IF d = p THEN 1 ELSE 0
         /\ AnswersIn(d)' = AnswersIn(d)
         /\ SameOut(d)
<1>1. Request(0) \in Message /\ 0 \in Chunk
  BY MessageKinds
<1>2. toServer' = Send(toServer, p, Request(0)) /\ toClient' = toClient
  BY DEF Ask
<1>3. SameOut(d)
  BY <1>2 DEF SameOut, RequestsOut, DataOut
<1>4. /\ RequestsIn(d)' = RequestsIn(d) + IF d = p THEN One(Request(0), Questions) ELSE 0
      /\ AnswersIn(d)' = AnswersIn(d) + IF d = p THEN One(Request(0), Replies) ELSE 0
  BY <1>1, <1>2, SendsCounts
<1> QED BY <1>1, <1>3, <1>4, Ones, CountsType

LEMMA HandleRequestCounts ==
  ASSUME TypeOK, NEW p \in Peer, HandleRequest(p), NEW d \in Peer
  PROVE  /\ RequestsIn(d) = RequestsIn(d)' + IF d = p THEN 1 ELSE 0
         /\ AnswersIn(d)' = AnswersIn(d)
         /\ stored => /\ RequestsOut(d)' = RequestsOut(d)
                      /\ DataOut(d)' = DataOut(d) + IF d = p THEN 1 ELSE 0
         /\ ~stored /\ IsWanted => SameOut(d)
         /\ ~stored /\ ~IsWanted =>
              /\ RequestsOut(d)' = RequestsOut(d) + Within(d, online \ {p}, 1)
              /\ DataOut(d)' = DataOut(d)
<1>1. PICK k \in Chunk :
          /\ Takes(p, Request(k))
          /\ IF stored
               THEN /\ toClient' = Send(toClient, p, Data(k, origin[k]))
                    /\ UNCHANGED wanted
               ELSE RequestMissing(p)
  BY DEF HandleRequest
<1>2. /\ Request(k) \in Message /\ Request(0) \in Message /\ 0 \in Chunk
      /\ origin[k] \in Peer \cup {NoPeer} /\ Data(k, origin[k]) \in Message
      /\ online \ {p} \in SUBSET Peer
  BY MessageKinds DEF TypeOK
<1>3. RequestsIn(d)' \in Nat /\ AnswersIn(d)' \in Nat
  <2>1. TypeOK'
    BY TypeStep DEF Next, Serve
  <2> QED BY <2>1, CountType DEF TypeOK, RequestsIn, AnswersIn
<1>4. /\ RequestsIn(d) = RequestsIn(d)' + IF d = p THEN 1 ELSE 0
      /\ AnswersIn(d)' = AnswersIn(d)
  <2>1. /\ RequestsIn(d) = RequestsIn(d)' + IF d = p THEN One(Request(k), Questions) ELSE 0
        /\ AnswersIn(d) = AnswersIn(d)' + IF d = p THEN One(Request(k), Replies) ELSE 0
    BY <1>1, <1>2, TakesCounts
  <2> QED BY <1>3, <2>1, Ones
<1>5. CASE stored
  <2>1. /\ RequestsOut(d)' =
             RequestsOut(d) + IF d = p THEN One(Data(k, origin[k]), Questions) ELSE 0
        /\ DataOut(d)' =
             DataOut(d) + IF d = p THEN One(Data(k, origin[k]), Contents) ELSE 0
    BY <1>1, <1>2, <1>5, ServerSendsCounts
  <2> QED BY <1>2, <1>4, <1>5, <2>1, Ones, CountsType
<1>6. CASE ~stored /\ IsWanted
  <2>1. toClient' = toClient
    BY <1>1, <1>6 DEF RequestMissing
  <2> QED BY <1>4, <1>6, <2>1 DEF SameOut, RequestsOut, DataOut
<1>7. CASE ~stored /\ ~IsWanted
  <2>1. toClient' = SendToAll(toClient, online \ {p}, Request(0))
    BY <1>1, <1>7 DEF RequestMissing
  <2>2. /\ RequestsOut(d)' =
             RequestsOut(d) + Within(d, online \ {p}, One(Request(0), Questions))
        /\ DataOut(d)' =
             DataOut(d) + Within(d, online \ {p}, One(Request(0), Contents))
    BY <1>2, <2>1, BroadcastCounts
  <2>3. Within(d, online \ {p}, 0) = 0
    BY DEF Within
  <2> QED BY <1>2, <1>4, <1>7, <2>2, <2>3, Ones, CountsType
<1> QED BY <1>5, <1>6, <1>7

LEMMA HandleDataCounts ==
  ASSUME TypeOK, NEW p \in Peer, NEW k \in Chunk, Takes(p, Data(k, p)), NEW d \in Peer
  PROVE  /\ RequestsIn(d)' = RequestsIn(d)
         /\ AnswersIn(d) = AnswersIn(d)' + IF d = p THEN 1 ELSE 0
         /\ AnswersIn(d)' \in Nat
<1>1. Data(k, p) \in Message
  BY MessageKinds
<1>2. RequestsIn(d)' \in Nat /\ AnswersIn(d)' \in Nat
  <2>1. toServer' \in [Peer -> Seq(Message)]
    BY PopType DEF TypeOK, Takes
  <2> QED BY <2>1, CountType DEF RequestsIn, AnswersIn
<1>3. /\ RequestsIn(d) = RequestsIn(d)' + IF d = p THEN One(Data(k, p), Questions) ELSE 0
      /\ AnswersIn(d) = AnswersIn(d)' + IF d = p THEN One(Data(k, p), Replies) ELSE 0
  BY <1>1, TakesCounts
<1> QED BY <1>2, <1>3, Ones

\* The next chunk is requested from the source.
LEMMA NextChunkCounts ==
  ASSUME TypeOK, NEW p \in Peer, NEW k \in Chunk, ~IsLast(k), NEW d \in Peer
  PROVE  toClient' = Send(toClient, p, Request(k + 1)) =>
           /\ RequestsOut(d)' = RequestsOut(d) + IF d = p THEN 1 ELSE 0
           /\ DataOut(d)' = DataOut(d)
<1>1. k + 1 \in Chunk /\ Request(k + 1) \in Message
  BY AssetAssumption, MessageKinds DEF IsLast, Chunk
<1>2. toClient' = Send(toClient, p, Request(k + 1)) =>
        /\ RequestsOut(d)' = RequestsOut(d) + IF d = p THEN One(Request(k + 1), Questions) ELSE 0
        /\ DataOut(d)' = DataOut(d) + IF d = p THEN One(Request(k + 1), Contents) ELSE 0
  BY <1>1, ServerSendsCounts
<1> QED BY <1>1, <1>2, Ones, CountsType

\* The asset is announced to its recipients.
LEMMA ForwardCounts ==
  ASSUME TypeOK, IsWanted, NEW chunks \in [Chunk -> Peer \cup {NoPeer}], Forward(chunks), NEW d \in Peer
  PROVE  /\ RequestsOut(d)' = RequestsOut(d)
         /\ DataOut(d)' \in Nat
         /\ DataOut(d)' <= DataOut(d) + wanted.recipients[d]
<1> DEFINE m == Data(0, chunks[0])
           r == wanted.recipients
<1>1. /\ 0 \in Chunk /\ m \in Message /\ r \in [Peer -> Nat] /\ r[d] \in Nat
      /\ online \in SUBSET Peer /\ toClient' = SendToRecipients(toClient, r, online, m)
  BY MessageKinds, WantedType DEF TypeOK, Forward
<1>2. Copies(m, r[d], Questions) = 0 /\ Copies(m, r[d], Contents) = r[d]
  BY DEF Copies, Data, Questions, Contents
<1>3. Within(d, online, 0) = 0 /\ Within(d, online, r[d]) \in {0, r[d]}
  BY DEF Within
<1> HIDE DEF m, r
<1>4. /\ RequestsOut(d)' = RequestsOut(d) + Within(d, online, Copies(m, r[d], Questions))
      /\ DataOut(d)' = DataOut(d) + Within(d, online, Copies(m, r[d], Contents))
  BY <1>1, AnnounceCounts
<1>5. RequestsOut(d) \in Nat /\ DataOut(d) \in Nat
  BY CountsType
<1> QED BY <1>1, <1>2, <1>3, <1>4, <1>5 DEF r

LEMMA HandleFailureCounts ==
  ASSUME TypeOK, NEW p \in Peer, HandleFailure(p), NEW d \in Peer
  PROVE  /\ RequestsIn(d)' = RequestsIn(d)
         /\ AnswersIn(d) = AnswersIn(d)' + IF d = p THEN 1 ELSE 0
         /\ AnswersIn(d)' \in Nat
         /\ SameOut(d)
<1>1. Takes(p, Failure) /\ Failure \in Message
  BY MessageKinds DEF HandleFailure
<1>2. RequestsIn(d)' \in Nat /\ AnswersIn(d)' \in Nat
  <2>1. toServer' \in [Peer -> Seq(Message)]
    BY <1>1, PopType DEF TypeOK, Takes
  <2> QED BY <2>1, CountType DEF RequestsIn, AnswersIn
<1>3. /\ RequestsIn(d) = RequestsIn(d)' + IF d = p THEN One(Failure, Questions) ELSE 0
      /\ AnswersIn(d) = AnswersIn(d)' + IF d = p THEN One(Failure, Replies) ELSE 0
  BY <1>1, TakesCounts
<1>4. SameOut(d)
  <2>1. CASE toClient' = toClient
    BY <2>1 DEF SameOut, RequestsOut, DataOut
  <2>2. CASE IsWanted /\ toClient' = SendToRecipients(toClient, wanted.recipients, online, Failure)
    <3> DEFINE r == wanted.recipients
    <3>1. /\ r \in [Peer -> Nat] /\ toClient \in [Peer -> Seq(Message)]
          /\ online \in SUBSET Peer
      BY <2>2, WantedType DEF TypeOK
    <3> HIDE DEF r
    <3>2. LET after == SendToRecipients(toClient, r, online, Failure)
          IN /\ Count(after[d], Questions) = Count(toClient[d], Questions)
             /\ Count(after[d], Contents) = Count(toClient[d], Contents)
      BY <3>1, FailureCounts
    <3> QED BY <2>2, <3>2 DEF SameOut, RequestsOut, DataOut, r
  <2> QED BY <2>1, <2>2 DEF HandleFailure
<1> QED BY <1>2, <1>3, <1>4, Ones

LEMMA AnswerCounts ==
  ASSUME TypeOK, NEW p \in Peer, AnswerRequest(p), NEW d \in Peer
  PROVE  /\ RequestsIn(d)' = RequestsIn(d) /\ DataOut(d)' = DataOut(d)
         /\ d # p => /\ AnswersIn(d)' = AnswersIn(d)
                     /\ RequestsOut(d)' = RequestsOut(d)
         /\ d = p => AnswersIn(d)' + RequestsOut(d)' <= AnswersIn(d) + RequestsOut(d)
<1>1. PICK k \in Chunk :
        /\ Gets(p, Request(k))
        /\ toServer' = CASE holding[p] = "has"    -> Send(toServer, p, Data(k, p))
                         [] holding[p] = "lacks"  -> Send(toServer, p, Failure)
                         [] holding[p] = "silent" -> toServer
  BY DEF AnswerRequest
<1>2. Request(k) \in Message /\ Data(k, p) \in Message /\ Failure \in Message
  BY MessageKinds
<1>3. RequestsOut(d)' \in Nat /\ DataOut(d)' \in Nat
  <2>1. toClient' \in [Peer -> Seq(Message)]
    BY <1>1, PopType DEF TypeOK, Gets
  <2> QED BY <2>1, CountType DEF RequestsOut, DataOut
<1>4. /\ RequestsOut(d) = RequestsOut(d)' + IF d = p THEN 1 ELSE 0
      /\ DataOut(d) = DataOut(d)'
  <2>1. /\ RequestsOut(d) = RequestsOut(d)' + IF d = p THEN One(Request(k), Questions) ELSE 0
        /\ DataOut(d) = DataOut(d)' + IF d = p THEN One(Request(k), Contents) ELSE 0
    BY <1>1, <1>2, GetsCounts
  <2> QED BY <1>3, <2>1, Ones
<1>5. /\ RequestsIn(d)' = RequestsIn(d)
      /\ AnswersIn(d)' \in {AnswersIn(d), AnswersIn(d) + IF d = p THEN 1 ELSE 0}
  <2>1. CASE toServer' = Send(toServer, p, Data(k, p))
    <3>1. /\ RequestsIn(d)' = RequestsIn(d) + IF d = p THEN One(Data(k, p), Questions) ELSE 0
          /\ AnswersIn(d)' = AnswersIn(d) + IF d = p THEN One(Data(k, p), Replies) ELSE 0
      BY <1>2, <2>1, SendsCounts
    <3> QED BY <3>1, Ones, CountsType
  <2>2. CASE toServer' = Send(toServer, p, Failure)
    <3>1. /\ RequestsIn(d)' = RequestsIn(d) + IF d = p THEN One(Failure, Questions) ELSE 0
          /\ AnswersIn(d)' = AnswersIn(d) + IF d = p THEN One(Failure, Replies) ELSE 0
      BY <1>2, <2>2, SendsCounts
    <3> QED BY <3>1, Ones, CountsType
  <2>3. CASE toServer' = toServer
    BY <2>3 DEF RequestsIn, AnswersIn
  <2>4. holding[p] \in {"has", "lacks", "silent"}
    BY DEF TypeOK
  <2> QED BY <1>1, <2>1, <2>2, <2>3, <2>4
<1> QED BY <1>3, <1>4, <1>5, CountsType

LEMMA ReceiveDataCounts ==
  ASSUME TypeOK, NEW p \in Peer, ReceiveData(p), NEW d \in Peer
  PROVE  /\ AnswersIn(d)' = AnswersIn(d) /\ RequestsOut(d)' = RequestsOut(d)
         /\ d # p => SameIn(d) /\ SameOut(d)
         /\ d = p => RequestsIn(d)' + DataOut(d)' <= RequestsIn(d) + DataOut(d)
<1>1. PICK k \in Chunk, q \in Peer \cup {NoPeer} :
        /\ Gets(p, Data(k, q))
        /\ IF IsLast(k)
             THEN UNCHANGED toServer
             ELSE toServer' = Send(toServer, p, Request(k + 1))
  BY DEF ReceiveData
<1>2. Data(k, q) \in Message
  BY MessageKinds
<1>3. RequestsOut(d)' \in Nat /\ DataOut(d)' \in Nat
  <2>1. toClient' \in [Peer -> Seq(Message)]
    BY <1>1, PopType DEF TypeOK, Gets
  <2> QED BY <2>1, CountType DEF RequestsOut, DataOut
<1>4. /\ DataOut(d) = DataOut(d)' + IF d = p THEN 1 ELSE 0
      /\ RequestsOut(d) = RequestsOut(d)'
  <2>1. /\ RequestsOut(d) = RequestsOut(d)' + IF d = p THEN One(Data(k, q), Questions) ELSE 0
        /\ DataOut(d) = DataOut(d)' + IF d = p THEN One(Data(k, q), Contents) ELSE 0
    BY <1>1, <1>2, GetsCounts
  <2> QED BY <1>3, <2>1, Ones
<1>5. /\ AnswersIn(d)' = AnswersIn(d)
      /\ RequestsIn(d)' \in {RequestsIn(d), RequestsIn(d) + IF d = p THEN 1 ELSE 0}
  <2>1. CASE IsLast(k)
    BY <1>1, <2>1 DEF RequestsIn, AnswersIn
  <2>2. CASE ~IsLast(k)
    <3>1. k + 1 \in Chunk /\ Request(k + 1) \in Message
      BY <2>2, AssetAssumption, MessageKinds DEF IsLast, Chunk
    <3>2. /\ RequestsIn(d)' = RequestsIn(d) + IF d = p THEN One(Request(k + 1), Questions) ELSE 0
          /\ AnswersIn(d)' = AnswersIn(d) + IF d = p THEN One(Request(k + 1), Replies) ELSE 0
      BY <1>1, <2>2, <3>1, SendsCounts
    <3> QED BY <3>1, <3>2, Ones, CountsType
  <2> QED BY <2>1, <2>2
<1> QED BY <1>3, <1>4, <1>5, CountsType DEF SameIn, SameOut

LEMMA ReceiveFailureCounts ==
  ASSUME TypeOK, NEW p \in Peer, ReceiveFailure(p), NEW d \in Peer
  PROVE  SameIn(d) /\ SameOut(d)
<1>1. Gets(p, Failure) /\ Failure \in Message /\ toServer' = toServer
  BY MessageKinds DEF ReceiveFailure
<1>2. RequestsOut(d)' \in Nat /\ DataOut(d)' \in Nat
  <2>1. toClient' \in [Peer -> Seq(Message)]
    BY <1>1, PopType DEF TypeOK, Gets
  <2> QED BY <2>1, CountType DEF RequestsOut, DataOut
<1>3. /\ RequestsOut(d) = RequestsOut(d)' + IF d = p THEN One(Failure, Questions) ELSE 0
      /\ DataOut(d) = DataOut(d)' + IF d = p THEN One(Failure, Contents) ELSE 0
  BY <1>1, GetsCounts
<1> QED BY <1>1, <1>2, <1>3, Ones DEF SameIn, SameOut, RequestsIn, AnswersIn

-----------------------------------------------------------------------------
(* Who is among the recipients, when clients ask at most once.             *)

\* How often a client is among the recipients
NotedTimes(d) == IF IsWanted THEN wanted.recipients[d] ELSE 0

\* A client that asked is under way, among the recipients or being answered
\* at most as often as it asked.
AsksCounted ==
  \A d \in Peer :
    /\ asks[d] <= MaxAsks
    /\ RequestsIn(d) + DataOut(d) + NotedTimes(d) <= asks[d]

\* A client without connection asked nothing.
OfflineAsks == \A d \in Peer \ online : asks[d] = 0

LEMMA NotedTimesType ==
  ASSUME TypeOK, NEW d \in Peer
  PROVE  NotedTimes(d) \in Nat
BY WantedType DEF NotedTimes

LEMMA NotedTimesDisconnect ==
  ASSUME TypeOK, NEW p \in Peer, Disconnect(p), NEW d \in Peer
  PROVE  /\ NotedTimes(d)' \in Nat
         /\ d # p => NotedTimes(d)' <= NotedTimes(d)
         /\ d = p /\ NotedTimes(d) <= 1 => NotedTimes(d)' = 0
<1>1. CASE IsWanted /\ RemoveFromWanted(wanted, p).remaining # {}
  <2>1. wanted' = RemoveFromWanted(wanted, p) /\ IsWanted'
    BY <1>1, RemoveTyped, ProofAssumption DEF Disconnect, IsWanted
  <2>2. wanted.recipients \in [Peer -> Nat]
    BY <1>1, WantedType
  <2>3. NotedTimes(d)' = RemoveFromWanted(wanted, p).recipients[d]
    BY <2>1 DEF NotedTimes
  <2>4. RemoveFromWanted(wanted, p).recipients[d] =
          IF d = p THEN (IF wanted.recipients[d] = 0 THEN 0 ELSE wanted.recipients[d] - 1)
                   ELSE wanted.recipients[d]
    BY <1>1, <2>2, WantedType DEF RemoveFromWanted, WantedAsset
  <2> QED BY <1>1, <2>2, <2>3, <2>4 DEF NotedTimes
<1>2. CASE ~(IsWanted /\ RemoveFromWanted(wanted, p).remaining # {})
  <2>1. wanted' = NotWanted
    BY <1>2 DEF Disconnect
  <2> QED BY <2>1, NotedTimesType DEF NotedTimes, IsWanted
<1> QED BY <1>1, <1>2

LEMMA NotedTimesRequest ==
  ASSUME TypeOK, NEW p \in Peer, HandleRequest(p), NEW d \in Peer
  PROVE  /\ stored => NotedTimes(d)' = NotedTimes(d)
         /\ ~stored => NotedTimes(d)' = NotedTimes(d) + IF d = p THEN 1 ELSE 0
<1>1. CASE stored
  BY <1>1 DEF HandleRequest, NotedTimes, IsWanted
<1>2. CASE ~stored /\ IsWanted
  <2>1. wanted' = [wanted EXCEPT !.recipients[p] = @ + 1]
    BY <1>2 DEF HandleRequest, RequestMissing
  <2>2. wanted' \in WantedAsset
    BY <1>2, RequestMissingTyped DEF HandleRequest
  <2>3. IsWanted'
    BY <2>2, ProofAssumption DEF IsWanted
  <2>4. wanted'.recipients[d] = wanted.recipients[d] + IF d = p THEN 1 ELSE 0
    BY <1>2, <2>1, WantedType DEF WantedAsset
  <2> QED BY <1>2, <2>3, <2>4 DEF NotedTimes
<1>3. CASE ~stored /\ ~IsWanted
  <2>1. wanted' = [recipients |-> [q \in Peer |-> IF q = p THEN 1 ELSE 0],
                   source     |-> NoPeer,
                   remaining  |-> online \ {p}]
    BY <1>3 DEF HandleRequest, RequestMissing
  <2>2. wanted' \in WantedAsset
    BY <1>3, RequestMissingTyped DEF HandleRequest
  <2>3. IsWanted'
    BY <2>2, ProofAssumption DEF IsWanted
  <2> QED BY <1>3, <2>1, <2>3 DEF NotedTimes
<1> QED BY <1>1, <1>2, <1>3

LEMMA NotedTimesFailure ==
  ASSUME TypeOK, NEW p \in Peer, HandleFailure(p), NEW d \in Peer
  PROVE  NotedTimes(d)' \in {0, NotedTimes(d)}
<1>1. CASE wanted' = wanted \/ wanted' = NotWanted
  BY <1>1 DEF NotedTimes, IsWanted
<1>2. CASE IsWanted /\ wanted' = [wanted EXCEPT !.remaining = wanted.remaining \ {p}]
  <2>1. wanted'.recipients = wanted.recipients
    BY <1>2, WantedType DEF WantedAsset
  <2> QED BY <1>2, <2>1 DEF NotedTimes, IsWanted
<1> QED BY <1>1, <1>2 DEF HandleFailure

LEMMA AskedStep ==
  ASSUME TypeOK, AsksCounted, OfflineAsks, [Next]_vars, MaxAsks <= 1
  PROVE  AsksCounted' /\ OfflineAsks'
<1> USE ProofAssumption
<1>0. /\ asks \in [Peer -> Nat]
      /\ \A d \in Peer : /\ RequestsIn(d) \in Nat /\ DataOut(d) \in Nat
                         /\ NotedTimes(d) \in Nat /\ asks[d] \in Nat
  BY CountsType, NotedTimesType DEF TypeOK
<1>00. TypeOK'
  BY TypeStep
<1>000. \A d \in Peer : RequestsIn(d)' \in Nat /\ DataOut(d)' \in Nat
  BY <1>00, CountType DEF TypeOK, RequestsIn, DataOut
<1>1. ASSUME NEW p \in Peer, Disconnect(p)
      PROVE  AsksCounted' /\ OfflineAsks'
  <2>1. asks' = [asks EXCEPT ![p] = 0] /\ online' = online \ {p}
    BY <1>1 DEF Disconnect
  <2>2. ASSUME NEW d \in Peer
        PROVE  /\ asks'[d] <= MaxAsks
               /\ RequestsIn(d)' + DataOut(d)' + NotedTimes(d)' <= asks'[d]
    <3>1. /\ d # p => SameIn(d) /\ SameOut(d)
          /\ d = p => RequestsIn(d)' = 0 /\ DataOut(d)' = 0
      BY <1>1, DisconnectCounts
    <3>2. /\ NotedTimes(d)' \in Nat
          /\ d # p => NotedTimes(d)' <= NotedTimes(d)
          /\ d = p /\ NotedTimes(d) <= 1 => NotedTimes(d)' = 0
      BY <1>1, NotedTimesDisconnect
    <3>3. /\ asks[d] <= MaxAsks
          /\ RequestsIn(d) + DataOut(d) + NotedTimes(d) <= asks[d]
      BY DEF AsksCounted
    <3> QED BY <1>0, <2>1, <3>1, <3>2, <3>3 DEF SameIn, SameOut
  <2>3. AsksCounted'
    BY <2>2 DEF AsksCounted
  <2> QED BY <1>0, <2>1, <2>3 DEF OfflineAsks
<1>2. ASSUME NEW p \in Peer, Ask(p)
      PROVE  AsksCounted' /\ OfflineAsks'
  <2>1. asks' = [asks EXCEPT ![p] = @ + 1] /\ online' = online /\ asks[p] < MaxAsks
        /\ p \in online /\ wanted' = wanted
    BY <1>2 DEF Ask
  <2>2. ASSUME NEW d \in Peer
        PROVE  /\ asks'[d] <= MaxAsks
               /\ RequestsIn(d)' + DataOut(d)' + NotedTimes(d)' <= asks'[d]
    <3>1. /\ RequestsIn(d)' = RequestsIn(d) + IF d = p THEN 1 ELSE 0
          /\ DataOut(d)' = DataOut(d)
      BY <1>2, AskCounts DEF SameOut
    <3>2. NotedTimes(d)' = NotedTimes(d)
      BY <2>1 DEF NotedTimes, IsWanted
    <3> QED BY <1>0, <2>1, <3>1, <3>2 DEF AsksCounted
  <2>3. AsksCounted'
    BY <2>2 DEF AsksCounted
  <2> QED BY <1>0, <2>1, <2>3 DEF OfflineAsks
<1>3. ASSUME NEW p \in Peer, HandleRequest(p)
      PROVE  AsksCounted'
  <2>1. asks' = asks
    BY <1>3 DEF HandleRequest
  <2>2. ASSUME NEW d \in Peer
        PROVE  RequestsIn(d)' + DataOut(d)' + NotedTimes(d)' <= asks[d]
    <3>1. RequestsIn(d) = RequestsIn(d)' + IF d = p THEN 1 ELSE 0
      BY <1>3, HandleRequestCounts
    <3>2. /\ stored => DataOut(d)' = DataOut(d) + IF d = p THEN 1 ELSE 0
          /\ ~stored => DataOut(d)' = DataOut(d)
      BY <1>3, HandleRequestCounts DEF SameOut
    <3>3. /\ stored => NotedTimes(d)' = NotedTimes(d)
          /\ ~stored => NotedTimes(d)' = NotedTimes(d) + IF d = p THEN 1 ELSE 0
      BY <1>3, NotedTimesRequest
    <3> QED BY <1>0, <1>000, <3>1, <3>2, <3>3 DEF AsksCounted
  <2> QED BY <2>1, <2>2 DEF AsksCounted
<1>4. ASSUME NEW p \in Peer, HandleData(p)
      PROVE  AsksCounted'
  <2>1. PICK k \in Chunk :
          /\ Takes(p, Data(k, p))
          /\ IF Accepts(p)
               THEN /\ stored' = TRUE
                    /\ origin' = [origin EXCEPT ![k] = p]
                    /\ IF IsLast(k)
                         THEN Forward([origin EXCEPT ![k] = p])
                         ELSE /\ wanted' = [wanted EXCEPT !.source = p]
                              /\ toClient' = Send(toClient, p, Request(k + 1))
               ELSE UNCHANGED <<stored, origin, wanted, toClient>>
    BY <1>4 DEF HandleData
  <2>2. asks' = asks
    BY <1>4 DEF HandleData
  <2>3. ASSUME NEW d \in Peer
        PROVE  RequestsIn(d)' + DataOut(d)' + NotedTimes(d)' <= asks[d]
    <3>1. RequestsIn(d)' = RequestsIn(d)
      BY <2>1, HandleDataCounts
    <3>2. CASE Accepts(p) /\ IsLast(k)
      <4>1. [origin EXCEPT ![k] = p] \in [Chunk -> Peer \cup {NoPeer}]
        BY DEF TypeOK
      <4>2. DataOut(d)' <= DataOut(d) + wanted.recipients[d] /\ IsWanted
        BY <2>1, <3>2, <4>1, ForwardCounts DEF Accepts
      <4>3. NotedTimes(d)' = 0 /\ NotedTimes(d) = wanted.recipients[d]
        BY <2>1, <3>2, <4>2 DEF Forward, NotedTimes, IsWanted
      <4> QED BY <1>0, <1>000, <3>1, <4>2, <4>3 DEF AsksCounted
    <3>3. CASE Accepts(p) /\ ~IsLast(k)
      <4>1. DataOut(d)' = DataOut(d)
        BY <2>1, <3>3, NextChunkCounts
      <4>2. wanted'.recipients = wanted.recipients
        BY <2>1, <3>3, WantedType DEF Accepts, WantedAsset
      <4>3. NotedTimes(d)' \in {0, NotedTimes(d)}
        BY <3>3, <4>2 DEF NotedTimes, Accepts
      <4> QED BY <1>0, <3>1, <4>1, <4>3 DEF AsksCounted
    <3>4. CASE ~Accepts(p)
      BY <1>0, <2>1, <3>1, <3>4 DEF AsksCounted, NotedTimes, IsWanted, DataOut
    <3> QED BY <3>2, <3>3, <3>4
  <2> QED BY <2>2, <2>3 DEF AsksCounted
<1>5. ASSUME NEW p \in Peer, HandleFailure(p)
      PROVE  AsksCounted'
  <2>1. asks' = asks
    BY <1>5 DEF HandleFailure
  <2>2. ASSUME NEW d \in Peer
        PROVE  RequestsIn(d)' + DataOut(d)' + NotedTimes(d)' <= asks[d]
    <3>1. RequestsIn(d)' = RequestsIn(d) /\ DataOut(d)' = DataOut(d)
      BY <1>5, HandleFailureCounts DEF SameOut
    <3>2. NotedTimes(d)' \in {0, NotedTimes(d)}
      BY <1>5, NotedTimesFailure
    <3> QED BY <1>0, <3>1, <3>2 DEF AsksCounted
  <2> QED BY <2>1, <2>2 DEF AsksCounted
<1>6. ASSUME NEW p \in Peer, Receive(p)
      PROVE  AsksCounted'
  <2>1. asks' = asks /\ wanted' = wanted
    BY <1>6 DEF Receive, AnswerRequest, ReceiveData, ReceiveFailure
  <2>2. ASSUME NEW d \in Peer
        PROVE  RequestsIn(d)' + DataOut(d)' + NotedTimes(d)' <= asks[d]
    <3>1. RequestsIn(d)' + DataOut(d)' <= RequestsIn(d) + DataOut(d)
      <4>1. CASE AnswerRequest(p)
        BY <1>0, <4>1, AnswerCounts
      <4>2. CASE ReceiveData(p)
        BY <1>0, <4>2, ReceiveDataCounts DEF SameIn, SameOut
      <4>3. CASE ReceiveFailure(p)
        BY <1>0, <4>3, ReceiveFailureCounts DEF SameIn, SameOut
      <4> QED BY <1>6, <4>1, <4>2, <4>3 DEF Receive
    <3>2. NotedTimes(d)' = NotedTimes(d)
      BY <2>1 DEF NotedTimes, IsWanted
    <3> QED BY <1>0, <1>000, <3>1, <3>2 DEF AsksCounted
  <2> QED BY <2>1, <2>2 DEF AsksCounted
<1>7. ASSUME NEW p \in Peer, Serve(p) \/ Receive(p)
      PROVE  OfflineAsks'
  BY <1>7 DEF Serve, Receive, HandleRequest, HandleData, HandleFailure,
              AnswerRequest, ReceiveData, ReceiveFailure, OfflineAsks
<1>8. ASSUME NEW p \in Peer, Connect(p)
      PROVE  AsksCounted' /\ OfflineAsks'
  BY <1>8 DEF Connect, AsksCounted, OfflineAsks, RequestsIn, DataOut, NotedTimes, IsWanted
<1>9. CASE Prune \/ UNCHANGED vars
  BY <1>9 DEF Prune, vars, AsksCounted, OfflineAsks, RequestsIn, DataOut, NotedTimes, IsWanted
<1> QED BY <1>1, <1>2, <1>3, <1>4, <1>5, <1>6, <1>7, <1>8, <1>9 DEF Next, Serve

-----------------------------------------------------------------------------
(* Who is asked for the asset, while the store does not drop it.           *)

\* A client is asked for the asset once, and as long as its answer matters
\* it is waited for.
Careful(d) ==
  /\ Outstanding(d) <= 1
  /\ Outstanding(d) > 0 => (IsWanted /\ d \in wanted.remaining) \/ stored

EveryoneCareful == \A d \in Peer : Careful(d)

LEMMA OutstandingCounts ==
  ASSUME TypeOK, NEW d \in Peer
  PROVE  /\ Outstanding(d) = RequestsOut(d) + AnswersIn(d)
         /\ Outstanding(d)' = RequestsOut(d)' + AnswersIn(d)'
         /\ RequestsOut(d) \in Nat /\ AnswersIn(d) \in Nat /\ Outstanding(d) \in Nat
<1>1. RequestsOut(d) \in Nat /\ AnswersIn(d) \in Nat
  BY CountsType
<1> QED BY <1>1 DEF Outstanding, RequestsOut, AnswersIn, Questions, Replies

LEMMA CarefulStep ==
  ASSUME TypeOK, EveryoneCareful, [Next]_vars, MaxPrunes = 0
  PROVE  EveryoneCareful'
<1>0. TypeOK'
  BY TypeStep
<1>00. \A d \in Peer : /\ RequestsOut(d)' \in Nat /\ AnswersIn(d)' \in Nat
  BY <1>0, CountType DEF TypeOK, RequestsOut, AnswersIn
<1> SUFFICES ASSUME NEW d \in Peer
             PROVE  Careful(d)'
  BY DEF EveryoneCareful
<1>1. Careful(d)
  BY DEF EveryoneCareful
<1>2. /\ Outstanding(d) = RequestsOut(d) + AnswersIn(d)
      /\ Outstanding(d)' = RequestsOut(d)' + AnswersIn(d)'
      /\ RequestsOut(d) \in Nat /\ AnswersIn(d) \in Nat /\ Outstanding(d) \in Nat
      /\ RequestsOut(d)' \in Nat /\ AnswersIn(d)' \in Nat
  BY <1>00, OutstandingCounts
<1>3. ASSUME NEW p \in Peer, Disconnect(p)
      PROVE  Careful(d)'
  <2>1. CASE d = p
    <3>1. RequestsOut(d)' = 0 /\ AnswersIn(d)' = 0
      BY <1>3, <2>1, DisconnectCounts
    <3> QED BY <1>2, <3>1 DEF Careful
  <2>2. CASE d # p
    <3>1. Outstanding(d)' = Outstanding(d)
      BY <1>2, <1>3, <2>2, DisconnectCounts DEF SameIn, SameOut
    <3>2. stored' = stored
      BY <1>3 DEF Disconnect
    <3>3. ASSUME IsWanted, d \in wanted.remaining
          PROVE  IsWanted' /\ d \in wanted'.remaining
      <4>1. d \in RemoveFromWanted(wanted, p).remaining
        BY <2>2, <3>3, RemoveTyped
      <4>2. wanted' = RemoveFromWanted(wanted, p)
        BY <1>3, <3>3, <4>1 DEF Disconnect
      <4> QED BY <3>3, <4>1, <4>2, RemoveTyped, ProofAssumption DEF IsWanted
    <3> QED BY <1>1, <3>1, <3>2, <3>3 DEF Careful
  <2> QED BY <2>1, <2>2
<1>4. ASSUME NEW p \in Peer, Ask(p)
      PROVE  Careful(d)'
  <2>1. Outstanding(d)' = Outstanding(d)
    BY <1>2, <1>4, AskCounts DEF SameOut
  <2> QED BY <1>1, <1>4, <2>1 DEF Careful, Ask, IsWanted
<1>5. ASSUME NEW p \in Peer, HandleRequest(p)
      PROVE  Careful(d)'
  <2>1. AnswersIn(d)' = AnswersIn(d) /\ stored' = stored
    BY <1>5, HandleRequestCounts DEF HandleRequest
  <2>2. CASE stored
    <3>1. Outstanding(d)' = Outstanding(d)
      BY <1>2, <1>5, <2>1, <2>2, HandleRequestCounts
    <3> QED BY <1>1, <2>1, <2>2, <3>1 DEF Careful
  <2>3. CASE ~stored /\ IsWanted
    <3>1. Outstanding(d)' = Outstanding(d)
      BY <1>2, <1>5, <2>1, <2>3, HandleRequestCounts DEF SameOut
    <3>2. wanted' = [wanted EXCEPT !.recipients[p] = @ + 1] /\ wanted' \in WantedAsset
      BY <1>5, <2>3, RequestMissingTyped DEF HandleRequest, RequestMissing
    <3>3. IsWanted' /\ wanted'.remaining = wanted.remaining
      BY <2>3, <3>2, WantedType, ProofAssumption DEF WantedAsset, IsWanted
    <3> QED BY <1>1, <2>3, <3>1, <3>3 DEF Careful
  <2>4. CASE ~stored /\ ~IsWanted
    <3>1. Outstanding(d) = 0
      BY <1>1, <1>2, <2>4 DEF Careful
    <3>2. RequestsOut(d)' = RequestsOut(d) + Within(d, online \ {p}, 1)
      BY <1>5, <2>4, HandleRequestCounts
    <3>3. wanted'.remaining = online \ {p} /\ wanted' \in WantedAsset
      BY <1>5, <2>4, RequestMissingTyped DEF HandleRequest, RequestMissing
    <3>4. IsWanted'
      BY <3>3, ProofAssumption DEF IsWanted
    <3> QED BY <1>2, <2>1, <3>1, <3>2, <3>3, <3>4 DEF Careful, Within
  <2> QED BY <2>2, <2>3, <2>4
<1>6. ASSUME NEW p \in Peer, HandleData(p)
      PROVE  Careful(d)'
  <2>1. PICK k \in Chunk :
          /\ Takes(p, Data(k, p))
          /\ IF Accepts(p)
               THEN /\ stored' = TRUE
                    /\ origin' = [origin EXCEPT ![k] = p]
                    /\ IF IsLast(k)
                         THEN Forward([origin EXCEPT ![k] = p])
                         ELSE /\ wanted' = [wanted EXCEPT !.source = p]
                              /\ toClient' = Send(toClient, p, Request(k + 1))
               ELSE UNCHANGED <<stored, origin, wanted, toClient>>
    BY <1>6 DEF HandleData
  <2>2. AnswersIn(d) = AnswersIn(d)' + IF d = p THEN 1 ELSE 0
    BY <2>1, HandleDataCounts
  <2>3. CASE Accepts(p)
    <3>1. RequestsOut(d)' <= RequestsOut(d) + IF d = p THEN 1 ELSE 0
      <4>1. CASE IsLast(k)
        <5>1. [origin EXCEPT ![k] = p] \in [Chunk -> Peer \cup {NoPeer}]
          BY DEF TypeOK
        <5>2. Forward([origin EXCEPT ![k] = p]) /\ IsWanted
          BY <2>1, <2>3, <4>1 DEF Accepts
        <5>3. RequestsOut(d)' = RequestsOut(d)
          BY <5>1, <5>2, ForwardCounts
        <5> QED BY <1>2, <5>3
      <4>2. CASE ~IsLast(k)
        BY <1>2, <2>1, <2>3, <4>2, NextChunkCounts
      <4> QED BY <4>1, <4>2
    <3>2. Outstanding(d)' <= Outstanding(d)
      BY <1>2, <2>2, <3>1
    <3> QED BY <1>1, <1>2, <2>1, <2>3, <3>2 DEF Careful
  <2>4. CASE ~Accepts(p)
    <3>1. UNCHANGED <<stored, wanted, toClient>>
      BY <2>1, <2>4
    <3>2. RequestsOut(d)' = RequestsOut(d)
      BY <3>1 DEF RequestsOut
    <3>3. Outstanding(d)' <= Outstanding(d)
      BY <1>2, <2>2, <3>2
    <3> QED BY <1>1, <1>2, <3>1, <3>3 DEF Careful, IsWanted
  <2> QED BY <2>3, <2>4
<1>7. ASSUME NEW p \in Peer, HandleFailure(p)
      PROVE  Careful(d)'
  <2>1. /\ AnswersIn(d) = AnswersIn(d)' + IF d = p THEN 1 ELSE 0
        /\ RequestsOut(d)' = RequestsOut(d) /\ stored' = stored
    BY <1>7, HandleFailureCounts DEF SameOut, HandleFailure
  <2>2. CASE d = p
    <3>1. Outstanding(d)' = 0
      BY <1>1, <1>2, <2>1, <2>2 DEF Careful
    <3> QED BY <3>1 DEF Careful
  <2>3. CASE d # p
    <3>1. Outstanding(d)' = Outstanding(d)
      BY <1>2, <2>1, <2>3
    <3>2. ASSUME IsWanted, d \in wanted.remaining
          PROVE  IsWanted' /\ d \in wanted'.remaining
      <4>1. ~NobodyLeft(wanted.remaining \ {p})
        BY <2>3, <3>2 DEF NobodyLeft
      <4>2. wanted' = [wanted EXCEPT !.remaining = wanted.remaining \ {p}]
        BY <1>7, <3>2, <4>1 DEF HandleFailure
      <4>3. wanted' \in WantedAsset /\ wanted'.remaining = wanted.remaining \ {p}
        BY <3>2, <4>2, WantedType DEF WantedAsset
      <4> QED BY <2>3, <3>2, <4>3, ProofAssumption DEF IsWanted
    <3> QED BY <1>1, <2>1, <3>1, <3>2 DEF Careful
  <2> QED BY <2>2, <2>3
<1>8. ASSUME NEW p \in Peer, Receive(p)
      PROVE  Careful(d)'
  <2>1. stored' = stored /\ wanted' = wanted
    BY <1>8 DEF Receive, AnswerRequest, ReceiveData, ReceiveFailure
  <2>2. Outstanding(d)' <= Outstanding(d)
    <3>1. CASE AnswerRequest(p)
      BY <1>2, <3>1, AnswerCounts
    <3>2. CASE ReceiveData(p)
      BY <1>2, <3>2, ReceiveDataCounts
    <3>3. CASE ReceiveFailure(p)
      BY <1>2, <3>3, ReceiveFailureCounts DEF SameIn, SameOut
    <3> QED BY <1>8, <3>1, <3>2, <3>3 DEF Receive
  <2> QED BY <1>1, <1>2, <2>1, <2>2 DEF Careful, IsWanted
<1>9. ASSUME NEW p \in Peer, Connect(p)
      PROVE  Careful(d)'
  BY <1>1, <1>9 DEF Connect, Careful, Outstanding, IsWanted
<1>10. ~Prune
  BY DEF Prune, TypeOK
<1>11. CASE UNCHANGED vars
  BY <1>1, <1>11 DEF vars, Careful, Outstanding, IsWanted
<1> QED BY <1>3, <1>4, <1>5, <1>6, <1>7, <1>8, <1>9, <1>10, <1>11 DEF Next, Serve

-----------------------------------------------------------------------------
(* The chunks are asked for in order, while the store does not drop them.  *)

\* The chunks before chunk k are stored.
Before(k) == \A j \in Chunk : j < k => origin[j] # NoPeer

\* The messages of a queue
Messages(q) == {q[i] : i \in 1 .. Len(q)}

\* A chunk is asked for, and provided, after those before it.
ChunksInOrder ==
  \A d \in Peer :
    /\ \A x \in Messages(toClient[d]) : x.type = "request" => Before(x.chunk)
    /\ \A x \in Messages(toServer[d]) : x.type = "data" => Before(x.chunk)

\* The messages of a queue after each queue operator
LEMMA SendMessages ==
  ASSUME NEW queues \in [Peer -> Seq(Message)], NEW p \in Peer, NEW m \in Message,
         NEW d \in Peer
  PROVE  \A x \in Messages(Send(queues, p, m)[d]) : x \in Messages(queues[d]) \/ x = m
<1>1. queues[d] \in Seq(Message)
  OBVIOUS
<1>2. CASE d = p
  <2>1. Send(queues, p, m)[d] = Append(queues[d], m)
    BY <1>2 DEF Send
  <2>2. /\ Len(Append(queues[d], m)) = Len(queues[d]) + 1
        /\ \A i \in 1 .. Len(queues[d]) + 1 :
             Append(queues[d], m)[i] = IF i <= Len(queues[d]) THEN queues[d][i] ELSE m
    BY <1>1
  <2>3. Len(queues[d]) \in Nat
    BY <1>1
  <2> QED BY <2>1, <2>2, <2>3 DEF Messages
<1>3. CASE d # p
  BY <1>3 DEF Send
<1> QED BY <1>2, <1>3

LEMMA PopMessages ==
  ASSUME NEW queues \in [Peer -> Seq(Message)], NEW p \in Peer, queues[p] # <<>>,
         NEW d \in Peer
  PROVE  /\ \A x \in Messages(Pop(queues, p)[d]) : x \in Messages(queues[d])
         /\ Head(queues[p]) \in Messages(queues[p])
<1>1. /\ queues[p] \in Seq(Message) /\ Len(queues[p]) \in Nat /\ Len(queues[p]) > 0
      /\ Len(Tail(queues[p])) = Len(queues[p]) - 1
      /\ \A i \in 1 .. Len(Tail(queues[p])) : Tail(queues[p])[i] = queues[p][i + 1]
      /\ Head(queues[p]) = queues[p][1]
  BY HeadTailProperties
<1>2. Head(queues[p]) \in Messages(queues[p])
  BY <1>1 DEF Messages
<1>3. CASE d = p
  <2>1. Pop(queues, p)[d] = Tail(queues[p])
    BY <1>3 DEF Pop
  <2>2. \A i \in 1 .. Len(queues[p]) - 1 : i + 1 \in 1 .. Len(queues[p])
    BY <1>1
  <2> QED BY <1>1, <1>2, <1>3, <2>1, <2>2 DEF Messages
<1>4. CASE d # p
  BY <1>2, <1>4 DEF Pop
<1> QED BY <1>3, <1>4

LEMMA ToAllMessages ==
  ASSUME NEW queues \in [Peer -> Seq(Message)], NEW S, NEW m \in Message, NEW d \in Peer
  PROVE  \A x \in Messages(SendToAll(queues, S, m)[d]) : x \in Messages(queues[d]) \/ x = m
<1>1. queues[d] \in Seq(Message)
  OBVIOUS
<1>2. CASE d \in S
  <2>1. SendToAll(queues, S, m)[d] = Send(queues, d, m)[d]
    BY <1>2 DEF Send, SendToAll
  <2> QED BY <2>1, SendMessages
<1>3. CASE d \notin S
  BY <1>3 DEF SendToAll
<1> QED BY <1>2, <1>3

LEMMA ToRecipientsMessages ==
  ASSUME NEW queues \in [Peer -> Seq(Message)], NEW r \in [Peer -> Nat], NEW S,
         NEW m \in Message, NEW d \in Peer
  PROVE  \A x \in Messages(SendToRecipients(queues, r, S, m)[d]) :
           x \in Messages(queues[d]) \/ x = m
<1>1. queues[d] \in Seq(Message) /\ r[d] \in Nat /\ Len(queues[d]) \in Nat
  OBVIOUS
<1>2. CASE d \in S
  <2> DEFINE q == queues[d]
             t == Repeat(m, r[d])
  <2>1. SendToRecipients(queues, r, S, m)[d] = q \o t
    BY <1>2 DEF SendToRecipients
  <2>2. t \in Seq(Message) /\ Len(t) = r[d] /\ \A i \in 1 .. r[d] : t[i] = m
    BY <1>1 DEF Repeat
  <2>6. q \in Seq(Message) /\ Len(q) \in Nat /\ r[d] \in Nat
    BY <1>1
  <2> HIDE DEF q, t
  <2>3. /\ Len(q \o t) = Len(q) + r[d]
        /\ \A i \in 1 .. Len(q) + r[d] :
             (q \o t)[i] = IF i <= Len(q) THEN q[i] ELSE t[i - Len(q)]
    BY <2>2, <2>6, ConcatProperties
  <2>4. \A i \in 1 .. Len(q) + r[d] :
          i \in 1 .. Len(q) \/ (~(i <= Len(q)) /\ i - Len(q) \in 1 .. r[d])
    BY <2>6
  <2> QED BY <2>1, <2>2, <2>3, <2>4 DEF Messages, q
<1>3. CASE d \notin S
  BY <1>3 DEF SendToRecipients
<1> QED BY <1>2, <1>3

LEMMA EmptyMessages == Messages(<<>>) = {}
BY DEF Messages

LEMMA OrderStep ==
  ASSUME TypeOK, ChunksInOrder, [Next]_vars, MaxPrunes = 0
  PROVE  ChunksInOrder'
<1> DEFINE In(d)  == \A x \in Messages(toServer[d]) : x.type = "data" => Before(x.chunk)
           Out(d) == \A x \in Messages(toClient[d]) : x.type = "request" => Before(x.chunk)
<1>0. /\ toServer \in [Peer -> Seq(Message)] /\ toClient \in [Peer -> Seq(Message)]
      /\ \A d \in Peer : In(d) /\ Out(d)
      /\ origin \in [Chunk -> Peer \cup {NoPeer}]
  BY DEF TypeOK, ChunksInOrder
<1>1. Before(0)
  BY DEF Before, Chunk
<1>2. ASSUME NEW p \in Peer, Connect(p)
      PROVE  ChunksInOrder'
  BY <1>2 DEF Connect, ChunksInOrder, Before
<1>3. ASSUME NEW p \in Peer, Disconnect(p)
      PROVE  ChunksInOrder'
  <2> DEFINE dropped == [toClient EXCEPT ![p] = <<>>]
             r == RemoveFromWanted(wanted, p).recipients
             others == online \ {p}
  <2>1. origin' = origin /\ toServer' = [toServer EXCEPT ![p] = <<>>]
    BY <1>3 DEF Disconnect
  <2>2. \A d \in Peer : In(d)'
    BY <1>0, <2>1, EmptyMessages DEF Before
  <2>3. dropped \in [Peer -> Seq(Message)]
    BY <1>0
  <2>4. \A d \in Peer : \A x \in Messages(dropped[d]) : x.type = "request" => Before(x.chunk)
    BY <1>0, EmptyMessages
  <2>5. \A d \in Peer : Out(d)'
    <3>1. CASE toClient' = dropped
      BY <2>1, <2>4, <3>1 DEF Before
    <3>2. CASE IsWanted /\ toClient' = SendToRecipients(dropped, r, others, Failure)
      <4>1. r \in [Peer -> Nat] /\ Failure \in Message /\ Failure.type # "request"
        BY <3>2, RemoveTyped, MessageKinds
      <4> HIDE DEF r, others, dropped
      <4>2. ASSUME NEW d \in Peer
            PROVE  \A x \in Messages(toClient'[d]) : x \in Messages(dropped[d]) \/ x = Failure
        BY <2>3, <3>2, <4>1, ToRecipientsMessages
      <4> QED BY <2>1, <2>4, <4>1, <4>2 DEF Before
    <3> QED BY <1>3, <3>1, <3>2 DEF Disconnect
  <2> HIDE DEF In, Out
  <2> QED BY <2>2, <2>5 DEF ChunksInOrder, In, Out
<1>4. ASSUME NEW p \in Peer, Ask(p)
      PROVE  ChunksInOrder'
  <2>1. /\ origin' = origin /\ toClient' = toClient
        /\ toServer' = Send(toServer, p, Request(0))
        /\ Request(0) \in Message /\ Request(0).type # "data"
    BY <1>4, MessageKinds DEF Ask
  <2>2. \A d \in Peer : \A x \in Messages(toServer'[d]) :
          x \in Messages(toServer[d]) \/ x = Request(0)
    BY <1>0, <2>1, SendMessages
  <2> QED BY <2>1, <2>2 DEF ChunksInOrder, Before
<1>5. ASSUME NEW p \in Peer, NEW m \in Message, Takes(p, m)
      PROVE  /\ \A d \in Peer : \A x \in Messages(toServer'[d]) : x \in Messages(toServer[d])
             /\ m \in Messages(toServer[p])
  <2>1. toServer[p] # <<>> /\ m = Head(toServer[p]) /\ toServer' = Pop(toServer, p)
    BY <1>5 DEF Takes
  <2> QED BY <1>0, <2>1, PopMessages
<1>6. ASSUME NEW p \in Peer, NEW m \in Message, Gets(p, m)
      PROVE  /\ \A d \in Peer : \A x \in Messages(toClient'[d]) : x \in Messages(toClient[d])
             /\ m \in Messages(toClient[p])
  <2>1. toClient[p] # <<>> /\ m = Head(toClient[p]) /\ toClient' = Pop(toClient, p)
    BY <1>6 DEF Gets
  <2> QED BY <1>0, <2>1, PopMessages
<1>7. ASSUME NEW p \in Peer, HandleRequest(p)
      PROVE  ChunksInOrder'
  <2>1. PICK k \in Chunk :
          /\ Takes(p, Request(k))
          /\ IF stored
               THEN /\ toClient' = Send(toClient, p, Data(k, origin[k]))
                    /\ UNCHANGED wanted
               ELSE RequestMissing(p)
    BY <1>7 DEF HandleRequest
  <2>2. origin' = origin /\ Request(k) \in Message
    BY <1>7, MessageKinds DEF HandleRequest
  <2>3. \A d \in Peer : \A x \in Messages(toServer'[d]) : x \in Messages(toServer[d])
    BY <1>5, <2>1, <2>2
  <2>4. ASSUME NEW d \in Peer
        PROVE  \A x \in Messages(toClient'[d]) :
                 x.type = "request" => x \in Messages(toClient[d]) \/ x = Request(0)
    <3>1. CASE stored
      <4>1. /\ Data(k, origin[k]) \in Message /\ Data(k, origin[k]).type # "request"
        BY <1>0, MessageKinds
      <4>2. toClient' = Send(toClient, p, Data(k, origin[k]))
        BY <2>1, <3>1
      <4>3. \A x \in Messages(toClient'[d]) :
              x \in Messages(toClient[d]) \/ x = Data(k, origin[k])
        BY <1>0, <4>1, <4>2, SendMessages
      <4> QED BY <4>1, <4>3
    <3>2. CASE ~stored /\ IsWanted
      BY <2>1, <3>2 DEF RequestMissing
    <3>3. CASE ~stored /\ ~IsWanted
      <4>1. toClient' = SendToAll(toClient, online \ {p}, Request(0)) /\ Request(0) \in Message
        BY <2>1, <3>3, MessageKinds DEF RequestMissing
      <4> QED BY <1>0, <4>1, ToAllMessages
    <3> QED BY <3>1, <3>2, <3>3
  <2>5. Request(0).chunk = 0
    BY DEF Request
  <2> QED BY <1>1, <2>2, <2>3, <2>4, <2>5 DEF ChunksInOrder, Before
<1>8. ASSUME NEW p \in Peer, HandleData(p)
      PROVE  ChunksInOrder'
  <2>1. PICK k \in Chunk :
          /\ Takes(p, Data(k, p))
          /\ IF Accepts(p)
               THEN /\ stored' = TRUE
                    /\ origin' = [origin EXCEPT ![k] = p]
                    /\ IF IsLast(k)
                         THEN Forward([origin EXCEPT ![k] = p])
                         ELSE /\ wanted' = [wanted EXCEPT !.source = p]
                              /\ toClient' = Send(toClient, p, Request(k + 1))
               ELSE UNCHANGED <<stored, origin, wanted, toClient>>
    BY <1>8 DEF HandleData
  <2>2. Data(k, p) \in Message /\ Data(k, p).type = "data" /\ Data(k, p).chunk = k
    BY MessageKinds DEF Data
  <2>3. /\ \A d \in Peer : \A x \in Messages(toServer'[d]) : x \in Messages(toServer[d])
        /\ Data(k, p) \in Messages(toServer[p])
    BY <1>5, <2>1, <2>2
  <2>4. Before(k)
    BY <2>2, <2>3 DEF ChunksInOrder
  <2>5. \A j \in Chunk : origin[j] # NoPeer => origin'[j] # NoPeer
    BY <1>0, <2>1, AssetAssumption
  <2>6. \A n : Before(n) => Before(n)'
    BY <2>5 DEF Before
  <2>7. ~IsLast(k) /\ Accepts(p) => Before(k + 1)'
    <3>1. \A j \in Chunk : j < k + 1 => j < k \/ j = k
      BY DEF Chunk
    <3>2. Accepts(p) => origin'[k] # NoPeer
      BY <1>0, <2>1, AssetAssumption
    <3> QED BY <2>4, <2>5, <3>1, <3>2 DEF Before
  <2>8. ASSUME NEW d \in Peer
        PROVE  \A x \in Messages(toClient'[d]) :
                 x.type = "request" =>
                   \/ x \in Messages(toClient[d])
                   \/ x = Request(k + 1) /\ ~IsLast(k) /\ Accepts(p)
    <3>1. CASE Accepts(p) /\ IsLast(k)
      <4> DEFINE m == Data(0, [origin EXCEPT ![k] = p][0])
                 r == wanted.recipients
      <4>1. /\ m \in Message /\ m.type # "request" /\ r \in [Peer -> Nat]
            /\ toClient' = SendToRecipients(toClient, r, online, m)
        BY <1>0, <2>1, <3>1, MessageKinds, WantedType DEF Forward, Accepts
      <4> HIDE DEF m, r
      <4>2. \A x \in Messages(toClient'[d]) : x \in Messages(toClient[d]) \/ x = m
        BY <1>0, <4>1, ToRecipientsMessages
      <4> QED BY <4>1, <4>2
    <3>2. CASE Accepts(p) /\ ~IsLast(k)
      <4>1. Request(k + 1) \in Message /\ toClient' = Send(toClient, p, Request(k + 1))
        BY <2>1, <3>2, MessageKinds
      <4>2. \A x \in Messages(toClient'[d]) : x \in Messages(toClient[d]) \/ x = Request(k + 1)
        BY <1>0, <4>1, SendMessages
      <4> QED BY <3>2, <4>2
    <3>3. CASE ~Accepts(p)
      BY <2>1, <3>3
    <3> QED BY <3>1, <3>2, <3>3
  <2>9. Request(k + 1).chunk = k + 1
    BY DEF Request
  <2> QED BY <2>3, <2>6, <2>7, <2>8, <2>9 DEF ChunksInOrder
<1>9. ASSUME NEW p \in Peer, HandleFailure(p)
      PROVE  ChunksInOrder'
  <2>1. Takes(p, Failure) /\ Failure \in Message /\ Failure.type # "request" /\ origin' = origin
    BY <1>9, MessageKinds DEF HandleFailure
  <2>2. \A d \in Peer : \A x \in Messages(toServer'[d]) : x \in Messages(toServer[d])
    BY <1>5, <2>1
  <2>3. ASSUME NEW d \in Peer
        PROVE  \A x \in Messages(toClient'[d]) : x \in Messages(toClient[d]) \/ x = Failure
    <3>1. CASE toClient' = toClient
      BY <3>1
    <3>2. CASE IsWanted /\ toClient' = SendToRecipients(toClient, wanted.recipients, online, Failure)
      <4>1. wanted.recipients \in [Peer -> Nat]
        BY <3>2, WantedType
      <4> QED BY <1>0, <2>1, <3>2, <4>1, ToRecipientsMessages
    <3> QED BY <1>9, <3>1, <3>2 DEF HandleFailure
  <2> QED BY <2>1, <2>2, <2>3 DEF ChunksInOrder, Before
<1>10. ASSUME NEW p \in Peer, AnswerRequest(p)
       PROVE  ChunksInOrder'
  <2>1. PICK k \in Chunk :
          /\ Gets(p, Request(k))
          /\ toServer' = CASE holding[p] = "has"    -> Send(toServer, p, Data(k, p))
                           [] holding[p] = "lacks"  -> Send(toServer, p, Failure)
                           [] holding[p] = "silent" -> toServer
    BY <1>10 DEF AnswerRequest
  <2>2. origin' = origin
    BY <1>10 DEF AnswerRequest
  <2>3. /\ Request(k) \in Message /\ Request(k).type = "request" /\ Request(k).chunk = k
        /\ Data(k, p) \in Message /\ Data(k, p).chunk = k
        /\ Failure \in Message /\ Failure.type # "data"
    BY MessageKinds DEF Request, Data
  <2>4. /\ \A d \in Peer : \A x \in Messages(toClient'[d]) : x \in Messages(toClient[d])
        /\ Request(k) \in Messages(toClient[p])
    BY <1>6, <2>1, <2>3
  <2>5. Before(k)
    BY <2>3, <2>4 DEF ChunksInOrder
  <2>6. ASSUME NEW d \in Peer
        PROVE  \A x \in Messages(toServer'[d]) :
                 x \in Messages(toServer[d]) \/ x = Data(k, p) \/ x = Failure
    <3>1. CASE toServer' = Send(toServer, p, Data(k, p))
      BY <1>0, <2>3, <3>1, SendMessages
    <3>2. CASE toServer' = Send(toServer, p, Failure)
      BY <1>0, <2>3, <3>2, SendMessages
    <3>3. CASE toServer' = toServer
      BY <3>3
    <3>4. holding[p] \in {"has", "lacks", "silent"}
      BY DEF TypeOK
    <3> QED BY <2>1, <3>1, <3>2, <3>3, <3>4
  <2> QED BY <2>2, <2>3, <2>4, <2>5, <2>6 DEF ChunksInOrder, Before
<1>11. ASSUME NEW p \in Peer, ReceiveData(p)
       PROVE  ChunksInOrder'
  <2>1. PICK k \in Chunk, q \in Peer \cup {NoPeer} :
          /\ Gets(p, Data(k, q))
          /\ IF IsLast(k)
               THEN UNCHANGED toServer
               ELSE toServer' = Send(toServer, p, Request(k + 1))
    BY <1>11 DEF ReceiveData
  <2>2. origin' = origin /\ Data(k, q) \in Message
    BY <1>11, MessageKinds DEF ReceiveData
  <2>3. \A d \in Peer : \A x \in Messages(toClient'[d]) : x \in Messages(toClient[d])
    BY <1>6, <2>1, <2>2
  <2>4. ASSUME NEW d \in Peer
        PROVE  \A x \in Messages(toServer'[d]) :
                 x.type = "data" => x \in Messages(toServer[d])
    <3>1. CASE IsLast(k)
      BY <2>1, <3>1
    <3>2. CASE ~IsLast(k)
      <4>1. Request(k + 1) \in Message /\ Request(k + 1).type # "data"
        BY <3>2, MessageKinds
      <4>2. toServer' = Send(toServer, p, Request(k + 1))
        BY <2>1, <3>2
      <4>3. \A x \in Messages(toServer'[d]) : x \in Messages(toServer[d]) \/ x = Request(k + 1)
        BY <1>0, <4>1, <4>2, SendMessages
      <4> QED BY <4>1, <4>3
    <3> QED BY <3>1, <3>2
  <2> QED BY <2>2, <2>3, <2>4 DEF ChunksInOrder, Before
<1>12. ASSUME NEW p \in Peer, ReceiveFailure(p)
       PROVE  ChunksInOrder'
  <2>1. Gets(p, Failure) /\ Failure \in Message /\ origin' = origin /\ toServer' = toServer
    BY <1>12, MessageKinds DEF ReceiveFailure
  <2>2. \A d \in Peer : \A x \in Messages(toClient'[d]) : x \in Messages(toClient[d])
    BY <1>6, <2>1
  <2> QED BY <2>1, <2>2 DEF ChunksInOrder, Before
<1>13. ~Prune
  BY DEF Prune, TypeOK
<1>14. CASE UNCHANGED vars
  BY <1>14 DEF vars, ChunksInOrder, Before
<1> HIDE DEF In, Out
<1> QED BY <1>2, <1>3, <1>4, <1>7, <1>8, <1>9, <1>10, <1>11, <1>12, <1>13, <1>14
        DEF Next, Serve, Receive

-----------------------------------------------------------------------------
(* The theorems.                                                           *)

LEMMA InvInit == Init => IInv
<1>1. Init => SourcesConnected /\ SourceIsOrigin /\ UnstoredUnwritten
             /\ OneOrigin /\ OfflineIdle
  BY DEF Init, SourcesConnected, SourceIsOrigin, UnstoredUnwritten, OneOrigin,
         OfflineIdle, IsWanted
<1>2. Init => NoRequestForgotten
  BY DEF Init, NoRequestForgotten
<1> QED BY <1>1, <1>2, TypeInit DEF IInv

LEMMA InvStep == IInv /\ [Next]_vars => IInv'
BY TypeStep, SourcesStep, OriginStep, OfflineStep, RequestStep DEF IInv, OriginInv

\* The inductive invariant holds in every reachable state.
THEOREM AssetInvariance == Spec => []IInv
BY InvInit, InvStep, PTL DEF Spec

\* Every variable keeps its type.
THEOREM AssetTypes == Spec => []TypeOK
<1>1. IInv => TypeOK
  BY DEF IInv
<1> QED BY <1>1, AssetInvariance, PTL

\* The server never waits for a client that has left.
THEOREM SourcesConnectedTheorem == Spec => []SourcesConnected
<1>1. IInv => SourcesConnected
  BY DEF IInv
<1> QED BY <1>1, AssetInvariance, PTL

\* The server never mixes the chunks of two clients.
THEOREM OneOriginTheorem == Spec => []OneOrigin
<1>1. IInv => OneOrigin
  BY DEF IInv
<1> QED BY <1>1, AssetInvariance, PTL

\* However clients ask, leave and come back, the request of a client that is
\* waiting is under way, noted or being answered.
THEOREM NoRequestForgottenTheorem == Spec => []NoRequestForgotten
<1>1. IInv => NoRequestForgotten
  BY DEF IInv
<1> QED BY <1>1, AssetInvariance, PTL

\* A client that asked at most once and left is not among the recipients: no
\* answer goes to whoever gets its ENet peer next (_remove_client_from_wanted
\* removes one occurrence, so asking twice would break it).
THEOREM RecipientsConnectedTheorem ==
  ASSUME MaxAsks <= 1
  PROVE  Spec => []RecipientsConnected
<1> DEFINE Inv == TypeOK /\ AsksCounted /\ OfflineAsks
<1>1. Init => Inv
  <2>1. Init => OfflineAsks /\ \A d \in Peer : asks[d] = 0 /\ NotedTimes(d) = 0
    BY DEF Init, OfflineAsks, NotedTimes, IsWanted
  <2>2. Init => \A d \in Peer : RequestsIn(d) = 0 /\ DataOut(d) = 0
    <3>1. <<>> \in Seq(Message)
      OBVIOUS
    <3>2. Count(<<>>, Questions) = 0 /\ Count(<<>>, Contents) = 0
      BY <3>1, CountType
    <3> QED BY <3>2 DEF Init, RequestsIn, DataOut
  <2> QED BY <2>1, <2>2, TypeInit, ProofAssumption DEF AsksCounted
<1>2. Inv /\ [Next]_vars => Inv'
  BY TypeStep, AskedStep
<1>3. Inv => RecipientsConnected
  <2> SUFFICES ASSUME Inv, IsWanted, NEW p \in Peer, wanted.recipients[p] > 0, p \notin online
               PROVE  FALSE
    BY DEF RecipientsConnected
  <2>1. asks[p] = 0
    BY DEF OfflineAsks
  <2>2. NotedTimes(p) > 0 /\ NotedTimes(p) \in Nat
    BY NotedTimesType DEF NotedTimes
  <2>3. RequestsIn(p) \in Nat /\ DataOut(p) \in Nat
    BY CountsType
  <2> QED BY <2>1, <2>2, <2>3 DEF AsksCounted
<1> HIDE DEF Inv
<1> QED BY <1>1, <1>2, <1>3, PTL DEF Spec

\* What holds as long as the store does not drop the asset
LEMMA CarefulInvariance ==
  ASSUME MaxPrunes = 0
  PROVE  Spec => [](TypeOK /\ EveryoneCareful)
<1> DEFINE Inv == TypeOK /\ EveryoneCareful
<1>1. Init => Inv
  <2>1. <<>> \in Seq(Message)
    OBVIOUS
  <2>2. Count(<<>>, {"request"}) = 0 /\ Count(<<>>, {"data", "failure"}) = 0
    BY <2>1, CountType
  <2>3. Init => \A d \in Peer : Outstanding(d) = 0
    BY <2>2 DEF Init, Outstanding
  <2> QED BY <2>3, TypeInit DEF EveryoneCareful, Careful
<1>2. Inv /\ [Next]_vars => Inv'
  BY TypeStep, CarefulStep
<1> HIDE DEF Inv
<1>3. Spec => []Inv
  BY <1>1, <1>2, PTL DEF Spec
<1> QED BY <1>3 DEF Inv

\* The server has never two requests for the asset at one client, however many
\* clients ask for it and whoever leaves, while the store does not drop it
\* (_request_missing_asset broadcasts only what is not wanted yet).
THEOREM OneRequestTheorem ==
  ASSUME MaxPrunes = 0
  PROVE  Spec => []OneRequestPerSource
<1>1. TypeOK /\ EveryoneCareful => OneRequestPerSource
  BY DEF EveryoneCareful, Careful, OneRequestPerSource
<1> QED BY <1>1, CarefulInvariance, PTL

\* A client whose answer is awaited stays among the potential sources until the
\* store has the asset, so that the server gives up only when nobody can
\* deliver (handle_assets, _remove_client_from_wanted).
THEOREM PatientServerTheorem ==
  ASSUME MaxPrunes = 0
  PROVE  Spec => []PatientServer
<1>1. TypeOK /\ EveryoneCareful => PatientServer
  BY DEF TypeOK, EveryoneCareful, Careful, PatientServer
<1> QED BY <1>1, CarefulInvariance, PTL

\* When the asset is announced to its recipients the store has every chunk of
\* it: the end of the last chunk, which is all the code looks at, comes after
\* the others.
THEOREM AvailableIsCompleteTheorem ==
  ASSUME MaxPrunes = 0
  PROVE  Spec => AvailableIsComplete
<1> DEFINE Inv == TypeOK /\ ChunksInOrder
           Announced == \A p \in Peer :
             HandleData(p) /\ IsWanted /\ wanted' = NotWanted
               => \A k \in Chunk : origin'[k] # NoPeer
<1>1. Init => Inv
  BY TypeInit, EmptyMessages DEF Init, ChunksInOrder
<1>2. Inv /\ [Next]_vars => Inv'
  BY TypeStep, OrderStep
<1>3. Inv /\ [Next]_vars => [Announced]_vars
  <2> SUFFICES ASSUME TypeOK, ChunksInOrder, NEW p \in Peer, HandleData(p), IsWanted,
                      wanted' = NotWanted
               PROVE  \A k \in Chunk : origin'[k] # NoPeer
    OBVIOUS
  <2>1. PICK k \in Chunk :
          /\ Takes(p, Data(k, p))
          /\ IF Accepts(p)
               THEN /\ origin' = [origin EXCEPT ![k] = p]
                    /\ ~IsLast(k) => wanted' = [wanted EXCEPT !.source = p]
               ELSE UNCHANGED wanted
    BY DEF HandleData
  <2>2. Accepts(p)
    BY <2>1 DEF IsWanted
  <2>3. IsLast(k)
    <3>1. [wanted EXCEPT !.source = p] \in WantedAsset
      BY WantedType DEF WantedAsset
    <3> QED BY <2>1, <2>2, <3>1, ProofAssumption
  <2>4. Data(k, p) \in Messages(toServer[p]) /\ Data(k, p).type = "data" /\ Data(k, p).chunk = k
    <3>1. /\ toServer \in [Peer -> Seq(Message)] /\ toServer[p] # <<>>
          /\ Head(toServer[p]) = Data(k, p)
      BY <2>1 DEF TypeOK, Takes
    <3> QED BY <3>1, PopMessages DEF Data
  <2>5. Before(k)
    BY <2>4 DEF ChunksInOrder
  <2>6. \A j \in Chunk : j = k \/ j < k
    BY <2>3, AssetAssumption DEF IsLast, Chunk
  <2> QED BY <2>1, <2>2, <2>5, <2>6, AssetAssumption DEF TypeOK, Before
<1>4. [][Announced]_vars => AvailableIsComplete
  BY DEF AvailableIsComplete
<1> HIDE DEF Inv, Announced
<1> QED BY <1>1, <1>2, <1>3, <1>4, PTL DEF Spec

=============================================================================
