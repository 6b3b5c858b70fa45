-------------------------- MODULE ClientProxyProofs --------------------------
(***************************************************************************)
(* Proofs about ClientProxy, for any number of calls and callbacks and an  *)
(* application that disconnects outside of its callbacks.                  *)
(***************************************************************************)
EXTENDS ClientProxy, SequenceTheorems, TLAPS

ASSUME OutsideCallbacks == DisconnectInCallback = FALSE

\* The refinements: the application's calls on their way to the bridge, and the
\* bridge's callbacks on their way to the application.
Calls     == INSTANCE Channel WITH got <- handled
Callbacks == INSTANCE Channel WITH sent <- posted, got <- delivered

\* Each direction is a channel: two queues, two mutexes, drains in the middle of
\* which more is enqueued, polls that stop at a disconnect and a connect that
\* posts its failure neither lose nor repeat nor reorder a call or a callback.
ImplementsChannels == Calls!Spec /\ Callbacks!Spec

-----------------------------------------------------------------------------
(* The inductive invariant.                                                *)

\* A thread that waits to post has something to post.
TypeInv ==
  /\ TypeOK
  /\ net \in {"posting", "failing"} => posting \in ToProxy

Queued(type) == \E i \in DOMAIN proxyToBridge : proxyToBridge[i].type = type

\* The application connects once.
ConnectOnce ==
  /\ ~connectCalled => calling.type # "connect"
  /\ ~connectCalled \/ calling.type = "connect" => ~Queued("connect")
  /\ ~connectCalled \/ calling.type = "connect" \/ Queued("connect")
       => conn = "none" /\ net # "connecting"
  /\ \A i, j \in DOMAIN proxyToBridge :
       proxyToBridge[i].type = "connect" /\ proxyToBridge[j].type = "connect" => i = j

\* Until the first callback is posted, alloclient_poll has nothing to do, so
\* it takes no second mutex; and a connect fails before the first callback.
QuietUntilPosted ==
  /\ posted = 0 => /\ bridgeToProxy = <<>> /\ handling = NoMessage
                   /\ polling => calling = NoMessage
  /\ conn = "none" => posted = 0 /\ net \notin {"posting", "failing"}
  /\ net = "connecting" => conn = "none"
  /\ net = "failing" => posted = 0

\* The network thread ends only after the application has left its loop.
ExitAfterDisconnect ==
  /\ app = "running" => running /\ ~Queued("disconnect")
  /\ app # "running" => calling = NoMessage /\ ~polling
  /\ calling.type = "disconnect" => ~polling
  /\ net = "exited" => ~running /\ proxyToBridge = <<>>

\* The calls in the queue are those made and not handled, in order.
InOrder(q, done, made) ==
  /\ done <= made
  /\ \A i \in DOMAIN q : q[i].type = "call" => q[i].n > done /\ q[i].n <= made
  /\ \A i, j \in DOMAIN q :
       i < j /\ q[i].type = "call" /\ q[j].type = "call" => q[i].n < q[j].n
  /\ \A n \in (done + 1) .. made : \E i \in DOMAIN q : q[i] = Msg("call", n)

CallsQueued ==
  /\ CallsInOrder
  /\ calling.type = "call" => calling.n = sent + 1
  /\ InOrder(proxyToBridge, Len(handled), sent)

\* The callbacks in the queue are those posted and not delivered, in order.
CallbacksQueued ==
  /\ DeliveredInOrder
  /\ posted = Len(delivered) + Len(bridgeToProxy)
  /\ \A i \in DOMAIN bridgeToProxy : bridgeToProxy[i].n = Len(delivered) + i
  /\ net \in {"posting", "failing"} => posting.n = posted + 1

IInv ==
  /\ TypeInv /\ ConnectOnce /\ QuietUntilPosted
  /\ ExitAfterDisconnect /\ CallsQueued /\ CallbacksQueued

-----------------------------------------------------------------------------
(* Queues.                                                                 *)

\* r is q without its head; r is q with m at its end.
IsTail(q, r) ==
  /\ DOMAIN q \subseteq Nat \ {0} /\ DOMAIN r \subseteq Nat \ {0} /\ 1 \in DOMAIN q
  /\ \A i \in DOMAIN r : i + 1 \in DOMAIN q /\ r[i] = q[i + 1]
  /\ \A i \in DOMAIN q : i # 1 => i - 1 \in DOMAIN r

IsExtended(q, r, m) ==
  \E last \in DOMAIN r :
    /\ DOMAIN r \subseteq Nat \ {0} /\ DOMAIN r = DOMAIN q \cup {last}
    /\ r[last] = m
    /\ \A i \in DOMAIN q : r[i] = q[i] /\ i < last

LEMMA TailOfQueue ==
  ASSUME NEW S, NEW q \in Seq(S), q # <<>>
  PROVE  /\ Tail(q) \in Seq(S) /\ Head(q) = q[1] /\ Head(q) \in S
         /\ IsTail(q, Tail(q)) /\ Len(q) = Len(Tail(q)) + 1
BY DEF IsTail

LEMMA AppendToQueue ==
  ASSUME NEW S, NEW q \in Seq(S), NEW m \in S
  PROVE  /\ Append(q, m) \in Seq(S) /\ Len(Append(q, m)) = Len(q) + 1
         /\ IsExtended(q, Append(q, m), m)
<1>1. Len(q) + 1 \in DOMAIN Append(q, m)
  OBVIOUS
<1> QED BY <1>1 DEF IsExtended

\* Taking and adding keep the calls in order.
LEMMA CallTaken ==
  ASSUME NEW q, NEW r, NEW done \in Nat, NEW made \in Nat, IsTail(q, r),
         InOrder(q, done, made), q[1].type = "call", q[1].n \in Nat
  PROVE  q[1].n = done + 1 /\ InOrder(r, done + 1, made)
<1>1. done + 1 <= made
  BY DEF InOrder, IsTail
<1>2. PICK i \in DOMAIN q : q[i] = Msg("call", done + 1)
  BY <1>1 DEF InOrder
<1>3. q[1].n = done + 1
  BY <1>2 DEF InOrder, IsTail, Msg
<1>4. \A j \in DOMAIN r : r[j].type = "call" => r[j].n > done + 1 /\ r[j].n <= made
  BY <1>3 DEF InOrder, IsTail
<1>5. \A j, k \in DOMAIN r :
        j < k /\ r[j].type = "call" /\ r[k].type = "call" => r[j].n < r[k].n
  BY DEF InOrder, IsTail
<1>6. ASSUME NEW n \in (done + 1 + 1) .. made
      PROVE  \E j \in DOMAIN r : r[j] = Msg("call", n)
  <2>1. PICK k \in DOMAIN q : q[k] = Msg("call", n)
    BY DEF InOrder
  <2>2. k # 1
    BY <1>3, <2>1 DEF Msg
  <2>3. k - 1 \in DOMAIN r /\ r[k - 1] = q[k]
    BY <2>2 DEF IsTail
  <2> QED BY <2>1, <2>3
<1> QED BY <1>1, <1>3, <1>4, <1>5, <1>6 DEF InOrder

LEMMA OtherTaken ==
  ASSUME NEW q, NEW r, NEW done \in Nat, NEW made \in Nat, IsTail(q, r),
         InOrder(q, done, made), q[1].type # "call"
  PROVE  InOrder(r, done, made)
<1>1. ASSUME NEW n \in (done + 1) .. made
      PROVE  \E j \in DOMAIN r : r[j] = Msg("call", n)
  <2>1. PICK k \in DOMAIN q : q[k] = Msg("call", n)
    BY DEF InOrder
  <2>2. k - 1 \in DOMAIN r /\ r[k - 1] = q[k]
    BY <2>1 DEF IsTail, Msg
  <2> QED BY <2>1, <2>2
<1> QED BY <1>1 DEF InOrder, IsTail

LEMMA CallAdded ==
  ASSUME NEW q, NEW r, NEW done \in Nat, NEW made \in Nat,
         \A i \in DOMAIN q : q[i].n \in Nat,
         IsExtended(q, r, Msg("call", made + 1)), InOrder(q, done, made)
  PROVE  InOrder(r, done, made + 1)
<1>1. PICK last \in DOMAIN r :
        /\ DOMAIN r = DOMAIN q \cup {last}
        /\ r[last] = Msg("call", made + 1)
        /\ \A i \in DOMAIN q : r[i] = q[i] /\ i < last
  BY DEF IsExtended
<1>2. \A i \in DOMAIN r : r[i].type = "call" => r[i].n > done /\ r[i].n <= made + 1
  BY <1>1 DEF InOrder, Msg
<1>3. \A i, j \in DOMAIN r :
        i < j /\ r[i].type = "call" /\ r[j].type = "call" => r[i].n < r[j].n
  BY <1>1 DEF InOrder, Msg, IsExtended
<1>4. ASSUME NEW n \in (done + 1) .. (made + 1)
      PROVE  \E i \in DOMAIN r : r[i] = Msg("call", n)
  BY <1>1 DEF InOrder
<1> QED BY <1>2, <1>3, <1>4 DEF InOrder

LEMMA OtherAdded ==
  ASSUME NEW q, NEW r, NEW done \in Nat, NEW made \in Nat, NEW m,
         IsExtended(q, r, m), m.type # "call", InOrder(q, done, made)
  PROVE  InOrder(r, done, made)
BY DEF InOrder, IsExtended, Msg

\* The network thread takes one of the calls.
LEMMA TakeCall ==
  ASSUME TypeInv, NEW type, NextCall(type)
  PROVE  /\ proxyToBridge' \in Seq(ToBridge)
         /\ IsTail(proxyToBridge, proxyToBridge')
         /\ Head(proxyToBridge) = proxyToBridge[1] /\ proxyToBridge[1] \in ToBridge
         /\ proxyToBridge[1].type = type
BY TailOfQueue DEF TypeInv, TypeOK, NextCall

\* The application's message joins the queue.
LEMMA AddCall ==
  ASSUME TypeInv, Enqueue
  PROVE  /\ calling \in ToBridge /\ proxyToBridge' \in Seq(ToBridge)
         /\ IsExtended(proxyToBridge, proxyToBridge', calling)
BY AppendToQueue DEF TypeInv, TypeOK, Enqueue

-----------------------------------------------------------------------------
(* Every step keeps the invariant.                                         *)

\* Every variable keeps its type.
LEMMA TypeInvStep ==
  ASSUME TypeInv, [Next]_vars
  PROVE  TypeInv'
<1> USE DEF TypeInv, TypeOK, appVars, netVars, Msg, NoMessage, ToBridge,
    ToProxy
<1>1. CASE CallConnect
  BY <1>1 DEF CallConnect, Connect, Disconnect
<1>2. CASE Call
  BY <1>2 DEF Call, Connect, Disconnect
<1>3. CASE CallDisconnect
  BY <1>3 DEF CallDisconnect, Connect, Disconnect
<1>4. CASE Enqueue
  BY <1>4 DEF Enqueue
<1>5. CASE Join
  BY <1>5 DEF Join
<1>6. CASE StartPoll
  BY <1>6 DEF StartPoll
<1>7. CASE EndPoll
  <2>1. polling' \in BOOLEAN
    BY <1>7 DEF EndPoll
  <2>. QED BY <1>7, <2>1 DEF EndPoll
<1>8. CASE TakeMessage
  <2>1. /\ Head(bridgeToProxy) \in ToProxy /\ Tail(bridgeToProxy) \in Seq(ToProxy)
    BY <1>8, TailOfQueue DEF TakeMessage
  <2>2. delivered' \in Seq(Nat)
    BY <1>8, <2>1 DEF TakeMessage
  <2>. QED BY <1>8, <2>1, <2>2 DEF TakeMessage, Draining, InCallback
<1>9. CASE FinishCallback
  BY <1>9 DEF FinishCallback
<1>10. CASE ApplyDelta
  BY <1>10 DEF ApplyDelta
<1>11. CASE Receive \/ Rejected \/ ConnectionLost \/ ConnectFails
  <2>1. CASE Receive
    BY <2>1 DEF Receive
  <2>2. CASE Rejected
    BY <2>2 DEF Rejected
  <2>3. CASE ConnectionLost
    BY <2>3 DEF ConnectionLost
  <2>4. CASE ConnectFails
    BY <2>4 DEF ConnectFails
  <2>. QED BY <1>11, <2>1, <2>2, <2>3, <2>4
<1>12. CASE Post
  BY <1>12 DEF Post
<1>13. CASE PostFailure
  BY <1>13 DEF PostFailure
<1>14. CASE EndNetwork \/ ConnectSucceeds \/ EndMessages
  BY <1>14 DEF EndNetwork, ConnectSucceeds, EndMessages
<1>15. CASE HandleConnect
  <2>1. IsTail(proxyToBridge, proxyToBridge') /\ proxyToBridge' \in Seq(ToBridge)
      /\ Head(proxyToBridge) = proxyToBridge[1] /\ proxyToBridge[1] \in ToBridge
      /\ proxyToBridge[1].type = "connect"
    BY <1>15, TakeCall DEF HandleConnect
  <2>. QED BY <1>15, <2>1 DEF HandleConnect, NextCall
<1>16. CASE HandleCall
  <2>1. IsTail(proxyToBridge, proxyToBridge') /\ proxyToBridge' \in Seq(ToBridge)
      /\ Head(proxyToBridge) = proxyToBridge[1] /\ proxyToBridge[1] \in ToBridge
      /\ proxyToBridge[1].type = "call"
    BY <1>16, TakeCall DEF HandleCall
  <2>. QED BY <1>16, <2>1 DEF HandleCall, NextCall
<1>17. CASE HandleAck
  <2>1. IsTail(proxyToBridge, proxyToBridge') /\ proxyToBridge' \in Seq(ToBridge)
      /\ Head(proxyToBridge) = proxyToBridge[1] /\ proxyToBridge[1] \in ToBridge
      /\ proxyToBridge[1].type = "ack"
    BY <1>17, TakeCall DEF HandleAck
  <2>. QED BY <1>17, <2>1 DEF HandleAck, NextCall
<1>18. CASE HandleDisconnect
  <2>1. IsTail(proxyToBridge, proxyToBridge') /\ proxyToBridge' \in Seq(ToBridge)
      /\ Head(proxyToBridge) = proxyToBridge[1] /\ proxyToBridge[1] \in ToBridge
      /\ proxyToBridge[1].type = "disconnect"
    BY <1>18, TakeCall DEF HandleDisconnect
  <2>2. running' \in BOOLEAN
    BY <1>18 DEF HandleDisconnect
  <2>. QED BY <1>18, <2>1, <2>2 DEF HandleDisconnect, NextCall
<1>19. CASE UNCHANGED vars
  BY <1>19 DEF vars, appVars, netVars
<1> QED BY <1>1, <1>2, <1>3, <1>4, <1>5, <1>6, <1>7, <1>8, <1>9, <1>10, <1>11,
        <1>12, <1>13, <1>14, <1>15, <1>16, <1>17, <1>18, <1>19 DEF Next, AppStep, NetStep

\* The application connects once, and the bridge handles that once.
LEMMA ConnectOnceStep ==
  ASSUME TypeInv, ConnectOnce, [Next]_vars
  PROVE  ConnectOnce'
<1> USE DEF ConnectOnce, Queued, appVars, netVars, Msg, NoMessage, Connect,
    Disconnect
<1>1. CASE CallConnect \/ Call \/ CallDisconnect \/ ApplyDelta
  BY <1>1 DEF CallConnect, Call, CallDisconnect, ApplyDelta, AppRuns
<1>2. CASE Enqueue
  <2>1. IsExtended(proxyToBridge, proxyToBridge', calling)
    BY <1>2, AddCall
  <2>. QED BY <1>2, <2>1 DEF Enqueue, BridgeHoldsCalls, IsExtended
<1>3. CASE Join \/ StartPoll \/ TakeMessage \/ FinishCallback \/ EndPoll
  BY <1>3 DEF Join, StartPoll, TakeMessage, FinishCallback, EndPoll
<1>4. CASE Receive \/ Rejected \/ ConnectionLost \/ Post \/ EndNetwork
  BY <1>4 DEF Receive, Rejected, ConnectionLost, Post, EndNetwork, Connected
<1>5. CASE HandleConnect
  <2>1. IsTail(proxyToBridge, proxyToBridge') /\ proxyToBridge' \in Seq(ToBridge)
      /\ Head(proxyToBridge) = proxyToBridge[1] /\ proxyToBridge[1] \in ToBridge
      /\ proxyToBridge[1].type = "connect"
    BY <1>5, TakeCall DEF HandleConnect
  <2>. QED BY <1>5, <2>1 DEF HandleConnect, NextCall, IsTail
<1>6. CASE HandleCall
  <2>1. IsTail(proxyToBridge, proxyToBridge') /\ proxyToBridge' \in Seq(ToBridge)
      /\ Head(proxyToBridge) = proxyToBridge[1] /\ proxyToBridge[1] \in ToBridge
      /\ proxyToBridge[1].type = "call"
    BY <1>6, TakeCall DEF HandleCall
  <2>. QED BY <1>6, <2>1 DEF HandleCall, NextCall, IsTail
<1>7. CASE HandleAck
  <2>1. IsTail(proxyToBridge, proxyToBridge') /\ proxyToBridge' \in Seq(ToBridge)
      /\ Head(proxyToBridge) = proxyToBridge[1] /\ proxyToBridge[1] \in ToBridge
      /\ proxyToBridge[1].type = "ack"
    BY <1>7, TakeCall DEF HandleAck
  <2>. QED BY <1>7, <2>1 DEF HandleAck, NextCall, IsTail
<1>8. CASE HandleDisconnect
  <2>1. IsTail(proxyToBridge, proxyToBridge') /\ proxyToBridge' \in Seq(ToBridge)
      /\ Head(proxyToBridge) = proxyToBridge[1] /\ proxyToBridge[1] \in ToBridge
      /\ proxyToBridge[1].type = "disconnect"
    BY <1>8, TakeCall DEF HandleDisconnect
  <2>. QED BY <1>8, <2>1 DEF HandleDisconnect, NextCall, IsTail
<1>9. CASE ConnectSucceeds \/ ConnectFails \/ PostFailure \/ EndMessages
  BY <1>9 DEF ConnectSucceeds, ConnectFails, PostFailure, EndMessages
<1>10. CASE UNCHANGED vars
  BY <1>10 DEF vars, appVars, netVars
<1> QED BY <1>1, <1>2, <1>3, <1>4, <1>5, <1>6, <1>7, <1>8, <1>9, <1>10 DEF Next, AppStep, NetStep

\* Nothing is posted before the connection, nor before a connect that fails.
LEMMA QuietStep ==
  ASSUME TypeInv, ConnectOnce, QuietUntilPosted, [Next]_vars
  PROVE  QuietUntilPosted'
<1> USE DEF QuietUntilPosted, appVars, netVars, Msg, NoMessage
<1>1. CASE CallConnect \/ Call \/ CallDisconnect
  BY <1>1, OutsideCallbacks
     DEF CallConnect, Call, CallDisconnect, AppRuns, InCallback
<1>2. CASE Enqueue
  BY <1>2 DEF Enqueue
<1>3. CASE Join \/ StartPoll \/ FinishCallback \/ EndPoll
  BY <1>3 DEF Join, StartPoll, FinishCallback, EndPoll, AppRuns
<1>4. CASE TakeMessage
  BY <1>4 DEF TakeMessage
<1>5. CASE ApplyDelta
  BY <1>5 DEF ApplyDelta
<1>6. CASE Receive \/ Rejected \/ ConnectionLost
  BY <1>6 DEF Receive, Rejected, ConnectionLost, Connected
<1>7. CASE Post \/ PostFailure
  BY <1>7 DEF Post, PostFailure, TypeInv, TypeOK
<1>8. CASE EndNetwork \/ EndMessages
  BY <1>8 DEF EndNetwork, EndMessages
<1>9. CASE HandleConnect
  <2>1. Queued("connect")
    BY <1>9, TakeCall DEF HandleConnect, Queued, IsTail
  <2>. QED BY <1>9, <2>1 DEF HandleConnect, NextCall, ConnectOnce
<1>10. CASE HandleCall \/ HandleAck \/ HandleDisconnect
  BY <1>10 DEF HandleCall, HandleAck, HandleDisconnect, NextCall
<1>11. CASE ConnectSucceeds \/ ConnectFails
  BY <1>11 DEF ConnectSucceeds, ConnectFails
<1>12. CASE UNCHANGED vars
  BY <1>12 DEF vars, appVars, netVars
<1> QED BY <1>1, <1>2, <1>3, <1>4, <1>5, <1>6, <1>7, <1>8, <1>9, <1>10, <1>11,
        <1>12 DEF Next, AppStep, NetStep

\* Only a disconnect ends the network thread, and it is the last call.
LEMMA ExitStep ==
  ASSUME TypeInv, ExitAfterDisconnect, [Next]_vars
  PROVE  ExitAfterDisconnect'
<1> USE DEF ExitAfterDisconnect, Queued, appVars, netVars, Msg, NoMessage,
    Disconnect
<1>1. CASE CallConnect \/ Call \/ CallDisconnect
  BY <1>1, OutsideCallbacks
     DEF CallConnect, Call, CallDisconnect, AppRuns, Connect
<1>2. CASE Enqueue
  <2>1. IsExtended(proxyToBridge, proxyToBridge', calling)
    BY <1>2, AddCall
  <2>2. calling \in ToBridge
    BY <1>2 DEF TypeInv, TypeOK, Enqueue
  <2>. QED BY <1>2, <2>1, <2>2 DEF Enqueue, TypeInv, TypeOK, IsExtended, ToBridge
<1>3. CASE Join \/ StartPoll \/ TakeMessage \/ ApplyDelta \/ FinishCallback \/
           EndPoll
  BY <1>3
     DEF Join, StartPoll, TakeMessage, ApplyDelta, FinishCallback, EndPoll,
         AppRuns, Draining
<1>4. CASE Receive \/ Rejected \/ ConnectionLost \/ Post \/ PostFailure \/
           EndNetwork \/ ConnectSucceeds \/ ConnectFails
  BY <1>4
     DEF Receive, Rejected, ConnectionLost, Post, PostFailure, EndNetwork,
         ConnectSucceeds, ConnectFails
<1>5. CASE HandleConnect
  <2>1. IsTail(proxyToBridge, proxyToBridge') /\ proxyToBridge' \in Seq(ToBridge)
      /\ Head(proxyToBridge) = proxyToBridge[1] /\ proxyToBridge[1] \in ToBridge
      /\ proxyToBridge[1].type = "connect"
    BY <1>5, TakeCall DEF HandleConnect
  <2>. QED BY <1>5, <2>1 DEF HandleConnect, NextCall, IsTail
<1>6. CASE HandleCall
  <2>1. IsTail(proxyToBridge, proxyToBridge') /\ proxyToBridge' \in Seq(ToBridge)
      /\ Head(proxyToBridge) = proxyToBridge[1] /\ proxyToBridge[1] \in ToBridge
      /\ proxyToBridge[1].type = "call"
    BY <1>6, TakeCall DEF HandleCall
  <2>. QED BY <1>6, <2>1 DEF HandleCall, NextCall, IsTail
<1>7. CASE HandleAck
  <2>1. IsTail(proxyToBridge, proxyToBridge') /\ proxyToBridge' \in Seq(ToBridge)
      /\ Head(proxyToBridge) = proxyToBridge[1] /\ proxyToBridge[1] \in ToBridge
      /\ proxyToBridge[1].type = "ack"
    BY <1>7, TakeCall DEF HandleAck
  <2>. QED BY <1>7, <2>1 DEF HandleAck, NextCall, IsTail
<1>8. CASE HandleDisconnect
  <2>1. IsTail(proxyToBridge, proxyToBridge') /\ proxyToBridge' \in Seq(ToBridge)
      /\ Head(proxyToBridge) = proxyToBridge[1] /\ proxyToBridge[1] \in ToBridge
      /\ proxyToBridge[1].type = "disconnect"
    BY <1>8, TakeCall DEF HandleDisconnect
  <2>. QED BY <1>8, <2>1 DEF HandleDisconnect, NextCall, IsTail
<1>9. CASE EndMessages
  BY <1>9 DEF EndMessages
<1>10. CASE UNCHANGED vars
  BY <1>10 DEF vars, appVars, netVars
<1> QED BY <1>1, <1>2, <1>3, <1>4, <1>5, <1>6, <1>7, <1>8, <1>9, <1>10 DEF Next, AppStep, NetStep

\* The queue has the calls that are not handled, in order.
LEMMA CallsStep ==
  ASSUME TypeInv, CallsQueued, [Next]_vars
  PROVE  CallsQueued'
<1> USE DEF CallsQueued, CallsInOrder, appVars, netVars
<1>1. CASE CallConnect \/ Call \/ CallDisconnect \/ ApplyDelta
  BY <1>1
     DEF CallConnect, Call, CallDisconnect, ApplyDelta, AppRuns, Connect,
         Disconnect, Msg, NoMessage
<1>2. CASE Enqueue
  <2>1. IsExtended(proxyToBridge, proxyToBridge', calling)
    BY <1>2, AddCall
  <2>2. Len(handled) \in Nat /\ sent \in Nat
    BY DEF TypeInv, TypeOK
  <2>3. \A i \in DOMAIN proxyToBridge : proxyToBridge[i].n \in Nat
    <3>1. proxyToBridge \in Seq(ToBridge)
      BY DEF TypeInv, TypeOK
    <3>2. \A i \in DOMAIN proxyToBridge : proxyToBridge[i] \in ToBridge
      BY <3>1
    <3>. QED BY <3>2 DEF ToBridge
  <2>4. calling \in ToBridge
    BY <1>2, AddCall
  <2>5. InOrder(proxyToBridge', Len(handled), sent')
    <3>1. CASE calling.type = "call"
      <4>1. calling = Msg("call", sent + 1) /\ sent' = sent + 1
        BY <1>2, <3>1, <2>4 DEF Enqueue, Msg, ToBridge
      <4>. QED BY <4>1, <2>1, <2>2, <2>3, CallAdded
    <3>2. CASE calling.type # "call"
      <4>1. sent' = sent
        BY <1>2, <3>2 DEF Enqueue
      <4>. QED BY <4>1, <3>2, <2>1, <2>2, OtherAdded
    <3>. QED BY <3>1, <3>2
  <2>. QED BY <1>2, <2>5 DEF Enqueue, NoMessage, Msg
<1>3. CASE Join \/ StartPoll \/ TakeMessage \/ FinishCallback \/ EndPoll
  BY <1>3 DEF Join, StartPoll, TakeMessage, FinishCallback, EndPoll
<1>4. CASE Receive \/ Rejected \/ ConnectionLost \/ Post \/ PostFailure \/
           EndNetwork \/ ConnectSucceeds \/ ConnectFails \/ EndMessages
  BY <1>4
     DEF Receive, Rejected, ConnectionLost, Post, PostFailure, EndNetwork,
         ConnectSucceeds, ConnectFails, EndMessages
<1>5. CASE HandleCall
  <2>1. IsTail(proxyToBridge, proxyToBridge') /\ proxyToBridge' \in Seq(ToBridge)
      /\ Head(proxyToBridge) = proxyToBridge[1] /\ proxyToBridge[1] \in ToBridge
      /\ proxyToBridge[1].type = "call"
    BY <1>5, TakeCall DEF HandleCall
  <2>2. Len(handled) \in Nat /\ sent \in Nat
    BY DEF TypeInv, TypeOK
  <2>3. proxyToBridge[1].n = Len(handled) + 1
      /\ InOrder(proxyToBridge', Len(handled) + 1, sent)
    BY <2>1, <2>2, CallTaken DEF ToBridge
  <2>4. handled' = Append(handled, Len(handled) + 1)
    BY <1>5, <2>1, <2>3 DEF HandleCall
  <2>5. Len(handled') = Len(handled) + 1 /\ \A i \in DOMAIN handled' : handled'[i] = i
    BY <2>4 DEF TypeInv, TypeOK
  <2>. QED BY <1>5, <2>3, <2>5 DEF HandleCall, NextCall
<1>6. CASE HandleConnect
  <2>1. IsTail(proxyToBridge, proxyToBridge') /\ proxyToBridge' \in Seq(ToBridge)
      /\ Head(proxyToBridge) = proxyToBridge[1] /\ proxyToBridge[1] \in ToBridge
      /\ proxyToBridge[1].type = "connect"
    BY <1>6, TakeCall DEF HandleConnect
  <2>2. Len(handled) \in Nat /\ sent \in Nat
    BY DEF TypeInv, TypeOK
  <2>3. InOrder(proxyToBridge', Len(handled), sent)
    BY <2>1, <2>2, OtherTaken
  <2>. QED BY <1>6, <2>3 DEF HandleConnect, NextCall
<1>7. CASE HandleAck
  <2>1. IsTail(proxyToBridge, proxyToBridge') /\ proxyToBridge' \in Seq(ToBridge)
      /\ Head(proxyToBridge) = proxyToBridge[1] /\ proxyToBridge[1] \in ToBridge
      /\ proxyToBridge[1].type = "ack"
    BY <1>7, TakeCall DEF HandleAck
  <2>2. Len(handled) \in Nat /\ sent \in Nat
    BY DEF TypeInv, TypeOK
  <2>3. InOrder(proxyToBridge', Len(handled), sent)
    BY <2>1, <2>2, OtherTaken
  <2>. QED BY <1>7, <2>3 DEF HandleAck, NextCall
<1>8. CASE HandleDisconnect
  <2>1. IsTail(proxyToBridge, proxyToBridge') /\ proxyToBridge' \in Seq(ToBridge)
      /\ Head(proxyToBridge) = proxyToBridge[1] /\ proxyToBridge[1] \in ToBridge
      /\ proxyToBridge[1].type = "disconnect"
    BY <1>8, TakeCall DEF HandleDisconnect
  <2>2. Len(handled) \in Nat /\ sent \in Nat
    BY DEF TypeInv, TypeOK
  <2>3. InOrder(proxyToBridge', Len(handled), sent)
    BY <2>1, <2>2, OtherTaken
  <2>. QED BY <1>8, <2>3 DEF HandleDisconnect, NextCall
<1>9. CASE UNCHANGED vars
  BY <1>9 DEF vars, appVars, netVars
<1> QED BY <1>1, <1>2, <1>3, <1>4, <1>5, <1>6, <1>7, <1>8, <1>9 DEF Next, AppStep, NetStep

\* The queue has the callbacks that are not delivered, in order.
LEMMA CallbacksStep ==
  ASSUME TypeInv, CallbacksQueued, [Next]_vars
  PROVE  CallbacksQueued'
<1> USE DEF CallbacksQueued, DeliveredInOrder, appVars, netVars
<1>1. CASE CallConnect \/ Call \/ CallDisconnect \/ Enqueue \/ ApplyDelta \/
           Join \/ StartPoll \/ FinishCallback \/ EndPoll
  BY <1>1
     DEF CallConnect, Call, CallDisconnect, Enqueue, ApplyDelta, Join,
         StartPoll, FinishCallback, EndPoll
<1>2. CASE TakeMessage
  <2>1. bridgeToProxy \in Seq(ToProxy) /\ bridgeToProxy # <<>> /\ delivered \in Seq(Nat)
    BY <1>2 DEF TypeInv, TypeOK, TakeMessage
  <2>2. Head(bridgeToProxy).n = Len(delivered) + 1
    BY <2>1
  <2>3. /\ Len(delivered') = Len(delivered) + 1
      /\ \A i \in DOMAIN delivered' : delivered'[i] = i
    BY <1>2, <2>1, <2>2 DEF TakeMessage
  <2>4. /\ Len(bridgeToProxy) = Len(bridgeToProxy') + 1
      /\ \A i \in DOMAIN bridgeToProxy' : bridgeToProxy'[i].n = Len(delivered') + i
    BY <1>2, <2>1, <2>3 DEF TakeMessage
  <2>5. Len(bridgeToProxy') \in Nat /\ Len(delivered) \in Nat
    BY <1>2, <2>1 DEF TakeMessage
  <2>. QED BY <1>2, <2>3, <2>4, <2>5 DEF TakeMessage
<1>3. CASE Receive \/ Rejected \/ ConnectionLost \/ ConnectFails
  BY <1>3 DEF Receive, Rejected, ConnectionLost, ConnectFails, Msg
<1>4. CASE Post
  <2>1. /\ bridgeToProxy \in Seq(ToProxy) /\ posting \in ToProxy
      /\ posted \in Nat /\ delivered \in Seq(Nat)
    BY <1>4 DEF TypeInv, TypeOK, Post
  <2>2. bridgeToProxy' = Append(bridgeToProxy, posting) /\ posted' = posted + 1
    BY <1>4 DEF Post
  <2>3. Len(bridgeToProxy') = Len(bridgeToProxy) + 1
    BY <2>1, <2>2
  <2>4. posting.n = Len(delivered) + Len(bridgeToProxy) + 1
    BY <1>4 DEF Post
  <2>5. \A i \in DOMAIN bridgeToProxy' : bridgeToProxy'[i].n = Len(delivered) + i
    <3>1. Len(delivered) \in Nat /\ Len(bridgeToProxy) \in Nat
      BY <2>1
    <3>2. \A i \in DOMAIN bridgeToProxy' :
            i = Len(bridgeToProxy) + 1 \/ i \in DOMAIN bridgeToProxy
      BY <2>1, <2>2
    <3>3. bridgeToProxy'[Len(bridgeToProxy) + 1] = posting
      BY <2>1, <2>2
    <3>4. \A i \in DOMAIN bridgeToProxy : bridgeToProxy'[i] = bridgeToProxy[i]
      BY <2>1, <2>2
    <3>. QED BY <2>4, <3>1, <3>2, <3>3, <3>4
  <2>. QED BY <1>4, <2>1, <2>2, <2>3, <2>5 DEF Post
<1>5. CASE PostFailure
  <2>1. /\ bridgeToProxy \in Seq(ToProxy) /\ posting \in ToProxy
      /\ posted \in Nat /\ delivered \in Seq(Nat)
    BY <1>5 DEF TypeInv, TypeOK, PostFailure
  <2>2. bridgeToProxy' = Append(bridgeToProxy, posting) /\ posted' = posted + 1
    BY <1>5 DEF PostFailure
  <2>3. Len(bridgeToProxy') = Len(bridgeToProxy) + 1
    BY <2>1, <2>2
  <2>4. posting.n = Len(delivered) + Len(bridgeToProxy) + 1
    BY <1>5 DEF PostFailure
  <2>5. \A i \in DOMAIN bridgeToProxy' : bridgeToProxy'[i].n = Len(delivered) + i
    <3>1. Len(delivered) \in Nat /\ Len(bridgeToProxy) \in Nat
      BY <2>1
    <3>2. \A i \in DOMAIN bridgeToProxy' :
            i = Len(bridgeToProxy) + 1 \/ i \in DOMAIN bridgeToProxy
      BY <2>1, <2>2
    <3>3. bridgeToProxy'[Len(bridgeToProxy) + 1] = posting
      BY <2>1, <2>2
    <3>4. \A i \in DOMAIN bridgeToProxy : bridgeToProxy'[i] = bridgeToProxy[i]
      BY <2>1, <2>2
    <3>. QED BY <2>4, <3>1, <3>2, <3>3, <3>4
  <2>. QED BY <1>5, <2>1, <2>2, <2>3, <2>5 DEF PostFailure
<1>6. CASE EndNetwork \/ HandleConnect \/ HandleCall \/ HandleAck \/
           HandleDisconnect \/ ConnectSucceeds \/ EndMessages
  BY <1>6
     DEF EndNetwork, HandleConnect, HandleCall, HandleAck, HandleDisconnect,
         ConnectSucceeds, EndMessages, NextCall
<1>7. CASE UNCHANGED vars
  BY <1>7 DEF vars, appVars, netVars
<1> QED BY <1>1, <1>2, <1>3, <1>4, <1>5, <1>6, <1>7 DEF Next, AppStep, NetStep

\* The last ack under way is the one of what was applied last.
LEMMA AckStep ==
  ASSUME TypeInv, AckFollowsApp, [Next]_vars
  PROVE  AckFollowsApp'
<1> USE DEF AckFollowsApp, NoAck, LastAckIs, IsAck, appVars, netVars
<1>1. CASE CallConnect \/ Call \/ CallDisconnect
  BY <1>1 DEF CallConnect, Call, CallDisconnect, AppRuns, Connect, Disconnect,
              Msg, NoMessage
<1>2. CASE Enqueue
  <2>1. IsExtended(proxyToBridge, proxyToBridge', calling)
    BY <1>2, AddCall
  <2>2. PICK last \in DOMAIN proxyToBridge' :
          /\ DOMAIN proxyToBridge' = DOMAIN proxyToBridge \cup {last}
          /\ DOMAIN proxyToBridge' \subseteq Nat \ {0}
          /\ proxyToBridge'[last] = calling
          /\ \A i \in DOMAIN proxyToBridge :
               proxyToBridge'[i] = proxyToBridge[i] /\ i < last
    BY <2>1 DEF IsExtended
  <2>3. /\ calling' = NoMessage /\ applied' = applied /\ bridgeAck' = bridgeAck
    BY <1>2 DEF Enqueue
  <2>4. ~IsAck(calling')
    BY <2>3 DEF NoMessage, Msg
  <2>5. CASE IsAck(calling)
    <3>1. \A j \in DOMAIN proxyToBridge' : j <= last
      BY <2>2
    <3> QED BY <2>2, <2>3, <2>4, <2>5, <3>1
  <2>6. CASE ~IsAck(calling) /\ LastAckIs(proxyToBridge, applied)
    BY <2>2, <2>3, <2>4, <2>6
  <2>7. CASE ~IsAck(calling) /\ NoAck(proxyToBridge) /\ bridgeAck = applied
    BY <2>2, <2>3, <2>4, <2>7
  <2> QED BY <2>5, <2>6, <2>7
<1>3. CASE ApplyDelta
  BY <1>3 DEF ApplyDelta, Msg
<1>4. CASE HandleConnect \/ HandleCall \/ HandleDisconnect
  <2>1. PICK type \in {"connect", "call", "disconnect"} : NextCall(type)
    BY <1>4 DEF HandleConnect, HandleCall, HandleDisconnect
  <2>2. /\ IsTail(proxyToBridge, proxyToBridge') /\ ~IsAck(proxyToBridge[1])
    BY <2>1, TakeCall
  <2>3. UNCHANGED <<calling, applied, bridgeAck>>
    BY <1>4 DEF HandleConnect, HandleCall, HandleDisconnect, NextCall
  <2>4. \A i \in DOMAIN proxyToBridge : IsAck(proxyToBridge[i]) =>
          i - 1 \in DOMAIN proxyToBridge' /\ proxyToBridge'[i - 1] = proxyToBridge[i]
    BY <2>2 DEF IsTail
  <2>5. \A i \in DOMAIN proxyToBridge' :
          i + 1 \in DOMAIN proxyToBridge /\ proxyToBridge'[i] = proxyToBridge[i + 1]
    BY <2>2 DEF IsTail
  <2> QED BY <2>2, <2>3, <2>4, <2>5 DEF IsTail
<1>5. CASE HandleAck
  <2>1. /\ IsTail(proxyToBridge, proxyToBridge')
        /\ bridgeAck' = proxyToBridge[1].n /\ IsAck(proxyToBridge[1])
        /\ UNCHANGED <<calling, applied>>
    BY <1>5, TakeCall DEF HandleAck, NextCall
  <2>2. CASE IsAck(calling)
    BY <2>1, <2>2
  <2>3. ASSUME ~IsAck(calling), LastAckIs(proxyToBridge, applied)
        PROVE  AckFollowsApp'
    <3>1. PICK i \in DOMAIN proxyToBridge :
            /\ IsAck(proxyToBridge[i]) /\ proxyToBridge[i].n = applied
            /\ \A j \in DOMAIN proxyToBridge : IsAck(proxyToBridge[j]) => j <= i
      BY <2>3
    <3>2. CASE i = 1
      <4>1. NoAck(proxyToBridge')
        BY <2>1, <3>1, <3>2 DEF IsTail
      <4> QED BY <2>1, <2>3, <3>1, <3>2, <4>1
    <3>3. CASE i # 1
      <4>1. i - 1 \in DOMAIN proxyToBridge' /\ proxyToBridge'[i - 1] = proxyToBridge[i]
        BY <2>1, <3>3 DEF IsTail
      <4>2. \A j \in DOMAIN proxyToBridge' : IsAck(proxyToBridge'[j]) => j <= i - 1
        BY <2>1, <3>1 DEF IsTail
      <4>3. LastAckIs(proxyToBridge', applied)
        BY <3>1, <4>1, <4>2
      <4> QED BY <2>1, <2>3, <4>3
    <3> QED BY <3>2, <3>3
  <2> QED BY <2>1, <2>2, <2>3 DEF IsTail
<1>6. CASE \/ Join \/ StartPoll \/ TakeMessage \/ FinishCallback \/ EndPoll
  BY <1>6 DEF Join, StartPoll, TakeMessage, FinishCallback, EndPoll
<1>7. CASE \/ Receive \/ Rejected \/ ConnectionLost \/ Post \/ EndNetwork
           \/ ConnectSucceeds \/ ConnectFails \/ PostFailure \/ EndMessages
  BY <1>7 DEF Receive, Rejected, ConnectionLost, Post, EndNetwork,
              ConnectSucceeds, ConnectFails, PostFailure, EndMessages
<1>8. CASE UNCHANGED vars
  BY <1>8 DEF vars
<1> QED BY <1>1, <1>2, <1>3, <1>4, <1>5, <1>6, <1>7, <1>8
        DEF Next, AppStep, NetStep

-----------------------------------------------------------------------------
(* Theorems.                                                               *)

LEMMA InitInvariant == Init => IInv
<1> SUFFICES ASSUME Init PROVE IInv
  OBVIOUS
<1>1. TypeInv
  <2>1. polling \in BOOLEAN /\ connectCalled \in BOOLEAN /\ running \in BOOLEAN
    BY DEF Init
  <2>2. net \notin {"posting", "failing"}
    BY DEF Init
  <2>3. proxyToBridge \in Seq(ToBridge) /\ bridgeToProxy \in Seq(ToProxy)
    BY DEF Init
  <2> HIDE DEF ToBridge, ToProxy
  <2> QED BY <2>1, <2>2, <2>3 DEF Init, TypeInv, TypeOK
<1>2. ConnectOnce /\ QuietUntilPosted /\ ExitAfterDisconnect
  BY DEF Init, ConnectOnce, QuietUntilPosted, ExitAfterDisconnect, Queued, Msg,
         NoMessage
<1>3. CallsQueued /\ CallbacksQueued
  BY DEF Init, CallsQueued, CallsInOrder, InOrder, CallbacksQueued,
         DeliveredInOrder, Msg, NoMessage
<1> QED BY <1>1, <1>2, <1>3 DEF IInv

\* The invariant of the two threads and their queues (clientproxy.c).
THEOREM ProxyInvariance == Spec => []IInv
<1>1. Init => IInv
  BY InitInvariant
<1>2. IInv /\ [Next]_vars => IInv'
  <2> SUFFICES ASSUME IInv, [Next]_vars PROVE IInv'
    OBVIOUS
  <2> USE DEF IInv
  <2>1. TypeInv'
    BY TypeInvStep
  <2>2. ConnectOnce'
    BY ConnectOnceStep
  <2>3. QuietUntilPosted'
    BY QuietStep
  <2>4. ExitAfterDisconnect'
    BY ExitStep
  <2>5. CallsQueued' /\ CallbacksQueued'
    BY CallsStep, CallbacksStep
  <2> QED BY <2>1, <2>2, <2>3, <2>4, <2>5
<1> QED BY <1>1, <1>2, PTL DEF Spec

\* Every variable keeps its type; every message has a handler on its side.
THEOREM ProxyTypes == Spec => []TypeOK
<1>1. IInv => TypeOK
  BY DEF IInv, TypeInv
<1> QED BY <1>1, ProxyInvariance, PTL

\* The threads never wait for each other, although they take the two mutexes
\* in opposite orders: a connect fails before there is anything to poll.
THEOREM NoCircularWaitTheorem == Spec => []NoCircularWait
<1>1. IInv => NoCircularWait
  BY DEF IInv, QuietUntilPosted, ExitAfterDisconnect, NoCircularWait, NetBlocked,
         AppBlocked, BridgeHoldsCalls
<1> QED BY <1>1, ProxyInvariance, PTL

\* The bridge handles every call once and in order.
THEOREM CallsInOrderTheorem == Spec => []CallsInOrder
<1>1. IInv => CallsInOrder
  BY DEF IInv, CallsQueued
<1> QED BY <1>1, ProxyInvariance, PTL

\* The network thread does not end before it has handled every call.
THEOREM HandledAtExitTheorem == Spec => []HandledAtExit
<1>1. IInv => HandledAtExit
  <2> SUFFICES ASSUME IInv, net = "exited"
               PROVE  Len(handled) = sent /\ proxyToBridge = <<>>
    BY DEF HandledAtExit
  <2>1. proxyToBridge = <<>>
    BY DEF IInv, ExitAfterDisconnect
  <2>2. Len(handled) \in Nat /\ sent \in Nat
    BY DEF IInv, TypeInv, TypeOK
  <2>3. InOrder(proxyToBridge, Len(handled), sent)
    BY DEF IInv, CallsQueued
  <2>4. (Len(handled) + 1) .. sent = {}
    BY <2>1, <2>3 DEF InOrder
  <2> QED BY <2>1, <2>2, <2>3, <2>4 DEF InOrder
<1> QED BY <1>1, ProxyInvariance, PTL

\* The application gets every callback once and in order.
THEOREM DeliveredInOrderTheorem == Spec => []DeliveredInOrder
<1>1. IInv => DeliveredInOrder
  BY DEF IInv, CallbacksQueued
<1> QED BY <1>1, ProxyInvariance, PTL

\* What the bridge acknowledges follows what the application applied, for any
\* number of deltas and intents (proxy_raw_state_delta_callback, bridge_alloclient_ack,
\* bridge_alloclient_set_intent).
THEOREM AckFollowsTheorem == Spec => []AckFollowsApp
<1>1. Init => AckFollowsApp
  BY DEF Init, AckFollowsApp, NoAck, LastAckIs, IsAck, NoMessage, Msg
<1>2. IInv /\ AckFollowsApp /\ [Next]_vars => AckFollowsApp'
  BY AckStep DEF IInv
<1> QED BY <1>1, <1>2, ProxyInvariance, PTL DEF Spec

-----------------------------------------------------------------------------
(* The refinement.                                                         *)

LEMMA CallsRefine ==
  ASSUME IInv, [Next]_vars
  PROVE  [Calls!Next]_(Calls!vars)
<1> USE DEF Calls!Next, Calls!vars, appVars, netVars
<1>1. CASE Enqueue
  <2>1. sent' \in {sent, sent + 1} /\ handled' = handled
    BY <1>1 DEF Enqueue
  <2> QED BY <2>1 DEF Calls!Send
<1>2. CASE HandleCall
  <2>1. /\ IsTail(proxyToBridge, proxyToBridge')
        /\ Head(proxyToBridge) = proxyToBridge[1] /\ proxyToBridge[1] \in ToBridge
        /\ proxyToBridge[1].type = "call"
    BY <1>2, TakeCall DEF HandleCall, IInv
  <2>2. Len(handled) \in Nat /\ sent \in Nat
    BY DEF IInv, TypeInv, TypeOK
  <2>3. /\ proxyToBridge[1].n = Len(handled) + 1
        /\ InOrder(proxyToBridge', Len(handled) + 1, sent)
    BY <2>1, <2>2, CallTaken DEF ToBridge, IInv, CallsQueued
  <2>4. handled' = Append(handled, Len(handled) + 1) /\ sent' = sent
    BY <1>2, <2>1, <2>3 DEF HandleCall, NextCall
  <2>5. Len(handled) < sent
    BY <2>2, <2>3 DEF InOrder
  <2> QED BY <2>4, <2>5 DEF Calls!Deliver
<1>3. CASE \/ CallConnect \/ Call \/ CallDisconnect \/ Join \/ StartPoll
           \/ TakeMessage \/ ApplyDelta \/ FinishCallback \/ EndPoll
  BY <1>3 DEF CallConnect, Call, CallDisconnect, Join, StartPoll, TakeMessage,
              ApplyDelta, FinishCallback, EndPoll
<1>4. CASE \/ Receive \/ Rejected \/ ConnectionLost \/ Post \/ EndNetwork
           \/ HandleConnect \/ HandleAck \/ HandleDisconnect
           \/ ConnectSucceeds \/ ConnectFails \/ PostFailure \/ EndMessages
  BY <1>4 DEF Receive, Rejected, ConnectionLost, Post, EndNetwork, NextCall,
              HandleConnect, HandleAck, HandleDisconnect, ConnectSucceeds,
              ConnectFails, PostFailure, EndMessages
<1>5. CASE UNCHANGED vars
  BY <1>5 DEF vars
<1> QED BY <1>1, <1>2, <1>3, <1>4, <1>5 DEF Next, AppStep, NetStep

LEMMA CallbacksRefine ==
  ASSUME IInv, [Next]_vars
  PROVE  [Callbacks!Next]_(Callbacks!vars)
<1> USE DEF Callbacks!Next, Callbacks!vars, appVars, netVars
<1>1. CASE Post \/ PostFailure
  <2>1. posted' = posted + 1 /\ delivered' = delivered
    BY <1>1 DEF Post, PostFailure
  <2> QED BY <2>1 DEF Callbacks!Send
<1>2. CASE TakeMessage
  <2>1. /\ bridgeToProxy \in Seq(ToProxy) /\ bridgeToProxy # <<>>
        /\ delivered \in Seq(Nat)
    BY <1>2 DEF TakeMessage, IInv, TypeInv, TypeOK
  <2>2. Head(bridgeToProxy).n = Len(delivered) + 1 /\ Len(delivered) < posted
    BY <2>1 DEF IInv, CallbacksQueued
  <2>3. delivered' = Append(delivered, Len(delivered) + 1) /\ posted' = posted
    BY <1>2, <2>2 DEF TakeMessage
  <2> QED BY <2>2, <2>3 DEF Callbacks!Deliver
<1>3. CASE \/ CallConnect \/ Call \/ CallDisconnect \/ Enqueue \/ Join
           \/ StartPoll \/ ApplyDelta \/ FinishCallback \/ EndPoll
  BY <1>3 DEF CallConnect, Call, CallDisconnect, Enqueue, Join, StartPoll,
              ApplyDelta, FinishCallback, EndPoll
<1>4. CASE \/ Receive \/ Rejected \/ ConnectionLost \/ EndNetwork
           \/ HandleConnect \/ HandleCall \/ HandleAck \/ HandleDisconnect
           \/ ConnectSucceeds \/ ConnectFails \/ EndMessages
  BY <1>4 DEF Receive, Rejected, ConnectionLost, EndNetwork, NextCall,
              HandleConnect, HandleCall, HandleAck, HandleDisconnect,
              ConnectSucceeds, ConnectFails, EndMessages
<1>5. CASE UNCHANGED vars
  BY <1>5 DEF vars
<1> QED BY <1>1, <1>2, <1>3, <1>4, <1>5 DEF Next, AppStep, NetStep

\* Each direction between the threads is a channel that loses, repeats and
\* reorders nothing (enqueue_proxy_to_bridge, enqueue_bridge_to_proxy and the
\* two drains).
THEOREM ChannelRefinement == Spec => ImplementsChannels
<1>1. Init => Calls!Init /\ Callbacks!Init
  BY DEF Init, Calls!Init, Callbacks!Init
<1>2. IInv /\ [Next]_vars => [Calls!Next]_(Calls!vars)
  BY CallsRefine
<1>3. IInv /\ [Next]_vars => [Callbacks!Next]_(Callbacks!vars)
  BY CallbacksRefine
<1> QED BY <1>1, <1>2, <1>3, ProxyInvariance, PTL
        DEF Spec, ImplementsChannels, Calls!Spec, Callbacks!Spec

=============================================================================
