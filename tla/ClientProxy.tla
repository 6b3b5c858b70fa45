---------------------------- MODULE ClientProxy ----------------------------
(***************************************************************************)
(* A threaded client (src/src/clientproxy.c): the application calls a      *)
(* proxy, a network thread runs the bridge, the client that talks to the   *)
(* server.  Two queues, each with a mutex, carry the application's calls   *)
(* to the bridge and the bridge's callbacks to the application.            *)
(*                                                                         *)
(* Adding to a queue holds its mutex for that one step.  Draining holds it *)
(* across every handler it runs: alloclient_poll runs the application's    *)
(* callbacks with bridge_to_proxy_mtx held, the network thread runs the    *)
(* calls, a connect of up to five seconds among them, with                 *)
(* proxy_to_bridge_mtx held.  So only the drains are states of their own.  *)
(***************************************************************************)
EXTENDS Integers, Sequences

CONSTANTS
  DisconnectInCallback,  \* the application disconnects in disconnected_callback
  MaxCalls,              \* BOUND: calls the application makes
  MaxPosts               \* BOUND: after so many callbacks the server is silent

ASSUME ProxyAssumption ==
  /\ DisconnectInCallback \in BOOLEAN
  /\ MaxCalls \in Nat
  /\ MaxPosts \in Nat

VARIABLES
  app,             \* "running", in thrd_join ("joining"), or done ("gone")
  polling,         \* in alloclient_poll, which holds bridge_to_proxy_mtx
  handling,        \* the message whose callback runs
  calling,         \* the message that waits for proxy_to_bridge_mtx
  connectCalled,   \* alloclient_connect was called
  applied,         \* what the last alloclient_parse_statediff returned
  proxyToBridge,   \* the queue of calls
  bridgeToProxy,   \* the queue of callbacks
  net,             \* where the network thread is
  posting,         \* the message that waits for bridge_to_proxy_mtx
  conn,            \* the bridge's connection
  running,         \* the network thread's loop condition
  bridgeAck,       \* ack_state_rev of the bridge's intent
  sent,            \* calls enqueued so far
  handled,         \* calls the bridge handled, in order
  posted,          \* callbacks posted so far
  delivered        \* callbacks the application got, in order

appVars == <<app, polling, handling, calling, connectCalled, applied, delivered>>
netVars == <<net, posting, conn, running, bridgeAck, handled>>
vars == <<appVars, netVars, proxyToBridge, bridgeToProxy, sent, posted>>

Msg(type, n) == [type |-> type, n |-> n]
NoMessage    == Msg("none", 0)
Connect      == Msg("connect", 0)
Disconnect   == Msg("disconnect", 0)

\* set_intent, asset_request and asset_send are calls; interactions, clocks,
\* media and assets are events.
ToBridge == [type : {"connect", "call", "ack", "disconnect"}, n : Nat]
ToProxy  == [type : {"delta", "event", "disconnected"}, n : Nat]

Init ==
  /\ app = "running" /\ polling = FALSE /\ connectCalled = FALSE
  /\ handling = NoMessage /\ calling = NoMessage /\ posting = NoMessage
  /\ proxyToBridge = <<>> /\ bridgeToProxy = <<>>
  /\ net = "network" /\ conn = "none" /\ running = TRUE
  /\ applied = 0 /\ bridgeAck = 0
  /\ sent = 0 /\ handled = <<>>
  /\ posted = 0 /\ delivered = <<>>

\* MUTANT: the mutex is held for the turn with the network too.
BridgeAlwaysHoldsCalls == net \in {"posting", "messages", "connecting", "failing"}

BridgeHoldsCalls == net \in {"messages", "connecting", "failing"}

-----------------------------------------------------------------------------
(* The application's thread.                                               *)

InCallback == handling # NoMessage

\* The application's own code runs, in a callback or between two polls.
AppRuns == app = "running" /\ calling = NoMessage /\ (polling => InCallback)

CallConnect ==
  /\ AppRuns /\ ~polling /\ ~connectCalled
  /\ calling' = Connect
  /\ connectCalled' = TRUE
  /\ UNCHANGED <<app, polling, handling, applied, delivered, netVars,
                 proxyToBridge, bridgeToProxy, sent, posted>>

Call ==
  /\ AppRuns /\ sent < MaxCalls
  /\ calling' = Msg("call", sent + 1)
  /\ UNCHANGED <<app, polling, handling, connectCalled, applied, delivered,
                 netVars, proxyToBridge, bridgeToProxy, sent, posted>>

CallDisconnect ==
  /\ AppRuns
  /\ polling => DisconnectInCallback /\ handling.type = "disconnected"
  /\ calling' = Disconnect
  /\ UNCHANGED <<app, polling, handling, connectCalled, applied, delivered,
                 netVars, proxyToBridge, bridgeToProxy, sent, posted>>

\* MUTANT: every message is put at the head of the queue.
EnqueueAtHead ==
  /\ calling # NoMessage /\ ~BridgeHoldsCalls
  /\ proxyToBridge' = <<calling>> \o proxyToBridge
  /\ sent' = IF calling.type = "call" THEN sent + 1 ELSE sent
  /\ app' = IF calling.type = "disconnect" THEN "joining" ELSE app
  /\ calling' = NoMessage
  /\ UNCHANGED <<polling, handling, connectCalled, applied, delivered, netVars,
                 bridgeToProxy, posted>>

\* enqueue_proxy_to_bridge; after a disconnect message, on to thrd_join.
Enqueue ==
  /\ calling # NoMessage /\ ~BridgeHoldsCalls
  /\ proxyToBridge' = Append(proxyToBridge, calling)
  /\ sent' = IF calling.type = "call" THEN sent + 1 ELSE sent
  /\ app' = IF calling.type = "disconnect" THEN "joining" ELSE app
  /\ calling' = NoMessage
  /\ UNCHANGED <<polling, handling, connectCalled, applied, delivered, netVars,
                 bridgeToProxy, posted>>

Join ==
  /\ app = "joining" /\ net = "exited"
  /\ app' = "gone"
  /\ UNCHANGED <<polling, handling, calling, connectCalled, applied, delivered,
                 netVars, proxyToBridge, bridgeToProxy, sent, posted>>

StartPoll ==
  /\ AppRuns /\ ~polling
  /\ polling' = TRUE
  /\ UNCHANGED <<app, handling, calling, connectCalled, applied, delivered,
                 netVars, proxyToBridge, bridgeToProxy, sent, posted>>

\* In the drain loop of alloclient_poll, no handler running.
Draining == polling /\ ~InCallback /\ calling = NoMessage /\ app = "running"

TakeMessage ==
  /\ Draining /\ bridgeToProxy # <<>>
  /\ handling' = Head(bridgeToProxy)
  /\ bridgeToProxy' = Tail(bridgeToProxy)
  /\ delivered' = Append(delivered, Head(bridgeToProxy).n)
  /\ UNCHANGED <<app, polling, calling, connectCalled, applied, netVars,
                 proxyToBridge, sent, posted>>

\* proxy_raw_state_delta_callback: a delta that does not merge is acked as 0.
ApplyDelta ==
  /\ app = "running" /\ handling.type = "delta" /\ calling = NoMessage
  /\ \E rev \in {handling.n, 0} :
       applied' = rev /\ calling' = Msg("ack", rev)
  /\ handling' = NoMessage
  /\ UNCHANGED <<app, polling, connectCalled, delivered, netVars,
                 proxyToBridge, bridgeToProxy, sent, posted>>

\* MUTANT: after a disconnect the rest of the queue is thrown away.
FinishAndClear ==
  /\ app = "running" /\ handling.type \in {"event", "disconnected"}
  /\ calling = NoMessage
  /\ handling' = NoMessage
  /\ polling' = (handling.type # "disconnected")
  /\ bridgeToProxy' = IF handling.type = "disconnected" THEN <<>> ELSE bridgeToProxy
  /\ UNCHANGED <<app, calling, connectCalled, applied, delivered, netVars,
                 proxyToBridge, sent, posted>>

\* The callback returns; after a disconnected_callback so does alloclient_poll.
FinishCallback ==
  /\ app = "running" /\ handling.type \in {"event", "disconnected"}
  /\ calling = NoMessage
  /\ handling' = NoMessage
  /\ polling' = (handling.type # "disconnected")
  /\ UNCHANGED <<app, calling, connectCalled, applied, delivered, netVars,
                 proxyToBridge, bridgeToProxy, sent, posted>>

EndPoll ==
  /\ Draining /\ bridgeToProxy = <<>>
  /\ polling' = FALSE
  /\ UNCHANGED <<app, handling, calling, connectCalled, applied, delivered,
                 netVars, proxyToBridge, bridgeToProxy, sent, posted>>

-----------------------------------------------------------------------------
(* The network thread: a turn with the network, a turn with the calls.     *)

Connected == conn \in {"up", "rejected"}

\* alloclient_poll of the bridge got something its callbacks pass on.
Receive ==
  /\ net = "network" /\ Connected /\ posted < MaxPosts
  /\ \E type \in {"delta", "event"} : posting' = Msg(type, posted + 1)
  /\ net' = "posting"
  /\ UNCHANGED <<appVars, conn, running, bridgeAck, handled, proxyToBridge,
                 bridgeToProxy, sent, posted>>

\* The place rejects the announce; the connection is still there.
Rejected ==
  /\ net = "network" /\ conn = "up"
  /\ conn' = "rejected"
  /\ posting' = Msg("disconnected", posted + 1)
  /\ net' = "posting"
  /\ UNCHANGED <<appVars, running, bridgeAck, handled, proxyToBridge,
                 bridgeToProxy, sent, posted>>

ConnectionLost ==
  /\ net = "network" /\ Connected
  /\ conn' = "lost"
  /\ posting' = Msg("disconnected", posted + 1)
  /\ net' = "posting"
  /\ UNCHANGED <<appVars, running, bridgeAck, handled, proxyToBridge,
                 bridgeToProxy, sent, posted>>

\* MUTANT: a disconnect is put before the callbacks that wait.
PostDisconnectFirst ==
  /\ net = "posting" /\ ~polling
  /\ bridgeToProxy' = IF posting.type = "disconnected"
                        THEN <<posting>> \o bridgeToProxy
                        ELSE Append(bridgeToProxy, posting)
  /\ posted' = posted + 1
  /\ posting' = NoMessage
  /\ net' = IF posting.type = "event" THEN "network" ELSE "messages"
  /\ UNCHANGED <<appVars, conn, running, bridgeAck, handled, proxyToBridge, sent>>

\* enqueue_bridge_to_proxy.  The last delta of a turn and a disconnect end it.
Post ==
  /\ net = "posting" /\ ~polling
  /\ bridgeToProxy' = Append(bridgeToProxy, posting)
  /\ posted' = posted + 1
  /\ posting' = NoMessage
  /\ net' = IF posting.type = "event" THEN "network" ELSE "messages"
  /\ UNCHANGED <<appVars, conn, running, bridgeAck, handled, proxyToBridge, sent>>

\* The 25 ms are over; bridge_check_for_messages locks proxy_to_bridge_mtx.
EndNetwork ==
  /\ net = "network"
  /\ net' = "messages"
  /\ UNCHANGED <<appVars, posting, conn, running, bridgeAck, handled,
                 proxyToBridge, bridgeToProxy, sent, posted>>

NextCall(type) ==
  /\ net = "messages" /\ proxyToBridge # <<>>
  /\ Head(proxyToBridge).type = type
  /\ proxyToBridge' = Tail(proxyToBridge)
  /\ UNCHANGED <<appVars, posting, conn, bridgeToProxy, sent, posted>>

HandleConnect ==
  /\ NextCall("connect")
  /\ net' = "connecting"
  /\ UNCHANGED <<running, bridgeAck, handled>>

\* MUTANT: the application's intent brings its own ack_state_rev.
HandleCallResetsAck ==
  /\ NextCall("call")
  /\ handled' = Append(handled, Head(proxyToBridge).n)
  /\ bridgeAck' = 0
  /\ UNCHANGED <<net, running>>

\* The bridge keeps its ack_state_rev when the application sets an intent.
HandleCall ==
  /\ NextCall("call")
  /\ handled' = Append(handled, Head(proxyToBridge).n)
  /\ UNCHANGED <<net, running, bridgeAck>>

HandleAck ==
  /\ NextCall("ack")
  /\ bridgeAck' = Head(proxyToBridge).n
  /\ UNCHANGED <<net, running, handled>>

\* MUTANT: the flag the loop tests is not cleared.
HandleDisconnectForgets ==
  /\ NextCall("disconnect")
  /\ UNCHANGED <<net, running, bridgeAck, handled>>

HandleDisconnect ==
  /\ NextCall("disconnect")
  /\ running' = FALSE
  /\ UNCHANGED <<net, bridgeAck, handled>>

ConnectSucceeds ==
  /\ net = "connecting"
  /\ conn' = "up"
  /\ net' = "messages"
  /\ UNCHANGED <<appVars, posting, running, bridgeAck, handled, proxyToBridge,
                 bridgeToProxy, sent, posted>>

\* MUTANT: the connect message is sent back, which the proxy has no handler for.
ConnectFailsUnhandled ==
  /\ net = "connecting"
  /\ conn' = "failed"
  /\ posting' = Connect
  /\ net' = "failing"
  /\ UNCHANGED <<appVars, running, bridgeAck, handled, proxyToBridge,
                 bridgeToProxy, sent, posted>>

ConnectFails ==
  /\ net = "connecting"
  /\ conn' = "failed"
  /\ posting' = Msg("disconnected", posted + 1)
  /\ net' = "failing"
  /\ UNCHANGED <<appVars, running, bridgeAck, handled, proxyToBridge,
                 bridgeToProxy, sent, posted>>

\* enqueue_bridge_to_proxy with proxy_to_bridge_mtx held.
PostFailure ==
  /\ net = "failing" /\ ~polling
  /\ bridgeToProxy' = Append(bridgeToProxy, posting)
  /\ posted' = posted + 1
  /\ posting' = NoMessage
  /\ net' = "messages"
  /\ UNCHANGED <<appVars, conn, running, bridgeAck, handled, proxyToBridge, sent>>

\* MUTANT: the network thread stops before it has handled every call.
EndMessagesEarly ==
  /\ net = "messages"
  /\ net' = IF running /\ conn # "lost" THEN "network" ELSE "exited"
  /\ UNCHANGED <<appVars, posting, conn, running, bridgeAck, handled,
                 proxyToBridge, bridgeToProxy, sent, posted>>

EndMessages ==
  /\ net = "messages" /\ proxyToBridge = <<>>
  /\ net' = IF running THEN "network" ELSE "exited"
  /\ UNCHANGED <<appVars, posting, conn, running, bridgeAck, handled,
                 proxyToBridge, bridgeToProxy, sent, posted>>

-----------------------------------------------------------------------------
AppStep ==
  \/ CallConnect \/ Call \/ CallDisconnect \/ Enqueue \/ Join
  \/ StartPoll \/ TakeMessage \/ ApplyDelta \/ FinishCallback \/ EndPoll

NetStep ==
  \/ Receive \/ Rejected \/ ConnectionLost \/ Post \/ EndNetwork
  \/ HandleConnect \/ HandleCall \/ HandleAck \/ HandleDisconnect
  \/ ConnectSucceeds \/ ConnectFails \/ PostFailure \/ EndMessages

Next == AppStep \/ NetStep

Spec == Init /\ [][Next]_vars

\* The network thread runs, a callback returns, and the application polls
\* again ("call regularly at 20hz", client.h).  Whoever waits for a mutex the
\* other thread releases again and again gets it.
Fairness ==
  /\ WF_vars(EndNetwork \/ HandleConnect \/ HandleCall \/ HandleAck
              \/ HandleDisconnect \/ ConnectSucceeds \/ ConnectFails \/ EndMessages)
  /\ SF_vars(Post \/ PostFailure)
  /\ WF_vars(StartPoll)
  /\ WF_vars(TakeMessage \/ ApplyDelta \/ FinishCallback \/ EndPoll \/ Join)
  /\ SF_vars(Enqueue)

FairSpec == Spec /\ Fairness

-----------------------------------------------------------------------------
(* Properties.                                                             *)

TypeOK ==
  /\ app \in {"running", "joining", "gone"}
  /\ polling \in BOOLEAN /\ connectCalled \in BOOLEAN /\ running \in BOOLEAN
  /\ handling \in ToProxy \cup {NoMessage}
  /\ calling \in ToBridge \cup {NoMessage}
  /\ posting \in ToProxy \cup {NoMessage}
  /\ proxyToBridge \in Seq(ToBridge) /\ bridgeToProxy \in Seq(ToProxy)
  /\ net \in {"network", "posting", "messages", "connecting", "failing", "exited"}
  /\ conn \in {"none", "up", "rejected", "lost", "failed"}
  /\ applied \in Nat /\ bridgeAck \in Nat
  /\ sent \in Nat /\ handled \in Seq(Nat)
  /\ posted \in Nat /\ delivered \in Seq(Nat)

NetBlocked == net \in {"posting", "failing"} /\ polling

AppBlocked ==
  \/ calling # NoMessage /\ BridgeHoldsCalls
  \/ app = "joining" /\ net # "exited"

\* The two threads take the two mutexes in opposite orders (a callback that
\* makes a call; a connect that fails), and the application joins the network
\* thread.  They never wait for each other.
NoCircularWait == ~(NetBlocked /\ AppBlocked)

\* Every call is handled once and in the order the application made them.
CallsInOrder == \A i \in DOMAIN handled : handled[i] = i

\* When the network thread ends, no call is left behind: what was called
\* before alloclient_disconnect reached the bridge.
HandledAtExit == net = "exited" => Len(handled) = sent /\ proxyToBridge = <<>>

\* Every callback of the bridge is run once and in order by the application,
\* across polls that stop at a disconnect.
DeliveredInOrder == \A i \in DOMAIN delivered : delivered[i] = i

IsAck(m) == m.type = "ack"
NoAck(q) == \A i \in DOMAIN q : ~IsAck(q[i])
LastAckIs(q, rev) ==
  \E i \in DOMAIN q :
    IsAck(q[i]) /\ q[i].n = rev /\ \A j \in DOMAIN q : IsAck(q[j]) => j <= i

\* What the bridge acknowledges to the server is what the application applied
\* last, as soon as the acks under way have arrived; no intent between them
\* changes it.  (The server computes the next delta from that revision.)
AckFollowsApp ==
  \/ IsAck(calling) /\ calling.n = applied
  \/ ~IsAck(calling) /\ LastAckIs(proxyToBridge, applied)
  \/ ~IsAck(calling) /\ NoAck(proxyToBridge) /\ bridgeAck = applied

\* Every call reaches the bridge, however long a connect keeps it.
CallsHandled == \A k \in 1 .. MaxCalls : sent >= k ~> Len(handled) >= k

\* Every callback of the bridge reaches the application, unless it disconnects.
EventsDelivered ==
  \A k \in 1 .. (MaxPosts + 2) :
    posted >= k ~> (Len(delivered) >= k \/ app # "running")

\* Neither direction loses anything.
NothingLost == CallsHandled /\ EventsDelivered

\* alloclient_disconnect returns: the network thread it joins comes to its end.
DisconnectReturns == calling = Disconnect ~> app = "gone"

=============================================================================
