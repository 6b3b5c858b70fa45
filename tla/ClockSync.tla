------------------------------ MODULE ClockSync ------------------------------
(***************************************************************************)
(* How a client estimates the server's clock (src/src/client/client.c,     *)
(* handle_clock in src/src/standalone_server.cpp).  Both clocks are        *)
(* monotonic, run alike and started at different times; a unit of time is  *)
(* a millisecond.  The clock's channel is unreliable and sequenced: what   *)
(* arrives makes everything sent before it worthless, the rest may be lost.*)
(***************************************************************************)
EXTENDS Integers, TLAPS

CONSTANTS
  Offset,  \* the server's clock minus the client's
  Jumps,   \* by how much the clocks advance in a step
  MaxTime  \* BOUND: the client's clock stops

VARIABLES
  now,          \* get_ts_mono of the client
  lastRequest,  \* latest_clockreq_ts
  requests,     \* the client_time of requests under way
  answers,      \* answers under way
  estimate      \* what parse_clock made of the last answer

vars == <<now, lastRequest, requests, answers, estimate>>

ServerTime == now + Offset

Init ==
  /\ now = 0 /\ lastRequest = 0
  /\ requests = {} /\ answers = {}
  /\ estimate = [known |-> FALSE, then |-> 0, roundtrip |-> 0, delta |-> 0]

\* At most once a second.
SendClockRequest ==
  /\ now > lastRequest + 1000
  /\ requests' = requests \cup {now}
  /\ lastRequest' = now
  /\ UNCHANGED <<now, answers, estimate>>

\* handle_clock echoes the request with its own time.
HandleClock(then) ==
  /\ then \in requests
  /\ requests' = {r \in requests : r > then}
  /\ answers' = answers \cup {[client_time |-> then, server_time |-> ServerTime]}
  /\ UNCHANGED <<now, lastRequest, estimate>>

\* clock_latency is half of the roundtrip, clock_deltaToServer the delta.
ParseClock(answer) ==
  /\ answer \in answers
  /\ LET roundtrip == now - answer.client_time IN
       estimate' = [known |-> TRUE, then |-> answer.client_time, roundtrip |-> roundtrip,
                    delta |-> answer.server_time + roundtrip - now]
  /\ answers' = {a \in answers : a.client_time > answer.client_time}
  /\ UNCHANGED <<now, lastRequest, requests>>

Tick ==
  /\ now < MaxTime
  /\ \E jump \in Jumps : now' = now + jump
  /\ UNCHANGED <<lastRequest, requests, answers, estimate>>

Next ==
  \/ SendClockRequest \/ Tick
  \/ \E then \in requests : HandleClock(then)
  \/ \E answer \in answers : ParseClock(answer)

Spec == Init /\ [][Next]_vars

-----------------------------------------------------------------------------
(* Properties.                                                             *)

TypeOK ==
  /\ now \in Int /\ lastRequest \in Int
  /\ requests \subseteq Int
  /\ answers \subseteq [client_time : Int, server_time : Int]
  /\ estimate \in [known : BOOLEAN, then : Int, roundtrip : Int, delta : Int]

\* alloclient_get_time.
EstimatedTime == now + estimate.delta

\* The estimate is never behind the server's clock, and ahead of it by at most
\* the roundtrip, which is twice the latency that is reported with it.
EstimateAhead ==
  estimate.known => /\ ServerTime <= EstimatedTime
                    /\ EstimatedTime <= ServerTime + estimate.roundtrip

\* No estimate replaces that of a later request, whatever the network loses
\* and delays.
NewestEstimate ==
  [][estimate' # estimate => estimate'.then > estimate.then \/ ~estimate.known]_vars

-----------------------------------------------------------------------------
(* Proofs.                                                                 *)

\* An answer was computed between its request and now.
Answered(a) ==
  /\ a.client_time + Offset <= a.server_time /\ a.server_time <= ServerTime
  /\ a.client_time <= lastRequest

\* Requests are newer than all answers, answers newer than the estimate.
IInv ==
  /\ TypeOK
  /\ lastRequest <= now
  /\ \A r \in requests : r <= lastRequest
  /\ \A a \in answers : Answered(a)
  /\ \A r \in requests, a \in answers : a.client_time < r
  /\ estimate.known => /\ estimate.then <= lastRequest
                       /\ \A r \in requests : estimate.then < r
                       /\ \A a \in answers : estimate.then < a.client_time
  /\ EstimateAhead

LEMMA ClockStep ==
  ASSUME Offset \in Int, Jumps \subseteq Nat, IInv, [Next]_vars
  PROVE  IInv'
<1> USE DEF IInv, TypeOK, Answered, EstimateAhead, EstimatedTime, ServerTime
<1>1. CASE SendClockRequest
  BY <1>1 DEF SendClockRequest
<1>2. CASE Tick
  <2>1. PICK jump \in Nat : now' = now + jump
    BY <1>2 DEF Tick
  <2> QED BY <1>2, <2>1 DEF Tick
<1>3. ASSUME NEW then \in requests, HandleClock(then)
      PROVE  IInv'
  <2> DEFINE new == [client_time |-> then, server_time |-> now + Offset]
  <2>1. new \in [client_time : Int, server_time : Int] /\ Answered(new)
    OBVIOUS
  <2>2. answers' = answers \cup {new} /\ requests' = {r \in requests : r > then}
        /\ UNCHANGED <<now, lastRequest, estimate>>
    BY <1>3 DEF HandleClock
  <2>3. \A a \in answers' : Answered(a) /\ (a \in answers \/ a.client_time = then)
    BY <2>1, <2>2
  <2>4. TypeOK'
    BY <2>1, <2>2
  <2> QED BY <2>2, <2>3, <2>4
<1>4. ASSUME NEW answer \in answers, ParseClock(answer)
      PROVE  IInv'
  <2>1. estimate' = [known |-> TRUE, then |-> answer.client_time,
                     roundtrip |-> now - answer.client_time,
                     delta |-> answer.server_time + (now - answer.client_time) - now]
        /\ answers' = {a \in answers : a.client_time > answer.client_time}
        /\ UNCHANGED <<now, lastRequest, requests>>
    BY <1>4 DEF ParseClock
  <2>2. answer.client_time \in Int /\ answer.server_time \in Int
    OBVIOUS
  <2>3. TypeOK'
    BY <2>1, <2>2
  <2>4. EstimateAhead'
    BY <2>1, <2>2
  <2> QED BY <2>1, <2>2, <2>3, <2>4
<1>5. CASE UNCHANGED vars
  BY <1>5 DEF vars
<1> QED BY <1>1, <1>2, <1>3, <1>4, <1>5 DEF Next

\* parse_clock never puts the server's time behind, nor ahead by more than the
\* roundtrip.
THEOREM ClockTheorem ==
  ASSUME Offset \in Int, Jumps \subseteq Nat
  PROVE  Spec => []EstimateAhead
<1>1. Init => IInv
  BY DEF Init, IInv, TypeOK, EstimateAhead
<1>2. IInv /\ [Next]_vars => IInv'
  BY ClockStep
<1>3. IInv => EstimateAhead
  BY DEF IInv
<1> QED BY <1>1, <1>2, <1>3, PTL DEF Spec

\* Estimates come in the order of their requests.
THEOREM NewestTheorem ==
  ASSUME Offset \in Int, Jumps \subseteq Nat
  PROVE  Spec => NewestEstimate
<1>1. Init => IInv
  BY DEF Init, IInv, TypeOK, EstimateAhead
<1>2. IInv /\ [Next]_vars => IInv'
  BY ClockStep
<1>3. IInv /\ [Next]_vars =>
        [estimate' # estimate => estimate'.then > estimate.then \/ ~estimate.known]_vars
  BY DEF IInv, Next, SendClockRequest, Tick, HandleClock, ParseClock, vars
<1> QED BY <1>1, <1>2, <1>3, PTL DEF Spec, NewestEstimate
=============================================================================
