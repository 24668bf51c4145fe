---------------------------- MODULE PeerRequests ----------------------------
(***************************************************************************)
(* The incoming half of one session: the engine's on_call and respond      *)
(* (src/src/engine/mod.rs), the handler task the driver spawns for every   *)
(* request, the semaphore those tasks share, the command channel that      *)
(* brings their answers back (src/src/transport/connection.rs), and the    *)
(* graceful drain that may close the connection under them.                *)
(*                                                                         *)
(* Frames that are requests are numbered in the order they arrive, over    *)
(* all connections.  Of the engine's outgoing half only `outgoing' is      *)
(* kept: whether a call is queued or in flight (module Engine has it all). *)
(*                                                                         *)
(* A station's driver outlives its connections; a CSMS makes a new engine, *)
(* a new driver and a new channel for each (`alive' ends with it).         *)
(***************************************************************************)
EXTENDS Integers, Sequences, FiniteSets

CONSTANTS
  Ids,               \* the message ids the peer uses
  Arrivals,          \* the requests the peer makes: <<action, kind of frame>>
  Csms,              \* Role::Csms, or Role::ChargingStation
  Serve,             \* InboundConcurrency::Serve, or Reject
  MaxPeerRequests,   \* EngineConfig::max_peer_requests
  EnforceBootGate,   \* EngineConfig::enforce_boot_gate
  StatusActions,     \* the actions whose CALLRESULT has a member `status'
  Permits,           \* MAX_CONCURRENT_HANDLERS
  Capacity,          \* the command channel's capacity
  UniqueIds,         \* whether the peer keeps Part 4 4.1.4: no id on two connections
  HandlerMayPanic,   \* whether a handler task may die without an answer
  MaxRequests,       \* bound: requests that arrive in a behaviour
  MaxConnections     \* bound: connections in a behaviour

(* One action of each class the incoming half tells apart; Report is the one *)
(* the CSMS may ask for, Stream the SEND, Unknown the one to turn away.       *)
Actions == {"BootNotification", "DataTransfer", "Report", "Stream", "Unknown"}
Kinds == {"Call", "Send"}
kind(action) == IF action = "Stream" THEN "Send" ELSE "Call"

ASSUME PeerAssumption ==
  /\ Arrivals \subseteq Actions \X Kinds
  /\ Csms \in BOOLEAN /\ Serve \in BOOLEAN /\ EnforceBootGate \in BOOLEAN
  /\ UniqueIds \in BOOLEAN /\ HandlerMayPanic \in BOOLEAN
  /\ MaxPeerRequests \in Nat /\ Permits \in Nat /\ Capacity \in Nat
  /\ MaxRequests \in Nat /\ MaxConnections \in Nat

Verdicts == {"Accepted", "Pending", "Rejected"}
BootStates == Verdicts \cup {"Idle"}
blocks_unsolicited_traffic(state) == state \in {"Pending", "Rejected"}

(* How far a request has come.  Busy: it still has a task. *)
Phases == {"Refused", "Waiting", "Running", "Replying", "Answered", "Dropped", "Panicked"}
Busy == {"Waiting", "Running", "Replying"}

VARIABLES
  alive,         \* the driver and its engine exist
  connected, conn,
  peer_inflight, \* the ids of the CALLs the peer is waiting on
  boot, solicited,
  outgoing, draining, close,
  requests,      \* the sequence of requests, each with its phase
  commands,      \* Command::Respond, on their way to the driver
  answers,       \* history: the answers transmitted, [by, conn]
  told           \* history: the last BootNotificationResponse's status on this connection

vars == <<alive, connected, conn, peer_inflight, boot, solicited, outgoing, draining,
          close, requests, commands, answers, told>>

engine_vars == <<boot, solicited>>
session_vars == <<alive, connected, conn>>
drain_vars == <<outgoing, draining, close>>

Init ==
  /\ alive = TRUE /\ connected = FALSE /\ conn = 0
  /\ peer_inflight = {}
  /\ boot = "Idle" /\ solicited = {}
  /\ outgoing = FALSE /\ draining = FALSE /\ close = "No"
  /\ requests = <<>> /\ commands = <<>> /\ answers = {}
  /\ told = "Idle"

Serials == 1..Len(requests)
Open == connected /\ close = "No"

-----------------------------------------------------------------------------
(* A frame with a request arrives. *)

(* Why on_call turns a request away, in the order of its checks. *)
wrong_message(action, received) == action = "Unknown" \/ kind(action) # received
duplicate(id, received) == received = "Call" /\ id \in peer_inflight
over_limit_late(received) ==  \* mutant: off by one
  /\ received = "Call" /\ peer_inflight # {}
  /\ Cardinality(peer_inflight) > MaxPeerRequests \/ ~Serve
over_limit(received) ==
  /\ received = "Call" /\ peer_inflight # {}
  /\ Cardinality(peer_inflight) >= MaxPeerRequests \/ ~Serve
unsolicited(action) ==
  /\ Csms /\ EnforceBootGate /\ blocks_unsolicited_traffic(boot)
  /\ action # "BootNotification" /\ action \notin solicited

refused(id, action, received) ==
  \/ wrong_message(action, received)
  \/ duplicate(id, received)
  \/ over_limit(received)
  \/ unsolicited(action)

(* reject: a CALL gets its CALLERROR at once, a SEND gets nothing. *)
on_call_refused(id, action, received) ==
  /\ refused(id, action, received)
  /\ requests' = Append(requests, [id |-> id, action |-> action, kind |-> received,
                                   conn |-> conn, phase |-> "Refused"])
  /\ answers' = IF received = "Send" THEN answers
                ELSE answers \cup {[by |-> Len(requests) + 1, conn |-> conn]}
  /\ UNCHANGED <<peer_inflight, boot, told>>

(* Output::Request: the driver spawns a handler task. *)
on_call_accepted(id, action, received) ==
  /\ ~refused(id, action, received)
  /\ requests' = Append(requests, [id |-> id, action |-> action, kind |-> received,
                                   conn |-> conn, phase |-> "Waiting"])
  /\ peer_inflight' = IF received = "Call" THEN peer_inflight \cup {id} ELSE peer_inflight
  /\ boot' = IF Csms /\ action = "BootNotification" THEN "Idle" ELSE boot
  /\ UNCHANGED <<answers, told>>

OnCall(id, action, received) ==
  /\ Open /\ Len(requests) < MaxRequests
  /\ UniqueIds => \A s \in Serials : requests[s].id = id => requests[s].conn = conn
  /\ \/ on_call_refused(id, action, received)
     \/ on_call_accepted(id, action, received)
  /\ UNCHANGED <<session_vars, solicited, drain_vars, commands>>

(* This side makes a call of its own.  A CSMS's may ask for a report: the    *)
(* station's answer to it is licensed.                                        *)
remember_solicited(asks) == solicited' = solicited \cup asks

call_with ==
  /\ Open /\ ~draining
  /\ outgoing' = TRUE
  /\ IF Csms THEN \E asks \in SUBSET {"Report"} : remember_solicited(asks)
     ELSE UNCHANGED solicited
  /\ UNCHANGED <<session_vars, boot, draining, close, peer_inflight, requests, commands,
                 answers, told>>

-----------------------------------------------------------------------------
(* The handler tasks. *)

SameDriver(s, u) == Csms => requests[s].conn = requests[u].conn

Running_forever(s) ==  \* mutant: the permit is kept once the answer is out
  {u \in Serials : SameDriver(s, u) /\ requests[u].phase \in {"Running", "Answered"}}
(* Who holds a permit of the driver that task s belongs to: a task does until *)
(* its answer has a place in the channel.                                     *)
Running(s) == {u \in Serials : SameDriver(s, u) /\ requests[u].phase = "Running"}

Acquire(s) ==
  /\ requests[s].phase = "Waiting" /\ Cardinality(Running(s)) < Permits
  /\ requests' = [requests EXCEPT ![s].phase = "Running"]
  /\ UNCHANGED <<session_vars, engine_vars, drain_vars, peer_inflight, commands, answers,
                 told>>

(* The channel's receiver goes with the session that made it. *)
Receiving(s) == alive /\ (Csms => requests[s].conn = conn)

(* The handler returns; a SEND is never answered.  `status' is the member of *)
(* that name in its CALLRESULT, None when there is none.                      *)
HandlerReturns(s, result, status) ==
  /\ requests[s].phase = "Running"
  /\ IF requests[s].kind = "Send" \/ ~Receiving(s)
     THEN /\ requests' = [requests EXCEPT ![s].phase = "Dropped"]
          /\ UNCHANGED commands
     ELSE /\ Len(commands) < Capacity
          /\ commands' = Append(commands, [by |-> s, result |-> result, status |-> status])
          /\ requests' = [requests EXCEPT ![s].phase = "Replying"]
  /\ UNCHANGED <<session_vars, engine_vars, drain_vars, peer_inflight, answers, told>>

HandlerPanics(s) ==
  /\ HandlerMayPanic /\ requests[s].phase = "Running"
  /\ requests' = [requests EXCEPT ![s].phase = "Panicked"]
  /\ UNCHANGED <<session_vars, engine_vars, drain_vars, peer_inflight, commands, answers,
                 told>>

Results(action) ==
  {<<"Error", "None">>} \cup
  {<<"Result", st>> : st \in IF action \in StatusActions THEN Verdicts ELSE {"None"}}

-----------------------------------------------------------------------------
(* The driver applies a Command::Respond. *)

observe_boot_answer(status) == boot' = IF status \in Verdicts THEN status ELSE boot

(* take_peer_request. *)
take_peer_request_leaky(id, result) ==  \* mutant: an error keeps the entry
  /\ id \in peer_inflight
  /\ peer_inflight' = IF result = "Error" THEN peer_inflight ELSE peer_inflight \ {id}
take_peer_request(id, result) ==
  /\ id \in peer_inflight
  /\ peer_inflight' = peer_inflight \ {id}

respond(s, result, status) ==
  /\ take_peer_request(requests[s].id, result)
  /\ IF Csms /\ result = "Result" THEN observe_boot_answer(status) ELSE UNCHANGED boot
  /\ answers' = answers \cup {[by |-> s, conn |-> conn]}
  /\ requests' = [requests EXCEPT ![s].phase = "Answered"]
  /\ told' = IF requests[s].action = "BootNotification" /\ result = "Result"
                THEN status ELSE told

(* EngineError::NoSuchRequest: nobody is waiting for it any more. *)
no_such_request(s) ==
  /\ requests[s].id \notin peer_inflight
  /\ requests' = [requests EXCEPT ![s].phase = "Dropped"]
  /\ UNCHANGED <<peer_inflight, boot, answers, told>>

Apply ==
  /\ Open /\ commands # <<>>
  /\ LET c == Head(commands)
     IN respond(c.by, c.result, c.status) \/ no_such_request(c.by)
  /\ commands' = Tail(commands)
  /\ UNCHANGED <<session_vars, solicited, drain_vars>>

-----------------------------------------------------------------------------
(* The graceful drain, which looks at the outgoing half only. *)

drain_complete == ~outgoing
check_drain(draining_now, busy) ==
  IF draining_now /\ ~busy
  THEN draining' = FALSE /\ close' = "Drained"
  ELSE draining' = draining_now /\ UNCHANGED close

Shutdown ==
  /\ Open /\ ~draining
  /\ check_drain(TRUE, outgoing)
  /\ UNCHANGED <<session_vars, engine_vars, outgoing, peer_inflight, requests, commands,
                 answers, told>>

(* The last of this side's own calls is answered or given up. *)
OutgoingDone ==
  /\ Open /\ outgoing
  /\ outgoing' = FALSE
  /\ check_drain(draining, FALSE)
  /\ UNCHANGED <<session_vars, engine_vars, peer_inflight, requests, commands, answers,
                 told>>

DrainDeadline ==
  /\ Open /\ draining /\ ~drain_complete
  /\ close' = "DrainTimedOut" /\ draining' = FALSE
  /\ UNCHANGED <<session_vars, engine_vars, outgoing, peer_inflight, requests, commands,
                 answers, told>>

-----------------------------------------------------------------------------
(* Connections. *)

(* What is still in a channel nobody reads any more is dropped with it. *)
DropReplies == [s \in Serials |->
                  IF requests[s].phase = "Replying"
                  THEN [requests[s] EXCEPT !.phase = "Dropped"] ELSE requests[s]]

(* on_disconnected: what may wait for the next connection stays queued, and  *)
(* the drain with it.  A Close it asks for is taken out of the outputs after  *)
(* the loop, where nobody looks at it.                                        *)
Ends(survives) ==
  /\ connected' = FALSE /\ alive' = survives
  /\ peer_inflight' = {}
  /\ outgoing' \in IF survives THEN {FALSE, outgoing} ELSE {FALSE}
  /\ draining' = (draining /\ outgoing')
  /\ close' = "No"
  /\ IF survives THEN UNCHANGED <<requests, commands>>
     ELSE requests' = DropReplies /\ commands' = <<>>
  /\ UNCHANGED <<conn, engine_vars, answers, told>>

(* The connection is lost; a station's driver waits for the next one. *)
Disconnected == connected /\ close = "No" /\ Ends(~Csms)

(* The driver has read Output::Close. *)
Closed == connected /\ close # "No" /\ Ends(FALSE)

Connected_kept ==  \* mutant: the old connection's calls are still waited for
  /\ ~connected /\ (alive \/ Csms) /\ conn < MaxConnections
  /\ connected' = TRUE /\ conn' = conn + 1 /\ alive' = TRUE
  /\ peer_inflight' = {requests[s].id : s \in {u \in Serials : requests[u].phase \in Busy}}
  /\ IF Csms THEN boot' = "Idle" /\ solicited' = {} /\ told' = "Idle"
     ELSE UNCHANGED <<engine_vars, told>>
  /\ UNCHANGED <<drain_vars, requests, commands, answers>>
(* on_connected: a CSMS's engine is a new one, a station's is the same until *)
(* its driver has closed.                                                     *)
Connected ==
  /\ ~connected /\ (alive \/ Csms) /\ conn < MaxConnections
  /\ connected' = TRUE /\ conn' = conn + 1 /\ alive' = TRUE
  /\ peer_inflight' = {}
  /\ IF Csms THEN boot' = "Idle" /\ solicited' = {} /\ told' = "Idle"
     ELSE UNCHANGED <<engine_vars, told>>
  /\ UNCHANGED <<drain_vars, requests, commands, answers>>

Next ==
  \/ \E id \in Ids, a \in Arrivals : OnCall(id, a[1], a[2])
  \/ call_with
  \/ \E s \in Serials :
       \/ Acquire(s)
       \/ \E r \in Results(requests[s].action) : HandlerReturns(s, r[1], r[2])
       \/ HandlerPanics(s)
  \/ Apply
  \/ Shutdown \/ OutgoingDone \/ DrainDeadline
  \/ Disconnected \/ Closed \/ Connected

Spec == Init /\ [][Next]_vars

(* The runtime polls every task, the handlers return, the driver reads its   *)
(* commands.                                                                  *)
Fairness ==
  /\ \A s \in 1..MaxRequests :
       WF_vars(s \in Serials /\ (\/ Acquire(s)
                                 \/ \E r \in Results(requests[s].action) :
                                       HandlerReturns(s, r[1], r[2])))
  /\ WF_vars(Apply)

FairSpec == Spec /\ Fairness

-----------------------------------------------------------------------------
(* Properties. *)

RequestOK(r) ==
  /\ r.id \in Ids /\ r.action \in Actions /\ r.kind \in Kinds
  /\ r.conn \in 1..conn /\ r.phase \in Phases

(* The type invariant. *)
TypeOK ==
  /\ alive \in BOOLEAN /\ connected \in BOOLEAN /\ conn \in 0..MaxConnections
  /\ peer_inflight \subseteq Ids
  /\ boot \in BootStates /\ told \in BootStates \cup {"None"} /\ solicited \subseteq Actions
  /\ outgoing \in BOOLEAN /\ draining \in BOOLEAN
  /\ close \in {"No", "Drained", "DrainTimedOut"}
  /\ Len(requests) <= MaxRequests /\ \A s \in Serials : RequestOK(requests[s])
  /\ Len(commands) <= Capacity
  /\ answers \subseteq [by : Serials, conn : 1..conn]

Handled(s) ==
  /\ requests[s].kind = "Call" /\ requests[s].conn = conn
  /\ requests[s].phase \in Busy \cup {"Panicked"}

(* Answers are told apart by the id, if the peer does not repeat one over     *)
(* connections, or by the channel: a CSMS has one for each connection.        *)
ToldApart == UniqueIds \/ Csms

(* The ids the engine waits for are, one for one, those of the CALLs of this *)
(* connection that are being handled (or whose handler died): nothing leaks   *)
(* from one connection to the next, and no two calls share an id, which would *)
(* make "the two answers indistinguishable to the peer".  A CSMS may rely on  *)
(* it whatever ids its peer uses; a station that is sent an id again on a new *)
(* connection can have a late answer clear the entry.                         *)
PendingAreHandled ==
  LET handled == {s \in Serials : Handled(s)}
  IN connected /\ ToldApart =>
       /\ peer_inflight = {requests[s].id : s \in handled}
       /\ Cardinality(peer_inflight) = Cardinality(handled)

(* An answer goes out on the connection its request came in on, however slow *)
(* the handler was; a station needs a peer that does not repeat ids for it.   *)
AnswersComeHome ==
  ToldApart => \A a \in answers : requests[a.by].conn = a.conn

(* The peer cannot make the engine wait for more calls than configured.      *)
WaitingBounded ==
  ToldApart => Cardinality({s \in Serials : connected /\ Handled(s)})
    <= IF Serve /\ MaxPeerRequests > 1 THEN MaxPeerRequests ELSE 1

(* The CSMS turns unsolicited calls away exactly while "the Charging Station  *)
(* has received a BootNotificationResponse whose status is not Accepted"      *)
(* (blocks_unsolicited_traffic): its gate is neither moved by the answers to  *)
(* other requests nor forgotten when the station asks again.                  *)
GateFollowsBoot == Csms => (blocks_unsolicited_traffic(boot) <=> blocks_unsolicited_traffic(told))

(* A drained session has let the answers in progress reach the peer.         *)
DrainKeepsAnswers == close = "Drained" => peer_inflight = {}

InHand(s) == s \in Serials /\ requests[s].phase \in Busy

(* Every request that was handed to the application is answered or dropped,  *)
(* or its handler died, or the connection is gone: the permits and the        *)
(* channel never have everyone waiting on everyone.                           *)
CallsAnswered ==
  \A s \in 1..MaxRequests : InHand(s) ~> (~InHand(s) \/ ~connected \/ close # "No")
=============================================================================
