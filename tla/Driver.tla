------------------------------- MODULE Driver -------------------------------
(***************************************************************************)
(* The driver of a charging station: the loop that owns the socket           *)
(* (Driver::run in src/src/transport/connection.rs), the loop that reconnects  *)
(* around it (src/src/transport/station.rs), and the calls of Handle.          *)
(*                                                                          *)
(* Module Engine says what the engine does with a call.  Here the engine is   *)
(* reduced to its queue, its call in flight and its drain, and what matters is *)
(* the queue of outputs between the two: a flush hands them on one by one and  *)
(* may break at every frame, and what it leaves behind is still there on the    *)
(* next connection.  Frames are single writes; the outputs that set timers and  *)
(* report events, the back-off of a retried call and the station's own          *)
(* BootNotification are left out: they are in module Engine.                     *)
(***************************************************************************)
EXTENDS Integers, Sequences, FiniteSets

CONSTANTS
  Calls,         \* the calls the application makes, each once
  Sends,         \* those that are unconfirmed SENDs
  Kept,          \* those with queue_when_offline
  Retried,       \* the transaction messages, which are tried twice
  Capacity,      \* of the command channel
  MaxConns,      \* bound: connections in a behaviour
  Profiles,      \* how many network profiles the priority list has
  Attempts,      \* NetworkProfileConnectionAttempts
  PingInterval,  \* Keepalive::interval
  PongTimeout,   \* Keepalive::timeout
  Reconnect,     \* StationBuilder::reconnect
  None

ASSUME DriverAssumption ==
  /\ IsFiniteSet(Calls) /\ None \notin Calls \cup Nat
  /\ Sends \subseteq Calls /\ Kept \subseteq Calls /\ Retried \subseteq Kept \ Sends
  /\ {Capacity, Profiles, Attempts, PingInterval, PongTimeout} \subseteq Nat \ {0}
  /\ MaxConns \in Nat /\ Reconnect \in BOOLEAN

VARIABLES
  mode,      \* "Down" between connections, "Up" inside Driver::run, "Stopped" after it
  conn,      \* history: the number of connections so far
  engine,    \* the engine: [queue, inflight, draining, booted, tried, outputs]
  channel,   \* the commands of Handle that the driver has not read
  pending,   \* the calls whose reply the driver holds
  reply,     \* what each caller has heard
  asked,     \* whether the application has called Handle::shutdown
  cycler,    \* ProfileCycler: [index, failures]
  ping,      \* time to the next tick of the ping timer
  pong_due,  \* time left for a pong, or None
  silent     \* history: time since a pong, or since the connection began

handles == <<channel, reply, asked>>
keepalive == <<ping, pong_due, silent>>
vars == <<mode, conn, engine, pending, cycler, handles, keepalive>>

Transmit(c, n) == [type |-> "Transmit", call |-> c, conn |-> n]
Outcome(c, how) == [type |-> "Outcome", call |-> c, how |-> how]
Close == [type |-> "Close"]

Elements(s) == {s[i] : i \in DOMAIN s}
(* The elements of s in T, in order. *)
Only(s, T) ==
  LET F[i \in 0 .. Len(s)] ==
        IF i = 0 THEN <<>> ELSE IF s[i] \in T THEN Append(F[i - 1], s[i]) ELSE F[i - 1]
  IN F[Len(s)]
Emit(e, s) == [e EXCEPT !.outputs = @ \o s]

---------------------------------------------------------------------------
(* The engine, reduced. *)

NoEngine == [queue |-> <<>>, inflight |-> None, draining |-> FALSE, booted |-> FALSE,
             tried |-> {}, outputs |-> <<>>]

(* pump: nothing before the station is booted; then every SEND goes out and is  *)
(* done with, and one call if none is in flight.                               *)
pump(e, n) ==
  LET sends == Only(e.queue, Sends)
      calls == Only(e.queue, Calls \ Sends)
      out   == [i \in 1 .. 2 * Len(sends) |->
                 IF i % 2 = 1 THEN Transmit(sends[(i + 1) \div 2], n)
                 ELSE Outcome(sends[i \div 2], "Sent")]
      sent  == [Emit(e, out) EXCEPT !.queue = calls]
  IN IF ~e.booted THEN e
     ELSE IF e.inflight # None \/ calls = <<>> THEN sent
     ELSE [Emit(sent, <<Transmit(Head(calls), n)>>) EXCEPT !.queue = Tail(calls), !.inflight = Head(calls)]

drain_complete(e) == e.inflight = None /\ e.queue = <<>>
check_drain(e) ==
  IF e.draining /\ drain_complete(e)
  THEN [Emit(e, <<Close>>) EXCEPT !.draining = FALSE] ELSE e

requeue_or_fail_reported(e) ==  \* mutant: the caller is told although the call is kept
  LET c == e.inflight
  IN IF c = None THEN e
     ELSE [Emit(e, <<Outcome(c, "Failed")>>) EXCEPT !.inflight = None, !.tried = @ \cup ({c} \cap Retried),
                                                    !.queue = IF c \in Retried \ e.tried THEN <<c>> \o @ ELSE @]
(* requeue_or_fail: to the front of the queue, as long as attempts are left. *)
requeue_or_fail(e) ==
  LET c == e.inflight
  IN IF c = None THEN e
     ELSE IF c \in Retried \ e.tried
     THEN [e EXCEPT !.inflight = None, !.queue = <<c>> \o @, !.tried = @ \cup {c}]
     ELSE [Emit(e, <<Outcome(c, "Failed")>>) EXCEPT !.inflight = None]

call_with(e, c) ==
  IF e.draining THEN e ELSE pump([e EXCEPT !.queue = Append(@, c)], conn)
shutdown(e) == IF e.draining THEN e ELSE check_drain([e EXCEPT !.draining = TRUE])
on_connected(e) == pump(e, conn + 1)

(* What does not wait out an outage is failed, in order. *)
on_disconnected(e) ==
  LET back    == requeue_or_fail(e)
      dropped == Only(back.queue, Calls \ Kept)
      failed  == [i \in DOMAIN dropped |-> Outcome(dropped[i], "Failed")]
  IN check_drain([Emit(back, failed) EXCEPT !.queue = Only(@, Kept)])

on_call_result(e) ==
  check_drain(pump([Emit(e, <<Outcome(e.inflight, "Answered")>>) EXCEPT !.inflight = None], conn))
on_boot_accepted(e) == check_drain(pump([e EXCEPT !.booted = TRUE], conn))
on_call_timeout(e) == check_drain(pump(requeue_or_fail(e), conn))
on_drain_timeout(e) == [Emit(e, <<Close>>) EXCEPT !.draining = FALSE]

---------------------------------------------------------------------------
(* Flushing. *)

(* The replies that handing on these outputs completes. *)
Reported(outputs) == {o.call : o \in {p \in Elements(outputs) : p.type = "Outcome"}}
HowReported(outputs, c) ==
  (CHOOSE o \in Elements(outputs) : o.type = "Outcome" /\ o.call = c).how
Hand(outputs) ==
  /\ pending' = pending \ Reported(outputs)
  /\ reply' = [c \in Calls |-> IF c \in Reported(outputs) \cap pending
                               THEN HowReported(outputs, c) ELSE reply[c]]

(* The outputs up to the first n. *)
Prefix(n) == SubSeq(engine.outputs, 1, n)
Rest_dropped(s, n) == <<>>  \* mutant: a broken flush drops the outputs behind it
Rest(s, n) == SubSeq(s, n + 1, Len(s))
Frames(s) == {i \in DOMAIN s : s[i].type = "Transmit"}

(* Where a flush over a socket that may no longer take frames ends: at a      *)
(* frame that feed refuses, which is lost, whatever it buffered before; or     *)
(* with everything handed on.                                                  *)
Reach(s) == Frames(s) \cup {Len(s)}

(* abandon, and the end of the task: the channel is dropped with what is in it. *)
Abandoned(s) == {channel[i].call : i \in {j \in DOMAIN channel : channel[j].type = "Call"}}
                \cup (pending \ Reported(s))

(* The connection ends after the first n outputs have been handed on: the      *)
(* engine is told, its last outputs are flushed as far as that goes and a      *)
(* Close among them is ignored; a drain, or a station that does not reconnect, *)
(* ends the task.                                                              *)
EndAt(closed, n, told, m) ==
  LET handed  == Prefix(n) \o SubSeq(told.outputs, 1, m)
      stops   == closed \/ ~Reconnect
      dropped == IF stops THEN Abandoned(handed) ELSE {}
  IN /\ engine' = [told EXCEPT !.outputs = Rest(@, m)]
     /\ mode' = IF stops THEN "Stopped" ELSE "Down"
     /\ pending' = IF stops THEN {} ELSE pending \ Reported(handed)
     /\ reply' = [c \in Calls |-> IF c \in Reported(handed) \cap pending THEN HowReported(handed, c)
                                  ELSE IF c \in dropped THEN "Failed" ELSE reply[c]]
     /\ channel' = IF stops THEN <<>> ELSE channel
     /\ pong_due' = None
     /\ UNCHANGED <<conn, asked, cycler, ping, silent>>
End(closed, n) ==
  LET told == on_disconnected([engine EXCEPT !.outputs = Rest(@, n)])
  IN \E m \in Reach(told.outputs) : EndAt(closed, n, told, m)

Idle == mode = "Up" /\ engine.outputs = <<>>

(* A flush that goes through. *)
flush ==
  /\ mode = "Up" /\ engine.outputs # <<>>
  /\ IF Close \in Elements(engine.outputs) THEN End(TRUE, Len(engine.outputs))
     ELSE /\ Hand(engine.outputs)
          /\ engine' = [engine EXCEPT !.outputs = <<>>]
          /\ UNCHANGED <<mode, conn, cycler, channel, asked, keepalive>>

(* feed fails at a frame, which is lost; or the final flush of the sink fails   *)
(* after everything was handed on, and a Close with it is dropped.              *)
flush_fails ==
  /\ mode = "Up" /\ Frames(engine.outputs) # {}
  /\ \E n \in Reach(engine.outputs) : End(FALSE, n)

---------------------------------------------------------------------------
(* The branches of the select. *)

Engine(e) ==
  /\ engine' = e
  /\ UNCHANGED <<mode, conn, cycler, keepalive>>

(* apply, for the commands of Handle. *)
apply ==
  /\ Idle /\ channel # <<>>
  /\ channel' = Tail(channel)
  /\ LET command == Head(channel) IN
       IF command.type = "Shutdown"
       THEN Engine(shutdown(engine)) /\ UNCHANGED <<pending, reply>>
       ELSE /\ Engine(call_with(engine, command.call))
            /\ IF engine.draining
               THEN reply' = [reply EXCEPT ![command.call] = "Failed"] /\ UNCHANGED pending
               ELSE pending' = pending \cup {command.call} /\ UNCHANGED reply
  /\ UNCHANGED asked

answered ==
  /\ Idle /\ engine.inflight # None
  /\ Engine(on_call_result(engine)) /\ UNCHANGED <<pending, handles>>

boot_accepted ==
  /\ Idle /\ ~engine.booted
  /\ Engine(on_boot_accepted(engine)) /\ UNCHANGED <<pending, handles>>

call_timeout_lost == FALSE /\ UNCHANGED vars  \* mutant: the call's timer is not served
call_timeout ==
  /\ Idle /\ engine.inflight # None
  /\ Engine(on_call_timeout(engine)) /\ UNCHANGED <<pending, handles>>

drain_timeout ==
  /\ Idle /\ engine.draining /\ ~drain_complete(engine)
  /\ Engine(on_drain_timeout(engine)) /\ UNCHANGED <<pending, handles>>

(* Close from the peer, a protocol error, or the end of the stream. *)
peer_gone == Idle /\ End(FALSE, 0)

ping_tick_postponing ==  \* mutant: every ping starts the pong timeout again
  /\ Idle /\ ping = 0
  /\ ping' = PingInterval /\ pong_due' = PongTimeout
  /\ UNCHANGED <<mode, conn, engine, pending, cycler, handles, silent>>
ping_tick ==
  /\ Idle /\ ping = 0
  /\ ping' = PingInterval
  /\ pong_due' = IF pong_due = None THEN PongTimeout ELSE pong_due
  /\ UNCHANGED <<mode, conn, engine, pending, cycler, handles, silent>>

pong ==
  /\ Idle /\ pong_due # None
  /\ pong_due' = None /\ silent' = 0
  /\ UNCHANGED <<mode, conn, engine, pending, cycler, handles, ping>>

pong_late == Idle /\ pong_due = 0 /\ End(FALSE, 0)

(* Time passes for the keepalive; both its timers fire when they are due. *)
tick ==
  /\ Idle /\ ping > 0 /\ pong_due # 0
  /\ ping' = ping - 1
  /\ pong_due' = IF pong_due = None THEN None ELSE pong_due - 1
  /\ silent' = IF silent < PongTimeout THEN silent + 1 ELSE silent
  /\ UNCHANGED <<mode, conn, engine, pending, cycler, handles>>

---------------------------------------------------------------------------
(* The station's loop. *)

connect ==
  /\ mode = "Down" /\ conn < MaxConns
  /\ mode' = "Up" /\ conn' = conn + 1
  /\ engine' = on_connected(engine)
  /\ cycler' = [cycler EXCEPT !.failures = 0]
  /\ ping' = 0 /\ pong_due' = None /\ silent' = 0
  /\ UNCHANGED <<pending, handles>>

(* ProfileCycler::failed; a station that does not reconnect gives up, and its   *)
(* handles find the channel closed.                                            *)
failed(c) ==
  IF c.failures + 1 >= Attempts /\ Profiles > 1
  THEN [index |-> (c.index + 1) % Profiles, failures |-> 0]
  ELSE [c EXCEPT !.failures = IF @ < Attempts THEN @ + 1 ELSE @]
connect_fails ==
  /\ mode = "Down"
  /\ IF Reconnect
     THEN /\ cycler' = failed(cycler)
          /\ UNCHANGED <<mode, pending, channel, reply>>
     ELSE /\ mode' = "Stopped" /\ channel' = <<>> /\ pending' = {}
          /\ reply' = [c \in Calls |-> IF c \in Abandoned(<<>>) THEN "Failed" ELSE reply[c]]
          /\ UNCHANGED cycler
  /\ UNCHANGED <<conn, engine, asked, keepalive>>

---------------------------------------------------------------------------
(* The application. *)

Call(c) ==
  /\ reply[c] = "Idle"
  /\ IF mode = "Stopped"
     THEN reply' = [reply EXCEPT ![c] = "Failed"] /\ UNCHANGED channel
     ELSE /\ Len(channel) < Capacity
          /\ reply' = [reply EXCEPT ![c] = "Waiting"]
          /\ channel' = Append(channel, [type |-> "Call", call |-> c])
  /\ UNCHANGED <<mode, conn, engine, pending, cycler, asked, keepalive>>

Shutdown ==
  /\ ~asked /\ mode # "Stopped" /\ Len(channel) < Capacity
  /\ asked' = TRUE
  /\ channel' = Append(channel, [type |-> "Shutdown"])
  /\ UNCHANGED <<mode, conn, engine, pending, reply, cycler, keepalive>>

Init ==
  /\ mode = "Down" /\ conn = 0 /\ engine = NoEngine
  /\ channel = <<>> /\ pending = {} /\ reply = [c \in Calls |-> "Idle"] /\ asked = FALSE
  /\ cycler = [index |-> 0, failures |-> 0]
  /\ ping = 0 /\ pong_due = None /\ silent = 0

Next ==
  \/ flush \/ flush_fails
  \/ apply \/ answered \/ boot_accepted \/ call_timeout \/ drain_timeout \/ peer_gone
  \/ ping_tick \/ pong \/ pong_late \/ tick
  \/ connect \/ connect_fails
  \/ Shutdown \/ \E c \in Calls : Call(c)

Spec == Init /\ [][Next]_vars

(* The select is polled fairly and its timers fire; the loop keeps trying, and  *)
(* the network and the CSMS let it in at last.  Nothing else is assumed of the   *)
(* peer: it need not answer calls or pings.                                     *)
Fairness ==
  /\ WF_vars(flush \/ flush_fails) /\ WF_vars(apply) /\ WF_vars(boot_accepted)
  /\ WF_vars(call_timeout) /\ WF_vars(drain_timeout)
  /\ WF_vars(tick) /\ WF_vars(ping_tick) /\ WF_vars(pong_late)
  /\ WF_vars(connect) /\ WF_vars(connect \/ connect_fails)
FairSpec == Spec /\ Fairness

---------------------------------------------------------------------------
(* Properties. *)

Commands == [type : {"Call"}, call : Calls] \cup {[type |-> "Shutdown"]}
Outputs == [type : {"Transmit"}, call : Calls, conn : 1 .. MaxConns]
           \cup [type : {"Outcome"}, call : Calls, how : {"Sent", "Answered", "Failed"}]
           \cup {Close}

TypeOK ==
  /\ mode \in {"Down", "Up", "Stopped"} /\ conn \in 0 .. MaxConns
  /\ Elements(engine.queue) \subseteq Calls /\ engine.inflight \in Calls \cup {None}
  /\ engine.draining \in BOOLEAN /\ engine.booted \in BOOLEAN
  /\ engine.tried \subseteq Retried
  /\ Elements(engine.outputs) \subseteq Outputs
  /\ Elements(channel) \subseteq Commands /\ Len(channel) <= Capacity
  /\ pending \subseteq Calls
  /\ reply \in [Calls -> {"Idle", "Waiting", "Sent", "Answered", "Failed"}]
  /\ asked \in BOOLEAN
  /\ cycler \in [index : 0 .. Profiles - 1, failures : 0 .. Attempts]
  /\ ping \in 0 .. PingInterval /\ pong_due \in 0 .. PongTimeout \cup {None}
  /\ silent \in 0 .. PongTimeout

InChannel(c) == \E i \in DOMAIN channel : channel[i] = [type |-> "Call", call |-> c]
InEngine(c) == c = engine.inflight \/ c \in Elements(engine.queue)

(* Nobody waits for a reply that no one can send: a caller that waits has its  *)
(* command in the channel or its reply with the driver, never both, and a       *)
(* reply the driver holds belongs to a call that the engine still has or has     *)
(* reported in an output that is still to be handed on, however the flushes of   *)
(* this and of earlier connections have failed.                                 *)
NoReplyForgotten ==
  \A c \in Calls :
    /\ reply[c] = "Waiting" <=> InChannel(c) \/ c \in pending
    /\ ~(InChannel(c) /\ c \in pending)
    /\ c \in pending => InEngine(c) \/ c \in Reported(engine.outputs)

(* A frame never goes out after its caller was told how the call ended: the    *)
(* frames a broken flush leaves for the next connection are still ahead of the  *)
(* outcomes they belong to.                                                     *)
NothingAfterReport ==
  mode # "Stopped" => \A i \in Frames(engine.outputs) : reply[engine.outputs[i].call] = "Waiting"

(* The keepalive cuts a connection for silence and for nothing else: while it  *)
(* waits for a pong, the peer will have been silent for the whole pong timeout  *)
(* when it strikes, however pings and pongs interleave, and a peer that no       *)
(* longer answers pings loses its connection in the end.                        *)
LivePeerKept == pong_due # None => silent + pong_due >= PongTimeout
KeepaliveExact == []LivePeerKept /\ []<>(mode # "Up" \/ silent = 0)

(* Every caller hears of its call, unless the network never lets the station   *)
(* in again (here: the bound on connections is used up).                        *)
NeverAgain == mode = "Down" /\ conn = MaxConns
CallersReleased ==
  \A c \in Calls : reply[c] = "Waiting" ~> (reply[c] # "Waiting" \/ NeverAgain)

(* The loop that was asked to stop stops. *)
ShutdownStops == asked ~> (mode = "Stopped" \/ NeverAgain)
=============================================================================
