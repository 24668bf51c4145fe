--------------------------- MODULE LocalController --------------------------
(***************************************************************************)
(* One station attached to a Local Controller                               *)
(* (src/src/transport/local_controller.rs): two connections, one relay, a   *)
(* liveness check on each of them, and the close that goes from one to the   *)
(* other.                                                                    *)
(*                                                                          *)
(* A message is its kind, its number among those of its sender, the CALL it  *)
(* answers and what the Relay hook (external) makes of it.  A text that does *)
(* not parse, and one that Replace puts in its place, are forwarded like any *)
(* other; the peers answer a CALL that reaches them, once.  A write either goes through or fails; one that *)
(* waits for a full socket buffer is left out.                               *)
(***************************************************************************)
EXTENDS Integers, Sequences, FiniteSets

CONSTANTS
  Interval,     \* Keepalive::interval
  Timeout,      \* Keepalive::timeout
  Traffic,      \* the kinds of frame, and the hook's verdict on each: [kind, verdict]
  MaxFrames,    \* bound: how many frames the peers send
  Nothing

ASSUME LocalControllerAssumption ==
  /\ Interval \in Nat \ {0} /\ Timeout \in Nat \ {0} /\ MaxFrames \in Nat /\ Nothing \notin Nat
  /\ \A t \in Traffic : t.kind \in {"Call", "Send", "Result", "Ping", "Binary"} /\ t.verdict \in {"Forward", "Reject", "Drop"}

Legs == {"south", "north"}
other(leg) == IF leg = "south" THEN "north" ELSE "south"

VARIABLES
  relay,       \* "Connecting", "Relaying" or "Ended"
  peer,        \* the far end of each leg: "Up", or "Gone" once it closed or failed
  inbox,       \* what it sent and the relay has not read
  wire,        \* what the relay wrote to it
  count,       \* how many frames it sent
  replied,     \* which CALLs of the other side it answered, and with which frame
  next_ping,   \* time to the next tick of the ping timer
  due,         \* south_pong_due and north_pong_due: the time left, or Nothing
  quiet        \* history: time since the leg's last pong, or since it was attached

lcVars == <<relay, peer, inbox, wire, count, replied, next_ping, due, quiet>>

lcInit ==
  /\ relay = "Connecting"
  /\ peer = [leg \in Legs |-> "Up"]
  /\ inbox = [leg \in Legs |-> << >>] /\ wire = [leg \in Legs |-> << >>] /\ count = [leg \in Legs |-> 0]
  /\ replied = [leg \in Legs |-> [n \in {} |-> 0]]
  /\ next_ping = 0 /\ due = [leg \in Legs |-> Nothing] /\ quiet = [leg \in Legs |-> 0]

Closing == [type |-> "Close"]
Write(leg, what) == [wire EXCEPT ![leg] = Append(@, what)]

(* attach: the station is let in once the CSMS has let the controller in     *)
(* under the station's name, and refused when it does not.                   *)
attach ==
  /\ relay = "Connecting"
  /\ \/ relay' = "Relaying" /\ UNCHANGED wire
     \/ relay' = "Ended" /\ wire' \in {wire, Write("south", [type |-> "BadGateway"])}
  /\ UNCHANGED <<peer, inbox, count, replied, next_ping, due, quiet>>

(* The end of pump: whatever ended one leg, both are closed; before it goes   *)
(* what relay_one passed on to the other leg, a Close of the peer or nothing. *)
Detach(leg, passed_on) ==
  /\ relay' = "Ended"
  /\ wire' = [wire EXCEPT ![leg] = Append(@, Closing), ![other(leg)] = @ \o passed_on \o <<Closing>>]

---------------------------------------------------------------------------
(* relay_one *)

(* LocalController::decide: only a CALL can be refused. *)
verdict(f) ==
  IF f.verdict # "Reject" THEN f.verdict ELSE IF f.kind = "Call" THEN "Answer" ELSE "Drop"

relay_message_both(leg) ==  \* mutant: a CALL that is refused goes on all the same
  LET f == Head(inbox[leg])
      on(w) == [w EXCEPT ![other(leg)] = Append(@, [type |-> "Frame", frame |-> f])]
  IN /\ relay = "Relaying" /\ inbox[leg] # << >> /\ f.kind # "Pong"
     /\ inbox' = [inbox EXCEPT ![leg] = Tail(@)]
     /\ wire' = IF f.kind = "Ping" THEN Write(leg, [type |-> "Pong"])
                ELSE IF f.kind = "Binary" THEN wire
                ELSE CASE verdict(f) = "Forward" -> on(wire)
                       [] verdict(f) = "Answer"  -> on(Write(leg, [type |-> "Answer", frame |-> f]))
                       [] verdict(f) = "Drop"    -> wire
     /\ UNCHANGED <<relay, peer, count, replied, next_ping, due, quiet>>
(* A text goes where the verdict says; a ping is answered on its own leg,    *)
(* and a binary message is ignored.                                          *)
relay_message(leg) ==
  LET f == Head(inbox[leg])
  IN /\ relay = "Relaying" /\ inbox[leg] # << >> /\ f.kind # "Pong"
     /\ inbox' = [inbox EXCEPT ![leg] = Tail(@)]
     /\ wire' = IF f.kind = "Ping" THEN Write(leg, [type |-> "Pong"])
                ELSE IF f.kind = "Binary" THEN wire
                ELSE CASE verdict(f) = "Forward" -> Write(other(leg), [type |-> "Frame", frame |-> f])
                       [] verdict(f) = "Answer"  -> Write(leg, [type |-> "Answer", frame |-> f])
                       [] verdict(f) = "Drop"    -> wire
     /\ UNCHANGED <<relay, peer, count, replied, next_ping, due, quiet>>

relay_pong_crossed(leg) ==  \* mutant: a pong lifts the other leg's deadline
  /\ relay = "Relaying" /\ inbox[leg] # << >> /\ Head(inbox[leg]).kind = "Pong"
  /\ inbox' = [inbox EXCEPT ![leg] = Tail(@)]
  /\ due' = [due EXCEPT ![other(leg)] = Nothing] /\ quiet' = [quiet EXCEPT ![leg] = 0]
  /\ UNCHANGED <<relay, peer, wire, count, replied, next_ping>>
relay_pong(leg) ==
  /\ relay = "Relaying" /\ inbox[leg] # << >> /\ Head(inbox[leg]).kind = "Pong"
  /\ inbox' = [inbox EXCEPT ![leg] = Tail(@)]
  /\ due' = [due EXCEPT ![leg] = Nothing] /\ quiet' = [quiet EXCEPT ![leg] = 0]
  /\ UNCHANGED <<relay, peer, wire, count, replied, next_ping>>

(* The leg ends with a Close, an error or the end of the stream, or a write  *)
(* of the relay to it fails.                                                 *)
relay_end(leg) ==
  /\ relay = "Relaying" /\ peer[leg] = "Gone"
  /\ Detach(leg, << >>) \/ Detach(leg, <<Closing>>)
  /\ UNCHANGED <<peer, inbox, count, replied, next_ping, due, quiet>>

---------------------------------------------------------------------------
(* The keepalive. *)

ping_both ==
  /\ relay = "Relaying" /\ next_ping = 0
  /\ next_ping' = Interval
  /\ due' = [leg \in Legs |-> IF due[leg] = Nothing THEN Timeout ELSE due[leg]]
  /\ UNCHANGED <<relay, peer, inbox, wire, count, replied, quiet>>

no_pong(leg) ==
  /\ relay = "Relaying" /\ due[leg] = 0
  /\ Detach(leg, << >>)
  /\ UNCHANGED <<peer, inbox, count, replied, next_ping, due, quiet>>

(* Time passes (external); the timers fire when they are due. *)
pass ==
  /\ relay = "Relaying" /\ next_ping > 0 /\ \A leg \in Legs : due[leg] # 0
  /\ next_ping' = next_ping - 1
  /\ due' = [leg \in Legs |-> IF due[leg] = Nothing THEN Nothing ELSE due[leg] - 1]
  /\ quiet' = [leg \in Legs |-> IF quiet[leg] > Interval + Timeout THEN quiet[leg] ELSE quiet[leg] + 1]
  /\ UNCHANGED <<relay, peer, inbox, wire, count, replied>>

---------------------------------------------------------------------------
(* The peers (external): they send frames, answer pings or do not, and go. *)

Text(leg, t, re) == [from |-> leg, n |-> count[leg], re |-> re, kind |-> t.kind, verdict |-> t.verdict]

peer_sends(leg) ==
  /\ relay = "Relaying" /\ peer[leg] = "Up" /\ count["south"] + count["north"] < MaxFrames
  /\ \E t \in Traffic : /\ t.kind # "Result"
                        /\ inbox' = [inbox EXCEPT ![leg] = Append(@, Text(leg, t, Nothing))]
  /\ count' = [count EXCEPT ![leg] = @ + 1]
  /\ UNCHANGED <<relay, peer, wire, replied, next_ping, due, quiet>>

(* The CALLs of the other side that reached this one. *)
Reached(leg) == {wire[leg][i].frame.n : i \in {j \in DOMAIN wire[leg] :
                   wire[leg][j].type = "Frame" /\ wire[leg][j].frame.kind = "Call"}}

peer_answers(leg) ==
  /\ relay = "Relaying" /\ peer[leg] = "Up" /\ count["south"] + count["north"] < MaxFrames
  /\ \E c \in Reached(leg) \ DOMAIN replied[leg], t \in Traffic :
       /\ t.kind = "Result"
       /\ inbox' = [inbox EXCEPT ![leg] = Append(@, Text(leg, t, c))]
       /\ replied' = [replied EXCEPT ![leg] =
                        [n \in DOMAIN @ \cup {c} |-> IF n = c THEN count[leg] ELSE @[n]]]
  /\ count' = [count EXCEPT ![leg] = @ + 1]
  /\ UNCHANGED <<relay, peer, wire, next_ping, due, quiet>>

peer_pongs(leg) ==
  /\ relay = "Relaying" /\ peer[leg] = "Up" /\ due[leg] # Nothing
  /\ \A i \in DOMAIN inbox[leg] : inbox[leg][i].kind # "Pong"
  /\ inbox' = [inbox EXCEPT ![leg] = Append(@, [kind |-> "Pong"])]
  /\ UNCHANGED <<relay, peer, wire, count, replied, next_ping, due, quiet>>

peer_goes(leg) ==
  /\ relay = "Relaying" /\ peer[leg] = "Up"
  /\ peer' = [peer EXCEPT ![leg] = "Gone"]
  /\ UNCHANGED <<relay, inbox, wire, count, replied, next_ping, due, quiet>>

lcNext ==
  \/ attach \/ ping_both \/ pass
  \/ \E leg \in Legs : \/ relay_message(leg) \/ relay_pong(leg) \/ relay_end(leg) \/ no_pong(leg)
                       \/ peer_sends(leg) \/ peer_answers(leg) \/ peer_pongs(leg) \/ peer_goes(leg)

lcSpec == lcInit /\ [][lcNext]_lcVars

---------------------------------------------------------------------------

(* What a peer is told about its own CALLs, by the controller or through it. *)
Answers(leg) ==
  {i \in DOMAIN wire[leg] :
     \/ wire[leg][i].type = "Answer"
     \/ wire[leg][i].type = "Frame" /\ wire[leg][i].frame.kind = "Result"}
AnswerTo(w) == IF w.type = "Answer" THEN w.frame.n ELSE w.frame.re

(* A CALL is answered once, by the controller in the other side's name or by *)
(* the other side through it, whatever the hook refuses, drops or lets pass  *)
(* on the way there and back (relay_one, decide): the peer could not tell two *)
(* answers apart, and its next CALL would get the second.                    *)
OneAnswerEach ==
  \A leg \in Legs : \A i, j \in Answers(leg) :
    AnswerTo(wire[leg][i]) = AnswerTo(wire[leg][j]) => i = j

(* A station is never kept online by a controller whose other leg is dead:   *)
(* while the relay runs, each leg has answered a ping within the interval    *)
(* and the timeout, whatever the other leg does (pump's timers).             *)
SilenceBounded == relay = "Relaying" => \A leg \in Legs : quiet[leg] <= Interval + Timeout

(* A leg is given up only after it was silent for the whole timeout, and a   *)
(* pong of the one never counts for the other.                               *)
LiveLegKept == \A leg \in Legs : due[leg] # Nothing => quiet[leg] + due[leg] >= Timeout

(* The two keepalives cut the relay for a leg's silence, and for nothing      *)
(* else.                                                                     *)
LegsWatched == SilenceBounded /\ LiveLegKept
=============================================================================
