------------------------- MODULE PeerRequestsProofs -------------------------
(***************************************************************************)
(* Proofs about module PeerRequests, for any number of requests, ids,       *)
(* permits and connections, for a station and for a CSMS.                    *)
(***************************************************************************)
EXTENDS PeerRequests, TLAPS, FiniteSetTheorems, SequenceTheorems

Request == [id : Ids, action : Actions, kind : Kinds, conn : Nat, phase : Phases]
Command == [by : Nat, result : {"Result", "Error"}, status : Verdicts \cup {"None"}]

(* Types, part by part, and that a connection belongs to a driver.            *)
Flags ==
  /\ alive \in BOOLEAN /\ connected \in BOOLEAN /\ outgoing \in BOOLEAN /\ draining \in BOOLEAN
  /\ connected => alive /\ conn > 0
States ==
  /\ conn \in 0..MaxConnections /\ close \in {"No", "Drained", "DrainTimedOut"}
  /\ boot \in BootStates /\ told \in BootStates \cup {"None"} /\ solicited \subseteq Actions
Messages ==
  /\ requests \in Seq(Request) /\ Len(requests) <= MaxRequests
  /\ \A s \in Serials : requests[s].conn \in 1..conn
  /\ commands \in Seq(Command) /\ Len(commands) <= Capacity
  /\ peer_inflight \subseteq Ids
  /\ answers \subseteq [by : Serials, conn : 1..conn]
Shape == Flags /\ States /\ Messages

(* A command on its way to the driver is the one answer of a CALL whose task  *)
(* has sent it; a CSMS's driver only hears of its own connection.             *)
CommandsOwed ==
  /\ \A i \in DOMAIN commands :
       /\ commands[i].by \in Serials
       /\ requests[commands[i].by].phase = "Replying"
       /\ requests[commands[i].by].kind = "Call"
       /\ Csms => requests[commands[i].by].conn = conn
       /\ <<commands[i].result, commands[i].status>> \in Results(requests[commands[i].by].action)
  /\ \A i, j \in DOMAIN commands : commands[i].by = commands[j].by => i = j

(* Between two connections a CSMS has no driver that could hear anything.     *)
NoDriverBetween == Csms /\ ~connected => commands = << >> /\ (alive => Serials = {})

(* A peer that keeps to the standard uses an id on one connection only.       *)
IdsOfOneConnection ==
  UniqueIds => \A s, u \in Serials : requests[s].id = requests[u].id => requests[s].conn = requests[u].conn

(* The entries of peer_inflight and the calls being handled, one for one.     *)
OneForOne ==
  connected /\ ToldApart =>
    /\ \A s \in Serials : Handled(s) => requests[s].id \in peer_inflight
    /\ \A id \in peer_inflight : \E s \in Serials : Handled(s) /\ requests[s].id = id
    /\ \A s, u \in Serials : Handled(s) /\ Handled(u) /\ requests[s].id = requests[u].id => s = u

Limit == IF Serve /\ MaxPeerRequests > 1 THEN MaxPeerRequests ELSE 1
InflightBounded == IsFiniteSet(peer_inflight) /\ Cardinality(peer_inflight) <= Limit

PeerInv == /\ Shape /\ CommandsOwed /\ NoDriverBetween /\ IdsOfOneConnection /\ OneForOne
           /\ InflightBounded /\ AnswersComeHome

---------------------------------------------------------------------------
(* The two ways in which the sequence of requests changes. *)

LEMMA PhaseChange ==
  ASSUME requests \in Seq(Request), NEW s \in Serials, NEW p \in Phases,
         requests' = [requests EXCEPT ![s].phase = p]
  PROVE  /\ requests' \in Seq(Request) /\ Len(requests') = Len(requests) /\ Serials' = Serials
         /\ requests'[s].phase = p
         /\ \A u \in Serials :
              /\ requests'[u].id = requests[u].id /\ requests'[u].action = requests[u].action
              /\ requests'[u].kind = requests[u].kind /\ requests'[u].conn = requests[u].conn
              /\ u # s => requests'[u].phase = requests[u].phase
<1>1. requests[s] \in Request
  BY DEF Serials
<1> DEFINE r == [requests[s] EXCEPT !.phase = p]
<1>2. /\ r \in Request /\ r.phase = p /\ r.id = requests[s].id /\ r.action = requests[s].action
      /\ r.kind = requests[s].kind /\ r.conn = requests[s].conn
  BY <1>1 DEF Request
<1>3. requests' = [requests EXCEPT ![s] = r]
  OBVIOUS
<1> HIDE DEF r
<1>4. /\ requests' \in Seq(Request) /\ Len(requests') = Len(requests)
      /\ \A u \in 1..Len(requests) : requests'[u] = IF u = s THEN r ELSE requests[u]
  BY <1>2, <1>3 DEF Serials
<1> QED BY <1>2, <1>4 DEF Serials

LEMMA Arrived ==
  ASSUME requests \in Seq(Request), NEW r \in Request, requests' = Append(requests, r)
  PROVE  /\ requests' \in Seq(Request) /\ Len(requests') = Len(requests) + 1
         /\ Serials' = Serials \cup {Len(requests) + 1} /\ Len(requests) + 1 \notin Serials
         /\ \A u \in Serials : requests'[u] = requests[u]
         /\ requests'[Len(requests) + 1] = r
BY DEF Serials

---------------------------------------------------------------------------
LEMMA InitPeer == Init => PeerInv
<1> SUFFICES ASSUME Init PROVE PeerInv
  OBVIOUS
<1>1. Len(requests) = 0 /\ Len(commands) = 0 /\ Serials = {} /\ DOMAIN commands = {}
      /\ requests \in Seq(Request) /\ commands \in Seq(Command)
  BY DEF Init, Serials
<1>2. Flags
  BY Zenon DEF Init, Flags
<1>3. States /\ Messages
  BY <1>1, PeerAssumption DEF Init, States, Messages, BootStates
<1>4. CommandsOwed /\ NoDriverBetween /\ IdsOfOneConnection /\ OneForOne /\ AnswersComeHome
  BY <1>1, Zenon DEF Init, CommandsOwed, NoDriverBetween, IdsOfOneConnection, OneForOne, AnswersComeHome
<1>5. InflightBounded
  BY FS_EmptySet, PeerAssumption DEF Init, InflightBounded, Limit
<1> QED BY <1>2, <1>3, <1>4, <1>5 DEF PeerInv, Shape

LEMMA AcquireStep ==
  ASSUME PeerInv, NEW s \in Serials, Acquire(s) \/ HandlerPanics(s)
  PROVE  PeerInv'
<1>1. PICK p \in {"Running", "Panicked"} :
        requests' = [requests EXCEPT ![s].phase = p] /\ requests[s].phase \in {"Waiting", "Running"}
  BY DEF Acquire, HandlerPanics
<1>2. UNCHANGED <<alive, connected, conn, peer_inflight, boot, solicited, outgoing, draining,
                  close, commands, answers, told>>
  BY DEF Acquire, HandlerPanics, session_vars, engine_vars, drain_vars
<1>3. /\ requests' \in Seq(Request) /\ Len(requests') = Len(requests) /\ Serials' = Serials
      /\ requests'[s].phase = p
      /\ \A u \in Serials :
           /\ requests'[u].id = requests[u].id /\ requests'[u].action = requests[u].action
           /\ requests'[u].kind = requests[u].kind /\ requests'[u].conn = requests[u].conn
           /\ u # s => requests'[u].phase = requests[u].phase
  BY <1>1, PhaseChange DEF PeerInv, Shape, Messages, Phases
<1> USE DEF PeerInv, Shape
<1>4. Flags' /\ States'
  BY <1>2, Zenon DEF Flags, States
<1>5. Messages'
  BY <1>2, <1>3 DEF Messages
<1>6. CommandsOwed'
  BY <1>1, <1>2, <1>3 DEF CommandsOwed, Results
<1>7. \A u \in Serials : Handled(u)' <=> Handled(u)
  BY <1>1, <1>2, <1>3 DEF Handled, Busy
<1>8. IdsOfOneConnection' /\ OneForOne'
  BY <1>2, <1>3, <1>7 DEF IdsOfOneConnection, OneForOne
<1>9. InflightBounded' /\ AnswersComeHome' /\ NoDriverBetween'
  BY <1>2, <1>3 DEF InflightBounded, AnswersComeHome, NoDriverBetween, Messages
<1> QED BY <1>4, <1>5, <1>6, <1>8, <1>9

LEMMA ReturnsStep ==
  ASSUME PeerInv, NEW s \in Serials, NEW r \in Results(requests[s].action),
         HandlerReturns(s, r[1], r[2])
  PROVE  PeerInv'
<1> USE DEF PeerInv, Shape
<1>1. /\ requests[s].phase = "Running"
      /\ UNCHANGED <<alive, connected, conn, peer_inflight, boot, solicited, outgoing, draining,
                     close, answers, told>>
  BY DEF HandlerReturns, session_vars, engine_vars, drain_vars
<1>2. PICK p \in {"Dropped", "Replying"} :
        /\ requests' = [requests EXCEPT ![s].phase = p]
        /\ p = "Dropped" => commands' = commands /\ (requests[s].kind = "Send" \/ ~Receiving(s))
        /\ p = "Replying" =>
             /\ Len(commands) < Capacity /\ requests[s].kind # "Send" /\ Receiving(s)
             /\ commands' = Append(commands, [by |-> s, result |-> r[1], status |-> r[2]])
  BY DEF HandlerReturns
<1>3. /\ requests' \in Seq(Request) /\ Len(requests') = Len(requests) /\ Serials' = Serials
      /\ requests'[s].phase = p
      /\ \A u \in Serials :
           /\ requests'[u].id = requests[u].id /\ requests'[u].action = requests[u].action
           /\ requests'[u].kind = requests[u].kind /\ requests'[u].conn = requests[u].conn
           /\ u # s => requests'[u].phase = requests[u].phase
  BY <1>2, PhaseChange DEF Messages, Phases
<1>4. Flags' /\ States'
  BY <1>1, Zenon DEF Flags, States
<1> DEFINE c == [by |-> s, result |-> r[1], status |-> r[2]]
<1>5. c \in Command /\ c.by = s /\ <<c.result, c.status>> \in Results(requests[s].action)
  <2>1. /\ r[1] \in {"Result", "Error"} /\ r[2] \in Verdicts \cup {"None"}
        /\ <<r[1], r[2]>> \in Results(requests[s].action)
    BY DEF Results
  <2>2. s \in Nat
    BY DEF Serials
  <2> QED BY <2>1, <2>2 DEF Command
<1> HIDE DEF c
<1>6. commands' \in Seq(Command) /\ Len(commands') <= Capacity
  <2>1. \/ commands' = commands
        \/ commands' = Append(commands, c) /\ Len(commands) < Capacity
    BY <1>2 DEF c
  <2>2. commands \in Seq(Command) /\ Len(commands) <= Capacity /\ Capacity \in Nat
    BY PeerAssumption DEF Messages
  <2> QED BY <1>5, <2>1, <2>2
<1>7. Messages'
  BY <1>1, <1>3, <1>6 DEF Messages
<1>8. CommandsOwed'
  <2>1. CASE p = "Dropped"
    BY <1>1, <1>2, <1>3, <2>1 DEF CommandsOwed, Results
  <2>2. CASE p = "Replying"
    <3>1. /\ DOMAIN commands' = DOMAIN commands \cup {Len(commands) + 1}
          /\ commands'[Len(commands) + 1] = c
          /\ \A i \in DOMAIN commands : commands'[i] = commands[i] /\ i # Len(commands) + 1
      <4>1. commands' = Append(commands, c)
        BY <1>2, <2>2 DEF c
      <4> QED BY <1>5, <4>1 DEF Messages
    <3>2. requests[s].kind = "Call" /\ (Csms => requests[s].conn = conn)
      <4>1. requests[s] \in Request
        BY DEF Messages, Serials
      <4> QED BY <1>2, <2>2, <4>1 DEF Receiving, Request, Kinds
    <3>3. \A i \in DOMAIN commands : commands[i].by # s
      BY <1>1 DEF CommandsOwed
    <3>4. ASSUME NEW i \in DOMAIN commands'
          PROVE  /\ commands'[i].by \in Serials'
                 /\ requests'[commands'[i].by].phase = "Replying"
                 /\ requests'[commands'[i].by].kind = "Call"
                 /\ Csms => requests'[commands'[i].by].conn = conn'
                 /\ <<commands'[i].result, commands'[i].status>> \in Results(requests'[commands'[i].by].action)
      <4>1. CASE i \in DOMAIN commands
        BY <1>1, <1>3, <3>1, <3>3, <4>1 DEF CommandsOwed
      <4>2. CASE i = Len(commands) + 1
        BY <1>1, <1>3, <1>5, <2>2, <3>1, <3>2, <4>2
      <4> QED BY <3>1, <4>1, <4>2
    <3>5. \A i, j \in DOMAIN commands' : commands'[i].by = commands'[j].by => i = j
      BY <1>5, <3>1, <3>3 DEF CommandsOwed
    <3> QED BY <3>4, <3>5 DEF CommandsOwed, Results
  <2> QED BY <2>1, <2>2
<1>9. connected => \A u \in Serials : Handled(u)' <=> Handled(u)
  BY <1>1, <1>2, <1>3 DEF Handled, Busy, Receiving, Flags
<1>10. IdsOfOneConnection' /\ OneForOne'
  BY <1>1, <1>3, <1>9 DEF IdsOfOneConnection, OneForOne
<1>11. InflightBounded' /\ AnswersComeHome'
  BY <1>1, <1>3 DEF InflightBounded, AnswersComeHome, Messages
<1>12. NoDriverBetween'
  BY <1>1, <1>2, <1>3 DEF NoDriverBetween, Receiving
<1> QED BY <1>4, <1>7, <1>8, <1>10, <1>11, <1>12

LEMMA OnCallStep ==
  ASSUME PeerInv, NEW id \in Ids, NEW a \in Arrivals, OnCall(id, a[1], a[2])
  PROVE  PeerInv'
<1> USE DEF PeerInv, Shape
<1>0. PICK n \in Nat : n = Len(requests) + 1
  BY DEF Messages
<1> DEFINE r(ph) == [id |-> id, action |-> a[1], kind |-> a[2], conn |-> conn, phase |-> ph]
           accepted == ~refused(id, a[1], a[2])
<1>1. /\ connected /\ close = "No" /\ Len(requests) < MaxRequests
      /\ UNCHANGED <<alive, connected, conn, solicited, outgoing, draining, close, commands>>
      /\ UniqueIds => \A s \in Serials : requests[s].id = id => requests[s].conn = conn
  BY DEF OnCall, Open, session_vars, drain_vars
<1>2. a[1] \in Actions /\ a[2] \in Kinds /\ conn \in Nat /\ conn > 0
  BY <1>1, PeerAssumption DEF Flags, States
<1>3. PICK ph \in {"Refused", "Waiting"} :
        /\ requests' = Append(requests, r(ph))
        /\ ph = "Refused" => /\ answers' = IF a[2] = "Send" THEN answers ELSE answers \cup {[by |-> n, conn |-> conn]}
                             /\ UNCHANGED <<peer_inflight, boot, told>>
        /\ ph = "Waiting" =>
             /\ accepted
             /\ peer_inflight' = IF a[2] = "Call" THEN peer_inflight \cup {id} ELSE peer_inflight
             /\ boot' \in {"Idle", boot} /\ told' \in {"Idle", told}
             /\ UNCHANGED answers
  BY <1>0 DEF OnCall, on_call_refused, on_call_accepted
<1>4. /\ r(ph) \in Request /\ r(ph).id = id /\ r(ph).action = a[1] /\ r(ph).kind = a[2]
      /\ r(ph).conn = conn /\ r(ph).phase = ph
  BY <1>2 DEF Request, Phases
<1>5. /\ requests' \in Seq(Request) /\ Len(requests') = n
      /\ Serials' = Serials \cup {n} /\ n \notin Serials
      /\ \A u \in Serials : requests'[u] = requests[u]
      /\ requests'[n] = r(ph)
  BY <1>0, <1>3, <1>4, Arrived DEF Messages
<1> HIDE DEF r
<1>6. Flags'
  BY <1>1, Zenon DEF Flags
<1>7. States'
  BY <1>1, <1>3 DEF States, BootStates
<1>8. answers' \subseteq [by : Serials', conn : 1..conn']
  <2>1. answers \subseteq [by : Serials', conn : 1..conn']
    BY <1>1, <1>5 DEF Messages
  <2>2. [by |-> n, conn |-> conn] \in [by : Serials', conn : 1..conn']
    BY <1>1, <1>2, <1>5
  <2> QED BY <1>3, <2>1, <2>2
<1>9. Messages'
  <2>1. peer_inflight' \subseteq Ids
    BY <1>3 DEF Messages
  <2>2. \A s \in Serials' : requests'[s].conn \in 1..conn'
    BY <1>1, <1>2, <1>4, <1>5 DEF Messages
  <2> QED BY <1>0, <1>1, <1>5, <1>8, <2>1, <2>2, PeerAssumption DEF Messages
<1>10. CommandsOwed'
  BY <1>1, <1>5 DEF CommandsOwed, Results
<1>11. IdsOfOneConnection'
  BY <1>1, <1>4, <1>5 DEF IdsOfOneConnection
<1>12. \A u \in Serials : Handled(u)' <=> Handled(u)
  BY <1>1, <1>5 DEF Handled
<1>13. Handled(n)' <=> ph = "Waiting" /\ a[2] = "Call"
  BY <1>1, <1>4, <1>5 DEF Handled, Busy
<1>14. ph = "Waiting" /\ a[2] = "Call" => id \notin peer_inflight
  BY <1>3 DEF refused, duplicate
<1>15. OneForOne'
  <2> SUFFICES ASSUME ToldApart PROVE OneForOne'
    BY DEF OneForOne
  <2>0. /\ \A u \in Serials : Handled(u) => requests[u].id \in peer_inflight
        /\ \A x \in peer_inflight : \E u \in Serials : Handled(u) /\ requests[u].id = x
        /\ \A u, v \in Serials : Handled(u) /\ Handled(v) /\ requests[u].id = requests[v].id => u = v
    BY <1>1 DEF OneForOne
  <2>1. CASE ph = "Waiting" /\ a[2] = "Call"
    <3>1. peer_inflight' = peer_inflight \cup {id} /\ Handled(n)' /\ id \notin peer_inflight
          /\ requests'[n].id = id
      BY <1>3, <1>4, <1>5, <1>13, <1>14, <2>1
    <3> QED BY <1>5, <1>12, <2>0, <3>1 DEF OneForOne
  <2>2. CASE ~(ph = "Waiting" /\ a[2] = "Call")
    <3>1. peer_inflight' = peer_inflight /\ ~Handled(n)'
      BY <1>3, <1>13, <2>2
    <3> QED BY <1>5, <1>12, <2>0, <3>1 DEF OneForOne
  <2> QED BY <2>1, <2>2
<1>16. InflightBounded'
  <2>1. CASE peer_inflight' = peer_inflight
    BY <2>1 DEF InflightBounded
  <2>2. CASE peer_inflight' # peer_inflight
    <3>1. /\ peer_inflight' = peer_inflight \cup {id}
          /\ ~over_limit("Call")
      BY <1>3, <2>2 DEF refused
    <3>2. IsFiniteSet(peer_inflight) /\ Cardinality(peer_inflight) \in Nat /\ Cardinality(peer_inflight) <= Limit
      BY FS_CardinalityType DEF InflightBounded
    <3>3. /\ IsFiniteSet(peer_inflight \cup {id})
          /\ Cardinality(peer_inflight \cup {id}) =
             IF id \in peer_inflight THEN Cardinality(peer_inflight) ELSE Cardinality(peer_inflight) + 1
      BY <3>2, FS_AddElement
    <3>4. Cardinality(peer_inflight) = 0 <=> peer_inflight = {}
      BY <3>2, FS_EmptySet
    <3> QED BY <3>1, <3>2, <3>3, <3>4, PeerAssumption DEF InflightBounded, Limit, over_limit
  <2> QED BY <2>1, <2>2
<1>17. AnswersComeHome'
  <2>1. \A x \in answers : x.by \in Serials /\ requests'[x.by] = requests[x.by]
    BY <1>5 DEF Messages
  <2>2. \A x \in answers' : x \in answers \/ (x.by = n /\ x.conn = conn)
    BY <1>3
  <2> QED BY <1>4, <1>5, <2>1, <2>2 DEF AnswersComeHome
<1>18. NoDriverBetween'
  BY <1>1 DEF NoDriverBetween
<1> QED BY <1>6, <1>7, <1>9, <1>10, <1>11, <1>15, <1>16, <1>17, <1>18

LEMMA ApplyStep ==
  ASSUME PeerInv, Apply
  PROVE  PeerInv'
<1> USE DEF PeerInv, Shape
<1> DEFINE c == Head(commands)
           s == c.by
<1>1. /\ connected /\ close = "No" /\ commands # <<>> /\ commands' = Tail(commands)
      /\ UNCHANGED <<alive, connected, conn, solicited, outgoing, draining, close>>
  BY DEF Apply, Open, session_vars, drain_vars
<1>2. respond(s, c.result, c.status) \/ no_such_request(s)
  BY DEF Apply
<1>3. /\ 1 \in DOMAIN commands /\ c = commands[1] /\ c \in Command
      /\ commands' \in Seq(Command) /\ Len(commands') = Len(commands) - 1
      /\ \A i \in DOMAIN commands' : i + 1 \in DOMAIN commands /\ i + 1 # 1 /\ commands'[i] = commands[i + 1]
  BY <1>1 DEF Messages
<1> HIDE DEF c
<1>4. /\ s \in Serials /\ requests[s].phase = "Replying" /\ requests[s].kind = "Call"
      /\ \A i \in DOMAIN commands' : commands'[i].by # s
  <2>1. s \in Serials /\ requests[s].phase = "Replying" /\ requests[s].kind = "Call"
    BY <1>3 DEF CommandsOwed
  <2>2. \A j \in DOMAIN commands : j # 1 => commands[j].by # commands[1].by
    BY <1>3 DEF CommandsOwed
  <2>3. ASSUME NEW i \in DOMAIN commands'
        PROVE  commands'[i].by # s
    BY <1>3, <2>2
  <2> QED BY <2>1, <2>3
<1> HIDE DEF s
<1>5. requests[s].id \in peer_inflight /\ ToldApart => requests[s].conn = conn
  <2>1. Csms => requests[s].conn = conn
    BY <1>3 DEF CommandsOwed, s
  <2>2. requests[s].id \in peer_inflight /\ UniqueIds => requests[s].conn = conn
    BY <1>1, <1>4 DEF OneForOne, IdsOfOneConnection, Handled, ToldApart
  <2> QED BY <2>1, <2>2 DEF ToldApart
<1>6. PICK p \in {"Answered", "Dropped"} :
        /\ requests' = [requests EXCEPT ![s].phase = p]
        /\ p = "Answered" => /\ requests[s].id \in peer_inflight
                             /\ peer_inflight' = peer_inflight \ {requests[s].id}
                             /\ answers' = answers \cup {[by |-> s, conn |-> conn]}
        /\ p = "Dropped" => /\ requests[s].id \notin peer_inflight
                            /\ UNCHANGED <<peer_inflight, answers, boot, told>>
  BY <1>2 DEF respond, no_such_request, take_peer_request
<1>7. boot' \in BootStates /\ told' \in BootStates \cup {"None"}
  BY <1>2, <1>3 DEF respond, no_such_request, observe_boot_answer, States, BootStates, Command
<1>8. /\ requests' \in Seq(Request) /\ Len(requests') = Len(requests) /\ Serials' = Serials
      /\ requests'[s].phase = p
      /\ \A u \in Serials :
           /\ requests'[u].id = requests[u].id /\ requests'[u].action = requests[u].action
           /\ requests'[u].kind = requests[u].kind /\ requests'[u].conn = requests[u].conn
           /\ u # s => requests'[u].phase = requests[u].phase
  BY <1>4, <1>6, PhaseChange DEF Messages, Phases
<1>9. Flags'
  BY <1>1, Zenon DEF Flags
<1>10. States'
  BY <1>1, <1>7 DEF States
<1>11. answers' \subseteq [by : Serials', conn : 1..conn']
  <2>1. conn \in 1..conn
    BY <1>1 DEF Flags, States
  <2>2. [by |-> s, conn |-> conn] \in [by : Serials', conn : 1..conn']
    BY <1>1, <1>4, <1>8, <2>1
  <2>3. answers \subseteq [by : Serials', conn : 1..conn']
    BY <1>1, <1>8 DEF Messages
  <2> QED BY <1>6, <2>2, <2>3
<1>12. Messages'
  BY <1>1, <1>3, <1>6, <1>8, <1>11, PeerAssumption DEF Messages
<1>13. CommandsOwed'
  <2>1. \A i \in DOMAIN commands' : requests'[commands'[i].by].phase = requests[commands'[i].by].phase
    BY <1>3, <1>4, <1>8 DEF CommandsOwed
  <2>2. \A i, j \in DOMAIN commands' : commands'[i].by = commands'[j].by => i = j
    BY <1>3 DEF CommandsOwed, Messages
  <2>3. ASSUME NEW i \in DOMAIN commands'
        PROVE  /\ commands'[i].by \in Serials'
               /\ requests'[commands'[i].by].phase = "Replying"
               /\ requests'[commands'[i].by].kind = "Call"
               /\ Csms => requests'[commands'[i].by].conn = conn'
               /\ <<commands'[i].result, commands'[i].status>> \in Results(requests'[commands'[i].by].action)
    <3>1. i + 1 \in DOMAIN commands /\ commands'[i] = commands[i + 1]
      BY <1>3
    <3> QED BY <1>1, <1>8, <2>1, <3>1 DEF CommandsOwed
  <2> QED BY <2>2, <2>3 DEF CommandsOwed, Results
<1>14. \A u \in Serials : Handled(u)' <=> Handled(u) /\ u # s
  BY <1>1, <1>6, <1>8 DEF Handled, Busy
<1>15. IdsOfOneConnection'
  BY <1>8 DEF IdsOfOneConnection
<1>16. ToldApart => (Handled(s) <=> requests[s].id \in peer_inflight)
  BY <1>1, <1>4, <1>5 DEF OneForOne, Handled, Busy
<1>17. OneForOne'
  BY <1>1, <1>4, <1>6, <1>8, <1>14, <1>16 DEF OneForOne
<1>18. InflightBounded'
  <2>1. IsFiniteSet(peer_inflight') /\ Cardinality(peer_inflight') <= Cardinality(peer_inflight)
    BY <1>6, FS_Subset DEF InflightBounded
  <2>2. Cardinality(peer_inflight) \in Nat /\ Cardinality(peer_inflight') \in Nat
    BY <2>1, FS_CardinalityType DEF InflightBounded
  <2> QED BY <2>1, <2>2, PeerAssumption DEF InflightBounded, Limit
<1>19. AnswersComeHome'
  BY <1>5, <1>6, <1>8 DEF AnswersComeHome, Messages
<1>20. NoDriverBetween'
  BY <1>1 DEF NoDriverBetween
<1> QED BY <1>9, <1>10, <1>12, <1>13, <1>15, <1>17, <1>18, <1>19, <1>20

(* The steps of this side's own calls and of the drain.                      *)
LEMMA DrainStep ==
  ASSUME PeerInv, call_with \/ Shutdown \/ OutgoingDone \/ DrainDeadline
  PROVE  PeerInv'
<1> USE DEF PeerInv, Shape
<1>1. UNCHANGED <<alive, connected, conn, peer_inflight, requests, commands, answers, boot, told>>
  BY DEF call_with, Shutdown, OutgoingDone, DrainDeadline, session_vars, engine_vars
<1>2. outgoing' \in BOOLEAN /\ draining' \in BOOLEAN
  BY DEF Flags, call_with, Shutdown, OutgoingDone, DrainDeadline, check_drain
<1>3. close' \in {"No", "Drained", "DrainTimedOut"} /\ solicited' \subseteq Actions
  BY DEF States, call_with, Shutdown, OutgoingDone, DrainDeadline, check_drain, engine_vars,
     remember_solicited, Actions
<1>4. Flags'
  BY <1>1, <1>2, Zenon DEF Flags
<1>5. States' /\ Messages'
  BY <1>1, <1>3 DEF States, Messages, Serials
<1>6. /\ CommandsOwed' /\ NoDriverBetween' /\ IdsOfOneConnection' /\ OneForOne'
      /\ InflightBounded' /\ AnswersComeHome'
  BY <1>1 DEF CommandsOwed, NoDriverBetween, IdsOfOneConnection, OneForOne, InflightBounded, AnswersComeHome, Serials, Handled, Results
<1> QED BY <1>4, <1>5, <1>6

(* A connection's end clears peer_inflight, and a driver's end the channel.   *)
LEMMA EndStep ==
  ASSUME PeerInv, NEW survives \in BOOLEAN, Csms => ~survives, connected, Ends(survives)
  PROVE  PeerInv'
<1> USE DEF PeerInv, Shape
<1>1. /\ connected' = FALSE /\ alive' = survives /\ peer_inflight' = {} /\ close' = "No"
      /\ UNCHANGED <<conn, boot, solicited, answers, told>>
  BY DEF Ends, engine_vars
<1>2. outgoing' \in BOOLEAN /\ draining' \in BOOLEAN
  BY DEF Ends, Flags
<1>3. /\ requests' \in Seq(Request) /\ Len(requests') = Len(requests) /\ Serials' = Serials
      /\ \A u \in Serials : /\ requests'[u].id = requests[u].id /\ requests'[u].conn = requests[u].conn
                            /\ requests'[u].action = requests[u].action
  <2>1. CASE survives
    BY <2>1 DEF Ends, Serials, Messages
  <2>2. CASE ~survives
    <3>1. requests' = DropReplies
      BY <2>2 DEF Ends
    <3>2. ASSUME NEW u \in Serials
          PROVE  LET d == [requests[u] EXCEPT !.phase = "Dropped"]
                 IN /\ requests[u] \in Request /\ d \in Request
                    /\ d.id = requests[u].id /\ d.conn = requests[u].conn /\ d.action = requests[u].action
      <4>1. requests[u] \in Request
        BY DEF Messages, Serials
      <4> QED BY <4>1 DEF Request, Phases
    <3>3. /\ DOMAIN requests' = 1..Len(requests) /\ \A u \in 1..Len(requests) : requests'[u] \in Request
          /\ Len(requests) \in Nat
      BY <3>1, <3>2 DEF DropReplies, Serials, Messages
    <3>4. requests' \in Seq(Request) /\ Len(requests') = Len(requests)
      BY <3>1, <3>3 DEF DropReplies, Serials
    <3> QED BY <3>1, <3>2, <3>4 DEF DropReplies, Serials
  <2> QED BY <2>1, <2>2
<1>4. /\ commands' \in {commands, << >>}
      /\ commands' # << >> => requests' = requests
  BY DEF Ends
<1>5. Flags'
  BY <1>1, <1>2, Zenon DEF Flags
<1>6. States'
  BY <1>1 DEF States
<1>7. Messages'
  <2>1. commands' \in Seq(Command) /\ Len(commands') <= Capacity
    <3>1. commands \in Seq(Command) /\ Len(commands) <= Capacity /\ Capacity \in Nat
      BY PeerAssumption DEF Messages
    <3>2. CASE commands' = commands
      BY <3>1, <3>2
    <3>3. CASE commands' = << >>
      BY <3>1, <3>3
    <3> QED BY <1>4, <3>2, <3>3
  <2>2. answers' \subseteq [by : Serials', conn : 1..conn']
    BY <1>1, <1>3 DEF Messages
  <2> QED BY <1>1, <1>3, <2>1, <2>2 DEF Messages
<1>8. CommandsOwed'
  BY <1>1, <1>4 DEF CommandsOwed, Serials, Results
<1>9. IdsOfOneConnection' /\ OneForOne' /\ AnswersComeHome'
  BY <1>1, <1>3 DEF IdsOfOneConnection, OneForOne, AnswersComeHome, Messages
<1>10. InflightBounded'
  BY <1>1, FS_EmptySet, PeerAssumption DEF InflightBounded, Limit
<1>11. NoDriverBetween'
  BY <1>1 DEF NoDriverBetween, Ends
<1> QED BY <1>5, <1>6, <1>7, <1>8, <1>9, <1>10, <1>11

LEMMA ConnectedStep ==
  ASSUME PeerInv, Connected
  PROVE  PeerInv'
<1> USE DEF PeerInv, Shape
<1>1. /\ conn < MaxConnections /\ connected' = TRUE /\ conn' = conn + 1 /\ alive' = TRUE /\ peer_inflight' = {}
      /\ UNCHANGED <<outgoing, draining, close, requests, commands, answers>>
  BY DEF Connected, drain_vars
<1>2. boot' \in {"Idle", boot} /\ solicited' \subseteq Actions /\ told' \in {"Idle", told}
  BY DEF Connected, engine_vars, States
<1>3. conn \in Nat /\ conn + 1 > 0 /\ conn + 1 \in 0..MaxConnections
  BY <1>1, PeerAssumption DEF States
<1>4. Flags'
  BY <1>1, <1>3, Zenon DEF Flags
<1>5. States'
  BY <1>1, <1>2, <1>3 DEF States, BootStates
<1>6. \A s \in Serials : requests[s].conn \in 1..conn' /\ requests[s].conn # conn'
  BY <1>1, <1>3 DEF Messages
<1>7. answers \subseteq [by : Serials, conn : 1..conn']
  BY <1>1, <1>3 DEF Messages
<1>8. Messages'
  BY <1>1, <1>6, <1>7 DEF Messages, Serials
<1>9. CommandsOwed' /\ NoDriverBetween'
  BY <1>1 DEF CommandsOwed, NoDriverBetween, Serials, Results, Connected
<1>10. \A s \in Serials' : ~Handled(s)'
  BY <1>1, <1>6 DEF Handled, Serials
<1>11. IdsOfOneConnection' /\ AnswersComeHome'
  BY <1>1 DEF IdsOfOneConnection, AnswersComeHome, Serials
<1>12. OneForOne'
  BY <1>1, <1>10 DEF OneForOne
<1>13. InflightBounded'
  BY <1>1, FS_EmptySet, PeerAssumption DEF InflightBounded, Limit
<1> QED BY <1>4, <1>5, <1>8, <1>9, <1>11, <1>12, <1>13

LEMMA PeerStep == PeerInv /\ [Next]_vars => PeerInv'
<1> SUFFICES ASSUME PeerInv, [Next]_vars PROVE PeerInv'
  OBVIOUS
<1>1. CASE UNCHANGED vars
  BY <1>1 DEF vars, PeerInv, Shape, Flags, States, Messages, CommandsOwed, NoDriverBetween,
     IdsOfOneConnection, OneForOne, InflightBounded, AnswersComeHome, Serials, Handled, Results
<1>2. ASSUME NEW id \in Ids, NEW a \in Arrivals, OnCall(id, a[1], a[2]) PROVE PeerInv'
  BY <1>2, OnCallStep
<1>3. CASE call_with \/ Shutdown \/ OutgoingDone \/ DrainDeadline
  BY <1>3, DrainStep
<1>4. ASSUME NEW s \in Serials, Acquire(s) \/ HandlerPanics(s) PROVE PeerInv'
  BY <1>4, AcquireStep
<1>5. ASSUME NEW s \in Serials, NEW r \in Results(requests[s].action), HandlerReturns(s, r[1], r[2])
      PROVE  PeerInv'
  BY <1>5, ReturnsStep
<1>6. CASE Apply
  BY <1>6, ApplyStep
<1>7. CASE Disconnected \/ Closed
  BY <1>7, EndStep, PeerAssumption DEF Disconnected, Closed
<1>8. CASE Connected
  BY <1>8, ConnectedStep
<1> QED BY <1>1, <1>2, <1>3, <1>4, <1>5, <1>6, <1>7, <1>8 DEF Next

---------------------------------------------------------------------------
(* The theorems. *)

(* Every variable of the incoming half keeps its type.                        *)
THEOREM TypeCorrect == Spec => []TypeOK
<1>1. PeerInv => TypeOK
  <2> SUFFICES ASSUME PeerInv PROVE TypeOK
    OBVIOUS
  <2>1. \A s \in Serials : requests[s] \in Request
    BY DEF PeerInv, Shape, Messages, Serials
  <2>2. \A s \in Serials : RequestOK(requests[s])
    BY <2>1 DEF PeerInv, Shape, Messages, RequestOK, Request
  <2> QED BY <2>2 DEF PeerInv, Shape, Flags, States, Messages, TypeOK
<1> QED BY InitPeer, PeerStep, <1>1, PTL DEF Spec

(* A slow handler's answer never goes out on another connection than the one  *)
(* its request came in on.                                                    *)
THEOREM AnswersAreHome == Spec => []AnswersComeHome
<1>1. PeerInv => AnswersComeHome
  BY DEF PeerInv
<1> QED BY InitPeer, PeerStep, <1>1, PTL DEF Spec

(* As many calls are handled as there are entries in peer_inflight.           *)
LEMMA SameNumber ==
  ASSUME PeerInv, connected, ToldApart
  PROVE  LET handled == {s \in Serials : Handled(s)}
         IN /\ peer_inflight = {requests[s].id : s \in handled}
            /\ IsFiniteSet(handled) /\ Cardinality(peer_inflight) = Cardinality(handled)
<1> DEFINE handled == {s \in Serials : Handled(s)}
           f == [s \in handled |-> requests[s].id]
<1>1. peer_inflight = {requests[s].id : s \in handled}
  BY DEF PeerInv, OneForOne
<1>2. IsFiniteSet(handled)
  <2>1. IsFiniteSet(1..Len(requests))
    BY FS_Interval DEF PeerInv, Shape, Messages
  <2> QED BY <2>1, FS_Subset DEF Serials
<1>3. f \in Bijection(handled, peer_inflight)
  <2>1. f \in [handled -> peer_inflight]
    BY <1>1
  <2>2. \A s, u \in handled : f[s] = f[u] => s = u
    BY DEF PeerInv, OneForOne
  <2>3. \A id \in peer_inflight : \E s \in handled : f[s] = id
    BY <1>1
  <2> QED BY <2>1, <2>2, <2>3 DEF Bijection, Injection, Surjection, IsInjective
<1>4. Cardinality(peer_inflight) = Cardinality(handled)
  <2> HIDE DEF f, handled
  <2>1. ExistsBijection(handled, peer_inflight)
    BY <1>3 DEF ExistsBijection
  <2> QED BY <1>2, <2>1, FS_Bijection
<1> QED BY <1>1, <1>2, <1>4

(* peer_inflight and the handlers never drift apart: no entry leaks, and no   *)
(* two calls share one.                                                       *)
THEOREM PendingIsHandled == Spec => []PendingAreHandled
<1>1. PeerInv => PendingAreHandled
  BY SameNumber DEF PendingAreHandled
<1> QED BY InitPeer, PeerStep, <1>1, PTL DEF Spec

(* A peer that keeps to one id per call cannot have more calls handled at     *)
(* once than max_peer_requests, or one where calls are not served together.   *)
THEOREM WaitingIsBounded == Spec => []WaitingBounded
<1>1. PeerInv => WaitingBounded
  <2> SUFFICES ASSUME PeerInv, ToldApart
               PROVE  Cardinality({s \in Serials : connected /\ Handled(s)}) <= Limit
    BY DEF WaitingBounded, Limit
  <2>1. CASE connected
    <3>1. {s \in Serials : connected /\ Handled(s)} = {s \in Serials : Handled(s)}
      BY <2>1
    <3> QED BY <2>1, <3>1, SameNumber DEF PeerInv, InflightBounded
  <2>2. CASE ~connected
    <3>1. {s \in Serials : connected /\ Handled(s)} = {}
      BY <2>2
    <3> QED BY <3>1, FS_EmptySet, PeerAssumption DEF Limit
  <2> QED BY <2>1, <2>2
<1> QED BY InitPeer, PeerStep, <1>1, PTL DEF Spec
=============================================================================
