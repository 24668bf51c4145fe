-------------------------- MODULE EngineStepProofs --------------------------
(***************************************************************************)
(* What the engine owes while a handler runs, for every value of the       *)
(* constants of module Engine: the timers behind its deadlines, the        *)
(* transmissions behind its retry counters, the verdict behind the boot    *)
(* gate and the answers behind its outcomes.                               *)
(*                                                                         *)
(* A handler is a composition of methods, and these facts are broken and   *)
(* mended inside one.  So they are stated of a record e in the middle of a *)
(* handler, relative to the context c the handler began in, and the set X  *)
(* names what is not to be relied upon at that point: a timer of X may     *)
(* have fired already, "Flight" and "Idle" stand for the deadline of the   *)
(* call in flight and for the idle timer altogether.                       *)
(***************************************************************************)
EXTENDS EngineProofs

(* The context: the record `old' and the counts `sent' and `lost' before   *)
(* the handler, what the peer had answered `before' it, and what it has    *)
(* said when the handler is done.                                          *)
IsContext(c) == c.sent \in [Tokens -> Nat] /\ c.lost \in [Tokens -> Nat]

(* A deadline that is set has its timer.                                   *)
Match(e, X, timer, at) == at # Never /\ (timer \in X => at # 0) => e.timers[timer] = at

Watched(e, X) ==
  /\ e.inflight # None /\ "Flight" \notin X => Match(e, X, "CallTimeout", e.inflight.deadline)
  /\ \A s \in DOMAIN e.queue :
       e.queue[s].not_before > 0 => s = 0 /\ e.timers["TransactionRetry"] = e.queue[s].not_before
  /\ Match(e, X, "Heartbeat", e.heartbeat_at)
  /\ Match(e, X, "BootRetry", e.boot_retry_at)
  /\ Match(e, X, "DrainDeadline", e.draining)

Alive(e, X) ==
  AutoHeartbeat /\ e.connected /\ e.boot = "Accepted" /\ e.heartbeat_interval > 0 /\ "Idle" \notin X
  => e.heartbeat_at # Never

(* How often a message that waits can have been tried.                     *)
Tries(action, n) == n = 0 \/ (transactional(action) /\ n < RetryAttempts)

(* The transmissions of a message, the one of this handler included, and   *)
(* those of them that the store was not told of.                           *)
Used(e, c, t) == c.sent[t] + IF t \in Transmitted(c.old, e) THEN 1 ELSE 0
Missed(e, c, t) == c.lost[t] + Unrecorded(c.old, e, t)
Flying(e, t) == IF e.inflight # None /\ e.inflight.token = t THEN 1 ELSE 0

(* A counter n keeps track of all the transmissions but the missed ones.   *)
Within(e, c, t, n) == Used(e, c, t) <= n + Missed(e, c, t)

Counted(e, c) ==
  /\ e.store_ok = c.old.store_ok
  /\ \A s \in DOMAIN e.queue : Within(e, c, e.queue[s].token, e.queue[s].attempts)
  /\ e.inflight # None => Within(e, c, e.inflight.token, e.inflight.attempts)
  /\ \A t \in DOMAIN e.store : Within(e, c, t, e.store[t].attempts + Flying(e, t))
  /\ \A t \in Tokens : e.outcome[t] = "Sent" => Within(e, c, t, 1)
  /\ \A t \in Tokens : t >= e.next_token => c.sent[t] = 0

(* The counters themselves, and their copies in the store.                 *)
Backed(e, token, action) == token \in DOMAIN e.store => e.store[token].action = action

Counters(e) ==
  /\ \A s \in DOMAIN e.queue :
       /\ Tries(e.queue[s].action, e.queue[s].attempts)
       /\ Backed(e, e.queue[s].token, e.queue[s].action)
  /\ e.inflight # None =>
       /\ e.inflight.attempts > 0 /\ Tries(e.inflight.action, e.inflight.attempts - 1)
       /\ Backed(e, e.inflight.token, e.inflight.action)
  /\ \A t \in DOMAIN e.store : Tries(e.store[t].action, e.store[t].attempts)

(* The message is one that the CSMS has asked for.                         *)
Asked(c, t) ==
  \/ \E u \in DOMAIN c.old.queue : c.old.queue[u].token = t /\ c.old.queue[u].triggered
  \/ c.asked /\ t = c.old.next_token

Gated(e, c) ==
  /\ e.boot = "Accepted" => c.verdict = "Accepted"
  /\ \A s \in DOMAIN e.queue :
       is_send(e.queue[s].action) /\ e.queue[s].triggered => Asked(c, e.queue[s].token)
  /\ EnforceBootGate => \A t \in Transmitted(c.old, e) :
       \/ c.verdict = "Accepted"
       \/ /\ e.inflight # None /\ e.inflight.token = t
          /\ e.inflight.action = "BootNotification" \/ e.inflight.triggered
       \/ Asked(c, t)

(* A transmission of this connection is not ahead of its message.          *)
Behind(e, id) ==
  /\ id.token < e.next_token
  /\ \A s \in DOMAIN e.queue : e.queue[s].token = id.token => id.attempt <= e.queue[s].attempts
  /\ e.inflight # None /\ e.inflight.token = id.token => id.attempt <= e.inflight.attempts

(* The handler was given the first answer to the transmission in flight.   *)
Completed(c, t) ==
  /\ c.old.inflight # None /\ c.old.inflight.token = t
  /\ IdOf(c.old.inflight) \in c.served \ c.before

Answered(e, c) ==
  /\ c.served \subseteq e.wire
  /\ \A id \in e.wire : Behind(e, id)
  /\ e.inflight # None => IdOf(e.inflight) \notin c.served
  /\ \A t \in Tokens : c.old.outcome[t] = "Open" /\ e.outcome[t] \in {"Result", "Rejected"}
                       => Completed(c, t)

Fine(e, H, X, c) ==
  /\ Good(e, H) /\ IsContext(c)
  /\ Watched(e, X) /\ Alive(e, X)
  /\ Counted(e, c) /\ Counters(e)
  /\ Gated(e, c) /\ Answered(e, c)

(* Between two handlers.                                                   *)
Now == [old |-> engine, sent |-> sent, lost |-> lost, verdict |-> verdict,
        served |-> served, before |-> served, asked |-> FALSE]

(* Between two processes.                                                  *)
Rests(e, c) ==
  /\ IsContext(c) /\ c.served = {}
  /\ \A t \in DOMAIN e.store : /\ Tries(e.store[t].action, e.store[t].attempts)
                               /\ c.sent[t] <= e.store[t].attempts + c.lost[t]
  /\ \A t \in Tokens : e.outcome[t] = "Sent" => c.sent[t] <= 1 + c.lost[t]
  /\ \A t \in Tokens : t >= e.next_token => c.sent[t] = 0

StepInv ==
  /\ IndInv
  /\ running => Fine(engine, {}, {}, Now)
  /\ ~running => Rests(engine, Now)

-----------------------------------------------------------------------------
(* Methods that leave the messages alone.                                  *)

LEMMA UsedIsNat ==
  ASSUME NEW e, NEW c, IsContext(c), NEW t \in Tokens
  PROVE  /\ c.sent[t] \in Nat /\ Used(e, c, t) \in Nat
         /\ Used(e, c, t) = c.sent[t] \/ Used(e, c, t) = c.sent[t] + 1
         /\ t \in Transmitted(c.old, e) => Used(e, c, t) = c.sent[t] + 1
         /\ t \notin Transmitted(c.old, e) => Used(e, c, t) = c.sent[t]
BY DEF IsContext, Used

LEMMA MissedIsNat ==
  ASSUME NEW e, NEW c, IsContext(c), NEW t \in Tokens
  PROVE  /\ c.lost[t] \in Nat /\ Unrecorded(c.old, e, t) \in Nat /\ Missed(e, c, t) \in Nat
         /\ Missed(e, c, t) = c.lost[t] + Unrecorded(c.old, e, t)
BY UnrecordedIsNat DEF IsContext, Missed

LEMMA NothingUnrecorded ==
  ASSUME NEW e, NEW t
  PROVE  Unrecorded(e, e, t) = 0
BY DEF Unrecorded, CallEnds, SendEnds

LEMMA FlyingIsNat ==
  ASSUME NEW e, NEW t
  PROVE  /\ Flying(e, t) \in {0, 1}
         /\ e.inflight # None /\ e.inflight.token = t => Flying(e, t) = 1
         /\ ~(e.inflight # None /\ e.inflight.token = t) => Flying(e, t) = 0
BY DEF Flying

(* What a counter allows it still allows when less is used or more missed. *)
LEMMA Slack ==
  ASSUME NEW e, NEW d, NEW c, IsContext(c), NEW t \in Tokens, NEW n \in Nat, Within(e, c, t, n),
         Used(d, c, t) <= Used(e, c, t), Missed(e, c, t) <= Missed(d, c, t)
  PROVE  Within(d, c, t, n)
<1>1. Used(d, c, t) \in Nat /\ Used(e, c, t) \in Nat
  BY UsedIsNat
<1>2. Missed(d, c, t) \in Nat /\ Missed(e, c, t) \in Nat
  BY MissedIsNat
<1> QED BY <1>1, <1>2 DEF Within

(* The counts depend on the call in flight and on the outcomes alone.      *)
LEMMA SameCounts ==
  ASSUME NEW e, NEW d, NEW c, d.inflight = e.inflight, d.outcome = e.outcome
  PROVE  /\ Transmitted(c.old, d) = Transmitted(c.old, e)
         /\ \A t : Used(d, c, t) = Used(e, c, t) /\ Missed(d, c, t) = Missed(e, c, t)
         /\ \A t : Flying(d, t) = Flying(e, t)
         /\ \A t, n : Within(d, c, t, n) <=> Within(e, c, t, n)
<1>1. Transmitted(c.old, d) = Transmitted(c.old, e)
  BY DEF Transmitted
<1>2. \A t : Unrecorded(c.old, d, t) = Unrecorded(c.old, e, t)
  BY DEF Unrecorded, CallEnds, SendEnds
<1>3. \A t : Used(d, c, t) = Used(e, c, t) /\ Missed(d, c, t) = Missed(e, c, t)
  BY <1>1, <1>2 DEF Used, Missed
<1>4. \A t : Flying(d, t) = Flying(e, t)
  BY DEF Flying
<1> QED BY <1>1, <1>3, <1>4 DEF Within

LEMMA SameCounted ==
  ASSUME NEW e, NEW d, NEW c, Counted(e, c), d.inflight = e.inflight, d.outcome = e.outcome,
         d.queue = e.queue, d.store = e.store, d.store_ok = e.store_ok, d.next_token = e.next_token
  PROVE  Counted(d, c)
BY SameCounts, Zenon DEF Counted

Quiet(e, d) ==
  /\ EngineTypeOK(d)
  /\ d.queue = e.queue /\ d.inflight = e.inflight /\ d.next_token = e.next_token
  /\ d.outcome = e.outcome /\ d.store = e.store /\ d.store_ok = e.store_ok
  /\ d.wire = e.wire

LEMMA QuietFine ==
  ASSUME NEW e, NEW d, NEW H, NEW X, NEW Y, NEW c, Fine(e, H, X, c), Quiet(e, d),
         d.boot = "Accepted" => c.verdict = "Accepted",
         Watched(d, Y), Alive(d, Y)
  PROVE  Fine(d, H, Y, c)
<1>1. Good(d, H)
  BY Irrelevant, Zenon DEF Fine, Quiet
<1>2. Transmitted(c.old, d) = Transmitted(c.old, e)
  BY DEF Quiet, Transmitted
<1>3. Counted(d, c)
  BY SameCounted DEF Fine, Quiet
<1>4. Counters(d)
  BY DEF Fine, Quiet, Counters, Backed
<1>5. Gated(d, c)
  BY <1>2 DEF Fine, Quiet, Gated
<1>6. Answered(d, c)
  BY DEF Fine, Quiet, Answered, Behind
<1> QED BY <1>1, <1>3, <1>4, <1>5, <1>6 DEF Fine

(* Less can be relied upon.                                                *)
LEMMA Weaken ==
  ASSUME NEW e, NEW H, NEW X, NEW Y, X \subseteq Y, NEW c, Fine(e, H, X, c)
  PROVE  Fine(e, H, Y, c)
BY DEF Fine, Watched, Match, Alive

(* arm_heartbeat moves the deadline and its timer together.                *)
LEMMA ArmFields ==
  ASSUME NEW e, EngineTypeOK(e)
  PROVE  LET d == arm_heartbeat(e)
         IN /\ Quiet(e, d)
            /\ d.connected = e.connected /\ d.draining = e.draining /\ d.boot = e.boot
            /\ d.boot_retry_at = e.boot_retry_at /\ d.close = e.close
            /\ d.heartbeat_interval = e.heartbeat_interval
            /\ \A t \in Timers \ {"Heartbeat"} : d.timers[t] = e.timers[t]
            /\ \/ d.heartbeat_at = e.heartbeat_at /\ d.timers = e.timers
               \/ d.timers["Heartbeat"] = d.heartbeat_at
            /\ AutoHeartbeat /\ e.heartbeat_interval > 0 => d.heartbeat_at # Never
<1>1. Quiet(e, arm_heartbeat(e))
  BY ArmHeartbeat DEF Quiet
<1> QED BY <1>1 DEF EngineTypeOK, arm_heartbeat, set_timer, Timers, Never

LEMMA ArmFine ==
  ASSUME NEW e, NEW H, NEW X, NEW c, Fine(e, H, X, c)
  PROVE  Fine(arm_heartbeat(e), H, X \ {"Idle"}, c)
<1> DEFINE d == arm_heartbeat(e)
<1>1. EngineTypeOK(e)
  BY DEF Fine, Good
<1>2. /\ Quiet(e, d)
      /\ d.connected = e.connected /\ d.draining = e.draining /\ d.boot = e.boot
      /\ d.boot_retry_at = e.boot_retry_at
      /\ d.heartbeat_interval = e.heartbeat_interval
      /\ \A t \in Timers \ {"Heartbeat"} : d.timers[t] = e.timers[t]
      /\ \/ d.heartbeat_at = e.heartbeat_at /\ d.timers = e.timers
         \/ d.timers["Heartbeat"] = d.heartbeat_at
      /\ AutoHeartbeat /\ e.heartbeat_interval > 0 => d.heartbeat_at # Never
  BY <1>1, ArmFields
<1> HIDE DEF d
<1>3. Watched(d, X \ {"Idle"})
  BY <1>2 DEF Fine, Watched, Match, Quiet, Timers
<1>4. Alive(d, X \ {"Idle"})
  BY <1>2 DEF Alive
<1>5. d.boot = "Accepted" => c.verdict = "Accepted"
  BY <1>2 DEF Fine, Gated
<1> QED BY <1>2, <1>3, <1>4, <1>5, QuietFine DEF d

-----------------------------------------------------------------------------
(* Messages leave the queue.                                               *)

Beside(e, d) ==
  /\ d.connected = e.connected /\ d.draining = e.draining /\ d.boot = e.boot
  /\ d.heartbeat_interval = e.heartbeat_interval /\ d.heartbeat_at = e.heartbeat_at
  /\ d.boot_retry_at = e.boot_retry_at /\ d.timers = e.timers /\ d.close = e.close
  /\ d.wire = e.wire

(* A SEND that is done with counts as its one transmission; no other way   *)
(* out of the queue is one.                                                *)
LEMMA DropFine ==
  ASSUME NEW e, NEW H, NEW X, NEW c, Fine(e, H, X, c),
         NEW S, NEW gone, NEW why, NEW d, Dropped(e, S, gone, why, d), Beside(e, d),
         why \notin {"Result", "Rejected"},
         why = "Sent" => \A s \in S : /\ is_send(e.queue[s].action)
                                      /\ EnforceBootGate => e.boot = "Accepted" \/ e.queue[s].triggered
  PROVE  Fine(d, H, X, c)
<1>1. Good(d, H)
  BY DropGood, Zenon DEF Fine
<1>2. /\ DOMAIN d.queue = DOMAIN e.queue \ S
      /\ \A s \in DOMAIN d.queue : d.queue[s] = e.queue[s]
  <2>1. /\ DOMAIN remove(e.queue, S) = DOMAIN e.queue \ S
        /\ \A s \in DOMAIN e.queue \ S : remove(e.queue, S)[s] = e.queue[s]
    BY RemoveShape, Zenon
  <2>2. d.queue = remove(e.queue, S)
    BY DEF Dropped
  <2> QED BY <2>1, <2>2, Zenon
<1>3. /\ S \in SUBSET DOMAIN e.queue /\ gone = {e.queue[s].token : s \in S}
      /\ d.inflight = e.inflight /\ d.next_token = e.next_token
      /\ d.outcome = [t \in Tokens |-> IF t \in gone THEN why ELSE e.outcome[t]]
  BY DEF Dropped
<1>4. EngineTypeOK(e) /\ \A s \in DOMAIN e.queue : e.queue[s] \in Pending
  BY DEF Fine, Good, EngineTypeOK
<1>5. \A s \in DOMAIN e.queue : e.queue[s].token \in Tokens /\ e.queue[s].attempts \in Nat
  BY <1>4 DEF Pending
<1>6. \A s \in DOMAIN e.queue :
        /\ e.queue[s].token \notin Transmitted(c.old, e)
        /\ e.queue[s].token \in gone => s \in S
  <2>1. \A s \in DOMAIN e.queue : e.outcome[e.queue[s].token] = "Open"
    BY <1>5 DEF Fine, Good, SlotsOK, FatesOK, Holds
  <2>2. \A s \in DOMAIN e.queue : e.inflight # None => e.inflight.token # e.queue[s].token
    BY DEF Fine, Good, FlightOK
  <2>3. \A s, u \in DOMAIN e.queue : e.queue[s].token = e.queue[u].token => s = u
    BY TokensDistinct DEF Fine
  <2> QED BY <1>3, <2>1, <2>2, <2>3 DEF Transmitted
<1>7. \A t \in Tokens : t \notin gone =>
        (t \in Transmitted(c.old, d) <=> t \in Transmitted(c.old, e))
  BY <1>3 DEF Transmitted
<1>8. \A t \in gone : t \in Transmitted(c.old, d) => why = "Sent"
  <2>1. \A t \in gone : t \in Tokens /\ (d.inflight # None => d.inflight.token # t)
    BY <1>3, <1>5 DEF Fine, Good, FlightOK
  <2> QED BY <1>3, <2>1 DEF Transmitted
<1>9. IsContext(c) /\ d.store_ok = e.store_ok
  BY DEF Fine, Dropped
<1>10. \A t \in Tokens : t \notin gone => Used(d, c, t) = Used(e, c, t) /\ Missed(d, c, t) = Missed(e, c, t)
  <2>1. \A t \in Tokens : t \notin gone => Unrecorded(c.old, d, t) = Unrecorded(c.old, e, t)
    BY <1>3 DEF Unrecorded, CallEnds, SendEnds
  <2> QED BY <1>7, <2>1 DEF Used, Missed
<1>11. \A t \in Tokens : t \notin gone => \A n : Within(e, c, t, n) => Within(d, c, t, n)
  BY <1>10 DEF Within
<1>12. \A t : Flying(d, t) = Flying(e, t)
  BY <1>3 DEF Flying
<1>13. /\ DOMAIN d.store \subseteq DOMAIN e.store
       /\ \A t \in DOMAIN d.store : d.store[t] = e.store[t]
       /\ e.store_ok => \A t \in DOMAIN d.store : t \notin gone
  BY RestrictShape DEF Dropped
<1>18. ASSUME NEW s \in S
       PROVE  LET t == e.queue[s].token
              IN /\ why = "Sent" => Within(d, c, t, 1)
                 /\ \A n \in Nat : ~e.store_ok /\ Within(e, c, t, n) => Within(d, c, t, n)
  <2> DEFINE t == e.queue[s].token
  <2>1. t \in Tokens /\ t \in gone
    BY <1>3, <1>5
  <2>2. /\ c.sent[t] \in Nat /\ Used(e, c, t) = c.sent[t]
        /\ Used(d, c, t) \in Nat /\ Used(d, c, t) <= c.sent[t] + 1
        /\ t \notin Transmitted(c.old, d) => Used(d, c, t) = c.sent[t]
    BY <1>3, <1>6, <1>9, <2>1, UsedIsNat
  <2>3. Missed(d, c, t) \in Nat /\ Missed(e, c, t) \in Nat
    BY <1>9, <2>1, MissedIsNat
  <2>4. e.outcome[t] = "Open"
    BY <1>3, <2>1 DEF Fine, Good, SlotsOK, FatesOK, Holds
  <2>5. Missed(e, c, t) <= Missed(d, c, t)
    <3>1. CallEnds(c.old, d, t) <=> CallEnds(c.old, e, t)
      BY <1>3 DEF CallEnds
    <3>2. ~SendEnds(c.old, e, t)
      BY <2>4 DEF SendEnds
    <3>3. Unrecorded(c.old, e, t) <= Unrecorded(c.old, d, t)
      BY <3>1, <3>2 DEF Unrecorded
    <3>4. c.lost[t] \in Nat /\ Unrecorded(c.old, e, t) \in Nat /\ Unrecorded(c.old, d, t) \in Nat
      BY <1>9, <2>1, MissedIsNat
    <3> QED BY <3>3, <3>4 DEF Missed
  <2>6. ASSUME why = "Sent" PROVE Within(d, c, t, 1)
    <3>1. e.queue[s].attempts = 0
      BY <1>3, <2>6 DEF Fine, Counters, Tries, is_send, transactional
    <3>2. Used(e, c, t) <= 0 + Missed(e, c, t)
      BY <1>3, <3>1 DEF Fine, Counted, Within
    <3> QED BY <2>2, <2>3, <2>5, <3>2 DEF Within
  <2>7. ASSUME NEW n \in Nat, ~e.store_ok, Within(e, c, t, n) PROVE Within(d, c, t, n)
    <3>1. CASE t \notin Transmitted(c.old, d)
      BY <2>2, <2>3, <2>5, <2>7, <3>1 DEF Within
    <3>2. CASE t \in Transmitted(c.old, d)
      <4>1. d.outcome[t] = "Sent" /\ c.old.outcome[t] # "Sent"
        <5>1. d.inflight # None => d.inflight.token # t
          BY <1>3, <2>1 DEF Fine, Good, FlightOK
        <5> QED BY <3>2, <5>1 DEF Transmitted
      <4>2. ~c.old.store_ok
        BY <2>7 DEF Fine, Counted
      <4>3. CallEnds(c.old, d, t) <=> CallEnds(c.old, e, t)
        BY <1>3 DEF CallEnds
      <4>4. SendEnds(c.old, d, t) /\ ~SendEnds(c.old, e, t)
        BY <2>4, <4>1 DEF SendEnds
      <4>5. Unrecorded(c.old, d, t) = Unrecorded(c.old, e, t) + 1
        BY <4>2, <4>3, <4>4 DEF Unrecorded
      <4>6. c.lost[t] \in Nat /\ Unrecorded(c.old, e, t) \in Nat /\ Unrecorded(c.old, d, t) \in Nat
        BY <1>9, <2>1, MissedIsNat
      <4>7. Missed(d, c, t) = Missed(e, c, t) + 1
        BY <4>5, <4>6 DEF Missed
      <4> QED BY <2>2, <2>3, <2>7, <4>7 DEF Within
    <3> QED BY <3>1, <3>2
  <2> QED BY <2>6, <2>7
<1>19. Counted(d, c)
  <2>1. \A s \in DOMAIN d.queue : Within(d, c, d.queue[s].token, d.queue[s].attempts)
    BY <1>2, <1>5, <1>6, <1>11 DEF Fine, Counted
  <2>2. d.inflight # None => Within(d, c, d.inflight.token, d.inflight.attempts)
    <3>1. e.inflight # None => e.inflight.token \in Tokens /\ e.inflight.token \notin gone
      BY <1>3, <1>4 DEF EngineTypeOK, InFlight, Fine, Good, FlightOK
    <3> QED BY <1>3, <1>11, <3>1 DEF Fine, Counted
  <2>3. \A t \in DOMAIN d.store : Within(d, c, t, d.store[t].attempts + Flying(d, t))
    <3> SUFFICES ASSUME NEW t \in DOMAIN d.store
                 PROVE  Within(d, c, t, d.store[t].attempts + Flying(d, t))
      OBVIOUS
    <3> DEFINE n == d.store[t].attempts + Flying(d, t)
    <3>1. t \in Tokens /\ t \in DOMAIN e.store /\ e.store[t].attempts \in Nat
      BY <1>4, <1>13 DEF EngineTypeOK, Stored
    <3>2. n = e.store[t].attempts + Flying(e, t) /\ n \in Nat
      BY <1>12, <1>13, <3>1, FlyingIsNat
    <3>3. Within(e, c, t, n)
      BY <3>1, <3>2 DEF Fine, Counted
    <3> HIDE DEF n
    <3>4. CASE t \notin gone
      BY <1>11, <3>1, <3>3, <3>4 DEF n
    <3>5. CASE t \in gone
      <4>1. PICK s \in S : t = e.queue[s].token
        BY <1>3, <3>5
      <4>2. ~e.store_ok
        BY <1>13, <3>5
      <4> QED BY <1>18, <3>2, <3>3, <4>1, <4>2 DEF n
    <3> QED BY <3>4, <3>5
  <2>4. \A t \in Tokens : d.outcome[t] = "Sent" => Within(d, c, t, 1)
    <3> SUFFICES ASSUME NEW t \in Tokens, d.outcome[t] = "Sent" PROVE Within(d, c, t, 1)
      OBVIOUS
    <3>1. CASE t \notin gone
      <4>1. e.outcome[t] = "Sent"
        BY <1>3, <3>1
      <4>2. Within(e, c, t, 1)
        BY <4>1 DEF Fine, Counted
      <4> QED BY <1>11, <3>1, <4>2
    <3>2. CASE t \in gone
      <4>1. PICK s \in S : t = e.queue[s].token
        BY <1>3, <3>2
      <4>2. why = "Sent"
        BY <1>3, <3>2
      <4> QED BY <1>18, <4>1, <4>2
    <3> QED BY <3>1, <3>2
  <2>5. d.store_ok = c.old.store_ok /\ \A t \in Tokens : t >= d.next_token => c.sent[t] = 0
    BY <1>3, <1>9 DEF Fine, Counted
  <2> QED BY <2>1, <2>2, <2>3, <2>4, <2>5 DEF Counted
<1>14. Counters(d)
  BY <1>2, <1>3, <1>13 DEF Fine, Counters, Backed
<1>15. Gated(d, c)
  <2>1. EnforceBootGate => \A t \in gone : t \in Transmitted(c.old, d) =>
          c.verdict = "Accepted" \/ Asked(c, t)
    BY <1>3, <1>8 DEF Fine, Gated
  <2>2. \A t \in Transmitted(c.old, d) : t \in Tokens
    BY DEF Transmitted
  <2> QED BY <1>2, <1>3, <1>7, <2>1, <2>2 DEF Fine, Gated, Beside
<1>16. Answered(d, c)
  <2>1. d.wire = e.wire /\ \A id \in d.wire : Behind(d, id)
    BY <1>2, <1>3 DEF Fine, Answered, Behind, Beside
  <2> QED BY <1>3, <2>1 DEF Fine, Answered
<1>17. Watched(d, X) /\ Alive(d, X)
  BY <1>2, <1>3 DEF Fine, Watched, Alive, Match, Beside
<1> QED BY <1>1, <1>9, <1>14, <1>15, <1>16, <1>17, <1>19 DEF Fine

(* The fields that ack_store and the writing of outcomes leave alone.      *)
LEMMA AckBeside ==
  ASSUME NEW e, EngineTypeOK(e), NEW gone
  PROVE  Beside(e, ack_store(e, gone))
BY DEF EngineTypeOK, ack_store, Beside

LEMMA SetBeside ==
  ASSUME NEW e, EngineTypeOK(e), NEW q, NEW o
  PROVE  Beside(e, [e EXCEPT !.queue = q]) /\ Beside(e, [e EXCEPT !.outcome = o])
BY DEF EngineTypeOK, Beside

LEMMA PumpSendsFine ==
  ASSUME NEW e, NEW H, NEW X, NEW c, Fine(e, H, X, c)
  PROVE  Fine(pump_sends(e), H, X, c)
<1> DEFINE slots == {s \in DOMAIN e.queue : is_send(e.queue[s].action) /\ eligible(e, s)}
           tokens == {e.queue[s].token : s \in slots}
           cut == [e EXCEPT !.queue = remove(e.queue, slots)]
           armed == transmit(cut, {})
           out == ack_store(armed, tokens)
           o == [t \in Tokens |-> IF t \in tokens THEN "Sent" ELSE e.outcome[t]]
           d == [out EXCEPT !.outcome = o]
           a == arm_heartbeat(e)
<1>1. CASE slots = {}
  BY <1>1 DEF pump_sends
<1>2. CASE slots # {}
  <2>1. pump_sends(e) = d
    BY <1>2, Zenon DEF pump_sends
  <2>2. EngineTypeOK(e) /\ o \in [Tokens -> Outcomes]
    BY DEF Fine, Good, EngineTypeOK, Outcomes
  <2>3. \A s \in slots : /\ s \in DOMAIN e.queue /\ is_send(e.queue[s].action)
                         /\ EnforceBootGate => e.boot = "Accepted" \/ e.queue[s].triggered
    BY DEF eligible, is_send
  <2>4. slots \in SUBSET DOMAIN e.queue /\ tokens = {e.queue[s].token : s \in slots}
    OBVIOUS
  <2> HIDE DEF slots, tokens
  <2>5. /\ EngineTypeOK(cut) /\ Beside(e, cut)
        /\ cut.queue = remove(e.queue, slots)
        /\ cut.inflight = e.inflight /\ cut.next_token = e.next_token
        /\ cut.outcome = e.outcome /\ cut.store_ok = e.store_ok /\ cut.store = e.store
    BY <2>2, CutQueue, SetBeside
  <2> HIDE DEF cut
  <2>6. LET w == [cut EXCEPT !.wire = cut.wire \cup {}]
        IN EngineTypeOK(w) /\ Beside(cut, w) /\ Quiet(cut, w)
    <3>1. cut.wire \cup {} = cut.wire
      OBVIOUS
    <3> QED BY <2>5, <3>1 DEF EngineTypeOK, Beside, Quiet
  <2>7. Quiet(cut, armed) /\ Beside(a, armed)
    <3> DEFINE w == [cut EXCEPT !.wire = cut.wire \cup {}]
    <3>1. EngineTypeOK(w) /\ Beside(e, w) /\ Quiet(cut, w)
      BY <2>5, <2>6 DEF Beside
    <3>2. armed = arm_heartbeat(w)
      BY DEF transmit
    <3> HIDE DEF w, armed
    <3>3. Quiet(w, armed)
      BY <3>1, <3>2, ArmFields
    <3>4. Beside(a, armed)
      BY <2>2, <3>1, <3>2 DEF arm_heartbeat, set_timer, Beside, EngineTypeOK
    <3> QED BY <3>1, <3>3, <3>4 DEF Quiet
  <2>8. Quiet(e, a) /\ Fine(a, H, X \ {"Idle"}, c) /\ a.boot = e.boot
    BY <2>2, ArmFields, ArmFine
  <2> HIDE DEF armed, a
  <2>9. EngineTypeOK(armed)
    BY <2>7 DEF Quiet
  <2>10. /\ EngineTypeOK(out) /\ Beside(armed, out)
         /\ out.queue = armed.queue
         /\ out.inflight = armed.inflight /\ out.next_token = armed.next_token
         /\ out.store_ok = armed.store_ok
         /\ out.store = IF armed.store_ok
                        THEN Restrict(armed.store, DOMAIN armed.store \ tokens)
                        ELSE armed.store
    BY <2>9, AckStore, AckBeside
  <2> HIDE DEF out
  <2>11. o = [t \in Tokens |-> IF t \in tokens THEN "Sent" ELSE a.outcome[t]]
    BY <2>8 DEF Quiet
  <2> HIDE DEF o
  <2>12. /\ EngineTypeOK(d) /\ Beside(out, d)
         /\ d.queue = out.queue
         /\ d.inflight = out.inflight /\ d.next_token = out.next_token
         /\ d.store_ok = out.store_ok /\ d.store = out.store
         /\ d.outcome = o
    BY <2>2, <2>10, SetOutcome, SetBeside
  <2> HIDE DEF d
  <2>13. Beside(a, d)
    BY <2>7, <2>10, <2>12 DEF Beside
  <2>14. "Sent" \in Outcomes \ {"Open"}
    BY DEF Outcomes
  <2>15. Dropped(a, slots, tokens, "Sent", d)
    <3>1. /\ d.queue = remove(a.queue, slots) /\ d.inflight = a.inflight
          /\ d.next_token = a.next_token /\ d.store_ok = a.store_ok
          /\ d.store = IF a.store_ok THEN Restrict(a.store, DOMAIN a.store \ tokens) ELSE a.store
      BY <2>5, <2>7, <2>8, <2>10, <2>12 DEF Quiet
    <3>2. slots \in SUBSET DOMAIN a.queue /\ tokens = {a.queue[s].token : s \in slots}
      BY <2>4, <2>8 DEF Quiet
    <3>3. EngineTypeOK(d) /\ d.outcome = [t \in Tokens |-> IF t \in tokens THEN "Sent" ELSE a.outcome[t]]
      BY <2>11, <2>12
    <3> QED BY <2>14, <3>1, <3>2, <3>3, Zenon DEF Dropped
  <2>16. \A s \in slots : /\ is_send(a.queue[s].action)
                          /\ EnforceBootGate => a.boot = "Accepted" \/ a.queue[s].triggered
    BY <2>3, <2>8 DEF Quiet
  <2>17. Fine(d, H, X \ {"Idle"}, c)
    BY <2>8, <2>13, <2>15, <2>16, DropFine
  <2> QED BY <2>1, <2>17, Weaken
<1> QED BY <1>1, <1>2

(* A lost connection takes its transmissions and their answers with it.    *)
LEMMA CutFine ==
  ASSUME NEW e, NEW H, NEW X, NEW c, Fine(e, H, X, c), c.served = {}
  PROVE  LET w == [e EXCEPT !.wire = {}]
         IN /\ Fine(w, H, X, c)
            /\ w.draining = e.draining /\ w.boot = e.boot /\ w.connected = e.connected
            /\ w.heartbeat_at = e.heartbeat_at /\ w.boot_retry_at = e.boot_retry_at
            /\ w.timers = e.timers
<1> DEFINE w == [e EXCEPT !.wire = {}]
<1>1. EngineTypeOK(e)
  BY DEF Fine, Good
<1>2. /\ EngineTypeOK(w) /\ w.wire = {}
      /\ w.queue = e.queue /\ w.inflight = e.inflight /\ w.next_token = e.next_token
      /\ w.outcome = e.outcome /\ w.store = e.store /\ w.store_ok = e.store_ok
      /\ w.draining = e.draining /\ w.boot = e.boot /\ w.connected = e.connected
      /\ w.heartbeat_interval = e.heartbeat_interval
      /\ w.heartbeat_at = e.heartbeat_at /\ w.boot_retry_at = e.boot_retry_at
      /\ w.timers = e.timers
  <2>1. e = [connected |-> e.connected, boot |-> e.boot, inflight |-> e.inflight,
             queue |-> e.queue, next_token |-> e.next_token,
             heartbeat_interval |-> e.heartbeat_interval, heartbeat_at |-> e.heartbeat_at,
             boot_retry_at |-> e.boot_retry_at, draining |-> e.draining, close |-> e.close,
             store |-> e.store, store_ok |-> e.store_ok, timers |-> e.timers,
             outcome |-> e.outcome, wire |-> e.wire]
    BY <1>1 DEF EngineTypeOK
  <2>2. w = [connected |-> e.connected, boot |-> e.boot, inflight |-> e.inflight,
             queue |-> e.queue, next_token |-> e.next_token,
             heartbeat_interval |-> e.heartbeat_interval, heartbeat_at |-> e.heartbeat_at,
             boot_retry_at |-> e.boot_retry_at, draining |-> e.draining, close |-> e.close,
             store |-> e.store, store_ok |-> e.store_ok, timers |-> e.timers,
             outcome |-> e.outcome, wire |-> {}]
    BY <2>1
  <2> HIDE DEF w
  <2> QED BY <1>1, <2>2 DEF EngineTypeOK
<1> HIDE DEF w
<1>3. Good(w, H)
  BY <1>2, Irrelevant, Zenon DEF Fine
<1>4. Counted(w, c) /\ Counters(w)
  BY <1>2, SameCounted DEF Fine, Counters, Backed
<1>5. Gated(w, c)
  BY <1>2, SameCounts DEF Fine, Gated
<1>6. Answered(w, c)
  BY <1>2 DEF Fine, Answered
<1>7. Watched(w, X) /\ Alive(w, X)
  BY <1>2 DEF Fine, Watched, Match, Alive
<1> QED BY <1>2, <1>3, <1>4, <1>5, <1>6, <1>7 DEF Fine, w

(* The first eligible call takes the free slot: one more transmission, one *)
(* more attempt, and a new deadline with its timer.                        *)
LEMMA PumpCallFine ==
  ASSUME NEW e, NEW H, NEW X, NEW c, Fine(e, H, X, c)
  PROVE  Fine(pump_call(e), H, X, c)
<1>1. CASE e.inflight # None \/ Ready(e) = {}
  BY <1>1 DEF pump_call
<1>2. CASE e.inflight = None /\ Ready(e) # {}
  <2> DEFINE s == Min(Ready(e))
             entry == e.queue[s]
             call == [token |-> entry.token, action |-> entry.action,
                      persist |-> entry.persist,
                      queue_when_offline |-> entry.queue_when_offline,
                      triggered |-> entry.triggered,
                      attempts |-> entry.attempts + 1,
                      deadline |-> CallTimeout]
             w == [e EXCEPT !.wire = e.wire \cup {IdOf(call)}]
             b == transmit(e, {IdOf(call)})
             a == arm_heartbeat(e)
             put == [b EXCEPT !.queue = remove(b.queue, {s}), !.inflight = call]
             d == set_timer(put, "CallTimeout", CallTimeout)
  <2>1. pump_call(e) = d
    BY <1>2, Zenon DEF pump_call
  <2>2. Good(d, H)
    BY <2>1, PumpCallGood DEF Fine
  <2>3. EngineTypeOK(e) /\ CallTimeout \in Nat
    BY EngineAssumption DEF Fine, Good
  <2>4. Ready(e) \subseteq Nat
    BY <2>3 DEF Ready, EngineTypeOK
  <2>5. s \in Ready(e)
    BY <1>2, <2>4, MinIsLeast
  <2>6. s \in DOMAIN e.queue /\ eligible(e, s)
    BY <2>5 DEF Ready
  <2> HIDE DEF s
  <2>7. entry \in Pending /\ entry.token \in Tokens /\ entry.attempts \in Nat
    BY <2>3, <2>6 DEF EngineTypeOK, Pending
  <2>8. call \in InFlight /\ call # None /\ IdOf(call) \in MessageId
    BY <2>3, <2>7, NoneAssumption DEF Pending, InFlight, MessageId, IdOf
  <2>9. /\ call.token = entry.token /\ call.action = entry.action /\ call.persist = entry.persist
        /\ call.triggered = entry.triggered /\ call.attempts = entry.attempts + 1
        /\ call.deadline = CallTimeout
    OBVIOUS
  <2> HIDE DEF call
  <2>10. /\ EngineTypeOK(w) /\ w.queue = e.queue /\ w.inflight = e.inflight
         /\ w.wire = e.wire \cup {IdOf(call)}
         /\ w.heartbeat_interval = e.heartbeat_interval /\ w.heartbeat_at = e.heartbeat_at
         /\ w.timers = e.timers /\ w.next_token = e.next_token /\ w.outcome = e.outcome
         /\ w.store = e.store /\ w.store_ok = e.store_ok /\ w.connected = e.connected
         /\ w.draining = e.draining /\ w.boot = e.boot /\ w.boot_retry_at = e.boot_retry_at
    <3> DEFINE ids == e.wire \cup {IdOf(call)}
    <3>1. ids \in SUBSET MessageId
      BY <2>3, <2>8 DEF EngineTypeOK
    <3>2. w = [e EXCEPT !.wire = ids]
      OBVIOUS
    <3> HIDE DEF ids, w
    <3> QED BY <2>3, <3>1, <3>2 DEF EngineTypeOK, ids
  <2>11. Fine(a, H, X \ {"Idle"}, c) /\ Quiet(e, a) /\ a.boot = e.boot
    BY <2>3, ArmFine, ArmFields
  <2>12. /\ EngineTypeOK(b) /\ b.inflight = None /\ b.queue = e.queue
         /\ EngineTypeOK(a) /\ a.inflight = None /\ a.queue = e.queue
         /\ b.next_token = a.next_token /\ b.outcome = a.outcome /\ b.store = a.store
         /\ b.connected = a.connected /\ b.draining = a.draining /\ b.boot = a.boot
         /\ b.heartbeat_interval = a.heartbeat_interval /\ b.heartbeat_at = a.heartbeat_at
         /\ b.boot_retry_at = a.boot_retry_at /\ b.timers = a.timers
         /\ b.store_ok = a.store_ok /\ b.wire = e.wire \cup {IdOf(call)} /\ a.wire = e.wire
    <3>1. b = arm_heartbeat(w)
      BY DEF transmit
    <3> HIDE DEF w, b, a
    <3>2. /\ Quiet(w, b) /\ b.connected = w.connected /\ b.draining = w.draining /\ b.boot = w.boot
          /\ b.boot_retry_at = w.boot_retry_at /\ b.heartbeat_interval = w.heartbeat_interval
      BY <2>10, <3>1, ArmFields
    <3>3. /\ Quiet(e, a) /\ a.connected = e.connected /\ a.draining = e.draining /\ a.boot = e.boot
          /\ a.boot_retry_at = e.boot_retry_at /\ a.heartbeat_interval = e.heartbeat_interval
      BY <2>3, ArmFields DEF a
    <3>4. b.heartbeat_at = a.heartbeat_at /\ b.timers = a.timers
      <4>1. a.heartbeat_at = (IF AutoHeartbeat /\ e.heartbeat_interval > 0 /\ e.heartbeat_at # e.heartbeat_interval
                              THEN e.heartbeat_interval ELSE e.heartbeat_at)
            /\ a.timers = (IF AutoHeartbeat /\ e.heartbeat_interval > 0 /\ e.heartbeat_at # e.heartbeat_interval
                           THEN [e.timers EXCEPT !["Heartbeat"] = e.heartbeat_interval] ELSE e.timers)
        BY <2>3 DEF a, arm_heartbeat, set_timer, EngineTypeOK
      <4>2. b.heartbeat_at = (IF AutoHeartbeat /\ w.heartbeat_interval > 0 /\ w.heartbeat_at # w.heartbeat_interval
                              THEN w.heartbeat_interval ELSE w.heartbeat_at)
            /\ b.timers = (IF AutoHeartbeat /\ w.heartbeat_interval > 0 /\ w.heartbeat_at # w.heartbeat_interval
                           THEN [w.timers EXCEPT !["Heartbeat"] = w.heartbeat_interval] ELSE w.timers)
        BY <2>10, <3>1 DEF arm_heartbeat, set_timer, EngineTypeOK
      <4> QED BY <2>10, <4>1, <4>2
    <3> QED BY <1>2, <2>10, <3>2, <3>3, <3>4 DEF Quiet
  <2> HIDE DEF a, b, w
  <2>13. /\ d.queue = remove(e.queue, {s}) /\ d.inflight = call
         /\ d.next_token = a.next_token /\ d.outcome = a.outcome /\ d.store = a.store
         /\ d.store_ok = a.store_ok /\ d.wire = e.wire \cup {IdOf(call)}
         /\ d.connected = a.connected /\ d.draining = a.draining /\ d.boot = a.boot
         /\ d.heartbeat_interval = a.heartbeat_interval /\ d.heartbeat_at = a.heartbeat_at
         /\ d.boot_retry_at = a.boot_retry_at
         /\ \A t \in Timers \ {"CallTimeout"} : d.timers[t] = a.timers[t]
         /\ d.timers["CallTimeout"] = CallTimeout
    <3> DEFINE q == remove(b.queue, {s})
    <3>1. put = [b EXCEPT !.queue = q, !.inflight = call] /\ q = remove(e.queue, {s})
      BY <2>12
    <3> HIDE DEF q, put
    <3> QED BY <2>12, <3>1 DEF EngineTypeOK, set_timer, Timers
  <2> HIDE DEF d, put
  <2>14. /\ DOMAIN d.queue = DOMAIN e.queue \ {s}
         /\ \A u \in DOMAIN d.queue : d.queue[u] = e.queue[u]
    <3>1. /\ DOMAIN remove(e.queue, {s}) = DOMAIN e.queue \ {s}
          /\ \A u \in DOMAIN e.queue \ {s} : remove(e.queue, {s})[u] = e.queue[u]
      BY RemoveShape, Zenon
    <3> QED BY <2>13, <3>1
  <2>15. IsContext(c)
    BY DEF Fine
  <2>16. \A u \in DOMAIN e.queue : /\ e.queue[u].token \in Tokens
                                   /\ e.queue[u].token = entry.token => u = s
    BY <2>3, <2>6, TokensDistinct DEF Fine, EngineTypeOK, Pending
  <2>17. e.outcome[entry.token] = "Open" /\ entry.token \notin Transmitted(c.old, a)
    <3>1. e.outcome[entry.token] = "Open"
      BY <2>6, <2>7 DEF Fine, Good, SlotsOK, FatesOK, Holds
    <3> QED BY <2>11, <2>12, <3>1 DEF Transmitted, Quiet
  <2>18. \A t \in Tokens : t # entry.token => (t \in Transmitted(c.old, d) <=> t \in Transmitted(c.old, a))
    BY <2>9, <2>12, <2>13 DEF Transmitted
  <2>19. \A t \in Tokens : t # entry.token =>
           /\ Used(d, c, t) = Used(a, c, t) /\ Missed(d, c, t) = Missed(a, c, t)
           /\ Flying(d, t) = Flying(a, t)
    <3>1. \A t \in Tokens : t # entry.token => Unrecorded(c.old, d, t) = Unrecorded(c.old, a, t)
      BY <2>8, <2>9, <2>12, <2>13 DEF Unrecorded, CallEnds, SendEnds, IdOf
    <3> QED BY <2>9, <2>12, <2>13, <2>18, <3>1 DEF Used, Missed, Flying
  <2>27. \A t \in Tokens : t # entry.token => \A n : Within(a, c, t, n) => Within(d, c, t, n)
    BY <2>19 DEF Within
  <2>20. ASSUME NEW n \in Nat, Within(a, c, entry.token, n)
         PROVE  Within(d, c, entry.token, n + 1)
    <3> DEFINE t == entry.token
    <3>1. /\ Used(a, c, t) = c.sent[t] /\ c.sent[t] \in Nat
          /\ Used(d, c, t) \in Nat /\ Used(d, c, t) <= c.sent[t] + 1
          /\ t \notin Transmitted(c.old, d) => Used(d, c, t) = c.sent[t]
      BY <2>7, <2>15, <2>17, UsedIsNat
    <3>2. /\ c.lost[t] \in Nat /\ Missed(d, c, t) \in Nat /\ Missed(a, c, t) \in Nat
          /\ Unrecorded(c.old, d, t) \in Nat /\ Unrecorded(c.old, a, t) \in Nat
          /\ Missed(d, c, t) = c.lost[t] + Unrecorded(c.old, d, t)
          /\ Missed(a, c, t) = c.lost[t] + Unrecorded(c.old, a, t)
      BY <2>7, <2>15, MissedIsNat
    <3>3. SendEnds(c.old, d, t) <=> SendEnds(c.old, a, t)
      BY <2>13 DEF SendEnds
    <3>4. CASE t \in Transmitted(c.old, d)
      <4>1. c.old.inflight = None \/ IdOf(c.old.inflight) # IdOf(call)
        BY <2>9, <2>11, <2>13, <2>17, <3>4 DEF Transmitted, Quiet
      <4>2. CallEnds(c.old, d, t) <=> CallEnds(c.old, a, t)
        BY <2>8, <2>12, <2>13, <4>1 DEF CallEnds
      <4>3. Unrecorded(c.old, d, t) = Unrecorded(c.old, a, t)
        BY <3>3, <4>2 DEF Unrecorded
      <4>4. Used(a, c, t) <= n + Missed(a, c, t)
        BY <2>20 DEF Within
      <4>5. Used(d, c, t) <= (n + 1) + Missed(d, c, t)
        BY <3>1, <3>2, <4>3, <4>4
      <4> QED BY <4>5 DEF Within
    <3>5. CASE t \notin Transmitted(c.old, d)
      <4>1. Unrecorded(c.old, a, t) <= Unrecorded(c.old, d, t) + 1
        BY <3>3 DEF Unrecorded
      <4>2. Used(a, c, t) <= n + Missed(a, c, t)
        BY <2>20 DEF Within
      <4>3. Used(d, c, t) <= (n + 1) + Missed(d, c, t)
        BY <3>1, <3>2, <3>5, <4>1, <4>2
      <4> QED BY <4>3 DEF Within
    <3> QED BY <3>4, <3>5
  <2>21. Counted(d, c)
    <3>1. \A u \in DOMAIN d.queue : Within(d, c, d.queue[u].token, d.queue[u].attempts)
      BY <2>11, <2>12, <2>14, <2>16, <2>27 DEF Fine, Counted
    <3>2. Within(d, c, call.token, call.attempts)
      <4>1. Within(a, c, entry.token, entry.attempts)
        BY <2>6, <2>11, <2>12 DEF Fine, Counted
      <4> QED BY <2>7, <2>9, <2>20, <4>1
    <3>3. ASSUME NEW t \in DOMAIN d.store
          PROVE  Within(d, c, t, d.store[t].attempts + Flying(d, t))
      <4>1. t \in Tokens /\ d.store[t] = a.store[t] /\ t \in DOMAIN a.store /\ a.store[t].attempts \in Nat
        BY <2>12, <2>13 DEF EngineTypeOK, Stored
      <4>2. Within(a, c, t, a.store[t].attempts + Flying(a, t)) /\ Flying(a, t) = 0
        BY <2>11, <2>12, <4>1, FlyingIsNat DEF Fine, Counted
      <4>3. CASE t # entry.token
        BY <2>19, <2>27, <4>1, <4>2, <4>3
      <4>4. CASE t = entry.token
        <5>1. Flying(d, t) = 1
          BY <2>8, <2>9, <2>13, <4>4 DEF Flying
        <5>2. Within(a, c, t, a.store[t].attempts)
          <6>1. a.store[t].attempts + Flying(a, t) = a.store[t].attempts
            BY <4>1, <4>2
          <6> QED BY <4>2, <6>1
        <5>3. Within(d, c, t, a.store[t].attempts + 1)
          BY <2>20, <4>1, <4>4, <5>2
        <5> QED BY <4>1, <5>1, <5>3
      <4> QED BY <4>3, <4>4
    <3>4. \A t \in Tokens : d.outcome[t] = "Sent" => Within(d, c, t, 1)
      BY <2>11, <2>13, <2>17, <2>27 DEF Fine, Counted, Quiet
    <3>5. d.store_ok = c.old.store_ok /\ \A t \in Tokens : t >= d.next_token => c.sent[t] = 0
      BY <2>11, <2>13 DEF Fine, Counted
    <3> QED BY <2>13, <3>1, <3>2, <3>3, <3>4, <3>5 DEF Counted
  <2>22. Counters(d)
    <3>1. \A u \in DOMAIN d.queue :
            /\ Tries(d.queue[u].action, d.queue[u].attempts)
            /\ Backed(d, d.queue[u].token, d.queue[u].action)
      <4>1. \A u \in DOMAIN e.queue :
              /\ Tries(e.queue[u].action, e.queue[u].attempts)
              /\ Backed(e, e.queue[u].token, e.queue[u].action)
        BY DEF Fine, Counters
      <4>2. d.store = e.store
        BY <2>11, <2>13 DEF Quiet
      <4> QED BY <2>14, <4>1, <4>2 DEF Backed
    <3>2. call.attempts > 0 /\ call.attempts - 1 = entry.attempts
      BY <2>7, <2>9
    <3>3. /\ Tries(call.action, call.attempts - 1)
          /\ Backed(d, call.token, call.action)
      BY <2>6, <2>9, <2>11, <2>12, <2>13, <3>2 DEF Fine, Counters, Backed
    <3> QED BY <2>11, <2>13, <3>1, <3>2, <3>3 DEF Fine, Counters
  <2>23. Gated(d, c)
    <3>1. EnforceBootGate => c.verdict = "Accepted" \/ call.action = "BootNotification" \/ call.triggered
      BY <2>6, <2>9 DEF eligible, Fine, Gated
    <3>2. EnforceBootGate => \A t \in Transmitted(c.old, d) :
             t # entry.token => c.verdict = "Accepted" \/ Asked(c, t)
      <4>1. \A t \in Transmitted(c.old, d) : t \in Tokens
        BY DEF Transmitted
      <4> QED BY <2>11, <2>12, <2>18, <4>1 DEF Fine, Gated
    <3>3. /\ d.boot = "Accepted" => c.verdict = "Accepted"
          /\ \A u \in DOMAIN d.queue :
               is_send(d.queue[u].action) /\ d.queue[u].triggered => Asked(c, d.queue[u].token)
      BY <2>11, <2>13, <2>14 DEF Fine, Gated
    <3> QED BY <2>8, <2>9, <2>13, <3>1, <3>2, <3>3 DEF Gated
  <2>24. Answered(d, c)
    <3>1. /\ IdOf(call).token = entry.token /\ IdOf(call).attempt = entry.attempts + 1
          /\ e.queue[s].token = entry.token /\ e.queue[s].attempts = entry.attempts
      BY <2>9 DEF IdOf
    <3>2. \A id \in e.wire : /\ id.token \in Int /\ id.attempt \in Nat
                             /\ Behind(e, id) /\ Behind(d, id)
      <4>1. \A id \in e.wire : id.token \in Int /\ id.attempt \in Nat
        BY <2>3 DEF EngineTypeOK, MessageId, Tokens
      <4>2. d.next_token = e.next_token
        BY <2>11, <2>13 DEF Quiet
      <4>3. \A id \in e.wire : Behind(e, id)
        BY DEF Fine, Answered
      <4>4. \A id \in e.wire : id.token = entry.token => id.attempt <= entry.attempts
        BY <2>6, <4>3 DEF Behind
      <4>5. \A id \in e.wire : id.token = call.token => id.attempt <= call.attempts
        BY <2>7, <2>9, <4>1, <4>4
      <4> QED BY <2>13, <2>14, <4>1, <4>2, <4>3, <4>5 DEF Behind
    <3>3. Behind(d, IdOf(call))
      <4>1. entry.token < d.next_token
        BY <2>6, <2>11, <2>13 DEF Fine, Good, SlotsOK, Quiet
      <4>2. \A u \in DOMAIN d.queue : d.queue[u].token # entry.token
        BY <2>14, <2>16
      <4>3. IdOf(call).attempt <= d.inflight.attempts
        BY <2>7, <2>9, <2>13, <3>1
      <4> QED BY <2>13, <3>1, <4>1, <4>2, <4>3 DEF Behind
    <3>4. IdOf(call) \notin e.wire
      <4>1. Behind(e, IdOf(call)) => entry.attempts + 1 <= entry.attempts
        BY <2>6, <3>1 DEF Behind
      <4> QED BY <2>7, <3>2, <4>1
    <3>5. c.served \subseteq e.wire
      BY DEF Fine, Answered
    <3>6. \A t \in Tokens : c.old.outcome[t] = "Open" /\ d.outcome[t] \in {"Result", "Rejected"}
                            => Completed(c, t)
      BY <2>11, <2>13 DEF Fine, Answered
    <3> QED BY <2>13, <3>2, <3>3, <3>4, <3>5, <3>6 DEF Answered
  <2>25. Watched(d, X \ {"Idle"}) /\ Alive(d, X \ {"Idle"})
    <3>1. Match(d, X \ {"Idle"}, "CallTimeout", call.deadline)
      BY <2>9, <2>13 DEF Match
    <3>2. Alive(d, X \ {"Idle"})
      BY <2>11, <2>13 DEF Fine, Alive
    <3>3. Watched(a, X \ {"Idle"})
      BY <2>11 DEF Fine
    <3>4. \A u \in DOMAIN d.queue : d.queue[u].not_before > 0 =>
            u = 0 /\ d.timers["TransactionRetry"] = d.queue[u].not_before
      <4>1. \A u \in DOMAIN a.queue : a.queue[u].not_before > 0 =>
              u = 0 /\ a.timers["TransactionRetry"] = a.queue[u].not_before
        BY <3>3 DEF Watched
      <4>2. d.timers["TransactionRetry"] = a.timers["TransactionRetry"]
        BY <2>13 DEF Timers
      <4>3. a.queue = e.queue /\ \A u \in DOMAIN d.queue : u \in DOMAIN e.queue /\ d.queue[u] = e.queue[u]
        BY <2>12, <2>14
      <4> QED BY <4>1, <4>2, <4>3
    <3>5. /\ Match(d, X \ {"Idle"}, "Heartbeat", d.heartbeat_at)
          /\ Match(d, X \ {"Idle"}, "BootRetry", d.boot_retry_at)
          /\ Match(d, X \ {"Idle"}, "DrainDeadline", d.draining)
      BY <2>13, <3>3 DEF Watched, Match, Timers
    <3> QED BY <2>13, <3>1, <3>2, <3>4, <3>5 DEF Watched
  <2>26. Fine(d, H, X \ {"Idle"}, c)
    BY <2>2, <2>15, <2>21, <2>22, <2>23, <2>24, <2>25 DEF Fine
  <2> QED BY <2>1, <2>26, Weaken
<1> QED BY <1>1, <1>2

LEMMA PumpFine ==
  ASSUME NEW e, NEW H, NEW X, NEW c, Fine(e, H, X, c)
  PROVE  Fine(pump(e), H, X, c)
BY PumpSendsFine, PumpCallFine DEF pump

(* With nothing queued there is nothing to pump.                           *)
LEMMA PumpIdle ==
  ASSUME NEW e, DOMAIN e.queue = {}
  PROVE  pump(e) = e
<1>1. pump_sends(e) = e
  BY DEF pump_sends
<1>2. pump_call(e) = e
  BY DEF pump_call, Ready
<1> QED BY <1>1, <1>2 DEF pump

(* check_drain gives the deadline up with its timer.                       *)
LEMMA CheckDrainFine ==
  ASSUME NEW e, NEW H, NEW X, NEW c, Fine(e, H, X, c)
  PROVE  /\ Fine(check_drain(e), H, X, c)
         /\ (drain_complete(e) \/ e.draining # 0) => Fine(check_drain(e), H, X \ {"DrainDeadline"}, c)
<1> DEFINE t == clear_timer(e, "DrainDeadline")
           d == [t EXCEPT !.draining = Never, !.close = "Drained"]
<1>1. EngineTypeOK(e)
  BY DEF Fine, Good
<1>2. /\ Quiet(e, d) /\ d.draining = Never /\ d.boot = e.boot /\ d.connected = e.connected
      /\ d.heartbeat_at = e.heartbeat_at /\ d.heartbeat_interval = e.heartbeat_interval
      /\ d.boot_retry_at = e.boot_retry_at
      /\ \A x \in Timers \ {"DrainDeadline"} : d.timers[x] = e.timers[x]
  <2>1. /\ Quiet(e, t) /\ t.boot = e.boot /\ t.connected = e.connected
        /\ t.heartbeat_at = e.heartbeat_at /\ t.heartbeat_interval = e.heartbeat_interval
        /\ t.boot_retry_at = e.boot_retry_at
        /\ \A x \in Timers \ {"DrainDeadline"} : t.timers[x] = e.timers[x]
    BY <1>1 DEF EngineTypeOK, clear_timer, Quiet, Timers
  <2> HIDE DEF t
  <2>2. /\ Quiet(t, d) /\ d.draining = Never /\ d.boot = t.boot /\ d.connected = t.connected
        /\ d.heartbeat_at = t.heartbeat_at /\ d.heartbeat_interval = t.heartbeat_interval
        /\ d.boot_retry_at = t.boot_retry_at /\ d.timers = t.timers
    <3> DEFINE m == [t EXCEPT !.draining = Never]
    <3>1. EngineTypeOK(t)
      BY <2>1 DEF Quiet
    <3>2. /\ Quiet(t, m) /\ m.draining = Never /\ m.boot = t.boot /\ m.connected = t.connected
          /\ m.heartbeat_at = t.heartbeat_at /\ m.heartbeat_interval = t.heartbeat_interval
          /\ m.boot_retry_at = t.boot_retry_at /\ m.timers = t.timers
      BY <3>1 DEF EngineTypeOK, Quiet
    <3>3. d = [m EXCEPT !.close = "Drained"]
      BY <3>1 DEF EngineTypeOK
    <3> HIDE DEF m, d
    <3>4. /\ Quiet(m, d) /\ d.draining = m.draining /\ d.boot = m.boot /\ d.connected = m.connected
          /\ d.heartbeat_at = m.heartbeat_at /\ d.heartbeat_interval = m.heartbeat_interval
          /\ d.boot_retry_at = m.boot_retry_at /\ d.timers = m.timers
      BY <3>2, <3>3 DEF EngineTypeOK, Quiet
    <3> QED BY <3>2, <3>4 DEF Quiet
  <2> QED BY <2>1, <2>2 DEF Quiet
<1>3. check_drain(e) = IF e.draining # Never /\ drain_complete(e) THEN d ELSE e
  BY Zenon DEF check_drain
<1> HIDE DEF d
<1>4. Fine(d, H, X, c) /\ Fine(d, H, X \ {"DrainDeadline"}, c)
  <2>1. /\ Watched(d, X) /\ Alive(d, X) /\ (d.boot = "Accepted" => c.verdict = "Accepted")
        /\ Watched(d, X \ {"DrainDeadline"}) /\ Alive(d, X \ {"DrainDeadline"})
    BY <1>2 DEF Fine, Watched, Match, Alive, Gated, Quiet, Timers
  <2> QED BY <1>2, <2>1, QuietFine
<1>5. (~(e.draining # Never /\ drain_complete(e)) /\ (drain_complete(e) \/ e.draining # 0))
        => Fine(e, H, X \ {"DrainDeadline"}, c)
  BY DEF Fine, Watched, Match, Alive, Never
<1> QED BY <1>3, <1>4, <1>5

-----------------------------------------------------------------------------
(* The call in flight is taken, and reported or put back.                  *)

(* The transmission in flight ends: the store is told of it, or misses it. *)
LEMMA TakenCounts ==
  ASSUME NEW e, NEW d, NEW c, IsContext(c), e.inflight # None, d.inflight = None,
         d.outcome = e.outcome, e.outcome[e.inflight.token] = "Open",
         NEW t \in Tokens, NEW n \in Nat
  PROVE  /\ Within(e, c, t, n) => Within(d, c, t, n)
         /\ ~c.old.store_ok /\ t = e.inflight.token /\ Within(e, c, t, n + 1) => Within(d, c, t, n)
<1>1. /\ c.sent[t] \in Nat /\ Used(d, c, t) \in Nat /\ Used(e, c, t) \in Nat
      /\ t \in Transmitted(c.old, d) => Used(d, c, t) = c.sent[t] + 1
      /\ t \in Transmitted(c.old, e) => Used(e, c, t) = c.sent[t] + 1
      /\ t \notin Transmitted(c.old, d) => Used(d, c, t) = c.sent[t]
      /\ t \notin Transmitted(c.old, e) => Used(e, c, t) = c.sent[t]
  BY UsedIsNat
<1>2. /\ c.lost[t] \in Nat /\ Unrecorded(c.old, e, t) \in Nat /\ Unrecorded(c.old, d, t) \in Nat
      /\ Missed(e, c, t) \in Nat /\ Missed(e, c, t) = c.lost[t] + Unrecorded(c.old, e, t)
      /\ Missed(d, c, t) \in Nat /\ Missed(d, c, t) = c.lost[t] + Unrecorded(c.old, d, t)
  BY MissedIsNat
<1>3. t \in Transmitted(c.old, d) => t \in Transmitted(c.old, e)
  BY DEF Transmitted
<1>4. SendEnds(c.old, d, t) <=> SendEnds(c.old, e, t)
  BY DEF SendEnds
<1>5. CallEnds(c.old, e, t) => CallEnds(c.old, d, t)
  BY DEF CallEnds
<1>6. Unrecorded(c.old, e, t) <= Unrecorded(c.old, d, t)
  BY <1>4, <1>5 DEF Unrecorded
<1>7. ASSUME Within(e, c, t, n)
      PROVE  Within(d, c, t, n)
  <2>1. Used(d, c, t) <= Used(e, c, t) /\ Missed(e, c, t) <= Missed(d, c, t)
    BY <1>1, <1>2, <1>3, <1>6
  <2> QED BY <1>7, <2>1, Slack
<1>8. ASSUME ~c.old.store_ok, t = e.inflight.token, Within(e, c, t, n + 1)
      PROVE  Within(d, c, t, n)
  <2>1. Used(e, c, t) <= (n + 1) + Missed(e, c, t)
    BY <1>8 DEF Within
  <2>2. CASE c.old.inflight # None /\ IdOf(c.old.inflight) = IdOf(e.inflight)
    <3>1. c.old.inflight.token = t
      BY <1>8, <2>2 DEF IdOf
    <3>2. CallEnds(c.old, d, t) /\ ~CallEnds(c.old, e, t)
      BY <2>2, <3>1 DEF CallEnds
    <3>3. Unrecorded(c.old, d, t) = Unrecorded(c.old, e, t) + 1
      BY <1>4, <1>8, <3>2 DEF Unrecorded
    <3>4. Used(d, c, t) <= n + Missed(d, c, t)
      BY <1>1, <1>2, <1>3, <2>1, <3>3
    <3> QED BY <3>4 DEF Within
  <2>3. CASE ~(c.old.inflight # None /\ IdOf(c.old.inflight) = IdOf(e.inflight))
    <3>1. t \in Transmitted(c.old, e) /\ t \notin Transmitted(c.old, d)
      BY <1>8, <2>3 DEF Transmitted
    <3>2. Used(d, c, t) <= n + Missed(d, c, t)
      BY <1>1, <1>2, <1>6, <2>1, <3>1
    <3> QED BY <3>2 DEF Within
  <2> QED BY <2>2, <2>3
<1> QED BY <1>7, <1>8

LEMMA TakeFine ==
  ASSUME NEW e, NEW X, NEW c, Fine(e, {}, X, c), e.inflight # None
  PROVE  LET d == ack_store(Taken(e), {e.inflight.token})
         IN /\ Fine(d, {e.inflight.token}, X \ {"CallTimeout", "Flight"}, c)
            /\ Beside(e, d) /\ d.inflight = None /\ e.inflight.token \in Tokens
            /\ d.queue = e.queue /\ d.outcome = e.outcome
<1> DEFINE f == e.inflight
           taken == Taken(e)
           d == ack_store(taken, {f.token})
<1>1. Good(d, {f.token}) /\ f.token \in Tokens
  BY TakeGood DEF Fine
<1>2. EngineTypeOK(e) /\ IsContext(c)
  BY DEF Fine, Good
<1>3. /\ EngineTypeOK(taken) /\ Beside(e, taken)
      /\ taken.queue = e.queue /\ taken.inflight = None /\ taken.next_token = e.next_token
      /\ taken.outcome = e.outcome /\ taken.store = e.store /\ taken.store_ok = e.store_ok
  BY <1>2 DEF EngineTypeOK, Taken, Beside
<1> HIDE DEF taken, f
<1>4. /\ EngineTypeOK(d) /\ Beside(taken, d)
      /\ d.queue = e.queue /\ d.inflight = None /\ d.next_token = e.next_token
      /\ d.outcome = e.outcome /\ d.store_ok = e.store_ok
      /\ d.store = IF e.store_ok THEN Restrict(e.store, DOMAIN e.store \ {f.token})
                   ELSE e.store
  BY <1>3, AckStore, AckBeside
<1>5. Beside(e, d)
  BY <1>3, <1>4 DEF Beside
<1> HIDE DEF d
<1>6. /\ DOMAIN d.store \subseteq DOMAIN e.store
      /\ \A t \in DOMAIN d.store : d.store[t] = e.store[t]
      /\ e.store_ok => f.token \notin DOMAIN d.store
  BY <1>4, RestrictShape
<1>7. e.outcome[f.token] = "Open"
  BY <1>1 DEF f, Fine, Good, FlightOK, FatesOK, Holds
<1>8. Counted(d, c)
  <2>1. \A t \in Tokens : \A n \in Nat :
          /\ Within(e, c, t, n) => Within(d, c, t, n)
          /\ ~c.old.store_ok /\ t = f.token /\ Within(e, c, t, n + 1) => Within(d, c, t, n)
    BY <1>2, <1>4, <1>7, TakenCounts DEF f
  <2>2. \A s \in DOMAIN e.queue : e.queue[s].token \in Tokens /\ e.queue[s].attempts \in Nat
    BY <1>2 DEF EngineTypeOK, Pending
  <2>3. \A s \in DOMAIN e.queue : Within(d, c, e.queue[s].token, e.queue[s].attempts)
    BY <2>1, <2>2 DEF Fine, Counted
  <2>4. ASSUME NEW t \in DOMAIN d.store
        PROVE  Within(d, c, t, d.store[t].attempts + Flying(d, t))
    <3>1. /\ t \in Tokens /\ e.store[t].attempts \in Nat /\ d.store[t] = e.store[t]
          /\ Flying(d, t) = 0 /\ (t # f.token => Flying(e, t) = 0) /\ (t = f.token => Flying(e, t) = 1)
      <4>1. t \in DOMAIN e.store /\ d.store[t] = e.store[t]
        BY <1>6, <2>4
      <4>2. t \in Tokens /\ e.store[t].attempts \in Nat
        BY <1>2, <4>1 DEF EngineTypeOK, Stored
      <4>3. Flying(d, t) = 0 /\ (t # f.token => Flying(e, t) = 0) /\ (t = f.token => Flying(e, t) = 1)
        BY <1>4 DEF Flying, f
      <4> QED BY <4>1, <4>2, <4>3
    <3>2. Within(e, c, t, e.store[t].attempts + Flying(e, t))
      BY <1>6, <2>4 DEF Fine, Counted
    <3>3. Within(d, c, t, e.store[t].attempts)
      <4>1. CASE t # f.token
        <5>1. e.store[t].attempts + Flying(e, t) = e.store[t].attempts
          BY <3>1, <4>1
        <5> QED BY <2>1, <3>1, <3>2, <5>1
      <4>2. CASE t = f.token
        <5>1. e.store[t].attempts + Flying(e, t) = e.store[t].attempts + 1
          BY <3>1, <4>2
        <5>2. ~c.old.store_ok
          BY <1>6, <2>4, <4>2 DEF Fine, Counted
        <5> QED BY <2>1, <3>1, <3>2, <4>2, <5>1, <5>2
      <4> QED BY <4>1, <4>2
    <3>4. d.store[t].attempts + Flying(d, t) = e.store[t].attempts
      BY <3>1
    <3> QED BY <3>3, <3>4
  <2>5. \A t \in Tokens : e.outcome[t] = "Sent" => Within(d, c, t, 1)
    BY <2>1 DEF Fine, Counted
  <2>6. e.store_ok = c.old.store_ok /\ \A t \in Tokens : t >= e.next_token => c.sent[t] = 0
    BY DEF Fine, Counted
  <2> QED BY <1>4, <2>3, <2>4, <2>5, <2>6 DEF Counted
<1>9. Counters(d)
  <2>1. \A s \in DOMAIN e.queue :
          /\ Tries(e.queue[s].action, e.queue[s].attempts)
          /\ Backed(d, e.queue[s].token, e.queue[s].action)
    BY <1>6 DEF Fine, Counters, Backed
  <2>2. \A t \in DOMAIN d.store : Tries(d.store[t].action, d.store[t].attempts)
    BY <1>6 DEF Fine, Counters
  <2> QED BY <1>4, <2>1, <2>2 DEF Counters
<1>10. Gated(d, c)
  <2>1. \A t \in Transmitted(c.old, d) :
          t \in Transmitted(c.old, e) /\ (e.inflight # None => e.inflight.token # t)
    BY <1>4, <1>7 DEF Transmitted, f
  <2> QED BY <1>4, <1>5, <2>1 DEF Fine, Gated, Beside
<1>11. Answered(d, c)
  BY <1>4, <1>5 DEF Fine, Answered, Behind, Beside
<1>12. Watched(d, X \ {"CallTimeout", "Flight"}) /\ Alive(d, X \ {"CallTimeout", "Flight"})
  BY <1>4, <1>5 DEF Fine, Watched, Match, Alive, Beside
<1>13. Fine(d, {f.token}, X \ {"CallTimeout", "Flight"}, c)
  BY <1>1, <1>2, <1>8, <1>9, <1>10, <1>11, <1>12 DEF Fine
<1> QED BY <1>1, <1>4, <1>5, <1>13 DEF d, taken, f

LEMMA FailFine ==
  ASSUME NEW e, NEW X, NEW c, NEW token \in Tokens, Fine(e, {token}, X, c),
         NEW why \in Outcomes \ {"Open", "Sent"}, why \in {"Result", "Rejected"} => Completed(c, token)
  PROVE  Fine(fail(e, token, why), {}, X, c)
<1> DEFINE d == fail(e, token, why)
<1>1. EngineTypeOK(e) /\ IsContext(c)
  BY DEF Fine, Good
<1>2. Good(d, {})
  BY FailGood DEF Fine
<1>3. /\ d.queue = e.queue /\ d.inflight = e.inflight /\ d.next_token = e.next_token
      /\ d.store = e.store /\ d.store_ok = e.store_ok
      /\ d.outcome = [e.outcome EXCEPT ![token] = why] /\ Beside(e, d)
  BY <1>1 DEF EngineTypeOK, fail, Beside
<1> HIDE DEF d
<1>4. \A t \in Tokens : d.outcome[t] = IF t = token THEN why ELSE e.outcome[t]
  BY <1>1, <1>3 DEF EngineTypeOK
<1>5. e.outcome[token] = "Open"
  BY DEF Fine, Good, FatesOK
<1>6. Transmitted(c.old, d) = Transmitted(c.old, e)
  BY <1>3, <1>4, <1>5 DEF Transmitted
<1>7. Counted(d, c)
  <2>1. \A t \in Tokens : Unrecorded(c.old, d, t) = Unrecorded(c.old, e, t)
    BY <1>3, <1>4, <1>5 DEF Unrecorded, CallEnds, SendEnds
  <2>2. \A t \in Tokens : Used(d, c, t) = Used(e, c, t) /\ Missed(d, c, t) = Missed(e, c, t)
    BY <1>6, <2>1 DEF Used, Missed
  <2>3. \A t \in Tokens : \A n : Within(e, c, t, n) => Within(d, c, t, n)
    BY <2>2 DEF Within
  <2>4. /\ \A s \in DOMAIN e.queue : e.queue[s].token \in Tokens
        /\ e.inflight # None => e.inflight.token \in Tokens
        /\ DOMAIN e.store \subseteq Tokens
    BY <1>1 DEF EngineTypeOK, Pending, InFlight
  <2>5. \A t : Flying(d, t) = Flying(e, t)
    BY <1>3 DEF Flying
  <2>6. \A t \in Tokens : d.outcome[t] = "Sent" => e.outcome[t] = "Sent"
    BY <1>4
  <2> QED BY <1>3, <2>3, <2>4, <2>5, <2>6 DEF Fine, Counted
<1>8. Counters(d)
  BY <1>3 DEF Fine, Counters, Backed
<1>9. Gated(d, c)
  BY <1>3, <1>6 DEF Fine, Gated, Beside
<1>10. Answered(d, c)
  BY <1>3, <1>4 DEF Fine, Answered, Behind, Beside
<1>11. Watched(d, X) /\ Alive(d, X)
  BY <1>3 DEF Fine, Watched, Match, Alive, Beside
<1> QED BY <1>1, <1>2, <1>7, <1>8, <1>9, <1>10, <1>11 DEF Fine, d

(* What set_attempts writes.                                               *)
LEMMA SetAttemptsStore ==
  ASSUME NEW e, EngineTypeOK(e), NEW token, NEW n \in Nat
  PROVE  LET d == set_attempts(e, token, n)
         IN /\ Beside(e, d) /\ DOMAIN d.store = DOMAIN e.store
            /\ \A t \in DOMAIN e.store : t # token => d.store[t] = e.store[t]
            /\ token \in DOMAIN e.store =>
                 /\ d.store[token].action = e.store[token].action
                 /\ d.store[token].attempts = n \/ d.store[token] = e.store[token]
                 /\ e.store_ok => d.store[token].attempts = n
<1> DEFINE d == set_attempts(e, token, n)
<1>1. CASE e.store_ok /\ token \in DOMAIN e.store
  <2> DEFINE st == [e.store EXCEPT ![token].attempts = n]
  <2>1. /\ DOMAIN st = DOMAIN e.store
        /\ \A t \in DOMAIN e.store : t # token => st[t] = e.store[t]
        /\ st[token].action = e.store[token].action /\ st[token].attempts = n
    BY <1>1 DEF EngineTypeOK, Stored
  <2>2. d = [e EXCEPT !.store = st]
    BY <1>1 DEF set_attempts
  <2> HIDE DEF st, d
  <2>3. d.store = st /\ Beside(e, d)
    BY <2>2 DEF EngineTypeOK, Beside
  <2> QED BY <1>1, <2>1, <2>3 DEF d
<1>2. CASE ~(e.store_ok /\ token \in DOMAIN e.store)
  BY <1>2 DEF set_attempts, Beside
<1> QED BY <1>1, <1>2

(* A retry waits at the front with its count, and its timer is set.        *)
LEMMA RequeueFine ==
  ASSUME NEW e, NEW X, NEW c, Fine(e, {}, X, c), e.inflight # None,
         transactional(e.inflight.action), may_retry(e.inflight.attempts)
  PROVE  Fine(requeue(Taken(e), e.inflight), {}, X \ {"CallTimeout", "Flight"}, c)
<1> DEFINE f == e.inflight
           kept == set_attempts(Taken(e), f.token, f.attempts)
           entry == [token |-> f.token, action |-> f.action, persist |-> f.persist,
                     queue_when_offline |-> f.queue_when_offline,
                     triggered |-> f.triggered, attempts |-> f.attempts,
                     not_before |-> delay_after(f.attempts)]
           q == push(kept.queue, FrontSlot(kept.queue), entry)
           put == [kept EXCEPT !.queue = q]
           d == set_timer(put, "TransactionRetry", entry.not_before)
<1>1. requeue(Taken(e), e.inflight) = d
  BY Zenon DEF requeue
<1>2. Good(d, {})
  BY <1>1, RequeueGood DEF Fine
<1>3. EngineTypeOK(e) /\ IsContext(c) /\ f \in InFlight
  BY DEF Fine, Good, EngineTypeOK
<1>4. f.token \in Tokens /\ f.attempts \in Nat
  BY <1>3 DEF InFlight
<1>5. /\ EngineTypeOK(Taken(e)) /\ Beside(e, Taken(e))
      /\ Taken(e).queue = e.queue /\ Taken(e).inflight = None
      /\ Taken(e).next_token = e.next_token /\ Taken(e).outcome = e.outcome
      /\ Taken(e).store = e.store /\ Taken(e).store_ok = e.store_ok
  BY <1>3 DEF EngineTypeOK, Taken, Beside
<1>6. /\ EngineTypeOK(kept) /\ Beside(e, kept)
      /\ kept.queue = e.queue /\ kept.inflight = None
      /\ kept.next_token = e.next_token /\ kept.outcome = e.outcome
      /\ kept.store_ok = e.store_ok
      /\ DOMAIN kept.store = DOMAIN e.store
      /\ \A t \in DOMAIN e.store : t # f.token => kept.store[t] = e.store[t]
      /\ f.token \in DOMAIN e.store =>
           /\ kept.store[f.token].action = e.store[f.token].action
           /\ kept.store[f.token].attempts = f.attempts \/ kept.store[f.token] = e.store[f.token]
           /\ e.store_ok => kept.store[f.token].attempts = f.attempts
  <2> DEFINE te == Taken(e)
  <2>1. kept = set_attempts(te, f.token, f.attempts)
    OBVIOUS
  <2> HIDE DEF te, kept
  <2> QED BY <1>4, <1>5, <2>1, SetAttempts, SetAttemptsStore DEF te, Beside
<1> HIDE DEF kept
<1>7. /\ entry.token = f.token /\ entry.action = f.action /\ entry.attempts = f.attempts
      /\ entry.not_before \in Nat
  BY <1>4, EngineAssumption DEF delay_after
<1> HIDE DEF entry
<1>8. DOMAIN e.queue \subseteq Nat /\ 0 \notin DOMAIN e.queue
  BY <1>3 DEF Fine, Good, FlightOK, EngineTypeOK
<1>9. /\ DOMAIN q = DOMAIN e.queue \cup {0} /\ q[0] = entry
      /\ \A s \in DOMAIN e.queue : q[s] = e.queue[s]
  <2>1. /\ DOMAIN push(e.queue, 0, entry) = DOMAIN e.queue \cup {0}
        /\ push(e.queue, 0, entry)[0] = entry
        /\ \A s \in DOMAIN e.queue : s # 0 => push(e.queue, 0, entry)[s] = e.queue[s]
    BY DEF push
  <2>2. q = push(e.queue, 0, entry)
    BY <1>6, <1>8, FrontIsZero
  <2> HIDE DEF q
  <2> QED BY <1>8, <2>1, <2>2
<1> HIDE DEF q, f
<1>10. /\ d.queue = q /\ d.inflight = None /\ d.next_token = e.next_token
       /\ d.outcome = e.outcome /\ d.store = kept.store /\ d.store_ok = e.store_ok
       /\ d.wire = e.wire /\ d.connected = e.connected /\ d.draining = e.draining /\ d.boot = e.boot
       /\ d.heartbeat_interval = e.heartbeat_interval /\ d.heartbeat_at = e.heartbeat_at
       /\ d.boot_retry_at = e.boot_retry_at
       /\ \A t \in Timers \ {"TransactionRetry"} : d.timers[t] = e.timers[t]
       /\ d.timers["TransactionRetry"] = entry.not_before
  BY <1>6 DEF EngineTypeOK, Beside, set_timer, Timers
<1> HIDE DEF d, put
<1>11. e.outcome[f.token] = "Open"
  BY <1>4 DEF f, Fine, Good, FlightOK, FatesOK, Holds
<1>12. Counted(d, c)
  <2>1. \A t \in Tokens : \A n \in Nat :
          /\ Within(e, c, t, n) => Within(d, c, t, n)
          /\ ~c.old.store_ok /\ t = f.token /\ Within(e, c, t, n + 1) => Within(d, c, t, n)
    BY <1>3, <1>10, <1>11, TakenCounts DEF f
  <2>2. \A s \in DOMAIN e.queue : e.queue[s].token \in Tokens /\ e.queue[s].attempts \in Nat
    BY <1>3 DEF EngineTypeOK, Pending
  <2>3. \A s \in DOMAIN e.queue : Within(d, c, e.queue[s].token, e.queue[s].attempts)
    BY <2>1, <2>2 DEF Fine, Counted
  <2>4. Within(d, c, f.token, f.attempts)
    <3>1. Within(e, c, f.token, f.attempts)
      BY DEF Fine, Counted, f
    <3> QED BY <1>4, <2>1, <3>1
  <2>5. ASSUME NEW t \in DOMAIN d.store
        PROVE  Within(d, c, t, d.store[t].attempts + Flying(d, t))
    <3>1. /\ t \in Tokens /\ t \in DOMAIN e.store /\ e.store[t].attempts \in Nat
          /\ Flying(d, t) = 0 /\ (t # f.token => Flying(e, t) = 0) /\ (t = f.token => Flying(e, t) = 1)
      BY <1>3, <1>6, <1>10, <2>5, FlyingIsNat DEF EngineTypeOK, Stored, f
    <3>2. Within(e, c, t, e.store[t].attempts + Flying(e, t))
      BY <3>1 DEF Fine, Counted
    <3>3. Within(d, c, t, d.store[t].attempts) /\ d.store[t].attempts \in Nat
      <4>1. CASE t # f.token
        <5>1. e.store[t].attempts + Flying(e, t) = e.store[t].attempts
          BY <3>1, <4>1
        <5>2. d.store[t] = e.store[t]
          BY <1>6, <1>10, <3>1, <4>1
        <5> QED BY <2>1, <3>1, <3>2, <5>1, <5>2
      <4>2. CASE t = f.token /\ d.store[t].attempts = f.attempts
        BY <1>4, <2>4, <4>2
      <4>3. CASE t = f.token /\ d.store[t].attempts # f.attempts
        <5>1. e.store[t].attempts + Flying(e, t) = e.store[t].attempts + 1
          BY <3>1, <4>3
        <5>2. ~e.store_ok /\ d.store[t] = e.store[t]
          BY <1>6, <1>10, <3>1, <4>3
        <5>3. ~c.old.store_ok
          BY <5>2 DEF Fine, Counted
        <5> QED BY <2>1, <3>1, <3>2, <4>3, <5>1, <5>2, <5>3
      <4> QED BY <4>1, <4>2, <4>3
    <3>4. d.store[t].attempts + Flying(d, t) = d.store[t].attempts
      BY <3>1, <3>3
    <3> QED BY <3>3, <3>4
  <2>6. \A t \in Tokens : e.outcome[t] = "Sent" => Within(d, c, t, 1)
    BY <2>1 DEF Fine, Counted
  <2>7. e.store_ok = c.old.store_ok /\ \A t \in Tokens : t >= e.next_token => c.sent[t] = 0
    BY DEF Fine, Counted
  <2>8. \A s \in DOMAIN d.queue : Within(d, c, d.queue[s].token, d.queue[s].attempts)
    BY <1>7, <1>9, <1>10, <2>3, <2>4
  <2> QED BY <1>10, <2>5, <2>6, <2>7, <2>8 DEF Counted
<1>13. Counters(d)
  <2>1. Tries(f.action, f.attempts)
    BY DEF Tries, may_retry, f
  <2>2. \A s \in DOMAIN e.queue : e.queue[s].token # f.token
    BY DEF Fine, Good, FlightOK, f
  <2>3. \A s \in DOMAIN e.queue :
          /\ Tries(e.queue[s].action, e.queue[s].attempts)
          /\ Backed(d, e.queue[s].token, e.queue[s].action)
    BY <1>6, <1>10, <2>2 DEF Fine, Counters, Backed
  <2>4. Backed(d, f.token, f.action)
    <3>1. f.token \in DOMAIN e.store => e.store[f.token].action = f.action
      BY DEF Fine, Counters, Backed, f
    <3> QED BY <1>6, <1>10, <3>1 DEF Backed
  <2>5. \A t \in DOMAIN d.store : Tries(d.store[t].action, d.store[t].attempts)
    <3>1. \A t \in DOMAIN e.store : Tries(e.store[t].action, e.store[t].attempts)
      BY DEF Fine, Counters
    <3>2. f.token \in DOMAIN e.store => e.store[f.token].action = f.action
      BY DEF Fine, Counters, Backed, f
    <3> QED BY <1>6, <1>10, <2>1, <3>1, <3>2
  <2> QED BY <1>7, <1>9, <1>10, <2>1, <2>3, <2>4, <2>5 DEF Counters
<1>14. Gated(d, c)
  <2>1. \A t \in Transmitted(c.old, d) :
          t \in Transmitted(c.old, e) /\ (e.inflight # None => e.inflight.token # t)
    BY <1>10, <1>11 DEF Transmitted, f
  <2>2. ~is_send(entry.action)
    BY <1>7 DEF f, is_send, transactional
  <2> QED BY <1>9, <1>10, <2>1, <2>2 DEF Fine, Gated
<1>15. Answered(d, c)
  <2>1. \A id \in e.wire : Behind(e, id)
    BY DEF Fine, Answered
  <2>2. \A id \in e.wire : Behind(d, id)
    BY <1>7, <1>9, <1>10, <2>1 DEF Behind, f
  <2> QED BY <1>10, <2>2 DEF Fine, Answered
<1>16. Watched(d, X \ {"CallTimeout", "Flight"})
  <2>1. \A s \in DOMAIN e.queue : ~(e.queue[s].not_before > 0)
    BY <1>8 DEF Fine, Watched
  <2>2. /\ Match(d, X \ {"CallTimeout", "Flight"}, "Heartbeat", d.heartbeat_at)
        /\ Match(d, X \ {"CallTimeout", "Flight"}, "BootRetry", d.boot_retry_at)
        /\ Match(d, X \ {"CallTimeout", "Flight"}, "DrainDeadline", d.draining)
    BY <1>10 DEF Fine, Watched, Match, Timers
  <2> QED BY <1>9, <1>10, <2>1, <2>2 DEF Watched
<1>17. Alive(d, X \ {"CallTimeout", "Flight"})
  BY <1>10 DEF Fine, Alive
<1>18. Fine(d, {}, X \ {"CallTimeout", "Flight"}, c)
  BY <1>2, <1>3, <1>12, <1>13, <1>14, <1>15, <1>16, <1>17 DEF Fine
<1> QED BY <1>1, <1>18

LEMMA LoseInflightFine ==
  ASSUME NEW e, NEW X, NEW c, Fine(e, {}, X, c), NEW why \in {"Timeout", "Disconnected"}
  PROVE  Fine(lose_inflight(e, why), {}, X \ {"CallTimeout", "Flight"}, c)
<1>1. CASE e.inflight = None
  <2>1. Fine(e, {}, X \ {"CallTimeout", "Flight"}, c)
    BY <1>1 DEF Fine, Watched, Match, Alive
  <2> QED BY <1>1, <2>1 DEF lose_inflight
<1>2. CASE e.inflight # None
  <2> DEFINE f == e.inflight
             end == IF transactional(f.action) THEN "RetriesExhausted" ELSE why
  <2>1. lose_inflight(e, why) = requeue_or_fail(Taken(e), f, why)
    BY <1>2 DEF lose_inflight, Taken
  <2>2. CASE transactional(f.action) /\ may_retry(f.attempts)
    BY <1>2, <2>1, <2>2, RequeueFine, Zenon DEF requeue_or_fail
  <2>3. CASE ~(transactional(f.action) /\ may_retry(f.attempts))
    <3>1. end \in Outcomes \ {"Open", "Sent"} /\ end \notin {"Result", "Rejected"}
      BY DEF Outcomes
    <3>2. lose_inflight(e, why) = fail(ack_store(Taken(e), {f.token}), f.token, end)
      BY <2>1, <2>3, Zenon DEF requeue_or_fail
    <3> DEFINE d == ack_store(Taken(e), {f.token})
    <3>3. Fine(d, {f.token}, X \ {"CallTimeout", "Flight"}, c) /\ f.token \in Tokens
      BY <1>2, TakeFine
    <3> HIDE DEF end, d, f
    <3>4. Fine(fail(d, f.token, end), {}, X \ {"CallTimeout", "Flight"}, c)
      BY <3>1, <3>3, FailFine
    <3> QED BY <3>2, <3>4 DEF d
  <2> QED BY <2>2, <2>3
<1> QED BY <1>1, <1>2

LEMMA DropUnqueueableFine ==
  ASSUME NEW e, NEW H, NEW X, NEW c, Fine(e, H, X, c)
  PROVE  Fine(drop_unqueueable(e), H, X, c)
<1> DEFINE slots == {s \in DOMAIN e.queue : ~e.queue[s].queue_when_offline}
           tokens == {e.queue[s].token : s \in slots}
           acked == ack_store(e, tokens)
           q == remove(acked.queue, slots)
           o == [t \in Tokens |-> IF t \in tokens THEN "Disconnected" ELSE e.outcome[t]]
           d == drop_unqueueable(e)
<1>1. EngineTypeOK(e)
  BY DEF Fine, Good
<1>2. Dropped(e, slots, tokens, "Disconnected", d)
  BY <1>1, DropUnqueueableDrops, Zenon
<1>3. Beside(e, d)
  <2>1. EngineTypeOK(acked) /\ Beside(e, acked)
    BY <1>1, AckStore, AckBeside
  <2>2. d = [acked EXCEPT !.queue = q, !.outcome = o]
    BY Zenon DEF drop_unqueueable
  <2> HIDE DEF acked, q, o, d
  <2>3. Beside(acked, d)
    BY <2>1, <2>2 DEF EngineTypeOK, Beside
  <2> QED BY <2>1, <2>3 DEF Beside
<1> HIDE DEF d, slots, tokens
<1>4. "Disconnected" \notin {"Result", "Rejected"} /\ "Disconnected" # "Sent"
  OBVIOUS
<1>5. Fine(d, H, X, c)
  BY <1>2, <1>3, <1>4, DropFine
<1> QED BY <1>5 DEF d

LEMMA CancelFine ==
  ASSUME NEW e, NEW X, NEW c, Fine(e, {}, X, c), NEW s \in DOMAIN e.queue
  PROVE  Fine(cancel(e, s), {}, X, c)
<1> DEFINE token == e.queue[s].token
           cut == [e EXCEPT !.queue = remove(e.queue, {s})]
           acked == ack_store(cut, {token})
           d == cancel(e, s)
<1>1. EngineTypeOK(e)
  BY DEF Fine, Good
<1>2. Dropped(e, {s}, {token}, "Cancelled", d)
  BY <1>1, CancelDrops
<1>3. Beside(e, d)
  <2>1. d = fail(acked, token, "Cancelled")
    BY DEF cancel
  <2>2. EngineTypeOK(cut) /\ Beside(e, cut)
    BY <1>1, CutQueue, SetBeside
  <2> HIDE DEF cut, d, token
  <2>3. EngineTypeOK(acked) /\ Beside(cut, acked)
    BY <2>2, AckStore, AckBeside
  <2> HIDE DEF acked
  <2>4. Beside(acked, d)
    BY <2>1, <2>3 DEF fail, Beside, EngineTypeOK
  <2> QED BY <2>2, <2>3, <2>4 DEF Beside
<1> HIDE DEF d, token
<1>4. "Cancelled" \notin {"Result", "Rejected"} /\ "Cancelled" # "Sent"
  OBVIOUS
<1>5. Fine(d, {}, X, c)
  BY <1>2, <1>3, <1>4, DropFine
<1> QED BY <1>5 DEF d

-----------------------------------------------------------------------------
(* A call is made.                                                         *)

LEMMA MintFine ==
  ASSUME NEW e, NEW X, NEW c, Fine(e, {}, X, c), e.next_token \in Tokens
  PROVE  LET m == mint_token(e)
         IN /\ Fine(m, {e.next_token}, X, c)
            /\ m.queue = e.queue /\ m.store = e.store /\ m.store_ok = e.store_ok
            /\ m.next_token = e.next_token + 1 /\ m.connected = e.connected
            /\ e.next_token \notin DOMAIN m.store /\ c.sent[e.next_token] = 0
            /\ \A id \in m.wire : id.token # e.next_token
<1> DEFINE m == mint_token(e)
<1>1. EngineTypeOK(e) /\ IsContext(c) /\ e.next_token \in Nat
  BY DEF Fine, Good, EngineTypeOK
<1>2. Good(m, {e.next_token})
  BY MintGood DEF Fine
<1>3. /\ m.queue = e.queue /\ m.inflight = e.inflight /\ m.next_token = e.next_token + 1
      /\ m.outcome = e.outcome /\ m.store = e.store /\ m.store_ok = e.store_ok /\ Beside(e, m)
  BY <1>1 DEF EngineTypeOK, mint_token, Beside
<1> HIDE DEF m
<1>4. Transmitted(c.old, m) = Transmitted(c.old, e)
  BY <1>3 DEF Transmitted
<1>5. Counted(m, c)
  <2>1. \A t \in Tokens : t >= e.next_token + 1 => t >= e.next_token
    BY <1>1 DEF Tokens
  <2>2. /\ \A t, n : Within(e, c, t, n) => Within(m, c, t, n)
        /\ \A t : Flying(m, t) = Flying(e, t)
    BY <1>3, SameCounts
  <2> QED BY <1>3, <2>1, <2>2 DEF Fine, Counted
<1>6. Counters(m)
  BY <1>3 DEF Fine, Counters, Backed
<1>7. Gated(m, c)
  BY <1>3, <1>4 DEF Fine, Gated, Beside
<1>8. Answered(m, c) /\ \A id \in m.wire : id.token # e.next_token
  <2>1. \A id \in e.wire : id.token \in Nat /\ id.attempt \in Nat /\ Behind(e, id)
    BY <1>1 DEF Fine, Answered, EngineTypeOK, MessageId, Tokens
  <2>2. m.wire = e.wire
    BY <1>3 DEF Beside
  <2>3. \A id \in e.wire : id.token # e.next_token /\ id.token < e.next_token + 1
    BY <1>1, <2>1 DEF Behind
  <2>4. \A id \in e.wire : Behind(m, id)
    BY <1>3, <2>1, <2>3 DEF Behind
  <2> QED BY <1>3, <2>2, <2>3, <2>4 DEF Fine, Answered
<1>9. Watched(m, X) /\ Alive(m, X)
  BY <1>3 DEF Fine, Watched, Match, Alive, Beside
<1>10. e.next_token \notin DOMAIN e.store
  BY <1>1 DEF Fine, Good, StoreOK
<1>11. c.sent[e.next_token] = 0
  BY <1>1 DEF Fine, Counted
<1>12. Fine(m, {e.next_token}, X, c)
  BY <1>1, <1>2, <1>5, <1>6, <1>7, <1>8, <1>9 DEF Fine
<1> QED BY <1>3, <1>8, <1>10, <1>11, <1>12 DEF Beside, m

LEMMA EnqueueFine ==
  ASSUME NEW e, NEW token \in Tokens, NEW X, NEW c, Fine(e, {token}, X, c),
         e.next_token = token + 1, token \notin DOMAIN e.store, c.sent[token] = 0,
         \A id \in e.wire : id.token # token,
         NEW entry \in Pending, entry.token = token, entry.attempts = 0, entry.not_before = Never,
         is_send(entry.action) /\ entry.triggered => Asked(c, token),
         NEW record \in Stored, record = [action |-> entry.action, attempts |-> 0],
         entry.persist => e.store_ok
  PROVE  LET stored == IF entry.persist
                       THEN [e EXCEPT !.store = push(e.store, token, record)] ELSE e
         IN Fine([stored EXCEPT !.queue = push(e.queue, token, entry)], {}, X, c)
<1> DEFINE stored == IF entry.persist
                     THEN [e EXCEPT !.store = push(e.store, token, record)] ELSE e
           q == push(e.queue, token, entry)
           d == [stored EXCEPT !.queue = q]
<1>1. EngineTypeOK(e) /\ IsContext(c) /\ token \in Nat \ {0}
  BY DEF Fine, Good, Tokens
<1>2. Good(d, {})
  BY EnqueueGood DEF Fine
<1>3. /\ DOMAIN push(e.store, token, record) = DOMAIN e.store \cup {token}
      /\ push(e.store, token, record)[token] = record
      /\ \A s \in DOMAIN e.store : push(e.store, token, record)[s] = e.store[s]
  BY DEF push
<1>4. /\ DOMAIN q = DOMAIN e.queue \cup {token}
      /\ q[token] = entry
      /\ \A s \in DOMAIN e.queue : s # token => q[s] = e.queue[s]
  BY DEF push
<1> HIDE DEF q
<1>5. /\ EngineTypeOK(stored) /\ Beside(e, stored)
      /\ stored.inflight = e.inflight /\ stored.next_token = e.next_token /\ stored.outcome = e.outcome
      /\ stored.store_ok = e.store_ok
      /\ DOMAIN e.store \subseteq DOMAIN stored.store
      /\ DOMAIN stored.store \subseteq DOMAIN e.store \cup {token}
      /\ \A t \in DOMAIN e.store : stored.store[t] = e.store[t]
      /\ token \in DOMAIN stored.store => stored.store[token] = record
  <2>1. CASE entry.persist
    <3> DEFINE st == push(e.store, token, record)
    <3>1. /\ DOMAIN st \subseteq Tokens /\ \A t \in DOMAIN st : st[t] \in Stored
          /\ DOMAIN st = DOMAIN e.store \cup {token} /\ st[token] = record
          /\ \A s \in DOMAIN e.store : st[s] = e.store[s]
      BY <1>1, <1>3 DEF EngineTypeOK
    <3>2. stored = [e EXCEPT !.store = st]
      BY <2>1
    <3> HIDE DEF st, stored
    <3> QED BY <1>1, <3>1, <3>2 DEF EngineTypeOK, Beside
  <2>2. CASE ~entry.persist
    BY <1>1, <2>2 DEF Beside
  <2> QED BY <2>1, <2>2
<1> HIDE DEF stored
<1>6. /\ d.queue = q /\ d.inflight = e.inflight /\ d.next_token = e.next_token
      /\ d.outcome = e.outcome /\ d.store = stored.store /\ d.store_ok = e.store_ok /\ Beside(e, d)
  BY <1>5 DEF EngineTypeOK, Beside
<1> HIDE DEF d
<1>7. /\ \A s \in DOMAIN e.queue : e.queue[s].token # token
      /\ e.inflight # None => e.inflight.token # token
      /\ e.outcome[token] = "Open"
  BY DEF Fine, Good, FatesOK, Holds
<1>8. token \notin DOMAIN e.queue
  BY <1>1, <1>7 DEF Fine, Good, SlotsOK
<1>9. /\ DOMAIN d.queue = DOMAIN e.queue \cup {token} /\ d.queue[token] = entry
      /\ \A s \in DOMAIN e.queue : d.queue[s] = e.queue[s]
  BY <1>4, <1>6, <1>8
<1>10. /\ Transmitted(c.old, d) = Transmitted(c.old, e)
       /\ token \notin Transmitted(c.old, d)
  BY <1>6, <1>7 DEF Transmitted
<1>11. Counted(d, c)
  <2>1. Within(d, c, token, 0)
    <3>1. Used(d, c, token) = 0
      BY <1>1, <1>10, UsedIsNat
    <3>2. Missed(d, c, token) \in Nat
      BY <1>1, MissedIsNat
    <3> QED BY <3>1, <3>2 DEF Within
  <2>2. /\ \A t, n : Within(e, c, t, n) => Within(d, c, t, n)
        /\ \A t : Flying(d, t) = Flying(e, t)
    BY <1>6, SameCounts
  <2>3. \A s \in DOMAIN d.queue : Within(d, c, d.queue[s].token, d.queue[s].attempts)
    <3>1. \A s \in DOMAIN e.queue : Within(d, c, e.queue[s].token, e.queue[s].attempts)
      BY <2>2 DEF Fine, Counted
    <3> QED BY <1>9, <2>1, <3>1
  <2>4. \A t \in DOMAIN d.store : Within(d, c, t, d.store[t].attempts + Flying(d, t))
    <3>1. \A t \in DOMAIN e.store : Within(d, c, t, e.store[t].attempts + Flying(d, t))
      BY <2>2 DEF Fine, Counted
    <3>2. record.attempts + Flying(d, token) = 0
      <4>1. Flying(d, token) = 0
        BY <1>6, <1>7 DEF Flying
      <4> QED BY <4>1
    <3> QED BY <1>5, <1>6, <2>1, <3>1, <3>2
  <2> QED BY <1>6, <2>2, <2>3, <2>4 DEF Fine, Counted
<1>12. Counters(d)
  <2>1. \A s \in DOMAIN e.queue :
          /\ Tries(e.queue[s].action, e.queue[s].attempts)
          /\ Backed(d, e.queue[s].token, e.queue[s].action)
    BY <1>5, <1>6, <1>7 DEF Fine, Counters, Backed
  <2>2. Tries(entry.action, entry.attempts) /\ Backed(d, entry.token, entry.action)
    BY <1>5, <1>6 DEF Backed, Tries
  <2>3. e.inflight # None =>
          /\ e.inflight.attempts > 0 /\ Tries(e.inflight.action, e.inflight.attempts - 1)
          /\ Backed(d, e.inflight.token, e.inflight.action)
    BY <1>5, <1>6, <1>7 DEF Fine, Counters, Backed
  <2>4. \A t \in DOMAIN d.store : Tries(d.store[t].action, d.store[t].attempts)
    <3>1. \A t \in DOMAIN e.store : Tries(e.store[t].action, e.store[t].attempts)
      BY DEF Fine, Counters
    <3>2. Tries(record.action, record.attempts)
      BY DEF Tries
    <3> QED BY <1>5, <1>6, <3>1, <3>2
  <2> QED BY <1>6, <1>9, <2>1, <2>2, <2>3, <2>4 DEF Counters
<1>13. Gated(d, c)
  BY <1>6, <1>9, <1>10 DEF Fine, Gated, Beside
<1>14. Answered(d, c)
  <2>1. d.wire = e.wire
    BY <1>6 DEF Beside
  <2>2. \A id \in e.wire : Behind(d, id)
    BY <1>6, <1>9 DEF Fine, Answered, Behind
  <2> QED BY <1>6, <2>1, <2>2 DEF Fine, Answered
<1>15. Watched(d, X) /\ Alive(d, X)
  <2>1. ~(entry.not_before > 0)
    BY DEF Never
  <2>2. \A s \in DOMAIN d.queue : d.queue[s].not_before > 0 =>
          s = 0 /\ d.timers["TransactionRetry"] = d.queue[s].not_before
    BY <1>6, <1>9, <2>1 DEF Fine, Watched, Beside
  <2> QED BY <1>6, <2>2 DEF Fine, Watched, Match, Alive, Beside
<1>16. Fine(d, {}, X, c)
  BY <1>1, <1>2, <1>11, <1>12, <1>13, <1>14, <1>15 DEF Fine
<1> QED BY <1>16 DEF d, stored, q

LEMMA CallWithFine ==
  ASSUME NEW e, NEW X, NEW c, Fine(e, {}, X, c), e.next_token \in Tokens, NEW r \in Request,
         is_send(r.action) /\ r.triggered => Asked(c, e.next_token)
  PROVE  Fine(call_with(e, r), {}, X, c)
<1> DEFINE token == e.next_token
           m == mint_token(e)
           entry == [token |-> token, action |-> r.action, persist |-> r.persist,
                     queue_when_offline |-> r.queue_when_offline,
                     triggered |-> r.triggered, attempts |-> 0, not_before |-> Never]
           record == [action |-> r.action, attempts |-> 0]
           stored == IF r.persist
                     THEN [m EXCEPT !.store = push(m.store, token, record)] ELSE m
           put == [stored EXCEPT !.queue = push(m.queue, token, entry)]
<1>1. /\ Fine(m, {token}, X, c)
      /\ m.queue = e.queue /\ m.store_ok = e.store_ok /\ m.store = e.store
      /\ m.next_token = token + 1 /\ token \notin DOMAIN m.store /\ c.sent[token] = 0
      /\ \A id \in m.wire : id.token # token
  BY MintFine, Zenon
<1>2. token \in Tokens /\ EngineTypeOK(m)
  BY <1>1 DEF Fine, Good
<1>3. Fine(fail(m, token, "Disconnected"), {}, X, c) /\ Fine(fail(m, token, "QueueFull"), {}, X, c)
  <2>1. /\ "Disconnected" \in Outcomes \ {"Open", "Sent"} /\ "QueueFull" \in Outcomes \ {"Open", "Sent"}
        /\ "Disconnected" \notin {"Result", "Rejected"} /\ "QueueFull" \notin {"Result", "Rejected"}
    BY DEF Outcomes
  <2> HIDE DEF m, token
  <2> QED BY <1>1, <1>2, <2>1, FailFine
<1>4. ASSUME ~(r.persist /\ ~e.store_ok)
      PROVE  Fine(put, {}, X, c)
  <2>1. /\ entry \in Pending /\ entry.token = token /\ entry.persist = r.persist
        /\ entry.attempts = 0 /\ entry.not_before = Never
        /\ is_send(entry.action) /\ entry.triggered => Asked(c, token)
    BY <1>2 DEF Pending, Request
  <2>2. record \in Stored /\ record = [action |-> entry.action, attempts |-> 0]
    BY DEF Stored, Request
  <2>3. entry.persist => m.store_ok
    BY <1>1, <1>4, <2>1
  <2> HIDE DEF entry, record, m, token
  <2>4. LET st == IF entry.persist
                  THEN [m EXCEPT !.store = push(m.store, token, record)] ELSE m
        IN Fine([st EXCEPT !.queue = push(m.queue, token, entry)], {}, X, c)
    BY <1>1, <1>2, <2>1, <2>2, <2>3, EnqueueFine
  <2> QED BY <2>1, <2>4
<1>5. [stored EXCEPT !.queue = push(stored.queue, token, entry)] = put
  <2>1. stored.queue = m.queue
    <3> HIDE DEF m
    <3> QED BY <1>2 DEF EngineTypeOK
  <2> QED BY <2>1
<1>6. call_with(e, r) = IF ~e.connected /\ ~r.queue_when_offline
                        THEN fail(m, token, "Disconnected")
                        ELSE IF queue_full(e) THEN fail(m, token, "QueueFull")
                        ELSE IF r.persist /\ ~e.store_ok THEN fail(m, token, "QueueFull")
                        ELSE pump([stored EXCEPT !.queue = push(stored.queue, token, entry)])
  BY Zenon DEF call_with
<1> HIDE DEF put, stored, m, entry
<1> QED BY <1>3, <1>4, <1>5, <1>6, PumpFine

LEMMA SendHeartbeatFine ==
  ASSUME NEW e, NEW X, NEW c, Fine(e, {}, X, c)
  PROVE  Fine(send_heartbeat(e), {}, X, c)
<1>1. HeartbeatRequest \in Request /\ ~HeartbeatRequest.triggered
  BY DEF HeartbeatRequest, Request, Actions
<1> QED BY <1>1, CallWithFine DEF send_heartbeat

-----------------------------------------------------------------------------
(* The handlers.                                                           *)

LEMMA ShutdownFine ==
  ASSUME NEW e, NEW c, Fine(e, {}, {}, c)
  PROVE  Fine(shutdown(e), {}, {}, c)
<1> DEFINE m == [e EXCEPT !.draining = DrainTime]
           d == set_timer(m, "DrainDeadline", DrainTime)
<1>1. EngineTypeOK(e) /\ DrainTime \in Nat
  BY EngineAssumption DEF Fine, Good
<1>2. /\ Quiet(e, m) /\ m.draining = DrainTime /\ m.boot = e.boot /\ m.connected = e.connected
      /\ m.heartbeat_at = e.heartbeat_at /\ m.heartbeat_interval = e.heartbeat_interval
      /\ m.boot_retry_at = e.boot_retry_at /\ m.timers = e.timers
  BY <1>1 DEF EngineTypeOK, Quiet
<1> HIDE DEF m
<1>3. /\ Quiet(e, d) /\ d.draining = DrainTime /\ d.boot = e.boot /\ d.connected = e.connected
      /\ d.heartbeat_at = e.heartbeat_at /\ d.heartbeat_interval = e.heartbeat_interval
      /\ d.boot_retry_at = e.boot_retry_at /\ d.timers["DrainDeadline"] = DrainTime
      /\ \A x \in Timers \ {"DrainDeadline"} : d.timers[x] = e.timers[x]
  <2>1. EngineTypeOK(m)
    BY <1>2 DEF Quiet
  <2> QED BY <1>1, <1>2, <2>1 DEF EngineTypeOK, Quiet, set_timer, Timers
<1> HIDE DEF d
<1>4. Watched(d, {}) /\ Alive(d, {}) /\ (d.boot = "Accepted" => c.verdict = "Accepted")
  BY <1>3 DEF Fine, Watched, Match, Alive, Gated, Quiet, Timers
<1>5. Fine(d, {}, {}, c)
  BY <1>3, <1>4, QuietFine
<1> QED BY <1>5, CheckDrainFine DEF shutdown, d, m

LEMMA SetConnected ==
  ASSUME NEW e, EngineTypeOK(e), NEW up \in BOOLEAN
  PROVE  LET d == [e EXCEPT !.connected = up]
         IN /\ Quiet(e, d) /\ d.connected = up /\ d.draining = e.draining /\ d.boot = e.boot
            /\ d.heartbeat_at = e.heartbeat_at /\ d.boot_retry_at = e.boot_retry_at
            /\ d.timers = e.timers
BY DEF EngineTypeOK, Quiet

LEMMA OnConnectedFine ==
  ASSUME NEW e, NEW c, Fine(e, {}, {}, c)
  PROVE  Fine(on_connected(e), {}, {}, c)
<1> DEFINE m == [e EXCEPT !.connected = TRUE]
<1>1. EngineTypeOK(e)
  BY DEF Fine, Good
<1>2. /\ Quiet(e, m) /\ m.draining = e.draining /\ m.boot = e.boot
      /\ m.heartbeat_at = e.heartbeat_at /\ m.boot_retry_at = e.boot_retry_at /\ m.timers = e.timers
  BY <1>1, SetConnected
<1> HIDE DEF m
<1>3. Watched(m, {"Idle"}) /\ Alive(m, {"Idle"}) /\ (m.boot = "Accepted" => c.verdict = "Accepted")
  BY <1>2 DEF Fine, Watched, Match, Alive, Gated, Quiet
<1>4. Fine(m, {}, {"Idle"}, c)
  BY <1>2, <1>3, QuietFine
<1>5. Fine(arm_heartbeat(m), {}, {}, c)
  <2>1. Fine(arm_heartbeat(m), {}, {"Idle"} \ {"Idle"}, c)
    BY <1>4, ArmFine
  <2>2. {"Idle"} \ {"Idle"} = {}
    OBVIOUS
  <2> QED BY <2>1, <2>2
<1> QED BY <1>5, PumpFine DEF on_connected, m

LEMMA OnDisconnectedFine ==
  ASSUME NEW e, NEW c, Fine(e, {}, {}, c), c.served = {}
  PROVE  Fine(on_disconnected(e), {}, {}, c)
<1> DEFINE t == clear_timer(clear_timer(e, "CallTimeout"), "Heartbeat")
           down == [t EXCEPT !.connected = FALSE, !.heartbeat_at = Never, !.wire = {}]
           off == [t EXCEPT !.connected = FALSE]
           quiet == [off EXCEPT !.heartbeat_at = Never]
<1>1. EngineTypeOK(e)
  BY DEF Fine, Good
<1>2. /\ Quiet(e, t) /\ t.draining = e.draining /\ t.boot = e.boot
      /\ t.boot_retry_at = e.boot_retry_at
      /\ \A x \in {"TransactionRetry", "BootRetry", "DrainDeadline"} : t.timers[x] = e.timers[x]
  <2> DEFINE u == clear_timer(e, "CallTimeout")
  <2>1. /\ Quiet(e, u) /\ u.draining = e.draining /\ u.boot = e.boot
        /\ u.boot_retry_at = e.boot_retry_at
        /\ \A x \in {"TransactionRetry", "BootRetry", "DrainDeadline"} : u.timers[x] = e.timers[x]
    BY <1>1 DEF EngineTypeOK, Quiet, clear_timer, Timers
  <2>2. t = clear_timer(u, "Heartbeat")
    OBVIOUS
  <2> HIDE DEF u, t
  <2> QED BY <2>1, <2>2 DEF EngineTypeOK, Quiet, clear_timer, Timers
<1> HIDE DEF t
<1>3. down = [quiet EXCEPT !.wire = {}]
  BY <1>2 DEF Quiet, EngineTypeOK
<1>4. /\ Quiet(e, off) /\ off.draining = e.draining /\ off.boot = e.boot /\ ~off.connected
      /\ off.boot_retry_at = e.boot_retry_at /\ off.timers = t.timers
  <2>1. /\ Quiet(t, off) /\ off.draining = t.draining /\ off.boot = t.boot /\ ~off.connected
        /\ off.boot_retry_at = t.boot_retry_at /\ off.timers = t.timers
    BY <1>2, SetConnected DEF Quiet
  <2> QED BY <1>2, <2>1 DEF Quiet
<1> HIDE DEF off
<1>5. /\ Quiet(e, quiet) /\ quiet.draining = e.draining /\ quiet.boot = e.boot /\ ~quiet.connected
      /\ quiet.boot_retry_at = e.boot_retry_at /\ quiet.timers = t.timers /\ quiet.heartbeat_at = Never
  BY <1>4 DEF Quiet, EngineTypeOK
<1> HIDE DEF quiet, down
<1>6. Watched(quiet, {"Flight"}) /\ Alive(quiet, {"Flight"}) /\ (quiet.boot = "Accepted" => c.verdict = "Accepted")
  BY <1>2, <1>5 DEF Fine, Watched, Match, Alive, Gated, Quiet
<1>7. Fine(quiet, {}, {"Flight"}, c)
  BY <1>5, <1>6, QuietFine
<1>8. Fine(down, {}, {"Flight"}, c)
  BY <1>3, <1>7, CutFine
<1>9. Fine(lose_inflight(down, "Disconnected"), {}, {}, c)
  <2>1. Fine(lose_inflight(down, "Disconnected"), {}, {"Flight"} \ {"CallTimeout", "Flight"}, c)
    BY <1>8, LoseInflightFine
  <2>2. {"Flight"} \ {"CallTimeout", "Flight"} = {}
    OBVIOUS
  <2> QED BY <2>1, <2>2
<1>10. on_disconnected(e) = check_drain(drop_unqueueable(lose_inflight(down, "Disconnected")))
  BY Zenon DEF on_disconnected, down, t
<1> QED BY <1>9, <1>10, DropUnqueueableFine, CheckDrainFine

LEMMA CallExpiredFine ==
  ASSUME NEW e, NEW X, NEW c, "Flight" \notin X, Fine(e, {}, X, c)
  PROVE  Fine(call_expired(e), {}, X \ {"CallTimeout"}, c)
<1>1. CASE e.inflight # None /\ Expired(e.inflight.deadline)
  <2> DEFINE m == clear_timer(e, "CallTimeout")
             Y == X \cup {"Flight"}
  <2>1. EngineTypeOK(e)
    BY DEF Fine, Good
  <2>2. /\ Quiet(e, m) /\ m.draining = e.draining /\ m.boot = e.boot /\ m.connected = e.connected
        /\ m.heartbeat_at = e.heartbeat_at /\ m.heartbeat_interval = e.heartbeat_interval
        /\ m.boot_retry_at = e.boot_retry_at
        /\ \A x \in Timers \ {"CallTimeout"} : m.timers[x] = e.timers[x]
    BY <2>1 DEF EngineTypeOK, Quiet, clear_timer, Timers
  <2> HIDE DEF m
  <2>3. Watched(m, Y) /\ Alive(m, Y) /\ (m.boot = "Accepted" => c.verdict = "Accepted")
    BY <2>2 DEF Fine, Watched, Match, Alive, Gated, Quiet, Timers
  <2>4. Fine(m, {}, Y, c)
    BY <2>2, <2>3, QuietFine
  <2>5. Fine(lose_inflight(m, "Timeout"), {}, Y \ {"CallTimeout", "Flight"}, c)
    BY <2>4, LoseInflightFine
  <2>6. Y \ {"CallTimeout", "Flight"} = X \ {"CallTimeout"}
    OBVIOUS
  <2> QED BY <1>1, <2>5, <2>6 DEF call_expired, m
<1>2. CASE ~(e.inflight # None /\ Expired(e.inflight.deadline))
  <2>1. Fine(e, {}, X \ {"CallTimeout"}, c)
    BY <1>2 DEF Fine, Watched, Match, Alive, Expired
  <2> QED BY <1>2, <2>1 DEF call_expired
<1> QED BY <1>1, <1>2

LEMMA HeartbeatExpiredFine ==
  ASSUME NEW e, NEW X, NEW c, "Idle" \notin X, Fine(e, {}, X, c)
  PROVE  Fine(heartbeat_expired(e), {}, X \ {"Heartbeat"}, c)
<1>1. CASE ~Expired(e.heartbeat_at)
  <2>1. Fine(e, {}, X \ {"Heartbeat"}, c)
    BY <1>1 DEF Fine, Watched, Match, Alive, Expired
  <2> QED BY <1>1, <2>1 DEF heartbeat_expired
<1>2. CASE Expired(e.heartbeat_at)
  <2> DEFINE m == [e EXCEPT !.heartbeat_at = Never]
             Y == (X \ {"Heartbeat"}) \cup {"Idle"}
             b == IF e.connected /\ e.boot = "Accepted" THEN send_heartbeat(m) ELSE m
  <2>1. EngineTypeOK(e)
    BY DEF Fine, Good
  <2>2. /\ Quiet(e, m) /\ m.draining = e.draining /\ m.boot = e.boot
        /\ m.heartbeat_at = Never /\ m.boot_retry_at = e.boot_retry_at /\ m.timers = e.timers
    BY <2>1 DEF EngineTypeOK, Quiet
  <2>3. heartbeat_expired(e) = arm_heartbeat(b)
    BY <1>2, Zenon DEF heartbeat_expired
  <2> HIDE DEF m
  <2>4. Watched(m, Y) /\ Alive(m, Y) /\ (m.boot = "Accepted" => c.verdict = "Accepted")
    BY <2>2 DEF Fine, Watched, Match, Alive, Gated, Quiet
  <2>5. Fine(m, {}, Y, c)
    BY <2>2, <2>4, QuietFine
  <2> HIDE DEF Y
  <2>6. Fine(b, {}, Y, c)
    BY <2>5, SendHeartbeatFine
  <2> HIDE DEF b
  <2>7. Fine(arm_heartbeat(b), {}, Y \ {"Idle"}, c)
    BY <2>6, ArmFine
  <2>8. Y \ {"Idle"} = X \ {"Heartbeat"}
    BY DEF Y
  <2> QED BY <2>3, <2>7, <2>8
<1> QED BY <1>1, <1>2

LEMMA BootRetryExpiredFine ==
  ASSUME NEW e, NEW X, NEW c, Fine(e, {}, X, c)
  PROVE  Fine(boot_retry_expired(e), {}, X \ {"BootRetry"}, c)
<1>1. CASE ~Expired(e.boot_retry_at)
  <2>1. Fine(e, {}, X \ {"BootRetry"}, c)
    BY <1>1 DEF Fine, Watched, Match, Alive, Expired
  <2> QED BY <1>1, <2>1 DEF boot_retry_expired
<1>2. CASE Expired(e.boot_retry_at)
  <2> DEFINE m == [e EXCEPT !.boot_retry_at = Never]
             d == [e EXCEPT !.boot_retry_at = Never, !.boot = "Idle"]
  <2>1. EngineTypeOK(e)
    BY DEF Fine, Good
  <2>2. /\ Quiet(e, m) /\ m.draining = e.draining
        /\ m.heartbeat_at = e.heartbeat_at /\ m.boot_retry_at = Never /\ m.timers = e.timers
    BY <2>1 DEF EngineTypeOK, Quiet
  <2>3. d = [m EXCEPT !.boot = "Idle"]
    BY <2>1 DEF EngineTypeOK
  <2> HIDE DEF m, d
  <2>4. /\ Quiet(e, d) /\ d.draining = e.draining /\ d.boot = "Idle"
        /\ d.heartbeat_at = e.heartbeat_at /\ d.boot_retry_at = Never /\ d.timers = e.timers
    BY <2>2, <2>3 DEF EngineTypeOK, Quiet, BootStates
  <2>5. /\ Watched(d, X \ {"BootRetry"}) /\ Alive(d, X \ {"BootRetry"})
        /\ d.boot = "Accepted" => c.verdict = "Accepted"
    BY <2>4 DEF Fine, Watched, Match, Alive, Quiet
  <2>6. Fine(d, {}, X \ {"BootRetry"}, c)
    BY <2>4, <2>5, QuietFine
  <2> QED BY <1>2, <2>6 DEF boot_retry_expired, d
<1> QED BY <1>1, <1>2

(* on_timeout begins with the timers that fired forgotten: what they stood *)
(* for is dealt with before it ends.                                       *)
LEMMA OnTimeoutFine ==
  ASSUME NEW e, NEW c, Fine(e, {}, {"CallTimeout", "Heartbeat", "BootRetry", "DrainDeadline"}, c)
  PROVE  Fine(on_timeout(e), {}, {}, c)
<1> DEFINE a == call_expired(e)
           b == heartbeat_expired(a)
           due == boot_retry_expired(b)
           d == [due EXCEPT !.close = "DrainTimedOut", !.draining = Never]
           m == [due EXCEPT !.close = "DrainTimedOut"]
<1>1. Fine(a, {}, {"Heartbeat", "BootRetry", "DrainDeadline"}, c)
  <2>1. Fine(a, {}, {"CallTimeout", "Heartbeat", "BootRetry", "DrainDeadline"} \ {"CallTimeout"}, c)
    BY CallExpiredFine
  <2>2. {"CallTimeout", "Heartbeat", "BootRetry", "DrainDeadline"} \ {"CallTimeout"}
          = {"Heartbeat", "BootRetry", "DrainDeadline"}
    OBVIOUS
  <2> QED BY <2>1, <2>2
<1> HIDE DEF a
<1>2. Fine(b, {}, {"BootRetry", "DrainDeadline"}, c)
  <2>1. Fine(b, {}, {"Heartbeat", "BootRetry", "DrainDeadline"} \ {"Heartbeat"}, c)
    BY <1>1, HeartbeatExpiredFine
  <2>2. {"Heartbeat", "BootRetry", "DrainDeadline"} \ {"Heartbeat"} = {"BootRetry", "DrainDeadline"}
    OBVIOUS
  <2> QED BY <2>1, <2>2
<1> HIDE DEF b
<1>3. Fine(due, {}, {"DrainDeadline"}, c)
  <2>1. Fine(due, {}, {"BootRetry", "DrainDeadline"} \ {"BootRetry"}, c)
    BY <1>2, BootRetryExpiredFine
  <2>2. {"BootRetry", "DrainDeadline"} \ {"BootRetry"} = {"DrainDeadline"}
    OBVIOUS
  <2> QED BY <2>1, <2>2
<1>4. on_timeout(e) = IF Expired(due.draining) /\ ~drain_complete(due) THEN d
                      ELSE check_drain(pump(due))
  BY Zenon DEF on_timeout, a, b
<1> HIDE DEF due
<1>5. Fine(d, {}, {}, c)
  <2>1. EngineTypeOK(due)
    BY <1>3 DEF Fine, Good
  <2>2. Quiet(due, m) /\ m.boot = due.boot /\ m.connected = due.connected
        /\ m.heartbeat_at = due.heartbeat_at /\ m.heartbeat_interval = due.heartbeat_interval
        /\ m.boot_retry_at = due.boot_retry_at /\ m.timers = due.timers
    BY <2>1 DEF EngineTypeOK, Quiet
  <2>3. d = [m EXCEPT !.draining = Never]
    BY <2>1 DEF EngineTypeOK
  <2> HIDE DEF m, d
  <2>4. Quiet(due, d) /\ d.boot = due.boot /\ d.connected = due.connected
        /\ d.heartbeat_at = due.heartbeat_at /\ d.heartbeat_interval = due.heartbeat_interval
        /\ d.boot_retry_at = due.boot_retry_at /\ d.timers = due.timers /\ d.draining = Never
    BY <2>2, <2>3 DEF EngineTypeOK, Quiet
  <2>5. Watched(d, {}) /\ Alive(d, {}) /\ (d.boot = "Accepted" => c.verdict = "Accepted")
    BY <1>3, <2>4 DEF Fine, Watched, Match, Alive, Gated, Quiet
  <2> QED BY <1>3, <2>4, <2>5, QuietFine
<1> HIDE DEF d
<1>6. CASE drain_complete(due)
  <2>1. pump(due) = due
    BY <1>6, PumpIdle DEF drain_complete
  <2>2. Fine(check_drain(due), {}, {"DrainDeadline"} \ {"DrainDeadline"}, c)
    BY <1>3, <1>6, CheckDrainFine
  <2>3. {"DrainDeadline"} \ {"DrainDeadline"} = {}
    OBVIOUS
  <2> QED BY <1>4, <1>5, <2>1, <2>2, <2>3
<1>7. CASE ~Expired(due.draining)
  <2>1. Fine(due, {}, {}, c)
    BY <1>3, <1>7 DEF Fine, Watched, Match, Alive, Expired
  <2>2. Fine(check_drain(pump(due)), {}, {}, c)
    BY <2>1, PumpFine, CheckDrainFine
  <2> QED BY <1>4, <1>5, <2>2
<1> QED BY <1>4, <1>5, <1>6, <1>7

-----------------------------------------------------------------------------
(* The context changes: the peer has answered, or the next handler begins. *)

LEMMA ContextFine ==
  ASSUME NEW e, NEW H, NEW X, NEW c, Fine(e, H, X, c), NEW k, IsContext(k),
         k.old = c.old, k.sent = c.sent, k.lost = c.lost, k.before = c.before,
         c.served \subseteq k.served \/ e = c.old, k.served \subseteq e.wire,
         e.inflight # None => IdOf(e.inflight) \notin k.served, c.asked => k.asked,
         k.verdict = c.verdict \/ (Transmitted(c.old, e) = {} /\ e.boot # "Accepted")
  PROVE  Fine(e, H, X, k)
<1>1. \A t : Used(e, k, t) = Used(e, c, t) /\ Missed(e, k, t) = Missed(e, c, t)
  BY DEF Used, Missed
<1>2. \A t, n : Within(e, k, t, n) <=> Within(e, c, t, n)
  BY <1>1 DEF Within
<1>3. Counted(e, k)
  BY <1>2 DEF Fine, Counted
<1>4. \A t : Asked(c, t) => Asked(k, t)
  BY DEF Asked
<1>5. Gated(e, k)
  BY <1>4 DEF Fine, Gated
<1>6. Answered(e, k)
  <2>1. /\ \A id \in e.wire : Behind(e, id)
        /\ \A t \in Tokens : c.old.outcome[t] = "Open" /\ e.outcome[t] \in {"Result", "Rejected"}
                             => Completed(c, t)
    BY DEF Fine, Answered
  <2>2. c.served \subseteq k.served => \A t : Completed(c, t) => Completed(k, t)
    BY DEF Completed
  <2>3. \A t \in Tokens : k.old.outcome[t] = "Open" /\ e.outcome[t] \in {"Result", "Rejected"}
                          => Completed(k, t)
    BY <2>1, <2>2
  <2> QED BY <2>1, <2>3 DEF Answered
<1> QED BY <1>3, <1>5, <1>6 DEF Fine

LEMMA RebaseFine ==
  ASSUME NEW e, NEW H, NEW X, NEW c, Fine(e, H, X, c), NEW k, IsContext(k), k.old = e,
         \A t \in Tokens : k.sent[t] = Used(e, c, t) /\ k.lost[t] = Missed(e, c, t),
         k.verdict = c.verdict, k.served = c.served
  PROVE  Fine(e, H, X, k)
<1>1. Transmitted(k.old, e) = {}
  BY DEF Transmitted
<1>2. \A t \in Tokens : Used(e, k, t) = Used(e, c, t)
  BY <1>1, UsedIsNat
<1>3. EngineTypeOK(e) /\ IsContext(c)
  BY DEF Fine, Good
<1>4. \A t \in Tokens : Missed(e, k, t) = Missed(e, c, t)
  <2> TAKE t \in Tokens
  <2>1. Unrecorded(k.old, e, t) = 0
    BY NothingUnrecorded
  <2>2. Missed(e, c, t) \in Nat /\ Missed(e, k, t) = k.lost[t] + Unrecorded(k.old, e, t)
    BY <1>3, MissedIsNat
  <2> QED BY <2>1, <2>2
<1>5. \A t \in Tokens : \A n : Within(e, c, t, n) => Within(e, k, t, n)
  BY <1>2, <1>4 DEF Within
<1>6. /\ \A s \in DOMAIN e.queue : e.queue[s].token \in Tokens
      /\ DOMAIN e.store \subseteq Tokens
  BY <1>3 DEF EngineTypeOK, Pending
<1>7. e.inflight # None => e.inflight.token \in Tokens /\ e.inflight.token < e.next_token
  BY <1>3 DEF EngineTypeOK, InFlight, Fine, Good, FlightOK
<1>8. ASSUME NEW t \in Tokens, t >= e.next_token PROVE k.sent[t] = 0
  <2>1. t \in Int /\ e.next_token \in Int
    BY <1>3 DEF Tokens, EngineTypeOK
  <2>2. e.outcome[t] = "Open"
    BY <1>8 DEF Fine, Good, FatesOK
  <2>3. e.inflight # None => e.inflight.token # t
    BY <1>7, <1>8, <2>1 DEF Tokens
  <2>4. t \notin Transmitted(c.old, e)
    BY <2>2, <2>3 DEF Transmitted
  <2>5. c.sent[t] = 0
    BY <1>8 DEF Fine, Counted
  <2> QED BY <1>3, <2>4, <2>5, UsedIsNat
<1>9. Counted(e, k)
  BY <1>5, <1>6, <1>7, <1>8 DEF Fine, Counted
<1>10. Gated(e, k)
  BY <1>1 DEF Fine, Gated, Asked
<1>11. Answered(e, k)
  BY DEF Fine, Answered
<1> QED BY <1>9, <1>10, <1>11 DEF Fine

(* The boot state, the heartbeat interval and the boot retry follow the    *)
(* answer; nothing has been sent in this handler yet.                      *)
LEMMA SetBoot ==
  ASSUME NEW e, EngineTypeOK(e), NEW status \in BootStates
  PROVE  LET d == [e EXCEPT !.boot = status]
         IN /\ Quiet(e, d) /\ d.boot = status /\ d.connected = e.connected
            /\ d.draining = e.draining /\ d.heartbeat_at = e.heartbeat_at
            /\ d.heartbeat_interval = e.heartbeat_interval
            /\ d.boot_retry_at = e.boot_retry_at /\ d.timers = e.timers
BY DEF EngineTypeOK, Quiet

LEMMA RebootFine ==
  ASSUME NEW e, NEW H, NEW X, NEW c, Fine(e, H, X, c), NEW k, IsContext(k),
         k.old = c.old, k.sent = c.sent, k.lost = c.lost, k.served = c.served,
         k.before = c.before, k.asked = c.asked, Transmitted(c.old, e) = {},
         NEW status \in Verdicts, k.verdict = status
  PROVE  Fine([e EXCEPT !.boot = status], H, X \cup {"Idle"}, k)
<1> DEFINE m == [e EXCEPT !.boot = "Idle"]
           d == [e EXCEPT !.boot = status]
<1>1. EngineTypeOK(e) /\ status \in BootStates /\ "Idle" \in BootStates
  BY DEF Fine, Good, BootStates, Verdicts
<1>2. /\ Quiet(e, m) /\ m.boot = "Idle" /\ m.connected = e.connected
      /\ m.draining = e.draining /\ m.heartbeat_at = e.heartbeat_at
      /\ m.heartbeat_interval = e.heartbeat_interval
      /\ m.boot_retry_at = e.boot_retry_at /\ m.timers = e.timers
  BY <1>1, SetBoot
<1>3. /\ Quiet(e, d) /\ d.boot = status /\ d.connected = e.connected
      /\ d.draining = e.draining /\ d.heartbeat_at = e.heartbeat_at
      /\ d.heartbeat_interval = e.heartbeat_interval
      /\ d.boot_retry_at = e.boot_retry_at /\ d.timers = e.timers
  BY <1>1, SetBoot
<1> HIDE DEF m, d
<1>4. Fine(m, H, X, c)
  <2>1. Watched(m, X) /\ Alive(m, X)
    BY <1>2 DEF Fine, Watched, Match, Alive, Quiet
  <2> QED BY <1>2, <2>1, QuietFine
<1>5. Transmitted(c.old, m) = {}
  BY <1>2 DEF Quiet, Transmitted
<1>6. Fine(m, H, X, k)
  <2>1. /\ m.boot # "Accepted" /\ (c.asked => k.asked) /\ k.served \subseteq m.wire
        /\ m.inflight # None => IdOf(m.inflight) \notin k.served
    BY <1>2, <1>4 DEF Fine, Answered
  <2> QED BY <1>4, <1>5, <2>1, ContextFine
<1>7. Quiet(m, d)
  BY <1>2, <1>3 DEF Quiet
<1>8. Watched(d, X \cup {"Idle"}) /\ Alive(d, X \cup {"Idle"})
  BY <1>3 DEF Fine, Watched, Match, Alive, Quiet
<1> QED BY <1>3, <1>6, <1>7, <1>8, QuietFine DEF d

LEMMA ObserveBootAnswerFine ==
  ASSUME NEW e, NEW H, NEW c, Fine(e, H, {}, c), NEW k, IsContext(k),
         k.old = c.old, k.sent = c.sent, k.lost = c.lost, k.served = c.served,
         k.before = c.before, k.asked = c.asked, Transmitted(c.old, e) = {},
         NEW status, k.verdict = IF status \in Verdicts THEN status ELSE c.verdict,
         NEW interval \in Nat
  PROVE  Fine(observe_boot_answer(e, status, interval), H, {}, k)
<1> DEFINE told == [e EXCEPT !.boot = status]
           wait == IF interval > 0 THEN interval ELSE BootRetryFallback
           beat == [told EXCEPT !.heartbeat_interval = interval]
           retry == [told EXCEPT !.boot_retry_at = wait]
           d == set_timer(retry, "BootRetry", wait)
<1>1. CASE status \notin Verdicts
  <2>1. Fine(e, H, {}, k)
    <3>1. /\ k.served \subseteq e.wire /\ k.verdict = c.verdict
          /\ e.inflight # None => IdOf(e.inflight) \notin k.served
      BY <1>1 DEF Fine, Answered
    <3> QED BY <3>1, ContextFine
  <2> QED BY <1>1, <2>1 DEF observe_boot_answer
<1>2. CASE status \in Verdicts
  <2>1. observe_boot_answer(e, status, interval) =
          IF status = "Accepted" THEN pump(arm_heartbeat(beat)) ELSE d
    BY <1>2, Zenon DEF observe_boot_answer
  <2>2. wait \in Nat
    BY EngineAssumption
  <2>3. told.boot = status /\ Fine(told, H, {"Idle"}, k)
    <3>1. Fine(told, H, {} \cup {"Idle"}, k)
      BY <1>2, RebootFine
    <3>2. {} \cup {"Idle"} = {"Idle"}
      OBVIOUS
    <3>3. EngineTypeOK(e) /\ status \in BootStates
      BY <1>2 DEF Fine, Good, BootStates, Verdicts
    <3>4. told.boot = status
      BY <3>3, SetBoot
    <3> QED BY <3>1, <3>2, <3>4
  <2> HIDE DEF told, wait
  <2>4. EngineTypeOK(told) /\ (told.boot = "Accepted" => k.verdict = "Accepted")
    BY <2>3 DEF Fine, Good, Gated
  <2>5. Fine(pump(arm_heartbeat(beat)), H, {}, k)
    <3>1. /\ Quiet(told, beat) /\ beat.boot = told.boot
          /\ beat.draining = told.draining /\ beat.heartbeat_at = told.heartbeat_at
          /\ beat.boot_retry_at = told.boot_retry_at /\ beat.timers = told.timers
      BY <2>4 DEF EngineTypeOK, Quiet
    <3> HIDE DEF beat
    <3>2. Watched(beat, {"Idle"}) /\ Alive(beat, {"Idle"})
      BY <2>3, <3>1 DEF Fine, Watched, Match, Alive, Quiet
    <3>3. Fine(beat, H, {"Idle"}, k)
      BY <2>3, <2>4, <3>1, <3>2, QuietFine
    <3>4. Fine(arm_heartbeat(beat), H, {"Idle"} \ {"Idle"}, k)
      BY <3>3, ArmFine
    <3>5. {"Idle"} \ {"Idle"} = {}
      OBVIOUS
    <3> QED BY <3>4, <3>5, PumpFine
  <2>6. ASSUME status # "Accepted" PROVE Fine(d, H, {}, k)
    <3>1. /\ Quiet(told, retry) /\ retry.boot = told.boot
          /\ retry.draining = told.draining /\ retry.heartbeat_at = told.heartbeat_at
          /\ retry.boot_retry_at = wait /\ retry.timers = told.timers
      BY <2>2, <2>4 DEF EngineTypeOK, Quiet
    <3> HIDE DEF retry
    <3>2. /\ Quiet(told, d) /\ d.boot = told.boot
          /\ d.draining = told.draining /\ d.heartbeat_at = told.heartbeat_at
          /\ d.boot_retry_at = wait /\ d.timers["BootRetry"] = wait
          /\ \A x \in Timers \ {"BootRetry"} : d.timers[x] = told.timers[x]
      BY <2>2, <3>1 DEF EngineTypeOK, Quiet, set_timer, Timers
    <3> HIDE DEF d
    <3>3. Watched(d, {}) /\ Alive(d, {})
      BY <2>3, <2>6, <3>2 DEF Fine, Watched, Match, Alive, Quiet, Timers
    <3> QED BY <2>3, <2>4, <3>2, <3>3, QuietFine
  <2> QED BY <2>1, <2>5, <2>6
<1> QED BY <1>1, <1>2

(* The answered call is out of the engine's hands, and its timer cleared.  *)
LEMMA FreedFine ==
  ASSUME NEW e, NEW c, Fine(e, {}, {}, c), Transmitted(c.old, e) = {}, e.inflight # None
  PROVE  LET free == clear_timer(ack_store(Taken(e), {e.inflight.token}), "CallTimeout")
         IN /\ Fine(free, {e.inflight.token}, {}, c) /\ e.inflight.token \in Tokens
            /\ Transmitted(c.old, free) = {} /\ free.inflight = None /\ free.wire = e.wire
<1> DEFINE H == {e.inflight.token}
           m == ack_store(Taken(e), H)
           d == clear_timer(m, "CallTimeout")
<1>1. /\ Fine(m, H, {}, c) /\ m.inflight = None /\ e.inflight.token \in Tokens
      /\ m.outcome = e.outcome /\ m.wire = e.wire
  <2>1. /\ Fine(m, H, {} \ {"CallTimeout", "Flight"}, c) /\ m.inflight = None
        /\ e.inflight.token \in Tokens /\ m.outcome = e.outcome /\ m.wire = e.wire
    BY TakeFine DEF Beside
  <2>2. {} \ {"CallTimeout", "Flight"} = {}
    OBVIOUS
  <2> QED BY <2>1, <2>2
<1> HIDE DEF m, H
<1>2. EngineTypeOK(m) /\ (m.boot = "Accepted" => c.verdict = "Accepted")
  BY <1>1 DEF Fine, Good, Gated
<1>3. /\ Quiet(m, d) /\ d.draining = m.draining /\ d.boot = m.boot /\ d.connected = m.connected
      /\ d.heartbeat_at = m.heartbeat_at /\ d.heartbeat_interval = m.heartbeat_interval
      /\ d.boot_retry_at = m.boot_retry_at
      /\ \A x \in Timers \ {"CallTimeout"} : d.timers[x] = m.timers[x]
  BY <1>2 DEF EngineTypeOK, Quiet, clear_timer, Timers
<1> HIDE DEF d
<1>4. Watched(d, {}) /\ Alive(d, {})
  BY <1>1, <1>3 DEF Fine, Watched, Match, Alive, Quiet, Timers
<1>5. Fine(d, H, {}, c)
  BY <1>1, <1>2, <1>3, <1>4, QuietFine
<1>6. Transmitted(c.old, d) = {} /\ d.inflight = None /\ d.wire = e.wire
  BY <1>1, <1>3 DEF Quiet, Transmitted
<1> QED BY <1>1, <1>5, <1>6 DEF d, m, H

(* An answer arrives: the context k is that of c with the answer served.   *)
Arrives(e, c, k, id) ==
  /\ IsContext(k) /\ k.old = c.old /\ k.sent = c.sent /\ k.lost = c.lost
  /\ k.before = c.before /\ c.before = c.served /\ k.asked = c.asked
  /\ c.old.inflight = e.inflight /\ Transmitted(c.old, e) = {}
  /\ id \in e.wire \/ id = ForeignId
  /\ k.served = c.served \cup (e.wire \cap {id})

(* An answer that is not the one waited for changes nothing; the one that  *)
(* is completes the call.                                                  *)
LEMMA LateFine ==
  ASSUME NEW e, NEW c, Fine(e, {}, {}, c), NEW k, NEW id, Arrives(e, c, k, id),
         ~take_inflight(e, id), k.verdict = c.verdict
  PROVE  Fine(e, {}, {}, k)
<1>1. /\ k.served \subseteq e.wire
      /\ e.inflight # None => IdOf(e.inflight) \notin k.served
  BY DEF Arrives, take_inflight, Fine, Answered
<1> QED BY <1>1, ContextFine DEF Arrives

LEMMA ServedFine ==
  ASSUME NEW e, NEW c, Fine(e, {}, {}, c), NEW k, NEW id, Arrives(e, c, k, id),
         take_inflight(e, id), NEW b,
         b = [old |-> c.old, sent |-> c.sent, lost |-> c.lost, verdict |-> c.verdict,
              served |-> k.served, before |-> c.before, asked |-> c.asked]
  PROVE  LET free == clear_timer(ack_store(Taken(e), {e.inflight.token}), "CallTimeout")
         IN /\ Fine(free, {e.inflight.token}, {}, b) /\ e.inflight.token \in Tokens
            /\ Transmitted(b.old, free) = {}
            /\ Completed(b, e.inflight.token) /\ Completed(k, e.inflight.token)
<1> DEFINE free == clear_timer(ack_store(Taken(e), {e.inflight.token}), "CallTimeout")
<1>1. /\ Fine(free, {e.inflight.token}, {}, c) /\ e.inflight.token \in Tokens
      /\ Transmitted(c.old, free) = {} /\ free.inflight = None /\ free.wire = e.wire
  BY FreedFine DEF take_inflight, Arrives
<1> HIDE DEF free
<1>2. IsContext(b) /\ b.old = c.old /\ b.sent = c.sent /\ b.lost = c.lost /\ b.verdict = c.verdict
      /\ b.served = k.served /\ b.before = c.before /\ b.asked = c.asked
  BY DEF IsContext, Fine
<1>3. c.served \subseteq k.served /\ k.served \subseteq e.wire
  BY DEF Arrives, Fine, Answered
<1>4. Fine(free, {e.inflight.token}, {}, b)
  BY <1>1, <1>2, <1>3, ContextFine
<1>5. id \in e.wire
  <2>1. e.inflight.token # 0
    BY <1>1 DEF Tokens
  <2>2. id.token = e.inflight.token
    BY DEF take_inflight, IdOf
  <2>3. id # ForeignId
    BY <2>1, <2>2 DEF ForeignId
  <2> QED BY <2>3 DEF Arrives
<1>6. IdOf(e.inflight) \in k.served \ c.before
  BY <1>5 DEF Arrives, take_inflight, Fine, Answered
<1>7. Completed(b, e.inflight.token) /\ Completed(k, e.inflight.token)
  BY <1>2, <1>6 DEF Completed, Arrives, take_inflight
<1> QED BY <1>1, <1>2, <1>4, <1>7 DEF free

LEMMA OnCallResultFine ==
  ASSUME NEW e, NEW c, Fine(e, {}, {}, c), NEW k, NEW id, Arrives(e, c, k, id),
         NEW status, NEW interval \in Nat,
         k.verdict = IF /\ take_inflight(e, id)
                        /\ e.inflight.action = "BootNotification"
                        /\ status \in Verdicts
                     THEN status ELSE c.verdict
  PROVE  Fine(on_call_result(e, id, status, interval), {}, {}, k)
<1> DEFINE f == e.inflight
           free == clear_timer(ack_store(Taken(e), {f.token}), "CallTimeout")
           told == IF f.action = "BootNotification"
                   THEN observe_boot_answer(free, status, interval) ELSE free
           b == [old |-> c.old, sent |-> c.sent, lost |-> c.lost, verdict |-> c.verdict,
                 served |-> k.served, before |-> c.before, asked |-> c.asked]
<1>1. CASE ~take_inflight(e, id)
  <2>1. Fine(e, {}, {}, k)
    BY <1>1, LateFine
  <2> QED BY <1>1, <2>1 DEF on_call_result
<1>2. CASE take_inflight(e, id)
  <2>1. on_call_result(e, id, status, interval)
          = check_drain(pump(fail(told, f.token, "Result")))
    BY <1>2, Zenon DEF on_call_result, Taken
  <2>2. /\ Fine(free, {f.token}, {}, b) /\ f.token \in Tokens
        /\ Transmitted(b.old, free) = {} /\ Completed(k, f.token)
    BY <1>2, ServedFine
  <2>3. /\ k.old = b.old /\ k.sent = b.sent /\ k.lost = b.lost /\ k.served = b.served
        /\ k.before = b.before /\ k.asked = b.asked /\ IsContext(k) /\ b.verdict = c.verdict
    BY DEF Arrives
  <2> HIDE DEF free, b
  <2>4. Fine(told, {f.token}, {}, k)
    <3>1. CASE f.action = "BootNotification"
      <4>1. k.verdict = IF status \in Verdicts THEN status ELSE b.verdict
        BY <1>2, <2>3, <3>1
      <4> QED BY <2>2, <2>3, <3>1, <4>1, ObserveBootAnswerFine
    <3>2. CASE f.action # "BootNotification"
      <4>1. /\ k.verdict = b.verdict /\ k.served \subseteq free.wire
            /\ free.inflight # None => IdOf(free.inflight) \notin k.served
        BY <2>2, <2>3, <3>2 DEF Fine, Answered
      <4>2. Fine(free, {f.token}, {}, k)
        BY <2>2, <2>3, <4>1, ContextFine
      <4> QED BY <3>2, <4>2
    <3> QED BY <3>1, <3>2
  <2> HIDE DEF told, f
  <2>5. "Result" \in Outcomes \ {"Open", "Sent"}
    BY DEF Outcomes
  <2>6. Fine(fail(told, f.token, "Result"), {}, {}, k)
    BY <2>2, <2>4, <2>5, FailFine
  <2> QED BY <2>1, <2>6, PumpFine, CheckDrainFine
<1> QED BY <1>1, <1>2

LEMMA OnCallErrorFine ==
  ASSUME NEW e, NEW c, Fine(e, {}, {}, c), NEW k, NEW id, Arrives(e, c, k, id),
         k.verdict = c.verdict
  PROVE  Fine(on_call_error(e, id), {}, {}, k)
<1> DEFINE f == e.inflight
           free == clear_timer(ack_store(Taken(e), {f.token}), "CallTimeout")
           b == [old |-> c.old, sent |-> c.sent, lost |-> c.lost, verdict |-> c.verdict,
                 served |-> k.served, before |-> c.before, asked |-> c.asked]
<1>1. CASE ~take_inflight(e, id)
  <2>1. Fine(e, {}, {}, k)
    BY <1>1, LateFine
  <2> QED BY <1>1, <2>1 DEF on_call_error
<1>2. CASE take_inflight(e, id)
  <2>1. on_call_error(e, id) = check_drain(pump(fail(free, f.token, "Rejected")))
    BY <1>2, Zenon DEF on_call_error, Taken
  <2>2. Fine(free, {f.token}, {}, b) /\ f.token \in Tokens /\ Completed(k, f.token)
    BY <1>2, ServedFine
  <2>3. /\ k.old = b.old /\ k.sent = b.sent /\ k.lost = b.lost /\ k.served = b.served
        /\ k.before = b.before /\ k.asked = b.asked /\ IsContext(k) /\ k.verdict = b.verdict
    BY DEF Arrives
  <2> HIDE DEF free, f, b
  <2>4. Fine(free, {f.token}, {}, k)
    <3>1. /\ k.served \subseteq free.wire
          /\ free.inflight # None => IdOf(free.inflight) \notin k.served
      BY <2>2, <2>3 DEF Fine, Answered
    <3> QED BY <2>2, <2>3, <3>1, ContextFine
  <2>5. "Rejected" \in Outcomes \ {"Open", "Sent"}
    BY DEF Outcomes
  <2>6. Fine(fail(free, f.token, "Rejected"), {}, {}, k)
    BY <2>2, <2>4, <2>5, FailFine
  <2> QED BY <2>1, <2>6, PumpFine, CheckDrainFine
<1> QED BY <1>1, <1>2

(* Deadlines and their timers pass together.                               *)
LEMMA AdvanceFine ==
  ASSUME NEW e, NEW c, Fine(e, {}, {}, c)
  PROVE  /\ Fine(advance(e), {}, {}, c)
         /\ Transmitted(c.old, advance(e)) = Transmitted(c.old, e)
         /\ \A t : Used(advance(e), c, t) = Used(e, c, t) /\ Missed(advance(e), c, t) = Missed(e, c, t)
<1> DEFINE d == advance(e)
<1>1. EngineTypeOK(e) /\ Good(d, {})
  BY AdvanceGood DEF Fine, Good
<1>2. Elapsed(e, d)
  BY <1>1, AdvanceElapsed
<1> HIDE DEF d
<1>3. Transmitted(c.old, d) = Transmitted(c.old, e)
  BY <1>2 DEF Elapsed, SameMessage, Transmitted, IdOf
<1>12. \A t : Used(d, c, t) = Used(e, c, t) /\ Missed(d, c, t) = Missed(e, c, t)
  <2>1. e.inflight # None => IdOf(d.inflight) = IdOf(e.inflight)
    BY <1>2 DEF Elapsed, SameMessage, IdOf
  <2>2. \A t : Unrecorded(c.old, d, t) = Unrecorded(c.old, e, t)
    BY <1>2, <2>1 DEF Elapsed, Unrecorded, CallEnds, SendEnds
  <2> QED BY <1>3, <2>2 DEF Used, Missed
<1>4. Counted(d, c)
  <2>1. \A t, n : Within(e, c, t, n) => Within(d, c, t, n)
    BY <1>12 DEF Within
  <2>2. \A t : Flying(d, t) = Flying(e, t)
    BY <1>2 DEF Elapsed, SameMessage, Flying
  <2> QED BY <1>2, <2>1, <2>2 DEF Fine, Counted, Elapsed, SameMessage
<1>5. Counters(d)
  BY <1>2 DEF Fine, Counters, Backed, Elapsed, SameMessage
<1>6. Gated(d, c)
  BY <1>2, <1>3 DEF Fine, Gated, Elapsed, SameMessage
<1>7. Answered(d, c)
  <2>1. \A id \in e.wire : Behind(d, id)
    BY <1>2 DEF Fine, Answered, Behind, Elapsed, SameMessage
  <2>2. e.inflight # None => IdOf(d.inflight) = IdOf(e.inflight)
    BY <1>2 DEF Elapsed, SameMessage, IdOf
  <2> QED BY <1>2, <2>1, <2>2 DEF Fine, Answered, Elapsed
<1>8. \A at \in Nat \cup {Never} : /\ Elapse(at) = Never <=> at = Never
                                   /\ Elapse(at) > 0 => at > 0
  BY DEF Elapse, Never
<1>9. Alive(d, {})
  BY <1>1, <1>2, <1>8 DEF Fine, Alive, Elapsed, EngineTypeOK
<1>10. Watched(d, {})
  <2>1. Watched(e, {})
    BY DEF Fine
  <2>2. \A x \in Timers, at \in Nat \cup {Never} :
          Match(e, {}, x, at) => Match(d, {}, x, Elapse(at))
    BY <1>2, <1>8 DEF Match, Elapsed
  <2>3. e.inflight # None => e.inflight.deadline \in Nat \cup {Never}
    BY <1>1 DEF EngineTypeOK, InFlight
  <2>4. d.inflight # None => Match(d, {}, "CallTimeout", d.inflight.deadline)
    BY <1>2, <2>1, <2>2, <2>3 DEF Watched, Elapsed, Timers
  <2>5. \A s \in DOMAIN e.queue : e.queue[s].not_before \in Nat \cup {Never}
    BY <1>1 DEF EngineTypeOK, Pending
  <2>6. \A s \in DOMAIN d.queue :
          d.queue[s].not_before > 0 => s = 0 /\ d.timers["TransactionRetry"] = d.queue[s].not_before
    BY <1>2, <1>8, <2>1, <2>5 DEF Watched, Elapsed, Timers
  <2>7. /\ Match(d, {}, "Heartbeat", d.heartbeat_at)
        /\ Match(d, {}, "BootRetry", d.boot_retry_at)
        /\ Match(d, {}, "DrainDeadline", d.draining)
    BY <1>1, <1>2, <2>1, <2>2 DEF Watched, Elapsed, Timers, EngineTypeOK
  <2> QED BY <2>4, <2>6, <2>7 DEF Watched
<1>11. Fine(d, {}, {}, c)
  BY <1>1, <1>4, <1>5, <1>6, <1>7, <1>9, <1>10 DEF Fine
<1> QED BY <1>3, <1>11, <1>12 DEF d

LEMMA StoreFaultFine ==
  ASSUME NEW e, NEW c, Fine(e, {}, {}, c), c.old = e, StoreMayFail, NEW k, IsContext(k),
         k.old = [e EXCEPT !.store_ok = ~e.store_ok], k.sent = c.sent, k.lost = c.lost,
         k.verdict = c.verdict, k.served = c.served
  PROVE  LET d == [e EXCEPT !.store_ok = ~e.store_ok]
         IN Fine(d, {}, {}, k) /\ Transmitted(e, d) = {} /\ d.outcome = e.outcome
<1> DEFINE d == [e EXCEPT !.store_ok = ~e.store_ok]
<1>1. EngineTypeOK(e) /\ Good(d, {}) /\ k.old = d
  BY StoreFaultGood DEF Fine, Good
<1>2. /\ d.queue = e.queue /\ d.inflight = e.inflight /\ d.next_token = e.next_token
      /\ d.outcome = e.outcome /\ d.store = e.store /\ Beside(e, d)
  BY <1>1 DEF EngineTypeOK, Beside
<1> HIDE DEF d
<1>3. Transmitted(e, d) = {} /\ Transmitted(k.old, d) = {} /\ Transmitted(c.old, e) = {}
  BY <1>1, <1>2 DEF Transmitted
<1>4. Counted(d, k) /\ Counters(d)
  <2>1. \A t : Unrecorded(k.old, d, t) = 0 /\ Unrecorded(c.old, e, t) = 0
    BY <1>1, NothingUnrecorded
  <2>2. \A t : Used(d, k, t) = Used(e, c, t) /\ Missed(d, k, t) = Missed(e, c, t)
    BY <1>3, <2>1 DEF Used, Missed
  <2>3. \A t, n : Within(e, c, t, n) => Within(d, k, t, n)
    BY <2>2 DEF Within
  <2>4. \A t : Flying(d, t) = Flying(e, t)
    BY <1>2 DEF Flying
  <2>5. Counted(d, k)
    BY <1>1, <1>2, <2>3, <2>4 DEF Fine, Counted
  <2> QED BY <1>2, <2>5 DEF Fine, Counters, Backed
<1>5. Gated(d, k) /\ Watched(d, {}) /\ Alive(d, {})
  <2>1. \A s \in DOMAIN d.queue :
          is_send(d.queue[s].action) /\ d.queue[s].triggered => Asked(k, d.queue[s].token)
    BY <1>1 DEF Asked
  <2>2. Gated(d, k)
    BY <1>2, <1>3, <2>1 DEF Fine, Gated, Beside
  <2> QED BY <1>2, <2>2 DEF Fine, Watched, Alive, Match, Beside
<1>6. Answered(d, k)
  BY <1>1, <1>2 DEF Fine, Answered, Behind, Beside
<1>7. Fine(d, {}, {}, k)
  BY <1>1, <1>4, <1>5, <1>6 DEF Fine
<1> QED BY <1>2, <1>3, <1>7 DEF d

(* The timers that have fired are forgotten before on_timeout looks at     *)
(* what they stood for.                                                    *)
LEMMA FiredFine ==
  ASSUME NEW e, NEW c, Fine(e, {}, {}, c)
  PROVE  LET tm == [t \in Timers |-> IF Expired(e.timers[t]) THEN Never ELSE e.timers[t]]
         IN Fine([e EXCEPT !.timers = tm], {}, {"CallTimeout", "Heartbeat", "BootRetry", "DrainDeadline"}, c)
<1> DEFINE tm == [t \in Timers |-> IF Expired(e.timers[t]) THEN Never ELSE e.timers[t]]
           d == [e EXCEPT !.timers = tm]
           X == {"CallTimeout", "Heartbeat", "BootRetry", "DrainDeadline"}
<1>1. EngineTypeOK(e)
  BY DEF Fine, Good
<1>2. /\ tm \in [Timers -> Nat \cup {Never}]
      /\ \A t \in Timers : e.timers[t] # 0 => tm[t] = e.timers[t]
  BY <1>1 DEF EngineTypeOK, Expired
<1> HIDE DEF tm
<1>3. /\ Quiet(e, d) /\ d.draining = e.draining /\ d.boot = e.boot /\ d.connected = e.connected
      /\ d.heartbeat_at = e.heartbeat_at /\ d.heartbeat_interval = e.heartbeat_interval
      /\ d.boot_retry_at = e.boot_retry_at /\ d.timers = tm
  BY <1>1, <1>2 DEF EngineTypeOK, Quiet
<1> HIDE DEF d
<1>4. Watched(d, X)
  <2>1. Watched(e, {})
    BY DEF Fine
  <2>2. \A x \in X : \A at : Match(e, {}, x, at) => Match(d, X, x, at)
    BY <1>2, <1>3 DEF Match, Timers
  <2>3. "TransactionRetry" \in Timers
    BY DEF Timers
  <2>4. \A s \in DOMAIN e.queue : e.queue[s].not_before \in Nat \cup {Never}
    BY <1>1 DEF EngineTypeOK, Pending
  <2>5. \A s \in DOMAIN d.queue :
          d.queue[s].not_before > 0 => s = 0 /\ d.timers["TransactionRetry"] = d.queue[s].not_before
    BY <1>2, <1>3, <2>1, <2>3, <2>4 DEF Watched, Quiet
  <2> QED BY <1>3, <2>1, <2>2, <2>5 DEF Watched, Quiet
<1>5. Alive(d, X) /\ (d.boot = "Accepted" => c.verdict = "Accepted")
  BY <1>3 DEF Fine, Alive, Gated
<1>6. Fine(d, {}, X, c)
  BY <1>3, <1>4, <1>5, QuietFine
<1> QED BY <1>6 DEF d, tm, X

-----------------------------------------------------------------------------
(* A process ends, and the next one starts on what the store holds.        *)

(* The store is never told of the transmission in flight.                  *)
LEMMA HaltedRests ==
  ASSUME NEW e, NEW c, Fine(e, {}, {}, c), NEW k, IsContext(k), k.sent = c.sent, k.served = {},
         \A t \in Tokens : k.lost[t] = Missed(e, c, t) + Flying(e, t)
  PROVE  Rests(Halted(e), k)
<1> DEFINE d == Halted(e)
<1>1. /\ d.store = e.store /\ d.next_token = e.next_token
      /\ d.outcome = [t \in Tokens |->
            IF t < e.next_token /\ e.outcome[t] = "Open" /\ t \notin Persistent(e)
            THEN "Lost" ELSE e.outcome[t]]
  BY DEF Halted, with_store
<1> HIDE DEF d
<1>2. EngineTypeOK(e) /\ Counted(e, c) /\ Counters(e) /\ IsContext(c)
  BY DEF Fine, Good
<1>3. \A t \in Tokens :
        /\ c.sent[t] \in Nat /\ Used(e, c, t) \in Nat /\ c.sent[t] <= Used(e, c, t)
        /\ Missed(e, c, t) \in Nat /\ Flying(e, t) \in {0, 1}
        /\ k.lost[t] = Missed(e, c, t) + Flying(e, t)
  BY <1>2, UsedIsNat, MissedIsNat, FlyingIsNat
<1>4. ASSUME NEW t \in DOMAIN d.store
      PROVE  /\ Tries(d.store[t].action, d.store[t].attempts)
             /\ k.sent[t] <= d.store[t].attempts + k.lost[t]
  <2>1. /\ t \in DOMAIN e.store /\ t \in Tokens /\ d.store[t] = e.store[t]
        /\ e.store[t].attempts \in Nat
    BY <1>1, <1>2 DEF EngineTypeOK, Stored
  <2>2. Tries(d.store[t].action, d.store[t].attempts)
    BY <1>2, <2>1 DEF Counters
  <2>3. Used(e, c, t) <= (e.store[t].attempts + Flying(e, t)) + Missed(e, c, t)
    BY <1>2, <2>1 DEF Counted, Within
  <2>4. c.sent[t] <= e.store[t].attempts + k.lost[t]
    BY <1>3, <2>1, <2>3
  <2> QED BY <2>1, <2>2, <2>4
<1>5. \A t \in Tokens : d.outcome[t] = "Sent" => k.sent[t] <= 1 + k.lost[t]
  <2> SUFFICES ASSUME NEW t \in Tokens, d.outcome[t] = "Sent" PROVE k.sent[t] <= 1 + k.lost[t]
    OBVIOUS
  <2>1. e.outcome[t] = "Sent"
    BY <1>1
  <2>2. Used(e, c, t) <= 1 + Missed(e, c, t)
    BY <1>2, <2>1 DEF Counted, Within
  <2>3. c.sent[t] <= 1 + k.lost[t]
    BY <1>3, <2>2
  <2> QED BY <2>3
<1>6. \A t \in Tokens : t >= d.next_token => k.sent[t] = 0
  BY <1>1, <1>2 DEF Counted
<1> QED BY <1>4, <1>5, <1>6 DEF Rests, d

LEMMA WithStoreFine ==
  ASSUME NEW e, NEW c, Dead(e), Rests(e, c), NEW k,
         k.old = with_store(e.store, e.outcome, e.next_token, e.store_ok),
         k.sent = c.sent, k.lost = c.lost, k.served = c.served
  PROVE  Fine(with_store(e.store, e.outcome, e.next_token, e.store_ok), {}, {}, k)
<1> DEFINE d == with_store(e.store, e.outcome, e.next_token, e.store_ok)
<1>1. Good(d, {}) /\ EngineTypeOK(e)
  BY WithStoreGood DEF Dead
<1>2. /\ d.inflight = None /\ d.next_token = e.next_token /\ d.store = e.store
      /\ d.boot = "Idle" /\ d.heartbeat_at = Never /\ d.boot_retry_at = Never
      /\ d.draining = Never /\ d.wire = {}
  BY DEF with_store
<1>3. /\ DOMAIN d.queue = DOMAIN e.store
      /\ \A t \in DOMAIN d.queue :
           /\ d.queue[t].token = t /\ d.queue[t].action = e.store[t].action
           /\ d.queue[t].attempts = e.store[t].attempts
           /\ d.queue[t].triggered = FALSE /\ d.queue[t].not_before = Never
  BY DEF with_store
<1>4. \A t \in Tokens : d.outcome[t] = IF t \in DOMAIN e.store THEN "Open" ELSE e.outcome[t]
  BY DEF with_store
<1> HIDE DEF d
<1>5. IsContext(k) /\ k.old = d
  BY DEF Rests, IsContext, d
<1>6. Transmitted(k.old, d) = {}
  BY <1>5 DEF Transmitted
<1>7. \A t \in Tokens : Used(d, k, t) = c.sent[t] /\ Missed(d, k, t) = c.lost[t]
  <2> TAKE t \in Tokens
  <2>1. Unrecorded(k.old, d, t) = 0
    BY <1>5, NothingUnrecorded
  <2>2. c.lost[t] \in Nat /\ Missed(d, k, t) = c.lost[t] + Unrecorded(k.old, d, t)
    BY <1>5, MissedIsNat
  <2> QED BY <1>5, <1>6, <2>1, <2>2, UsedIsNat
<1>8. \A t \in DOMAIN e.store : t \in Tokens /\ e.store[t].attempts \in Nat
  BY <1>1 DEF EngineTypeOK, Stored
<1>9. Counted(d, k)
  <2>1. \A t \in DOMAIN e.store : Within(d, k, t, e.store[t].attempts)
    BY <1>7, <1>8 DEF Rests, Within
  <2>2. \A t \in DOMAIN e.store : e.store[t].attempts + Flying(d, t) = e.store[t].attempts
    BY <1>2, <1>8, FlyingIsNat
  <2>3. \A t \in Tokens : d.outcome[t] = "Sent" => Within(d, k, t, 1)
    BY <1>4, <1>7 DEF Rests, Within
  <2>4. /\ \A t \in DOMAIN d.queue : Within(d, k, d.queue[t].token, d.queue[t].attempts)
        /\ \A t \in DOMAIN d.store : Within(d, k, t, d.store[t].attempts + Flying(d, t))
    BY <1>2, <1>3, <2>1, <2>2
  <2> QED BY <1>2, <1>5, <2>3, <2>4 DEF Rests, Counted
<1>10. Counters(d)
  BY <1>2, <1>3, <1>8 DEF Rests, Counters, Backed
<1>11. Gated(d, k)
  BY <1>2, <1>3, <1>6 DEF Gated
<1>12. Answered(d, k)
  BY <1>2, <1>5 DEF Rests, Answered
<1>13. Watched(d, {}) /\ Alive(d, {})
  <2>1. ~(Never > 0)
    BY DEF Never
  <2> QED BY <1>2, <1>3, <2>1 DEF Watched, Match, Alive
<1> QED BY <1>1, <1>5, <1>9, <1>10, <1>11, <1>12, <1>13 DEF Fine, d

-----------------------------------------------------------------------------
(* The steps.                                                              *)

(* The context in which a handler ends; `asked' when the step makes a call *)
(* that the CSMS has asked for.                                            *)
During(asked) == [old |-> engine, sent |-> sent, lost |-> lost, verdict |-> verdict',
                  served |-> served', before |-> served, asked |-> asked]

LEMMA NowFields ==
  ASSUME TypeOK
  PROVE  /\ IsContext(Now) /\ Now.old = engine /\ Now.sent = sent /\ Now.lost = lost
         /\ Now.verdict = verdict /\ Now.served = served /\ Now.before = served
         /\ Now.asked = FALSE /\ Transmitted(Now.old, engine) = {}
<1>1. Transmitted(engine, engine) = {}
  BY DEF Transmitted
<1> QED BY <1>1 DEF Now, IsContext, TypeOK

LEMMA DuringFields ==
  ASSUME TypeOK, NEW a
  PROVE  /\ IsContext(During(a)) /\ During(a).old = engine /\ During(a).sent = sent
         /\ During(a).lost = lost /\ During(a).before = served
         /\ During(a).verdict = verdict' /\ During(a).served = served'
         /\ During(a).asked = a
BY DEF During, IsContext, TypeOK

LEMMA BeginFine ==
  ASSUME StepInv, running, verdict' = verdict, served' \in {served, {}}, NEW a
  PROVE  Fine(engine, {}, {}, During(a))
<1>1. TypeOK /\ Fine(engine, {}, {}, Now)
  BY DEF StepInv, IndInv
<1>2. /\ Now.old = engine /\ Now.sent = sent /\ Now.lost = lost
      /\ Now.verdict = verdict /\ Now.served = served /\ Now.before = served
      /\ Now.asked = FALSE
  BY <1>1, NowFields
<1>3. /\ IsContext(During(a)) /\ During(a).old = engine /\ During(a).sent = sent
      /\ During(a).lost = lost /\ During(a).before = served
      /\ During(a).verdict = verdict' /\ During(a).served = served'
  BY <1>1, DuringFields
<1>4. /\ served' \subseteq engine.wire
      /\ engine.inflight # None => IdOf(engine.inflight) \notin served'
  BY <1>1, <1>2 DEF Fine, Answered
<1> QED BY <1>1, <1>2, <1>3, <1>4, ContextFine

(* What every handler does.                                                *)
Handled(a) ==
  /\ running /\ Become(engine')
  /\ served' \subseteq MessageId /\ verdict' \in BootStates /\ disconnects' \in Nat
  /\ Fine(engine', {}, {}, During(a))
  /\ a => \E r \in Requests : r.triggered /\ Call(r)

Handler ==
  \/ \E r \in Requests : Call(r)
  \/ \E s \in DOMAIN engine.queue : Cancel(s)
  \/ Shutdown \/ Connected \/ Disconnected \/ Timeout \/ Receive \/ OtherTraffic

LEMMA HandlersAreFine ==
  ASSUME StepInv, Handler
  PROVE  Handled(TRUE) \/ Handled(FALSE)
<1>1. TypeOK /\ served \subseteq MessageId /\ verdict \in BootStates /\ disconnects \in Nat
  BY DEF StepInv, IndInv, TypeOK
<1>2. ASSUME NEW new, running, Become(new), served' \in {served, {}}, verdict' = verdict,
             disconnects' \in Nat,
             Fine(new, {}, {}, During(FALSE))
      PROVE  Handled(FALSE)
  BY <1>1, <1>2 DEF Handled, Become
<1>3. ASSUME running, served' \in {served, {}}, verdict' = verdict, NEW a
      PROVE  Fine(engine, {}, {}, During(a))
  BY <1>3, BeginFine
<1>4. ASSUME NEW r \in Requests, Call(r) PROVE Handled(TRUE) \/ Handled(FALSE)
  <2>1. /\ r \in Request /\ running /\ engine.next_token \in Tokens /\ Become(call_with(engine, r))
        /\ UNCHANGED <<served, verdict, disconnects>>
    BY <1>4, EngineAssumption DEF Call, Live
  <2>2. CASE r.triggered
    <3>1. Asked(During(TRUE), engine.next_token)
      BY <1>1, DuringFields DEF Asked
    <3>2. Fine(call_with(engine, r), {}, {}, During(TRUE))
      BY <1>3, <2>1, <3>1, CallWithFine
    <3> QED BY <1>1, <1>4, <2>1, <2>2, <3>2 DEF Handled, Become
  <2>3. CASE ~r.triggered
    <3>1. Fine(call_with(engine, r), {}, {}, During(FALSE))
      BY <1>3, <2>1, <2>3, CallWithFine
    <3> QED BY <1>1, <1>2, <2>1, <3>1
  <2> QED BY <2>2, <2>3
<1>5. ASSUME NEW s \in DOMAIN engine.queue, Cancel(s) PROVE Handled(FALSE)
  <2>1. running /\ Become(cancel(engine, s)) /\ UNCHANGED <<served, verdict, disconnects>>
    BY <1>5 DEF Cancel, Live
  <2>2. Fine(cancel(engine, s), {}, {}, During(FALSE))
    BY <1>3, <2>1, CancelFine
  <2> QED BY <1>1, <1>2, <2>1, <2>2
<1>6. CASE Shutdown
  <2>1. running /\ Become(shutdown(engine)) /\ UNCHANGED <<served, verdict, disconnects>>
    BY <1>6 DEF Shutdown, Live
  <2>2. Fine(shutdown(engine), {}, {}, During(FALSE))
    BY <1>3, <2>1, ShutdownFine
  <2> QED BY <1>1, <1>2, <2>1, <2>2
<1>7. CASE Connected
  <2>1. running /\ Become(on_connected(engine)) /\ UNCHANGED <<served, verdict, disconnects>>
    BY <1>7 DEF Connected, Live
  <2>2. Fine(on_connected(engine), {}, {}, During(FALSE))
    BY <1>3, <2>1, OnConnectedFine
  <2> QED BY <1>1, <1>2, <2>1, <2>2
<1>8. CASE Disconnected
  <2>1. /\ running /\ Become(on_disconnected(engine)) /\ served' = {} /\ verdict' = verdict
        /\ disconnects' \in Nat
    BY <1>1, <1>8 DEF Disconnected, Live
  <2>2. During(FALSE).served = {}
    BY <1>1, <2>1, DuringFields
  <2>3. Fine(on_disconnected(engine), {}, {}, During(FALSE))
    BY <1>3, <2>1, <2>2, OnDisconnectedFine
  <2> QED BY <1>2, <2>1, <2>3
<1>9. CASE Timeout
  <2> DEFINE tm == [t \in Timers |-> IF Expired(engine.timers[t]) THEN Never
                                     ELSE engine.timers[t]]
             fired == [engine EXCEPT !.timers = tm]
  <2>1. running /\ Become(on_timeout(fired)) /\ UNCHANGED <<served, verdict, disconnects>>
    BY <1>9 DEF Timeout, Live
  <2>2. Fine(engine, {}, {}, During(FALSE))
    BY <1>3, <2>1
  <2>3. Fine(fired, {}, {"CallTimeout", "Heartbeat", "BootRetry", "DrainDeadline"}, During(FALSE))
    BY <2>2, FiredFine
  <2> HIDE DEF fired
  <2>4. Fine(on_timeout(fired), {}, {}, During(FALSE))
    BY <2>3, OnTimeoutFine
  <2> QED BY <1>1, <1>2, <2>1, <2>4
<1>10. CASE OtherTraffic
  <2>1. running /\ Become(arm_heartbeat(engine)) /\ UNCHANGED <<served, verdict, disconnects>>
    BY <1>10 DEF OtherTraffic, Live
  <2>2. Fine(arm_heartbeat(engine), {}, {}, During(FALSE))
    <3>1. Fine(arm_heartbeat(engine), {}, {} \ {"Idle"}, During(FALSE))
      BY <1>3, <2>1, ArmFine
    <3>2. {} \ {"Idle"} = {}
      OBVIOUS
    <3> QED BY <3>1, <3>2
  <2> QED BY <1>1, <1>2, <2>1, <2>2
<1>11. CASE Receive
  <2> PICK id \in engine.wire \cup {ForeignId} :
             \/ \E status \in Verdicts \cup {"Unusable"}, interval \in BootIntervals :
                  ReceiveResult(id, status, interval)
             \/ ReceiveError(id)
    BY <1>11 DEF Receive
  <2> DEFINE k == During(FALSE)
             e == arm_heartbeat(engine)
  <2>1. /\ IsContext(Now) /\ Now.old = engine /\ Now.sent = sent /\ Now.lost = lost
        /\ Now.verdict = verdict /\ Now.served = served /\ Now.before = served
        /\ Now.asked = FALSE
    BY <1>1, NowFields
  <2>2. /\ IsContext(k) /\ k.old = engine /\ k.sent = sent /\ k.lost = lost /\ k.before = served
        /\ k.verdict = verdict' /\ k.served = served' /\ k.asked = FALSE
    BY <1>1, DuringFields
  <2>3. EngineTypeOK(engine) /\ engine.wire \subseteq MessageId
    BY <1>1 DEF TypeOK, EngineTypeOK
  <2>4. Quiet(engine, e)
    BY <2>3, ArmFields
  <2> HIDE DEF k, e
  <2>5. ASSUME running, served' = served \cup (engine.wire \cap {id})
        PROVE  Fine(e, {}, {}, Now) /\ Arrives(e, Now, k, id) /\ served' \subseteq MessageId
    <3>1. Fine(engine, {}, {}, Now)
      BY <2>5 DEF StepInv
    <3>2. Fine(e, {}, {} \ {"Idle"}, Now) /\ {} \ {"Idle"} = {}
      BY <3>1, ArmFine DEF e
    <3>3. e.inflight = engine.inflight /\ e.wire = engine.wire /\ e.outcome = engine.outcome
      BY <2>4 DEF Quiet
    <3>4. Transmitted(engine, e) = {}
      BY <3>3 DEF Transmitted
    <3>5. Arrives(e, Now, k, id)
      BY <2>1, <2>2, <2>5, <3>3, <3>4 DEF Arrives
    <3> QED BY <1>1, <2>3, <2>5, <3>2, <3>5
  <2>6. ASSUME NEW status \in Verdicts \cup {"Unusable"}, NEW interval \in BootIntervals,
               ReceiveResult(id, status, interval)
        PROVE  Handled(FALSE)
    <3> DEFINE new == on_call_result(e, id, status, interval)
    <3>1. /\ running /\ Become(new) /\ served' = served \cup (engine.wire \cap {id})
          /\ verdict' = IF /\ take_inflight(engine, id)
                           /\ engine.inflight.action = "BootNotification"
                           /\ status \in Verdicts
                        THEN status ELSE verdict
          /\ UNCHANGED disconnects
      BY <2>6, Zenon DEF ReceiveResult, Live, e
    <3>2. e.inflight = engine.inflight
      BY <2>4 DEF Quiet
    <3>3. take_inflight(engine, id) <=> take_inflight(e, id)
      BY <3>2 DEF take_inflight
    <3>4. k.verdict = IF /\ take_inflight(e, id)
                         /\ e.inflight.action = "BootNotification"
                         /\ status \in Verdicts
                      THEN status ELSE Now.verdict
      BY <2>1, <2>2, <3>1, <3>2, <3>3
    <3>5. interval \in Nat
      BY EngineAssumption
    <3>6. Fine(new, {}, {}, k)
      BY <2>5, <3>1, <3>4, <3>5, OnCallResultFine
    <3>7. verdict' \in BootStates /\ served' \subseteq MessageId /\ disconnects' \in Nat
      BY <1>1, <2>5, <3>1 DEF Verdicts, BootStates
    <3> HIDE DEF new
    <3> QED BY <3>1, <3>6, <3>7 DEF Handled, Become, k
  <2>7. ASSUME ReceiveError(id) PROVE Handled(FALSE)
    <3> DEFINE new == on_call_error(e, id)
    <3>1. /\ running /\ Become(new) /\ served' = served \cup (engine.wire \cap {id})
          /\ UNCHANGED <<verdict, disconnects>>
      BY <2>7, Zenon DEF ReceiveError, Live, e
    <3>2. k.verdict = Now.verdict
      BY <2>1, <2>2, <3>1
    <3>3. Fine(new, {}, {}, k) /\ served' \subseteq MessageId
      BY <2>5, <3>1, <3>2, OnCallErrorFine
    <3> HIDE DEF new
    <3> QED BY <1>1, <3>1, <3>3 DEF Handled, Become, k
  <2> QED BY <2>6, <2>7
<1> QED
  BY <1>4, <1>5, <1>6, <1>7, <1>8, <1>9, <1>10, <1>11 DEF Handler

(* The next handler begins in the context that the last one leaves.        *)
LEMMA NextContext ==
  ASSUME TypeOK'
  PROVE  /\ IsContext(Now') /\ Now'.old = engine' /\ Now'.sent = sent' /\ Now'.lost = lost'
         /\ Now'.verdict = verdict' /\ Now'.served = served'
BY DEF Now, IsContext, TypeOK

LEMMA HandledStepInv ==
  ASSUME StepInv, NEW a, Handled(a)
  PROVE  StepInv'
<1>1. IndInv /\ TypeOK
  BY DEF StepInv, IndInv
<1>2. Good(engine', {})
  BY DEF Handled, Fine
<1>3. IndInv' /\ TypeOK'
  BY <1>1, <1>2, BecomeIndInv DEF Handled, IndInv
<1>4. /\ running'
      /\ \A t \in Tokens : /\ sent'[t] = Used(engine', During(a), t)
                           /\ lost'[t] = Missed(engine', During(a), t)
  BY DEF Handled, Become, Used, Missed, During
<1>5. /\ IsContext(Now') /\ Now'.old = engine' /\ Now'.sent = sent' /\ Now'.lost = lost'
      /\ Now'.verdict = verdict' /\ Now'.served = served'
  BY <1>3, NextContext
<1>6. During(a).verdict = verdict' /\ During(a).served = served'
  BY <1>1, DuringFields
<1>7. Fine(engine', {}, {}, Now')
  BY <1>4, <1>5, <1>6, RebaseFine DEF Handled
<1> QED BY <1>3, <1>4, <1>7 DEF StepInv

LEMMA TickStepInv ==
  ASSUME StepInv, Tick, IndInv'
  PROVE  StepInv'
<1>1. TypeOK /\ TypeOK' /\ running' /\ Fine(engine, {}, {}, Now)
  BY DEF StepInv, IndInv, Tick
<1>2. engine' = advance(engine) /\ UNCHANGED <<served, verdict, sent, lost>>
  BY DEF Tick
<1>3. /\ IsContext(Now) /\ Now.old = engine /\ Now.sent = sent /\ Now.lost = lost
      /\ Now.verdict = verdict /\ Now.served = served /\ Transmitted(Now.old, engine) = {}
  BY <1>1, NowFields
<1>4. /\ IsContext(Now') /\ Now'.old = engine' /\ Now'.sent = sent' /\ Now'.lost = lost'
      /\ Now'.verdict = verdict' /\ Now'.served = served'
  BY <1>1, NextContext
<1>5. /\ Fine(engine', {}, {}, Now)
      /\ \A t : Used(engine', Now, t) = Used(engine, Now, t) /\ Missed(engine', Now, t) = Missed(engine, Now, t)
  BY <1>1, <1>2, AdvanceFine
<1>6. \A t \in Tokens : sent[t] = Used(engine, Now, t) /\ lost[t] = Missed(engine, Now, t)
  <2> TAKE t \in Tokens
  <2>1. Unrecorded(Now.old, engine, t) = 0
    BY <1>3, NothingUnrecorded
  <2>2. lost[t] \in Nat /\ Missed(engine, Now, t) = lost[t] + Unrecorded(Now.old, engine, t)
    BY <1>3, MissedIsNat
  <2> QED BY <1>3, <2>1, <2>2, UsedIsNat
<1>7. \A t \in Tokens : Now'.sent[t] = Used(engine', Now, t) /\ Now'.lost[t] = Missed(engine', Now, t)
  BY <1>2, <1>4, <1>5, <1>6
<1>8. Fine(engine', {}, {}, Now')
  BY <1>2, <1>3, <1>4, <1>5, <1>7, RebaseFine
<1> QED BY <1>1, <1>8 DEF StepInv

LEMMA StoreFaultStepInv ==
  ASSUME StepInv, StoreFault, IndInv'
  PROVE  StepInv'
<1>1. TypeOK /\ TypeOK' /\ running' /\ Fine(engine, {}, {}, Now)
  BY DEF StepInv, IndInv, StoreFault, Live
<1>2. /\ engine' = [engine EXCEPT !.store_ok = ~engine.store_ok]
      /\ StoreMayFail /\ UNCHANGED <<served, verdict, sent, lost>>
  BY DEF StoreFault
<1>3. /\ Now.old = engine /\ Now.sent = sent /\ Now.lost = lost
      /\ Now.verdict = verdict /\ Now.served = served
  BY <1>1, NowFields
<1>4. /\ IsContext(Now') /\ Now'.old = engine' /\ Now'.sent = sent' /\ Now'.lost = lost'
      /\ Now'.verdict = verdict' /\ Now'.served = served'
  BY <1>1, NextContext
<1>5. /\ Now'.old = [engine EXCEPT !.store_ok = ~engine.store_ok] /\ Now'.sent = Now.sent
      /\ Now'.lost = Now.lost /\ Now'.verdict = Now.verdict /\ Now'.served = Now.served
  BY <1>2, <1>3, <1>4
<1>6. Fine(engine', {}, {}, Now')
  BY <1>1, <1>2, <1>3, <1>4, <1>5, StoreFaultFine
<1> QED BY <1>1, <1>6 DEF StepInv

(* The process that ends is in the context of its last step: a power cut   *)
(* does nothing more, a driver that stops gives up the connection first.   *)
LEMMA EndFine ==
  ASSUME StepInv, Crash \/ Stop
  PROVE  \E e : Fine(e, {}, {}, During(FALSE)) /\ Halt(e)
<1>1. TypeOK
  BY DEF StepInv, IndInv
<1>2. running /\ served' = {} /\ verdict' = verdict
  BY DEF Crash, Stop, Halt
<1>3. Fine(engine, {}, {}, During(FALSE))
  BY <1>2, BeginFine
<1>4. During(FALSE).served = {}
  BY <1>1, <1>2, DuringFields
<1>5. CASE Crash
  BY <1>3, <1>5 DEF Crash
<1>6. CASE Stop
  BY <1>3, <1>4, <1>6, OnDisconnectedFine DEF Stop
<1> QED BY <1>5, <1>6

LEMMA HaltStepInv ==
  ASSUME StepInv, NEW e, Fine(e, {}, {}, During(FALSE)), Halt(e)
  PROVE  StepInv'
<1>1. engine' = Halted(e) /\ ~running' /\ halts' = halts + 1 /\ UNCHANGED <<verdict, sent>> /\ served' = {}
  BY Zenon DEF Halt, Halted
<1>2. IndInv /\ TypeOK /\ Good(e, {})
  BY DEF StepInv, IndInv, Fine
<1>3. IndInv' /\ TypeOK'
  BY <1>2, HaltIndInv DEF IndInv
<1>4. During(FALSE).old = engine /\ During(FALSE).sent = sent /\ During(FALSE).lost = lost
  BY <1>2, DuringFields
<1>5. IsContext(Now') /\ Now'.sent = sent' /\ Now'.lost = lost' /\ Now'.served = served'
  BY <1>3, NextContext
<1>6. \A t \in Tokens : lost'[t] = Missed(e, During(FALSE), t) + Flying(e, t)
  <2>1. lost' = [t \in Tokens |-> (lost[t] + Unrecorded(engine, e, t))
                   + IF e.inflight # None /\ e.inflight.token = t THEN 1 ELSE 0]
    BY DEF Halt
  <2> QED BY <1>4, <2>1 DEF Missed, Flying
<1>7. Now'.sent = During(FALSE).sent /\ Now'.served = {}
      /\ \A t \in Tokens : Now'.lost[t] = Missed(e, During(FALSE), t) + Flying(e, t)
  BY <1>1, <1>4, <1>5, <1>6
<1>8. Rests(Halted(e), Now')
  BY <1>5, <1>7, HaltedRests
<1> QED BY <1>1, <1>3, <1>8 DEF StepInv

LEMMA InitStepInv ==
  Init => StepInv
<1> SUFFICES ASSUME Init PROVE StepInv
  OBVIOUS
<1> DEFINE o == [t \in Tokens |-> "Open"]
           z == [s \in {} |-> 0]
           e == [connected |-> FALSE, boot |-> "Idle", inflight |-> None, queue |-> z,
                 next_token |-> 1, heartbeat_interval |-> 0, heartbeat_at |-> Never,
                 boot_retry_at |-> Never, draining |-> Never, close |-> "No",
                 store |-> NoMessages, store_ok |-> TRUE,
                 timers |-> [t \in Timers |-> Never], outcome |-> o, wire |-> {}]
<1>1. IndInv /\ TypeOK /\ running
  BY InitIndInv DEF IndInv, Init
<1>2. DOMAIN NoMessages = {} /\ DOMAIN z = {}
  BY DEF NoMessages
<1>3. o \in [Tokens -> Outcomes] /\ \A t \in Tokens : o[t] = "Open"
  BY DEF Outcomes
<1>4. /\ EngineTypeOK(e) /\ e.queue = z /\ e.inflight = None /\ e.store = NoMessages
      /\ e.outcome = o /\ e.next_token = 1 /\ e.store_ok = TRUE
  <2> HIDE DEF o, z
  <2>1. "Idle" \in BootStates
    BY DEF BootStates
  <2> QED BY <1>2, <1>3, <2>1 DEF EngineTypeOK
<1> HIDE DEF e
<1>5. engine = with_store(e.store, e.outcome, e.next_token, e.store_ok)
  BY <1>4 DEF Init
<1>6. Dead(e)
  BY <1>2, <1>3, <1>4 DEF Dead, Tokens
<1>7. /\ IsContext(Now) /\ Now.old = engine /\ Now.served = {}
      /\ \A t \in Tokens : Now.sent[t] = 0
  BY <1>1, NowFields DEF Init
<1>8. Rests(e, Now)
  BY <1>2, <1>3, <1>4, <1>7 DEF Rests
<1>9. Fine(engine, {}, {}, Now)
  BY <1>5, <1>6, <1>7, <1>8, WithStoreFine
<1> QED BY <1>1, <1>9 DEF StepInv

LEMMA NextStepInv ==
  StepInv /\ [Next]_vars => StepInv'
<1> SUFFICES ASSUME StepInv, [Next]_vars PROVE StepInv'
  OBVIOUS
<1>1. IndInv /\ TypeOK /\ IndInv' /\ TypeOK'
  BY NextIndInv DEF StepInv, IndInv
<1>4. CASE Handler
  BY <1>4, HandlersAreFine, HandledStepInv
<1>5. CASE Tick
  BY <1>1, <1>5, TickStepInv
<1>6. CASE StoreFault
  BY <1>1, <1>6, StoreFaultStepInv
<1>7. CASE Crash \/ Stop
  BY <1>7, EndFine, HaltStepInv
<1>9. CASE Restart
  <2>1. /\ ~running /\ running' /\ UNCHANGED <<served, sent, lost>>
        /\ engine' = with_store(engine.store, engine.outcome, engine.next_token, engine.store_ok)
    BY <1>9 DEF Restart
  <2>2. Dead(engine) /\ Rests(engine, Now)
    BY <1>1, <2>1 DEF StepInv, IndInv
  <2>3. Now'.old = engine' /\ Now'.sent = Now.sent /\ Now'.lost = Now.lost /\ Now'.served = Now.served
    BY <2>1 DEF Now
  <2>4. Fine(engine', {}, {}, Now')
    BY <2>1, <2>2, <2>3, WithStoreFine
  <2> QED BY <1>1, <2>1, <2>4 DEF StepInv
<1>10. CASE UNCHANGED vars
  <2>1. /\ engine' = engine /\ running' = running /\ Now' = Now
    BY <1>10 DEF vars, Now
  <2> QED BY <1>1, <2>1 DEF StepInv
<1> QED
  BY <1>4, <1>5, <1>6, <1>7, <1>9, <1>10 DEF Next, Handler

-----------------------------------------------------------------------------
(* The results.                                                            *)

(* The engine's deadlines, counters, gate and outcomes agree with what has *)
(* happened on the wire, between any two handlers of any behaviour.        *)
THEOREM StepInvariance ==
  Spec => []StepInv
BY InitStepInv, NextStepInv, PTL DEF Spec

(* A message goes out as often as its kind allows, whatever disconnections *)
(* and timeouts it goes through, and once more for each transmission that  *)
(* the store was never told of: one that a power cut fell into, or whose   *)
(* end a failing store did not take.                                       *)
THEOREM RetriesAreBounded ==
  Spec => []RetryBudget
<1>1. StepInv => RetryBudget
  <2> SUFFICES ASSUME StepInv PROVE RetryBudget
    OBVIOUS
  <2>1. TypeOK /\ EngineTypeOK(engine)
    BY DEF StepInv, IndInv, TypeOK
  <2>2. /\ IsContext(Now) /\ Now.sent = sent /\ Now.lost = lost
        /\ Now.old = engine /\ Transmitted(Now.old, engine) = {}
    BY <2>1, NowFields
  <2>3. CASE running
    <3>1. \A t \in Tokens : /\ sent[t] \in Nat /\ lost[t] \in Nat
                            /\ Used(engine, Now, t) = sent[t] /\ Missed(engine, Now, t) = lost[t]
      <4> TAKE t \in Tokens
      <4>1. Unrecorded(Now.old, engine, t) = 0
        BY <2>2, NothingUnrecorded
      <4>2. lost[t] \in Nat /\ Missed(engine, Now, t) = lost[t] + Unrecorded(Now.old, engine, t)
        BY <2>2, MissedIsNat
      <4> QED BY <2>2, <4>1, <4>2, UsedIsNat
    <3>2. Counted(engine, Now) /\ Counters(engine)
      BY <2>3 DEF StepInv, Fine
    <3>3. \A t \in Tokens : engine.outcome[t] = "Sent" => sent[t] <= 1 + lost[t]
      BY <3>1, <3>2 DEF Counted, Within
    <3>4. ASSUME engine.inflight # None
          PROVE  sent[engine.inflight.token] <= Allowance(engine.inflight.action) + lost[engine.inflight.token]
      <4> DEFINE f == engine.inflight
      <4>1. f.token \in Tokens /\ f.attempts \in Nat
        BY <2>1, <3>4 DEF EngineTypeOK, InFlight
      <4>2. sent[f.token] <= f.attempts + lost[f.token]
        BY <3>1, <3>2, <3>4, <4>1 DEF Counted, Within
      <4>3. f.attempts <= Allowance(f.action) /\ Allowance(f.action) \in Nat
        BY <3>2, <3>4, <4>1, EngineAssumption DEF Counters, Tries, Allowance
      <4> QED BY <3>1, <4>1, <4>2, <4>3
    <3> QED BY <3>3, <3>4 DEF RetryBudget, InFlightTokens
  <2>4. CASE ~running
    <3>1. Rests(engine, Now) /\ engine.inflight = None
      BY <2>4 DEF StepInv, IndInv, Dead
    <3> QED BY <2>2, <3>1 DEF Rests, RetryBudget, InFlightTokens
  <2> QED BY <2>3, <2>4
<1> QED BY <1>1, StepInvariance, PTL

(* What a step may report as answered.                                     *)
AnsweredStep ==
  \A t \in Tokens :
    engine.outcome[t] = "Open" /\ engine'.outcome[t] \in {"Result", "Rejected"} =>
      t \in InFlightTokens(engine) /\ IdOf(engine.inflight) \in served' \ served

LEMMA EveryAnswerIsThePeers ==
  ASSUME StepInv, Next
  PROVE  AnsweredStep
<1>1. TypeOK
  BY DEF StepInv, IndInv
<1>2. ASSUME NEW a, NEW e, Answered(e, During(a)),
             \A t \in Tokens : engine'.outcome[t] \in {"Result", "Rejected"} =>
                               e.outcome[t] = engine'.outcome[t]
      PROVE  AnsweredStep
  <2>1. During(a).old = engine /\ During(a).served = served' /\ During(a).before = served
    BY <1>1, DuringFields
  <2> QED BY <1>2, <2>1 DEF Answered, Completed, AnsweredStep, InFlightTokens
<1>3. CASE Handler
  BY <1>2, <1>3, HandlersAreFine DEF Handled, Fine
<1>4. CASE Tick \/ StoreFault
  <2>1. engine'.outcome = engine.outcome
    <3>1. CASE Tick
      BY <1>1, <3>1, AdvanceElapsed DEF Tick, TypeOK, Elapsed
    <3>2. CASE StoreFault
      BY <1>1, <3>2 DEF StoreFault, TypeOK, EngineTypeOK
    <3> QED BY <1>4, <3>1, <3>2
  <2> QED BY <2>1 DEF AnsweredStep
<1>5. CASE Crash \/ Stop
  <2>1. PICK e : Fine(e, {}, {}, During(FALSE)) /\ Halt(e)
    BY <1>5, EndFine
  <2>2. engine'.outcome = [t \in Tokens |->
            IF t < e.next_token /\ e.outcome[t] = "Open" /\ t \notin Persistent(e)
            THEN "Lost" ELSE e.outcome[t]]
    <3>1. engine' = Halted(e)
      BY <2>1, Zenon DEF Halt, Halted
    <3> QED BY <3>1 DEF Halted, with_store
  <2> QED BY <1>2, <2>1, <2>2 DEF Fine
<1>6. CASE Restart
  <2>1. engine'.outcome = [t \in Tokens |-> IF t \in DOMAIN engine.store THEN "Open" ELSE engine.outcome[t]]
    BY <1>6 DEF Restart, with_store
  <2> QED BY <2>1 DEF AnsweredStep
<1> QED
  BY <1>3, <1>4, <1>5, <1>6 DEF Next, Handler

(* A call is reported answered only in the step that brings the first      *)
(* answer to the very transmission it has in flight, whatever late,        *)
(* repeated and foreign answers arrive.                                    *)
THEOREM AnswersAreThePeers ==
  Spec => AnsweredByPeer
<1>1. StepInv /\ [Next]_vars => [AnsweredStep]_vars
  BY EveryAnswerIsThePeers
<1> QED BY <1>1, StepInvariance, PTL DEF Spec, AnsweredByPeer, AnsweredStep

(* Every deadline the engine waits for has a driver timer that fires no    *)
(* later, and an accepted station waits for its next heartbeat.            *)
THEOREM DeadlinesHaveTimers ==
  Spec => []TimersArmed
<1>1. StepInv => TimersArmed
  <2> SUFFICES ASSUME StepInv, running PROVE TimersArmed
    BY DEF TimersArmed
  <2>1. EngineTypeOK(engine) /\ Watched(engine, {}) /\ Alive(engine, {})
    BY DEF StepInv, Fine, Good
  <2>2. \A timer, at : at \in Nat \cup {Never} /\ Match(engine, {}, timer, at) => Covered(timer, at)
    BY DEF Match, Covered
  <2>3. engine.inflight # None => Covered("CallTimeout", engine.inflight.deadline)
    BY <2>1, <2>2 DEF Watched, EngineTypeOK, InFlight
  <2>4. \A s \in DOMAIN engine.queue :
          engine.queue[s].not_before > 0 => Covered("TransactionRetry", engine.queue[s].not_before)
    BY <2>1 DEF Watched, Covered, EngineTypeOK, Pending
  <2>5. /\ Covered("Heartbeat", engine.heartbeat_at)
        /\ Covered("BootRetry", engine.boot_retry_at)
        /\ Covered("DrainDeadline", engine.draining)
    BY <2>1, <2>2 DEF Watched, EngineTypeOK
  <2>6. HeartbeatAlive
    BY <2>1 DEF Alive, HeartbeatAlive
  <2> QED BY <2>3, <2>4, <2>5, <2>6 DEF TimersArmed
<1> QED BY <1>1, StepInvariance, PTL

(* What a step may put on the wire before the station is accepted.         *)
GateStep ==
  EnforceBootGate =>
    \A t \in Transmitted(engine, engine') :
      \/ verdict' = "Accepted"
      \/ /\ engine'.inflight # None /\ engine'.inflight.token = t
         /\ \/ engine'.inflight.action = "BootNotification"
            \/ engine'.inflight.triggered
      \/ \E s \in DOMAIN engine.queue :
            engine.queue[s].token = t /\ engine.queue[s].triggered
      \/ t = engine.next_token /\ \E r \in Requests : r.triggered /\ Call(r)

LEMMA HaltGate ==
  ASSUME StepInv, NEW e, Fine(e, {}, {}, During(FALSE)), Halt(e)
  PROVE  GateStep
<1>1. engine' = Halted(e)
  BY Zenon DEF Halt, Halted
<1>2. /\ engine'.inflight = None
      /\ engine'.outcome = [t \in Tokens |->
            IF t < e.next_token /\ e.outcome[t] = "Open" /\ t \notin Persistent(e)
            THEN "Lost" ELSE e.outcome[t]]
  BY <1>1 DEF Halted, with_store
<1>3. TypeOK /\ Gated(e, During(FALSE)) /\ Good(e, {})
  BY DEF StepInv, IndInv, Fine
<1>4. During(FALSE).old = engine /\ During(FALSE).verdict = verdict' /\ ~During(FALSE).asked
  BY <1>3, DuringFields
<1>5. SUFFICES ASSUME EnforceBootGate, NEW t \in Transmitted(engine, engine')
               PROVE  \/ verdict' = "Accepted"
                      \/ \E s \in DOMAIN engine.queue :
                           engine.queue[s].token = t /\ engine.queue[s].triggered
  BY DEF GateStep
<1>6. t \in Tokens /\ engine'.outcome[t] = "Sent" /\ engine.outcome[t] # "Sent"
  BY <1>2 DEF Transmitted
<1>7. e.outcome[t] = "Sent" /\ t \in Transmitted(engine, e)
  BY <1>2, <1>6 DEF Transmitted
<1>8. ~(e.inflight # None /\ e.inflight.token = t)
  BY <1>3, <1>6, <1>7 DEF Good, FatesOK, FlightOK, Holds
<1> QED BY <1>3, <1>4, <1>5, <1>7, <1>8 DEF Gated, Asked

LEMMA EveryStepIsGated ==
  ASSUME StepInv, Next
  PROVE  GateStep
<1>1. TypeOK
  BY DEF StepInv, IndInv
<1>2. running => Fine(engine, {}, {}, Now)
  BY DEF StepInv
<1>3. Now.old = engine /\ Transmitted(engine, engine) = {}
  BY <1>1, NowFields
<1>4. ASSUME NEW a, Handled(a) PROVE GateStep
  <2>1. /\ During(a).old = engine /\ During(a).verdict = verdict' /\ During(a).asked = a
    BY <1>1, DuringFields
  <2>2. Gated(engine', During(a))
    BY <1>4 DEF Handled, Fine
  <2>3. \A t : Asked(During(a), t) =>
          \/ \E s \in DOMAIN engine.queue :
               engine.queue[s].token = t /\ engine.queue[s].triggered
          \/ t = engine.next_token /\ \E r \in Requests : r.triggered /\ Call(r)
    BY <1>4, <2>1 DEF Asked, Handled
  <2> QED BY <2>1, <2>2, <2>3 DEF Gated, GateStep
<1>5. CASE Handler
  BY <1>4, <1>5, HandlersAreFine
<1>6. CASE Tick
  <2>1. Transmitted(engine, engine') = {}
    BY <1>2, <1>3, <1>6, AdvanceFine DEF Tick
  <2> QED BY <2>1 DEF GateStep
<1>7. CASE StoreFault
  <2>1. engine'.inflight = engine.inflight /\ engine'.outcome = engine.outcome
    BY <1>1, <1>7 DEF StoreFault, TypeOK, EngineTypeOK
  <2>2. Transmitted(engine, engine') = {}
    BY <2>1 DEF Transmitted
  <2> QED BY <2>2 DEF GateStep
<1>8. CASE Crash \/ Stop
  BY <1>8, EndFine, HaltGate
<1>10. CASE Restart
  <2>1. /\ engine'.inflight = None
        /\ \A t \in Tokens : engine'.outcome[t] = "Sent" => engine.outcome[t] = "Sent"
    BY <1>10 DEF Restart, with_store
  <2>2. Transmitted(engine, engine') = {}
    BY <2>1 DEF Transmitted
  <2> QED BY <2>2 DEF GateStep
<1> QED
  BY <1>5, <1>6, <1>7, <1>8, <1>10 DEF Next, Handler

(* B02.FR.02: before the CSMS accepts the station, nothing leaves it but a *)
(* BootNotification or a message the CSMS has asked for.                   *)
THEOREM BootGateHolds ==
  Spec => BootGate
<1>1. StepInv /\ [Next]_vars => [GateStep]_vars
  BY EveryStepIsGated
<1> QED BY <1>1, StepInvariance, PTL DEF Spec, BootGate, GateStep
=============================================================================
