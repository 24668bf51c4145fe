------------------------------- MODULE Engine -------------------------------
(***************************************************************************)
(* The outgoing half of the sans-I/O engine (src/src/engine/mod.rs): the   *)
(* queue of calls, the one CALL in flight, the durable store, the          *)
(* transaction retries, the station's boot gate, the idle heartbeat, the   *)
(* graceful drain, and what a lost connection or a power cut does to them. *)
(* The incoming half is module PeerRequests.                               *)
(*                                                                         *)
(* struct Engine is the record `engine', and each &mut self method is an   *)
(* operator of the same name from the record before it to the record after *)
(* it, so a handler is the composition of the methods it calls, in order.  *)
(* The driver's share of the outputs is kept in the same record: the       *)
(* timers it has armed, the outcomes it has reported, the frames that are  *)
(* on the wire.                                                            *)
(*                                                                         *)
(* Time: an Instant is the number of ticks still to go, 0 when it has      *)
(* passed (`now >= at'), Never for Option::None.  Tick moves them all.     *)
(*                                                                         *)
(* The deque: `queue' is a function from slots, integers in queue order,   *)
(* to entries.  push_back takes the slot of the new token, push_front the  *)
(* slot before the first one.                                              *)
(*                                                                         *)
(* A message keeps its token for life: it is its sequence number in the    *)
(* store too, and with_store, which mints fresh tokens in that order, is   *)
(* modelled as reopening the old ones (no caller of the old process is     *)
(* left to tell the difference).                                           *)
(***************************************************************************)
EXTENDS Integers, FiniteSets, FiniteSetsExt, Functions

CONSTANTS
  None,               \* no call in flight
  Requests,           \* the calls the application may make
  MaxTokens,          \* bound: calls made in a behaviour, heartbeats included
  MaxQueued,          \* OfflinePolicy::max_queued
  CallTimeout,        \* EngineConfig::call_timeout, in ticks
  RetryAttempts,      \* RetryPolicy::attempts
  RetryInterval,      \* RetryPolicy::interval
  EnforceBootGate,    \* a Charging Station with enforce_boot_gate
  AutoHeartbeat,      \* a Charging Station with HeartbeatPolicy::Automatic
  BootIntervals,      \* the intervals a BootNotificationResponse may carry
  BootRetryFallback,  \* EngineConfig::boot_retry_fallback
  DrainTime,          \* the deadline the application gives to shutdown
  MaxDisconnects,     \* bound: connections lost in a behaviour
  MaxHalts,           \* bound: processes that end, by power cut or drain
  StoreMayFail        \* whether writes to the store may fail

Never == -1

Actions == {"BootNotification", "Heartbeat", "TransactionEvent",
            "StatusNotification", "NotifyPeriodicEventStream"}

(* actions::is_transaction_related and actions::kind, one action of each class. *)
transactional(action) == action = "TransactionEvent"
is_send(action) == action = "NotifyPeriodicEventStream"

(* An action with the CallOptions resolved against their defaults. *)
Request == [action : Actions, persist : BOOLEAN,
            queue_when_offline : BOOLEAN, triggered : BOOLEAN]

Timers == {"CallTimeout", "Heartbeat", "BootRetry", "TransactionRetry", "DrainDeadline"}
BootStates == {"Idle", "Pending", "Accepted", "Rejected"}
Verdicts == {"Pending", "Accepted", "Rejected"}
Outcomes == {"Open", "Result", "Sent", "Rejected", "Timeout", "Disconnected",
             "RetriesExhausted", "QueueFull", "Cancelled", "Lost"}

ASSUME EngineAssumption ==
  /\ Requests \subseteq Request
  /\ MaxTokens \in Nat /\ MaxQueued \in Nat
  /\ CallTimeout \in Nat /\ RetryAttempts \in Nat /\ RetryInterval \in Nat
  /\ EnforceBootGate \in BOOLEAN /\ AutoHeartbeat \in BOOLEAN
  /\ BootIntervals \subseteq Nat /\ BootRetryFallback \in Nat /\ DrainTime \in Nat
  /\ MaxDisconnects \in Nat /\ MaxHalts \in Nat /\ StoreMayFail \in BOOLEAN

Tokens == 1..MaxTokens

(* struct Pending and struct InFlight; `persist' is `seq' being Some. *)
Pending == [token : Tokens, action : Actions, persist : BOOLEAN,
            queue_when_offline : BOOLEAN, triggered : BOOLEAN,
            attempts : Nat, not_before : Nat \cup {Never}]
InFlight == [token : Tokens, action : Actions, persist : BOOLEAN,
             queue_when_offline : BOOLEAN, triggered : BOOLEAN,
             attempts : Nat, deadline : Nat]

(* A MessageId: unique per transmission, on the connection it was made on. *)
MessageId == [token : Tokens, attempt : Nat]
IdOf(f) == [token |-> f.token, attempt |-> f.attempts]
ForeignId == [token |-> 0, attempt |-> 0]  \* one that no transmission has had

ASSUME NoneAssumption == None \notin InFlight

VARIABLES
  engine,       \* struct Engine and what the driver has done with its outputs
  running,      \* whether the process is up
  served,       \* the transmissions of this connection the peer has answered
  verdict,      \* the peer's last usable answer to a BootNotification
  sent,         \* how often each message has been transmitted
  lost,         \* how many of these the store was never told of
  disconnects, halts

vars == <<engine, running, served, verdict, sent, lost, disconnects, halts>>

-----------------------------------------------------------------------------
(* Outputs, as the driver carries them out. *)

set_timer(e, timer, at) == [e EXCEPT !.timers[timer] = at]
clear_timer(e, timer) == [e EXCEPT !.timers[timer] = Never]
fail(e, token, why) == [e EXCEPT !.outcome[token] = why]

(* MessageStore::ack and set_attempts; a failing store keeps what it had. *)
ack_store(e, tokens) ==
  IF e.store_ok
  THEN [e EXCEPT !.store = Restrict(e.store, DOMAIN e.store \ tokens)]
  ELSE e
set_attempts(e, token, n) ==
  IF e.store_ok /\ token \in DOMAIN e.store
  THEN [e EXCEPT !.store[token].attempts = n]
  ELSE e

(* (Re-)arms the inactivity timer. *)
arm_heartbeat(e) ==
  IF AutoHeartbeat /\ e.heartbeat_interval > 0 /\ e.heartbeat_at # e.heartbeat_interval
  THEN set_timer([e EXCEPT !.heartbeat_at = e.heartbeat_interval],
                 "Heartbeat", e.heartbeat_interval)
  ELSE e

(* Frame out; a CALL can be answered until the connection goes. *)
transmit(e, ids) == arm_heartbeat([e EXCEPT !.wire = e.wire \cup ids])

-----------------------------------------------------------------------------
(* The queue. *)

Queued(e) == {e.queue[s].token : s \in DOMAIN e.queue}

push(q, slot, entry) == [s \in DOMAIN q \cup {slot} |-> IF s = slot THEN entry ELSE q[s]]
remove(q, slots) == Restrict(q, DOMAIN q \ slots)
FrontSlot(q) == Min(DOMAIN q \cup {1}) - 1

eligible_unordered(e, s) ==  \* mutant: a later transaction message overtakes
  LET entry == e.queue[s]
  IN /\ entry.not_before <= 0
     /\ EnforceBootGate => \/ e.boot = "Accepted"
                           \/ entry.action = "BootNotification"
                           \/ entry.triggered
eligible_once_answered(e, s) ==  \* mutant: any answered boot opens the gate
  LET entry == e.queue[s]
  IN /\ entry.not_before <= 0
     /\ transactional(entry.action) =>
          \A u \in DOMAIN e.queue : transactional(e.queue[u].action) => s <= u
     /\ EnforceBootGate => \/ e.boot # "Idle"
                           \/ entry.action = "BootNotification"
                           \/ entry.triggered
(* Whether the entry at a slot may go out right now. *)
eligible(e, s) ==
  LET entry == e.queue[s]
  IN /\ entry.not_before <= 0
     /\ transactional(entry.action) =>
          \A u \in DOMAIN e.queue : transactional(e.queue[u].action) => s <= u
     /\ EnforceBootGate =>
          \/ e.boot = "Accepted"
          \/ entry.action = "BootNotification"
          \/ entry.triggered

(* The first loop of pump: every eligible SEND goes out and is done with. *)
pump_sends(e) ==
  LET slots == {s \in DOMAIN e.queue : is_send(e.queue[s].action) /\ eligible(e, s)}
      tokens == {e.queue[s].token : s \in slots}
  IN IF slots = {} THEN e
     ELSE LET out == ack_store(transmit([e EXCEPT !.queue = remove(@, slots)], {}), tokens)
          IN [out EXCEPT !.outcome =
                [t \in Tokens |-> IF t \in tokens THEN "Sent" ELSE e.outcome[t]]]

Ready(e) == {s \in DOMAIN e.queue : ~is_send(e.queue[s].action) /\ eligible(e, s)}

(* The second loop: the first eligible CALL takes the free slot. *)
pump_call(e) ==
  IF e.inflight # None \/ Ready(e) = {} THEN e
  ELSE LET s == Min(Ready(e))
           entry == e.queue[s]
           call == [token |-> entry.token, action |-> entry.action,
                    persist |-> entry.persist,
                    queue_when_offline |-> entry.queue_when_offline,
                    triggered |-> entry.triggered,
                    attempts |-> entry.attempts + 1,
                    deadline |-> CallTimeout]
       IN set_timer([transmit(e, {IdOf(call)}) EXCEPT !.queue = remove(@, {s}),
                                                      !.inflight = call],
                    "CallTimeout", CallTimeout)

pump(e) == IF e.connected THEN pump_call(pump_sends(e)) ELSE e

drain_complete(e) == e.inflight = None /\ DOMAIN e.queue = {}

check_drain(e) ==
  IF e.draining # Never /\ drain_complete(e)
  THEN [clear_timer(e, "DrainDeadline") EXCEPT !.draining = Never, !.close = "Drained"]
  ELSE e

may_retry_again(attempts) == attempts <= RetryAttempts  \* mutant: off by one
may_retry(attempts) == attempts < RetryAttempts
delay_after(attempts) == RetryInterval * attempts

requeue_acked(e, f) ==  \* mutant: acknowledged when written, not when answered
  LET entry == [token |-> f.token, action |-> f.action, persist |-> f.persist,
                queue_when_offline |-> f.queue_when_offline,
                triggered |-> f.triggered, attempts |-> f.attempts,
                not_before |-> delay_after(f.attempts)]
  IN set_timer([ack_store(e, {f.token}) EXCEPT !.queue = push(@, FrontSlot(@), entry)],
               "TransactionRetry", entry.not_before)
(* Back to the front of the queue, for its next scheduled attempt. *)
requeue(e, f) ==
  LET entry == [token |-> f.token, action |-> f.action, persist |-> f.persist,
                queue_when_offline |-> f.queue_when_offline,
                triggered |-> f.triggered, attempts |-> f.attempts,
                not_before |-> delay_after(f.attempts)]
  IN set_timer([set_attempts(e, f.token, f.attempts) EXCEPT
                  !.queue = push(@, FrontSlot(@), entry)],
               "TransactionRetry", entry.not_before)

(* What happens to a call that lost its answer. *)
requeue_or_fail(e, f, why) ==
  IF transactional(f.action) /\ may_retry(f.attempts) THEN requeue(e, f)
  ELSE fail(ack_store(e, {f.token}), f.token,
            IF transactional(f.action) THEN "RetriesExhausted" ELSE why)

-----------------------------------------------------------------------------
(* The application's interface. *)

mint_token(e) == [e EXCEPT !.next_token = @ + 1]

queue_full(e) == Cardinality(DOMAIN e.queue) >= MaxQueued

call_with(e, r) ==
  LET token == e.next_token
      m == mint_token(e)
      entry == [token |-> token, action |-> r.action, persist |-> r.persist,
                queue_when_offline |-> r.queue_when_offline,
                triggered |-> r.triggered, attempts |-> 0, not_before |-> Never]
      stored == IF r.persist
                THEN [m EXCEPT !.store =
                        push(@, token, [action |-> r.action, attempts |-> 0])]
                ELSE m
  IN IF ~e.connected /\ ~r.queue_when_offline THEN fail(m, token, "Disconnected")
     ELSE IF queue_full(e) THEN fail(m, token, "QueueFull")
     ELSE IF r.persist /\ ~e.store_ok THEN fail(m, token, "QueueFull")
     ELSE pump([stored EXCEPT !.queue = push(@, token, entry)])

cancel(e, s) ==
  LET entry == e.queue[s]
  IN fail(ack_store([e EXCEPT !.queue = remove(@, {s})], {entry.token}),
          entry.token, "Cancelled")

shutdown(e) ==
  check_drain(set_timer([e EXCEPT !.draining = DrainTime], "DrainDeadline", DrainTime))

HeartbeatRequest == [action |-> "Heartbeat", persist |-> FALSE,
                     queue_when_offline |-> FALSE, triggered |-> FALSE]

(* call_with refuses while draining; the model also stops at the token bound. *)
send_heartbeat(e) ==
  IF e.draining = Never /\ e.next_token \in Tokens
  THEN call_with(e, HeartbeatRequest) ELSE e

-----------------------------------------------------------------------------
(* The driver's inputs. *)

on_connected_unarmed(e) ==  \* mutant: the idle timer is not picked up again
  pump([e EXCEPT !.connected = TRUE])
on_connected(e) == pump(arm_heartbeat([e EXCEPT !.connected = TRUE]))

(* Takes the call in flight, if there is one, for requeue_or_fail. *)
lose_inflight(e, why) ==
  IF e.inflight = None THEN e
  ELSE requeue_or_fail([e EXCEPT !.inflight = None], e.inflight, why)

drop_unqueueable_silently(e) ==  \* mutant: dropped without an outcome
  LET slots == {s \in DOMAIN e.queue : ~e.queue[s].queue_when_offline}
  IN [ack_store(e, {e.queue[s].token : s \in slots}) EXCEPT !.queue = remove(@, slots)]
(* Messages that must not survive the outage are failed now. *)
drop_unqueueable(e) ==
  LET slots == {s \in DOMAIN e.queue : ~e.queue[s].queue_when_offline}
      tokens == {e.queue[s].token : s \in slots}
  IN [ack_store(e, tokens) EXCEPT
        !.queue = remove(@, slots),
        !.outcome = [t \in Tokens |-> IF t \in tokens THEN "Disconnected" ELSE e.outcome[t]]]

on_disconnected(e) ==
  LET down == [clear_timer(clear_timer(e, "CallTimeout"), "Heartbeat") EXCEPT
                 !.connected = FALSE, !.heartbeat_at = Never, !.wire = {}]
  IN check_drain(drop_unqueueable(lose_inflight(down, "Disconnected")))

Expired(at) == at = 0

call_expired(e) ==
  IF e.inflight # None /\ Expired(e.inflight.deadline)
  THEN lose_inflight(clear_timer(e, "CallTimeout"), "Timeout")
  ELSE e

heartbeat_expired(e) ==
  IF ~Expired(e.heartbeat_at) THEN e
  ELSE LET idle == [e EXCEPT !.heartbeat_at = Never]
       IN arm_heartbeat(IF e.connected /\ e.boot = "Accepted"
                        THEN send_heartbeat(idle) ELSE idle)

boot_retry_expired(e) ==
  IF Expired(e.boot_retry_at)
  THEN [e EXCEPT !.boot_retry_at = Never, !.boot = "Idle"]
  ELSE e

on_timeout_unpumped(e) ==  \* mutant: a due retry is not sent
  check_drain(boot_retry_expired(heartbeat_expired(call_expired(e))))
on_timeout_undrained(e) ==  \* mutant: the drain deadline is not looked at
  check_drain(pump(boot_retry_expired(heartbeat_expired(call_expired(e)))))
on_timeout(e) ==
  LET due == boot_retry_expired(heartbeat_expired(call_expired(e)))
  IN IF Expired(due.draining) /\ ~drain_complete(due)
     THEN [due EXCEPT !.close = "DrainTimedOut", !.draining = Never]
     ELSE check_drain(pump(due))

(* A BootNotificationResponse arrives: status, and interval with 0 for none. *)
observe_boot_answer(e, status, interval) ==
  IF status \notin Verdicts THEN e
  ELSE LET told == [e EXCEPT !.boot = status]
           wait == IF interval > 0 THEN interval ELSE BootRetryFallback
       IN IF status = "Accepted"
          THEN pump(arm_heartbeat([told EXCEPT !.heartbeat_interval = interval]))
          ELSE set_timer([told EXCEPT !.boot_retry_at = wait], "BootRetry", wait)

take_any_inflight(e, id) == e.inflight # None  \* mutant: the id is not compared
(* Whether an answer is the one the call in flight waits for. *)
take_inflight(e, id) == e.inflight # None /\ IdOf(e.inflight) = id

on_call_result(e, id, status, interval) ==
  IF ~take_inflight(e, id) THEN e
  ELSE LET f == e.inflight
           free == clear_timer(ack_store([e EXCEPT !.inflight = None], {f.token}),
                               "CallTimeout")
           told == IF f.action = "BootNotification"
                   THEN observe_boot_answer(free, status, interval) ELSE free
       IN check_drain(pump(fail(told, f.token, "Result")))

on_call_error(e, id) ==
  IF ~take_inflight(e, id) THEN e
  ELSE LET f == e.inflight
           free == clear_timer(ack_store([e EXCEPT !.inflight = None], {f.token}),
                               "CallTimeout")
       IN check_drain(pump(fail(free, f.token, "Rejected")))

(* Every entry point takes the driver's clock first. *)
Elapse(at) == IF at > 0 THEN at - 1 ELSE at
advance(e) ==
  [e EXCEPT
    !.timers = [t \in Timers |-> Elapse(e.timers[t])],
    !.queue = [s \in DOMAIN e.queue |->
                 [e.queue[s] EXCEPT !.not_before = Elapse(e.queue[s].not_before)]],
    !.inflight = IF e.inflight = None THEN None
                 ELSE [e.inflight EXCEPT !.deadline = Elapse(e.inflight.deadline)],
    !.heartbeat_at = Elapse(e.heartbeat_at),
    !.boot_retry_at = Elapse(e.boot_retry_at),
    !.draining = Elapse(e.draining)]

-----------------------------------------------------------------------------
(* A process starts on whatever the store holds. *)

with_store(store, outcome, next_token, store_ok) ==
  [connected |-> FALSE, boot |-> "Idle", inflight |-> None,
   queue |-> [t \in DOMAIN store |->
                [token |-> t, action |-> store[t].action, persist |-> TRUE,
                 queue_when_offline |-> TRUE, triggered |-> FALSE,
                 attempts |-> store[t].attempts, not_before |-> Never]],
   next_token |-> next_token, heartbeat_interval |-> 0, heartbeat_at |-> Never,
   boot_retry_at |-> Never, draining |-> Never, close |-> "No",
   store |-> store, store_ok |-> store_ok,
   timers |-> [t \in Timers |-> Never],
   outcome |-> [t \in Tokens |-> IF t \in DOMAIN store THEN "Open" ELSE outcome[t]],
   wire |-> {}]

NoMessages == [t \in {} |-> [action |-> "TransactionEvent", attempts |-> 0]]

Init ==
  /\ engine = with_store(NoMessages, [t \in Tokens |-> "Open"], 1, TRUE)
  /\ running = TRUE
  /\ served = {}
  /\ verdict = "Idle"
  /\ sent = [t \in Tokens |-> 0]
  /\ lost = [t \in Tokens |-> 0]
  /\ disconnects = 0
  /\ halts = 0

-----------------------------------------------------------------------------
(* The driver feeds one input, and carries out the outputs before the next. *)

Live == running /\ engine.close = "No"

(* The messages a step has put on the wire: a new CALL in flight, SENDs done. *)
Transmitted(old, new) ==
  {t \in Tokens :
     \/ new.inflight # None /\ new.inflight.token = t
        /\ (old.inflight = None \/ IdOf(old.inflight) # IdOf(new.inflight))
     \/ new.outcome[t] = "Sent" /\ old.outcome[t] # "Sent"}

(* A transmission of the message ends: the call leaves its slot, the SEND is done. *)
CallEnds(old, new, t) ==
  /\ old.inflight # None /\ old.inflight.token = t
  /\ new.inflight = None \/ IdOf(new.inflight) # IdOf(old.inflight)
SendEnds(old, new, t) == new.outcome[t] = "Sent" /\ old.outcome[t] # "Sent"

(* Its count or its acknowledgement is then written; a failing store misses it. *)
Unrecorded(old, new, t) ==
  IF old.store_ok THEN 0
  ELSE (IF CallEnds(old, new, t) THEN 1 ELSE 0) + (IF SendEnds(old, new, t) THEN 1 ELSE 0)

Become(new) ==
  /\ engine' = new
  /\ sent' = [t \in Tokens |-> sent[t] + IF t \in Transmitted(engine, new) THEN 1 ELSE 0]
  /\ lost' = [t \in Tokens |-> lost[t] + Unrecorded(engine, new, t)]
  /\ UNCHANGED <<running, halts>>

Call(r) ==
  /\ Live /\ engine.draining = Never /\ engine.next_token \in Tokens
  /\ Become(call_with(engine, r))
  /\ UNCHANGED <<served, verdict, disconnects>>

Cancel(s) ==
  /\ Live
  /\ Become(cancel(engine, s))
  /\ UNCHANGED <<served, verdict, disconnects>>

Shutdown ==
  /\ Live /\ engine.draining = Never /\ halts < MaxHalts
  /\ Become(shutdown(engine))
  /\ UNCHANGED <<served, verdict, disconnects>>

Connected ==
  /\ Live /\ ~engine.connected
  /\ Become(on_connected(engine))
  /\ UNCHANGED <<served, verdict, disconnects>>

Disconnected ==
  /\ Live /\ engine.connected /\ disconnects < MaxDisconnects
  /\ Become(on_disconnected(engine))
  /\ disconnects' = disconnects + 1
  /\ served' = {}
  /\ UNCHANGED verdict

(* A timer is due; the driver forgets the due ones before it sets new ones. *)
Timeout ==
  /\ Live
  /\ \E t \in Timers : Expired(engine.timers[t])
  /\ Become(on_timeout([engine EXCEPT
       !.timers = [t \in Timers |-> IF Expired(engine.timers[t]) THEN Never
                                    ELSE engine.timers[t]]]))
  /\ UNCHANGED <<served, verdict, disconnects>>

(* The peer answers a CALL of this connection, however late and however often, *)
(* or one that was never made; every frame counts as activity.                 *)
ReceiveResult(id, status, interval) ==
  /\ Live /\ engine.connected
  /\ Become(on_call_result(arm_heartbeat(engine), id, status, interval))
  /\ served' = served \cup (engine.wire \cap {id})
  /\ verdict' = IF /\ take_inflight(engine, id)
                   /\ engine.inflight.action = "BootNotification"
                   /\ status \in Verdicts
                THEN status ELSE verdict
  /\ UNCHANGED disconnects

ReceiveError(id) ==
  /\ Live /\ engine.connected
  /\ Become(on_call_error(arm_heartbeat(engine), id))
  /\ served' = served \cup (engine.wire \cap {id})
  /\ UNCHANGED <<verdict, disconnects>>

(* A frame of the peer's own conversation, in or out: it only counts as activity. *)
OtherTraffic ==
  /\ Live /\ engine.connected
  /\ Become(arm_heartbeat(engine))
  /\ UNCHANGED <<served, verdict, disconnects>>

(* The clock moves. *)
Tick ==
  /\ running
  /\ engine' = advance(engine)
  /\ UNCHANGED <<running, served, verdict, sent, lost, disconnects, halts>>

(* Writes to the store start or stop failing. *)
StoreFault ==
  /\ Live /\ StoreMayFail
  /\ engine' = [engine EXCEPT !.store_ok = ~@]
  /\ UNCHANGED <<running, served, verdict, sent, lost, disconnects, halts>>

(* The open messages that went to the store, queued or in flight. *)
Persistent(e) ==
  {t \in Tokens :
     \/ \E s \in DOMAIN e.queue : e.queue[s].token = t /\ e.queue[s].persist
     \/ e.inflight # None /\ e.inflight.token = t /\ e.inflight.persist}

(* The process ends; what it had not stored ends with it. *)
Halt(e) ==
  /\ running' = FALSE
  /\ halts' = halts + 1
  /\ engine' = [with_store(e.store, e.outcome, e.next_token, e.store_ok) EXCEPT
       !.queue = [s \in {} |-> 0],
       !.outcome = [t \in Tokens |->
          IF t < e.next_token /\ e.outcome[t] = "Open" /\ t \notin Persistent(e)
          THEN "Lost" ELSE e.outcome[t]]]
  /\ lost' = [t \in Tokens |-> lost[t] + Unrecorded(engine, e, t)
               + IF e.inflight # None /\ e.inflight.token = t THEN 1 ELSE 0]
  /\ served' = {}
  /\ UNCHANGED <<verdict, sent, disconnects>>

Crash ==
  /\ running /\ halts < MaxHalts
  /\ Halt(engine)

(* Output::Close ends the connection and with it the station. *)
Stop ==
  /\ running /\ engine.close # "No"
  /\ Halt(on_disconnected(engine))

Restart ==
  /\ ~running
  /\ running' = TRUE
  /\ engine' = with_store(engine.store, engine.outcome, engine.next_token, engine.store_ok)
  /\ verdict' = "Idle"
  /\ UNCHANGED <<served, sent, lost, disconnects, halts>>

Receive ==
  \E id \in engine.wire \cup {ForeignId} :
    \/ \E status \in Verdicts \cup {"Unusable"}, interval \in BootIntervals :
         ReceiveResult(id, status, interval)
    \/ ReceiveError(id)

Next ==
  \/ \E r \in Requests : Call(r)
  \/ \E s \in DOMAIN engine.queue : Cancel(s)
  \/ Shutdown
  \/ Connected
  \/ Disconnected
  \/ Timeout
  \/ Receive
  \/ OtherTraffic
  \/ Tick
  \/ StoreFault
  \/ Crash
  \/ Stop
  \/ Restart

Spec == Init /\ [][Next]_vars
(* What the driver's scheduling gives: the clock moves, a connected driver    *)
(* serves its timers, a station keeps reconnecting, a closed one stops, a     *)
(* dead one is started again.  Weak fairness of A is written with the state   *)
(* predicate that ENABLED <<A>>_vars amounts to.                              *)
TimerDue == \E t \in Timers : Expired(engine.timers[t])

Fairness ==
  /\ []<>~(running /\ advance(engine) # engine) \/ []<><<Tick>>_vars
  /\ []<>~(Live /\ engine.connected /\ TimerDue) \/ []<><<Timeout>>_vars
  /\ []<>~(Live /\ ~engine.connected) \/ []<><<Connected>>_vars
  /\ []<>~(running /\ engine.close # "No") \/ []<><<Stop>>_vars
  /\ []<>running \/ []<><<Restart>>_vars

FairSpec == Spec /\ Fairness

-----------------------------------------------------------------------------
(* Properties. *)

Stored == [action : Actions, attempts : Nat]

(* Every field has the type its Rust declaration gives it. *)
EngineTypeOK(e) ==
  /\ e = [connected |-> e.connected, boot |-> e.boot, inflight |-> e.inflight,
          queue |-> e.queue, next_token |-> e.next_token,
          heartbeat_interval |-> e.heartbeat_interval, heartbeat_at |-> e.heartbeat_at,
          boot_retry_at |-> e.boot_retry_at, draining |-> e.draining, close |-> e.close,
          store |-> e.store, store_ok |-> e.store_ok, timers |-> e.timers,
          outcome |-> e.outcome, wire |-> e.wire]
  /\ e.connected \in BOOLEAN /\ e.store_ok \in BOOLEAN
  /\ e.boot \in BootStates
  /\ e.close \in {"No", "Drained", "DrainTimedOut"}
  /\ e.next_token \in Nat \ {0}
  /\ e.heartbeat_interval \in Nat
  /\ e.heartbeat_at \in Nat \cup {Never}
  /\ e.boot_retry_at \in Nat \cup {Never}
  /\ e.draining \in Nat \cup {Never}
  /\ e.timers \in [Timers -> Nat \cup {Never}]
  /\ e.outcome \in [Tokens -> Outcomes]
  /\ e.wire \subseteq MessageId
  /\ e.inflight = None \/ e.inflight \in InFlight
  /\ DOMAIN e.queue \subseteq Nat
  /\ \A s \in DOMAIN e.queue : e.queue[s] \in Pending
  /\ DOMAIN e.store \subseteq Tokens
  /\ \A t \in DOMAIN e.store : e.store[t] \in Stored

(* The type invariant of the engine, its environment and the history. *)
TypeOK ==
  /\ EngineTypeOK(engine)
  /\ running \in BOOLEAN
  /\ served \subseteq MessageId
  /\ verdict \in BootStates
  /\ sent \in [Tokens -> Nat] /\ lost \in [Tokens -> Nat]
  /\ disconnects \in Nat /\ halts \in Nat

Unreported(e) == {t \in Tokens : t < e.next_token /\ e.outcome[t] = "Open"}
InFlightTokens(e) == IF e.inflight = None THEN {} ELSE {e.inflight.token}

(* Every token the engine has handed out is in exactly one place: at one     *)
(* slot of the queue, in flight, or reported with an outcome (Output::Outcome *)
(* is emitted exactly once per CallToken, whatever interleaving of answers,   *)
(* timeouts, disconnections and cancellations the call went through).         *)
AccountedFor ==
  running =>
    /\ \A s, u \in DOMAIN engine.queue :
         s # u => engine.queue[s].token # engine.queue[u].token
    /\ Queued(engine) \cap InFlightTokens(engine) = {}
    /\ Unreported(engine) = Queued(engine) \cup InFlightTokens(engine)

(* A message that was accepted for durable delivery and not yet reported is  *)
(* in the store at every instant, through crashes, restarts and failing     *)
(* writes (the promise of MessageStore and Engine::with_store); and when no   *)
(* write fails the store holds nothing else.                                  *)
Durable ==
  LET owed == IF running THEN Persistent(engine) ELSE Unreported(engine)
  IN /\ owed \subseteq DOMAIN engine.store
     /\ ~StoreMayFail => DOMAIN engine.store = owed

(* Transaction messages leave in the order they were made (1.6 3.7): the one *)
(* in flight is older than every one queued, and the queue holds them oldest  *)
(* first, through retries that push to the front and restarts.                *)
Chronological ==
  LET tx == {s \in DOMAIN engine.queue : transactional(engine.queue[s].action)}
  IN /\ \A s, u \in tx : s < u => engine.queue[s].token < engine.queue[u].token
     /\ engine.inflight # None /\ transactional(engine.inflight.action) =>
          \A s \in tx : engine.inflight.token < engine.queue[s].token

(* How often a message may go out: RetryPolicy::attempts is for transaction  *)
(* messages only.                                                             *)
Allowance(action) == IF transactional(action) /\ RetryAttempts > 0 THEN RetryAttempts ELSE 1

(* Every message goes out as often as its kind allows and no oftener: a      *)
(* transaction message RetryPolicy::attempts times, any other once.  Only a   *)
(* transmission the store was never told of, because a power cut fell while   *)
(* it was in flight or the write at its end failed, is made once more.        *)
RetryBudget ==
  /\ \A t \in InFlightTokens(engine) :
       sent[t] <= Allowance(engine.inflight.action) + lost[t]
  /\ \A t \in Tokens : engine.outcome[t] = "Sent" => sent[t] <= 1 + lost[t]

(* An answer completes the call it answers and no other: a call is reported  *)
(* answered only in the step in which the first answer to its transmission in *)
(* flight arrives, whatever late answers to its earlier transmissions,        *)
(* repeated answers and answers to nothing the peer sends.                    *)
AnsweredByPeer ==
  [][\A t \in Tokens :
       engine.outcome[t] = "Open" /\ engine'.outcome[t] \in {"Result", "Rejected"} =>
         t \in InFlightTokens(engine) /\ IdOf(engine.inflight) \in served' \ served]_vars

(* B02.FR.02: nothing but a BootNotification or a message the CSMS asked for *)
(* leaves the station unless the last verdict the CSMS gave is Accepted.      *)
BootGate ==
  [][EnforceBootGate =>
      \A t \in Transmitted(engine, engine') :
        \/ verdict' = "Accepted"
        \/ /\ engine'.inflight # None /\ engine'.inflight.token = t
           /\ \/ engine'.inflight.action = "BootNotification"
              \/ engine'.inflight.triggered
        \/ \E s \in DOMAIN engine.queue :
              engine.queue[s].token = t /\ engine.queue[s].triggered
        \/ t = engine.next_token /\ \E r \in Requests : r.triggered /\ Call(r)]_vars

(* An accepted, connected station with a heartbeat interval always has its   *)
(* idle timer running: no lost Heartbeat and no reconnect ends the sequence.  *)
HeartbeatAlive ==
  (running /\ AutoHeartbeat /\ engine.connected /\ engine.boot = "Accepted"
     /\ engine.heartbeat_interval > 0)
  => engine.heartbeat_at # Never

(* Every deadline the engine waits for has a driver timer that fires no      *)
(* later, so no call, retry, heartbeat, boot retry or drain waits for ever,   *)
(* and an accepted station waits for its heartbeat.                           *)
Covered(timer, at) == at # Never => engine.timers[timer] \in 0..at
TimersArmed ==
  running /\ engine.close = "No" =>
    /\ engine.inflight # None => Covered("CallTimeout", engine.inflight.deadline)
    /\ \A s \in DOMAIN engine.queue :
         engine.queue[s].not_before > 0 => Covered("TransactionRetry", engine.queue[s].not_before)
    /\ Covered("Heartbeat", engine.heartbeat_at)
    /\ Covered("BootRetry", engine.boot_retry_at)
    /\ Covered("DrainDeadline", engine.draining)
    /\ HeartbeatAlive

(* BootState::Accepted: "The CSMS answered Accepted.  Normal operation."; a  *)
(* station whose last verdict is Accepted is in that state.                   *)
AcceptedIsNormalOperation ==
  running /\ verdict = "Accepted" => engine.boot = "Accepted"

(* The gate holds a queued message: it is one the gate does not let through, *)
(* or a transaction message behind such a one.                                *)
Held(t) ==
  /\ EnforceBootGate /\ engine.boot # "Accepted"
  /\ \E s, u \in DOMAIN engine.queue :
       /\ engine.queue[s].token = t
       /\ u = s \/ (u < s /\ transactional(engine.queue[s].action)
                         /\ transactional(engine.queue[u].action))
       /\ engine.queue[u].action # "BootNotification" /\ ~engine.queue[u].triggered

(* No call is left hanging, even when the peer never answers: every token is *)
(* reported, or its process ends, or the closed boot gate holds that very     *)
(* message in the queue; a BootNotification and what the CSMS has asked for   *)
(* are reported with the gate closed.                                         *)
CallsResolve ==
  \A t \in Tokens :
    (t < engine.next_token /\ engine.outcome[t] = "Open")
      ~> (engine.outcome[t] # "Open" \/ ~running \/ Held(t))

(* A drain ends: the engine asks for the connection to be closed.            *)
DrainEnds == (engine.draining # Never) ~> (engine.draining = Never)

-----------------------------------------------------------------------------
(* The inductive invariant behind AccountedFor, Durable and Chronological.  A *)
(* handler may hold calls in its hands, out of the queue and not yet          *)
(* reported: the set H, empty between two handlers.                           *)

(* A slot is the token that was pushed there; only slot 0, the front, holds a *)
(* message that came back, and it is the oldest transaction message.          *)
SlotsOK(e) ==
  /\ \A s \in DOMAIN e.queue : s # 0 => e.queue[s].token = s
  /\ \A s \in DOMAIN e.queue : e.queue[s].token < e.next_token
  /\ 0 \in DOMAIN e.queue =>
       /\ transactional(e.queue[0].action)
       /\ e.queue[0].token \notin DOMAIN e.queue
       /\ \A u \in DOMAIN e.queue :
            u # 0 /\ transactional(e.queue[u].action) => e.queue[0].token < u

(* A transaction message is in flight only when none of them came back.       *)
FlightOK(e) ==
  e.inflight # None =>
    /\ e.inflight.token < e.next_token
    /\ \A s \in DOMAIN e.queue : e.queue[s].token # e.inflight.token
    /\ transactional(e.inflight.action) =>
         /\ 0 \notin DOMAIN e.queue
         /\ \A s \in DOMAIN e.queue :
              transactional(e.queue[s].action) => e.inflight.token < e.queue[s].token

Holds(e, t) ==
  \/ \E s \in DOMAIN e.queue : e.queue[s].token = t
  \/ e.inflight # None /\ e.inflight.token = t

FatesOK(e, H) ==
  \A t \in Tokens :
    /\ t < e.next_token => (e.outcome[t] = "Open" <=> Holds(e, t) \/ t \in H)
    /\ t >= e.next_token => e.outcome[t] = "Open"
    /\ t \in H => t < e.next_token /\ ~Holds(e, t)

StoreOK(e) ==
  /\ \A t \in DOMAIN e.store : t < e.next_token
  /\ Persistent(e) \subseteq DOMAIN e.store
  /\ ~StoreMayFail => e.store_ok /\ DOMAIN e.store \subseteq Persistent(e)

Good(e, H) ==
  EngineTypeOK(e) /\ SlotsOK(e) /\ FlightOK(e) /\ FatesOK(e, H) /\ StoreOK(e)

(* Between two processes only the store and what was reported remain.         *)
Dead(e) ==
  /\ EngineTypeOK(e)
  /\ DOMAIN e.queue = {} /\ e.inflight = None
  /\ \A t \in DOMAIN e.store : t < e.next_token
  /\ \A t \in Tokens :
       /\ t < e.next_token /\ e.outcome[t] = "Open" => t \in DOMAIN e.store
       /\ t >= e.next_token => e.outcome[t] = "Open"
  /\ ~StoreMayFail =>
       e.store_ok /\ \A t \in DOMAIN e.store : t \in Tokens /\ e.outcome[t] = "Open"

(* The inductive invariant: every handler of the engine preserves it.         *)
IndInv ==
  /\ TypeOK
  /\ IF running THEN Good(engine, {}) ELSE Dead(engine)
=============================================================================
