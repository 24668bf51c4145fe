---------------------------- MODULE EngineProofs ----------------------------
(***************************************************************************)
(* Proofs about module Engine, for every value of its constants.  Each     *)
(* method of the engine has a lemma that says what it preserves; the       *)
(* handlers are compositions of methods, and so are their proofs.          *)
(***************************************************************************)
EXTENDS Engine, TLAPS, WellFoundedInduction

(* A non-empty set of naturals has the least element Min chooses.          *)
LEMMA MinIsLeast ==
  ASSUME NEW S, S \subseteq Nat, S # {}
  PROVE  Min(S) \in S /\ \A y \in S : Min(S) <= y
<1> DEFINE Less == {ss \in Nat \X Nat : ss[1] < ss[2]}
<1>1. IsWellFoundedOn(Less, Nat)
  BY NatLessThanWellFounded, Zenon DEF OpToRel
<1>2. \E x \in S : \A y \in S : ~(<<y, x>> \in Less)
  <2> HIDE DEF Less
  <2> QED BY <1>1, WFMin, Zenon
<1>3. ASSUME NEW x \in S, NEW y \in S, ~(<<y, x>> \in Less)
      PROVE  x <= y
  <2>1. x \in Nat /\ y \in Nat
    OBVIOUS
  <2>2. <<y, x>>[1] = y /\ <<y, x>>[2] = x /\ <<y, x>> \in Nat \X Nat
    BY <2>1
  <2>3. ~(y < x)
    BY <1>3, <2>2, Zenon
  <2> QED BY <2>1, <2>3
<1>4. \E x \in S : \A y \in S : x <= y
  <2> HIDE DEF Less
  <2> QED BY <1>2, <1>3
<1> QED BY <1>4, Zenon DEF Min

(* Methods that touch only timers and the wire preserve everything.        *)
LEMMA Irrelevant ==
  ASSUME NEW e, NEW d, NEW H, Good(e, H), EngineTypeOK(d),
         d.queue = e.queue, d.inflight = e.inflight, d.next_token = e.next_token,
         d.outcome = e.outcome, d.store = e.store, d.store_ok = e.store_ok
  PROVE  Good(d, H)
BY DEF Good, SlotsOK, FlightOK, FatesOK, Holds, StoreOK, Persistent

LEMMA SetTimerGood ==
  ASSUME NEW e, NEW H, Good(e, H), NEW timer \in Timers, NEW at \in Nat
  PROVE  Good(set_timer(e, timer, at), H)
<1> DEFINE d == set_timer(e, timer, at)
<1>1. EngineTypeOK(d)
  BY DEF Good, EngineTypeOK, set_timer
<1>2. /\ d.queue = e.queue /\ d.inflight = e.inflight /\ d.next_token = e.next_token
      /\ d.outcome = e.outcome /\ d.store = e.store /\ d.store_ok = e.store_ok
  BY DEF Good, EngineTypeOK, set_timer
<1> QED BY <1>1, <1>2, Irrelevant

LEMMA ClearTimerGood ==
  ASSUME NEW e, NEW H, Good(e, H), NEW timer \in Timers
  PROVE  Good(clear_timer(e, timer), H)
<1> DEFINE d == clear_timer(e, timer)
<1>1. EngineTypeOK(d)
  BY DEF Good, EngineTypeOK, clear_timer
<1>2. /\ d.queue = e.queue /\ d.inflight = e.inflight /\ d.next_token = e.next_token
      /\ d.outcome = e.outcome /\ d.store = e.store /\ d.store_ok = e.store_ok
  BY DEF Good, EngineTypeOK, clear_timer
<1> QED BY <1>1, <1>2, Irrelevant

(* arm_heartbeat changes the idle timer and nothing else.                  *)
LEMMA ArmHeartbeat ==
  ASSUME NEW e, EngineTypeOK(e)
  PROVE  LET d == arm_heartbeat(e)
         IN /\ EngineTypeOK(d)
            /\ d.queue = e.queue /\ d.inflight = e.inflight /\ d.next_token = e.next_token
            /\ d.outcome = e.outcome /\ d.store = e.store /\ d.store_ok = e.store_ok
            /\ d.connected = e.connected /\ d.draining = e.draining /\ d.boot = e.boot
            /\ d.wire = e.wire
BY DEF EngineTypeOK, arm_heartbeat, set_timer, Timers

LEMMA ArmHeartbeatGood ==
  ASSUME NEW e, NEW H, Good(e, H)
  PROVE  Good(arm_heartbeat(e), H)
BY ArmHeartbeat, Irrelevant DEF Good

(* What taking from the deque and from the store leaves.                   *)
LEMMA RemoveShape ==
  ASSUME NEW q, NEW S
  PROVE  /\ DOMAIN remove(q, S) = DOMAIN q \ S
         /\ \A s \in DOMAIN q \ S : remove(q, S)[s] = q[s]
BY DEF remove, Restrict

LEMMA RestrictShape ==
  ASSUME NEW f, NEW S
  PROVE  /\ DOMAIN Restrict(f, S) = S
         /\ \A s \in S : Restrict(f, S)[s] = f[s]
BY DEF Restrict

(* Two slots never hold the same token.                                    *)
LEMMA TokensDistinct ==
  ASSUME NEW e, NEW H, Good(e, H), NEW s \in DOMAIN e.queue, NEW u \in DOMAIN e.queue,
         e.queue[s].token = e.queue[u].token
  PROVE  s = u
BY DEF Good, SlotsOK, EngineTypeOK

(* Entries that leave the queue with an outcome, acknowledged in the store. *)
Dropped(e, S, gone, why, d) ==
  /\ S \in SUBSET DOMAIN e.queue
  /\ gone = {e.queue[s].token : s \in S}
  /\ why \in Outcomes \ {"Open"}
  /\ EngineTypeOK(d)
  /\ d.queue = remove(e.queue, S) /\ d.inflight = e.inflight
  /\ d.next_token = e.next_token /\ d.store_ok = e.store_ok
  /\ d.store = IF e.store_ok THEN Restrict(e.store, DOMAIN e.store \ gone) ELSE e.store
  /\ d.outcome = [t \in Tokens |-> IF t \in gone THEN why ELSE e.outcome[t]]

LEMMA DropGood ==
  ASSUME NEW e, NEW H, NEW S, NEW gone, NEW why, NEW d,
         Good(e, H), Dropped(e, S, gone, why, d)
  PROVE  Good(d, H)
<1>1. /\ DOMAIN d.queue = DOMAIN e.queue \ S
      /\ \A s \in DOMAIN d.queue : d.queue[s] = e.queue[s]
  <2>1. /\ DOMAIN remove(e.queue, S) = DOMAIN e.queue \ S
        /\ \A s \in DOMAIN e.queue \ S : remove(e.queue, S)[s] = e.queue[s]
    BY RemoveShape, Zenon
  <2>2. d.queue = remove(e.queue, S)
    BY DEF Dropped
  <2> QED BY <2>1, <2>2, Zenon
<1> USE DEF Dropped
<1>2. SlotsOK(d)
  BY <1>1 DEF Good, SlotsOK
<1>3. FlightOK(d)
  BY <1>1 DEF Good, FlightOK
<1>4. \A s, u \in DOMAIN e.queue : e.queue[s].token = e.queue[u].token => s = u
  BY TokensDistinct
<1>5. \A s \in DOMAIN e.queue : e.queue[s].token \in gone <=> s \in S
  BY <1>4
<1>6. e.inflight # None => e.inflight.token \notin gone
  BY DEF Good, FlightOK
<1>7. \A t \in Tokens : Holds(d, t) <=> Holds(e, t) /\ t \notin gone
  BY <1>1, <1>5, <1>6 DEF Holds
<1>8. \A t \in gone : t \in Tokens /\ t < e.next_token /\ Holds(e, t)
  BY DEF Good, EngineTypeOK, SlotsOK, Pending, Holds
<1>9. FatesOK(d, H)
  <2> SUFFICES ASSUME NEW t \in Tokens
               PROVE  /\ t < d.next_token => (d.outcome[t] = "Open" <=> Holds(d, t) \/ t \in H)
                      /\ t >= d.next_token => d.outcome[t] = "Open"
                      /\ t \in H => t < d.next_token /\ ~Holds(d, t)
    BY DEF FatesOK
  <2>1. d.outcome[t] = IF t \in gone THEN why ELSE e.outcome[t]
    OBVIOUS
  <2>2. /\ t < e.next_token => (e.outcome[t] = "Open" <=> Holds(e, t) \/ t \in H)
        /\ t >= e.next_token => e.outcome[t] = "Open"
        /\ t \in H => t < e.next_token /\ ~Holds(e, t)
    BY DEF Good, FatesOK
  <2>3. e.next_token \in Nat /\ t \in Nat
    BY DEF Good, EngineTypeOK, Tokens
  <2>4. CASE t \in gone
    BY <2>1, <2>2, <2>3, <2>4, <1>7, <1>8
  <2>5. CASE t \notin gone
    BY <2>1, <2>2, <2>3, <2>5, <1>7
  <2> QED BY <2>4, <2>5
<1>10. \A t \in Tokens : t \in Persistent(d) <=> t \in Persistent(e) /\ t \notin gone
  BY <1>1, <1>5, <1>6 DEF Persistent
<1>11. DOMAIN d.store = IF e.store_ok THEN DOMAIN e.store \ gone ELSE DOMAIN e.store
  BY RestrictShape
<1>12. StoreOK(d)
  <2>1. Persistent(d) \subseteq Tokens /\ Persistent(e) \subseteq Tokens
    BY DEF Persistent
  <2>2. DOMAIN e.store \subseteq Tokens
    BY DEF Good, EngineTypeOK
  <2> QED BY <1>10, <1>11, <2>1, <2>2 DEF Good, StoreOK
<1> QED BY <1>2, <1>3, <1>9, <1>12 DEF Good

(* ack_store changes the store, set_attempts the attempts in it.           *)
LEMMA AckStore ==
  ASSUME NEW e, EngineTypeOK(e), NEW gone
  PROVE  LET d == ack_store(e, gone)
         IN /\ EngineTypeOK(d)
            /\ d.queue = e.queue /\ d.inflight = e.inflight /\ d.next_token = e.next_token
            /\ d.outcome = e.outcome /\ d.store_ok = e.store_ok
            /\ d.store = IF e.store_ok THEN Restrict(e.store, DOMAIN e.store \ gone)
                         ELSE e.store
BY DEF EngineTypeOK, ack_store, Restrict

LEMMA SetAttempts ==
  ASSUME NEW e, EngineTypeOK(e), NEW token, NEW n \in Nat
  PROVE  LET d == set_attempts(e, token, n)
         IN /\ EngineTypeOK(d)
            /\ d.queue = e.queue /\ d.inflight = e.inflight /\ d.next_token = e.next_token
            /\ d.outcome = e.outcome /\ d.store_ok = e.store_ok
            /\ DOMAIN d.store = DOMAIN e.store
BY DEF EngineTypeOK, set_attempts, Stored

(* A shorter queue is still a queue.                                       *)
LEMMA CutQueue ==
  ASSUME NEW e, EngineTypeOK(e), NEW S
  PROVE  LET d == [e EXCEPT !.queue = remove(e.queue, S)]
         IN /\ EngineTypeOK(d)
            /\ d.queue = remove(e.queue, S)
            /\ d.inflight = e.inflight /\ d.next_token = e.next_token
            /\ d.outcome = e.outcome /\ d.store_ok = e.store_ok /\ d.store = e.store
            /\ d.wire = e.wire
<1>1. /\ DOMAIN remove(e.queue, S) \subseteq DOMAIN e.queue
      /\ \A s \in DOMAIN remove(e.queue, S) : remove(e.queue, S)[s] = e.queue[s]
  <2>1. /\ DOMAIN remove(e.queue, S) = DOMAIN e.queue \ S
        /\ \A s \in DOMAIN e.queue \ S : remove(e.queue, S)[s] = e.queue[s]
    BY RemoveShape, Zenon
  <2> QED BY <2>1
<1> QED BY <1>1 DEF EngineTypeOK

LEMMA SetOutcome ==
  ASSUME NEW e, EngineTypeOK(e), NEW o \in [Tokens -> Outcomes]
  PROVE  LET d == [e EXCEPT !.outcome = o]
         IN /\ EngineTypeOK(d)
            /\ d.queue = e.queue /\ d.inflight = e.inflight /\ d.next_token = e.next_token
            /\ d.outcome = o /\ d.store_ok = e.store_ok /\ d.store = e.store
BY DEF EngineTypeOK

(* The first loop of pump.                                                 *)
LEMMA PumpSendsGood ==
  ASSUME NEW e, NEW H, Good(e, H)
  PROVE  Good(pump_sends(e), H)
<1> DEFINE slots == {s \in DOMAIN e.queue : is_send(e.queue[s].action) /\ eligible(e, s)}
           tokens == {e.queue[s].token : s \in slots}
           cut == [e EXCEPT !.queue = remove(e.queue, slots)]
           armed == transmit(cut, {})
           out == ack_store(armed, tokens)
           o == [t \in Tokens |-> IF t \in tokens THEN "Sent" ELSE e.outcome[t]]
           d == [out EXCEPT !.outcome = o]
<1>1. CASE slots = {}
  BY <1>1 DEF pump_sends
<1>2. CASE slots # {}
  <2>1. pump_sends(e) = d
    BY <1>2, Zenon DEF pump_sends
  <2>2. EngineTypeOK(e)
    BY DEF Good
  <2>3. slots \in SUBSET DOMAIN e.queue /\ tokens = {e.queue[s].token : s \in slots}
    OBVIOUS
  <2> HIDE DEF slots, tokens
  <2>4. /\ EngineTypeOK(cut)
        /\ cut.queue = remove(e.queue, slots)
        /\ cut.inflight = e.inflight /\ cut.next_token = e.next_token
        /\ cut.outcome = e.outcome /\ cut.store_ok = e.store_ok /\ cut.store = e.store
    BY <2>2, CutQueue
  <2> HIDE DEF cut
  <2>5. LET w == [cut EXCEPT !.wire = cut.wire \cup {}]
        IN /\ EngineTypeOK(w)
           /\ w.queue = cut.queue
           /\ w.inflight = cut.inflight /\ w.next_token = cut.next_token
           /\ w.outcome = cut.outcome /\ w.store_ok = cut.store_ok /\ w.store = cut.store
    BY <2>4 DEF EngineTypeOK
  <2>6. /\ EngineTypeOK(armed)
        /\ armed.queue = cut.queue
        /\ armed.inflight = cut.inflight /\ armed.next_token = cut.next_token
        /\ armed.outcome = cut.outcome /\ armed.store_ok = cut.store_ok
        /\ armed.store = cut.store
    BY <2>5, ArmHeartbeat DEF transmit
  <2> HIDE DEF armed
  <2>7. /\ EngineTypeOK(out)
        /\ out.queue = armed.queue
        /\ out.inflight = armed.inflight /\ out.next_token = armed.next_token
        /\ out.store_ok = armed.store_ok
        /\ out.store = IF armed.store_ok
                       THEN Restrict(armed.store, DOMAIN armed.store \ tokens)
                       ELSE armed.store
    BY <2>6, AckStore
  <2> HIDE DEF out
  <2>8. /\ o \in [Tokens -> Outcomes]
        /\ o = [t \in Tokens |-> IF t \in tokens THEN "Sent" ELSE e.outcome[t]]
    BY <2>2 DEF EngineTypeOK, Outcomes
  <2> HIDE DEF o
  <2>9. /\ EngineTypeOK(d)
        /\ d.queue = out.queue
        /\ d.inflight = out.inflight /\ d.next_token = out.next_token
        /\ d.store_ok = out.store_ok /\ d.store = out.store
        /\ d.outcome = o
    BY <2>7, <2>8, SetOutcome
  <2> HIDE DEF d
  <2>10. "Sent" \in Outcomes \ {"Open"}
    BY DEF Outcomes
  <2>11. d.store = IF e.store_ok THEN Restrict(e.store, DOMAIN e.store \ tokens) ELSE e.store
    BY <2>4, <2>6, <2>7, <2>9
  <2>12. Good(d, H)
    <3>1. /\ d.queue = remove(e.queue, slots) /\ d.inflight = e.inflight
          /\ d.next_token = e.next_token /\ d.store_ok = e.store_ok
          /\ d.outcome = [t \in Tokens |-> IF t \in tokens THEN "Sent" ELSE e.outcome[t]]
      BY <2>4, <2>6, <2>7, <2>8, <2>9, Zenon
    <3>2. Dropped(e, slots, tokens, "Sent", d)
      BY <2>3, <2>9, <2>10, <2>11, <3>1, Zenon DEF Dropped
    <3> QED BY <3>2, DropGood, Zenon
  <2> QED BY <2>1, <2>12
<1> QED BY <1>1, <1>2

(* The second loop of pump: what goes in flight is the oldest of its kind. *)
LEMMA PumpCallGood ==
  ASSUME NEW e, NEW H, Good(e, H)
  PROVE  Good(pump_call(e), H)
<1>1. CASE e.inflight # None \/ Ready(e) = {}
  BY <1>1 DEF pump_call
<1>2. CASE e.inflight = None /\ Ready(e) # {}
  <2> DEFINE s == Min(Ready(e))
             entry == e.queue[s]
             call == [token |-> entry.token, action |-> entry.action,
                      persist |-> entry.persist,
                      queue_when_offline |-> entry.queue_when_offline,
                      triggered |-> entry.triggered,
                      attempts |-> entry.attempts + 1,
                      deadline |-> CallTimeout]
             armed == transmit(e, {IdOf(call)})
             put == [armed EXCEPT !.queue = remove(armed.queue, {s}), !.inflight = call]
             d == set_timer(put, "CallTimeout", CallTimeout)
  <2>1. pump_call(e) = d
    BY <1>2, Zenon DEF pump_call
  <2>2. EngineTypeOK(e) /\ CallTimeout \in Nat
    BY EngineAssumption DEF Good
  <2>3. Ready(e) \subseteq Nat
    BY <2>2 DEF Ready, EngineTypeOK
  <2>4. s \in Ready(e)
    BY <1>2, <2>3, MinIsLeast
  <2>5. s \in DOMAIN e.queue /\ eligible(e, s)
    BY <2>4 DEF Ready
  <2> HIDE DEF s
  <2>6. entry \in Pending
    BY <2>2, <2>5 DEF EngineTypeOK
  <2>7. call \in InFlight /\ call # None /\ IdOf(call) \in MessageId
    BY <2>2, <2>6, NoneAssumption DEF Pending, InFlight, MessageId, IdOf
  <2>8. call.token = entry.token /\ call.action = entry.action /\ call.persist = entry.persist
    OBVIOUS
  <2> HIDE DEF call
  <2>9. LET w == [e EXCEPT !.wire = e.wire \cup {IdOf(call)}]
        IN /\ EngineTypeOK(w)
           /\ w.queue = e.queue
           /\ w.inflight = e.inflight /\ w.next_token = e.next_token
           /\ w.outcome = e.outcome /\ w.store_ok = e.store_ok /\ w.store = e.store
    BY <2>2, <2>7 DEF EngineTypeOK
  <2>10. /\ EngineTypeOK(armed)
         /\ armed.queue = e.queue
         /\ armed.inflight = e.inflight /\ armed.next_token = e.next_token
         /\ armed.outcome = e.outcome /\ armed.store_ok = e.store_ok
         /\ armed.store = e.store
    BY <2>9, ArmHeartbeat DEF transmit
  <2> HIDE DEF armed
  <2>11. /\ DOMAIN remove(e.queue, {s}) = DOMAIN e.queue \ {s}
         /\ \A u \in DOMAIN e.queue \ {s} : remove(e.queue, {s})[u] = e.queue[u]
    BY RemoveShape
  <2>12. /\ EngineTypeOK(put)
         /\ put.queue = remove(e.queue, {s})
         /\ put.inflight = call /\ put.next_token = e.next_token
         /\ put.outcome = e.outcome /\ put.store_ok = e.store_ok
         /\ put.store = e.store
    <3> DEFINE q == remove(e.queue, {s})
    <3>1. DOMAIN q \subseteq Nat /\ \A u \in DOMAIN q : q[u] \in Pending
      BY <2>2, <2>11 DEF EngineTypeOK
    <3>2. put = [armed EXCEPT !.queue = q, !.inflight = call]
      BY <2>10
    <3> HIDE DEF q, put
    <3> QED BY <2>7, <2>10, <3>1, <3>2 DEF EngineTypeOK, q
  <2> HIDE DEF put
  <2>13. /\ DOMAIN put.queue = DOMAIN e.queue \ {s}
         /\ \A u \in DOMAIN put.queue : put.queue[u] = e.queue[u]
    BY <2>11, <2>12
  <2>14. SlotsOK(put)
    BY <2>12, <2>13 DEF Good, SlotsOK
  <2>15. \A u \in DOMAIN e.queue : e.queue[u].token = entry.token => u = s
    BY <2>5, TokensDistinct
  <2>16. ASSUME transactional(entry.action)
         PROVE  /\ 0 \notin DOMAIN put.queue
                /\ \A u \in DOMAIN put.queue :
                     transactional(put.queue[u].action) => entry.token < put.queue[u].token
    <3>1. \A u \in DOMAIN e.queue : transactional(e.queue[u].action) => s <= u
      BY <2>5, <2>16 DEF eligible
    <3>2. DOMAIN e.queue \subseteq Nat
      BY <2>2 DEF EngineTypeOK
    <3>3. 0 \notin DOMAIN put.queue
      BY <3>1, <3>2, <2>5, <2>13 DEF Good, SlotsOK
    <3>4. ASSUME NEW u \in DOMAIN put.queue, transactional(put.queue[u].action)
          PROVE  entry.token < put.queue[u].token
      <4>1. u \in DOMAIN e.queue /\ u # s /\ u # 0 /\ put.queue[u] = e.queue[u]
        BY <2>13, <3>3
      <4>2. s < u /\ e.queue[u].token = u
        BY <3>1, <3>2, <3>4, <4>1, <2>5 DEF Good, SlotsOK
      <4>3. CASE s = 0
        BY <3>4, <4>1, <4>2, <4>3, <2>5 DEF Good, SlotsOK
      <4>4. CASE s # 0
        BY <4>1, <4>2, <4>4, <2>5 DEF Good, SlotsOK
      <4> QED BY <4>3, <4>4
    <3> QED BY <3>3, <3>4
  <2>17. FlightOK(put)
    <3>1. entry.token < e.next_token
      BY <2>5 DEF Good, SlotsOK
    <3>2. \A u \in DOMAIN put.queue : put.queue[u].token # entry.token
      BY <2>13, <2>15
    <3> QED BY <3>1, <3>2, <2>8, <2>12, <2>16 DEF FlightOK
  <2>18. \A t \in Tokens : Holds(put, t) <=> Holds(e, t)
    BY <1>2, <2>5, <2>7, <2>8, <2>12, <2>13 DEF Holds
  <2>19. FatesOK(put, H)
    BY <2>12, <2>18 DEF Good, FatesOK
  <2>20. Persistent(put) = Persistent(e)
    <3>1. /\ DOMAIN e.queue = DOMAIN put.queue \cup {s}
          /\ \A u \in DOMAIN put.queue : put.queue[u] = e.queue[u]
          /\ e.queue[s].token = call.token /\ e.queue[s].persist = call.persist
      BY <2>5, <2>8, <2>13
    <3>2. e.inflight = None /\ put.inflight = call /\ call # None
      BY <1>2, <2>7, <2>12
    <3>3. ASSUME NEW t \in Tokens
          PROVE  /\ (\E u \in DOMAIN e.queue : e.queue[u].token = t /\ e.queue[u].persist)
                    <=> \/ \E u \in DOMAIN put.queue : put.queue[u].token = t /\ put.queue[u].persist
                        \/ call.token = t /\ call.persist
      BY <3>1
    <3> QED BY <3>2, <3>3 DEF Persistent
  <2>21. StoreOK(put)
    BY <2>12, <2>20 DEF Good, StoreOK
  <2>22. Good(put, H)
    BY <2>12, <2>14, <2>17, <2>19, <2>21 DEF Good
  <2> QED BY <2>1, <2>2, <2>22, SetTimerGood DEF Timers
<1> QED BY <1>1, <1>2

LEMMA PumpGood ==
  ASSUME NEW e, NEW H, Good(e, H)
  PROVE  Good(pump(e), H)
BY PumpSendsGood, PumpCallGood DEF pump

LEMMA CheckDrainGood ==
  ASSUME NEW e, NEW H, Good(e, H)
  PROVE  Good(check_drain(e), H)
<1> DEFINE c == clear_timer(e, "DrainDeadline")
           d == [c EXCEPT !.draining = Never, !.close = "Drained"]
<1>1. Good(c, H)
  BY ClearTimerGood DEF Timers
<1> HIDE DEF c
<1>2. /\ EngineTypeOK(d)
      /\ d.queue = c.queue /\ d.inflight = c.inflight /\ d.next_token = c.next_token
      /\ d.outcome = c.outcome /\ d.store = c.store /\ d.store_ok = c.store_ok
  <2>1. EngineTypeOK(c)
    BY <1>1 DEF Good
  <2> DEFINE m == [c EXCEPT !.draining = Never]
  <2>2. /\ EngineTypeOK(m)
        /\ m.queue = c.queue /\ m.inflight = c.inflight /\ m.next_token = c.next_token
        /\ m.outcome = c.outcome /\ m.store = c.store /\ m.store_ok = c.store_ok
    BY <2>1 DEF EngineTypeOK
  <2>3. d = [m EXCEPT !.close = "Drained"]
    BY <2>1 DEF EngineTypeOK
  <2> HIDE DEF m, d
  <2> QED BY <2>2, <2>3 DEF EngineTypeOK
<1> HIDE DEF d
<1>3. Good(d, H)
  BY <1>1, <1>2, Irrelevant
<1> QED BY <1>3 DEF check_drain, c, d

(* The slot before the first is 0 as long as nothing came back.            *)
LEMMA FrontIsZero ==
  ASSUME NEW q, DOMAIN q \subseteq Nat, 0 \notin DOMAIN q
  PROVE  FrontSlot(q) = 0
<1>1. DOMAIN q \cup {1} \subseteq Nat /\ DOMAIN q \cup {1} # {}
  OBVIOUS
<1>2. Min(DOMAIN q \cup {1}) = 1
  BY <1>1, MinIsLeast
<1> QED BY <1>2 DEF FrontSlot

(* The call in flight is taken, without a word about it to anyone.         *)
Taken(e) == [e EXCEPT !.inflight = None]

LEMMA TakenFields ==
  ASSUME NEW e, EngineTypeOK(e)
  PROVE  /\ EngineTypeOK(Taken(e))
         /\ Taken(e).queue = e.queue /\ Taken(e).inflight = None
         /\ Taken(e).next_token = e.next_token
         /\ Taken(e).outcome = e.outcome /\ Taken(e).store = e.store
         /\ Taken(e).store_ok = e.store_ok
BY DEF EngineTypeOK, Taken

(* A retry goes back to the front of the queue with its token.             *)
LEMMA RequeueGood ==
  ASSUME NEW e, NEW H, Good(e, H), e.inflight # None, transactional(e.inflight.action)
  PROVE  Good(requeue(Taken(e), e.inflight), H)
<1> DEFINE f == e.inflight
           kept == set_attempts(Taken(e), f.token, f.attempts)
           entry == [token |-> f.token, action |-> f.action, persist |-> f.persist,
                     queue_when_offline |-> f.queue_when_offline,
                     triggered |-> f.triggered, attempts |-> f.attempts,
                     not_before |-> delay_after(f.attempts)]
           q == push(kept.queue, FrontSlot(kept.queue), entry)
           put == [kept EXCEPT !.queue = q]
<1>1. EngineTypeOK(e) /\ f \in InFlight
  BY DEF Good, EngineTypeOK
<1>2. f.token \in Tokens /\ f.attempts \in Nat /\ f.action \in Actions
  BY <1>1 DEF InFlight
<1>3. /\ EngineTypeOK(kept)
      /\ kept.queue = e.queue /\ kept.inflight = None
      /\ kept.next_token = e.next_token
      /\ kept.outcome = e.outcome /\ kept.store_ok = e.store_ok
      /\ DOMAIN kept.store = DOMAIN e.store
  BY <1>1, <1>2, TakenFields, SetAttempts
<1> HIDE DEF kept
<1>4. entry.not_before \in Nat /\ entry \in Pending
  BY <1>1, <1>2, EngineAssumption DEF InFlight, Pending, delay_after
<1>5. /\ entry.token = f.token /\ entry.action = f.action /\ entry.persist = f.persist
  OBVIOUS
<1> HIDE DEF entry
<1>6. DOMAIN e.queue \subseteq Nat /\ 0 \notin DOMAIN e.queue
  BY <1>1 DEF Good, FlightOK, EngineTypeOK
<1>7. q = push(e.queue, 0, entry)
  BY <1>3, <1>6, FrontIsZero
<1>8. /\ DOMAIN q = DOMAIN e.queue \cup {0}
      /\ q[0] = entry
      /\ \A s \in DOMAIN e.queue : q[s] = e.queue[s]
  <2>1. /\ DOMAIN push(e.queue, 0, entry) = DOMAIN e.queue \cup {0}
        /\ push(e.queue, 0, entry)[0] = entry
        /\ \A s \in DOMAIN e.queue : s # 0 => push(e.queue, 0, entry)[s] = e.queue[s]
    BY DEF push
  <2> HIDE DEF q
  <2> QED BY <1>6, <1>7, <2>1
<1> HIDE DEF q, f
<1>9. /\ EngineTypeOK(put)
      /\ put.queue = q /\ put.inflight = None
      /\ put.next_token = e.next_token
      /\ put.outcome = e.outcome /\ put.store_ok = e.store_ok
      /\ DOMAIN put.store = DOMAIN e.store
  <2>1. DOMAIN q \subseteq Nat /\ \A s \in DOMAIN q : q[s] \in Pending
    BY <1>1, <1>4, <1>6, <1>8 DEF EngineTypeOK
  <2> QED BY <1>3, <2>1 DEF EngineTypeOK
<1> HIDE DEF put
<1>10. /\ f.token < e.next_token
       /\ \A s \in DOMAIN e.queue : e.queue[s].token # f.token
       /\ \A s \in DOMAIN e.queue :
            transactional(e.queue[s].action) => f.token < e.queue[s].token
  BY DEF Good, FlightOK, f
<1>11. \A s \in DOMAIN e.queue : s # 0 /\ e.queue[s].token = s /\ s < e.next_token
  BY <1>6 DEF Good, SlotsOK
<1>12. transactional(entry.action)
  BY <1>5 DEF f
<1>13. SlotsOK(put)
  <2>1. f.token \notin DOMAIN put.queue
    BY <1>2, <1>8, <1>9, <1>10, <1>11 DEF Tokens
  <2> QED BY <2>1, <1>5, <1>8, <1>9, <1>10, <1>11, <1>12 DEF SlotsOK
<1>14. FlightOK(put)
  BY <1>9 DEF FlightOK
<1>15. \A t \in Tokens : Holds(put, t) <=> Holds(e, t)
  BY <1>5, <1>6, <1>8, <1>9 DEF Holds, f
<1>16. FatesOK(put, H)
  BY <1>9, <1>15 DEF Good, FatesOK
<1>17. Persistent(put) = Persistent(e)
  BY <1>5, <1>6, <1>8, <1>9 DEF Persistent, f
<1>18. StoreOK(put)
  BY <1>9, <1>17 DEF Good, StoreOK
<1>19. Good(put, H)
  BY <1>9, <1>13, <1>14, <1>16, <1>18 DEF Good
<1>20. requeue(Taken(e), e.inflight) = set_timer(put, "TransactionRetry", entry.not_before)
  BY Zenon DEF requeue, put, q, kept, entry, f
<1> QED BY <1>4, <1>19, <1>20, SetTimerGood DEF Timers

(* fail writes the outcome of one token.                                   *)
LEMMA FailFields ==
  ASSUME NEW e, EngineTypeOK(e), NEW token \in Tokens, NEW why \in Outcomes
  PROVE  LET d == fail(e, token, why)
         IN /\ EngineTypeOK(d)
            /\ d.queue = e.queue /\ d.inflight = e.inflight /\ d.next_token = e.next_token
            /\ d.store = e.store /\ d.store_ok = e.store_ok
            /\ d.outcome = [e.outcome EXCEPT ![token] = why]
BY DEF EngineTypeOK, fail

(* A call that a handler holds is reported, and nobody holds it any more.  *)
LEMMA FailGood ==
  ASSUME NEW e, NEW token \in Tokens, NEW why \in Outcomes \ {"Open"}, Good(e, {token})
  PROVE  Good(fail(e, token, why), {})
<1> DEFINE d == fail(e, token, why)
<1>1. EngineTypeOK(e)
  BY DEF Good
<1>2. /\ EngineTypeOK(d)
      /\ d.queue = e.queue /\ d.inflight = e.inflight /\ d.next_token = e.next_token
      /\ d.store = e.store /\ d.store_ok = e.store_ok
      /\ d.outcome = [e.outcome EXCEPT ![token] = why]
  BY <1>1, FailFields
<1> HIDE DEF d
<1>3. SlotsOK(d) /\ FlightOK(d)
  BY <1>2 DEF Good, SlotsOK, FlightOK
<1>4. StoreOK(d)
  BY <1>2 DEF Good, StoreOK, Persistent
<1>5. \A t \in Tokens : Holds(d, t) <=> Holds(e, t)
  BY <1>2 DEF Holds
<1>6. \A t \in Tokens : d.outcome[t] = IF t = token THEN why ELSE e.outcome[t]
  BY <1>1, <1>2 DEF EngineTypeOK
<1>7. FatesOK(d, {})
  <2> SUFFICES ASSUME NEW t \in Tokens
               PROVE  /\ t < d.next_token => (d.outcome[t] = "Open" <=> Holds(d, t))
                      /\ t >= d.next_token => d.outcome[t] = "Open"
    BY DEF FatesOK
  <2>1. /\ t < e.next_token => (e.outcome[t] = "Open" <=> Holds(e, t) \/ t = token)
        /\ t >= e.next_token => e.outcome[t] = "Open"
        /\ t = token => t < e.next_token /\ ~Holds(e, t)
    BY DEF Good, FatesOK
  <2>2. t \in Nat /\ e.next_token \in Nat
    BY <1>1 DEF EngineTypeOK, Tokens
  <2> QED BY <1>2, <1>5, <1>6, <2>1, <2>2
<1> QED BY <1>2, <1>3, <1>4, <1>7 DEF Good, d

(* The call in flight is taken and acknowledged in the store.              *)
LEMMA TakeGood ==
  ASSUME NEW e, Good(e, {}), e.inflight # None
  PROVE  /\ Good(ack_store(Taken(e), {e.inflight.token}), {e.inflight.token})
         /\ e.inflight.token \in Tokens
<1> DEFINE f == e.inflight
           taken == Taken(e)
           d == ack_store(taken, {f.token})
<1>1. EngineTypeOK(e) /\ f \in InFlight
  BY DEF Good, EngineTypeOK
<1>2. f.token \in Tokens
  BY <1>1 DEF InFlight
<1>3. /\ EngineTypeOK(d)
      /\ d.queue = e.queue /\ d.inflight = None /\ d.next_token = e.next_token
      /\ d.outcome = e.outcome /\ d.store_ok = e.store_ok
      /\ d.store = IF e.store_ok THEN Restrict(e.store, DOMAIN e.store \ {f.token})
                   ELSE e.store
  <2>1. /\ EngineTypeOK(taken)
        /\ taken.queue = e.queue /\ taken.inflight = None /\ taken.next_token = e.next_token
        /\ taken.outcome = e.outcome /\ taken.store = e.store /\ taken.store_ok = e.store_ok
    BY <1>1, TakenFields, Zenon
  <2> HIDE DEF taken, f
  <2>2. /\ EngineTypeOK(d)
        /\ d.queue = taken.queue /\ d.inflight = taken.inflight /\ d.next_token = taken.next_token
        /\ d.outcome = taken.outcome /\ d.store_ok = taken.store_ok
        /\ d.store = IF taken.store_ok THEN Restrict(taken.store, DOMAIN taken.store \ {f.token})
                     ELSE taken.store
    BY <2>1, AckStore, Zenon
  <2> HIDE DEF d
  <2> QED BY <2>1, <2>2
<1> HIDE DEF d
<1>4. DOMAIN d.store = IF e.store_ok THEN DOMAIN e.store \ {f.token} ELSE DOMAIN e.store
  BY <1>3, RestrictShape
<1>5. /\ f.token < e.next_token
      /\ \A s \in DOMAIN e.queue : e.queue[s].token # f.token
  BY DEF Good, FlightOK
<1>6. SlotsOK(d) /\ FlightOK(d)
  BY <1>3 DEF Good, SlotsOK, FlightOK
<1>7. \A t \in Tokens : Holds(e, t) <=> Holds(d, t) \/ t = f.token
  BY <1>3 DEF Holds
<1>8. ~Holds(d, f.token)
  BY <1>3, <1>5 DEF Holds
<1>9. FatesOK(d, {f.token})
  <2> HIDE DEF f
  <2> QED BY <1>3, <1>5, <1>7, <1>8 DEF Good, FatesOK
<1>10. Persistent(d) = Persistent(e) \ {f.token}
  BY <1>3, <1>5 DEF Persistent
<1>11. StoreOK(d)
  BY <1>3, <1>4, <1>10 DEF Good, StoreOK
<1> QED BY <1>2, <1>3, <1>6, <1>9, <1>11 DEF Good, d

LEMMA LoseInflightGood ==
  ASSUME NEW e, Good(e, {}), NEW why \in Outcomes \ {"Open"}
  PROVE  Good(lose_inflight(e, why), {})
<1>1. CASE e.inflight = None
  BY <1>1 DEF lose_inflight
<1>2. CASE e.inflight # None
  <2> DEFINE f == e.inflight
             end == IF transactional(f.action) THEN "RetriesExhausted" ELSE why
  <2>1. lose_inflight(e, why) = requeue_or_fail(Taken(e), f, why)
    BY <1>2 DEF lose_inflight, Taken
  <2>2. CASE transactional(f.action) /\ may_retry(f.attempts)
    BY <1>2, <2>1, <2>2, RequeueGood, Zenon DEF requeue_or_fail
  <2>3. CASE ~(transactional(f.action) /\ may_retry(f.attempts))
    <3>1. end \in Outcomes \ {"Open"}
      BY DEF Outcomes
    <3>2. lose_inflight(e, why) = fail(ack_store(Taken(e), {f.token}), f.token, end)
      BY <2>1, <2>3, Zenon DEF requeue_or_fail
    <3> HIDE DEF end
    <3> QED BY <1>2, <3>1, <3>2, TakeGood, FailGood, Zenon
  <2> QED BY <2>2, <2>3
<1> QED BY <1>1, <1>2

(* Entries leave the queue in the middle of a handler.                     *)
LEMMA DropUnqueueableDrops ==
  ASSUME NEW e, EngineTypeOK(e)
  PROVE  LET slots == {s \in DOMAIN e.queue : ~e.queue[s].queue_when_offline}
             tokens == {e.queue[s].token : s \in slots}
         IN Dropped(e, slots, tokens, "Disconnected", drop_unqueueable(e))
<1> DEFINE slots == {s \in DOMAIN e.queue : ~e.queue[s].queue_when_offline}
           tokens == {e.queue[s].token : s \in slots}
           acked == ack_store(e, tokens)
           o == [t \in Tokens |-> IF t \in tokens THEN "Disconnected" ELSE e.outcome[t]]
           cut == [acked EXCEPT !.queue = remove(acked.queue, slots)]
           d == [cut EXCEPT !.outcome = o]
<1>1. EngineTypeOK(e)
  OBVIOUS
<1>2. slots \in SUBSET DOMAIN e.queue /\ tokens = {e.queue[s].token : s \in slots}
  OBVIOUS
<1>3. drop_unqueueable(e) = [acked EXCEPT !.queue = remove(acked.queue, slots), !.outcome = o]
  BY Zenon DEF drop_unqueueable
<1> HIDE DEF slots, tokens
<1>4. /\ EngineTypeOK(acked)
      /\ acked.queue = e.queue
      /\ acked.inflight = e.inflight /\ acked.next_token = e.next_token
      /\ acked.store_ok = e.store_ok
      /\ acked.store = IF e.store_ok THEN Restrict(e.store, DOMAIN e.store \ tokens)
                       ELSE e.store
  BY <1>1, AckStore
<1> HIDE DEF acked
<1>5. /\ o \in [Tokens -> Outcomes]
      /\ o = [t \in Tokens |-> IF t \in tokens THEN "Disconnected" ELSE e.outcome[t]]
  BY <1>1 DEF EngineTypeOK, Outcomes
<1> HIDE DEF o
<1>6. [acked EXCEPT !.queue = remove(acked.queue, slots), !.outcome = o] = d
  BY <1>4 DEF EngineTypeOK
<1>7. /\ EngineTypeOK(cut)
      /\ cut.queue = remove(acked.queue, slots)
      /\ cut.inflight = acked.inflight /\ cut.next_token = acked.next_token
      /\ cut.store_ok = acked.store_ok /\ cut.store = acked.store
  BY <1>4, CutQueue
<1> HIDE DEF cut
<1>8. /\ EngineTypeOK(d)
      /\ d.queue = cut.queue /\ d.inflight = cut.inflight /\ d.next_token = cut.next_token
      /\ d.store_ok = cut.store_ok /\ d.store = cut.store /\ d.outcome = o
  BY <1>5, <1>7, SetOutcome
<1> HIDE DEF d
<1>9. "Disconnected" \in Outcomes \ {"Open"}
  BY DEF Outcomes
<1>10. /\ d.queue = remove(e.queue, slots) /\ d.inflight = e.inflight
       /\ d.next_token = e.next_token /\ d.store_ok = e.store_ok
       /\ d.outcome = [t \in Tokens |-> IF t \in tokens THEN "Disconnected" ELSE e.outcome[t]]
       /\ d.store = IF e.store_ok THEN Restrict(e.store, DOMAIN e.store \ tokens)
                    ELSE e.store
  BY <1>4, <1>5, <1>7, <1>8, Zenon
<1>11. Dropped(e, slots, tokens, "Disconnected", d)
  BY <1>2, <1>8, <1>9, <1>10, Zenon DEF Dropped
<1> QED BY <1>3, <1>6, <1>11 DEF slots, tokens

LEMMA DropUnqueueableGood ==
  ASSUME NEW e, NEW H, Good(e, H)
  PROVE  Good(drop_unqueueable(e), H)
<1>1. EngineTypeOK(e)
  BY DEF Good
<1> QED BY <1>1, DropUnqueueableDrops, DropGood

LEMMA CancelDrops ==
  ASSUME NEW e, EngineTypeOK(e), NEW s \in DOMAIN e.queue
  PROVE  Dropped(e, {s}, {e.queue[s].token}, "Cancelled", cancel(e, s))
<1> DEFINE token == e.queue[s].token
           cut == [e EXCEPT !.queue = remove(e.queue, {s})]
           acked == ack_store(cut, {token})
           d == fail(acked, token, "Cancelled")
<1>1. EngineTypeOK(e) /\ token \in Tokens
  BY DEF EngineTypeOK, Pending
<1>2. {s} \in SUBSET DOMAIN e.queue /\ {token} = {e.queue[u].token : u \in {s}}
  OBVIOUS
<1>3. cancel(e, s) = d
  BY DEF cancel
<1> HIDE DEF token
<1>4. /\ EngineTypeOK(cut)
      /\ cut.queue = remove(e.queue, {s})
      /\ cut.inflight = e.inflight /\ cut.next_token = e.next_token
      /\ cut.outcome = e.outcome /\ cut.store_ok = e.store_ok /\ cut.store = e.store
  BY <1>1, CutQueue
<1> HIDE DEF cut
<1>5. /\ EngineTypeOK(acked)
      /\ acked.queue = cut.queue
      /\ acked.inflight = cut.inflight /\ acked.next_token = cut.next_token
      /\ acked.outcome = cut.outcome /\ acked.store_ok = cut.store_ok
      /\ acked.store = IF cut.store_ok THEN Restrict(cut.store, DOMAIN cut.store \ {token})
                       ELSE cut.store
  BY <1>4, AckStore
<1> HIDE DEF acked
<1>6. /\ EngineTypeOK(d)
      /\ d.queue = acked.queue /\ d.inflight = acked.inflight
      /\ d.next_token = acked.next_token
      /\ d.store_ok = acked.store_ok /\ d.store = acked.store
      /\ d.outcome = [acked.outcome EXCEPT ![token] = "Cancelled"]
  <2>1. "Cancelled" \in Outcomes
    BY DEF Outcomes
  <2> QED BY <1>1, <1>5, <2>1, FailFields
<1> HIDE DEF d
<1>7. d.outcome = [t \in Tokens |-> IF t \in {token} THEN "Cancelled" ELSE e.outcome[t]]
  BY <1>1, <1>4, <1>5, <1>6 DEF EngineTypeOK
<1>8. /\ d.queue = remove(e.queue, {s}) /\ d.inflight = e.inflight
      /\ d.next_token = e.next_token /\ d.store_ok = e.store_ok
      /\ d.store = IF e.store_ok THEN Restrict(e.store, DOMAIN e.store \ {token})
                   ELSE e.store
  BY <1>4, <1>5, <1>6, Zenon
<1>9. "Cancelled" \in Outcomes \ {"Open"}
  BY DEF Outcomes
<1>10. Dropped(e, {s}, {token}, "Cancelled", d)
  BY <1>2, <1>6, <1>7, <1>8, <1>9, Zenon DEF Dropped
<1> QED BY <1>3, <1>10 DEF token

LEMMA CancelGood ==
  ASSUME NEW e, Good(e, {}), NEW s \in DOMAIN e.queue
  PROVE  Good(cancel(e, s), {})
BY CancelDrops, DropGood DEF Good

(* Fields that no part of the invariant but its types looks at.            *)
LEMMA SetFieldGood ==
  ASSUME NEW e, NEW H, Good(e, H)
  PROVE  /\ \A up \in BOOLEAN : Good([e EXCEPT !.connected = up], H)
         /\ \A at \in Nat \cup {Never} : Good([e EXCEPT !.draining = at], H)
         /\ \A at \in Nat \cup {Never} : Good([e EXCEPT !.heartbeat_at = at], H)
         /\ \A at \in Nat \cup {Never} : Good([e EXCEPT !.boot_retry_at = at], H)
         /\ \A n \in Nat : Good([e EXCEPT !.heartbeat_interval = n], H)
         /\ \A st \in BootStates : Good([e EXCEPT !.boot = st], H)
         /\ \A ids \in SUBSET MessageId : Good([e EXCEPT !.wire = ids], H)
         /\ \A why \in {"No", "Drained", "DrainTimedOut"} : Good([e EXCEPT !.close = why], H)
<1>1. ASSUME NEW up \in BOOLEAN
      PROVE  Good([e EXCEPT !.connected = up], H)
  <2> DEFINE d == [e EXCEPT !.connected = up]
  <2>1. /\ EngineTypeOK(d)
        /\ d.queue = e.queue /\ d.inflight = e.inflight /\ d.next_token = e.next_token
        /\ d.outcome = e.outcome /\ d.store = e.store /\ d.store_ok = e.store_ok
    BY DEF Good, EngineTypeOK
  <2> HIDE DEF d
  <2>2. Good(d, H)
    BY <2>1, Irrelevant, Zenon
  <2> QED BY <2>2 DEF d
<1>2. ASSUME NEW at \in Nat \cup {Never}
      PROVE  Good([e EXCEPT !.draining = at], H)
  <2> DEFINE d == [e EXCEPT !.draining = at]
  <2>1. /\ EngineTypeOK(d)
        /\ d.queue = e.queue /\ d.inflight = e.inflight /\ d.next_token = e.next_token
        /\ d.outcome = e.outcome /\ d.store = e.store /\ d.store_ok = e.store_ok
    BY DEF Good, EngineTypeOK
  <2> HIDE DEF d
  <2>2. Good(d, H)
    BY <2>1, Irrelevant, Zenon
  <2> QED BY <2>2 DEF d
<1>3. ASSUME NEW at \in Nat \cup {Never}
      PROVE  Good([e EXCEPT !.heartbeat_at = at], H)
  <2> DEFINE d == [e EXCEPT !.heartbeat_at = at]
  <2>1. /\ EngineTypeOK(d)
        /\ d.queue = e.queue /\ d.inflight = e.inflight /\ d.next_token = e.next_token
        /\ d.outcome = e.outcome /\ d.store = e.store /\ d.store_ok = e.store_ok
    BY DEF Good, EngineTypeOK
  <2> HIDE DEF d
  <2>2. Good(d, H)
    BY <2>1, Irrelevant, Zenon
  <2> QED BY <2>2 DEF d
<1>4. ASSUME NEW at \in Nat \cup {Never}
      PROVE  Good([e EXCEPT !.boot_retry_at = at], H)
  <2> DEFINE d == [e EXCEPT !.boot_retry_at = at]
  <2>1. /\ EngineTypeOK(d)
        /\ d.queue = e.queue /\ d.inflight = e.inflight /\ d.next_token = e.next_token
        /\ d.outcome = e.outcome /\ d.store = e.store /\ d.store_ok = e.store_ok
    BY DEF Good, EngineTypeOK
  <2> HIDE DEF d
  <2>2. Good(d, H)
    BY <2>1, Irrelevant, Zenon
  <2> QED BY <2>2 DEF d
<1>5. ASSUME NEW n \in Nat
      PROVE  Good([e EXCEPT !.heartbeat_interval = n], H)
  <2> DEFINE d == [e EXCEPT !.heartbeat_interval = n]
  <2>1. /\ EngineTypeOK(d)
        /\ d.queue = e.queue /\ d.inflight = e.inflight /\ d.next_token = e.next_token
        /\ d.outcome = e.outcome /\ d.store = e.store /\ d.store_ok = e.store_ok
    BY DEF Good, EngineTypeOK
  <2> HIDE DEF d
  <2>2. Good(d, H)
    BY <2>1, Irrelevant, Zenon
  <2> QED BY <2>2 DEF d
<1>6. ASSUME NEW st \in BootStates
      PROVE  Good([e EXCEPT !.boot = st], H)
  <2> DEFINE d == [e EXCEPT !.boot = st]
  <2>1. /\ EngineTypeOK(d)
        /\ d.queue = e.queue /\ d.inflight = e.inflight /\ d.next_token = e.next_token
        /\ d.outcome = e.outcome /\ d.store = e.store /\ d.store_ok = e.store_ok
    BY DEF Good, EngineTypeOK
  <2> HIDE DEF d
  <2>2. Good(d, H)
    BY <2>1, Irrelevant, Zenon
  <2> QED BY <2>2 DEF d
<1>7. ASSUME NEW ids \in SUBSET MessageId
      PROVE  Good([e EXCEPT !.wire = ids], H)
  <2> DEFINE d == [e EXCEPT !.wire = ids]
  <2>1. /\ EngineTypeOK(d)
        /\ d.queue = e.queue /\ d.inflight = e.inflight /\ d.next_token = e.next_token
        /\ d.outcome = e.outcome /\ d.store = e.store /\ d.store_ok = e.store_ok
    BY DEF Good, EngineTypeOK
  <2> HIDE DEF d
  <2>2. Good(d, H)
    BY <2>1, Irrelevant, Zenon
  <2> QED BY <2>2 DEF d
<1>8. ASSUME NEW why \in {"No", "Drained", "DrainTimedOut"}
      PROVE  Good([e EXCEPT !.close = why], H)
  <2> DEFINE d == [e EXCEPT !.close = why]
  <2>1. /\ EngineTypeOK(d)
        /\ d.queue = e.queue /\ d.inflight = e.inflight /\ d.next_token = e.next_token
        /\ d.outcome = e.outcome /\ d.store = e.store /\ d.store_ok = e.store_ok
    BY DEF Good, EngineTypeOK
  <2> HIDE DEF d
  <2>2. Good(d, H)
    BY <2>1, Irrelevant, Zenon
  <2> QED BY <2>2 DEF d
<1> QED BY <1>1, <1>2, <1>3, <1>4, <1>5, <1>6, <1>7, <1>8

LEMMA ShutdownGood ==
  ASSUME NEW e, Good(e, {})
  PROVE  Good(shutdown(e), {})
<1>1. DrainTime \in Nat
  BY EngineAssumption
<1>2. Good([e EXCEPT !.draining = DrainTime], {})
  BY <1>1, SetFieldGood
<1>3. Good(set_timer([e EXCEPT !.draining = DrainTime], "DrainDeadline", DrainTime), {})
  BY <1>1, <1>2, SetTimerGood DEF Timers
<1> QED BY <1>3, CheckDrainGood DEF shutdown

(* A token is minted: the handler that asked for it holds its call.        *)
LEMMA MintGood ==
  ASSUME NEW e, Good(e, {}), e.next_token \in Tokens
  PROVE  /\ Good(mint_token(e), {e.next_token})
         /\ mint_token(e).queue = e.queue /\ mint_token(e).store_ok = e.store_ok
         /\ mint_token(e).store = e.store
         /\ mint_token(e).next_token = e.next_token + 1
<1> DEFINE token == e.next_token
           d == mint_token(e)
<1>1. EngineTypeOK(e) /\ token \in Nat
  BY DEF Good, EngineTypeOK
<1>2. /\ EngineTypeOK(d)
      /\ d.queue = e.queue /\ d.inflight = e.inflight /\ d.next_token = token + 1
      /\ d.outcome = e.outcome /\ d.store = e.store /\ d.store_ok = e.store_ok
  BY <1>1 DEF EngineTypeOK, mint_token
<1> HIDE DEF d
<1>3. /\ \A s \in DOMAIN e.queue : e.queue[s].token \in Nat /\ e.queue[s].token < token
      /\ e.inflight # None => e.inflight.token \in Nat /\ e.inflight.token < token
      /\ \A t \in DOMAIN e.store : t \in Nat /\ t < token
  BY <1>1 DEF Good, SlotsOK, FlightOK, StoreOK, EngineTypeOK, Pending, InFlight, Tokens
<1>4. SlotsOK(d) /\ FlightOK(d)
  BY <1>1, <1>2, <1>3 DEF Good, SlotsOK, FlightOK
<1>5. \A t \in Tokens : Holds(d, t) <=> Holds(e, t)
  BY <1>2 DEF Holds
<1>6. ~Holds(e, token)
  BY <1>1, <1>3 DEF Holds
<1>7. FatesOK(d, {token})
  <2> SUFFICES ASSUME NEW t \in Tokens
               PROVE  /\ t < d.next_token =>
                           (d.outcome[t] = "Open" <=> Holds(d, t) \/ t \in {token})
                      /\ t >= d.next_token => d.outcome[t] = "Open"
                      /\ t \in {token} => t < d.next_token /\ ~Holds(d, t)
    BY DEF FatesOK
  <2>1. /\ t < token => (e.outcome[t] = "Open" <=> Holds(e, t))
        /\ t >= token => e.outcome[t] = "Open"
    BY DEF Good, FatesOK
  <2>2. t \in Nat
    BY DEF Tokens
  <2> HIDE DEF token
  <2> QED BY <1>1, <1>2, <1>5, <1>6, <2>1, <2>2
<1>8. StoreOK(d)
  BY <1>1, <1>2, <1>3 DEF Good, StoreOK, Persistent
<1> QED BY <1>2, <1>4, <1>7, <1>8 DEF Good, d

(* The call the handler holds goes to the back of the queue, and to the    *)
(* store when it is to survive.                                            *)
LEMMA EnqueueGood ==
  ASSUME NEW e, NEW token \in Tokens, Good(e, {token}), e.next_token = token + 1,
         NEW entry \in Pending, entry.token = token,
         NEW record \in Stored, entry.persist => e.store_ok
  PROVE  LET stored == IF entry.persist
                       THEN [e EXCEPT !.store = push(e.store, token, record)] ELSE e
         IN Good([stored EXCEPT !.queue = push(e.queue, token, entry)], {})
<1> DEFINE stored == IF entry.persist
                     THEN [e EXCEPT !.store = push(e.store, token, record)] ELSE e
           q == push(e.queue, token, entry)
           d == [stored EXCEPT !.queue = q]
<1>1. EngineTypeOK(e) /\ token \in Nat \ {0}
  BY DEF Good, Tokens
<1>2. /\ DOMAIN push(e.store, token, record) = DOMAIN e.store \cup {token}
      /\ push(e.store, token, record)[token] = record
      /\ \A s \in DOMAIN e.store : s # token => push(e.store, token, record)[s] = e.store[s]
  BY DEF push
<1>3. /\ DOMAIN q = DOMAIN e.queue \cup {token}
      /\ q[token] = entry
      /\ \A s \in DOMAIN e.queue : s # token => q[s] = e.queue[s]
  BY DEF push
<1> HIDE DEF q
<1>4. /\ EngineTypeOK(stored)
      /\ stored.queue = e.queue /\ stored.inflight = e.inflight
      /\ stored.next_token = e.next_token /\ stored.outcome = e.outcome
      /\ stored.store_ok = e.store_ok
      /\ DOMAIN stored.store = IF entry.persist THEN DOMAIN e.store \cup {token}
                               ELSE DOMAIN e.store
  <2>1. CASE entry.persist
    <3> DEFINE st == push(e.store, token, record)
    <3>1. /\ DOMAIN st \subseteq Tokens /\ \A t \in DOMAIN st : st[t] \in Stored
          /\ DOMAIN st = DOMAIN e.store \cup {token}
      BY <1>1, <1>2 DEF EngineTypeOK
    <3>2. stored = [e EXCEPT !.store = st]
      BY <2>1
    <3> HIDE DEF st, stored
    <3> QED BY <1>1, <2>1, <3>1, <3>2 DEF EngineTypeOK
  <2>2. CASE ~entry.persist
    BY <1>1, <2>2
  <2> QED BY <2>1, <2>2
<1> HIDE DEF stored
<1>5. /\ EngineTypeOK(d)
      /\ d.queue = q /\ d.inflight = e.inflight
      /\ d.next_token = e.next_token /\ d.outcome = e.outcome
      /\ d.store_ok = e.store_ok /\ d.store = stored.store
  <2>1. DOMAIN q \subseteq Nat /\ \A s \in DOMAIN q : q[s] \in Pending
    BY <1>1, <1>3 DEF EngineTypeOK
  <2> QED BY <1>4, <2>1 DEF EngineTypeOK
<1> HIDE DEF d
<1>6. ~Holds(e, token)
  BY DEF Good, FatesOK
<1>7. /\ \A s \in DOMAIN e.queue : e.queue[s].token # token
      /\ e.inflight # None => e.inflight.token # token
  BY <1>6 DEF Holds
<1>8. \A s \in DOMAIN e.queue : s # 0 => e.queue[s].token = s
  BY DEF Good, SlotsOK
<1>9. token \notin DOMAIN e.queue
  BY <1>1, <1>7, <1>8
<1>10. \A s \in DOMAIN e.queue : q[s] = e.queue[s] /\ e.queue[s].token < token
  <2>1. \A s \in DOMAIN e.queue : e.queue[s].token < token + 1 /\ e.queue[s].token \in Nat
    BY <1>1 DEF Good, SlotsOK, EngineTypeOK, Pending, Tokens
  <2> QED BY <1>1, <1>3, <1>7, <1>9, <2>1
<1>11. e.inflight # None => e.inflight.token < token
  <2>1. e.inflight # None => e.inflight.token < token + 1 /\ e.inflight.token \in Nat
    BY <1>1 DEF Good, FlightOK, EngineTypeOK, InFlight, Tokens
  <2> QED BY <1>1, <1>7, <2>1
<1>12. SlotsOK(d)
  <2>1. \A s \in DOMAIN d.queue : s # 0 => d.queue[s].token = s
    BY <1>3, <1>5, <1>8, <1>10
  <2>2. \A s \in DOMAIN d.queue : d.queue[s].token < d.next_token
    BY <1>1, <1>3, <1>5, <1>10 DEF Good, SlotsOK
  <2>3. ASSUME 0 \in DOMAIN d.queue
        PROVE  /\ transactional(d.queue[0].action)
               /\ d.queue[0].token \notin DOMAIN d.queue
               /\ \A u \in DOMAIN d.queue :
                    u # 0 /\ transactional(d.queue[u].action) => d.queue[0].token < u
    <3>1. 0 \in DOMAIN e.queue /\ d.queue[0] = e.queue[0]
      BY <1>1, <1>3, <1>5, <1>10, <2>3
    <3>2. /\ transactional(e.queue[0].action)
          /\ e.queue[0].token \notin DOMAIN e.queue
          /\ \A u \in DOMAIN e.queue :
               u # 0 /\ transactional(e.queue[u].action) => e.queue[0].token < u
      BY <3>1 DEF Good, SlotsOK
    <3> QED BY <1>3, <1>5, <1>7, <1>10, <3>1, <3>2
  <2> QED BY <2>1, <2>2, <2>3 DEF SlotsOK
<1>13. FlightOK(d)
  <2> SUFFICES ASSUME e.inflight # None PROVE FlightOK(d)
    BY <1>5 DEF FlightOK
  <2>1. /\ \A s \in DOMAIN e.queue : e.queue[s].token # e.inflight.token
        /\ e.inflight.token < e.next_token
        /\ transactional(e.inflight.action) =>
             /\ 0 \notin DOMAIN e.queue
             /\ \A s \in DOMAIN e.queue :
                  transactional(e.queue[s].action) => e.inflight.token < e.queue[s].token
    BY DEF Good, FlightOK
  <2>2. \A s \in DOMAIN d.queue : d.queue[s].token # d.inflight.token
    BY <1>3, <1>5, <1>7, <1>10, <2>1
  <2>3. transactional(e.inflight.action) => 0 \notin DOMAIN d.queue
    BY <1>1, <1>3, <1>5, <2>1
  <2>4. ASSUME transactional(e.inflight.action), NEW s \in DOMAIN d.queue,
               transactional(d.queue[s].action)
        PROVE  e.inflight.token < d.queue[s].token
    BY <1>3, <1>5, <1>10, <1>11, <2>1, <2>4
  <2> QED BY <1>5, <2>1, <2>2, <2>3, <2>4 DEF FlightOK
<1>14. \A t \in Tokens : Holds(d, t) <=> Holds(e, t) \/ t = token
  BY <1>3, <1>5, <1>9, <1>10 DEF Holds
<1>15. FatesOK(d, {})
  BY <1>5, <1>14 DEF Good, FatesOK
<1>16. Persistent(d) = IF entry.persist THEN Persistent(e) \cup {token} ELSE Persistent(e)
  BY <1>3, <1>5, <1>9, <1>10 DEF Persistent
<1>17. StoreOK(d)
  BY <1>1, <1>4, <1>5, <1>16 DEF Good, StoreOK
<1> QED BY <1>5, <1>12, <1>13, <1>15, <1>17 DEF Good, d, stored, q

LEMMA CallWithGood ==
  ASSUME NEW e, Good(e, {}), e.next_token \in Tokens, NEW r \in Request
  PROVE  Good(call_with(e, r), {})
<1> DEFINE token == e.next_token
           m == mint_token(e)
           entry == [token |-> token, action |-> r.action, persist |-> r.persist,
                     queue_when_offline |-> r.queue_when_offline,
                     triggered |-> r.triggered, attempts |-> 0, not_before |-> Never]
           record == [action |-> r.action, attempts |-> 0]
           stored == IF r.persist
                     THEN [m EXCEPT !.store = push(m.store, token, record)] ELSE m
           put == [stored EXCEPT !.queue = push(m.queue, token, entry)]
<1>1. /\ Good(m, {token})
      /\ m.queue = e.queue /\ m.store_ok = e.store_ok /\ m.store = e.store
      /\ m.next_token = token + 1
  BY MintGood, Zenon
<1>2. token \in Tokens /\ EngineTypeOK(m)
  BY <1>1 DEF Good
<1>3. Good(fail(m, token, "Disconnected"), {}) /\ Good(fail(m, token, "QueueFull"), {})
  <2>1. "Disconnected" \in Outcomes \ {"Open"} /\ "QueueFull" \in Outcomes \ {"Open"}
    BY DEF Outcomes
  <2> HIDE DEF m, token
  <2> QED BY <1>1, <1>2, <2>1, FailGood, Zenon
<1>4. ASSUME ~(r.persist /\ ~e.store_ok)
      PROVE  Good(put, {})
  <2>1. entry \in Pending /\ entry.token = token /\ entry.persist = r.persist
    BY <1>2 DEF Pending, Request
  <2>2. record \in Stored
    BY DEF Stored, Request
  <2>3. entry.persist => m.store_ok
    BY <1>1, <1>4, <2>1
  <2> HIDE DEF entry, record, m, token
  <2>4. LET st == IF entry.persist
                  THEN [m EXCEPT !.store = push(m.store, token, record)] ELSE m
        IN Good([st EXCEPT !.queue = push(m.queue, token, entry)], {})
    BY <1>1, <1>2, <2>1, <2>2, <2>3, EnqueueGood
  <2> QED BY <2>1, <2>4
<1>5. [stored EXCEPT !.queue = push(stored.queue, token, entry)] = put
  <2>1. stored.queue = m.queue
    <3> HIDE DEF m
    <3> QED BY <1>2 DEF EngineTypeOK
  <2> QED BY <2>1
<1>6. call_with(e, r) = IF ~e.connected /\ ~r.queue_when_offline
                        THEN fail(m, token, "Disconnected")
                        ELSE IF queue_full(e) THEN fail(m, token, "QueueFull")
                        ELSE IF r.persist /\ ~e.store_ok THEN fail(m, token, "QueueFull")
                        ELSE pump([stored EXCEPT !.queue = push(stored.queue, token, entry)])
  BY Zenon DEF call_with
<1> HIDE DEF put, stored, m, entry
<1> QED BY <1>3, <1>4, <1>5, <1>6, PumpGood

LEMMA SendHeartbeatGood ==
  ASSUME NEW e, Good(e, {})
  PROVE  Good(send_heartbeat(e), {})
<1>1. HeartbeatRequest \in Request
  BY DEF HeartbeatRequest, Request, Actions
<1> QED BY <1>1, CallWithGood DEF send_heartbeat

LEMMA OnConnectedGood ==
  ASSUME NEW e, Good(e, {})
  PROVE  Good(on_connected(e), {})
<1>1. Good([e EXCEPT !.connected = TRUE], {})
  BY SetFieldGood
<1> QED BY <1>1, ArmHeartbeatGood, PumpGood DEF on_connected

LEMMA OnDisconnectedGood ==
  ASSUME NEW e, Good(e, {})
  PROVE  Good(on_disconnected(e), {})
<1> DEFINE c == clear_timer(clear_timer(e, "CallTimeout"), "Heartbeat")
           down == [c EXCEPT !.connected = FALSE, !.heartbeat_at = Never, !.wire = {}]
           off == [c EXCEPT !.connected = FALSE]
           quiet == [off EXCEPT !.heartbeat_at = Never]
<1>1. Good(c, {})
  BY ClearTimerGood DEF Timers
<1> HIDE DEF c
<1>2. down = [quiet EXCEPT !.wire = {}]
  BY <1>1 DEF Good, EngineTypeOK
<1>3. Good(off, {})
  BY <1>1, SetFieldGood
<1> HIDE DEF off
<1>4. Good(quiet, {})
  BY <1>3, SetFieldGood
<1> HIDE DEF quiet
<1>5. Good([quiet EXCEPT !.wire = {}], {})
  BY <1>4, SetFieldGood
<1>6. Good(down, {})
  BY <1>2, <1>5
<1>7. on_disconnected(e) = check_drain(drop_unqueueable(lose_inflight(down, "Disconnected")))
  BY Zenon DEF on_disconnected, c
<1> HIDE DEF down
<1>8. "Disconnected" \in Outcomes \ {"Open"}
  BY DEF Outcomes
<1>9. Good(lose_inflight(down, "Disconnected"), {})
  BY <1>6, <1>8, LoseInflightGood
<1> QED BY <1>7, <1>9, DropUnqueueableGood, CheckDrainGood

LEMMA CallExpiredGood ==
  ASSUME NEW e, Good(e, {})
  PROVE  Good(call_expired(e), {})
<1>1. Good(clear_timer(e, "CallTimeout"), {})
  BY ClearTimerGood DEF Timers
<1>2. "Timeout" \in Outcomes \ {"Open"}
  BY DEF Outcomes
<1> QED BY <1>1, <1>2, LoseInflightGood DEF call_expired

LEMMA HeartbeatExpiredGood ==
  ASSUME NEW e, Good(e, {})
  PROVE  Good(heartbeat_expired(e), {})
<1>1. Good([e EXCEPT !.heartbeat_at = Never], {})
  BY SetFieldGood
<1> QED BY <1>1, SendHeartbeatGood, ArmHeartbeatGood DEF heartbeat_expired

LEMMA BootRetryExpiredGood ==
  ASSUME NEW e, NEW H, Good(e, H)
  PROVE  Good(boot_retry_expired(e), H)
<1> DEFINE c == [e EXCEPT !.boot_retry_at = Never]
<1>1. Good(c, H)
  BY SetFieldGood
<1>2. [e EXCEPT !.boot_retry_at = Never, !.boot = "Idle"] = [c EXCEPT !.boot = "Idle"]
  BY DEF Good, EngineTypeOK
<1> HIDE DEF c
<1>3. Good([c EXCEPT !.boot = "Idle"], H)
  <2>1. "Idle" \in BootStates
    BY DEF BootStates
  <2> QED BY <1>1, <2>1, SetFieldGood
<1> QED BY <1>2, <1>3 DEF boot_retry_expired

LEMMA OnTimeoutGood ==
  ASSUME NEW e, Good(e, {})
  PROVE  Good(on_timeout(e), {})
<1> DEFINE due == boot_retry_expired(heartbeat_expired(call_expired(e)))
           shut == [due EXCEPT !.close = "DrainTimedOut"]
<1>1. Good(due, {})
  BY CallExpiredGood, HeartbeatExpiredGood, BootRetryExpiredGood
<1>2. on_timeout(e) = IF Expired(due.draining) /\ ~drain_complete(due)
                      THEN [due EXCEPT !.close = "DrainTimedOut", !.draining = Never]
                      ELSE check_drain(pump(due))
  BY Zenon DEF on_timeout
<1> HIDE DEF due
<1>3. Good(check_drain(pump(due)), {})
  BY <1>1, PumpGood, CheckDrainGood
<1>4. Good(shut, {})
  BY <1>1, SetFieldGood
<1>5. [due EXCEPT !.close = "DrainTimedOut", !.draining = Never]
        = [shut EXCEPT !.draining = Never]
  BY <1>1 DEF Good, EngineTypeOK
<1> HIDE DEF shut
<1>6. Good([shut EXCEPT !.draining = Never], {})
  BY <1>4, SetFieldGood
<1> QED BY <1>2, <1>3, <1>5, <1>6

LEMMA ObserveBootAnswerGood ==
  ASSUME NEW e, NEW H, Good(e, H), NEW status, NEW interval \in Nat
  PROVE  Good(observe_boot_answer(e, status, interval), H)
<1> DEFINE told == [e EXCEPT !.boot = status]
           wait == IF interval > 0 THEN interval ELSE BootRetryFallback
           beat == [told EXCEPT !.heartbeat_interval = interval]
           retry == [told EXCEPT !.boot_retry_at = wait]
<1>1. CASE status \notin Verdicts
  BY <1>1 DEF observe_boot_answer
<1>2. CASE status \in Verdicts
  <2>1. observe_boot_answer(e, status, interval) =
          IF status = "Accepted" THEN pump(arm_heartbeat(beat))
          ELSE set_timer(retry, "BootRetry", wait)
    BY <1>2, Zenon DEF observe_boot_answer
  <2>2. wait \in Nat
    BY EngineAssumption
  <2> HIDE DEF wait
  <2>3. Good(told, H)
    BY <1>2, SetFieldGood DEF Verdicts, BootStates
  <2> HIDE DEF told
  <2>4. Good(beat, H) /\ Good(retry, H)
    BY <2>2, <2>3, SetFieldGood
  <2> HIDE DEF beat, retry
  <2>5. Good(pump(arm_heartbeat(beat)), H)
    BY <2>4, ArmHeartbeatGood, PumpGood
  <2>6. Good(set_timer(retry, "BootRetry", wait), H)
    BY <2>2, <2>4, SetTimerGood DEF Timers
  <2> QED BY <2>1, <2>5, <2>6
<1> QED BY <1>1, <1>2

LEMMA OnCallResultGood ==
  ASSUME NEW e, Good(e, {}), NEW id, NEW status, NEW interval \in Nat
  PROVE  Good(on_call_result(e, id, status, interval), {})
<1> DEFINE f == e.inflight
           free == clear_timer(ack_store(Taken(e), {f.token}), "CallTimeout")
           told == IF f.action = "BootNotification"
                   THEN observe_boot_answer(free, status, interval) ELSE free
<1>1. CASE ~take_inflight(e, id)
  BY <1>1 DEF on_call_result
<1>2. CASE take_inflight(e, id)
  <2>1. on_call_result(e, id, status, interval)
          = check_drain(pump(fail(told, f.token, "Result")))
    BY <1>2, Zenon DEF on_call_result, Taken
  <2>2. Good(ack_store(Taken(e), {f.token}), {f.token}) /\ f.token \in Tokens
    BY <1>2, TakeGood DEF take_inflight
  <2>3. Good(free, {f.token})
    BY <2>2, ClearTimerGood DEF Timers
  <2> HIDE DEF free
  <2>4. Good(told, {f.token})
    BY <2>3, ObserveBootAnswerGood
  <2> HIDE DEF told, f
  <2>5. "Result" \in Outcomes \ {"Open"}
    BY DEF Outcomes
  <2>6. Good(fail(told, f.token, "Result"), {})
    BY <2>2, <2>4, <2>5, FailGood
  <2> QED BY <2>1, <2>6, PumpGood, CheckDrainGood
<1> QED BY <1>1, <1>2

LEMMA OnCallErrorGood ==
  ASSUME NEW e, Good(e, {}), NEW id
  PROVE  Good(on_call_error(e, id), {})
<1> DEFINE f == e.inflight
           free == clear_timer(ack_store(Taken(e), {f.token}), "CallTimeout")
<1>1. CASE ~take_inflight(e, id)
  BY <1>1 DEF on_call_error
<1>2. CASE take_inflight(e, id)
  <2>1. on_call_error(e, id) = check_drain(pump(fail(free, f.token, "Rejected")))
    BY <1>2, Zenon DEF on_call_error, Taken
  <2>2. Good(ack_store(Taken(e), {f.token}), {f.token}) /\ f.token \in Tokens
    BY <1>2, TakeGood DEF take_inflight
  <2>3. Good(free, {f.token})
    BY <2>2, ClearTimerGood DEF Timers
  <2> HIDE DEF free, f
  <2>4. "Rejected" \in Outcomes \ {"Open"}
    BY DEF Outcomes
  <2>5. Good(fail(free, f.token, "Rejected"), {})
    BY <2>2, <2>3, <2>4, FailGood
  <2> QED BY <2>1, <2>5, PumpGood, CheckDrainGood
<1> QED BY <1>1, <1>2

(* The clock changes deadlines only.                                       *)
(* The clock moves the deadlines and nothing else.                         *)
SameMessage(x, y) ==
  /\ y.token = x.token /\ y.action = x.action /\ y.persist = x.persist
  /\ y.triggered = x.triggered /\ y.attempts = x.attempts

Elapsed(e, d) ==
  /\ EngineTypeOK(d)
  /\ d.connected = e.connected /\ d.boot = e.boot
  /\ d.next_token = e.next_token /\ d.heartbeat_interval = e.heartbeat_interval
  /\ d.outcome = e.outcome /\ d.store = e.store /\ d.store_ok = e.store_ok
  /\ d.wire = e.wire
  /\ d.heartbeat_at = Elapse(e.heartbeat_at)
  /\ d.boot_retry_at = Elapse(e.boot_retry_at)
  /\ d.draining = Elapse(e.draining)
  /\ \A t \in Timers : d.timers[t] = Elapse(e.timers[t])
  /\ DOMAIN d.queue = DOMAIN e.queue
  /\ \A s \in DOMAIN e.queue :
       /\ SameMessage(e.queue[s], d.queue[s])
       /\ d.queue[s].not_before = Elapse(e.queue[s].not_before)
  /\ d.inflight = None <=> e.inflight = None
  /\ d.inflight # None =>
       /\ SameMessage(e.inflight, d.inflight)
       /\ d.inflight.deadline = Elapse(e.inflight.deadline)

LEMMA AdvanceElapsed ==
  ASSUME NEW e, EngineTypeOK(e)
  PROVE  Elapsed(e, advance(e))
<1> DEFINE d == advance(e)
           q == [s \in DOMAIN e.queue |->
                   [e.queue[s] EXCEPT !.not_before = Elapse(e.queue[s].not_before)]]
           f == IF e.inflight = None THEN None
                ELSE [e.inflight EXCEPT !.deadline = Elapse(e.inflight.deadline)]
           tm == [t \in Timers |-> Elapse(e.timers[t])]
<1>1. \A at \in Nat \cup {Never} : Elapse(at) \in Nat \cup {Never}
  BY DEF Elapse, Never
<1>2. \A at \in Nat : Elapse(at) \in Nat
  BY DEF Elapse
<1>3. /\ DOMAIN q = DOMAIN e.queue
      /\ \A s \in DOMAIN e.queue :
           /\ q[s] \in Pending /\ SameMessage(e.queue[s], q[s])
           /\ q[s].not_before = Elapse(e.queue[s].not_before)
  <2> SUFFICES ASSUME NEW s \in DOMAIN e.queue
               PROVE  /\ q[s] \in Pending /\ SameMessage(e.queue[s], q[s])
                      /\ q[s].not_before = Elapse(e.queue[s].not_before)
    OBVIOUS
  <2>1. e.queue[s] \in Pending
    BY DEF EngineTypeOK
  <2>2. Elapse(e.queue[s].not_before) \in Nat \cup {Never}
    BY <1>1, <2>1 DEF Pending
  <2>3. q[s] = [e.queue[s] EXCEPT !.not_before = Elapse(e.queue[s].not_before)]
    OBVIOUS
  <2> HIDE DEF q
  <2> QED BY <2>1, <2>2, <2>3 DEF Pending, SameMessage
<1>4. /\ f = None <=> e.inflight = None
      /\ f # None => /\ f \in InFlight /\ SameMessage(e.inflight, f)
                     /\ f.deadline = Elapse(e.inflight.deadline)
  <2> SUFFICES ASSUME e.inflight # None
               PROVE  /\ f # None
                      /\ f \in InFlight /\ SameMessage(e.inflight, f)
                      /\ f.deadline = Elapse(e.inflight.deadline)
    OBVIOUS
  <2>1. e.inflight \in InFlight
    BY DEF EngineTypeOK
  <2>2. Elapse(e.inflight.deadline) \in Nat
    BY <1>2, <2>1 DEF InFlight
  <2>3. f = [e.inflight EXCEPT !.deadline = Elapse(e.inflight.deadline)]
    OBVIOUS
  <2> HIDE DEF f
  <2>4. /\ f \in InFlight /\ SameMessage(e.inflight, f)
        /\ f.deadline = Elapse(e.inflight.deadline)
    BY <2>1, <2>2, <2>3 DEF InFlight, SameMessage
  <2> QED BY <2>4, NoneAssumption
<1>5. /\ tm \in [Timers -> Nat \cup {Never}]
      /\ \A t \in Timers : tm[t] = Elapse(e.timers[t])
  BY <1>1 DEF EngineTypeOK
<1>6. d = [e EXCEPT !.timers = tm, !.queue = q, !.inflight = f,
                    !.heartbeat_at = Elapse(e.heartbeat_at),
                    !.boot_retry_at = Elapse(e.boot_retry_at),
                    !.draining = Elapse(e.draining)]
  BY Zenon DEF advance
<1> DEFINE h == Elapse(e.heartbeat_at)
           b == Elapse(e.boot_retry_at)
           r == Elapse(e.draining)
<1>7. h \in Nat \cup {Never} /\ b \in Nat \cup {Never} /\ r \in Nat \cup {Never}
  BY <1>1 DEF EngineTypeOK
<1> HIDE DEF q, f, tm, d, h, b, r
<1>8. d = [connected |-> e.connected, boot |-> e.boot, inflight |-> f,
           queue |-> q, next_token |-> e.next_token,
           heartbeat_interval |-> e.heartbeat_interval, heartbeat_at |-> h,
           boot_retry_at |-> b, draining |-> r, close |-> e.close,
           store |-> e.store, store_ok |-> e.store_ok, timers |-> tm,
           outcome |-> e.outcome, wire |-> e.wire]
  BY <1>6 DEF EngineTypeOK, h, b, r
<1>9. /\ EngineTypeOK(d) /\ d.queue = q /\ d.inflight = f
  BY <1>3, <1>4, <1>5, <1>7, <1>8 DEF EngineTypeOK
<1>10. /\ d.connected = e.connected /\ d.boot = e.boot
       /\ d.next_token = e.next_token /\ d.heartbeat_interval = e.heartbeat_interval
       /\ d.outcome = e.outcome /\ d.store = e.store /\ d.store_ok = e.store_ok
       /\ d.heartbeat_at = h /\ d.boot_retry_at = b /\ d.draining = r /\ d.timers = tm
       /\ d.wire = e.wire
  BY <1>8
<1> QED BY <1>3, <1>4, <1>5, <1>9, <1>10 DEF Elapsed, d, h, b, r

LEMMA AdvanceGood ==
  ASSUME NEW e, Good(e, {})
  PROVE  Good(advance(e), {})
<1> DEFINE d == advance(e)
<1>1. Elapsed(e, d)
  BY AdvanceElapsed DEF Good
<1> HIDE DEF d
<1>2. SlotsOK(d) /\ FlightOK(d)
  BY <1>1 DEF Elapsed, SameMessage, Good, SlotsOK, FlightOK
<1>3. \A t \in Tokens : Holds(d, t) <=> Holds(e, t)
  BY <1>1 DEF Elapsed, SameMessage, Holds
<1>4. FatesOK(d, {})
  BY <1>1, <1>3 DEF Elapsed, Good, FatesOK
<1>5. Persistent(d) = Persistent(e)
  BY <1>1 DEF Elapsed, SameMessage, Persistent
<1>6. StoreOK(d)
  BY <1>1, <1>5 DEF Elapsed, Good, StoreOK
<1> QED BY <1>1, <1>2, <1>4, <1>6 DEF Elapsed, Good, d

LEMMA StoreFaultGood ==
  ASSUME NEW e, Good(e, {}), StoreMayFail
  PROVE  Good([e EXCEPT !.store_ok = ~e.store_ok], {})
<1> DEFINE d == [e EXCEPT !.store_ok = ~e.store_ok]
<1>1. /\ EngineTypeOK(d)
      /\ d.queue = e.queue /\ d.inflight = e.inflight /\ d.next_token = e.next_token
      /\ d.outcome = e.outcome /\ d.store = e.store
  BY DEF Good, EngineTypeOK
<1> HIDE DEF d
<1>2. Good(d, {})
  BY <1>1 DEF Good, SlotsOK, FlightOK, FatesOK, Holds, StoreOK, Persistent
<1> QED BY <1>2 DEF d

(* What a process finds in the store is what it starts with.               *)
LEMMA WithStoreGood ==
  ASSUME NEW e, Dead(e)
  PROVE  Good(with_store(e.store, e.outcome, e.next_token, e.store_ok), {})
<1> DEFINE d == with_store(e.store, e.outcome, e.next_token, e.store_ok)
           q == [t \in DOMAIN e.store |->
                   [token |-> t, action |-> e.store[t].action, persist |-> TRUE,
                    queue_when_offline |-> TRUE, triggered |-> FALSE,
                    attempts |-> e.store[t].attempts, not_before |-> Never]]
           o == [t \in Tokens |-> IF t \in DOMAIN e.store THEN "Open" ELSE e.outcome[t]]
           tm == [t \in Timers |-> Never]
<1>1. EngineTypeOK(e)
  BY DEF Dead
<1>2. /\ DOMAIN q = DOMAIN e.store
      /\ \A t \in DOMAIN e.store : q[t] \in Pending /\ q[t].token = t /\ q[t].persist = TRUE
  BY <1>1 DEF EngineTypeOK, Pending, Stored
<1>3. o \in [Tokens -> Outcomes]
  BY <1>1 DEF EngineTypeOK, Outcomes
<1>4. \A t \in Tokens : o[t] = IF t \in DOMAIN e.store THEN "Open" ELSE e.outcome[t]
  OBVIOUS
<1>5. tm \in [Timers -> Nat \cup {Never}]
  OBVIOUS
<1>6. d = [connected |-> FALSE, boot |-> "Idle", inflight |-> None, queue |-> q,
           next_token |-> e.next_token, heartbeat_interval |-> 0, heartbeat_at |-> Never,
           boot_retry_at |-> Never, draining |-> Never, close |-> "No",
           store |-> e.store, store_ok |-> e.store_ok, timers |-> tm,
           outcome |-> o, wire |-> {}]
  BY Zenon DEF with_store
<1> HIDE DEF d, q, o, tm
<1>7. DOMAIN e.store \subseteq Tokens /\ Tokens \subseteq Nat \ {0}
  BY <1>1 DEF EngineTypeOK, Tokens
<1>8. /\ EngineTypeOK(d)
      /\ d.queue = q /\ d.inflight = None /\ d.next_token = e.next_token
      /\ d.outcome = o /\ d.store = e.store /\ d.store_ok = e.store_ok
  <2>1. "Idle" \in BootStates
    BY DEF BootStates
  <2> QED BY <1>1, <1>2, <1>3, <1>5, <1>6, <1>7, <2>1 DEF EngineTypeOK
<1>9. SlotsOK(d)
  BY <1>2, <1>7, <1>8 DEF Dead, SlotsOK
<1>10. FlightOK(d)
  BY <1>8 DEF FlightOK
<1>11. \A t \in Tokens : Holds(d, t) <=> t \in DOMAIN e.store
  BY <1>2, <1>8 DEF Holds
<1>12. FatesOK(d, {})
  <2> SUFFICES ASSUME NEW t \in Tokens
               PROVE  /\ t < d.next_token => (d.outcome[t] = "Open" <=> Holds(d, t))
                      /\ t >= d.next_token => d.outcome[t] = "Open"
    BY DEF FatesOK
  <2>1. /\ t < e.next_token /\ e.outcome[t] = "Open" => t \in DOMAIN e.store
        /\ t >= e.next_token => e.outcome[t] = "Open"
    BY DEF Dead
  <2> QED BY <1>4, <1>8, <1>11, <2>1
<1>13. Persistent(d) = DOMAIN e.store
  BY <1>2, <1>7, <1>8 DEF Persistent
<1>14. StoreOK(d)
  BY <1>8, <1>13 DEF Dead, StoreOK
<1> QED BY <1>8, <1>9, <1>10, <1>12, <1>14 DEF Good, d

(* The process ends: what was durable and open is in the store.            *)
Halted(e) ==
  [with_store(e.store, e.outcome, e.next_token, e.store_ok) EXCEPT
     !.queue = [s \in {} |-> 0],
     !.outcome = [t \in Tokens |->
        IF t < e.next_token /\ e.outcome[t] = "Open" /\ t \notin Persistent(e)
        THEN "Lost" ELSE e.outcome[t]]]

LEMMA HaltedDead ==
  ASSUME NEW e, Good(e, {})
  PROVE  Dead(Halted(e))
<1> DEFINE d == Halted(e)
           q == [s \in {} |-> 0]
           o == [t \in Tokens |->
                   IF t < e.next_token /\ e.outcome[t] = "Open" /\ t \notin Persistent(e)
                   THEN "Lost" ELSE e.outcome[t]]
           tm == [t \in Timers |-> Never]
<1>1. EngineTypeOK(e)
  BY DEF Good
<1>2. DOMAIN q = {}
  OBVIOUS
<1>3. o \in [Tokens -> Outcomes]
  BY <1>1 DEF EngineTypeOK, Outcomes
<1>4. \A t \in Tokens :
        o[t] = IF t < e.next_token /\ e.outcome[t] = "Open" /\ t \notin Persistent(e)
               THEN "Lost" ELSE e.outcome[t]
  OBVIOUS
<1>5. tm \in [Timers -> Nat \cup {Never}]
  OBVIOUS
<1>6. d = [connected |-> FALSE, boot |-> "Idle", inflight |-> None, queue |-> q,
           next_token |-> e.next_token, heartbeat_interval |-> 0, heartbeat_at |-> Never,
           boot_retry_at |-> Never, draining |-> Never, close |-> "No",
           store |-> e.store, store_ok |-> e.store_ok, timers |-> tm,
           outcome |-> o, wire |-> {}]
  <2> DEFINE w == with_store(e.store, e.outcome, e.next_token, e.store_ok)
             wq == [t \in DOMAIN e.store |->
                      [token |-> t, action |-> e.store[t].action, persist |-> TRUE,
                       queue_when_offline |-> TRUE, triggered |-> FALSE,
                       attempts |-> e.store[t].attempts, not_before |-> Never]]
             wo == [t \in Tokens |-> IF t \in DOMAIN e.store THEN "Open" ELSE e.outcome[t]]
  <2>1. w = [connected |-> FALSE, boot |-> "Idle", inflight |-> None, queue |-> wq,
             next_token |-> e.next_token, heartbeat_interval |-> 0, heartbeat_at |-> Never,
             boot_retry_at |-> Never, draining |-> Never, close |-> "No",
             store |-> e.store, store_ok |-> e.store_ok, timers |-> tm,
             outcome |-> wo, wire |-> {}]
    BY Zenon DEF with_store
  <2>2. d = [w EXCEPT !.queue = q, !.outcome = o]
    BY Zenon DEF Halted
  <2> HIDE DEF w, wq, wo, d, q, o, tm
  <2> QED BY <2>1, <2>2
<1> HIDE DEF d, q, o, tm
<1>7. /\ EngineTypeOK(d)
      /\ d.queue = q /\ d.inflight = None /\ d.next_token = e.next_token
      /\ d.outcome = o /\ d.store = e.store /\ d.store_ok = e.store_ok
  <2>1. "Idle" \in BootStates
    BY DEF BootStates
  <2> QED BY <1>1, <1>2, <1>3, <1>5, <1>6, <2>1 DEF EngineTypeOK
<1>8. Persistent(e) \subseteq Tokens /\ \A t \in Persistent(e) : Holds(e, t)
  BY DEF Persistent, Holds
<1>9. \A t \in Tokens :
        /\ t < e.next_token /\ o[t] = "Open" => t \in DOMAIN e.store
        /\ t >= e.next_token => o[t] = "Open"
  <2> SUFFICES ASSUME NEW t \in Tokens
               PROVE  /\ t < e.next_token /\ o[t] = "Open" => t \in DOMAIN e.store
                      /\ t >= e.next_token => o[t] = "Open"
    OBVIOUS
  <2>1. t >= e.next_token => e.outcome[t] = "Open"
    BY DEF Good, FatesOK
  <2>2. Persistent(e) \subseteq DOMAIN e.store
    BY DEF Good, StoreOK
  <2>3. t \in Nat /\ e.next_token \in Nat
    BY <1>1 DEF Tokens, EngineTypeOK
  <2> QED BY <1>4, <2>1, <2>2, <2>3
<1>10. ~StoreMayFail => e.store_ok /\ \A t \in DOMAIN e.store : t \in Tokens /\ o[t] = "Open"
  <2> SUFFICES ASSUME ~StoreMayFail, NEW t \in DOMAIN e.store
               PROVE  t \in Tokens /\ o[t] = "Open"
    BY DEF Good, StoreOK
  <2>1. t \in Persistent(e) /\ t \in Tokens /\ t < e.next_token
    BY <1>1 DEF Good, StoreOK, EngineTypeOK
  <2>2. e.outcome[t] = "Open"
    BY <1>8, <2>1 DEF Good, FatesOK
  <2> QED BY <1>4, <2>1, <2>2
<1>11. \A t \in DOMAIN e.store : t < e.next_token
  BY DEF Good, StoreOK
<1> QED BY <1>2, <1>7, <1>9, <1>10, <1>11 DEF Dead, d

LEMMA InitIndInv ==
  Init => IndInv
<1> SUFFICES ASSUME Init PROVE IndInv
  OBVIOUS
<1> DEFINE o == [t \in Tokens |-> "Open"]
           z == [s \in {} |-> 0]
           e == [connected |-> FALSE, boot |-> "Idle", inflight |-> None, queue |-> z,
                 next_token |-> 1, heartbeat_interval |-> 0, heartbeat_at |-> Never,
                 boot_retry_at |-> Never, draining |-> Never, close |-> "No",
                 store |-> NoMessages, store_ok |-> TRUE,
                 timers |-> [t \in Timers |-> Never], outcome |-> o, wire |-> {}]
<1>1. DOMAIN NoMessages = {} /\ DOMAIN z = {}
  BY DEF NoMessages
<1>2. o \in [Tokens -> Outcomes] /\ \A t \in Tokens : o[t] = "Open"
  BY DEF Outcomes
<1>3. /\ EngineTypeOK(e) /\ e.queue = z /\ e.inflight = None /\ e.store = NoMessages
      /\ e.outcome = o /\ e.next_token = 1 /\ e.store_ok = TRUE
  <2> HIDE DEF o, z
  <2>1. "Idle" \in BootStates
    BY DEF BootStates
  <2> QED BY <1>1, <1>2, <2>1 DEF EngineTypeOK
<1> HIDE DEF e
<1>4. Dead(e)
  BY <1>1, <1>2, <1>3 DEF Dead, Tokens
<1>5. Good(engine, {})
  BY <1>3, <1>4, WithStoreGood DEF Init
<1>6. TypeOK
  BY <1>5 DEF Init, TypeOK, Good, BootStates
<1> QED BY <1>5, <1>6 DEF IndInv, Init

LEMMA UnrecordedIsNat ==
  ASSUME NEW old, NEW new, NEW t
  PROVE  Unrecorded(old, new, t) \in Nat /\ (old.store_ok => Unrecorded(old, new, t) = 0)
<1>1. /\ (IF CallEnds(old, new, t) THEN 1 ELSE 0) \in Nat
      /\ (IF SendEnds(old, new, t) THEN 1 ELSE 0) \in Nat
  OBVIOUS
<1> QED BY <1>1 DEF Unrecorded

(* A handler that keeps the engine good keeps the invariant.               *)
LEMMA BecomeIndInv ==
  ASSUME IndInv, running, NEW new, Good(new, {}), Become(new),
         served' \subseteq MessageId, verdict' \in BootStates, disconnects' \in Nat
  PROVE  IndInv'
<1>1. TypeOK
  BY DEF IndInv
<1>2. sent' \in [Tokens -> Nat] /\ lost' \in [Tokens -> Nat]
  <2>1. \A t \in Tokens : Unrecorded(engine, new, t) \in Nat
    BY UnrecordedIsNat
  <2> QED BY <1>1, <2>1 DEF TypeOK, Become
<1>3. EngineTypeOK(engine')
  BY DEF Become, Good
<1>4. TypeOK'
  BY <1>1, <1>2, <1>3 DEF TypeOK, Become
<1> QED BY <1>4 DEF IndInv, Become

LEMMA TimeoutGood ==
  ASSUME NEW e, Good(e, {}), NEW tm \in [Timers -> Nat \cup {Never}]
  PROVE  Good(on_timeout([e EXCEPT !.timers = tm]), {})
<1> DEFINE d == [e EXCEPT !.timers = tm]
<1>1. /\ EngineTypeOK(d)
      /\ d.queue = e.queue /\ d.inflight = e.inflight /\ d.next_token = e.next_token
      /\ d.outcome = e.outcome /\ d.store = e.store /\ d.store_ok = e.store_ok
  BY DEF Good, EngineTypeOK
<1> HIDE DEF d
<1>2. Good(d, {})
  BY <1>1, Irrelevant, Zenon
<1>3. Good(on_timeout(d), {})
  BY <1>2, OnTimeoutGood
<1> QED BY <1>3 DEF d

(* The processes end in the same way, by power cut or by drain.            *)
LEMMA HaltIndInv ==
  ASSUME IndInv, NEW e, Good(e, {}), Halt(e)
  PROVE  IndInv'
<1>1. engine' = Halted(e) /\ running' = FALSE /\ halts' = halts + 1
  BY Zenon DEF Halt, Halted
<1>2. Dead(engine')
  BY <1>1, HaltedDead
<1>3. TypeOK'
  <2>1. EngineTypeOK(engine') /\ UNCHANGED <<verdict, sent, disconnects>> /\ served' = {}
    BY <1>2 DEF Halt, Dead
  <2>2. TypeOK
    BY DEF IndInv
  <2>6. lost' \in [Tokens -> Nat]
    <3>1. \A t \in Tokens : Unrecorded(engine, e, t) \in Nat
      BY UnrecordedIsNat
    <3> QED BY <2>2, <3>1 DEF Halt, TypeOK
  <2>3. halts' \in Nat
    BY <1>1, <2>2 DEF TypeOK
  <2>4. running' \in BOOLEAN
    BY <1>1, Zenon
  <2>5. /\ served' \subseteq MessageId /\ verdict' \in BootStates
        /\ sent' \in [Tokens -> Nat] /\ disconnects' \in Nat
    BY <2>1, <2>2, Zenon DEF TypeOK
  <2> QED BY <2>1, <2>3, <2>4, <2>5, <2>6, Zenon DEF TypeOK
<1> QED BY <1>1, <1>2, <1>3 DEF IndInv

(* One step per action of Next.                                            *)
LEMMA NextIndInv ==
  IndInv /\ [Next]_vars => IndInv'
<1> SUFFICES ASSUME IndInv, [Next]_vars PROVE IndInv'
  OBVIOUS
<1>1. TypeOK /\ (running => Good(engine, {})) /\ (~running => Dead(engine))
  BY DEF IndInv
<1>2. served \subseteq MessageId /\ verdict \in BootStates /\ disconnects \in Nat /\ halts \in Nat
  BY <1>1 DEF TypeOK
<1>3. ASSUME NEW r \in Requests, Call(r) PROVE IndInv'
  <2>1. r \in Request
    BY EngineAssumption
  <2>2. running /\ Good(call_with(engine, r), {})
    BY <1>1, <1>3, <2>1, CallWithGood DEF Call, Live
  <2> QED BY <1>2, <1>3, <2>2, BecomeIndInv DEF Call
<1>4. ASSUME NEW s \in DOMAIN engine.queue, Cancel(s) PROVE IndInv'
  <2>1. running /\ Good(cancel(engine, s), {})
    BY <1>1, <1>4, CancelGood DEF Cancel, Live
  <2> QED BY <1>2, <1>4, <2>1, BecomeIndInv DEF Cancel
<1>5. CASE Shutdown
  <2>1. running /\ Good(shutdown(engine), {})
    BY <1>1, <1>5, ShutdownGood DEF Shutdown, Live
  <2> QED BY <1>2, <1>5, <2>1, BecomeIndInv DEF Shutdown
<1>6. CASE Connected
  <2>1. running /\ Good(on_connected(engine), {})
    BY <1>1, <1>6, OnConnectedGood DEF Connected, Live
  <2> QED BY <1>2, <1>6, <2>1, BecomeIndInv DEF Connected
<1>7. CASE Disconnected
  <2>1. running /\ Good(on_disconnected(engine), {})
    BY <1>1, <1>7, OnDisconnectedGood DEF Disconnected, Live
  <2> QED BY <1>2, <1>7, <2>1, BecomeIndInv DEF Disconnected
<1>8. CASE Timeout
  <2> DEFINE tm == [t \in Timers |-> IF Expired(engine.timers[t]) THEN Never
                                     ELSE engine.timers[t]]
  <2>1. running /\ tm \in [Timers -> Nat \cup {Never}]
    BY <1>1, <1>8 DEF Timeout, Live, TypeOK, EngineTypeOK
  <2>2. Become(on_timeout([engine EXCEPT !.timers = tm]))
    BY <1>8 DEF Timeout
  <2> HIDE DEF tm
  <2>3. Good(on_timeout([engine EXCEPT !.timers = tm]), {})
    BY <1>1, <2>1, TimeoutGood
  <2> QED BY <1>2, <1>8, <2>1, <2>2, <2>3, BecomeIndInv DEF Timeout
<1>9. CASE Receive
  <2> PICK id \in engine.wire \cup {ForeignId} :
             \/ \E status \in Verdicts \cup {"Unusable"}, interval \in BootIntervals :
                  ReceiveResult(id, status, interval)
             \/ ReceiveError(id)
    BY <1>9 DEF Receive
  <2>1. served \cup (engine.wire \cap {id}) \subseteq MessageId
    BY <1>1 DEF TypeOK, EngineTypeOK
  <2>2. running => Good(arm_heartbeat(engine), {})
    BY <1>1, ArmHeartbeatGood
  <2>3. ASSUME NEW status \in Verdicts \cup {"Unusable"}, NEW interval \in BootIntervals,
               ReceiveResult(id, status, interval)
        PROVE  IndInv'
    <3>1. interval \in Nat
      BY EngineAssumption
    <3>2. running /\ Good(on_call_result(arm_heartbeat(engine), id, status, interval), {})
      BY <2>2, <2>3, <3>1, OnCallResultGood DEF ReceiveResult, Live
    <3>3. verdict' \in BootStates
      BY <1>2, <2>3 DEF ReceiveResult, Verdicts, BootStates
    <3> QED BY <1>2, <2>1, <2>3, <3>2, <3>3, BecomeIndInv DEF ReceiveResult
  <2>4. CASE ReceiveError(id)
    <3>1. running /\ Good(on_call_error(arm_heartbeat(engine), id), {})
      BY <2>2, <2>4, OnCallErrorGood DEF ReceiveError, Live
    <3> QED BY <1>2, <2>1, <2>4, <3>1, BecomeIndInv DEF ReceiveError
  <2> QED BY <2>3, <2>4
<1>10. CASE OtherTraffic
  <2>1. running /\ Good(arm_heartbeat(engine), {})
    BY <1>1, <1>10, ArmHeartbeatGood DEF OtherTraffic, Live
  <2> QED BY <1>2, <1>10, <2>1, BecomeIndInv DEF OtherTraffic
<1>11. CASE Tick
  <2>1. running /\ Good(advance(engine), {})
    BY <1>1, <1>11, AdvanceGood DEF Tick
  <2> QED BY <1>1, <1>11, <2>1 DEF Tick, IndInv, TypeOK, Good
<1>12. CASE StoreFault
  <2>1. running /\ Good([engine EXCEPT !.store_ok = ~engine.store_ok], {})
    BY <1>1, <1>12, StoreFaultGood DEF StoreFault, Live
  <2>2. Good(engine', {}) /\ EngineTypeOK(engine')
    BY <1>12, <2>1 DEF StoreFault, Good
  <2> QED BY <1>1, <1>12, <2>1, <2>2 DEF StoreFault, IndInv, TypeOK
<1>13. CASE Crash
  BY <1>1, <1>13, HaltIndInv DEF Crash
<1>14. CASE Stop
  BY <1>1, <1>14, OnDisconnectedGood, HaltIndInv DEF Stop
<1>15. CASE Restart
  <2>1. Good(engine', {}) /\ EngineTypeOK(engine')
    BY <1>1, <1>15, WithStoreGood DEF Restart, Good
  <2> QED BY <1>1, <1>15, <2>1 DEF Restart, IndInv, TypeOK, BootStates
<1>16. CASE UNCHANGED vars
  BY <1>16 DEF vars, IndInv, TypeOK
<1> QED
  BY <1>3, <1>4, <1>5, <1>6, <1>7, <1>8, <1>9, <1>10, <1>11, <1>12, <1>13, <1>14,
     <1>15, <1>16 DEF Next

(* The inductive invariant holds in every reachable state.                 *)
THEOREM Invariance ==
  Spec => []IndInv
BY InitIndInv, NextIndInv, PTL DEF Spec

(* Every field of struct Engine keeps the type its declaration gives it.   *)
THEOREM TypeCorrect ==
  Spec => []TypeOK
<1>1. IndInv => TypeOK
  BY DEF IndInv
<1> QED BY <1>1, Invariance, PTL

(* One outcome per CallToken (Output::Outcome): whatever answers, timeouts, *)
(* disconnections, cancellations and restarts a call goes through, it is   *)
(* queued once, in flight, or reported, and never two of them.             *)
THEOREM EveryCallAccountedFor ==
  Spec => []AccountedFor
<1>1. IndInv => AccountedFor
  <2> SUFFICES ASSUME IndInv, running PROVE AccountedFor
    BY DEF AccountedFor
  <2>1. Good(engine, {})
    BY DEF IndInv
  <2>2. \A s, u \in DOMAIN engine.queue :
          s # u => engine.queue[s].token # engine.queue[u].token
    BY <2>1, TokensDistinct
  <2>3. Queued(engine) \cap InFlightTokens(engine) = {}
    BY <2>1 DEF Good, FlightOK, Queued, InFlightTokens
  <2>4. \A t : t \in Queued(engine) \cup InFlightTokens(engine)
                 => t \in Tokens /\ t < engine.next_token /\ Holds(engine, t)
    BY <2>1 DEF Good, SlotsOK, FlightOK, EngineTypeOK, Queued, InFlightTokens, Holds,
                Pending, InFlight
  <2>5. \A t : Holds(engine, t) => t \in Queued(engine) \cup InFlightTokens(engine)
    BY DEF Queued, InFlightTokens, Holds
  <2>6. \A t \in Tokens : t < engine.next_token =>
          (engine.outcome[t] = "Open" <=> Holds(engine, t))
    BY <2>1 DEF Good, FatesOK
  <2>7. Unreported(engine) = Queued(engine) \cup InFlightTokens(engine)
    BY <2>4, <2>5, <2>6 DEF Unreported
  <2> QED BY <2>2, <2>3, <2>7 DEF AccountedFor
<1> QED BY <1>1, Invariance, PTL

(* A durable message that is not reported is in the store at every instant, *)
(* and with a store that never fails the store holds nothing else.         *)
THEOREM DurableMessagesSurvive ==
  Spec => []Durable
<1>1. IndInv => Durable
  <2> SUFFICES ASSUME IndInv PROVE Durable
    OBVIOUS
  <2>1. CASE running
    <3>1. StoreOK(engine)
      BY <2>1 DEF IndInv, Good
    <3> QED BY <2>1, <3>1 DEF Durable, StoreOK
  <2>2. CASE ~running
    <3>1. Dead(engine)
      BY <2>2 DEF IndInv
    <3> QED BY <2>2, <3>1 DEF Durable, Dead, Unreported
  <2> QED BY <2>1, <2>2
<1> QED BY <1>1, Invariance, PTL

(* Transaction messages go out in the order they were made, through retries *)
(* that go back to the front of the queue and through restarts.            *)
THEOREM TransactionsInOrder ==
  Spec => []Chronological
<1>1. IndInv => Chronological
  <2> SUFFICES ASSUME IndInv PROVE Chronological
    OBVIOUS
  <2>1. CASE running
    <3> DEFINE tx == {s \in DOMAIN engine.queue : transactional(engine.queue[s].action)}
    <3>1. EngineTypeOK(engine) /\ SlotsOK(engine) /\ FlightOK(engine)
      BY <2>1 DEF IndInv, Good
    <3>2. ASSUME NEW s \in tx, NEW u \in tx, s < u
          PROVE  engine.queue[s].token < engine.queue[u].token
      <4>1. s \in Nat /\ u \in Nat /\ u # 0
        BY <3>1, <3>2 DEF EngineTypeOK
      <4> QED BY <3>1, <3>2, <4>1 DEF SlotsOK
    <3>3. engine.inflight # None /\ transactional(engine.inflight.action) =>
            \A s \in tx : engine.inflight.token < engine.queue[s].token
      BY <3>1 DEF FlightOK
    <3> QED BY <3>2, <3>3 DEF Chronological
  <2>2. CASE ~running
    BY <2>2 DEF IndInv, Dead, Chronological
  <2> QED BY <2>1, <2>2
<1> QED BY <1>1, Invariance, PTL
=============================================================================
