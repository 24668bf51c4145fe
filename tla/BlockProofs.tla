----------------------------- MODULE BlockProofs -----------------------------
(***************************************************************************)
(* Theorems about the function blocks that run without the engine, for     *)
(* every value of their constants: the way from an EVSE to the bill, the   *)
(* local authorization, signed frames, the Local Controller for any         *)
(* keepalive and any traffic, composite schedules, and the device model.    *)
(***************************************************************************)
EXTENDS Billing, Authorization, SignedFrames, LocalController, SmartCharging, DeviceModel, TLAPS, FiniteSetTheorems,
        SequenceTheorems, WellFoundedInduction

-----------------------------------------------------------------------------
(* The station's machine, and the application that saves it.               *)

MachineTypes ==
  /\ events \in Nat /\ now \in Nat
  /\ active = None \/ active \in Active
  /\ saved.active = None \/ saved.active \in Active
  /\ outbox = None \/ outbox \in TxEvent
  /\ made \subseteq TxEvent

(* An event comes after every saved one of its transaction, which none of  *)
(* them has ended.                                                         *)
ComesNext(tx, seq) == \A e \in made : e.tx = tx => e.seq_no < seq /\ e.kind # "Ended"

(* Only the Started of a transaction has the number 0.                     *)
FirstIsStarted(e) == e.kind = "Started" <=> e.seq_no = 0

(* No two saved events share a number, and none follows an Ended.          *)
Numbering ==
  /\ \A e \in made : e.tx < events /\ FirstIsStarted(e)
  /\ \A e, f \in made : e.tx = f.tx => /\ e.seq_no = f.seq_no => e = f
                                       /\ e.kind = "Ended" => f.seq_no <= e.seq_no

(* A machine that has dealt with its last event is the saved one; the next *)
(* event of the saved one, and an event that is not saved yet, come next.  *)
Persistence ==
  /\ saved.active # None =>
       /\ saved.active.id < events /\ saved.active.next_seq > 0
       /\ ComesNext(saved.active.id, saved.active.next_seq)
  /\ outbox = None \/ outbox \in made => active = saved.active
  /\ outbox # None /\ outbox \notin made =>
       /\ outbox.tx < events /\ FirstIsStarted(outbox)
       /\ ComesNext(outbox.tx, outbox.seq_no)
       /\ active # None => /\ active.id = outbox.tx /\ active.next_seq = outbox.seq_no + 1
                           /\ outbox.kind # "Ended"

(* While a transaction runs, the stop points that held in it hold.         *)
StopsHold ==
  /\ held \subseteq TxPoint /\ saved.held \subseteq TxPoint
  /\ active # None => \A p \in stop_points \cap held : holds(conditions, p)
  /\ saved.active # None => \A p \in stop_points \cap saved.held : holds(saved.conditions, p)

MachineInv == MachineTypes /\ Numbering /\ Persistence /\ StopsHold

-----------------------------------------------------------------------------
(* The ledger, and what has been delivered to it.                          *)

LedgerRecord ==
  [seen : SUBSET Nat, unsequenced : SUBSET (EventKind \X Nat), highest : Int,
   started_at : Nat \cup {None}, ended_at : Nat \cup {None},
   meter_start_wh : Nat \cup {None}, meter_stop_wh : Nat \cup {None}]

Of(tx) == {e \in arrived : e.tx = tx}

(* A record says what the events in A say.                                 *)
Speaks(r, A) ==
  /\ r \in LedgerRecord
  /\ \A n \in r.seen : n <= r.highest
  /\ r.ended_at # None => \E e \in A : e.kind = "Ended"
  /\ \A e \in A : e.kind = "Started" /\ e.meter_wh # None => r.meter_start_wh = e.meter_wh
  /\ \A e \in A : e.kind = "Ended" => /\ r.ended_at # None
                                      /\ e.meter_wh # None => r.meter_stop_wh = e.meter_wh

Deliveries ==
  /\ sent \subseteq made /\ arrived \subseteq sent /\ billed \subseteq sent
  /\ \A e \in arrived : e.tx \in DOMAIN records
  /\ \A e \in billed : e \in arrived \/ e.tx \in pruned
  /\ \A e \in twice : e.tx \in pruned

(* OCPP 2.x: the numbers a record has seen are those that have arrived.    *)
Numbers(r, A) ==
  /\ \A e \in A : e.seq_no \in r.seen
  /\ \A n \in r.seen : \E e \in A : e.seq_no = n

(* OCPP 1.6: the marks are those of what has been billed, and the numbers  *)
(* never start again, not even for an archived transaction.                *)
Marks(r, A) ==
  /\ \A e \in A : Mark(e) \in r.unsequenced
  /\ \A m \in r.unsequenced : \E e \in A : e \in billed /\ Mark(e) = m

Given(tx, r) ==
  /\ tx \in DOMAIN next_seq /\ r.highest >= 0
  /\ \A n \in r.seen : n < next_seq[tx]
  /\ tx \in pruned => 0 \notin r.seen

Givens ==
  /\ \A tx \in DOMAIN next_seq : next_seq[tx] \in Nat /\ next_seq[tx] > 0
  /\ pruned \subseteq DOMAIN next_seq

LedgerInv ==
  /\ sequenced \in BOOLEAN
  /\ Deliveries
  /\ \A tx \in DOMAIN records : Speaks(records[tx], Of(tx))
  /\ sequenced => /\ arrived \subseteq billed
                  /\ \A tx \in DOMAIN records : Numbers(records[tx], Of(tx))
  /\ ~sequenced => /\ Givens
                   /\ \A tx \in DOMAIN records : Marks(records[tx], Of(tx)) /\ Given(tx, records[tx])

BillingInv == MachineInv /\ LedgerInv

-----------------------------------------------------------------------------
(* The machine's steps.                                                    *)

LEMMA FirstIsOne ==
  ASSUME NEW points \in SUBSET TxPoint, points # {}
  PROVE  First(points) \in points
<1>1. /\ Rank["ParkingBayOccupancy"] = 1 /\ Rank["EVConnected"] = 2 /\ Rank["Authorized"] = 3
      /\ Rank["DataSigned"] = 4 /\ Rank["PowerPathClosed"] = 5 /\ Rank["EnergyTransfer"] = 6
  BY DEF Rank
<1>2. \E p \in points : \A q \in points : Rank[p] <= Rank[q]
  <2>1. CASE "ParkingBayOccupancy" \in points
    BY <1>1, <2>1 DEF TxPoint
  <2>2. CASE "ParkingBayOccupancy" \notin points /\ "EVConnected" \in points
    BY <1>1, <2>2 DEF TxPoint
  <2>3. CASE points \cap {"ParkingBayOccupancy", "EVConnected"} = {} /\ "Authorized" \in points
    BY <1>1, <2>3 DEF TxPoint
  <2>4. CASE points \subseteq {"DataSigned", "PowerPathClosed", "EnergyTransfer"} /\ "DataSigned" \in points
    BY <1>1, <2>4
  <2>5. CASE points \subseteq {"PowerPathClosed", "EnergyTransfer"} /\ "PowerPathClosed" \in points
    BY <1>1, <2>5
  <2>6. CASE points = {"EnergyTransfer"}
    BY <1>1, <2>6
  <2> QED BY <2>1, <2>2, <2>3, <2>4, <2>5, <2>6 DEF TxPoint
<1> QED BY <1>2 DEF First

LEMMA ReasonType ==
  ASSUME NEW point \in TxPoint, NEW before, NEW after
  PROVE  stopped_reason(point, before, after) \in Reasons
BY DEF stopped_reason, Reasons, TxPoint

LEMMA ReturnsEvent ==
  ASSUME MachineTypes, NEW id \in Nat, NEW seq \in Nat, NEW kind \in EventKind, NEW reason \in Reasons,
         Returns(id, seq, kind, reason)
  PROVE  /\ events' = events + 1 /\ now' \in Nat
         /\ outbox' \in TxEvent /\ outbox' # None
         /\ outbox'.tx = id /\ outbox'.seq_no = seq /\ outbox'.kind = kind
<1>1. events \in Nat /\ now \in Nat
  BY DEF MachineTypes
<1>2. events' = events + 1 /\ now' \in Nat /\ outbox' = Event(id, seq, kind, reason)
  BY <1>1 DEF Returns
<1>3. outbox' \in TxEvent /\ outbox'.tx = id /\ outbox'.seq_no = seq /\ outbox'.kind = kind
  BY <1>1, <1>2 DEF Event, TxEvent
<1> QED BY <1>2, <1>3, TransactionsAssumption

(* An event that comes next keeps the numbering.                           *)
LEMMA ReturnsInv ==
  ASSUME MachineTypes, Numbering, Persistence,
         NEW id \in Nat, NEW seq \in Nat, NEW kind \in EventKind, NEW reason \in Reasons,
         Returns(id, seq, kind, reason), id <= events, kind = "Started" <=> seq = 0,
         ComesNext(id, seq), UNCHANGED <<saved, made>>,
         active' = None \/ (active' = [id |-> id, next_seq |-> seq + 1] /\ kind # "Ended")
  PROVE  MachineTypes' /\ Numbering' /\ Persistence'
<1>1. /\ events' = events + 1 /\ now' \in Nat
      /\ outbox' \in TxEvent /\ outbox' # None
      /\ outbox'.tx = id /\ outbox'.seq_no = seq /\ outbox'.kind = kind
  BY ReturnsEvent
<1>2. events \in Nat /\ made \subseteq TxEvent /\ saved' = saved /\ made' = made
  BY DEF MachineTypes
<1>3. \A e \in made : e.tx \in Nat /\ e.seq_no \in Nat
  BY <1>2 DEF TxEvent
<1>4. MachineTypes'
  BY <1>1, <1>2 DEF MachineTypes, Active
<1>5. Numbering'
  BY <1>1, <1>2, <1>3 DEF Numbering, FirstIsStarted
<1>6. outbox' \notin made
  BY <1>1, <1>3 DEF ComesNext
<1>7. saved.active # None => saved.active.id \in Nat
  BY DEF MachineTypes, Active
<1> QED BY <1>1, <1>2, <1>4, <1>5, <1>6, <1>7 DEF Persistence, ComesNext, FirstIsStarted

(* The transaction that runs, when the last event has been dealt with.     *)
LEMMA ActiveComesNext ==
  ASSUME MachineTypes, Persistence, outbox = None, active # None
  PROVE  /\ active \in Active /\ active.id \in Nat /\ active.next_seq \in Nat
         /\ active.id <= events /\ active.next_seq > 0
         /\ ComesNext(active.id, active.next_seq)
<1>1. active = saved.active /\ active \in Active /\ events \in Nat
  BY DEF MachineTypes, Persistence
<1> QED BY <1>1 DEF Persistence, Active

LEMMA StoppedPoints ==
  ASSUME NEW c
  PROVE  /\ Stopped(c) \in SUBSET TxPoint
         /\ \A p \in stop_points \cap TxPoint : holds(conditions, p) /\ Stopped(c) = {} => holds(c, p)
         /\ Holding(c) \subseteq TxPoint /\ \A p \in Holding(c) : holds(c, p)
BY DEF Stopped, Began, Holding

LEMMA ObserveInv ==
  ASSUME MachineInv, NEW c, observe(c)
  PROVE  MachineInv'
<1>1. MachineTypes /\ Numbering /\ Persistence /\ StopsHold
  BY DEF MachineInv
<1>2. /\ outbox = None /\ conditions' = c
      /\ UNCHANGED <<start_points, stop_points, metered, saved, made>>
  BY DEF observe
<1>3. events \in Nat /\ made \subseteq TxEvent /\ None \in Reasons
  BY <1>1 DEF MachineTypes, Reasons
<1>4. CASE active = None /\ Started(c) /\ Returns(events, 0, "Started", None)
           /\ active' = [id |-> events, next_seq |-> 1] /\ held' = Holding(c)
  <2>1. ComesNext(events, 0)
    BY <1>1, <1>3 DEF Numbering, ComesNext, TxEvent
  <2>2. MachineTypes' /\ Numbering' /\ Persistence'
    <3>1. active' = [id |-> events, next_seq |-> 0 + 1]
      BY <1>4
    <3>2. "Started" \in EventKind /\ 0 \in Nat /\ events <= events
      BY <1>3 DEF EventKind
    <3> QED BY <1>1, <1>2, <1>3, <1>4, <2>1, <3>1, <3>2, ReturnsInv
  <2>3. StopsHold'
    <3>1. Holding(c) \subseteq TxPoint /\ \A p \in Holding(c) : holds(c, p)
      BY StoppedPoints
    <3> QED BY <1>1, <1>2, <1>4, <3>1 DEF StopsHold
  <2> QED BY <2>2, <2>3 DEF MachineInv
<1>5. CASE active # None /\ Stopped(c) # {}
           /\ Returns(active.id, active.next_seq, "Ended", stopped_reason(First(Stopped(c)), conditions, c))
           /\ active' = None /\ held' = {}
  <2>1. stopped_reason(First(Stopped(c)), conditions, c) \in Reasons
    BY <1>5, StoppedPoints, FirstIsOne, ReasonType
  <2>2. /\ active.id \in Nat /\ active.next_seq \in Nat /\ active.id <= events /\ active.next_seq > 0
        /\ ComesNext(active.id, active.next_seq)
    BY <1>1, <1>2, <1>5, ActiveComesNext
  <2>3. MachineTypes' /\ Numbering' /\ Persistence'
    <3>1. "Ended" \in EventKind /\ active.next_seq # 0
      BY <2>2 DEF EventKind
    <3> QED BY <1>1, <1>2, <1>5, <2>1, <2>2, <3>1, ReturnsInv
  <2>4. StopsHold'
    BY <1>1, <1>2, <1>5 DEF StopsHold, holds
  <2> QED BY <2>3, <2>4 DEF MachineInv
<1>6. CASE active # None /\ Stopped(c) = {}
           /\ Returns(active.id, active.next_seq, "Updated", None)
           /\ active' = [active EXCEPT !.next_seq = active.next_seq + 1] /\ held' = held \cup Holding(c)
  <2>1. /\ active \in Active /\ active.id \in Nat /\ active.next_seq \in Nat /\ active.id <= events
        /\ active.next_seq > 0 /\ ComesNext(active.id, active.next_seq)
    BY <1>1, <1>2, <1>6, ActiveComesNext
  <2>2. MachineTypes' /\ Numbering' /\ Persistence'
    <3>1. "Updated" \in EventKind /\ active.next_seq # 0
      BY <2>1 DEF EventKind
    <3>2. active' = [id |-> active.id, next_seq |-> active.next_seq + 1]
      BY <1>6, <2>1 DEF Active
    <3> QED BY <1>1, <1>2, <1>3, <1>6, <2>1, <3>1, <3>2, ReturnsInv
  <2>3. StopsHold'
    <3>1. \A p \in stop_points \cap held : holds(c, p)
      BY <1>1, <1>6, StoppedPoints DEF StopsHold
    <3>2. \A p \in stop_points \cap held' : holds(c, p)
      BY <1>6, <3>1, StoppedPoints
    <3>3. held' \subseteq TxPoint
      BY <1>1, <1>6, StoppedPoints DEF StopsHold
    <3> QED BY <1>1, <1>2, <3>2, <3>3 DEF StopsHold
  <2> QED BY <2>2, <2>3 DEF MachineInv
<1>7. CASE /\ IF active = None THEN ~Started(c) ELSE c = conditions
           /\ UNCHANGED <<active, now, events, outbox, held>>
  BY <1>1, <1>2, <1>7 DEF MachineInv, MachineTypes, Numbering, Persistence, StopsHold, ComesNext,
                          FirstIsStarted, holds
<1> QED BY <1>4, <1>5, <1>6, <1>7 DEF observe

LEMMA UpdateInv ==
  ASSUME MachineInv, update
  PROVE  MachineInv'
<1>1. MachineTypes /\ Numbering /\ Persistence /\ StopsHold
  BY DEF MachineInv
<1>2. /\ outbox = None /\ active # None /\ Returns(active.id, active.next_seq, "Updated", None)
      /\ active' = [active EXCEPT !.next_seq = active.next_seq + 1]
      /\ UNCHANGED <<stop_points, conditions, saved, made, held>>
  BY DEF update
<1>3. /\ active \in Active /\ active.id \in Nat /\ active.next_seq \in Nat /\ active.id <= events
      /\ active.next_seq > 0 /\ ComesNext(active.id, active.next_seq)
  BY <1>1, <1>2, ActiveComesNext
<1>4. MachineTypes' /\ Numbering' /\ Persistence'
  <2>1. "Updated" \in EventKind /\ active.next_seq # 0 /\ None \in Reasons
    BY <1>3 DEF EventKind, Reasons
  <2>2. active' = [id |-> active.id, next_seq |-> active.next_seq + 1]
    BY <1>2, <1>3 DEF Active
  <2> QED BY <1>1, <1>2, <1>3, <2>1, <2>2, ReturnsInv
<1>5. StopsHold'
  BY <1>1, <1>2 DEF StopsHold
<1> QED BY <1>4, <1>5 DEF MachineInv

LEMMA AbortInv ==
  ASSUME MachineInv, abort
  PROVE  MachineInv'
<1>1. MachineTypes /\ Numbering /\ Persistence /\ StopsHold
  BY DEF MachineInv
<1>2. /\ outbox = None /\ active # None /\ Returns(active.id, active.next_seq, "Ended", "Remote")
      /\ active' = None /\ held' = {} /\ UNCHANGED <<stop_points, conditions, saved, made>>
  BY DEF abort
<1>3. /\ active.id \in Nat /\ active.next_seq \in Nat /\ active.id <= events
      /\ active.next_seq > 0 /\ ComesNext(active.id, active.next_seq)
  BY <1>1, <1>2, ActiveComesNext
<1>4. MachineTypes' /\ Numbering' /\ Persistence'
  <2>1. "Ended" \in EventKind /\ active.next_seq # 0 /\ "Remote" \in Reasons
    BY <1>3 DEF EventKind, Reasons
  <2> QED BY <1>1, <1>2, <1>3, <2>1, ReturnsInv
<1>5. StopsHold'
  BY <1>1, <1>2 DEF StopsHold
<1> QED BY <1>4, <1>5 DEF MachineInv

LEMMA SaveInv ==
  ASSUME MachineInv, save
  PROVE  MachineInv'
<1>1. MachineTypes /\ Numbering /\ Persistence /\ StopsHold
  BY DEF MachineInv
<1>2. /\ outbox # None /\ outbox \notin made /\ made' = made \cup {outbox}
      /\ saved' = [conditions |-> conditions, active |-> active, held |-> held]
      /\ UNCHANGED <<stop_points, conditions, active, now, events, outbox, held>>
  BY DEF save
<1>3. saved'.conditions = conditions /\ saved'.active = active /\ saved'.held = held
  BY <1>2
<1>4. /\ outbox \in TxEvent /\ events \in Nat /\ made \subseteq TxEvent
      /\ \A e \in made' : e.tx \in Nat /\ e.seq_no \in Nat
  BY <1>1, <1>2 DEF MachineTypes, TxEvent
<1>5. MachineTypes'
  BY <1>1, <1>2, <1>3, <1>4 DEF MachineTypes
<1>6. /\ outbox.tx < events /\ FirstIsStarted(outbox) /\ ComesNext(outbox.tx, outbox.seq_no)
      /\ active # None => /\ active.id = outbox.tx /\ active.next_seq = outbox.seq_no + 1
                          /\ outbox.kind # "Ended"
  BY <1>1, <1>2 DEF Persistence
<1>7. Numbering'
  <2>1. \A e \in made' : e.tx < events' /\ FirstIsStarted(e)'
    BY <1>1, <1>2, <1>6 DEF Numbering, FirstIsStarted
  <2>2. ASSUME NEW e \in made', NEW f \in made', e.tx = f.tx
        PROVE  /\ e.seq_no = f.seq_no => e = f
               /\ e.kind = "Ended" => f.seq_no <= e.seq_no
    <3>1. CASE e \in made /\ f \in made
      BY <1>1, <2>2, <3>1 DEF Numbering
    <3>2. CASE e = outbox /\ f \in made
      BY <1>4, <1>6, <2>2, <3>2 DEF ComesNext
    <3>3. CASE e \in made /\ f = outbox
      BY <1>4, <1>6, <2>2, <3>3 DEF ComesNext
    <3>4. CASE e = outbox /\ f = outbox
      BY <1>4, <3>4
    <3> QED BY <1>2, <3>1, <3>2, <3>3, <3>4
  <2> QED BY <2>1, <2>2 DEF Numbering
<1>8. Persistence'
  <2>1. active # None => /\ active.id < events /\ active.next_seq > 0
                         /\ \A e \in made' : e.tx = active.id => e.seq_no < active.next_seq /\ e.kind # "Ended"
    BY <1>2, <1>4, <1>6 DEF ComesNext
  <2> QED BY <1>2, <1>3, <2>1 DEF Persistence, ComesNext
<1>9. StopsHold'
  BY <1>1, <1>2, <1>3 DEF StopsHold
<1> QED BY <1>5, <1>7, <1>8, <1>9 DEF MachineInv

LEMMA RebootInv ==
  ASSUME MachineInv, reboot
  PROVE  MachineInv'
<1>1. MachineTypes /\ Numbering /\ Persistence /\ StopsHold
  BY DEF MachineInv
<1>2. /\ saved.active # None => /\ active' = [id |-> saved.active.id, next_seq |-> saved.active.next_seq]
                                /\ conditions' = saved.conditions
      /\ saved.active = None => active' = None
      /\ held' = saved.held /\ outbox' = None
      /\ UNCHANGED <<stop_points, now, events, saved, made>>
  BY DEF reboot, resume
<1>3. active' = saved.active
  BY <1>1, <1>2 DEF MachineTypes, Active
<1>4. MachineTypes' /\ Numbering'
  BY <1>1, <1>2, <1>3 DEF MachineTypes, Numbering, FirstIsStarted
<1>5. Persistence'
  BY <1>1, <1>2, <1>3 DEF Persistence, ComesNext
<1>6. StopsHold'
  BY <1>1, <1>2, <1>3 DEF StopsHold
<1> QED BY <1>4, <1>5, <1>6 DEF MachineInv

LEMMA SendInv ==
  ASSUME MachineInv, send
  PROVE  MachineInv'
<1>1. MachineTypes /\ Numbering /\ Persistence /\ StopsHold
  BY DEF MachineInv
<1>2. /\ outbox \in made /\ outbox' = None
      /\ UNCHANGED <<stop_points, conditions, active, now, events, saved, made, held>>
  BY DEF send
<1> QED BY <1>1, <1>2 DEF MachineInv, MachineTypes, Numbering, Persistence, StopsHold, ComesNext,
                          FirstIsStarted

-----------------------------------------------------------------------------
(* The ledger's steps.                                                     *)

LEMMA AppliedFields ==
  ASSUME NEW r \in LedgerRecord, NEW x \in TxEvent, ~Duplicate(r, x)
  PROVE  LET a == Applied(r, x)
         IN /\ a \in LedgerRecord /\ a.seen = r.seen \cup {x.seq_no}
            /\ a.unsequenced = r.unsequenced /\ a.highest = Highest(r, x)
            /\ a.meter_start_wh = start(r, x) /\ a.meter_stop_wh = stop(r, x)
            /\ a.ended_at = IF x.kind = "Ended" THEN x.timestamp ELSE r.ended_at
<1> DEFINE seen == r.seen \cup {x.seq_no}
           high == Highest(r, x)
           first == start(r, x)
           last == stop(r, x)
           began == IF x.kind = "Started" THEN x.timestamp ELSE r.started_at
           ended == IF x.kind = "Ended" THEN x.timestamp ELSE r.ended_at
           a == [r EXCEPT !.seen = seen, !.highest = high, !.meter_start_wh = first,
                          !.meter_stop_wh = last, !.started_at = began, !.ended_at = ended]
<1>1. Applied(r, x) = a
  BY Zenon DEF Applied
<1>2. /\ seen \in SUBSET Nat /\ high \in Int /\ began \in Nat \cup {None} /\ ended \in Nat \cup {None}
  BY DEF LedgerRecord, TxEvent, Highest
<1>3. first \in Nat \cup {None} /\ last \in Nat \cup {None}
  BY DEF LedgerRecord, TxEvent, EventKind, start, stop, OrElse
<1> HIDE DEF seen, high, first, last, began, ended
<1>4. /\ a \in LedgerRecord /\ a.seen = seen /\ a.unsequenced = r.unsequenced /\ a.highest = high
      /\ a.meter_start_wh = first /\ a.meter_stop_wh = last /\ a.ended_at = ended
  BY <1>2, <1>3 DEF LedgerRecord
<1> QED BY <1>1, <1>4 DEF seen, high, first, last, began, ended

(* Whatever the order, a straggler overwrites neither the reading of the   *)
(* Started nor that of the Ended.                                          *)
LEMMA AppliedSpeaks ==
  ASSUME NEW r, NEW A \in SUBSET TxEvent, Speaks(r, A), NEW e \in TxEvent,
         NEW x \in TxEvent, x.kind = e.kind, x.meter_wh = e.meter_wh, ~Duplicate(r, x),
         \A f \in A : f.kind = e.kind /\ e.kind \in {"Started", "Ended"} => f = e
  PROVE  Speaks(Applied(r, x), A \cup {e})
<1> DEFINE a == Applied(r, x)
<1>1. r \in LedgerRecord
  BY DEF Speaks
<1>2. /\ a \in LedgerRecord /\ a.seen = r.seen \cup {x.seq_no} /\ a.highest = Highest(r, x)
      /\ a.meter_start_wh = start(r, x) /\ a.meter_stop_wh = stop(r, x)
      /\ a.ended_at = IF x.kind = "Ended" THEN x.timestamp ELSE r.ended_at
  BY <1>1, AppliedFields
<1> HIDE DEF a
<1>3. \A n \in a.seen : n <= a.highest
  <2>1. \A n \in r.seen : n \in Nat /\ n <= r.highest
    BY <1>1 DEF Speaks, LedgerRecord
  <2>2. x.seq_no \in Nat /\ r.highest \in Int
    BY <1>1 DEF LedgerRecord, TxEvent
  <2> QED BY <1>2, <2>1, <2>2 DEF Highest
<1>4. x.timestamp # None /\ e.kind \in EventKind
  BY TransactionsAssumption DEF TxEvent
<1>5. a.ended_at # None => \E f \in A \cup {e} : f.kind = "Ended"
  BY <1>2 DEF Speaks
<1>6. ASSUME NEW f \in A \cup {e}, f.kind = "Started", f.meter_wh # None
      PROVE  a.meter_start_wh = f.meter_wh
  <2>1. CASE e.kind = "Started"
    <3>1. f = e
      BY <1>6, <2>1
    <3> QED BY <1>2, <1>6, <2>1, <3>1 DEF start, OrElse
  <2>2. CASE e.kind # "Started"
    <3>1. r.meter_start_wh = f.meter_wh
      BY <1>6, <2>2 DEF Speaks
    <3> QED BY <1>2, <1>4, <1>6, <2>2, <3>1 DEF start, OrElse, EventKind
  <2> QED BY <2>1, <2>2
<1>7. ASSUME NEW f \in A \cup {e}, f.kind = "Ended"
      PROVE  a.ended_at # None /\ (f.meter_wh # None => a.meter_stop_wh = f.meter_wh)
  <2>1. CASE e.kind = "Ended"
    <3>1. f = e
      BY <1>7, <2>1
    <3> QED BY <1>2, <1>4, <1>7, <2>1, <3>1 DEF stop, OrElse
  <2>2. CASE e.kind # "Ended"
    <3>1. r.ended_at # None /\ (f.meter_wh # None => r.meter_stop_wh = f.meter_wh)
      BY <1>7, <2>2 DEF Speaks
    <3> QED BY <1>2, <1>4, <1>7, <2>2, <3>1 DEF stop, OrElse, EventKind, is_open
  <2> QED BY <2>1, <2>2
<1> QED BY <1>2, <1>3, <1>5, <1>6, <1>7 DEF Speaks, a

LEMMA MarkedSpeaks ==
  ASSUME NEW r, NEW A, Speaks(r, A), NEW marks \in SUBSET (EventKind \X Nat)
  PROVE  LET d == [r EXCEPT !.unsequenced = marks]
         IN /\ Speaks(d, A) /\ d.unsequenced = marks /\ d.seen = r.seen /\ d.highest = r.highest
<1> DEFINE d == [r EXCEPT !.unsequenced = marks]
<1>1. r \in LedgerRecord
  BY DEF Speaks
<1>2. /\ d \in LedgerRecord /\ d.unsequenced = marks /\ d.seen = r.seen /\ d.highest = r.highest
      /\ d.ended_at = r.ended_at /\ d.meter_start_wh = r.meter_start_wh
      /\ d.meter_stop_wh = r.meter_stop_wh
  BY <1>1 DEF LedgerRecord
<1> HIDE DEF d
<1> QED BY <1>2 DEF Speaks, d

LEMMA NoRecordSpeaks ==
  Speaks(NoRecord, {}) /\ Numbers(NoRecord, {}) /\ Marks(NoRecord, {})
<1>1. NoRecord \in LedgerRecord
  BY DEF NoRecord, LedgerRecord
<1> QED BY <1>1 DEF NoRecord, Speaks, Numbers, Marks

LEMMA OneOfAKind ==
  ASSUME MachineTypes, Numbering, NEW e \in made, NEW f \in made, e.tx = f.tx, e.kind = f.kind,
         e.kind \in {"Started", "Ended"}
  PROVE  e = f
<1>1. e.seq_no \in Nat /\ f.seq_no \in Nat
  BY DEF MachineTypes, TxEvent
<1>2. e.seq_no = f.seq_no
  BY <1>1 DEF Numbering, FirstIsStarted
<1> QED BY <1>2 DEF Numbering

(* What is known of the record an event is applied to, a new one included. *)
LEMMA RecordSpeaks ==
  ASSUME LedgerInv, NEW tx
  PROVE  /\ Speaks(Record(tx), Of(tx))
         /\ sequenced => Numbers(Record(tx), Of(tx))
         /\ ~sequenced => /\ Marks(Record(tx), Of(tx))
                          /\ Next_seq(tx) \in Nat
                          /\ \A n \in Record(tx).seen : n < Next_seq(tx)
                          /\ tx \in pruned => Next_seq(tx) > 0 /\ 0 \notin Record(tx).seen
<1>1. CASE tx \in DOMAIN records
  <2>1. Record(tx) = records[tx]
    BY <1>1 DEF Record
  <2>2. ~sequenced => /\ tx \in DOMAIN next_seq /\ Next_seq(tx) = next_seq[tx]
                      /\ next_seq[tx] \in Nat /\ next_seq[tx] > 0
    BY <1>1 DEF LedgerInv, Given, Givens, Next_seq
  <2> QED BY <1>1, <2>1, <2>2 DEF LedgerInv, Given
<1>2. CASE tx \notin DOMAIN records
  <2>1. Record(tx) = NoRecord /\ Of(tx) = {}
    BY <1>2 DEF Record, Of, LedgerInv, Deliveries
  <2>2. NoRecord.seen = {}
    BY DEF NoRecord
  <2>3. ~sequenced => Next_seq(tx) \in Nat /\ (tx \in pruned => Next_seq(tx) > 0)
    BY DEF LedgerInv, Givens, Next_seq
  <2> QED BY <2>1, <2>2, <2>3, NoRecordSpeaks
<1> QED BY <1>1, <1>2

(* A step that leaves every record alone.                                  *)
LEMMA LedgerUntouched ==
  ASSUME LedgerInv, UNCHANGED <<next_seq, sequenced, arrived, billed, twice, pruned>>,
         sent \subseteq sent', sent' \subseteq made',
         DOMAIN records' = DOMAIN records, \A tx \in DOMAIN records : records'[tx] = records[tx]
  PROVE  LedgerInv'
<1>1. \A tx : Of(tx)' = Of(tx)
  BY DEF Of
<1>2. Deliveries'
  BY DEF LedgerInv, Deliveries
<1>3. \A tx \in DOMAIN records' : Speaks(records[tx], Of(tx))'
  BY <1>1 DEF LedgerInv, Speaks
<1>4. ASSUME sequenced'
      PROVE  /\ arrived' \subseteq billed'
             /\ \A tx \in DOMAIN records' : Numbers(records[tx], Of(tx))'
  BY <1>1, <1>4 DEF LedgerInv, Numbers
<1>5. ASSUME ~sequenced'
      PROVE  /\ Givens'
             /\ \A tx \in DOMAIN records' : Marks(records[tx], Of(tx))' /\ Given(tx, records[tx])'
  <2>1. Givens'
    BY <1>5 DEF LedgerInv, Givens
  <2>2. ASSUME NEW tx \in DOMAIN records'
        PROVE  Marks(records[tx], Of(tx))' /\ Given(tx, records[tx])'
    BY <1>1, <1>5, <2>2 DEF LedgerInv, Marks, Given, Mark
  <2> QED BY <2>1, <2>2
<1>6. sequenced' \in BOOLEAN
  BY DEF LedgerInv
<1> QED BY <1>2, <1>3, <1>4, <1>5, <1>6 DEF LedgerInv

(* A step that delivers e and leaves its record as r.                      *)
LEMMA Delivered ==
  ASSUME LedgerInv, NEW e \in sent, NEW r,
         UNCHANGED <<sequenced, sent, pruned, made>>, arrived' = arrived \cup {e},
         billed \subseteq billed', billed' \subseteq billed \cup {e},
         \A x \in twice' : x.tx \in pruned,
         DOMAIN records' = DOMAIN records \cup {e.tx}, records'[e.tx] = r,
         \A tx \in DOMAIN records : tx # e.tx => records'[tx] = records[tx],
         Speaks(r, Of(e.tx) \cup {e}),
         sequenced => e \in billed' /\ Numbers(r, Of(e.tx) \cup {e}),
         ~sequenced => /\ Givens' /\ DOMAIN next_seq \subseteq DOMAIN next_seq'
                       /\ \A tx \in DOMAIN next_seq : tx # e.tx => next_seq'[tx] = next_seq[tx]
                       /\ Given(e.tx, r)'
                       /\ \A f \in Of(e.tx) \cup {e} : Mark(f) \in r.unsequenced
                       /\ \A m \in r.unsequenced : \E f \in Of(e.tx) \cup {e} : f \in billed' /\ Mark(f) = m
  PROVE  LedgerInv'
<1>1. /\ Of(e.tx)' = Of(e.tx) \cup {e}
      /\ \A tx : tx # e.tx => Of(tx)' = Of(tx)
  BY DEF Of
<1>2. Deliveries'
  BY DEF LedgerInv, Deliveries
<1>3. \A tx \in DOMAIN records' : Speaks(records[tx], Of(tx))'
  <2>1. ASSUME NEW tx \in DOMAIN records'
        PROVE  Speaks(records'[tx], Of(tx)')
    <3>1. CASE tx = e.tx
      <4>1. records'[tx] = r /\ Of(tx)' = Of(e.tx) \cup {e}
        BY <1>1, <3>1
      <4> QED BY <4>1
    <3>2. CASE tx # e.tx
      <4>1. tx \in DOMAIN records /\ records'[tx] = records[tx] /\ Of(tx)' = Of(tx)
        BY <1>1, <3>2
      <4>2. Speaks(records[tx], Of(tx))
        BY <4>1 DEF LedgerInv
      <4> QED BY <4>1, <4>2
    <3> QED BY <3>1, <3>2
  <2> QED BY <2>1 DEF Speaks
<1>4. ASSUME sequenced'
      PROVE  /\ arrived' \subseteq billed'
             /\ \A tx \in DOMAIN records' : Numbers(records[tx], Of(tx))'
  <2>1. ASSUME NEW tx \in DOMAIN records'
        PROVE  Numbers(records'[tx], Of(tx)')
    BY <1>1, <1>4 DEF LedgerInv
  <2>2. arrived' \subseteq billed'
    BY <1>4 DEF LedgerInv
  <2> QED BY <2>1, <2>2 DEF Numbers
<1>5. ASSUME ~sequenced'
      PROVE  /\ Givens'
             /\ \A tx \in DOMAIN records' : Marks(records[tx], Of(tx))' /\ Given(tx, records[tx])'
  <2>1. ASSUME NEW tx \in DOMAIN records', tx = e.tx
        PROVE  Marks(records[tx], Of(tx))' /\ Given(tx, records[tx])'
    BY <1>1, <1>5, <2>1 DEF Marks, Given, Mark
  <2>2. ASSUME NEW tx \in DOMAIN records', tx # e.tx
        PROVE  Marks(records[tx], Of(tx))' /\ Given(tx, records[tx])'
    <3>1. Marks(records[tx], Of(tx)) /\ Given(tx, records[tx]) /\ records'[tx] = records[tx]
      BY <1>5, <2>2 DEF LedgerInv
    <3> QED BY <1>1, <1>5, <2>2, <3>1 DEF Marks, Given, Mark
  <2> QED BY <1>5, <2>1, <2>2
<1>6. sequenced' \in BOOLEAN
  BY DEF LedgerInv
<1> QED BY <1>2, <1>3, <1>4, <1>5, <1>6 DEF LedgerInv

(* OCPP 2.x: an event whose number was seen has arrived before, any other  *)
(* is applied.                                                             *)
LEMMA DeliverSequenced ==
  ASSUME BillingInv, NEW e \in sent, deliver(e), sequenced
  PROVE  LedgerInv'
<1> DEFINE r == Record(e.tx)
           A == Of(e.tx)
<1>1. MachineTypes /\ Numbering /\ LedgerInv
  BY DEF BillingInv, MachineInv
<1>2. /\ records' = Put(records, e.tx, Applied(r, e)) /\ next_seq' = next_seq
      /\ arrived' = arrived \cup {e}
      /\ UNCHANGED <<sequenced, sent, pruned, made>>
  BY DEF deliver, ingest, txVars
<1>3. /\ Duplicate(r, e) => billed' = billed /\ twice' = twice
      /\ ~Duplicate(r, e) => billed' = billed \cup {e} /\ twice' = twice \cup ({e} \cap billed)
  BY DEF deliver, Outcome, Ingested
<1>4. sent \subseteq made /\ arrived \subseteq sent /\ made \subseteq TxEvent
  BY <1>1 DEF LedgerInv, Deliveries, MachineTypes
<1>5. Speaks(r, A) /\ Numbers(r, A)
  BY <1>1, RecordSpeaks
<1>6. CASE Duplicate(r, e)
  <2>1. PICK f \in A : f.seq_no = e.seq_no
    BY <1>5, <1>6 DEF Numbers, Duplicate
  <2>2. f = e /\ e \in arrived
    BY <1>1, <1>4, <2>1 DEF Of, Numbering
  <2>3. e.tx \in DOMAIN records
    BY <1>1, <2>2 DEF LedgerInv, Deliveries
  <2>4. Applied(r, e) = records[e.tx]
    BY <1>6, <2>3 DEF Applied, Record
  <2>5. DOMAIN records' = DOMAIN records /\ \A tx \in DOMAIN records : records'[tx] = records[tx]
    BY <1>2, <2>3, <2>4 DEF Put
  <2>6. UNCHANGED <<next_seq, sequenced, arrived, billed, twice, pruned>>
    BY <1>2, <1>3, <1>6, <2>2
  <2> QED BY <1>1, <1>2, <1>4, <2>5, <2>6, LedgerUntouched
<1>7. CASE ~Duplicate(r, e)
  <2> DEFINE a == Applied(r, e)
  <2>1. A \in SUBSET TxEvent /\ e \in TxEvent
    BY <1>4 DEF Of
  <2>2. \A f \in A : f.kind = e.kind /\ e.kind \in {"Started", "Ended"} => f = e
    BY <1>1, <1>4, OneOfAKind DEF Of
  <2>3. Speaks(a, A \cup {e})
    BY <1>5, <1>7, <2>1, <2>2, AppliedSpeaks
  <2>4. a.seen = r.seen \cup {e.seq_no}
    BY <1>5, <1>7, <2>1, AppliedFields DEF Speaks
  <2> HIDE DEF a
  <2>5. Numbers(a, A \cup {e})
    BY <1>5, <2>4 DEF Numbers
  <2>6. e \in billed => e.tx \in pruned
    <3>1. e \notin arrived
      BY <1>5, <1>7 DEF Numbers, Of, Duplicate
    <3> QED BY <1>1, <3>1 DEF LedgerInv, Deliveries
  <2>7. \A x \in twice' : x.tx \in pruned
    BY <1>1, <1>3, <1>7, <2>6 DEF LedgerInv, Deliveries
  <2>8. /\ DOMAIN records' = DOMAIN records \cup {e.tx} /\ records'[e.tx] = a
        /\ \A tx \in DOMAIN records : tx # e.tx => records'[tx] = records[tx]
    BY <1>2 DEF Put, a
  <2>9. billed' = billed \cup {e}
    BY <1>3, <1>7
  <2> QED BY <1>1, <1>2, <2>3, <2>5, <2>7, <2>8, <2>9, Delivered
<1> QED BY <1>6, <1>7

(* OCPP 1.6, a mark that is there: a Started or an Ended is the same one, an *)
(* Updated leaves no trace.                                                *)
LEMMA DeliverRepeated ==
  ASSUME BillingInv, NEW e \in sent, deliver(e), ~sequenced, Repeated(e)
  PROVE  LedgerInv'
<1> DEFINE A == Of(e.tx)
<1>0. PICK r : r = records[e.tx]
  OBVIOUS
<1>1. MachineTypes /\ Numbering /\ LedgerInv
  BY DEF BillingInv, MachineInv
<1>2. /\ records' = records /\ next_seq' = next_seq /\ arrived' = arrived \cup {e}
      /\ UNCHANGED <<sequenced, sent, pruned, made>>
  BY DEF deliver, ingest_unsequenced, txVars
<1>3. billed' = billed /\ twice' = twice
  BY DEF deliver, Outcome, IngestedUnsequenced
<1>4. sent \subseteq made /\ arrived \subseteq sent /\ made \subseteq TxEvent
  BY <1>1 DEF LedgerInv, Deliveries, MachineTypes
<1>5. Mark(e) \in Record(e.tx).unsequenced
  BY DEF Repeated
<1>6. PICK f \in A : f \in billed /\ Mark(f) = Mark(e)
  BY <1>1, <1>5, RecordSpeaks DEF Marks
<1>7. f \in arrived /\ f.tx = e.tx /\ f.kind = e.kind
  BY <1>6 DEF Of, Mark
<1>8. e.tx \in DOMAIN records /\ Record(e.tx) = r
  BY <1>0, <1>1, <1>7 DEF LedgerInv, Deliveries, Record
<1>9. Speaks(r, A) /\ Marks(r, A) /\ Given(e.tx, r) /\ Givens
  BY <1>0, <1>1, <1>8 DEF LedgerInv
<1>10. Speaks(r, A \cup {e})
  <2>1. CASE e.kind \in {"Started", "Ended"}
    <3>1. f = e
      BY <1>1, <1>4, <1>7, <2>1, OneOfAKind
    <3>2. A \cup {e} = A
      BY <1>6, <3>1
    <3> QED BY <1>9, <3>2
  <2>2. CASE e.kind \notin {"Started", "Ended"}
    BY <1>9, <2>2 DEF Speaks
  <2> QED BY <2>1, <2>2
<1>11. /\ \A g \in A \cup {e} : Mark(g) \in r.unsequenced
       /\ \A m \in r.unsequenced : \E g \in A \cup {e} : g \in billed' /\ Mark(g) = m
  BY <1>3, <1>5, <1>8, <1>9 DEF Marks
<1>12. Givens' /\ Given(e.tx, r)'
  BY <1>2, <1>9 DEF Givens, Given
<1>13. \A x \in twice' : x.tx \in pruned
  BY <1>1, <1>3 DEF LedgerInv, Deliveries
<1>14. /\ DOMAIN records' = DOMAIN records \cup {e.tx} /\ records'[e.tx] = r
       /\ \A tx \in DOMAIN records : tx # e.tx => records'[tx] = records[tx]
  BY <1>0, <1>2, <1>8
<1> QED BY <1>1, <1>2, <1>3, <1>10, <1>11, <1>12, <1>13, <1>14, Delivered

(* OCPP 1.6, a mark that is new: the event is applied under a number that   *)
(* its transaction never had.                                              *)
LEMMA DeliverMarked ==
  ASSUME BillingInv, NEW e \in sent, deliver(e), ~sequenced, ~Repeated(e)
  PROVE  LedgerInv'
<1>0. PICK r, x, n, A : r = Record(e.tx) /\ x = Numbered(e) /\ n = Next_seq(e.tx) /\ A = Of(e.tx)
  OBVIOUS
<1>1. MachineTypes /\ Numbering /\ LedgerInv
  BY DEF BillingInv, MachineInv
<1>2. /\ records' = Put(records, e.tx, [Applied(r, x) EXCEPT !.unsequenced = Applied(r, x).unsequenced \cup {Mark(e)}])
      /\ next_seq' = Put(next_seq, e.tx, n + 1)
      /\ arrived' = arrived \cup {e}
      /\ UNCHANGED <<sequenced, sent, pruned, made>>
  BY <1>0 DEF deliver, ingest_unsequenced, txVars
<1>3. sent \subseteq made /\ arrived \subseteq sent /\ made \subseteq TxEvent
  BY <1>1 DEF LedgerInv, Deliveries, MachineTypes
<1>4. /\ Speaks(r, A) /\ Marks(r, A) /\ n \in Nat
      /\ \A k \in r.seen : k < n
      /\ e.tx \in pruned => n > 0 /\ 0 \notin r.seen
  BY <1>0, <1>1, RecordSpeaks
<1>5. r \in LedgerRecord /\ A \in SUBSET TxEvent /\ e \in TxEvent
  BY <1>0, <1>3, <1>4 DEF Of, Speaks
<1>6. x \in TxEvent /\ x.kind = e.kind /\ x.meter_wh = e.meter_wh /\ x.seq_no = n
  BY <1>0, <1>4, <1>5 DEF Numbered, TxEvent
<1>7. ~Duplicate(r, x)
  BY <1>4, <1>6 DEF Duplicate
<1>8. billed' = billed \cup {e} /\ twice' = twice \cup ({e} \cap billed)
  BY <1>0, <1>7 DEF deliver, Outcome, IngestedUnsequenced, Ingested
<1>9. \A f \in A : f.kind = e.kind /\ e.kind \in {"Started", "Ended"} => f = e
  BY <1>0, <1>1, <1>3, OneOfAKind DEF Of
<1>10. PICK a, marks : a = Applied(r, x) /\ marks = a.unsequenced \cup {Mark(e)}
  OBVIOUS
<1>11. Speaks(a, A \cup {e})
  BY <1>4, <1>5, <1>6, <1>7, <1>9, <1>10, AppliedSpeaks
<1>12. a.seen = r.seen \cup {n} /\ a.unsequenced = r.unsequenced /\ a.highest = Highest(r, x)
  BY <1>5, <1>6, <1>7, <1>10, AppliedFields
<1>13. marks \in SUBSET (EventKind \X Nat) /\ marks = r.unsequenced \cup {Mark(e)}
  BY <1>5, <1>10, <1>12 DEF LedgerRecord, Mark, TxEvent
<1>14. PICK d : d = [a EXCEPT !.unsequenced = marks]
  OBVIOUS
<1>15. Speaks(d, A \cup {e}) /\ d.unsequenced = marks /\ d.seen = a.seen /\ d.highest = a.highest
  BY <1>11, <1>13, <1>14, MarkedSpeaks
<1>16. /\ DOMAIN records' = DOMAIN records \cup {e.tx} /\ records'[e.tx] = d
       /\ \A tx \in DOMAIN records : tx # e.tx => records'[tx] = records[tx]
  <2>1. records' = Put(records, e.tx, d)
    BY <1>2, <1>10, <1>14
  <2> QED BY <2>1 DEF Put
<1>17. /\ DOMAIN next_seq' = DOMAIN next_seq \cup {e.tx} /\ next_seq'[e.tx] = n + 1
       /\ \A tx \in DOMAIN next_seq : tx # e.tx => next_seq'[tx] = next_seq[tx]
  BY <1>2 DEF Put
<1>18. Givens'
  BY <1>1, <1>2, <1>4, <1>17 DEF LedgerInv, Givens
<1>19. Given(e.tx, d)'
  <2>1. r.highest \in Int /\ \A k \in r.seen : k \in Nat
    BY <1>5 DEF LedgerRecord
  <2>2. d.highest >= 0
    BY <1>4, <1>6, <1>12, <1>15, <2>1 DEF Highest
  <2>3. \A k \in d.seen : k < n + 1
    BY <1>4, <1>12, <1>15, <2>1
  <2>4. e.tx \in pruned => 0 \notin d.seen
    BY <1>4, <1>12, <1>15
  <2> QED BY <1>2, <1>17, <2>2, <2>3, <2>4 DEF Given
<1>20. /\ \A g \in A \cup {e} : Mark(g) \in d.unsequenced
       /\ \A m \in d.unsequenced : \E g \in A \cup {e} : g \in billed' /\ Mark(g) = m
  BY <1>4, <1>8, <1>13, <1>15 DEF Marks
<1>21. \A y \in twice' : y.tx \in pruned
  <2>1. e \notin arrived
    <3>1. Mark(e) \notin r.unsequenced
      BY <1>0 DEF Repeated
    <3> QED BY <1>0, <1>4, <3>1 DEF Marks, Of
  <2> QED BY <1>1, <1>8, <2>1 DEF LedgerInv, Deliveries
<1> QED BY <1>0, <1>1, <1>2, <1>8, <1>15, <1>16, <1>17, <1>18, <1>19, <1>20, <1>21, Delivered

LEMMA PruneInv ==
  ASSUME LedgerInv, NEW cutoff, prune(cutoff)
  PROVE  LedgerInv'
<1>1. /\ records' = [tx \in Kept(cutoff) |-> records[tx]] /\ Kept(cutoff) \subseteq DOMAIN records
      /\ next_seq' = next_seq /\ pruned' = pruned \cup (DOMAIN records \ DOMAIN records')
      /\ arrived' = {e \in arrived : e.tx \in DOMAIN records'}
      /\ UNCHANGED <<made, sequenced, sent, billed, twice>>
  BY DEF prune, prune_ended_before, txVars, Kept
<1>2. /\ DOMAIN records' = Kept(cutoff)
      /\ \A tx \in DOMAIN records' : tx \in DOMAIN records /\ records'[tx] = records[tx]
  BY <1>1
<1>3. \A tx \in DOMAIN records' : Of(tx)' = Of(tx)
  BY <1>1, <1>2 DEF Of
<1>4. Deliveries'
  <2>1. \A e \in billed : e \in arrived' \/ e.tx \in pruned'
    BY <1>1 DEF LedgerInv, Deliveries
  <2> QED BY <1>1, <2>1 DEF LedgerInv, Deliveries
<1>5. \A tx \in DOMAIN records' : Speaks(records[tx], Of(tx))'
  BY <1>2, <1>3 DEF LedgerInv, Speaks
<1>6. ASSUME sequenced'
      PROVE  /\ arrived' \subseteq billed'
             /\ \A tx \in DOMAIN records' : Numbers(records[tx], Of(tx))'
  BY <1>1, <1>2, <1>3, <1>6 DEF LedgerInv, Numbers
<1>7. ASSUME ~sequenced'
      PROVE  /\ Givens'
             /\ \A tx \in DOMAIN records' : Marks(records[tx], Of(tx))' /\ Given(tx, records[tx])'
  <2>1. Givens'
    BY <1>1, <1>7 DEF LedgerInv, Givens, Given
  <2>2. ASSUME NEW tx \in DOMAIN records'
        PROVE  Marks(records[tx], Of(tx))' /\ Given(tx, records[tx])'
    <3>1. tx \in DOMAIN records /\ Marks(records[tx], Of(tx)) /\ Given(tx, records[tx])
      BY <1>1, <1>2, <1>7 DEF LedgerInv
    <3>2. tx \in pruned' => tx \in pruned
      BY <1>1, <3>1
    <3> QED BY <1>1, <1>2, <1>3, <3>1, <3>2 DEF Marks, Given, Mark
  <2> QED BY <2>1, <2>2
<1>8. sequenced' \in BOOLEAN
  BY <1>1 DEF LedgerInv
<1> QED BY <1>4, <1>5, <1>6, <1>7, <1>8 DEF LedgerInv

-----------------------------------------------------------------------------
(* From an EVSE to the bill.                                               *)

LEMMA BillingStarts ==
  BillingInit => BillingInv
<1> SUFFICES ASSUME BillingInit PROVE BillingInv
  OBVIOUS
<1>1. /\ events = 0 /\ now = 0 /\ active = None /\ outbox = None /\ made = {} /\ held = {}
      /\ saved.active = None /\ saved.held = {}
  BY DEF BillingInit, TxInit
<1>2. MachineInv
  BY <1>1 DEF MachineInv, MachineTypes, Numbering, Persistence, StopsHold
<1>3. /\ DOMAIN records = {} /\ DOMAIN next_seq = {} /\ sequenced \in BOOLEAN
      /\ sent = {} /\ arrived = {} /\ billed = {} /\ twice = {} /\ pruned = {}
  BY DEF BillingInit, LedgerInit
<1>4. LedgerInv
  BY <1>1, <1>3 DEF LedgerInv, Deliveries, Givens
<1> QED BY <1>2, <1>4 DEF BillingInv

LEMMA StationInv ==
  ASSUME BillingInv, MachineInv', UNCHANGED <<records, next_seq, sequenced, sent, history>>,
         made \subseteq made'
  PROVE  BillingInv'
<1>1. LedgerInv /\ sent \subseteq made
  BY DEF BillingInv, LedgerInv, Deliveries
<1>2. LedgerInv'
  BY <1>1, LedgerUntouched DEF history
<1> QED BY <1>2 DEF BillingInv

LEMMA BillingStep ==
  BillingInv /\ [BillingNext]_billingVars => BillingInv'
<1> SUFFICES ASSUME BillingInv, [BillingNext]_billingVars PROVE BillingInv'
  OBVIOUS
<1>1. MachineInv /\ LedgerInv
  BY DEF BillingInv
<1>2. ASSUME NEW c \in SUBSET Facts, Station(observe(c))
      PROVE  BillingInv'
  <2>1. observe(c) /\ UNCHANGED <<records, next_seq, sequenced, sent, history>> /\ made' = made
    BY <1>2 DEF Station, observe
  <2> QED BY <1>1, <2>1, ObserveInv, StationInv
<1>3. CASE Station(update)
  <2>1. update /\ UNCHANGED <<records, next_seq, sequenced, sent, history>> /\ made' = made
    BY <1>3 DEF Station, update
  <2> QED BY <1>1, <2>1, UpdateInv, StationInv
<1>4. CASE Station(abort)
  <2>1. abort /\ UNCHANGED <<records, next_seq, sequenced, sent, history>> /\ made' = made
    BY <1>4 DEF Station, abort
  <2> QED BY <1>1, <2>1, AbortInv, StationInv
<1>5. CASE Station(save)
  <2>1. save /\ UNCHANGED <<records, next_seq, sequenced, sent, history>> /\ made' = made \cup {outbox}
    BY <1>5 DEF Station, save
  <2> QED BY <1>1, <2>1, SaveInv, StationInv
<1>6. CASE Station(reboot)
  <2>1. reboot /\ UNCHANGED <<records, next_seq, sequenced, sent, history>> /\ made' = made
    BY <1>6 DEF Station, reboot
  <2> QED BY <1>1, <2>1, RebootInv, StationInv
<1>7. CASE send
  <2>1. /\ sent' = sent \cup {outbox} /\ outbox \in made /\ made' = made
        /\ UNCHANGED <<records, next_seq, sequenced, history>>
    BY <1>7 DEF send
  <2>2. sent \subseteq sent' /\ sent' \subseteq made'
    BY <1>1, <2>1 DEF LedgerInv, Deliveries
  <2>3. LedgerInv'
    BY <1>1, <2>1, <2>2, LedgerUntouched DEF history
  <2> QED BY <1>1, <1>7, <2>3, SendInv DEF BillingInv
<1>8. ASSUME NEW e \in sent, deliver(e)
      PROVE  BillingInv'
  <2>1. LedgerInv'
    BY <1>8, DeliverSequenced, DeliverRepeated, DeliverMarked
  <2>2. UNCHANGED txVars
    BY <1>8 DEF deliver
  <2>3. MachineInv'
    BY <1>1, <2>2 DEF MachineInv, MachineTypes, Numbering, Persistence, StopsHold, ComesNext,
                      FirstIsStarted, txVars
  <2> QED BY <2>1, <2>3 DEF BillingInv
<1>9. ASSUME NEW cutoff, prune(cutoff)
      PROVE  BillingInv'
  <2>1. LedgerInv'
    BY <1>1, <1>9, PruneInv
  <2>2. UNCHANGED txVars
    BY <1>9 DEF prune
  <2>3. MachineInv'
    BY <1>1, <2>2 DEF MachineInv, MachineTypes, Numbering, Persistence, StopsHold, ComesNext,
                      FirstIsStarted, txVars
  <2> QED BY <2>1, <2>3 DEF BillingInv
<1>10. CASE UNCHANGED billingVars
  <2>1. UNCHANGED txVars /\ UNCHANGED <<records, next_seq, sequenced, sent, history>>
    BY <1>10 DEF billingVars
  <2>2. made' = made
    BY <2>1 DEF txVars
  <2>3. MachineInv'
    BY <1>1, <2>1 DEF MachineInv, MachineTypes, Numbering, Persistence, StopsHold, ComesNext,
                      FirstIsStarted, txVars
  <2> QED BY <2>1, <2>2, <2>3, StationInv
<1> QED BY <1>2, <1>3, <1>4, <1>5, <1>6, <1>7, <1>8, <1>9, <1>10 DEF BillingNext

(* BillingInv is an invariant: across reboots the station's numbering has  *)
(* no repetition and no event after an Ended (observe, resume, and the save *)
(* before the send), and every record of the ledger says what the events    *)
(* delivered to it say (ingest, ingest_unsequenced, prune_ended_before).    *)
THEOREM BillingInvariance ==
  BillingSpec => []BillingInv
BY BillingStarts, BillingStep, PTL DEF BillingSpec

(* While a transaction runs, every stop point that held in it holds: no end *)
(* of a transaction is missed across reboots (observe and resume).          *)
THEOREM NoStopIsMissed ==
  BillingSpec => []NoStopMissed
<1>1. BillingInv => NoStopMissed
  BY DEF BillingInv, MachineInv, StopsHold, NoStopMissed
<1> QED BY <1>1, BillingInvariance, PTL

(* Once both ends of a transaction have arrived with their readings the     *)
(* bill runs from the one to the other, whatever order, repetition or       *)
(* straggler there was (ingest).                                            *)
THEOREM EnergyIsExact ==
  BillingSpec => []EnergyExact
<1>1. BillingInv => EnergyExact
  <2> SUFFICES ASSUME BillingInv, NEW s \in arrived, NEW e \in arrived, s.tx = e.tx,
                      s.kind = "Started", e.kind = "Ended"
               PROVE  /\ s.meter_wh # None => records[s.tx].meter_start_wh = s.meter_wh
                      /\ e.meter_wh # None => records[s.tx].meter_stop_wh = e.meter_wh
    BY DEF EnergyExact
  <2>1. s.tx \in DOMAIN records /\ s \in Of(s.tx) /\ e \in Of(s.tx)
    BY DEF BillingInv, LedgerInv, Deliveries, Of
  <2>2. Speaks(records[s.tx], Of(s.tx))
    BY <2>1 DEF BillingInv, LedgerInv
  <2> QED BY <2>1, <2>2 DEF Speaks
<1> QED BY <1>1, BillingInvariance, PTL

(* Each event that arrives is counted, and none is counted again while its  *)
(* transaction is not archived (the duplicate checks of ingest and of       *)
(* ingest_unsequenced, against the machine's numbering).                    *)
THEOREM EventsAreCountedOnce ==
  BillingSpec => []CountedOnce
<1>1. BillingInv => CountedOnce
  <2> SUFFICES ASSUME BillingInv PROVE CountedOnce
    OBVIOUS
  <2>1. LedgerInv
    BY DEF BillingInv
  <2>2. ASSUME NEW e \in arrived, ~sequenced
        PROVE  \E f \in billed : f.tx = e.tx /\ f.kind = e.kind /\ f.timestamp = e.timestamp
    <3>1. e \in Of(e.tx) /\ e.tx \in DOMAIN records
      BY <2>1 DEF Of, LedgerInv, Deliveries
    <3>2. Marks(records[e.tx], Of(e.tx))
      BY <2>1, <2>2, <3>1 DEF LedgerInv
    <3>3. PICK f \in Of(e.tx) : f \in billed /\ Mark(f) = Mark(e)
      BY <3>1, <3>2 DEF Marks
    <3> QED BY <3>3 DEF Of, Mark
  <2> QED BY <2>1, <2>2 DEF LedgerInv, Deliveries, CountedOnce
<1> QED BY <1>1, BillingInvariance, PTL

(* A closed record without a gap holds every event the station ever saved   *)
(* for the transaction; a record of 1.6 that a late repetition opens after   *)
(* its transaction was archived shows a gap (missing, next_seq).            *)
THEOREM CompleteIsAll ==
  BillingSpec => []CompleteMeansAll
<1>1. BillingInv => CompleteMeansAll
  <2> SUFFICES ASSUME BillingInv PROVE CompleteMeansAll
    OBVIOUS
  <2>1. MachineTypes /\ Numbering /\ LedgerInv
    BY DEF BillingInv, MachineInv
  <2>2. ASSUME sequenced, NEW tx \in DOMAIN records, ~is_open(records[tx]), missing(records[tx]) = {},
               NEW e \in made, e.tx = tx
        PROVE  e \in arrived
    <3> DEFINE r == records[tx]
    <3>1. Speaks(r, Of(tx)) /\ Numbers(r, Of(tx))
      BY <2>1, <2>2 DEF LedgerInv
    <3>2. \A f \in Of(tx) : f \in arrived /\ f \in made /\ f.tx = tx
      BY <2>1 DEF Of, LedgerInv, Deliveries
    <3>3. \A f \in made : f.seq_no \in Nat
      BY <2>1 DEF MachineTypes, TxEvent
    <3>4. PICK last \in Of(tx) : last.kind = "Ended"
      BY <2>2, <3>1 DEF Speaks, is_open
    <3>5. e.seq_no <= last.seq_no
      BY <2>1, <2>2, <3>2, <3>4 DEF Numbering
    <3>6. last.seq_no \in r.seen /\ last.seq_no <= r.highest /\ r.highest \in Int
      BY <3>1 DEF Speaks, Numbers, LedgerRecord
    <3>7. e.seq_no \in 0 .. r.highest
      BY <3>2, <3>3, <3>5, <3>6
    <3>8. e.seq_no \in r.seen
      BY <2>2, <3>7 DEF missing
    <3>9. PICK f \in Of(tx) : f.seq_no = e.seq_no
      BY <3>1, <3>8 DEF Numbers
    <3>10. f = e
      BY <2>1, <2>2, <3>2, <3>9 DEF Numbering
    <3> QED BY <3>2, <3>10
  <2>3. ASSUME ~sequenced, NEW tx \in pruned \cap DOMAIN records
        PROVE  missing(records[tx]) # {}
    <3>1. Given(tx, records[tx]) /\ records[tx] \in LedgerRecord
      BY <2>1, <2>3 DEF LedgerInv, Speaks
    <3>2. 0 \in 0 .. records[tx].highest
      BY <3>1 DEF Given, LedgerRecord
    <3> QED BY <2>3, <3>1, <3>2 DEF Given, missing
  <2> QED BY <2>2, <2>3 DEF CompleteMeansAll
<1> QED BY <1>1, BillingInvariance, PTL

-----------------------------------------------------------------------------
(* Local authorization.                                                    *)

Verdict == [stamp : Nat, info : Infos]

(* What the cache says of a token is what the CSMS said last, and a cache   *)
(* that is switched off says nothing.                                      *)
CacheInv ==
  /\ enabled \in BOOLEAN /\ clock \in Nat
  /\ DOMAIN said = Tokens
  /\ DOMAIN cache \subseteq Tokens
  /\ \A t \in DOMAIN cache : cache[t] \in Verdict /\ cache[t].info = said[t]
  /\ ~enabled => DOMAIN cache = {}

LEMMA EvictedKeeps ==
  ASSUME NEW f
  PROVE  DOMAIN Evicted(f) \subseteq DOMAIN f /\ \A t \in DOMAIN Evicted(f) : Evicted(f)[t] = f[t]
BY DEF Evicted, Without1

LEMMA RememberInv ==
  ASSUME CacheInv, NEW t \in Tokens, NEW info \in Infos, remember(t, info)
  PROVE  CacheInv'
<1>1. DOMAIN said' = Tokens /\ said'[t] = info /\ \A u \in Tokens : u # t => said'[u] = said[u]
  BY DEF CacheInv, remember
<1>2. enabled' = enabled
  BY DEF remember
<1>3. CASE enabled
  <2>1. PICK e, f : e = [stamp |-> clock + 1, info |-> info] /\ f = With1(cache, t, e)
    OBVIOUS
  <2>2. clock' = clock + 1 /\ cache' = Evicted(f)
    BY <1>3, <2>1 DEF remember
  <2>3. clock \in Nat /\ e \in Verdict /\ e.info = info
    BY <2>1 DEF CacheInv, Verdict
  <2>4. DOMAIN f = DOMAIN cache \cup {t} /\ f[t] = e /\ \A u \in DOMAIN cache : u # t => f[u] = cache[u]
    BY <2>1 DEF With1
  <2>5. \A u \in DOMAIN f : u \in Tokens /\ f[u] \in Verdict /\ f[u].info = said'[u]
    BY <1>1, <2>3, <2>4 DEF CacheInv
  <2>6. DOMAIN cache' \subseteq DOMAIN f /\ \A u \in DOMAIN cache' : cache'[u] = f[u]
    BY <2>2, EvictedKeeps
  <2>7. enabled' \in BOOLEAN /\ clock' \in Nat /\ enabled'
    BY <1>2, <1>3, <2>2, <2>3 DEF CacheInv
  <2> QED BY <1>1, <2>5, <2>6, <2>7 DEF CacheInv
<1>4. CASE ~enabled
  <2>1. clock' = clock /\ cache' = cache
    BY <1>4 DEF remember
  <2> QED BY <1>1, <1>2, <1>4, <2>1 DEF CacheInv
<1> QED BY <1>3, <1>4

LEMMA PresentInv ==
  ASSUME CacheInv, NEW t, NEW policy, Present(t, policy)
  PROVE  CacheInv'
<1>1. enabled' = enabled /\ enabled /\ said' = said /\ clock' = clock + 1
  BY DEF Present, get
<1>2. clock' \in Nat /\ clock + 1 \in Nat
  BY <1>1 DEF CacheInv
<1>3. CASE t \in DOMAIN cache
  <2>1. cache' = [cache EXCEPT ![t] = [cache[t] EXCEPT !.stamp = clock + 1]]
    BY <1>3 DEF Present, get
  <2>2. cache[t] \in Verdict
    BY <1>3 DEF CacheInv
  <2>3. /\ [cache[t] EXCEPT !.stamp = clock + 1] \in Verdict
        /\ [cache[t] EXCEPT !.stamp = clock + 1].info = cache[t].info
    BY <1>2, <2>2 DEF Verdict
  <2>4. DOMAIN cache' = DOMAIN cache /\ \A u \in DOMAIN cache : cache'[u] \in Verdict /\ cache'[u].info = said[u]
    BY <1>3, <2>1, <2>3 DEF CacheInv
  <2> QED BY <1>1, <1>2, <2>4 DEF CacheInv
<1>4. CASE t \notin DOMAIN cache
  <2>1. cache' = cache
    BY <1>4 DEF Present, get
  <2> QED BY <1>1, <1>2, <2>1 DEF CacheInv
<1> QED BY <1>3, <1>4

LEMMA CacheStep ==
  CacheInv /\ [AuthNext]_authVars => CacheInv'
<1> SUFFICES ASSUME CacheInv, [AuthNext]_authVars PROVE CacheInv'
  OBVIOUS
<1>1. ASSUME NEW u \in Updates, update_list(u)
      PROVE  CacheInv'
  BY <1>1 DEF update_list, CacheInv
<1>2. ASSUME NEW t \in Tokens, NEW i \in Infos, remember(t, i)
      PROVE  CacheInv'
  BY <1>2, RememberInv
<1>3. ASSUME NEW t \in Tokens, NEW policy \in SUBSET Policy, Present(t, policy)
      PROVE  CacheInv'
  BY <1>3, PresentInv
<1>4. ASSUME NEW on \in BOOLEAN, Switch(on)
      PROVE  CacheInv'
  <2>1. enabled' = on /\ clock' = clock /\ said' = said
    BY <1>4 DEF Switch, set_enabled
  <2>2. on => cache' = cache
    BY <1>4 DEF Switch, set_enabled
  <2>3. ~on => DOMAIN cache' = {}
    BY <1>4 DEF Switch, set_enabled
  <2> QED BY <2>1, <2>2, <2>3 DEF CacheInv
<1>5. CASE clear_list
  BY <1>5 DEF clear_list, CacheInv
<1>6. CASE clear_cache
  <2>1. DOMAIN cache' = {} /\ UNCHANGED <<clock, enabled, said>>
    BY <1>6 DEF clear_cache
  <2> QED BY <2>1 DEF CacheInv
<1>7. CASE Midnight
  BY <1>7 DEF Midnight, CacheInv
<1>8. CASE UNCHANGED authVars
  BY <1>8 DEF authVars, CacheInv
<1> QED BY <1>1, <1>2, <1>3, <1>4, <1>5, <1>6, <1>7, <1>8 DEF AuthNext

(* A driver is accepted without the CSMS only on the strength of an entry   *)
(* of the operator, or of the CSMS's own last answer, that says so today,   *)
(* for any evictions, clearings and switchings in between (decide).         *)
THEOREM AcceptIsNeverStale ==
  AuthSpec => []NeverStaleAccept
<1>1. AuthInit => CacheInv
  BY DEF AuthInit, CacheInv
<1>2. CacheInv => NeverStaleAccept
  <2> SUFFICES ASSUME CacheInv, NEW t \in DOMAIN list \cup DOMAIN cache, NEW online \in BOOLEAN,
                      NEW policy \in SUBSET Policy, decide(t, online, policy) = "Accepted"
               PROVE  IF Listed(t, policy) THEN Says(list[t]) = "Accepted" ELSE Says(said[t]) = "Accepted"
    BY Zenon DEF NeverStaleAccept
  <2>1. PICK info : info = Local(t, policy)
    OBVIOUS
  <2>2. info # Never /\ status_at(info) = "Accepted"
    BY <2>1 DEF decide
  <2>3. CASE Listed(t, policy)
    BY <2>1, <2>2, <2>3 DEF Local, Says
  <2>4. CASE ~Listed(t, policy)
    <3>1. t \in DOMAIN cache /\ info = cache[t].info
      BY <2>1, <2>2, <2>4 DEF Local, Cached
    <3>2. info = said[t]
      BY <3>1 DEF CacheInv
    <3> QED BY <2>2, <2>4, <3>2 DEF Says
  <2> QED BY <2>3, <2>4
<1> QED BY <1>1, <1>2, CacheStep, PTL DEF AuthSpec

-----------------------------------------------------------------------------
(* The list.  What an update leaves is proved by the least number of its    *)
(* entries for which the claim would fail.                                  *)

LEMMA LeastOne ==
  ASSUME NEW S, S \subseteq Nat, S # {}
  PROVE  \E x \in S : \A y \in S : x <= y
<1> DEFINE Less == {ss \in Nat \X Nat : ss[1] < ss[2]}
<1>1. IsWellFoundedOn(Less, Nat)
  BY NatLessThanWellFounded, Zenon DEF OpToRel
<1>2. PICK x \in S : \A y \in S : ~(<<y, x>> \in Less)
  <2> HIDE DEF Less
  <2> QED BY <1>1, WFMin, Zenon
<1>3. ASSUME NEW y \in S
      PROVE  x <= y
  <2>1. x \in Nat /\ y \in Nat
    OBVIOUS
  <2>2. <<y, x>>[1] = y /\ <<y, x>>[2] = x /\ <<y, x>> \in Nat \X Nat
    BY <2>1
  <2>3. ~(y < x)
    BY <1>2, <2>2, Zenon
  <2> QED BY <2>1, <2>3
<1> QED BY <1>3

(* The lists after each of the first n entries of es.                       *)
Patches(es, f, h, n) == h = [i \in 0 .. n |-> IF i = 0 THEN f ELSE Changed(h[i - 1], es[i])]

LEMMA PatchesExist ==
  ASSUME NEW es, NEW f, NEW k \in Nat
  PROVE  \E h : Patches(es, f, h, k)
<1> DEFINE Bad == {n \in Nat : ~\E h : Patches(es, f, h, n)}
<1> SUFFICES ASSUME k \in Bad PROVE FALSE
  OBVIOUS
<1>1. PICK n \in Bad : \A m \in Bad : n <= m
  BY LeastOne
<1>2. n \in Nat
  OBVIOUS
<1>3. CASE n = 0
  <2>1. PICK h : h = [i \in 0 .. 0 |-> f]
    OBVIOUS
  <2>2. h = [i \in 0 .. 0 |-> IF i = 0 THEN f ELSE Changed(h[i - 1], es[i])]
    BY <2>1
  <2>3. Patches(es, f, h, 0)
    BY <2>2 DEF Patches
  <2> QED BY <1>3, <2>3
<1>4. CASE n > 0
  <2>1. n - 1 \in Nat /\ ~(n <= n - 1)
    BY <1>2, <1>4
  <2>2. PICK h : Patches(es, f, h, n - 1)
    BY <1>1, <2>1
  <2>3. PICK last : last = Changed(h[n - 1], es[n])
    OBVIOUS
  <2>4. PICK g : g = [i \in 0 .. n |-> IF i = n THEN last ELSE h[i]]
    OBVIOUS
  <2>5. \A i \in 0 .. n - 1 : h[i] = IF i = 0 THEN f ELSE Changed(h[i - 1], es[i])
    BY <2>2 DEF Patches
  <2>6. \A i \in 0 .. n - 1 : g[i] = h[i]
    BY <1>2, <2>4
  <2>7. \A i \in 0 .. n : g[i] = IF i = 0 THEN f ELSE Changed(g[i - 1], es[i])
    <3>1. ASSUME NEW i \in 0 .. n - 1
          PROVE  g[i] = IF i = 0 THEN f ELSE Changed(g[i - 1], es[i])
      <4>1. i = 0 \/ i - 1 \in 0 .. n - 1
        BY <1>2
      <4> QED BY <2>5, <2>6, <4>1
    <3>2. g[n] = Changed(g[n - 1], es[n])
      <4>1. g[n] = last /\ n - 1 \in 0 .. n - 1
        BY <1>2, <1>4, <2>4
      <4>2. g[n - 1] = h[n - 1]
        BY <2>6, <4>1
      <4> QED BY <2>3, <4>1, <4>2
    <3>3. \A i \in 0 .. n : i = n \/ i \in 0 .. n - 1
      BY <1>2
    <3> QED BY <1>4, <3>1, <3>2, <3>3
  <2>8. Patches(es, f, g, n)
    <3>1. g = [i \in 0 .. n |-> g[i]]
      BY <2>4
    <3> QED BY <2>7, <3>1 DEF Patches
  <2> QED BY <2>8
<1> QED BY <1>2, <1>3, <1>4

LEMMA PatchedIs ==
  ASSUME NEW es, NEW f, NEW g, Patches(es, f, g, Len(es))
  PROVE  \E h : Patches(es, f, h, Len(es)) /\ Patched(es, f) = h[Len(es)]
BY DEF Patched, Patches

(* i is the last of the first n entries that names the token t.             *)
Latest(es, n, i, t) == i \in 1 .. n /\ es[i][1] = t /\ \A j \in 1 .. n : es[j][1] = t => j <= i

(* g is f after the first n entries: the last entry about a token counts.   *)
SaysLast(es, n, f, g) ==
  /\ \A t : (\A i \in 1 .. n : es[i][1] # t) => (t \in DOMAIN g <=> t \in DOMAIN f) /\ (t \in DOMAIN f => g[t] = f[t])
  /\ \A t, i : Latest(es, n, i, t) =>
       IF es[i][2] = Never THEN t \notin DOMAIN g ELSE t \in DOMAIN g /\ g[t] = es[i][2]
  /\ IsFiniteSet(DOMAIN f) => IsFiniteSet(DOMAIN g)

LEMMA ChangedIs ==
  ASSUME NEW f, NEW e, NEW g, g = Changed(f, e)
  PROVE  /\ \A t : t # e[1] => (t \in DOMAIN g <=> t \in DOMAIN f) /\ (t \in DOMAIN f => g[t] = f[t])
         /\ IF e[2] = Never THEN e[1] \notin DOMAIN g ELSE e[1] \in DOMAIN g /\ g[e[1]] = e[2]
         /\ IsFiniteSet(DOMAIN f) => IsFiniteSet(DOMAIN g)
<1>1. CASE e[2] = Never
  <2>1. DOMAIN g = DOMAIN f \ {e[1]} /\ \A t \in DOMAIN g : g[t] = f[t]
    BY <1>1 DEF Changed, Without1
  <2>2. IsFiniteSet(DOMAIN f) => IsFiniteSet(DOMAIN f \ {e[1]})
    BY FS_RemoveElement
  <2> QED BY <1>1, <2>1, <2>2
<1>2. CASE e[2] # Never
  <2>1. /\ DOMAIN g = DOMAIN f \cup {e[1]} /\ g[e[1]] = e[2]
        /\ \A t \in DOMAIN f : t # e[1] => g[t] = f[t]
    BY <1>2 DEF Changed, With1
  <2>2. IsFiniteSet(DOMAIN f) => IsFiniteSet(DOMAIN f \cup {e[1]})
    BY FS_AddElement
  <2> QED BY <1>2, <2>1, <2>2
<1> QED BY <1>1, <1>2

LEMMA PatchedSays ==
  ASSUME NEW es, NEW f, Len(es) \in Nat
  PROVE  SaysLast(es, Len(es), f, Patched(es, f))
<1>1. PICK h : Patches(es, f, h, Len(es)) /\ Patched(es, f) = h[Len(es)]
  <2>1. PICK g : Patches(es, f, g, Len(es))
    BY PatchesExist
  <2> QED BY <2>1, PatchedIs
<1>2. \A i \in 0 .. Len(es) : h[i] = IF i = 0 THEN f ELSE Changed(h[i - 1], es[i])
  BY <1>1 DEF Patches
<1> DEFINE Bad == {n \in Nat : n <= Len(es) /\ ~SaysLast(es, n, f, h[n])}
<1> SUFFICES ASSUME Len(es) \in Bad PROVE FALSE
  BY <1>1
<1>3. PICK n \in Bad : \A m \in Bad : n <= m
  BY LeastOne
<1>4. n \in Nat /\ n <= Len(es) /\ ~SaysLast(es, n, f, h[n])
  BY <1>3
<1>5. CASE n = 0
  <2>1. h[0] = f
    BY <1>2
  <2>2. 1 .. 0 = {}
    OBVIOUS
  <2>3. SaysLast(es, 0, f, f)
    BY <2>2 DEF SaysLast, Latest
  <2> QED BY <1>4, <1>5, <2>1, <2>3
<1>6. CASE n > 0
  <2>1. PICK m \in Nat : m = n - 1
    BY <1>4, <1>6
  <2>2. SaysLast(es, m, f, h[m])
    BY <1>3, <1>4, <2>1
  <2>3. h[n] = Changed(h[m], es[n])
    BY <1>2, <1>4, <1>6, <2>1
  <2>4. PICK a, b : a = h[m] /\ b = h[n]
    OBVIOUS
  <2>5. /\ \A t : t # es[n][1] => (t \in DOMAIN b <=> t \in DOMAIN a) /\ (t \in DOMAIN a => b[t] = a[t])
        /\ IF es[n][2] = Never THEN es[n][1] \notin DOMAIN b ELSE es[n][1] \in DOMAIN b /\ b[es[n][1]] = es[n][2]
        /\ IsFiniteSet(DOMAIN a) => IsFiniteSet(DOMAIN b)
    BY <2>3, <2>4, ChangedIs
  <2>6. n \in 1 .. n /\ (\A i : i \in 1 .. n <=> i \in 1 .. m \/ i = n)
    BY <1>4, <1>6, <2>1
  <2>7. ASSUME NEW t, \A i \in 1 .. n : es[i][1] # t
        PROVE  (t \in DOMAIN b <=> t \in DOMAIN f) /\ (t \in DOMAIN f => b[t] = f[t])
    <3>1. t # es[n][1] /\ \A i \in 1 .. m : es[i][1] # t
      BY <2>6, <2>7
    <3>2. (t \in DOMAIN a <=> t \in DOMAIN f) /\ (t \in DOMAIN f => a[t] = f[t])
      BY <2>2, <2>4, <3>1 DEF SaysLast
    <3> QED BY <2>5, <3>1, <3>2
  <2>8. ASSUME NEW t, NEW i, Latest(es, n, i, t)
        PROVE  IF es[i][2] = Never THEN t \notin DOMAIN b ELSE t \in DOMAIN b /\ b[t] = es[i][2]
    <3>1. CASE es[n][1] = t
      <4>1. i = n
        BY <1>4, <2>6, <2>8, <3>1 DEF Latest
      <4> QED BY <2>5, <3>1, <4>1
    <3>2. CASE es[n][1] # t
      <4>1. Latest(es, m, i, t)
        BY <2>6, <2>8, <3>2 DEF Latest
      <4>2. IF es[i][2] = Never THEN t \notin DOMAIN a ELSE t \in DOMAIN a /\ a[t] = es[i][2]
        BY <2>2, <2>4, <4>1 DEF SaysLast
      <4> QED BY <2>5, <3>2, <4>2
    <3> QED BY <3>1, <3>2
  <2>9. IsFiniteSet(DOMAIN f) => IsFiniteSet(DOMAIN b)
    BY <2>2, <2>4, <2>5 DEF SaysLast
  <2>10. SaysLast(es, n, f, b)
    BY <2>7, <2>8, <2>9 DEF SaysLast
  <2> QED BY <1>4, <2>4, <2>10
<1> QED BY <1>4, <1>5, <1>6

(* Word is what the last entry about a token says.                          *)
LEMMA WordIs ==
  ASSUME NEW u \in Updates, NEW t \in Names(u)
  PROVE  \E i : Latest(u.entries, Len(u.entries), i, t) /\ Word(u, t) = u.entries[i][2]
<1>1. PICK es, n : es = u.entries /\ n = Len(es)
  OBVIOUS
<1>2. n \in Nat /\ DOMAIN es = 1 .. n
  BY <1>1, AuthorizationAssumption
<1> DEFINE S == {n - i : i \in {j \in 1 .. n : es[j][1] = t}}
<1>3. PICK k \in 1 .. n : es[k][1] = t
  BY <1>1, <1>2 DEF Names
<1>4. S \subseteq Nat /\ S # {}
  BY <1>2, <1>3
<1>5. PICK d \in S : \A y \in S : d <= y
  BY <1>4, LeastOne
<1>6. PICK i \in {j \in 1 .. n : es[j][1] = t} : d = n - i
  OBVIOUS
<1>7. ASSUME NEW j \in 1 .. n, es[j][1] = t
      PROVE  j <= i
  <2>1. n - j \in S
    BY <1>7
  <2>2. n - i <= n - j
    BY <1>5, <1>6, <2>1
  <2> QED BY <1>2, <1>6, <2>2
<1>8. Latest(es, n, i, t)
  BY <1>6, <1>7 DEF Latest
<1> DEFINE Is(x) == es[x][1] = t /\ \A j \in DOMAIN es : es[j][1] = t => j <= x
<1>9. PICK c : c = CHOOSE x \in DOMAIN es : Is(x)
  OBVIOUS
<1>10. c \in DOMAIN es /\ Is(c)
  <2>1. i \in DOMAIN es /\ Is(i)
    BY <1>2, <1>6, <1>7
  <2> HIDE DEF Is
  <2> QED BY <1>9, <2>1
<1>11. Latest(es, n, c, t)
  BY <1>2, <1>10 DEF Latest
<1>12. Word(u, t) = es[c][2]
  BY <1>1, <1>9 DEF Word
<1> QED BY <1>1, <1>11, <1>12

LEMMA TokensOf ==
  ASSUME NEW es, NEW I, IsFiniteSet(I)
  PROVE  /\ IsFiniteSet({es[i][1] : i \in I}) /\ Cardinality({es[i][1] : i \in I}) <= Cardinality(I)
         /\ (\A i, j \in I : es[i][1] = es[j][1] => i = j) => Cardinality({es[i][1] : i \in I}) = Cardinality(I)
<1>1. PICK T : T = {es[i][1] : i \in I}
  OBVIOUS
<1>2. PICK m : m = [i \in I |-> es[i][1]]
  OBVIOUS
<1>3. m \in Surjection(I, T)
  BY <1>1, <1>2 DEF Surjection
<1>4. IsFiniteSet(T) /\ Cardinality(T) <= Cardinality(I) /\ (Cardinality(T) = Cardinality(I) <=> m \in Injection(I, T))
  BY <1>3, FS_Surjection
<1>5. (\A i, j \in I : es[i][1] = es[j][1] => i = j) => m \in Injection(I, T)
  BY <1>1, <1>2 DEF Injection, IsInjective
<1> QED BY <1>1, <1>4, <1>5

(* What update predicts is no less than the size it arrives at, although    *)
(* it counts entries and the list counts tokens.                            *)
LEMMA SizeForeseen ==
  ASSUME NEW u \in Updates, NamesOnce(u), IsFiniteSet(DOMAIN list),
         NEW f, f = IF u.type = "Full" THEN << >> ELSE list,
         NEW g, g = Patched(u.entries, f)
  PROVE  /\ IsFiniteSet(DOMAIN g) /\ projected(u) \in Int
         /\ Cardinality(DOMAIN g) <= projected(u)
<1>1. PICK es, n : es = u.entries /\ n = Len(es)
  OBVIOUS
<1>2. n \in Nat /\ DOMAIN es = 1 .. n /\ u.type \in {"Full", "Differential"}
  BY <1>1, AuthorizationAssumption
<1>3. SaysLast(es, n, f, g)
  BY <1>1, <1>2, PatchedSays
<1>4. \A i, j \in 1 .. n : es[i][1] = es[j][1] => i = j
  BY <1>1, <1>2 DEF NamesOnce
<1>5. \A i \in 1 .. n : IF es[i][2] = Never THEN es[i][1] \notin DOMAIN g ELSE es[i][1] \in DOMAIN g
  <2>1. \A i \in 1 .. n : Latest(es, n, i, es[i][1])
    BY <1>2, <1>4 DEF Latest
  <2> QED BY <1>3, <2>1 DEF SaysLast
<1>6. \A t : t \in DOMAIN g => t \in DOMAIN f \/ \E i \in 1 .. n : es[i][1] = t
  BY <1>3 DEF SaysLast
<1>7. IsFiniteSet(1 .. n) /\ IsFiniteSet(DOMAIN g)
  <2>1. IsFiniteSet(1 .. n)
    BY <1>2, FS_Interval
  <2>2. IsFiniteSet(DOMAIN f)
    <3>1. u.type = "Full" => DOMAIN f = {}
      OBVIOUS
    <3>2. u.type # "Full" => f = list
      OBVIOUS
    <3> QED BY <3>1, <3>2, FS_EmptySet
  <2> QED BY <1>3, <2>1, <2>2 DEF SaysLast
<1>8. PICK A : A = Adds(es)
  OBVIOUS
<1>9. A = {i \in 1 .. n : es[i][2] # Never} /\ IsFiniteSet(A)
  <2>1. A = {i \in 1 .. n : es[i][2] # Never}
    BY <1>2, <1>8 DEF Adds
  <2> QED BY <1>7, <2>1, FS_Subset
<1>10. CASE u.type = "Full"
  <2>1. DOMAIN f = {}
    BY <1>10
  <2>2. PICK T : T = {es[i][1] : i \in A}
    OBVIOUS
  <2>3. DOMAIN g \subseteq T
    BY <1>5, <1>6, <1>9, <2>1, <2>2
  <2>4. IsFiniteSet(T) /\ Cardinality(T) <= Cardinality(A)
    BY <1>9, <2>2, TokensOf
  <2>5. Cardinality(DOMAIN g) <= Cardinality(T)
    BY <2>3, <2>4, FS_Subset
  <2>6. projected(u) = Cardinality(A)
    BY <1>1, <1>8, <1>10 DEF projected
  <2>7. Cardinality(DOMAIN g) \in Nat /\ Cardinality(T) \in Nat /\ Cardinality(A) \in Nat
    BY <1>7, <1>9, <2>4, FS_CardinalityType
  <2> QED BY <1>7, <2>4, <2>5, <2>6, <2>7
<1>11. CASE u.type = "Differential"
  <2>1. f = list
    BY <1>11
  <2>2. PICK D, known : D = DOMAIN list /\ known = {i \in 1 .. n : es[i][1] \in D}
    OBVIOUS
  <2>3. PICK New, Gone : New = A \ known /\ Gone = known \ A
    OBVIOUS
  <2>4. /\ New \subseteq 1 .. n /\ Gone \subseteq 1 .. n
        /\ IsFiniteSet(New) /\ IsFiniteSet(Gone)
    <3>1. New \subseteq 1 .. n /\ Gone \subseteq 1 .. n
      BY <1>9, <2>2, <2>3
    <3> QED BY <1>7, <3>1, FS_Subset
  <2>5. PICK N, G : N = {es[i][1] : i \in New} /\ G = {es[i][1] : i \in Gone}
    OBVIOUS
  <2>6. IsFiniteSet(N) /\ Cardinality(N) <= Cardinality(New)
    BY <2>4, <2>5, TokensOf
  <2>7. IsFiniteSet(G) /\ Cardinality(G) = Cardinality(Gone)
    <3>1. \A i, j \in Gone : es[i][1] = es[j][1] => i = j
      BY <1>4, <2>4
    <3> QED BY <2>4, <2>5, <3>1, TokensOf
  <2>8. G \subseteq D /\ DOMAIN g \subseteq (D \ G) \cup N
    <3>1. G \subseteq D
      BY <2>2, <2>3, <2>5
    <3>2. ASSUME NEW t \in DOMAIN g PROVE t \in (D \ G) \cup N
      <4>1. CASE t \in D
        <5>1. \A i \in Gone : es[i][1] # t
          BY <1>5, <1>9, <2>2, <2>3
        <5> QED BY <2>5, <4>1, <5>1
      <4>2. CASE t \notin D
        <5>1. PICK i \in 1 .. n : es[i][1] = t
          BY <1>6, <2>1, <2>2, <4>2
        <5>2. i \in New
          BY <1>5, <1>9, <2>2, <2>3, <4>2, <5>1
        <5> QED BY <2>5, <5>1, <5>2
      <4> QED BY <4>1, <4>2
    <3> QED BY <3>1, <3>2
  <2>9. PICK H : H = D \ G
    OBVIOUS
  <2>10. IsFiniteSet(D) /\ IsFiniteSet(H) /\ Cardinality(H) = Cardinality(D) - Cardinality(G)
    <3>1. IsFiniteSet(D) /\ D \cap G = G
      BY <2>2, <2>8
    <3>2. IsFiniteSet(D \ G) /\ Cardinality(D \ G) = Cardinality(D) - Cardinality(D \cap G)
      BY <3>1, FS_Difference
    <3> QED BY <2>9, <3>1, <3>2
  <2>11. IsFiniteSet(H \cup N) /\ Cardinality(H \cup N) = Cardinality(H) + Cardinality(N) - Cardinality(H \cap N)
    BY <2>6, <2>10, FS_Union
  <2>12. Cardinality(DOMAIN g) <= Cardinality(H \cup N)
    BY <2>8, <2>9, <2>11, FS_Subset
  <2>13. projected(u) = Cardinality(D) + Cardinality(New) - Cardinality(Gone)
    <3>1. u.type # "Full" /\ A = Adds(u.entries)
      BY <1>1, <1>8, <1>11
    <3>2. known = {i \in DOMAIN u.entries : u.entries[i][1] \in DOMAIN list}
      BY <1>1, <1>2, <2>2
    <3> QED BY <2>2, <2>3, <3>1, <3>2 DEF projected
  <2>14. IsFiniteSet(H \cap N)
    BY <2>10, FS_Subset
  <2>15. /\ Cardinality(D) \in Nat /\ Cardinality(New) \in Nat /\ Cardinality(Gone) \in Nat
         /\ Cardinality(H) \in Nat /\ Cardinality(N) \in Nat /\ Cardinality(H \cap N) \in Nat
         /\ Cardinality(DOMAIN g) \in Nat /\ Cardinality(H \cup N) \in Nat
    BY <1>7, <2>4, <2>6, <2>10, <2>11, <2>14, FS_CardinalityType
  <2> QED BY <1>7, <2>6, <2>7, <2>10, <2>11, <2>12, <2>13, <2>15
<1> QED BY <1>2, <1>10, <1>11

-----------------------------------------------------------------------------

Newest(A, t) ==
  LET about == {u \in A : t \in Names(u)}
  IN CHOOSE u \in about : \A w \in about : w.version <= u.version

(* The list f says of the token t what the newest of the updates A says.    *)
SaysNewest(A, f, t) ==
  IF (\A u \in A : t \notin Names(u)) \/ Word(Newest(A, t), t) = Never THEN t \notin DOMAIN f
  ELSE t \in DOMAIN f /\ f[t] = Word(Newest(A, t), t)

(* The version of the list is that of the newest update it is made of.      *)
ListInv ==
  /\ applied \subseteq Updates /\ version \in Int
  /\ \A u \in applied : u.version <= version
  /\ IsFiniteSet(DOMAIN list)
  /\ \A t \in Tokens : SaysNewest(applied, list, t)

LEMMA SaysNewestIs ==
  NewestWins <=> \A t \in Tokens : SaysNewest(applied, list, t)
<1>1. \A t : {u \in applied : t \in Names(u)} = {} <=> \A u \in applied : t \notin Names(u)
  OBVIOUS
<1> QED BY <1>1, Zenon DEF NewestWins, SaysNewest, Newest

LEMMA UpdateSays ==
  ASSUME ListInv, NEW u \in Updates, update_list(u)
  PROVE  ListInv'
<1>1. PICK es, n : es = u.entries /\ n = Len(es)
  OBVIOUS
<1>2. n \in Nat /\ DOMAIN es = 1 .. n /\ u.type \in {"Full", "Differential"} /\ u.version \in Int
  BY <1>1, AuthorizationAssumption
<1>3. PICK f : f = IF u.type = "Full" THEN << >> ELSE list
  OBVIOUS
<1>4. PICK A : A = IF u.type = "Full" THEN {} ELSE applied
  OBVIOUS
<1>5. list' = Patched(es, f) /\ version' = u.version /\ applied' = A \cup {u}
  BY <1>1, <1>3, <1>4 DEF update_list
<1>6. SaysLast(es, n, f, list')
  BY <1>1, <1>2, <1>5, PatchedSays
<1>7. \A w \in A : w \in Updates /\ w.version \in Int /\ w.version < u.version
  <2>1. CASE u.type = "Full"
    BY <1>4, <2>1
  <2>2. CASE u.type = "Differential"
    <3>1. ~(u.version <= version) /\ A = applied
      BY <1>4, <2>2 DEF update_list, VersionMismatch
    <3>2. \A w \in A : w \in Updates /\ w.version <= version /\ version \in Int
      BY <3>1 DEF ListInv
    <3>3. \A w \in A : w.version \in Int
      BY <3>2, AuthorizationAssumption
    <3> QED BY <1>2, <3>1, <3>2, <3>3
  <2> QED BY <1>2, <2>1, <2>2
<1>8. \A t \in Tokens : SaysNewest(A, f, t)
  <2>1. CASE u.type = "Full"
    <3>1. A = {} /\ DOMAIN f = {}
      BY <1>3, <1>4, <2>1
    <3> QED BY <3>1 DEF SaysNewest
  <2>2. CASE u.type = "Differential"
    BY <1>3, <1>4, <2>2 DEF ListInv
  <2> QED BY <1>2, <2>1, <2>2
<1>9. IsFiniteSet(DOMAIN list')
  <2>1. u.type = "Full" => DOMAIN f = {}
    BY <1>3
  <2>2. u.type # "Full" => f = list
    BY <1>3
  <2>3. IsFiniteSet(DOMAIN f)
    BY <2>1, <2>2, FS_EmptySet DEF ListInv
  <2> QED BY <1>6, <2>3 DEF SaysLast
<1>10. ASSUME NEW t \in Tokens PROVE SaysNewest(A \cup {u}, list', t)
  <2>1. CASE t \in Names(u)
    <3>1. PICK i : Latest(es, n, i, t) /\ Word(u, t) = es[i][2]
      BY <1>1, <2>1, WordIs
    <3>2. IF Word(u, t) = Never THEN t \notin DOMAIN list' ELSE t \in DOMAIN list' /\ list'[t] = Word(u, t)
      BY <1>6, <3>1 DEF SaysLast
    <3>3. PICK about : about = {w \in A \cup {u} : t \in Names(w)}
      OBVIOUS
    <3>4. u \in about /\ \A w \in about : w.version <= u.version
      BY <1>2, <1>7, <2>1, <3>3
    <3>5. PICK c : c = CHOOSE w \in about : \A v \in about : v.version <= w.version
      OBVIOUS
    <3>6. c \in about /\ u.version <= c.version
      BY <3>4, <3>5
    <3>7. c = u
      <4>1. c \notin A
        BY <1>2, <1>7, <3>6
      <4> QED BY <3>3, <3>6, <4>1
    <3>8. Newest(A \cup {u}, t) = u
      BY <3>3, <3>5, <3>7 DEF Newest
    <3> QED BY <2>1, <3>2, <3>8 DEF SaysNewest
  <2>2. CASE t \notin Names(u)
    <3>1. \A i \in 1 .. n : es[i][1] # t
      BY <1>1, <1>2, <2>2 DEF Names
    <3>2. (t \in DOMAIN list' <=> t \in DOMAIN f) /\ (t \in DOMAIN f => list'[t] = f[t])
      BY <1>6, <3>1 DEF SaysLast
    <3>3. {w \in A \cup {u} : t \in Names(w)} = {w \in A : t \in Names(w)}
      BY <2>2
    <3>4. Newest(A \cup {u}, t) = Newest(A, t)
      BY <3>3 DEF Newest
    <3>5. SaysNewest(A, f, t)
      BY <1>8
    <3>6. (\A w \in A \cup {u} : t \notin Names(w)) <=> \A w \in A : t \notin Names(w)
      BY <2>2
    <3> QED BY <3>2, <3>4, <3>5, <3>6 DEF SaysNewest
  <2> QED BY <2>1, <2>2
<1>11. applied' \subseteq Updates /\ version' \in Int /\ \A w \in applied' : w.version <= version'
  BY <1>2, <1>5, <1>7
<1> QED BY <1>5, <1>9, <1>10, <1>11 DEF ListInv

LEMMA EmptySays ==
  ASSUME NEW f, DOMAIN f = {} PROVE \A t : SaysNewest({}, f, t)
BY DEF SaysNewest

(* Only update and clear touch the list.                                    *)
LEMMA ListSteps ==
  ASSUME [AuthNext]_authVars
  PROVE  \/ \E u \in Updates : update_list(u)
         \/ version' = 0 /\ DOMAIN list' = {} /\ applied' = {}
         \/ UNCHANGED <<version, list, applied>>
<1>1. ASSUME clear_list PROVE version' = 0 /\ DOMAIN list' = {} /\ applied' = {}
  BY <1>1 DEF clear_list
<1> QED BY <1>1, Zenon DEF AuthNext, authVars, remember, Present, Switch, clear_cache, Midnight

LEMMA ListStep ==
  ListInv /\ [AuthNext]_authVars => ListInv'
<1> SUFFICES ASSUME ListInv, [AuthNext]_authVars PROVE ListInv'
  OBVIOUS
<1>1. CASE \E u \in Updates : update_list(u)
  BY <1>1, UpdateSays
<1>2. CASE version' = 0 /\ DOMAIN list' = {} /\ applied' = {}
  BY <1>2, EmptySays, FS_EmptySet DEF ListInv
<1>3. CASE UNCHANGED <<version, list, applied>>
  BY <1>3 DEF ListInv
<1> QED BY <1>1, <1>2, <1>3, ListSteps

LEMMA LimitStep ==
  ListInv /\ OnlyRepeatsOverfill /\ [AuthNext]_authVars => OnlyRepeatsOverfill'
<1> SUFFICES ASSUME ListInv, OnlyRepeatsOverfill, [AuthNext]_authVars PROVE OnlyRepeatsOverfill'
  OBVIOUS
<1>1. ASSUME NEW u \in Updates, update_list(u) PROVE OnlyRepeatsOverfill'
  <2>1. PICK f : f = IF u.type = "Full" THEN << >> ELSE list
    OBVIOUS
  <2>2. list' = Patched(u.entries, f) /\ projected(u) <= Limit /\ u \in applied'
    BY <1>1, <2>1 DEF update_list
  <2> SUFFICES ASSUME NamesOnce(u) PROVE WithinLimit'
    BY <2>2 DEF OnlyRepeatsOverfill
  <2>3. /\ IsFiniteSet(DOMAIN list') /\ projected(u) \in Int
        /\ Cardinality(DOMAIN list') <= projected(u)
    BY <1>1, <2>1, <2>2, SizeForeseen DEF ListInv
  <2>4. Cardinality(DOMAIN list') \in Nat
    BY <2>3, FS_CardinalityType
  <2> QED BY <2>2, <2>3, <2>4, AuthorizationAssumption DEF WithinLimit
<1>2. ASSUME DOMAIN list' = {} PROVE OnlyRepeatsOverfill'
  BY <1>2, FS_EmptySet, AuthorizationAssumption DEF OnlyRepeatsOverfill, WithinLimit
<1>3. ASSUME UNCHANGED <<version, list, applied>> PROVE OnlyRepeatsOverfill'
  BY <1>3 DEF OnlyRepeatsOverfill, WithinLimit
<1> QED BY <1>1, <1>2, <1>3, ListSteps

LEMMA ListStarts ==
  AuthInit => ListInv /\ OnlyRepeatsOverfill
<1>1. AuthInit => version = 0 /\ DOMAIN list = {} /\ applied = {}
  BY DEF AuthInit
<1>2. AuthInit => IsFiniteSet(DOMAIN list) /\ Cardinality(DOMAIN list) <= Limit
  BY <1>1, FS_EmptySet, AuthorizationAssumption
<1>3. AuthInit => \A t \in Tokens : SaysNewest(applied, list, t)
  BY <1>1, EmptySays
<1> QED BY <1>1, <1>2, <1>3 DEF ListInv, OnlyRepeatsOverfill, WithinLimit

(* Whatever updates arrive late, repeated or out of order, and however      *)
(* often they name a token, each token's entry is what the newest update of *)
(* those that made the list says of it last (LocalAuthorizationList::update, *)
(* clear).                                                                  *)
THEOREM NewestAlwaysWins == AuthSpec => []NewestWins
<1>1. ListInv => NewestWins
  BY SaysNewestIs DEF ListInv
<1> QED BY <1>1, ListStarts, ListStep, PTL DEF AuthSpec

(* The size that update predicts keeps the list within its limit, unless    *)
(* one of the updates the list is made of names a token twice.              *)
THEOREM LimitHeldWithoutRepeats == AuthSpec => []OnlyRepeatsOverfill
BY ListStarts, ListStep, LimitStep, PTL DEF AuthSpec

-----------------------------------------------------------------------------
(* Signed frames.                                                          *)

(* A frame that can arrive, and the action it may answer.                  *)
FrameInv ==
  /\ incoming \in IncomingFrames
  /\ incoming.type \in {"Call", "Send"} => incoming.action \in [name : Actions, suffixes : 0 .. 1]
  /\ incoming.type \notin {"Call", "Send"} => incoming.action = NoAction

LEMMA ContentsAre ==
  ASSUME NEW c \in Contents
  PROVE  /\ c.jws \in BOOLEAN
         /\ ~c.jws => c = Unprotected(c.body)
         /\ c.jws => c.protected \in Headers
<1>1. CASE \E p \in Payloads : c = Unprotected(p)
  BY <1>1 DEF Unprotected
<1>2. CASE \E h \in Headers, p \in Payloads, q \in Payloads, s \in {"trusted", "other"} :
             c = Jws(h, p, Signature(s, h, q))
  BY <1>2 DEF Jws
<1> QED BY <1>1, <1>2 DEF Contents

LEMMA FrameStarts ==
  signedInit => FrameInv
<1> SUFFICES ASSUME signedInit PROVE FrameInv
  OBVIOUS
<1>1. PICK p \in Payloads :
        incoming \in {Message(type, Action(a, n), Unprotected(p)) : type \in {"Call", "Send"}, a \in Actions, n \in 0 .. 1}
                     \union {Message(type, NoAction, Unprotected(p)) : type \in {"CallResult", "CallError"}}
  BY DEF signedInit
<1>2. PICK c \in Contents : c = Unprotected(p)
  BY DEF Contents
<1>3. CASE \E type \in {"Call", "Send"}, a \in Actions, n \in 0 .. 1 : incoming = Message(type, Action(a, n), Unprotected(p))
  <2>1. PICK type \in {"Call", "Send"}, a \in Actions, n \in 0 .. 1 : incoming = Message(type, Action(a, n), c)
    BY <1>2, <1>3
  <2>2. Action(a, n) \in [name : Actions, suffixes : 0 .. 1]
    BY DEF Action
  <2> QED BY <2>1, <2>2 DEF Message, FrameInv, IncomingFrames, MessageTypes
<1>4. CASE \E type \in {"CallResult", "CallError"} : incoming = Message(type, NoAction, Unprotected(p))
  <2>1. PICK type \in {"CallResult", "CallError"} : incoming = Message(type, NoAction, c)
    BY <1>2, <1>4
  <2> QED BY <2>1 DEF Message, FrameInv, IncomingFrames, MessageTypes
<1> QED BY <1>1, <1>3, <1>4

LEMMA FrameStep ==
  FrameInv /\ [signedNext]_signedVars => FrameInv'
<1> SUFFICES ASSUME FrameInv, [signedNext]_signedVars PROVE FrameInv'
  OBVIOUS
<1>1. CASE signedNext
  <2>1. PICK c \in Contents : incoming' = [incoming EXCEPT !.payload = c]
    BY <1>1 DEF signedNext
  <2>2. incoming' \in IncomingFrames /\ incoming'.type = incoming.type /\ incoming'.action = incoming.action
    BY <2>1 DEF FrameInv, IncomingFrames
  <2> QED BY <2>2 DEF FrameInv
<1>2. CASE UNCHANGED signedVars
  BY <1>2 DEF signedVars, FrameInv
<1> QED BY <1>1, <1>2

(* A payload that is signed for an action and a type of message verifies    *)
(* for them, and the payload it is unwrapped to is the one that was signed.  *)
LEMMA SignedVerifies ==
  ASSUME NEW payload, NEW action, NEW type
  PROVE  LET jws == sign_payload(payload, action, type)
         IN jws.jws /\ jws.body = payload.body /\ verify_payload(jws, action, type)
BY DEF sign_payload, verify_payload, verifies, Jws, Signature

LEMMA ReadsBack ==
  ASSUME FrameInv, NEW policy \in Policies, NEW sent_frame, sent_frame = sign_frame(incoming, request_action),
         ~incoming.payload.jws, sent_frame # Failure
  PROVE  verify_frame(sent_frame, request_action, policy) = incoming
<1>1. /\ incoming.type \in MessageTypes /\ incoming.payload = Unprotected(incoming.payload.body)
      /\ incoming = Message(incoming.type, incoming.action, incoming.payload)
  BY ContentsAre DEF FrameInv, IncomingFrames, Message
<1>2. CASE incoming.type \in {"Call", "Send"}
  <2>1. PICK a, n, type, jws : /\ type = incoming.type /\ n = incoming.action.suffixes + 1
                               /\ a = [incoming.action EXCEPT !.suffixes = n]
                               /\ jws = sign_payload(incoming.payload, incoming.action, type)
    OBVIOUS
  <2>2. sent_frame = Message(type, a, jws)
    BY <1>2, <2>1 DEF sign_frame
  <2>3. sent_frame.type = type /\ sent_frame.action = a /\ sent_frame.payload = jws
    BY <2>2 DEF Message
  <2>4. incoming.action \in [name : Actions, suffixes : 0 .. 1]
    BY <1>2 DEF FrameInv
  <2>5. a.suffixes # 0 /\ [a EXCEPT !.suffixes = a.suffixes - 1] = incoming.action
    <3>1. n \in Nat /\ n # 0 /\ n - 1 = incoming.action.suffixes
      BY <2>1, <2>4
    <3>2. a = [name |-> incoming.action.name, suffixes |-> n]
      BY <2>1, <2>4
    <3>3. [a EXCEPT !.suffixes = n - 1] = [name |-> incoming.action.name, suffixes |-> n - 1]
      BY <3>2
    <3> QED BY <2>4, <3>1, <3>2, <3>3
  <2>6. jws.jws /\ jws.body = incoming.payload.body /\ verify_payload(jws, incoming.action, type)
    BY <2>1, SignedVerifies
  <2>7. verify_frame(sent_frame, request_action, policy) = Unwrapped(sent_frame, incoming.action, policy)
    BY <1>2, <2>1, <2>3, <2>5, <2>6 DEF verify_frame
  <2>8. Unwrapped(sent_frame, incoming.action, policy) = Message(type, incoming.action, Unprotected(jws.body))
    BY <1>2, <2>1, <2>3, <2>6 DEF Unwrapped
  <2> QED BY <1>1, <2>1, <2>6, <2>7, <2>8
<1>3. CASE incoming.type = "CallResult"
  <2>1. PICK jws : jws = sign_payload(incoming.payload, request_action, "CallResult")
    OBVIOUS
  <2>2. request_action # NoAction /\ sent_frame = Message("CallResult", NoAction, jws)
    BY <1>3, <2>1 DEF sign_frame
  <2>3. sent_frame.type = "CallResult" /\ sent_frame.payload = jws
    BY <2>2 DEF Message
  <2>4. jws.jws /\ jws.body = incoming.payload.body /\ verify_payload(jws, request_action, "CallResult")
    BY <2>1, SignedVerifies
  <2>5. verify_frame(sent_frame, request_action, policy) = Unwrapped(sent_frame, request_action, policy)
    BY <2>2, <2>3, <2>4 DEF verify_frame
  <2>6. Unwrapped(sent_frame, request_action, policy) = Message("CallResult", NoAction, Unprotected(jws.body))
    BY <2>3, <2>4 DEF Unwrapped
  <2>7. incoming.action = NoAction
    BY <1>3 DEF FrameInv
  <2> QED BY <1>1, <1>3, <2>4, <2>5, <2>6, <2>7
<1>4. CASE incoming.type = "CallError"
  BY <1>4 DEF sign_frame
<1> QED BY <1>1, <1>2, <1>3, <1>4 DEF MessageTypes

LEMMA UnsignedIsOptional ==
  ASSUME FrameInv, NEW policy \in Policies, ~incoming.payload.jws, ~IsSigned(incoming),
         sign_frame(incoming, request_action) # Failure
  PROVE  (verify_frame(incoming, request_action, policy) # Failure) = (policy = "Optional")
<1>1. incoming.type \in {"Call", "Send", "CallResult"}
  BY DEF sign_frame
<1>2. incoming # Failure
  BY SignedFramesAssumption DEF FrameInv
<1>3. verify_frame(incoming, request_action, policy) = unsigned(incoming, policy)
  <2>1. CASE incoming.type \in {"Call", "Send"}
    <3>1. incoming.action.suffixes = 0
      BY <2>1 DEF IsSigned, Errors, FrameInv
    <3> QED BY <2>1, <3>1 DEF verify_frame
  <2>2. CASE incoming.type = "CallResult"
    BY <2>2 DEF verify_frame
  <2> QED BY <1>1, <2>1, <2>2
<1>4. CASE policy = "Required"
  BY <1>3, <1>4 DEF unsigned
<1>5. CASE policy = "Optional"
  BY <1>2, <1>3, <1>5 DEF unsigned
<1> QED BY <1>4, <1>5 DEF Policies

LEMMA HeaderIs ==
  ASSUME NEW c \in Contents, c.jws, NEW action, NEW type, verify_payload(c, action, type)
  PROVE  c.signature = Signature("trusted", [alg |-> "ES256", action |-> action, type |-> type, crit |-> FALSE], c.body)
<1>1. c.protected \in Headers
  BY ContentsAre
<1>2. /\ c.protected.alg # "none" /\ ~c.protected.crit /\ c.protected.action = action
      /\ c.protected.type = type /\ c.signature = Signature("trusted", c.protected, c.body)
  BY DEF verify_payload, verifies
<1>3. c.protected = [alg |-> "ES256", action |-> action, type |-> type, crit |-> FALSE]
  BY <1>1, <1>2 DEF Headers
<1> QED BY <1>2, <1>3

LEMMA Fits ==
  FrameInv => SignatureFits
<1> SUFFICES ASSUME FrameInv PROVE SignatureFits
  OBVIOUS
<1>1. PICK accepted : accepted = verify_frame(incoming, request_action, "Required")
  OBVIOUS
<1> SUFFICES ASSUME accepted # Failure, incoming.type \notin Errors
             PROVE  incoming.payload.signature =
                      Signature("trusted",
                                [alg |-> "ES256",
                                 action |-> IF incoming.type = "CallResult" THEN request_action ELSE accepted.action,
                                 type |-> incoming.type, crit |-> FALSE],
                                accepted.payload.body)
  BY <1>1 DEF SignatureFits
<1>2. incoming.payload \in Contents /\ incoming.type \in {"Call", "Send", "CallResult"}
  BY DEF FrameInv, IncomingFrames, MessageTypes, Errors
<1>3. PICK action : action = IF incoming.type = "CallResult" THEN request_action
                             ELSE [incoming.action EXCEPT !.suffixes = incoming.action.suffixes - 1]
  OBVIOUS
<1>4. incoming.payload.jws /\ accepted = Unwrapped(incoming, action, "Required")
  BY <1>1, <1>2, <1>3 DEF verify_frame, unsigned
<1>5. /\ verify_payload(incoming.payload, action, incoming.type)
      /\ accepted = Message(incoming.type, IF incoming.type = "CallResult" THEN NoAction ELSE action,
                            Unprotected(incoming.payload.body))
  BY <1>4 DEF Unwrapped
<1>6. accepted.payload.body = incoming.payload.body
  BY <1>5 DEF Message, Unprotected
<1>7. action = IF incoming.type = "CallResult" THEN request_action ELSE accepted.action
  BY <1>3, <1>5 DEF Message
<1>8. incoming.payload.signature =
        Signature("trusted", [alg |-> "ES256", action |-> action, type |-> incoming.type, crit |-> FALSE],
                  incoming.payload.body)
  BY <1>2, <1>4, <1>5, HeaderIs
<1> QED BY <1>6, <1>7, <1>8

LEMMA Counts ==
  FrameInv => SignatureCounts
<1> SUFFICES ASSUME FrameInv, IsSigned(incoming), incoming.type = "CallResult" => request_action # NoAction
             PROVE  verify_frame(incoming, request_action, "Optional") = verify_frame(incoming, request_action, "Required")
  BY DEF SignatureCounts
<1>1. incoming.type \in {"Call", "Send", "CallResult"}
  BY DEF FrameInv, IncomingFrames, MessageTypes, IsSigned, Errors
<1>2. CASE incoming.type \in {"Call", "Send"}
  <2>1. incoming.action.suffixes # 0
    BY <1>2 DEF IsSigned, FrameInv
  <2> QED BY <1>2, <2>1 DEF verify_frame, Unwrapped
<1>3. CASE incoming.type = "CallResult"
  BY <1>3 DEF IsSigned, verify_frame, Unwrapped
<1> QED BY <1>1, <1>2, <1>3

(* A signature stands for the one frame it was made for: sign_frame's       *)
(* result is read back by verify_frame, a JWS made for another action or    *)
(* kind of message is refused, and one that is there is never ignored.      *)
THEOREM SignaturesAreBound ==
  signedSpec => []SignaturesBind
<1>1. FrameInv => SignaturesBind
  <2> SUFFICES ASSUME FrameInv PROVE SignaturesBind
    OBVIOUS
  <2>1. SignedReadsBack
    BY ReadsBack, UnsignedIsOptional DEF SignedReadsBack
  <2> QED BY <2>1, Fits, Counts DEF SignaturesBind
<1> QED BY <1>1, FrameStarts, FrameStep, PTL DEF signedSpec

---------------------------------------------------------------------------
(* The Local Controller: the keepalive of its two legs.                    *)

(* What a leg's two clocks and the ping timer are to each other: a leg that   *)
(* owes no pong will be asked for one within the interval of its last one, and *)
(* one that owes a pong was asked within it.                                   *)
Clocks ==
  /\ next_ping \in 0 .. Interval
  /\ due \in [Legs -> 0 .. Timeout \cup {Nothing}] /\ quiet \in [Legs -> Nat]
  /\ \A leg \in Legs :
       IF due[leg] = Nothing THEN quiet[leg] + next_ping <= Interval
       ELSE quiet[leg] + due[leg] \in Timeout .. (Interval + Timeout)

LEMMA InitClocks == lcInit => Clocks
BY LocalControllerAssumption DEF lcInit, Clocks

LEMMA ClocksStep == Clocks /\ [lcNext]_lcVars => Clocks'
<1> SUFFICES ASSUME Clocks, [lcNext]_lcVars PROVE Clocks'
  OBVIOUS
<1>1. CASE UNCHANGED <<next_ping, due, quiet>>
  BY <1>1 DEF Clocks
<1>2. CASE ping_both
  BY <1>2, LocalControllerAssumption DEF Clocks, ping_both
<1>3. CASE pass
  BY <1>3, LocalControllerAssumption DEF Clocks, pass
<1>4. ASSUME NEW leg \in Legs, relay_pong(leg) PROVE Clocks'
  BY <1>4, LocalControllerAssumption DEF Clocks, relay_pong
<1> QED BY <1>1, <1>2, <1>3, <1>4 DEF lcNext, lcVars, attach, relay_message, relay_end, no_pong,
             peer_sends, peer_answers, peer_pongs, peer_goes

(* Neither leg can be silent for longer than the interval and the timeout,    *)
(* and neither is given up sooner than the timeout, however the two legs'      *)
(* pings and pongs interleave.                                                 *)
THEOREM LegsAreWatched == lcSpec => []LegsWatched
<1>1. Clocks => LegsWatched
  BY LocalControllerAssumption DEF Clocks, LegsWatched, SilenceBounded, LiveLegKept
<1> QED BY InitClocks, ClocksStep, <1>1, PTL DEF lcSpec

---------------------------------------------------------------------------
(* The relay. *)

Texts == [from : Legs, n : Nat, re : Nat \cup {Nothing}, kind : {"Call", "Send", "Result", "Ping", "Binary"},
          verdict : {"Forward", "Reject", "Drop"}]
Inbound == Texts \cup {[kind |-> "Pong"]}
Carried == [type : {"Frame", "Answer"}, frame : Texts]
Control == [type : {"Close", "Pong", "BadGateway"}]
Outbound == Carried \cup Control

IsText(x) == x.kind # "Pong"
Carries(w) == w.type \in {"Frame", "Answer"}

RelayTypes ==
  /\ inbox \in [Legs -> Seq(Inbound)] /\ wire \in [Legs -> Seq(Outbound)] /\ count \in [Legs -> Nat]
  /\ DOMAIN replied = Legs

(* The texts of a leg are numbered as its peer sent them, and what has been    *)
(* read of them comes before what has not.                                     *)
TextsNumbered ==
  \A leg \in Legs : \A i \in DOMAIN inbox[leg] : IsText(inbox[leg][i]) =>
    /\ inbox[leg][i].from = leg /\ inbox[leg][i].n < count[leg]
    /\ \A j \in DOMAIN inbox[leg] : i < j /\ IsText(inbox[leg][j]) => inbox[leg][i].n < inbox[leg][j].n
    /\ \A l \in Legs : \A k \in DOMAIN wire[l] :
         Carries(wire[l][k]) /\ wire[l][k].frame.from = leg => wire[l][k].frame.n < inbox[leg][i].n

(* What the relay writes about a text goes to one of the two legs, once.       *)
OnceOnly ==
  \A l \in Legs : \A i \in DOMAIN wire[l] : Carries(wire[l][i]) =>
    /\ wire[l][i].frame.n < count[wire[l][i].frame.from]
    /\ wire[l][i].type = "Answer" => wire[l][i].frame.kind = "Call" /\ wire[l][i].frame.from = l
    /\ \A m \in Legs : \A j \in DOMAIN wire[m] :
         /\ Carries(wire[m][j]) /\ wire[m][j].frame.from = wire[l][i].frame.from
         /\ wire[m][j].frame.n = wire[l][i].frame.n
         => m = l /\ j = i

(* What goes on to a leg came from the other one.                              *)
GoesOn == \A l \in Legs : \A i \in DOMAIN wire[l] :
            wire[l][i].type = "Frame" => wire[l][i].frame.from = other(l)

(* A peer answers what reached it, and its answers are told apart by the CALLs  *)
(* they answer, on the way to the relay and beyond it.                          *)
Answering(x) == x.kind = "Result" =>
                  x.re \in DOMAIN replied[x.from] /\ replied[x.from][x.re] = x.n
AnswersTold ==
  /\ \A leg \in Legs : \A i \in DOMAIN inbox[leg] : IsText(inbox[leg][i]) => Answering(inbox[leg][i])
  /\ \A leg \in Legs : \A i \in DOMAIN wire[leg] : Carries(wire[leg][i]) => Answering(wire[leg][i].frame)
AskedFirst == \A leg \in Legs : DOMAIN replied[leg] \subseteq Reached(leg)

RelayInv == RelayTypes /\ TextsNumbered /\ OnceOnly
RelayedInv == RelayInv /\ GoesOn /\ AnswersTold /\ AskedFirst

LEMMA InitRelay == lcInit => RelayInv
BY DEF lcInit, RelayInv, RelayTypes, TextsNumbered, OnceOnly

(* Writing what is not a text, and dropping what was read, changes nothing.    *)
LEMMA ControlStep ==
  ASSUME RelayInv, RelayTypes', count' = count,
         \A leg \in Legs : inbox'[leg] = inbox[leg] \/ (inbox[leg] # << >> /\ inbox'[leg] = Tail(inbox[leg])),
         \A l \in Legs : \A i \in DOMAIN wire'[l] :
           Carries(wire'[l][i]) => i \in DOMAIN wire[l] /\ wire[l][i] = wire'[l][i]
  PROVE  RelayInv'
<1> USE DEF RelayInv
<1>1. ASSUME NEW leg \in Legs
      PROVE  \E d \in {0, 1} : \A i \in DOMAIN inbox'[leg] :
               i \in Int /\ i + d \in DOMAIN inbox[leg] /\ inbox'[leg][i] = inbox[leg][i + d]
  <2>1. inbox[leg] \in Seq(Inbound)
    BY DEF RelayTypes
  <2>2. CASE inbox'[leg] = inbox[leg]
    BY <2>1, <2>2
  <2>3. CASE inbox[leg] # << >> /\ inbox'[leg] = Tail(inbox[leg])
    BY <2>1, <2>3
  <2> QED BY <2>2, <2>3
<1>2. TextsNumbered'
  <2> SUFFICES ASSUME NEW leg \in Legs, NEW i \in DOMAIN inbox'[leg], IsText(inbox'[leg][i])
               PROVE  /\ inbox'[leg][i].from = leg /\ inbox'[leg][i].n < count[leg]
                      /\ \A j \in DOMAIN inbox'[leg] :
                           i < j /\ IsText(inbox'[leg][j]) => inbox'[leg][i].n < inbox'[leg][j].n
                      /\ \A l \in Legs : \A k \in DOMAIN wire'[l] :
                           Carries(wire'[l][k]) /\ wire'[l][k].frame.from = leg
                             => wire'[l][k].frame.n < inbox'[leg][i].n
    BY DEF TextsNumbered, IsText, Carries
  <2>1. PICK d \in {0, 1} : \A j \in DOMAIN inbox'[leg] :
               j \in Int /\ j + d \in DOMAIN inbox[leg] /\ inbox'[leg][j] = inbox[leg][j + d]
    BY <1>1
  <2>2. /\ i \in Int /\ i + d \in DOMAIN inbox[leg] /\ inbox'[leg][i] = inbox[leg][i + d]
        /\ IsText(inbox[leg][i + d])
    BY <2>1
  <2>3. inbox'[leg][i].from = leg /\ inbox'[leg][i].n < count[leg]
    BY <2>2 DEF TextsNumbered
  <2>4. ASSUME NEW j \in DOMAIN inbox'[leg], i < j, IsText(inbox'[leg][j])
        PROVE  inbox'[leg][i].n < inbox'[leg][j].n
    <3>1. /\ j \in Int /\ j + d \in DOMAIN inbox[leg] /\ inbox'[leg][j] = inbox[leg][j + d]
          /\ IsText(inbox[leg][j + d]) /\ i + d < j + d
      BY <2>1, <2>2, <2>4
    <3> QED BY <2>2, <3>1 DEF TextsNumbered
  <2>5. ASSUME NEW l \in Legs, NEW k \in DOMAIN wire'[l], Carries(wire'[l][k]), wire'[l][k].frame.from = leg
        PROVE  wire'[l][k].frame.n < inbox'[leg][i].n
    <3>1. k \in DOMAIN wire[l] /\ wire[l][k] = wire'[l][k]
      BY <2>5
    <3> QED BY <2>2, <2>5, <3>1 DEF TextsNumbered
  <2> QED BY <2>3, <2>4, <2>5
<1>3. OnceOnly'
  BY DEF OnceOnly, Carries
<1> QED BY <1>2, <1>3

LEMMA OtherLeg == \A leg \in Legs : other(leg) \in Legs /\ other(leg) # leg /\ other(other(leg)) = leg
BY DEF Legs, other

(* One entry more on one leg.                                                  *)
LEMMA WriteShape ==
  ASSUME RelayTypes, NEW l \in Legs, NEW w \in Outbound
  PROVE  /\ Write(l, w) \in [Legs -> Seq(Outbound)]
         /\ \A m \in Legs \ {l} : Write(l, w)[m] = wire[m]
         /\ DOMAIN Write(l, w)[l] = DOMAIN wire[l] \cup {Len(wire[l]) + 1}
         /\ Len(wire[l]) + 1 \notin DOMAIN wire[l]
         /\ \A i \in DOMAIN wire[l] : Write(l, w)[l][i] = wire[l][i]
         /\ Write(l, w)[l][Len(wire[l]) + 1] = w
<1>1. wire[l] \in Seq(Outbound)
  BY DEF RelayTypes
<1>2. /\ Write(l, w)[l] = Append(wire[l], w)
      /\ \A m \in Legs \ {l} : Write(l, w)[m] = wire[m]
      /\ DOMAIN Write(l, w) = Legs
  BY DEF RelayTypes, Write
<1>3. Append(wire[l], w) \in Seq(Outbound)
  BY <1>1
<1>4. Write(l, w) \in [Legs -> Seq(Outbound)]
  BY <1>3 DEF RelayTypes, Write
<1> QED BY <1>1, <1>2, <1>4

(* The entries of both legs after a close.                                     *)
LEMMA DetachShape ==
  ASSUME RelayTypes, NEW leg \in Legs, NEW passed_on \in {<< >>, <<Closing>>}, Detach(leg, passed_on)
  PROVE  /\ wire' \in [Legs -> Seq(Outbound)]
         /\ \A l \in Legs : \A i \in DOMAIN wire'[l] :
              Carries(wire'[l][i]) => i \in DOMAIN wire[l] /\ wire[l][i] = wire'[l][i]
<1>1. Closing \in Outbound /\ ~Carries(Closing)
  BY DEF Closing, Outbound, Control, Carries
<1>2. wire[leg] \in Seq(Outbound) /\ wire[other(leg)] \in Seq(Outbound) /\ other(leg) \in Legs \ {leg}
  BY OtherLeg DEF RelayTypes
<1>3. /\ wire'[leg] = Append(wire[leg], Closing)
      /\ wire'[other(leg)] = wire[other(leg)] \o passed_on \o <<Closing>>
      /\ \A l \in Legs : l = leg \/ l = other(leg)
      /\ wire' = [wire EXCEPT ![leg] = wire'[leg], ![other(leg)] = wire'[other(leg)]]
  BY <1>2 DEF Detach, RelayTypes, Legs, other
<1> HIDE DEF Closing
<1>4. /\ wire'[leg] \in Seq(Outbound)
      /\ \A i \in DOMAIN wire'[leg] : (i \in DOMAIN wire[leg] /\ wire'[leg][i] = wire[leg][i]) \/ wire'[leg][i] = Closing
  BY <1>1, <1>2, <1>3
<1>5. /\ wire'[other(leg)] \in Seq(Outbound)
      /\ \A i \in DOMAIN wire'[other(leg)] :
           \/ i \in DOMAIN wire[other(leg)] /\ wire'[other(leg)][i] = wire[other(leg)][i]
           \/ wire'[other(leg)][i] = Closing
  <2> DEFINE s == wire[other(leg)]
  <2>1. s \in Seq(Outbound) /\ s \o << >> = s
    BY <1>2
  <2> HIDE DEF s
  <2>2. CASE passed_on = << >>
    <3>1. wire'[other(leg)] = s \o <<Closing>>
      BY <1>3, <2>1, <2>2 DEF s
    <3> QED BY <1>1, <2>1, <3>1 DEF s
  <2>3. CASE passed_on = <<Closing>>
    <3>1. wire'[other(leg)] = (s \o <<Closing>>) \o <<Closing>>
      BY <1>3, <2>3 DEF s
    <3>2. /\ s \o <<Closing>> \in Seq(Outbound)
          /\ \A i \in DOMAIN (s \o <<Closing>>) :
               (i \in DOMAIN s /\ (s \o <<Closing>>)[i] = s[i]) \/ (s \o <<Closing>>)[i] = Closing
      BY <1>1, <2>1
    <3>3. ASSUME NEW t \in Seq(Outbound)
          PROVE  /\ t \o <<Closing>> \in Seq(Outbound)
                 /\ \A i \in DOMAIN (t \o <<Closing>>) :
                      (i \in DOMAIN t /\ (t \o <<Closing>>)[i] = t[i]) \/ (t \o <<Closing>>)[i] = Closing
      BY <1>1
    <3> QED BY <3>1, <3>2, <3>3 DEF s
  <2> QED BY <2>2, <2>3
<1>6. wire' \in [Legs -> Seq(Outbound)]
  BY <1>2, <1>3, <1>4, <1>5 DEF RelayTypes
<1> QED BY <1>1, <1>3, <1>4, <1>5, <1>6

LEMMA CarriedTexts ==
  ASSUME RelayTypes, NEW l \in Legs, NEW k \in DOMAIN wire[l], Carries(wire[l][k])
  PROVE  wire[l][k].frame \in Texts /\ wire[l][k] = [type |-> wire[l][k].type, frame |-> wire[l][k].frame]
<1>1. wire[l] \in Seq(Outbound)
  BY DEF RelayTypes
<1>2. wire[l][k] \in Outbound
  BY <1>1
<1>3. wire[l][k] \in Carried
  BY <1>2 DEF Outbound, Control, Carries
<1> QED BY <1>3 DEF Carried

(* A peer's text, or its pong, at the end of the inbox.                        *)
LEMMA ArrivalStep ==
  ASSUME RelayInv, NEW leg \in Legs, NEW x \in Inbound,
         inbox' = [inbox EXCEPT ![leg] = Append(@, x)], wire' = wire, DOMAIN replied' = Legs,
         \/ ~IsText(x) /\ count' = count
         \/ x \in Texts /\ x.from = leg /\ x.n = count[leg] /\ count' = [count EXCEPT ![leg] = @ + 1]
  PROVE  RelayInv'
<1> USE DEF RelayInv
<1>1. inbox[leg] \in Seq(Inbound) /\ count[leg] \in Nat
  BY DEF RelayTypes
<1>2. /\ inbox'[leg] = Append(inbox[leg], x) /\ \A m \in Legs \ {leg} : inbox'[m] = inbox[m]
      /\ inbox'[leg] \in Seq(Inbound)
      /\ DOMAIN inbox'[leg] = DOMAIN inbox[leg] \cup {Len(inbox[leg]) + 1}
      /\ inbox'[leg][Len(inbox[leg]) + 1] = x
      /\ \A i \in DOMAIN inbox[leg] : inbox'[leg][i] = inbox[leg][i] /\ i < Len(inbox[leg]) + 1
  BY <1>1 DEF RelayTypes
<1>3. RelayTypes'
  <2>1. inbox' \in [Legs -> Seq(Inbound)]
    <3>1. inbox' = [inbox EXCEPT ![leg] = inbox'[leg]] /\ inbox \in [Legs -> Seq(Inbound)]
      BY <1>2 DEF RelayTypes
    <3> QED BY <1>2, <3>1
  <2>2. count \in [Legs -> Nat] /\ count[leg] + 1 \in Nat
    BY <1>1 DEF RelayTypes
  <2>3. count' \in [Legs -> Nat]
    BY <2>2
  <2> QED BY <2>1, <2>3 DEF RelayTypes
<1>4. \A m \in Legs : count[m] \in Nat /\ count'[m] \in Nat /\ count[m] <= count'[m]
  BY DEF RelayTypes
<1>5. IsText(x) => x.from = leg /\ x.n = count[leg] /\ x.n < count'[leg]
  BY <1>1 DEF RelayTypes
<1>6. \A l \in Legs : \A k \in DOMAIN wire[l] : Carries(wire[l][k]) =>
         wire[l][k].frame \in Texts /\ wire[l][k].frame.n < count[wire[l][k].frame.from]
  BY CarriedTexts DEF OnceOnly
<1>7. \A m \in Legs : \A i \in DOMAIN inbox[m] : IsText(inbox[m][i]) => inbox[m][i].n \in Nat /\ inbox[m][i].n < count[m]
  BY DEF TextsNumbered, RelayTypes, Inbound, Texts, IsText
<1>8. TextsNumbered'
  <2> SUFFICES ASSUME NEW m \in Legs, NEW i \in DOMAIN inbox'[m], IsText(inbox'[m][i])
               PROVE  /\ inbox'[m][i].from = m /\ inbox'[m][i].n < count'[m]
                      /\ \A j \in DOMAIN inbox'[m] : i < j /\ IsText(inbox'[m][j]) => inbox'[m][i].n < inbox'[m][j].n
                      /\ \A l \in Legs : \A k \in DOMAIN wire[l] :
                           Carries(wire[l][k]) /\ wire[l][k].frame.from = m => wire[l][k].frame.n < inbox'[m][i].n
    BY DEF TextsNumbered, IsText, Carries
  <2>1. CASE m # leg
    BY <1>2, <1>4, <1>7, <2>1 DEF TextsNumbered
  <2>2. CASE m = leg /\ i \in DOMAIN inbox[leg]
    <3>1. inbox'[m][i] = inbox[m][i] /\ inbox[m][i].n \in Nat /\ inbox[m][i].n < count[m]
      BY <1>2, <1>7, <2>2
    <3>2. inbox'[m][i].from = m /\ inbox'[m][i].n < count'[m]
      BY <1>4, <2>2, <3>1 DEF TextsNumbered
    <3> QED BY <1>2, <1>5, <2>2, <3>1, <3>2 DEF TextsNumbered
  <2>3. CASE m = leg /\ i = Len(inbox[leg]) + 1
    <3>1. \A j \in DOMAIN inbox'[m] : ~(i < j)
      BY <1>1, <1>2, <2>3
    <3> QED BY <1>2, <1>5, <1>6, <2>3, <3>1
  <2> QED BY <1>2, <2>1, <2>2, <2>3
<1>9. OnceOnly'
  <2>1. \A l \in Legs : \A k \in DOMAIN wire[l] : Carries(wire[l][k]) =>
         wire[l][k].frame.n \in Nat /\ wire[l][k].frame.from \in Legs
    BY <1>6 DEF Texts
  <2>2. \A l \in Legs : \A k \in DOMAIN wire[l] : Carries(wire[l][k]) =>
         wire[l][k].frame.n < count'[wire[l][k].frame.from]
    BY <1>4, <1>6, <2>1
  <2> QED BY <2>2 DEF OnceOnly, Carries
<1> QED BY <1>3, <1>8, <1>9

(* relay_one: the text at the head of the inbox is the oldest that was not     *)
(* read, so nothing on either leg is about it yet.                             *)
LEMMA RelayStep ==
  ASSUME RelayInv, NEW leg \in Legs, relay_message(leg)
  PROVE  RelayInv'
<1> USE DEF RelayInv
<1> DEFINE f == Head(inbox[leg])
<1>1. /\ inbox[leg] \in Seq(Inbound) /\ inbox[leg] # << >> /\ f.kind # "Pong"
      /\ inbox' = [inbox EXCEPT ![leg] = Tail(@)] /\ count' = count /\ replied' = replied
  BY DEF relay_message, RelayTypes
<1>2. /\ 1 \in DOMAIN inbox[leg] /\ f = inbox[leg][1] /\ f \in Inbound
      /\ Tail(inbox[leg]) \in Seq(Inbound) /\ Len(Tail(inbox[leg])) = Len(inbox[leg]) - 1
      /\ \A i \in 1 .. Len(inbox[leg]) - 1 : Tail(inbox[leg])[i] = inbox[leg][i + 1]
  BY <1>1
<1>3. f \in Texts /\ f.from = leg /\ f.n \in Nat /\ f.n < count[leg]
  BY <1>1, <1>2 DEF Inbound, Texts, TextsNumbered, IsText
<1>4. inbox' \in [Legs -> Seq(Inbound)]
  BY <1>1, <1>2 DEF RelayTypes
<1>5. \A m \in Legs : inbox'[m] = IF m = leg THEN Tail(inbox[m]) ELSE inbox[m]
  BY <1>1 DEF RelayTypes
<1> HIDE DEF f
<1>6. verdict(f) \in {"Forward", "Answer", "Drop"} /\ (verdict(f) = "Answer" => f.kind = "Call")
  BY <1>3 DEF verdict, Texts
<1>7. \/ wire' = wire
      \/ wire' = Write(leg, [type |-> "Pong"])
      \/ wire' = Write(other(leg), [type |-> "Frame", frame |-> f])
      \/ wire' = Write(leg, [type |-> "Answer", frame |-> f]) /\ verdict(f) = "Answer"
  BY <1>6, Zenon DEF relay_message, f
<1>8. CASE wire' = wire
  <2>1. RelayTypes'
    BY <1>1, <1>4, <1>8 DEF RelayTypes
  <2> QED BY <1>1, <1>5, <1>8, <2>1, ControlStep
<1>9. CASE wire' = Write(leg, [type |-> "Pong"])
  <2>1. [type |-> "Pong"] \in Outbound /\ ~Carries([type |-> "Pong"])
    BY DEF Outbound, Control, Carries
  <2>2. RelayTypes'
    BY <1>1, <1>4, <1>9, <2>1, WriteShape DEF RelayTypes
  <2>3. \A l \in Legs : \A i \in DOMAIN wire'[l] :
           Carries(wire'[l][i]) => i \in DOMAIN wire[l] /\ wire[l][i] = wire'[l][i]
    <3> DEFINE w == [type |-> "Pong"]
    <3>1. w \in Outbound /\ ~Carries(w)
      BY <2>1
    <3> HIDE DEF w
    <3>2. wire' = Write(leg, w)
      BY <1>9 DEF w
    <3>3. /\ \A m \in Legs \ {leg} : wire'[m] = wire[m]
          /\ DOMAIN wire'[leg] = DOMAIN wire[leg] \cup {Len(wire[leg]) + 1}
          /\ \A i \in DOMAIN wire[leg] : wire'[leg][i] = wire[leg][i]
          /\ wire'[leg][Len(wire[leg]) + 1] = w
      BY <3>1, <3>2, WriteShape
    <3> QED BY <3>1, <3>3
  <2> QED BY <1>1, <1>5, <2>2, <2>3, ControlStep
<1>10. ASSUME NEW l \in Legs, NEW w \in Carried, w.frame = f, wire' = Write(l, w),
              w.type = "Answer" => f.kind = "Call" /\ l = leg
       PROVE  RelayInv'
  <2>1. w \in Outbound /\ Carries(w)
    BY <1>10 DEF Outbound, Carried, Carries
  <2>2. RelayTypes'
    BY <1>1, <1>4, <1>10, <2>1, WriteShape DEF RelayTypes
  <2>3. PICK k \in Nat :
          /\ \A m \in Legs \ {l} : wire'[m] = wire[m]
          /\ DOMAIN wire'[l] = DOMAIN wire[l] \cup {k} /\ k \notin DOMAIN wire[l]
          /\ \A i \in DOMAIN wire[l] : wire'[l][i] = wire[l][i]
          /\ wire'[l][k] = w
    <3>1. Len(wire[l]) + 1 \in Nat
      BY DEF RelayTypes
    <3>2. /\ \A m \in Legs \ {l} : wire'[m] = wire[m]
          /\ DOMAIN wire'[l] = DOMAIN wire[l] \cup {Len(wire[l]) + 1}
          /\ Len(wire[l]) + 1 \notin DOMAIN wire[l]
          /\ \A i \in DOMAIN wire[l] : wire'[l][i] = wire[l][i]
          /\ wire'[l][Len(wire[l]) + 1] = w
      <4>1. RelayTypes /\ l \in Legs /\ w \in Outbound
        BY <2>1
      <4>2. /\ \A m \in Legs \ {l} : Write(l, w)[m] = wire[m]
            /\ DOMAIN Write(l, w)[l] = DOMAIN wire[l] \cup {Len(wire[l]) + 1}
            /\ Len(wire[l]) + 1 \notin DOMAIN wire[l]
            /\ \A i \in DOMAIN wire[l] : Write(l, w)[l][i] = wire[l][i]
            /\ Write(l, w)[l][Len(wire[l]) + 1] = w
        BY <4>1, WriteShape, Zenon
      <4> QED BY <1>10, <4>2, Zenon
    <3> QED BY <3>1, <3>2, Zenon
  <2>4. \A m \in Legs : \A i \in DOMAIN wire[m] : Carries(wire[m][i]) =>
          ~(wire[m][i].frame.from = f.from /\ wire[m][i].frame.n = f.n)
    <3>1. \A m \in Legs : \A i \in DOMAIN wire[m] :
            Carries(wire[m][i]) /\ wire[m][i].frame.from = leg => wire[m][i].frame.n < f.n
      BY <1>1, <1>2 DEF TextsNumbered, IsText, f
    <3> QED BY <1>3, <3>1
  <2>5. TextsNumbered'
    <3> SUFFICES ASSUME NEW m \in Legs, NEW i \in DOMAIN inbox'[m], IsText(inbox'[m][i])
                 PROVE  /\ inbox'[m][i].from = m /\ inbox'[m][i].n < count[m]
                        /\ \A j \in DOMAIN inbox'[m] : i < j /\ IsText(inbox'[m][j]) => inbox'[m][i].n < inbox'[m][j].n
                        /\ \A h \in Legs : \A j \in DOMAIN wire'[h] :
                             Carries(wire'[h][j]) /\ wire'[h][j].frame.from = m => wire'[h][j].frame.n < inbox'[m][i].n
      BY <1>1 DEF TextsNumbered, IsText, Carries
    <3>1. PICK d \in {0, 1} :
            /\ \A j \in DOMAIN inbox'[m] :
                 j \in Int /\ j > 0 /\ j + d \in DOMAIN inbox[m] /\ inbox'[m][j] = inbox[m][j + d]
            /\ m = leg => d = 1
      <4>1. CASE m = leg
        <5>1. inbox'[m] = Tail(inbox[leg]) /\ inbox[leg] \in Seq(Inbound) /\ inbox[leg] # << >>
          BY <1>1, <1>5, <4>1 DEF RelayTypes
        <5>2. \A j \in DOMAIN inbox'[m] :
                j \in Int /\ j > 0 /\ j + 1 \in DOMAIN inbox[m] /\ inbox'[m][j] = inbox[m][j + 1]
          BY <1>2, <4>1, <5>1
        <5> QED BY <5>2
      <4>2. CASE m # leg
        <5>1. inbox'[m] = inbox[m] /\ inbox[m] \in Seq(Inbound)
          BY <1>5, <4>2 DEF RelayTypes
        <5>2. \A j \in DOMAIN inbox'[m] :
                j \in Int /\ j > 0 /\ j + 0 \in DOMAIN inbox[m] /\ inbox'[m][j] = inbox[m][j + 0]
          BY <5>1
        <5> QED BY <4>2, <5>2
      <4> QED BY <4>1, <4>2
    <3>2. /\ i \in Int /\ i > 0 /\ i + d \in DOMAIN inbox[m] /\ inbox'[m][i] = inbox[m][i + d]
          /\ IsText(inbox[m][i + d])
      BY <3>1
    <3>3. inbox'[m][i].from = m /\ inbox'[m][i].n < count[m]
      BY <3>2 DEF TextsNumbered
    <3>4. ASSUME NEW j \in DOMAIN inbox'[m], i < j, IsText(inbox'[m][j])
          PROVE  inbox'[m][i].n < inbox'[m][j].n
      <4>1. /\ j \in Int /\ j + d \in DOMAIN inbox[m] /\ inbox'[m][j] = inbox[m][j + d] /\ i + d < j + d
        BY <3>1, <3>2, <3>4
      <4> QED BY <3>2, <3>4, <4>1 DEF TextsNumbered
    <3>5. ASSUME NEW h \in Legs, NEW j \in DOMAIN wire'[h], Carries(wire'[h][j]), wire'[h][j].frame.from = m
          PROVE  wire'[h][j].frame.n < inbox'[m][i].n
      <4>1. CASE j \in DOMAIN wire[h] /\ wire'[h][j] = wire[h][j]
        BY <3>2, <3>5, <4>1 DEF TextsNumbered
      <4>2. CASE wire'[h][j] = w
        <5>1. m = leg
          BY <1>3, <1>10, <3>5, <4>2
        <5>2. 1 < i + d /\ IsText(inbox[leg][1])
          BY <1>1, <1>2, <3>1, <3>2, <5>1 DEF IsText
        <5>3. f.n < inbox[leg][i + d].n
          BY <1>2, <3>2, <5>1, <5>2 DEF TextsNumbered
        <5> QED BY <1>10, <3>2, <4>2, <5>1, <5>3
      <4> QED BY <2>3, <4>1, <4>2
    <3> QED BY <3>3, <3>4, <3>5
  <2>6. OnceOnly'
    <3> SUFFICES ASSUME NEW m \in Legs, NEW i \in DOMAIN wire'[m], Carries(wire'[m][i])
                 PROVE  /\ wire'[m][i].frame.n < count[wire'[m][i].frame.from]
                        /\ wire'[m][i].type = "Answer" => wire'[m][i].frame.kind = "Call" /\ wire'[m][i].frame.from = m
                        /\ \A h \in Legs : \A j \in DOMAIN wire'[h] :
                             /\ Carries(wire'[h][j]) /\ wire'[h][j].frame.from = wire'[m][i].frame.from
                             /\ wire'[h][j].frame.n = wire'[m][i].frame.n
                             => h = m /\ j = i
      BY <1>1 DEF OnceOnly, Carries
    <3>1. CASE i \in DOMAIN wire[m] /\ wire'[m][i] = wire[m][i]
      <4>1. /\ wire'[m][i].frame.n < count[wire'[m][i].frame.from]
            /\ wire'[m][i].type = "Answer" => wire'[m][i].frame.kind = "Call" /\ wire'[m][i].frame.from = m
        BY <3>1 DEF OnceOnly
      <4>2. ASSUME NEW h \in Legs, NEW j \in DOMAIN wire'[h], Carries(wire'[h][j]),
                   wire'[h][j].frame.from = wire'[m][i].frame.from, wire'[h][j].frame.n = wire'[m][i].frame.n
            PROVE  h = m /\ j = i
        <5>1. j \in DOMAIN wire[h] /\ wire'[h][j] = wire[h][j]
          BY <1>10, <2>3, <2>4, <3>1, <4>2
        <5> QED BY <3>1, <4>2, <5>1 DEF OnceOnly
      <4> QED BY <4>1, <4>2
    <3>2. CASE m = l /\ i = k
      <4>1. /\ wire'[m][i].frame.n < count[wire'[m][i].frame.from]
            /\ wire'[m][i].type = "Answer" => wire'[m][i].frame.kind = "Call" /\ wire'[m][i].frame.from = m
        BY <1>3, <1>10, <2>3, <3>2
      <4>2. ASSUME NEW h \in Legs, NEW j \in DOMAIN wire'[h], Carries(wire'[h][j]),
                   wire'[h][j].frame.from = wire'[m][i].frame.from, wire'[h][j].frame.n = wire'[m][i].frame.n
            PROVE  h = m /\ j = i
        BY <1>10, <2>3, <2>4, <3>2, <4>2
      <4> QED BY <4>1, <4>2
    <3> QED BY <2>3, <3>1, <3>2
  <2> QED BY <2>2, <2>5, <2>6
<1>11. CASE wire' = Write(other(leg), [type |-> "Frame", frame |-> f])
  <2>1. [type |-> "Frame", frame |-> f] \in Carried
    BY <1>3 DEF Carried
  <2> QED BY <1>10, <1>11, <2>1, OtherLeg
<1>12. CASE wire' = Write(leg, [type |-> "Answer", frame |-> f]) /\ f.kind = "Call"
  <2>1. [type |-> "Answer", frame |-> f] \in Carried
    BY <1>3 DEF Carried
  <2> QED BY <1>10, <1>12, <2>1
<1> QED BY <1>6, <1>7, <1>8, <1>9, <1>11, <1>12

(* What a peer sends: a text of its own, or the answer to a CALL that reached   *)
(* it and that it has not answered.                                             *)
LEMMA SentText ==
  ASSUME RelayTypes, NEW leg \in Legs, peer_sends(leg) \/ peer_answers(leg)
  PROVE  \E x \in Texts :
           /\ x.from = leg /\ x.n = count[leg]
           /\ inbox' = [inbox EXCEPT ![leg] = Append(@, x)]
           /\ wire' = wire /\ count' = [count EXCEPT ![leg] = @ + 1] /\ DOMAIN replied' = Legs
           /\ \/ x.kind # "Result" /\ replied' = replied
              \/ /\ x.re \in Reached(leg) \ DOMAIN replied[leg]
                 /\ replied' = [replied EXCEPT ![leg] =
                      [n \in DOMAIN replied[leg] \cup {x.re} |-> IF n = x.re THEN count[leg] ELSE replied[leg][n]]]
<1>1. count[leg] \in Nat
  BY DEF RelayTypes
<1>2. CASE peer_sends(leg)
  <2>1. PICK t \in Traffic :
          /\ t.kind # "Result" /\ inbox' = [inbox EXCEPT ![leg] = Append(@, Text(leg, t, Nothing))]
          /\ wire' = wire /\ count' = [count EXCEPT ![leg] = @ + 1] /\ replied' = replied
    BY <1>2 DEF peer_sends
  <2>2. Text(leg, t, Nothing) \in Texts
    BY <1>1, LocalControllerAssumption DEF Text, Texts
  <2>3. Text(leg, t, Nothing).from = leg /\ Text(leg, t, Nothing).n = count[leg] /\ Text(leg, t, Nothing).kind = t.kind
    BY DEF Text
  <2> QED BY <2>1, <2>2, <2>3 DEF RelayTypes
<1>3. CASE peer_answers(leg)
  <2>1. PICK c \in Reached(leg) \ DOMAIN replied[leg], t \in Traffic :
          /\ inbox' = [inbox EXCEPT ![leg] = Append(@, Text(leg, t, c))]
          /\ wire' = wire /\ count' = [count EXCEPT ![leg] = @ + 1]
          /\ replied' = [replied EXCEPT ![leg] =
               [n \in DOMAIN replied[leg] \cup {c} |-> IF n = c THEN count[leg] ELSE replied[leg][n]]]
    BY <1>3 DEF peer_answers
  <2>2. c \in Nat
    <3>1. PICK i \in DOMAIN wire[leg] : wire[leg][i].type = "Frame" /\ c = wire[leg][i].frame.n
      BY DEF Reached
    <3>2. Carries(wire[leg][i])
      BY <3>1 DEF Carries
    <3> QED BY <3>1, <3>2, CarriedTexts DEF Texts
  <2>3. Text(leg, t, c) \in Texts
    BY <1>1, <2>2, LocalControllerAssumption DEF Text, Texts
  <2>4. Text(leg, t, c).from = leg /\ Text(leg, t, c).n = count[leg] /\ Text(leg, t, c).re = c
    BY DEF Text
  <2>5. DOMAIN replied' = Legs
    BY <2>1 DEF RelayTypes
  <2> HIDE DEF Text
  <2> QED BY <2>1, <2>3, <2>4, <2>5
<1> QED BY <1>2, <1>3

LEMMA RelayInvStep == RelayInv /\ [lcNext]_lcVars => RelayInv'
<1> SUFFICES ASSUME RelayInv, [lcNext]_lcVars PROVE RelayInv'
  OBVIOUS
<1>0. RelayTypes
  BY DEF RelayInv
<1>1. CASE UNCHANGED <<inbox, wire, count, replied>>
  BY <1>1 DEF RelayInv, RelayTypes, TextsNumbered, OnceOnly, IsText, Carries
<1>2. CASE attach
  <2> DEFINE w == [type |-> "BadGateway"]
  <2>1. w \in Outbound /\ ~Carries(w)
    BY DEF Outbound, Control, Carries
  <2> HIDE DEF w
  <2>2. CASE wire' = Write("south", w)
    <3>0. "south" \in Legs
      BY DEF Legs
    <3>1. /\ \A m \in Legs \ {"south"} : wire'[m] = wire[m]
          /\ DOMAIN wire'["south"] = DOMAIN wire["south"] \cup {Len(wire["south"]) + 1}
          /\ \A i \in DOMAIN wire["south"] : wire'["south"][i] = wire["south"][i]
          /\ wire'["south"][Len(wire["south"]) + 1] = w
          /\ wire' \in [Legs -> Seq(Outbound)]
      BY <1>0, <2>1, <2>2, <3>0, WriteShape
    <3>2. \A l \in Legs : \A i \in DOMAIN wire'[l] :
            Carries(wire'[l][i]) => i \in DOMAIN wire[l] /\ wire[l][i] = wire'[l][i]
      BY <2>1, <3>1
    <3>3. RelayTypes' /\ count' = count /\ inbox' = inbox
      BY <1>0, <1>2, <3>1 DEF attach, RelayTypes
    <3> QED BY <3>2, <3>3, ControlStep
  <2> QED BY <1>1, <1>2, <2>2 DEF attach, w
<1>3. ASSUME NEW leg \in Legs, relay_message(leg) PROVE RelayInv'
  BY <1>3, RelayStep
<1>4. ASSUME NEW leg \in Legs, relay_pong(leg) PROVE RelayInv'
  <2>1. /\ inbox[leg] \in Seq(Inbound) /\ inbox[leg] # << >>
        /\ inbox' = [inbox EXCEPT ![leg] = Tail(@)] /\ count' = count /\ wire' = wire /\ replied' = replied
    BY <1>0, <1>4 DEF relay_pong, RelayTypes
  <2>2. Tail(inbox[leg]) \in Seq(Inbound)
    BY <2>1
  <2>3. RelayTypes'
    BY <1>0, <2>1, <2>2 DEF RelayTypes
  <2>4. \A m \in Legs : inbox'[m] = inbox[m] \/ (inbox[m] # << >> /\ inbox'[m] = Tail(inbox[m]))
    BY <1>0, <2>1 DEF RelayTypes
  <2> QED BY <2>1, <2>3, <2>4, ControlStep
<1>5. ASSUME NEW leg \in Legs, relay_end(leg) \/ no_pong(leg) PROVE RelayInv'
  <2>1. PICK passed_on \in {<< >>, <<Closing>>} : Detach(leg, passed_on)
    BY <1>5 DEF relay_end, no_pong
  <2>2. inbox' = inbox /\ count' = count /\ replied' = replied
    BY <1>5 DEF relay_end, no_pong
  <2>3. RelayTypes'
    BY <1>0, <2>1, <2>2, DetachShape DEF RelayTypes
  <2> QED BY <1>0, <2>1, <2>2, <2>3, DetachShape, ControlStep
<1>6. ASSUME NEW leg \in Legs, peer_sends(leg) \/ peer_answers(leg) PROVE RelayInv'
  <2>1. PICK x \in Texts :
          /\ x.from = leg /\ x.n = count[leg]
          /\ inbox' = [inbox EXCEPT ![leg] = Append(@, x)]
          /\ wire' = wire /\ count' = [count EXCEPT ![leg] = @ + 1] /\ DOMAIN replied' = Legs
    BY <1>0, <1>6, SentText
  <2> QED BY <2>1, ArrivalStep DEF Inbound
<1>7. ASSUME NEW leg \in Legs, peer_pongs(leg) PROVE RelayInv'
  <2> DEFINE x == [kind |-> "Pong"]
  <2>1. x \in Inbound /\ ~IsText(x)
    BY DEF Inbound, IsText
  <2> HIDE DEF x
  <2>2. inbox' = [inbox EXCEPT ![leg] = Append(@, x)] /\ wire' = wire /\ count' = count /\ DOMAIN replied' = Legs
    BY <1>0, <1>7 DEF peer_pongs, x, RelayTypes
  <2> QED BY <2>1, <2>2, ArrivalStep
<1> QED BY <1>1, <1>2, <1>3, <1>4, <1>5, <1>6, <1>7 DEF lcNext, lcVars, ping_both, pass, peer_goes

(* Where a text on either leg was before the step: on the same leg, or at the   *)
(* head of the inbox of the leg it came from.                                   *)
LEMMA WireStep ==
  ASSUME RelayInv, [lcNext]_lcVars, NEW l \in Legs
  PROVE  /\ DOMAIN wire[l] \subseteq DOMAIN wire'[l]
         /\ \A i \in DOMAIN wire[l] : wire'[l][i] = wire[l][i]
         /\ \A i \in DOMAIN wire'[l] : Carries(wire'[l][i]) =>
              \/ i \in DOMAIN wire[l]
              \/ \E leg \in Legs :
                   /\ 1 \in DOMAIN inbox[leg] /\ IsText(inbox[leg][1]) /\ wire'[l][i].frame = inbox[leg][1]
                   /\ inbox[leg][1].from = leg /\ replied' = replied
                   /\ wire'[l][i].type = "Frame" => l = other(leg)
<1>0. RelayTypes /\ wire[l] \in Seq(Outbound)
  BY DEF RelayInv, RelayTypes
<1>1. CASE wire' = wire
  BY <1>1
<1>2. ASSUME NEW m \in Legs, NEW w \in Outbound, wire' = Write(m, w),
             Carries(w) => \E leg \in Legs :
                   /\ 1 \in DOMAIN inbox[leg] /\ IsText(inbox[leg][1]) /\ w.frame = inbox[leg][1]
                   /\ inbox[leg][1].from = leg /\ replied' = replied
                   /\ w.type = "Frame" => m = other(leg)
      PROVE  /\ DOMAIN wire[l] \subseteq DOMAIN wire'[l]
             /\ \A i \in DOMAIN wire[l] : wire'[l][i] = wire[l][i]
             /\ \A i \in DOMAIN wire'[l] : Carries(wire'[l][i]) =>
                  \/ i \in DOMAIN wire[l]
                  \/ \E leg \in Legs :
                       /\ 1 \in DOMAIN inbox[leg] /\ IsText(inbox[leg][1]) /\ wire'[l][i].frame = inbox[leg][1]
                       /\ inbox[leg][1].from = leg /\ replied' = replied
                       /\ wire'[l][i].type = "Frame" => l = other(leg)
  <2>1. /\ \A k \in Legs \ {m} : wire'[k] = wire[k]
        /\ DOMAIN wire'[m] = DOMAIN wire[m] \cup {Len(wire[m]) + 1}
        /\ \A i \in DOMAIN wire[m] : wire'[m][i] = wire[m][i]
        /\ wire'[m][Len(wire[m]) + 1] = w
    <3>1. /\ \A k \in Legs \ {m} : Write(m, w)[k] = wire[k]
          /\ DOMAIN Write(m, w)[m] = DOMAIN wire[m] \cup {Len(wire[m]) + 1}
          /\ \A i \in DOMAIN wire[m] : Write(m, w)[m][i] = wire[m][i]
          /\ Write(m, w)[m][Len(wire[m]) + 1] = w
      BY <1>0, WriteShape, Zenon
    <3> QED BY <1>2, <3>1, Zenon
  <2>2. CASE l # m
    BY <2>1, <2>2
  <2>3. CASE l = m
    BY <1>2, <2>1, <2>3
  <2> QED BY <2>2, <2>3
<1>3. ASSUME NEW m \in Legs, NEW t \in {"Pong", "BadGateway"}
      PROVE  [type |-> t] \in Outbound /\ ~Carries([type |-> t])
  BY DEF Outbound, Control, Carries
<1>4. CASE attach
  <2>1. "south" \in Legs /\ wire' \in {wire, Write("south", [type |-> "BadGateway"])}
    BY <1>4 DEF attach, Legs
  <2> QED BY <1>1, <1>2, <1>3, <2>1
<1>5. ASSUME NEW leg \in Legs, relay_end(leg) \/ no_pong(leg)
      PROVE  /\ DOMAIN wire[l] \subseteq DOMAIN wire'[l]
             /\ \A i \in DOMAIN wire[l] : wire'[l][i] = wire[l][i]
             /\ \A i \in DOMAIN wire'[l] : Carries(wire'[l][i]) => i \in DOMAIN wire[l]
  <2>1. PICK passed_on \in {<< >>, <<Closing>>} : Detach(leg, passed_on)
    BY <1>5 DEF relay_end, no_pong
  <2>2. \A i \in DOMAIN wire'[l] : Carries(wire'[l][i]) => i \in DOMAIN wire[l]
    BY <1>0, <2>1, DetachShape
  <2>3. /\ other(leg) # leg /\ (l = leg \/ l = other(leg)) /\ Closing \in Outbound
        /\ passed_on \in Seq(Outbound) /\ passed_on \o <<Closing>> \in Seq(Outbound)
    <3>1. Closing \in Outbound
      BY DEF Closing, Outbound, Control
    <3>2. other(leg) # leg /\ (l = leg \/ l = other(leg))
      BY DEF Legs, other
    <3> HIDE DEF Closing
    <3>3. <<Closing>> \in Seq(Outbound) /\ << >> \in Seq(Outbound)
      BY <3>1
    <3>4. ASSUME NEW p \in Seq(Outbound) PROVE p \o <<Closing>> \in Seq(Outbound)
      BY <3>3, <3>4
    <3> QED BY <3>1, <3>2, <3>3, <3>4
  <2> HIDE DEF Closing
  <2>4. wire'[l] = Append(wire[l], Closing) \/ wire'[l] = wire[l] \o passed_on \o <<Closing>>
    BY <1>0, <2>1, <2>3 DEF Detach, RelayTypes
  <2>5. CASE wire'[l] = Append(wire[l], Closing)
    BY <1>0, <2>2, <2>3, <2>5
  <2>6. CASE wire'[l] = wire[l] \o passed_on \o <<Closing>>
    <3> DEFINE s == wire[l] \o passed_on
    <3>1. /\ s \in Seq(Outbound) /\ DOMAIN wire[l] \subseteq DOMAIN s
          /\ \A i \in DOMAIN wire[l] : s[i] = wire[l][i]
      BY <1>0, <2>3
    <3> HIDE DEF s
    <3>2. wire'[l] = s \o <<Closing>>
      BY <2>6 DEF s
    <3> QED BY <2>2, <2>3, <3>1, <3>2
  <2> QED BY <2>4, <2>5, <2>6
<1>6. ASSUME NEW leg \in Legs, relay_message(leg)
      PROVE  /\ DOMAIN wire[l] \subseteq DOMAIN wire'[l]
             /\ \A i \in DOMAIN wire[l] : wire'[l][i] = wire[l][i]
             /\ \A i \in DOMAIN wire'[l] : Carries(wire'[l][i]) =>
                  \/ i \in DOMAIN wire[l]
                  \/ \E k \in Legs :
                       /\ 1 \in DOMAIN inbox[k] /\ IsText(inbox[k][1]) /\ wire'[l][i].frame = inbox[k][1]
                       /\ inbox[k][1].from = k /\ replied' = replied
                       /\ wire'[l][i].type = "Frame" => l = other(k)
  <2> DEFINE f == Head(inbox[leg])
  <2>1. /\ inbox[leg] \in Seq(Inbound) /\ inbox[leg] # << >> /\ f.kind # "Pong" /\ replied' = replied
    BY <1>0, <1>6 DEF relay_message, RelayTypes
  <2>2. 1 \in DOMAIN inbox[leg] /\ f = inbox[leg][1] /\ IsText(f) /\ f \in Inbound
    BY <2>1 DEF IsText
  <2>3. f \in Texts /\ f.from = leg
    BY <2>1, <2>2 DEF Inbound, Texts, RelayInv, TextsNumbered, IsText
  <2>4. \/ wire' = wire
        \/ wire' = Write(leg, [type |-> "Pong"])
        \/ wire' = Write(other(leg), [type |-> "Frame", frame |-> f])
        \/ wire' = Write(leg, [type |-> "Answer", frame |-> f])
    <3> HIDE DEF f
    <3>1. verdict(f) \in {"Forward", "Answer", "Drop"}
      BY <2>3 DEF verdict, Texts
    <3> QED BY <1>6, <3>1, Zenon DEF relay_message, f
  <2> HIDE DEF f
  <2>5. /\ [type |-> "Frame", frame |-> f] \in Outbound /\ [type |-> "Answer", frame |-> f] \in Outbound
        /\ [type |-> "Frame", frame |-> f].frame = f /\ [type |-> "Answer", frame |-> f].frame = f
    BY <2>3 DEF Outbound, Carried
  <2> QED BY <1>1, <1>2, <1>3, <2>1, <2>2, <2>3, <2>4, <2>5, OtherLeg
<1> QED BY <1>1, <1>4, <1>5, <1>6 DEF lcNext, lcVars, ping_both, pass, relay_pong, peer_sends, peer_answers, peer_pongs, peer_goes

(* Where a text in an inbox was before the step: in it, or just sent.           *)
LEMMA InboxStep ==
  ASSUME RelayInv, [lcNext]_lcVars, NEW leg \in Legs, NEW i \in DOMAIN inbox'[leg], IsText(inbox'[leg][i])
  PROVE  \/ \E j \in DOMAIN inbox[leg] : inbox'[leg][i] = inbox[leg][j]
         \/ peer_sends(leg) \/ peer_answers(leg)
<1>0. inbox[leg] \in Seq(Inbound) /\ inbox \in [Legs -> Seq(Inbound)]
  BY DEF RelayInv, RelayTypes
<1>1. CASE inbox' = inbox
  BY <1>1
<1>2. ASSUME NEW m \in Legs, inbox[m] # << >>, inbox' = [inbox EXCEPT ![m] = Tail(@)]
      PROVE  \E j \in DOMAIN inbox[leg] : inbox'[leg][i] = inbox[leg][j]
  <2>1. CASE m = leg
    <3>1. inbox'[leg] = Tail(inbox[leg])
      BY <1>0, <1>2, <2>1
    <3>2. i + 1 \in DOMAIN inbox[leg] /\ inbox'[leg][i] = inbox[leg][i + 1]
      BY <1>0, <1>2, <2>1, <3>1
    <3> QED BY <3>2
  <2>2. CASE m # leg
    BY <1>0, <1>2, <2>2
  <2> QED BY <2>1, <2>2
<1>3. ASSUME NEW m \in Legs, peer_pongs(m)
      PROVE  \E j \in DOMAIN inbox[leg] : inbox'[leg][i] = inbox[leg][j]
  <2> DEFINE x == [kind |-> "Pong"]
  <2>1. ~IsText(x)
    BY DEF IsText
  <2> HIDE DEF x
  <2>2. inbox' = [inbox EXCEPT ![m] = Append(@, x)]
    BY <1>3 DEF peer_pongs, x
  <2>3. CASE m = leg
    <3>1. inbox'[leg] = Append(inbox[leg], x)
      BY <1>0, <2>2, <2>3
    <3>2. inbox'[leg][i] = x \/ (i \in DOMAIN inbox[leg] /\ inbox'[leg][i] = inbox[leg][i])
      BY <1>0, <3>1
    <3> QED BY <2>1, <3>2
  <2>4. CASE m # leg
    BY <1>0, <2>2, <2>4
  <2> QED BY <2>3, <2>4
<1>4. ASSUME NEW m \in Legs, m # leg, peer_sends(m) \/ peer_answers(m)
      PROVE  \E j \in DOMAIN inbox[leg] : inbox'[leg][i] = inbox[leg][j]
  <2>1. PICK x : inbox' = [inbox EXCEPT ![m] = Append(@, x)]
    BY <1>4 DEF peer_sends, peer_answers
  <2> QED BY <1>0, <1>4, <2>1
<1> QED BY <1>1, <1>2, <1>3, <1>4 DEF lcNext, lcVars, attach, ping_both, pass, relay_message, relay_pong, relay_end,
                                   no_pong, peer_goes

LEMMA RelayedStep == RelayedInv /\ [lcNext]_lcVars => RelayedInv'
<1> SUFFICES ASSUME RelayedInv, [lcNext]_lcVars PROVE RelayedInv'
  OBVIOUS
<1>0. RelayInv /\ RelayInv' /\ RelayTypes /\ RelayTypes'
  BY RelayInvStep DEF RelayedInv, RelayInv
<1>1. \A l \in Legs : \A i \in DOMAIN wire'[l] : Carries(wire'[l][i]) =>
        \/ i \in DOMAIN wire[l] /\ wire'[l][i] = wire[l][i]
        \/ \E leg \in Legs :
             /\ 1 \in DOMAIN inbox[leg] /\ IsText(inbox[leg][1]) /\ wire'[l][i].frame = inbox[leg][1]
             /\ inbox[leg][1].from = leg /\ replied' = replied
             /\ wire'[l][i].type = "Frame" => l = other(leg)
  BY <1>0, WireStep
<1>2. GoesOn'
  <2> SUFFICES ASSUME NEW l \in Legs, NEW i \in DOMAIN wire'[l], wire'[l][i].type = "Frame"
               PROVE  wire'[l][i].frame.from = other(l)
    BY DEF GoesOn
  <2>1. Carries(wire'[l][i])
    BY DEF Carries
  <2> QED BY <1>1, <2>1, OtherLeg DEF RelayedInv, GoesOn
<1> DEFINE Grown(m) ==
       /\ DOMAIN replied[m] \subseteq DOMAIN replied'[m]
       /\ \A n \in DOMAIN replied[m] : replied'[m][n] = replied[m][n]
       /\ \A n \in DOMAIN replied'[m] \ DOMAIN replied[m] : n \in Reached(m)
<1>3. \A m \in Legs : Grown(m)
  <2>1. CASE replied' = replied
    BY <2>1
  <2>2. ASSUME NEW leg \in Legs, peer_sends(leg) \/ peer_answers(leg), replied' # replied
        PROVE  \A m \in Legs : Grown(m)
    <3>1. PICK c \in Reached(leg) \ DOMAIN replied[leg] :
            replied' = [replied EXCEPT ![leg] =
               [n \in DOMAIN replied[leg] \cup {c} |-> IF n = c THEN count[leg] ELSE replied[leg][n]]]
      BY <1>0, <2>2, SentText
    <3>2. DOMAIN replied = Legs
      BY <1>0 DEF RelayTypes
    <3>3. \A m \in Legs : m # leg => replied'[m] = replied[m]
      BY <3>1, <3>2
    <3>4. replied'[leg] = [n \in DOMAIN replied[leg] \cup {c} |-> IF n = c THEN count[leg] ELSE replied[leg][n]]
      BY <3>1, <3>2
    <3>5. Grown(leg)
      BY <3>4
    <3> QED BY <3>3, <3>5
  <2> QED BY <2>1, <2>2 DEF lcNext, lcVars, attach, ping_both, pass, relay_message, relay_pong, relay_end, no_pong,
                            peer_pongs, peer_goes
<1>4. ASSUME NEW x \in Texts, Answering(x) PROVE Answering(x)'
  BY <1>3, <1>4 DEF Answering, Texts
<1>5. \A leg \in Legs : \A i \in DOMAIN inbox[leg] : IsText(inbox[leg][i]) =>
        inbox[leg][i] \in Texts /\ Answering(inbox[leg][i])
  <2> SUFFICES ASSUME NEW leg \in Legs, NEW i \in DOMAIN inbox[leg], IsText(inbox[leg][i])
               PROVE  inbox[leg][i] \in Texts /\ Answering(inbox[leg][i])
    OBVIOUS
  <2>1. inbox[leg] \in Seq(Inbound)
    BY <1>0 DEF RelayTypes
  <2>2. inbox[leg][i] \in Inbound
    BY <2>1
  <2> QED BY <2>2 DEF RelayedInv, AnswersTold, Inbound, IsText
<1>6. AnswersTold'
  <2>1. ASSUME NEW leg \in Legs, NEW i \in DOMAIN inbox'[leg], IsText(inbox'[leg][i])
        PROVE  Answering(inbox[leg][i])'
    <3>1. CASE \E j \in DOMAIN inbox[leg] : inbox'[leg][i] = inbox[leg][j]
      <4>1. PICK j \in DOMAIN inbox[leg] : inbox'[leg][i] = inbox[leg][j]
        BY <3>1
      <4> DEFINE x == inbox[leg][j]
      <4>2. x \in Texts /\ Answering(x)
        BY <1>5, <2>1, <4>1
      <4> HIDE DEF x
      <4>3. \A y \in Texts : Answering(y) => Answering(y)'
        BY <1>4
      <4>4. inbox'[leg][i] = x
        BY <4>1 DEF x
      <4> QED BY <1>3, <4>2, <4>4 DEF Answering, Texts
    <3>2. CASE (peer_sends(leg) \/ peer_answers(leg)) /\ ~\E j \in DOMAIN inbox[leg] : inbox'[leg][i] = inbox[leg][j]
      <4>1. PICK x \in Texts :
           /\ x.from = leg /\ x.n = count[leg]
           /\ inbox' = [inbox EXCEPT ![leg] = Append(@, x)]
           /\ wire' = wire /\ count' = [count EXCEPT ![leg] = @ + 1] /\ DOMAIN replied' = Legs
           /\ \/ x.kind # "Result" /\ replied' = replied
              \/ /\ x.re \in Reached(leg) \ DOMAIN replied[leg]
                 /\ replied' = [replied EXCEPT ![leg] =
                      [n \in DOMAIN replied[leg] \cup {x.re} |-> IF n = x.re THEN count[leg] ELSE replied[leg][n]]]
        BY <1>0, <3>2, SentText, Zenon
      <4>2. inbox[leg] \in Seq(Inbound) /\ inbox'[leg] = Append(inbox[leg], x) /\ DOMAIN replied = Legs
        BY <1>0, <4>1 DEF RelayTypes
      <4>3. inbox'[leg][i] = x
        BY <3>2, <4>2
      <4>4. x.kind = "Result" => x.re \in DOMAIN replied'[x.from] /\ replied'[x.from][x.re] = x.n
        BY <4>1, <4>2
      <4> QED BY <4>3, <4>4 DEF Answering
    <3> QED BY <1>0, <2>1, <3>1, <3>2, InboxStep
  <2>2. ASSUME NEW l \in Legs, NEW i \in DOMAIN wire'[l], Carries(wire'[l][i])
        PROVE  Answering(wire[l][i].frame)'
    <3>1. PICK x \in Texts : x = wire'[l][i].frame /\ Answering(x)
      <4>1. CASE i \in DOMAIN wire[l] /\ wire'[l][i] = wire[l][i]
        <5>1. Carries(wire[l][i])
          BY <2>2, <4>1
        <5>2. wire[l][i].frame \in Texts
          BY <1>0, <4>1, <5>1, CarriedTexts
        <5>3. Answering(wire[l][i].frame)
          BY <4>1, <5>1 DEF RelayedInv, AnswersTold
        <5> QED BY <4>1, <5>2, <5>3
      <4>2. CASE \E leg \in Legs : 1 \in DOMAIN inbox[leg] /\ IsText(inbox[leg][1]) /\ wire'[l][i].frame = inbox[leg][1]
        BY <1>5, <4>2
      <4> QED BY <1>1, <2>2, <4>1, <4>2
    <3> QED BY <1>3, <3>1 DEF Answering, Texts
  <2> QED BY <2>1, <2>2 DEF AnswersTold, Answering, IsText, Carries
<1>7. AskedFirst'
  <2> SUFFICES ASSUME NEW m \in Legs, NEW n \in DOMAIN replied'[m] PROVE n \in Reached(m)'
    BY DEF AskedFirst
  <2>1. n \in Reached(m)
    BY <1>3 DEF RelayedInv, AskedFirst
  <2>2. PICK i \in DOMAIN wire[m] : wire[m][i].type = "Frame" /\ wire[m][i].frame.kind = "Call" /\ wire[m][i].frame.n = n
    BY <2>1 DEF Reached
  <2>3. i \in DOMAIN wire'[m] /\ wire'[m][i] = wire[m][i]
    BY <1>0, WireStep
  <2> QED BY <2>2, <2>3 DEF Reached
<1> QED BY <1>0, <1>2, <1>6, <1>7 DEF RelayedInv

LEMMA InitRelayed == lcInit => RelayedInv
BY InitRelay DEF lcInit, RelayedInv, GoesOn, AnswersTold, AskedFirst

(* Through the relay a CALL is answered once, by the controller or by the       *)
(* other side: one that the controller answers never reaches the other side,    *)
(* so there is nothing to answer there, and no text is written twice.           *)
THEOREM CallsAreAnsweredOnce == lcSpec => []OneAnswerEach
<1>1. RelayedInv => OneAnswerEach
  <2> SUFFICES ASSUME RelayedInv, NEW leg \in Legs, NEW i \in Answers(leg), NEW j \in Answers(leg),
                      AnswerTo(wire[leg][i]) = AnswerTo(wire[leg][j])
               PROVE  i = j
    BY DEF OneAnswerEach
  <2> DEFINE v == wire[leg][i]
             w == wire[leg][j]
  <2>1. /\ i \in DOMAIN wire[leg] /\ j \in DOMAIN wire[leg] /\ Carries(v) /\ Carries(w)
        /\ v.type = "Answer" \/ (v.type = "Frame" /\ v.frame.kind = "Result")
        /\ w.type = "Answer" \/ (w.type = "Frame" /\ w.frame.kind = "Result")
    BY DEF Answers, Carries
  <2>2. \A m \in Legs : \A k \in DOMAIN wire[m] :
          /\ Carries(wire[m][k]) /\ wire[m][k].frame.from = v.frame.from /\ wire[m][k].frame.n = v.frame.n
          => m = leg /\ k = i
    BY <2>1 DEF RelayedInv, RelayInv, OnceOnly
  <2>3. \A m \in Legs : \A k \in DOMAIN wire[m] :
          /\ Carries(wire[m][k]) /\ wire[m][k].frame.from = w.frame.from /\ wire[m][k].frame.n = w.frame.n
          => m = leg /\ k = j
    BY <2>1 DEF RelayedInv, RelayInv, OnceOnly
  <2>4. ASSUME NEW x, x \in {v, w} PROVE
          /\ x.type = "Answer" => x.frame.from = leg /\ AnswerTo(x) = x.frame.n
          /\ x.type = "Frame" => /\ x.frame.from = other(leg) /\ AnswerTo(x) = x.frame.re
                                 /\ x.frame.re \in DOMAIN replied[other(leg)] /\ replied[other(leg)][x.frame.re] = x.frame.n
    BY <2>1, <2>4 DEF RelayedInv, RelayInv, OnceOnly, GoesOn, AnswersTold, Answering, AnswerTo
  <2>5. ASSUME NEW k \in DOMAIN wire[leg], wire[leg][k].type = "Answer", NEW n \in DOMAIN replied[other(leg)]
        PROVE  wire[leg][k].frame.n # n
    <3>1. PICK h \in DOMAIN wire[other(leg)] :
            wire[other(leg)][h].type = "Frame" /\ wire[other(leg)][h].frame.n = n
      BY OtherLeg DEF RelayedInv, AskedFirst, Reached
    <3>2. wire[other(leg)][h].frame.from = leg /\ Carries(wire[other(leg)][h]) /\ Carries(wire[leg][k])
      BY <2>5, <3>1, OtherLeg DEF RelayedInv, GoesOn, Carries
    <3>3. wire[leg][k].frame.from = leg
      BY <2>5, <3>2 DEF RelayedInv, RelayInv, OnceOnly
    <3> QED BY <3>1, <3>2, <3>3, OtherLeg DEF RelayedInv, RelayInv, OnceOnly
  <2>6. CASE v.type = "Answer" /\ w.type = "Answer"
    BY <2>1, <2>2, <2>4, <2>6
  <2>7. CASE v.type = "Frame" /\ w.type = "Frame"
    BY <2>1, <2>2, <2>4, <2>7
  <2>8. CASE v.type # w.type
    <3>1. CASE v.type = "Answer"
      BY <2>1, <2>4, <2>5, <2>8, <3>1
    <3>2. CASE w.type = "Answer"
      BY <2>1, <2>4, <2>5, <2>8, <3>2
    <3> QED BY <2>1, <2>8, <3>1, <3>2
  <2> QED BY <2>1, <2>6, <2>7, <2>8
<1> QED BY InitRelayed, RelayedStep, <1>1, PTL DEF lcSpec

-----------------------------------------------------------------------------
(* Smart charging.  The profiles are those that were brought.                *)

Retained(s, kept, f, n) ==
  f = [i \in 0 .. n |-> IF i = 0 THEN << >> ELSE IF s[i] \in kept THEN Append(f[i - 1], s[i]) ELSE f[i - 1]]

LEMMA RetainIs ==
  ASSUME NEW kept, NEW g, Retained(profiles, kept, g, Len(profiles))
  PROVE  \E f : Retained(profiles, kept, f, Len(profiles)) /\ retain(kept) = f[Len(profiles)]
BY DEF retain, Retained

LEMMA KeptExist ==
  ASSUME NEW S, NEW s \in Seq(S), NEW kept
  PROVE  \E f : Retained(s, kept, f, Len(s))
<1> DEFINE Bad == {n \in Nat : ~\E f : Retained(s, kept, f, n)}
<1> SUFFICES ASSUME Len(s) \in Bad PROVE FALSE
  OBVIOUS
<1>1. PICK n \in Bad : \A m \in Bad : n <= m
  BY LeastOne
<1>2. CASE n = 0
  <2>1. PICK f : f = [i \in 0 .. 0 |-> << >>]
    OBVIOUS
  <2>2. Retained(s, kept, f, 0)
    BY <2>1 DEF Retained
  <2> QED BY <1>2, <2>2
<1>3. CASE n > 0
  <2>1. n \in Nat /\ n - 1 \in Nat /\ ~(n <= n - 1)
    BY <1>3
  <2>2. PICK f : Retained(s, kept, f, n - 1)
    BY <1>1, <2>1
  <2>3. PICK last : last = IF s[n] \in kept THEN Append(f[n - 1], s[n]) ELSE f[n - 1]
    OBVIOUS
  <2>4. PICK g : g = [i \in 0 .. n |-> IF i = n THEN last ELSE f[i]]
    OBVIOUS
  <2>5. \A i \in 0 .. n - 1 :
          f[i] = IF i = 0 THEN << >> ELSE IF s[i] \in kept THEN Append(f[i - 1], s[i]) ELSE f[i - 1]
    BY <2>2 DEF Retained
  <2>6. g[n] = last /\ \A i \in 0 .. n - 1 : g[i] = f[i]
    BY <2>1, <2>4
  <2>7. ASSUME NEW i \in 0 .. n
        PROVE  g[i] = IF i = 0 THEN << >> ELSE IF s[i] \in kept THEN Append(g[i - 1], s[i]) ELSE g[i - 1]
    <3>1. CASE i = n
      <4>1. i - 1 \in 0 .. n - 1 /\ i # 0
        BY <1>3, <2>1, <3>1
      <4>2. g[i - 1] = f[i - 1]
        BY <2>6, <4>1
      <4> QED BY <2>3, <2>6, <3>1, <4>1, <4>2
    <3>2. CASE i # n
      <4>1. i \in 0 .. n - 1 /\ (i = 0 \/ i - 1 \in 0 .. n - 1)
        BY <2>1, <3>2
      <4> QED BY <2>5, <2>6, <4>1
    <3> QED BY <3>1, <3>2
  <2>8. g = [i \in 0 .. n |-> g[i]]
    BY <2>4
  <2>9. Retained(s, kept, g, n)
    BY <2>7, <2>8 DEF Retained
  <2> QED BY <2>9
<1> QED BY <1>2, <1>3

LEMMA RetainKeeps ==
  ASSUME NEW S, profiles \in Seq(S), NEW kept
  PROVE  retain(kept) \in Seq(S)
<1>1. PICK f : Retained(profiles, kept, f, Len(profiles)) /\ retain(kept) = f[Len(profiles)]
  <2>1. PICK g : Retained(profiles, kept, g, Len(profiles))
    BY KeptExist
  <2> QED BY <2>1, RetainIs
<1> DEFINE Bad == {n \in 0 .. Len(profiles) : f[n] \notin Seq(S)}
<1> SUFFICES ASSUME Len(profiles) \in Bad PROVE FALSE
  BY <1>1
<1>2. Bad \subseteq Nat /\ Bad # {}
  OBVIOUS
<1>3. PICK n \in Bad : \A m \in Bad : n <= m
  <2> HIDE DEF Bad
  <2> QED BY <1>2, LeastOne
<1>4. n \in 0 .. Len(profiles) /\ f[n] \notin Seq(S)
  OBVIOUS
<1>5. f[n] = IF n = 0 THEN << >> ELSE IF profiles[n] \in kept THEN Append(f[n - 1], profiles[n]) ELSE f[n - 1]
  BY <1>1, <1>4 DEF Retained
<1>6. n # 0
  BY <1>4, <1>5
<1>7. n - 1 \in 0 .. Len(profiles) /\ ~(n <= n - 1) /\ profiles[n] \in S
  BY <1>4, <1>6
<1>8. f[n - 1] \in Seq(S)
  BY <1>3, <1>7
<1> QED BY <1>4, <1>5, <1>6, <1>7, <1>8

Brought == profiles \in Seq(Pool)

LEMMA ProfilesBrought == scSpec => []Brought
<1>1. scInit => Brought
  BY DEF scInit, Brought
<1>2. Brought /\ [scNext]_profiles => Brought'
  <2> SUFFICES ASSUME profiles \in Seq(Pool), [scNext]_profiles PROVE profiles' \in Seq(Pool)
    BY DEF Brought
  <2>1. \A kept : retain(kept) \in Seq(Pool)
    BY RetainKeeps
  <2>2. ASSUME NEW p \in Pool, install(p) PROVE profiles' \in Seq(Pool)
    BY <2>1, <2>2 DEF install
  <2>3. ASSUME NEW p \in Range(profiles),
               \/ clear(p.id, Absent, Absent, Absent)
               \/ clear(Absent, p.evse_id, p.purpose, Absent)
               \/ clear(Absent, Absent, Absent, p.stack_level)
               \/ p.transaction_id # Absent /\ clear_transaction(p.transaction_id)
        PROVE  profiles' \in Seq(Pool)
    BY <2>1, <2>3 DEF clear, clear_transaction
  <2> QED BY <2>2, <2>3 DEF scNext
<1> QED BY <1>1, <1>2, PTL DEF scSpec

(* Of finitely many numbers one is the largest.                             *)
LEMMA LargestOne ==
  ASSUME NEW n \in Nat, NEW S \in SUBSET (1 .. n), S # {}, NEW h, \A i \in S : h[i] \in Int
  PROVE  \E i \in S : \A j \in S : h[j] <= h[i]
<1> DEFINE Claim(m, T) == \E i \in T : \A j \in T : h[j] <= h[i]
           Bad == {m \in Nat : \E T \in SUBSET S : T # {} /\ T \subseteq 1 .. m /\ ~Claim(m, T)}
<1> SUFFICES ASSUME n \in Bad PROVE FALSE
  OBVIOUS
<1>1. Bad \subseteq Nat /\ Bad # {}
  OBVIOUS
<1>2. PICK m \in Bad : \A k \in Bad : m <= k
  <2> HIDE DEF Bad
  <2> QED BY <1>1, LeastOne
<1>3. PICK T \in SUBSET S : T # {} /\ T \subseteq 1 .. m /\ ~Claim(m, T)
  OBVIOUS
<1>4. m \in Nat /\ m # 0
  <2>1. m \in Nat
    OBVIOUS
  <2>2. 1 .. 0 = {}
    OBVIOUS
  <2>3. T # {} /\ T \subseteq 1 .. m
    BY <1>3
  <2> QED BY <2>1, <2>2, <2>3
<1>5. m - 1 \in Nat /\ ~(m <= m - 1)
  BY <1>4
<1>6. T \ {m} \subseteq 1 .. m - 1
  BY <1>3, <1>4
<1>7. CASE T \ {m} = {}
  <2>1. T = {m} /\ h[m] \in Int
    BY <1>3, <1>7
  <2> QED BY <1>3, <2>1
<1>8. CASE T \ {m} # {}
  <2>1. Claim(m - 1, T \ {m})
    BY <1>2, <1>5, <1>6, <1>8
  <2>2. PICK i \in T \ {m} : \A j \in T \ {m} : h[j] <= h[i]
    BY <2>1
  <2>3. \A j \in T : h[j] \in Int
    OBVIOUS
  <2>4. CASE m \notin T \/ h[m] <= h[i]
    <3>1. \A j \in T : h[j] <= h[i]
      BY <2>2, <2>4
    <3> QED BY <1>3, <2>2, <3>1
  <2>5. CASE m \in T /\ ~(h[m] <= h[i])
    <3>1. \A j \in T : h[j] <= h[m]
      BY <2>2, <2>3, <2>5
    <3> QED BY <1>3, <2>5, <3>1
  <2> QED BY <2>4, <2>5
<1> QED BY <1>7, <1>8

LEMMA LargestIs ==
  ASSUME NEW n \in Nat, NEW S \in SUBSET (1 .. n), S # {}
  PROVE  Max(S) \in S /\ \A y \in S : Max(S) >= y
<1> DEFINE h == [i \in S |-> i]
<1>1. \A i \in S : h[i] \in Int /\ h[i] = i
  OBVIOUS
<1>2. \E i \in S : \A j \in S : h[j] <= h[i]
  <2> HIDE DEF h
  <2> QED BY <1>1, LargestOne
<1>3. \E i \in S : \A j \in S : i >= j
  BY <1>1, <1>2
<1> QED BY <1>3 DEF Max

(* Days.                                                                    *)
LEMMA DayIs ==
  ASSUME NEW D \in Nat \ {0}, NEW a \in Int
  PROVE  a \div D \in Int /\ a % D \in 0 .. D - 1 /\ a = D * (a \div D) + (a % D)
OBVIOUS

LEMMA TimesAtLeast ==
  ASSUME NEW D \in Nat \ {0}, NEW x \in Int, x >= 1
  PROVE  D * x >= D
OBVIOUS

LEMMA DayUnique ==
  ASSUME NEW D \in Nat \ {0}, NEW q \in Int, NEW r \in 0 .. D - 1, NEW k \in Int, NEW s \in 0 .. D - 1,
         D * q + r = D * k + s
  PROVE  r = s
<1>1. D * (q - k) = s - r /\ D * (k - q) = r - s
  OBVIOUS
<1>2. q - k \in Int /\ k - q \in Int
  OBVIOUS
<1>3. CASE q - k >= 1
  BY <1>1, <1>2, <1>3, TimesAtLeast
<1>4. CASE k - q >= 1
  BY <1>1, <1>2, <1>4, TimesAtLeast
<1>5. CASE q = k
  BY <1>5
<1> QED BY <1>3, <1>4, <1>5

LEMMA DayBefore ==
  ASSUME NEW D \in Nat \ {0}, NEW a \in Int, a % D # 0
  PROVE  (a - 1) % D = (a % D) - 1
<1>1. PICK q, r, k, s : q = a \div D /\ r = a % D /\ k = (a - 1) \div D /\ s = (a - 1) % D
  OBVIOUS
<1>2. q \in Int /\ r \in 0 .. D - 1 /\ a = D * q + r
  BY <1>1, DayIs
<1>3. k \in Int /\ s \in 0 .. D - 1 /\ a - 1 = D * k + s
  <2>1. a - 1 \in Int
    OBVIOUS
  <2> QED BY <1>1, <2>1, DayIs
<1>4. r # 0
  BY <1>1
<1>5. r - 1 \in 0 .. D - 1 /\ D * q + (r - 1) = D * k + s
  BY <1>2, <1>3, <1>4
<1>6. r - 1 = s
  BY <1>2, <1>3, <1>5, DayUnique
<1> QED BY <1>1, <1>6

LEMMA DayOrder ==
  ASSUME NEW D \in Nat \ {0}, NEW a \in Int, NEW b \in Int, a <= b
  PROVE  a \div D <= b \div D
<1>1. PICK q, r, k, s : q = a \div D /\ r = a % D /\ k = b \div D /\ s = b % D
  OBVIOUS
<1>2. q \in Int /\ r \in 0 .. D - 1 /\ a = D * q + r
  BY <1>1, DayIs
<1>3. k \in Int /\ s \in 0 .. D - 1 /\ b = D * k + s
  BY <1>1, DayIs
<1>4. ASSUME q - k >= 1 PROVE FALSE
  <2>1. D * (q - k) >= D /\ q - k \in Int
    BY <1>2, <1>3, <1>4, TimesAtLeast
  <2>2. D * (q - k) = D * q - D * k
    BY <1>2, <1>3
  <2>3. PICK x, y : x = D * q /\ y = D * k
    OBVIOUS
  <2>4. x \in Int /\ y \in Int
    BY <1>2, <1>3, <2>3
  <2> QED BY <1>2, <1>3, <2>1, <2>2, <2>3, <2>4
<1> QED BY <1>1, <1>2, <1>3, <1>4

-----------------------------------------------------------------------------
(* Between two edges a profile says the same.                               *)

LEMMA PoolTypes ==
  ASSUME NEW p \in Pool
  PROVE  /\ p.stack_level \in Nat /\ p.start \in Int \cup {Absent} /\ p.duration \in Nat \cup {Absent}
         /\ p.valid_from \in Int \cup {Absent} /\ p.valid_to \in Int \cup {Absent}
         /\ Len(p.periods) \in Nat /\ DOMAIN p.periods = 1 .. Len(p.periods)
         /\ \A i \in DOMAIN p.periods : /\ p.periods[i].start_period \in Nat /\ p.periods[i].limit \in Int
                                        /\ p.periods[i].number_phases \in Int \cup {Absent}
BY SmartChargingAssumption

LEMMA WindowTypes ==
  ASSUME NEW w \in Windows
  PROVE  w.from \in Int /\ w.duration \in Nat /\ w.tx_start \in Int \cup {Absent} /\ Absent \notin Int
BY SmartChargingAssumption

LEMMA SamePeriod ==
  ASSUME NEW p \in Pool, NEW o \in Nat, o # 0, \A i \in DOMAIN p.periods : p.periods[i].start_period # o, p.duration # o
  PROVE  period_at(p, o) = period_at(p, o - 1)
<1>1. \A i \in DOMAIN p.periods : p.periods[i].start_period <= o <=> p.periods[i].start_period <= o - 1
  BY PoolTypes
<1>2. p.duration # Absent => (o >= p.duration <=> o - 1 >= p.duration)
  BY PoolTypes
<1>3. o # Absent /\ o - 1 # Absent
  BY SmartChargingAssumption
<1>4. {i \in DOMAIN p.periods : p.periods[i].start_period <= o}
      = {i \in DOMAIN p.periods : p.periods[i].start_period <= o - 1}
  BY <1>1
<1> QED BY <1>2, <1>3, <1>4 DEF period_at

LEMMA DayLess ==
  ASSUME NEW D \in Nat \ {0}, NEW a \in Int, NEW m \in Int, a < m * D
  PROVE  a \div D \in Int /\ a \div D < m /\ (a \div D) * D <= a
<1>1. PICK q, r : q = a \div D /\ r = a % D
  OBVIOUS
<1>2. q \in Int /\ r \in 0 .. D - 1 /\ a = D * q + r
  BY <1>1, DayIs
<1>3. ASSUME q - m >= 0 PROVE FALSE
  <2>1. PICK x, y, z : x = D * q /\ y = D * m /\ z = D * (q - m)
    OBVIOUS
  <2>2. x \in Int /\ y \in Int /\ z \in Int /\ z = x - y /\ y = m * D
    BY <1>2, <2>1
  <2>3. z >= 0
    <3>1. CASE q - m = 0
      BY <1>2, <2>1, <3>1
    <3>2. CASE q - m >= 1
      BY <1>2, <2>1, <2>2, <3>2, TimesAtLeast
    <3> QED BY <1>2, <1>3, <3>1, <3>2
  <2> QED BY <1>2, <2>1, <2>2, <2>3
<1>4. D * q = q * D
  BY <1>2
<1>5. PICK x : x = q * D
  OBVIOUS
<1>6. x \in Int /\ a = x + r
  BY <1>2, <1>4, <1>5
<1> QED BY <1>1, <1>2, <1>3, <1>5, <1>6

LEMMA AnchorOfDay ==
  ASSUME NEW p \in Pool, NEW w \in Windows, NEW at \in Int, w.from <= at, at < w.from + w.duration, LookedAt(p, w, at),
         p.kind = "Recurring", Anchor(p, w) # Absent, NEW a, a = Anchor(p, w) + ((at - Anchor(p, w)) \div Day) * Day
  PROVE  a \in Anchors(p, w, w.from + w.duration)
<1>1. PICK begin, end, m : begin = Anchor(p, w) /\ end = w.from + w.duration /\ m = (w.from - begin) \div Day
  OBVIOUS
<1>2. begin \in Int /\ end \in Int /\ w.from \in Int /\ Day \in Nat \ {0} /\ MaxAnchors \in Nat /\ begin = p.start
  BY <1>1, PoolTypes, WindowTypes, SmartChargingAssumption DEF Anchor
<1>3. PICK k : k = (at - begin) \div Day
  OBVIOUS
<1>4. at - begin \in Int /\ w.from - begin \in Int /\ w.from - begin <= at - begin
  BY <1>1, <1>2
<1>5. k \in Int /\ m \in Int /\ m <= k
  BY <1>1, <1>2, <1>3, <1>4, DayOrder, DayIs
<1>6. at < begin + (m + MaxAnchors) * Day
  BY <1>1, <1>2 DEF LookedAt
<1>7. k < m + MaxAnchors /\ k * Day <= at - begin
  <2>1. PICK n : n = m + MaxAnchors
    OBVIOUS
  <2>2. n \in Int /\ n * Day \in Int
    BY <1>2, <1>5, <2>1
  <2>3. at - begin < n * Day
    BY <1>2, <1>6, <2>1, <2>2
  <2> QED BY <1>2, <1>3, <1>4, <2>1, <2>2, <2>3, DayLess
<1>8. k \in m .. m + MaxAnchors - 1
  BY <1>2, <1>5, <1>7
<1>9. a = begin + k * Day
  BY <1>1, <1>3
<1>10. a < end
  <2>1. PICK x : x = k * Day
    OBVIOUS
  <2>2. x \in Int
    BY <1>2, <1>5, <2>1
  <2> QED BY <1>1, <1>2, <1>7, <1>9, <2>1, <2>2, WindowTypes
<1> QED BY <1>1, <1>2, <1>8, <1>9, <1>10 DEF Anchors

LEMMA SaysTheSame ==
  ASSUME NEW p \in Pool, NEW w \in Windows, NEW at \in Int, LookedAt(p, w, at),
         w.from < at, at < w.from + w.duration, at \notin Changes(p, w)
  PROVE  Period(p, at, w) = Period(p, at - 1, w)
<1>1. at - 1 \in Int /\ w.from \in Int /\ Absent \notin Int
  BY WindowTypes
<1>2. /\ p.valid_from # Absent => at # p.valid_from
      /\ p.valid_to # Absent => at # p.valid_to
  BY DEF Changes
<1>3. valid_at(p, at) <=> valid_at(p, at - 1)
  BY <1>1, <1>2, PoolTypes DEF valid_at
<1>4. ASSUME NEW a \in Anchors(p, w, w.from + w.duration)
      PROVE  /\ \A i \in DOMAIN p.periods : at # a + p.periods[i].start_period
             /\ p.duration # Absent => at # a + p.duration
  BY DEF Changes
<1>5. PICK begin : begin = Anchor(p, w)
  OBVIOUS
<1>6. begin \in Int \cup {Absent}
  BY <1>5, PoolTypes, WindowTypes DEF Anchor
<1> SUFFICES period_at(p, offset_at(p, at, w)) = period_at(p, offset_at(p, at - 1, w))
  BY <1>3 DEF Period
<1>7. CASE begin = Absent \/ at < begin
  <2>1. begin = Absent \/ at - 1 < begin
    BY <1>1, <1>6, <1>7
  <2> QED BY <1>5, <1>7, <2>1 DEF offset_at
<1>8. CASE begin # Absent /\ at = begin
  <2>1. at - 1 < begin
    BY <1>1, <1>8
  <2>2. period_at(p, offset_at(p, at - 1, w)) = Absent
    BY <1>5, <1>8, <2>1 DEF offset_at, period_at
  <2>3. begin \in Int /\ at - begin = 0 /\ 0 % Day = 0 /\ ~(at < begin)
    BY <1>6, <1>8, SmartChargingAssumption
  <2>4. offset_at(p, at, w) = 0
    BY <1>5, <1>8, <2>3 DEF offset_at
  <2>5. begin \in Anchors(p, w, w.from + w.duration)
    <3>1. CASE p.kind = "Recurring"
      <4>1. begin = begin + (0 \div Day) * Day
        BY <2>3, SmartChargingAssumption
      <4> QED BY <1>1, <1>5, <1>8, <2>3, <3>1, <4>1, AnchorOfDay
    <3>2. CASE p.kind # "Recurring"
      BY <1>5, <1>8, <3>2 DEF Anchors
    <3> QED BY <3>1, <3>2
  <2>6. \A i \in DOMAIN p.periods : ~(p.periods[i].start_period <= 0)
    <3>1. \A i \in DOMAIN p.periods : at # begin + p.periods[i].start_period
      BY <1>4, <2>5
    <3> QED BY <1>8, <2>3, <3>1, PoolTypes
  <2>7. {i \in DOMAIN p.periods : p.periods[i].start_period <= 0} = {}
    BY <2>6
  <2>8. period_at(p, 0) = Absent
    BY <2>7 DEF period_at
  <2> QED BY <2>2, <2>4, <2>8
<1>9. CASE begin # Absent /\ at > begin
  <2>1. begin \in Int /\ ~(at < begin) /\ ~(at - 1 < begin) /\ at - begin \in Nat /\ at - begin # 0
        /\ (at - 1) - begin = (at - begin) - 1
    BY <1>1, <1>6, <1>9
  <2>2. CASE p.kind # "Recurring"
    <3>1. offset_at(p, at, w) = at - begin /\ offset_at(p, at - 1, w) = (at - begin) - 1
      BY <1>5, <1>9, <2>1, <2>2 DEF offset_at
    <3>2. begin \in Anchors(p, w, w.from + w.duration)
      BY <1>5, <1>9, <2>2 DEF Anchors
    <3>3. \A i \in DOMAIN p.periods : p.periods[i].start_period # at - begin
      <4>1. \A i \in DOMAIN p.periods : at # begin + p.periods[i].start_period
        BY <1>4, <3>2
      <4> QED BY <2>1, <4>1, PoolTypes
    <3>4. p.duration # at - begin
      <4>1. p.duration # Absent => at # begin + p.duration
        BY <1>4, <3>2
      <4> QED BY <1>1, <2>1, <4>1, PoolTypes
    <3> QED BY <2>1, <3>1, <3>3, <3>4, SamePeriod
  <2>3. CASE p.kind = "Recurring"
    <3>1. PICK o : o = (at - begin) % Day
      OBVIOUS
    <3>2. PICK a : a = begin + ((at - begin) \div Day) * Day
      OBVIOUS
    <3>3. o \in Nat /\ a \in Int /\ at = a + o /\ at - begin \in Int /\ Day \in Nat \ {0}
      <4>1. at - begin \in Int /\ Day \in Nat \ {0}
        BY <2>1, SmartChargingAssumption
      <4>2. PICK k : k = (at - begin) \div Day
        OBVIOUS
      <4>3. k \in Int /\ o \in Nat /\ at - begin = Day * k + o
        <5>1. k \in Int /\ o \in 0 .. Day - 1 /\ at - begin = Day * k + o
          BY <3>1, <4>1, <4>2, DayIs, Zenon
        <5> QED BY <4>1, <5>1
      <4> QED BY <2>1, <3>2, <4>1, <4>2, <4>3
    <3>4. offset_at(p, at, w) = o /\ offset_at(p, at - 1, w) = ((at - begin) - 1) % Day
      BY <1>5, <1>9, <2>1, <2>3, <3>1 DEF offset_at
    <3>5. a \in Anchors(p, w, w.from + w.duration)
      BY <1>1, <1>5, <1>9, <2>3, <3>2, AnchorOfDay
    <3>6. \A i \in DOMAIN p.periods : p.periods[i].start_period # o
      <4>1. \A i \in DOMAIN p.periods : at # a + p.periods[i].start_period
        BY <1>4, <3>5
      <4> QED BY <3>3, <4>1, PoolTypes
    <3>7. p.duration # o
      <4>1. p.duration # Absent => at # a + p.duration
        BY <1>4, <3>5
      <4> QED BY <1>1, <3>3, <4>1, PoolTypes
    <3>8. CASE o = 0
      <4>1. Len(p.periods) = 0
        <5>1. Len(p.periods) \in Nat /\ DOMAIN p.periods = 1 .. Len(p.periods)
          BY PoolTypes
        <5>2. ASSUME Len(p.periods) > 0 PROVE FALSE
          <6>1. p.start # Absent /\ p.periods[1].start_period = 0
            BY <1>5, <1>9, <2>3, <5>2 DEF LookedAt, Anchor
          <6> QED BY <3>6, <3>8, <5>1, <5>2, <6>1
        <5> QED BY <5>1, <5>2
      <4>2. DOMAIN p.periods = {}
        BY <4>1, PoolTypes
      <4>3. \A x : {i \in DOMAIN p.periods : p.periods[i].start_period <= x} = {}
        BY <4>2
      <4>4. \A x : period_at(p, x) = Absent
        BY <4>3 DEF period_at
      <4> QED BY <4>4
    <3>9. CASE o # 0
      <4>1. ((at - begin) - 1) % Day = o - 1
        BY <3>1, <3>3, <3>9, DayBefore
      <4> QED BY <3>3, <3>4, <3>6, <3>7, <3>9, <4>1, SamePeriod
    <3> QED BY <3>8, <3>9
  <2> QED BY <2>2, <2>3
<1> QED BY <1>1, <1>6, <1>7, <1>8, <1>9

LEMMA LeaderIs ==
  ASSUME Brought, NEW S \in SUBSET DOMAIN profiles, S # {}
  PROVE  Leader(S) \in S /\ \A j \in S : profiles[j].stack_level <= profiles[Leader(S)].stack_level
<1>1. PICK n : n = Len(profiles)
  OBVIOUS
<1>2. n \in Nat /\ S \in SUBSET (1 .. n) /\ \A i \in S : profiles[i] \in Pool
  BY <1>1 DEF Brought
<1> DEFINE h == [i \in S |-> profiles[i].stack_level]
           top == {i \in S : \A j \in S : profiles[j].stack_level <= profiles[i].stack_level}
<1>3. \A i \in S : h[i] = profiles[i].stack_level /\ h[i] \in Int
  BY <1>2, PoolTypes
<1>4. \E i \in S : \A j \in S : h[j] <= h[i]
  <2> HIDE DEF h
  <2> QED BY <1>2, <1>3, LargestOne
<1>5. top # {} /\ top \in SUBSET (1 .. n)
  BY <1>2, <1>3, <1>4
<1>6. Max(top) \in top
  <2> HIDE DEF top
  <2> QED BY <1>2, <1>5, LargestIs
<1> QED BY <1>6 DEF Leader

LEMMA LimitTheSame ==
  ASSUME Brought, NEW w \in Windows, NEW ps \in SUBSET DOMAIN profiles, NEW at \in Int,
         \A i \in ps : LookedAt(profiles[i], w, at), w.from < at, at < w.from + w.duration, at \notin boundaries(ps, w)
  PROVE  limit_at(ps, at, w) = limit_at(ps, at - 1, w)
<1>1. ASSUME NEW i \in ps
      PROVE  Period(profiles[i], at, w) = Period(profiles[i], at - 1, w)
  <2>1. profiles[i] \in Pool
    BY DEF Brought
  <2>2. at \notin Changes(profiles[i], w)
    BY WindowTypes DEF boundaries
  <2> QED BY <2>1, <2>2, SaysTheSame
<1>2. ASSUME NEW purpose
      PROVE  leading(ps, purpose, at, w) = leading(ps, purpose, at - 1, w)
  <2>1. PICK S : S = Saying(ps, purpose, at, w)
    OBVIOUS
  <2>2. S = Saying(ps, purpose, at - 1, w) /\ S \subseteq ps
    BY <1>1, <2>1 DEF Saying
  <2>3. CASE S = {}
    BY <2>1, <2>2, <2>3 DEF leading
  <2>4. CASE S # {}
    <3>1. PICK i : i = Leader(S)
      OBVIOUS
    <3>2. i \in ps
      BY <2>2, <2>4, <3>1, LeaderIs
    <3>3. Allowed(profiles[i], at, w) = Allowed(profiles[i], at - 1, w)
      BY <1>1, <3>2 DEF Allowed
    <3> QED BY <1>1, <2>1, <2>2, <2>4, <3>1, <3>2, <3>3 DEF leading
  <2> QED BY <2>3, <2>4
<1> QED BY <1>2 DEF limit_at

-----------------------------------------------------------------------------
(* The steps of a composite schedule.                                       *)

LEMMA InLast ==
  ASSUME NEW V, NEW s \in Seq(V), NEW o, \A i \in 1 .. Len(s) : s[i].start_period <= o
  PROVE  In(s, o) = IF Len(s) = 0 THEN Absent ELSE s[Len(s)].limit
<1>1. PICK S : S = {i \in DOMAIN s : s[i].start_period <= o}
  OBVIOUS
<1>2. Len(s) \in Nat /\ S = 1 .. Len(s)
  BY <1>1
<1>3. CASE Len(s) = 0
  <2>1. S = {}
    BY <1>2, <1>3
  <2> QED BY <1>1, <1>3, <2>1 DEF In
<1>4. CASE Len(s) # 0
  <2>1. S \in SUBSET (1 .. Len(s)) /\ Len(s) \in S
    BY <1>2, <1>4
  <2>2. Max(S) \in S /\ \A y \in S : Max(S) >= y
    BY <1>2, <2>1, LargestIs
  <2>3. Max(S) = Len(s)
    BY <1>2, <2>1, <2>2
  <2> QED BY <1>1, <1>4, <2>1, <2>3 DEF In
<1> QED BY <1>3, <1>4

(* A step that is merged says what it says from its start on.               *)
LEMMA MergedSays ==
  ASSUME NEW V, \A v \in V : v.start_period \in Nat, NEW s \in Seq(V), NEW v \in V, NEW n \in Nat, v.start_period = n,
         \A i \in 1 .. Len(s) : s[i].start_period < n
  PROVE  /\ Merged(s, v) \in Seq(V) /\ \A i \in 1 .. Len(Merged(s, v)) : Merged(s, v)[i].start_period <= n
         /\ In(Merged(s, v), n) = v.limit
         /\ \A o \in Nat : o < n => In(Merged(s, v), o) = In(s, o)
<1>1. Len(s) \in Nat /\ \A i \in 1 .. Len(s) : s[i].start_period \in Nat /\ s[i].start_period <= n
  OBVIOUS
<1>2. s = << >> <=> Len(s) = 0
  OBVIOUS
<1>3. CASE Merged(s, v) = s
  <2>1. In(s, n) = IF Len(s) = 0 THEN Absent ELSE s[Len(s)].limit
    BY <1>1, InLast
  <2>2. (IF Len(s) = 0 THEN Absent ELSE s[Len(s)].limit) = v.limit
    <3>1. Append(s, v) # s
      <4>1. Len(Append(s, v)) = Len(s) + 1
        OBVIOUS
      <4> QED BY <1>1, <4>1
    <3> QED BY <1>2, <1>3, <3>1 DEF Merged, same_step
  <2> QED BY <1>1, <1>3, <2>1, <2>2
<1>4. CASE Merged(s, v) # s
  <2>1. PICK t : t = Append(s, v)
    OBVIOUS
  <2>2. /\ t \in Seq(V) /\ Len(t) = Len(s) + 1 /\ t[Len(s) + 1] = v
        /\ \A i \in 1 .. Len(s) : t[i] = s[i]
    BY <2>1
  <2>3. Merged(s, v) = t
    BY <1>4, <2>1 DEF Merged
  <2>4. \A i \in 1 .. Len(t) : i \in 1 .. Len(s) \/ i = Len(s) + 1
    BY <1>1, <2>2
  <2>5. \A i \in 1 .. Len(t) : t[i].start_period <= n
    BY <1>1, <2>2, <2>4
  <2>6. In(t, n) = v.limit
    <3>1. In(t, n) = IF Len(t) = 0 THEN Absent ELSE t[Len(t)].limit
      BY <2>2, <2>5, InLast
    <3> QED BY <1>1, <2>2, <3>1
  <2>7. ASSUME NEW o \in Nat, o < n PROVE In(t, o) = In(s, o)
    <3>1. \A i \in 1 .. Len(t) : t[i].start_period <= o <=> i \in 1 .. Len(s) /\ s[i].start_period <= o
      BY <1>1, <2>2, <2>4, <2>7
    <3>2. DOMAIN t = 1 .. Len(t) /\ DOMAIN s = 1 .. Len(s) /\ \A i \in 1 .. Len(s) : i \in 1 .. Len(t)
      BY <1>1, <2>2
    <3>3. PICK S : S = {i \in DOMAIN s : s[i].start_period <= o}
      OBVIOUS
    <3>4. S = {i \in DOMAIN t : t[i].start_period <= o}
      BY <3>1, <3>2, <3>3
    <3>5. CASE S = {}
      BY <3>3, <3>4, <3>5 DEF In
    <3>6. CASE S # {}
      <4>1. S \in SUBSET (1 .. Len(s))
        BY <3>2, <3>3
      <4>2. Max(S) \in 1 .. Len(s)
        BY <1>1, <3>6, <4>1, LargestIs
      <4>3. t[Max(S)] = s[Max(S)]
        BY <2>2, <4>2
      <4> QED BY <3>3, <3>4, <3>6, <4>3 DEF In
    <3> QED BY <3>5, <3>6
  <2> QED BY <2>2, <2>3, <2>5, <2>6, <2>7
<1> QED BY <1>3, <1>4

(* The walk over the boundaries, up to n.                                   *)
StepAt(ps, w, n) == [start_period |-> n, limit |-> limit_at(ps, w.from + n, w)]
Walked(ps, w, before, n) == IF w.from + n \in boundaries(ps, w) THEN Merged(before, StepAt(ps, w, n)) ELSE before
Walk(ps, w, f, n) == f = [i \in 0 .. n |-> Walked(ps, w, IF i = 0 THEN << >> ELSE f[i - 1], i)]

LEMMA CompositeIs ==
  ASSUME NEW w, NEW g, Walk(applicable(w), w, g, w.duration)
  PROVE  \E f : Walk(applicable(w), w, f, w.duration) /\ composite(w) = f[w.duration]
BY DEF composite, Walk, Walked, StepAt

LEMMA WalkExists ==
  ASSUME NEW ps, NEW w, NEW d \in Nat
  PROVE  \E f : Walk(ps, w, f, d)
<1> DEFINE Bad == {n \in Nat : ~\E f : Walk(ps, w, f, n)}
<1> SUFFICES ASSUME d \in Bad PROVE FALSE
  OBVIOUS
<1>1. PICK n \in Bad : \A m \in Bad : n <= m
  BY LeastOne
<1>2. CASE n = 0
  <2>1. PICK f : f = [i \in 0 .. 0 |-> Walked(ps, w, << >>, i)]
    OBVIOUS
  <2>2. Walk(ps, w, f, 0)
    BY <2>1 DEF Walk
  <2> QED BY <1>2, <2>2
<1>3. CASE n > 0
  <2>1. n \in Nat /\ n - 1 \in Nat /\ ~(n <= n - 1)
    BY <1>3
  <2>2. PICK f : Walk(ps, w, f, n - 1)
    BY <1>1, <2>1
  <2>3. PICK g : g = [i \in 0 .. n |-> IF i = n THEN Walked(ps, w, f[n - 1], n) ELSE f[i]]
    OBVIOUS
  <2>4. \A i \in 0 .. n - 1 : f[i] = Walked(ps, w, IF i = 0 THEN << >> ELSE f[i - 1], i)
    BY <2>2 DEF Walk
  <2>5. g[n] = Walked(ps, w, f[n - 1], n) /\ \A i \in 0 .. n - 1 : g[i] = f[i]
    BY <2>1, <2>3
  <2>6. ASSUME NEW i \in 0 .. n
        PROVE  g[i] = Walked(ps, w, IF i = 0 THEN << >> ELSE g[i - 1], i)
    <3>1. CASE i = n
      <4>1. i - 1 \in 0 .. n - 1 /\ i # 0
        BY <1>3, <2>1, <3>1
      <4>2. g[i - 1] = f[i - 1]
        BY <2>5, <4>1
      <4> QED BY <2>5, <3>1, <4>1, <4>2
    <3>2. CASE i # n
      <4>1. i \in 0 .. n - 1 /\ (i = 0 \/ i - 1 \in 0 .. n - 1)
        BY <2>1, <3>2
      <4>2. CASE i = 0
        BY <2>4, <2>5, <4>1, <4>2
      <4>3. CASE i # 0
        <5>1. g[i - 1] = f[i - 1] /\ g[i] = f[i]
          BY <2>5, <4>1, <4>3
        <5> QED BY <2>4, <4>1, <4>3, <5>1
      <4> QED BY <4>2, <4>3
    <3> QED BY <3>1, <3>2
  <2>7. g = [i \in 0 .. n |-> g[i]]
    BY <2>3
  <2>8. Walk(ps, w, g, n)
    BY <2>6, <2>7 DEF Walk
  <2> QED BY <2>8
<1> QED BY <1>2, <1>3

LEMMA LookedAtBefore ==
  ASSUME NEW p \in Pool, NEW w \in Windows, NEW o \in Nat, NEW n \in Nat, n <= o, LookedAt(p, w, w.from + o)
  PROVE  LookedAt(p, w, w.from + n)
<1> SUFFICES ASSUME p.kind = "Recurring", p.start # Absent
             PROVE  w.from + n < p.start + ((w.from - p.start) \div Day + MaxAnchors) * Day
  BY DEF LookedAt
<1>1. PICK x : x = p.start + ((w.from - p.start) \div Day + MaxAnchors) * Day
  OBVIOUS
<1>2. x \in Int /\ w.from \in Int
  <2>1. w.from \in Int /\ p.start \in Int /\ Day \in Nat \ {0} /\ MaxAnchors \in Nat
    BY PoolTypes, WindowTypes, SmartChargingAssumption
  <2>2. PICK k : k = (w.from - p.start) \div Day
    OBVIOUS
  <2>3. k \in Int
    BY <2>1, <2>2, DayIs
  <2> QED BY <1>1, <2>1, <2>2, <2>3
<1>3. w.from + o < x
  BY <1>1 DEF LookedAt
<1> QED BY <1>1, <1>2, <1>3

LEMMA CompositeRight ==
  ASSUME Brought, NEW w \in Windows, NEW offset \in 0 .. w.duration - 1, Foreseen(w, offset)
  PROVE  In(composite(w), offset) = limit_at(applicable(w), w.from + offset, w)
<1>1. PICK ps, d, from : ps = applicable(w) /\ d = w.duration /\ from = w.from
  OBVIOUS
<1>2. ps \in SUBSET DOMAIN profiles /\ d \in Nat /\ from \in Int /\ d # 0 /\ offset \in 0 .. d - 1
  BY <1>1, WindowTypes DEF applicable
<1>3. PICK f : Walk(ps, w, f, d) /\ composite(w) = f[d]
  <2>1. PICK g : Walk(ps, w, g, d)
    BY <1>2, WalkExists
  <2> QED BY <1>1, <2>1, CompositeIs
<1>4. \A n \in 0 .. d : f[n] = Walked(ps, w, IF n = 0 THEN << >> ELSE f[n - 1], n)
  BY <1>3 DEF Walk
<1>5. PICK V : V = {StepAt(ps, w, n) : n \in Nat}
  OBVIOUS
<1>6. \A v \in V : v.start_period \in Nat
  BY <1>5 DEF StepAt
<1> DEFINE Built(n) == /\ f[n] \in Seq(V) /\ \A i \in 1 .. Len(f[n]) : f[n][i].start_period <= n
                       /\ \A o \in 0 .. n : o <= offset => In(f[n], o) = limit_at(ps, from + o, w)
<1>7. ASSUME NEW n \in Nat, NEW s \in Seq(V), f[n] = Merged(s, StepAt(ps, w, n)),
             \A i \in 1 .. Len(s) : s[i].start_period < n,
             \A o \in 0 .. n - 1 : o <= offset => In(s, o) = limit_at(ps, from + o, w)
      PROVE  Built(n)
  <2>1. PICK v : v = StepAt(ps, w, n)
    OBVIOUS
  <2>2. v \in V /\ v.start_period = n /\ v.limit = limit_at(ps, from + n, w)
    BY <1>1, <1>5, <2>1 DEF StepAt
  <2>3. /\ Merged(s, v) \in Seq(V) /\ \A i \in 1 .. Len(Merged(s, v)) : Merged(s, v)[i].start_period <= n
        /\ In(Merged(s, v), n) = v.limit
        /\ \A o \in Nat : o < n => In(Merged(s, v), o) = In(s, o)
    BY <1>6, <1>7, <2>2, MergedSays
  <2>4. \A o \in 0 .. n : o = n \/ (o \in 0 .. n - 1 /\ o \in Nat /\ o < n)
    OBVIOUS
  <2>5. f[n] = Merged(s, v)
    BY <1>7, <2>1
  <2> QED BY <1>7, <2>2, <2>3, <2>4, <2>5
<1>8. Built(0)
  <2>1. f[0] = Merged(<< >>, StepAt(ps, w, 0))
    <3>1. f[0] = Walked(ps, w, << >>, 0)
      BY <1>2, <1>4
    <3>2. w.from + 0 \in boundaries(ps, w)
      BY <1>1, <1>2 DEF boundaries
    <3> QED BY <3>1, <3>2 DEF Walked
  <2>2. << >> \in Seq(V) /\ Len(<< >>) = 0 /\ 0 .. 0 - 1 = {} /\ 1 .. 0 = {}
    OBVIOUS
  <2> HIDE DEF Built
  <2> QED BY <1>7, <2>1, <2>2
<1>9. ASSUME NEW n \in 1 .. d - 1, Built(n - 1)
      PROVE  Built(n)
  <2>1. PICK s : s = f[n - 1]
    OBVIOUS
  <2>2. n \in Nat /\ n - 1 \in Nat /\ n \in 0 .. d /\ n # 0 /\ \A x \in Nat : x <= n - 1 => x < n
    BY <1>2
  <2>3. /\ s \in Seq(V) /\ \A i \in 1 .. Len(s) : s[i].start_period <= n - 1 /\ s[i].start_period \in Nat
        /\ \A o \in 0 .. n - 1 : o <= offset => In(s, o) = limit_at(ps, from + o, w)
    BY <1>6, <1>9, <2>1
  <2>4. f[n] = Walked(ps, w, s, n)
    BY <1>4, <2>1, <2>2
  <2>5. \A i \in 1 .. Len(s) : s[i].start_period < n /\ s[i].start_period <= n
    BY <2>2, <2>3
  <2>6. CASE w.from + n \in boundaries(ps, w)
    <3>1. f[n] = Merged(s, StepAt(ps, w, n))
      BY <2>4, <2>6 DEF Walked
    <3> HIDE DEF Built
    <3> QED BY <1>7, <2>2, <2>3, <2>5, <3>1
  <2>7. CASE w.from + n \notin boundaries(ps, w)
    <3>1. f[n] = s
      BY <2>4, <2>7 DEF Walked
    <3>2. from + n \in Int /\ w.from < from + n /\ from + n < w.from + w.duration /\ (from + n) - 1 = from + (n - 1)
      BY <1>1, <1>2, <2>2
    <3>3. ASSUME n <= offset PROVE limit_at(ps, from + n, w) = limit_at(ps, from + (n - 1), w)
      <4>1. limit_at(ps, from + n, w) = limit_at(ps, (from + n) - 1, w)
        <5>1. \A i \in ps : LookedAt(profiles[i], w, from + n)
          BY <1>1, <1>2, <2>2, <3>3, LookedAtBefore DEF Brought, Foreseen
        <5> QED BY <1>1, <1>2, <2>7, <3>2, <5>1, LimitTheSame
      <4> QED BY <3>2, <4>1
    <3>4. In(s, n) = In(s, n - 1)
      <4>1. In(s, n) = IF Len(s) = 0 THEN Absent ELSE s[Len(s)].limit
        BY <2>3, <2>5, InLast
      <4>2. In(s, n - 1) = IF Len(s) = 0 THEN Absent ELSE s[Len(s)].limit
        BY <2>3, InLast
      <4> QED BY <4>1, <4>2
    <3>5. n <= offset => In(s, n - 1) = limit_at(ps, from + (n - 1), w)
      BY <1>2, <2>2, <2>3
    <3>6. \A o \in 0 .. n : o = n \/ o \in 0 .. n - 1
      BY <2>2
    <3> QED BY <2>3, <2>5, <3>1, <3>3, <3>4, <3>5, <3>6
  <2> QED BY <2>6, <2>7
<1>10. Built(d - 1)
  <2> DEFINE Bad == {n \in 0 .. d - 1 : ~Built(n)}
  <2> HIDE DEF Built
  <2> SUFFICES ASSUME Bad # {} PROVE FALSE
    BY <1>2
  <2>1. Bad \subseteq Nat
    OBVIOUS
  <2>2. PICK n \in Bad : \A m \in Bad : n <= m
    <3> HIDE DEF Bad
    <3> QED BY <2>1, LeastOne
  <2>3. n # 0
    BY <1>8
  <2>4. n \in 1 .. d - 1 /\ n - 1 \in 0 .. d - 1 /\ ~(n <= n - 1)
    BY <1>2, <2>3
  <2>5. Built(n - 1)
    BY <2>2, <2>4
  <2> QED BY <1>9, <2>4, <2>5
<1>11. f[d] = f[d - 1]
  <2>1. w.from + d \notin boundaries(ps, w)
    BY <1>1, <1>2 DEF boundaries
  <2>2. f[d] = Walked(ps, w, f[d - 1], d)
    BY <1>2, <1>4
  <2> QED BY <2>1, <2>2 DEF Walked
<1> QED BY <1>1, <1>2, <1>3, <1>10, <1>11

-----------------------------------------------------------------------------
(* The ceiling.                                                             *)

Limits == Int \X (Int \cup {Absent})

LEMMA PeriodIs ==
  ASSUME NEW p \in Pool, NEW at, NEW w, Period(p, at, w) # Absent
  PROVE  Period(p, at, w).limit \in Int /\ Period(p, at, w).number_phases \in Int \cup {Absent}
<1>1. PICK o : o = offset_at(p, at, w)
  OBVIOUS
<1>2. PICK S : S = {i \in DOMAIN p.periods : p.periods[i].start_period <= o}
  OBVIOUS
<1>3. S # {} /\ Period(p, at, w) = p.periods[Max(S)]
  BY <1>1, <1>2 DEF Period, period_at
<1>4. Len(p.periods) \in Nat /\ S \in SUBSET (1 .. Len(p.periods)) /\ S \subseteq DOMAIN p.periods
  BY <1>2, PoolTypes
<1>5. Max(S) \in S
  BY <1>3, <1>4, LargestIs
<1> QED BY <1>3, <1>4, <1>5, PoolTypes

LEMMA AllowedIs ==
  ASSUME Voltage # 0, NEW p \in Pool, NEW at, NEW w, Period(p, at, w) # Absent
  PROVE  Allowed(p, at, w) \in Int
<1>1. PICK limit, phases : limit = Period(p, at, w).limit /\ phases = Period(p, at, w).number_phases
  OBVIOUS
<1>2. limit \in Int /\ phases \in Int \cup {Absent}
  BY <1>1, PeriodIs
<1>3. PICK x : x = Most(IF phases = Absent THEN Phases ELSE phases, 1)
  OBVIOUS
<1>4. x \in Int /\ x >= 1
  BY <1>2, <1>3, SmartChargingAssumption DEF Most
<1>5. PICK factor : factor = Voltage * x
  OBVIOUS
<1>6. factor \in Nat \ {0}
  <2>1. Voltage \in Nat \ {0}
    BY SmartChargingAssumption
  <2>2. Voltage * x >= Voltage
    BY <1>4, <2>1, TimesAtLeast
  <2>3. factor \in Int
    BY <1>4, <1>5, <2>1
  <2> QED BY <1>5, <2>1, <2>2, <2>3
<1>7. limit * factor \in Int
  BY <1>2, <1>6
<1>8. HalfEven(limit, factor) \in Int
  <2>1. limit \div factor \in Int
    BY <1>2, <1>6, DayIs
  <2> QED BY <2>1 DEF HalfEven
<1>9. Allowed(p, at, w) = convert(limit, p.rate_unit, w.rate_unit, phases)
  BY <1>1 DEF Allowed
<1>10. convert(limit, p.rate_unit, w.rate_unit, phases) \in {limit, limit * factor, HalfEven(limit, factor)}
  BY <1>3, <1>5, <1>6 DEF convert
<1> QED BY <1>2, <1>7, <1>8, <1>9, <1>10

LEMMA LeadingIs ==
  ASSUME Brought, Voltage # 0, NEW ps \in SUBSET DOMAIN profiles, NEW purpose, NEW at, NEW w,
         NEW S, S = Saying(ps, purpose, at, w)
  PROVE  /\ leading(ps, purpose, at, w) \in Limits \cup {Absent}
         /\ S = {} <=> leading(ps, purpose, at, w) = Absent
         /\ S # {} => leading(ps, purpose, at, w)[1] = Allowed(profiles[Leader(S)], at, w)
<1>1. CASE S = {}
  BY <1>1 DEF leading
<1>2. CASE S # {}
  <2>1. PICK p : p = profiles[Leader(S)]
    OBVIOUS
  <2>2. S \in SUBSET DOMAIN profiles
    BY DEF Saying
  <2>3. Leader(S) \in S
    BY <1>2, <2>2, LeaderIs
  <2>4. p \in Pool /\ Period(p, at, w) # Absent
    BY <2>1, <2>2, <2>3 DEF Brought, Saying
  <2>5. PICK limit, phases : limit = Allowed(p, at, w) /\ phases = Period(p, at, w).number_phases
    OBVIOUS
  <2>6. limit \in Int /\ phases \in Int \cup {Absent}
    BY <2>4, <2>5, AllowedIs, PeriodIs
  <2>7. limit # Absent /\ <<limit, phases>> \in Limits /\ <<limit, phases>>[1] = limit /\ Absent \notin Limits
    BY <2>6, SmartChargingAssumption DEF Limits
  <2>8. leading(ps, purpose, at, w) = <<limit, phases>>
    BY <1>2, <2>1, <2>5, <2>7 DEF leading
  <2> QED BY <1>2, <2>1, <2>5, <2>7, <2>8
<1> QED BY <1>1, <1>2

LEMMA TopsApply ==
  ASSUME NEW w, NEW at, NEW purpose \in {"ChargingStationMaxProfile", "LocalGeneration"}
  PROVE  Tops(purpose, at, w) = Saying(applicable(w), purpose, at, w)
<1>1. purpose \notin PerTransaction
  BY DEF PerTransaction
<1> QED BY <1>1 DEF Tops, Saying, applicable

LEMMA LowestIs ==
  ASSUME NEW x \in Limits \cup {Absent}, NEW y \in Limits \cup {Absent}
  PROVE  /\ Lowest(x, y) \in Limits \cup {Absent}
         /\ x # Absent => Lowest(x, y) # Absent /\ Lowest(x, y)[1] <= x[1]
         /\ y # Absent => Lowest(x, y) # Absent /\ Lowest(x, y)[1] <= y[1]
<1>1. \A z \in Limits : z[1] \in Int
  BY DEF Limits
<1> QED BY <1>1 DEF Lowest

LEMMA CeilingIs ==
  ASSUME Brought, Voltage # 0, NEW w, NEW at, NEW tops, tops = Tops("ChargingStationMaxProfile", at, w), tops # {},
         NEW generators, generators = Tops("LocalGeneration", at, w), NEW limit, limit = limit_at(applicable(w), at, w)
  PROVE  /\ limit # Absent /\ limit[1] \in Int
         /\ limit[1] <= Allowed(profiles[Leader(tops)], at, w)
                        + (IF generators = {} THEN 0 ELSE Allowed(profiles[Leader(generators)], at, w))
<1> DEFINE lead(purpose) == leading(applicable(w), purpose, at, w)
           session == OrElse1(lead("PriorityCharging"), OrElse1(lead("TxProfile"), lead("TxDefaultProfile")))
<1>1. applicable(w) \in SUBSET DOMAIN profiles
  BY DEF applicable
<1>2. ASSUME NEW purpose PROVE lead(purpose) \in Limits \cup {Absent}
  BY <1>1, LeadingIs
<1>3. PICK top, gen : top = lead("ChargingStationMaxProfile") /\ gen = lead("LocalGeneration")
  OBVIOUS
<1>4. top # Absent /\ top \in Limits /\ top[1] = Allowed(profiles[Leader(tops)], at, w)
  BY <1>1, <1>2, <1>3, LeadingIs, TopsApply
<1>5. /\ gen \in Limits \cup {Absent} /\ (generators = {} <=> gen = Absent)
      /\ generators # {} => gen[1] = Allowed(profiles[Leader(generators)], at, w)
  BY <1>1, <1>2, <1>3, LeadingIs, TopsApply
<1>6. session \in Limits \cup {Absent}
  <2> HIDE DEF lead
  <2> QED BY <1>2 DEF OrElse1
<1>7. PICK first, under : first = session /\ under = Lowest(first, top)
  OBVIOUS
<1>8. PICK capped : capped = Lowest(under, lead("ChargingStationExternalConstraints"))
  OBVIOUS
<1>9. under \in Limits \cup {Absent} /\ under # Absent /\ under[1] <= top[1]
  <2>1. first \in Limits \cup {Absent}
    <3> HIDE DEF session
    <3> QED BY <1>6, <1>7
  <2>2. top \in Limits \cup {Absent}
    BY <1>4
  <2>3. /\ Lowest(first, top) \in Limits \cup {Absent}
        /\ top # Absent => Lowest(first, top) # Absent /\ Lowest(first, top)[1] <= top[1]
    BY <2>1, <2>2, LowestIs
  <2>4. under = Lowest(first, top)
    BY <1>7
  <2> QED BY <1>4, <2>3, <2>4
<1>10. capped \in Limits \cup {Absent} /\ capped # Absent /\ capped[1] <= under[1]
  <2> HIDE DEF lead
  <2> QED BY <1>2, <1>8, <1>9, LowestIs
<1>11. limit = IF gen = Absent THEN capped ELSE IF capped = Absent THEN gen ELSE <<capped[1] + gen[1], capped[2]>>
  BY <1>3, <1>7, <1>8 DEF limit_at
<1>12. \A z \in Limits : z[1] \in Int /\ z[2] \in Int \cup {Absent}
  BY DEF Limits
<1>13. /\ capped[1] \in Int /\ top[1] \in Int /\ under[1] \in Int /\ capped[1] <= top[1] /\ capped[2] \in Int \cup {Absent}
       /\ gen # Absent => gen[1] \in Int
  BY <1>4, <1>5, <1>9, <1>10, <1>12
<1>14. CASE gen = Absent
  BY <1>4, <1>5, <1>10, <1>11, <1>13, <1>14
<1>15. CASE gen # Absent
  <2>1. PICK a, b : a = capped[1] + gen[1] /\ b = capped[2]
    OBVIOUS
  <2>2. a \in Int /\ b \in Int \cup {Absent} /\ a <= top[1] + gen[1]
    BY <1>13, <1>15, <2>1
  <2>3. limit = <<a, b>> /\ <<a, b>>[1] = a /\ <<a, b>> \in Limits /\ Absent \notin Limits
    BY <1>10, <1>11, <1>15, <2>1, <2>2, SmartChargingAssumption DEF Limits
  <2> QED BY <1>4, <1>5, <1>15, <2>2, <2>3
<1> QED BY <1>14, <1>15

LEMMA MostGenerated ==
  ASSUME Brought, Voltage # 0, NEW w, NEW at, NEW S, S = Tops("LocalGeneration", at, w), S # {}
  PROVE  /\ Max({Allowed(profiles[i], at, w) : i \in S}) \in Int
         /\ Allowed(profiles[Leader(S)], at, w) \in Int
         /\ Allowed(profiles[Leader(S)], at, w) <= Max({Allowed(profiles[i], at, w) : i \in S})
<1>1. PICK n : n = Len(profiles)
  OBVIOUS
<1>2. n \in Nat /\ S \in SUBSET (1 .. n) /\ S \in SUBSET DOMAIN profiles
  BY <1>1 DEF Tops, Saying, Brought
<1>3. PICK h : h = [i \in S |-> Allowed(profiles[i], at, w)]
  OBVIOUS
<1>4. ASSUME NEW i \in S PROVE Allowed(profiles[i], at, w) \in Int /\ h[i] = Allowed(profiles[i], at, w)
  <2>1. profiles[i] \in Pool /\ Period(profiles[i], at, w) # Absent
    BY <1>2 DEF Brought, Tops, Saying
  <2> QED BY <1>3, <2>1, AllowedIs
<1>5. PICK i \in S : \A j \in S : h[j] <= h[i]
  <2>1. \A i \in S : h[i] \in Int
    BY <1>4
  <2> QED BY <1>2, <2>1, LargestOne
<1>6. PICK A : A = {Allowed(profiles[j], at, w) : j \in S}
  OBVIOUS
<1>7. A \subseteq Int /\ h[i] \in A /\ \A y \in A : h[i] >= y
  BY <1>4, <1>5, <1>6
<1>8. Max(A) \in A /\ \A y \in A : Max(A) >= y
  BY <1>7 DEF Max
<1>9. Leader(S) \in S
  BY <1>2, LeaderIs
<1>10. Allowed(profiles[Leader(S)], at, w) \in A
  BY <1>6, <1>9
<1> QED BY <1>4, <1>6, <1>7, <1>8, <1>9, <1>10

(* Whatever profiles were installed and cleared, the schedule that composite *)
(* computes at the boundaries is right at every instant of the window, and   *)
(* no profile lifts it over the station's ceiling by more than the site      *)
(* generates (composite, boundaries and limit_at of ProfileStore); up to the *)
(* last repetition that boundaries counts, for repeating schedules with a    *)
(* step at their beginning, and the ceiling for a supply with a voltage.     *)
THEOREM ScheduleIsExact == scSpec => []ScheduleExact
<1>1. Brought => CompositeExact
  BY CompositeRight DEF CompositeExact, ExactAt
<1>2. Brought => CeilingHolds
  <2> SUFFICES ASSUME Brought, Voltage # 0, NEW w \in Windows, NEW offset \in 0 .. w.duration - 1, Foreseen(w, offset),
                      NEW at, at = w.from + offset,
                      NEW tops, tops = Tops("ChargingStationMaxProfile", at, w), tops # {},
                      NEW generators, generators = Tops("LocalGeneration", at, w),
                      NEW limit, limit = In(composite(w), offset),
                      NEW generation, generation = IF generators = {} THEN 0
                                                   ELSE Max({Allowed(profiles[i], at, w) : i \in generators})
               PROVE  /\ limit # Absent
                      /\ \E i \in tops : /\ \A j \in tops : profiles[j].stack_level <= profiles[i].stack_level
                                         /\ limit[1] <= Allowed(profiles[i], at, w) + generation
    BY DEF CeilingHolds
  <2>1. limit = limit_at(applicable(w), at, w)
    BY CompositeRight
  <2>2. tops \in SUBSET DOMAIN profiles
    BY DEF Tops, Saying
  <2>3. PICK i : i = Leader(tops)
    OBVIOUS
  <2>4. i \in tops /\ \A j \in tops : profiles[j].stack_level <= profiles[i].stack_level
    BY <2>2, <2>3, LeaderIs
  <2>5. profiles[i] \in Pool /\ Period(profiles[i], at, w) # Absent
    BY <2>2, <2>4 DEF Brought, Tops, Saying
  <2>6. Allowed(profiles[i], at, w) \in Int
    BY <2>5, AllowedIs
  <2>7. PICK most : most = IF generators = {} THEN 0 ELSE Allowed(profiles[Leader(generators)], at, w)
    OBVIOUS
  <2>8. most \in Int /\ generation \in Int /\ most <= generation
    <3>1. CASE generators = {}
      BY <2>7, <3>1
    <3>2. CASE generators # {}
      BY <2>7, <3>2, MostGenerated
    <3> QED BY <3>1, <3>2
  <2>9. limit # Absent /\ limit[1] \in Int /\ limit[1] <= Allowed(profiles[i], at, w) + most
    BY <2>1, <2>3, <2>7, CeilingIs
  <2>10. limit[1] <= Allowed(profiles[i], at, w) + generation
    BY <2>6, <2>8, <2>9
  <2> QED BY <2>4, <2>9, <2>10
<1>3. Brought => ScheduleExact
  BY <1>1, <1>2 DEF ScheduleExact
<1> QED BY <1>3, ProfilesBrought, PTL
-----------------------------------------------------------------------------
(* The device model.                                                        *)

(* A set that is listed by a function with a finite domain is finite.       *)
LEMMA ImageFinite ==
  ASSUME NEW S, IsFiniteSet(S), NEW f, f = [x \in S |-> f[x]], NEW T, T = {f[x] : x \in S}
  PROVE  IsFiniteSet(T)
<1>1. f \in Surjection(S, T)
  BY DEF Surjection
<1> QED BY <1>1, FS_Surjection

(* SetToSeq lists a finite set, each element once.                          *)
LEMMA ListedOnce ==
  ASSUME NEW S, IsFiniteSet(S)
  PROVE  SetToSeq(S) \in Seq(S) /\ ToSet(SetToSeq(S)) = S
<1>1. PICK n : n = Cardinality(S)
  OBVIOUS
<1>2. n \in Nat /\ ExistsBijection(1 .. n, S)
  BY <1>1, FS_CardinalityType
<1>3. PICK g \in Bijection(1 .. n, S) : TRUE
  BY <1>2 DEF ExistsBijection
<1>4. g \in [1 .. n -> S] /\ \A a, b \in 1 .. n : g[a] = g[b] => a = b
  BY <1>3 DEF Bijection, Injection, IsInjective
<1>5. PICK f : f = SetToSeq(S)
  OBVIOUS
<1>6. f \in [1 .. n -> S] /\ IsInjective(f)
  <2>1. IsInjective(g)
    BY <1>4 DEF IsInjective
  <2> QED BY <1>1, <1>4, <1>5, <2>1 DEF SetToSeq
<1>7. f \in Injection(1 .. n, S)
  BY <1>6 DEF Injection, IsInjective
<1>8. Cardinality(1 .. n) = n
  <2>1. 1 \in Int /\ n \in Int /\ (IF 1 > n THEN 0 ELSE n - 1 + 1) = n
    BY <1>2
  <2> QED BY <2>1, FS_Interval
<1>9. f \in Surjection(1 .. n, S)
  BY <1>1, <1>7, <1>8, FS_Injection
<1>10. f \in Seq(S) /\ DOMAIN f = 1 .. n
  BY <1>2, <1>6
<1>11. {f[i] : i \in DOMAIN f} = S
  BY <1>6, <1>9, <1>10 DEF Surjection
<1> QED BY <1>5, <1>10, <1>11 DEF ToSet

(* A variable's values are ones a declaration brought or set would take.    *)
TakesOwn(c, v, spec) ==
  \A a \in supported(spec) :
    spec.values[a] = Unset \/ Declared(c, v, a, spec.values[a]) \/ Suits(spec, spec.values[a])
SpecOk(c, v, spec) == IsSpec(spec) /\ TakesOwn(c, v, spec)
ModelOk(m) ==
  /\ IsFiniteSet(DOMAIN m)
  /\ \A c \in DOMAIN m : IsFiniteSet(DOMAIN m[c]) /\ \A v \in DOMAIN m[c] : SpecOk(c, v, m[c][v])

(* The model with one variable more, or another specification of it.        *)
IsWith(m, c, v, spec, w) ==
  /\ DOMAIN w = DOMAIN m \cup {c}
  /\ DOMAIN w[c] = (IF c \in DOMAIN m THEN DOMAIN m[c] ELSE {}) \cup {v}
  /\ w[c][v] = spec
  /\ \A k \in DOMAIN m : k # c => w[k] = m[k]
  /\ c \in DOMAIN m => \A n \in DOMAIN m[c] : n # v => w[c][n] = m[c][n]

LEMMA WithIs ==
  ASSUME NEW m, NEW c, NEW v, NEW spec
  PROVE  IsWith(m, c, v, spec, With(m, c, v, spec))
<1>0. PICK w : w = With(m, c, v, spec)
  OBVIOUS
<1>1. PICK vs : vs = IF c \in DOMAIN m THEN m[c] ELSE << >>
  OBVIOUS
<1>2. PICK x : x = [n \in DOMAIN vs \cup {v} |-> IF n = v THEN spec ELSE vs[n]]
  OBVIOUS
<1>3. w = [k \in DOMAIN m \cup {c} |-> IF k = c THEN x ELSE m[k]]
  BY <1>0, <1>1, <1>2 DEF With
<1>4. DOMAIN w = DOMAIN m \cup {c} /\ w[c] = x /\ \A k \in DOMAIN m : k # c => w[k] = m[k]
  BY <1>3
<1>5. DOMAIN << >> = {}
  OBVIOUS
<1>6. DOMAIN vs = IF c \in DOMAIN m THEN DOMAIN m[c] ELSE {}
  BY <1>1, <1>5
<1>7. DOMAIN x = DOMAIN vs \cup {v} /\ x[v] = spec /\ \A n \in DOMAIN vs : n # v => x[n] = vs[n]
  BY <1>2
<1> QED BY <1>0, <1>1, <1>4, <1>6, <1>7 DEF IsWith

LEMMA WithOk ==
  ASSUME NEW m, ModelOk(m), NEW c, NEW v, NEW spec, SpecOk(c, v, spec), NEW w, w = With(m, c, v, spec)
  PROVE  ModelOk(w)
<1>1. /\ DOMAIN w = DOMAIN m \cup {c}
      /\ DOMAIN w[c] = (IF c \in DOMAIN m THEN DOMAIN m[c] ELSE {}) \cup {v}
      /\ w[c][v] = spec
      /\ \A k \in DOMAIN m : k # c => w[k] = m[k]
      /\ c \in DOMAIN m => \A n \in DOMAIN m[c] : n # v => w[c][n] = m[c][n]
  <2>1. IsWith(m, c, v, spec, w)
    BY WithIs
  <2> QED BY <2>1 DEF IsWith
<1>2. IsFiniteSet(DOMAIN w)
  BY <1>1, FS_AddElement DEF ModelOk
<1>3. PICK D : D = IF c \in DOMAIN m THEN DOMAIN m[c] ELSE {}
  OBVIOUS
<1>4. IsFiniteSet(D)
  BY <1>3, FS_EmptySet DEF ModelOk
<1>5. IsFiniteSet(DOMAIN w[c])
  <2>1. DOMAIN w[c] = D \cup {v}
    BY <1>1, <1>3
  <2> QED BY <1>4, <2>1, FS_AddElement
<1>6. ASSUME NEW k \in DOMAIN w PROVE IsFiniteSet(DOMAIN w[k]) /\ \A n \in DOMAIN w[k] : SpecOk(k, n, w[k][n])
  <2>1. CASE k # c
    <3>1. k \in DOMAIN m /\ w[k] = m[k]
      BY <1>1, <2>1
    <3> QED BY <3>1 DEF ModelOk
  <2>2. CASE k = c
    <3>1. ASSUME NEW n \in DOMAIN w[c] PROVE SpecOk(c, n, w[c][n])
      <4>1. CASE n = v
        BY <1>1, <4>1
      <4>2. CASE n # v
        <5>1. c \in DOMAIN m /\ n \in DOMAIN m[c]
          BY <1>1, <3>1, <4>2
        <5> QED BY <1>1, <4>2, <5>1 DEF ModelOk
      <4> QED BY <4>1, <4>2
    <3> QED BY <1>5, <2>2, <3>1
  <2> QED BY <2>1, <2>2
<1> QED BY <1>2, <1>6 DEF ModelOk

LEMMA SupportsOk ==
  ASSUME NEW c, NEW v, NEW spec, SpecOk(c, v, spec), NEW attribute
  PROVE  SpecOk(c, v, supports(spec, attribute)) /\ supported(supports(spec, attribute)) = supported(spec) \cup {attribute}
<1>1. PICK x : x = [a \in supported(spec) \cup {attribute} |-> IF a \in supported(spec) THEN spec.values[a] ELSE Unset]
  OBVIOUS
<1>2. PICK t : t = supports(spec, attribute)
  OBVIOUS
<1>3. t = [spec EXCEPT !.values = x]
  BY <1>1, <1>2 DEF supports
<1>4. /\ t = [data_type |-> spec.data_type, mutability |-> spec.mutability, values_list |-> spec.values_list,
              min_limit |-> spec.min_limit, max_limit |-> spec.max_limit, constant |-> spec.constant,
              reboot_required |-> spec.reboot_required, values |-> x]
  BY <1>3 DEF SpecOk, IsSpec
<1>5. /\ t.values = x /\ t.data_type = spec.data_type /\ t.mutability = spec.mutability
      /\ t.values_list = spec.values_list /\ t.min_limit = spec.min_limit /\ t.max_limit = spec.max_limit
      /\ t.constant = spec.constant /\ t.reboot_required = spec.reboot_required
  BY <1>4
<1>6. DOMAIN x = supported(spec) \cup {attribute} /\ x = [a \in DOMAIN x |-> x[a]]
  BY <1>1
<1>7. "Actual" \in supported(spec)
  BY DEF SpecOk, IsSpec
<1>8. IsSpec(t)
  BY <1>4, <1>5, <1>6, <1>7 DEF IsSpec, supported
<1>9. \A a \in DOMAIN x : x[a] = Unset \/ (a \in supported(spec) /\ x[a] = spec.values[a])
  BY <1>1
<1>10. \A number : Beyond(t, number) <=> Beyond(spec, number)
  BY <1>5 DEF Beyond
<1>11. TakesOwn(c, v, t)
  <2> SUFFICES ASSUME NEW a \in supported(t), t.values[a] # Unset
               PROVE  Declared(c, v, a, t.values[a]) \/ Suits(t, t.values[a])
    BY DEF TakesOwn
  <2>1. a \in supported(spec) /\ t.values[a] = spec.values[a] /\ spec.values[a] # Unset
    BY <1>5, <1>9 DEF supported
  <2>2. Declared(c, v, a, spec.values[a]) \/ Suits(spec, spec.values[a])
    BY <2>1 DEF SpecOk, TakesOwn
  <2> QED BY <1>5, <1>10, <2>1, <2>2 DEF Suits
<1>12. supported(t) = supported(spec) \cup {attribute}
  BY <1>5, <1>6 DEF supported
<1> QED BY <1>2, <1>8, <1>11, <1>12 DEF SpecOk

LEMMA NewSpecOk ==
  ASSUME NEW c, NEW v, NEW data_type
  PROVE  SpecOk(c, v, VariableSpec(data_type)) /\ supported(VariableSpec(data_type)) = {"Actual"}
<1>1. PICK t, x : t = VariableSpec(data_type) /\ x = [a \in {"Actual"} |-> Unset]
  OBVIOUS
<1>2. t = [data_type |-> data_type, mutability |-> "ReadOnly", values_list |-> {}, min_limit |-> Unread,
           max_limit |-> Unread, constant |-> FALSE, reboot_required |-> FALSE, values |-> x]
  BY <1>1 DEF VariableSpec
<1>3. /\ t.data_type = data_type /\ t.mutability = "ReadOnly" /\ t.values_list = {} /\ t.min_limit = Unread
      /\ t.max_limit = Unread /\ t.constant = FALSE /\ t.reboot_required = FALSE /\ t.values = x
  BY <1>2
<1>4. DOMAIN x = {"Actual"} /\ x = [a \in DOMAIN x |-> x[a]]
  BY <1>1
<1>5. IsSpec(t)
  BY <1>2, <1>3, <1>4 DEF IsSpec, supported
<1>6. TakesOwn(c, v, t)
  BY <1>1, <1>3, <1>4 DEF TakesOwn, supported
<1> QED BY <1>1, <1>3, <1>4, <1>5, <1>6 DEF SpecOk, supported

LEMMA SetOk ==
  ASSUME NEW c, NEW v, NEW spec, SpecOk(c, v, spec), NEW attribute \in supported(spec), NEW text,
         accepts(spec.data_type, text, spec.values_list), ~outside(spec, text)
  PROVE  SpecOk(c, v, [spec EXCEPT !.values[attribute] = text])
<1>1. PICK x : x = [spec.values EXCEPT ![attribute] = text]
  OBVIOUS
<1>2. PICK t : t = [spec EXCEPT !.values[attribute] = text]
  OBVIOUS
<1>3. t = [data_type |-> spec.data_type, mutability |-> spec.mutability, values_list |-> spec.values_list,
           min_limit |-> spec.min_limit, max_limit |-> spec.max_limit, constant |-> spec.constant,
           reboot_required |-> spec.reboot_required, values |-> x]
  BY <1>1, <1>2 DEF SpecOk, IsSpec
<1>4. /\ t.values = x /\ t.data_type = spec.data_type /\ t.mutability = spec.mutability
      /\ t.values_list = spec.values_list /\ t.min_limit = spec.min_limit /\ t.max_limit = spec.max_limit
      /\ t.constant = spec.constant /\ t.reboot_required = spec.reboot_required
  BY <1>3
<1>5. DOMAIN x = supported(spec) /\ x = [a \in DOMAIN x |-> x[a]]
  BY <1>1 DEF supported
<1>6. IsSpec(t)
  BY <1>3, <1>4, <1>5 DEF IsSpec, supported, SpecOk
<1>7. x[attribute] = text /\ \A a \in supported(spec) : a # attribute => x[a] = spec.values[a]
  BY <1>1 DEF supported
<1>8. \A number : Beyond(t, number) <=> Beyond(spec, number)
  BY <1>4 DEF Beyond
<1>9. TakesOwn(c, v, t)
  <2> SUFFICES ASSUME NEW a \in supported(t), t.values[a] # Unset
               PROVE  Declared(c, v, a, t.values[a]) \/ Suits(t, t.values[a])
    BY DEF TakesOwn
  <2>1. a \in supported(spec)
    BY <1>4, <1>5 DEF supported
  <2>2. CASE a = attribute
    <3>1. t.values[a] = text
      BY <1>4, <1>7, <2>2
    <3>2. Suits(spec, text)
      BY DEF outside, Suits
    <3> QED BY <1>4, <1>8, <3>1, <3>2 DEF Suits
  <2>3. CASE a # attribute
    <3>1. t.values[a] = spec.values[a] /\ spec.values[a] # Unset
      BY <1>4, <1>7, <2>1, <2>3
    <3>2. Declared(c, v, a, spec.values[a]) \/ Suits(spec, spec.values[a])
      BY <2>1, <3>1 DEF SpecOk, TakesOwn
    <3> QED BY <1>4, <1>8, <3>1, <3>2 DEF Suits
  <2> QED BY <2>2, <2>3
<1> QED BY <1>2, <1>6, <1>9 DEF SpecOk

(* One row of the catalogue.                                                *)
AfterRow(m, c, row, w) ==
  /\ ModelOk(w)
  /\ Known(w, c, row.variable)
  /\ OtherAttribute(row) => row.attribute \in supported(w[c][row.variable])
  /\ \A v : v # row.variable /\ Known(m, c, v) => Known(w, c, v) /\ w[c][v] = m[c][v]
  /\ OtherAttribute(row) /\ Known(m, c, row.variable) =>
       supported(m[c][row.variable]) \subseteq supported(w[c][row.variable])

LEMMA RowOk ==
  ASSUME NEW m, ModelOk(m), NEW c, NEW row
  PROVE  AfterRow(m, c, row, Row(m, c, row))
<1>0. PICK w : w = Row(m, c, row)
  OBVIOUS
<1>1. PICK v : v = row.variable
  OBVIOUS
<1>2. PICK spec : spec = IF OtherAttribute(row)
                         THEN supports(IF Known(m, c, v) THEN m[c][v] ELSE VariableSpec(row.data_type), row.attribute)
                         ELSE VariableSpec(row.data_type)
  OBVIOUS
<1>3. w = With(m, c, v, spec)
  BY <1>0, <1>1, <1>2 DEF Row
<1>4. Known(m, c, v) => SpecOk(c, v, m[c][v])
  BY DEF Known, ModelOk
<1>5. /\ SpecOk(c, v, spec)
      /\ OtherAttribute(row) => row.attribute \in supported(spec)
      /\ OtherAttribute(row) /\ Known(m, c, v) => supported(m[c][v]) \subseteq supported(spec)
  <2>1. CASE ~OtherAttribute(row)
    BY <1>2, <2>1, NewSpecOk
  <2>2. CASE OtherAttribute(row)
    <3>1. PICK old : old = IF Known(m, c, v) THEN m[c][v] ELSE VariableSpec(row.data_type)
      OBVIOUS
    <3>2. SpecOk(c, v, old)
      BY <1>4, <3>1, NewSpecOk
    <3>3. SpecOk(c, v, supports(old, row.attribute))
          /\ supported(supports(old, row.attribute)) = supported(old) \cup {row.attribute}
      BY <3>2, SupportsOk
    <3>4. spec = supports(old, row.attribute)
      BY <1>2, <2>2, <3>1
    <3> QED BY <3>1, <3>3, <3>4
  <2> QED BY <2>1, <2>2
<1>6. ModelOk(w)
  BY <1>3, <1>5, WithOk
<1>7. /\ DOMAIN w = DOMAIN m \cup {c}
      /\ DOMAIN w[c] = (IF c \in DOMAIN m THEN DOMAIN m[c] ELSE {}) \cup {v}
      /\ w[c][v] = spec
      /\ \A k \in DOMAIN m : k # c => w[k] = m[k]
      /\ c \in DOMAIN m => \A n \in DOMAIN m[c] : n # v => w[c][n] = m[c][n]
  <2>1. IsWith(m, c, v, spec, w)
    BY <1>3, WithIs
  <2> QED BY <2>1 DEF IsWith
<1>8. Known(w, c, v)
  BY <1>7 DEF Known
<1>9. \A n : n # v /\ Known(m, c, n) => Known(w, c, n) /\ w[c][n] = m[c][n]
  BY <1>7 DEF Known
<1> QED BY <1>0, <1>1, <1>5, <1>6, <1>7, <1>8, <1>9 DEF AfterRow

RowWalk(m, c, rows, f, n) == f = [i \in 0 .. n |-> IF i = 0 THEN m ELSE Row(f[i - 1], c, rows[i])]
Plain(name) == [name |-> name, evse |-> Unread]

LEMMA StandardIs ==
  ASSUME NEW name, NEW g, RowWalk(model, Plain(name), Catalogue[name], g, Len(Catalogue[name]))
  PROVE  \E f : RowWalk(model, Plain(name), Catalogue[name], f, Len(Catalogue[name])) /\ Standard(name) = f[Len(Catalogue[name])]
BY DEF Standard, RowWalk, Plain

LEMMA RowWalkExists ==
  ASSUME NEW m, NEW c, NEW rows, NEW d \in Nat
  PROVE  \E f : RowWalk(m, c, rows, f, d)
<1> DEFINE Bad == {n \in Nat : ~\E f : RowWalk(m, c, rows, f, n)}
<1> SUFFICES ASSUME d \in Bad PROVE FALSE
  OBVIOUS
<1>1. PICK n \in Bad : \A k \in Bad : n <= k
  BY LeastOne
<1>2. CASE n = 0
  <2>1. PICK f : f = [i \in 0 .. 0 |-> m]
    OBVIOUS
  <2>2. RowWalk(m, c, rows, f, 0)
    BY <2>1 DEF RowWalk
  <2> QED BY <1>2, <2>2
<1>3. CASE n > 0
  <2>1. n \in Nat /\ n - 1 \in Nat /\ ~(n <= n - 1)
    BY <1>3
  <2>2. PICK f : RowWalk(m, c, rows, f, n - 1)
    BY <1>1, <2>1
  <2>3. PICK g : g = [i \in 0 .. n |-> IF i = n THEN Row(f[n - 1], c, rows[n]) ELSE f[i]]
    OBVIOUS
  <2>4. \A i \in 0 .. n - 1 : f[i] = IF i = 0 THEN m ELSE Row(f[i - 1], c, rows[i])
    BY <2>2 DEF RowWalk
  <2>5. g[n] = Row(f[n - 1], c, rows[n]) /\ \A i \in 0 .. n - 1 : g[i] = f[i]
    BY <2>1, <2>3
  <2>6. ASSUME NEW i \in 0 .. n
        PROVE  g[i] = IF i = 0 THEN m ELSE Row(g[i - 1], c, rows[i])
    <3>1. CASE i = n
      <4>1. i - 1 \in 0 .. n - 1 /\ i # 0
        BY <1>3, <2>1, <3>1
      <4>2. g[i - 1] = f[i - 1]
        BY <2>5, <4>1
      <4> QED BY <2>5, <3>1, <4>1, <4>2
    <3>2. CASE i # n
      <4>1. i \in 0 .. n - 1 /\ (i = 0 \/ i - 1 \in 0 .. n - 1)
        BY <2>1, <3>2
      <4> QED BY <2>4, <2>5, <4>1
    <3> QED BY <3>1, <3>2
  <2>7. g = [i \in 0 .. n |-> g[i]]
    BY <2>3
  <2>8. RowWalk(m, c, rows, g, n)
    BY <2>6, <2>7 DEF RowWalk
  <2> QED BY <2>8
<1> QED BY <1>2, <1>3

Taken(m, c, row) ==
  Known(m, c, row.variable) /\ (OtherAttribute(row) => row.attribute \in supported(m[c][row.variable]))

LEMMA RowTakes ==
  ASSUME NEW m, ModelOk(m), NEW c, NEW rows, Len(rows) \in Nat, AttributesLast(rows),
         NEW n \in 1 .. Len(rows), \A i \in 1 .. n - 1 : Taken(m, c, rows[i])
  PROVE  ModelOk(Row(m, c, rows[n])) /\ \A i \in 1 .. n : Taken(Row(m, c, rows[n]), c, rows[i])
<1>1. PICK row, w : row = rows[n] /\ w = Row(m, c, row)
  OBVIOUS
<1>2. /\ ModelOk(w)
      /\ Known(w, c, row.variable)
      /\ OtherAttribute(row) => row.attribute \in supported(w[c][row.variable])
      /\ \A v : v # row.variable /\ Known(m, c, v) => Known(w, c, v) /\ w[c][v] = m[c][v]
      /\ OtherAttribute(row) /\ Known(m, c, row.variable) =>
           supported(m[c][row.variable]) \subseteq supported(w[c][row.variable])
  <2>1. AfterRow(m, c, row, w)
    BY <1>1, RowOk
  <2> QED BY <2>1 DEF AfterRow
<1>3. ASSUME NEW i \in 1 .. n PROVE Taken(w, c, rows[i])
  <2>1. CASE i = n
    BY <1>1, <1>2, <2>1 DEF Taken
  <2>2. CASE i # n
    <3>1. i \in 1 .. n - 1 /\ i \in 1 .. Len(rows) /\ n \in 1 .. Len(rows) /\ i < n
      BY <2>2
    <3>2. Taken(m, c, rows[i])
      BY <3>1
    <3>3. CASE rows[i].variable # row.variable
      BY <1>2, <3>2, <3>3 DEF Taken
    <3>4. CASE rows[i].variable = row.variable
      <4>1. OtherAttribute(rows[i]) => OtherAttribute(row)
        BY <1>1, <3>1, <3>4 DEF AttributesLast
      <4> QED BY <1>2, <3>2, <3>4, <4>1 DEF Taken
    <3> QED BY <3>3, <3>4
  <2> QED BY <2>1, <2>2
<1> QED BY <1>1, <1>2, <1>3

LEMMA StandardTakes ==
  ASSUME ModelOk(model), NEW name \in DOMAIN Catalogue, AttributesLast(Catalogue[name])
  PROVE  /\ ModelOk(Standard(name))
         /\ \A i \in 1 .. Len(Catalogue[name]) : Taken(Standard(name), Plain(name), Catalogue[name][i])
<1>1. PICK rows, len, c : rows = Catalogue[name] /\ len = Len(Catalogue[name]) /\ c = Plain(name)
  OBVIOUS
<1>2. len \in Nat /\ len = Len(rows)
  BY <1>1, DeviceModelAssumption
<1>3. PICK f : RowWalk(model, c, rows, f, len) /\ Standard(name) = f[len]
  <2>1. PICK g : RowWalk(model, c, rows, g, len)
    BY <1>2, RowWalkExists
  <2> QED BY <1>1, <2>1, StandardIs
<1>4. \A n \in 0 .. len : f[n] = IF n = 0 THEN model ELSE Row(f[n - 1], c, rows[n])
  BY <1>3 DEF RowWalk
<1> DEFINE H(n) == ModelOk(f[n]) /\ \A i \in 1 .. n : Taken(f[n], c, rows[i])
<1> DEFINE Bad == {n \in 0 .. len : ~H(n)}
<1>5. ASSUME Bad # {} PROVE FALSE
  <2>1. Bad \subseteq Nat
    BY <1>2
  <2>2. PICK n \in Bad : \A k \in Bad : n <= k
    BY <1>5, <2>1, LeastOne
  <2>3. n \in 0 .. len /\ ~H(n)
    OBVIOUS
  <2>4. CASE n = 0
    <3>1. f[n] = model
      BY <1>4, <2>3, <2>4
    <3> QED BY <2>3, <2>4, <3>1
  <2>5. CASE n # 0
    <3>1. n \in 1 .. len /\ n - 1 \in 0 .. len /\ ~(n <= n - 1)
      BY <1>2, <2>3, <2>5
    <3>2. H(n - 1)
      BY <2>2, <3>1
    <3>3. f[n] = Row(f[n - 1], c, rows[n])
      BY <1>4, <2>3, <2>5
    <3>4. AttributesLast(rows) /\ Len(rows) \in Nat /\ n \in 1 .. Len(rows)
      BY <1>1, <1>2, <3>1
    <3>5. ModelOk(Row(f[n - 1], c, rows[n])) /\ \A i \in 1 .. n : Taken(Row(f[n - 1], c, rows[n]), c, rows[i])
      BY <3>2, <3>4, RowTakes
    <3> QED BY <2>3, <3>3, <3>5
  <2> QED BY <2>4, <2>5
<1>6. H(len)
  <2>1. len \in 0 .. len
    BY <1>2
  <2> QED BY <1>5, <2>1
<1> QED BY <1>1, <1>3, <1>6

-----------------------------------------------------------------------------
(* The registry is always sound.                                            *)

Sound == ModelOk(model)

LEMMA SoundStarts ==
  ASSUME dmInit
  PROVE  Sound
<1>1. DOMAIN model = {}
  BY DEF dmInit
<1> QED BY <1>1, FS_EmptySet DEF Sound, ModelOk

LEMMA SoundStep ==
  ASSUME Sound, dmNext
  PROVE  Sound'
<1>1. ASSUME NEW d \in Declarations, declare(d) PROVE ModelOk(model')
  <2>1. model' = With(model, d.component, d.variable, d.spec)
    BY <1>1 DEF declare
  <2>2. SpecOk(d.component, d.variable, d.spec)
    BY DeviceModelAssumption DEF SpecOk, TakesOwn, Declared
  <2> QED BY <2>1, <2>2, WithOk DEF Sound
<1>2. ASSUME NEW name \in DOMAIN Catalogue, declare_standard(name) PROVE ModelOk(model')
  BY <1>2, StandardTakes, CatalogueAssumption DEF Sound, declare_standard
<1>3. ASSUME NEW c \in DOMAIN model, NEW v \in DOMAIN model[c], NEW attribute \in Attributes, NEW text \in Settings,
             set_variable(c, v, attribute, text)
      PROVE  ModelOk(model')
  <2>1. PICK spec : spec = model[c][v]
    OBVIOUS
  <2>2. SpecOk(c, v, spec)
    BY <2>1 DEF Sound, ModelOk
  <2>3. attribute \in supported(spec) /\ accepts(spec.data_type, text, spec.values_list) /\ ~outside(spec, text)
    BY <1>3, <2>1 DEF set_variable, set_status, Stored
  <2>4. SpecOk(c, v, [spec EXCEPT !.values[attribute] = text])
    BY <2>2, <2>3, SetOk
  <2>5. model' = With(model, c, v, [spec EXCEPT !.values[attribute] = text])
    BY <1>3, <2>1 DEF set_variable
  <2> QED BY <2>4, <2>5, WithOk DEF Sound
<1>4. ModelOk(model')
  BY <1>1, <1>2, <1>3 DEF dmNext
<1> QED BY <1>4 DEF Sound

LEMMA RegistrySound == dmSpec => []Sound
<1>1. dmInit => Sound
  BY SoundStarts
<1>2. Sound /\ [dmNext]_model => Sound'
  <2> SUFFICES ASSUME Sound, [dmNext]_model PROVE Sound'
    OBVIOUS
  <2>1. CASE dmNext
    BY <2>1, SoundStep
  <2>2. CASE UNCHANGED model
    BY <2>2 DEF Sound
  <2> QED BY <2>1, <2>2
<1> QED BY <1>1, <1>2, PTL DEF dmSpec

LEMMA ValuesAlwaysFit ==
  ASSUME Sound
  PROVE  ValuesFit
<1> SUFFICES ASSUME NEW c \in DOMAIN model, NEW v \in DOMAIN model[c], NEW a \in SetHere(c, v)
             PROVE  Suits(model[c][v], model[c][v].values[a])
  BY DEF ValuesFit
<1>1. TakesOwn(c, v, model[c][v])
  BY DEF Sound, ModelOk, SpecOk
<1> QED BY <1>1 DEF TakesOwn, SetHere

LEMMA CatalogueAlwaysComplete ==
  ASSUME Sound
  PROVE  CatalogueComplete
<1> SUFFICES ASSUME NEW name \in DOMAIN Catalogue, NEW i \in DOMAIN Catalogue[name],
                    NEW row, row = Catalogue[name][i],
                    NEW spec, spec = Standard(name)[Plain(name)][row.variable]
             PROVE  (row.attribute \in Attributes => row.attribute \in supported(spec)) /\ "Actual" \in supported(spec)
  BY DEF CatalogueComplete, Plain
<1>1. i \in 1 .. Len(Catalogue[name])
  BY DeviceModelAssumption
<1>2. ModelOk(Standard(name)) /\ Taken(Standard(name), Plain(name), row)
  BY <1>1, StandardTakes, CatalogueAssumption DEF Sound
<1>3. Known(Standard(name), Plain(name), row.variable) /\ (OtherAttribute(row) => row.attribute \in supported(spec))
  BY <1>2 DEF Taken
<1>4. SpecOk(Plain(name), row.variable, spec)
  BY <1>2, <1>3 DEF ModelOk, Known
<1>5. "Actual" \in supported(spec)
  BY <1>4 DEF SpecOk, IsSpec
<1> QED BY <1>3, <1>5 DEF OtherAttribute

-----------------------------------------------------------------------------
(* What a report lists.                                                     *)

Included(base) ==
  {e \in Registered : /\ base = "ConfigurationInventory" => writable(model[e[1]][e[2]].mutability)
                      /\ base = "SummaryInventory" => is_summary_variable(e[2].name)}
Data(base) == {Datum(e[1], e[2]) : e \in Included(base)}

LEMMA RegisteredAre ==
  /\ \A e \in Registered : e = <<e[1], e[2]>> /\ e[1] \in DOMAIN model /\ e[2] \in DOMAIN model[e[1]]
  /\ \A c \in DOMAIN model : \A v \in DOMAIN model[c] : <<c, v>> \in Registered
BY DEF Registered

LEMMA RegisteredFinite ==
  ASSUME Sound
  PROVE  IsFiniteSet(Registered)
<1>1. PICK f : f = [c \in DOMAIN model |-> {c} \X DOMAIN model[c]]
  OBVIOUS
<1>2. PICK T : T = {f[c] : c \in DOMAIN model}
  OBVIOUS
<1>3. f = [c \in DOMAIN model |-> f[c]]
  BY <1>1
<1>4. IsFiniteSet(DOMAIN model)
  BY DEF Sound, ModelOk
<1>5. IsFiniteSet(T)
  BY <1>2, <1>3, <1>4, ImageFinite
<1>6. ASSUME NEW t \in T PROVE IsFiniteSet(t)
  <2>1. PICK c \in DOMAIN model : t = {c} \X DOMAIN model[c]
    BY <1>1, <1>2
  <2>2. IsFiniteSet({c}) /\ IsFiniteSet(DOMAIN model[c])
    BY FS_Singleton DEF Sound, ModelOk
  <2> QED BY <2>1, <2>2, FS_Product
<1>7. IsFiniteSet(UNION T)
  BY <1>5, <1>6, FS_UNION
<1>8. Registered = UNION T
  BY <1>1, <1>2 DEF Registered
<1> QED BY <1>7, <1>8

LEMMA ReportIs ==
  ASSUME Sound, NEW base
  PROVE  report(base, Unread, Unread) \in Seq(Data(base)) /\ ToSet(report(base, Unread, Unread)) = Data(base)
<1>1. report(base, Unread, Unread) = SetToSeq(Data(base))
  BY DEF report, Data, Included
<1>2. IsFiniteSet(Included(base))
  <2>1. Included(base) \in SUBSET Registered
    BY DEF Included
  <2> QED BY <2>1, RegisteredFinite, FS_Subset
<1>3. IsFiniteSet(Data(base))
  <2>1. PICK f : f = [e \in Included(base) |-> Datum(e[1], e[2])]
    OBVIOUS
  <2>2. f = [e \in Included(base) |-> f[e]]
    BY <2>1
  <2>3. Data(base) = {f[e] : e \in Included(base)}
    BY <2>1 DEF Data
  <2> QED BY <1>2, <2>2, <2>3, ImageFinite
<1> QED BY <1>1, <1>3, ListedOnce

LEMMA DatumIs ==
  ASSUME NEW c, NEW v
  PROVE  /\ Datum(c, v).component = c /\ Datum(c, v).variable = v
         /\ DOMAIN Datum(c, v).attributes = supported(model[c][v])
         /\ \A a \in supported(model[c][v]) :
              Datum(c, v).attributes[a] = IF readable(model[c][v].mutability) THEN model[c][v].values[a] ELSE Unset
BY DEF Datum

(* One entry of the full inventory, as get and set know it.                  *)
LEMMA EntryAgrees ==
  ASSUME NEW c \in DOMAIN model, NEW v \in DOMAIN model[c], NEW a \in Attributes
  PROVE  LET d == Datum(c, v)
             answer == get_variable(c, v, a)
         IN /\ answer = "Accepted" => a \in DOMAIN d.attributes /\ d.attributes[a] = model[c][v].values[a]
            /\ answer = "NotSupportedAttributeType" => a \notin DOMAIN d.attributes
            /\ answer = "Rejected" => \A b \in DOMAIN d.attributes : d.attributes[b] = Unset
            /\ \A text : set_status(c, v, a, text) \in Stored =>
                 a \in DOMAIN d.attributes /\ d \in Data("ConfigurationInventory")
<1>1. PICK d, spec : d = Datum(c, v) /\ spec = model[c][v]
  OBVIOUS
<1>2. /\ DOMAIN d.attributes = supported(spec)
      /\ \A b \in supported(spec) : d.attributes[b] = IF readable(spec.mutability) THEN spec.values[b] ELSE Unset
  BY <1>1, DatumIs
<1>3. get_variable(c, v, a) = IF ~readable(spec.mutability) THEN "Rejected"
                              ELSE IF a \notin supported(spec) THEN "NotSupportedAttributeType" ELSE "Accepted"
  BY <1>1 DEF get_variable
<1>4. ASSUME NEW text, set_status(c, v, a, text) \in Stored
      PROVE  a \in supported(spec) /\ writable(spec.mutability)
  BY <1>1, <1>4 DEF set_status, Stored
<1>5. writable(spec.mutability) => d \in Data("ConfigurationInventory")
  <2> SUFFICES ASSUME writable(spec.mutability) PROVE d \in Data("ConfigurationInventory")
    OBVIOUS
  <2>1. PICK e : e = <<c, v>>
    OBVIOUS
  <2>2. e \in Registered /\ e[1] = c /\ e[2] = v
    BY <2>1, RegisteredAre
  <2>3. e \in Included("ConfigurationInventory")
    BY <1>1, <2>2 DEF Included
  <2> QED BY <1>1, <2>2, <2>3 DEF Data
<1> QED BY <1>1, <1>2, <1>3, <1>4, <1>5

LEMMA ReportAlwaysAgrees ==
  ASSUME Sound
  PROVE  ReportAgrees
<1>1. PICK listed, configuration : /\ listed = ToSet(report("FullInventory", Unread, Unread))
                                   /\ configuration = ToSet(report("ConfigurationInventory", Unread, Unread))
  OBVIOUS
<1>2. listed = Data("FullInventory") /\ configuration = Data("ConfigurationInventory")
  BY <1>1, ReportIs
<1>3. Included("FullInventory") = Registered
  BY DEF Included
<1>4. \A d \in listed : \E c \in DOMAIN model : \E v \in DOMAIN model[c] : d = Datum(c, v)
  BY <1>2, <1>3, RegisteredAre DEF Data
<1>5. ASSUME NEW c \in DOMAIN model, NEW v \in DOMAIN model[c]
      PROVE  Cardinality({d \in listed : d.component = c /\ d.variable = v}) = 1
  <2>1. PICK e : e = <<c, v>>
    OBVIOUS
  <2>2. e \in Registered /\ e[1] = c /\ e[2] = v
    BY <2>1, RegisteredAre
  <2>3. Datum(c, v) \in listed
    BY <1>2, <1>3, <2>2 DEF Data
  <2>4. {d \in listed : d.component = c /\ d.variable = v} = {Datum(c, v)}
    <3>1. Datum(c, v).component = c /\ Datum(c, v).variable = v
      BY DatumIs
    <3>2. ASSUME NEW d \in listed, d.component = c, d.variable = v PROVE d = Datum(c, v)
      <4>1. PICK k \in DOMAIN model : \E n \in DOMAIN model[k] : d = Datum(k, n)
        BY <1>4
      <4>2. PICK n \in DOMAIN model[k] : d = Datum(k, n)
        BY <4>1
      <4>3. d.component = k /\ d.variable = n
        BY <4>2, DatumIs
      <4> QED BY <3>2, <4>2, <4>3
    <3> QED BY <2>3, <3>1, <3>2
  <2> QED BY <2>4, FS_Singleton
<1>6. ASSUME NEW d \in listed, NEW a \in Attributes, NEW answer, answer = get_variable(d.component, d.variable, a)
      PROVE  /\ answer = "Accepted" =>
                  a \in DOMAIN d.attributes /\ d.attributes[a] = model[d.component][d.variable].values[a]
             /\ answer = "NotSupportedAttributeType" => a \notin DOMAIN d.attributes
             /\ answer = "Rejected" => \A b \in DOMAIN d.attributes : d.attributes[b] = Unset
             /\ (\E text \in Settings : set_status(d.component, d.variable, a, text) \in Stored) =>
                  a \in DOMAIN d.attributes /\ d \in configuration
  <2>1. PICK c \in DOMAIN model : \E v \in DOMAIN model[c] : d = Datum(c, v)
    BY <1>4
  <2>2. PICK v \in DOMAIN model[c] : d = Datum(c, v)
    BY <2>1
  <2>3. d.component = c /\ d.variable = v
    BY <2>2, DatumIs
  <2> QED BY <1>2, <1>6, <2>2, <2>3, EntryAgrees
<1> QED BY <1>1, <1>5, <1>6 DEF ReportAgrees

-----------------------------------------------------------------------------
(* A report in pages.                                                       *)

LEMMA Joined ==
  ASSUME NEW S, NEW data \in Seq(S), NEW a \in Nat, NEW b \in Nat, a <= b, b <= Len(data)
  PROVE  SubSeq(data, 1, a) \o SubSeq(data, a + 1, b) = SubSeq(data, 1, b)
<1>1. PICK x, y, z : x = SubSeq(data, 1, a) /\ y = SubSeq(data, a + 1, b) /\ z = SubSeq(data, 1, b)
  OBVIOUS
<1>2. x \in Seq(S) /\ Len(x) = a /\ \A i \in 1 .. a : x[i] = data[i]
  BY <1>1
<1>3. y \in Seq(S) /\ Len(y) = b - a /\ \A i \in 1 .. b - a : y[i] = data[i + a]
  BY <1>1
<1>4. z \in Seq(S) /\ Len(z) = b /\ \A i \in 1 .. b : z[i] = data[i]
  BY <1>1
<1>5. x \o y \in Seq(S) /\ Len(x \o y) = b
  <2>0. x \in Seq(S) /\ y \in Seq(S)
    BY <1>2, <1>3
  <2>1. x \o y \in Seq(S) /\ Len(x \o y) = Len(x) + Len(y)
    BY <2>0
  <2>2. a + (b - a) = b
    OBVIOUS
  <2> QED BY <1>2, <1>3, <2>1, <2>2
<1>6. ASSUME NEW i \in 1 .. b PROVE (x \o y)[i] = z[i]
  <2>1. CASE i <= a
    BY <1>2, <1>3, <1>4, <2>1
  <2>2. CASE ~(i <= a)
    <3>1. i - a \in 1 .. b - a /\ i - a + a = i
      BY <2>2
    <3>2. (x \o y)[i] = y[i - a]
      <4>1. x \in Seq(S) /\ y \in Seq(S) /\ Len(x) = a /\ i \in 1 .. Len(x) + Len(y) /\ ~(i <= Len(x))
        BY <1>2, <1>3, <2>2
      <4>2. (x \o y)[i] = y[i - Len(x)]
        BY <4>1
      <4> QED BY <4>1, <4>2
    <3> QED BY <1>3, <1>4, <3>1, <3>2
  <2> QED BY <2>1, <2>2
<1>7. x \o y = [i \in 1 .. b |-> (x \o y)[i]] /\ z = [i \in 1 .. b |-> z[i]]
  <2>1. \A u \in Seq(S) : u = [i \in 1 .. Len(u) |-> u[i]]
    OBVIOUS
  <2> QED BY <1>4, <1>5, <2>1
<1> QED BY <1>1, <1>6, <1>7

LEMMA Whole ==
  ASSUME NEW S, NEW data \in Seq(S)
  PROVE  SubSeq(data, 1, Len(data)) = data
OBVIOUS

Flat(seqs, f, n) == f = [i \in 1 .. n |-> IF i = 1 THEN seqs[i] ELSE f[i - 1] \o seqs[i]]

LEMMA FlattenIs ==
  ASSUME NEW seqs, NEW g, Flat(seqs, g, Len(seqs)), Len(seqs) # 0
  PROVE  \E f : Flat(seqs, f, Len(seqs)) /\ FlattenSeq(seqs) = f[Len(seqs)]
BY DEF FlattenSeq, Flat

LEMMA FlatIs ==
  ASSUME NEW seqs, NEW n \in Nat \ {0}, NEW f, NEW g, Flat(seqs, f, n), Flat(seqs, g, n)
  PROVE  f[n] = g[n]
<1> DEFINE Bad == {i \in 1 .. n : f[i] # g[i]}
<1>1. ASSUME Bad # {} PROVE FALSE
  <2>0. Bad \subseteq Nat
    OBVIOUS
  <2>1. PICK i \in Bad : \A k \in Bad : i <= k
    BY <1>1, <2>0, LeastOne
  <2>2. \A k \in 1 .. n : /\ f[k] = (IF k = 1 THEN seqs[k] ELSE f[k - 1] \o seqs[k])
                          /\ g[k] = (IF k = 1 THEN seqs[k] ELSE g[k - 1] \o seqs[k])
    BY DEF Flat
  <2>3. i # 1
    BY <2>1, <2>2
  <2>4. i - 1 \in 1 .. n /\ ~(i <= i - 1)
    BY <2>1, <2>3
  <2>5. f[i - 1] = g[i - 1]
    BY <2>1, <2>4
  <2> QED BY <2>1, <2>2, <2>3, <2>5
<1>2. n \in 1 .. n
  OBVIOUS
<1> QED BY <1>1, <1>2

(* The number of pages.                                                     *)
Counted(len, size, amount) ==
  /\ amount \in Nat \ {0} /\ len <= amount * size
  /\ len # 0 => (amount - 1) * size < len
  /\ len = 0 => amount = 1

LEMMA PageCount ==
  ASSUME NEW len \in Nat, NEW size \in Nat \ {0}
  PROVE  Counted(len, size, larger_one((len + size - 1) \div size))
<1>0. PICK amount : amount = larger_one((len + size - 1) \div size)
  OBVIOUS
<1> SUFFICES /\ amount \in Nat \ {0} /\ len <= amount * size
             /\ len # 0 => (amount - 1) * size < len
             /\ len = 0 => amount = 1
  BY <1>0 DEF Counted
<1>1. PICK q, r : q = (len + size - 1) \div size /\ r = (len + size - 1) % size
  OBVIOUS
<1>2. q \in Int /\ r \in 0 .. size - 1 /\ len + size - 1 = size * q + r
  <2>1. len + size - 1 \in Int
    OBVIOUS
  <2> QED BY <1>1, <2>1, DayIs
<1>3. q >= 0
  <2> SUFFICES ASSUME q < 0 PROVE FALSE
    BY <1>2
  <2>1. -q \in Int /\ -q >= 1
    BY <1>2
  <2>2. size * (-q) >= size
    BY <2>1, TimesAtLeast
  <2>3. size * q = -(size * (-q))
    BY <1>2
  <2> QED BY <1>2, <2>2, <2>3
<1>4. CASE q = 0
  <2>1. len = 0
    BY <1>2, <1>4
  <2>2. amount = 1
    BY <1>0, <1>1, <1>4 DEF larger_one
  <2> QED BY <2>1, <2>2
<1>5. CASE q > 0
  <2>1. amount = q
    BY <1>0, <1>1, <1>2, <1>5 DEF larger_one
  <2>2. (q - 1) * size = size * q - size /\ q * size = size * q
    BY <1>2
  <2>3. len # 0 => (amount - 1) * size < len
    BY <1>2, <2>1, <2>2
  <2>4. len <= amount * size
    BY <1>2, <2>1, <2>2
  <2>5. len = 0 => amount = 1
    <3> SUFFICES ASSUME len = 0, q - 1 >= 1 PROVE FALSE
      BY <1>2, <1>5, <2>1
    <3>1. size * (q - 1) >= size
      BY <1>2, TimesAtLeast
    <3>2. size * (q - 1) = size * q - size
      BY <1>2
    <3> QED BY <1>2, <3>1, <3>2
  <2> QED BY <1>2, <1>5, <2>1, <2>3, <2>4, <2>5
<1> QED BY <1>2, <1>3, <1>4, <1>5

LEMMA PageEdges ==
  ASSUME NEW size \in Nat \ {0}, NEW amount \in Nat \ {0}, NEW i \in 1 .. amount
  PROVE  /\ (i - 1) * size \in Nat /\ i * size \in Nat /\ i * size = (i - 1) * size + size
         /\ (i - 1) * size <= (amount - 1) * size
         /\ i # amount => i * size <= (amount - 1) * size
<1>1. \A x \in Nat : x * size \in Nat
  OBVIOUS
<1>2. i * size = (i - 1) * size + size
  OBVIOUS
<1>3. (amount - i) * size >= 0 /\ (amount - i) * size = (amount - 1) * size - (i - 1) * size
  OBVIOUS
<1>4. i # amount => i * size <= (amount - 1) * size
  <2> SUFFICES ASSUME i # amount PROVE i * size <= (amount - 1) * size
    OBVIOUS
  <2>1. amount - 1 - i \in Nat
    OBVIOUS
  <2>2. (amount - 1 - i) * size \in Nat
    BY <1>1, <2>1
  <2>3. (amount - 1 - i) * size = (amount - 1) * size - i * size
    OBVIOUS
  <2>4. (amount - 1) * size \in Int /\ i * size \in Int
    OBVIOUS
  <2> QED BY <2>2, <2>3, <2>4
<1> QED BY <1>1, <1>2, <1>3, <1>4

Edge(data, size, i) == IF i * size < Len(data) THEN i * size ELSE Len(data)
Chunk(data, size, i) == SubSeq(data, (i - 1) * size + 1, Edge(data, size, i))

LEMMA PagesAre ==
  ASSUME NEW data, NEW per_page, NEW size, size = larger_one(per_page),
         NEW amount, amount = larger_one((Len(data) + size - 1) \div size)
  PROVE  paginate(data, per_page) = [i \in 1 .. amount |-> [seq_no |-> i - 1, tbc |-> i < amount, data |-> Chunk(data, size, i)]]
BY DEF paginate, Chunk, Edge

(* A page holds what lies between its edges, and something of it.            *)
LEMMA ChunkIs ==
  ASSUME NEW S, NEW data \in Seq(S), NEW size \in Nat \ {0}, NEW amount,
         amount = larger_one((Len(data) + size - 1) \div size), NEW i \in 1 .. amount
  PROVE  /\ Chunk(data, size, i) \in Seq(S)
         /\ Len(Chunk(data, size, i)) <= size
         /\ Chunk(data, size, i) = << >> => data = << >>
         /\ Edge(data, size, i) \in 0 .. Len(data) /\ (i - 1) * size \in 0 .. Edge(data, size, i)
         /\ i # amount => Edge(data, size, i) = i * size
         /\ Edge(data, size, amount) = Len(data)
<1>1. PICK len : len = Len(data)
  OBVIOUS
<1>2. len \in Nat
  BY <1>1
<1>3. amount \in Nat \ {0} /\ len <= amount * size /\ (len # 0 => (amount - 1) * size < len) /\ (len = 0 => amount = 1)
  <2>1. Counted(len, size, amount)
    BY <1>1, <1>2, PageCount
  <2> QED BY <2>1 DEF Counted
<1>4. PICK a, b, last : a = (i - 1) * size /\ b = i * size /\ last = (amount - 1) * size
  OBVIOUS
<1>5. a \in Nat /\ b \in Nat /\ b = a + size /\ a <= last /\ (i # amount => b <= last) /\ last \in Nat
  <2>1. amount \in Nat \ {0} /\ i \in 1 .. amount
    BY <1>3
  <2>2. /\ a \in Nat /\ b \in Nat /\ b = a + size /\ a <= last /\ (i # amount => b <= last)
    BY <1>4, <2>1, PageEdges
  <2>3. amount - 1 \in Nat
    BY <2>1
  <2>4. last \in Nat
    BY <1>4, <2>3
  <2> QED BY <2>2, <2>4
<1>6. len # 0 => last < len
  BY <1>3, <1>4
<1>7. len = 0 => amount = 1 /\ i = 1 /\ a = 0
  BY <1>3, <1>4
<1>8. PICK e : e = Edge(data, size, i)
  OBVIOUS
<1>9. e = IF b < len THEN b ELSE len
  BY <1>1, <1>4, <1>8 DEF Edge
<1>10. e \in 0 .. len /\ a \in 0 .. e /\ e - a <= size /\ (len # 0 => e - a > 0)
  BY <1>2, <1>5, <1>6, <1>7, <1>9
<1>11. i # amount => e = b
  <2>1. len = 0 => i = amount
    BY <1>7
  <2> QED BY <1>2, <1>5, <1>6, <1>9, <2>1
<1>12. PICK y : y = SubSeq(data, a + 1, e)
  OBVIOUS
<1>13. y \in Seq(S) /\ Len(y) = e - a
  BY <1>1, <1>10, <1>12
<1>14. y = << >> => data = << >>
  <2>1. y = << >> => Len(y) = 0
    OBVIOUS
  <2>2. y = << >> => len = 0
    BY <1>10, <1>13, <2>1
  <2>3. \A u \in Seq(S) : Len(u) = 0 => u = << >>
    OBVIOUS
  <2> QED BY <1>1, <2>2, <2>3
<1>15. Edge(data, size, amount) = len
  <2>1. amount * size \in Int
    BY <1>3
  <2> QED BY <1>1, <1>2, <1>3, <2>1 DEF Edge
<1>16. y = Chunk(data, size, i)
  BY <1>4, <1>8, <1>12 DEF Chunk
<1>17. Len(y) <= size
  BY <1>10, <1>13
<1> QED BY <1>1, <1>4, <1>8, <1>10, <1>11, <1>13, <1>14, <1>15, <1>16, <1>17

Chunks(data, size, amount) == [i \in 1 .. amount |-> Chunk(data, size, i)]

LEMMA ChunksJoin ==
  ASSUME NEW S, NEW data \in Seq(S), NEW size \in Nat \ {0}, NEW amount,
         amount = larger_one((Len(data) + size - 1) \div size), NEW seqs,
         seqs = Chunks(data, size, amount)
  PROVE  FlattenSeq(seqs) = data
<1>1. amount \in Nat \ {0}
  <2>1. Len(data) \in Nat
    OBVIOUS
  <2>2. Counted(Len(data), size, amount)
    BY <2>1, PageCount
  <2> QED BY <2>2 DEF Counted
<1>2. Len(seqs) = amount
  BY <1>1 DEF Chunks
<1>3. PICK g : g = [i \in 1 .. amount |-> SubSeq(data, 1, Edge(data, size, i))]
  OBVIOUS
<1>4. ASSUME NEW i \in 1 .. amount
      PROVE  g[i] = IF i = 1 THEN seqs[i] ELSE g[i - 1] \o seqs[i]
  <2>1. PICK e : e = Edge(data, size, i)
    OBVIOUS
  <2>2. e \in 0 .. Len(data) /\ (i - 1) * size \in 0 .. e
    BY <2>1, ChunkIs
  <2>3. g[i] = SubSeq(data, 1, e) /\ seqs[i] = SubSeq(data, (i - 1) * size + 1, e)
    BY <1>3, <2>1 DEF Chunk, Chunks
  <2>4. CASE i = 1
    <3>1. (i - 1) * size + 1 = 1
      BY <2>4
    <3> QED BY <2>3, <2>4, <3>1
  <2>5. CASE i # 1
    <3>1. PICK j : j = i - 1
      OBVIOUS
    <3>2. j \in 1 .. amount /\ j # amount
      BY <1>1, <2>5, <3>1
    <3>3. Edge(data, size, j) = j * size
      BY <3>2, ChunkIs
    <3>4. PICK a : a = j * size
      OBVIOUS
    <3>5. g[j] = SubSeq(data, 1, a) /\ seqs[i] = SubSeq(data, a + 1, e)
      BY <1>3, <2>3, <3>1, <3>2, <3>3, <3>4
    <3>6. a \in Nat /\ e \in Nat /\ a <= e /\ e <= Len(data)
      BY <2>2, <3>1, <3>4
    <3>7. g[j] \o seqs[i] = SubSeq(data, 1, e)
      BY <3>5, <3>6, Joined
    <3> QED BY <2>3, <2>5, <3>1, <3>7
  <2> QED BY <2>4, <2>5
<1>5. g = [i \in 1 .. amount |-> g[i]]
  BY <1>3
<1>6. Flat(seqs, g, amount)
  BY <1>4, <1>5 DEF Flat
<1>7. PICK f : Flat(seqs, f, amount) /\ FlattenSeq(seqs) = f[amount]
  BY <1>1, <1>2, <1>6, FlattenIs
<1>8. f[amount] = g[amount]
  BY <1>1, <1>6, <1>7, FlatIs
<1>9. amount \in 1 .. amount
  BY <1>1
<1>10. Edge(data, size, amount) = Len(data)
  BY <1>9, ChunkIs
<1>11. g[amount] = SubSeq(data, 1, Len(data))
  BY <1>3, <1>9, <1>10
<1> QED BY <1>7, <1>8, <1>11, Whole

LEMMA PagesAlwaysWhole ==
  ASSUME Sound
  PROVE  PagesWhole
<1> SUFFICES ASSUME NEW base \in Bases, NEW per_page \in PageSizes,
                    NEW data, data = report(base, Unread, Unread),
                    NEW pages, pages = paginate(data, per_page)
             PROVE  /\ FlattenSeq([i \in DOMAIN pages |-> pages[i].data]) = data
                    /\ \A i \in DOMAIN pages : /\ pages[i].seq_no = i - 1
                                               /\ Len(pages[i].data) <= larger_one(per_page)
                                               /\ pages[i].data = << >> => data = << >>
                                               /\ pages[i].tbc = (i # Len(pages))
  BY DEF PagesWhole
<1>1. PICK S : S = Data(base)
  OBVIOUS
<1>2. data \in Seq(S)
  BY <1>1, ReportIs
<1>3. PICK size : size = larger_one(per_page)
  OBVIOUS
<1>4. size \in Nat \ {0}
  BY <1>3, DeviceModelAssumption DEF larger_one
<1>5. PICK amount : amount = larger_one((Len(data) + size - 1) \div size)
  OBVIOUS
<1>6. pages = [i \in 1 .. amount |-> [seq_no |-> i - 1, tbc |-> i < amount, data |-> Chunk(data, size, i)]]
  BY <1>3, <1>5, PagesAre
<1>7. amount \in Nat \ {0}
  <2>1. Len(data) \in Nat
    BY <1>2
  <2>2. Counted(Len(data), size, amount)
    BY <1>4, <1>5, <2>1, PageCount
  <2> QED BY <2>2 DEF Counted
<1>8. DOMAIN pages = 1 .. amount /\ Len(pages) = amount
  BY <1>6, <1>7
<1>9. ASSUME NEW i \in 1 .. amount
      PROVE  pages[i].seq_no = i - 1 /\ pages[i].tbc = (i < amount) /\ pages[i].data = Chunk(data, size, i)
  BY <1>6
<1>10. [i \in DOMAIN pages |-> pages[i].data] = [i \in 1 .. amount |-> Chunk(data, size, i)]
  BY <1>8, <1>9
<1>11. FlattenSeq([i \in DOMAIN pages |-> pages[i].data]) = data
  <2>1. PICK seqs : seqs = Chunks(data, size, amount)
    OBVIOUS
  <2>2. FlattenSeq(seqs) = data
    BY <1>2, <1>4, <1>5, <2>1, ChunksJoin
  <2> QED BY <1>10, <2>1, <2>2 DEF Chunks
<1>12. ASSUME NEW i \in DOMAIN pages
       PROVE  /\ pages[i].seq_no = i - 1
              /\ Len(pages[i].data) <= larger_one(per_page)
              /\ pages[i].data = << >> => data = << >>
              /\ pages[i].tbc = (i # Len(pages))
  <2>1. i \in 1 .. amount
    BY <1>8
  <2>2. Len(Chunk(data, size, i)) <= size /\ (Chunk(data, size, i) = << >> => data = << >>)
    BY <1>2, <1>4, <1>5, <2>1, ChunkIs
  <2>3. (i < amount) = (i # Len(pages))
    BY <1>7, <1>8, <2>1
  <2>4. pages[i].seq_no = i - 1 /\ pages[i].tbc = (i < amount) /\ pages[i].data = Chunk(data, size, i)
    BY <1>9, <2>1
  <2> QED BY <1>3, <2>2, <2>3, <2>4
<1> QED BY <1>11, <1>12

(* What was declared, written and taken from the standard's catalogue is in   *)
(* the reports, page by page, as get and set know it, and what was written   *)
(* is of its variable's type and within its limits, as far as Decimal reads  *)
(* it (DeviceModel's declare, declare_standard, set, get, report, paginate). *)
THEOREM InventoryIsWhole == dmSpec => []InventoryWhole
<1>1. Sound => InventoryWhole
  BY ReportAlwaysAgrees, ValuesAlwaysFit, PagesAlwaysWhole, CatalogueAlwaysComplete DEF InventoryWhole
<1> QED BY <1>1, RegistrySound, PTL

=============================================================================
