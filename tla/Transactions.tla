---------------------------- MODULE Transactions ----------------------------
(***************************************************************************)
(* One EVSE's transactions (src/src/station/transactions.rs) and the        *)
(* application around the machine, which is not part of the repository: it   *)
(* saves the machine after every event and only then hands the event over    *)
(* to be sent, so that resume finds a next_seq that was never used.          *)
(*                                                                          *)
(* Conditions are the set of facts that hold.  A transaction's id is the     *)
(* number of the transaction: the generators of the code promise ids that    *)
(* never repeat, and only that matters here.                                 *)
(***************************************************************************)
EXTENDS Integers, FiniteSets

CONSTANTS
  Facts,           \* the facts this EVSE can observe
  TxStartPoints,   \* the values that TxCtrlr.TxStartPoint may have
  TxStopPoints,    \* the values that TxCtrlr.TxStopPoint may have
  Measurands,      \* the kinds of event that carry a meter reading, one set per configuration
  MaxEvents,       \* bound: how many events the station makes
  None

Fact == {"parking_bay_occupied", "ev_connected", "authorized", "data_signed", "energy_transfer"}
TxPoint == {"ParkingBayOccupancy", "EVConnected", "Authorized", "DataSigned", "PowerPathClosed", "EnergyTransfer"}
EventKind == {"Started", "Updated", "Ended"}
Reasons == {None, "Remote", "EVDisconnected", "DeAuthorized", "StoppedByEV", "Other"}

(* struct Active, and enum TxEvent as far as the ledger reads it. *)
Active == [id : Nat, next_seq : Nat]
TxEvent == [tx : Nat, seq_no : Nat, kind : EventKind, timestamp : Nat, reason : Reasons,
            meter_wh : Nat \cup {None}]

ASSUME TransactionsAssumption ==
  /\ Facts \subseteq Fact /\ MaxEvents \in Nat
  /\ TxStartPoints \subseteq SUBSET TxPoint /\ TxStopPoints \subseteq SUBSET TxPoint
  /\ Measurands \subseteq SUBSET EventKind
  /\ None \notin Nat /\ None \notin Active /\ None \notin TxEvent

VARIABLES
  start_points, stop_points, metered,  \* the configuration
  conditions, active,                  \* the machine
  now,        \* the station's clock, in seconds
  events,     \* history: how many events the machine has made; also the meter's register
  outbox,     \* an event the machine returned and the application has not handed over yet
  saved,      \* what the application has on disk
  made,       \* history: the events of the machines that were saved
  held,       \* history: the points that held at some observation of the transaction
  looked      \* history: conditions were observed since the last reboot

machine == <<conditions, active>>
txVars == <<start_points, stop_points, metered, conditions, active, now, events, outbox, saved, made, held, looked>>

(* Conditions::holds. *)
holds(c, point) ==
  CASE point = "ParkingBayOccupancy" -> "parking_bay_occupied" \in c
    [] point = "EVConnected"         -> "ev_connected" \in c
    [] point = "Authorized"          -> "authorized" \in c
    [] point = "DataSigned"          -> "data_signed" \in c
    [] point = "PowerPathClosed"     -> {"authorized", "ev_connected"} \subseteq c
    [] point = "EnergyTransfer"      -> "energy_transfer" \in c

Holding(c) == {point \in TxPoint : holds(c, point)}
Began(before, after) == Holding(after) \ Holding(before)

(* stopped_reason: an open power path is explained by the fact that went. *)
stopped_reason(point, before, after) ==
  CASE point \in {"EVConnected", "ParkingBayOccupancy"} -> "EVDisconnected"
    [] point = "Authorized" -> "DeAuthorized"
    [] point = "PowerPathClosed" -> IF "ev_connected" \in before \ after THEN "EVDisconnected" ELSE "DeAuthorized"
    [] point = "EnergyTransfer" -> "StoppedByEV"
    [] point = "DataSigned" -> "Other"

(* The stop points are looked through in the order of the enumeration. *)
Rank == [ParkingBayOccupancy |-> 1, EVConnected |-> 2, Authorized |-> 3,
         DataSigned |-> 4, PowerPathClosed |-> 5, EnergyTransfer |-> 6]
First(points) == CHOOSE p \in points : \A q \in points : Rank[p] <= Rank[q]

TxInit ==
  /\ start_points \in TxStartPoints /\ stop_points \in TxStopPoints /\ metered \in Measurands
  /\ conditions = {} /\ active = None
  /\ now = 0 /\ events = 0
  /\ outbox = None /\ saved = [conditions |-> {}, active |-> None, held |-> {}]
  /\ made = {} /\ held = {} /\ looked = FALSE

---------------------------------------------------------------------------
(* The machine's operations.  An event's transaction id is the number of the *)
(* event that started it, and its reading is the register at that moment.    *)

Event(id, seq, kind, reason) ==
  [tx |-> id, seq_no |-> seq, kind |-> kind, timestamp |-> now', reason |-> reason,
   meter_wh |-> IF kind \in metered THEN events ELSE None]

Returns(id, seq, kind, reason) ==
  /\ events' = events + 1
  /\ now' \in {now, now + 1}
  /\ outbox' = Event(id, seq, kind, reason)

Started(c) == start_points \cap Began(conditions, c) # {}
Stopped(c) == stop_points \cap Began(c, conditions)

(* observe, as the application calls it: with the last event dealt with. *)
observe(c) ==
  /\ outbox = None /\ events < MaxEvents
  /\ conditions' = c /\ looked' = TRUE
  /\ \/ /\ active = None /\ Started(c)
        /\ Returns(events, 0, "Started", None)
        /\ active' = [id |-> events, next_seq |-> 1]
        /\ held' = Holding(c)
     \/ /\ active # None /\ Stopped(c) # {}
        /\ Returns(active.id, active.next_seq, "Ended", stopped_reason(First(Stopped(c)), conditions, c))
        /\ active' = None /\ held' = {}
     \/ /\ active # None /\ Stopped(c) = {} /\ c # conditions
        /\ Returns(active.id, active.next_seq, "Updated", None)
        /\ active' = [active EXCEPT !.next_seq = @ + 1]
        /\ held' = held \cup Holding(c)
     \/ /\ IF active = None THEN ~Started(c) ELSE c = conditions
        /\ UNCHANGED <<active, now, events, outbox, held>>
  /\ UNCHANGED <<start_points, stop_points, metered, saved, made>>

(* update: an event about something the machine does not track. *)
update ==
  /\ outbox = None /\ active # None /\ events < MaxEvents
  /\ Returns(active.id, active.next_seq, "Updated", None)
  /\ active' = [active EXCEPT !.next_seq = @ + 1]
  /\ UNCHANGED <<start_points, stop_points, metered, conditions, saved, made, held, looked>>

(* abort: the transaction ends for a reason outside the stop points. *)
abort ==
  /\ outbox = None /\ active # None /\ events < MaxEvents
  /\ Returns(active.id, active.next_seq, "Ended", "Remote")
  /\ active' = None /\ held' = {}
  /\ UNCHANGED <<start_points, stop_points, metered, conditions, saved, made, looked>>

resume_unaware(id, next_seq, c) ==  \* mutant: resume does not restore what held
  conditions' = {} /\ active' = [id |-> id, next_seq |-> next_seq]
resume_counting(id, next_seq, c) ==  \* mutant: the sequence starts again after a reboot
  conditions' = c /\ active' = [id |-> id, next_seq |-> 1]
(* resume: the machine goes on where the saved one was. *)
resume(id, next_seq, c) ==
  conditions' = c /\ active' = [id |-> id, next_seq |-> next_seq]

---------------------------------------------------------------------------
(* The application (external). *)

save ==
  /\ outbox # None /\ outbox \notin made
  /\ saved' = [conditions |-> conditions, active |-> active, held |-> held]
  /\ made' = made \cup {outbox}
  /\ UNCHANGED <<start_points, stop_points, metered, conditions, active, now, events, outbox, held, looked>>

(* The power goes and comes back: without a running transaction the machine  *)
(* is a new one, and knows nothing of what held.                             *)
reboot ==
  /\ IF saved.active = None THEN conditions' = {} /\ active' = None
     ELSE resume(saved.active.id, saved.active.next_seq, saved.conditions)
  /\ held' = saved.held
  /\ outbox' = None /\ looked' = FALSE
  /\ UNCHANGED <<start_points, stop_points, metered, now, events, saved, made>>

---------------------------------------------------------------------------

(* The stop rule is a comparison with the call before, so it only sees a     *)
(* point that goes away after one call saw it hold.  Across observations,    *)
(* events and reboots, a transaction is open only while every stop point     *)
(* that ever held in it still holds: no pulled cable goes unnoticed          *)
(* (observe and resume).                                                     *)
NoStopMissed ==
  active # None /\ looked => \A p \in stop_points \cap held : holds(conditions, p)

=============================================================================
