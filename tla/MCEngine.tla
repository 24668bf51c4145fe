------------------------------ MODULE MCEngine ------------------------------
(* Instances of Engine for TLC: the sets of calls the application makes. *)
EXTENDS Engine

Tx == [action |-> "TransactionEvent", persist |-> TRUE,
       queue_when_offline |-> TRUE, triggered |-> FALSE]
VolatileTx == [Tx EXCEPT !.persist = FALSE, !.queue_when_offline = FALSE]
TriggeredTx == [Tx EXCEPT !.triggered = TRUE]
Plain == [action |-> "StatusNotification", persist |-> FALSE,
          queue_when_offline |-> FALSE, triggered |-> FALSE]
QueuedPlain == [Plain EXCEPT !.queue_when_offline = TRUE]
PersistedPlain == [Plain EXCEPT !.persist = TRUE]
TriggeredPlain == [Plain EXCEPT !.triggered = TRUE]
Boot == [Plain EXCEPT !.action = "BootNotification"]
Stream == [QueuedPlain EXCEPT !.action = "NotifyPeriodicEventStream"]

OfflineCalls == {Tx, VolatileTx, PersistedPlain}
TriggeredStream == [Stream EXCEPT !.triggered = TRUE]
BootCalls == {Boot, Tx, TriggeredPlain, Stream, TriggeredStream}
BootOnly == {Boot}
=============================================================================
