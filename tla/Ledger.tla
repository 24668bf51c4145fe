------------------------------- MODULE Ledger -------------------------------
(***************************************************************************)
(* The CSMS's record of its transactions (src/src/csms/ledger.rs).          *)
(*                                                                          *)
(* One station, so a record's key is the transaction.  Readings are numbers; *)
(* a record's signed values, token, connector and reason are copies that no  *)
(* decision of the ledger reads and are left out.                            *)
(***************************************************************************)
EXTENDS Integers

CONSTANT None

VARIABLES
  records,     \* Ledger::records, from transactions
  next_seq     \* Ledger::next_seq, the numbers given to unnumbered events

NoRecord == [seen |-> {}, unsequenced |-> {}, highest |-> -1, started_at |-> None, ended_at |-> None,
             meter_start_wh |-> None, meter_stop_wh |-> None]
Record(tx) == IF tx \in DOMAIN records THEN records[tx] ELSE NoRecord
Put(f, k, v) == [x \in DOMAIN f \cup {k} |-> IF x = k THEN v ELSE f[x]]

missing(r) == (0 .. r.highest) \ r.seen
is_open(r) == r.ended_at = None

LedgerInit == records = << >> /\ next_seq = << >>

---------------------------------------------------------------------------
(* ingest *)

OrElse(x, y) == IF x = None THEN y ELSE x

(* Started is authoritative for the start, an Updated fills it in. *)
start(r, e) ==
  CASE e.kind = "Started" -> OrElse(e.meter_wh, r.meter_start_wh)
    [] e.kind = "Updated" -> OrElse(r.meter_start_wh, e.meter_wh)
    [] e.kind = "Ended"   -> r.meter_start_wh

stop_latest(r, e) == OrElse(e.meter_wh, r.meter_stop_wh)  \* mutant: the latest reading to arrive
(* Ended is authoritative for the stop, an Updated counts until it came. *)
stop(r, e) ==
  IF e.kind = "Ended" \/ (e.kind = "Updated" /\ is_open(r))
  THEN OrElse(e.meter_wh, r.meter_stop_wh) ELSE r.meter_stop_wh

Highest(r, e) == IF e.seq_no > r.highest THEN e.seq_no ELSE r.highest

Duplicate(r, e) == e.seq_no \in r.seen

Applied(r, e) ==
  IF Duplicate(r, e) THEN r
  ELSE [r EXCEPT !.seen = @ \cup {e.seq_no},
                 !.highest = Highest(r, e),
                 !.meter_start_wh = start(r, e),
                 !.meter_stop_wh = stop(r, e),
                 !.started_at = IF e.kind = "Started" THEN e.timestamp ELSE @,
                 !.ended_at = IF e.kind = "Ended" THEN e.timestamp ELSE @]

(* What ingest answers: that the transaction had ended is decided before the *)
(* event, which numbers are missing after it.                                *)
Ingested(r, e) ==
  IF Duplicate(r, e) THEN "Duplicate"
  ELSE IF ~is_open(r) THEN "AfterEnd"
  ELSE IF missing(Applied(r, e)) = {} THEN "Applied" ELSE "AppliedWithGap"

ingest(e) ==
  /\ records' = Put(records, e.tx, Applied(Record(e.tx), e))
  /\ UNCHANGED next_seq

---------------------------------------------------------------------------
(* ingest_unsequenced: OCPP 1.6 numbers nothing, so an event is numbered as  *)
(* it arrives and recognised by its kind and its second.                     *)

Mark_kind(e) == <<e.kind, 0>>  \* mutant: the second is left out
Mark(e) == <<e.kind, e.timestamp>>
Repeated(e) == Mark(e) \in Record(e.tx).unsequenced
Next_seq(tx) == IF tx \in DOMAIN next_seq THEN next_seq[tx] ELSE 0
Numbered(e) == [e EXCEPT !.seq_no = Next_seq(e.tx)]

IngestedUnsequenced(e) == IF Repeated(e) THEN "Duplicate" ELSE Ingested(Record(e.tx), Numbered(e))

ingest_unsequenced(e) ==
  IF Repeated(e) THEN UNCHANGED <<records, next_seq>>
  ELSE /\ next_seq' = Put(next_seq, e.tx, Next_seq(e.tx) + 1)
       /\ records' = Put(records, e.tx,
                         [Applied(Record(e.tx), Numbered(e)) EXCEPT !.unsequenced = @ \cup {Mark(e)}])

---------------------------------------------------------------------------

Kept(cutoff) == {tx \in DOMAIN records : is_open(records[tx]) \/ records[tx].ended_at >= cutoff}

prune_ended_before(cutoff) ==
  /\ records' = [tx \in Kept(cutoff) |-> records[tx]]
  /\ UNCHANGED next_seq
=============================================================================
