------------------------------ MODULE Billing -------------------------------
(***************************************************************************)
(* From the EVSE to the bill: a station's transaction events, delivered by   *)
(* an engine that retries and gives up, to the CSMS's ledger.                *)
(*                                                                          *)
(* The engine queues what it is handed durably, sends it until an answer     *)
(* comes or the attempts are used up, and the CSMS handles requests          *)
(* concurrently: an event arrives any number of times, late, out of order,   *)
(* or never.  The same station speaks 2.x, whose events are numbered, or     *)
(* 1.6, whose events are not.                                                *)
(***************************************************************************)
EXTENDS Transactions

CONSTANT MaxPruned   \* bound: how many transactions are archived

VARIABLES
  records,     \* the ledger's records
  next_seq,    \* and the numbers it gives to the events of 1.6
  sequenced,   \* the station's version numbers its events
  sent,        \* the events handed to the engine
  arrived,     \* history: the events delivered to the records that are there now
  billed,      \* history: the events the ledger has ever applied
  twice,       \* history: the events it has applied more than once
  pruned       \* history: the transactions that were archived

INSTANCE Ledger

history == <<arrived, billed, twice, pruned>>
billingVars == <<txVars, records, next_seq, sequenced, sent, history>>

BillingInit ==
  /\ TxInit /\ LedgerInit
  /\ sequenced \in BOOLEAN
  /\ sent = {} /\ arrived = {} /\ billed = {} /\ twice = {} /\ pruned = {}

Station(A) == A /\ UNCHANGED <<records, next_seq, sequenced, sent, history>>

(* The application hands over what it has saved (external). *)
send ==
  /\ outbox \in made
  /\ sent' = sent \cup {outbox} /\ outbox' = None
  /\ UNCHANGED <<start_points, stop_points, metered, conditions, active, now, events, saved, made, held, looked>>
  /\ UNCHANGED <<records, next_seq, sequenced, history>>

Outcome(e) == IF sequenced THEN Ingested(Record(e.tx), e) ELSE IngestedUnsequenced(e)

(* The CSMS handles one copy of an event and, unless the ledger calls it a   *)
(* duplicate, bills it.                                                      *)
deliver(e) ==
  LET new == IF Outcome(e) = "Duplicate" THEN {} ELSE {e}
  IN /\ IF sequenced THEN ingest(e) ELSE ingest_unsequenced(e)
     /\ arrived' = arrived \cup {e}
     /\ billed' = billed \cup new
     /\ twice' = twice \cup (new \cap billed)
     /\ UNCHANGED <<txVars, sequenced, sent, pruned>>

prune(cutoff) ==
  /\ Cardinality(pruned) < MaxPruned
  /\ prune_ended_before(cutoff)
  /\ pruned' = pruned \cup (DOMAIN records \ DOMAIN records')
  /\ arrived' = {e \in arrived : e.tx \in DOMAIN records'}
  /\ UNCHANGED <<txVars, sequenced, sent, billed, twice>>

BillingNext ==
  \/ \E c \in SUBSET Facts : Station(observe(c))
  \/ Station(update) \/ Station(abort) \/ Station(save) \/ Station(reboot)
  \/ send
  \/ \E e \in sent : deliver(e)
  \/ \E cutoff \in 0 .. now + 1 : Kept(cutoff) # DOMAIN records /\ prune(cutoff)

BillingSpec == BillingInit /\ [][BillingNext]_billingVars

---------------------------------------------------------------------------

(* However the events of a transaction are repeated, delayed or reordered,   *)
(* and whatever reached the ledger in between, once its Started and its      *)
(* Ended have arrived with a reading the bill runs from the one to the other *)
(* (ingest: a straggler overwrites neither).                                 *)
EnergyExact ==
  \A s, e \in arrived :
    s.tx = e.tx /\ s.kind = "Started" /\ e.kind = "Ended" =>
      /\ s.meter_wh # None => records[s.tx].meter_start_wh = s.meter_wh
      /\ e.meter_wh # None => records[s.tx].meter_stop_wh = e.meter_wh

(* Each event that arrives is counted, and once: no two events of the station *)
(* share a transaction and a number, across reboots, so none is taken for a   *)
(* repetition that is not one (for 1.6, none but one of the same kind and      *)
(* second), and however often the station retries, none is counted again as   *)
(* long as its transaction is not archived (the machine's seq_no, resume, and  *)
(* the duplicate checks of ingest and of ingest_unsequenced).                  *)
CountedOnce ==
  /\ \A e \in arrived :
       e \in billed \/ (~sequenced /\ \E f \in billed : f.tx = e.tx /\ f.kind = e.kind /\ f.timestamp = e.timestamp)
  /\ \A e \in twice : e.tx \in pruned

(* A closed record without a gap has every event the station ever made for   *)
(* the transaction: a message that was given up, or lost between the save    *)
(* and the send, shows (missing, against the machine's numbering).  A message *)
(* of 1.6 that is repeated after its transaction was archived opens a record  *)
(* that shows a gap for ever, because the numbers are not archived with it.   *)
CompleteMeansAll ==
  IF sequenced
  THEN \A tx \in DOMAIN records :
         ~is_open(records[tx]) /\ missing(records[tx]) = {} => {e \in made : e.tx = tx} \subseteq arrived
  ELSE \A tx \in pruned \cap DOMAIN records : missing(records[tx]) # {}
=============================================================================
