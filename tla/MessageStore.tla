---------------------------- MODULE MessageStore ----------------------------
(***************************************************************************)
(* What trait MessageStore (src/src/engine/queue.rs) promises an engine    *)
(* about the messages it hands over, whatever is underneath: a message     *)
(* whose push has returned Ok comes back after every crash until its ack   *)
(* is begun; one whose ack has returned Ok never does; one whose push or   *)
(* ack was cut short, or failed, may come back or not.                     *)
(***************************************************************************)
CONSTANT Messages

VARIABLES
  kept,       \* the messages that come back
  doubtful,   \* the messages that may come back
  open        \* a process has the store open

storeVars == <<kept, doubtful, open>>

Init == kept = {} /\ doubtful = {} /\ open = TRUE

BeginPush(m) ==
  /\ open /\ m \notin kept
  /\ doubtful' = doubtful \cup {m}
  /\ UNCHANGED <<kept, open>>

EndPush(m) ==
  /\ open /\ m \in doubtful
  /\ kept' = kept \cup {m} /\ doubtful' = doubtful \ {m}
  /\ UNCHANGED open

BeginAck(m) ==
  /\ open /\ m \in kept
  /\ kept' = kept \ {m} /\ doubtful' = doubtful \cup {m}
  /\ UNCHANGED open

EndAck(m) ==
  /\ open /\ m \in doubtful
  /\ doubtful' = doubtful \ {m}
  /\ UNCHANGED <<kept, open>>

Crash == open /\ open' = FALSE /\ UNCHANGED <<kept, doubtful>>

Open ==
  /\ ~open /\ open' = TRUE
  /\ \E back \in SUBSET doubtful : kept' = kept \cup back
  /\ doubtful' = {}

Next ==
  \/ \E m \in Messages : BeginPush(m) \/ EndPush(m) \/ BeginAck(m) \/ EndAck(m)
  \/ Crash \/ Open

Spec == Init /\ [][Next]_storeVars
=============================================================================
