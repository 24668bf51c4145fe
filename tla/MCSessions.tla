----------------------------- MODULE MCSessions -----------------------------
(* Instances of Sessions for TLC. *)
EXTENDS Sessions

Asks(i) == [defect |-> FALSE, identity |-> i, user |-> i, verdict |-> "Accept", common |-> TRUE]

(* Two stations, and requests that are turned away, early and late. *)
TwoStations ==
  {Asks("A"), Asks("B"), [Asks("B") EXCEPT !.identity = None, !.user = None],
   [Asks("B") EXCEPT !.verdict = "Reject"], [Asks("A") EXCEPT !.common = FALSE]}
=============================================================================
