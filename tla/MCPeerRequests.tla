--------------------------- MODULE MCPeerRequests ---------------------------
(* Instances of PeerRequests for TLC. *)
EXTENDS PeerRequests, TLC

BootAnswers == {"BootNotification"}
StatusAnswers == {"BootNotification", "DataTransfer"}

(* Well-formed requests, and one to turn away: a SEND that arrives as a CALL. *)
StationArrivals == {<<"DataTransfer", "Call">>, <<"Stream", "Send">>, <<"Stream", "Call">>}
BootAndData == {<<"BootNotification", "Call">>, <<"DataTransfer", "Call">>}

=============================================================================
