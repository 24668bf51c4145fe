------------------------------ MODULE MCDriver ------------------------------
(* Instances of Driver for TLC. *)
EXTENDS Driver
=============================================================================
