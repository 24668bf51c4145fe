------------------------------ MODULE Sessions ------------------------------
(***************************************************************************)
(* The CSMS's accept loop and its router of sessions                        *)
(* (src/src/transport/csms.rs).                                             *)
(*                                                                          *)
(* Every connection is served by a task of its own, from the accept queue    *)
(* through the OCPP-J handshake to the filing of its session in the router;  *)
(* the session itself is a second task.  A step of this module is what one   *)
(* task does between two awaits, so connections of one station interleave    *)
(* exactly where the code can be suspended, and handshake_timeout may cut a  *)
(* connection's task at each of those points.                                *)
(*                                                                          *)
(* Deadlines are abstracted to steps that may happen at any moment.  The     *)
(* session's number (Router::next_session_id) is the connection itself: the  *)
(* code only ever compares numbers for equality.                             *)
(***************************************************************************)
EXTENDS Integers, FiniteSets

CONSTANTS
  Connections,      \* the connections that stations make
  Requests,         \* what a connection may ask for
  MaxConnections,   \* CsmsBuilder::max_connections
  MaxPending,       \* CsmsBuilder::max_pending_handshakes
  Supersede,        \* the values of CsmsBuilder::supersede_existing to consider
  None

(* A request is [defect, identity, user, verdict, common]: whether the upgrade *)
(* is malformed, the identity in the path, the Basic user name (None without   *)
(* one), what the authenticator makes of it, and whether a version is shared.   *)
ASSUME SessionsAssumption ==
  /\ IsFiniteSet(Connections) /\ None \notin Connections \cup Requests
  /\ MaxConnections \in Nat /\ MaxPending \in Nat \ {0} /\ Supersede \subseteq BOOLEAN
  /\ \A r \in Requests : /\ r.defect \in BOOLEAN /\ r.common \in BOOLEAN
                         /\ r.verdict \in {"Accept", "Reject", "Unknown"}

VARIABLES
  phase,     \* where each connection's own task is
  request,   \* what it asked for
  task,      \* the state of its session's task
  router,    \* Router::sessions, from identities to connections
  superseded, \* the sessions a newer connection has taken out of the router
  told,      \* the sessions CsmsHandle::shutdown has told to drain
  raced,     \* history: connections that lost a race for the router
  supersede  \* Csms::supersede, fixed when the server is built

vars == <<phase, request, task, router, superseded, told, raced, supersede>>

Identities == {r.identity : r \in Requests} \ {None}
identity(c) == request[c].identity

(* The points at which a connection's task waits, in order. *)
Handshaking == {"Reading", "Authenticating", "Admitting", "Answering", "Superseding", "Filing"}
pending == {c \in Connections : phase[c] \in Handshaking}

Filed(c) == \E i \in DOMAIN router : router[i] = c
Without(i) == [j \in DOMAIN router \ {i} |-> router[j]]
With(i, c) == [j \in DOMAIN router \cup {i} |-> IF j = i THEN c ELSE router[j]]

Init ==
  /\ phase = [c \in Connections |-> "Queued"]
  /\ request = [c \in Connections |-> None]
  /\ task = [c \in Connections |-> "None"]
  /\ router = [i \in {} |-> None]
  /\ superseded = {} /\ told = {} /\ raced = {} /\ supersede \in Supersede

Goto(c, next) == phase' = [phase EXCEPT ![c] = next]

---------------------------------------------------------------------------
(* The connection's task. *)

serve_on_unbounded(c) ==  \* mutant: a task is spawned before the permit is there
  /\ phase[c] = "Queued"
  /\ Goto(c, "Reading")
  /\ UNCHANGED <<request, task, router, superseded, told, raced, supersede>>
(* serve_on: a connection leaves the accept queue once it has a permit. *)
serve_on(c) ==
  /\ phase[c] = "Queued" /\ Cardinality(pending) < MaxPending
  /\ Goto(c, "Reading")
  /\ UNCHANGED <<request, task, router, superseded, told, raced, supersede>>

(* The checks of accept before it asks the authenticator; Refused is sent.    *)
refused(r) ==
  \/ r.defect
  \/ r.identity = None
  \/ r.user # None /\ r.user # r.identity

read_request(c, r) ==
  /\ phase[c] = "Reading"
  /\ IF refused(r) THEN Goto(c, "Done") /\ UNCHANGED request
     ELSE Goto(c, "Authenticating") /\ request' = [request EXCEPT ![c] = r]
  /\ UNCHANGED <<task, router, superseded, told, raced, supersede>>

authenticate(c) ==
  /\ phase[c] = "Authenticating"
  /\ Goto(c, IF request[c].verdict = "Accept" THEN "Admitting" ELSE "Done")
  /\ UNCHANGED <<request, task, router, superseded, told, raced, supersede>>

(* max_connections is compared with the router under its lock. *)
admit(c) ==
  /\ phase[c] = "Admitting"
  /\ Goto(c, IF Cardinality(DOMAIN router) >= MaxConnections THEN "Done" ELSE "Answering")
  /\ UNCHANGED <<request, task, router, superseded, told, raced, supersede>>

(* write_accept, with the subprotocol or without one and then a Close. *)
answer(c) ==
  /\ phase[c] = "Answering"
  /\ Goto(c, IF request[c].common THEN "Superseding" ELSE "Done")
  /\ UNCHANGED <<request, task, router, superseded, told, raced, supersede>>

Filing(i) == {d \in Connections : phase[d] = "Filing" /\ identity(d) = i}
takeover_untold(c) ==  \* mutant: the older session is left to itself
  LET i == identity(c)
  IN /\ phase[c] = "Superseding"
     /\ i \in DOMAIN router => supersede
     /\ router' = Without(i)
     /\ task' = [task EXCEPT ![c] = "Running"]
     /\ raced' = raced \cup IF Filing(i) = {} THEN {} ELSE Filing(i) \cup {c}
     /\ Goto(c, "Filing")
     /\ UNCHANGED <<request, superseded, told, supersede>>
(* run_session up to its second lock: the session of the same identity is     *)
(* taken out and told to drain, and the new session's task is spawned.        *)
takeover(c) ==
  LET i == identity(c)
  IN /\ phase[c] = "Superseding"
     /\ IF i \in DOMAIN router /\ ~supersede
        THEN /\ Goto(c, "Done")
             /\ UNCHANGED <<task, router, superseded, raced>>
        ELSE /\ router' = Without(i)
             /\ superseded' = superseded \cup {router[j] : j \in DOMAIN router \cap {i}}
             /\ task' = [task EXCEPT ![c] = "Running"]
             /\ raced' = raced \cup IF Filing(i) = {} THEN {} ELSE Filing(i) \cup {c}
             /\ Goto(c, "Filing")
     /\ UNCHANGED <<request, told, supersede>>

(* The second lock of run_session; the task that held the permit is done. *)
file(c) ==
  /\ phase[c] = "Filing"
  /\ router' = With(identity(c), c)
  /\ Goto(c, "Done")
  /\ UNCHANGED <<request, task, superseded, told, raced, supersede>>

handshake_timeout_ignored(c) == FALSE /\ UNCHANGED vars  \* mutant: accept is not bounded in time
(* handshake_timeout, a broken socket or a peer that leaves. In Filing only    *)
(* the timeout cuts: the session's task lives on without an entry.             *)
handshake_timeout(c) ==
  /\ c \in pending
  /\ Goto(c, "Done")
  /\ raced' = raced \cup {d \in {c} : phase[d] = "Filing"}
  /\ UNCHANGED <<request, task, router, superseded, told, supersede>>

---------------------------------------------------------------------------
(* The session's task. *)

(* Driver::run returns, and abandon has answered the callers. *)
session_ends(c) ==
  /\ task[c] = "Running"
  /\ task' = [task EXCEPT ![c] = "Ended"]
  /\ UNCHANGED <<phase, request, router, superseded, told, raced, supersede>>

session_removed_by_identity(c) ==  \* mutant: whichever session holds the identity goes
  /\ task[c] = "Ended"
  /\ task' = [task EXCEPT ![c] = "Closed"]
  /\ router' = Without(identity(c))
  /\ raced' = raced \cup {d \in {c} : phase[d] = "Filing"}
  /\ UNCHANGED <<phase, request, superseded, told, supersede>>
(* The task takes the lock and removes its own entry and no other; a session   *)
(* that is not filed yet finds nothing to remove.                              *)
session_removed(c) ==
  /\ task[c] = "Ended"
  /\ task' = [task EXCEPT ![c] = "Closed"]
  /\ router' = IF Filed(c) THEN Without(identity(c)) ELSE router
  /\ raced' = raced \cup {d \in {c} : phase[d] = "Filing"}
  /\ UNCHANGED <<phase, request, superseded, told, supersede>>

(* The drain task of a superseded session: task.abort(), after the drain or    *)
(* after supersede_drain, wherever the session's task is by then.              *)
abort(c) ==
  /\ c \in superseded /\ task[c] \in {"Running", "Ended"}
  /\ task' = [task EXCEPT ![c] = "Aborted"]
  /\ UNCHANGED <<phase, request, router, superseded, told, raced, supersede>>

(* CsmsHandle::shutdown: every session in the router is told to drain. *)
shutdown ==
  /\ told' = told \cup {router[i] : i \in DOMAIN router}
  /\ told' # told
  /\ UNCHANGED <<phase, request, task, router, superseded, raced, supersede>>

Next ==
  \/ shutdown
  \/ \E c \in Connections :
       \/ serve_on(c) \/ authenticate(c) \/ admit(c) \/ answer(c) \/ takeover(c) \/ file(c)
       \/ handshake_timeout(c)
       \/ session_ends(c) \/ session_removed(c) \/ abort(c)
       \/ \E r \in Requests : read_request(c, r)

Spec == Init /\ [][Next]_vars

(* The accept loop runs, tokio's timers fire, and a session that was told to   *)
(* drain ends at its drain deadline (Engine's DrainEnds).  Nothing is assumed   *)
(* of the peers: a handshake need not go on, and a session need not end.        *)
Fairness ==
  \A c \in Connections :
    /\ WF_vars(serve_on(c)) /\ WF_vars(handshake_timeout(c))
    /\ WF_vars(session_removed(c)) /\ WF_vars(abort(c))
    /\ WF_vars(c \in told /\ session_ends(c))
FairSpec == Spec /\ Fairness

---------------------------------------------------------------------------
(* Properties. *)

TypeOK ==
  /\ phase \in [Connections -> Handshaking \cup {"Queued", "Done"}]
  /\ request \in [Connections -> Requests \cup {None}]
  /\ task \in [Connections -> {"None", "Running", "Ended", "Closed", "Aborted"}]
  /\ DOMAIN router \subseteq Identities /\ \A i \in DOMAIN router : router[i] \in Connections
  /\ superseded \subseteq Connections /\ told \subseteq Connections
  /\ raced \subseteq Connections /\ supersede \in BOOLEAN

(* What CsmsHandle can reach is what is connected: once a connection's        *)
(* handshake is over, its session is in the router exactly as long as it runs  *)
(* and no newer one has taken its place.  The only exceptions are connections  *)
(* that lost one of the three races for the router (run_session takes its      *)
(* lock twice): two of one identity between the two locks, a session that is    *)
(* gone before the second lock, and a handshake_timeout that strikes there.     *)
(* And a session makes way only for a connection of the same identity that     *)
(* has passed every check and whose session runs.                              *)
RouterExact ==
  /\ \A c \in Connections \ raced : phase[c] = "Done" =>
       /\ task[c] = "Running" /\ c \notin superseded => Filed(c)
       /\ task[c] \in {"None", "Closed", "Aborted"} => ~Filed(c)
  /\ \A c \in superseded : \E d \in Connections \ {c} : task[d] # "None" /\ identity(d) = identity(c)

(* max_connections is compared before the handshake is answered and the entry *)
(* is filed after it; the permits of max_pending_handshakes, which are held    *)
(* until then, bound how far those that are filed and those that are still to   *)
(* be filed can overshoot it together.                                          *)
admitted == {c \in Connections : phase[c] \in {"Answering", "Superseding", "Filing"}}
OvershootBounded ==
  MaxConnections > 0 =>
    Cardinality(DOMAIN router) + Cardinality(admitted) <= MaxConnections + MaxPending - 1

(* Every connection gets a permit and gives it back, although peers may stay  *)
(* silent for ever.                                                            *)
EveryoneIsServed == \A c \in Connections : <>(phase[c] = "Done")

(* Two sessions that run under one identity. *)
Twins(c, d) ==
  /\ c # d /\ task[c] = "Running" /\ task[d] = "Running"
  /\ identity(c) = identity(d)

(* No two sessions of one station run side by side for ever, although neither *)
(* peer ever leaves: the older one is told to go, and cut when it does not, or *)
(* the newer one never starts.  Only a race for the router can leave a pair.    *)
OneSessionEach ==
  \A c, d \in Connections : Twins(c, d) ~> ~Twins(c, d) \/ raced \cap {c, d} # {}

(* run_session's comment, "Single active connection per identity: the newer    *)
(* one wins, and the older is drained": without the exception.                  *)
SingleActiveConnection ==
  \A c, d \in Connections : Twins(c, d) ~> ~Twins(c, d)
=============================================================================
