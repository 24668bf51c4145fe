--------------------------- MODULE SessionsProofs ---------------------------
(***************************************************************************)
(* Proofs about module Sessions, for any finite set of connections and any  *)
(* limits.  The inductive invariant says where each connection's two tasks   *)
(* can be relative to the router and which of them have lost a race for it.  *)
(***************************************************************************)
EXTENDS Sessions, TLAPS, FiniteSetTheorems

(* A session exists only behind a handshake that passed its checks, and from  *)
(* the moment its connection waits for the second lock.                       *)
TasksInOrder ==
  \A c \in Connections :
    /\ phase[c] \in Handshaking \ {"Reading"} => request[c] \in Requests /\ identity(c) # None
    /\ task[c] # "None" =>
         phase[c] \in {"Filing", "Done"} /\ request[c] \in Requests /\ identity(c) # None
    /\ phase[c] = "Filing" => task[c] # "None"

(* The router files a session under its own identity, once its connection is  *)
(* done; what was superseded never comes back to it.                          *)
FiledInOrder ==
  /\ \A i \in DOMAIN router :
       /\ identity(router[i]) = i /\ phase[router[i]] = "Done"
       /\ task[router[i]] # "None" /\ router[i] \notin superseded
  /\ \A c \in superseded : phase[c] = "Done" /\ task[c] # "None"

(* Whoever is between the two locks of run_session together with another of   *)
(* its identity, or after its own session has gone, has lost a race; and what  *)
(* it finds in the router at the second lock was filed by one that has.        *)
RacesKnown ==
  /\ \A c, d \in Connections :
       c # d /\ phase[c] = "Filing" /\ phase[d] = "Filing" /\ identity(c) = identity(d)
         => c \in raced
  /\ \A c \in Connections :
       phase[c] = "Filing" /\ identity(c) \in DOMAIN router => router[identity(c)] \in raced
  /\ \A c \in Connections \ raced : phase[c] = "Filing" => task[c] \in {"Running", "Ended"}

RouterInv == TypeOK /\ TasksInOrder /\ FiledInOrder /\ RacesKnown /\ RouterExact

---------------------------------------------------------------------------
LEMMA InitRouter == Init => RouterInv
BY SessionsAssumption DEF Init, RouterInv, TypeOK, TasksInOrder, FiledInOrder, RacesKnown, RouterExact,
   Filed, Handshaking, Identities

LEMMA HandshakeStep ==
  ASSUME RouterInv, NEW c \in Connections,
         serve_on(c) \/ authenticate(c) \/ admit(c) \/ answer(c) \/ handshake_timeout(c)
  PROVE  RouterInv'
BY SessionsAssumption DEF RouterInv, TypeOK, TasksInOrder, FiledInOrder, RacesKnown, RouterExact,
   Filed, Handshaking, Identities, identity, serve_on, authenticate, admit, answer, Goto, handshake_timeout, pending

LEMMA ReadStep ==
  ASSUME RouterInv, NEW c \in Connections, NEW r \in Requests, read_request(c, r)
  PROVE  RouterInv'
BY SessionsAssumption DEF RouterInv, TypeOK, TasksInOrder, FiledInOrder, RacesKnown, RouterExact,
   Filed, Handshaking, Identities, identity, read_request, refused, Goto

LEMMA SessionStep ==
  ASSUME RouterInv, NEW c \in Connections, session_ends(c) \/ abort(c)
  PROVE  RouterInv'
BY SessionsAssumption DEF RouterInv, TypeOK, TasksInOrder, FiledInOrder, RacesKnown, RouterExact,
   Filed, Handshaking, Identities, identity, session_ends, abort

LEMMA RemovedStep ==
  ASSUME RouterInv, NEW c \in Connections, session_removed(c)
  PROVE  RouterInv'
<1> USE DEF RouterInv
<1>1. /\ phase' = phase /\ request' = request /\ superseded' = superseded
      /\ task' = [task EXCEPT ![c] = "Closed"] /\ task[c] = "Ended"
      /\ raced \subseteq raced' /\ raced' \subseteq Connections
      /\ \A d \in raced' \ raced : d = c
      /\ phase[c] = "Filing" => c \in raced'
  BY DEF session_removed, TypeOK
<1>2. \A i : i \in DOMAIN router' <=> i \in DOMAIN router /\ router[i] # c
  BY DEF session_removed, Without, Filed, FiledInOrder
<1>3. \A i \in DOMAIN router' : router'[i] = router[i]
  BY DEF session_removed, Without, Filed
<1>4. TypeOK'
  BY <1>1, <1>2, <1>3 DEF TypeOK, session_removed
<1>5. TasksInOrder' /\ FiledInOrder'
  BY <1>1, <1>2, <1>3 DEF TasksInOrder, FiledInOrder, TypeOK, identity
<1>6. RacesKnown'
  BY <1>1, <1>2, <1>3 DEF RacesKnown, TypeOK, identity
<1>7. RouterExact'
  BY <1>1, <1>2, <1>3 DEF RouterExact, TypeOK, identity, Filed
<1> QED BY <1>4, <1>5, <1>6, <1>7

LEMMA TakeoverStep ==
  ASSUME RouterInv, NEW c \in Connections, takeover(c)
  PROVE  RouterInv'
BY SessionsAssumption DEF RouterInv, TypeOK, TasksInOrder, FiledInOrder, RacesKnown, RouterExact,
   Filed, Handshaking, Identities, identity, takeover, Without, Goto, Filing

LEMMA FileStep ==
  ASSUME RouterInv, NEW c \in Connections, file(c)
  PROVE  RouterInv'
<1> USE DEF RouterInv
<1>1. /\ phase[c] = "Filing" /\ phase' = [phase EXCEPT ![c] = "Done"]
      /\ request' = request /\ task' = task /\ superseded' = superseded
      /\ told' = told /\ raced' = raced /\ supersede' = supersede
  BY DEF file, Goto
<1>2. identity(c) \in Identities /\ task[c] # "None" /\ c \notin superseded
  BY <1>1 DEF TasksInOrder, FiledInOrder, Identities, Handshaking, identity
<1>3. /\ DOMAIN router' = DOMAIN router \cup {identity(c)}
      /\ \A i \in DOMAIN router' : router'[i] = IF i = identity(c) THEN c ELSE router[i]
  BY DEF file, With
<1>4. TypeOK'
  BY <1>1, <1>2, <1>3 DEF TypeOK, Identities
<1>5. TasksInOrder' /\ FiledInOrder'
  BY <1>1, <1>2, <1>3 DEF TasksInOrder, FiledInOrder, TypeOK, identity, Handshaking
<1>6. RacesKnown'
  BY <1>1, <1>3 DEF RacesKnown, TypeOK, identity
<1>7. \A d \in Connections \ {c} : Filed(d)' => Filed(d)
  BY <1>3 DEF Filed
<1>8. \A d \in Connections \ raced : d # c /\ Filed(d) => Filed(d)'
  BY <1>1, <1>3 DEF Filed, RacesKnown
<1>9. Filed(c)' /\ (c \notin raced => task[c] \in {"Running", "Ended"})
  BY <1>1, <1>3 DEF Filed, RacesKnown
<1>10. RouterExact'
  BY <1>1, <1>7, <1>8, <1>9 DEF RouterExact, TypeOK, identity
<1> QED BY <1>4, <1>5, <1>6, <1>10

LEMMA ShutdownStep ==
  ASSUME RouterInv, shutdown
  PROVE  RouterInv'
BY SessionsAssumption DEF RouterInv, TypeOK, TasksInOrder, FiledInOrder, RacesKnown, RouterExact,
   Filed, Handshaking, Identities, identity, shutdown

LEMMA RouterStep == RouterInv /\ [Next]_vars => RouterInv'
<1> SUFFICES ASSUME RouterInv, [Next]_vars PROVE RouterInv'
  OBVIOUS
<1>1. CASE UNCHANGED vars
  BY <1>1 DEF vars, RouterInv, TypeOK, TasksInOrder, FiledInOrder, RacesKnown, RouterExact, Filed, identity
<1>2. CASE shutdown
  BY <1>2, ShutdownStep
<1>3. ASSUME NEW c \in Connections,
             serve_on(c) \/ authenticate(c) \/ admit(c) \/ answer(c) \/ handshake_timeout(c)
      PROVE  RouterInv'
  BY <1>3, HandshakeStep
<1>4. ASSUME NEW c \in Connections, takeover(c) PROVE RouterInv'
  BY <1>4, TakeoverStep
<1>5. ASSUME NEW c \in Connections, file(c) PROVE RouterInv'
  BY <1>5, FileStep
<1>6. ASSUME NEW c \in Connections, session_ends(c) \/ abort(c) PROVE RouterInv'
  BY <1>6, SessionStep
<1>7. ASSUME NEW c \in Connections, session_removed(c) PROVE RouterInv'
  BY <1>7, RemovedStep
<1>8. ASSUME NEW c \in Connections, NEW r \in Requests, read_request(c, r) PROVE RouterInv'
  BY <1>8, ReadStep
<1> QED BY <1>1, <1>2, <1>3, <1>4, <1>5, <1>6, <1>7, <1>8 DEF Next

(* Every variable of the accept loop and its router keeps its type.          *)
THEOREM TypeCorrect == Spec => []TypeOK
<1>1. RouterInv => TypeOK
  BY DEF RouterInv
<1> QED BY InitRouter, RouterStep, <1>1, PTL DEF Spec

(* However many connections of however many stations interleave at the two   *)
(* locks of run_session, a connection that lost none of the races is in the   *)
(* router exactly while its session runs and nothing newer took its place.    *)
THEOREM RouterIsExact == Spec => []RouterExact
<1>1. RouterInv => RouterExact
  BY DEF RouterInv
<1> QED BY InitRouter, RouterStep, <1>1, PTL DEF Spec

---------------------------------------------------------------------------
(* The limits. *)

PermitsHeld == Cardinality(pending) <= MaxPending /\ IsFiniteSet(DOMAIN router)
LimitInv == PermitsHeld /\ OvershootBounded

LEMMA Finite ==
  ASSUME NEW S \in SUBSET Connections
  PROVE  /\ IsFiniteSet(S) /\ Cardinality(S) \in Nat
         /\ \A T \in SUBSET S : Cardinality(T) \in Nat /\ Cardinality(T) <= Cardinality(S)
         /\ \A c \in S : Cardinality(S \ {c}) = Cardinality(S) - 1
         /\ \A c : Cardinality(S \cup {c}) <= Cardinality(S) + 1
<1>1. IsFiniteSet(S)
  BY SessionsAssumption, FS_Subset
<1>2. Cardinality(S) \in Nat
  BY <1>1, FS_CardinalityType
<1>3. \A T \in SUBSET S : IsFiniteSet(T) /\ Cardinality(T) <= Cardinality(S)
  BY <1>1, FS_Subset
<1>4. \A T \in SUBSET S : Cardinality(T) \in Nat
  BY <1>3, FS_CardinalityType
<1>5. \A c \in S : Cardinality(S \ {c}) = Cardinality(S) - 1
  BY <1>1, FS_RemoveElement
<1>6. \A c : Cardinality(S \cup {c}) = IF c \in S THEN Cardinality(S) ELSE Cardinality(S) + 1
  BY <1>1, FS_AddElement
<1> QED BY <1>1, <1>2, <1>3, <1>4, <1>5, <1>6

(* What leaves the handshake, or leaves the router, only makes room.          *)
LEMMA RoomIsLeft ==
  ASSUME LimitInv, NEW P, NEW A, NEW R,
         P \subseteq pending, A \subseteq admitted, R \subseteq DOMAIN router
  PROVE  /\ Cardinality(P) <= MaxPending /\ IsFiniteSet(R)
         /\ MaxConnections > 0 => Cardinality(R) + Cardinality(A) <= MaxConnections + MaxPending - 1
<1>1. pending \in SUBSET Connections /\ admitted \in SUBSET Connections
  BY DEF pending, admitted
<1>2. /\ Cardinality(pending) \in Nat /\ Cardinality(P) \in Nat /\ Cardinality(P) <= Cardinality(pending)
      /\ Cardinality(admitted) \in Nat /\ Cardinality(A) \in Nat /\ Cardinality(A) <= Cardinality(admitted)
  BY <1>1, Finite
<1>3. IsFiniteSet(DOMAIN router) /\ IsFiniteSet(R) /\ Cardinality(R) <= Cardinality(DOMAIN router)
  BY FS_Subset DEF LimitInv, PermitsHeld
<1>4. Cardinality(R) \in Nat /\ Cardinality(DOMAIN router) \in Nat
  BY <1>3, FS_CardinalityType
<1> QED BY <1>2, <1>3, <1>4, SessionsAssumption DEF LimitInv, PermitsHeld, OvershootBounded

LEMMA InitLimit == Init => LimitInv
<1> SUFFICES ASSUME Init PROVE LimitInv
  OBVIOUS
<1>1. pending = {} /\ admitted = {} /\ DOMAIN router = {}
  BY DEF Init, pending, admitted, Handshaking
<1> QED BY <1>1, FS_EmptySet, SessionsAssumption DEF LimitInv, PermitsHeld, OvershootBounded

LEMMA LimitStep == TypeOK /\ LimitInv /\ [Next]_vars => LimitInv'
<1> SUFFICES ASSUME TypeOK, LimitInv, [Next]_vars PROVE LimitInv'
  OBVIOUS
<1> USE DEF LimitInv, PermitsHeld
<1>0. pending \in SUBSET Connections /\ admitted \in SUBSET pending
  BY DEF pending, admitted, Handshaking
<1>1. ASSUME pending' \subseteq pending, admitted' \subseteq admitted, DOMAIN router' \subseteq DOMAIN router
      PROVE  LimitInv'
  BY <1>1, RoomIsLeft DEF OvershootBounded
<1>2. CASE UNCHANGED vars \/ shutdown
  BY <1>1, <1>2 DEF vars, shutdown, pending, admitted
<1>3. ASSUME NEW c \in Connections, serve_on(c) PROVE LimitInv'
  <2>1. pending' = pending \cup {c} /\ admitted' = admitted /\ router' = router
    BY <1>3 DEF serve_on, Goto, pending, admitted, Handshaking, TypeOK
  <2>2. Cardinality(pending) < MaxPending
    BY <1>3 DEF serve_on
  <2>3. Cardinality(pending \cup {c}) <= Cardinality(pending) + 1
        /\ Cardinality(pending \cup {c}) \in Nat /\ Cardinality(pending) \in Nat
    BY <1>0, Finite
  <2> QED BY <2>1, <2>2, <2>3, SessionsAssumption DEF OvershootBounded
<1>4. ASSUME NEW c \in Connections, admit(c) PROVE LimitInv'
  <2>1. CASE Cardinality(DOMAIN router) >= MaxConnections
    BY <1>1, <1>4, <2>1 DEF admit, Goto, pending, admitted, Handshaking, TypeOK
  <2>2. CASE ~(Cardinality(DOMAIN router) >= MaxConnections)
    <3>1. pending' = pending /\ router' = router /\ admitted' \in SUBSET pending
      BY <1>4, <2>2 DEF admit, Goto, pending, admitted, Handshaking, TypeOK
    <3>2. /\ Cardinality(admitted') \in Nat /\ Cardinality(pending) \in Nat
          /\ Cardinality(admitted') <= Cardinality(pending)
      BY <1>0, <3>1, Finite
    <3>3. Cardinality(DOMAIN router) \in Nat
      BY FS_CardinalityType
    <3> QED BY <2>2, <3>1, <3>2, <3>3, SessionsAssumption DEF OvershootBounded
  <2> QED BY <2>1, <2>2
<1>5. ASSUME NEW c \in Connections, file(c) PROVE LimitInv'
  <2>1. /\ pending' \subseteq pending /\ c \in admitted /\ admitted' = admitted \ {c}
        /\ DOMAIN router' = DOMAIN router \cup {identity(c)}
    BY <1>5 DEF file, Goto, With, pending, admitted, Handshaking, TypeOK
  <2>2. /\ Cardinality(admitted) \in Nat /\ Cardinality(admitted') = Cardinality(admitted) - 1
        /\ Cardinality(pending) \in Nat /\ Cardinality(pending') \in Nat
        /\ Cardinality(pending') <= Cardinality(pending)
    BY <1>0, <2>1, Finite
  <2>3. /\ IsFiniteSet(DOMAIN router') /\ Cardinality(DOMAIN router) \in Nat
        /\ Cardinality(DOMAIN router') \in Nat
        /\ Cardinality(DOMAIN router') <= Cardinality(DOMAIN router) + 1
    <3>1. IsFiniteSet(DOMAIN router) /\ Cardinality(DOMAIN router) \in Nat
      BY FS_CardinalityType
    <3>2. /\ IsFiniteSet(DOMAIN router \cup {identity(c)})
          /\ Cardinality(DOMAIN router \cup {identity(c)})
               = IF identity(c) \in DOMAIN router THEN Cardinality(DOMAIN router)
                 ELSE Cardinality(DOMAIN router) + 1
      BY <3>1, FS_AddElement
    <3> QED BY <2>1, <3>1, <3>2
  <2> QED BY <2>2, <2>3, SessionsAssumption DEF OvershootBounded
<1>6. ASSUME NEW c \in Connections,
             \/ authenticate(c) \/ answer(c) \/ takeover(c) \/ handshake_timeout(c)
             \/ session_ends(c) \/ session_removed(c) \/ abort(c)
             \/ \E r \in Requests : read_request(c, r)
      PROVE  LimitInv'
  <2>1. ASSUME phase' = phase PROVE pending' \subseteq pending /\ admitted' \subseteq admitted
    BY <2>1 DEF pending, admitted
  <2>2. ASSUME authenticate(c) \/ \E r \in Requests : read_request(c, r)
        PROVE  pending' \subseteq pending /\ admitted' \subseteq admitted
    BY <2>2 DEF authenticate, read_request, Goto, pending, admitted, Handshaking, TypeOK
  <2>3. ASSUME answer(c) \/ takeover(c) \/ handshake_timeout(c)
        PROVE  pending' \subseteq pending /\ admitted' \subseteq admitted
    BY <2>3 DEF answer, takeover, handshake_timeout, Goto, pending, admitted, Handshaking, TypeOK
  <2>4. pending' \subseteq pending /\ admitted' \subseteq admitted
    BY <1>6, <2>1, <2>2, <2>3 DEF session_ends, session_removed, abort
  <2>5. DOMAIN router' \subseteq DOMAIN router
    BY <1>6 DEF authenticate, answer, takeover, handshake_timeout, session_ends, session_removed, abort,
       read_request, Without
  <2> QED BY <1>1, <2>4, <2>5
<1> QED BY <1>2, <1>3, <1>4, <1>5, <1>6 DEF Next

(* max_connections is checked long before it is used; the permits that are   *)
(* held in between bound what is filed and what is still to be filed together. *)
THEOREM OvershootIsBounded == Spec => []OvershootBounded
<1>1. LimitInv => OvershootBounded
  BY DEF LimitInv
<1> QED BY TypeCorrect, InitLimit, LimitStep, <1>1, PTL DEF Spec
=============================================================================
