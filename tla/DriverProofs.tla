---------------------------- MODULE DriverProofs ----------------------------
(***************************************************************************)
(* Theorems about the driver of a charging station, for every set of calls, *)
(* any capacity of the command channel and any number of connections.       *)
(***************************************************************************)
EXTENDS Driver, TLAPS, WellFoundedInduction

-----------------------------------------------------------------------------
(* Only, the one recursive definition.  An induction over a sequence is an  *)
(* argument about the least length for which a claim fails.                 *)

LEMMA LeastOne ==
  ASSUME NEW S, S \subseteq Nat, S # {}
  PROVE  \E x \in S : \A y \in S : x <= y
<1> DEFINE Less == {ss \in Nat \X Nat : ss[1] < ss[2]}
<1>1. IsWellFoundedOn(Less, Nat)
  BY NatLessThanWellFounded, Zenon DEF OpToRel
<1>2. PICK x \in S : \A y \in S : ~(<<y, x>> \in Less)
  <2> HIDE DEF Less
  <2> QED BY <1>1, WFMin, Zenon
<1>3. ASSUME NEW y \in S
      PROVE  x <= y
  <2>1. x \in Nat /\ y \in Nat
    OBVIOUS
  <2>2. <<y, x>>[1] = y /\ <<y, x>>[2] = x /\ <<y, x>> \in Nat \X Nat
    BY <2>1
  <2>3. ~(y < x)
    BY <1>2, <2>2, Zenon
  <2> QED BY <2>1, <2>3
<1> QED BY <1>3

(* What the loop of Only has collected after each of the first n elements.  *)
Turns(s, T, f, n) ==
  f = [i \in 0 .. n |-> IF i = 0 THEN <<>> ELSE IF s[i] \in T THEN Append(f[i - 1], s[i]) ELSE f[i - 1]]

LEMMA OnlyIs ==
  ASSUME NEW s, NEW T, NEW g, Turns(s, T, g, Len(s))
  PROVE  \E f : Turns(s, T, f, Len(s)) /\ Only(s, T) = f[Len(s)]
BY DEF Only, Turns

LEMMA TurnsExist ==
  ASSUME NEW S, NEW s \in Seq(S), NEW T
  PROVE  \E f : Turns(s, T, f, Len(s))
<1> DEFINE Bad == {n \in Nat : ~\E f : Turns(s, T, f, n)}
<1> SUFFICES ASSUME Len(s) \in Bad PROVE FALSE
  OBVIOUS
<1>1. PICK n \in Bad : \A m \in Bad : n <= m
  BY LeastOne
<1>2. n \in Nat
  OBVIOUS
<1>3. CASE n = 0
  <2>1. PICK f : f = [i \in 0 .. 0 |-> <<>>]
    OBVIOUS
  <2>2. Turns(s, T, f, 0)
    BY <2>1 DEF Turns
  <2> QED BY <1>3, <2>2
<1>4. CASE n > 0
  <2>1. n - 1 \in Nat /\ ~(n <= n - 1)
    BY <1>2, <1>4
  <2>2. PICK f : Turns(s, T, f, n - 1)
    BY <1>1, <2>1
  <2>3. PICK last : last = IF s[n] \in T THEN Append(f[n - 1], s[n]) ELSE f[n - 1]
    OBVIOUS
  <2>4. PICK g : g = [i \in 0 .. n |-> IF i = n THEN last ELSE f[i]]
    OBVIOUS
  <2>5. \A i \in 0 .. n - 1 : f[i] = IF i = 0 THEN <<>> ELSE IF s[i] \in T THEN Append(f[i - 1], s[i]) ELSE f[i - 1]
    BY <2>2 DEF Turns
  <2>6. \A i \in 0 .. n - 1 : g[i] = f[i]
    BY <1>2, <2>4
  <2>7. \A i \in 0 .. n : g[i] = IF i = 0 THEN <<>> ELSE IF s[i] \in T THEN Append(g[i - 1], s[i]) ELSE g[i - 1]
    <3>1. ASSUME NEW i \in 0 .. n - 1
          PROVE  g[i] = IF i = 0 THEN <<>> ELSE IF s[i] \in T THEN Append(g[i - 1], s[i]) ELSE g[i - 1]
      <4>1. i = 0 \/ i - 1 \in 0 .. n - 1
        BY <1>2
      <4> QED BY <2>5, <2>6, <4>1
    <3>2. g[n] = IF s[n] \in T THEN Append(g[n - 1], s[n]) ELSE g[n - 1]
      <4>1. g[n] = last /\ n - 1 \in 0 .. n - 1
        BY <1>2, <1>4, <2>4
      <4>2. g[n - 1] = f[n - 1]
        BY <2>6, <4>1
      <4> QED BY <2>3, <4>1, <4>2
    <3>3. \A i \in 0 .. n : i = n \/ i \in 0 .. n - 1
      BY <1>2
    <3> QED BY <1>4, <3>1, <3>2, <3>3
  <2>8. Turns(s, T, g, n)
    <3>1. g = [i \in 0 .. n |-> g[i]]
      BY <2>4
    <3> QED BY <2>7, <3>1 DEF Turns
  <2> QED BY <2>8
<1> QED BY <1>2, <1>3, <1>4

(* No two places of s hold the same.                                       *)
Distinct(s) == \A i, j \in DOMAIN s : s[i] = s[j] => i = j

LEMMA OnlyKeeps ==
  ASSUME NEW S, NEW s \in Seq(S), NEW T
  PROVE  /\ Only(s, T) \in Seq(S)
         /\ Elements(Only(s, T)) = Elements(s) \cap T
         /\ Distinct(s) => Distinct(Only(s, T))
<1>1. PICK f : Turns(s, T, f, Len(s)) /\ Only(s, T) = f[Len(s)]
  <2>1. PICK g : Turns(s, T, g, Len(s))
    BY TurnsExist
  <2> QED BY <2>1, OnlyIs
<1>2. /\ f[0] = <<>>
      /\ \A i \in 1 .. Len(s) : f[i] = IF s[i] \in T THEN Append(f[i - 1], s[i]) ELSE f[i - 1]
  <2>1. \A i \in 0 .. Len(s) :
          f[i] = IF i = 0 THEN <<>> ELSE IF s[i] \in T THEN Append(f[i - 1], s[i]) ELSE f[i - 1]
    BY <1>1 DEF Turns
  <2>2. 0 \in 0 .. Len(s) /\ \A i \in 1 .. Len(s) : i \in 0 .. Len(s) /\ i # 0
    OBVIOUS
  <2> QED BY <2>1, <2>2
<1> DEFINE Holds(n) == /\ f[n] \in Seq(S)
                       /\ \A k \in 1 .. Len(f[n]) : \E i \in 1 .. n : f[n][k] = s[i] /\ s[i] \in T
                       /\ \A i \in 1 .. n : s[i] \in T => \E k \in 1 .. Len(f[n]) : f[n][k] = s[i]
                       /\ Distinct(s) => \A k, l \in 1 .. Len(f[n]) : f[n][k] = f[n][l] => k = l
           Bad == {n \in 0 .. Len(s) : ~Holds(n)}
<1>3. Holds(0)
  BY <1>2
<1>4. ASSUME NEW n \in 1 .. Len(s), Holds(n - 1)
      PROVE  Holds(n)
  <2>1. PICK a, b : a = f[n - 1] /\ b = f[n]
    OBVIOUS
  <2>2. /\ n - 1 \in Nat /\ n \in Nat /\ s[n] \in S /\ a \in Seq(S)
        /\ b = IF s[n] \in T THEN Append(a, s[n]) ELSE a
    BY <1>2, <1>4, <2>1
  <2>3. CASE s[n] \in T
    <3>1. /\ b \in Seq(S) /\ Len(b) = Len(a) + 1 /\ b[Len(a) + 1] = s[n]
          /\ \A k \in 1 .. Len(a) : b[k] = a[k]
      BY <2>2, <2>3
    <3>2. \A k \in 1 .. Len(b) : k \in 1 .. Len(a) \/ k = Len(a) + 1
      BY <2>2, <3>1
    <3>3. \A i \in 1 .. n : i \in 1 .. n - 1 \/ i = n
      BY <2>2
    <3>4. \A k \in 1 .. Len(b) : \E i \in 1 .. n : b[k] = s[i] /\ s[i] \in T
      <4>1. \A k \in 1 .. Len(a) : \E i \in 1 .. n - 1 : b[k] = s[i] /\ s[i] \in T
        BY <1>4, <2>1, <3>1
      <4>2. n \in 1 .. n /\ \A i \in 1 .. n - 1 : i \in 1 .. n
        BY <1>4
      <4> QED BY <2>3, <3>1, <3>2, <4>1, <4>2
    <3>5. \A i \in 1 .. n : s[i] \in T => \E k \in 1 .. Len(b) : b[k] = s[i]
      <4>1. \A i \in 1 .. n - 1 : s[i] \in T => \E k \in 1 .. Len(a) : b[k] = s[i]
        BY <1>4, <2>1, <3>1
      <4>2. Len(a) + 1 \in 1 .. Len(b) /\ \A k \in 1 .. Len(a) : k \in 1 .. Len(b)
        BY <2>2, <3>1
      <4> QED BY <3>1, <3>3, <4>1, <4>2
    <3>6. ASSUME Distinct(s), NEW k \in 1 .. Len(b), NEW l \in 1 .. Len(b), b[k] = b[l]
          PROVE  k = l
      <4>1. \A m \in 1 .. Len(a) : b[m] # s[n]
        <5>1. ASSUME NEW m \in 1 .. Len(a), b[m] = s[n]
              PROVE  FALSE
          <6>1. PICK i \in 1 .. n - 1 : a[m] = s[i]
            BY <1>4, <2>1
          <6>2. s[i] = s[n] /\ i \in DOMAIN s /\ n \in DOMAIN s /\ i # n
            BY <1>4, <3>1, <5>1, <6>1
          <6> QED BY <3>6, <6>2 DEF Distinct
        <5> QED BY <5>1
      <4>2. CASE k \in 1 .. Len(a) /\ l \in 1 .. Len(a)
        BY <1>4, <2>1, <3>1, <3>6, <4>2
      <4> QED BY <3>1, <3>2, <3>6, <4>1, <4>2
    <3> QED BY <2>1, <3>1, <3>4, <3>5, <3>6
  <2>4. CASE s[n] \notin T
    <3>1. f[n] = f[n - 1]
      BY <2>1, <2>2, <2>4
    <3>2. \A i \in 1 .. n : (i \in 1 .. n - 1 \/ i = n)
      BY <2>2
    <3>3. \A i \in 1 .. n - 1 : i \in 1 .. n
      BY <2>2
    <3> QED BY <1>4, <2>4, <3>1, <3>2, <3>3
  <2> QED BY <2>3, <2>4
<1>5. Holds(Len(s))
  <2>0. Len(s) \in 0 .. Len(s)
    OBVIOUS
  <2> HIDE DEF Holds
  <2> SUFFICES ASSUME Bad # {} PROVE FALSE
    BY <2>0
  <2>1. PICK n \in Bad : \A m \in Bad : n <= m
    <3>1. Bad \subseteq Nat
      OBVIOUS
    <3> HIDE DEF Bad
    <3> QED BY <3>1, LeastOne
  <2>2. n # 0
    BY <1>3, <2>1
  <2>3. n \in 1 .. Len(s) /\ n - 1 \in 0 .. Len(s) /\ ~(n <= n - 1)
    BY <2>1, <2>2
  <2>4. Holds(n - 1)
    BY <2>1, <2>3
  <2> QED BY <1>4, <2>1, <2>3, <2>4
<1>6. Only(s, T) \in Seq(S) /\ DOMAIN Only(s, T) = 1 .. Len(Only(s, T)) /\ DOMAIN s = 1 .. Len(s)
  <2>1. f[Len(s)] \in Seq(S)
    BY <1>5
  <2>2. Only(s, T) \in Seq(S)
    BY <1>1, <2>1
  <2> QED BY <2>2
<1>7. Elements(Only(s, T)) = Elements(s) \cap T
  <2>1. PICK o : o = Only(s, T)
    OBVIOUS
  <2>2. /\ \A k \in DOMAIN o : \E i \in DOMAIN s : o[k] = s[i] /\ s[i] \in T
        /\ \A i \in DOMAIN s : s[i] \in T => \E k \in DOMAIN o : o[k] = s[i]
    <3>1. o = f[Len(s)] /\ DOMAIN o = 1 .. Len(o) /\ DOMAIN s = 1 .. Len(s)
      BY <1>1, <1>6, <2>1
    <3>2. /\ \A k \in 1 .. Len(o) : \E i \in 1 .. Len(s) : o[k] = s[i] /\ s[i] \in T
          /\ \A i \in 1 .. Len(s) : s[i] \in T => \E k \in 1 .. Len(o) : o[k] = s[i]
      BY <1>5, <3>1, Zenon
    <3> QED BY <3>1, <3>2, Zenon
  <2> QED BY <2>1, <2>2 DEF Elements
<1> QED BY <1>1, <1>5, <1>6, <1>7 DEF Distinct

-----------------------------------------------------------------------------
(* The queue of outputs.                                                   *)

Hows == {"Sent", "Answered", "Failed"}
Out == [type : {"Transmit"}, call : Calls, conn : Nat]
       \cup [type : {"Outcome"}, call : Calls, how : Hows] \cup {Close}

(* The calls the outputs are about.                                        *)
Named(outputs) == {o.call : o \in {p \in Elements(outputs) : p.type # "Close"}}

(* After a call's outcome there is nothing more about the call.            *)
Ordered(outputs) ==
  \A i, j \in DOMAIN outputs :
    i < j /\ outputs[i].type = "Outcome" /\ outputs[j].type # "Close" => outputs[j].call # outputs[i].call

LEMMA OutKinds ==
  ASSUME NEW o \in Out
  PROVE  /\ o.type \in {"Transmit", "Outcome", "Close"}
         /\ o.type # "Close" => o.call \in Calls
         /\ o.type = "Outcome" => o.how \in Hows
BY DEF Out, Close

LEMMA NewOutputs ==
  /\ Close \in Out /\ Close.type = "Close"
  /\ \A c \in Calls, n \in Nat : /\ Transmit(c, n) \in Out /\ Transmit(c, n).type = "Transmit"
                                 /\ Transmit(c, n).call = c
  /\ \A c \in Calls, how \in Hows : /\ Outcome(c, how) \in Out /\ Outcome(c, how).type = "Outcome"
                                    /\ Outcome(c, how).call = c
BY DEF Out, Close, Transmit, Outcome

(* Reported and Named by positions.                                        *)
LEMMA ReportedAt ==
  ASSUME NEW a, NEW c
  PROVE  /\ c \in Reported(a) <=> \E i \in DOMAIN a : a[i].type = "Outcome" /\ a[i].call = c
         /\ c \in Named(a) <=> \E i \in DOMAIN a : a[i].type # "Close" /\ a[i].call = c
BY DEF Reported, Named, Elements

LEMMA OutputsJoin ==
  ASSUME NEW a \in Seq(Out), NEW b \in Seq(Out)
  PROVE  /\ a \o b \in Seq(Out)
         /\ Reported(a \o b) = Reported(a) \cup Reported(b)
         /\ Named(a \o b) = Named(a) \cup Named(b)
         /\ Ordered(a) /\ Ordered(b) /\ Reported(a) \cap Named(b) = {} => Ordered(a \o b)
<1>1. PICK d : d = a \o b
  OBVIOUS
<1>2. /\ d \in Seq(Out) /\ DOMAIN d = 1 .. Len(a) + Len(b) /\ DOMAIN a = 1 .. Len(a) /\ DOMAIN b = 1 .. Len(b)
      /\ Len(a) \in Nat /\ Len(b) \in Nat
      /\ \A i \in DOMAIN a : d[i] = a[i]
      /\ \A i \in DOMAIN b : d[Len(a) + i] = b[i]
  BY <1>1
<1>3. \A i \in DOMAIN d : i \in DOMAIN a \/ (i - Len(a) \in DOMAIN b /\ d[i] = b[i - Len(a)])
  <2>1. ASSUME NEW i \in DOMAIN d, i \notin DOMAIN a
        PROVE  i - Len(a) \in DOMAIN b /\ Len(a) + (i - Len(a)) = i
    BY <1>2, <2>1
  <2> QED BY <1>2, <2>1
<1>4. /\ \A i \in DOMAIN a : i \in DOMAIN d /\ d[i] = a[i]
      /\ \A i \in DOMAIN b : \E k \in DOMAIN d : d[k] = b[i]
  <2>1. \A i \in DOMAIN b : Len(a) + i \in DOMAIN d /\ d[Len(a) + i] = b[i]
    BY <1>2
  <2>2. \A i \in DOMAIN a : i \in DOMAIN d /\ d[i] = a[i]
    BY <1>2
  <2> QED BY <2>1, <2>2
<1>5. Reported(d) = Reported(a) \cup Reported(b)
  <2>1. ASSUME NEW c \in Reported(d)
        PROVE  c \in Reported(a) \cup Reported(b)
    <3>1. PICK i \in DOMAIN d : d[i].type = "Outcome" /\ d[i].call = c
      BY <2>1, ReportedAt
    <3>2. \/ \E k \in DOMAIN a : a[k] = d[i]
          \/ \E k \in DOMAIN b : b[k] = d[i]
      BY <1>2, <1>3
    <3> QED BY <3>1, <3>2, ReportedAt
  <2>2. ASSUME NEW c \in Reported(a) \cup Reported(b)
        PROVE  c \in Reported(d)
    BY <1>4, ReportedAt
  <2> QED BY <2>1, <2>2
<1>6. Named(d) = Named(a) \cup Named(b)
  <2>1. ASSUME NEW c \in Named(d)
        PROVE  c \in Named(a) \cup Named(b)
    <3>1. PICK i \in DOMAIN d : d[i].type # "Close" /\ d[i].call = c
      BY <2>1, ReportedAt
    <3>2. \/ \E k \in DOMAIN a : a[k] = d[i]
          \/ \E k \in DOMAIN b : b[k] = d[i]
      BY <1>2, <1>3
    <3> QED BY <3>1, <3>2, ReportedAt
  <2>2. ASSUME NEW c \in Named(a) \cup Named(b)
        PROVE  c \in Named(d)
    BY <1>4, ReportedAt
  <2> QED BY <2>1, <2>2
<1>7. ASSUME Ordered(a), Ordered(b), Reported(a) \cap Named(b) = {},
             NEW i \in DOMAIN d, NEW j \in DOMAIN d, i < j, d[i].type = "Outcome", d[j].type # "Close"
      PROVE  d[j].call # d[i].call
  <2>1. CASE i \in DOMAIN a /\ j \in DOMAIN a
    BY <1>2, <1>7, <2>1 DEF Ordered
  <2>2. CASE i \notin DOMAIN a /\ j \notin DOMAIN a
    <3>1. i - Len(a) < j - Len(a)
      BY <1>2, <1>7
    <3> QED BY <1>3, <1>7, <2>2, <3>1 DEF Ordered
  <2>3. CASE i \in DOMAIN a /\ j \notin DOMAIN a
    <3>1. d[i].call \in Reported(a)
      BY <1>2, <1>7, <2>3, ReportedAt
    <3>2. d[j].call \in Named(b)
      BY <1>3, <1>7, <2>3, ReportedAt
    <3> QED BY <1>7, <3>1, <3>2
  <2>4. CASE i \notin DOMAIN a /\ j \in DOMAIN a
    BY <1>2, <1>7, <2>4
  <2> QED BY <2>1, <2>2, <2>3, <2>4
<1> QED BY <1>1, <1>2, <1>5, <1>6, <1>7 DEF Ordered

(* What a flush that reached n has handed on, and what it left behind.      *)
LEMMA OutputsSplit ==
  ASSUME NEW a \in Seq(Out), NEW n \in 0 .. Len(a)
  PROVE  LET p == SubSeq(a, 1, n)
             r == Rest(a, n)
         IN /\ p \in Seq(Out) /\ r \in Seq(Out)
            /\ Reported(a) = Reported(p) \cup Reported(r)
            /\ Named(p) \subseteq Named(a) /\ Named(r) \subseteq Named(a)
            /\ Ordered(a) => Ordered(r) /\ Reported(p) \cap Named(r) = {}
<1>1. PICK p, r : p = SubSeq(a, 1, n) /\ r = Rest(a, n)
  OBVIOUS
<1>2. /\ n \in Nat /\ Len(a) \in Nat /\ DOMAIN a = 1 .. Len(a)
      /\ p \in Seq(Out) /\ DOMAIN p = 1 .. n /\ \A i \in DOMAIN p : p[i] = a[i]
  BY <1>1
<1>3. /\ r \in Seq(Out) /\ DOMAIN r = 1 .. Len(a) - n
      /\ \A i \in DOMAIN r : r[i] = a[n + i]
  <2>1. r = SubSeq(a, n + 1, Len(a))
    BY <1>1 DEF Rest
  <2>2. Len(r) = Len(a) - n /\ r \in Seq(Out)
    <3>1. n \in Nat /\ Len(a) \in Nat /\ n <= Len(a) /\ n + 1 \in 1 .. Len(a) + 1
      OBVIOUS
    <3>2. r \in Seq(Out)
      <4>1. \A i \in n + 1 .. Len(a) : a[i] \in Out
        BY <3>1
      <4> QED BY <2>1, <3>1, <4>1
    <3>3. Len(r) = IF n + 1 <= Len(a) THEN Len(a) - (n + 1) + 1 ELSE 0
      BY <2>1, <3>1
    <3> QED BY <3>1, <3>2, <3>3
  <2>3. \A i \in 1 .. Len(a) - n : r[i] = a[n + i]
    BY <1>2, <2>1
  <2> QED BY <2>2, <2>3
<1>4. /\ \A i \in DOMAIN p : i \in DOMAIN a
      /\ \A i \in DOMAIN r : n + i \in DOMAIN a
      /\ \A i \in DOMAIN p : \A j \in DOMAIN r : i < n + j
  BY <1>2, <1>3
<1>5. \A i \in DOMAIN a : i \in DOMAIN p \/ (i - n \in DOMAIN r /\ r[i - n] = a[i])
  <2>1. ASSUME NEW i \in DOMAIN a, i \notin DOMAIN p
        PROVE  i - n \in DOMAIN r /\ n + (i - n) = i
    BY <1>2, <1>3, <2>1
  <2> QED BY <1>3, <2>1
<1>6. Reported(a) = Reported(p) \cup Reported(r)
  <2>0. /\ \A i \in DOMAIN p : a[i] = p[i] /\ i \in DOMAIN a
        /\ \A i \in DOMAIN r : \E k \in DOMAIN a : a[k] = r[i]
    BY <1>2, <1>3, <1>4
  <2>1. ASSUME NEW c \in Reported(a)
        PROVE  c \in Reported(p) \cup Reported(r)
    BY <1>2, <1>5, ReportedAt
  <2>2. ASSUME NEW c \in Reported(p) \cup Reported(r)
        PROVE  c \in Reported(a)
    BY <2>0, ReportedAt
  <2> QED BY <2>1, <2>2
<1>7. Named(p) \subseteq Named(a) /\ Named(r) \subseteq Named(a)
  <2>0. /\ \A i \in DOMAIN p : a[i] = p[i] /\ i \in DOMAIN a
        /\ \A i \in DOMAIN r : \E k \in DOMAIN a : a[k] = r[i]
    BY <1>2, <1>3, <1>4
  <2>1. ASSUME NEW c \in Named(p) \cup Named(r)
        PROVE  c \in Named(a)
    BY <2>0, ReportedAt
  <2> QED BY <2>1
<1>8. ASSUME Ordered(a)
      PROVE  Ordered(r)
  <2>1. \A i, j \in DOMAIN r : i < j => n + i < n + j
    BY <1>2, <1>3
  <2> QED BY <1>3, <1>4, <1>8, <2>1 DEF Ordered
<1>9. ASSUME Ordered(a), NEW c, c \in Reported(p), c \in Named(r)
      PROVE  FALSE
  <2>1. PICK i \in DOMAIN p : p[i].type = "Outcome" /\ p[i].call = c
    BY <1>9, ReportedAt
  <2>2. PICK j \in DOMAIN r : r[j].type # "Close" /\ r[j].call = c
    BY <1>9, ReportedAt
  <2>3. i \in DOMAIN a /\ n + j \in DOMAIN a /\ i < n + j /\ a[i] = p[i] /\ a[n + j] = r[j]
    BY <1>2, <1>3, <1>4
  <2> QED BY <1>9, <2>1, <2>2, <2>3 DEF Ordered
<1> QED BY <1>1, <1>2, <1>3, <1>6, <1>7, <1>8, <1>9

-----------------------------------------------------------------------------
(* The engine, whose replies the driver holds for the calls in P.           *)

Engines == [queue : Seq(Calls), inflight : Calls \cup {None}, draining : BOOLEAN, booted : BOOLEAN,
            tried : SUBSET Calls, outputs : Seq(Out)]

(* The calls the engine has.                                               *)
Held(e) == Elements(e.queue) \cup ({e.inflight} \ {None})

(* Each call has one place in the engine and loses it when its outcome      *)
(* becomes an output; the replies are for the calls that are held or        *)
(* reported, and every output about a call is about one of them.            *)
Sound(e, P) ==
  /\ e \in Engines
  /\ Distinct(e.queue) /\ e.inflight \notin Elements(e.queue)
  /\ Ordered(e.outputs)
  /\ Held(e) \subseteq P /\ Named(e.outputs) \subseteq P
  /\ P \subseteq Held(e) \cup Reported(e.outputs)
  /\ Held(e) \cap Reported(e.outputs) = {}

LEMMA ReportedIsNamed ==
  ASSUME NEW a
  PROVE  Reported(a) \subseteq Named(a)
<1>1. ASSUME NEW c \in Reported(a)
      PROVE  c \in Named(a)
  BY ReportedAt
<1> QED BY <1>1

(* The engine goes on to d and adds the outputs x, which are about calls it *)
(* had and take away those they report.                                     *)
LEMMA Emits ==
  ASSUME NEW e, NEW P, Sound(e, P), NEW d \in Engines, NEW x \in Seq(Out),
         d.outputs = e.outputs \o x, Ordered(x), Named(x) \subseteq Held(e),
         Held(d) = Held(e) \ Reported(x), Distinct(d.queue), d.inflight \notin Elements(d.queue)
  PROVE  Sound(d, P)
<1>1. e.outputs \in Seq(Out)
  BY DEF Sound, Engines
<1>2. Reported(e.outputs) \cap Named(x) = {}
  BY DEF Sound
<1>3. /\ Reported(d.outputs) = Reported(e.outputs) \cup Reported(x)
      /\ Named(d.outputs) = Named(e.outputs) \cup Named(x)
      /\ Ordered(d.outputs)
  BY <1>1, <1>2, OutputsJoin DEF Sound
<1>4. Reported(x) \subseteq Named(x)
  BY ReportedIsNamed
<1> QED BY <1>3, <1>4 DEF Sound

LEMMA OneOutput ==
  ASSUME NEW o \in Out
  PROVE  /\ <<o>> \in Seq(Out) /\ Ordered(<<o>>)
         /\ Named(<<o>>) = IF o.type = "Close" THEN {} ELSE {o.call}
         /\ Reported(<<o>>) = IF o.type = "Outcome" THEN {o.call} ELSE {}
<1>1. PICK x : x = <<o>>
  OBVIOUS
<1>2. x \in Seq(Out) /\ DOMAIN x = {1} /\ x[1] = o
  BY <1>1
<1>3. Elements(x) = {o}
  BY <1>2 DEF Elements
<1>4. Ordered(x)
  BY <1>2 DEF Ordered
<1>5. Named(x) = IF o.type = "Close" THEN {} ELSE {o.call}
  BY <1>3 DEF Named
<1>6. Reported(x) = IF o.type = "Outcome" THEN {o.call} ELSE {}
  BY <1>3 DEF Reported
<1> QED BY <1>1, <1>2, <1>4, <1>5, <1>6

LEMMA NoOutput ==
  <<>> \in Seq(Out) /\ Ordered(<<>>) /\ Named(<<>>) = {} /\ Reported(<<>>) = {}
BY DEF Ordered, Named, Reported, Elements

LEMMA QueueElements ==
  ASSUME NEW q \in Seq(Calls), NEW c \in Calls
  PROVE  /\ Append(q, c) \in Seq(Calls) /\ Elements(Append(q, c)) = Elements(q) \cup {c}
         /\ Distinct(q) /\ c \notin Elements(q) => Distinct(Append(q, c))
         /\ <<c>> \o q \in Seq(Calls) /\ Elements(<<c>> \o q) = Elements(q) \cup {c}
         /\ Distinct(q) /\ c \notin Elements(q) => Distinct(<<c>> \o q)
<1>1. PICK a, b : a = Append(q, c) /\ b = <<c>> \o q
  OBVIOUS
<1>2. /\ Len(q) \in Nat /\ DOMAIN q = 1 .. Len(q)
      /\ a \in Seq(Calls) /\ DOMAIN a = 1 .. Len(q) + 1 /\ a[Len(q) + 1] = c
      /\ \A i \in 1 .. Len(q) : a[i] = q[i]
  BY <1>1
<1>3. /\ b \in Seq(Calls) /\ DOMAIN b = 1 .. Len(q) + 1 /\ b[1] = c
      /\ \A i \in 1 .. Len(q) : b[i + 1] = q[i]
  BY <1>1
<1>4. \A i \in DOMAIN a : i \in DOMAIN q \/ i = Len(q) + 1
  BY <1>2
<1>5. \A i \in DOMAIN b : i = 1 \/ (i - 1 \in DOMAIN q /\ b[i] = q[i - 1])
  <2>1. ASSUME NEW i \in DOMAIN b, i # 1
        PROVE  i - 1 \in 1 .. Len(q) /\ (i - 1) + 1 = i
    BY <1>2, <1>3, <2>1
  <2> QED BY <1>2, <1>3, <2>1
<1>6. Elements(a) = Elements(q) \cup {c}
  <2>1. \A i \in DOMAIN q : i \in DOMAIN a /\ a[i] = q[i]
    BY <1>2
  <2>2. Len(q) + 1 \in DOMAIN a /\ a[Len(q) + 1] = c
    BY <1>2
  <2> QED BY <1>4, <2>1, <2>2 DEF Elements
<1>7. Elements(b) = Elements(q) \cup {c}
  <2>1. \A i \in DOMAIN q : \E k \in DOMAIN b : b[k] = q[i]
    <3>1. \A i \in DOMAIN q : i + 1 \in DOMAIN b /\ b[i + 1] = q[i]
      BY <1>2, <1>3
    <3> QED BY <3>1
  <2>2. 1 \in DOMAIN b /\ b[1] = c
    BY <1>2, <1>3
  <2> QED BY <1>5, <2>1, <2>2 DEF Elements
<1>8. ASSUME Distinct(q), c \notin Elements(q)
      PROVE  Distinct(a) /\ Distinct(b)
  <2>1. \A i \in DOMAIN q : q[i] # c
    BY <1>8 DEF Elements
  <2>2. Distinct(a)
    BY <1>2, <1>4, <1>8, <2>1 DEF Distinct
  <2>3. ASSUME NEW i \in DOMAIN b, NEW j \in DOMAIN b, b[i] = b[j]
        PROVE  i = j
    <3>1. CASE i # 1 /\ j # 1
      <4>1. i - 1 = j - 1
        BY <1>5, <1>8, <2>3, <3>1 DEF Distinct
      <4> QED BY <1>2, <1>3, <4>1
    <3> QED BY <1>3, <1>5, <2>1, <2>3, <3>1
  <2> QED BY <2>2, <2>3 DEF Distinct
<1> QED BY <1>1, <1>2, <1>3, <1>6, <1>7, <1>8

LEMMA QueueHead ==
  ASSUME NEW q \in Seq(Calls), q # <<>>
  PROVE  /\ Head(q) \in Calls /\ Tail(q) \in Seq(Calls)
         /\ Elements(q) = {Head(q)} \cup Elements(Tail(q))
         /\ Distinct(q) => Distinct(Tail(q)) /\ Head(q) \notin Elements(Tail(q))
<1>1. PICK c, t : c = Head(q) /\ t = Tail(q)
  OBVIOUS
<1>2. /\ Len(q) \in Nat /\ Len(q) > 0 /\ DOMAIN q = 1 .. Len(q) /\ c = q[1] /\ c \in Calls
      /\ t \in Seq(Calls) /\ DOMAIN t = 1 .. Len(q) - 1
      /\ \A i \in 1 .. Len(q) - 1 : t[i] = q[i + 1]
  BY <1>1
<1>3. \A i \in DOMAIN q : i = 1 \/ (i - 1 \in DOMAIN t /\ t[i - 1] = q[i])
  <2>1. ASSUME NEW i \in DOMAIN q, i # 1
        PROVE  i - 1 \in 1 .. Len(q) - 1 /\ (i - 1) + 1 = i
    BY <1>2, <2>1
  <2> QED BY <1>2, <2>1
<1>4. 1 \in DOMAIN q /\ \A i \in DOMAIN t : i + 1 \in DOMAIN q /\ i + 1 # 1 /\ t[i] = q[i + 1]
  BY <1>2
<1>5. Elements(q) = {c} \cup Elements(t)
  <2>1. \A i \in DOMAIN t : \E k \in DOMAIN q : t[i] = q[k]
    BY <1>4
  <2> QED BY <1>2, <1>3, <1>4, <2>1 DEF Elements
<1>6. ASSUME Distinct(q)
      PROVE  Distinct(t) /\ c \notin Elements(t)
  <2>1. \A i \in DOMAIN t : t[i] # c
    BY <1>2, <1>4, <1>6 DEF Distinct
  <2>2. ASSUME NEW i \in DOMAIN t, NEW j \in DOMAIN t, t[i] = t[j]
        PROVE  i = j
    <3>1. i + 1 = j + 1
      BY <1>4, <1>6, <2>2 DEF Distinct
    <3> QED BY <1>2, <3>1
  <2> QED BY <2>1, <2>2 DEF Distinct, Elements
<1> QED BY <1>1, <1>2, <1>5, <1>6

(* The outcomes of a list of calls, and the frames of the SENDs with theirs. *)
LEMMA OutcomesOf ==
  ASSUME NEW q \in Seq(Calls), Distinct(q), NEW x, x = [i \in DOMAIN q |-> Outcome(q[i], "Failed")]
  PROVE  x \in Seq(Out) /\ Ordered(x) /\ Named(x) = Elements(q) /\ Reported(x) = Elements(q)
<1>1. DOMAIN q = 1 .. Len(q) /\ Len(q) \in Nat /\ \A i \in DOMAIN q : q[i] \in Calls
  OBVIOUS
<1>2. /\ DOMAIN x = DOMAIN q
      /\ \A i \in DOMAIN q : x[i] \in Out /\ x[i].type = "Outcome" /\ x[i].call = q[i]
  BY <1>1, NewOutputs DEF Hows
<1>3. x \in Seq(Out)
  <2>1. x = [i \in 1 .. Len(q) |-> x[i]]
    BY <1>1
  <2> QED BY <1>1, <1>2, <2>1
<1>4. Ordered(x)
  BY <1>1, <1>2 DEF Ordered, Distinct
<1>5. \A c : /\ c \in Named(x) <=> c \in Elements(q)
             /\ c \in Reported(x) <=> c \in Elements(q)
  BY <1>2, ReportedAt DEF Elements
<1> QED BY <1>3, <1>4, <1>5

LEMMA Halves ==
  ASSUME NEW n \in Nat
  PROVE  /\ \A i \in 1 .. 2 * n : /\ i % 2 = 1 => (i + 1) \div 2 \in 1 .. n
                                  /\ i % 2 # 1 => i \div 2 \in 1 .. n
         /\ \A k \in 1 .. n : 2 * k \in 1 .. 2 * n /\ (2 * k) % 2 # 1 /\ (2 * k) \div 2 = k
         /\ \A i, j \in 1 .. 2 * n : i < j /\ i % 2 # 1 =>
              /\ j % 2 = 1 => i \div 2 < (j + 1) \div 2
              /\ j % 2 # 1 => i \div 2 < j \div 2
OBVIOUS

LEMMA SendsOf ==
  ASSUME NEW q \in Seq(Calls), Distinct(q), NEW n \in Nat, NEW x,
         x = [i \in 1 .. 2 * Len(q) |-> IF i % 2 = 1 THEN Transmit(q[(i + 1) \div 2], n)
                                        ELSE Outcome(q[i \div 2], "Sent")]
  PROVE  x \in Seq(Out) /\ Ordered(x) /\ Named(x) = Elements(q) /\ Reported(x) = Elements(q)
<1>1. DOMAIN q = 1 .. Len(q) /\ Len(q) \in Nat /\ \A i \in 1 .. Len(q) : q[i] \in Calls
  OBVIOUS
<1>2. /\ DOMAIN x = 1 .. 2 * Len(q) /\ 2 * Len(q) \in Nat
      /\ \A i \in DOMAIN x : x[i] = IF i % 2 = 1 THEN Transmit(q[(i + 1) \div 2], n) ELSE Outcome(q[i \div 2], "Sent")
  BY <1>1
<1>3. \A i \in DOMAIN x : /\ i % 2 = 1 => /\ x[i] \in Out /\ x[i].type = "Transmit"
                                          /\ (i + 1) \div 2 \in DOMAIN q /\ x[i].call = q[(i + 1) \div 2]
                          /\ i % 2 # 1 => /\ x[i] \in Out /\ x[i].type = "Outcome"
                                          /\ i \div 2 \in DOMAIN q /\ x[i].call = q[i \div 2]
  <2>1. \A i \in DOMAIN x : /\ i % 2 = 1 => (i + 1) \div 2 \in 1 .. Len(q)
                            /\ i % 2 # 1 => i \div 2 \in 1 .. Len(q)
    BY <1>1, <1>2, Halves
  <2>2. ASSUME NEW i \in DOMAIN x, i % 2 = 1
        PROVE  x[i] \in Out /\ x[i].type = "Transmit" /\ x[i].call = q[(i + 1) \div 2]
    <3>1. PICK c \in Calls : c = q[(i + 1) \div 2] /\ x[i] = Transmit(c, n)
      BY <1>1, <1>2, <2>1, <2>2
    <3>2. x[i] \in Out /\ x[i].type = "Transmit" /\ x[i].call = c
      BY <3>1, NewOutputs
    <3> QED BY <3>1, <3>2
  <2>3. ASSUME NEW i \in DOMAIN x, i % 2 # 1
        PROVE  x[i] \in Out /\ x[i].type = "Outcome" /\ x[i].call = q[i \div 2]
    <3>1. PICK c \in Calls : c = q[i \div 2] /\ x[i] = Outcome(c, "Sent")
      BY <1>1, <1>2, <2>1, <2>3
    <3>2. x[i] \in Out /\ x[i].type = "Outcome" /\ x[i].call = c
      BY <3>1, NewOutputs DEF Hows
    <3> QED BY <3>1, <3>2
  <2> QED BY <1>1, <2>1, <2>2, <2>3
<1>4. x \in Seq(Out)
  <2>1. x = [i \in 1 .. 2 * Len(q) |-> x[i]] /\ \A i \in 1 .. 2 * Len(q) : x[i] \in Out
    BY <1>2, <1>3
  <2> HIDE DEF Out
  <2> QED BY <1>2, <2>1
<1>5. ASSUME NEW i \in DOMAIN x, NEW j \in DOMAIN x, i < j, x[i].type = "Outcome"
      PROVE  x[j].call # x[i].call
  <2>1. i % 2 # 1
    BY <1>3, <1>5
  <2>2. PICK k \in DOMAIN q, l \in DOMAIN q : x[i].call = q[k] /\ x[j].call = q[l] /\ k < l
    <3>1. CASE j % 2 = 1
      <4>1. i \div 2 < (j + 1) \div 2
        BY <1>1, <1>2, <1>5, <2>1, <3>1, Halves
      <4> QED BY <1>3, <2>1, <3>1, <4>1
    <3>2. CASE j % 2 # 1
      <4>1. i \div 2 < j \div 2
        BY <1>1, <1>2, <1>5, <2>1, <3>2, Halves
      <4> QED BY <1>3, <2>1, <3>2, <4>1
    <3> QED BY <3>1, <3>2
  <2>3. k # l
    BY <1>1, <2>2
  <2> QED BY <2>2, <2>3 DEF Distinct
<1>6. \A i \in DOMAIN x : \E k \in DOMAIN q : x[i].call = q[k]
  BY <1>3
<1>7. \A k \in DOMAIN q : \E i \in DOMAIN x : x[i].type = "Outcome" /\ x[i].call = q[k]
  <2>1. ASSUME NEW k \in DOMAIN q
        PROVE  2 * k \in DOMAIN x /\ (2 * k) % 2 # 1 /\ (2 * k) \div 2 = k
    BY <1>1, <1>2, Halves
  <2> QED BY <1>3, <2>1
<1>8. \A c : /\ c \in Named(x) <=> c \in Elements(q)
             /\ c \in Reported(x) <=> c \in Elements(q)
  <2>1. ASSUME NEW c \in Named(x)
        PROVE  c \in Elements(q)
    <3>1. PICK i \in DOMAIN x : x[i].call = c
      BY ReportedAt
    <3> QED BY <1>6, <3>1 DEF Elements
  <2>2. ASSUME NEW c \in Elements(q)
        PROVE  c \in Reported(x)
    <3>1. PICK k \in DOMAIN q : c = q[k]
      BY DEF Elements
    <3>2. \E i \in DOMAIN x : x[i].type = "Outcome" /\ x[i].call = c
      BY <1>7, <3>1
    <3> QED BY <3>2, ReportedAt
  <2> QED BY <2>1, <2>2, ReportedIsNamed
<1> QED BY <1>4, <1>5, <1>8 DEF Ordered

-----------------------------------------------------------------------------
(* What the engine's operations keep.                                      *)

LEMMA CheckDrainSound ==
  ASSUME NEW e, NEW P, Sound(e, P)
  PROVE  Sound(check_drain(e), P)
<1>1. e \in Engines /\ e.outputs \in Seq(Out)
  BY DEF Sound, Engines
<1>2. PICK d : d = [Emit(e, <<Close>>) EXCEPT !.draining = FALSE]
  OBVIOUS
<1>3. <<Close>> \in Seq(Out) /\ Ordered(<<Close>>) /\ Named(<<Close>>) = {} /\ Reported(<<Close>>) = {}
  BY NewOutputs, OneOutput
<1>4. e.outputs \o <<Close>> \in Seq(Out)
  BY <1>1, <1>3
<1>5. /\ d \in Engines /\ d.outputs = e.outputs \o <<Close>>
      /\ d.queue = e.queue /\ d.inflight = e.inflight
  BY <1>1, <1>2, <1>4 DEF Emit, Engines
<1>6. Held(d) = Held(e) \ Reported(<<Close>>) /\ Named(<<Close>>) \subseteq Held(e)
  BY <1>3, <1>5 DEF Held
<1>7. Distinct(d.queue) /\ d.inflight \notin Elements(d.queue)
  BY <1>5 DEF Sound
<1>8. Sound(d, P)
  BY <1>3, <1>5, <1>6, <1>7, Emits
<1> QED BY <1>2, <1>8 DEF check_drain

LEMMA RequeueSound ==
  ASSUME NEW e, NEW P, Sound(e, P)
  PROVE  Sound(requeue_or_fail(e), P) /\ requeue_or_fail(e).inflight = None
<1>1. /\ e \in Engines /\ e.outputs \in Seq(Out) /\ e.queue \in Seq(Calls) /\ e.tried \subseteq Calls
      /\ Distinct(e.queue) /\ e.inflight \notin Elements(e.queue)
  BY DEF Sound, Engines
<1>2. PICK c : c = e.inflight
  OBVIOUS
<1>3. CASE c = None
  BY <1>2, <1>3 DEF requeue_or_fail
<1>4. CASE c # None /\ c \in Retried \ e.tried
  <2>1. PICK d : d = requeue_or_fail(e)
    OBVIOUS
  <2>2. d = [e EXCEPT !.inflight = None, !.queue = <<c>> \o e.queue, !.tried = e.tried \cup {c}]
    BY <1>2, <1>4, <2>1 DEF requeue_or_fail
  <2>3. c \in Calls /\ None \notin Calls
    BY <1>1, <1>2, <1>4, DriverAssumption DEF Engines
  <2>4. PICK q : q = <<c>> \o e.queue
    OBVIOUS
  <2>5. q \in Seq(Calls) /\ Elements(q) = Elements(e.queue) \cup {c} /\ Distinct(q)
    BY <1>1, <1>2, <2>3, <2>4, QueueElements
  <2>6. d \in Engines /\ d.outputs = e.outputs /\ d.queue = q /\ d.inflight = None
    BY <1>1, <2>2, <2>3, <2>4, <2>5 DEF Engines
  <2>7. None \notin Elements(q)
    BY <2>3, <2>5 DEF Elements
  <2>8. Held(d) = Held(e)
    BY <1>2, <1>4, <2>5, <2>6 DEF Held
  <2>9. d.outputs = e.outputs \o <<>>
    BY <1>1, <2>6
  <2>10. Sound(d, P)
    BY <2>5, <2>6, <2>7, <2>8, <2>9, Emits, NoOutput
  <2> QED BY <2>1, <2>6, <2>10
<1>5. CASE c # None /\ c \notin Retried \ e.tried
  <2>1. PICK d : d = requeue_or_fail(e)
    OBVIOUS
  <2>2. PICK x : x = <<Outcome(c, "Failed")>>
    OBVIOUS
  <2>3. d = [Emit(e, x) EXCEPT !.inflight = None]
    BY <1>2, <1>5, <2>1, <2>2 DEF requeue_or_fail
  <2>4. c \in Calls /\ None \notin Calls
    BY <1>1, <1>2, <1>5, DriverAssumption DEF Engines
  <2>5. x \in Seq(Out) /\ Ordered(x) /\ Named(x) = {c} /\ Reported(x) = {c}
    <3>1. PICK o \in Out : o = Outcome(c, "Failed") /\ o.type = "Outcome" /\ o.call = c
      BY <2>4, NewOutputs DEF Hows
    <3> QED BY <2>2, <3>1, OneOutput
  <2>6. e.outputs \o x \in Seq(Out)
    BY <1>1, <2>5
  <2>7. d \in Engines /\ d.outputs = e.outputs \o x /\ d.queue = e.queue /\ d.inflight = None
    BY <1>1, <2>3, <2>6 DEF Emit, Engines
  <2>8. None \notin Elements(e.queue)
    BY <1>1, <2>4 DEF Elements
  <2>9. Held(d) = Held(e) \ Reported(x) /\ Named(x) \subseteq Held(e)
    BY <1>1, <1>2, <1>5, <2>5, <2>7 DEF Held
  <2>10. Sound(d, P)
    BY <1>1, <2>5, <2>7, <2>8, <2>9, Emits
  <2> QED BY <2>1, <2>7, <2>10
<1> QED BY <1>3, <1>4, <1>5

LEMMA PumpSound ==
  ASSUME NEW e, NEW P, Sound(e, P), NEW n \in Nat
  PROVE  Sound(pump(e, n), P)
<1>1. /\ e \in Engines /\ e.outputs \in Seq(Out) /\ e.queue \in Seq(Calls)
      /\ Distinct(e.queue) /\ e.inflight \notin Elements(e.queue)
  BY DEF Sound, Engines
<1>2. PICK sends, calls : sends = Only(e.queue, Sends) /\ calls = Only(e.queue, Calls \ Sends)
  OBVIOUS
<1>3. /\ sends \in Seq(Calls) /\ Distinct(sends) /\ Elements(sends) = Elements(e.queue) \cap Sends
      /\ calls \in Seq(Calls) /\ Distinct(calls) /\ Elements(calls) = Elements(e.queue) \cap (Calls \ Sends)
  BY <1>1, <1>2, OnlyKeeps
<1>4. PICK x : x = [i \in 1 .. 2 * Len(sends) |-> IF i % 2 = 1 THEN Transmit(sends[(i + 1) \div 2], n)
                                                  ELSE Outcome(sends[i \div 2], "Sent")]
  OBVIOUS
<1>5. x \in Seq(Out) /\ Ordered(x) /\ Named(x) = Elements(sends) /\ Reported(x) = Elements(sends)
  BY <1>3, <1>4, SendsOf
<1>6. PICK d : d = [Emit(e, x) EXCEPT !.queue = calls]
  OBVIOUS
<1>7. e.outputs \o x \in Seq(Out)
  BY <1>1, <1>5
<1>8. d \in Engines /\ d.outputs = e.outputs \o x /\ d.queue = calls /\ d.inflight = e.inflight
  BY <1>1, <1>3, <1>6, <1>7 DEF Emit, Engines
<1>9. Elements(e.queue) \subseteq Calls
  BY <1>1 DEF Elements
<1>10. Held(d) = Held(e) \ Reported(x) /\ Named(x) \subseteq Held(e)
  BY <1>1, <1>3, <1>5, <1>8, <1>9 DEF Held
<1>11. Sound(d, P)
  BY <1>1, <1>3, <1>5, <1>8, <1>10, Emits
<1>12. CASE ~e.booted
  BY <1>12 DEF pump
<1>13. CASE e.booted /\ (e.inflight # None \/ calls = <<>>)
  <2>1. pump(e, n) = d
    BY <1>2, <1>4, <1>6, <1>13, Zenon DEF pump
  <2> QED BY <1>11, <2>1
<1>14. CASE e.booted /\ e.inflight = None /\ calls # <<>>
  <2>1. PICK c, t, y : c = Head(calls) /\ t = Tail(calls) /\ y = <<Transmit(c, n)>>
    OBVIOUS
  <2>2. PICK g : g = [Emit(d, y) EXCEPT !.queue = t, !.inflight = c]
    OBVIOUS
  <2>3. pump(e, n) = g
    BY <1>2, <1>4, <1>6, <1>14, <2>1, <2>2, Zenon DEF pump
  <2>4. /\ c \in Calls /\ t \in Seq(Calls) /\ Elements(calls) = {c} \cup Elements(t)
        /\ Distinct(t) /\ c \notin Elements(t)
    BY <1>3, <1>14, <2>1, QueueHead
  <2>5. y \in Seq(Out) /\ Ordered(y) /\ Named(y) = {c} /\ Reported(y) = {}
    <3>1. PICK o \in Out : o = Transmit(c, n) /\ o.type = "Transmit" /\ o.call = c
      BY <2>4, NewOutputs
    <3> QED BY <2>1, <3>1, OneOutput
  <2>6. d.outputs \in Seq(Out)
    BY <1>8 DEF Engines
  <2>7. d.outputs \o y \in Seq(Out)
    BY <2>5, <2>6
  <2>8. g \in Engines /\ g.outputs = d.outputs \o y /\ g.queue = t /\ g.inflight = c
    BY <1>8, <2>2, <2>4, <2>7 DEF Emit, Engines
  <2>9. None \notin Calls
    BY DriverAssumption
  <2>10. Held(g) = Held(d) \ Reported(y) /\ Named(y) \subseteq Held(d)
    BY <1>8, <1>14, <2>4, <2>5, <2>8, <2>9 DEF Held
  <2>11. Sound(g, P)
    BY <1>11, <2>4, <2>5, <2>8, <2>10, Emits
  <2> QED BY <2>3, <2>11
<1> QED BY <1>12, <1>13, <1>14

LEMMA DisconnectedSound ==
  ASSUME NEW e, NEW P, Sound(e, P)
  PROVE  Sound(on_disconnected(e), P)
<1>1. PICK b : b = requeue_or_fail(e)
  OBVIOUS
<1>2. Sound(b, P) /\ b.inflight = None
  BY <1>1, RequeueSound
<1>3. b \in Engines /\ b.outputs \in Seq(Out) /\ b.queue \in Seq(Calls) /\ Distinct(b.queue)
  BY <1>2 DEF Sound, Engines
<1>4. PICK q, r : q = Only(b.queue, Calls \ Kept) /\ r = Only(b.queue, Kept)
  OBVIOUS
<1>5. /\ q \in Seq(Calls) /\ Distinct(q) /\ Elements(q) = Elements(b.queue) \cap (Calls \ Kept)
      /\ r \in Seq(Calls) /\ Distinct(r) /\ Elements(r) = Elements(b.queue) \cap Kept
  BY <1>3, <1>4, OnlyKeeps
<1>6. PICK x : x = [i \in DOMAIN q |-> Outcome(q[i], "Failed")]
  OBVIOUS
<1>7. x \in Seq(Out) /\ Ordered(x) /\ Named(x) = Elements(q) /\ Reported(x) = Elements(q)
  BY <1>5, <1>6, OutcomesOf
<1>8. PICK d : d = [Emit(b, x) EXCEPT !.queue = r]
  OBVIOUS
<1>9. b.outputs \o x \in Seq(Out)
  BY <1>3, <1>7
<1>10. d \in Engines /\ d.outputs = b.outputs \o x /\ d.queue = r /\ d.inflight = None
  BY <1>2, <1>3, <1>5, <1>8, <1>9 DEF Emit, Engines
<1>11. Elements(b.queue) \subseteq Calls /\ None \notin Calls
  BY <1>3, DriverAssumption DEF Elements
<1>12. Held(d) = Held(b) \ Reported(x) /\ Named(x) \subseteq Held(b)
  BY <1>2, <1>5, <1>7, <1>10, <1>11 DEF Held
<1>13. Sound(d, P)
  BY <1>2, <1>5, <1>7, <1>10, <1>11, <1>12, Emits
<1>14. on_disconnected(e) = check_drain(d)
  <2>1. d = [Emit(b, x) EXCEPT !.queue = Only(Emit(b, x).queue, Kept)]
    BY <1>3, <1>4, <1>8 DEF Emit, Engines
  <2> QED BY <1>1, <1>4, <1>6, <2>1, Zenon DEF on_disconnected
<1> QED BY <1>13, <1>14, CheckDrainSound

LEMMA CallWithSound ==
  ASSUME NEW e, NEW P, Sound(e, P), NEW c \in Calls, c \notin P
  PROVE  Sound([e EXCEPT !.queue = Append(@, c)], P \cup {c})
<1>1. e \in Engines /\ e.queue \in Seq(Calls) /\ e.outputs \in Seq(Out) /\ Distinct(e.queue)
  BY DEF Sound, Engines
<1>2. c \notin Held(e) /\ c \notin Named(e.outputs) /\ c # None
  BY DriverAssumption DEF Sound
<1>3. c \notin Elements(e.queue) /\ c # e.inflight
  BY <1>2 DEF Held
<1>4. PICK q : q = Append(e.queue, c)
  OBVIOUS
<1>5. q \in Seq(Calls) /\ Elements(q) = Elements(e.queue) \cup {c} /\ Distinct(q)
  BY <1>1, <1>3, <1>4, QueueElements
<1>6. PICK d : d = [e EXCEPT !.queue = Append(@, c)]
  OBVIOUS
<1>7. d \in Engines /\ d.queue = q /\ d.inflight = e.inflight /\ d.outputs = e.outputs
  BY <1>1, <1>4, <1>5, <1>6 DEF Engines
<1>8. Held(d) = Held(e) \cup {c}
  BY <1>5, <1>7 DEF Held
<1>9. c \notin Reported(e.outputs)
  BY <1>2, ReportedIsNamed
<1>10. d.inflight \notin Elements(d.queue)
  BY <1>3, <1>5, <1>7 DEF Sound
<1>11. Sound(d, P \cup {c})
  BY <1>5, <1>7, <1>8, <1>9, <1>10 DEF Sound
<1> QED BY <1>6, <1>11

LEMMA ShutdownSound ==
  ASSUME NEW e, NEW P, Sound(e, P)
  PROVE  Sound(shutdown(e), P)
<1>1. PICK d : d = [e EXCEPT !.draining = TRUE]
  OBVIOUS
<1>2. e \in Engines
  BY DEF Sound
<1>3. d \in Engines /\ d.queue = e.queue /\ d.inflight = e.inflight /\ d.outputs = e.outputs
  BY <1>1, <1>2 DEF Engines
<1>4. Sound(d, P)
  BY <1>3 DEF Sound, Held
<1>5. Sound(check_drain(d), P)
  BY <1>4, CheckDrainSound
<1> QED BY <1>1, <1>5 DEF shutdown

LEMMA BootAcceptedSound ==
  ASSUME NEW e, NEW P, Sound(e, P), conn \in Nat
  PROVE  Sound(on_boot_accepted(e), P)
<1>1. PICK d : d = [e EXCEPT !.booted = TRUE]
  OBVIOUS
<1>2. e \in Engines
  BY DEF Sound
<1>3. d \in Engines /\ d.queue = e.queue /\ d.inflight = e.inflight /\ d.outputs = e.outputs
  BY <1>1, <1>2 DEF Engines
<1>4. Sound(d, P)
  BY <1>3 DEF Sound, Held
<1>5. Sound(check_drain(pump(d, conn)), P)
  BY <1>4, PumpSound, CheckDrainSound
<1> QED BY <1>1, <1>5 DEF on_boot_accepted

LEMMA CallResultSound ==
  ASSUME NEW e, NEW P, Sound(e, P), e.inflight # None, conn \in Nat
  PROVE  Sound(on_call_result(e), P)
<1>1. /\ e \in Engines /\ e.outputs \in Seq(Out) /\ e.queue \in Seq(Calls) /\ e.inflight \in Calls
      /\ Distinct(e.queue) /\ e.inflight \notin Elements(e.queue)
  BY DEF Sound, Engines
<1>2. PICK c, x : c = e.inflight /\ x = <<Outcome(c, "Answered")>>
  OBVIOUS
<1>3. x \in Seq(Out) /\ Ordered(x) /\ Named(x) = {c} /\ Reported(x) = {c}
  <2>1. PICK o \in Out : o = Outcome(c, "Answered") /\ o.type = "Outcome" /\ o.call = c
    BY <1>1, <1>2, NewOutputs DEF Hows
  <2> QED BY <1>2, <2>1, OneOutput
<1>4. PICK d : d = [Emit(e, x) EXCEPT !.inflight = None]
  OBVIOUS
<1>5. e.outputs \o x \in Seq(Out)
  BY <1>1, <1>3
<1>6. d \in Engines /\ d.outputs = e.outputs \o x /\ d.queue = e.queue /\ d.inflight = None
  BY <1>1, <1>4, <1>5 DEF Emit, Engines
<1>7. None \notin Elements(e.queue)
  BY <1>1, DriverAssumption DEF Elements
<1>8. Held(d) = Held(e) \ Reported(x) /\ Named(x) \subseteq Held(e)
  BY <1>1, <1>2, <1>3, <1>6 DEF Held
<1>9. Sound(d, P)
  BY <1>1, <1>3, <1>6, <1>7, <1>8, Emits
<1>10. on_call_result(e) = check_drain(pump(d, conn))
  BY <1>2, <1>4, Zenon DEF on_call_result
<1> QED BY <1>9, <1>10, PumpSound, CheckDrainSound

LEMMA DrainTimeoutSound ==
  ASSUME NEW e, NEW P, Sound(e, P)
  PROVE  Sound(on_drain_timeout(e), P)
<1>1. e \in Engines /\ e.outputs \in Seq(Out)
  BY DEF Sound, Engines
<1>2. PICK d : d = [Emit(e, <<Close>>) EXCEPT !.draining = FALSE]
  OBVIOUS
<1>3. <<Close>> \in Seq(Out) /\ Ordered(<<Close>>) /\ Named(<<Close>>) = {} /\ Reported(<<Close>>) = {}
  BY NewOutputs, OneOutput
<1>4. e.outputs \o <<Close>> \in Seq(Out)
  BY <1>1, <1>3
<1>5. /\ d \in Engines /\ d.outputs = e.outputs \o <<Close>>
      /\ d.queue = e.queue /\ d.inflight = e.inflight
  BY <1>1, <1>2, <1>4 DEF Emit, Engines
<1>6. Held(d) = Held(e) \ Reported(<<Close>>) /\ Named(<<Close>>) \subseteq Held(e)
  BY <1>3, <1>5 DEF Held
<1>7. Distinct(d.queue) /\ d.inflight \notin Elements(d.queue)
  BY <1>5 DEF Sound
<1>8. Sound(d, P)
  BY <1>3, <1>5, <1>6, <1>7, Emits
<1> QED BY <1>2, <1>8 DEF on_drain_timeout

(* A flush that hands on the first n outputs, and the replies they report.  *)
LEMMA FlushSound ==
  ASSUME NEW e, NEW P, Sound(e, P), NEW n \in 0 .. Len(e.outputs)
  PROVE  Sound([e EXCEPT !.outputs = Rest(@, n)], P \ Reported(SubSeq(e.outputs, 1, n)))
<1>1. e \in Engines /\ e.outputs \in Seq(Out)
  BY DEF Sound, Engines
<1>2. PICK a, p, r : a = e.outputs /\ p = SubSeq(a, 1, n) /\ r = Rest(a, n)
  OBVIOUS
<1>3. /\ p \in Seq(Out) /\ r \in Seq(Out)
      /\ Reported(a) = Reported(p) \cup Reported(r)
      /\ Named(p) \subseteq Named(a) /\ Named(r) \subseteq Named(a)
      /\ Ordered(a) => Ordered(r) /\ Reported(p) \cap Named(r) = {}
  BY <1>1, <1>2, OutputsSplit
<1>4. PICK d : d = [e EXCEPT !.outputs = Rest(@, n)]
  OBVIOUS
<1>5. d \in Engines /\ d.queue = e.queue /\ d.inflight = e.inflight /\ d.outputs = r
  BY <1>1, <1>2, <1>3, <1>4 DEF Engines
<1>6. Held(d) = Held(e)
  BY <1>5 DEF Held
<1>7. Sound(d, P \ Reported(p))
  BY <1>2, <1>3, <1>5, <1>6 DEF Sound
<1> QED BY <1>2, <1>4, <1>7

LEMMA ReachIn ==
  ASSUME NEW s \in Seq(Out)
  PROVE  Reach(s) \subseteq 0 .. Len(s)
BY DEF Reach, Frames

LEMMA HowIsOne ==
  ASSUME NEW a \in Seq(Out), NEW c \in Reported(a)
  PROVE  HowReported(a, c) \in Hows
<1>1. PICK o \in Elements(a) : o.type = "Outcome" /\ o.call = c
  BY DEF Reported
<1>2. PICK b : b = CHOOSE p \in Elements(a) : p.type = "Outcome" /\ p.call = c
  OBVIOUS
<1>3. b \in Elements(a) /\ b.type = "Outcome"
  BY <1>1, <1>2
<1>4. b \in Out
  BY <1>3 DEF Elements
<1> QED BY <1>2, <1>3, <1>4, OutKinds DEF HowReported

-----------------------------------------------------------------------------
(* The command channel.                                                    *)

(* The calls whose command is in the channel; each has one there.           *)
Commanded(s) == {c \in Calls : \E i \in DOMAIN s : s[i] = [type |-> "Call", call |-> c]}
OneEach(s) == \A i, j \in DOMAIN s : s[i] = s[j] /\ s[i].type = "Call" => i = j

LEMMA CommandKinds ==
  ASSUME NEW o \in Commands
  PROVE  \/ o.type = "Shutdown" /\ \A c : o # [type |-> "Call", call |-> c]
         \/ o.type = "Call" /\ o.call \in Calls /\ o = [type |-> "Call", call |-> o.call]
BY DEF Commands

LEMMA ChannelHead ==
  ASSUME NEW s \in Seq(Commands), s # <<>>, OneEach(s)
  PROVE  /\ Head(s) \in Commands /\ Tail(s) \in Seq(Commands) /\ OneEach(Tail(s))
         /\ Head(s).type = "Shutdown" => Commanded(Tail(s)) = Commanded(s)
         /\ Head(s).type # "Shutdown" => /\ Head(s).call \in Commanded(s)
                                         /\ Commanded(Tail(s)) = Commanded(s) \ {Head(s).call}
<1>1. PICK o, t : o = Head(s) /\ t = Tail(s)
  OBVIOUS
<1>2. /\ Len(s) \in Nat /\ Len(s) > 0 /\ DOMAIN s = 1 .. Len(s) /\ o = s[1] /\ o \in Commands
      /\ t \in Seq(Commands) /\ DOMAIN t = 1 .. Len(s) - 1
      /\ \A i \in 1 .. Len(s) - 1 : t[i] = s[i + 1]
  BY <1>1
<1>3. \A i \in DOMAIN s : i = 1 \/ (i - 1 \in DOMAIN t /\ t[i - 1] = s[i])
  <2>1. ASSUME NEW i \in DOMAIN s, i # 1
        PROVE  i - 1 \in 1 .. Len(s) - 1 /\ (i - 1) + 1 = i
    BY <1>2, <2>1
  <2> QED BY <1>2, <2>1
<1>4. 1 \in DOMAIN s /\ \A i \in DOMAIN t : i + 1 \in DOMAIN s /\ i + 1 # 1 /\ t[i] = s[i + 1]
  BY <1>2
<1>5. OneEach(t)
  <2>1. ASSUME NEW i \in DOMAIN t, NEW j \in DOMAIN t, t[i] = t[j], t[i].type = "Call"
        PROVE  i = j
    <3>1. i + 1 = j + 1
      BY <1>4, <2>1 DEF OneEach
    <3> QED BY <1>2, <3>1
  <2> QED BY <2>1 DEF OneEach
<1>6. \A i \in DOMAIN t : \E k \in DOMAIN s : k # 1 /\ t[i] = s[k]
  BY <1>4
<1>7. ASSUME o.type = "Shutdown"
      PROVE  Commanded(t) = Commanded(s)
  <2>1. \A c : o # [type |-> "Call", call |-> c]
    BY <1>2, <1>7, CommandKinds
  <2>2. \A c \in Calls : \A i \in DOMAIN s : s[i] = [type |-> "Call", call |-> c] =>
          \E k \in DOMAIN t : t[k] = [type |-> "Call", call |-> c]
    BY <1>2, <1>3, <2>1
  <2>3. \A c \in Calls : c \in Commanded(t) <=> c \in Commanded(s)
    BY <1>6, <2>2 DEF Commanded
  <2>4. Commanded(t) \subseteq Calls /\ Commanded(s) \subseteq Calls
    BY DEF Commanded
  <2> QED BY <2>3, <2>4
<1>8. ASSUME o.type # "Shutdown"
      PROVE  o.call \in Commanded(s) /\ Commanded(t) = Commanded(s) \ {o.call}
  <2>1. o.type = "Call" /\ o.call \in Calls /\ o = [type |-> "Call", call |-> o.call]
    BY <1>2, <1>8, CommandKinds
  <2>2. PICK c \in Calls : c = o.call /\ o = [type |-> "Call", call |-> c]
    BY <2>1
  <2>3. c \in Commanded(s)
    BY <1>2, <1>4, <2>2 DEF Commanded
  <2>4. c \notin Commanded(t)
    <3>1. ASSUME NEW i \in DOMAIN t, t[i] = o
          PROVE  FALSE
      <4>1. i + 1 \in DOMAIN s /\ i + 1 # 1 /\ s[i + 1] = s[1]
        BY <1>2, <1>4, <3>1
      <4>2. s[i + 1].type = "Call" /\ 1 \in DOMAIN s
        BY <1>2, <1>4, <2>1, <4>1
      <4>3. PICK k \in DOMAIN s : k # 1 /\ s[k] = s[1] /\ s[k].type = "Call"
        BY <4>1, <4>2
      <4> QED BY <4>2, <4>3 DEF OneEach
    <3> QED BY <2>2, <3>1 DEF Commanded
  <2>5. \A b \in Calls : b # c => (b \in Commanded(t) <=> b \in Commanded(s))
    <3>1. \A b : b # c => o # [type |-> "Call", call |-> b]
      BY <2>2
    <3>2. \A b \in Calls : \A i \in DOMAIN s : b # c /\ s[i] = [type |-> "Call", call |-> b] =>
            \E k \in DOMAIN t : t[k] = [type |-> "Call", call |-> b]
      BY <1>2, <1>3, <3>1
    <3> QED BY <1>6, <3>2 DEF Commanded
  <2>6. Commanded(t) \subseteq Calls /\ Commanded(s) \subseteq Calls
    BY DEF Commanded
  <2> QED BY <2>2, <2>3, <2>4, <2>5, <2>6
<1> QED BY <1>1, <1>2, <1>5, <1>7, <1>8

LEMMA ChannelMore ==
  ASSUME NEW s \in Seq(Commands), OneEach(s), NEW o \in Commands
  PROVE  /\ Append(s, o) \in Seq(Commands)
         /\ o.type = "Shutdown" => OneEach(Append(s, o)) /\ Commanded(Append(s, o)) = Commanded(s)
         /\ \A c \in Calls \ Commanded(s) : o = [type |-> "Call", call |-> c] =>
              OneEach(Append(s, o)) /\ Commanded(Append(s, o)) = Commanded(s) \cup {c}
<1>1. PICK a : a = Append(s, o)
  OBVIOUS
<1>2. /\ Len(s) \in Nat /\ DOMAIN s = 1 .. Len(s)
      /\ a \in Seq(Commands) /\ DOMAIN a = 1 .. Len(s) + 1 /\ a[Len(s) + 1] = o
      /\ \A i \in 1 .. Len(s) : a[i] = s[i]
  BY <1>1
<1>3. /\ \A i \in DOMAIN a : i \in DOMAIN s \/ i = Len(s) + 1
      /\ \A i \in DOMAIN s : i \in DOMAIN a /\ a[i] = s[i]
      /\ Len(s) + 1 \in DOMAIN a
  BY <1>2
<1>4. ASSUME o.type = "Shutdown"
      PROVE  OneEach(a) /\ Commanded(a) = Commanded(s)
  <2>1. \A c : o # [type |-> "Call", call |-> c]
    BY <1>4, CommandKinds
  <2>2. OneEach(a)
    BY <1>2, <1>3, <1>4 DEF OneEach
  <2> QED BY <1>2, <1>3, <2>1, <2>2 DEF Commanded
<1>5. ASSUME NEW c \in Calls \ Commanded(s), o = [type |-> "Call", call |-> c]
      PROVE  OneEach(a) /\ Commanded(a) = Commanded(s) \cup {c}
  <2>1. \A i \in DOMAIN s : s[i] # o
    BY <1>5 DEF Commanded
  <2>2. OneEach(a)
    BY <1>2, <1>3, <2>1 DEF OneEach
  <2>3. \A b \in Calls : b \in Commanded(a) <=> b \in Commanded(s) \/ b = c
    BY <1>2, <1>3, <1>5 DEF Commanded
  <2>4. Commanded(a) \subseteq Calls /\ Commanded(s) \subseteq Calls
    BY DEF Commanded
  <2> QED BY <2>2, <2>3, <2>4
<1> QED BY <1>1, <1>2, <1>4, <1>5

-----------------------------------------------------------------------------
(* The driver around the engine.                                           *)

Replies == {"Idle", "Waiting", "Sent", "Answered", "Failed"}

(* A caller waits exactly as long as its command is in the channel or its   *)
(* reply with the driver, and the replies are those the engine owes.  When  *)
(* the loop has stopped, the engine owes nothing to anyone.                 *)
DriverInv ==
  /\ mode \in {"Down", "Up", "Stopped"} /\ conn \in Nat
  /\ channel \in Seq(Commands) /\ OneEach(channel)
  /\ reply \in [Calls -> Replies] /\ pending \subseteq Calls
  /\ \A c \in Calls : reply[c] = "Waiting" <=> c \in Commanded(channel) \cup pending
  /\ Commanded(channel) \cap pending = {}
  /\ mode # "Stopped" => Sound(engine, pending)
  /\ mode = "Stopped" => pending = {} /\ channel = <<>>

(* A step of the engine alone.                                             *)
LEMMA EngineStep ==
  ASSUME DriverInv, mode # "Stopped", Sound(engine', pending),
         UNCHANGED <<mode, conn, pending, channel, reply>>
  PROVE  DriverInv'
<1>1. Sound(engine', pending')
  OBVIOUS
<1> QED BY <1>1 DEF DriverInv

LEMMA AbandonedIs ==
  ASSUME NEW s, channel \in Seq(Commands)
  PROVE  Abandoned(s) = Commanded(channel) \cup (pending \ Reported(s))
<1>1. \A i \in DOMAIN channel : channel[i] \in Commands
  OBVIOUS
<1>2. PICK A : A = {channel[i].call : i \in {j \in DOMAIN channel : channel[j].type = "Call"}}
  OBVIOUS
<1>3. ASSUME NEW c \in A
      PROVE  c \in Commanded(channel)
  <2>1. PICK i \in DOMAIN channel : channel[i].type = "Call" /\ c = channel[i].call
    BY <1>2
  <2>2. c \in Calls /\ channel[i] = [type |-> "Call", call |-> c]
    BY <1>1, <2>1, CommandKinds
  <2> QED BY <2>2 DEF Commanded
<1>4. ASSUME NEW c \in Commanded(channel)
      PROVE  c \in A
  <2>1. PICK i \in DOMAIN channel : channel[i] = [type |-> "Call", call |-> c]
    BY DEF Commanded
  <2>2. channel[i].type = "Call" /\ channel[i].call = c
    BY <2>1
  <2> QED BY <1>2, <2>2
<1> QED BY <1>2, <1>3, <1>4 DEF Abandoned

(* The end of a connection, at whichever output its flush broke.            *)
LEMMA EndStep ==
  ASSUME DriverInv, mode # "Stopped", NEW closed \in BOOLEAN, NEW n \in 0 .. Len(engine.outputs),
         End(closed, n)
  PROVE  DriverInv'
<1>1. /\ Sound(engine, pending) /\ engine \in Engines /\ engine.outputs \in Seq(Out) /\ conn \in Nat
      /\ channel \in Seq(Commands) /\ OneEach(channel)
      /\ reply \in [Calls -> Replies] /\ pending \subseteq Calls
      /\ \A c \in Calls : reply[c] = "Waiting" <=> c \in Commanded(channel) \cup pending
      /\ Commanded(channel) \cap pending = {}
  BY DEF DriverInv, Sound, Engines
<1>2. PICK e, p : e = [engine EXCEPT !.outputs = Rest(@, n)] /\ p = Prefix(n)
  OBVIOUS
<1>3. Sound(e, pending \ Reported(p))
  BY <1>1, <1>2, FlushSound DEF Prefix
<1>4. PICK told : told = on_disconnected(e)
  OBVIOUS
<1>5. Sound(told, pending \ Reported(p)) /\ told.outputs \in Seq(Out)
  <2>1. Sound(told, pending \ Reported(p))
    BY <1>3, <1>4, DisconnectedSound
  <2> QED BY <2>1 DEF Sound, Engines
<1>6. PICK m \in 0 .. Len(told.outputs) : EndAt(closed, n, told, m)
  <2>1. \E m \in Reach(told.outputs) : EndAt(closed, n, told, m)
    BY <1>2, <1>4 DEF End
  <2> QED BY <1>5, <2>1, ReachIn
<1>7. PICK q, d : q = SubSeq(told.outputs, 1, m) /\ d = [told EXCEPT !.outputs = Rest(@, m)]
  OBVIOUS
<1>8. Sound(d, (pending \ Reported(p)) \ Reported(q))
  BY <1>5, <1>6, <1>7, FlushSound
<1>9. PICK h : h = p \o q
  OBVIOUS
<1>10. p \in Seq(Out) /\ q \in Seq(Out)
  BY <1>1, <1>2, <1>5, <1>6, <1>7, OutputsSplit DEF Prefix
<1>11. h \in Seq(Out) /\ Reported(h) = Reported(p) \cup Reported(q)
  BY <1>9, <1>10, OutputsJoin
<1>12. PICK stops \in BOOLEAN : stops = (closed \/ ~Reconnect)
  OBVIOUS
<1>13. PICK dropped : dropped = IF stops THEN Abandoned(h) ELSE {}
  OBVIOUS
<1>14. /\ engine' = d
       /\ mode' = IF stops THEN "Stopped" ELSE "Down"
       /\ pending' = IF stops THEN {} ELSE pending \ Reported(h)
       /\ reply' = [c \in Calls |-> IF c \in Reported(h) \cap pending THEN HowReported(h, c)
                                    ELSE IF c \in dropped THEN "Failed" ELSE reply[c]]
       /\ channel' = IF stops THEN <<>> ELSE channel
       /\ conn' = conn
  BY <1>2, <1>6, <1>7, <1>9, <1>12, <1>13, Zenon DEF EndAt
<1>15. \A c \in Reported(h) : HowReported(h, c) \in Hows
  BY <1>11, HowIsOne
<1>16. reply' \in [Calls -> Replies]
  BY <1>1, <1>14, <1>15 DEF Replies, Hows
<1>17. CASE stops
  <2>1. mode' = "Stopped" /\ pending' = {} /\ channel' = <<>> /\ dropped = Abandoned(h)
    BY <1>13, <1>14, <1>17
  <2>2. dropped = Commanded(channel) \cup (pending \ Reported(h))
    BY <1>1, <2>1, AbandonedIs
  <2>3. ASSUME NEW c \in Calls
        PROVE  reply'[c] # "Waiting"
    BY <1>1, <1>14, <1>15, <2>2 DEF Hows
  <2>4. channel' \in Seq(Commands) /\ OneEach(channel') /\ Commanded(channel') = {}
    BY <2>1 DEF OneEach, Commanded
  <2> QED BY <1>1, <1>14, <1>16, <2>1, <2>3, <2>4 DEF DriverInv
<1>18. CASE ~stops
  <2>1. /\ mode' = "Down" /\ pending' = pending \ Reported(h) /\ channel' = channel
        /\ dropped = {}
    BY <1>13, <1>14, <1>18
  <2>2. Sound(engine', pending')
    <3>1. (pending \ Reported(p)) \ Reported(q) = pending'
      BY <1>11, <2>1
    <3> QED BY <1>8, <1>14, <3>1
  <2>3. ASSUME NEW c \in Calls
        PROVE  reply'[c] = "Waiting" <=> c \in Commanded(channel) \cup pending'
    <3>1. reply'[c] = IF c \in Reported(h) \cap pending THEN HowReported(h, c) ELSE reply[c]
      BY <1>14, <2>1
    <3>2. CASE c \in Reported(h) \cap pending
      BY <1>1, <1>15, <2>1, <3>1, <3>2 DEF Hows
    <3>3. CASE c \notin Reported(h) \cap pending
      BY <1>1, <2>1, <3>1, <3>3
    <3> QED BY <3>2, <3>3
  <2> QED BY <1>1, <1>14, <1>16, <2>1, <2>2, <2>3 DEF DriverInv
<1> QED BY <1>17, <1>18

LEMMA FlushStep ==
  ASSUME DriverInv, flush
  PROVE  DriverInv'
<1>1. mode # "Stopped" /\ engine.outputs \in Seq(Out)
  BY DEF flush, DriverInv, Sound, Engines
<1>2. PICK n \in 0 .. Len(engine.outputs) : n = Len(engine.outputs)
  BY <1>1
<1>3. CASE Close \in Elements(engine.outputs)
  <2>1. End(TRUE, n)
    BY <1>2, <1>3 DEF flush
  <2> QED BY <1>1, <2>1, EndStep
<1>4. CASE Close \notin Elements(engine.outputs)
  <2>1. /\ Hand(engine.outputs) /\ engine' = [engine EXCEPT !.outputs = <<>>]
        /\ mode' = mode /\ conn' = conn /\ channel' = channel
    BY <1>4 DEF flush, keepalive
  <2>2. /\ Sound(engine, pending) /\ conn \in Nat /\ channel \in Seq(Commands) /\ OneEach(channel)
        /\ reply \in [Calls -> Replies] /\ pending \subseteq Calls
        /\ \A c \in Calls : reply[c] = "Waiting" <=> c \in Commanded(channel) \cup pending
        /\ Commanded(channel) \cap pending = {} /\ mode \in {"Down", "Up", "Stopped"}
    BY <1>1 DEF DriverInv
  <2>3. PICK a \in Seq(Out) : a = engine.outputs
    BY <1>1
  <2>4. Rest(a, n) = <<>> /\ SubSeq(a, 1, n) = a
    BY <1>2, <2>3 DEF Rest
  <2>5. engine' = [engine EXCEPT !.outputs = Rest(@, n)]
    BY <2>1, <2>3, <2>4
  <2>6. /\ pending' = pending \ Reported(a)
        /\ reply' = [c \in Calls |-> IF c \in Reported(a) \cap pending THEN HowReported(a, c) ELSE reply[c]]
    BY <2>1, <2>3 DEF Hand
  <2>7. Sound(engine', pending')
    BY <2>2, <2>3, <2>4, <2>5, <2>6, FlushSound
  <2>8. \A c \in Reported(a) : HowReported(a, c) \in Hows
    BY HowIsOne
  <2>9. ASSUME NEW c \in Calls
        PROVE  reply'[c] = "Waiting" <=> c \in Commanded(channel) \cup pending'
    <3>1. CASE c \in Reported(a) \cap pending
      BY <2>2, <2>6, <2>8, <3>1 DEF Hows
    <3>2. CASE c \notin Reported(a) \cap pending
      BY <2>2, <2>6, <3>2
    <3> QED BY <3>1, <3>2
  <2>10. reply' \in [Calls -> Replies]
    BY <2>2, <2>6, <2>8 DEF Hows, Replies
  <2> QED BY <1>1, <2>1, <2>2, <2>6, <2>7, <2>9, <2>10 DEF DriverInv
<1> QED BY <1>3, <1>4

LEMMA ApplyStep ==
  ASSUME DriverInv, apply
  PROVE  DriverInv'
<1>1. /\ mode = "Up" /\ Sound(engine, pending) /\ conn \in Nat /\ channel \in Seq(Commands) /\ OneEach(channel)
      /\ reply \in [Calls -> Replies] /\ pending \subseteq Calls
      /\ \A c \in Calls : reply[c] = "Waiting" <=> c \in Commanded(channel) \cup pending
      /\ Commanded(channel) \cap pending = {}
  BY DEF DriverInv, apply, Idle
<1>2. PICK o, t : o = Head(channel) /\ t = Tail(channel)
  OBVIOUS
<1>3. channel # <<>> /\ channel' = t /\ mode' = mode /\ conn' = conn
  BY <1>2 DEF apply, Engine
<1>4. /\ o \in Commands /\ t \in Seq(Commands) /\ OneEach(t)
      /\ o.type = "Shutdown" => Commanded(t) = Commanded(channel)
      /\ o.type # "Shutdown" => /\ o.call \in Commanded(channel)
                                /\ Commanded(t) = Commanded(channel) \ {o.call}
  BY <1>1, <1>2, <1>3, ChannelHead
<1>5. CASE o.type = "Shutdown"
  <2>1. engine' = shutdown(engine) /\ pending' = pending /\ reply' = reply
    BY <1>2, <1>5 DEF apply, Engine
  <2>2. Sound(engine', pending')
    BY <1>1, <2>1, ShutdownSound
  <2> QED BY <1>1, <1>3, <1>4, <1>5, <2>1, <2>2 DEF DriverInv
<1>6. CASE o.type # "Shutdown" /\ engine.draining
  <2>1. engine' = engine /\ pending' = pending /\ reply' = [reply EXCEPT ![o.call] = "Failed"]
    BY <1>2, <1>6 DEF apply, Engine, call_with
  <2>2. PICK c \in Calls : c = o.call
    BY <1>4, <1>6 DEF Commanded
  <2>3. \A b \in Calls : reply'[b] = IF b = c THEN "Failed" ELSE reply[b]
    BY <1>1, <2>1, <2>2
  <2>4. \A b \in Calls : reply'[b] = "Waiting" <=> b \in Commanded(t) \cup pending
    BY <1>1, <1>4, <1>6, <2>2, <2>3
  <2>5. reply' \in [Calls -> Replies]
    BY <1>1, <2>1 DEF Replies
  <2> QED BY <1>1, <1>3, <1>4, <1>6, <2>1, <2>4, <2>5 DEF DriverInv
<1>7. CASE o.type # "Shutdown" /\ ~engine.draining
  <2>1. PICK c \in Calls : c = o.call /\ c \in Commanded(channel)
    BY <1>4, <1>7 DEF Commanded
  <2>2. engine' = call_with(engine, c) /\ pending' = pending \cup {c} /\ reply' = reply
    BY <1>2, <1>7, <2>1 DEF apply, Engine
  <2>3. PICK e : e = [engine EXCEPT !.queue = Append(@, c)]
    OBVIOUS
  <2>4. engine' = pump(e, conn)
    BY <1>7, <2>2, <2>3, Zenon DEF call_with
  <2>5. Sound(e, pending \cup {c})
    <3>1. c \notin pending
      BY <1>1, <2>1
    <3> QED BY <1>1, <2>3, <3>1, CallWithSound
  <2>6. Sound(engine', pending')
    BY <1>1, <2>2, <2>4, <2>5, PumpSound
  <2>7. Commanded(t) = Commanded(channel) \ {c}
    BY <1>4, <1>7, <2>1
  <2>8. \A b \in Calls : reply'[b] = "Waiting" <=> b \in Commanded(t) \cup pending'
    BY <1>1, <2>1, <2>2, <2>7
  <2>9. Commanded(t) \cap pending' = {}
    BY <1>1, <2>2, <2>7
  <2> QED BY <1>1, <1>3, <1>4, <2>2, <2>6, <2>8, <2>9 DEF DriverInv
<1> QED BY <1>5, <1>6, <1>7

LEMMA ConnectFailsStep ==
  ASSUME DriverInv, connect_fails
  PROVE  DriverInv'
<1>1. /\ mode = "Down" /\ Sound(engine, pending) /\ conn \in Nat /\ channel \in Seq(Commands)
      /\ reply \in [Calls -> Replies]
      /\ \A c \in Calls : reply[c] = "Waiting" <=> c \in Commanded(channel) \cup pending
  BY DEF DriverInv, connect_fails
<1>2. engine' = engine /\ conn' = conn
  BY DEF connect_fails
<1>3. CASE Reconnect
  <2>1. UNCHANGED <<mode, pending, channel, reply>>
    BY <1>3 DEF connect_fails
  <2> QED BY <1>1, <1>2, <2>1, EngineStep
<1>4. CASE ~Reconnect
  <2>1. /\ mode' = "Stopped" /\ channel' = <<>> /\ pending' = {}
        /\ reply' = [c \in Calls |-> IF c \in Abandoned(<<>>) THEN "Failed" ELSE reply[c]]
    BY <1>4 DEF connect_fails
  <2>2. Abandoned(<<>>) = Commanded(channel) \cup pending
    BY <1>1, AbandonedIs, NoOutput
  <2>3. \A c \in Calls : reply'[c] # "Waiting"
    BY <1>1, <2>1, <2>2
  <2>4. channel' \in Seq(Commands) /\ OneEach(channel') /\ Commanded(channel') = {}
    BY <2>1 DEF OneEach, Commanded
  <2>5. reply' \in [Calls -> Replies]
    BY <1>1, <2>1 DEF Replies
  <2> QED BY <1>1, <1>2, <2>1, <2>3, <2>4, <2>5 DEF DriverInv
<1> QED BY <1>3, <1>4

LEMMA CallStep ==
  ASSUME DriverInv, NEW c \in Calls, Call(c)
  PROVE  DriverInv'
<1>1. /\ mode \in {"Down", "Up", "Stopped"} /\ conn \in Nat /\ channel \in Seq(Commands) /\ OneEach(channel)
      /\ reply \in [Calls -> Replies] /\ pending \subseteq Calls
      /\ \A b \in Calls : reply[b] = "Waiting" <=> b \in Commanded(channel) \cup pending
      /\ Commanded(channel) \cap pending = {}
  BY DEF DriverInv
<1>2. reply[c] = "Idle" /\ mode' = mode /\ conn' = conn /\ engine' = engine /\ pending' = pending
  BY DEF Call
<1>3. c \notin Commanded(channel) \cup pending
  BY <1>1, <1>2
<1>4. CASE mode = "Stopped"
  <2>1. reply' = [reply EXCEPT ![c] = "Failed"] /\ channel' = channel
    BY <1>4 DEF Call
  <2>2. \A b \in Calls : reply'[b] = "Waiting" <=> b \in Commanded(channel) \cup pending
    BY <1>1, <1>3, <2>1
  <2>3. reply' \in [Calls -> Replies]
    BY <1>1, <2>1 DEF Replies
  <2> QED BY <1>1, <1>2, <1>4, <2>1, <2>2, <2>3 DEF DriverInv
<1>5. CASE mode # "Stopped"
  <2>1. PICK o : o = [type |-> "Call", call |-> c]
    OBVIOUS
  <2>2. reply' = [reply EXCEPT ![c] = "Waiting"] /\ channel' = Append(channel, o)
    BY <1>5, <2>1 DEF Call
  <2>3. o \in Commands
    BY <2>1 DEF Commands
  <2>4. /\ channel' \in Seq(Commands) /\ OneEach(channel')
        /\ Commanded(channel') = Commanded(channel) \cup {c}
    BY <1>1, <1>3, <2>1, <2>2, <2>3, ChannelMore
  <2>5. \A b \in Calls : reply'[b] = "Waiting" <=> b \in Commanded(channel') \cup pending
    BY <1>1, <2>2, <2>4
  <2>6. reply' \in [Calls -> Replies]
    BY <1>1, <2>2 DEF Replies
  <2>7. Sound(engine', pending')
    BY <1>2, <1>5 DEF DriverInv
  <2>8. Commanded(channel') \cap pending = {}
    BY <1>1, <1>3, <2>4
  <2> QED BY <1>1, <1>2, <1>5, <2>4, <2>5, <2>6, <2>7, <2>8 DEF DriverInv
<1> QED BY <1>4, <1>5

LEMMA ShutdownStep ==
  ASSUME DriverInv, Shutdown
  PROVE  DriverInv'
<1>1. /\ mode # "Stopped" /\ conn \in Nat /\ channel \in Seq(Commands) /\ OneEach(channel)
      /\ Sound(engine, pending)
  BY DEF DriverInv, Shutdown
<1>2. PICK o : o = [type |-> "Shutdown"]
  OBVIOUS
<1>3. o \in Commands /\ o.type = "Shutdown"
  BY <1>2 DEF Commands
<1>4. channel' = Append(channel, o) /\ UNCHANGED <<mode, conn, engine, pending, reply>>
  BY <1>2 DEF Shutdown
<1>5. channel' \in Seq(Commands) /\ OneEach(channel') /\ Commanded(channel') = Commanded(channel)
  BY <1>1, <1>3, <1>4, ChannelMore
<1>6. Sound(engine', pending')
  BY <1>1, <1>4
<1> QED BY <1>1, <1>4, <1>5, <1>6 DEF DriverInv

(* Every step keeps the driver sound, and the steps of the keepalive do not *)
(* touch what it is about.                                                 *)
LEMMA DriverStep ==
  ASSUME DriverInv, [Next]_vars
  PROVE  DriverInv'
<1>1. CASE flush
  BY <1>1, FlushStep
<1>2. CASE flush_fails
  <2>1. mode # "Stopped" /\ engine.outputs \in Seq(Out)
    BY <1>2 DEF flush_fails, DriverInv, Sound, Engines
  <2>2. Reach(engine.outputs) \subseteq 0 .. Len(engine.outputs)
    BY <2>1, ReachIn
  <2>3. PICK n \in 0 .. Len(engine.outputs) : End(FALSE, n)
    BY <1>2, <2>2 DEF flush_fails
  <2> QED BY <2>1, <2>3, EndStep
<1>3. CASE apply
  BY <1>3, ApplyStep
<1>4. CASE answered
  <2>1. /\ mode # "Stopped" /\ engine.inflight # None /\ Sound(engine, pending) /\ conn \in Nat
        /\ engine' = on_call_result(engine) /\ UNCHANGED <<mode, conn, pending, channel, reply>>
    BY <1>4 DEF answered, Idle, Engine, handles, DriverInv
  <2> QED BY <2>1, CallResultSound, EngineStep
<1>5. CASE boot_accepted
  <2>1. /\ mode # "Stopped" /\ Sound(engine, pending) /\ conn \in Nat
        /\ engine' = on_boot_accepted(engine) /\ UNCHANGED <<mode, conn, pending, channel, reply>>
    BY <1>5 DEF boot_accepted, Idle, Engine, handles, DriverInv
  <2> QED BY <2>1, BootAcceptedSound, EngineStep
<1>6. CASE call_timeout
  <2>1. /\ mode # "Stopped" /\ Sound(engine, pending) /\ conn \in Nat
        /\ engine' = on_call_timeout(engine) /\ UNCHANGED <<mode, conn, pending, channel, reply>>
    BY <1>6 DEF call_timeout, Idle, Engine, handles, DriverInv
  <2>2. Sound(engine', pending)
    BY <2>1, RequeueSound, PumpSound, CheckDrainSound DEF on_call_timeout
  <2> QED BY <2>1, <2>2, EngineStep
<1>7. CASE drain_timeout
  <2>1. /\ mode # "Stopped" /\ Sound(engine, pending)
        /\ engine' = on_drain_timeout(engine) /\ UNCHANGED <<mode, conn, pending, channel, reply>>
    BY <1>7 DEF drain_timeout, Idle, Engine, handles, DriverInv
  <2> QED BY <2>1, DrainTimeoutSound, EngineStep
<1>8. CASE peer_gone \/ pong_late
  <2>1. mode # "Stopped" /\ engine.outputs \in Seq(Out) /\ End(FALSE, 0)
    BY <1>8 DEF peer_gone, pong_late, Idle, DriverInv, Sound, Engines
  <2>2. 0 \in 0 .. Len(engine.outputs)
    BY <2>1
  <2> QED BY <2>1, <2>2, EndStep
<1>9. CASE ping_tick \/ pong \/ tick
  <2>1. mode = "Up" /\ Sound(engine, pending) /\ UNCHANGED <<mode, conn, engine, pending, channel, reply>>
    BY <1>9 DEF ping_tick, pong, tick, Idle, handles, DriverInv
  <2>2. mode # "Stopped" /\ Sound(engine', pending)
    BY <2>1
  <2> QED BY <2>1, <2>2, EngineStep
<1>10. CASE connect
  <2>1. /\ mode' = "Up" /\ Sound(engine, pending) /\ conn \in Nat /\ conn' = conn + 1
        /\ engine' = pump(engine, conn + 1) /\ UNCHANGED <<pending, channel, reply>>
    BY <1>10 DEF connect, on_connected, handles, DriverInv
  <2>2. conn + 1 \in Nat
    BY <2>1
  <2>3. Sound(engine', pending')
    BY <2>1, <2>2, PumpSound
  <2> QED BY <2>1, <2>2, <2>3 DEF DriverInv
<1>11. CASE connect_fails
  BY <1>11, ConnectFailsStep
<1>12. CASE Shutdown
  BY <1>12, ShutdownStep
<1>13. CASE \E c \in Calls : Call(c)
  BY <1>13, CallStep
<1>14. CASE UNCHANGED vars
  <2>1. UNCHANGED <<mode, conn, engine, pending, channel, reply>>
    BY <1>14 DEF vars, handles
  <2> QED BY <2>1 DEF DriverInv
<1> QED BY <1>1, <1>2, <1>3, <1>4, <1>5, <1>6, <1>7, <1>8, <1>9, <1>10, <1>11, <1>12, <1>13, <1>14 DEF Next

LEMMA DriverInit ==
  ASSUME Init
  PROVE  DriverInv
<1>1. /\ mode = "Down" /\ conn = 0 /\ engine = NoEngine /\ channel = <<>> /\ pending = {}
      /\ reply = [c \in Calls |-> "Idle"]
  BY DEF Init
<1>2. NoEngine \in Engines /\ NoEngine.queue = <<>> /\ NoEngine.outputs = <<>> /\ NoEngine.inflight = None
  BY NoOutput DEF NoEngine, Engines
<1>3. Elements(<<>>) = {} /\ Distinct(<<>>)
  BY DEF Elements, Distinct
<1>4. Held(NoEngine) = {}
  BY <1>2, <1>3 DEF Held
<1>5. Sound(NoEngine, {})
  BY <1>2, <1>3, <1>4, NoOutput DEF Sound
<1>6. channel \in Seq(Commands) /\ OneEach(channel) /\ Commanded(channel) = {}
  BY <1>1 DEF OneEach, Commanded
<1>7. reply \in [Calls -> Replies] /\ \A c \in Calls : reply[c] # "Waiting"
  BY <1>1 DEF Replies
<1> QED BY <1>1, <1>5, <1>6, <1>7 DEF DriverInv

(* The inductive invariant: the driver's replies, the command channel and    *)
(* the engine's queues agree in every reachable state.                       *)
THEOREM DriverIsSound == Spec => []DriverInv
<1>1. Init => DriverInv
  BY DriverInit
<1>2. DriverInv /\ [Next]_vars => DriverInv'
  BY DriverStep
<1> QED BY <1>1, <1>2, PTL DEF Spec

(* A caller of Handle::call that waits is never forgotten: its command is   *)
(* in the channel or its reply with the driver, never both, and the engine   *)
(* still has the call of every such reply or has reported it in an output     *)
(* that is still to be handed on.  This holds wherever the flushes of this    *)
(* and of all earlier connections broke.                                     *)
THEOREM NoReplyIsForgotten == Spec => []NoReplyForgotten
<1>1. ASSUME DriverInv
      PROVE  NoReplyForgotten
  <2>1. ASSUME NEW c \in Calls
        PROVE  InChannel(c) <=> c \in Commanded(channel)
    BY DEF InChannel, Commanded
  <2>2. ASSUME NEW c \in pending
        PROVE  InEngine(c) \/ c \in Reported(engine.outputs)
    <3>1. Sound(engine, pending)
      BY <1>1, <2>2 DEF DriverInv
    <3>2. c \in Held(engine) \/ c \in Reported(engine.outputs)
      BY <2>2, <3>1 DEF Sound
    <3> QED BY <3>2 DEF Held, InEngine
  <2> QED BY <1>1, <2>1, <2>2 DEF NoReplyForgotten, DriverInv
<1> QED BY <1>1, DriverIsSound, PTL

(* No frame of a call goes out after its caller was told how the call ended, *)
(* also not one that a broken flush left for the next connection.             *)
THEOREM NothingFollowsTheReport == Spec => []NothingAfterReport
<1>1. ASSUME DriverInv
      PROVE  NothingAfterReport
  <2>1. ASSUME mode # "Stopped", NEW i \in Frames(engine.outputs)
        PROVE  reply[engine.outputs[i].call] = "Waiting"
    <3>1. PICK a, c : a = engine.outputs /\ c = a[i].call
      OBVIOUS
    <3>2. i \in DOMAIN a /\ a[i].type # "Close"
      BY <2>1, <3>1 DEF Frames
    <3>3. c \in Named(a)
      BY <3>1, <3>2, ReportedAt
    <3>4. c \in pending
      BY <1>1, <2>1, <3>1, <3>3 DEF DriverInv, Sound
    <3>5. c \in Calls
      BY <1>1, <3>4 DEF DriverInv
    <3> QED BY <1>1, <3>1, <3>4, <3>5 DEF DriverInv
  <2> QED BY <2>1 DEF NothingAfterReport
<1> QED BY <1>1, DriverIsSound, PTL

-----------------------------------------------------------------------------
(* The keepalive.                                                          *)

KeepaliveInv ==
  /\ pong_due \in Nat \cup {None} /\ silent \in 0 .. PongTimeout
  /\ LivePeerKept

(* The keepalive gives up on a connection only when the peer has been silent *)
(* for the whole pong timeout, however its pings and the pongs interleave.    *)
THEOREM LivePeersAreKept == Spec => []LivePeerKept
<1>0. PongTimeout \in Nat /\ None \notin Nat
  BY DriverAssumption
<1>1. Init => KeepaliveInv
  BY <1>0 DEF Init, KeepaliveInv, LivePeerKept
<1>2. KeepaliveInv /\ [Next]_vars => KeepaliveInv'
  <2> SUFFICES ASSUME KeepaliveInv, [Next]_vars
               PROVE  KeepaliveInv'
    OBVIOUS
  <2>1. CASE pong_due' = None /\ (silent' = silent \/ silent' = 0)
    BY <1>0, <2>1 DEF KeepaliveInv, LivePeerKept
  <2>2. CASE pong_due' = pong_due /\ silent' = silent
    BY <2>2 DEF KeepaliveInv, LivePeerKept
  <2>3. CASE ping_tick
    BY <1>0, <2>3 DEF ping_tick, KeepaliveInv, LivePeerKept
  <2>4. CASE tick
    <3>1. CASE pong_due = None
      BY <1>0, <2>4, <3>1 DEF tick, KeepaliveInv, LivePeerKept
    <3>2. CASE pong_due # None
      BY <1>0, <2>4, <3>2 DEF tick, KeepaliveInv, LivePeerKept
    <3> QED BY <3>1, <3>2
  <2>5. CASE flush \/ flush_fails \/ peer_gone \/ pong_late
    <3>1. \/ \E closed, n : End(closed, n)
          \/ UNCHANGED keepalive
      BY <2>5 DEF flush, flush_fails, peer_gone, pong_late
    <3>2. \A closed, n : End(closed, n) => pong_due' = None /\ silent' = silent
      BY DEF End, EndAt
    <3> QED BY <2>1, <2>2, <3>1, <3>2 DEF keepalive
  <2>6. CASE pong \/ connect
    BY <2>1, <2>6 DEF pong, connect
  <2>7. CASE apply \/ answered \/ boot_accepted \/ call_timeout \/ drain_timeout
    BY <2>2, <2>7 DEF apply, answered, boot_accepted, call_timeout, drain_timeout, Engine, keepalive
  <2>8. CASE connect_fails \/ Shutdown \/ \E c \in Calls : Call(c)
    BY <2>2, <2>8 DEF connect_fails, Shutdown, Call, keepalive
  <2>9. CASE UNCHANGED vars
    BY <2>2, <2>9 DEF vars, keepalive
  <2> QED BY <2>3, <2>4, <2>5, <2>6, <2>7, <2>8, <2>9 DEF Next
<1>3. KeepaliveInv => LivePeerKept
  BY DEF KeepaliveInv
<1> QED BY <1>1, <1>2, <1>3, PTL DEF Spec
=============================================================================
