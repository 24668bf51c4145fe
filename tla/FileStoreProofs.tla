-------------------------- MODULE FileStoreProofs --------------------------
(***************************************************************************)
(* Theorems about the durable store, for any number of messages, attempts, *)
(* crashes and failures and any ratio and floor of the compaction.         *)
(***************************************************************************)
EXTENDS FileStore, TLAPS, FiniteSetTheorems, WellFoundedInduction

Calls == {"Push", "Ack", "Attempts"}
Record == [op : Calls, seq : Nat, msg : Nat, attempts : Nat]
FileLine == [record : Record \cup {Garbage}, ended : BOOLEAN]
Entry == [msg : Messages, attempts : 0 .. MaxAttempts]
(* A file in which every line parses. *)
Clean(file) == \A i \in 1 .. Len(file) : file[i].record # Garbage

-----------------------------------------------------------------------------
(* Numbers and finite sets.  An induction is an argument about the least    *)
(* number for which a claim fails.                                          *)

LEMMA LeastOne ==
  ASSUME NEW S, S \subseteq Nat, S # {}
  PROVE  \E x \in S : \A y \in S : x <= y
<1> DEFINE Less == {ss \in Nat \X Nat : ss[1] < ss[2]}
<1>1. IsWellFoundedOn(Less, Nat)
  BY NatLessThanWellFounded, Zenon DEF OpToRel
<1>2. PICK x \in S : \A y \in S : ~(<<y, x>> \in Less)
  <2> HIDE DEF Less
  <2> QED BY <1>1, WFMin, Zenon
<1>3. ASSUME NEW y \in S
      PROVE  x <= y
  <2>1. x \in Nat /\ y \in Nat
    OBVIOUS
  <2>2. <<y, x>>[1] = y /\ <<y, x>>[2] = x /\ <<y, x>> \in Nat \X Nat
    BY <2>1
  <2>3. ~(y < x)
    BY <1>2, <2>2, Zenon
  <2> QED BY <2>1, <2>3
<1> QED BY <1>3

LEMMA MinIs ==
  ASSUME NEW S, S \subseteq Nat, S # {}
  PROVE  Min(S) \in S /\ \A y \in S : Min(S) <= y
BY LeastOne DEF Min

LEMMA MaxIs ==
  ASSUME NEW S, S \subseteq Nat, S # {}, NEW b \in Nat, \A x \in S : x <= b
  PROVE  Max(S) \in S /\ \A y \in S : Max(S) >= y
<1>1. PICK T : T = {b - x : x \in S}
  OBVIOUS
<1>2. T \subseteq Nat /\ T # {}
  <2>1. \A x \in S : b - x \in Nat /\ b - x \in T
    BY <1>1
  <2> QED BY <1>1, <2>1
<1>3. PICK t \in T : \A u \in T : t <= u
  BY <1>2, LeastOne
<1>4. PICK x \in S : t = b - x
  BY <1>1
<1>5. ASSUME NEW y \in S
      PROVE  x >= y
  <2>1. b - y \in T
    BY <1>1
  <2>2. b - x <= b - y
    BY <1>3, <1>4, <2>1
  <2> QED BY <2>2
<1> QED BY <1>5 DEF Max

(* The keys of a map can be listed in their order, each once.               *)
LEMMA SortedExists ==
  ASSUME NEW b \in Nat, NEW S, S \subseteq 0 .. b
  PROVE  \E q \in [1 .. Cardinality(S) -> S] : \A i, j \in DOMAIN q : i < j => q[i] < q[j]
<1> DEFINE Lists(T, q) == q \in [1 .. Cardinality(T) -> T] /\ \A i, j \in DOMAIN q : i < j => q[i] < q[j]
           Bad == {n \in Nat : \E T \in SUBSET (0 .. b) : Cardinality(T) = n /\ ~\E q : Lists(T, q)}
<1>1. \A T \in SUBSET (0 .. b) : IsFiniteSet(T) /\ Cardinality(T) \in Nat
  <2>1. IsFiniteSet(0 .. b)
    BY FS_Interval
  <2> QED BY <2>1, FS_Subset, FS_CardinalityType
<1> SUFFICES ASSUME Bad # {} PROVE FALSE
  <2>1. S \in SUBSET (0 .. b) /\ Cardinality(S) \in Nat
    BY <1>1
  <2>2. \E q : Lists(S, q)
    BY <2>1
  <2> QED BY <2>2
<1>2. PICK n \in Bad : \A m \in Bad : n <= m
  BY LeastOne
<1>3. PICK T \in SUBSET (0 .. b) : Cardinality(T) = n /\ ~\E q : Lists(T, q)
  OBVIOUS
<1>4. n \in Nat
  OBVIOUS
<1>5. CASE n = 0
  <2>1. PICK q : q = [i \in 1 .. 0 |-> 0]
    OBVIOUS
  <2>2. Lists(T, q)
    BY <1>3, <1>5, <2>1
  <2> QED BY <1>3, <2>2
<1>6. CASE n > 0
  <2>1. T # {} /\ T \subseteq Nat /\ IsFiniteSet(T)
    BY <1>1, <1>3, <1>6, FS_EmptySet
  <2>2. PICK m : m \in T /\ \A y \in T : m >= y
    <3>1. \A x \in T : x <= b
      OBVIOUS
    <3> QED BY <2>1, <3>1, MaxIs
  <2>3. PICK U : U = T \ {m}
    OBVIOUS
  <2>4. U \in SUBSET (0 .. b) /\ Cardinality(U) = n - 1 /\ n - 1 \in Nat /\ ~(n <= n - 1)
    <3>1. Cardinality(U) = Cardinality(T) - 1
      BY <2>1, <2>2, <2>3, FS_RemoveElement
    <3>2. U \in SUBSET (0 .. b)
      BY <1>3, <2>3
    <3>3. n - 1 \in Nat /\ ~(n <= n - 1)
      BY <1>4, <1>6
    <3> QED BY <1>3, <3>1, <3>2, <3>3
  <2>5. PICK q : Lists(U, q)
    BY <1>2, <2>4
  <2>6. q \in [1 .. n - 1 -> U] /\ \A i, j \in 1 .. n - 1 : i < j => q[i] < q[j]
    BY <2>4, <2>5
  <2>7. \A x \in U : x \in T /\ x < m
    BY <2>2, <2>3, <1>3
  <2>8. PICK p : p = [i \in 1 .. n |-> IF i = n THEN m ELSE q[i]]
    OBVIOUS
  <2>9. \A i \in 1 .. n : i = n \/ i \in 1 .. n - 1
    BY <1>4
  <2>10. p[n] = m /\ \A i \in 1 .. n - 1 : p[i] = q[i] /\ q[i] \in U /\ q[i] < m
    <3>1. n \in 1 .. n /\ \A i \in 1 .. n - 1 : i \in 1 .. n /\ i # n
      BY <1>4, <1>6
    <3> QED BY <2>6, <2>7, <2>8, <3>1
  <2>11. p \in [1 .. n -> T]
    BY <2>2, <2>6, <2>7, <2>8, <2>9
  <2>12. ASSUME NEW i \in 1 .. n, NEW j \in 1 .. n, i < j
         PROVE  p[i] < p[j]
    <3>1. i \in 1 .. n - 1
      BY <1>4, <2>12
    <3>2. CASE j = n
      BY <2>10, <3>1, <3>2
    <3>3. CASE j \in 1 .. n - 1
      BY <2>6, <2>10, <2>12, <3>1, <3>3
    <3> QED BY <2>9, <3>2, <3>3
  <2>13. Lists(T, p)
    BY <1>3, <2>11, <2>12
  <2> QED BY <1>3, <2>13
<1> QED BY <1>4, <1>5, <1>6

LEMMA SortedIs ==
  ASSUME NEW b \in Nat, NEW S, S \subseteq 0 .. b
  PROVE  /\ IsFiniteSet(S) /\ Cardinality(S) \in Nat
         /\ Sorted(S) \in [1 .. Cardinality(S) -> S]
         /\ \A i, j \in 1 .. Cardinality(S) : Sorted(S)[i] = Sorted(S)[j] => i = j
         /\ \A s \in S : \E i \in 1 .. Cardinality(S) : Sorted(S)[i] = s
<1>1. IsFiniteSet(S) /\ Cardinality(S) \in Nat
  <2>1. IsFiniteSet(0 .. b)
    BY FS_Interval
  <2> QED BY <2>1, FS_Subset, FS_CardinalityType
<1>2. PICK q : q = Sorted(S)
  OBVIOUS
<1>3. q \in [1 .. Cardinality(S) -> S] /\ \A i, j \in DOMAIN q : i < j => q[i] < q[j]
  BY <1>2, SortedExists DEF Sorted
<1>4. PICK n : n = Cardinality(S)
  OBVIOUS
<1>5. \A i \in 1 .. n : q[i] \in Nat
  <2>1. \A i \in 1 .. n : q[i] \in S
    BY <1>3, <1>4
  <2>2. \A s \in S : s \in Nat
    OBVIOUS
  <2> QED BY <2>1, <2>2
<1>6. \A i, j \in 1 .. n : q[i] = q[j] => i = j
  <2>1. ASSUME NEW i \in 1 .. n, NEW j \in 1 .. n, q[i] = q[j], i # j
        PROVE  FALSE
    <3>1. i < j \/ j < i
      BY <1>1, <1>4, <2>1
    <3>2. q[i] < q[j] \/ q[j] < q[i]
      BY <1>3, <1>4, <3>1
    <3> QED BY <1>5, <2>1, <3>2
  <2> QED BY <2>1
<1>7. ASSUME NEW s \in S, ~\E i \in 1 .. n : q[i] = s
      PROVE  FALSE
  <2>1. PICK T : T = S \ {s}
    OBVIOUS
  <2>2. IsFiniteSet(T) /\ Cardinality(T) = n - 1
    BY <1>1, <1>4, <2>1, FS_RemoveElement
  <2>3. q \in [1 .. n -> T]
    BY <1>3, <1>4, <1>7, <2>1
  <2>4. IsFiniteSet(1 .. n) /\ Cardinality(1 .. n) = n
    BY <1>1, <1>4, FS_Interval
  <2>5. n - 1 < n
    BY <1>1, <1>4
  <2>6. \E i, j \in 1 .. n : i # j /\ q[i] = q[j]
    BY <2>2, <2>3, <2>4, <2>5, FS_PigeonHole
  <2> QED BY <1>6, <2>6
<1> QED BY <1>1, <1>2, <1>3, <1>4, <1>6, <1>7

-----------------------------------------------------------------------------
(* Reading a file. *)

LEMMA RecordTypes ==
  /\ Garbage \notin Record
  /\ \A r \in Record : r # Garbage /\ r.op \in Calls /\ r.seq \in Nat /\ r.msg \in Nat /\ r.attempts \in Nat
<1>1. \A r \in Record : r.op \in Calls /\ r.seq \in Nat /\ r.msg \in Nat /\ r.attempts \in Nat
  BY DEF Record
<1>2. Garbage.op = "Garbage" /\ "Garbage" \notin Calls
  BY DEF Garbage, Calls
<1> QED BY <1>1, <1>2

(* records keeps the lines before the first that does not parse.            *)
LEMMA RecordsAre ==
  ASSUME NEW file \in Seq(FileLine)
  PROVE  \E n \in 0 .. Len(file) :
           /\ records(file) = [i \in 1 .. n |-> file[i].record]
           /\ records(file) \in Seq(Record) /\ Len(records(file)) = n
           /\ \A i \in 1 .. n : file[i].record # Garbage
           /\ n = Len(file) \/ (n + 1 \in 1 .. Len(file) /\ file[n + 1].record = Garbage)
<1>1. PICK I : I = {i \in 1 .. Len(file) : file[i].record = Garbage}
  OBVIOUS
<1>2. PICK bad : bad = IF I # {} THEN Min(I) ELSE 0
  OBVIOUS
<1>3. PICK good : good = IF bad = 0 THEN file ELSE SubSeq(file, 1, bad - 1)
  OBVIOUS
<1>4. records(file) = [i \in DOMAIN good |-> good[i].record]
  <2>1. \A t, u : t = u => [i \in DOMAIN t |-> t[i].record] = [i \in DOMAIN u |-> u[i].record]
    OBVIOUS
  <2> QED BY <1>1, <1>2, <1>3, <2>1 DEF records, SelectInSeq
<1>5. PICK n : n = IF bad = 0 THEN Len(file) ELSE bad - 1
  OBVIOUS
<1>6. \A i \in 1 .. Len(file) : file[i] \in FileLine /\ file[i].record \in Record \cup {Garbage}
  <2>1. \A i \in 1 .. Len(file) : file[i] \in FileLine
    OBVIOUS
  <2>2. \A l \in FileLine : l.record \in Record \cup {Garbage}
    BY DEF FileLine
  <2> QED BY <2>1, <2>2
<1>7. /\ n \in 0 .. Len(file) /\ \A i \in 1 .. n : file[i].record # Garbage
      /\ n = Len(file) \/ (n + 1 \in 1 .. Len(file) /\ file[n + 1].record = Garbage)
  <2>1. CASE I = {}
    <3>1. n = Len(file)
      BY <1>2, <1>5, <2>1
    <3> QED BY <1>1, <2>1, <3>1
  <2>2. CASE I # {}
    <3>1. bad \in I /\ \A y \in I : bad <= y
      <4>1. I \subseteq Nat
        BY <1>1
      <4> QED BY <1>2, <2>2, <4>1, MinIs
    <3>2. bad \in 1 .. Len(file) /\ file[bad].record = Garbage
      BY <1>1, <3>1
    <3>3. n = bad - 1 /\ n \in 0 .. Len(file) /\ n + 1 = bad
      BY <1>5, <3>2
    <3>4. ASSUME NEW i \in 1 .. n
          PROVE  file[i].record # Garbage
      <4>1. i \in 1 .. Len(file) /\ ~(bad <= i)
        BY <3>2, <3>3
      <4> QED BY <1>1, <3>1, <4>1
    <3> QED BY <3>2, <3>3, <3>4
  <2> QED BY <2>1, <2>2
<1>8. DOMAIN good = 1 .. n /\ \A i \in 1 .. n : good[i] = file[i]
  <2>1. CASE bad = 0
    BY <1>3, <1>5, <2>1
  <2>2. CASE bad # 0
    <3>1. good = SubSeq(file, 1, n) /\ n \in 0 .. Len(file)
      BY <1>3, <1>5, <1>7, <2>2
    <3> QED BY <3>1
  <2> QED BY <2>1, <2>2
<1>9. records(file) = [i \in 1 .. n |-> file[i].record]
  BY <1>4, <1>8
<1>10. \A i \in 1 .. n : file[i].record \in Record
  <2>1. \A i \in 1 .. n : i \in 1 .. Len(file)
    BY <1>7
  <2> QED BY <1>6, <1>7, <2>1
<1>11. records(file) \in Seq(Record) /\ Len(records(file)) = n
  BY <1>7, <1>9, <1>10
<1> QED BY <1>7, <1>9, <1>11

LEMMA RecordsOfClean ==
  ASSUME NEW file \in Seq(FileLine), Clean(file)
  PROVE  /\ records(file) = [i \in 1 .. Len(file) |-> file[i].record]
         /\ records(file) \in Seq(Record) /\ Len(records(file)) = Len(file)
<1>1. PICK n \in 0 .. Len(file) :
        /\ records(file) = [i \in 1 .. n |-> file[i].record]
        /\ records(file) \in Seq(Record) /\ Len(records(file)) = n
        /\ n = Len(file) \/ (n + 1 \in 1 .. Len(file) /\ file[n + 1].record = Garbage)
  BY RecordsAre
<1>2. n = Len(file)
  BY <1>1 DEF Clean
<1> QED BY <1>1, <1>2

(* What replay's loop holds after each of the first n records.              *)
Turns(rs, f, n) ==
  f = [i \in 0 .. n |-> IF i = 0 THEN Empty ELSE replay_record(f[i - 1], rs[i])]

LEMMA TurnsStep ==
  ASSUME NEW rs, NEW f, NEW n \in Nat, Turns(rs, f, n)
  PROVE  f[0] = Empty /\ \A i \in 1 .. n : f[i] = replay_record(f[i - 1], rs[i])
<1>1. \A i \in 0 .. n : f[i] = IF i = 0 THEN Empty ELSE replay_record(f[i - 1], rs[i])
  BY DEF Turns
<1>2. 0 \in 0 .. n /\ \A i \in 1 .. n : i \in 0 .. n /\ i # 0
  OBVIOUS
<1> QED BY <1>1, <1>2

LEMMA TurnsExist ==
  ASSUME NEW rs, NEW k \in Nat
  PROVE  \E f : Turns(rs, f, k)
<1> DEFINE Bad == {n \in Nat : ~\E f : Turns(rs, f, n)}
<1> SUFFICES ASSUME k \in Bad PROVE FALSE
  OBVIOUS
<1>1. PICK n \in Bad : \A m \in Bad : n <= m
  BY LeastOne
<1>2. n \in Nat
  OBVIOUS
<1>3. CASE n = 0
  <2>1. PICK f : f = [i \in 0 .. 0 |-> Empty]
    OBVIOUS
  <2>2. Turns(rs, f, 0)
    BY <2>1 DEF Turns
  <2> QED BY <1>3, <2>2
<1>4. CASE n > 0
  <2>1. n - 1 \in Nat /\ ~(n <= n - 1)
    BY <1>2, <1>4
  <2>2. PICK f : Turns(rs, f, n - 1)
    BY <1>1, <2>1
  <2>3. f[0] = Empty /\ \A i \in 1 .. n - 1 : f[i] = replay_record(f[i - 1], rs[i])
    BY <2>1, <2>2, TurnsStep
  <2>4. PICK last : last = replay_record(f[n - 1], rs[n])
    OBVIOUS
  <2>5. PICK g : g = [i \in 0 .. n |-> IF i = n THEN last ELSE f[i]]
    OBVIOUS
  <2>6. g[n] = last /\ \A i \in 0 .. n - 1 : g[i] = f[i]
    <3>1. n \in 0 .. n /\ \A i \in 0 .. n - 1 : i \in 0 .. n /\ i # n
      BY <1>2
    <3> QED BY <2>5, <3>1
  <2>7. ASSUME NEW i \in 0 .. n
        PROVE  g[i] = IF i = 0 THEN Empty ELSE replay_record(g[i - 1], rs[i])
    <3>1. CASE i = 0
      <4>1. 0 \in 0 .. n - 1
        BY <1>2, <1>4
      <4> QED BY <2>3, <2>6, <3>1, <4>1
    <3>2. CASE i = n
      <4>1. n - 1 \in 0 .. n - 1
        BY <1>2, <1>4
      <4>2. g[n - 1] = f[n - 1]
        BY <2>6, <4>1
      <4> QED BY <1>4, <2>4, <2>6, <3>2, <4>2
    <3>3. CASE i # 0 /\ i # n
      <4>1. i \in 1 .. n - 1 /\ i \in 0 .. n - 1 /\ i - 1 \in 0 .. n - 1
        BY <1>2, <3>3
      <4>2. g[i] = f[i] /\ g[i - 1] = f[i - 1] /\ f[i] = replay_record(f[i - 1], rs[i])
        BY <2>3, <2>6, <4>1
      <4> QED BY <3>3, <4>2
    <3> QED BY <3>1, <3>2, <3>3
  <2>8. Turns(rs, g, n)
    <3>1. g = [i \in 0 .. n |-> g[i]]
      BY <2>5
    <3> QED BY <2>7, <3>1 DEF Turns
  <2> QED BY <2>8
<1> QED BY <1>2, <1>3, <1>4

LEMMA ReplayIs ==
  ASSUME NEW file, NEW rs, rs = records(file), Len(rs) \in Nat
  PROVE  \E f : Turns(rs, f, Len(rs)) /\ replay(file) = f[Len(rs)]
<1>1. PICK g : Turns(rs, g, Len(rs))
  BY TurnsExist
<1> QED BY <1>1 DEF replay, Turns

(* The loop after n records depends on those n only.                        *)
LEMMA TurnsAgree ==
  ASSUME NEW rs, NEW f, NEW n \in Nat, Turns(rs, f, n),
         NEW qs, NEW g, NEW m \in Nat, Turns(qs, g, m),
         NEW k \in Nat, k <= n, k <= m, \A i \in 1 .. k : rs[i] = qs[i]
  PROVE  f[k] = g[k]
<1> DEFINE Bad == {i \in 0 .. k : f[i] # g[i]}
<1> SUFFICES ASSUME Bad # {} PROVE FALSE
  OBVIOUS
<1>1. PICK i \in Bad : \A j \in Bad : i <= j
  <2>1. Bad \subseteq Nat
    OBVIOUS
  <2> QED BY <2>1, LeastOne
<1>2. f[0] = g[0]
  BY TurnsStep
<1>3. i # 0 /\ i \in 1 .. k /\ i - 1 \in 0 .. k /\ ~(i <= i - 1) /\ i \in 1 .. n /\ i \in 1 .. m
  BY <1>2
<1>4. f[i - 1] = g[i - 1]
  BY <1>1, <1>3
<1>5. f[i] = replay_record(f[i - 1], rs[i]) /\ g[i] = replay_record(g[i - 1], qs[i])
  BY <1>3, TurnsStep
<1> QED BY <1>3, <1>4, <1>5

(* A line that parses is one more turn of the loop.                         *)
LEMMA ReplayAppend ==
  ASSUME NEW file \in Seq(FileLine), Clean(file), NEW l \in FileLine, l.record # Garbage
  PROVE  replay(Append(file, l)) = replay_record(replay(file), l.record)
<1>1. PICK whole : whole = Append(file, l)
  OBVIOUS
<1>2. /\ whole \in Seq(FileLine) /\ Len(whole) = Len(file) + 1 /\ whole[Len(file) + 1] = l
      /\ \A i \in 1 .. Len(file) : whole[i] = file[i]
  BY <1>1
<1>3. PICK n : n = Len(file) /\ n \in Nat
  OBVIOUS
<1>4. Clean(whole)
  <2>1. \A i \in 1 .. n + 1 : i \in 1 .. n \/ i = n + 1
    BY <1>3
  <2> QED BY <1>2, <1>3, <2>1 DEF Clean
<1>5. PICK rs, qs : rs = records(file) /\ qs = records(whole)
  OBVIOUS
<1>6. /\ rs = [i \in 1 .. n |-> file[i].record] /\ Len(rs) = n
      /\ qs = [i \in 1 .. n + 1 |-> whole[i].record] /\ Len(qs) = n + 1
  BY <1>2, <1>3, <1>4, <1>5, RecordsOfClean
<1>7. qs[n + 1] = l.record /\ \A i \in 1 .. n : rs[i] = qs[i]
  <2>1. n + 1 \in 1 .. n + 1 /\ \A i \in 1 .. n : i \in 1 .. n + 1
    BY <1>3
  <2> QED BY <1>2, <1>3, <1>6, <2>1
<1>8. PICK f : Turns(rs, f, n) /\ replay(file) = f[n]
  <2>1. rs = records(file) /\ Len(rs) = n
    BY <1>5, <1>6
  <2>2. \E f : Turns(rs, f, Len(rs)) /\ replay(file) = f[Len(rs)]
    BY <1>3, <2>1, ReplayIs
  <2> QED BY <2>1, <2>2
<1>9. n + 1 \in Nat /\ n <= n /\ n <= n + 1 /\ n + 1 \in 1 .. n + 1 /\ (n + 1) - 1 = n
  BY <1>3
<1>10. PICK g : Turns(qs, g, n + 1) /\ replay(whole) = g[n + 1]
  <2>1. qs = records(whole) /\ Len(qs) = n + 1
    BY <1>5, <1>6
  <2>2. \E g : Turns(qs, g, Len(qs)) /\ replay(whole) = g[Len(qs)]
    BY <1>9, <2>1, ReplayIs
  <2> QED BY <2>1, <2>2
<1>11. f[n] = g[n]
  BY <1>3, <1>7, <1>8, <1>9, <1>10, TurnsAgree
<1>12. g[n + 1] = replay_record(g[n], qs[n + 1])
  <2>1. \A i \in 1 .. n + 1 : g[i] = replay_record(g[i - 1], qs[i])
    BY <1>9, <1>10, TurnsStep
  <2>2. g[n + 1] = replay_record(g[(n + 1) - 1], qs[n + 1])
    BY <1>9, <2>1
  <2> QED BY <1>9, <2>2
<1> QED BY <1>1, <1>7, <1>8, <1>10, <1>11, <1>12

(* A line that does not parse is the end of the file.                       *)
LEMMA ReplayTorn ==
  ASSUME NEW file \in Seq(FileLine), Clean(file), NEW l \in FileLine, l.record = Garbage
  PROVE  replay(Append(file, l)) = replay(file)
<1>1. PICK whole : whole = Append(file, l)
  OBVIOUS
<1>2. /\ whole \in Seq(FileLine) /\ Len(whole) = Len(file) + 1 /\ whole[Len(file) + 1] = l
      /\ \A i \in 1 .. Len(file) : whole[i] = file[i]
  BY <1>1
<1>3. PICK n \in 0 .. Len(whole) :
        /\ records(whole) = [i \in 1 .. n |-> whole[i].record]
        /\ \A i \in 1 .. n : whole[i].record # Garbage
        /\ n = Len(whole) \/ (n + 1 \in 1 .. Len(whole) /\ whole[n + 1].record = Garbage)
  BY <1>2, RecordsAre
<1>4. n = Len(file)
  <2>1. Len(file) \in Nat /\ \A i \in 1 .. Len(file) : whole[i].record # Garbage
    BY <1>2 DEF Clean
  <2>2. n # Len(whole)
    <3>1. Len(file) + 1 \in 1 .. Len(whole) /\ whole[Len(file) + 1].record = Garbage
      BY <1>2, <2>1
    <3> QED BY <1>2, <1>3, <3>1
  <2>3. n + 1 \in 1 .. Len(file) + 1 /\ n + 1 \notin 1 .. Len(file)
    BY <1>2, <1>3, <2>1, <2>2
  <2> QED BY <2>1, <2>3
<1>5. records(whole) = records(file)
  <2>1. records(file) = [i \in 1 .. Len(file) |-> file[i].record]
    BY RecordsOfClean
  <2> QED BY <1>2, <1>3, <1>4, <2>1
<1> QED BY <1>1, <1>5 DEF replay

(* An entry comes from a record.                                            *)
LEMMA ReplaySeqs ==
  ASSUME NEW file \in Seq(FileLine), NEW s \in DOMAIN replay(file)
  PROVE  \E i \in DOMAIN records(file) : records(file)[i].seq = s
<1>1. PICK rs : rs = records(file)
  OBVIOUS
<1>2. rs \in Seq(Record) /\ DOMAIN rs = 1 .. Len(rs)
  BY <1>1, RecordsAre
<1>3. PICK n : n = Len(rs) /\ n \in Nat
  BY <1>2
<1>4. PICK f : Turns(rs, f, n) /\ replay(file) = f[n]
  BY <1>1, <1>3, ReplayIs
<1>5. f[0] = Empty /\ \A i \in 1 .. n : f[i] = replay_record(f[i - 1], rs[i])
  BY <1>3, <1>4, TurnsStep
<1> DEFINE Holds(k) == \A t \in DOMAIN f[k] : \E i \in 1 .. k : rs[i].seq = t
           Bad == {k \in 0 .. n : ~Holds(k)}
<1>6. Holds(0)
  BY <1>5 DEF Empty
<1>7. ASSUME NEW k \in 1 .. n, Holds(k - 1)
      PROVE  Holds(k)
  <2>1. PICK a, r : a = f[k - 1] /\ r = rs[k]
    OBVIOUS
  <2>2. f[k] = replay_record(a, r)
    BY <1>5, <2>1
  <2>3. DOMAIN f[k] \subseteq DOMAIN a \cup {r.seq}
    <3>1. CASE r.op = "Push"
      BY <2>2, <3>1 DEF replay_record
    <3>2. CASE r.op = "Ack"
      BY <2>2, <3>2 DEF replay_record
    <3>3. CASE r.op # "Push" /\ r.op # "Ack"
      BY <2>2, <3>3 DEF replay_record
    <3> QED BY <3>1, <3>2, <3>3
  <2>4. k \in 1 .. k /\ \A i \in 1 .. k - 1 : i \in 1 .. k
    BY <1>3
  <2>5. ASSUME NEW t \in DOMAIN f[k]
        PROVE  \E i \in 1 .. k : rs[i].seq = t
    <3>1. CASE t = r.seq
      BY <2>1, <2>4, <3>1
    <3>2. CASE t \in DOMAIN a
      BY <1>7, <2>1, <2>4, <3>2
    <3> QED BY <2>3, <3>1, <3>2
  <2> QED BY <2>5
<1>8. Holds(n)
  <2> SUFFICES ASSUME Bad # {} PROVE FALSE
    BY <1>3
  <2>1. PICK k \in Bad : \A m \in Bad : k <= m
    <3>1. Bad \subseteq Nat
      OBVIOUS
    <3> HIDE DEF Bad
    <3> QED BY <3>1, LeastOne
  <2>2. k # 0
    BY <1>6
  <2>3. k \in 1 .. n /\ k - 1 \in 0 .. n /\ ~(k <= k - 1)
    BY <1>3, <2>2
  <2>4. Holds(k - 1)
    BY <2>1, <2>3
  <2> HIDE DEF Holds
  <2> QED BY <1>7, <2>3, <2>4
<1> QED BY <1>1, <1>2, <1>3, <1>4, <1>8

(* A compacted journal holds the live entries, and reads back as them.      *)
LEMMA ImageIs ==
  ASSUME NEW b \in Nat, NEW e, e = [s \in DOMAIN e |-> e[s]], DOMAIN e \subseteq 0 .. b,
         \A s \in DOMAIN e : e[s] \in Entry
  PROVE  /\ IsFiniteSet(DOMAIN e) /\ Cardinality(DOMAIN e) \in Nat
         /\ image(e) \in Seq(FileLine) /\ Len(image(e)) = Cardinality(DOMAIN e) /\ Clean(image(e))
         /\ \A i \in 1 .. Len(image(e)) : image(e)[i].ended /\ image(e)[i].record.seq \in DOMAIN e
         /\ \A i, j \in 1 .. Len(image(e)) : image(e)[i].record.seq = image(e)[j].record.seq => i = j
         /\ replay(image(e)) = e
<1>1. PICK q, n : q = Sorted(DOMAIN e) /\ n = Cardinality(DOMAIN e)
  OBVIOUS
<1>2. /\ IsFiniteSet(DOMAIN e) /\ n \in Nat /\ q \in [1 .. n -> DOMAIN e]
      /\ \A i, j \in 1 .. n : q[i] = q[j] => i = j
      /\ \A s \in DOMAIN e : \E i \in 1 .. n : q[i] = s
  BY <1>1, SortedIs
<1>3. PICK im : im = image(e)
  OBVIOUS
<1>4. im = [i \in 1 .. n |-> Line(Push(q[i], e[q[i]]))]
  BY <1>1, <1>2, <1>3 DEF image
<1>5. ASSUME NEW s \in DOMAIN e
      PROVE  /\ Push(s, e[s]) \in Record /\ Push(s, e[s]).op = "Push" /\ Push(s, e[s]).seq = s
             /\ [msg |-> Push(s, e[s]).msg, attempts |-> Push(s, e[s]).attempts] = e[s]
             /\ Line(Push(s, e[s])) \in FileLine
             /\ Line(Push(s, e[s])).record = Push(s, e[s]) /\ Line(Push(s, e[s])).ended
  <2>1. s \in Nat /\ e[s].msg \in Nat /\ e[s].attempts \in Nat
        /\ e[s] = [msg |-> e[s].msg, attempts |-> e[s].attempts]
    <3>1. e[s] \in Entry
      OBVIOUS
    <3> QED BY <3>1, StoreAssumption DEF Entry, Messages
  <2>2. Push(s, e[s]) \in Record
    BY <2>1 DEF Push, Record, Calls
  <2> QED BY <2>1, <2>2 DEF Push, Line, FileLine
<1>6. im \in Seq(FileLine) /\ Len(im) = n
  <2>1. \A i \in 1 .. n : Line(Push(q[i], e[q[i]])) \in FileLine
    BY <1>2, <1>5
  <2> QED BY <1>2, <1>4, <2>1
<1>7. \A i \in 1 .. n : /\ im[i].record = Push(q[i], e[q[i]]) /\ im[i].ended /\ q[i] \in DOMAIN e
                        /\ im[i].record \in Record /\ im[i].record.seq = q[i]
  <2> SUFFICES ASSUME NEW i \in 1 .. n
               PROVE  /\ im[i].record = Push(q[i], e[q[i]]) /\ im[i].ended /\ q[i] \in DOMAIN e
                      /\ im[i].record \in Record /\ im[i].record.seq = q[i]
    OBVIOUS
  <2>1. PICK s : s = q[i] /\ s \in DOMAIN e
    BY <1>2
  <2>2. im[i] = Line(Push(s, e[s]))
    BY <1>4, <2>1
  <2>3. /\ Line(Push(s, e[s])).record = Push(s, e[s]) /\ Line(Push(s, e[s])).ended
        /\ Push(s, e[s]) \in Record /\ Push(s, e[s]).seq = s
    BY <1>5, <2>1
  <2> QED BY <2>1, <2>2, <2>3
<1>8. Clean(im)
  BY <1>6, <1>7, RecordTypes DEF Clean
<1>9. PICK rs : rs = records(im)
  OBVIOUS
<1>10. rs = [i \in 1 .. n |-> im[i].record] /\ Len(rs) = n
  BY <1>6, <1>8, <1>9, RecordsOfClean
<1>11. PICK f : Turns(rs, f, n) /\ replay(im) = f[n]
  <2>1. \E f : Turns(rs, f, Len(rs)) /\ replay(im) = f[Len(rs)]
    BY <1>2, <1>9, <1>10, ReplayIs
  <2> QED BY <1>10, <2>1
<1>12. f[0] = Empty /\ \A i \in 1 .. n : f[i] = replay_record(f[i - 1], rs[i])
  BY <1>2, <1>11, TurnsStep
<1> DEFINE Seen(k) == {q[i] : i \in 1 .. k}
           Holds(k) == f[k] = [s \in Seen(k) |-> e[s]]
           Bad == {k \in 0 .. n : ~Holds(k)}
<1>13. Holds(0)
  BY <1>12 DEF Empty
<1>14. ASSUME NEW k \in 1 .. n, Holds(k - 1)
       PROVE  Holds(k)
  <2>1. PICK a, r, s : a = f[k - 1] /\ r = rs[k] /\ s = q[k]
    OBVIOUS
  <2>2. f[k] = replay_record(a, r) /\ s \in DOMAIN e /\ r = Push(s, e[s])
    <3>1. f[k] = replay_record(a, r)
      BY <1>12, <2>1
    <3>2. r = im[k].record /\ s \in DOMAIN e /\ im[k].record = Push(s, e[s])
      BY <1>7, <1>10, <2>1
    <3> QED BY <3>1, <3>2
  <2>3. /\ r.op = "Push" /\ r.seq = s /\ [msg |-> r.msg, attempts |-> r.attempts] = e[s]
    BY <1>5, <2>2
  <2>4. f[k] = [t \in DOMAIN a \cup {s} |-> IF t = s THEN e[s] ELSE a[t]]
    BY <2>2, <2>3 DEF replay_record
  <2>5. Seen(k) = Seen(k - 1) \cup {s}
    <3>1. k \in 1 .. k /\ \A i \in 1 .. k - 1 : i \in 1 .. k
      BY <1>2
    <3>2. \A i \in 1 .. k : i = k \/ i \in 1 .. k - 1
      BY <1>2
    <3> QED BY <2>1, <3>1, <3>2
  <2>6. PICK S : S = Seen(k - 1)
    OBVIOUS
  <2>7. a = [t \in S |-> e[t]] /\ Seen(k) = S \cup {s}
    BY <1>14, <2>1, <2>5, <2>6
  <2>8. f[k] = [t \in S \cup {s} |-> e[t]]
    BY <2>4, <2>7
  <2>9. PICK T : T = Seen(k)
    OBVIOUS
  <2>10. f[k] = [t \in T |-> e[t]]
    <3> HIDE DEF Seen
    <3> QED BY <2>7, <2>8, <2>9
  <2> QED BY <2>9, <2>10
<1>15. Holds(n)
  <2> HIDE DEF Holds
  <2> SUFFICES ASSUME Bad # {} PROVE FALSE
    BY <1>2
  <2>1. PICK k \in Bad : \A m \in Bad : k <= m
    <3>1. Bad \subseteq Nat
      OBVIOUS
    <3> HIDE DEF Bad
    <3> QED BY <3>1, LeastOne
  <2>2. k # 0
    BY <1>13
  <2>3. k \in 1 .. n /\ k - 1 \in 0 .. n /\ ~(k <= k - 1)
    BY <1>2, <2>2
  <2>4. Holds(k - 1)
    BY <2>1, <2>3
  <2> QED BY <1>14, <2>3, <2>4
<1>16. Seen(n) = DOMAIN e
  <2>1. \A i \in 1 .. n : q[i] \in DOMAIN e
    BY <1>7
  <2>2. \A s \in DOMAIN e : s \in Seen(n)
    BY <1>2
  <2>3. \A s \in Seen(n) : s \in DOMAIN e
    BY <2>1
  <2> HIDE DEF Seen
  <2> QED BY <2>2, <2>3
<1>17. replay(im) = e
  <2>1. f[n] = [s \in DOMAIN e |-> e[s]]
    BY <1>15, <1>16
  <2> QED BY <1>11, <2>1
<1>18. /\ \A i \in 1 .. n : im[i].ended /\ im[i].record.seq \in DOMAIN e
       /\ \A i, j \in 1 .. n : im[i].record.seq = im[j].record.seq => i = j
  BY <1>2, <1>7
<1> HIDE DEF Seen, Holds
<1> QED BY <1>1, <1>2, <1>3, <1>6, <1>8, <1>17, <1>18

-----------------------------------------------------------------------------
(* The inductive invariant.                                                 *)

(* What a replay gives back, b, is what the store holds, lv, but for the    *)
(* messages in doubt and for attempts that were not recorded: every live    *)
(* entry is there, the others are doubtful, the order is that of the        *)
(* pushes, no recorded attempt is missing.                                  *)
Agrees(b, lv, db, rc, ns, nm) ==
  /\ b = [s \in DOMAIN b |-> b[s]]
  /\ \A s \in DOMAIN b : s \in 0 .. ns /\ b[s] \in Entry /\ b[s].msg < nm
  /\ \A s \in DOMAIN lv : s \in DOMAIN b /\ b[s].msg = lv[s].msg
  /\ \A s \in DOMAIN b : s \in DOMAIN lv \/ b[s].msg \in db
  /\ \A s, t \in DOMAIN b : s < t => b[s].msg < b[t].msg
  /\ \A s \in DOMAIN b : rc[b[s].msg] <= b[s].attempts

(* Wherever the file is cut between what is synced and its end.             *)
CutsAgree(file, from, lv, db, rc, ns, nm) ==
  \A k \in from .. Len(file) : Agrees(replay(SubSeq(file, 1, k)), lv, db, rc, ns, nm)

Numbers ==
  /\ open \in BOOLEAN /\ next_seq \in Nat /\ next_msg \in 1 .. MaxMessages + 1 /\ next_seq < next_msg
  /\ written \in Nat /\ failures \in Nat /\ doubtful \subseteq Messages
  /\ recorded \in [Messages -> 0 .. MaxAttempts]
  /\ \A m \in Messages : m >= next_msg => recorded[m] = 0

LiveOk(lv, rc, ns, nm) ==
  /\ lv = [s \in DOMAIN lv |-> lv[s]]
  /\ \A s \in DOMAIN lv : s \in Nat /\ s < ns /\ lv[s] \in Entry /\ lv[s].msg < nm
                          /\ rc[lv[s].msg] <= lv[s].attempts

Journal ==
  /\ lines \in Seq(FileLine) /\ synced \in 0 .. Len(lines)
  /\ \A i \in 1 .. Len(lines) : lines[i].record # Garbage => lines[i].record.seq + 1 < next_msg
  /\ open => Clean(lines) /\ \A i \in 1 .. Len(lines) : lines[i].ended
  /\ ~open => synced = Len(lines) /\ doing = Nothing

(* What the call in progress has written.                                   *)
InCall(d, b, lv, db, ns, nm) ==
  /\ d \in {Nothing, [op |-> "Rewrite"]} \cup [op : Calls, seq : Nat, entry : Entry]
  /\ d.op = "Push" =>
       /\ d.seq = ns /\ d.entry.msg \in db /\ ns + 1 < nm
       /\ ns \in DOMAIN b /\ b[ns] = d.entry
  /\ d.op = "Ack" =>
       /\ d.entry.msg \in db
       /\ \A s \in DOMAIN b : b[s].msg # d.entry.msg
  /\ d.op = "Attempts" =>
       /\ d.seq \in DOMAIN lv /\ lv[d.seq] = d.entry
       /\ b[d.seq].attempts = d.entry.attempts

Inv ==
  /\ Numbers /\ LiveOk(live, recorded, next_seq, next_msg) /\ Journal
  /\ CutsAgree(lines, synced, live, doubtful, recorded, next_seq, next_msg)
  /\ InCall(doing, replay(lines), live, doubtful, next_seq, next_msg)

-----------------------------------------------------------------------------
(* How each call keeps Agrees.                                              *)

LEMMA EntryTypes ==
  \A e \in Entry : /\ e.msg \in Messages /\ e.msg \in Nat /\ e.attempts \in 0 .. MaxAttempts /\ e.attempts \in Nat
                   /\ e = [msg |-> e.msg, attempts |-> e.attempts]
BY StoreAssumption DEF Entry, Messages

LEMMA AgreesLater ==
  ASSUME NEW b, NEW lv, NEW db, NEW rc, NEW ns, NEW nm \in Nat, Agrees(b, lv, db, rc, ns, nm),
         NEW more, db \subseteq more, NEW mm \in Nat, nm <= mm
  PROVE  Agrees(b, lv, more, rc, ns, mm)
<1>1. \A s \in DOMAIN b : b[s].msg < mm
  BY EntryTypes DEF Agrees
<1> QED BY <1>1 DEF Agrees

LEMMA AgreesPush ==
  ASSUME NEW b, NEW lv, NEW db, NEW rc, NEW ns \in Nat, NEW nm \in Messages,
         Agrees(b, lv, db, rc, ns, nm), rc[nm] = 0,
         \A s \in DOMAIN lv : s \in Nat /\ s < ns,
         NEW c, c = replay_record(b, Push(ns, [msg |-> nm, attempts |-> 0]))
  PROVE  /\ Agrees(c, lv, db \cup {nm}, rc, ns, nm + 1)
         /\ ns \in DOMAIN c /\ c[ns] = [msg |-> nm, attempts |-> 0]
<1>1. PICK e : e = [msg |-> nm, attempts |-> 0]
  OBVIOUS
<1>2. e.msg = nm /\ e.attempts = 0 /\ e \in Entry /\ nm \in Nat
  BY <1>1, StoreAssumption DEF Entry, Messages
<1>3. c = [s \in DOMAIN b \cup {ns} |-> IF s = ns THEN e ELSE b[s]]
  BY <1>1 DEF replay_record, Push
<1>4. DOMAIN c = DOMAIN b \cup {ns} /\ c[ns] = e /\ \A s \in DOMAIN b : s # ns => c[s] = b[s]
  BY <1>3
<1>5. \A s \in DOMAIN b : s \in 0 .. ns /\ b[s] \in Entry /\ b[s].msg < nm
  BY DEF Agrees
<1>6. \A s \in DOMAIN c : s \in 0 .. ns /\ c[s] \in Entry /\ c[s].msg < nm + 1
  <2>1. \A s \in DOMAIN b : b[s].msg < nm + 1
    BY <1>2, <1>5, EntryTypes
  <2> QED BY <1>2, <1>4, <1>5, <2>1
<1>7. \A s \in DOMAIN lv : s \in DOMAIN c /\ c[s].msg = lv[s].msg
  <2>1. \A s \in DOMAIN lv : s # ns
    OBVIOUS
  <2> QED BY <1>4, <2>1 DEF Agrees
<1>8. \A s \in DOMAIN c : s \in DOMAIN lv \/ c[s].msg \in db \cup {nm}
  BY <1>2, <1>4 DEF Agrees
<1>9. ASSUME NEW s \in DOMAIN c, NEW t \in DOMAIN c, s < t
      PROVE  c[s].msg < c[t].msg
  <2>1. s # ns /\ s \in DOMAIN b
    BY <1>4, <1>5, <1>9
  <2>2. CASE t = ns
    BY <1>2, <1>4, <1>5, <2>1, <2>2
  <2>3. CASE t # ns
    BY <1>4, <1>9, <2>1, <2>3 DEF Agrees
  <2> QED BY <2>2, <2>3
<1>10. \A s \in DOMAIN c : rc[c[s].msg] <= c[s].attempts
  BY <1>2, <1>4 DEF Agrees
<1>11. c = [s \in DOMAIN c |-> c[s]]
  BY <1>3
<1> QED BY <1>1, <1>4, <1>6, <1>7, <1>8, <1>9, <1>10, <1>11 DEF Agrees

(* No two entries are of one message.                                       *)
LEMMA AgreesOnce ==
  ASSUME NEW b, NEW lv, NEW db, NEW rc, NEW ns \in Nat, NEW nm, Agrees(b, lv, db, rc, ns, nm),
         NEW s \in DOMAIN b, NEW t \in DOMAIN b, b[s].msg = b[t].msg
  PROVE  s = t
<1>1. s \in Nat /\ t \in Nat /\ b[s].msg \in Nat /\ b[t].msg \in Nat
  BY EntryTypes DEF Agrees
<1>2. (s < t => b[s].msg < b[t].msg) /\ (t < s => b[t].msg < b[s].msg)
  BY DEF Agrees
<1> QED BY <1>1, <1>2

LEMMA AgreesAck ==
  ASSUME NEW b, NEW lv, NEW db, NEW rc, NEW ns \in Nat, NEW nm, Agrees(b, lv, db, rc, ns, nm),
         NEW s \in DOMAIN lv,
         NEW lw, DOMAIN lw = DOMAIN lv \ {s}, \A t \in DOMAIN lw : lw[t] = lv[t],
         NEW c, c = replay_record(b, Ack(s))
  PROVE  /\ Agrees(b, lw, db \cup {lv[s].msg}, rc, ns, nm)
         /\ Agrees(c, lw, db \cup {lv[s].msg}, rc, ns, nm)
         /\ \A t \in DOMAIN c : c[t].msg # lv[s].msg
<1>1. c = [t \in DOMAIN b \ {s} |-> b[t]]
  BY DEF replay_record, Ack
<1>2. /\ DOMAIN c = DOMAIN b \ {s} /\ \A t \in DOMAIN c : c[t] = b[t]
      /\ DOMAIN lw = DOMAIN lv \ {s} /\ \A t \in DOMAIN lw : lw[t] = lv[t]
      /\ c = [t \in DOMAIN c |-> c[t]]
  BY <1>1
<1>3. s \in DOMAIN b /\ b[s].msg = lv[s].msg
  BY DEF Agrees
<1>4. Agrees(b, lw, db \cup {lv[s].msg}, rc, ns, nm)
  <2>1. \A t \in DOMAIN lw : t \in DOMAIN b /\ b[t].msg = lw[t].msg
    BY <1>2 DEF Agrees
  <2>2. \A t \in DOMAIN b : t \in DOMAIN lw \/ b[t].msg \in db \cup {lv[s].msg}
    BY <1>2, <1>3 DEF Agrees
  <2> QED BY <2>1, <2>2 DEF Agrees
<1>5. Agrees(c, lw, db \cup {lv[s].msg}, rc, ns, nm)
  <2>1. \A t \in DOMAIN lw : t \in DOMAIN c /\ c[t].msg = lw[t].msg
    BY <1>2, <1>4 DEF Agrees
  <2>2. \A t \in DOMAIN c : t \in DOMAIN lw \/ c[t].msg \in db \cup {lv[s].msg}
    BY <1>2, <1>4 DEF Agrees
  <2>3. \A t \in DOMAIN c : t \in 0 .. ns /\ c[t] \in Entry /\ c[t].msg < nm /\ rc[c[t].msg] <= c[t].attempts
    BY <1>2 DEF Agrees
  <2>4. \A t, u \in DOMAIN c : t < u => c[t].msg < c[u].msg
    BY <1>2 DEF Agrees
  <2> QED BY <1>2, <2>1, <2>2, <2>3, <2>4 DEF Agrees
<1>6. ASSUME NEW t \in DOMAIN c, c[t].msg = lv[s].msg
      PROVE  FALSE
  <2>1. t \in DOMAIN b /\ t # s /\ b[t].msg = b[s].msg
    BY <1>2, <1>3, <1>6
  <2> QED BY <1>3, <2>1, AgreesOnce
<1> QED BY <1>4, <1>5, <1>6

(* Agrees looks at the live messages, not at their attempts.                *)
LEMMA AgreesMessages ==
  ASSUME NEW b, NEW lv, NEW db, NEW rc, NEW ns, NEW nm, Agrees(b, lv, db, rc, ns, nm),
         NEW lw, DOMAIN lw = DOMAIN lv, \A t \in DOMAIN lv : lw[t].msg = lv[t].msg
  PROVE  Agrees(b, lw, db, rc, ns, nm)
BY DEF Agrees

LEMMA AgreesAttempts ==
  ASSUME NEW b, NEW lv, NEW db, NEW rc, NEW ns \in Nat, NEW nm, Agrees(b, lv, db, rc, ns, nm),
         NEW s \in DOMAIN lv, NEW n \in 0 .. MaxAttempts, rc[lv[s].msg] <= n,
         NEW c, c = replay_record(b, Attempts(s, n))
  PROVE  Agrees(c, lv, db, rc, ns, nm) /\ c[s].attempts = n
<1>1. s \in DOMAIN b /\ b[s].msg = lv[s].msg /\ b[s] \in Entry
  BY DEF Agrees
<1>2. c = [b EXCEPT ![s].attempts = n]
  BY <1>1 DEF replay_record, Attempts
<1>3. PICK e : e = [msg |-> b[s].msg, attempts |-> n]
  OBVIOUS
<1>4. e \in Entry /\ e.msg = b[s].msg /\ e.attempts = n
  BY <1>1, <1>3, EntryTypes DEF Entry
<1>5. DOMAIN c = DOMAIN b /\ c[s] = e /\ \A t \in DOMAIN b : t # s => c[t] = b[t]
  <2>1. [b[s] EXCEPT !.attempts = n] = e
    BY <1>1, <1>3, EntryTypes
  <2> QED BY <1>1, <1>2, <2>1
<1>6. c = [t \in DOMAIN c |-> c[t]] /\ \A t \in DOMAIN c : c[t].msg = b[t].msg /\ c[t] \in Entry
  <2>1. c = [t \in DOMAIN c |-> c[t]]
    BY <1>2, <1>5 DEF Agrees
  <2> QED BY <1>4, <1>5, <2>1 DEF Agrees
<1>7. \A t \in DOMAIN c : rc[c[t].msg] <= c[t].attempts
  BY <1>1, <1>4, <1>5 DEF Agrees
<1>8. Agrees(c, lv, db, rc, ns, nm)
  BY <1>5, <1>6, <1>7 DEF Agrees
<1> QED BY <1>4, <1>5, <1>8

LEMMA AgreesPushed ==
  ASSUME NEW b, NEW lv, NEW db, NEW rc, NEW ns \in Nat, NEW nm, Agrees(b, lv, db, rc, ns, nm),
         ns \in DOMAIN b, NEW lw,
         lw = [s \in DOMAIN lv \cup {ns} |-> IF s = ns THEN b[ns] ELSE lv[s]]
  PROVE  Agrees(b, lw, db \ {b[ns].msg}, rc, ns + 1, nm)
<1>1. DOMAIN lw = DOMAIN lv \cup {ns} /\ lw[ns] = b[ns] /\ \A s \in DOMAIN lv : s # ns => lw[s] = lv[s]
  OBVIOUS
<1>2. \A s \in DOMAIN lw : s \in DOMAIN b /\ b[s].msg = lw[s].msg
  BY <1>1 DEF Agrees
<1>3. ASSUME NEW s \in DOMAIN b
      PROVE  s \in DOMAIN lw \/ b[s].msg \in db \ {b[ns].msg}
  <2>1. CASE s = ns
    BY <1>1, <2>1
  <2>2. CASE s # ns
    <3>1. b[s].msg # b[ns].msg
      BY <2>2, AgreesOnce
    <3> QED BY <1>1, <3>1 DEF Agrees
  <2> QED BY <2>1, <2>2
<1>4. \A s \in DOMAIN b : s \in 0 .. ns + 1
  BY DEF Agrees
<1> QED BY <1>2, <1>3, <1>4 DEF Agrees

LEMMA AgreesAcked ==
  ASSUME NEW b, NEW lv, NEW db, NEW rc, NEW ns, NEW nm, Agrees(b, lv, db, rc, ns, nm),
         NEW m, \A s \in DOMAIN b : b[s].msg # m
  PROVE  Agrees(b, lv, db \ {m}, rc, ns, nm)
BY DEF Agrees

LEMMA AgreesRecorded ==
  ASSUME NEW b, NEW lv, NEW db, NEW rc \in [Messages -> 0 .. MaxAttempts], NEW ns \in Nat, NEW nm,
         Agrees(b, lv, db, rc, ns, nm), NEW s \in DOMAIN lv,
         NEW rd, rd = [rc EXCEPT ![lv[s].msg] = b[s].attempts]
  PROVE  Agrees(b, lv, db, rd, ns, nm)
<1>1. s \in DOMAIN b /\ b[s].msg = lv[s].msg /\ b[s] \in Entry
  BY DEF Agrees
<1>2. ASSUME NEW t \in DOMAIN b
      PROVE  rd[b[t].msg] <= b[t].attempts
  <2>1. b[t] \in Entry /\ b[t].msg \in Messages /\ b[t].attempts \in Nat /\ rc[b[t].msg] <= b[t].attempts
    BY EntryTypes DEF Agrees
  <2>2. CASE t = s
    BY <1>1, <2>1, <2>2
  <2>3. CASE t # s
    <3>1. b[t].msg # b[s].msg
      BY <1>1, <2>3, AgreesOnce
    <3> QED BY <1>1, <2>1, <3>1
  <2> QED BY <2>2, <2>3
<1> QED BY <1>2 DEF Agrees

LEMMA AgreesLive ==
  ASSUME NEW b, NEW lv, NEW db, NEW rc, NEW ns \in Nat, NEW nm, Agrees(b, lv, db, rc, ns, nm),
         LiveOk(lv, rc, ns, nm)
  PROVE  Agrees(lv, lv, db, rc, ns, nm)
<1>1. \A s, t \in DOMAIN lv : s < t => lv[s].msg < lv[t].msg
  BY DEF Agrees
<1>2. \A s \in DOMAIN lv : s \in 0 .. ns /\ lv[s] \in Entry /\ lv[s].msg < nm /\ rc[lv[s].msg] <= lv[s].attempts
  BY DEF LiveOk
<1>3. lv = [s \in DOMAIN lv |-> lv[s]]
  BY DEF LiveOk
<1> QED BY <1>1, <1>2, <1>3 DEF Agrees

LEMMA AgreesOpen ==
  ASSUME NEW b, NEW lv, NEW db, NEW rc, NEW ns, NEW nm, Agrees(b, lv, db, rc, ns, nm),
         NEW os \in Nat, \A s \in DOMAIN b : s \in Nat /\ s < os
  PROVE  Agrees(b, b, {}, rc, os, nm) /\ LiveOk(b, rc, os, nm)
<1>1. \A s \in DOMAIN b : s \in 0 .. os
  OBVIOUS
<1> QED BY <1>1 DEF Agrees, LiveOk

-----------------------------------------------------------------------------
(* How each way of changing the file keeps CutsAgree.                       *)

LEMMA CutIs ==
  ASSUME NEW file \in Seq(FileLine)
  PROVE  /\ SubSeq(file, 1, Len(file)) = file
         /\ \A k \in 0 .. Len(file) : /\ SubSeq(file, 1, k) \in Seq(FileLine) /\ Len(SubSeq(file, 1, k)) = k
                                      /\ \A i \in 1 .. k : SubSeq(file, 1, k)[i] = file[i]
                                      /\ Clean(file) => Clean(SubSeq(file, 1, k))
<1>1. SubSeq(file, 1, Len(file)) = file
  OBVIOUS
<1>2. ASSUME NEW k \in 0 .. Len(file)
      PROVE  /\ SubSeq(file, 1, k) \in Seq(FileLine) /\ Len(SubSeq(file, 1, k)) = k
             /\ \A i \in 1 .. k : SubSeq(file, 1, k)[i] = file[i]
             /\ Clean(file) => Clean(SubSeq(file, 1, k))
  <2>1. SubSeq(file, 1, k) \in Seq(FileLine) /\ Len(SubSeq(file, 1, k)) = k
    OBVIOUS
  <2>2. \A i \in 1 .. k : SubSeq(file, 1, k)[i] = file[i] /\ i \in 1 .. Len(file)
    OBVIOUS
  <2> QED BY <2>1, <2>2 DEF Clean
<1> QED BY <1>1, <1>2

LEMMA CutsWhole ==
  ASSUME NEW file \in Seq(FileLine), NEW lv, NEW db, NEW rc, NEW ns, NEW nm
  PROVE  CutsAgree(file, Len(file), lv, db, rc, ns, nm) <=> Agrees(replay(file), lv, db, rc, ns, nm)
<1>1. Len(file) .. Len(file) = {Len(file)}
  OBVIOUS
<1>2. SubSeq(file, 1, Len(file)) = file
  BY CutIs
<1> QED BY <1>1, <1>2 DEF CutsAgree

LEMMA CutsLast ==
  ASSUME NEW file \in Seq(FileLine), NEW from \in 0 .. Len(file), NEW lv, NEW db, NEW rc, NEW ns, NEW nm,
         CutsAgree(file, from, lv, db, rc, ns, nm)
  PROVE  Agrees(replay(file), lv, db, rc, ns, nm)
<1>1. Len(file) \in from .. Len(file)
  OBVIOUS
<1>2. SubSeq(file, 1, Len(file)) = file
  BY CutIs
<1> QED BY <1>1, <1>2 DEF CutsAgree

LEMMA CutsAppend ==
  ASSUME NEW file \in Seq(FileLine), NEW from \in 0 .. Len(file), NEW l \in FileLine,
         NEW lv, NEW db, NEW rc, NEW ns, NEW nm,
         CutsAgree(file, from, lv, db, rc, ns, nm),
         Agrees(replay(Append(file, l)), lv, db, rc, ns, nm)
  PROVE  CutsAgree(Append(file, l), from, lv, db, rc, ns, nm)
<1>1. PICK whole : whole = Append(file, l)
  OBVIOUS
<1>2. whole \in Seq(FileLine) /\ Len(whole) = Len(file) + 1 /\ SubSeq(whole, 1, Len(whole)) = whole
  BY <1>1, CutIs
<1>3. ASSUME NEW k \in from .. Len(whole)
      PROVE  Agrees(replay(SubSeq(whole, 1, k)), lv, db, rc, ns, nm)
  <2>1. CASE k = Len(whole)
    BY <1>1, <1>2, <2>1
  <2>2. CASE k # Len(whole)
    <3>1. k \in from .. Len(file) /\ k \in 0 .. Len(file)
      BY <1>2, <2>2
    <3>2. SubSeq(whole, 1, k) = SubSeq(file, 1, k)
      BY <1>1, <3>1
    <3> QED BY <3>1, <3>2 DEF CutsAgree
  <2> QED BY <2>1, <2>2
<1> QED BY <1>1, <1>3 DEF CutsAgree

(* What a crash leaves reads back as one of the cuts.                       *)
LEMMA CrashAgrees ==
  ASSUME NEW file \in AfterCrash, Inv
  PROVE  /\ file \in Seq(FileLine)
         /\ \A i \in 1 .. Len(file) : file[i].record # Garbage => file[i].record.seq + 1 < next_msg
         /\ Agrees(replay(file), live, doubtful, recorded, next_seq, next_msg)
<1>1. lines \in Seq(FileLine) /\ synced \in 0 .. Len(lines)
  BY DEF Inv, Journal
<1>2. CASE ~open
  <2>1. file = lines
    BY <1>2 DEF AfterCrash
  <2>2. Agrees(replay(lines), live, doubtful, recorded, next_seq, next_msg)
    BY <1>1, CutsLast DEF Inv
  <2> QED BY <1>1, <2>1, <2>2 DEF Inv, Journal
<1>3. CASE open
  <2>1. PICK k \in synced .. Len(lines) :
          \/ file = SubSeq(lines, 1, k)
          \/ /\ k # Len(lines)
             /\ \E r \in {Garbage, lines[k + 1].record} :
                  file = Append(SubSeq(lines, 1, k), [record |-> r, ended |-> FALSE])
    <3>1. file \in UNION {{SubSeq(lines, 1, k)} \cup
              IF k = Len(lines) THEN {}
              ELSE {Append(SubSeq(lines, 1, k), [record |-> r, ended |-> FALSE]) :
                      r \in {Garbage, lines[k + 1].record}}
              : k \in synced..Len(lines)}
      BY <1>3 DEF AfterCrash
    <3> QED BY <3>1
  <2>2. PICK cut : cut = SubSeq(lines, 1, k)
    OBVIOUS
  <2>3. k \in 0 .. Len(lines) /\ Clean(lines)
    BY <1>1, <1>3 DEF Inv, Journal
  <2>4. /\ cut \in Seq(FileLine) /\ Len(cut) = k /\ Clean(cut)
        /\ \A i \in 1 .. k : cut[i] = lines[i]
    BY <1>1, <2>2, <2>3, CutIs
  <2>5. \A i \in 1 .. Len(lines) : lines[i].record.seq + 1 < next_msg /\ lines[i].record # Garbage /\ lines[i] \in FileLine
    BY <1>1, <2>3 DEF Inv, Journal, Clean
  <2>6. \A i \in 1 .. k : cut[i].record.seq + 1 < next_msg
    BY <2>3, <2>4, <2>5
  <2>7. Agrees(replay(cut), live, doubtful, recorded, next_seq, next_msg)
    BY <2>2 DEF Inv, CutsAgree
  <2>8. CASE file = cut
    BY <2>4, <2>6, <2>7, <2>8
  <2>9. CASE k # Len(lines) /\ \E r \in {Garbage, lines[k + 1].record} :
               file = Append(SubSeq(lines, 1, k), [record |-> r, ended |-> FALSE])
    <3>1. PICK r \in {Garbage, lines[k + 1].record} : file = Append(cut, [record |-> r, ended |-> FALSE])
      BY <2>2, <2>9
    <3>2. k + 1 \in 1 .. Len(lines) /\ k + 1 \in synced .. Len(lines) /\ k + 1 \in 0 .. Len(lines)
      BY <1>1, <2>3, <2>9
    <3>3. PICK l : l = [record |-> r, ended |-> FALSE]
      OBVIOUS
    <3>4. l \in FileLine /\ l.record = r
      <4>1. r \in Record \cup {Garbage}
        BY <2>5, <3>2 DEF FileLine
      <4> QED BY <3>3, <4>1 DEF FileLine
    <3>5. /\ file \in Seq(FileLine) /\ Len(file) = k + 1 /\ file[k + 1] = l
          /\ \A i \in 1 .. k : file[i] = cut[i]
      BY <2>4, <3>1, <3>3, <3>4
    <3>6. \A i \in 1 .. Len(file) : file[i].record # Garbage => file[i].record.seq + 1 < next_msg
      <4>1. \A i \in 1 .. k + 1 : i \in 1 .. k \/ i = k + 1
        BY <2>3
      <4>2. r # Garbage => r.seq + 1 < next_msg
        BY <2>5, <3>2
      <4> QED BY <2>6, <3>4, <3>5, <4>1, <4>2
    <3>7. CASE r = Garbage
      <4>1. replay(file) = replay(cut)
        BY <2>4, <3>1, <3>3, <3>4, <3>7, ReplayTorn
      <4> QED BY <2>7, <3>5, <3>6, <4>1
    <3>8. CASE r = lines[k + 1].record
      <4>1. PICK next : next = SubSeq(lines, 1, k + 1)
        OBVIOUS
      <4>2. next = Append(cut, lines[k + 1])
        BY <1>1, <2>2, <3>2, <4>1
      <4>3. lines[k + 1] \in FileLine /\ lines[k + 1].record # Garbage
        BY <2>5, <3>2
      <4>4. replay(next) = replay_record(replay(cut), r)
        BY <2>4, <3>8, <4>2, <4>3, ReplayAppend
      <4>5. replay(file) = replay_record(replay(cut), r)
        BY <2>4, <3>1, <3>3, <3>4, <3>8, <4>3, ReplayAppend
      <4>6. Agrees(replay(next), live, doubtful, recorded, next_seq, next_msg)
        BY <3>2, <4>1 DEF Inv, CutsAgree
      <4> QED BY <3>5, <3>6, <4>4, <4>5, <4>6
    <3> QED BY <3>1, <3>7, <3>8
  <2> QED BY <2>1, <2>2, <2>8, <2>9
<1> QED BY <1>2, <1>3

-----------------------------------------------------------------------------
(* Inv is inductive when a failing write leaves nothing behind.             *)

LEMMA WroteIs ==
  ASSUME Inv, open
  PROVE  \A r : /\ Wrote(lines, r, "Whole") = Append(lines, Line(r))
                /\ Wrote(lines, r, "Nothing") = lines
<1>1. lines \in Seq(FileLine) /\ \A i \in 1 .. Len(lines) : lines[i].ended
  BY DEF Inv, Journal
<1>2. ~(lines # <<>> /\ ~Last(lines).ended)
  <2>1. lines # <<>> => Len(lines) \in 1 .. Len(lines)
    BY <1>1
  <2> QED BY <1>1, <2>1 DEF Last
<1> QED BY <1>2 DEF Wrote, Line

(* No call is in progress.                                                  *)
LEMMA InNoCall ==
  ASSUME NEW b, NEW lv, NEW db, NEW ns, NEW nm
  PROVE  InCall(Nothing, b, lv, db, ns, nm) /\ InCall([op |-> "Rewrite"], b, lv, db, ns, nm)
BY DEF InCall, Nothing

LEMMA CutsLater ==
  ASSUME NEW file, NEW from, NEW lv, NEW db, NEW rc, NEW ns, NEW nm \in Nat,
         CutsAgree(file, from, lv, db, rc, ns, nm),
         NEW more, db \subseteq more, NEW mm \in Nat, nm <= mm
  PROVE  CutsAgree(file, from, lv, more, rc, ns, mm)
BY AgreesLater DEF CutsAgree

LEMMA LineTypes ==
  ASSUME NEW r \in Record
  PROVE  Line(r) \in FileLine /\ Line(r).record = r /\ Line(r).ended /\ r # Garbage
BY RecordTypes DEF Line, FileLine

LEMMA JournalAppend ==
  ASSUME Inv, open, open', NEW r \in Record, lines' = Append(lines, Line(r)), synced' = synced,
         next_msg' \in Nat, next_msg <= next_msg', r.seq + 1 < next_msg'
  PROVE  Journal' /\ replay(lines') = replay_record(replay(lines), r)
<1>1. /\ lines \in Seq(FileLine) /\ synced \in 0 .. Len(lines) /\ Clean(lines) /\ next_msg \in Nat
      /\ \A i \in 1 .. Len(lines) : lines[i].ended
      /\ \A i \in 1 .. Len(lines) : lines[i].record # Garbage => lines[i].record.seq + 1 < next_msg
  BY StoreAssumption DEF Inv, Journal, Numbers
<1>2. PICK l : l = Line(r)
  OBVIOUS
<1>3. l \in FileLine /\ l.record = r /\ l.ended /\ r # Garbage
  BY <1>2, LineTypes
<1>4. PICK n : n = Len(lines) /\ n \in Nat
  BY <1>1
<1>5. /\ lines' \in Seq(FileLine) /\ Len(lines') = n + 1 /\ lines'[n + 1] = l
      /\ \A i \in 1 .. n : lines'[i] = lines[i]
  BY <1>1, <1>2, <1>3, <1>4
<1>6. \A i \in 1 .. n + 1 : i \in 1 .. n \/ i = n + 1
  BY <1>4
<1>7. synced' \in 0 .. Len(lines')
  BY <1>1, <1>4, <1>5
<1>8. \A i \in 1 .. n : lines[i].record.seq \in Nat /\ lines[i].record.seq + 1 < next_msg'
  <2>1. \A i \in 1 .. n : lines[i] \in FileLine /\ lines[i].record # Garbage
    BY <1>1, <1>4 DEF Clean
  <2>2. \A i \in 1 .. n : lines[i].record.seq \in Nat
    BY <2>1, RecordTypes DEF FileLine
  <2> QED BY <1>1, <1>4, <2>1, <2>2
<1>9. \A i \in 1 .. Len(lines') : lines'[i].record # Garbage => lines'[i].record.seq + 1 < next_msg'
  BY <1>3, <1>5, <1>6, <1>8
<1>10. Clean(lines)'
  BY <1>1, <1>3, <1>4, <1>5, <1>6 DEF Clean
<1>11. \A i \in 1 .. Len(lines') : lines'[i].ended
  BY <1>1, <1>3, <1>4, <1>5, <1>6
<1>12. replay(lines') = replay_record(replay(lines), r)
  BY <1>1, <1>2, <1>3, ReplayAppend
<1> QED BY <1>5, <1>7, <1>9, <1>10, <1>11, <1>12 DEF Journal

(* The journal after a write that failed.                                   *)
LEMMA JournalSame ==
  ASSUME Inv, open, open', lines' = lines, synced' \in {synced, Len(lines)},
         next_msg' \in Nat, next_msg <= next_msg'
  PROVE  Journal'
<1>1. /\ lines \in Seq(FileLine) /\ synced \in 0 .. Len(lines) /\ Clean(lines) /\ next_msg \in Nat
      /\ \A i \in 1 .. Len(lines) : lines[i].ended
      /\ \A i \in 1 .. Len(lines) : lines[i].record # Garbage => lines[i].record.seq + 1 < next_msg
  BY StoreAssumption DEF Inv, Journal, Numbers
<1>2. \A i \in 1 .. Len(lines) : lines[i].record.seq \in Nat
  <2>1. \A i \in 1 .. Len(lines) : lines[i] \in FileLine /\ lines[i].record # Garbage
    BY <1>1 DEF Clean
  <2> QED BY <2>1, RecordTypes DEF FileLine
<1>3. \A i \in 1 .. Len(lines) : lines[i].record # Garbage => lines[i].record.seq + 1 < next_msg'
  BY <1>1, <1>2
<1>4. synced' \in 0 .. Len(lines)
  BY <1>1
<1> QED BY <1>1, <1>3, <1>4 DEF Journal, Clean

LEMMA PushKeeps ==
  ASSUME WriteFailures \subseteq {"Nothing"}, Inv, push
  PROVE  Inv'
<1>1. PICK e, r : e = [msg |-> next_msg, attempts |-> 0] /\ r = Push(next_seq, e)
  OBVIOUS
<1>2. /\ open /\ next_msg <= MaxMessages /\ next_msg' = next_msg + 1 /\ doubtful' = doubtful \cup {next_msg}
      /\ open' = open /\ live' = live /\ next_seq' = next_seq /\ written' = written
      /\ synced' = synced /\ recorded' = recorded
      /\ write_record(r, [op |-> "Push", seq |-> next_seq, entry |-> e])
  BY <1>1 DEF push
<1>3. \/ /\ lines' = Append(lines, Line(r)) /\ doing' = [op |-> "Push", seq |-> next_seq, entry |-> e]
         /\ failures' = failures
      \/ lines' = lines /\ doing' = Nothing /\ failures' = failures + 1
  BY <1>2, WroteIs DEF write_record, Fails
<1>4. /\ next_seq \in Nat /\ next_msg \in Nat /\ next_msg \in Messages /\ next_seq < next_msg /\ recorded[next_msg] = 0
      /\ next_msg + 1 \in Nat /\ next_msg <= next_msg + 1 /\ next_seq + 1 < next_msg + 1
  BY <1>2, StoreAssumption DEF Inv, Numbers, Messages
<1>5. e \in Entry /\ e.msg = next_msg /\ e.attempts = 0
  BY <1>1, <1>4, StoreAssumption DEF Entry
<1>6. r \in Record /\ r.seq = next_seq
  BY <1>1, <1>4 DEF Push, Record, Calls
<1>7. Numbers'
  <2>1. next_msg' \in 1 .. MaxMessages + 1 /\ next_seq' < next_msg'
    BY <1>2, <1>4, StoreAssumption
  <2>2. doubtful' \subseteq Messages
    BY <1>2, <1>4 DEF Inv, Numbers
  <2>3. failures' \in Nat
    BY <1>3 DEF Inv, Numbers
  <2>4. \A m \in Messages : m >= next_msg + 1 => recorded[m] = 0
    BY <1>4, StoreAssumption DEF Inv, Numbers, Messages
  <2> QED BY <1>2, <2>1, <2>2, <2>3, <2>4 DEF Inv, Numbers
<1>8. LiveOk(live, recorded, next_seq, next_msg + 1)
  <2>1. \A s \in DOMAIN live : live[s].msg < next_msg + 1
    BY <1>4, EntryTypes DEF Inv, LiveOk
  <2> QED BY <2>1 DEF Inv, LiveOk
<1>9. CutsAgree(lines, synced, live, doubtful', recorded, next_seq, next_msg + 1)
  BY <1>2, <1>4, CutsLater DEF Inv
<1>10. lines \in Seq(FileLine) /\ synced \in 0 .. Len(lines)
  BY DEF Inv, Journal
<1>11. CASE lines' = lines /\ doing' = Nothing
  <2>1. Journal'
    BY <1>2, <1>4, <1>11, JournalSame
  <2>2. InCall(doing', replay(lines'), live', doubtful', next_seq', next_msg')
    BY <1>11, InNoCall
  <2> QED BY <1>2, <1>7, <1>8, <1>9, <1>11, <2>1, <2>2 DEF Inv
<1>12. CASE lines' = Append(lines, Line(r)) /\ doing' = [op |-> "Push", seq |-> next_seq, entry |-> e]
  <2>1. Journal' /\ replay(lines') = replay_record(replay(lines), r)
    BY <1>2, <1>4, <1>6, <1>12, JournalAppend
  <2>2. Agrees(replay(lines), live, doubtful, recorded, next_seq, next_msg)
    BY <1>10, CutsLast DEF Inv
  <2>3. \A s \in DOMAIN live : s \in Nat /\ s < next_seq
    BY DEF Inv, LiveOk
  <2>4. PICK c : c = replay_record(replay(lines), r)
    OBVIOUS
  <2>5. Agrees(c, live, doubtful', recorded, next_seq, next_msg + 1) /\ next_seq \in DOMAIN c /\ c[next_seq] = e
    BY <1>1, <1>2, <1>4, <2>2, <2>3, <2>4, AgreesPush
  <2>6. CutsAgree(lines', synced, live, doubtful', recorded, next_seq, next_msg + 1)
    BY <1>6, <1>9, <1>10, <1>12, <2>1, <2>4, <2>5, LineTypes, CutsAppend
  <2>7. InCall(doing', c, live', doubtful', next_seq', next_msg')
    <3>1. doing' \in [op : Calls, seq : Nat, entry : Entry]
      BY <1>4, <1>5, <1>12 DEF Calls
    <3>2. doing'.op = "Push" /\ doing'.seq = next_seq /\ doing'.entry = e
      BY <1>12
    <3> QED BY <1>2, <1>4, <1>5, <2>5, <3>1, <3>2 DEF InCall
  <2> QED BY <1>2, <1>7, <1>8, <2>1, <2>4, <2>6, <2>7 DEF Inv
<1> QED BY <1>3, <1>11, <1>12

LEMMA AckKeeps ==
  ASSUME WriteFailures \subseteq {"Nothing"}, Inv, NEW seq \in DOMAIN live, ack(seq)
  PROVE  Inv'
<1>1. PICK e, r : e = live[seq] /\ r = Ack(seq)
  OBVIOUS
<1>2. /\ open /\ live' = [s \in DOMAIN live \ {seq} |-> live[s]] /\ doubtful' = doubtful \cup {e.msg}
      /\ open' = open /\ next_seq' = next_seq /\ written' = written
      /\ synced' = synced /\ recorded' = recorded /\ next_msg' = next_msg
      /\ write_record(r, [op |-> "Ack", seq |-> seq, entry |-> e])
  BY <1>1 DEF ack
<1>3. \/ /\ lines' = Append(lines, Line(r)) /\ doing' = [op |-> "Ack", seq |-> seq, entry |-> e]
         /\ failures' = failures
      \/ lines' = lines /\ doing' = Nothing /\ failures' = failures + 1
  BY <1>2, WroteIs DEF write_record, Fails
<1>4. /\ next_seq \in Nat /\ next_msg \in Nat /\ next_seq < next_msg /\ next_msg <= next_msg
      /\ seq \in Nat /\ seq < next_seq /\ seq + 1 < next_msg /\ e \in Entry /\ e.msg \in Messages
  <2>1. next_seq \in Nat /\ next_msg \in Nat /\ next_seq < next_msg
    BY StoreAssumption DEF Inv, Numbers
  <2>2. seq \in Nat /\ seq < next_seq /\ e \in Entry
    BY <1>1 DEF Inv, LiveOk
  <2> QED BY <2>1, <2>2, EntryTypes
<1>5. r \in Record /\ r.seq = seq
  BY <1>1, <1>4 DEF Ack, Record, Calls
<1>6. Numbers'
  <2>1. doubtful' \subseteq Messages /\ failures' \in Nat
    BY <1>2, <1>3, <1>4 DEF Inv, Numbers
  <2> QED BY <1>2, <2>1 DEF Inv, Numbers
<1>7. LiveOk(live', recorded, next_seq, next_msg)
  BY <1>2 DEF Inv, LiveOk
<1>left. DOMAIN live' = DOMAIN live \ {seq} /\ \A t \in DOMAIN live' : live'[t] = live[t]
  BY <1>2
<1>8. lines \in Seq(FileLine) /\ synced \in 0 .. Len(lines)
  BY DEF Inv, Journal
<1>9. CutsAgree(lines, synced, live', doubtful', recorded, next_seq, next_msg)
  <2>1. ASSUME NEW k \in synced .. Len(lines)
        PROVE  Agrees(replay(SubSeq(lines, 1, k)), live', doubtful', recorded, next_seq, next_msg)
    <3>1. PICK b, c : b = replay(SubSeq(lines, 1, k)) /\ c = replay_record(b, r)
      OBVIOUS
    <3>2. Agrees(b, live, doubtful, recorded, next_seq, next_msg)
      BY <3>1 DEF Inv, CutsAgree
    <3>3. Agrees(b, live', doubtful', recorded, next_seq, next_msg)
      <4>1. next_seq \in Nat /\ c = replay_record(b, Ack(seq))
        BY <1>1, <1>4, <3>1
      <4>2. Agrees(b, live', doubtful \cup {live[seq].msg}, recorded, next_seq, next_msg)
        BY <1>left, <3>2, <4>1, AgreesAck
      <4> QED BY <1>1, <1>2, <4>2
    <3> QED BY <3>1, <3>3
  <2> QED BY <2>1 DEF CutsAgree
<1>10. CASE lines' = lines /\ doing' = Nothing
  <2>1. Journal'
    BY <1>2, <1>4, <1>10, JournalSame
  <2>2. InCall(doing', replay(lines'), live', doubtful', next_seq', next_msg')
    BY <1>10, InNoCall
  <2> QED BY <1>2, <1>6, <1>7, <1>9, <1>10, <2>1, <2>2 DEF Inv
<1>11. CASE lines' = Append(lines, Line(r)) /\ doing' = [op |-> "Ack", seq |-> seq, entry |-> e]
  <2>1. Journal' /\ replay(lines') = replay_record(replay(lines), r)
    BY <1>2, <1>4, <1>5, <1>11, JournalAppend
  <2>2. Agrees(replay(lines), live, doubtful, recorded, next_seq, next_msg)
    BY <1>8, CutsLast DEF Inv
  <2>3. PICK c : c = replay_record(replay(lines), r)
    OBVIOUS
  <2>4. Agrees(c, live', doubtful', recorded, next_seq, next_msg) /\ \A t \in DOMAIN c : c[t].msg # e.msg
    <3>1. PICK b : b = replay(lines)
      OBVIOUS
    <3>2. /\ next_seq \in Nat /\ Agrees(b, live, doubtful, recorded, next_seq, next_msg)
          /\ c = replay_record(b, Ack(seq))
      BY <1>1, <1>4, <2>2, <2>3, <3>1
    <3>3. /\ Agrees(c, live', doubtful \cup {live[seq].msg}, recorded, next_seq, next_msg)
          /\ \A t \in DOMAIN c : c[t].msg # live[seq].msg
      BY <1>left, <3>2, AgreesAck
    <3> QED BY <1>1, <1>2, <3>3
  <2>5. CutsAgree(lines', synced, live', doubtful', recorded, next_seq, next_msg)
    BY <1>5, <1>8, <1>9, <1>11, <2>1, <2>3, <2>4, LineTypes, CutsAppend
  <2>6. InCall(doing', c, live', doubtful', next_seq', next_msg')
    <3>1. doing' \in [op : Calls, seq : Nat, entry : Entry]
      BY <1>4, <1>11 DEF Calls
    <3>2. doing'.op = "Ack" /\ doing'.entry = e
      BY <1>11
    <3> QED BY <1>2, <2>4, <3>1, <3>2 DEF InCall
  <2> QED BY <1>2, <1>6, <1>7, <2>1, <2>3, <2>5, <2>6 DEF Inv
<1> QED BY <1>3, <1>10, <1>11

LEMMA SetAttemptsKeeps ==
  ASSUME WriteFailures \subseteq {"Nothing"}, Inv, NEW seq \in DOMAIN live,
         live[seq].attempts < MaxAttempts, set_attempts(seq, live[seq].attempts + 1)
  PROVE  Inv'
<1>1. PICK n, e, r : n = live[seq].attempts + 1 /\ e = live'[seq] /\ r = Attempts(seq, n)
  OBVIOUS
<1>2. /\ open /\ live' = [live EXCEPT ![seq].attempts = n] /\ doubtful' = doubtful
      /\ open' = open /\ next_seq' = next_seq /\ written' = written
      /\ synced' = synced /\ recorded' = recorded /\ next_msg' = next_msg
      /\ write_record(r, [op |-> "Attempts", seq |-> seq, entry |-> e])
  BY <1>1 DEF set_attempts, history
<1>3. \/ /\ lines' = Append(lines, Line(r)) /\ doing' = [op |-> "Attempts", seq |-> seq, entry |-> e]
         /\ failures' = failures
      \/ lines' = lines /\ doing' = Nothing /\ failures' = failures + 1
  BY <1>2, WroteIs DEF write_record, Fails
<1>4. /\ next_seq \in Nat /\ next_msg \in Nat /\ next_seq < next_msg /\ next_msg <= next_msg
      /\ seq \in Nat /\ seq < next_seq /\ seq + 1 < next_msg /\ live[seq] \in Entry
      /\ n \in 0 .. MaxAttempts /\ n \in Nat /\ live[seq].attempts <= n
  <2>1. next_seq \in Nat /\ next_msg \in Nat /\ next_seq < next_msg
    BY StoreAssumption DEF Inv, Numbers
  <2>2. seq \in Nat /\ seq < next_seq /\ live[seq] \in Entry
    BY DEF Inv, LiveOk
  <2>3. live[seq].attempts \in Nat
    BY <2>2, EntryTypes
  <2> QED BY <1>1, <2>1, <2>2, <2>3, StoreAssumption
<1>5. recorded[live[seq].msg] <= n
  <2>1. recorded[live[seq].msg] <= live[seq].attempts /\ live[seq].attempts \in Nat
    BY <1>4, EntryTypes DEF Inv, LiveOk
  <2>2. recorded[live[seq].msg] \in Nat
    BY <1>4, EntryTypes, StoreAssumption DEF Inv, Numbers
  <2> QED BY <1>4, <2>1, <2>2
<1>6. r \in Record /\ r.seq = seq
  BY <1>1, <1>4 DEF Attempts, Record, Calls
<1>7. e \in Entry /\ e.msg = live[seq].msg /\ e.attempts = n
  <2>1. e = [live[seq] EXCEPT !.attempts = n]
    BY <1>1, <1>2
  <2>2. e = [msg |-> live[seq].msg, attempts |-> n]
    BY <1>4, <2>1, EntryTypes
  <2> QED BY <1>4, <2>2, EntryTypes DEF Entry
<1>8. Numbers'
  <2>1. failures' \in Nat
    BY <1>3 DEF Inv, Numbers
  <2> QED BY <1>2, <2>1 DEF Inv, Numbers
<1>9. LiveOk(live', recorded, next_seq, next_msg)
  <2>1. DOMAIN live' = DOMAIN live /\ live'[seq] = e /\ \A s \in DOMAIN live : s # seq => live'[s] = live[s]
    BY <1>1, <1>2
  <2>2. live' = [s \in DOMAIN live' |-> live'[s]]
    BY <1>2, <2>1 DEF Inv, LiveOk
  <2>3. \A s \in DOMAIN live : s \in Nat /\ s < next_seq /\ live[s] \in Entry /\ live[s].msg < next_msg
                               /\ recorded[live[s].msg] <= live[s].attempts
    BY DEF Inv, LiveOk
  <2>4. ASSUME NEW s \in DOMAIN live'
        PROVE  s \in Nat /\ s < next_seq /\ live'[s] \in Entry /\ live'[s].msg < next_msg
               /\ recorded[live'[s].msg] <= live'[s].attempts
    <3>1. CASE s = seq
      BY <1>5, <1>7, <2>1, <2>3, <3>1
    <3>2. CASE s # seq
      BY <2>1, <2>3, <3>2
    <3> QED BY <3>1, <3>2
  <2> QED BY <2>2, <2>4 DEF LiveOk
<1>left. DOMAIN live' = DOMAIN live /\ \A t \in DOMAIN live : live'[t].msg = live[t].msg
  <2>1. DOMAIN live' = DOMAIN live /\ live'[seq] = e /\ \A s \in DOMAIN live : s # seq => live'[s] = live[s]
    BY <1>1, <1>2
  <2> QED BY <1>7, <2>1
<1>10. lines \in Seq(FileLine) /\ synced \in 0 .. Len(lines)
  BY DEF Inv, Journal
<1>11. CutsAgree(lines, synced, live', doubtful, recorded, next_seq, next_msg)
  <2>1. ASSUME NEW k \in synced .. Len(lines)
        PROVE  Agrees(replay(SubSeq(lines, 1, k)), live', doubtful, recorded, next_seq, next_msg)
    <3>1. PICK b : b = replay(SubSeq(lines, 1, k))
      OBVIOUS
    <3>2. Agrees(b, live, doubtful, recorded, next_seq, next_msg)
      BY <3>1 DEF Inv, CutsAgree
    <3>3. Agrees(b, live', doubtful, recorded, next_seq, next_msg)
      BY <1>left, <3>2, AgreesMessages
    <3> QED BY <3>1, <3>3
  <2> QED BY <2>1 DEF CutsAgree
<1>12. CASE lines' = lines /\ doing' = Nothing
  <2>1. Journal'
    BY <1>2, <1>4, <1>12, JournalSame
  <2>2. InCall(doing', replay(lines'), live', doubtful', next_seq', next_msg')
    BY <1>12, InNoCall
  <2> QED BY <1>2, <1>8, <1>9, <1>11, <1>12, <2>1, <2>2 DEF Inv
<1>13. CASE lines' = Append(lines, Line(r)) /\ doing' = [op |-> "Attempts", seq |-> seq, entry |-> e]
  <2>1. Journal' /\ replay(lines') = replay_record(replay(lines), r)
    BY <1>2, <1>4, <1>6, <1>13, JournalAppend
  <2>2. Agrees(replay(lines), live, doubtful, recorded, next_seq, next_msg)
    BY <1>10, CutsLast DEF Inv
  <2>3. PICK b, c : b = replay(lines) /\ c = replay_record(b, r)
    OBVIOUS
  <2>4. Agrees(c, live', doubtful, recorded, next_seq, next_msg) /\ c[seq].attempts = n
    <3>1. /\ next_seq \in Nat /\ n \in 0 .. MaxAttempts /\ recorded[live[seq].msg] <= n
          /\ c = replay_record(b, Attempts(seq, n))
          /\ Agrees(b, live, doubtful, recorded, next_seq, next_msg)
      BY <1>1, <1>4, <1>5, <2>2, <2>3
    <3>2. Agrees(c, live, doubtful, recorded, next_seq, next_msg) /\ c[seq].attempts = n
      BY <3>1, AgreesAttempts
    <3> QED BY <1>left, <3>2, AgreesMessages
  <2>5. CutsAgree(lines', synced, live', doubtful, recorded, next_seq, next_msg)
    BY <1>6, <1>10, <1>11, <1>13, <2>1, <2>3, <2>4, LineTypes, CutsAppend
  <2>6. InCall(doing', c, live', doubtful', next_seq', next_msg')
    <3>1. doing' \in [op : Calls, seq : Nat, entry : Entry]
      BY <1>4, <1>7, <1>13 DEF Calls
    <3>2. doing'.op = "Attempts" /\ doing'.entry = e /\ doing'.seq = seq
      BY <1>13
    <3>3. seq \in DOMAIN live' /\ live'[seq] = e
      BY <1>1, <1>2
    <3> QED BY <1>7, <2>4, <3>1, <3>2, <3>3 DEF InCall
  <2> QED BY <1>2, <1>8, <1>9, <2>1, <2>3, <2>5, <2>6 DEF Inv
<1> QED BY <1>3, <1>12, <1>13

(* What Inv says of the numbers, in one place for the steps below.          *)
LEMMA InvNumbers ==
  ASSUME Inv
  PROVE  /\ open \in BOOLEAN /\ next_seq \in Nat /\ next_msg \in Nat /\ next_msg >= 1 /\ next_seq < next_msg
         /\ written \in Nat /\ failures \in Nat /\ doubtful \subseteq Messages
         /\ recorded \in [Messages -> 0 .. MaxAttempts]
         /\ lines \in Seq(FileLine) /\ synced \in 0 .. Len(lines) /\ Len(lines) \in 0 .. Len(lines)
         /\ Agrees(replay(lines), live, doubtful, recorded, next_seq, next_msg)
         /\ doing \in {Nothing, [op |-> "Rewrite"]} \cup [op : Calls, seq : Nat, entry : Entry]
<1>1. lines \in Seq(FileLine) /\ synced \in 0 .. Len(lines)
  BY DEF Inv, Journal
<1>2. Len(lines) \in 0 .. Len(lines)
  BY <1>1
<1>3. Agrees(replay(lines), live, doubtful, recorded, next_seq, next_msg)
  BY <1>1, CutsLast DEF Inv
<1>4. next_msg \in Nat /\ next_msg >= 1
  BY StoreAssumption DEF Inv, Numbers
<1> QED BY <1>1, <1>2, <1>3, <1>4 DEF Inv, Numbers, InCall

LEMMA CallTypes ==
  ASSUME Inv, doing.op \in Calls
  PROVE  doing.seq \in Nat /\ doing.entry \in Entry
<1>1. Nothing.op \notin Calls /\ [op |-> "Rewrite"].op \notin Calls
  BY DEF Nothing, Calls
<1>2. doing \in [op : Calls, seq : Nat, entry : Entry]
  BY <1>1, InvNumbers
<1> QED BY <1>2

LEMMA PushedKeeps ==
  ASSUME Inv, Pushed
  PROVE  Inv'
<1>1. /\ open /\ doing.op = "Push" /\ written' = written + 1 /\ synced' = Len(lines)
      /\ next_seq' = next_seq + 1 /\ doubtful' = doubtful \ {doing.entry.msg} /\ doing' = Nothing
      /\ live' = [s \in DOMAIN live \cup {doing.seq} |-> IF s = doing.seq THEN doing.entry ELSE live[s]]
      /\ open' = open /\ lines' = lines /\ next_msg' = next_msg /\ recorded' = recorded /\ failures' = failures
  BY DEF Pushed, append
<1>2. PICK b, e : b = replay(lines) /\ e = doing.entry
  OBVIOUS
<1>3. doing.seq = next_seq /\ next_seq + 1 < next_msg /\ next_seq \in DOMAIN b /\ b[next_seq] = e
  BY <1>1, <1>2 DEF Inv, InCall
<1>4. Agrees(b, live, doubtful, recorded, next_seq, next_msg) /\ next_seq \in Nat /\ next_msg \in Nat
  BY <1>2, InvNumbers
<1>5. Numbers'
  BY <1>1, <1>3, <1>4 DEF Inv, Numbers
<1>6. live' = [s \in DOMAIN live \cup {next_seq} |-> IF s = next_seq THEN b[next_seq] ELSE live[s]]
  BY <1>1, <1>2, <1>3
<1>7. Agrees(b, live', doubtful', recorded, next_seq + 1, next_msg)
  <2>1. Agrees(b, live', doubtful \ {b[next_seq].msg}, recorded, next_seq + 1, next_msg)
    BY <1>3, <1>4, <1>6, AgreesPushed
  <2> QED BY <1>1, <1>2, <1>3, <2>1
<1>8. LiveOk(live', recorded, next_seq + 1, next_msg)
  <2>1. /\ DOMAIN live' = DOMAIN live \cup {next_seq} /\ live'[next_seq] = b[next_seq]
        /\ \A s \in DOMAIN live : s # next_seq => live'[s] = live[s]
        /\ live' = [s \in DOMAIN live' |-> live'[s]]
    BY <1>6
  <2>2. \A s \in DOMAIN live : s \in Nat /\ s < next_seq + 1 /\ s # next_seq
    BY <1>4 DEF Inv, LiveOk
  <2>3. /\ b[next_seq] \in Entry /\ b[next_seq].msg < next_msg
        /\ recorded[b[next_seq].msg] <= b[next_seq].attempts /\ next_seq < next_seq + 1
    BY <1>3, <1>4 DEF Agrees
  <2> QED BY <1>4, <2>1, <2>2, <2>3 DEF Inv, LiveOk
<1>9. Journal'
  BY <1>1, <1>4, JournalSame
<1>10. CutsAgree(lines', synced', live', doubtful', recorded', next_seq', next_msg')
  BY <1>1, <1>2, <1>7, CutsWhole, InvNumbers
<1>11. InCall(doing', replay(lines'), live', doubtful', next_seq', next_msg')
  BY <1>1, InNoCall
<1> QED BY <1>1, <1>5, <1>8, <1>9, <1>10, <1>11 DEF Inv

LEMMA AckedKeeps ==
  ASSUME Inv, Acked
  PROVE  Inv'
<1>1. /\ open /\ doing.op = "Ack" /\ written' = written + 1 /\ synced' = Len(lines)
      /\ doubtful' = doubtful \ {doing.entry.msg} /\ doing' \in {Nothing, [op |-> "Rewrite"]}
      /\ open' = open /\ live' = live /\ next_seq' = next_seq /\ lines' = lines /\ next_msg' = next_msg
      /\ recorded' = recorded /\ failures' = failures
  BY DEF Acked, append
<1>2. PICK b, m : b = replay(lines) /\ m = doing.entry.msg
  OBVIOUS
<1>3. \A s \in DOMAIN b : b[s].msg # m
  BY <1>1, <1>2 DEF Inv, InCall
<1>4. Agrees(b, live, doubtful, recorded, next_seq, next_msg) /\ next_msg \in Nat /\ next_msg <= next_msg
  BY <1>2, InvNumbers
<1>5. Numbers'
  BY <1>1 DEF Inv, Numbers
<1>6. Agrees(b, live, doubtful', recorded, next_seq, next_msg)
  BY <1>1, <1>2, <1>3, <1>4, AgreesAcked
<1>7. Journal'
  BY <1>1, <1>4, JournalSame
<1>8. CutsAgree(lines', synced', live', doubtful', recorded', next_seq', next_msg')
  BY <1>1, <1>2, <1>6, CutsWhole, InvNumbers
<1>9. InCall(doing', replay(lines'), live', doubtful', next_seq', next_msg')
  BY <1>1, InNoCall
<1> QED BY <1>1, <1>5, <1>7, <1>8, <1>9 DEF Inv

LEMMA AttemptsSetKeeps ==
  ASSUME Inv, AttemptsSet
  PROVE  Inv'
<1>1. /\ open /\ doing.op = "Attempts" /\ written' = written + 1 /\ synced' = Len(lines)
      /\ recorded' = [recorded EXCEPT ![doing.entry.msg] = doing.entry.attempts]
      /\ doing' \in {Nothing, [op |-> "Rewrite"]}
      /\ open' = open /\ live' = live /\ next_seq' = next_seq /\ lines' = lines /\ next_msg' = next_msg
      /\ doubtful' = doubtful /\ failures' = failures
  BY DEF AttemptsSet, append
<1>2. PICK b, s, e : b = replay(lines) /\ s = doing.seq /\ e = doing.entry
  OBVIOUS
<1>3. s \in DOMAIN live /\ live[s] = e /\ b[s].attempts = e.attempts
  BY <1>1, <1>2 DEF Inv, InCall
<1>4. /\ Agrees(b, live, doubtful, recorded, next_seq, next_msg)
      /\ next_msg \in Nat /\ next_msg <= next_msg /\ next_seq \in Nat
      /\ recorded \in [Messages -> 0 .. MaxAttempts]
  BY <1>2, InvNumbers
<1>5. e \in Entry /\ e.msg < next_msg /\ e.msg \in Messages /\ e.msg \in Nat /\ e.attempts \in 0 .. MaxAttempts
  BY <1>3, EntryTypes DEF Inv, LiveOk
<1>6. recorded' = [recorded EXCEPT ![e.msg] = e.attempts]
  BY <1>1, <1>2
<1>7. recorded'[e.msg] = e.attempts /\ \A m \in Messages : m # e.msg => recorded'[m] = recorded[m]
  BY <1>4, <1>5, <1>6
<1>8. Numbers'
  <2>1. recorded' \in [Messages -> 0 .. MaxAttempts]
    BY <1>4, <1>5, <1>6
  <2>2. \A m \in Messages : m >= next_msg => m # e.msg
    BY <1>4, <1>5 DEF Messages
  <2>3. \A m \in Messages : m >= next_msg => recorded'[m] = 0
    BY <1>7, <2>2 DEF Inv, Numbers
  <2> QED BY <1>1, <2>1, <2>3 DEF Inv, Numbers
<1>9. Agrees(b, live, doubtful, recorded', next_seq, next_msg)
  <2>1. recorded' = [recorded EXCEPT ![live[s].msg] = b[s].attempts]
    BY <1>3, <1>6
  <2> QED BY <1>3, <1>4, <2>1, AgreesRecorded
<1>10. LiveOk(live, recorded', next_seq, next_msg)
  <2>1. \A t \in DOMAIN live : live[t] \in Entry /\ live[t].msg \in Messages /\ live[t].attempts \in Nat
                               /\ recorded[live[t].msg] <= live[t].attempts
    BY EntryTypes DEF Inv, LiveOk
  <2>2. ASSUME NEW t \in DOMAIN live
        PROVE  recorded'[live[t].msg] <= live[t].attempts
    <3>1. CASE live[t].msg # e.msg
      BY <1>7, <2>1, <3>1
    <3>2. CASE live[t].msg = e.msg
      <4>1. \A u \in DOMAIN live : u \in DOMAIN b /\ b[u].msg = live[u].msg
        BY <1>4 DEF Agrees
      <4>2. t \in DOMAIN b /\ s \in DOMAIN b /\ b[t].msg = b[s].msg
        BY <1>3, <3>2, <4>1
      <4>3. t = s
        BY <1>4, <4>2, AgreesOnce
      <4> QED BY <1>3, <1>5, <1>7, <2>1, <4>3
    <3> QED BY <3>1, <3>2
  <2> QED BY <2>2 DEF Inv, LiveOk
<1>11. Journal'
  BY <1>1, <1>4, JournalSame
<1>12. CutsAgree(lines', synced', live', doubtful', recorded', next_seq', next_msg')
  BY <1>1, <1>2, <1>9, CutsWhole, InvNumbers
<1>13. InCall(doing', replay(lines'), live', doubtful', next_seq', next_msg')
  BY <1>1, InNoCall
<1> QED BY <1>1, <1>8, <1>10, <1>11, <1>12, <1>13 DEF Inv

(* compact, SyncFails, a failed rewrite: only the call in progress changes. *)
LEMMA CallEndsKeeps ==
  ASSUME Inv, open, failures' \in Nat, doing' \in {Nothing, [op |-> "Rewrite"]},
         UNCHANGED <<open, live, next_seq, written, lines, synced, next_msg, doubtful, recorded>>
  PROVE  Inv'
<1>1. Numbers'
  BY DEF Inv, Numbers
<1>2. Journal'
  <2>1. next_msg' \in Nat /\ next_msg <= next_msg'
    BY InvNumbers
  <2> QED BY <2>1, JournalSame
<1>3. InCall(doing', replay(lines'), live', doubtful', next_seq', next_msg')
  BY InNoCall
<1> QED BY <1>1, <1>2, <1>3 DEF Inv

(* A rewrite of the live entries, or of what open has read.                 *)
LEMMA SwapKeeps ==
  ASSUME Inv, NEW e, swap(e), next_seq' \in Nat, next_msg' = next_msg, next_seq' < next_msg,
         recorded' = recorded, doubtful' \subseteq Messages, doing' = Nothing, open' \in BOOLEAN, failures' \in Nat,
         LiveOk(live', recorded, next_seq', next_msg),
         Agrees(e, live', doubtful', recorded, next_seq', next_msg),
         \A s \in DOMAIN e : s + 1 < next_msg
  PROVE  Inv' /\ Len(lines') = Cardinality(DOMAIN e) /\ Cardinality(DOMAIN e) \in Nat
<1>1. lines' = image(e) /\ synced' = Cardinality(DOMAIN e) /\ written' = Cardinality(DOMAIN e)
  BY DEF swap
<1>2. e = [s \in DOMAIN e |-> e[s]] /\ DOMAIN e \subseteq 0 .. next_seq' /\ \A s \in DOMAIN e : e[s] \in Entry
  BY DEF Agrees
<1>3. PICK b \in Nat : b = next_seq'
  OBVIOUS
<1>4. DOMAIN e \subseteq 0 .. b
  BY <1>2, <1>3
<1>5. PICK im, n : im = image(e) /\ n = Cardinality(DOMAIN e)
  OBVIOUS
<1>6. /\ n \in Nat /\ im \in Seq(FileLine) /\ Len(im) = n /\ Clean(im)
      /\ \A i \in 1 .. Len(im) : im[i].ended /\ im[i].record.seq \in DOMAIN e
      /\ replay(im) = e
  BY <1>2, <1>4, <1>5, ImageIs
<1>7. lines' = im /\ synced' = n /\ written' = n
  BY <1>1, <1>5
<1>8. Numbers'
  BY <1>6, <1>7 DEF Inv, Numbers
<1>9. Journal'
  <2>1. Clean(lines)'
    BY <1>6, <1>7 DEF Clean
  <2>2. synced' \in 0 .. Len(lines') /\ synced' = Len(lines')
    BY <1>6, <1>7
  <2> QED BY <1>6, <1>7, <2>1, <2>2 DEF Journal
<1>10. CutsAgree(lines', synced', live', doubtful', recorded', next_seq', next_msg')
  BY <1>6, <1>7, CutsWhole
<1>11. InCall(doing', replay(lines'), live', doubtful', next_seq', next_msg')
  BY InNoCall
<1>12. LiveOk(live, recorded, next_seq, next_msg)'
  BY DEF LiveOk
<1> QED BY <1>5, <1>6, <1>7, <1>8, <1>9, <1>10, <1>11, <1>12 DEF Inv

LEMMA RewriteKeeps ==
  ASSUME Inv, rewrite
  PROVE  /\ Inv'
         /\ \/ Len(lines') = Cardinality(DOMAIN live') /\ written' = Len(lines')
            \/ failures' = failures + 1
<1>1. open /\ doing' = Nothing /\ UNCHANGED <<open, live, next_seq, next_msg, doubtful, recorded>>
  BY DEF rewrite, history
<1>2. CASE Fails /\ UNCHANGED <<lines, synced, written>>
  <2>1. failures' = failures + 1 /\ failures' \in Nat
    BY <1>2, InvNumbers DEF Fails
  <2> QED BY <1>1, <1>2, <2>1, CallEndsKeeps
<1>3. CASE swap(live) /\ UNCHANGED failures
  <2>1. \A s \in DOMAIN live : s + 1 < next_msg
    BY InvNumbers DEF Inv, LiveOk
  <2>2. Agrees(live, live, doubtful, recorded, next_seq, next_msg)
    BY InvNumbers, AgreesLive DEF Inv
  <2>3. LiveOk(live, recorded, next_seq, next_msg)
    BY DEF Inv
  <2>4. /\ next_seq' \in Nat /\ next_msg' = next_msg /\ next_seq' < next_msg /\ recorded' = recorded
        /\ doubtful' \subseteq Messages /\ doing' = Nothing /\ open' \in BOOLEAN /\ failures' \in Nat
        /\ LiveOk(live', recorded, next_seq', next_msg)
        /\ Agrees(live, live', doubtful', recorded, next_seq', next_msg)
    BY <1>1, <1>3, <2>2, <2>3, InvNumbers
  <2>5. Inv' /\ Len(lines') = Cardinality(DOMAIN live)
    BY <1>3, <2>1, <2>4, SwapKeeps
  <2> QED BY <1>1, <1>3, <2>5 DEF swap
<1> QED BY <1>2, <1>3 DEF rewrite

LEMMA CrashKeeps ==
  ASSUME Inv, Crash
  PROVE  Inv'
<1>1. /\ open /\ open' = FALSE /\ doing' = Nothing /\ synced' = Len(lines') /\ lines' \in AfterCrash
      /\ UNCHANGED <<live, next_seq, written, next_msg, doubtful, recorded, failures>>
  BY DEF Crash
<1>2. /\ lines' \in Seq(FileLine)
      /\ \A i \in 1 .. Len(lines') : lines'[i].record # Garbage => lines'[i].record.seq + 1 < next_msg
      /\ Agrees(replay(lines'), live, doubtful, recorded, next_seq, next_msg)
  BY <1>1, CrashAgrees
<1>3. Numbers'
  BY <1>1 DEF Inv, Numbers
<1>4. Journal'
  <2>1. synced' \in 0 .. Len(lines')
    BY <1>1, <1>2
  <2> QED BY <1>1, <1>2, <2>1 DEF Journal
<1>5. CutsAgree(lines', synced', live', doubtful', recorded', next_seq', next_msg')
  BY <1>1, <1>2, CutsWhole
<1>6. InCall(doing', replay(lines'), live', doubtful', next_seq', next_msg')
  BY <1>1, InNoCall
<1> QED BY <1>1, <1>3, <1>4, <1>5, <1>6 DEF Inv

(* The number open starts from is above every one in the file.              *)
LEMMA NextSeqIs ==
  ASSUME Inv
  PROVE  /\ replay_next_seq(lines) \in Nat /\ replay_next_seq(lines) < next_msg
         /\ \A s \in DOMAIN replay(lines) : s \in Nat /\ s < replay_next_seq(lines) /\ s + 1 < next_msg
<1>1. PICK rs : rs = records(lines)
  OBVIOUS
<1>2. lines \in Seq(FileLine) /\ next_msg \in Nat /\ next_msg >= 1
  BY InvNumbers
<1>3. PICK n \in 0 .. Len(lines) :
        /\ rs = [i \in 1 .. n |-> lines[i].record]
        /\ rs \in Seq(Record) /\ Len(rs) = n
        /\ \A i \in 1 .. n : lines[i].record # Garbage
  BY <1>1, <1>2, RecordsAre
<1>4. DOMAIN rs = 1 .. n /\ \A i \in 1 .. n : rs[i].seq \in Nat /\ rs[i].seq + 1 < next_msg
  <2>1. \A i \in 1 .. n : i \in 1 .. Len(lines)
    BY <1>2
  <2>2. \A i \in 1 .. n : rs[i] = lines[i].record /\ rs[i] \in Record
    BY <1>3
  <2> QED BY <1>3, <2>1, <2>2, RecordTypes DEF Inv, Journal
<1>5. PICK S : S = {0} \cup {rs[i].seq + 1 : i \in DOMAIN rs}
  OBVIOUS
<1>6. \A x \in S : x \in Nat /\ x <= next_msg - 1 /\ x < next_msg
  BY <1>2, <1>4, <1>5
<1>7. next_msg - 1 \in Nat
  BY <1>2
<1>8. Max(S) \in S /\ \A y \in S : Max(S) >= y
  <2>1. S \subseteq Nat /\ S # {} /\ \A x \in S : x <= next_msg - 1
    BY <1>5, <1>6
  <2> QED BY <1>7, <2>1, MaxIs
<1>9. replay_next_seq(lines) = Max(S)
  BY <1>1, <1>5 DEF replay_next_seq
<1>10. ASSUME NEW s \in DOMAIN replay(lines)
       PROVE  s \in Nat /\ s < Max(S) /\ s + 1 < next_msg
  <2>1. PICK i \in DOMAIN rs : rs[i].seq = s
    BY <1>1, <1>2, ReplaySeqs
  <2>2. s \in Nat /\ s + 1 < next_msg /\ s + 1 \in S
    BY <1>4, <1>5, <2>1
  <2>3. Max(S) >= s + 1 /\ Max(S) \in Nat
    BY <1>6, <1>8, <2>2
  <2> QED BY <2>2, <2>3
<1> QED BY <1>6, <1>8, <1>9, <1>10

LEMMA OpenKeeps ==
  ASSUME Inv, Open
  PROVE  /\ Inv'
         /\ open' => Len(lines') = Cardinality(DOMAIN live') /\ written' = Len(lines')
<1>1. ~open /\ UNCHANGED <<doing, next_msg, recorded>> /\ doing' = Nothing
  BY DEF Open, Inv, Journal
<1>2. PICK b : b = replay(lines)
  OBVIOUS
<1>3. /\ Agrees(b, live, doubtful, recorded, next_seq, next_msg)
      /\ next_seq \in Nat /\ next_msg \in Nat /\ next_seq < next_msg /\ failures \in Nat /\ doubtful \subseteq Messages
  BY <1>2, InvNumbers
<1>4. /\ replay_next_seq(lines) \in Nat /\ replay_next_seq(lines) < next_msg
      /\ \A s \in DOMAIN b : s \in Nat /\ s < replay_next_seq(lines) /\ s + 1 < next_msg
  BY <1>2, NextSeqIs
<1>5. CASE /\ open' = TRUE /\ live' = replay(lines) /\ next_seq' = replay_next_seq(lines)
           /\ swap(replay(lines)) /\ doubtful' = {} /\ UNCHANGED failures
  <2>1. live' = b /\ next_seq' \in Nat /\ next_seq' < next_msg /\ \A s \in DOMAIN b : s \in Nat /\ s < next_seq'
    BY <1>2, <1>4, <1>5
  <2>2. Agrees(b, b, {}, recorded, next_seq', next_msg) /\ LiveOk(b, recorded, next_seq', next_msg)
    BY <1>3, <2>1, AgreesOpen
  <2>3. /\ Agrees(b, live', doubtful', recorded, next_seq', next_msg) /\ LiveOk(live', recorded, next_seq', next_msg)
        /\ swap(b) /\ doubtful' \subseteq Messages /\ open' \in BOOLEAN /\ failures' \in Nat
        /\ next_msg' = next_msg /\ recorded' = recorded
    BY <1>1, <1>2, <1>3, <1>5, <2>1, <2>2
  <2>4. Inv' /\ Len(lines') = Cardinality(DOMAIN b)
    BY <1>1, <1>4, <2>1, <2>3, SwapKeeps
  <2> QED BY <2>1, <2>3, <2>4 DEF swap
<1>6. CASE /\ Fails /\ UNCHANGED <<open, live, next_seq, doubtful>>
           /\ UNCHANGED <<lines, synced, written>> \/ swap(replay(lines))
  <2>1. failures' \in Nat
    BY <1>3, <1>6 DEF Fails
  <2>2. CASE UNCHANGED <<lines, synced, written>>
    <3>1. Numbers'
      BY <1>1, <1>6, <2>1, <2>2 DEF Inv, Numbers
    <3>2. Journal'
      BY <1>1, <1>6, <2>2 DEF Inv, Journal
    <3>3. InCall(doing', replay(lines'), live', doubtful', next_seq', next_msg')
      BY <1>1, InNoCall
    <3>4. open' = FALSE \/ ~open'
      BY <1>1, <1>6
    <3> QED BY <1>1, <1>6, <2>2, <3>1, <3>2, <3>3, <3>4 DEF Inv
  <2>3. CASE swap(replay(lines))
    <3>1. /\ swap(b) /\ next_seq' \in Nat /\ next_msg' = next_msg /\ next_seq' < next_msg /\ recorded' = recorded
          /\ doubtful' \subseteq Messages /\ open' \in BOOLEAN
          /\ Agrees(b, live', doubtful', recorded, next_seq', next_msg)
      BY <1>1, <1>2, <1>3, <1>6, <2>3, InvNumbers
    <3>2. LiveOk(live', recorded, next_seq', next_msg)
      BY <1>1, <1>6 DEF Inv
    <3>3. Inv'
      BY <1>1, <1>4, <2>1, <3>1, <3>2, SwapKeeps
    <3>4. ~open'
      BY <1>1, <1>6
    <3> QED BY <3>3, <3>4
  <2> QED BY <1>6, <2>2, <2>3
<1> QED BY <1>5, <1>6 DEF Open

LEMMA InitInv ==
  ASSUME Init
  PROVE  Inv
<1>1. /\ open = TRUE /\ live = Empty /\ next_seq = 0 /\ written = 0 /\ lines = <<>> /\ synced = 0
      /\ doing = Nothing /\ next_msg = 1 /\ doubtful = {} /\ recorded = [m \in Messages |-> 0] /\ failures = 0
  BY DEF Init
<1>2. lines \in Seq(FileLine) /\ Len(lines) = 0 /\ Clean(lines) /\ synced \in 0 .. Len(lines)
  BY <1>1 DEF Clean
<1>3. DOMAIN live = {} /\ live = [s \in DOMAIN live |-> live[s]]
  BY <1>1 DEF Empty
<1>4. Numbers
  BY <1>1, StoreAssumption DEF Numbers
<1>5. LiveOk(live, recorded, next_seq, next_msg)
  BY <1>3 DEF LiveOk
<1>6. Journal
  BY <1>1, <1>2 DEF Journal
<1>7. replay(lines) = Empty
  <2>1. PICK rs : rs = records(lines) /\ Len(rs) = 0
    BY <1>2, RecordsOfClean
  <2>2. PICK f : Turns(rs, f, 0) /\ replay(lines) = f[0]
    <3>1. \E f : Turns(rs, f, Len(rs)) /\ replay(lines) = f[Len(rs)]
      BY <2>1, ReplayIs
    <3> QED BY <2>1, <3>1
  <2> QED BY <2>2, TurnsStep
<1>8. Agrees(live, live, doubtful, recorded, next_seq, next_msg)
  BY <1>3 DEF Agrees
<1>9. CutsAgree(lines, synced, live, doubtful, recorded, next_seq, next_msg)
  BY <1>1, <1>2, <1>7, <1>8, CutsWhole
<1>10. InCall(doing, replay(lines), live, doubtful, next_seq, next_msg)
  BY <1>1, InNoCall
<1> QED BY <1>4, <1>5, <1>6, <1>9, <1>10 DEF Inv

LEMMA NextInv ==
  ASSUME WriteFailures \subseteq {"Nothing"}, Inv, [Next]_vars
  PROVE  Inv'
<1>1. CASE push
  BY <1>1, PushKeeps
<1>2. CASE \E s \in DOMAIN live :
             ack(s) \/ (live[s].attempts < MaxAttempts /\ set_attempts(s, live[s].attempts + 1))
  BY <1>2, AckKeeps, SetAttemptsKeeps
<1>3. CASE Pushed
  BY <1>3, PushedKeeps
<1>4. CASE Acked
  BY <1>4, AckedKeeps
<1>5. CASE AttemptsSet
  BY <1>5, AttemptsSetKeeps
<1>6. CASE SyncFails
  <2>1. /\ open /\ doing' \in {Nothing, [op |-> "Rewrite"]} /\ failures' = failures + 1
        /\ UNCHANGED <<open, live, next_seq, written, lines, synced, next_msg, doubtful, recorded>>
    BY <1>6 DEF SyncFails, Fails, history
  <2>2. failures' \in Nat
    BY <2>1, InvNumbers
  <2> QED BY <2>1, <2>2, CallEndsKeeps
<1>7. CASE compact
  <2>1. /\ open /\ doing' \in {Nothing, [op |-> "Rewrite"]} /\ failures' = failures
        /\ UNCHANGED <<open, live, next_seq, written, lines, synced, next_msg, doubtful, recorded>>
    BY <1>7 DEF compact, history
  <2>2. failures' \in Nat
    BY <2>1, InvNumbers
  <2> QED BY <2>1, <2>2, CallEndsKeeps
<1>8. CASE rewrite
  BY <1>8, RewriteKeeps
<1>9. CASE Crash
  BY <1>9, CrashKeeps
<1>10. CASE Open
  BY <1>10, OpenKeeps
<1>11. CASE Refused \/ UNCHANGED vars
  <2>1. UNCHANGED vars
    BY <1>11 DEF Refused
  <2> QED BY <2>1 DEF vars, Inv, Numbers, LiveOk, Journal, Clean, CutsAgree, InCall
<1> QED BY <1>1, <1>2, <1>3, <1>4, <1>5, <1>6, <1>7, <1>8, <1>9, <1>10, <1>11 DEF Next

LEMMA InvHolds ==
  ASSUME WriteFailures \subseteq {"Nothing"}
  PROVE  Spec => []Inv
<1>1. Init => Inv
  BY InitInv
<1>2. Inv /\ [Next]_vars => Inv'
  BY NextInv
<1> QED BY <1>1, <1>2, PTL DEF Spec

(* What a file replays to is a queue again, wherever FileStore crashed: the *)
(* store's state keeps its types.                                           *)
THEOREM StoreTypes ==
  ASSUME WriteFailures \subseteq {"Nothing"}
  PROVE  Spec => []TypeOK
<1>1. ASSUME Inv PROVE TypeOK
  <2>1. next_seq \in 0 .. MaxMessages
    BY <1>1, StoreAssumption DEF Inv, Numbers
  <2>2. \A s \in DOMAIN live : s \in 0 .. MaxMessages /\ live[s] \in [msg : Messages, attempts : 0 .. MaxAttempts]
    <3>1. \A s \in DOMAIN live : s \in Nat /\ s < next_seq /\ live[s] \in Entry
      BY <1>1 DEF Inv, LiveOk
    <3> QED BY <2>1, <3>1, StoreAssumption DEF Entry
  <2>3. open \in BOOLEAN /\ written \in Nat /\ synced \in 0 .. Len(lines) /\ doubtful \subseteq Messages
        /\ recorded \in [Messages -> 0 .. MaxAttempts]
    BY <1>1 DEF Inv, Numbers, Journal
  <2> QED BY <2>1, <2>2, <2>3 DEF TypeOK
<1>2. Inv => TypeOK
  BY <1>1
<1> QED BY <1>2, InvHolds, PTL

(* Whatever a crash leaves of the journal, an attempt that set_attempts has *)
(* returned Ok for is read back: AttemptsKept, for every number of messages *)
(* and attempts, and any crash.                                             *)
THEOREM StoreAttemptsKept ==
  ASSUME WriteFailures \subseteq {"Nothing"}
  PROVE  Spec => []AttemptsKept
<1>1. ASSUME Inv, NEW file \in AfterCrash, NEW s \in DOMAIN replay(file)
      PROVE  replay(file)[s].attempts >= recorded[replay(file)[s].msg]
  <2>1. PICK b : b = replay(file)
    OBVIOUS
  <2>2. Agrees(b, live, doubtful, recorded, next_seq, next_msg)
    BY <1>1, <2>1, CrashAgrees
  <2>3. b[s] \in Entry /\ recorded[b[s].msg] <= b[s].attempts
    BY <1>1, <2>1, <2>2 DEF Agrees
  <2>4. b[s].attempts \in Nat /\ recorded[b[s].msg] \in Nat
    BY <1>1, <2>3, EntryTypes, InvNumbers, StoreAssumption
  <2> QED BY <2>1, <2>3, <2>4
<1>2. Inv => AttemptsKept
  BY <1>1 DEF AttemptsKept
<1> QED BY <1>2, InvHolds, PTL

(* pending gives the messages in the order they were pushed, over crashes   *)
(* and compactions that forget the numbers given before: OldestFirst.       *)
THEOREM StoreOldestFirst ==
  ASSUME WriteFailures \subseteq {"Nothing"}
  PROVE  Spec => []OldestFirst
<1>1. Inv => OldestFirst
  <2> SUFFICES ASSUME Inv PROVE OldestFirst
    OBVIOUS
  <2>1. PICK b : b = replay(lines)
    OBVIOUS
  <2>2. Agrees(b, live, doubtful, recorded, next_seq, next_msg)
    BY <2>1, InvNumbers
  <2> QED BY <2>2 DEF Agrees, OldestFirst
<1> QED BY <1>1, InvHolds, PTL

-----------------------------------------------------------------------------
(* The journal's length.                                                    *)

Bound == CompactFloor + CompactRatio * Cardinality(DOMAIN live)

Lengths ==
  open /\ failures = 0 =>
    /\ written = IF doing.op \in Calls THEN Len(lines) - 1 ELSE Len(lines)
    /\ doing = Nothing => Len(lines) <= Bound
    /\ doing.op = "Push" => Len(lines) - 1 <= Bound

LEMMA LiveFinite ==
  ASSUME Inv
  PROVE  IsFiniteSet(DOMAIN live) /\ Cardinality(DOMAIN live) \in Nat
<1>1. next_seq \in Nat /\ DOMAIN live \subseteq 0 .. next_seq
  BY InvNumbers DEF Inv, LiveOk
<1>2. IsFiniteSet(0 .. next_seq)
  BY <1>1, FS_Interval
<1> QED BY <1>1, <1>2, FS_Subset, FS_CardinalityType

LEMMA OpsDiffer ==
  /\ Nothing.op = "None" /\ Nothing.op \notin Calls /\ [op |-> "Rewrite"].op \notin Calls
  /\ [op |-> "Rewrite"].op = "Rewrite" /\ "Rewrite" # "Push" /\ "None" # "Push" /\ [op |-> "Rewrite"] # Nothing
BY DEF Nothing, Calls

(* A whole line is one longer, and the call it is of is in progress.        *)
LEMMA WriteLengths ==
  ASSUME Inv, Lengths, open, doing = Nothing, failures' = 0, NEW r,
         lines' = Append(lines, Line(r)), written' = written, doing'.op \in Calls,
         doing'.op = "Push" => live' = live, failures = 0
  PROVE  Lengths'
<1>1. written = Len(lines) /\ Len(lines) <= Bound /\ lines \in Seq(FileLine)
  BY OpsDiffer, InvNumbers DEF Lengths
<1>2. Len(lines') = Len(lines) + 1 /\ Len(lines) \in Nat
  BY <1>1
<1>3. doing' # Nothing
  BY OpsDiffer
<1>4. doing'.op = "Push" => Bound' = Bound
  BY DEF Bound
<1>5. Len(lines') - 1 = Len(lines)
  BY <1>2
<1> QED BY <1>1, <1>2, <1>3, <1>4, <1>5 DEF Lengths

LEMMA Product ==
  ASSUME NEW r \in Nat, r >= 1, NEW c \in Nat
  PROVE  c <= r * c /\ r * c \in Nat /\ r * (c + 1) = r * c + r
OBVIOUS

LEMMA LengthsNext ==
  ASSUME WriteFailures \subseteq {"Nothing"}, CompactRatio >= 1, Inv, Lengths, [Next]_vars
  PROVE  Lengths'
<1> SUFFICES ASSUME open', failures' = 0
             PROVE  Lengths'
  BY DEF Lengths
<1>1. /\ lines \in Seq(FileLine) /\ Len(lines) \in Nat /\ written \in Nat /\ failures \in Nat
      /\ Cardinality(DOMAIN live) \in Nat
  BY InvNumbers, LiveFinite
<1>2. failures' # failures + 1
  BY <1>1
<1>3. CASE push
  <2>1. PICK e, r : e = [msg |-> next_msg, attempts |-> 0] /\ r = Push(next_seq, e)
    OBVIOUS
  <2>2. open /\ doing = Nothing /\ live' = live /\ written' = written
        /\ write_record(r, [op |-> "Push", seq |-> next_seq, entry |-> e])
    BY <1>3, <2>1 DEF push
  <2>3. lines' = Append(lines, Line(r)) /\ doing' = [op |-> "Push", seq |-> next_seq, entry |-> e] /\ failures' = failures
    BY <1>2, <2>2, WroteIs DEF write_record, Fails
  <2>4. doing'.op \in Calls
    BY <2>3 DEF Calls
  <2> QED BY <2>2, <2>3, <2>4, WriteLengths
<1>4. CASE \E s \in DOMAIN live : ack(s)
  <2>1. PICK s \in DOMAIN live : ack(s)
    BY <1>4
  <2>2. open /\ doing = Nothing /\ written' = written
        /\ write_record(Ack(s), [op |-> "Ack", seq |-> s, entry |-> live[s]])
    BY <2>1 DEF ack
  <2>3. lines' = Append(lines, Line(Ack(s))) /\ doing' = [op |-> "Ack", seq |-> s, entry |-> live[s]] /\ failures' = failures
    BY <1>2, <2>2, WroteIs DEF write_record, Fails
  <2>4. doing'.op \in Calls /\ doing'.op # "Push"
    BY <2>3 DEF Calls
  <2> QED BY <2>2, <2>3, <2>4, WriteLengths
<1>5. CASE \E s \in DOMAIN live : live[s].attempts < MaxAttempts /\ set_attempts(s, live[s].attempts + 1)
  <2>1. PICK s \in DOMAIN live : set_attempts(s, live[s].attempts + 1)
    BY <1>5
  <2>2. PICK r, e : r = Attempts(s, live[s].attempts + 1) /\ e = live'[s]
    OBVIOUS
  <2>3. open /\ doing = Nothing /\ written' = written
        /\ write_record(r, [op |-> "Attempts", seq |-> s, entry |-> e])
    BY <2>1, <2>2 DEF set_attempts
  <2>4. lines' = Append(lines, Line(r)) /\ doing' = [op |-> "Attempts", seq |-> s, entry |-> e] /\ failures' = failures
    BY <1>2, <2>3, WroteIs DEF write_record, Fails
  <2>5. doing'.op \in Calls /\ doing'.op # "Push"
    BY <2>4 DEF Calls
  <2> QED BY <2>3, <2>4, <2>5, WriteLengths
<1>6. CASE Pushed
  <2>1. /\ open /\ doing.op = "Push" /\ written' = written + 1 /\ doing' = Nothing /\ lines' = lines /\ failures' = failures
        /\ DOMAIN live' = DOMAIN live \cup {doing.seq} /\ doing.seq = next_seq
    BY <1>6 DEF Pushed, append, Inv, InCall
  <2>2. written = Len(lines) - 1 /\ Len(lines) - 1 <= Bound
    BY <2>1 DEF Lengths, Calls
  <2>3. next_seq \notin DOMAIN live
    BY InvNumbers DEF Inv, LiveOk
  <2>4. Cardinality(DOMAIN live') = Cardinality(DOMAIN live) + 1
    BY <2>1, <2>3, LiveFinite, FS_AddElement
  <2>5. Len(lines) <= CompactFloor + CompactRatio * (Cardinality(DOMAIN live) + 1)
    <3>1. PICK p : p = CompactRatio * Cardinality(DOMAIN live) /\ p \in Nat
                   /\ CompactRatio * (Cardinality(DOMAIN live) + 1) = p + CompactRatio
      BY <1>1, Product, StoreAssumption
    <3>2. Len(lines) - 1 <= CompactFloor + p
      BY <2>2, <3>1 DEF Bound
    <3> QED BY <1>1, <3>1, <3>2, StoreAssumption
  <2>6. Len(lines') <= Bound'
    BY <2>1, <2>4, <2>5 DEF Bound
  <2>7. written' = Len(lines')
    BY <1>1, <2>1, <2>2
  <2> QED BY <2>1, <2>6, <2>7, OpsDiffer DEF Lengths
<1>7. CASE Acked \/ AttemptsSet
  <2>1. /\ open /\ doing.op \in Calls /\ written' = written + 1 /\ lines' = lines /\ live' = live /\ failures' = failures
        /\ doing' = IF worthwhile(written + 1) THEN [op |-> "Rewrite"] ELSE Nothing
    BY <1>7 DEF Acked, AttemptsSet, append, Calls
  <2>2. written + 1 = Len(lines) /\ Bound' = Bound
    BY <1>1, <2>1 DEF Lengths, Bound
  <2>3. PICK p : p = CompactRatio * Cardinality(DOMAIN live) /\ p \in Nat
    BY <1>1, Product, StoreAssumption
  <2>4. ~worthwhile(written + 1) => Len(lines) <= Bound
    <3>1. p = Cardinality(DOMAIN live) * CompactRatio
      BY <1>1, <2>3, StoreAssumption
    <3> QED BY <1>1, <2>2, <2>3, <3>1, StoreAssumption DEF worthwhile, Bound
  <2>5. doing' = Nothing => Len(lines') <= Bound'
    BY <2>1, <2>2, <2>4, OpsDiffer
  <2>6. doing'.op \notin Calls /\ doing'.op # "Push"
    BY <2>1, OpsDiffer
  <2> QED BY <2>1, <2>2, <2>5, <2>6 DEF Lengths
<1>8. CASE SyncFails
  BY <1>2, <1>8 DEF SyncFails, Fails
<1>9. CASE compact
  <2>1. open /\ doing = Nothing /\ doing' = [op |-> "Rewrite"] /\ UNCHANGED <<written, lines, live, failures>>
    BY <1>9 DEF compact
  <2> QED BY <2>1, OpsDiffer DEF Lengths
<1>10. CASE rewrite \/ Open
  <2>1. Len(lines') = Cardinality(DOMAIN live') /\ written' = Len(lines')
    BY <1>2, <1>10, RewriteKeeps, OpenKeeps
  <2>2. Inv'
    BY <1>10, RewriteKeeps, OpenKeeps
  <2>3. doing' = Nothing
    BY <1>10 DEF rewrite, Open, Inv, Journal
  <2>4. Cardinality(DOMAIN live') \in Nat
    <3>1. lines' \in Seq(FileLine)
      BY <2>2 DEF Inv, Journal
    <3> QED BY <2>1, <3>1
  <2>5. Cardinality(DOMAIN live') <= CompactRatio * Cardinality(DOMAIN live')
        /\ CompactRatio * Cardinality(DOMAIN live') \in Nat
    BY <2>4, Product, StoreAssumption
  <2>6. Len(lines') <= Bound'
    BY <2>1, <2>4, <2>5, StoreAssumption DEF Bound
  <2> QED BY <2>1, <2>3, <2>6, OpsDiffer DEF Lengths
<1>11. CASE Crash
  BY <1>11 DEF Crash
<1>12. CASE Refused \/ UNCHANGED vars
  <2>1. UNCHANGED vars
    BY <1>12 DEF Refused
  <2> QED BY <2>1 DEF vars, Lengths, Bound
<1> QED BY <1>3, <1>4, <1>5, <1>6, <1>7, <1>8, <1>9, <1>10, <1>11, <1>12 DEF Next

(* The journal does not grow without bound: with a ratio of at least one    *)
(* (COMPACT_RATIO is 4) and no failure it is never longer, between calls,   *)
(* than the floor and the live entries allow.                               *)
THEOREM StoreJournalBounded ==
  ASSUME WriteFailures \subseteq {"Nothing"}, CompactRatio >= 1
  PROVE  Spec => []JournalBounded
<1>1. Init => Inv /\ Lengths
  <2>1. Init => Lengths
    <3> SUFFICES ASSUME Init PROVE Lengths
      OBVIOUS
    <3>1. Len(lines) = 0 /\ written = 0 /\ doing = Nothing /\ DOMAIN live = {}
      <4>1. lines = <<>> /\ live = Empty /\ written = 0 /\ doing = Nothing
        BY DEF Init
      <4> QED BY <4>1 DEF Empty
    <3>2. Bound = CompactFloor + CompactRatio * 0
      BY <3>1, FS_EmptySet DEF Bound
    <3>3. 0 <= Bound
      BY <3>2, StoreAssumption
    <3> QED BY <3>1, <3>3, OpsDiffer DEF Lengths
  <2> QED BY <2>1, InitInv
<1>2. Inv /\ Lengths /\ [Next]_vars => (Inv /\ Lengths)'
  BY NextInv, LengthsNext
<1>3. Lengths => JournalBounded
  BY DEF Lengths, JournalBounded, Bound
<1> QED BY <1>1, <1>2, <1>3, PTL DEF Spec

-----------------------------------------------------------------------------
(* FileStore implements MessageStore.                                       *)

LEMMA KeptIs ==
  ASSUME Inv
  PROVE  /\ Kept \subseteq Messages
         /\ \A m \in Kept : m \in Nat /\ m < next_msg
         /\ \A s \in DOMAIN live : live[s].msg \in Kept
         /\ \A s, t \in DOMAIN live : live[s].msg = live[t].msg => s = t
<1>1. \A s \in DOMAIN live : live[s] \in Entry /\ live[s].msg < next_msg
  BY DEF Inv, LiveOk
<1>2. \A s \in DOMAIN live : live[s].msg \in Messages /\ live[s].msg \in Nat
  BY <1>1, EntryTypes
<1>3. PICK b : b = replay(lines)
  OBVIOUS
<1>4. Agrees(b, live, doubtful, recorded, next_seq, next_msg) /\ next_seq \in Nat
  BY <1>3, InvNumbers
<1>5. \A s \in DOMAIN live : s \in DOMAIN b /\ b[s].msg = live[s].msg
  BY <1>4 DEF Agrees
<1>6. ASSUME NEW s \in DOMAIN live, NEW t \in DOMAIN live, live[s].msg = live[t].msg
      PROVE  s = t
  <2>1. s \in DOMAIN b /\ t \in DOMAIN b /\ b[s].msg = b[t].msg
    BY <1>5, <1>6
  <2> QED BY <1>4, <2>1, AgreesOnce
<1> QED BY <1>1, <1>2, <1>6 DEF Kept

LEMMA StoreStep ==
  ASSUME Inv, [Next]_vars
  PROVE  [Store!Next]_(Store!storeVars)
<1>1. CASE push
  <2>1. /\ open /\ next_msg <= MaxMessages /\ doubtful' = doubtful \cup {next_msg} /\ open' = open /\ live' = live
    BY <1>1 DEF push
  <2>2. next_msg \in Messages /\ next_msg \notin Kept
    BY <2>1, InvNumbers, KeptIs, StoreAssumption DEF Messages
  <2>3. Kept' = Kept
    BY <2>1 DEF Kept
  <2>4. Store!BeginPush(next_msg)
    BY <2>1, <2>2, <2>3 DEF Store!BeginPush
  <2> QED BY <2>2, <2>4 DEF Store!Next
<1>2. CASE \E s \in DOMAIN live : ack(s)
  <2>1. PICK s \in DOMAIN live : ack(s)
    BY <1>2
  <2>2. PICK m : m = live[s].msg
    OBVIOUS
  <2>3. /\ open /\ live' = [t \in DOMAIN live \ {s} |-> live[t]] /\ doubtful' = doubtful \cup {m} /\ open' = open
    BY <2>1, <2>2 DEF ack
  <2>4. m \in Kept /\ m \in Messages
    BY <2>2, KeptIs
  <2>5. Kept' = Kept \ {m}
    <3>1. DOMAIN live' = DOMAIN live \ {s} /\ \A t \in DOMAIN live' : live'[t] = live[t]
      BY <2>3
    <3>2. ASSUME NEW x \in Kept'
          PROVE  x \in Kept \ {m}
      <4>1. PICK t \in DOMAIN live' : x = live'[t].msg
        BY DEF Kept
      <4>2. t \in DOMAIN live /\ t # s /\ x = live[t].msg
        BY <3>1, <4>1
      <4> QED BY <2>2, <4>2, KeptIs
    <3>3. ASSUME NEW x \in Kept \ {m}
          PROVE  x \in Kept'
      <4>1. PICK t \in DOMAIN live : x = live[t].msg
        BY DEF Kept
      <4>2. t \in DOMAIN live' /\ x = live'[t].msg
        BY <2>2, <3>1, <4>1
      <4> QED BY <4>2 DEF Kept
    <3> QED BY <3>2, <3>3
  <2>6. Store!BeginAck(m)
    BY <2>3, <2>4, <2>5 DEF Store!BeginAck
  <2> QED BY <2>4, <2>6 DEF Store!Next
<1>3. CASE \E s \in DOMAIN live : set_attempts(s, live[s].attempts + 1)
  <2>1. PICK s \in DOMAIN live : set_attempts(s, live[s].attempts + 1)
    BY <1>3
  <2>2. PICK n : n = live[s].attempts + 1
    OBVIOUS
  <2>3. live' = [live EXCEPT ![s].attempts = n] /\ UNCHANGED <<doubtful, open>>
    BY <2>1, <2>2 DEF set_attempts, history
  <2>4. live[s] \in Entry
    BY DEF Inv, LiveOk
  <2>5. DOMAIN live' = DOMAIN live /\ \A t \in DOMAIN live : live'[t].msg = live[t].msg
    <3>1. [live[s] EXCEPT !.attempts = n].msg = live[s].msg
      BY <2>4, EntryTypes
    <3> QED BY <2>3, <3>1
  <2>6. Kept' = Kept
    BY <2>5 DEF Kept
  <2> QED BY <2>3, <2>6 DEF Store!storeVars
<1>4. CASE Pushed
  <2>1. PICK b, m : b = replay(lines) /\ m = doing.entry.msg
    OBVIOUS
  <2>2. /\ open /\ doing.op = "Push" /\ doubtful' = doubtful \ {m} /\ open' = open
        /\ live' = [s \in DOMAIN live \cup {doing.seq} |-> IF s = doing.seq THEN doing.entry ELSE live[s]]
    BY <1>4, <2>1 DEF Pushed
  <2>3. doing.seq = next_seq /\ m \in doubtful
    BY <2>1, <2>2 DEF Inv, InCall
  <2>4. next_seq \notin DOMAIN live /\ doubtful \subseteq Messages
    BY InvNumbers DEF Inv, LiveOk
  <2>5. Kept' = Kept \cup {m}
    <3>1. /\ DOMAIN live' = DOMAIN live \cup {next_seq} /\ live'[next_seq] = doing.entry
          /\ \A t \in DOMAIN live : live'[t] = live[t]
      BY <2>2, <2>3, <2>4
    <3>2. ASSUME NEW x \in Kept'
          PROVE  x \in Kept \cup {m}
      <4>1. PICK t \in DOMAIN live' : x = live'[t].msg
        BY DEF Kept
      <4> QED BY <2>1, <3>1, <4>1 DEF Kept
    <3>3. ASSUME NEW x \in Kept
          PROVE  x \in Kept'
      <4>1. PICK t \in DOMAIN live : x = live[t].msg
        BY DEF Kept
      <4>2. t \in DOMAIN live' /\ x = live'[t].msg
        BY <3>1, <4>1
      <4> QED BY <4>2 DEF Kept
    <3>4. m \in Kept'
      BY <2>1, <3>1 DEF Kept
    <3> QED BY <3>2, <3>3, <3>4
  <2>6. Store!EndPush(m)
    BY <2>2, <2>3, <2>5 DEF Store!EndPush
  <2> QED BY <2>3, <2>4, <2>6 DEF Store!Next
<1>5. CASE Acked
  <2>1. PICK m : m = doing.entry.msg
    OBVIOUS
  <2>2. open /\ doing.op = "Ack" /\ doubtful' = doubtful \ {m} /\ open' = open /\ live' = live
    BY <1>5, <2>1 DEF Acked
  <2>3. m \in doubtful /\ doubtful \subseteq Messages
    BY <2>1, <2>2, InvNumbers DEF Inv, InCall
  <2>4. Kept' = Kept
    BY <2>2 DEF Kept
  <2>5. Store!EndAck(m)
    BY <2>2, <2>3, <2>4 DEF Store!EndAck
  <2> QED BY <2>3, <2>5 DEF Store!Next
<1>6. CASE AttemptsSet \/ SyncFails \/ compact \/ rewrite \/ Refused \/ UNCHANGED vars
  <2>1. UNCHANGED <<live, doubtful, open>>
    BY <1>6 DEF AttemptsSet, SyncFails, compact, rewrite, Refused, vars, history
  <2>2. Kept' = Kept
    BY <2>1 DEF Kept
  <2> QED BY <2>1, <2>2 DEF Store!storeVars
<1>7. CASE Crash
  <2>1. open /\ open' = FALSE /\ UNCHANGED <<live, doubtful>>
    BY <1>7 DEF Crash
  <2>2. Kept' = Kept
    BY <2>1 DEF Kept
  <2>3. Store!Crash
    BY <2>1, <2>2 DEF Store!Crash
  <2> QED BY <2>3 DEF Store!Next
<1>8. CASE Open
  <2>1. CASE UNCHANGED <<open, live, next_seq, doubtful>>
    <3>1. Kept' = Kept
      BY <2>1 DEF Kept
    <3> QED BY <2>1, <3>1 DEF Store!storeVars
  <2>2. CASE open' = TRUE /\ live' = replay(lines) /\ doubtful' = {}
    <3>1. PICK b : b = replay(lines)
      OBVIOUS
    <3>2. Agrees(b, live, doubtful, recorded, next_seq, next_msg)
      BY <3>1, InvNumbers
    <3>3. /\ \A s \in DOMAIN live : s \in DOMAIN b /\ b[s].msg = live[s].msg
          /\ \A s \in DOMAIN b : s \in DOMAIN live \/ b[s].msg \in doubtful
      BY <3>2 DEF Agrees
    <3>4. PICK back : back = {b[s].msg : s \in DOMAIN b \ DOMAIN live}
      OBVIOUS
    <3>5. back \in SUBSET doubtful
      BY <3>3, <3>4
    <3>6. Kept' = {b[s].msg : s \in DOMAIN b}
      BY <2>2, <3>1 DEF Kept
    <3>7. Kept' = Kept \cup back
      <4>1. ASSUME NEW s \in DOMAIN b
            PROVE  b[s].msg \in Kept \cup back
        <5>1. CASE s \in DOMAIN live
          BY <3>3, <5>1 DEF Kept
        <5>2. CASE s \notin DOMAIN live
          BY <3>4, <5>2
        <5> QED BY <5>1, <5>2
      <4>2. ASSUME NEW x \in Kept
            PROVE  \E s \in DOMAIN b : x = b[s].msg
        <5>1. PICK t \in DOMAIN live : x = live[t].msg
          BY DEF Kept
        <5> QED BY <3>3, <5>1
      <4>3. ASSUME NEW x \in back
            PROVE  \E s \in DOMAIN b : x = b[s].msg
        BY <3>4
      <4> QED BY <3>6, <4>1, <4>2, <4>3
    <3>8. ~open
      BY <1>8 DEF Open
    <3>9. Store!Open
      BY <2>2, <3>5, <3>7, <3>8 DEF Store!Open
    <3> QED BY <3>9 DEF Store!Next
  <2> QED BY <1>8, <2>1, <2>2 DEF Open
<1> QED BY <1>1, <1>2, <1>3, <1>4, <1>5, <1>6, <1>7, <1>8 DEF Next

(* The journal keeps trait MessageStore's promise for every number of       *)
(* messages, crashes and failures: nothing pushed is lost, nothing          *)
(* acknowledged comes back (ImplementsStore).                               *)
THEOREM StoreImplements ==
  ASSUME WriteFailures \subseteq {"Nothing"}
  PROVE  Spec => ImplementsStore
<1>1. Init => Store!Init
  <2> SUFFICES ASSUME Init PROVE Store!Init
    OBVIOUS
  <2>1. live = Empty /\ doubtful = {} /\ open = TRUE
    BY DEF Init
  <2>2. Kept = {}
    BY <2>1 DEF Kept, Empty
  <2> QED BY <2>1, <2>2 DEF Store!Init
<1>2. Inv /\ [Next]_vars => [Store!Next]_(Store!storeVars)
  BY StoreStep
<1> QED BY <1>1, <1>2, InvHolds, PTL DEF Spec, ImplementsStore, Store!Spec

-----------------------------------------------------------------------------
(* Sequence numbers are given once, as long as sync_data does not fail.     *)

Fresh ==
  /\ \A i, j \in 1 .. Len(lines) :
       /\ lines[i].record.op = "Push" /\ lines[j].record.op = "Push"
       /\ lines[i].record.seq = lines[j].record.seq
       => i = j
  /\ open => \A i \in 1 .. Len(lines) :
               \/ lines[i].record.seq < next_seq
               \/ doing.op = "Push" /\ i = Len(lines) /\ lines[i].record.seq = next_seq

LEMMA CrashCuts ==
  ASSUME NEW file \in AfterCrash, Inv
  PROVE  /\ Len(file) <= Len(lines)
         /\ \A i \in 1 .. Len(file) : file[i].record = Garbage \/ file[i].record = lines[i].record
<1>1. lines \in Seq(FileLine) /\ synced \in 0 .. Len(lines)
  BY InvNumbers
<1>2. CASE ~open
  <2>1. file = lines
    BY <1>2 DEF AfterCrash
  <2> QED BY <1>1, <2>1
<1>3. CASE open
  <2>1. PICK k \in synced .. Len(lines) :
          \/ file = SubSeq(lines, 1, k)
          \/ /\ k # Len(lines)
             /\ \E r \in {Garbage, lines[k + 1].record} :
                  file = Append(SubSeq(lines, 1, k), [record |-> r, ended |-> FALSE])
    <3>1. file \in UNION {{SubSeq(lines, 1, k)} \cup
              IF k = Len(lines) THEN {}
              ELSE {Append(SubSeq(lines, 1, k), [record |-> r, ended |-> FALSE]) :
                      r \in {Garbage, lines[k + 1].record}}
              : k \in synced..Len(lines)}
      BY <1>3 DEF AfterCrash
    <3> QED BY <3>1
  <2>2. PICK cut : cut = SubSeq(lines, 1, k)
    OBVIOUS
  <2>3. k \in 0 .. Len(lines)
    BY <1>1
  <2>4. cut \in Seq(FileLine) /\ Len(cut) = k /\ \A i \in 1 .. k : cut[i] = lines[i]
    BY <1>1, <2>2, <2>3, CutIs
  <2>5. CASE file = cut
    BY <2>3, <2>4, <2>5
  <2>6. CASE k # Len(lines) /\ \E r \in {Garbage, lines[k + 1].record} :
               file = Append(SubSeq(lines, 1, k), [record |-> r, ended |-> FALSE])
    <3>1. PICK r \in {Garbage, lines[k + 1].record} : file = Append(cut, [record |-> r, ended |-> FALSE])
      BY <2>2, <2>6
    <3>2. PICK l : l = [record |-> r, ended |-> FALSE]
      OBVIOUS
    <3>3. /\ Len(file) = k + 1 /\ file[k + 1] = l /\ l.record = r
          /\ \A i \in 1 .. k : file[i] = cut[i]
      BY <2>4, <3>1, <3>2
    <3>4. \A i \in 1 .. k + 1 : i \in 1 .. k \/ i = k + 1
      BY <2>3
    <3>5. k + 1 <= Len(lines)
      BY <2>3, <2>6, <1>1
    <3> QED BY <2>4, <3>1, <3>3, <3>4, <3>5
  <2> QED BY <2>1, <2>2, <2>5, <2>6
<1> QED BY <1>2, <1>3

LEMMA FreshCrash ==
  ASSUME Inv, Fresh, NEW file \in AfterCrash
  PROVE  /\ \A i, j \in 1 .. Len(file) :
              /\ file[i].record.op = "Push" /\ file[j].record.op = "Push"
              /\ file[i].record.seq = file[j].record.seq
              => i = j
         /\ ~queued_twice(file)
<1>1. file \in Seq(FileLine) /\ lines \in Seq(FileLine)
  BY CrashAgrees, InvNumbers
<1>2. ASSUME NEW i \in 1 .. Len(file), NEW j \in 1 .. Len(file),
             file[i].record.op = "Push", file[j].record.op = "Push", file[i].record.seq = file[j].record.seq
      PROVE  i = j
  <2>1. i \in 1 .. Len(lines) /\ j \in 1 .. Len(lines)
    BY <1>1, CrashCuts
  <2>2. file[i].record # Garbage /\ file[j].record # Garbage
    BY <1>2 DEF Garbage
  <2>3. file[i].record = lines[i].record /\ file[j].record = lines[j].record
    BY <2>2, CrashCuts
  <2> QED BY <1>2, <2>1, <2>3 DEF Fresh
<1>3. ~queued_twice(file)
  <2>1. PICK n \in 0 .. Len(file) :
          records(file) = [i \in 1 .. n |-> file[i].record] /\ Len(records(file)) = n
    BY <1>1, RecordsAre
  <2>2. PICK rs : rs = records(file)
    OBVIOUS
  <2>3. DOMAIN rs = 1 .. n /\ \A i \in 1 .. n : rs[i] = file[i].record /\ i \in 1 .. Len(file)
    BY <1>1, <2>1, <2>2
  <2>4. ~\E i, j \in DOMAIN rs : i # j /\ rs[i].op = "Push" /\ rs[j].op = "Push" /\ rs[i].seq = rs[j].seq
    BY <1>2, <2>3
  <2> QED BY <2>2, <2>4 DEF queued_twice
<1> QED BY <1>2, <1>3

LEMMA FreshWrite ==
  ASSUME Inv, Fresh, open, doing = Nothing, open' = open, next_seq' = next_seq, NEW r \in Record,
         \/ lines' = lines
         \/ /\ lines' = Append(lines, Line(r))
            /\ (r.seq < next_seq /\ r.op # "Push") \/ (r.seq = next_seq /\ doing'.op = "Push")
  PROVE  Fresh'
<1>1. \A i \in 1 .. Len(lines) : lines[i].record.seq < next_seq
  BY OpsDiffer DEF Fresh
<1>2. CASE lines' = lines
  BY <1>1, <1>2 DEF Fresh
<1>3. CASE /\ lines' = Append(lines, Line(r))
           /\ (r.seq < next_seq /\ r.op # "Push") \/ (r.seq = next_seq /\ doing'.op = "Push")
  <2>1. PICK l, n : l = Line(r) /\ n = Len(lines)
    OBVIOUS
  <2>2. lines \in Seq(FileLine) /\ n \in Nat /\ next_seq \in Nat
    BY <2>1, InvNumbers
  <2>3. l.record = r
    BY <2>1, LineTypes
  <2>4. Len(lines') = n + 1 /\ lines'[n + 1] = l /\ \A i \in 1 .. n : lines'[i] = lines[i]
    BY <1>3, <2>1, <2>2
  <2>5. \A i \in 1 .. n + 1 : i \in 1 .. n \/ i = n + 1
    BY <2>2
  <2>6. ASSUME NEW i \in 1 .. n, r.op = "Push"
        PROVE  lines[i].record.seq # r.seq
    <3>1. lines[i].record.seq < next_seq /\ r.seq = next_seq
      BY <1>1, <1>3, <2>1, <2>6
    <3> QED BY <2>2, <3>1
  <2>7. ASSUME NEW i \in 1 .. n + 1, NEW j \in 1 .. n + 1,
               lines'[i].record.op = "Push", lines'[j].record.op = "Push",
               lines'[i].record.seq = lines'[j].record.seq
        PROVE  i = j
    <3>1. CASE i \in 1 .. n /\ j \in 1 .. n
      BY <2>1, <2>4, <2>7, <3>1 DEF Fresh
    <3>2. CASE i = n + 1 /\ j \in 1 .. n
      BY <2>3, <2>4, <2>6, <2>7, <3>2
    <3>3. CASE i \in 1 .. n /\ j = n + 1
      BY <2>3, <2>4, <2>6, <2>7, <3>3
    <3> QED BY <2>5, <3>1, <3>2, <3>3
  <2>8. \A i \in 1 .. n + 1 : \/ lines'[i].record.seq < next_seq'
                              \/ doing'.op = "Push" /\ i = n + 1 /\ lines'[i].record.seq = next_seq'
    <3>1. \A i \in 1 .. n : lines'[i].record.seq < next_seq
      BY <1>1, <2>1, <2>4
    <3>2. lines'[n + 1].record.seq < next_seq \/ (doing'.op = "Push" /\ lines'[n + 1].record.seq = next_seq)
      BY <1>3, <2>3, <2>4
    <3> QED BY <2>5, <3>1, <3>2
  <2> QED BY <2>4, <2>7, <2>8 DEF Fresh
<1> QED BY <1>2, <1>3

LEMMA FreshSwap ==
  ASSUME NEW e, NEW b \in Nat, e = [s \in DOMAIN e |-> e[s]], DOMAIN e \subseteq 0 .. b,
         \A s \in DOMAIN e : e[s] \in Entry, swap(e), open' => \A s \in DOMAIN e : s < next_seq'
  PROVE  Fresh'
<1>1. PICK im : im = image(e)
  OBVIOUS
<1>2. /\ \A i \in 1 .. Len(im) : im[i].record.seq \in DOMAIN e
      /\ \A i, j \in 1 .. Len(im) : im[i].record.seq = im[j].record.seq => i = j
  BY <1>1, ImageIs
<1>3. lines' = im
  BY <1>1 DEF swap
<1> QED BY <1>2, <1>3 DEF Fresh

LEMMA FreshNext ==
  ASSUME WriteFailures \subseteq {"Nothing"}, ~SyncMayFail, Inv, Fresh, [Next]_vars
  PROVE  Fresh'
<1>1. /\ lines \in Seq(FileLine) /\ next_seq \in Nat /\ next_msg \in Nat
      /\ \A s \in DOMAIN live : s \in Nat /\ s < next_seq /\ live[s] \in Entry
  BY InvNumbers DEF Inv, LiveOk
<1>2. CASE push
  <2>1. PICK e, r : e = [msg |-> next_msg, attempts |-> 0] /\ r = Push(next_seq, e)
    OBVIOUS
  <2>2. open /\ doing = Nothing /\ open' = open /\ next_seq' = next_seq
        /\ write_record(r, [op |-> "Push", seq |-> next_seq, entry |-> e])
    BY <1>2, <2>1 DEF push
  <2>3. \/ lines' = Append(lines, Line(r)) /\ doing' = [op |-> "Push", seq |-> next_seq, entry |-> e]
        \/ lines' = lines
    BY <2>2, WroteIs DEF write_record
  <2>4. r \in Record /\ r.seq = next_seq
    BY <1>1, <2>1 DEF Push, Record, Calls
  <2>5. doing' = [op |-> "Push", seq |-> next_seq, entry |-> e] => doing'.op = "Push"
    OBVIOUS
  <2> QED BY <2>2, <2>3, <2>4, <2>5, FreshWrite
<1>3. CASE \E s \in DOMAIN live :
             ack(s) \/ (live[s].attempts < MaxAttempts /\ set_attempts(s, live[s].attempts + 1))
  <2>1. PICK s \in DOMAIN live : ack(s) \/ set_attempts(s, live[s].attempts + 1)
    BY <1>3
  <2>2. PICK r : r = IF ack(s) THEN Ack(s) ELSE Attempts(s, live[s].attempts + 1)
    OBVIOUS
  <2>3. live[s].attempts + 1 \in Nat
    BY <1>1, EntryTypes
  <2>4. r \in Record /\ r.seq = s /\ r.op # "Push"
    BY <1>1, <2>2, <2>3 DEF Ack, Attempts, Record, Calls
  <2>5. /\ open /\ doing = Nothing /\ open' = open /\ next_seq' = next_seq
        /\ lines' = lines \/ lines' = Append(lines, Line(r))
    <3>1. CASE ack(s)
      BY <2>2, <3>1, WroteIs DEF ack, write_record
    <3>2. CASE ~ack(s)
      BY <2>1, <2>2, <3>2, WroteIs DEF set_attempts, write_record
    <3> QED BY <3>1, <3>2
  <2>6. r.seq < next_seq
    BY <1>1, <2>4
  <2> QED BY <2>4, <2>5, <2>6, FreshWrite
<1>4. CASE Pushed
  <2>1. open /\ doing.op = "Push" /\ lines' = lines /\ next_seq' = next_seq + 1 /\ open' = open
    BY <1>4 DEF Pushed
  <2>2. ASSUME NEW i \in 1 .. Len(lines)
        PROVE  lines[i].record.seq < next_seq + 1
    <3>1. Clean(lines) /\ lines[i] \in FileLine
      BY <1>1, <2>1 DEF Inv, Journal
    <3>2. lines[i].record \in Record /\ lines[i].record.seq \in Nat
      BY <3>1, RecordTypes DEF FileLine, Clean
    <3>3. lines[i].record.seq < next_seq \/ lines[i].record.seq = next_seq
      BY <2>1 DEF Fresh
    <3> QED BY <1>1, <3>2, <3>3
  <2> QED BY <2>1, <2>2 DEF Fresh
<1>5. CASE Acked \/ AttemptsSet \/ compact \/ (rewrite /\ lines' = lines)
  <2>1. open /\ doing.op # "Push" /\ lines' = lines /\ next_seq' = next_seq /\ open' = open
    BY <1>5, OpsDiffer DEF Acked, AttemptsSet, compact, rewrite
  <2> QED BY <2>1 DEF Fresh
<1>6. CASE SyncFails
  BY <1>6 DEF SyncFails
<1>7. CASE rewrite /\ swap(live)
  <2>1. next_seq' = next_seq
    BY <1>7 DEF rewrite
  <2>2. live = [s \in DOMAIN live |-> live[s]] /\ DOMAIN live \subseteq 0 .. next_seq
    BY <1>1 DEF Inv, LiveOk
  <2> QED BY <1>1, <1>7, <2>1, <2>2, FreshSwap
<1>8. CASE Crash
  <2>1. lines' \in AfterCrash /\ open' = FALSE
    BY <1>8 DEF Crash
  <2> QED BY <2>1, FreshCrash DEF Fresh
<1>9. CASE Open
  <2>1. CASE open' = TRUE /\ next_seq' = replay_next_seq(lines) /\ swap(replay(lines))
    <3>1. PICK b : b = replay(lines)
      OBVIOUS
    <3>2. b = [s \in DOMAIN b |-> b[s]] /\ DOMAIN b \subseteq 0 .. next_seq /\ \A s \in DOMAIN b : b[s] \in Entry
      BY <3>1, InvNumbers DEF Agrees
    <3>3. \A s \in DOMAIN b : s < next_seq'
      BY <2>1, <3>1, NextSeqIs
    <3>4. swap(b)
      BY <2>1, <3>1
    <3> QED BY <1>1, <3>2, <3>3, <3>4, FreshSwap
  <2>2. CASE UNCHANGED <<open, next_seq, lines>>
    <3>1. ~open'
      BY <1>9, <2>2 DEF Open
    <3> QED BY <2>2, <3>1 DEF Fresh
  <2>3. CASE UNCHANGED open /\ swap(replay(lines))
    <3>1. PICK b : b = replay(lines)
      OBVIOUS
    <3>2. b = [s \in DOMAIN b |-> b[s]] /\ DOMAIN b \subseteq 0 .. next_seq /\ \A s \in DOMAIN b : b[s] \in Entry
      BY <3>1, InvNumbers DEF Agrees
    <3>3. ~open' /\ swap(b)
      BY <1>9, <2>3, <3>1 DEF Open
    <3> QED BY <1>1, <3>2, <3>3, FreshSwap
  <2> QED BY <1>9, <2>1, <2>2, <2>3 DEF Open
<1>10. CASE Refused \/ UNCHANGED vars
  <2>1. UNCHANGED vars
    BY <1>10 DEF Refused
  <2> QED BY <2>1 DEF vars, Fresh
<1>11. rewrite => swap(live) \/ lines' = lines
  BY DEF rewrite
<1> QED BY <1>2, <1>3, <1>4, <1>5, <1>6, <1>7, <1>8, <1>9, <1>10, <1>11 DEF Next

(* One writer's journal is never refused, wherever a crash cuts it, as long *)
(* as sync_data does not fail: a failing sync is the only way to            *)
(* "sequence number was queued twice" (OneWriterOpens).                     *)
THEOREM StoreOneWriterOpens ==
  ASSUME WriteFailures \subseteq {"Nothing"}, ~SyncMayFail
  PROVE  Spec => []OneWriterOpens
<1>1. Init => Inv /\ Fresh
  <2>1. Init => Fresh
    <3> SUFFICES ASSUME Init PROVE Fresh
      OBVIOUS
    <3>1. lines = <<>>
      BY DEF Init
    <3>2. Len(lines) = 0
      BY <3>1
    <3> QED BY <3>2 DEF Fresh
  <2> QED BY <2>1, InitInv
<1>2. Inv /\ Fresh /\ [Next]_vars => (Inv /\ Fresh)'
  BY NextInv, FreshNext
<1>3. Inv /\ Fresh => OneWriterOpens
  BY FreshCrash DEF OneWriterOpens
<1> QED BY <1>1, <1>2, <1>3, PTL DEF Spec
=============================================================================
