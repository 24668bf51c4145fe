---------------------------- MODULE WsCodecProofs ----------------------------
(***************************************************************************)
(* The WebSocket's decoder returns what was written and refuses exactly     *)
(* what is to be refused, for every negotiation, limit, size and number of  *)
(* messages, and every way a message is cut.                                *)
(*                                                                          *)
(* The frames on the way are frames still to be read, so the invariant is   *)
(* about readers of the future: there is a chain of them, one per frame,    *)
(* each of which makes of its frame what the frame calls for, and the last  *)
(* one is in step with the writer.  Reading a frame drops the first of the  *)
(* chain, and writing one adds to its end.                                  *)
(***************************************************************************)
EXTENDS WsCodec, TLAPS

-----------------------------------------------------------------------------
(* Sequences, point by point.                                               *)

(* s is at the beginning, or at the end, of t.                              *)
Begins(s, t) == Len(s) <= Len(t) /\ \A i \in 1 .. Len(s) : s[i] = t[i]
Ends(s, t) == Len(s) <= Len(t) /\ \A i \in 1 .. Len(s) : s[i] = t[Len(t) - Len(s) + i]

LEMMA SameSequence ==
  ASSUME NEW S, NEW s \in Seq(S), NEW t \in Seq(S), Len(s) = Len(t), \A i \in 1 .. Len(s) : s[i] = t[i]
  PROVE  s = t
OBVIOUS

LEMMA PrefixIs ==
  ASSUME NEW S, NEW s \in Seq(S), NEW t \in Seq(S), Begins(s, t)
  PROVE  IsPrefix(s, t)
<1>1. PICK u, v : u = SubSeq(s, 1, Len(s)) /\ v = SubSeq(t, 1, Len(s))
  OBVIOUS
<1>2. /\ u \in Seq(S) /\ Len(u) = Len(s) /\ \A i \in 1 .. Len(s) : u[i] = s[i]
      /\ v \in Seq(S) /\ Len(v) = Len(s) /\ \A i \in 1 .. Len(s) : v[i] = t[i]
  BY <1>1 DEF Begins
<1>3. \A i \in 1 .. Len(u) : u[i] = v[i]
  BY <1>2 DEF Begins
<1>4. u = v
  BY <1>2, <1>3, SameSequence
<1> QED BY <1>1, <1>4 DEF IsPrefix, Begins

LEMMA SuffixIs ==
  ASSUME NEW S, NEW s \in Seq(S), NEW t \in Seq(S), Ends(s, t)
  PROVE  IsSuffix(s, t)
<1>1. PICK u, v : u = Reverse(s) /\ v = Reverse(t)
  OBVIOUS
<1>2. /\ u \in Seq(S) /\ Len(u) = Len(s) /\ \A i \in 1 .. Len(s) : u[i] = s[(Len(s) - i) + 1]
      /\ v \in Seq(S) /\ Len(v) = Len(t) /\ \A i \in 1 .. Len(t) : v[i] = t[(Len(t) - i) + 1]
  BY <1>1 DEF Reverse
<1>3. ASSUME NEW i \in 1 .. Len(u) PROVE u[i] = v[i]
  <2>1. (Len(s) - i) + 1 \in 1 .. Len(s) /\ i \in 1 .. Len(t)
    BY <1>2 DEF Ends
  <2>2. s[(Len(s) - i) + 1] = t[Len(t) - Len(s) + ((Len(s) - i) + 1)]
    BY <2>1 DEF Ends
  <2>3. Len(t) - Len(s) + ((Len(s) - i) + 1) = (Len(t) - i) + 1
    BY <1>2
  <2> QED BY <1>2, <2>1, <2>2, <2>3
<1>4. Begins(u, v)
  BY <1>2, <1>3 DEF Begins, Ends
<1> QED BY <1>1, <1>2, <1>4, PrefixIs DEF IsSuffix

LEMMA EndsAppended ==
  ASSUME NEW S, NEW s \in Seq(S), NEW t \in Seq(S), NEW x \in S, Ends(s, t)
  PROVE  Ends(Append(s, x), Append(t, x))
<1>1. PICK u, v : u = Append(s, x) /\ v = Append(t, x)
  OBVIOUS
<1>2. /\ Len(u) = Len(s) + 1 /\ Len(v) = Len(t) + 1 /\ u[Len(s) + 1] = x /\ v[Len(t) + 1] = x
      /\ \A i \in 1 .. Len(s) : u[i] = s[i]
      /\ \A i \in 1 .. Len(t) : v[i] = t[i]
  BY <1>1
<1>3. Len(s) \in Nat /\ Len(t) \in Nat /\ Len(s) <= Len(t)
  BY DEF Ends
<1>4. ASSUME NEW i \in 1 .. Len(u) PROVE u[i] = v[Len(v) - Len(u) + i]
  <2>1. CASE i \in 1 .. Len(s)
    <3>1. Len(v) - Len(u) + i = Len(t) - Len(s) + i /\ Len(t) - Len(s) + i \in 1 .. Len(t)
      BY <1>2, <2>1 DEF Ends
    <3>2. u[i] = t[Len(t) - Len(s) + i]
      BY <1>2, <2>1 DEF Ends
    <3> QED BY <1>2, <3>1, <3>2
  <2>2. CASE i = Len(s) + 1
    <3>1. Len(v) - Len(u) + i = Len(t) + 1
      BY <1>2, <2>2
    <3> QED BY <1>2, <2>2, <3>1
  <2> QED BY <1>2, <1>3, <2>1, <2>2
<1>5. Ends(u, v)
  BY <1>2, <1>3, <1>4 DEF Ends
<1> QED BY <1>1, <1>5

LEMMA EndsTrivially ==
  ASSUME NEW S, NEW t \in Seq(S) PROVE Ends(<< >>, t) /\ Ends(t, t)
BY DEF Ends

LEMMA BeginsAppended ==
  ASSUME NEW S, NEW s \in Seq(S), NEW t \in Seq(S), NEW x \in S, Begins(s, t)
  PROVE  Begins(s, Append(t, x)) /\ Begins(t, t) /\ Begins(t, Append(t, x))
BY DEF Begins

LEMMA AppendedIs ==
  ASSUME NEW S, NEW s \in Seq(S), NEW x \in S PROVE Append(s, x) \in Seq(S)
OBVIOUS

LEMMA BeginsTrivially ==
  ASSUME NEW S, NEW t \in Seq(S) PROVE Begins(t, t)
BY DEF Begins

LEMMA Joined ==
  ASSUME NEW S, NEW p \in Seq(S), NEW q \in Seq(S)
  PROVE  /\ p \o q \in Seq(S) /\ Len(p \o q) = Len(p) + Len(q)
         /\ \A i \in 1 .. Len(p) : (p \o q)[i] = p[i]
         /\ \A i \in 1 .. Len(q) : (p \o q)[Len(p) + i] = q[i]
<1>1. p \o q \in Seq(S) /\ Len(p \o q) = Len(p) + Len(q) /\ Len(p) \in Nat /\ Len(q) \in Nat
  OBVIOUS
<1>2. \A i \in 1 .. Len(p) : (p \o q)[i] = p[i]
  BY <1>1
<1>3. ASSUME NEW i \in 1 .. Len(q) PROVE (p \o q)[Len(p) + i] = q[i]
  <2>1. Len(p) + i \in 1 .. Len(p) + Len(q) /\ ~(Len(p) + i <= Len(p)) /\ (Len(p) + i) - Len(p) = i
    BY <1>1
  <2> QED BY <2>1
<1> QED BY <1>1, <1>2, <1>3

(* A sequence that is cut in two.                                           *)
LEMMA CutInTwo ==
  ASSUME NEW S, NEW p \in Seq(S), NEW s \in Seq(S), NEW k \in 0 .. Len(s)
  PROVE  /\ SubSeq(s, 1, k) \in Seq(S) /\ Len(SubSeq(s, 1, k)) = k
         /\ SubSeq(s, k + 1, Len(s)) \in Seq(S)
         /\ (p \o SubSeq(s, 1, k)) \o SubSeq(s, k + 1, Len(s)) = p \o s
         /\ k = Len(s) => SubSeq(s, 1, k) = s
<1>1. PICK a, b : a = SubSeq(s, 1, k) /\ b = SubSeq(s, k + 1, Len(s))
  OBVIOUS
<1>2. /\ a \in Seq(S) /\ Len(a) = k /\ \A i \in 1 .. k : a[i] = s[i]
      /\ b \in Seq(S) /\ Len(b) = Len(s) - k /\ \A i \in 1 .. Len(s) - k : b[i] = s[k + i]
  BY <1>1
<1>3. PICK c, d, e : c = p \o a /\ d = c \o b /\ e = p \o s
  OBVIOUS
<1>4. /\ c \in Seq(S) /\ Len(c) = Len(p) + k
      /\ \A i \in 1 .. Len(p) : c[i] = p[i]
      /\ \A i \in 1 .. k : c[Len(p) + i] = s[i]
  <2>1. /\ p \o a \in Seq(S) /\ Len(p \o a) = Len(p) + Len(a)
        /\ \A i \in 1 .. Len(p) : (p \o a)[i] = p[i]
        /\ \A i \in 1 .. Len(a) : (p \o a)[Len(p) + i] = a[i]
    <3>1. a \in Seq(S)
      BY <1>2
    <3> QED BY <3>1, Joined
  <2> QED BY <1>2, <1>3, <2>1
<1>5. /\ d \in Seq(S) /\ Len(d) = Len(p) + Len(s)
      /\ \A i \in 1 .. Len(p) + k : d[i] = c[i]
      /\ \A i \in 1 .. Len(s) - k : d[Len(p) + k + i] = s[k + i]
  <2>1. /\ c \o b \in Seq(S) /\ Len(c \o b) = Len(c) + Len(b)
        /\ \A i \in 1 .. Len(c) : (c \o b)[i] = c[i]
        /\ \A i \in 1 .. Len(b) : (c \o b)[Len(c) + i] = b[i]
    <3>1. b \in Seq(S) /\ c \in Seq(S)
      BY <1>2, <1>4
    <3> QED BY <3>1, Joined
  <2>2. Len(c) + Len(b) = Len(p) + Len(s)
    BY <1>2, <1>4
  <2>3. /\ d \in Seq(S) /\ Len(d) = Len(c) + Len(b)
        /\ \A i \in 1 .. Len(c) : d[i] = c[i]
        /\ \A i \in 1 .. Len(b) : d[Len(c) + i] = b[i]
    BY <1>3, <2>1
  <2>4. \A i \in 1 .. Len(s) - k : d[(Len(p) + k) + i] = s[k + i]
    BY <1>2, <1>4, <2>3
  <2> QED BY <1>4, <2>2, <2>3, <2>4
<1>6. /\ e \in Seq(S) /\ Len(e) = Len(p) + Len(s)
      /\ \A i \in 1 .. Len(p) : e[i] = p[i]
      /\ \A i \in 1 .. Len(s) : e[Len(p) + i] = s[i]
  BY <1>3, Joined
<1>7. ASSUME NEW i \in 1 .. Len(d) PROVE d[i] = e[i]
  <2>1. CASE i \in 1 .. Len(p)
    BY <1>4, <1>5, <1>6, <2>1
  <2>2. CASE i \in Len(p) + 1 .. Len(p) + k
    <3>1. PICK j \in 1 .. k : i = Len(p) + j
      <4>1. i - Len(p) \in 1 .. k /\ i = Len(p) + (i - Len(p))
        BY <2>2
      <4> QED BY <4>1
    <3>2. d[i] = c[Len(p) + j] /\ j \in 1 .. Len(s)
      BY <1>5, <2>2, <3>1
    <3> QED BY <1>4, <1>6, <3>1, <3>2
  <2>3. CASE i \in Len(p) + k + 1 .. Len(p) + Len(s)
    <3>1. PICK j \in 1 .. Len(s) - k : i = Len(p) + k + j
      <4>1. i - (Len(p) + k) \in 1 .. Len(s) - k /\ i = Len(p) + k + (i - (Len(p) + k))
        BY <2>3
      <4> QED BY <4>1
    <3>2. k + j \in 1 .. Len(s) /\ i = Len(p) + (k + j)
      BY <3>1
    <3> QED BY <1>5, <1>6, <3>1, <3>2
  <2> QED BY <1>5, <2>1, <2>2, <2>3
<1>8. d = e
  BY <1>5, <1>6, <1>7, SameSequence
<1>9. k = Len(s) => a = s
  BY <1>2, SameSequence
<1> QED BY <1>1, <1>2, <1>3, <1>8, <1>9

-----------------------------------------------------------------------------
(* The reader, as a record, and what it makes of a frame.                   *)

Opcodes == Data \cup {"Continuation", "Close", "Ping", "Pong", "Reserved"}
Codes == {"", "PROTOCOL_ERROR", "TOO_BIG", "INVALID_PAYLOAD"}
Frames == [opcode : Opcodes, fin : BOOLEAN, rsv1 : BOOLEAN, rsv : BOOLEAN, masked : BOOLEAN,
           length : Lengths, payload : Seq(Units), wrong : Codes]
Received == [opcode : Opcodes, payload : Seq(Units)]
Readers == [fragment : Incoming \cup {NoParams}, window : Seq(Nat), got : Seq(Received)]
Reader == [fragment |-> fragment, window |-> decompressor, got |-> got]

(* The close code of the error of the reader a, or "".                      *)
Verdict(a, f) ==
  IF check(a.fragment, f) # "" THEN check(a.fragment, f)
  ELSE IF is_control(f.opcode) THEN close_frame(f)
  ELSE IF Len(extended(a.fragment, f).payload) > MaxMessage THEN "TOO_BIG"
  ELSE IF ~f.fin THEN "" ELSE finish(a.window, extended(a.fragment, f)).error

(* The reader after a frame it has taken.                                   *)
Taken(a, f) ==
  LET whole == extended(a.fragment, f)
      done == finish(a.window, whole)
  IN IF is_control(f.opcode) THEN [a EXCEPT !.got = Append(@, [opcode |-> f.opcode, payload |-> f.payload])]
     ELSE IF ~f.fin THEN [a EXCEPT !.fragment = whole]
     ELSE [fragment |-> NoParams, window |-> done.window,
           got |-> Append(a.got, [opcode |-> whole.opcode, payload |-> done.payload])]

LEMMA ExtendedIs ==
  ASSUME NEW g \in Incoming \cup {NoParams}, NEW f \in Frames, NEW w, w = extended(g, f)
  PROVE  /\ w.payload \in Seq(Units)
         /\ g = NoParams => w = [opcode |-> f.opcode, compressed |-> f.rsv1, payload |-> f.payload]
         /\ g # NoParams => w = [opcode |-> g.opcode, compressed |-> g.compressed, payload |-> g.payload \o f.payload]
<1>1. f.payload \in Seq(Units)
  BY DEF Frames
<1>2. CASE g = NoParams
  <2>1. PICK p : p = << >> \o f.payload
    OBVIOUS
  <2>2. p \in Seq(Units) /\ Len(p) = Len(f.payload) /\ \A i \in 1 .. Len(p) : p[i] = f.payload[i]
    BY <1>1, <2>1
  <2>3. p = f.payload
    BY <1>1, <2>2, SameSequence
  <2>4. w = [opcode |-> f.opcode, compressed |-> f.rsv1, payload |-> p]
    BY <1>2, <2>1 DEF extended
  <2> QED BY <1>1, <1>2, <2>3, <2>4
<1>3. CASE g # NoParams
  <2>1. g \in Incoming
    BY <1>3
  <2>2. g.payload \in Seq(Units)
    BY <2>1 DEF Incoming
  <2>3. w = [g EXCEPT !.payload = @ \o f.payload]
    BY <1>3 DEF extended
  <2>4. w = [opcode |-> g.opcode, compressed |-> g.compressed, payload |-> g.payload \o f.payload]
    BY <2>1, <2>3 DEF Incoming
  <2>5. g.payload \o f.payload \in Seq(Units)
    BY <1>1, <2>2
  <2> QED BY <1>3, <2>4, <2>5
<1> QED BY <1>2, <1>3

LEMMA DecodeTakes ==
  ASSUME decode, Reader \in Readers, Head(link) \in Frames
  PROVE  /\ dead = "" /\ link # << >> /\ link' = Tail(link) /\ broken' = Head(link).wrong
         /\ dead' = Verdict(Reader, Head(link))
         /\ dead' = "" => Reader' = Taken(Reader, Head(link))
         /\ dead' # "" => got' = got
         /\ UNCHANGED <<role, native, params, compressor, writing, messages>>
<1>1. PICK f, a : f = Head(link) /\ a = Reader
  OBVIOUS
<1>2. a.fragment = fragment /\ a.window = decompressor /\ a.got = got
  BY <1>1 DEF Reader
<1>3. PICK whole : whole = extended(fragment, f)
  OBVIOUS
<1>3a. Len(whole.payload) \in Nat
  <2>1. fragment \in Incoming \cup {NoParams}
    BY DEF Reader, Readers
  <2>2. whole.payload \in Seq(Units)
    BY <1>1, <1>3, <2>1, ExtendedIs
  <2> QED BY <2>2
<1>4. PICK done : done = finish(decompressor, whole)
  OBVIOUS
<1>5. PICK code : code = check(fragment, f)
  OBVIOUS
<1>6. /\ dead = "" /\ link # << >> /\ link' = Tail(link) /\ broken' = f.wrong
      /\ UNCHANGED <<role, native, params, compressor, writing, messages>>
  BY <1>1 DEF decode
<1>7. Verdict(a, f) =
        IF code # "" THEN code
        ELSE IF is_control(f.opcode) THEN close_frame(f)
        ELSE IF Len(whole.payload) > MaxMessage THEN "TOO_BIG" ELSE IF ~f.fin THEN "" ELSE done.error
  BY <1>2, <1>3, <1>4, <1>5 DEF Verdict
<1>8. Taken(a, f) =
        IF is_control(f.opcode) THEN [a EXCEPT !.got = Append(@, [opcode |-> f.opcode, payload |-> f.payload])]
        ELSE IF ~f.fin THEN [a EXCEPT !.fragment = whole]
        ELSE [fragment |-> NoParams, window |-> done.window,
              got |-> Append(a.got, [opcode |-> whole.opcode, payload |-> done.payload])]
  BY <1>2, <1>3, <1>4 DEF Taken
<1>9. \/ code # "" /\ Fails(code) /\ UNCHANGED <<fragment, decompressor>>
      \/ /\ code = "" /\ is_control(f.opcode)
         /\ IF close_frame(f) # "" THEN Fails(close_frame(f)) ELSE Yields(f.opcode, f.payload)
         /\ UNCHANGED <<fragment, decompressor>>
      \/ /\ code = "" /\ ~is_control(f.opcode) /\ Len(whole.payload) > MaxMessage
         /\ fragment' = NoParams /\ Fails("TOO_BIG") /\ UNCHANGED decompressor
      \/ /\ code = "" /\ ~is_control(f.opcode) /\ Len(whole.payload) <= MaxMessage /\ ~f.fin
         /\ fragment' = whole /\ UNCHANGED <<got, dead, decompressor>>
      \/ /\ code = "" /\ ~is_control(f.opcode) /\ Len(whole.payload) <= MaxMessage /\ f.fin
         /\ fragment' = NoParams /\ decompressor' = done.window
         /\ IF done.error = "" THEN Yields(whole.opcode, done.payload) ELSE Fails(done.error)
  BY <1>1, <1>3, <1>4, <1>5 DEF decode
<1>10. Reader' = [fragment |-> fragment', window |-> decompressor', got |-> got']
  BY DEF Reader
<1>11. CASE code # "" /\ Fails(code) /\ UNCHANGED <<fragment, decompressor>>
  BY <1>1, <1>6, <1>7, <1>11 DEF Fails
<1>12. CASE /\ code = "" /\ is_control(f.opcode)
            /\ IF close_frame(f) # "" THEN Fails(close_frame(f)) ELSE Yields(f.opcode, f.payload)
            /\ UNCHANGED <<fragment, decompressor>>
  <2>1. CASE close_frame(f) # ""
    BY <1>1, <1>6, <1>7, <1>12, <2>1 DEF Fails
  <2>2. CASE close_frame(f) = ""
    <3>1. dead' = "" /\ Verdict(a, f) = "" /\ got' = Append(got, [opcode |-> f.opcode, payload |-> f.payload])
      BY <1>6, <1>7, <1>12, <2>2 DEF Yields
    <3>2. Taken(a, f) = Reader'
      BY <1>1, <1>8, <1>10, <1>12, <3>1 DEF Reader
    <3> QED BY <1>1, <1>6, <3>1, <3>2
  <2> QED BY <2>1, <2>2
<1>13. CASE /\ code = "" /\ ~is_control(f.opcode) /\ Len(whole.payload) > MaxMessage
            /\ fragment' = NoParams /\ Fails("TOO_BIG") /\ UNCHANGED decompressor
  BY <1>1, <1>6, <1>7, <1>13 DEF Fails
<1>14. CASE /\ code = "" /\ ~is_control(f.opcode) /\ Len(whole.payload) <= MaxMessage /\ ~f.fin
            /\ fragment' = whole /\ UNCHANGED <<got, dead, decompressor>>
  <2>1. dead' = "" /\ Verdict(a, f) = ""
    <3>1. ~(Len(whole.payload) > MaxMessage)
      <4>1. MaxMessage \in Nat
        BY WsCodecAssumption
      <4>2. Len(whole.payload) <= MaxMessage
        BY <1>14
      <4> QED BY <1>3a, <4>1, <4>2
    <3> QED BY <1>6, <1>7, <1>14, <3>1
  <2>2. Taken(a, f) = Reader'
    BY <1>1, <1>8, <1>10, <1>14 DEF Reader
  <2> QED BY <1>1, <1>6, <1>14, <2>1, <2>2
<1>15. CASE /\ code = "" /\ ~is_control(f.opcode) /\ Len(whole.payload) <= MaxMessage /\ f.fin
            /\ fragment' = NoParams /\ decompressor' = done.window
            /\ IF done.error = "" THEN Yields(whole.opcode, done.payload) ELSE Fails(done.error)
  <2>1. Verdict(a, f) = done.error
    <3>1. ~(Len(whole.payload) > MaxMessage)
      <4>1. MaxMessage \in Nat
        BY WsCodecAssumption
      <4>2. Len(whole.payload) <= MaxMessage
        BY <1>15
      <4> QED BY <1>3a, <4>1, <4>2
    <3> QED BY <1>7, <1>15, <3>1
  <2>2. CASE done.error = ""
    <3>1. dead' = "" /\ got' = Append(got, [opcode |-> whole.opcode, payload |-> done.payload])
      BY <1>6, <1>15, <2>2 DEF Yields
    <3>2. Taken(a, f) = Reader'
      BY <1>2, <1>8, <1>10, <1>15, <3>1
    <3> QED BY <1>1, <1>6, <2>1, <2>2, <3>1, <3>2
  <2>3. CASE done.error # ""
    BY <1>1, <1>6, <1>15, <2>1, <2>3 DEF Fails
  <2> QED BY <2>2, <2>3
<1> QED BY <1>9, <1>11, <1>12, <1>13, <1>14, <1>15

-----------------------------------------------------------------------------
(* Frames of data.                                                          *)

Matter == [n : Nat, size : Nat]
Held(a) == Carried(a.window, resets(role).in)
(* What both ends keep of the negotiation.                                  *)
Settled == role \in Roles /\ params["Client"] = params["Server"]

LEMMA PlainIs ==
  ASSUME NEW body \in Matter
  PROVE  /\ Plain(body) \in Seq(Units) /\ Len(Plain(body)) = body.size
         /\ body.n # 0 => \A i \in DOMAIN Plain(body) : Plain(body)[i] # Garbage
         /\ body.n # 0 => Plain(body) # <<Garbage>> /\ Plain(body) # <<BadReason>>
<1>1. PICK p : p = Plain(body)
  OBVIOUS
<1>2. body.size \in Nat /\ body.n \in Nat
  BY DEF Matter
<1>3. \A i \in 1 .. body.size : Unit(i, body, << >>, FALSE) \in Units
  BY <1>2 DEF Units, Unit, Matter
<1>4. p = [i \in 1 .. body.size |-> Unit(i, body, << >>, FALSE)]
  BY <1>1 DEF Plain
<1>5. p \in Seq(Units) /\ Len(p) = body.size /\ DOMAIN p = 1 .. body.size
  <2>1. p \in [1 .. body.size -> Units]
    BY <1>3, <1>4
  <2> QED BY <1>2, <2>1
<1>6. ASSUME body.n # 0, NEW i \in DOMAIN p PROVE p[i] # Garbage
  <2>1. p[i].body = body
    BY <1>4, <1>5, <1>6 DEF Unit
  <2>2. Garbage.body.n = 0
    BY DEF Garbage, Unit
  <2> QED BY <1>6, <2>1, <2>2
<1>7. ASSUME body.n # 0, p = <<Garbage>> PROVE FALSE
  <2>1. 1 \in DOMAIN p /\ p[1] = Garbage
    BY <1>7
  <2> QED BY <1>6, <1>7, <2>1
<1>8. ASSUME body.n # 0, p = <<BadReason>> PROVE FALSE
  <2>1. 1 \in DOMAIN p /\ p[1] = BadReason
    BY <1>8
  <2>2. p[1].body = body
    BY <1>4, <1>5, <2>1 DEF Unit
  <2>3. BadReason.body.n = 0
    BY DEF BadReason, Unit
  <2> QED BY <1>8, <2>1, <2>2, <2>3
<1> QED BY <1>1, <1>5, <1>6, <1>7, <1>8

LEMMA DeflatedIs ==
  ASSUME NEW body \in Matter, NEW w \in Seq(Nat)
  PROVE  /\ Deflated(body, w) \in Seq(Units) /\ Deflated(body, w) # << >>
         /\ Deflated(body, w)[1].body = body /\ Deflated(body, w)[1].window = w /\ Deflated(body, w)[1].deflated
<1>1. PICK u : u = [i \in 1 .. 2 |-> Unit(i, body, w, TRUE)]
  OBVIOUS
<1>2. \A i \in 1 .. 2 : u[i] = [part |-> i, body |-> body, window |-> w, deflated |-> TRUE]
  BY <1>1 DEF Unit
<1>3. \A i \in 1 .. 2 : u[i] \in Units
  <2>1. \A i \in 1 .. 2 : Unit(i, body, w, TRUE) \in Units
    BY DEF Units, Unit, Matter
  <2> QED BY <1>1, <2>1, Zenon
<1>4. DOMAIN u = 1 .. 2 /\ u = [i \in DOMAIN u |-> u[i]]
  BY <1>1
<1>5. u[1].body = body /\ u[1].window = w /\ u[1].deflated
  BY <1>2
<1>6. u \in Seq(Units) /\ u # << >>
  <2>1. PICK k \in Nat : k = 2
    OBVIOUS
  <2>2. u \in [1 .. k -> Units]
    <3> HIDE <1>2
    <3> QED BY <1>3, <1>4, <2>1
  <2>3. u \in Seq(Units) /\ Len(u) = k
    BY <2>2
  <2>4. Len(<< >>) = 0
    OBVIOUS
  <2>5. Len(u) # 0
    BY <2>1, <2>3
  <2> QED BY <2>3, <2>4, <2>5
<1> QED BY <1>1, <1>5, <1>6 DEF Deflated

LEMMA OtherSide ==
  ASSUME Settled
  PROVE  /\ (writer = "Client") <=> (role = "Server")
         /\ params[writer] = params[role] /\ resets(writer).out = resets(role).in
<1>1. CASE role = "Client"
  <2>1. writer = "Server"
    BY <1>1 DEF writer
  <2> QED BY <1>1, <2>1 DEF Settled, resets
<1>2. CASE role = "Server"
  <2>1. writer = "Client"
    BY <1>2 DEF writer
  <2> QED BY <1>2, <2>1 DEF Settled, resets
<1> QED BY <1>1, <1>2 DEF Settled, Roles

(* The whole of a message, and what finish makes of it.                     *)
IsWhole(whole, body, w) == whole.payload = IF whole.compressed THEN Deflated(body, w) ELSE Plain(body)
Finishes(a, whole, body) ==
  /\ finish(a.window, whole).error = (IF whole.compressed /\ body.size > MaxMessage THEN "TOO_BIG" ELSE "")
  /\ finish(a.window, whole).payload = Plain(body)
  /\ finish(a.window, whole).window = IF whole.compressed THEN Append(Held(a), body.n) ELSE a.window

(* finish, of a message as it was written.                                  *)
LEMMA FinishIs ==
  ASSUME NEW a \in Readers, NEW body \in Matter, body.n # 0,
         NEW w \in Seq(Nat), Held(a) \in Seq(Nat),
         NEW whole, IsWhole(whole, body, w), whole.compressed => Ends(w, Held(a))
  PROVE  Finishes(a, whole, body)
<1>1. PICK done : done = finish(a.window, whole)
  OBVIOUS
<1>2. CASE ~whole.compressed
  <2>1. whole.payload = Plain(body)
    BY <1>2 DEF IsWhole
  <2>2. \A i \in DOMAIN whole.payload : whole.payload[i] # Garbage
    BY <2>1, PlainIs
  <2>3. done = [error |-> "", payload |-> whole.payload, window |-> a.window]
    BY <1>1, <1>2, <2>2 DEF finish
  <2>4. done.error = "" /\ done.payload = Plain(body) /\ done.window = a.window
    BY <2>1, <2>3
  <2> QED BY <1>1, <1>2, <2>4 DEF Finishes
<1>3. CASE whole.compressed
  <2>1. whole.payload = Deflated(body, w)
    BY <1>3 DEF IsWhole
  <2>2. /\ whole.payload # << >> /\ whole.payload[1].deflated
        /\ whole.payload[1].body = body /\ whole.payload[1].window = w
    BY <2>1, DeflatedIs
  <2>3. IsSuffix(w, Held(a))
    BY <1>3, SuffixIs
  <2>4. Inflates(whole.payload, Held(a))
    BY <2>1, <2>2, <2>3 DEF Inflates
  <2>5. done = [error |-> IF body.size > MaxMessage THEN "TOO_BIG" ELSE "", payload |-> Plain(body),
                window |-> Append(Held(a), body.n)]
    BY <1>1, <1>3, <2>2, <2>4 DEF finish, Held
  <2>6. /\ done.error = (IF body.size > MaxMessage THEN "TOO_BIG" ELSE "")
        /\ done.payload = Plain(body) /\ done.window = Append(Held(a), body.n)
    BY <2>5
  <2> QED BY <1>1, <1>3, <2>6 DEF Finishes
<1> QED BY <1>2, <1>3

LEMMA HeldIs ==
  ASSUME NEW a \in Readers PROVE Held(a) \in Seq(Nat) /\ a.window \in Seq(Nat)
BY DEF Held, Carried, Readers

(* A data frame of a writer that keeps the rules, with m the message so far. *)
DataSays(f, m, body, w, old) ==
  /\ f \in Frames /\ m \in Incoming /\ body \in Matter /\ body.n # 0
  /\ f.opcode \in Data \cup {"Continuation"} /\ ((f.opcode = "Continuation") <=> (old # NoParams))
  /\ ~f.rsv /\ f.length = "Minimal" /\ (f.masked <=> role = "Server") /\ (f.rsv1 => f.opcode \in Data /\ params[role] # NoParams)
  /\ f.fin => IsWhole(m, body, w)
  /\ f.wrong = IF Len(f.payload) > MaxFrame \/ Len(m.payload) > MaxMessage \/ (f.fin /\ body.size > MaxMessage)
               THEN "TOO_BIG" ELSE ""
AfterAll(a, m, body) ==
  [fragment |-> NoParams, window |-> IF m.compressed THEN Append(Held(a), body.n) ELSE a.window,
   got |-> Append(a.got, [opcode |-> m.opcode, payload |-> Plain(body)])]
AfterPart(a, m) == [a EXCEPT !.fragment = m]
DataRead(a, f, m, body) ==
  /\ Verdict(a, f) = f.wrong
  /\ f.wrong = "" /\ f.fin => Taken(a, f) = AfterAll(a, m, body)
  /\ f.wrong = "" /\ ~f.fin => Taken(a, f) = AfterPart(a, m)

LEMMA DataTaken ==
  ASSUME NEW a \in Readers, NEW body, NEW w \in Seq(Nat), NEW f, NEW m, extended(a.fragment, f) = m,
         DataSays(f, m, body, w, a.fragment), m.compressed => Ends(w, Held(a))
  PROVE  DataRead(a, f, m, body)
<1> /\ f \in Frames /\ m \in Incoming /\ body \in Matter /\ body.n # 0
    /\ f.opcode \in Data \cup {"Continuation"} /\ ((f.opcode = "Continuation") <=> (a.fragment # NoParams))
    /\ ~f.rsv /\ f.length = "Minimal" /\ (f.masked <=> role = "Server") /\ (f.rsv1 => f.opcode \in Data /\ params[role] # NoParams)
    /\ f.fin => IsWhole(m, body, w)
    /\ f.wrong = IF Len(f.payload) > MaxFrame \/ Len(m.payload) > MaxMessage \/ (f.fin /\ body.size > MaxMessage)
                 THEN "TOO_BIG" ELSE ""
  BY Zenon DEF DataSays
<1>1. ~is_control(f.opcode) /\ f.opcode # "Reserved"
  BY DEF is_control, Data
<1>2. check(a.fragment, f) = IF Len(f.payload) > MaxFrame THEN "TOO_BIG" ELSE ""
  <2>1. f.masked \in BOOLEAN
    BY DEF Frames
  <2>2. f.masked = (role = "Server")
    BY <2>1, Zenon
  <2>3. (f.opcode = "Continuation") = (a.fragment # NoParams)
    BY Zenon
  <2>4. ~(f.rsv1 /\ (params[role] = NoParams \/ f.opcode \notin Data))
    OBVIOUS
  <2>5. read_header(f) = ""
    BY <1>1 DEF read_header
  <2> QED BY <1>1, <2>2, <2>3, <2>4, <2>5, Zenon DEF check
<1>4. f.fin => Finishes(a, m, body)
  BY HeldIs, FinishIs
<1>5. f.fin /\ ~m.compressed => Len(m.payload) = body.size
  BY PlainIs DEF IsWhole
<1>6. CASE Len(f.payload) > MaxFrame
  BY <1>2, <1>6 DEF Verdict, DataRead
<1>7. CASE ~(Len(f.payload) > MaxFrame) /\ Len(m.payload) > MaxMessage
  BY <1>1, <1>2, <1>7 DEF Verdict, DataRead
<1>8. CASE ~(Len(f.payload) > MaxFrame) /\ ~(Len(m.payload) > MaxMessage)
  <2>1. Verdict(a, f) = IF ~f.fin THEN "" ELSE finish(a.window, m).error
    BY <1>1, <1>2, <1>8 DEF Verdict
  <2>2. CASE ~f.fin
    <3>1. Taken(a, f) = AfterPart(a, m)
      BY <1>1, <2>2 DEF Taken, AfterPart
    <3> QED BY <1>8, <2>1, <2>2, <3>1 DEF DataRead
  <2>3. CASE f.fin
    <3>1. f.wrong = IF body.size > MaxMessage THEN "TOO_BIG" ELSE ""
      BY <1>8, <2>3
    <3>2. body.size > MaxMessage => m.compressed
      BY <1>5, <1>8, <2>3
    <3>3. Verdict(a, f) = f.wrong
      BY <1>4, <2>1, <2>3, <3>1, <3>2 DEF Finishes
    <3>4. Taken(a, f) = [fragment |-> NoParams, window |-> finish(a.window, m).window,
                         got |-> Append(a.got, [opcode |-> m.opcode, payload |-> finish(a.window, m).payload])]
      BY <1>1, <2>3 DEF Taken
    <3>5. Taken(a, f) = AfterAll(a, m, body)
      BY <1>4, <2>3, <3>4 DEF Finishes, AfterAll
    <3> QED BY <2>3, <3>3, <3>5 DEF DataRead
  <2> QED BY <2>2, <2>3
<1> QED BY <1>6, <1>7, <1>8

(* A control frame of such a writer.                                        *)
LEMMA ControlTaken ==
  ASSUME NEW a \in Readers, NEW f \in Frames, is_control(f.opcode), f.fin, ~f.rsv /\ f.length = "Minimal", ~f.rsv1,
         f.masked <=> role = "Server", Len(f.payload) <= MaxControl,
         f.payload # <<Garbage>>, f.payload # <<BadReason>>
  PROVE  /\ Verdict(a, f) = ""
         /\ Taken(a, f) = [a EXCEPT !.got = Append(@, [opcode |-> f.opcode, payload |-> f.payload])]
<1>1. ~(Len(f.payload) > MaxControl)
  <2>1. Len(f.payload) \in Nat
    BY DEF Frames
  <2>2. MaxControl \in Nat
    BY WsCodecAssumption
  <2> QED BY <2>1, <2>2
<1>2. f.opcode # "Reserved"
  BY DEF is_control
<1>3. check(a.fragment, f) = ""
  <2>1. f.masked \in BOOLEAN
    BY DEF Frames
  <2>2. f.masked = (role = "Server")
    BY <2>1, Zenon
  <2>3. read_header(f) = ""
    BY <1>2 DEF read_header
  <2> QED BY <1>1, <2>2, <2>3, Zenon DEF check
<1>4. close_frame(f) = ""
  BY DEF close_frame
<1> QED BY <1>3, <1>4 DEF Verdict, Taken

(* What Frame and Judged make.                                              *)
FrameSays(f, opcode, fin, rsv1, payload) ==
  /\ f \in Frames /\ f.opcode = opcode /\ (f.fin <=> fin) /\ (f.rsv1 <=> rsv1) /\ ~f.rsv /\ f.length = "Minimal"
  /\ (f.masked <=> role = "Server") /\ f.payload = payload /\ f.wrong = ""
JudgedSays(g, f, total, size) ==
  /\ g \in Frames /\ g.opcode = f.opcode /\ (g.fin <=> f.fin) /\ (g.rsv1 <=> f.rsv1) /\ (g.rsv <=> f.rsv) /\ g.length = f.length
  /\ (g.masked <=> f.masked) /\ g.payload = f.payload
  /\ g.wrong = IF ~is_control(f.opcode) /\ (Len(f.payload) > MaxFrame \/ total > MaxMessage \/ (f.fin /\ size > MaxMessage))
               THEN "TOO_BIG" ELSE ""

LEMMA FrameIs ==
  ASSUME Settled, NEW opcode \in Opcodes, NEW fin \in BOOLEAN, NEW rsv1 \in BOOLEAN, NEW payload \in Seq(Units)
  PROVE  FrameSays(Frame(opcode, fin, rsv1, payload), opcode, fin, rsv1, payload)
<1>1. PICK masked \in BOOLEAN : masked = (writer = "Client")
  OBVIOUS
<1>2. masked <=> role = "Server"
  BY <1>1, OtherSide
<1>3. Frame(opcode, fin, rsv1, payload) =
        [opcode |-> opcode, fin |-> fin, rsv1 |-> rsv1, rsv |-> FALSE, masked |-> masked,
          length |-> "Minimal", payload |-> payload, wrong |-> ""]
  BY <1>1, Zenon DEF Frame
<1>4. PICK f : f = [opcode |-> opcode, fin |-> fin, rsv1 |-> rsv1, rsv |-> FALSE, masked |-> masked,
          length |-> "Minimal", payload |-> payload, wrong |-> ""]
  OBVIOUS
<1>5. f.opcode = opcode /\ f.payload = payload /\ f.wrong = "" /\ f.length = "Minimal"
  BY <1>4
<1>6. (f.fin <=> fin) /\ (f.rsv1 <=> rsv1) /\ (f.rsv <=> FALSE) /\ (f.masked <=> masked)
  BY <1>4
<1>7. f \in Frames
  <2>1. FALSE \in BOOLEAN /\ "" \in Codes /\ "Minimal" \in Lengths
    BY DEF Codes, Lengths
  <2> QED BY <1>4, <2>1, Zenon DEF Frames
<1>8. FrameSays(f, opcode, fin, rsv1, payload)
  BY <1>2, <1>5, <1>6, <1>7 DEF FrameSays
<1> QED BY <1>3, <1>4, <1>8, Zenon

LEMMA JudgedIs ==
  ASSUME NEW f \in Frames, NEW total, NEW size
  PROVE  JudgedSays(Judged(f, total, size), f, total, size)
<1>1. PICK code : code = IF ~is_control(f.opcode) /\ (Len(f.payload) > MaxFrame \/ total > MaxMessage \/ (f.fin /\ size > MaxMessage))
                         THEN "TOO_BIG" ELSE ""
  OBVIOUS
<1>2. code \in Codes
  BY <1>1 DEF Codes
<1>3. PICK g : g = [f EXCEPT !.wrong = code]
  OBVIOUS
<1>4. Judged(f, total, size) = g
  BY <1>1, <1>3, Zenon DEF Judged
<1>5. g.opcode = f.opcode /\ g.payload = f.payload /\ g.wrong = code
  BY <1>3 DEF Frames
<1>6. (g.fin <=> f.fin) /\ (g.rsv1 <=> f.rsv1) /\ (g.rsv <=> f.rsv) /\ g.length = f.length /\ (g.masked <=> f.masked)
  BY <1>3 DEF Frames
<1>7. g \in Frames
  BY <1>2, <1>3 DEF Frames
<1>8. JudgedSays(g, f, total, size)
  BY <1>1, <1>5, <1>6, <1>7 DEF JudgedSays
<1> QED BY <1>4, <1>8, Zenon

-----------------------------------------------------------------------------
(* The writer, and the reader that has read all that was written.           *)

Idle(a) == writing = NoParams /\ a.fragment = NoParams /\ Ends(compressor, a.window)

(* What a has of the message in progress.                                   *)
SoFar(a) == IF a.fragment = NoParams THEN << >> ELSE a.fragment.payload
(* a has what was sent of m, and m is the rest of a message; the compressor *)
(* had the window w when it took that message.                              *)
Carries(a, m, w) ==
  /\ m \in Outgoing /\ m.body.n # 0 /\ (m.deflated => params[role] # NoParams)
  /\ m.fresh => a.fragment = NoParams /\ m.done = 0
  /\ ~m.fresh => /\ a.fragment \in Incoming /\ a.fragment.opcode = m.opcode /\ (a.fragment.compressed <=> m.deflated)
                 /\ Len(a.fragment.payload) = m.done
  /\ SoFar(a) \o m.rest = IF m.deflated THEN Deflated(m.body, w) ELSE Plain(m.body)
  /\ m.deflated => Ends(w, Held(a))
(* The compressor has taken m since, if it is compressed at all.            *)
Follows(a, m, w) == IF m.deflated THEN compressor = Append(w, m.body.n) ELSE Ends(compressor, a.window)
Busy(a) == ~writing.fresh /\ \E w \in Seq(Nat) : Carries(a, writing, w) /\ Follows(a, writing, w)
InStep(a) == a.got = messages /\ (Idle(a) \/ Busy(a))

(* The readers that there will be while the frames l are read: each makes   *)
(* of its frame what the frame calls for, up to the first that is refused;  *)
(* and the last of them is in step with the writer.                         *)
Right(l, n) == \A j \in 1 .. n : l[j].wrong = ""
Step(a, f, b) == Verdict(a, f) = f.wrong /\ (f.wrong = "" => b = Taken(a, f))
Chain(st, l) ==
  /\ \A i \in 0 .. Len(l) : st[i] \in Readers /\ Begins(st[i].got, messages)
  /\ st[0] = Reader
  /\ \A i \in 1 .. Len(l) : Right(l, i - 1) => Step(st[i - 1], l[i], st[i])
  /\ Right(l, Len(l)) => InStep(st[Len(l)])

WritingOk == writing = NoParams \/ (writing \in Outgoing /\ ~writing.fresh /\ writing.body.n # 0)
CodecInv ==
  /\ Settled /\ WritingOk
  /\ link \in Seq(Frames) /\ messages \in Seq(Received) /\ compressor \in Seq(Nat)
  /\ native => writing = NoParams
  /\ got \in Seq(Received) /\ Begins(got, messages) /\ dead = broken
  /\ dead = "" => \E st, l : l = link /\ Chain(st, l)

LEMMA SameReading ==
  ASSUME UNCHANGED <<role, params>>
  PROVE  \A a, f : Verdict(a, f)' = Verdict(a, f) /\ Taken(a, f)' = Taken(a, f)
BY DEF Verdict, Taken, check, extended, finish, resets

LEMMA SameStep ==
  ASSUME UNCHANGED <<role, params>>, NEW a, NEW f, NEW b PROVE Step(a, f, b)' <=> Step(a, f, b)
BY SameReading DEF Step

(* A frame of a message, whole or in part.                                  *)
SentFrame(m, k) ==
  Judged(Frame(IF m.fresh THEN m.opcode ELSE "Continuation", k = Len(m.rest), m.fresh /\ m.deflated, SubSeq(m.rest, 1, k)),
         m.done + k, m.body.size)

LEMMA OutgoingIs ==
  ASSUME NEW m \in Outgoing
  PROVE  /\ m.opcode \in Data /\ m.body \in Matter /\ m.rest \in Seq(Units) /\ m.done \in Nat /\ m # NoParams
         /\ m.deflated \in BOOLEAN /\ m.fresh \in BOOLEAN
<1>1. m # NoParams
  BY NoParamsAssumption
<1> QED BY <1>1 DEF Outgoing, Matter

LEMMA IncomingIs ==
  ASSUME NEW m \in Incoming
  PROVE  m.opcode \in Data /\ m.payload \in Seq(Units) /\ m # NoParams /\ m.compressed \in BOOLEAN
<1>1. m # NoParams
  BY NoParamsAssumption
<1> QED BY <1>1 DEF Incoming

LEMMA SentFrameIs ==
  ASSUME Settled, NEW m \in Outgoing, NEW k \in 0 .. Len(m.rest)
  PROVE  /\ SentFrame(m, k) \in Frames
         /\ SentFrame(m, k).opcode = (IF m.fresh THEN m.opcode ELSE "Continuation")
         /\ SentFrame(m, k).fin <=> k = Len(m.rest)
         /\ SentFrame(m, k).rsv1 <=> m.fresh /\ m.deflated
         /\ ~SentFrame(m, k).rsv /\ SentFrame(m, k).length = "Minimal"
         /\ SentFrame(m, k).masked <=> role = "Server"
         /\ SentFrame(m, k).payload = SubSeq(m.rest, 1, k)
         /\ SentFrame(m, k).wrong = IF k > MaxFrame \/ m.done + k > MaxMessage \/ (k = Len(m.rest) /\ m.body.size > MaxMessage)
                                    THEN "TOO_BIG" ELSE ""
<1>1. PICK op : op = IF m.fresh THEN m.opcode ELSE "Continuation"
  OBVIOUS
<1>2. op \in Opcodes /\ ~is_control(op)
  BY <1>1, OutgoingIs DEF Opcodes, Data, is_control
<1>3. PICK fin \in BOOLEAN : fin = (k = Len(m.rest))
  OBVIOUS
<1>4. PICK rsv1 \in BOOLEAN : rsv1 = (m.fresh /\ m.deflated)
  OBVIOUS
<1>5. PICK payload : payload = SubSeq(m.rest, 1, k)
  OBVIOUS
<1>5a. payload \in Seq(Units) /\ Len(payload) = k
  <2>1. m.rest \in Seq(Units)
    BY OutgoingIs
  <2> QED BY <1>5, <2>1
<1>6. PICK f : f = Frame(op, fin, rsv1, payload)
  OBVIOUS
<1>7. /\ f \in Frames /\ f.opcode = op /\ (f.fin <=> fin) /\ (f.rsv1 <=> rsv1) /\ ~f.rsv /\ f.length = "Minimal"
      /\ (f.masked <=> role = "Server") /\ f.payload = payload
  <2>1. FrameSays(f, op, fin, rsv1, payload)
    BY <1>2, <1>5a, <1>6, FrameIs, Zenon
  <2> QED BY <2>1 DEF FrameSays
<1>8. PICK g : g = Judged(f, m.done + k, m.body.size)
  OBVIOUS
<1>9. g = SentFrame(m, k)
  BY <1>1, <1>3, <1>4, <1>5, <1>6, <1>8, Zenon DEF SentFrame
<1>10. /\ g \in Frames /\ g.opcode = f.opcode /\ (g.fin <=> f.fin) /\ (g.rsv1 <=> f.rsv1) /\ (g.rsv <=> f.rsv) /\ g.length = f.length
       /\ (g.masked <=> f.masked) /\ g.payload = f.payload
       /\ g.wrong = IF ~is_control(f.opcode) /\ (Len(f.payload) > MaxFrame \/ m.done + k > MaxMessage \/ (f.fin /\ m.body.size > MaxMessage))
                    THEN "TOO_BIG" ELSE ""
  <2>1. f \in Frames
    BY <1>7
  <2>2. JudgedSays(g, f, m.done + k, m.body.size)
    BY <1>8, <2>1, JudgedIs, Zenon
  <2> QED BY <2>2 DEF JudgedSays
<1>11. g.wrong = IF k > MaxFrame \/ m.done + k > MaxMessage \/ (k = Len(m.rest) /\ m.body.size > MaxMessage)
                 THEN "TOO_BIG" ELSE ""
  BY <1>2, <1>3, <1>5a, <1>7, <1>10
<1> QED BY <1>1, <1>3, <1>4, <1>5, <1>7, <1>9, <1>10, <1>11

(* The frame is the writer's next, and the reader a that takes it keeps in step. *)
Keeps(a, f) ==
  /\ Verdict(a, f) = f.wrong
  /\ \A b : f.wrong = "" /\ b = Taken(a, f) => b \in Readers /\ b.got = messages' /\ InStep(b)'

LEMMA SendWrites ==
  ASSUME NEW m \in Outgoing, NEW k \in 0 .. Len(m.rest), Send(m, k), m.fresh => m.done = 0
  PROVE  /\ room /\ link' = Append(link, SentFrame(m, k))
         /\ k = Len(m.rest) => writing' = NoParams /\ messages' = Append(messages, [opcode |-> m.opcode, payload |-> Plain(m.body)])
         /\ k # Len(m.rest) => /\ writing' = [m EXCEPT !.done = @ + k, !.fresh = FALSE, !.rest = SubSeq(@, k + 1, Len(@))]
                               /\ messages' = messages
         /\ UNCHANGED <<role, native, params, decompressor, fragment, dead, got, broken>>
<1>1. (m.done = 0 /\ m.fresh) = m.fresh
  BY OutgoingIs, Zenon
<1>2. (IF m.done = 0 /\ m.fresh THEN m.opcode ELSE "Continuation") = (IF m.fresh THEN m.opcode ELSE "Continuation")
  BY <1>1, Zenon
<1>3. link' = Append(link, SentFrame(m, k))
  BY <1>2, Zenon DEF Send, SentFrame
<1>4. k = Len(m.rest) => writing' = NoParams /\ messages' = Append(messages, [opcode |-> m.opcode, payload |-> Plain(m.body)])
  BY DEF Send, Written
<1>5. k # Len(m.rest) => /\ writing' = [m EXCEPT !.done = @ + k, !.fresh = FALSE, !.rest = SubSeq(@, k + 1, Len(@))]
                         /\ messages' = messages
  BY Zenon DEF Send
<1> QED BY <1>3, <1>4, <1>5 DEF Send

(* The rest of a message, once k more units of it were sent.                *)
Advanced(m, k) == [m EXCEPT !.done = @ + k, !.fresh = FALSE, !.rest = SubSeq(@, k + 1, Len(@))]
IsRest(r, m, k) ==
  /\ r \in Outgoing /\ r.opcode = m.opcode /\ r.body = m.body /\ (r.deflated <=> m.deflated)
  /\ r.rest = SubSeq(m.rest, k + 1, Len(m.rest)) /\ r.done = m.done + k /\ ~r.fresh

LEMMA RestIs ==
  ASSUME NEW m \in Outgoing, NEW k \in 0 .. Len(m.rest)
  PROVE  IsRest(Advanced(m, k), m, k)
<1>0. PICK r : r = Advanced(m, k)
  OBVIOUS
<1>1. m.rest \in Seq(Units) /\ m.done \in Nat
  BY OutgoingIs
<1>2. PICK rest : rest = SubSeq(m.rest, k + 1, Len(m.rest))
  OBVIOUS
<1>3. rest \in Seq(Units)
  BY <1>1, <1>2
<1>4. PICK done \in Nat : done = m.done + k
  BY <1>1
<1>5. r = [m EXCEPT !.done = done, !.fresh = FALSE, !.rest = rest]
  BY <1>0, <1>2, <1>4 DEF Outgoing, Advanced
<1>6. r.opcode = m.opcode /\ r.body = m.body /\ r.rest = rest /\ r.done = done
  BY <1>5 DEF Outgoing
<1>7. (r.deflated <=> m.deflated) /\ ~r.fresh
  BY <1>5 DEF Outgoing
<1>8. r \in Outgoing
  BY <1>3, <1>5 DEF Outgoing
<1>9. IsRest(r, m, k)
  BY <1>2, <1>4, <1>6, <1>7, <1>8 DEF IsRest
<1> QED BY <1>0, <1>9, Zenon

LEMMA ReaderIs ==
  ASSUME NEW a \in Readers
  PROVE  /\ a.fragment \in Incoming \cup {NoParams} /\ a.window \in Seq(Nat) /\ a.got \in Seq(Received)
         /\ SoFar(a) \in Seq(Units)
<1>1. a.fragment \in Incoming \cup {NoParams} /\ a.window \in Seq(Nat) /\ a.got \in Seq(Received)
  BY DEF Readers
<1>2. CASE a.fragment = NoParams
  BY <1>1, <1>2 DEF SoFar
<1>3. CASE a.fragment # NoParams
  <2>1. a.fragment.payload \in Seq(Units)
    BY <1>1, <1>3, IncomingIs
  <2> QED BY <1>1, <1>3, <2>1 DEF SoFar
<1> QED BY <1>2, <1>3

(* What the reader has of a message with the frame that was sent.           *)
GrowsTo(g, a, m, w, k) ==
  /\ g \in Incoming /\ g.opcode = m.opcode /\ (g.compressed <=> m.deflated)
  /\ Len(g.payload) = m.done + k
  /\ g.payload \o SubSeq(m.rest, k + 1, Len(m.rest)) = SoFar(a) \o m.rest
  /\ k = Len(m.rest) => IsWhole(g, m.body, w)

LEMMA Grows ==
  ASSUME Settled, NEW a \in Readers, NEW m, NEW w \in Seq(Nat), Carries(a, m, w),
         NEW k \in 0 .. Len(m.rest)
  PROVE  GrowsTo(extended(a.fragment, SentFrame(m, k)), a, m, w, k)
<1>0. PICK g : g = extended(a.fragment, SentFrame(m, k))
  OBVIOUS
<1>1. /\ m \in Outgoing
      /\ SoFar(a) \o m.rest = IF m.deflated THEN Deflated(m.body, w) ELSE Plain(m.body)
      /\ m.fresh => a.fragment = NoParams /\ m.done = 0
      /\ ~m.fresh => /\ a.fragment \in Incoming /\ a.fragment.opcode = m.opcode /\ (a.fragment.compressed <=> m.deflated)
                     /\ Len(a.fragment.payload) = m.done
  BY DEF Carries
<1>2. m.opcode \in Data /\ m.rest \in Seq(Units) /\ m.done \in Nat /\ m.deflated \in BOOLEAN /\ m.fresh \in BOOLEAN
  BY <1>1, OutgoingIs
<1>3. PICK f : f = SentFrame(m, k)
  OBVIOUS
<1>4. /\ f \in Frames /\ f.opcode = (IF m.fresh THEN m.opcode ELSE "Continuation")
      /\ (f.rsv1 <=> m.fresh /\ m.deflated) /\ f.payload = SubSeq(m.rest, 1, k)
  BY <1>1, <1>3, SentFrameIs
<1>5. SoFar(a) \in Seq(Units)
  BY ReaderIs
<1>6. PICK p, q : p = SubSeq(m.rest, 1, k) /\ q = SubSeq(m.rest, k + 1, Len(m.rest))
  OBVIOUS
<1>7. /\ p \in Seq(Units) /\ Len(p) = k /\ q \in Seq(Units)
      /\ (SoFar(a) \o p) \o q = SoFar(a) \o m.rest
      /\ k = Len(m.rest) => p = m.rest
  <2>1. PICK s, t : s = m.rest /\ t = SoFar(a)
    OBVIOUS
  <2>2. s \in Seq(Units) /\ t \in Seq(Units) /\ k \in 0 .. Len(s)
    BY <1>2, <1>5, <2>1
  <2>3. /\ SubSeq(s, 1, k) \in Seq(Units) /\ Len(SubSeq(s, 1, k)) = k
        /\ SubSeq(s, k + 1, Len(s)) \in Seq(Units)
        /\ (t \o SubSeq(s, 1, k)) \o SubSeq(s, k + 1, Len(s)) = t \o s
        /\ k = Len(s) => SubSeq(s, 1, k) = s
    BY <2>2, CutInTwo
  <2> QED BY <1>6, <2>1, <2>3, Zenon
<1>8. /\ a.fragment = NoParams => g = [opcode |-> f.opcode, compressed |-> f.rsv1, payload |-> f.payload]
      /\ a.fragment # NoParams => g = [opcode |-> a.fragment.opcode, compressed |-> a.fragment.compressed,
                                       payload |-> a.fragment.payload \o f.payload]
  <2>1. a.fragment \in Incoming \cup {NoParams} /\ g = extended(a.fragment, f)
    BY <1>0, <1>3, ReaderIs
  <2> QED BY <1>4, <2>1, ExtendedIs
<1>9. /\ g \in Incoming /\ g.opcode = m.opcode /\ (g.compressed <=> m.deflated)
      /\ g.payload = SoFar(a) \o p /\ Len(g.payload) = m.done + k
  <2>1. CASE m.fresh
    <3>1. a.fragment = NoParams /\ m.done = 0
      BY <1>1, <2>1
    <3>2. SoFar(a) \o p = p
      <4>1. PICK e : e = << >> \o p
        OBVIOUS
      <4>2. e \in Seq(Units) /\ Len(e) = Len(p) /\ \A i \in 1 .. Len(e) : e[i] = p[i]
        BY <1>7, <4>1
      <4>3. e = p
        BY <1>7, <4>2, SameSequence
      <4> QED BY <3>1, <4>1, <4>3 DEF SoFar
    <3>3. g = [opcode |-> m.opcode, compressed |-> f.rsv1, payload |-> p]
      BY <1>4, <1>6, <1>8, <2>1, <3>1
    <3>4. f.rsv1 \in BOOLEAN /\ (f.rsv1 <=> m.deflated)
      BY <1>4, <2>1 DEF Frames
    <3>5. g \in Incoming
      BY <1>2, <1>7, <3>3, <3>4 DEF Incoming
    <3>6. g.opcode = m.opcode /\ g.payload = p
      BY <3>3
    <3>7. g.compressed <=> m.deflated
      BY <3>3, <3>4
    <3> QED BY <1>2, <1>7, <3>1, <3>2, <3>5, <3>6, <3>7
  <2>2. CASE ~m.fresh
    <3>1. /\ a.fragment \in Incoming /\ a.fragment.opcode = m.opcode /\ (a.fragment.compressed <=> m.deflated)
          /\ Len(a.fragment.payload) = m.done /\ a.fragment # NoParams
      BY <1>1, <2>2, IncomingIs
    <3>2. PICK c : c = a.fragment
      OBVIOUS
    <3>3. c.opcode \in Data /\ c.payload \in Seq(Units) /\ c.compressed \in BOOLEAN /\ SoFar(a) = c.payload
      BY <3>1, <3>2, IncomingIs DEF SoFar
    <3>4. g = [opcode |-> c.opcode, compressed |-> c.compressed, payload |-> c.payload \o p]
      <4>1. f.payload = p
        BY <1>4, <1>6
      <4>2. a.fragment # NoParams
        BY <3>1
      <4> QED BY <1>8, <3>2, <4>1, <4>2, Zenon
    <3>5. c.payload \o p \in Seq(Units) /\ Len(c.payload \o p) = Len(c.payload) + Len(p)
      <4>1. p \in Seq(Units) /\ c.payload \in Seq(Units)
        BY <1>7, <3>3
      <4> QED BY <4>1
    <3>6. g \in Incoming
      BY <3>3, <3>4, <3>5 DEF Incoming
    <3>7. g.opcode = m.opcode /\ g.payload = SoFar(a) \o p /\ Len(g.payload) = m.done + k
      BY <1>7, <3>1, <3>2, <3>3, <3>4, <3>5
    <3>8. g.compressed <=> m.deflated
      BY <3>1, <3>2, <3>4
    <3> QED BY <3>6, <3>7, <3>8
  <2> QED BY <2>1, <2>2
<1>10. k = Len(m.rest) => IsWhole(g, m.body, w)
  BY <1>1, <1>7, <1>9 DEF IsWhole
<1>11. g.payload \o SubSeq(m.rest, k + 1, Len(m.rest)) = SoFar(a) \o m.rest
  BY <1>6, <1>7, <1>9
<1>12. GrowsTo(g, a, m, w, k)
  BY <1>9, <1>10, <1>11 DEF GrowsTo
<1> QED BY <1>0, <1>12, Zenon

LEMMA SentKeeps ==
  ASSUME Settled, NEW a \in Readers, a.got = messages, NEW m, NEW w \in Seq(Nat), Carries(a, m, w),
         NEW k \in 0 .. Len(m.rest), Send(m, k), Follows(a, m, w)'
  PROVE  Keeps(a, SentFrame(m, k))
<1>1. /\ m \in Outgoing /\ m.body.n # 0 /\ (m.deflated => params[role] # NoParams) /\ (m.deflated => Ends(w, Held(a)))
      /\ SoFar(a) \o m.rest = IF m.deflated THEN Deflated(m.body, w) ELSE Plain(m.body)
      /\ m.fresh => a.fragment = NoParams /\ m.done = 0
      /\ ~m.fresh => a.fragment \in Incoming
  BY DEF Carries
<1>2. /\ m.opcode \in Data /\ m.body \in Matter /\ m.rest \in Seq(Units) /\ m.done \in Nat
  BY <1>1, OutgoingIs
<1>3. PICK f : f = SentFrame(m, k)
  OBVIOUS
<1>4. /\ f \in Frames /\ f.opcode = (IF m.fresh THEN m.opcode ELSE "Continuation")
      /\ (f.fin <=> k = Len(m.rest)) /\ (f.rsv1 <=> m.fresh /\ m.deflated) /\ ~f.rsv /\ f.length = "Minimal" /\ (f.masked <=> role = "Server")
      /\ f.payload = SubSeq(m.rest, 1, k)
      /\ f.wrong = IF k > MaxFrame \/ m.done + k > MaxMessage \/ (k = Len(m.rest) /\ m.body.size > MaxMessage)
                   THEN "TOO_BIG" ELSE ""
  BY <1>1, <1>3, SentFrameIs
<1>5. PICK g : g = extended(a.fragment, f)
  OBVIOUS
<1>6. /\ g \in Incoming /\ g.opcode = m.opcode /\ (g.compressed <=> m.deflated)
      /\ Len(g.payload) = m.done + k
      /\ g.payload \o SubSeq(m.rest, k + 1, Len(m.rest)) = SoFar(a) \o m.rest
      /\ k = Len(m.rest) => IsWhole(g, m.body, w)
  <2>1. GrowsTo(g, a, m, w, k)
    BY <1>3, <1>5, Grows, Zenon
  <2> QED BY <2>1 DEF GrowsTo
<1>7. Len(f.payload) = k
  <2>1. f.payload = SubSeq(m.rest, 1, k) /\ m.rest \in Seq(Units)
    BY <1>2, <1>4
  <2> QED BY <2>1
<1>8. (f.opcode = "Continuation") <=> (a.fragment # NoParams)
  <2>1. CASE m.fresh
    BY <1>1, <1>2, <1>4, <2>1 DEF Data
  <2>2. CASE ~m.fresh
    BY <1>1, <1>4, <2>2, IncomingIs
  <2> QED BY <2>1, <2>2
<1>9. DataRead(a, f, g, m.body)
  <2>1. f.opcode \in Data \cup {"Continuation"}
    BY <1>2, <1>4
  <2>2. f.rsv1 => f.opcode \in Data /\ params[role] # NoParams
    BY <1>1, <1>2, <1>4
  <2>3. f.wrong = IF Len(f.payload) > MaxFrame \/ Len(g.payload) > MaxMessage \/ (f.fin /\ m.body.size > MaxMessage)
                  THEN "TOO_BIG" ELSE ""
    BY <1>4, <1>6, <1>7
  <2>4. (f.fin => IsWhole(g, m.body, w)) /\ (g.compressed => Ends(w, Held(a))) /\ ~f.rsv /\ f.length = "Minimal" /\ (f.masked <=> role = "Server")
    BY <1>1, <1>4, <1>6
  <2>5. extended(a.fragment, f) = g /\ f \in Frames /\ g \in Incoming /\ m.body \in Matter /\ m.body.n # 0
    BY <1>1, <1>2, <1>4, <1>5, <1>6
  <2>6. DataSays(f, g, m.body, w, a.fragment)
    BY <1>8, <2>1, <2>2, <2>3, <2>4, <2>5, Zenon DEF DataSays
  <2> QED BY <2>4, <2>5, <2>6, DataTaken, Zenon
<1>10. /\ k = Len(m.rest) => writing' = NoParams /\ messages' = Append(messages, [opcode |-> m.opcode, payload |-> Plain(m.body)])
       /\ k # Len(m.rest) => /\ writing' = [m EXCEPT !.done = @ + k, !.fresh = FALSE, !.rest = SubSeq(@, k + 1, Len(@))]
                             /\ messages' = messages
       /\ UNCHANGED <<role, params>>
  BY <1>1, SendWrites
<1>11. Follows(a, m, w)' = IF m.deflated THEN compressor' = Append(w, m.body.n) ELSE Ends(compressor', a.window)
  BY Zenon DEF Follows, Ends
<1>12. a.window \in Seq(Nat) /\ Held(a) \in Seq(Nat) /\ a.got \in Seq(Received) /\ m.body.n \in Nat
  BY <1>2, HeldIs, ReaderIs DEF Matter
<1>13. ASSUME k = Len(m.rest), f.wrong = "", NEW b, b = Taken(a, f)
       PROVE  b \in Readers /\ b.got = messages' /\ InStep(b)'
  <2>1. b = AfterAll(a, g, m.body)
    BY <1>4, <1>9, <1>13 DEF DataRead
  <2>2. PICK win, all : /\ win = (IF g.compressed THEN Append(Held(a), m.body.n) ELSE a.window)
                        /\ all = Append(a.got, [opcode |-> g.opcode, payload |-> Plain(m.body)])
    OBVIOUS
  <2>3. b = [fragment |-> NoParams, window |-> win, got |-> all]
    BY <2>1, <2>2, Zenon DEF AfterAll
  <2>4. win \in Seq(Nat)
    BY <1>12, <2>2
  <2>5. all \in Seq(Received)
    <3>1. PICK r : r = [opcode |-> g.opcode, payload |-> Plain(m.body)]
      OBVIOUS
    <3>2. g.opcode \in Opcodes /\ Plain(m.body) \in Seq(Units)
      BY <1>2, <1>6, PlainIs DEF Opcodes
    <3>3. r \in Received
      BY <3>1, <3>2 DEF Received
    <3> QED BY <1>12, <2>2, <3>1, <3>3
  <2>6. all = messages'
    BY <1>6, <1>10, <1>13, <2>2
  <2>7. Ends(compressor', win)
    <3>1. CASE m.deflated
      <4>1. compressor' = Append(w, m.body.n) /\ win = Append(Held(a), m.body.n) /\ Ends(w, Held(a))
        BY <1>1, <1>6, <1>11, <2>2, <3>1
      <4> QED BY <1>12, <4>1, EndsAppended
    <3>2. CASE ~m.deflated
      BY <1>6, <1>11, <2>2, <3>2
    <3> QED BY <3>1, <3>2
  <2>8. b.fragment = NoParams /\ b.window = win /\ b.got = all
    BY <2>3
  <2>9. b \in Readers
    BY <2>3, <2>4, <2>5 DEF Readers
  <2>10. InStep(b)' = (b.got = messages' /\ (Idle(b)' \/ Busy(b)'))
    BY Zenon DEF InStep
  <2>11. Idle(b)' = (writing' = NoParams /\ b.fragment = NoParams /\ Ends(compressor', b.window))
    BY Zenon DEF Idle, Ends
  <2> QED BY <1>10, <1>13, <2>6, <2>7, <2>8, <2>9, <2>10, <2>11
<1>14. ASSUME k # Len(m.rest), f.wrong = "", NEW b, b = Taken(a, f)
       PROVE  b \in Readers /\ b.got = messages' /\ InStep(b)'
  <2>1. b = [a EXCEPT !.fragment = g]
    BY <1>4, <1>9, <1>14 DEF DataRead, AfterPart
  <2>2. b.fragment = g /\ b.window = a.window /\ b.got = a.got /\ b \in Readers
    BY <1>6, <2>1 DEF Readers
  <2>3. PICK r : r = writing'
    OBVIOUS
  <2>4. /\ r \in Outgoing /\ r.opcode = m.opcode /\ r.body = m.body /\ (r.deflated <=> m.deflated)
        /\ r.rest = SubSeq(m.rest, k + 1, Len(m.rest)) /\ r.done = m.done + k /\ ~r.fresh
    <3>1. r = Advanced(m, k)
      BY <1>10, <1>14, <2>3, Zenon DEF Advanced
    <3>2. IsRest(r, m, k)
      BY <1>1, <3>1, RestIs, Zenon
    <3> QED BY <3>2 DEF IsRest
  <2>5. SoFar(b) = g.payload /\ g # NoParams
    BY <1>6, <2>2, IncomingIs DEF SoFar
  <2>6. Held(b) = Held(a)
    BY <2>2 DEF Held
  <2>7. SoFar(b) \o r.rest = IF m.deflated THEN Deflated(m.body, w) ELSE Plain(m.body)
    BY <1>1, <1>6, <2>4, <2>5
  <2>8. Carries(b, r, w)
    BY <1>1, <1>6, <2>2, <2>4, <2>6, <2>7 DEF Carries
  <2>9. Carries(b, r, w)'
    BY <1>10, <2>8 DEF Carries, SoFar, Held, resets, Ends
  <2>10. Follows(b, r, w)'
    BY <1>11, <2>2, <2>4 DEF Follows
  <2>11. Busy(b)'
    BY <2>3, <2>4, <2>9, <2>10 DEF Busy
  <2> QED BY <1>10, <1>14, <2>2, <2>11 DEF InStep
<1> QED BY <1>3, <1>9, <1>13, <1>14 DEF Keeps, DataRead

-----------------------------------------------------------------------------
(* Another frame is written.                                                *)

LEMMA BeginsFurther ==
  ASSUME NEW S, NEW s \in Seq(S), NEW t \in Seq(S), NEW u \in Seq(S), Begins(s, t), Begins(t, u)
  PROVE  Begins(s, u)
BY DEF Begins

Writes(f) ==
  /\ dead = "" /\ f \in Frames /\ link' = Append(link, f)
  /\ UNCHANGED <<role, native, params, decompressor, fragment, dead, got, broken>>
  /\ messages' \in Seq(Received) /\ compressor' \in Seq(Nat) /\ (native => writing' = NoParams)
  /\ Begins(messages, messages') /\ WritingOk'
  /\ \A a \in Readers : InStep(a) => Keeps(a, f)

LEMMA FrameWritten ==
  ASSUME CodecInv, NEW f, Writes(f)
  PROVE  CodecInv'
<1>0. /\ dead = "" /\ f \in Frames /\ link' = Append(link, f)
      /\ UNCHANGED <<role, params, decompressor, fragment, dead, got, broken>>
      /\ messages' \in Seq(Received) /\ compressor' \in Seq(Nat)
      /\ Begins(messages, messages')
      /\ native' => writing' = NoParams
      /\ WritingOk'
  BY DEF Writes
<1>1. PICK st, l : l = link /\ Chain(st, l)
  BY <1>0 DEF CodecInv
<1>2. l \in Seq(Frames) /\ messages \in Seq(Received) /\ got \in Seq(Received) /\ Begins(got, messages)
  BY <1>1 DEF CodecInv
<1>3. PICK n \in Nat : n = Len(l)
  BY <1>2
<1>4. PICK ln : ln = Append(l, f)
  OBVIOUS
<1>5. ln \in Seq(Frames) /\ Len(ln) = n + 1 /\ ln[n + 1] = f /\ \A j \in 1 .. n : ln[j] = l[j]
  <2>1. f \in Frames
    BY <1>0
  <2> QED BY <1>2, <1>3, <1>4, <2>1
<1>6. link' = ln
  BY <1>0, <1>1, <1>4
<1>7. /\ \A i \in 0 .. n : st[i] \in Readers /\ Begins(st[i].got, messages)
      /\ st[0] = Reader
      /\ \A i \in 1 .. n : Right(l, i - 1) => Step(st[i - 1], l[i], st[i])
      /\ Right(l, n) => InStep(st[n])
  BY <1>1, <1>3 DEF Chain
<1>8. PICK b : b = IF Right(l, n) /\ f.wrong = "" THEN Taken(st[n], f) ELSE st[n]
  OBVIOUS
<1>9. /\ Right(l, n) => Step(st[n], f, b)
      /\ Right(l, n) /\ f.wrong = "" => b \in Readers /\ b.got = messages' /\ InStep(b)'
  <2>1. st[n] \in Readers
    BY <1>7
  <2>2. Right(l, n) => Keeps(st[n], f)
    BY <1>7, <2>1, Zenon DEF Writes
  <2> QED BY <1>8, <2>2 DEF Keeps, Step
<1>10. PICK sn : sn = [i \in 0 .. n + 1 |-> IF i <= n THEN st[i] ELSE b]
  OBVIOUS
<1>11. sn[n + 1] = b /\ \A i \in 0 .. n : sn[i] = st[i]
  BY <1>10
<1>12. messages' \in Seq(Received) /\ Begins(messages, messages')
  BY <1>0
<1>13. ASSUME NEW i \in 0 .. n PROVE sn[i] \in Readers /\ Begins(sn[i].got, messages')
  <2>1. sn[i] \in Readers /\ Begins(sn[i].got, messages)
    BY <1>7, <1>11
  <2>2. sn[i].got \in Seq(Received)
    BY <2>1, ReaderIs
  <2> QED BY <1>2, <1>12, <2>1, <2>2, BeginsFurther
<1>14. b \in Readers /\ Begins(b.got, messages')
  <2>1. CASE Right(l, n) /\ f.wrong = ""
    <3>1. b \in Readers /\ b.got = messages'
      BY <1>9, <2>1
    <3>2. Begins(messages', messages')
      BY <1>12 DEF Begins
    <3> QED BY <3>1, <3>2
  <2>2. CASE ~(Right(l, n) /\ f.wrong = "")
    <3>1. b = sn[n]
      <4>1. b = st[n]
        BY <1>8, <2>2, Zenon
      <4> QED BY <1>11, <4>1
    <3> QED BY <1>13, <3>1
  <2> QED BY <2>1, <2>2
<1>15. /\ \A i \in 0 .. n : Right(ln, i) => Right(l, i)
       /\ Right(ln, n + 1) => Right(l, n) /\ f.wrong = ""
  <2>1. ASSUME NEW i \in 0 .. n, \A j \in 1 .. i : ln[j].wrong = "" PROVE \A j \in 1 .. i : l[j].wrong = ""
    <3> TAKE j \in 1 .. i
    <3>1. j \in 1 .. n
      OBVIOUS
    <3>2. ln[j] = l[j]
      BY <1>5, <3>1
    <3>3. ln[j].wrong = ""
      BY <2>1
    <3> QED BY <3>2, <3>3
  <2>2. ASSUME \A j \in 1 .. n + 1 : ln[j].wrong = "" PROVE (\A j \in 1 .. n : l[j].wrong = "") /\ f.wrong = ""
    <3>1. ASSUME NEW j \in 1 .. n PROVE l[j].wrong = ""
      <4>1. ln[j] = l[j] /\ j \in 1 .. n + 1
        BY <1>5
      <4>2. ln[j].wrong = ""
        BY <2>2, <4>1
      <4> QED BY <4>1, <4>2
    <3>2. n + 1 \in 1 .. n + 1 /\ ln[n + 1] = f
      BY <1>5
    <3>3. ln[n + 1].wrong = ""
      BY <2>2, <3>2
    <3> QED BY <3>1, <3>2, <3>3
  <2> QED BY <2>1, <2>2, Zenon DEF Right
<1>16. \A i \in 0 .. Len(ln) : sn[i] \in Readers /\ Begins(sn[i].got, messages')
  BY <1>5, <1>11, <1>13, <1>14
<1>17. sn[0] = Reader'
  <2>1. Reader' = Reader
    BY <1>0 DEF Reader
  <2> QED BY <1>7, <1>11, <2>1
<1>18. ASSUME NEW i \in 1 .. Len(ln), Right(ln, i - 1)
       PROVE  Step(sn[i - 1], ln[i], sn[i])
  <2>1. CASE i \in 1 .. n
    <3>1. Right(l, i - 1)
      <4>1. i - 1 \in 0 .. n
        BY <2>1
      <4> QED BY <1>15, <1>18, <4>1, Zenon
    <3>2. sn[i] = st[i] /\ sn[i - 1] = st[i - 1] /\ ln[i] = l[i]
      BY <1>5, <1>11, <2>1
    <3> QED BY <1>7, <2>1, <3>1, <3>2
  <2>2. CASE i = n + 1
    <3>1. Right(l, n) /\ i - 1 = n
      <4>1. i - 1 = n /\ n \in 0 .. n
        BY <2>2
      <4>2. Right(ln, n)
        BY <1>18, <4>1
      <4> QED BY <1>15, <4>1, <4>2, Zenon
    <3>2. sn[i] = b /\ sn[i - 1] = st[n] /\ ln[i] = f
      BY <1>5, <1>11, <2>2, <3>1
    <3> QED BY <1>9, <3>1, <3>2
  <2> QED BY <1>5, <2>1, <2>2
<1>19. ASSUME NEW i \in 1 .. Len(ln), Right(ln, i - 1)
       PROVE  Step(sn[i - 1], ln[i], sn[i])'
  <2>1. UNCHANGED <<role, params>>
    BY <1>0
  <2> QED BY <1>18, <1>19, <2>1, SameStep
<1>20. Right(ln, Len(ln)) => InStep(sn[Len(ln)])'
  <2>1. sn[Len(ln)] = b
    BY <1>5, <1>11
  <2>2. Right(ln, Len(ln)) => InStep(b)'
    BY <1>5, <1>9, <1>15
  <2> QED BY <2>1, <2>2
<1>21. Chain(sn, ln)'
  BY <1>16, <1>17, <1>19, <1>20 DEF Chain
<1>22. Begins(got, messages')
  BY <1>2, <1>12, BeginsFurther
<1>23. Settled'
  BY <1>0 DEF CodecInv, Settled
<1>24. dead' = broken'
  BY <1>0 DEF CodecInv
<1> QED BY <1>0, <1>2, <1>5, <1>6, <1>21, <1>22, <1>23, <1>24 DEF CodecInv

LEMMA SameWriter ==
  ASSUME UNCHANGED <<role, params, compressor, writing, messages>>, NEW a
  PROVE  InStep(a)' <=> InStep(a)
<1>1. Idle(a)' <=> Idle(a)
  BY DEF Idle
<1>2. Held(a)' = Held(a) /\ SoFar(a)' = SoFar(a)
  BY DEF Held, SoFar, resets
<1>3. ASSUME NEW m, NEW w PROVE (Carries(a, m, w)' <=> Carries(a, m, w)) /\ (Follows(a, m, w)' <=> Follows(a, m, w))
  BY <1>2 DEF Carries, Follows
<1>4. PICK m : m = writing
  OBVIOUS
<1>5. Busy(a) <=> ~m.fresh /\ \E w \in Seq(Nat) : Carries(a, m, w) /\ Follows(a, m, w)
  BY <1>4 DEF Busy
<1>6. Busy(a)' <=> ~m.fresh /\ \E w \in Seq(Nat) : Carries(a, m, w)' /\ Follows(a, m, w)'
  BY <1>4 DEF Busy
<1>7. Busy(a)' <=> Busy(a)
  BY <1>3, <1>5, <1>6
<1> QED BY <1>1, <1>7 DEF InStep

LEMMA DecodeKeeps ==
  ASSUME CodecInv, decode
  PROVE  CodecInv'
<1>0. dead = "" /\ link # << >>
  BY DEF decode
<1>1. PICK st, l : l = link /\ Chain(st, l)
  BY <1>0 DEF CodecInv
<1>2. /\ l \in Seq(Frames) /\ messages \in Seq(Received) /\ compressor \in Seq(Nat) /\ got \in Seq(Received)
      /\ Begins(got, messages)
  BY <1>1 DEF CodecInv
<1>3. PICK n \in Nat : n = Len(l)
  BY <1>2
<1>4. n > 0
  <2>1. l # << >> /\ l \in Seq(Frames)
    BY <1>0, <1>1, <1>2
  <2> QED BY <1>3, <2>1
<1>5. PICK f : f = Head(l)
  OBVIOUS
<1>6. f = l[1] /\ f \in Frames
  BY <1>2, <1>3, <1>4, <1>5
<1>7. PICK ln : ln = Tail(l)
  OBVIOUS
<1>8. ln \in Seq(Frames) /\ Len(ln) = n - 1 /\ \A j \in 1 .. n - 1 : ln[j] = l[j + 1]
  BY <1>2, <1>3, <1>4, <1>7
<1>9. /\ \A i \in 0 .. n : st[i] \in Readers /\ Begins(st[i].got, messages)
      /\ st[0] = Reader
      /\ \A i \in 1 .. n : Right(l, i - 1) => Step(st[i - 1], l[i], st[i])
      /\ Right(l, n) => InStep(st[n])
  BY <1>1, <1>3 DEF Chain
<1>10. Reader \in Readers
  BY <1>9
<1>11. /\ link' = ln /\ broken' = f.wrong /\ dead' = Verdict(st[0], f)
       /\ dead' = "" => Reader' = Taken(st[0], f)
       /\ dead' # "" => got' = got
       /\ UNCHANGED <<role, native, params, compressor, writing, messages>>
  BY <1>1, <1>5, <1>6, <1>7, <1>9, <1>10, DecodeTakes
<1>12. Right(l, 0)
  <2>1. \A j \in 1 .. 0 : FALSE
    OBVIOUS
  <2> QED BY <2>1, Zenon DEF Right
<1>13. Step(st[0], f, st[1])
  BY <1>4, <1>6, <1>9, <1>12
<1>14. dead' = broken'
  BY <1>11, <1>13 DEF Step
<1>15. Settled' /\ WritingOk' /\ (native' => writing' = NoParams)
  BY <1>11 DEF CodecInv, Settled, WritingOk
<1>16. CASE f.wrong # ""
  <2>1. got' = got /\ dead' # ""
    BY <1>11, <1>14, <1>16
  <2> QED BY <1>2, <1>8, <1>11, <1>14, <1>15, <2>1 DEF CodecInv
<1>17. CASE f.wrong = ""
  <2>1. dead' = "" /\ Reader' = st[1]
    BY <1>11, <1>13, <1>14, <1>17 DEF Step
  <2>2. got' = st[1].got
    <3>1. Reader'.got = got'
      BY DEF Reader
    <3> QED BY <2>1, <3>1
  <2>3. st[1] \in Readers /\ Begins(st[1].got, messages)
    BY <1>4, <1>9
  <2>4. got' \in Seq(Received) /\ Begins(got', messages)
    BY <2>2, <2>3, ReaderIs
  <2>5. PICK sn : sn = [i \in 0 .. n - 1 |-> st[i + 1]]
    OBVIOUS
  <2>6. \A i \in 0 .. n - 1 : sn[i] = st[i + 1] /\ i + 1 \in 0 .. n
    BY <2>5
  <2>7. ASSUME NEW i \in 0 .. n - 1, Right(ln, i) PROVE Right(l, i + 1)
    <3>1. ASSUME NEW j \in 1 .. i + 1 PROVE l[j].wrong = ""
      <4>1. CASE j = 1
        BY <1>6, <1>17, <4>1
      <4>2. CASE j # 1
        <5>1. j - 1 \in 1 .. i /\ j - 1 \in 1 .. n - 1 /\ (j - 1) + 1 = j
          BY <4>2
        <5>2. ln[j - 1] = l[j]
          BY <1>8, <5>1
        <5>3. ln[j - 1].wrong = ""
          BY <2>7, <5>1, Zenon DEF Right
        <5> QED BY <5>2, <5>3
      <4> QED BY <4>1, <4>2
    <3> QED BY <3>1, Zenon DEF Right
  <2>8. \A i \in 0 .. Len(ln) : sn[i] \in Readers /\ Begins(sn[i].got, messages')
    BY <1>8, <1>9, <1>11, <2>6
  <2>9. sn[0] = Reader'
    <3>1. 0 \in 0 .. n - 1 /\ 0 + 1 = 1
      BY <1>4
    <3>2. sn[0] = st[1]
      BY <2>6, <3>1
    <3> QED BY <2>1, <3>2
  <2>10. ASSUME NEW i \in 1 .. Len(ln), Right(ln, i - 1) PROVE Step(sn[i - 1], ln[i], sn[i])'
    <3>1. i - 1 \in 0 .. n - 1 /\ (i - 1) + 1 = i /\ i + 1 \in 1 .. n /\ (i + 1) - 1 = i /\ i \in 0 .. n - 1
      BY <1>8
    <3>2. Right(l, i)
      BY <2>7, <2>10, <3>1
    <3>3. Step(st[i], l[i + 1], st[i + 1])
      BY <1>9, <3>1, <3>2
    <3>4. sn[i - 1] = st[i] /\ sn[i] = st[i + 1] /\ ln[i] = l[i + 1]
      BY <1>8, <2>6, <3>1
    <3>5. UNCHANGED <<role, params>>
      BY <1>11
    <3> QED BY <3>3, <3>4, <3>5, SameStep
  <2>11. Right(ln, Len(ln)) => InStep(sn[Len(ln)])'
    <3>1. n - 1 \in 0 .. n - 1 /\ (n - 1) + 1 = n /\ Len(ln) = n - 1
      BY <1>4, <1>8
    <3>2. sn[Len(ln)] = st[n]
      BY <2>6, <3>1
    <3>3. Right(ln, Len(ln)) => InStep(st[n])
      BY <1>9, <2>7, <3>1
    <3>4. InStep(st[n])' <=> InStep(st[n])
      BY <1>11, SameWriter
    <3> QED BY <3>2, <3>3, <3>4
  <2>12. Chain(sn, ln)'
    BY <2>8, <2>9, <2>10, <2>11 DEF Chain
  <2> QED BY <1>2, <1>8, <1>11, <1>14, <1>15, <2>4, <2>12 DEF CodecInv
<1> QED BY <1>16, <1>17

LEMMA StepIs ==
  ASSUME NEW a, InStep(a)
  PROVE  /\ a.got = messages
         /\ writing = NoParams => a.fragment = NoParams /\ Ends(compressor, a.window)
         /\ writing # NoParams => Busy(a) /\ a.fragment # NoParams
<1>1. a.got = messages /\ (Idle(a) \/ Busy(a))
  BY DEF InStep
<1>2. CASE Idle(a)
  BY <1>1, <1>2 DEF Idle
<1>3. CASE Busy(a)
  <2>1. PICK w : Carries(a, writing, w) /\ ~writing.fresh
    BY <1>3 DEF Busy
  <2>2. writing \in Outgoing /\ a.fragment \in Incoming
    BY <2>1 DEF Carries
  <2> QED BY <1>1, <1>3, <2>2, OutgoingIs, IncomingIs
<1> QED BY <1>1, <1>2, <1>3

(* Sending some of m leaves everything in order, when every reader in step  *)
(* keeps it.                                                                *)
LEMMA SendKeeps ==
  ASSUME CodecInv, NEW m \in Outgoing, m.body.n # 0, m.fresh => m.done = 0,
         NEW k \in 0 .. Len(m.rest), Send(m, k),
         native => k = Len(m.rest), compressor' \in Seq(Nat),
         \A a \in Readers : InStep(a) => \E w \in Seq(Nat) : Carries(a, m, w) /\ Follows(a, m, w)'
  PROVE  CodecInv'
<1>1. /\ room /\ link' = Append(link, SentFrame(m, k))
      /\ k = Len(m.rest) => writing' = NoParams /\ messages' = Append(messages, [opcode |-> m.opcode, payload |-> Plain(m.body)])
      /\ k # Len(m.rest) => writing' = Advanced(m, k) /\ messages' = messages
      /\ UNCHANGED <<role, native, params, decompressor, fragment, dead, got, broken>>
  BY SendWrites DEF Advanced
<1>2. dead = "" /\ Settled /\ messages \in Seq(Received)
  BY <1>1 DEF room, CodecInv
<1>3. SentFrame(m, k) \in Frames
  BY <1>2, SentFrameIs
<1>4. ASSUME NEW a \in Readers, InStep(a) PROVE Keeps(a, SentFrame(m, k))
  <2>1. PICK w \in Seq(Nat) : Carries(a, m, w) /\ Follows(a, m, w)'
    BY <1>4
  <2>2. a.got = messages
    BY <1>4, StepIs
  <2> QED BY <1>2, <2>1, <2>2, SentKeeps
<1>5. messages' \in Seq(Received) /\ Begins(messages, messages')
  <2>1. CASE k = Len(m.rest)
    <3>1. PICK r : r = [opcode |-> m.opcode, payload |-> Plain(m.body)]
      OBVIOUS
    <3>2. m.opcode \in Opcodes /\ Plain(m.body) \in Seq(Units)
      BY OutgoingIs, PlainIs DEF Opcodes
    <3>3. r \in Received
      BY <3>1, <3>2 DEF Received
    <3>4. messages' = Append(messages, r)
      BY <1>1, <2>1, <3>1
    <3>5. messages \in Seq(Received)
      BY <1>2
    <3>6. Append(messages, r) \in Seq(Received)
      BY <3>3, <3>5
    <3>7. Begins(messages, Append(messages, r))
      BY <3>3, <3>5, BeginsTrivially, BeginsAppended
    <3> QED BY <3>4, <3>6, <3>7
  <2>2. CASE k # Len(m.rest)
    <3>1. messages' = messages
      BY <1>1, <2>2
    <3>2. messages \in Seq(Received)
      BY <1>2
    <3> QED BY <3>1, <3>2, BeginsTrivially
  <2> QED BY <2>1, <2>2
<1>6. WritingOk' /\ (native => writing' = NoParams)
  <2>1. CASE k = Len(m.rest)
    BY <1>1, <2>1 DEF WritingOk
  <2>2. CASE k # Len(m.rest)
    <3>1. PICK r : r = writing'
      OBVIOUS
    <3>2. r = Advanced(m, k)
      BY <1>1, <2>2, <3>1
    <3>3. IsRest(r, m, k)
      BY <3>2, RestIs, Zenon
    <3>4. r \in Outgoing /\ ~r.fresh /\ r.body.n # 0
      BY <3>3 DEF IsRest
    <3> QED BY <2>2, <3>1, <3>4 DEF WritingOk
  <2> QED BY <2>1, <2>2
<1>7. Writes(SentFrame(m, k))
  BY <1>1, <1>2, <1>3, <1>4, <1>5, <1>6 DEF Writes
<1> QED BY <1>7, FrameWritten

LEMMA ContinueKeeps ==
  ASSUME CodecInv, continue PROVE CodecInv'
<1>1. PICK m : m = writing
  OBVIOUS
<1>2. PICK k \in 0 .. Len(m.rest) : Send(m, k)
  BY <1>1 DEF continue
<1>3. /\ ~native /\ m # NoParams /\ compressor' = compressor
  BY <1>1 DEF continue
<1>4. m \in Outgoing /\ ~m.fresh /\ m.body.n # 0 /\ compressor \in Seq(Nat)
  BY <1>1, <1>3 DEF CodecInv, WritingOk
<1>5. ASSUME NEW a \in Readers, InStep(a) PROVE \E w \in Seq(Nat) : Carries(a, m, w) /\ Follows(a, m, w)'
  <2>1. Busy(a)
    BY <1>1, <1>3, <1>5, StepIs
  <2>2. PICK w \in Seq(Nat) : Carries(a, m, w) /\ Follows(a, m, w)
    BY <1>1, <2>1 DEF Busy
  <2>3. Follows(a, m, w)'
    BY <1>3, <2>2 DEF Follows
  <2> QED BY <2>2, <2>3
<1> QED BY <1>2, <1>3, <1>4, <1>5, SendKeeps

(* The beginning of a message.                                              *)
Fresh(opcode, body, deflate, payload) ==
  [opcode |-> opcode, body |-> body, deflated |-> deflate, rest |-> payload, done |-> 0, fresh |-> TRUE]

LEMMA BodyIs ==
  ASSUME CodecInv, NEW size \in Nat PROVE Body(size) \in Matter /\ Body(size).n # 0 /\ Body(size).size = size
<1>1. messages \in Seq(Received)
  BY DEF CodecInv
<1>2. Len(messages) + 1 \in Nat /\ Len(messages) + 1 # 0
  BY <1>1
<1> QED BY <1>2 DEF Body, Matter

FreshSays(m, opcode, body, deflate, payload) ==
  /\ m \in Outgoing /\ m.opcode = opcode /\ m.body = body /\ (m.deflated <=> deflate) /\ m.rest = payload
  /\ m.done = 0 /\ m.fresh

LEMMA FreshIs ==
  ASSUME NEW opcode \in Data, NEW body \in Matter, NEW deflate \in BOOLEAN, NEW payload \in Seq(Units)
  PROVE  FreshSays(Fresh(opcode, body, deflate, payload), opcode, body, deflate, payload)
<1>1. PICK m : m = [opcode |-> opcode, body |-> body, deflated |-> deflate, rest |-> payload, done |-> 0, fresh |-> TRUE]
  OBVIOUS
<1>2. m.opcode = opcode /\ m.body = body /\ m.rest = payload /\ m.done = 0
  BY <1>1
<1>3. (m.deflated <=> deflate) /\ m.fresh
  BY <1>1
<1>4. m \in Outgoing
  <2>1. TRUE \in BOOLEAN /\ 0 \in Nat /\ body \in [n : Nat, size : Nat]
    BY DEF Matter
  <2> QED BY <1>1, <2>1, Zenon DEF Outgoing
<1>5. FreshSays(m, opcode, body, deflate, payload)
  BY <1>2, <1>3, <1>4 DEF FreshSays
<1>6. Fresh(opcode, body, deflate, payload) = m
  BY <1>1, Zenon DEF Fresh
<1> QED BY <1>5, <1>6, Zenon

(* The window that a compressor uses is at the end of the reader's.         *)
LEMMA WindowHeld ==
  ASSUME Settled, NEW a \in Readers, NEW window \in Seq(Nat), compressor \in Seq(Nat), Ends(compressor, a.window),
         window = compressor \/ window = << >>, resets(writer).out => window = << >>
  PROVE  Ends(window, Held(a))
<1>1. a.window \in Seq(Nat) /\ Held(a) \in Seq(Nat)
  BY HeldIs
<1>2. CASE window = << >>
  BY <1>1, <1>2, EndsTrivially
<1>3. CASE window # << >>
  <2>1. ~resets(role).in
    BY <1>3, OtherSide
  <2>2. Held(a) = a.window
    BY <2>1 DEF Held, Carried
  <2> QED BY <1>3, <2>2
<1> QED BY <1>2, <1>3

LEMMA StartKeeps ==
  ASSUME CodecInv, writing = NoParams, NEW opcode \in Data, NEW size \in Nat, NEW deflate \in BOOLEAN,
         NEW window \in Seq(Nat), NEW payload,
         payload = IF deflate THEN Deflated(Body(size), window) ELSE Plain(Body(size)),
         NEW k \in 0 .. Len(payload), Send(Fresh(opcode, Body(size), deflate, payload), k),
         deflate => /\ params[writer] # NoParams /\ (window = compressor \/ window = << >>)
                    /\ resets(writer).out => window = << >>,
         compressor' = IF deflate THEN Append(window, Body(size).n) ELSE compressor,
         native => k = Len(payload)
  PROVE  CodecInv'
<1>1. PICK body \in Matter : body = Body(size) /\ body.n # 0
  BY BodyIs
<1>2. payload \in Seq(Units)
  BY <1>1, PlainIs, DeflatedIs
<1>3. PICK m : m = Fresh(opcode, body, deflate, payload)
  OBVIOUS
<1>4. /\ m \in Outgoing /\ m.opcode = opcode /\ m.body = body /\ (m.deflated <=> deflate) /\ m.rest = payload
      /\ m.done = 0 /\ m.fresh
  <2>1. FreshSays(m, opcode, body, deflate, payload)
    BY <1>2, <1>3, FreshIs, Zenon
  <2> QED BY <2>1 DEF FreshSays
<1>5. Settled /\ compressor \in Seq(Nat)
  BY DEF CodecInv
<1>6. ASSUME NEW a \in Readers, InStep(a) PROVE Carries(a, m, window) /\ Follows(a, m, window)'
  <2>1. a.fragment = NoParams /\ Ends(compressor, a.window)
    BY <1>6, StepIs
  <2>2. deflate => params[role] # NoParams
    BY <1>5, OtherSide
  <2>3. deflate => Ends(window, Held(a))
    BY <1>5, <2>1, WindowHeld
  <2>4. SoFar(a) \o m.rest = IF m.deflated THEN Deflated(m.body, window) ELSE Plain(m.body)
    <3>1. PICK e : e = << >> \o payload
      OBVIOUS
    <3>2. e \in Seq(Units) /\ Len(e) = Len(payload) /\ \A i \in 1 .. Len(e) : e[i] = payload[i]
      BY <1>2, <3>1
    <3>3. e = payload
      BY <1>2, <3>2, SameSequence
    <3>4. SoFar(a) \o m.rest = payload
      BY <1>4, <2>1, <3>1, <3>3 DEF SoFar
    <3> QED BY <1>1, <1>4, <3>4
  <2>5. Carries(a, m, window)
    BY <1>1, <1>4, <2>1, <2>2, <2>3, <2>4 DEF Carries
  <2>6. Follows(a, m, window)'
    BY <1>1, <1>4, <2>1 DEF Follows
  <2> QED BY <2>5, <2>6
<1>7. compressor' \in Seq(Nat)
  <2>1. body.n \in Nat
    BY DEF Matter
  <2> QED BY <1>1, <1>5, <2>1
<1>8. Send(m, k) /\ k \in 0 .. Len(m.rest) /\ (native => k = Len(m.rest)) /\ m.body.n # 0
  BY <1>1, <1>3, <1>4
<1> QED BY <1>4, <1>6, <1>7, <1>8, SendKeeps

LEMMA BeginKeeps ==
  ASSUME CodecInv, NEW size \in Nat, NEW deflate \in BOOLEAN, NEW reset \in BOOLEAN, begin("Text", size, deflate, reset)
  PROVE  CodecInv'
<1>1. PICK window : window = Carried(compressor, reset)
  OBVIOUS
<1>2. compressor \in Seq(Nat)
  BY DEF CodecInv
<1>3. window \in Seq(Nat) /\ (window = compressor \/ window = << >>) /\ (reset => window = << >>)
  <2>1. CASE reset
    BY <1>1, <2>1 DEF Carried
  <2>2. CASE ~reset
    BY <1>1, <1>2, <2>2 DEF Carried
  <2> QED BY <2>1, <2>2
<1>4. PICK payload : payload = IF deflate THEN Deflated(Body(size), window) ELSE Plain(Body(size))
  OBVIOUS
<1>5. /\ ~native /\ writing = NoParams
      /\ deflate => params[writer] # NoParams /\ (resets(writer).out => reset)
      /\ compressor' = IF deflate THEN Append(window, Body(size).n) ELSE compressor
  BY <1>1, Zenon DEF begin
<1>6. PICK k \in 0 .. Len(payload) : Send(Fresh("Text", Body(size), deflate, payload), k)
  BY <1>1, <1>4, Zenon DEF begin, Fresh
<1>7. deflate => /\ params[writer] # NoParams /\ (window = compressor \/ window = << >>)
                 /\ resets(writer).out => window = << >>
  BY <1>3, <1>5
<1>8. "Text" \in Data
  BY DEF Data
<1> QED BY <1>3, <1>4, <1>5, <1>6, <1>7, <1>8, StartKeeps

(* A control frame between any two others.                                  *)
LEMMA ControlKeeps ==
  ASSUME CodecInv, dead = "", NEW opcode \in {"Ping", "Close"}, NEW body \in Matter, body.n # 0, body.size <= MaxControl,
         NEW f, FrameSays(f, opcode, TRUE, FALSE, Plain(body)), link' = Append(link, f),
         Written(opcode, body),
         UNCHANGED <<role, native, params, compressor, decompressor, fragment, dead, writing, got, broken>>
  PROVE  CodecInv'
<1>1. /\ f \in Frames /\ f.opcode = opcode /\ f.fin /\ ~f.rsv1 /\ ~f.rsv /\ f.length = "Minimal"
      /\ (f.masked <=> role = "Server") /\ f.payload = Plain(body) /\ f.wrong = ""
  BY DEF FrameSays
<1>2. /\ Plain(body) \in Seq(Units) /\ Len(Plain(body)) = body.size
      /\ Plain(body) # <<Garbage>> /\ Plain(body) # <<BadReason>>
  BY PlainIs
<1>3. PICK r : r = [opcode |-> opcode, payload |-> Plain(body)]
  OBVIOUS
<1>4. r \in Received
  <2>1. opcode \in Opcodes
    BY DEF Opcodes
  <2> QED BY <1>2, <1>3, <2>1 DEF Received
<1>5. messages' = Append(messages, r) /\ messages \in Seq(Received) /\ compressor \in Seq(Nat)
  BY <1>3 DEF Written, CodecInv
<1>6. messages' \in Seq(Received) /\ Begins(messages, messages')
  <2>1. messages \in Seq(Received)
    BY <1>5
  <2>2. Append(messages, r) \in Seq(Received)
    BY <1>4, <2>1, AppendedIs, Zenon
  <2>3. Begins(messages, Append(messages, r))
    BY <1>4, <2>1, BeginsTrivially, BeginsAppended
  <2> QED BY <1>5, <2>2, <2>3
<1>7. ASSUME NEW a \in Readers, InStep(a) PROVE Keeps(a, f)
  <2>1. /\ Verdict(a, f) = ""
        /\ Taken(a, f) = [a EXCEPT !.got = Append(@, [opcode |-> f.opcode, payload |-> f.payload])]
    <3>1. is_control(f.opcode)
      BY <1>1 DEF is_control
    <3>2. Len(f.payload) <= MaxControl /\ f.payload # <<Garbage>> /\ f.payload # <<BadReason>>
      BY <1>1, <1>2
    <3> QED BY <1>1, <3>1, <3>2, ControlTaken
  <2>2. PICK b : b = Taken(a, f)
    OBVIOUS
  <2>3. b = [a EXCEPT !.got = messages']
    <3>1. a.got = messages
      BY <1>7, StepIs
    <3>2. [opcode |-> f.opcode, payload |-> f.payload] = r
      BY <1>1, <1>3
    <3> QED BY <1>5, <2>1, <2>2, <3>1, <3>2
  <2>4. b.fragment = a.fragment /\ b.window = a.window /\ b.got = messages' /\ b \in Readers
    BY <1>6, <2>3 DEF Readers
  <2>5. Idle(a) => Idle(b)'
    <3>1. Idle(a) <=> writing = NoParams /\ a.fragment = NoParams /\ Ends(compressor, a.window)
      BY Zenon DEF Idle
    <3>2. Idle(b)' <=> writing' = NoParams /\ b.fragment = NoParams /\ Ends(compressor', b.window)
      BY Zenon DEF Idle, Ends
    <3> QED BY <2>4, <3>1, <3>2
  <2>6. Busy(a) => Busy(b)'
    <3>1. Held(b)' = Held(a) /\ SoFar(b)' = SoFar(a)
      BY <2>4 DEF Held, SoFar, resets
    <3>2. ASSUME NEW m, NEW w PROVE (Carries(a, m, w) => Carries(b, m, w)') /\ (Follows(a, m, w) => Follows(b, m, w)')
      BY <2>4, <3>1 DEF Carries, Follows
    <3>3. PICK m : m = writing
      OBVIOUS
    <3>4. Busy(a) <=> ~m.fresh /\ \E w \in Seq(Nat) : Carries(a, m, w) /\ Follows(a, m, w)
      BY <3>3 DEF Busy
    <3>5. Busy(b)' <=> ~m.fresh /\ \E w \in Seq(Nat) : Carries(b, m, w)' /\ Follows(b, m, w)'
      BY <3>3 DEF Busy
    <3> QED BY <3>2, <3>4, <3>5
  <2>7. InStep(b)'
    BY <1>7, <2>4, <2>5, <2>6 DEF InStep
  <2> QED BY <1>1, <2>1, <2>2, <2>4, <2>7 DEF Keeps
<1>8. WritingOk' /\ (native => writing' = NoParams)
  BY DEF CodecInv, WritingOk
<1>9. Writes(f)
  BY <1>1, <1>5, <1>6, <1>7, <1>8 DEF Writes
<1> QED BY <1>9, FrameWritten

LEMMA InterjectKeeps ==
  ASSUME CodecInv, NEW opcode \in {"Ping", "Close"}, interject(opcode)
  PROVE  CodecInv'
<1>1. PICK body : body = Interjects
  OBVIOUS
<1>2. body \in Matter /\ body.n # 0 /\ body.size <= MaxControl
  <2>1. MaxSent \in Nat /\ MaxControl \in Nat
    BY WsCodecAssumption
  <2>2. MaxSent + 1 \in Nat /\ MaxSent + 1 # 0 /\ MaxControl <= MaxControl
    BY <2>1
  <2>3. body = [n |-> MaxSent + 1, size |-> MaxControl]
    BY <1>1 DEF Interjects
  <2> QED BY <2>1, <2>2, <2>3 DEF Matter
<1>3. PICK f : f = Frame(opcode, TRUE, FALSE, Plain(body))
  OBVIOUS
<1>4. FrameSays(f, opcode, TRUE, FALSE, Plain(body))
  <2>1. opcode \in Opcodes /\ Plain(body) \in Seq(Units) /\ Settled
    BY <1>2, PlainIs DEF Opcodes, CodecInv
  <2>2. TRUE \in BOOLEAN /\ FALSE \in BOOLEAN
    OBVIOUS
  <2> QED BY <1>3, <2>1, <2>2, FrameIs, Zenon
<1>5. /\ dead = "" /\ link' = Append(link, f) /\ Written(opcode, body)
      /\ UNCHANGED <<role, native, params, compressor, decompressor, fragment, dead, writing, got, broken>>
  BY <1>1, <1>3, Zenon DEF interject, room
<1> QED BY <1>2, <1>4, <1>5, ControlKeeps

LEMMA EncodeKeeps ==
  ASSUME CodecInv, NEW opcode \in Data \cup {"Ping"}, NEW size \in Nat, encode(opcode, size)
  PROVE  CodecInv'
<1>1. PICK body \in Matter : body = Body(size) /\ body.n # 0 /\ body.size = size
  BY BodyIs
<1>2. PICK compress \in BOOLEAN : compress = (params[writer] # NoParams /\ opcode \in Data /\ size >= Threshold)
  OBVIOUS
<1>3. PICK window : window = IF compress THEN Carried(compressor, resets(writer).out) ELSE compressor
  OBVIOUS
<1>4. PICK payload : payload = IF compress THEN Deflated(body, window) ELSE Plain(body)
  OBVIOUS
<1>5. /\ native /\ dead = "" /\ (is_control(opcode) => size <= MaxControl)
      /\ link' = Append(link, Judged(Frame(opcode, TRUE, compress, payload), Len(payload), size))
      /\ compressor' = (IF compress THEN Append(window, body.n) ELSE window)
      /\ Written(opcode, body)
      /\ UNCHANGED <<role, native, params, decompressor, fragment, dead, writing, got, broken>>
  BY <1>1, <1>2, <1>3, <1>4, Zenon DEF encode, room
<1>6. Settled /\ compressor \in Seq(Nat) /\ writing = NoParams
  BY <1>5 DEF CodecInv
<1>7. window \in Seq(Nat) /\ (window = compressor \/ window = << >>) /\ (compress /\ resets(writer).out => window = << >>)
  <2>1. CASE compress /\ resets(writer).out
    BY <1>3, <2>1 DEF Carried
  <2>2. CASE ~(compress /\ resets(writer).out)
    BY <1>3, <1>6, <2>2 DEF Carried
  <2> QED BY <2>1, <2>2
<1>8. CASE opcode \in Data
  <2>1. payload \in Seq(Units)
    BY <1>1, <1>4, <1>7, PlainIs, DeflatedIs
  <2>2. PICK m : m = Fresh(opcode, body, compress, payload)
    OBVIOUS
  <2>3. FreshSays(m, opcode, body, compress, payload)
    BY <1>8, <2>1, <2>2, FreshIs, Zenon
  <2>4. /\ m \in Outgoing /\ m.opcode = opcode /\ m.body = body /\ (m.deflated <=> compress) /\ m.rest = payload
        /\ m.done = 0 /\ m.fresh
    BY <2>3 DEF FreshSays
  <2>5. PICK k \in Nat : k = Len(payload)
    BY <2>1
  <2>6. Send(m, k)
    <3>1. SubSeq(m.rest, 1, k) = payload /\ m.done + k = Len(payload) /\ k = Len(m.rest)
      <4>1. SubSeq(payload, 1, Len(payload)) = payload
        BY <2>1
      <4>2. m.done + k = Len(payload) /\ k = Len(m.rest)
        BY <2>4, <2>5
      <4> QED BY <2>4, <2>5, <4>1, <4>2
    <3>2. PICK op : op = IF m.done = 0 /\ m.fresh THEN m.opcode ELSE "Continuation"
      OBVIOUS
    <3>3. op = opcode
      BY <2>4, <3>2
    <3>4. (k = Len(m.rest)) = TRUE
      BY <3>1, Zenon
    <3>5. (m.fresh /\ m.deflated) = compress
      BY <2>4, OutgoingIs, Zenon
    <3>6. Frame(op, k = Len(m.rest), m.fresh /\ m.deflated, SubSeq(m.rest, 1, k)) = Frame(opcode, TRUE, compress, payload)
      BY <3>1, <3>3, <3>4, <3>5, Zenon
    <3>7. link' = Append(link, Judged(Frame(op, k = Len(m.rest), m.fresh /\ m.deflated, SubSeq(m.rest, 1, k)), m.done + k, m.body.size))
      BY <1>1, <1>5, <2>4, <3>1, <3>6, Zenon
    <3>8. writing' = NoParams /\ Written(m.opcode, m.body) /\ room
      BY <1>5, <1>6, <2>4 DEF encode, room
    <3> QED BY <1>5, <3>1, <3>2, <3>7, <3>8, Zenon DEF Send
  <2>7. compressor' = IF compress THEN Append(window, Body(size).n) ELSE compressor
    BY <1>1, <1>3, <1>5
  <2>8. /\ payload = (IF compress THEN Deflated(Body(size), window) ELSE Plain(Body(size)))
        /\ k \in 0 .. Len(payload) /\ (native => k = Len(payload))
    BY <1>1, <1>4, <2>5
  <2>9. Send(Fresh(opcode, Body(size), compress, payload), k)
    BY <1>1, <2>2, <2>6
  <2>10. compress => /\ params[writer] # NoParams /\ (window = compressor \/ window = << >>)
                     /\ resets(writer).out => window = << >>
    BY <1>2, <1>7
  <2> QED BY <1>6, <1>7, <1>8, <2>7, <2>8, <2>9, <2>10, StartKeeps
<1>9. CASE opcode = "Ping"
  <2>1. opcode \notin Data /\ is_control(opcode)
    BY <1>9 DEF Data, is_control
  <2>2. compress = FALSE
    BY <1>2, <2>1, Zenon
  <2>3. payload = Plain(body) /\ compressor' = compressor
    BY <1>3, <1>4, <1>5, <2>2
  <2>4. PICK f : f = Frame(opcode, TRUE, FALSE, Plain(body))
    OBVIOUS
  <2>5. FrameSays(f, opcode, TRUE, FALSE, Plain(body))
    <3>1. opcode \in Opcodes /\ Plain(body) \in Seq(Units)
      BY <1>9, PlainIs DEF Opcodes
    <3>2. TRUE \in BOOLEAN /\ FALSE \in BOOLEAN
      OBVIOUS
    <3> QED BY <1>6, <2>4, <3>1, <3>2, FrameIs, Zenon
  <2>6. PICK g : g = Judged(f, Len(payload), size)
    OBVIOUS
  <2>7. JudgedSays(g, f, Len(payload), size)
    <3>1. f \in Frames
      BY <2>5 DEF FrameSays
    <3> QED BY <2>6, <3>1, JudgedIs, Zenon
  <2>8. FrameSays(g, opcode, TRUE, FALSE, Plain(body))
    BY <2>1, <2>5, <2>7 DEF FrameSays, JudgedSays
  <2>9. link' = Append(link, g)
    BY <1>5, <2>2, <2>3, <2>4, <2>6, Zenon
  <2>10. opcode \in {"Ping", "Close"} /\ body.size <= MaxControl
    BY <1>1, <1>5, <1>9, <2>1
  <2> QED BY <1>1, <1>5, <2>3, <2>8, <2>9, <2>10, ControlKeeps
<1> QED BY <1>8, <1>9

-----------------------------------------------------------------------------
(* Frames that break a rule.                                                *)

BadHead(f) ==
  /\ f.length # "TopBit"
  /\ \/ f.opcode = "Reserved" \/ f.rsv \/ f.length = "Padded"
     \/ f.rsv1 /\ (params[role] = NoParams \/ f.opcode \notin Data)
     \/ ~(f.masked <=> role = "Server")
     \/ is_control(f.opcode) /\ (~f.fin \/ Len(f.payload) > MaxControl)

LEMMA HeadRefused ==
  ASSUME NEW a, NEW f, BadHead(f) PROVE Verdict(a, f) = "PROTOCOL_ERROR"
<1>1. ~(f.masked <=> role = "Server") => f.masked # (role = "Server")
  BY Zenon
<1>2. CASE f.opcode = "Reserved" \/ f.length = "Padded"
  <2>1. read_header(f) = "PROTOCOL_ERROR"
    BY <1>2 DEF read_header
  <2>2. check(a.fragment, f) = "PROTOCOL_ERROR"
    BY <2>1 DEF check
  <2> QED BY <2>2 DEF Verdict
<1>3. CASE ~(f.opcode = "Reserved" \/ f.length = "Padded")
  <2>1. read_header(f) = ""
    BY <1>3 DEF read_header, BadHead
  <2>2. check(a.fragment, f) = "PROTOCOL_ERROR"
    BY <1>1, <1>3, <2>1, Zenon DEF BadHead, check
  <2> QED BY <2>2 DEF Verdict
<1> QED BY <1>2, <1>3

(* What a data frame with a good header, of some length, meets.             *)
LEMMA BodyChecked ==
  ASSUME NEW a \in Readers, NEW f \in Frames, ~BadHead(f), f.length = "Minimal",
         ~is_control(f.opcode), ~(Len(f.payload) > MaxFrame)
  PROVE  /\ ~((f.opcode = "Continuation") <=> (a.fragment # NoParams)) => Verdict(a, f) = "PROTOCOL_ERROR"
         /\ ((f.opcode = "Continuation") <=> (a.fragment # NoParams)) => check(a.fragment, f) = ""
<1>1. f.masked \in BOOLEAN
  BY DEF Frames
<1>2. /\ f.opcode # "Reserved" /\ ~f.rsv /\ f.length = "Minimal"
      /\ ~(f.rsv1 /\ (params[role] = NoParams \/ f.opcode \notin Data))
      /\ (f.masked <=> role = "Server")
  BY DEF BadHead
<1>2a. read_header(f) = ""
  BY <1>2 DEF read_header
<1>3. ~(f.masked # (role = "Server"))
  BY <1>1, <1>2, Zenon
<1>4. check(a.fragment, f) = IF (f.opcode = "Continuation") # (a.fragment # NoParams) THEN "PROTOCOL_ERROR" ELSE ""
  BY <1>2, <1>2a, <1>3, Zenon DEF check
<1>5. ASSUME ~((f.opcode = "Continuation") <=> (a.fragment # NoParams)) PROVE Verdict(a, f) = "PROTOCOL_ERROR"
  <2>1. (f.opcode = "Continuation") # (a.fragment # NoParams)
    BY <1>5, Zenon
  <2>2. check(a.fragment, f) = "PROTOCOL_ERROR"
    BY <1>4, <2>1, Zenon
  <2> QED BY <2>2 DEF Verdict
<1>6. ASSUME (f.opcode = "Continuation") <=> (a.fragment # NoParams) PROVE check(a.fragment, f) = ""
  <2>1. (f.opcode = "Continuation") = (a.fragment # NoParams)
    BY <1>6, Zenon
  <2> QED BY <1>4, <2>1, Zenon
<1> QED BY <1>5, <1>6

LEMMA GarbageIs ==
  /\ <<Garbage>> \in Seq(Units) /\ Len(<<Garbage>>) = 1 /\ <<Garbage>>[1] = Garbage
  /\ Garbage.deflated = FALSE
<1>1. Garbage = [part |-> 1, body |-> [n |-> 0, size |-> 1], window |-> << >>, deflated |-> FALSE]
  BY DEF Garbage, Unit
<1>2. Garbage \in Units
  <2>1. 1 \in Nat /\ [n |-> 0, size |-> 1] \in [n : Nat, size : Nat] /\ << >> \in Seq(Nat) /\ FALSE \in BOOLEAN
    OBVIOUS
  <2> QED BY <1>1, <2>1, Zenon DEF Units
<1>3. Garbage.deflated = FALSE
  BY <1>1
<1> QED BY <1>2, <1>3

LEMMA BadReasonIs ==
  /\ <<BadReason>> \in Seq(Units) /\ Len(<<BadReason>>) = 1 /\ <<BadReason>> # <<Garbage>>
<1>1. BadReason = [part |-> 2, body |-> [n |-> 0, size |-> 1], window |-> << >>, deflated |-> FALSE]
  BY DEF BadReason, Unit
<1>2. BadReason \in Units
  <2>1. 2 \in Nat /\ [n |-> 0, size |-> 1] \in [n : Nat, size : Nat] /\ << >> \in Seq(Nat) /\ FALSE \in BOOLEAN
    OBVIOUS
  <2> QED BY <1>1, <2>1, Zenon DEF Units
<1>3. BadReason # Garbage
  <2>1. BadReason.part = 2 /\ Garbage.part = 1
    BY DEF BadReason, Garbage, Unit
  <2> QED BY <2>1
<1> QED BY <1>2, <1>3

(* A text of nothing but garbage, compressed or not.                        *)
LEMMA GarbageRefused ==
  ASSUME NEW a \in Readers, NEW f \in Frames, a.fragment = NoParams, f.opcode = "Text", f.fin, ~f.rsv /\ f.length = "Minimal",
         f.masked <=> role = "Server", f.rsv1 => params[role] # NoParams, f.payload = <<Garbage>>
  PROVE  Verdict(a, f) = "INVALID_PAYLOAD"
<1>1. "Text" \in Data /\ ~is_control("Text") /\ "Text" # "Reserved" /\ "Text" # "Continuation"
  BY DEF Data, is_control
<1>2. MaxFrame \in Nat \ {0} /\ MaxMessage \in Nat \ {0}
  BY WsCodecAssumption
<1>3. Len(f.payload) = 1
  BY GarbageIs
<1>4. ~(Len(f.payload) > MaxFrame) /\ ~(Len(f.payload) > MaxMessage)
  BY <1>2, <1>3
<1>5. ~BadHead(f)
  BY <1>1 DEF BadHead
<1>6. check(a.fragment, f) = ""
  BY <1>1, <1>4, <1>5, BodyChecked
<1>7. PICK whole : whole = extended(a.fragment, f)
  OBVIOUS
<1>8. whole = [opcode |-> f.opcode, compressed |-> f.rsv1, payload |-> f.payload]
  <2>1. a.fragment \in Incoming \cup {NoParams}
    BY ReaderIs
  <2> QED BY <1>7, <2>1, ExtendedIs
<1>9. whole.opcode = "Text" /\ whole.payload = f.payload
  BY <1>8
<1>10. whole.compressed <=> f.rsv1
  BY <1>8
<1>11. Verdict(a, f) = finish(a.window, whole).error
  BY <1>1, <1>4, <1>6, <1>7, <1>9 DEF Verdict
<1>12. finish(a.window, whole).error = "INVALID_PAYLOAD"
  <2>1. whole.payload[1] = Garbage /\ 1 \in DOMAIN whole.payload
    BY <1>9, GarbageIs
  <2>2. CASE ~whole.compressed
    <3>1. ~(whole.opcode = "Text" => \A i \in DOMAIN whole.payload : whole.payload[i] # Garbage)
      BY <1>9, <2>1
    <3> QED BY <2>2, <3>1 DEF finish
  <2>3. CASE whole.compressed
    <3>1. ~whole.payload[1].deflated
      BY <2>1, GarbageIs
    <3>2. ~Inflates(whole.payload, Carried(a.window, resets(role).in))
      BY <3>1 DEF Inflates
    <3> QED BY <2>3, <3>2 DEF finish
  <2> QED BY <2>2, <2>3
<1> QED BY <1>11, <1>12

(* The frames that the rogues are made from.                                *)
Base(op) == [Frame(op, TRUE, FALSE, << >>) EXCEPT !.wrong = "PROTOCOL_ERROR"]
BaseSays(g, op) ==
  /\ g \in Frames /\ g.opcode = op /\ g.fin /\ ~g.rsv1 /\ ~g.rsv /\ g.length = "Minimal" /\ (g.masked <=> role = "Server")
  /\ g.payload = << >> /\ g.wrong = "PROTOCOL_ERROR"

LEMMA BaseIs ==
  ASSUME Settled, NEW op \in Opcodes PROVE BaseSays(Base(op), op)
<1>1. PICK f : f = Frame(op, TRUE, FALSE, << >>)
  OBVIOUS
<1>2. FrameSays(f, op, TRUE, FALSE, << >>)
  <2>1. TRUE \in BOOLEAN /\ FALSE \in BOOLEAN /\ << >> \in Seq(Units)
    OBVIOUS
  <2> QED BY <1>1, <2>1, FrameIs, Zenon
<1>3. /\ f \in Frames /\ f.opcode = op /\ f.fin /\ ~f.rsv1 /\ ~f.rsv /\ f.length = "Minimal" /\ (f.masked <=> role = "Server")
      /\ f.payload = << >>
  BY <1>2 DEF FrameSays
<1>4. PICK g : g = [f EXCEPT !.wrong = "PROTOCOL_ERROR"]
  OBVIOUS
<1>5. g.opcode = f.opcode /\ g.payload = f.payload /\ g.wrong = "PROTOCOL_ERROR" /\ g.length = f.length
  BY <1>3, <1>4 DEF Frames
<1>6. (g.fin <=> f.fin) /\ (g.rsv1 <=> f.rsv1) /\ (g.rsv <=> f.rsv) /\ g.length = f.length /\ (g.masked <=> f.masked)
  BY <1>3, <1>4 DEF Frames
<1>7. g \in Frames
  <2>1. "PROTOCOL_ERROR" \in Codes
    BY DEF Codes
  <2> QED BY <1>3, <1>4, <2>1 DEF Frames
<1>8. BaseSays(g, op)
  BY <1>3, <1>5, <1>6, <1>7 DEF BaseSays
<1>9. Base(op) = g
  BY <1>1, <1>4, Zenon DEF Base
<1> QED BY <1>8, <1>9, Zenon

Refused(f) == f \in Frames /\ f.wrong # "" /\ \A a \in Readers : InStep(a) => Verdict(a, f) = f.wrong

(* A Close whose body cannot be read.                                       *)
LEMMA CloseRefused ==
  ASSUME NEW a, NEW f \in Frames, f.opcode = "Close", f.fin, ~f.rsv1, ~f.rsv, f.length = "Minimal",
         f.masked <=> role = "Server", Len(f.payload) = 1
  PROVE  Verdict(a, f) = close_frame(f)
<1>1. MaxControl \in Nat \ {0}
  BY WsCodecAssumption
<1>2. ~(Len(f.payload) > MaxControl)
  BY <1>1
<1>3. f.masked \in BOOLEAN
  BY DEF Frames
<1>4. ~(f.masked # (role = "Server"))
  BY <1>3, Zenon
<1>5. read_header(f) = "" /\ is_control(f.opcode)
  BY DEF read_header, is_control
<1>6. check(a.fragment, f) = ""
  BY <1>2, <1>4, <1>5, Zenon DEF check
<1> QED BY <1>5, <1>6 DEF Verdict

(* A base frame with one thing wrong in its header.                         *)
LEMMA HeadRogue ==
  ASSUME NEW f \in Frames, f.wrong = "PROTOCOL_ERROR", BadHead(f) PROVE Refused(f)
BY HeadRefused DEF Refused

LEMMA RogueRefused ==
  ASSUME Settled, NEW f \in Rogues PROVE Refused(f)
<1>1. PICK ping, text, next : ping = Base("Ping") /\ text = Base("Text") /\ next = Base("Continuation")
  OBVIOUS
<1>2. BaseSays(ping, "Ping") /\ BaseSays(text, "Text") /\ BaseSays(next, "Continuation")
  <2>1. "Ping" \in Opcodes /\ "Text" \in Opcodes /\ "Continuation" \in Opcodes
    BY DEF Opcodes, Data
  <2> QED BY <1>1, <2>1, BaseIs, Zenon
<1>3. /\ is_control("Ping") /\ is_control("Close") /\ ~is_control("Text") /\ ~is_control("Continuation")
      /\ "Text" \in Data /\ "Ping" \notin Data /\ "Continuation" \notin Data /\ "Close" # "Reserved"
  BY DEF is_control, Data
<1>4. "Reserved" \in Opcodes /\ "Close" \in Opcodes /\ "Padded" \in Lengths /\ "TopBit" \in Lengths
  BY DEF Opcodes, Lengths
<1>19. "INVALID_PAYLOAD" \in Codes /\ "TOO_BIG" \in Codes
  BY DEF Codes
<1>5. params[writer] = params[role]
  BY OtherSide
<1>6. \/ f = [ping EXCEPT !.opcode = "Reserved"]
      \/ f = [ping EXCEPT !.rsv = TRUE]
      \/ f = [ping EXCEPT !.rsv1 = TRUE]
      \/ f = [ping EXCEPT !.masked = ~@]
      \/ f = [ping EXCEPT !.fin = FALSE]
      \/ f = [ping EXCEPT !.length = "Padded"]
      \/ f = [[ping EXCEPT !.length = "TopBit"] EXCEPT !.wrong = "TOO_BIG"]
      \/ f = [ping EXCEPT !.opcode = "Close", !.payload = <<Garbage>>]
      \/ f = [[ping EXCEPT !.opcode = "Close", !.payload = <<BadReason>>] EXCEPT !.wrong = "INVALID_PAYLOAD"]
      \/ f = [ping EXCEPT !.payload = Plain([n |-> MaxSent + 1, size |-> MaxControl + 1])]
      \/ writing # NoParams /\ f = text
      \/ writing # NoParams /\ f = [next EXCEPT !.rsv1 = TRUE]
      \/ writing = NoParams /\ f = next
      \/ writing = NoParams /\ f = [[text EXCEPT !.payload = <<Garbage>>] EXCEPT !.wrong = "INVALID_PAYLOAD"]
      \/ writing = NoParams /\ params[writer] = NoParams /\ f = [text EXCEPT !.rsv1 = TRUE]
      \/ /\ writing = NoParams /\ params[writer] # NoParams
         /\ f = [[text EXCEPT !.rsv1 = TRUE, !.payload = <<Garbage>>] EXCEPT !.wrong = "INVALID_PAYLOAD"]
  BY <1>1, Zenon DEF Rogues, Base
<1>7. CASE f = [ping EXCEPT !.opcode = "Reserved"]
  <2>1. f \in Frames /\ f.opcode = "Reserved" /\ f.wrong = "PROTOCOL_ERROR" /\ f.length = "Minimal"
    BY <1>2, <1>4, <1>7 DEF BaseSays, Frames
  <2> QED BY <2>1, HeadRogue DEF BadHead
<1>8. CASE f = [ping EXCEPT !.rsv = TRUE]
  <2>1. f \in Frames /\ f.rsv /\ f.wrong = "PROTOCOL_ERROR" /\ f.length = "Minimal"
    BY <1>2, <1>8 DEF BaseSays, Frames
  <2> QED BY <2>1, HeadRogue DEF BadHead
<1>9. CASE f = [ping EXCEPT !.rsv1 = TRUE]
  <2>1. f \in Frames /\ f.rsv1 /\ f.wrong = "PROTOCOL_ERROR" /\ f.opcode = "Ping" /\ f.length = "Minimal"
    BY <1>2, <1>9 DEF BaseSays, Frames
  <2> QED BY <1>3, <2>1, HeadRogue DEF BadHead
<1>10. CASE f = [ping EXCEPT !.masked = ~@]
  <2>1. f \in Frames /\ (f.masked <=> ~ping.masked) /\ f.wrong = "PROTOCOL_ERROR" /\ f.length = "Minimal"
    BY <1>2, <1>10 DEF BaseSays, Frames
  <2>2. ping.masked <=> role = "Server"
    BY <1>2 DEF BaseSays
  <2> QED BY <2>1, <2>2, HeadRogue DEF BadHead
<1>11. CASE f = [ping EXCEPT !.fin = FALSE]
  <2>1. f \in Frames /\ ~f.fin /\ f.wrong = "PROTOCOL_ERROR" /\ f.opcode = "Ping" /\ f.length = "Minimal"
    BY <1>2, <1>11 DEF BaseSays, Frames
  <2> QED BY <1>3, <2>1, HeadRogue DEF BadHead
<1>12. CASE f = [ping EXCEPT !.opcode = "Close", !.payload = <<Garbage>>]
  <2>1. f \in Frames /\ f.wrong = "PROTOCOL_ERROR" /\ f.opcode = "Close" /\ f.payload = <<Garbage>> /\ f.length = "Minimal"
    BY <1>2, <1>4, <1>12, GarbageIs DEF BaseSays, Frames
  <2>2. f.fin /\ ~f.rsv1 /\ ~f.rsv /\ f.length = "Minimal" /\ (f.masked <=> role = "Server")
    BY <1>2, <1>12 DEF BaseSays, Frames
  <2>3. Len(f.payload) = 1 /\ close_frame(f) = "PROTOCOL_ERROR"
    BY <2>1, GarbageIs DEF close_frame
  <2>4. \A a : Verdict(a, f) = "PROTOCOL_ERROR"
    BY <2>1, <2>2, <2>3, CloseRefused
  <2> QED BY <2>1, <2>4 DEF Refused
<1>12a. CASE f = [[ping EXCEPT !.opcode = "Close", !.payload = <<BadReason>>] EXCEPT !.wrong = "INVALID_PAYLOAD"]
  <2>1. f \in Frames /\ f.wrong = "INVALID_PAYLOAD" /\ f.opcode = "Close" /\ f.payload = <<BadReason>>
    BY <1>2, <1>4, <1>12a, <1>19, BadReasonIs DEF BaseSays, Frames
  <2>2. f.fin /\ ~f.rsv1 /\ ~f.rsv /\ f.length = "Minimal" /\ (f.masked <=> role = "Server")
    BY <1>2, <1>12a DEF BaseSays, Frames
  <2>3. Len(f.payload) = 1 /\ close_frame(f) = "INVALID_PAYLOAD"
    BY <2>1, BadReasonIs DEF close_frame
  <2>4. \A a : Verdict(a, f) = "INVALID_PAYLOAD"
    BY <2>1, <2>2, <2>3, CloseRefused
  <2> QED BY <2>1, <2>4 DEF Refused
<1>12b. CASE f = [ping EXCEPT !.length = "Padded"]
  <2>1. f \in Frames /\ f.length = "Padded" /\ f.wrong = "PROTOCOL_ERROR"
    BY <1>2, <1>12b, <1>4 DEF BaseSays, Frames
  <2> QED BY <2>1, HeadRogue DEF BadHead
<1>12c. CASE f = [[ping EXCEPT !.length = "TopBit"] EXCEPT !.wrong = "TOO_BIG"]
  <2>1. f \in Frames /\ f.length = "TopBit" /\ f.wrong = "TOO_BIG" /\ f.opcode = "Ping"
    BY <1>2, <1>12c, <1>4, <1>19 DEF BaseSays, Frames
  <2>2. read_header(f) = "TOO_BIG"
    BY <2>1 DEF read_header
  <2>3. \A a : check(a.fragment, f) = "TOO_BIG"
    BY <2>2 DEF check
  <2>4. \A a : Verdict(a, f) = "TOO_BIG"
    BY <2>3 DEF Verdict
  <2> QED BY <2>1, <2>4 DEF Refused
<1>13. CASE f = [ping EXCEPT !.payload = Plain([n |-> MaxSent + 1, size |-> MaxControl + 1])]
  <2>1. MaxSent \in Nat /\ MaxControl \in Nat
    BY WsCodecAssumption
  <2>2. PICK long : long = Plain([n |-> MaxSent + 1, size |-> MaxControl + 1])
    OBVIOUS
  <2>3. long \in Seq(Units) /\ Len(long) = MaxControl + 1
    <3>1. PICK body : body = [n |-> MaxSent + 1, size |-> MaxControl + 1]
      OBVIOUS
    <3>2. body \in Matter /\ body.size = MaxControl + 1
      BY <2>1, <3>1 DEF Matter
    <3> QED BY <2>2, <3>1, <3>2, PlainIs
  <2>4. f \in Frames /\ f.wrong = "PROTOCOL_ERROR" /\ f.opcode = "Ping" /\ f.payload = long /\ f.length = "Minimal"
    BY <1>2, <1>13, <2>2, <2>3 DEF BaseSays, Frames
  <2>5. Len(f.payload) > MaxControl
    BY <2>1, <2>3, <2>4
  <2> QED BY <1>3, <2>4, <2>5, HeadRogue DEF BadHead
<1>14. /\ ~BadHead(text) /\ ~BadHead(next)
  BY <1>2, <1>3 DEF BaseSays, BadHead
<1>15. ~(Len(<< >>) > MaxFrame)
  <2>1. MaxFrame \in Nat
    BY WsCodecAssumption
  <2> QED BY <2>1
<1>16. CASE writing # NoParams /\ f = text
  <2>1. f \in Frames /\ f.opcode = "Text" /\ f.payload = << >> /\ f.wrong = "PROTOCOL_ERROR" /\ ~BadHead(f) /\ f.length = "Minimal"
    BY <1>2, <1>14, <1>16 DEF BaseSays
  <2>2. ASSUME NEW a \in Readers, InStep(a) PROVE Verdict(a, f) = "PROTOCOL_ERROR"
    <3>1. a.fragment # NoParams
      BY <1>16, <2>2, StepIs
    <3> QED BY <1>3, <1>15, <2>1, <3>1, BodyChecked
  <2> QED BY <2>1, <2>2 DEF Refused
<1>17. CASE writing # NoParams /\ f = [next EXCEPT !.rsv1 = TRUE]
  <2>1. f \in Frames /\ f.rsv1 /\ f.wrong = "PROTOCOL_ERROR" /\ f.opcode = "Continuation" /\ f.length = "Minimal"
    BY <1>2, <1>17 DEF BaseSays, Frames
  <2> QED BY <1>3, <2>1, HeadRogue DEF BadHead
<1>18. CASE writing = NoParams /\ f = next
  <2>1. f \in Frames /\ f.opcode = "Continuation" /\ f.payload = << >> /\ f.wrong = "PROTOCOL_ERROR" /\ ~BadHead(f) /\ f.length = "Minimal"
    BY <1>2, <1>14, <1>18 DEF BaseSays
  <2>2. ASSUME NEW a \in Readers, InStep(a) PROVE Verdict(a, f) = "PROTOCOL_ERROR"
    <3>1. a.fragment = NoParams
      BY <1>18, <2>2, StepIs
    <3> QED BY <1>3, <1>15, <2>1, <3>1, BodyChecked
  <2> QED BY <2>1, <2>2 DEF Refused
<1>20. CASE writing = NoParams /\ f = [[text EXCEPT !.payload = <<Garbage>>] EXCEPT !.wrong = "INVALID_PAYLOAD"]
  <2>1. f \in Frames /\ f.opcode = "Text" /\ f.payload = <<Garbage>> /\ f.wrong = "INVALID_PAYLOAD"
    BY <1>2, <1>19, <1>20, GarbageIs DEF BaseSays, Frames
  <2>2. f.fin /\ ~f.rsv1 /\ ~f.rsv /\ f.length = "Minimal" /\ (f.masked <=> role = "Server")
    BY <1>2, <1>20 DEF BaseSays, Frames
  <2>3. ASSUME NEW a \in Readers, InStep(a) PROVE Verdict(a, f) = "INVALID_PAYLOAD"
    <3>1. a.fragment = NoParams
      BY <1>20, <2>3, StepIs
    <3> QED BY <2>1, <2>2, <3>1, GarbageRefused
  <2> QED BY <2>1, <2>3 DEF Refused
<1>21. CASE writing = NoParams /\ params[writer] = NoParams /\ f = [text EXCEPT !.rsv1 = TRUE]
  <2>1. f \in Frames /\ f.rsv1 /\ f.wrong = "PROTOCOL_ERROR" /\ f.length = "Minimal"
    BY <1>2, <1>21 DEF BaseSays, Frames
  <2> QED BY <1>5, <1>21, <2>1, HeadRogue DEF BadHead
<1>22. CASE /\ writing = NoParams /\ params[writer] # NoParams
            /\ f = [[text EXCEPT !.rsv1 = TRUE, !.payload = <<Garbage>>] EXCEPT !.wrong = "INVALID_PAYLOAD"]
  <2>1. f \in Frames /\ f.opcode = "Text" /\ f.payload = <<Garbage>> /\ f.wrong = "INVALID_PAYLOAD"
    BY <1>2, <1>19, <1>22, GarbageIs DEF BaseSays, Frames
  <2>2. f.fin /\ ~f.rsv /\ f.length = "Minimal" /\ (f.masked <=> role = "Server")
    BY <1>2, <1>22 DEF BaseSays, Frames
  <2>3. ASSUME NEW a \in Readers, InStep(a) PROVE Verdict(a, f) = "INVALID_PAYLOAD"
    <3>1. a.fragment = NoParams /\ params[role] # NoParams
      BY <1>5, <1>22, <2>3, StepIs
    <3> QED BY <2>1, <2>2, <3>1, GarbageRefused
  <2> QED BY <2>1, <2>3 DEF Refused
<1> QED BY <1>6, <1>7, <1>8, <1>9, <1>10, <1>11, <1>12, <1>12a, <1>12b, <1>12c, <1>13, <1>16, <1>17, <1>18, <1>20, <1>21, <1>22, Zenon

LEMMA BlunderKeeps ==
  ASSUME CodecInv, blunder PROVE CodecInv'
<1>1. PICK f \in Rogues : link' = Append(link, f)
  BY Zenon DEF blunder
<1>2. /\ dead = ""
      /\ UNCHANGED <<role, native, params, compressor, decompressor, fragment, dead, writing, messages, got, broken>>
  BY Zenon DEF blunder, room
<1>3. Settled /\ messages \in Seq(Received) /\ compressor \in Seq(Nat)
  BY DEF CodecInv
<1>4. f \in Frames /\ f.wrong # "" /\ \A a \in Readers : InStep(a) => Verdict(a, f) = f.wrong
  BY <1>3, RogueRefused DEF Refused
<1>5. \A a \in Readers : InStep(a) => Keeps(a, f)
  BY <1>4 DEF Keeps
<1>6. Begins(messages, messages)
  BY <1>3, BeginsTrivially
<1>7. WritingOk' /\ (native => writing' = NoParams)
  BY <1>2 DEF CodecInv, WritingOk
<1>8. messages' \in Seq(Received) /\ compressor' \in Seq(Nat) /\ Begins(messages, messages')
  BY <1>2, <1>3, <1>6
<1>9. Writes(f)
  BY <1>1, <1>2, <1>4, <1>5, <1>7, <1>8 DEF Writes
<1> QED BY <1>9, FrameWritten

LEMMA CodecStarts ==
  ASSUME wsInit PROVE CodecInv
<1>1. /\ role \in Roles /\ compressor = << >> /\ decompressor = << >> /\ fragment = NoParams /\ dead = ""
      /\ link = << >> /\ writing = NoParams /\ messages = << >> /\ got = << >> /\ broken = ""
  BY DEF wsInit
<1>2. Settled
  <2>1. PICK p : params = [r \in Roles |-> p]
    BY DEF wsInit, upgrade
  <2> QED BY <1>1, <2>1 DEF Settled, Roles
<1>3. << >> \in Seq(Frames) /\ << >> \in Seq(Received) /\ << >> \in Seq(Nat) /\ Len(<< >>) = 0
  OBVIOUS
<1>4. Begins(<< >>, << >>) /\ Ends(<< >>, << >>)
  BY <1>3, BeginsTrivially, EndsTrivially
<1>5. PICK a : a = Reader
  OBVIOUS
<1>6. a = [fragment |-> NoParams, window |-> << >>, got |-> << >>]
  BY <1>1, <1>5 DEF Reader
<1>7. a \in Readers /\ a.fragment = NoParams /\ a.window = << >> /\ a.got = << >>
  BY <1>3, <1>6 DEF Readers
<1>8. InStep(a)
  BY <1>1, <1>4, <1>7 DEF InStep, Idle
<1>9. PICK st : st = [i \in {0} |-> a]
  OBVIOUS
<1>10. Chain(st, << >>)
  <2>1. st[0] = a
    BY <1>9
  <2>2. \A i \in 0 .. 0 : i = 0
    OBVIOUS
  <2>3. \A i \in 0 .. Len(<< >>) : st[i] \in Readers /\ Begins(st[i].got, messages)
    BY <1>1, <1>3, <1>4, <1>7, <2>1, <2>2
  <2>4. \A i \in 1 .. Len(<< >>) : FALSE
    BY <1>3
  <2>5. InStep(st[Len(<< >>)])
    BY <1>3, <1>8, <2>1
  <2> QED BY <1>5, <2>1, <2>3, <2>4, <2>5 DEF Chain
<1> QED BY <1>1, <1>2, <1>3, <1>4, <1>10 DEF CodecInv, WritingOk

LEMMA CodecStutters ==
  ASSUME CodecInv, UNCHANGED wsVars PROVE CodecInv'
<1>1. UNCHANGED <<role, native, params, compressor, decompressor, fragment, dead, link, writing, messages, got, broken>>
  BY DEF wsVars
<1>2. Settled' /\ WritingOk' /\ Reader' = Reader
  BY <1>1 DEF CodecInv, Settled, WritingOk, Reader
<1>3. ASSUME NEW st, NEW l, Chain(st, l) PROVE Chain(st, l)'
  <2>1. \A a : InStep(a)' <=> InStep(a)
    BY <1>1, SameWriter
  <2>2. \A a, f, b : Step(a, f, b)' <=> Step(a, f, b)
    BY <1>1, SameStep
  <2> QED BY <1>1, <1>2, <1>3, <2>1, <2>2 DEF Chain
<1> QED BY <1>1, <1>2, <1>3 DEF CodecInv

LEMMA CodecSteps ==
  ASSUME CodecInv, [wsNext]_wsVars PROVE CodecInv'
<1>1. Bodies \subseteq Nat
  BY WsCodecAssumption
<1>2. CASE decode
  BY <1>2, DecodeKeeps
<1>3. CASE continue
  BY <1>3, ContinueKeeps
<1>4. CASE blunder
  BY <1>4, BlunderKeeps
<1>5. ASSUME NEW opcode \in Data \cup {"Ping"}, NEW size \in Bodies, encode(opcode, size) PROVE CodecInv'
  BY <1>1, <1>5, EncodeKeeps
<1>6. ASSUME NEW size \in Bodies, NEW deflate \in BOOLEAN, NEW reset \in BOOLEAN, begin("Text", size, deflate, reset)
      PROVE  CodecInv'
  BY <1>1, <1>6, BeginKeeps
<1>7. ASSUME NEW opcode \in {"Ping", "Close"}, interject(opcode) PROVE CodecInv'
  BY <1>7, InterjectKeeps
<1>8. CASE UNCHANGED wsVars
  BY <1>8, CodecStutters
<1> QED BY <1>2, <1>3, <1>4, <1>5, <1>6, <1>7, <1>8, Zenon DEF wsNext

(* Whatever was negotiated, however a message was cut, interrupted and      *)
(* compressed, and whatever rule or limit was broken: WsCodec::decode       *)
(* returns the messages as they were written and in order, and it refuses a *)
(* frame exactly when the frame is to be refused, with the code for it.     *)
THEOREM CodecDecodesExactly == wsSpec => []DecodesExactly
<1>1. wsInit => CodecInv
  BY CodecStarts
<1>2. CodecInv /\ [wsNext]_wsVars => CodecInv'
  BY CodecSteps
<1>3. CodecInv => DecodesExactly
  BY PrefixIs DEF CodecInv, DecodesExactly, Reassembled, RefusedExactly
<1> QED BY <1>1, <1>2, <1>3, PTL DEF wsSpec

=============================================================================
