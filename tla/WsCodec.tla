------------------------------- MODULE WsCodec -------------------------------
(***************************************************************************)
(* One direction of a WebSocket: the negotiation of permessage-deflate, the  *)
(* encoder of one side and the decoder of the other                          *)
(* (src/src/transport/ws/codec.rs, frame.rs and deflate.rs).  The directions *)
(* share nothing but what was negotiated.                                    *)
(*                                                                          *)
(* The reader is this library.  The writer is this library, or another one   *)
(* (external) that follows RFC 6455 and RFC 7692 but fragments and           *)
(* compresses as it likes, or one that breaks a rule.  A payload is a        *)
(* sequence of units; a compressed one is two units that carry the window    *)
(* they refer to.  A frame is read once the whole of it has arrived: fewer   *)
(* bytes leave decode's state alone.  Masking keys are left out, and with    *)
(* them the encoder's failure when there is no entropy.                      *)
(***************************************************************************)
EXTENDS Integers, Sequences, SequencesExt

CONSTANTS
  Offers,       \* what another client offers: sequences of extension elements
  Responses,    \* what another server answers an offer with: elements, or NoParams
  Bodies,       \* sizes of the messages, in units
  MaxMessage,   \* Config::max_message_size
  MaxFrame,     \* Config::max_frame_size
  MaxControl,   \* the 125 bytes of a control frame
  Threshold,    \* Config::compression_threshold
  MaxSent,      \* bound: how many messages are written
  MaxLink,      \* bound: how many frames are on the way
  NoParams

ASSUME WsCodecAssumption ==
  /\ MaxMessage \in Nat \ {0} /\ MaxFrame \in Nat \ {0} /\ MaxControl \in Nat \ {0}
  /\ Bodies \subseteq Nat /\ Threshold \in Nat /\ MaxSent \in Nat /\ MaxLink \in Nat

VARIABLES
  role,         \* of the reader
  native,       \* whether the writer is this library
  params,       \* per role: its DeflateParams, or NoParams
  compressor,   \* the messages in the writer's window
  decompressor, \* and in the reader's
  fragment,     \* WsCodec::fragment, or NoParams
  dead,         \* "", or the close code of the error that decode returned
  link,         \* the frames that were written and not read
  writing,      \* the rest of the message that the writer sends in fragments, or NoParams
  messages,     \* history: the messages written
  got,          \* history: the messages decode returned
  broken        \* history: "", or the close code that the frames read call for

wsVars == <<role, native, params, compressor, decompressor, fragment, dead, link, writing, messages, got, broken>>

Roles == {"Client", "Server"}
writer == IF role = "Client" THEN "Server" ELSE "Client"

---------------------------------------------------------------------------
(* Negotiation.  An element is permessage-deflate, another extension, or     *)
(* one that does not parse.                                                  *)

MAX_WINDOW_BITS == 15
Params(server, client) == [server_no_context_takeover |-> server, client_no_context_takeover |-> client]
ParamsOf(e) == Params(e.server_no_context_takeover, e.client_no_context_takeover)
Element(kind, p, server_bits, client_bits) ==
  [kind |-> kind, server_no_context_takeover |-> p.server_no_context_takeover,
   client_no_context_takeover |-> p.client_no_context_takeover,
   server_max_window_bits |-> server_bits, client_max_window_bits |-> client_bits]
to_header(p) == IF p = NoParams THEN NoParams ELSE Element("Deflate", p, NoParams, NoParams)

Narrow(bits) == bits # NoParams /\ bits < MAX_WINDOW_BITS

(* The first offer that can be honoured. *)
accept_offer(offers) ==
  LET i == SelectInSeq(offers, LAMBDA e : e.kind = "Deflate" /\ ~Narrow(e.server_max_window_bits))
  IN IF i = 0 THEN NoParams ELSE ParamsOf(offers[i])

acceptable(answer) == answer # NoParams => answer.kind = "Deflate" /\ ~Narrow(answer.client_max_window_bits)
accept_response(answer) == IF answer = NoParams THEN NoParams ELSE ParamsOf(answer)

(* Our client offers the defaults or nothing, our server takes an offer or   *)
(* compresses nothing; a client that cannot accept the answer goes away.     *)
upgrade(client, server) ==
  \E offers \in IF client THEN {<< >>, <<to_header(Params(FALSE, FALSE))>>} ELSE Offers :
  \E answer \in IF server THEN {NoParams, to_header(accept_offer(offers))}
                ELSE IF offers = << >> THEN {NoParams} ELSE Responses :
    /\ acceptable(answer)
    /\ params = [r \in Roles |-> accept_response(answer)]

wsInit ==
  /\ role \in Roles /\ native \in BOOLEAN
  /\ upgrade(native \/ role = "Client", native \/ role = "Server")
  /\ compressor = << >> /\ decompressor = << >> /\ fragment = NoParams /\ dead = ""
  /\ link = << >> /\ writing = NoParams /\ messages = << >> /\ got = << >> /\ broken = ""

---------------------------------------------------------------------------
(* Deflate *)

resets_swapped(side) ==  \* mutant: whose compressor a parameter binds, the wrong way round
  LET p == params[side]
  IN [out |-> p.server_no_context_takeover, in |-> p.client_no_context_takeover]
(* Deflate::new *)
resets(side) ==
  LET p == params[side]
  IN IF side = "Server" THEN [out |-> p.server_no_context_takeover, in |-> p.client_no_context_takeover]
                        ELSE [out |-> p.client_no_context_takeover, in |-> p.server_no_context_takeover]

Carried(window, reset) == IF reset THEN << >> ELSE window

Unit(i, body, window, deflated) == [part |-> i, body |-> body, window |-> window, deflated |-> deflated]
Plain(body) == [i \in 1 .. body.size |-> Unit(i, body, << >>, FALSE)]
Deflated(body, window) == [i \in 1 .. 2 |-> Unit(i, body, window, TRUE)]
(* Bytes that are no UTF-8, as a Close's body no code that may be sent; and  *)
(* a Close's body that has such a code, but a reason that is no UTF-8.       *)
Garbage == Unit(1, [n |-> 0, size |-> 1], << >>, FALSE)
BadReason == Unit(2, [n |-> 0, size |-> 1], << >>, FALSE)
Units == [part : Nat, body : [n : Nat, size : Nat], window : Seq(Nat), deflated : BOOLEAN]

(* What the reader's window does not hold cannot be inflated. *)
Inflates(payload, window) ==
  /\ payload # << >> /\ payload[1].deflated
  /\ payload = Deflated(payload[1].body, payload[1].window) /\ IsSuffix(payload[1].window, window)

---------------------------------------------------------------------------
(* Encoder *)

Data == {"Text", "Binary"}
is_control(opcode) == opcode \in {"Close", "Ping", "Pong"}

(* A message that is read, or written, in parts; NoParams is none of them. *)
Incoming == [opcode : Data, compressed : BOOLEAN, payload : Seq(Units)]
Outgoing == [opcode : Data, body : [n : Nat, size : Nat], deflated : BOOLEAN, rest : Seq(Units), done : Nat, fresh : BOOLEAN]
ASSUME NoParamsAssumption == NoParams \notin Incoming /\ NoParams \notin Outgoing

(* The length field is the shortest there is, or a longer one than it needs  *)
(* to be, or has the top bit that it must not have.                          *)
Lengths == {"Minimal", "Padded", "TopBit"}

Frame(opcode, fin, rsv1, payload) ==
  [opcode |-> opcode, fin |-> fin, rsv1 |-> rsv1, rsv |-> FALSE, masked |-> writer = "Client",
   length |-> "Minimal", payload |-> payload, wrong |-> ""]

(* The close code that a frame of a writer calls for that keeps the rules,   *)
(* but not the reader's limits.                                              *)
Judged(f, total, size) ==
  [f EXCEPT !.wrong =
     IF ~is_control(f.opcode) /\ (Len(f.payload) > MaxFrame \/ total > MaxMessage \/ (f.fin /\ size > MaxMessage))
     THEN "TOO_BIG" ELSE ""]

(* The connection takes another frame; the reader closes it after an error. *)
room == dead = "" /\ Len(link) < MaxLink
Body(size) == [n |-> Len(messages) + 1, size |-> size]
Written(opcode, body) == messages' = Append(messages, [opcode |-> opcode, payload |-> Plain(body)])

(* encode: one frame, compressed when there is something to gain. *)
encode(opcode, size) ==
  LET body == Body(size)
      compress == params[writer] # NoParams /\ opcode \in Data /\ size >= Threshold
      window == IF compress THEN Carried(compressor, resets(writer).out) ELSE compressor
      payload == IF compress THEN Deflated(body, window) ELSE Plain(body)
  IN /\ native /\ Len(messages) < MaxSent /\ room
     /\ is_control(opcode) => size <= MaxControl
     /\ link' = Append(link, Judged(Frame(opcode, TRUE, compress, payload), Len(payload), size))
     /\ compressor' = IF compress THEN Append(window, body.n) ELSE window
     /\ Written(opcode, body)
     /\ UNCHANGED <<role, native, params, decompressor, fragment, dead, writing, got, broken>>

(* Another library (external): it cuts a message where it likes ... *)
Send(m, k) ==
  LET last == k = Len(m.rest)
      f == Frame(IF m.done = 0 /\ m.fresh THEN m.opcode ELSE "Continuation", last, m.fresh /\ m.deflated,
                 SubSeq(m.rest, 1, k))
  IN /\ room
     /\ link' = Append(link, Judged(f, m.done + k, m.body.size))
     /\ IF last THEN writing' = NoParams /\ Written(m.opcode, m.body)
        ELSE /\ writing' = [m EXCEPT !.done = @ + k, !.fresh = FALSE, !.rest = SubSeq(@, k + 1, Len(@))]
             /\ UNCHANGED messages
     /\ UNCHANGED <<role, native, params, decompressor, fragment, dead, got, broken>>

begin(opcode, size, deflate, reset) ==
  LET body == Body(size)
      window == Carried(compressor, reset)
      payload == IF deflate THEN Deflated(body, window) ELSE Plain(body)
  IN /\ ~native /\ writing = NoParams /\ Len(messages) < MaxSent /\ (reset => deflate)
     /\ deflate => params[writer] # NoParams /\ (resets(writer).out => reset)
     /\ \E k \in 0 .. Len(payload) :
          Send([opcode |-> opcode, body |-> body, deflated |-> deflate, rest |-> payload, done |-> 0, fresh |-> TRUE], k)
     /\ compressor' = IF deflate THEN Append(window, body.n) ELSE compressor

continue ==
  /\ ~native /\ writing # NoParams
  /\ \E k \in 0 .. Len(writing.rest) : Send(writing, k)
  /\ UNCHANGED compressor

(* ... sends control frames between the fragments ... *)
Interjects == [n |-> MaxSent + 1, size |-> MaxControl]
interject(opcode) ==
  /\ ~native /\ Len(messages) < MaxSent /\ room
  /\ link' = Append(link, Frame(opcode, TRUE, FALSE, Plain(Interjects)))
  /\ Written(opcode, Interjects)
  /\ UNCHANGED <<role, native, params, compressor, decompressor, fragment, dead, writing, got, broken>>

(* ... or breaks a rule. *)
Rogues ==
  LET bad(f, code) == [f EXCEPT !.wrong = code]
      ping == bad(Frame("Ping", TRUE, FALSE, << >>), "PROTOCOL_ERROR")
      text == bad(Frame("Text", TRUE, FALSE, << >>), "PROTOCOL_ERROR")
      next == bad(Frame("Continuation", TRUE, FALSE, << >>), "PROTOCOL_ERROR")
  IN {[ping EXCEPT !.opcode = "Reserved"], [ping EXCEPT !.rsv = TRUE], [ping EXCEPT !.rsv1 = TRUE],
      [ping EXCEPT !.masked = ~@], [ping EXCEPT !.fin = FALSE], [ping EXCEPT !.length = "Padded"],
      bad([ping EXCEPT !.length = "TopBit"], "TOO_BIG"), [ping EXCEPT !.opcode = "Close", !.payload = <<Garbage>>],
      bad([ping EXCEPT !.opcode = "Close", !.payload = <<BadReason>>], "INVALID_PAYLOAD"),
      [ping EXCEPT !.payload = Plain([n |-> MaxSent + 1, size |-> MaxControl + 1])]}
     \cup IF writing # NoParams THEN {text, [next EXCEPT !.rsv1 = TRUE]}
          ELSE {next, bad([text EXCEPT !.payload = <<Garbage>>], "INVALID_PAYLOAD"),
                IF params[writer] = NoParams THEN [text EXCEPT !.rsv1 = TRUE]
                ELSE bad([text EXCEPT !.rsv1 = TRUE, !.payload = <<Garbage>>], "INVALID_PAYLOAD")}

blunder ==
  /\ ~native /\ room /\ broken = "" /\ (link # << >> => Last(link).wrong = "")
  /\ \E f \in Rogues : link' = Append(link, f)
  /\ UNCHANGED <<role, native, params, compressor, decompressor, fragment, dead, writing, messages, got, broken>>

---------------------------------------------------------------------------
(* Decoder *)

(* The close code of a header that cannot be read, or "". *)
read_header(f) ==
  IF f.opcode = "Reserved" \/ f.length = "Padded" THEN "PROTOCOL_ERROR"
  ELSE IF f.length = "TopBit" THEN "TOO_BIG" ELSE ""

(* read_header and, with a message in progress, WsCodec::check *)
check(progress, f) ==
  IF read_header(f) # "" THEN read_header(f)
  ELSE IF
     \/ f.rsv
     \/ f.rsv1 /\ (params[role] = NoParams \/ f.opcode \notin Data)
     \/ f.masked # (role = "Server")
     \/ is_control(f.opcode) /\ (~f.fin \/ Len(f.payload) > MaxControl)
  THEN "PROTOCOL_ERROR"
  ELSE IF is_control(f.opcode) THEN ""
  ELSE IF Len(f.payload) > MaxFrame THEN "TOO_BIG"
  ELSE IF (f.opcode = "Continuation") # (progress # NoParams) THEN "PROTOCOL_ERROR"
  ELSE ""

(* finish: a payload and the new window, or the close code of its error. *)
finish(held, whole) ==
  LET window == Carried(held, resets(role).in)
      body == whole.payload[1].body
      valid(payload) == whole.opcode = "Text" => \A i \in DOMAIN payload : payload[i] # Garbage
  IN IF ~whole.compressed
     THEN [error |-> IF valid(whole.payload) THEN "" ELSE "INVALID_PAYLOAD", payload |-> whole.payload, window |-> held]
     ELSE IF ~Inflates(whole.payload, window)
     THEN [error |-> "INVALID_PAYLOAD", payload |-> << >>, window |-> held]
     ELSE [error |-> IF body.size > MaxMessage THEN "TOO_BIG" ELSE "", payload |-> Plain(body), window |-> Append(window, body.n)]

(* A Close's body that cannot be read. *)
close_frame(f) ==
  IF f.opcode = "Close" /\ f.payload = <<Garbage>> THEN "PROTOCOL_ERROR"
  ELSE IF f.opcode = "Close" /\ f.payload = <<BadReason>> THEN "INVALID_PAYLOAD" ELSE ""

(* A data frame starts a message or extends the one in progress. *)
extended(progress, f) ==
  LET from == IF progress = NoParams THEN [opcode |-> f.opcode, compressed |-> f.rsv1, payload |-> << >>] ELSE progress
  IN [from EXCEPT !.payload = @ \o f.payload]

Yields(opcode, payload) == got' = Append(got, [opcode |-> opcode, payload |-> payload]) /\ UNCHANGED dead
Fails(code) == dead' = code /\ UNCHANGED got

decode ==
  LET f == Head(link)
      whole == extended(fragment, f)
      done == finish(decompressor, whole)
  IN /\ dead = "" /\ link # << >>
     /\ link' = Tail(link) /\ broken' = f.wrong
     /\ \/ check(fragment, f) # "" /\ Fails(check(fragment, f)) /\ UNCHANGED <<fragment, decompressor>>
        \/ /\ check(fragment, f) = "" /\ is_control(f.opcode)
           /\ IF close_frame(f) # "" THEN Fails(close_frame(f)) ELSE Yields(f.opcode, f.payload)
           /\ UNCHANGED <<fragment, decompressor>>
        \/ /\ check(fragment, f) = "" /\ ~is_control(f.opcode) /\ Len(whole.payload) > MaxMessage
           /\ fragment' = NoParams /\ Fails("TOO_BIG") /\ UNCHANGED decompressor
        \/ /\ check(fragment, f) = "" /\ ~is_control(f.opcode) /\ Len(whole.payload) <= MaxMessage /\ ~f.fin
           /\ fragment' = whole /\ UNCHANGED <<got, dead, decompressor>>
        \/ /\ check(fragment, f) = "" /\ ~is_control(f.opcode) /\ Len(whole.payload) <= MaxMessage /\ f.fin
           /\ fragment' = NoParams /\ decompressor' = done.window
           /\ IF done.error = "" THEN Yields(whole.opcode, done.payload) ELSE Fails(done.error)
     /\ UNCHANGED <<role, native, params, compressor, writing, messages>>

wsNext ==
  \/ decode \/ continue \/ blunder
  \/ \E opcode \in Data \cup {"Ping"}, size \in Bodies : encode(opcode, size)
  \/ \E size \in Bodies, deflate, reset \in BOOLEAN : begin("Text", size, deflate, reset)
  \/ \E opcode \in {"Ping", "Close"} : interject(opcode)

wsSpec == wsInit /\ [][wsNext]_wsVars

---------------------------------------------------------------------------

(* Whatever the negotiation settled and however a message was cut and        *)
(* interrupted, decode returns the messages as they were written, in order:  *)
(* control frames between fragments, windows that are kept or reset, and     *)
(* messages below the threshold disturb nothing.                             *)
Reassembled == IsPrefix(got, messages)

(* decode refuses what breaks a rule or a limit, with the close code that    *)
(* RFC 6455 has for it, and nothing else: a peer that keeps both never loses *)
(* its connection to the decoder.                                            *)
RefusedExactly == dead = broken

(* The decoder returns what was written until it refuses something, and it    *)
(* refuses exactly what is to be refused.                                    *)
DecodesExactly == Reassembled /\ RefusedExactly
=============================================================================
