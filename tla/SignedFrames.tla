---------------------------- MODULE SignedFrames -----------------------------
(***************************************************************************)
(* Signed messages (src/src/rpc/signed.rs): a frame wrapped in its signed     *)
(* form and unwrapped again, under the policy in force.                      *)
(*                                                                          *)
(* An action is its name and how many times "Signed" is appended to it. A     *)
(* signature is what it was computed over and by whom: that a signature of   *)
(* the trusted key cannot be made for anything else is the Verifier's, which  *)
(* is external.                                                              *)
(***************************************************************************)
EXTENDS Integers

CONSTANTS
  Actions,       \* names of actions
  Payloads,      \* payloads that are not a JWS
  Failure,       \* the answer of a function that returns an error
  NoAction       \* None

VARIABLES incoming,        \* the frame that arrived
          request_action   \* the action of the CALL that a CALLRESULT answers, or None

signedVars == <<incoming, request_action>>

Action(name, suffixes) == [name |-> name, suffixes |-> suffixes]
MessageTypes == {"Call", "Send", "CallResult", "CallError"}
Errors == {"CallError"}      \* CALLRESULTERROR is treated alike
Policies == {"Required", "Optional"}
Headers == [alg : {"ES256", "none"}, action : {Action(a, 0) : a \in Actions}, type : MessageTypes \ Errors, crit : BOOLEAN]

Message(type, action, payload) == [type |-> type, action |-> action, payload |-> payload]
Unprotected(payload) == [jws |-> FALSE, body |-> payload]
Jws(protected, payload, signature) == [jws |-> TRUE, protected |-> protected, body |-> payload, signature |-> signature]
Signature(signer, protected, payload) == [by |-> signer, over |-> <<protected, payload>>]

---------------------------------------------------------------------------

sign_payload(payload, action, type) ==
  LET protected == [alg |-> "ES256", action |-> action, type |-> type, crit |-> FALSE]
  IN Jws(protected, payload.body, Signature("trusted", protected, payload.body))

sign_frame(frame, answered) ==
  CASE frame.type \in {"Call", "Send"} ->
         Message(frame.type, [frame.action EXCEPT !.suffixes = @ + 1], sign_payload(frame.payload, frame.action, frame.type))
    [] frame.type = "CallResult" ->
         IF answered = NoAction THEN Failure
         ELSE Message(frame.type, NoAction, sign_payload(frame.payload, answered, frame.type))
    [] OTHER -> Failure

(* The key's owner is the only one who can sign for it, and a signature is   *)
(* of the header and the payload it was made for.                            *)
verifies(jws) == jws.signature = Signature("trusted", jws.protected, jws.body)

verify_payload_typed(jws, action, type) ==  \* mutant: the header's action is not compared
  /\ jws.protected.alg # "none" /\ ~jws.protected.crit
  /\ jws.protected.type = type /\ verifies(jws)
verify_payload(jws, action, type) ==
  /\ jws.protected.alg # "none"
  /\ ~jws.protected.crit
  /\ jws.protected.action = action
  /\ jws.protected.type = type
  /\ verifies(jws)

unsigned(frame, policy) == IF policy = "Required" THEN Failure ELSE frame

Unwrapped(frame, action, policy) ==
  IF verify_payload(frame.payload, action, frame.type)
  THEN Message(frame.type, IF frame.type = "CallResult" THEN NoAction ELSE action, Unprotected(frame.payload.body))
  ELSE Failure

verify_frame(frame, answered, policy) ==
  CASE frame.type \in {"Call", "Send"} ->
         IF frame.action.suffixes = 0 THEN unsigned(frame, policy)
         ELSE IF ~frame.payload.jws THEN Failure
         ELSE Unwrapped(frame, [frame.action EXCEPT !.suffixes = @ - 1], policy)
    [] frame.type = "CallResult" ->
         IF answered = NoAction \/ ~frame.payload.jws THEN unsigned(frame, policy)
         ELSE Unwrapped(frame, answered, policy)
    [] OTHER -> frame

---------------------------------------------------------------------------

(* What can arrive in a frame: a payload, or any JWS some signer made,       *)
(* whichever frame it was made for.                                          *)
Contents ==
  {Unprotected(p) : p \in Payloads}
  \union {Jws(h, p, Signature(s, h, q)) : h \in Headers, p \in Payloads, q \in Payloads, s \in {"trusted", "other"}}

IncomingFrames == [type : MessageTypes, action : [name : Actions, suffixes : 0 .. 1] \union {NoAction}, payload : Contents]

ASSUME SignedFramesAssumption == Failure \notin IncomingFrames

signedInit ==
  /\ request_action \in {NoAction} \union {Action(a, 0) : a \in Actions}
  /\ \E p \in Payloads :
       incoming \in {Message(type, Action(a, n), Unprotected(p)) : type \in {"Call", "Send"}, a \in Actions, n \in 0 .. 1}
                \union {Message(type, NoAction, Unprotected(p)) : type \in {"CallResult", "CallError"}}
signedNext ==
  /\ ~incoming.payload.jws
  /\ \E c \in Contents : incoming' = [incoming EXCEPT !.payload = c]
  /\ UNCHANGED request_action

signedSpec == signedInit /\ [][signedNext]_signedVars

IsSigned(frame) == frame.type \notin Errors
                  /\ IF frame.type = "CallResult" THEN frame.payload.jws ELSE frame.action.suffixes > 0

(* What is signed here is read back there, frame for frame: the suffix is    *)
(* taken off the action, and the payload is the one that was signed; and the  *)
(* same frame without its signature is accepted where none is required and   *)
(* nowhere else.                                                             *)
SignedReadsBack ==
  \A policy \in Policies :
    LET sent == sign_frame(incoming, request_action)
    IN (~incoming.payload.jws /\ sent # Failure) =>
         /\ verify_frame(sent, request_action, policy) = incoming
         /\ ~IsSigned(incoming) => (verify_frame(incoming, request_action, policy) # Failure) = (policy = "Optional")

(* A signature protects one message: where signatures are required, a frame  *)
(* that is not an error is accepted only with a payload that the trusted key  *)
(* signed for this very action and this kind of message. A JWS moved from    *)
(* another frame, or one that asks for a header this library does not know,   *)
(* is refused.                                                               *)
SignatureFits ==
  LET accepted == verify_frame(incoming, request_action, "Required")
      action == IF incoming.type = "CallResult" THEN request_action ELSE accepted.action
      header == [alg |-> "ES256", action |-> action, type |-> incoming.type, crit |-> FALSE]
  IN (accepted # Failure /\ incoming.type \notin Errors) =>
       incoming.payload.signature = Signature("trusted", header, accepted.payload.body)

(* Where signatures are optional, one that is there still counts: a frame    *)
(* that carries a signature is accepted exactly if it would be where they    *)
(* are required. A CALLRESULT is known to carry one when the call it answers  *)
(* is.                                                                       *)
SignatureCounts ==
  (IsSigned(incoming) /\ (incoming.type = "CallResult" => request_action # NoAction)) =>
    verify_frame(incoming, request_action, "Optional") = verify_frame(incoming, request_action, "Required")

(* A signature stands for the one frame it was made for: it is read back      *)
(* there, it is worth nothing elsewhere, and it is never ignored.             *)
SignaturesBind == SignedReadsBack /\ SignatureFits /\ SignatureCounts
=============================================================================
