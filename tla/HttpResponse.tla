----------------------------- MODULE HttpResponse -----------------------------
(***************************************************************************)
(* HttpResponse (ESPressio_Http.hpp): the response facade a handler writes *)
(* through, over a platform whose every call may fail.                     *)
(*                                                                         *)
(* A method is an operator from the response before the call to the set of *)
(* its outcomes: the response after it and the WebError it returns.  The   *)
(* methods are used by one thread, so a call is one step.                  *)
(***************************************************************************)
EXTENDS Naturals

CONSTANTS Statuses,       \* HTTP statuses handlers set
          DefaultStatus,  \* what the platform sends if none is set
          MaxBytes,       \* bound: bytes of one Write or Send
          MaxSent,        \* bound: bytes sent by repeated Writes
          NoLength        \* no content length declared

ASSUME ResponseAssumption == /\ MaxBytes \in Nat /\ MaxSent \in Nat
                             /\ NoLength \notin Nat

VARIABLES response,  \* the facade's _state and what the platform was told
          result,    \* what the last call returned
          alive      \* the object's lifetime

vars == <<response, result, alive>>

Errors == {"PlatformFailure", "InvalidState"}

(* state is _state; wire, status, declared and sent are the platform's.    *)
ResponseType ==
  [state    : {"Uncommitted", "Streaming", "Completed", "Aborted"},
   wire     : {"head", "body", "completed", "aborted"},
   status   : Statuses \cup {DefaultStatus},
   declared : Nat \cup {NoLength},
   sent     : Nat]

(* Every variable has its type; a platform called out of order has none.   *)
TypeOK == /\ response \in ResponseType
          /\ result \in Errors \cup {"None"}
          /\ alive \in BOOLEAN

Fresh == [state |-> "Uncommitted", wire |-> "head", status |-> DefaultStatus,
          declared |-> NoLength, sent |-> 0]

Init == response = Fresh /\ result = "None" /\ alive = TRUE

-----------------------------------------------------------------------------
Outcome(r, error) == [response |-> r, result |-> error]

Returns(r, error) == {Outcome(r, error)}

(* Early return on failure: what follows runs on what succeeded.           *)
Then(outcomes, Rest(_)) ==
  {o \in outcomes : o.result # "None"}
    \cup UNION {Rest(o.response) : o \in {p \in outcomes : p.result = "None"}}

(* The platform (IHttpResponsePlatform, outside this library) does what it *)
(* is told or fails; a call out of order is on record as misuse.  A Write  *)
(* that fails may have sent some of its bytes.                             *)
Told(r, phases, after) ==
  [r EXCEPT !.wire = IF @ \in phases THEN after ELSE "misused"]

PlatformSetHeader(r) ==
  Returns(Told(r, {"head"}, "head"), "None") \cup Returns(r, "PlatformFailure")

PlatformSetStatus(r, status) ==
  Returns([Told(r, {"head"}, "head") EXCEPT !.status = status], "None")
    \cup Returns(r, "PlatformFailure")

PlatformBegin(r, length) ==
  Returns([Told(r, {"head"}, "body") EXCEPT !.declared = length], "None")
    \cup Returns(r, "PlatformFailure")

PlatformWrite(r, n) ==
  Returns([Told(r, {"body"}, "body") EXCEPT !.sent = @ + n], "None")
    \cup {Outcome([Told(r, {"body"}, "body") EXCEPT !.sent = @ + k], "PlatformFailure") : k \in 0..n}

PlatformComplete(r) ==
  Returns(Told(r, {"body"}, "completed"), "None") \cup Returns(r, "PlatformFailure")

PlatformAbort(r) == Told(r, {"head", "body"}, "aborted")

-----------------------------------------------------------------------------
(* Definitions named after a mistake ("...Unguarded", "...Optimistic") are  *)
(* the mutants of the definition that follows them; nothing else uses them. *)

IsCommitted(r) == r.state # "Uncommitted"
IsCompleted(r) == r.state = "Completed"

StatusUnguarded(r, status) == PlatformSetStatus(r, status)

Status(r, status) ==
  IF IsCommitted(r) THEN Returns(r, "InvalidState") ELSE PlatformSetStatus(r, status)

Header(r) ==
  IF IsCommitted(r) THEN Returns(r, "InvalidState") ELSE PlatformSetHeader(r)

BeginOptimistic(r, length) ==
  IF IsCommitted(r) THEN Returns(r, "InvalidState")
  ELSE {[o EXCEPT !.response.state = "Streaming"] : o \in PlatformBegin(r, length)}

Begin(r, length) ==
  IF IsCommitted(r) THEN Returns(r, "InvalidState")
  ELSE Then(PlatformBegin(r, length),
            LAMBDA s : Returns([s EXCEPT !.state = "Streaming"], "None"))

Write(r, n) ==
  IF n = 0 THEN Returns(r, "None")
  ELSE Then(IF IsCommitted(r) THEN Returns(r, "None") ELSE Begin(r, NoLength),
            LAMBDA s : IF s.state # "Streaming" THEN Returns(s, "InvalidState")
                       ELSE PlatformWrite(s, n))

Complete(r) ==
  IF r.state = "Completed" THEN Returns(r, "None")
  ELSE IF r.state = "Aborted" THEN Returns(r, "InvalidState")
  ELSE Then(IF IsCommitted(r) THEN Returns(r, "None") ELSE Begin(r, 0),
            LAMBDA s : Then(PlatformComplete(s),
              LAMBDA t : Returns([t EXCEPT !.state = "Completed"], "None")))

Abort(r) ==
  IF r.state \in {"Completed", "Aborted"} THEN r
  ELSE [PlatformAbort(r) EXCEPT !.state = "Aborted"]

(* Send: a failed Write of the body aborts what Begin committed.           *)
SendWithoutAbort(r, n) ==
  IF IsCommitted(r) THEN Returns(r, "InvalidState")
  ELSE Then(Header(r),
       LAMBDA s : Then(Begin(s, n),
       LAMBDA b : Then(IF n = 0 THEN Returns(b, "None") ELSE PlatformWrite(b, n),
       LAMBDA w : Complete(w))))

Send(r, n) ==
  IF IsCommitted(r) THEN Returns(r, "InvalidState")
  ELSE Then(Header(r),
       LAMBDA s : Then(Begin(s, n),
       LAMBDA b : Then(IF n = 0 THEN Returns(b, "None")
                       ELSE {IF o.result = "None" THEN o
                             ELSE [o EXCEPT !.response = Abort(@)] : o \in PlatformWrite(b, n)},
       LAMBDA w : Complete(w))))

(* ~HttpResponse: a response left streaming is aborted.                    *)
Destroyed(r) ==
  IF r.state = "Streaming" THEN [PlatformAbort(r) EXCEPT !.state = "Aborted"] ELSE r

-----------------------------------------------------------------------------
Call(outcomes) ==
  /\ alive
  /\ \E o \in outcomes : response' = o.response /\ result' = o.result
  /\ UNCHANGED alive

CallStatus   == \E s \in Statuses : Call(Status(response, s))
CallHeader   == Call(Header(response))
CallBegin    == \E n \in (0..MaxBytes) \cup {NoLength} : Call(Begin(response, n))
CallWrite    == \E n \in 0..MaxBytes : /\ response.sent + n <= MaxSent
                                       /\ Call(Write(response, n))
CallSend     == \E n \in 0..MaxBytes : Call(Send(response, n))
CallComplete == Call(Complete(response))
CallAbort    == Call(Returns(Abort(response), "None"))

Destruct == /\ alive
            /\ response' = Destroyed(response)
            /\ alive' = FALSE
            /\ UNCHANGED result

Gone == ~alive /\ UNCHANGED vars

Next == \/ CallStatus \/ CallHeader \/ CallBegin \/ CallWrite \/ CallSend
        \/ CallComplete \/ CallAbort
        \/ Destruct
        \/ Gone

Spec == Init /\ [][Next]_vars

-----------------------------------------------------------------------------
Wire == INSTANCE ResponseWire
          WITH phase <- response.wire, status <- response.status, sent <- response.sent

(* Whatever sequence of calls a handler makes and whichever of them fail,  *)
(* the platform is never called out of order: no header after the head, no *)
(* byte before it or after the end, and never two ends.                    *)
ImplementsWire == Wire!Spec

(* The state handlers and the error responder decide by is the platform's: *)
(* Uncommitted means that an error page can still be sent, Completed that  *)
(* the client has the whole response.                                      *)
StateIsWire ==
  response.wire = CASE response.state = "Uncommitted" -> "head"
                    [] response.state = "Streaming"   -> "body"
                    [] response.state = "Completed"   -> "completed"
                    [] response.state = "Aborted"     -> "aborted"

(* Send is all or nothing as far as the platform lets it: it returns None  *)
(* only when all n bytes and the end were sent; when it fails the response *)
(* is untouched enough to be retried, aborted, or lacks only its end.      *)
SendIsWhole ==
  [][\A n \in 0..MaxBytes :
       ~IsCommitted(response) /\ alive /\ Call(Send(response, n)) =>
         \/ result' = "None" /\ response'.wire = "completed"
              /\ response'.sent = n /\ response'.declared = n
         \/ result' # "None" /\ response'.wire \in {"head", "aborted"}
         \/ result' # "None" /\ response'.wire = "body" /\ response'.sent = n]_vars
=============================================================================
