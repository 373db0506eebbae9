----------------------------- MODULE HttpExchange -----------------------------
(***************************************************************************)
(* One admitted request from HttpServer::Dispatch through its handler: a   *)
(* handler of the application registered directly, or HttpApplication with *)
(* its primary and fallback handlers, StaticResourceHandler and, behind a  *)
(* Router, the ingress and state handlers among them, its error            *)
(* responders, and the end of the HttpResponse.  Composes HttpResponse     *)
(* (the methods), ResourceResponse (the resource writer) and WebIngress.   *)
(*                                                                         *)
(* SetPrimary, SetFallback and SetErrorResponder store atomically while    *)
(* requests are under way: each load here may find any pointer.  Whether   *)
(* an error has a resource may change too, but the responder that a        *)
(* ResourceHttpErrorResponder falls back to is its own for good.           *)
(***************************************************************************)
EXTENDS Naturals

CONSTANTS
  Statuses, DefaultStatus, NoLength,   \* as in HttpResponse
  Sizes, MaximumSize, ReadChunkBytes,  \* as in ResourceResponse
  MappedStatus,       \* the status configured for error resources
  ResourceResponders, AppResponders, DefaultResponder,
  Fallback,           \* the responder each resource responder falls back to
  AppErrors,          \* failures application handlers return
  PageBytes,          \* length of a default error page
  MaxBytes, MaxSent,  \* bounds: bytes of one Write or Send, of all Writes
  MaximumBytes, ChunkBytes, PayloadBytes, IdSpace, MaxOthers  \* as in WebIngress

VARIABLES
  response, job, before,  \* as in ResourceResponse
  ingest, handed,         \* as in WebIngress
  request,   \* what handlers ask the request: method and path
  stage,     \* whose turn it is: the handler of the server, or which part of
             \* HttpApplication::Handle
  running,   \* what that stage runs: none, app, static, ingress
  error,     \* the error being responded to
  responder, \* the responder it was given to last
  handling,  \* the HttpHandlerResult returned to Dispatch
  outcome,   \* what Dispatch returned to the platform
  author     \* for the properties: the stage that sent the head, and what it ran

writerVars == <<job, before>>
ingestVars == <<ingest, handed>>
callVars   == <<request, handling, outcome>>
errorVars  == <<error, responder>>
vars       == <<response, writerVars, ingestVars, callVars, stage, running, errorVars, author>>

R == INSTANCE HttpResponse WITH result <- "None", alive <- TRUE
W == INSTANCE ResourceResponse
I == INSTANCE WebIngress

Errors == {"NotFound", "RequestTooLarge", "Unsupported", "ProtocolError",
           "InvalidConfiguration", "ResourceExhausted", "NotRunning",
           "InvalidState", "PlatformFailure", "AlreadyRunning",
           "ConnectionFailure", "Closed"}

ASSUME ExchangeAssumption == /\ AppErrors \subseteq Errors
                             /\ PageBytes \in Nat /\ MaxBytes \in Nat /\ MaxSent \in Nat
                             /\ NoLength \notin Nat /\ Sizes \subseteq Nat
                             /\ MaximumSize \in Nat /\ ReadChunkBytes \in Nat
                             /\ MaximumBytes \in Nat \ {0} /\ ChunkBytes \in Nat \ {0}
                             /\ PayloadBytes \subseteq Nat
                             /\ IdSpace \in Nat /\ MaxOthers \in Nat /\ MaxOthers + 2 < IdSpace

(* Accepted is the answer of an ingress; a handler of the application that *)
(* answers 202 itself sets a status of its own, another member of Statuses.*)
ASSUME AcceptedAssumption == "Accepted" \notin Statuses \cup {DefaultStatus, MappedStatus}

Responders == ResourceResponders \cup AppResponders \cup {DefaultResponder}

(* The application wires responders, and nothing checks how: some fall     *)
(* back among themselves and never to one that answers without a resource. *)
ASSUME ResponderAssumption ==
  /\ ResourceResponders \cap AppResponders = {}
  /\ DefaultResponder \notin ResourceResponders \cup AppResponders
  /\ Fallback \in [ResourceResponders -> Responders]

Circular == UNION {C \in SUBSET ResourceResponders : \A r \in C : Fallback[r] \in C}

(* DefaultHttpStatusForWebError                                            *)
StatusFor(e) ==
  CASE e = "NotFound"          -> "NotFound"
    [] e = "RequestTooLarge"   -> "PayloadTooLarge"
    [] e = "Unsupported"       -> "NotImplemented"
    [] e \in {"ProtocolError", "InvalidConfiguration"} -> "BadRequest"
    [] e \in {"ResourceExhausted", "NotRunning"} -> "ServiceUnavailable"
    [] OTHER -> "InternalServerError"

Nobody == [stage |-> "nobody", ran |-> "none"]

NotHandled      == [error |-> "None", handled |-> FALSE]
Handled(result) == [error |-> result, handled |-> TRUE]

(* Every variable has its type; a platform called out of order has none.   *)
TypeOK ==
  /\ response \in [state : {"Uncommitted", "Streaming", "Completed", "Aborted"},
                   wire : {"head", "body", "completed", "aborted"},
                   status : Statuses \cup {DefaultStatus, MappedStatus, "Accepted"}
                              \cup {StatusFor(e) : e \in Errors},
                   declared : Nat \cup {NoLength}, sent : Nat]
  /\ job \in W!JobType /\ ingest \in I!IngestType /\ handed \in Nat
  /\ request \in [readable : BOOLEAN, headersOnly : BOOLEAN, post : BOOLEAN, safe : BOOLEAN]
  /\ stage \in {"direct", "primary", "fallback", "responder", "mapped", "dispatched", "over"}
  /\ running \in {"none", "app", "static", "ingress"}
  /\ error \in Errors \cup {"None"} /\ responder \in Responders
  /\ handling \in [error : Errors \cup {"None"}, handled : BOOLEAN]
  /\ outcome \in Errors \cup {"None"}
  /\ author \in [stage : {"nobody", "direct", "primary", "fallback", "responder", "mapped"},
                 ran : {"none", "app", "static", "ingress"}]

Init ==
  /\ response = R!Fresh
  /\ job = W!NoJob
  /\ before = R!Fresh
  /\ ingest = I!NoIngest /\ handed = 0
  /\ request \in [readable : BOOLEAN, headersOnly : BOOLEAN, post : BOOLEAN, safe : BOOLEAN]
  /\ request.headersOnly => request.readable
  /\ ~(request.readable /\ request.post)
  /\ stage \in {"direct", "primary"}
  /\ running = "none"
  /\ error = "None" /\ responder = DefaultResponder
  /\ handling = Handled("None")
  /\ outcome = "None"
  /\ author = Nobody

-----------------------------------------------------------------------------
(* Definitions named after a mistake ("...Leaking", "...Unstated") are the *)
(* mutants of the definition that follows them; nothing else uses them.    *)

(* Who sends the head.                                                     *)
Credit(s) ==
  author' = IF author = Nobody /\ (response'.wire \in {"body", "completed"} \/ response'.sent > 0)
              THEN [stage |-> s, ran |-> running] ELSE author

Return(h) == stage' = "dispatched" /\ handling' = h /\ UNCHANGED errorVars

(* HttpApplication::ResolveError: an error page needs an uncommitted       *)
(* response.                                                               *)
ResolveError(e) ==
  IF R!IsCommitted(response) THEN Return(Handled(e))
  ELSE /\ stage' = "responder" /\ error' = e /\ UNCHANGED handling
       /\ \E r \in Responders : responder' = r

(* What HttpApplication::Handle makes of a handler's result h.             *)
Decide(h) ==
  IF h.error # "None" THEN ResolveError(h.error)
  ELSE IF h.handled THEN Return(h)
  ELSE IF stage = "primary" THEN stage' = "fallback" /\ UNCHANGED <<errorVars, handling>>
  ELSE ResolveError("NotFound")

(* A handler returned h, to the application or to Dispatch itself, or an   *)
(* application's responder did: what a responder returns is the result.    *)
Settle(h) ==
  /\ IF stage \in {"direct", "responder"} THEN Return(h) ELSE Decide(h)
  /\ running' = "none"
  /\ job' = W!NoJob /\ ingest' = I!NoIngest
  /\ UNCHANGED <<response, before, handed, request, outcome, author>>

Invoking == stage \in {"direct", "primary", "fallback"} /\ running = "none"

(* HttpApplication takes a handler that is not there for one that declines.*)
InvokeNull ==
  /\ Invoking /\ stage # "direct"
  /\ Settle(NotHandled)

(* An application's handler: any calls on the response, then any result.   *)
InvokeApp ==
  /\ Invoking
  /\ running' = "app"
  /\ before' = response
  /\ UNCHANGED <<response, job, ingestVars, callVars, stage, errorVars, author>>

AppCalls ==
  (UNION {R!Status(response, s) : s \in Statuses})
    \cup (UNION {R!Begin(response, n) : n \in (0..MaxBytes) \cup {NoLength}})
    \cup (UNION {R!Write(response, n) : n \in {k \in 0..MaxBytes : response.sent + k <= MaxSent}})
    \cup (UNION {R!Send(response, n) : n \in 0..MaxBytes})
    \cup R!Complete(response)
    \cup R!Returns(R!Abort(response), "None")

AppUsesResponse ==
  /\ running = "app"
  /\ \E o \in AppCalls : response' = o.response
  /\ Credit(stage)
  /\ UNCHANGED <<writerVars, ingestVars, callVars, stage, running, errorVars>>

AppReturns ==
  /\ running = "app"
  /\ \/ Settle(Handled("None"))
     \/ \E e \in AppErrors : Settle(Handled(e))
     \/ Settle(NotHandled)

(* StaticResourceHandler::Handle                                           *)
InvokeStatic ==
  /\ Invoking
  /\ IF ~request.readable THEN Settle(NotHandled)
     ELSE IF ~request.safe THEN Settle(Handled("ProtocolError"))
     ELSE /\ W!Call(request.headersOnly, TRUE)
          /\ running' = "static"
          /\ UNCHANGED <<ingestVars, callVars, stage, errorVars, author>>

WriteResource ==
  /\ job.pc # "idle"
  /\ W!Continue
  /\ Credit(stage)
  /\ UNCHANGED <<ingestVars, callVars, stage, running, errorVars>>

StaticReturnsDeclining ==
  /\ running = "static" /\ job.pc = "done"
  /\ Settle(IF job.result = "None" THEN Handled("None") ELSE NotHandled)

StaticReturns ==
  /\ running = "static" /\ job.pc = "done"
  /\ Settle(IF job.result = "NotFound" THEN NotHandled ELSE Handled(job.result))

(* An ingress is for a POST, a state for a GET or HEAD.                    *)
InvokeIngress(kind) ==
  /\ Invoking
  /\ IF ~(IF kind = "state" THEN request.readable ELSE request.post) THEN Settle(NotHandled)
     ELSE /\ IF kind = "state" THEN ingest' = [I!NoIngest EXCEPT !.pc = "snapshot", !.kind = kind]
             ELSE \E connected \in BOOLEAN, declared \in (0..MaximumBytes + 1) \cup {NoLength} :
                    I!Receive(kind, connected, declared)
          /\ running' = "ingress"
          /\ UNCHANGED <<response, writerVars, handed, callVars, stage, errorVars, author>>

IngressGoesOn ==
  /\ I!Continue \/ I!Snapshot(request.headersOnly)
  /\ Credit(stage)
  /\ UNCHANGED <<writerVars, callVars, stage, running, errorVars>>

IngressReturns ==
  /\ running = "ingress" /\ ingest.pc = "done"
  /\ Settle(Handled(ingest.result))

OthersTakeId ==
  /\ I!OthersTakeId
  /\ UNCHANGED <<writerVars, callVars, stage, running, errorVars, author>>

-----------------------------------------------------------------------------
(* DefaultHttpErrorResponder                                               *)
Responding(kind) == stage = "responder" /\ running = "none" /\ responder \in kind

DefaultPageUnstated(e) == R!Send(response, PageBytes)

DefaultPage(e) ==
  R!Then(R!Status(response, StatusFor(e)), LAMBDA r : R!Send(r, PageBytes))

DefaultResponds ==
  /\ Responding({DefaultResponder})
  /\ \E o \in DefaultPage(error) :
       /\ response' = o.response
       /\ Return(Handled(o.result))
  /\ Credit(stage)
  /\ UNCHANGED <<writerVars, ingestVars, request, running, outcome>>

(* An application's responder: any calls, then any result, as a handler.   *)
AppResponds ==
  /\ Responding(AppResponders)
  /\ running' = "app"
  /\ before' = response
  /\ UNCHANGED <<response, job, ingestVars, callVars, stage, errorVars, author>>

(* ResourceHttpErrorResponder: an error with a configured resource gets    *)
(* its status, then the resource; one without, or whose resource is not    *)
(* found, is left to the fallback.                                         *)
ResourceResponds ==
  /\ Responding(ResourceResponders)
  /\ \E o \in R!Status(response, MappedStatus) :
       /\ response' = o.response
       /\ before' = o.response
       /\ IF o.result = "None"
            THEN /\ stage' = "mapped"
                 /\ job' = [W!NoJob EXCEPT !.pc = IF request.headersOnly THEN "stat" ELSE "open",
                                           !.headersOnly = request.headersOnly]
                 /\ UNCHANGED <<errorVars, handling>>
            ELSE Return(Handled(o.result)) /\ UNCHANGED job
  /\ UNCHANGED <<ingestVars, request, running, outcome, author>>

FallsBack == job.result = "NotFound" /\ ~R!IsCommitted(response)

FallBackToItself == stage' = "responder" /\ job' = W!NoJob /\ UNCHANGED responder

FallBack == stage' = "responder" /\ job' = W!NoJob /\ responder' = Fallback[responder]

ResourceUnmapped ==
  /\ Responding(ResourceResponders)
  /\ FallBack
  /\ UNCHANGED <<response, before, ingestVars, callVars, running, error, author>>

ResourceReturns ==
  /\ stage = "mapped" /\ job.pc = "done"
  /\ IF FallsBack THEN FallBack /\ UNCHANGED <<error, handling>>
                  ELSE Return(Handled(job.result)) /\ UNCHANGED job
  /\ UNCHANGED <<response, before, ingestVars, request, running, outcome, author>>

-----------------------------------------------------------------------------
(* The end of Dispatch: its result, then the destructor of the response.   *)
DispatchResult(h) ==
  IF h.error # "None" THEN h.error
  ELSE IF ~h.handled THEN (IF R!IsCommitted(response) THEN "InvalidState" ELSE "NotFound")
  ELSE IF ~R!IsCompleted(response) THEN "InvalidState"
  ELSE "None"

ConcludeLeaking ==
  /\ stage = "dispatched"
  /\ outcome' = DispatchResult(handling)
  /\ stage' = "over"
  /\ UNCHANGED <<response, writerVars, ingestVars, request, handling, running, errorVars, author>>

Conclude ==
  /\ stage = "dispatched"
  /\ outcome' = DispatchResult(handling)
  /\ response' = R!Destroyed(response)
  /\ stage' = "over"
  /\ UNCHANGED <<writerVars, ingestVars, request, handling, running, errorVars, author>>

Over == stage = "over" /\ UNCHANGED vars

Proceed == \/ InvokeNull \/ InvokeApp \/ InvokeStatic
           \/ AppReturns \/ WriteResource \/ StaticReturns
           \/ (\E kind \in {"event", "command", "state"} : InvokeIngress(kind))
           \/ IngressGoesOn \/ IngressReturns
           \/ DefaultResponds \/ AppResponds
           \/ ResourceResponds \/ ResourceUnmapped \/ ResourceReturns
           \/ Conclude

Next == Proceed \/ AppUsesResponse \/ OthersTakeId \/ Over

Spec == Init /\ [][Next]_vars

(* Handlers, providers and the platform return from their calls.           *)
FairSpec == Spec /\ WF_vars(Proceed) /\ WF_vars(AppReturns)

-----------------------------------------------------------------------------
(* However handlers, providers and the platform fail, the exchange ends    *)
(* with the response completed, aborted, or untouched and reported as a    *)
(* failure, for the platform to answer: never half sent. Dispatch reports  *)
(* success only for a response the client has whole, also when a handler   *)
(* that wrote nothing, or half of it, claims to have handled the request.  *)
ClientIsAnswered ==
  stage = "over" =>
    /\ \/ response.wire \in {"completed", "aborted"}
       \/ response.wire = "head" /\ outcome # "None"
    /\ outcome = "None" => response.wire = "completed"

(* The bytes of one response come from one stage: no error page, resource, *)
(* state or acknowledgement follows what a handler already sent, also when *)
(* a primary handler began a response and then declined the request.  Only *)
(* two handlers of the application can mix theirs, the second as fallback. *)
OneAuthor ==
  [][response'.sent # response.sent =>
       \/ author'.stage = stage
       \/ stage = "fallback" /\ running = "app" /\ author.ran = "app"]_vars

(* A page one of the library's responders sent carries the status of its   *)
(* error, not one that a handler, or the error resource of a responder     *)
(* that fell back to it, set before.  (An application's has its own.)      *)
ErrorPageHasItsStatus ==
  /\ author = [stage |-> "responder", ran |-> "none"] => response.status = StatusFor(error)
  /\ author.stage = "mapped" => response.status = MappedStatus

(* A client that is told Accepted has had its event or command handed      *)
(* over, once.  One whose body was handed over is told so, or is told of a *)
(* failure: by an error page, or by a response that ends short.            *)
AcceptedMeansHandedOver ==
  stage = "over" =>
    /\ handed <= 1
    /\ response.status = "Accepted" /\ response.wire = "completed" => handed = 1
    /\ handed = 1 /\ outcome = "None" =>
         response.status = "Accepted" \/ author.stage \in {"responder", "mapped"}

(* Inside the exchange too, neither a provider nor a platform that counts  *)
(* wrongly makes the resource writer send more than was declared or an     *)
(* ingress read past its buffer or hand over part of a body: the two parts *)
(* NeverOverruns and BodyIsWholeAndBounded.                                *)
CountsAreChecked == W!NeverOverruns /\ I!BodyIsWholeAndBounded

(* A resource reported as sent is whole at the client, also on a response  *)
(* that handlers used before: WriteWebResourceResponse in its place.       *)
SuccessIsWhole == W!SuccessIsWhole

(* A resource that could not be sent leaves a response the client can tell *)
(* from a whole one, and does not touch what a handler before it began.    *)
FailureIsVisible == W!FailureIsVisible

(* The command of this exchange has an id that is not 0 and that no other  *)
(* exchange has taken since, although they share one counter that wraps.   *)
RequestIdIsUsable == I!RequestIdIsUsable

(* Every exchange ends, through whatever chain of responders its error     *)
(* falls, unless it was given to resource responders that fall back only   *)
(* among themselves: those call each other as long as no resource is found.*)
ExchangeEnds == <>(stage = "over") \/ <>[](responder \in Circular)
=============================================================================
