------------------------------ MODULE DnsServer ------------------------------
(***************************************************************************)
(* DnsServer and WildcardDnsHandler (ESPressio_Dns.hpp): the lifecycle     *)
(* facade in front of a DNS platform, driven by several threads while the  *)
(* platform's own threads dispatch queries into it.                        *)
(*                                                                         *)
(* Steps are cut as in HttpServer: a section under _mutex, or one call     *)
(* made with it released. What one query does to its own response is seen  *)
(* by nobody else, so the wildcard handler and the end of Dispatch are one *)
(* step each. What observers are told is left to HttpServer.               *)
(***************************************************************************)
EXTENDS Naturals

CONSTANTS
  Threads, NoThread,    \* threads that call Initialize, Start and Stop
  Queries,              \* native callbacks that call Dispatch
  Questions,            \* <<type, class>> of the queries that arrive
  Handlers, NoHandler,  \* handlers of the application; the null handler
  Wildcard,             \* a WildcardDnsHandler
  WildcardFamily,       \* of its _address: IPv4 or IPv6
  Configurations,       \* what Initialize is called with
  Capabilities,         \* what the platform reports
  Codes,                \* response codes application handlers set
  MaxAnswers            \* bound: addresses an application handler adds

ASSUME DnsAssumption ==
  /\ NoThread \notin Threads
  /\ Wildcard \notin Handlers /\ NoHandler \notin Handlers \cup {Wildcard}
  /\ WildcardFamily \in {"IPv4", "IPv6"}
  /\ Questions \subseteq STRING \X STRING
  /\ Configurations \subseteq [Port : Nat, MaximumPendingRequests : Nat]
  /\ MaxAnswers \in Nat

VARIABLES
  state,     \* _state
  handler,   \* _handler
  lifetime,  \* of the DnsServer object: alive, destructing, destroyed
  pc,        \* per thread, where its lifecycle call is
  ok,        \* per thread, the result of its last platform call
  platform,  \* the platform: reset, initialized, running, closing
  queries    \* per native callback, the Dispatch under way

serverVars == <<state, handler, lifetime>>
threadVars == <<pc, ok>>
vars       == <<serverVars, threadVars, platform, queries>>

R == INSTANCE DnsResponse

InitializePcs == {"initNotify", "initReset", "initPlatform", "initPublish"}
StartPcs      == {"startNotify", "startPlatform", "startPublish"}
StopPcs       == {"stopNotify", "stopPlatform", "stopPublish"}
Owning        == InitializePcs \cup StartPcs \cup StopPcs
Pcs           == Owning \cup {"idle", "stopReset", "finalNotify"}

AnyHandler == Handlers \cup {NoHandler, Wildcard}
Errors     == {"None", "NotRunning", "InvalidState", "PlatformFailure", "HandlerFailure"}

QueryType == [pc : {"idle", "arrived", "handling", "over"},
              question : Questions \cup {<<>>}, handler : AnyHandler,
              response : R!ResponseType, outcome : Errors]

(* Every variable has its type; in particular no sequence of calls by a    *)
(* handler makes the facade call a platform's response after its end.      *)
TypeOK ==
  /\ state \in {"Stopped", "Initializing", "Ready", "Starting", "Running", "Stopping", "Faulted"}
  /\ handler \in AnyHandler
  /\ lifetime \in {"alive", "destructing", "destroyed"}
  /\ pc \in [Threads -> Pcs]
  /\ ok \in [Threads -> BOOLEAN]
  /\ platform \in {"reset", "initialized", "running", "closing"}
  /\ queries \in [Queries -> QueryType]

Idle == [pc |-> "idle", question |-> <<>>, handler |-> NoHandler,
         response |-> R!Fresh, outcome |-> "None"]

Init ==
  /\ state = "Stopped" /\ handler = NoHandler /\ lifetime = "alive"
  /\ pc = [t \in Threads |-> "idle"]
  /\ ok = [t \in Threads |-> TRUE]
  /\ platform = "reset"
  /\ queries = [q \in Queries |-> Idle]

-----------------------------------------------------------------------------
(* Definitions named after a mistake ("...Unguarded", "...AnyClass") are    *)
(* the mutants of the definition that follows them; nothing else uses them. *)
Goto(t, next) == pc' = [pc EXCEPT ![t] = next]

Callable(t) == lifetime = "alive" /\ pc[t] = "idle"

(* Initialize refuses an unusable configuration before it looks at the     *)
(* state.                                                                  *)
Supported(c) == c.Port # 0 /\ c.MaximumPendingRequests # 0 /\ "Dns" \in Capabilities

Initialize(t, c) ==
  /\ Callable(t)
  /\ Supported(c)
  /\ state \notin {"Running", "Starting", "Stopping", "Initializing"}
  /\ state' = "Initializing" /\ Goto(t, "initNotify")
  /\ UNCHANGED <<handler, lifetime, ok, platform, queries>>

(* The section that ends an operation, by the result of the platform.      *)
Publish(t, success, next) ==
  /\ state' = IF ok[t] THEN success ELSE "Faulted"
  /\ Goto(t, next)
  /\ UNCHANGED <<handler, lifetime, ok, platform, queries>>

PublishInitialized(t) == pc[t] = "initPublish" /\ Publish(t, "Ready", "finalNotify")

Start(t) ==
  /\ Callable(t)
  /\ state = "Ready"
  /\ state' = "Starting" /\ Goto(t, "startNotify")
  /\ UNCHANGED <<handler, lifetime, ok, platform, queries>>

PublishStarted(t) == pc[t] = "startPublish" /\ Publish(t, "Running", "finalNotify")

StoppableUnguarded == state \notin {"Stopped", "Stopping"}

Stoppable == state \in {"Ready", "Faulted", "Running"}

StopSection(t) ==
  IF state = "Running" THEN state' = "Stopping" /\ Goto(t, "stopNotify")
                       ELSE state' = "Stopped" /\ Goto(t, "stopReset")

Stop(t) ==
  /\ Callable(t)
  /\ Stoppable
  /\ StopSection(t)
  /\ UNCHANGED <<handler, lifetime, ok, platform, queries>>

PublishStopped(t) ==
  pc[t] = "stopPublish" /\ Publish(t, "Stopped", IF ok[t] THEN "stopReset" ELSE "finalNotify")

(* ~DnsServer: Stop, then Reset whatever Stop returned.  C++ allows it     *)
(* only once no other call on the object is under way.                     *)
Destruct(t) ==
  /\ lifetime = "alive"
  /\ \A u \in Threads : pc[u] = "idle"
  /\ lifetime' = "destructing"
  /\ IF Stoppable THEN StopSection(t) ELSE UNCHANGED <<state, pc>>
  /\ UNCHANGED <<handler, ok, platform, queries>>

SetRequestHandler(h) ==
  /\ lifetime = "alive"
  /\ state \notin {"Running", "Starting", "Stopping"}
  /\ handler' = h
  /\ UNCHANGED <<state, lifetime, threadVars, platform, queries>>

AfterNotify == [initNotify |-> "initReset", startNotify |-> "startPlatform",
                stopNotify |-> "stopPlatform", finalNotify |-> "idle"]

NotifyStateChanged(t) ==
  /\ pc[t] \in DOMAIN AfterNotify
  /\ Goto(t, AfterNotify[pc[t]])
  /\ UNCHANGED <<serverVars, ok, platform, queries>>

-----------------------------------------------------------------------------
(* The platform (IDnsServerPlatform, implemented outside this library): an *)
(* operation may fail, and Stop and Reset wait for the queries under way.  *)
Quiet == platform # "running" /\ \A q \in Queries : queries[q].pc = "idle"

(* An operation by which the platform gets from one state to another, or   *)
(* fails and stays.                                                        *)
PlatformMoves(t, from, to) ==
  \/ platform = from /\ platform' = to /\ ok' = [ok EXCEPT ![t] = TRUE]
  \/ UNCHANGED platform /\ ok' = [ok EXCEPT ![t] = FALSE]

PlatformInitialize(t) ==
  /\ pc[t] = "initPlatform"
  /\ PlatformMoves(t, "reset", "initialized")
  /\ Goto(t, "initPublish")
  /\ UNCHANGED <<serverVars, queries>>

PlatformStart(t) ==
  /\ pc[t] = "startPlatform"
  /\ PlatformMoves(t, "initialized", "running")
  /\ Goto(t, "startPublish")
  /\ UNCHANGED <<serverVars, queries>>

(* Stop, Reset and the Reset of the destructor refuse new queries first.   *)
PlatformClose(t) ==
  /\ pc[t] \in {"initReset", "stopPlatform", "stopReset"}
  /\ platform = "running" /\ platform' = "closing"
  /\ UNCHANGED <<serverVars, threadVars, queries>>

PlatformStop(t) ==
  /\ pc[t] = "stopPlatform"
  /\ \/ /\ Quiet
        /\ platform' = IF platform = "closing" THEN "initialized" ELSE platform
        /\ ok' = [ok EXCEPT ![t] = TRUE]
     \/ platform # "closing" /\ UNCHANGED platform /\ ok' = [ok EXCEPT ![t] = FALSE]
  /\ Goto(t, "stopPublish")
  /\ UNCHANGED <<serverVars, queries>>

PlatformReset(t) ==
  /\ pc[t] \in {"initReset", "stopReset"}
  /\ Quiet /\ platform' = "reset"
  /\ Goto(t, IF pc[t] = "initReset" THEN "initPlatform" ELSE "finalNotify")
  /\ UNCHANGED <<serverVars, ok, queries>>

DestructReset ==
  /\ lifetime = "destructing"
  /\ \A t \in Threads : pc[t] = "idle"
  /\ IF Quiet THEN platform' = "reset" /\ lifetime' = "destroyed"
              ELSE platform = "running" /\ platform' = "closing" /\ UNCHANGED lifetime
  /\ UNCHANGED <<state, handler, threadVars, queries>>

-----------------------------------------------------------------------------
(* Dispatch, called by the platform for query q.                           *)
Arrive(q, question) ==
  /\ platform = "running"
  /\ queries[q].pc = "idle"
  /\ queries' = [queries EXCEPT ![q] = [Idle EXCEPT !.pc = "arrived", !.question = question]]
  /\ UNCHANGED <<serverVars, threadVars, platform>>

Refused(query, error) == [query EXCEPT !.pc = "over", !.outcome = error]

Dispatch(q) ==
  /\ queries[q].pc = "arrived"
  /\ queries' = [queries EXCEPT ![q] =
       CASE state # "Running"     -> Refused(@, "NotRunning")
         [] handler = NoHandler   -> Refused(@, "InvalidState")
         [] OTHER                 -> [@ EXCEPT !.pc = "handling", !.handler = handler]]
  /\ UNCHANGED <<serverVars, threadVars, platform>>

(* What a handler returned: [response, result, handled].                   *)
DispatchResult(h) ==
  IF h.result # "None" THEN R!Returns(h.response, h.result)
  ELSE IF h.handled
    THEN R!Returns(h.response, IF R!IsCompleted(h.response) THEN "None" ELSE "InvalidState")
  ELSE IF R!IsCommitted(h.response) THEN R!Returns(h.response, "InvalidState")
  ELSE R!Then(R!Code(h.response, "NameError"), LAMBDA r : R!Complete(r))

(* The rest of Dispatch, to the destructor of the response.                *)
Conclude(q, h) ==
  /\ \E o \in DispatchResult(h) :
       queries' = [queries EXCEPT ![q].pc = "over", ![q].outcome = o.result,
                                  ![q].response = R!Destroyed(o.response)]
  /\ UNCHANGED <<serverVars, threadVars, platform>>

Handling(q, handlers) == queries[q].pc = "handling" /\ queries[q].handler \in handlers

(* A handler of the application: any calls, then any result.               *)
AppUsesResponse(q) ==
  /\ Handling(q, Handlers)
  /\ LET r == queries[q].response
         calls == (UNION {R!Code(r, c) : c \in Codes})
                    \cup (IF r.answers < MaxAnswers THEN R!Address(r) ELSE {})
                    \cup R!Complete(r) \cup R!Returns(R!Abort(r), "None")
     IN  \E o \in calls : queries' = [queries EXCEPT ![q].response = o.response]
  /\ UNCHANGED <<serverVars, threadVars, platform>>

AppReturns(q) ==
  /\ Handling(q, Handlers)
  /\ \E error \in {"None", "HandlerFailure"}, handled \in BOOLEAN :
       Conclude(q, [response |-> queries[q].response, result |-> error, handled |-> handled])

(* WildcardDnsHandler::Handle: its one address for every name, if it is of *)
(* the type asked for.                                                     *)
CompatibleAnyClass(question) ==
  <<WildcardFamily, question[1]>> \in {<<"IPv4", "A">>, <<"IPv6", "Aaaa">>}

Compatible(question) ==
  /\ <<WildcardFamily, question[1]>> \in {<<"IPv4", "A">>, <<"IPv6", "Aaaa">>}
  /\ question[2] = "Internet"

WildcardHandles(q) ==
  /\ Handling(q, {Wildcard})
  /\ LET r == queries[q].response
         answered == R!Then(R!Address(r), LAMBDA s : R!Complete(s))
     IN  IF Compatible(queries[q].question)
           THEN \E o \in answered :
                  Conclude(q, [response |-> o.response, result |-> o.result, handled |-> TRUE])
           ELSE Conclude(q, [response |-> r, result |-> "None", handled |-> FALSE])

(* The platform's callback returns.                                        *)
Leave(q) ==
  /\ queries[q].pc = "over"
  /\ queries' = [queries EXCEPT ![q] = Idle]
  /\ UNCHANGED <<serverVars, threadVars, platform>>

Destroyed == lifetime = "destroyed" /\ UNCHANGED vars

-----------------------------------------------------------------------------
Call(t) == (\E c \in Configurations : Initialize(t, c)) \/ Start(t) \/ Stop(t) \/ Destruct(t)

Continue(t) ==
  \/ NotifyStateChanged(t)
  \/ PlatformInitialize(t) \/ PublishInitialized(t)
  \/ PlatformStart(t) \/ PublishStarted(t)
  \/ PlatformClose(t) \/ PlatformStop(t) \/ PublishStopped(t)
  \/ PlatformReset(t)

Serve(q) == Dispatch(q) \/ AppReturns(q) \/ WildcardHandles(q) \/ Leave(q)

Next ==
  \/ \E t \in Threads : Call(t) \/ Continue(t)
  \/ \E h \in AnyHandler : SetRequestHandler(h)
  \/ \E q \in Queries : \/ \E question \in Questions : Arrive(q, question)
                        \/ Serve(q) \/ AppUsesResponse(q)
  \/ DestructReset
  \/ Destroyed

Spec == Init /\ [][Next]_vars

(* A call that was made goes on: its thread runs, and observers, handlers  *)
(* and platform operations return.  Nobody has to make a call.             *)
FairSpec == /\ Spec
            /\ \A t \in Threads : WF_vars(Continue(t))
            /\ \A q \in Queries : WF_vars(Dispatch(q) \/ Leave(q) \/ WildcardHandles(q))
                                  /\ WF_vars(AppReturns(q))
            /\ WF_vars(DestructReset)

-----------------------------------------------------------------------------
Owner == IF \E t \in Threads : pc[t] \in Owning
           THEN CHOOSE t \in Threads : pc[t] \in Owning ELSE NoThread

Lifecycle == INSTANCE ServerLifecycle WITH owner <- Owner

(* The server is a ServerLifecycle, as HttpServer is: operations write     *)
(* their final state without looking at the one they overwrite, and still  *)
(* no interleaving takes it along an edge that is not one of an operation; *)
(* and no operation leaves it in a transient state for ever.               *)
ImplementsFairLifecycle == Lifecycle!FairSpec

(* However handlers and the platform fail, Dispatch reports success only   *)
(* for a response that was completed, and leaves the others aborted or     *)
(* untouched, for the platform to answer: never half built.  One the       *)
(* wildcard completed has its one address if the query asked the Internet  *)
(* class for that family, and is a name error otherwise.                   *)
QueriesAreAnswered ==
  \A q \in Queries :
    LET r == queries[q].response
        asked == <<IF WildcardFamily = "IPv4" THEN "A" ELSE "Aaaa", "Internet">>
    IN  queries[q].pc = "over" =>
          /\ queries[q].outcome = "None" => r.wire = "completed"
          /\ r.wire = "open" => r = R!Fresh /\ queries[q].outcome # "None"
          /\ queries[q].outcome = "None" /\ queries[q].handler = Wildcard =>
               IF queries[q].question = asked THEN r.code = "NoError" /\ r.answers = 1
                                              ELSE r.code = "NameError" /\ r.answers = 0

=============================================================================
