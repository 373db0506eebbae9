------------------------------ MODULE HttpServer ------------------------------
(***************************************************************************)
(* HttpServer (ESPressio_HttpServer.hpp): the lifecycle facade in front of *)
(* an HTTP platform, driven by several application threads while the       *)
(* platform's own threads dispatch requests into it.                       *)
(*                                                                         *)
(* Each section under _mutex is one step; each call that leaves the facade *)
(* with the mutex released (an observer's callback, a platform operation,  *)
(* a request handler) is a step of its own, so other threads run before    *)
(* and after it.  A call the facade refuses changes nothing and is a       *)
(* stuttering step.  A reentrant call from a callback interleaves exactly  *)
(* like a call of another thread, since no mutex is held there.            *)
(***************************************************************************)
EXTENDS Naturals

CONSTANTS
  Threads,               \* threads that call Initialize, Start and Stop
  NoThread,
  Requests,              \* native callbacks that call Dispatch
  Handlers, NoHandler,   \* request handlers; the null handler
  Configurations,        \* what Initialize is called with
  DefaultConfiguration,  \* a HttpServerConfiguration nobody configured
  Capabilities,          \* what the platform reports
  Lengths, NoLength,     \* declared body lengths; none declared
  Draining               \* a platform's Stop and Reset wait for requests

ConfigurationType ==
  [positive : BOOLEAN, tls : BOOLEAN, keepAlive : BOOLEAN, maxBody : Nat]

ASSUME ConstantsAssumption ==
  /\ NoThread \notin Threads
  /\ NoHandler \notin Handlers
  /\ Configurations \subseteq ConfigurationType
  /\ DefaultConfiguration \in ConfigurationType
  /\ Lengths \subseteq Nat /\ NoLength \notin Nat
  /\ Draining \in BOOLEAN

VARIABLES
  state,          \* _state
  configuration,  \* _configuration
  handler,        \* _handler
  lifetime,       \* of the HttpServer object: alive, destructing, destroyed
  pc,             \* per thread, where its lifecycle call is
  note,           \* per thread, the <<old, new>> of its next notification
  arg,            \* per thread, the configuration given to Initialize
  ok,             \* per thread, the result of its last platform call
  seen,           \* the last state an observer was told, if any
  platform,       \* the platform: reset, initialized, running, closing
  installed,      \* the configuration the platform was initialized with
  requests        \* per native callback, the Dispatch under way

threadVars   == <<pc, note, arg, ok>>
platformVars == <<platform, installed>>
serverVars   == <<state, configuration, handler, lifetime>>
vars         == <<serverVars, threadVars, seen, platformVars, requests>>

States == {"Stopped", "Initializing", "Ready", "Starting", "Running",
           "Stopping", "Faulted"}

InitializePcs == {"initNotify", "initReset", "initPlatform", "initPublish"}
StartPcs      == {"startNotify", "startPlatform", "startPublish"}
StopPcs       == {"stopNotify", "stopPlatform", "stopPublish"}
Owning        == InitializePcs \cup StartPcs \cup StopPcs
Pcs           == Owning \cup {"idle", "stopReset", "finalNotify"}

Idle == [pc |-> "idle", handler |-> NoHandler, length |-> NoLength]

RequestType ==
  {Idle}
    \cup [pc : {"arrived"}, handler : {NoHandler}, length : Lengths \cup {NoLength}]
    \cup [pc : {"handling"}, handler : Handlers, length : Lengths \cup {NoLength}]

(* Every variable has its type; a request is handled by a handler, never   *)
(* by the null pointer a server without a handler holds.                   *)
TypeOK ==
  /\ state \in States
  /\ configuration \in Configurations \cup {DefaultConfiguration}
  /\ handler \in Handlers \cup {NoHandler}
  /\ lifetime \in {"alive", "destructing", "destroyed"}
  /\ pc \in [Threads -> Pcs]
  /\ note \in [Threads -> States \X States]
  /\ arg \in [Threads -> Configurations \cup {DefaultConfiguration}]
  /\ ok \in [Threads -> BOOLEAN]
  /\ seen \in States \cup {"unregistered", "registered"}
  /\ platform \in {"reset", "initialized", "running", "closing"}
  /\ installed \in Configurations \cup {DefaultConfiguration}
  /\ requests \in [Requests -> RequestType]

Init ==
  /\ state = "Stopped"
  /\ configuration = DefaultConfiguration
  /\ handler = NoHandler
  /\ lifetime = "alive"
  /\ pc = [t \in Threads |-> "idle"]
  /\ note = [t \in Threads |-> <<"Stopped", "Stopped">>]
  /\ arg = [t \in Threads |-> DefaultConfiguration]
  /\ ok = [t \in Threads |-> TRUE]
  /\ seen = "unregistered"
  /\ platform = "reset"
  /\ installed = DefaultConfiguration
  /\ requests = [r \in Requests |-> Idle]

-----------------------------------------------------------------------------
(* Definitions named after a mistake ("...Unguarded", "...Forgotten") are   *)
(* the mutants of the definition that follows them; nothing else uses them. *)

(* The section that takes or publishes a state: where thread t goes next,  *)
(* and which change it will announce once the mutex is released.           *)
ChangeSwapped(t, new, next) ==
  /\ state' = new
  /\ note' = [note EXCEPT ![t] = <<new, state>>]
  /\ pc' = [pc EXCEPT ![t] = next]

Change(t, new, next) ==
  /\ state' = new
  /\ note' = [note EXCEPT ![t] = <<state, new>>]
  /\ pc' = [pc EXCEPT ![t] = next]

(* The state an operation ends in, by the result of the platform's call.   *)
OutcomeIgnored(t, success) == success

Outcome(t, success) == IF ok[t] THEN success ELSE "Faulted"

Goto(t, next) == pc' = [pc EXCEPT ![t] = next]

Callable(t) == lifetime = "alive" /\ pc[t] = "idle"

(* HttpServer::Initialize refuses an unusable configuration before it      *)
(* looks at the state.                                                     *)
Supported(c) ==
  /\ c.positive
  /\ "Http" \in Capabilities
  /\ c.tls => "Tls" \in Capabilities
  /\ c.keepAlive => "PersistentConnections" \in Capabilities

InitializableReentered == state \notin {"Running", "Starting", "Stopping"}

Initializable == state \notin {"Running", "Starting", "Stopping", "Initializing"}

Initialize(t, c) ==
  /\ Callable(t)
  /\ Supported(c)
  /\ Initializable
  /\ Change(t, "Initializing", "initNotify")
  /\ arg' = [arg EXCEPT ![t] = c]
  /\ UNCHANGED <<configuration, handler, lifetime, ok, seen, platformVars, requests>>

PublishInitializedForgotten(t) ==
  /\ pc[t] = "initPublish"
  /\ Change(t, Outcome(t, "Ready"), "finalNotify")
  /\ UNCHANGED <<configuration, handler, lifetime, arg, ok, seen, platformVars, requests>>

PublishInitialized(t) ==
  /\ pc[t] = "initPublish"
  /\ Change(t, Outcome(t, "Ready"), "finalNotify")
  /\ configuration' = IF ok[t] THEN arg[t] ELSE configuration
  /\ UNCHANGED <<handler, lifetime, arg, ok, seen, platformVars, requests>>

Start(t) ==
  /\ Callable(t)
  /\ state = "Ready"
  /\ Change(t, "Starting", "startNotify")
  /\ UNCHANGED <<configuration, handler, lifetime, arg, ok, seen, platformVars, requests>>

PublishStartedOnSuccess(t) ==
  /\ pc[t] = "startPublish" /\ ok[t]
  /\ Change(t, "Running", "finalNotify")
  /\ UNCHANGED <<configuration, handler, lifetime, arg, ok, seen, platformVars, requests>>

PublishStarted(t) ==
  /\ pc[t] = "startPublish"
  /\ Change(t, Outcome(t, "Running"), "finalNotify")
  /\ UNCHANGED <<configuration, handler, lifetime, arg, ok, seen, platformVars, requests>>

(* The first section of Stop: a running server begins to stop; one that is *)
(* initialized or faulted is Stopped at once, its platform reset later.    *)
StoppableUnguarded == state \notin {"Stopped", "Stopping"}

Stoppable == state \in {"Ready", "Faulted", "Running"}

StopSection(t) ==
  IF state = "Running" THEN Change(t, "Stopping", "stopNotify")
                       ELSE Change(t, "Stopped", "stopReset")

Stop(t) ==
  /\ Callable(t)
  /\ Stoppable
  /\ StopSection(t)
  /\ UNCHANGED <<configuration, handler, lifetime, arg, ok, seen, platformVars, requests>>

PublishStopped(t) ==
  /\ pc[t] = "stopPublish"
  /\ Change(t, Outcome(t, "Stopped"), IF ok[t] THEN "stopReset" ELSE "finalNotify")
  /\ UNCHANGED <<configuration, handler, lifetime, arg, ok, seen, platformVars, requests>>

(* ~HttpServer: Stop, then Reset whatever Stop returned.  C++ allows it    *)
(* only once no other call on the object is under way.                     *)
Destruct(t) ==
  /\ lifetime = "alive"
  /\ \A u \in Threads : pc[u] = "idle"
  /\ lifetime' = "destructing"
  /\ IF Stoppable THEN StopSection(t) ELSE UNCHANGED <<state, note, pc>>
  /\ UNCHANGED <<configuration, handler, arg, ok, seen, platformVars, requests>>

ReplaceableUnguarded == state \notin {"Starting", "Stopping"}

Replaceable == state \notin {"Running", "Starting", "Stopping"}

SetRequestHandler(h) ==
  /\ lifetime = "alive"
  /\ Replaceable
  /\ handler' = h
  /\ UNCHANGED <<state, configuration, lifetime, threadVars, seen, platformVars, requests>>

-----------------------------------------------------------------------------
(* Observers: a registered one is told each change after the mutex is      *)
(* released; what it reads from the server then is what the server is then.*)
RegisterObserver ==
  /\ lifetime = "alive"
  /\ seen = "unregistered"
  /\ seen' = "registered"
  /\ UNCHANGED <<serverVars, threadVars, platformVars, requests>>

UnregisterObserver ==
  /\ lifetime = "alive"
  /\ seen # "unregistered"
  /\ seen' = "unregistered"
  /\ UNCHANGED <<serverVars, threadVars, platformVars, requests>>

AfterNotify == [initNotify |-> "initReset", startNotify |-> "startPlatform",
                stopNotify |-> "stopPlatform", finalNotify |-> "idle"]

NotifyStateChanged(t) ==
  /\ pc[t] \in DOMAIN AfterNotify
  /\ seen' = IF seen = "unregistered" THEN seen ELSE note[t][2]
  /\ Goto(t, AfterNotify[pc[t]])
  /\ UNCHANGED <<serverVars, note, arg, ok, platformVars, requests>>

-----------------------------------------------------------------------------
(* The platform (IHttpServerPlatform, implemented outside this library).   *)
(* An operation may fail.  Stop and Reset first refuse new requests, then, *)
(* on a draining platform, wait for those under way.                       *)
Quiet == /\ platform # "running"
         /\ Draining => \A r \in Requests : requests[r].pc = "idle"

PlatformInitialize(t) ==
  /\ pc[t] = "initPlatform"
  /\ \/ /\ platform = "reset"
        /\ platform' = "initialized"
        /\ installed' = arg[t]
        /\ ok' = [ok EXCEPT ![t] = TRUE]
     \/ /\ ok' = [ok EXCEPT ![t] = FALSE]
        /\ UNCHANGED platformVars
  /\ Goto(t, "initPublish")
  /\ UNCHANGED <<serverVars, note, arg, seen, requests>>

PlatformStart(t) ==
  /\ pc[t] = "startPlatform"
  /\ \/ /\ platform = "initialized"
        /\ platform' = "running"
        /\ ok' = [ok EXCEPT ![t] = TRUE]
     \/ /\ ok' = [ok EXCEPT ![t] = FALSE]
        /\ UNCHANGED platform
  /\ Goto(t, "startPublish")
  /\ UNCHANGED <<serverVars, note, arg, seen, installed, requests>>

(* Stop or Reset, called by t, closes the platform to new requests.        *)
PlatformClose(t) ==
  /\ pc[t] \in {"initReset", "stopPlatform", "stopReset"}
  /\ platform = "running"
  /\ platform' = "closing"
  /\ UNCHANGED <<serverVars, threadVars, seen, installed, requests>>

PlatformStop(t) ==
  /\ pc[t] = "stopPlatform"
  /\ \/ /\ Quiet
        /\ platform' = IF platform = "closing" THEN "initialized" ELSE platform
        /\ ok' = [ok EXCEPT ![t] = TRUE]
     \/ /\ platform # "closing"
        /\ ok' = [ok EXCEPT ![t] = FALSE]
        /\ UNCHANGED platform
  /\ Goto(t, "stopPublish")
  /\ UNCHANGED <<serverVars, note, arg, seen, installed, requests>>

PlatformReset(t) ==
  /\ pc[t] \in {"initReset", "stopReset"}
  /\ Quiet
  /\ platform' = "reset"
  /\ Goto(t, IF pc[t] = "initReset" THEN "initPlatform" ELSE "finalNotify")
  /\ UNCHANGED <<serverVars, note, arg, ok, seen, installed, requests>>

DestructResetForgotten ==
  /\ lifetime = "destructing"
  /\ \A t \in Threads : pc[t] = "idle"
  /\ lifetime' = "destroyed"
  /\ UNCHANGED <<state, configuration, handler, threadVars, seen, platformVars, requests>>

DestructResetPassive ==
  /\ lifetime = "destructing"
  /\ \A t \in Threads : pc[t] = "idle"
  /\ Quiet /\ platform' = "reset" /\ lifetime' = "destroyed"
  /\ UNCHANGED <<state, configuration, handler, threadVars, seen, installed, requests>>

DestructReset ==
  /\ lifetime = "destructing"
  /\ \A t \in Threads : pc[t] = "idle"
  /\ IF Quiet
       THEN platform' = "reset" /\ lifetime' = "destroyed"
       ELSE platform = "running" /\ platform' = "closing" /\ UNCHANGED lifetime
  /\ UNCHANGED <<state, configuration, handler, threadVars, seen, installed, requests>>

-----------------------------------------------------------------------------
(* Dispatch, called by the platform for request r.                         *)
Arrive(r, length) ==
  /\ platform = "running"
  /\ requests[r].pc = "idle"
  /\ requests' = [requests EXCEPT ![r] = [Idle EXCEPT !.pc = "arrived", !.length = length]]
  /\ UNCHANGED <<serverVars, threadVars, seen, platformVars>>

Admitted(length) ==
  /\ state = "Running"
  /\ handler # NoHandler
  /\ length # NoLength => length <= configuration.maxBody

(* The state, the handler and the limit are read in one section; the       *)
(* checks after it use only what was read.                                 *)
Dispatch(r) ==
  /\ requests[r].pc = "arrived"
  /\ requests' = [requests EXCEPT ![r] =
       IF Admitted(@.length) THEN [@ EXCEPT !.pc = "handling", !.handler = handler]
                             ELSE Idle]
  /\ UNCHANGED <<serverVars, threadVars, seen, platformVars>>

HandlerReturns(r) ==
  /\ requests[r].pc = "handling"
  /\ requests' = [requests EXCEPT ![r] = Idle]
  /\ UNCHANGED <<serverVars, threadVars, seen, platformVars>>

Destroyed == lifetime = "destroyed" /\ UNCHANGED vars

-----------------------------------------------------------------------------
Call(t) ==
  \/ \E c \in Configurations : Initialize(t, c)
  \/ Start(t)
  \/ Stop(t)
  \/ Destruct(t)

Continue(t) ==
  \/ NotifyStateChanged(t)
  \/ PlatformInitialize(t) \/ PublishInitialized(t)
  \/ PlatformStart(t) \/ PublishStarted(t)
  \/ PlatformClose(t) \/ PlatformStop(t) \/ PublishStopped(t)
  \/ PlatformReset(t)

Serve(r) == Dispatch(r) \/ HandlerReturns(r)

Next ==
  \/ \E t \in Threads : Call(t) \/ Continue(t)
  \/ \E h \in Handlers \cup {NoHandler} : SetRequestHandler(h)
  \/ RegisterObserver \/ UnregisterObserver
  \/ \E r \in Requests : Serve(r) \/ \E n \in Lengths \cup {NoLength} : Arrive(r, n)
  \/ DestructReset
  \/ Destroyed

Spec == Init /\ [][Next]_vars

(* A call that was made goes on: the scheduler runs its thread, observers, *)
(* handlers and platform operations return.  Nobody has to make a call.    *)
FairSpec == /\ Spec
            /\ \A t \in Threads : WF_vars(Continue(t))
            /\ \A r \in Requests : WF_vars(Serve(r))
            /\ WF_vars(DestructReset)

-----------------------------------------------------------------------------
Owns(t) == pc[t] \in Owning

Owner == IF \E t \in Threads : Owns(t) THEN CHOOSE t \in Threads : Owns(t)
                                       ELSE NoThread

Lifecycle == INSTANCE ServerLifecycle WITH owner <- Owner

(* The server is a ServerLifecycle: although Initialize, Start and Stop    *)
(* write their final state without looking at the state they overwrite,    *)
(* no interleaving takes it along an edge that is not one of an operation. *)
ImplementsLifecycle == Lifecycle!Spec

(* ... and under FairSpec no transient state lasts: an operation cannot    *)
(* leave the server Initializing, Starting or Stopping for ever, which     *)
(* would make every later call fail with InvalidState.                     *)
ImplementsFairLifecycle == Lifecycle!FairSpec

(* A transient state has exactly one thread that will end it, and that     *)
(* thread runs the operation the state is named for.                       *)
OneOperationAtATime ==
  /\ \A t, u \in Threads : Owns(t) /\ Owns(u) => t = u
  /\ \A t \in Threads : /\ pc[t] \in InitializePcs => state = "Initializing"
                        /\ pc[t] \in StartPcs => state = "Starting"
                        /\ pc[t] \in StopPcs => state = "Stopping"
  /\ state \in {"Initializing", "Starting", "Stopping"} => \E t \in Threads : Owns(t)

(* A handler runs outside the mutex with what Dispatch captured.  On a     *)
(* draining platform a running server never has a request under way that   *)
(* was admitted for an earlier run, under a handler the application has    *)
(* since replaced or a limit that no longer applies, not even after a Stop *)
(* that failed and a SetRequestHandler in Faulted.                         *)
RequestsAreCurrent ==
  Draining /\ state = "Running" =>
    \A r \in Requests : requests[r].pc = "handling" =>
      /\ requests[r].handler = handler
      /\ requests[r].length # NoLength => requests[r].length <= configuration.maxBody

(* From Ready to Stopping, the limits Dispatch applies (_configuration)    *)
(* are those the platform was given, and the platform supports them: a     *)
(* failed Initialize in between never leaves one without the other.        *)
ConfigurationIsInstalled ==
  state \in {"Ready", "Starting", "Running", "Stopping"} =>
    configuration = installed /\ Supported(configuration)

(* Running means that the platform serves requests.  It holds for one      *)
(* lifecycle thread, whatever fails.  With several it does not: Stop       *)
(* publishes Stopped before it resets the platform, so that Initialize and *)
(* Start of another thread can succeed before that Reset.                  *)
RunningIsServed == state = "Running" => platform = "running"

(* One lifecycle thread tells observers the truth, although it calls them  *)
(* after it released the mutex: State() in the callback is the new state   *)
(* it was told, as Observer in tests/test_http.cpp asserts, and the old    *)
(* one is the new one of the notification before, through failures and     *)
(* retries alike.                                                          *)
ObserversAreInformed ==
  \A t \in Threads : pc[t] \in DOMAIN AfterNotify =>
    /\ seen # "unregistered" => state = note[t][2]
    /\ seen \in States => seen = note[t][1]

(* A destroyed server leaves a platform that no longer holds it as its     *)
(* dispatcher, and on a draining platform no request inside it, even when  *)
(* the Stop of the destructor failed.                                      *)
DestroyedIsQuiet ==
  lifetime = "destroyed" =>
    /\ platform = "reset"
    /\ Draining => \A r \in Requests : requests[r].pc = "idle"

(* Destruction completes even when a request is under way on a platform    *)
(* whose Stop failed.                                                      *)
DestructionCompletes == lifetime = "destructing" ~> lifetime = "destroyed"

=============================================================================
