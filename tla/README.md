# ESPressio-Web: verification models

TLA+ models of the portable core of ESPressio-Web (`src/ESPressio_*.hpp`), the TLC
configurations that check them, and TLAPS proofs of the properties that matter most.

## 1. The system

ESPressio-Web is a header-only library of *facades*. A concrete platform package owns
sockets, tasks and frames; the library owns vocabulary, lifecycle, routing and policy.
The platform's threads call into the library (`Dispatch`, sink callbacks), application
threads call the facades, and callbacks run with no library mutex held
(`PLATFORM_ABSTRACTIONS.md:23`). So almost every hard behaviour is of one kind: *state read
or written in one locked section, a call out with the lock released, another section*.

| Component | State | Operations | What is hard | What makes it correct |
|---|---|---|---|---|
| `HttpServer` | `_state`, `_configuration`, `_handler`, observers | `Initialize`, `Start`, `Stop`, destructor, `SetRequestHandler`, `Dispatch` | several threads; every platform call fails or blocks; requests outlive the section that admitted them | one operation per transient state; legal edges only; requests are served under current handler and limits; nothing hangs |
| `HttpResponse` | `_state` | `Status`, `Header`, `Begin`, `Write`, `Send`, `Complete`, `Abort`, destructor | arbitrary call sequences, each platform call may fail half way | one well-formed response on the wire; `_state` is the truth |
| Resources | locals of `WriteWebResourceResponse`; `StaticResourceHandler` | `Handle` | the resource changes between size and bytes; provider miscounts | success means the whole resource; failure is visible |
| `HttpApplication` | three atomic pointers, error resources | `Handle`, `Set*` | handlers decline, fail or half-answer; responders delegate to others, as the application wired them | one author per response, always an answer |
| `Router` | `_routes` under a shared mutex, `_nextHandle` | `RegisterRoute`, `RemoveRoute`, `Clear`, `Handle` | mutation during selection, handlers that mutate | the selection is the best route of one table |
| `MiddlewarePipeline` | immutable `_chain` snapshot | `Add`, `Remove`, `Clear`, `SetTerminal`, `Handle` | requests walk old chains; `next` called twice | the rest of a chain runs at most once |
| `HttpService` | immutable `_providers` snapshot | `AddProvider`, `RemoveProvider`, `ClearProviders`, `Handle` | providers accept, then decline or fail | the first willing provider answers |
| `DnsServer`, `DnsResponse` | as `HttpServer`, `HttpResponse` | the same, and NXDOMAIN for unhandled queries | the same | the same |
| `WebSocketClient` | `_platform` and `_state`, without a lock | `Attach`, `Connect`, `Disconnect`, `Detach`, sink callbacks, validation | the event thread writes `_state` between a call's comparison and its assignment; sizes that wrap | the state is the truth again after an undisturbed event; nothing after `Detach`; only valid configurations reach the platform |
| `WebSocketEndpoint` | `_platform` and `_state`, without a lock | `Attach`, `Bind`, `Unbind`, `Detach`, destructor, sink callbacks | observers call it back in the middle of its calls, from its notifications and from what a platform reports inside a call | no call through a `_platform` an observer took away; no platform left bound or with a sink |
| `WebSocketEventTransport` | `_receiver` under a mutex, the observer handle | `Attach`, `Detach`, `SetReceiver`, reception | a receiver taken under the lock is called after it | a receiver is not called for what came after it was detached |
| `WebSocketClockSynchronization` | `_client`, the periodic thread; the protocol's pending request | `Attach`, `Detach`, `RequestSynchronization`, reception | a response comes late; two threads build requests; a send fails | only a request that was sent waits; none survives `Detach` |
| Event, command and state ingress | bounded bodies, `_nextRequestId` | `Handle` | lengths, counts and ends that disagree; a retry after a lost 202; a counter that wraps | a body is handed over whole or not at all, and Accepted says so; identifiers are not 0 and not shared |

## 2. Conventions

* A section under a mutex is one step; a call out of the library (platform, handler,
  observer) is a step of its own between the sections before and after it.
* A call the code refuses changes nothing and is a stuttering step.
* Where the library calls out no mutex is held, so a call made *from* a callback
  interleaves like a call of another thread: in `HttpServer` it is one. In `Router`,
  `MiddlewarePipeline` and `HttpService`, where what a handler does to the object that
  called it is the question, the thread whose handler runs may itself mutate.
* The platform, handlers, providers and observers are external. They are modelled by what
  the library's use of them allows: every call may fail, return late or return any count
  or result; `examples/Implementors/MinimalHttpPlatform` shows what an implementor fills in.
* One assumption about them is a CONSTANT of `HttpServer`, so that a run states it.
  `Draining`: the platform's `Stop` and `Reset` return only when no native callback is
  inside `Dispatch`. `DnsServer` makes it throughout. In `WebSocketClient` and
  `ObserverNotification` `draining` is a variable that never changes: both kinds of platform
  and of observable are covered by one run, and each property says which it needs.
* Names are the code's: `Initialize`, `Dispatch`, `RegisterRoute`, `_state` as `state`. A
  variable marked "(history)" or "for the properties" is not in the code and guards nothing.
* A definition named after a mistake (`ReplaceableUnguarded`, `DetachSinkForgotten`) is the
  definition after it with a plausible bug. Substituting it makes TLC report the property
  it is listed with in `PROJECT.json`: this is how each property is shown to depend on the code.
* Strings are members of small sets. Routes and paths are sequences of segments, because
  selection depends on them; header text, content types and logging are left out.

## 3. Modules

| Module | What it models | State ↔ code |
|---|---|---|
| `ServerLifecycle` | abstract: what a server facade promises of its state | `state`; `owner`, the one thread that may end a transient state |
| `HttpServer` | `ESPressio_HttpServer.hpp`, lifecycle and admission | `state`, `configuration`, `handler`: the members; `seen`: a registered observer and the last state it was told; `pc`, `note`, ...: where each thread is in its operation; `platform`, `installed`: external; `requests`: native callbacks and what `Dispatch` captured for each; `lifetime`: destructor |
| `DnsResponse` | `DnsResponse` of `ESPressio_Dns.hpp`; methods as operators | as `HttpResponse` |
| `DnsServer` | `DnsServer`, `WildcardDnsHandler`; a second implementation of `ServerLifecycle` | as `HttpServer`; `queries`: native callbacks with the response each one builds |
| `ResponseWire` | abstract: one response as a client sees it | head, body bytes, one end |
| `HttpResponse` | `HttpResponse` of `ESPressio_Http.hpp`; each method an operator from a response to its outcomes | `response.state` is `_state`; `wire`, `status`, `declared`, `sent` are what the platform was told |
| `ResourceResponse` | `WriteWebResourceResponse`; actions and properties for `HttpExchange` | `job`: its locals; `response`: an `HttpResponse` |
| `WebIngress` | `HttpEventIngress`, `HttpCommandIngress`, `StateSnapshotHttpHandler`; actions and properties for `HttpExchange` | `ingest`: the locals of `Handle` and, for a command, `_nextRequestId`; `handed`: bodies handed over (history) |
| `HttpExchange` | one request through `Dispatch`, `HttpApplication`, `StaticResourceHandler`, the ingress and state handlers, the error responders of the library and of the application, and `~HttpResponse`; composes the three above | `stage`: whose turn it is; `running`: what runs there; `responder`: the one the error was given to last, `Fallback` its `_fallback`; `handling`, `outcome`: `HttpHandlerResult` and `Dispatch`'s result |
| `RoutePattern` | patterns and matching of `Router` as operators | a path is whether it starts with `/` and its segments |
| `RouteTable` | abstract: each request decided by one table | `routes`; per thread a decision |
| `Router` | `ESPressio_Router.hpp`; the scan one route per step | `routes`, `nextHandle`; `cursor`, `selected`: locals of `Handle` |
| `SnapshotWalk` | abstract: each request walks the list it found | `list`, `end`; per thread a plan and what it has visited |
| `MiddlewarePipeline` | `ESPressio_Middleware.hpp` | `heap`, `chain`: chains behind `shared_ptr`s and `_chain`; `frames`: the nested `HttpMiddlewareNext` calls of a request |
| `HttpService` | `ESPressio_HttpService.hpp` | `heap`, `providers`; per thread the loop of `Handle` |
| `ClientConfiguration` | the validation of a client's configuration, `ESPressio_WebTransportSecurity.hpp` included, as operators with the width of `size_t` | what the checks look at: lengths, counts, kinds of header, which credentials are there |
| `WebSocketClient` | `ESPressio_WebSocketClient.hpp` | `state`, `attached`: `_state`, `_platform`; `actor`: where each thread and the event thread are; `link`, `sink`, `events`: external; `trust`: whether an interleaving disturbed `_state` (history) |
| `WebSocketEndpoint` | `ESPressio_WebSocketEndpoint.hpp` | `state`, `platform`: the members; `stack`: nested calls; `bound`, `sink`: external; `by`, `attached`, `overtaken` and a frame's `during`: what observers did inside which call (history) |
| `ObserverNotification` | external: how an endpoint or client hands a message to observers while handles are released | `observed`, `notification` |
| `EventTransport` | `ESPressio_WebSocketEventTransport.hpp` | `source`, `limit`, `receiver`: the members; `handing`: the receiver `OnWebSocket...Binary` has taken |
| `ClockSynchronization` | `ESPressio_WebSocketClockSynchronization.hpp` | `client`, `timer`: `_client`, `_thread`; `call`: where each thread's `RequestSynchronization` is; `pending`, `last`: the protocol object |
| `WebSocketMessaging` | the two above on one connection | |
| `*_proofs` | theorems and proofs of the module they are named after | |
| `MC*` | constants for TLC where a `.cfg` cannot write them | |

Some of them need a word on how they correspond.

**HttpServer.** `Initialize` is: take `Initializing` under the mutex; tell the observers;
`_platform.Initialize`; publish `Ready` or `Faulted` under the mutex; tell the observers. That
is five steps (`Initialize`, `NotifyStateChanged`, `PlatformInitialize`,
`PublishInitialized`, `NotifyStateChanged`), and any other thread may run between them.
`Start`, `Stop` and the destructor are cut the same way. `Stop` publishes `Stopped` and only
then resets the platform, and so does the model. A notification carries the two states the
code names as arguments (`note`), not the ones in force when it is delivered.

**Router.** The shared lock is not a variable: a thread scans with it exactly when its
`pc` is "scanning", and `ExclusiveLock` is the condition that nobody does. Mutations are one
step under it, taken after the handle was drawn from the atomic counter in a step of its own.

**Snapshots.** Sharing is what matters in the pipeline and the service, so pointers are
indices into a `heap` of immutable lists. Publishing appends to the heap; a version of the
service that changed the list in place (`PublishInPlace`) is a mutant and is caught.

**WebSocketClient.** `SetState` compares, assigns and notifies, so it is three steps (`Load`,
`Store`, `Notify`) and both threads take them; `Attach` assigns without comparing. Properties of
an unlocked member can only say when it may be wrong. That is what `trust` is for: it is
"stale" once the two threads were inside `SetState` together, or once the platform was asked to
connect what was not down, and sound again after one event that nothing came between.

**HttpExchange.** Responders are a graph that the application wires. The CONSTANTS are
`ResourceResponders` (each a `ResourceHttpErrorResponder`), `AppResponders` (of the application: any calls on the
response, then any result), `DefaultResponder`, and `Fallback`, the responder each resource responder
was given in its constructor. `ResolveError` may find any of them in `_errorResponder`, and a resource
responder may or may not have a resource for the error at each visit (`ResourceResponds`,
`ResourceUnmapped`). What an application's responder does by calling a library one counts as its own.

**WebSocketEndpoint.** Nothing interleaves; nesting is the question. `stack` holds the calls
under way. `Callable` lets an observer make a call wherever one is being notified. A call goes into the
platform (`Enter`, from a point named `call...`), the platform acts (`PlatformBinds`, `PlatformUnbinds`,
`Clear`), and the call returns (`AttachReturns`, `BindReturns`, `UnbindReturns`): before the
platform acts, and for `Bind` and `Unbind` after it too, it may report to its sink (`Forward`), which notifies observers, who may call again.
`on` is the platform a call is inside of, which need not be the one in `_platform` when it returns.
A call that is about to go through `_platform` and finds it null goes to `Crash`, at `:149`, `:161`, `:162` and
`:133` alike. `during` records, for the properties, whether calls of observers inside this one detached its
platform, or bound or unbound it.

**Ingress.** `WebIngress` and `ResourceResponse` are handlers of an exchange, not systems of their own: a
body that was handed over matters with what the client was told, and that is decided by
`HttpApplication`, the responders and the destructor of the response.

## 4. Runs

| Run | Instance | Distinct states | Shows |
|---|---|---|---|
| `HttpServer_safety` | 2 lifecycle threads, 1 request, 1 handler and the null handler, 4 configurations, fair | 335,578 | one owner per transient state; only legal edges; requests current; limits installed; no transient state lasts; destruction completes |
| `HttpServer_single` | 1 lifecycle thread, 2 requests, 4 configurations | 11,177 | Running is served; observers are told an unbroken and current chain; destruction is quiet |
| `HttpServer_lateReset` | 2 threads, 1 request | violation | the finding of section 7 |
| `DnsServer` | 2 threads, 1 query of 3 kinds, the wildcard and one application handler, fair | 79,235 | the same lifecycle; no query half answered, by the wildcard or another handler |
| `HttpResponse` | writes of 0 to 3 bytes, 5 in all, 2 statuses | 1,119 | one well-formed response; the state tells the truth |
| `HttpExchange` | one request, resources of 0, 1, 3 bytes and one beyond `size_t`, bodies of up to 4 bytes read into 3, 4 identifiers, 7 responders, of which 5 fall back: first to second to the default page, own to one of the application, left and right to each other; fair | 251,260 | it ends, but between left and right; library handlers never mix bytes; success means completed, accepted means handed over; nothing overrun |
| `Router_safety` | 2 threads, 3 registrations in all, 6 offers of which 2 are for another method or invalid, 1 request, fair | 534,058 | the best route of one table; handles unique; mutations return |
| `MiddlewarePipeline` | 2 threads, 3 entries, 1 terminal, 5 chains published by other calls than `Add` | 1,487,578 | one chain per request, each middleware once; no mutation lost |
| `HttpService` | 2 threads, 3 providers, 5 sets published by other calls than `AddProvider` | 516,323 | one set per request; the answer is a provider's |
| `WebSocketClient` | 1 application thread, the event thread, 2 events in flight, 58 configurations, fair | 87,686 | `_state` is wrong only after an unlucky interleaving and until the next event; detached is quiet; validation stops what it exists to stop; transient states end |
| `WebSocketEndpoint` | 2 platforms, 4 calls and reports inside each other | 3,958,471 | who can cause a crash; `_state` tells the truth; nothing is left bound; each but for what observers did inside the call |
| `WebSocketMessaging` | 1 receiver, limits 0 and 1, packets of 0 to 2 bytes, 2 requests, both threads of the clock | 4,586,472 | old receivers are left alone; a pending request was sent; `Detach` ends the exchange |

*Why these bounds are enough.* Two threads are the least with which one can run between two
sections of the other, and every guard in this code looks at one shared state, not at a number
of threads; the theorems of section 6 cover any number. Three handles are the least that can
enter a list in another order than they were drawn and leave one between two. Four
configurations are one that every platform takes, one that needs keep-alive, one that needs
TLS (the modelled platform lacks it) and one that is invalid. Two body lengths separate the
limits. Resource sizes go through every residue of the chunk, zero, and one past `size_t`. Body
lengths go from none to one past the buffer, in reads of every count the platform can report.
Four identifiers wrap while one request of another exchange comes between the two draws of one.
A `size_t` of the client goes up to 15, so that one header line (4 + 12 bytes and 4 of framing)
fits exactly when its sum wraps. An endpoint's calls four deep hold a `Bind`, what the platform
reports inside it, an observer's `Detach` on that, and what is reported inside the `Detach`; two platforms let an
observer attach another one than the call began with. The responders are a chain of two that falls back, one that
falls back to an application's, and the least circle of two. Two requests are the least of which one can be answered after the other was built.
Every run covers all of its instance: no symmetry is used.

*Named bounds.* `MaxHandles` (handles ever drawn; a guard of drawing), `MaxSets` and `MaxChains`
(published by mutations that draw no handle; together with `MaxHandles` they bound the heap),
`MaxBytes` and `MaxSent` (of one write; of all), `MaxOthers` (identifiers other requests draw),
`MaxEvents` (native events not yet delivered), `MaxDepth` (nested calls), `MaxRequests` (requests
built). Wrapping of the 32-bit handle counter is outside these bounds.

*Deadlock* is checked in every run but `WebSocketEndpoint`, which stops where the program does,
after a crash and after the destructor. A destroyed server and a finished exchange
stutter (`Destroyed`, `Over`): they are ends, not stops.

*Type invariants* are not among the runs' properties: each module states its `TypeOK`. It is a theorem
(`TypeCorrect`) for `HttpServer`, `HttpExchange`, `Router`, `MiddlewarePipeline`, `HttpService`,
`WebSocketEndpoint`, `WebSocketClient` and `WebSocketMessaging` with its two halves, `DnsTypeCorrect` for
`DnsServer`, and part of the invariant `FacadeInv` for `HttpResponse`.

## 5. Fairness

Fairness is weak and only on steps that the code takes once a call is under way: a scheduled thread
runs, and a platform operation, an observer and a handler return. No call is ever obliged to be
made, and nothing is strongly fair. In `HttpServer` a draining platform's `Stop` is enabled only once its
requests have left, which makes the fairness of `Serve` part of the claim. In `HttpExchange`
the handler, or an application's responder, may use the response for as long as it likes, but returns. Resource
responders that fall back only among themselves (`Circular`) recurse for ever, and `ExchangeEnds` excepts an
exchange that stays with them. In `Router`
a writer's fairness is *weak*: `std::shared_mutex` does not say that a writer is served while readers
keep coming, so `MutationsReturn` is conditional on requests pausing. In `WebSocketClient` a
call that was made goes on, the event thread runs, and a connection that is being opened or closed is
settled one way or the other (`Settle`); a link that was lost is never obliged to come back. That is enough for
`TransientStatesEnd`. The endpoint and the messaging runs claim no liveness.

## 6. Proofs

All proofs are from `Spec` and the named assumptions on constants (which TLC evaluates on every
run). They hold for any set of threads, requests, handlers, routes, patterns, entries, packets, receivers
and platforms, for bodies and resources of any length, and for any bound. The invariants were model-checked
on the instances of section 4 before they were proved.

* **HttpServer** (`HttpServer_proofs`). `TypeCorrect`; `Exclusive`; `RequestsStayCurrent`;
  `ConfigurationStaysInstalled`; `Refinement`. The central lemma, `StepKinds`, sorts every
  step by what it does to `state` and to the set of threads inside an operation: enters, ends,
  discards or neither. Of a step of any of these kinds, `KindKeepsOwnership` shows that it keeps
  `OneOperationAtATime`, and `KindFollowsLifecycle` that it is a step or a stutter of
  `ServerLifecycle`. A step's owner is the unique thread
  inside an operation, which `OneOperationAtATime` makes well defined.
  `RequestsAreCurrent` is not inductive: nothing in it says that a platform which is being started has
  no old request. `RequestStep` strengthens it with what holds of requests in
  every state of the platform (none after a completed reset until it serves again), and
  `ConfigurationStep` does the same for the limits between `Initialize` and `PublishInitialized`.
  Both values of `Draining` are covered; with FALSE, `RequestsAreCurrent` claims nothing.
  `RunningServes` and `ObserversHearTheTruth` assume `Alone`, that there is one lifecycle thread:
  with two the first is false (section 7), and the second too. `ServedInv` says what the platform
  is at each step that is to publish something of it, and that a stop resets what is
  Stopped; `InformedInv` that what the observer was told last is what the next notification
  says was before, including a stop, whose announcement waits until after its reset.
  `DestructionIsQuiet` is for any number of threads, with none of them inside an operation once the
  server is destroyed.
* **HttpResponse** (first part of `HttpExchange_proofs`, where `HR` is an instance of it).
  `StateIsTheWire`; `FacadeImplementsWire`; `SendIsAllOrNothing`. There is one lemma per method
  (`BeginBegins`, `WriteWrites`, `SendSends`, ...) that says which responses may come out of a
  response that is `Sound`, that is, whose `_state` and wire agree. The invariant and the refinement of
  `ResponseWire` follow from these, and so does what `HttpExchange` needs: `Moves` and `Follows` are
  what any sequence of calls of a handler can have done.
* **HttpExchange** (`HttpExchange_proofs`). `TypeCorrect`; `ClientIsNeverLeftWaiting`;
  `ErrorPagesSayTheirError`; `AcceptedIsTrue`; `CountsAreNotTrusted`; `SentIsWhole`; `FailureShows`;
  `OneStageWrites`; `IdsAreUsable`. None of these is inductive: an outcome depends on a whole
  chain of handlers. `Inv` follows the response along it. `StageInv` says what may run at each stage, and
  that who answers next finds an uncommitted response; `JobInv` what the writer has sent at each of its
  steps (on a response that was already committed it leaves everything alone); `IngestInv` how much of a body
  is in the buffer; `AuthorInv` who sent the head and which status that makes it have; `HandInv` what
  became of a body that was handed over; `EndInv` that the end is one. The lemma `...Keeps` of each
  action shows that it keeps all of them. `IdsAreUsable` needs a second invariant, because the counter
  wraps: `IdInv` measures how far the counter has gone since the command's first draw,
  and every identifier taken since lies in that stretch. It is where
  `MaxOthers + 2 < IdSpace` is used: a request that is overtaken by as many others as there are identifiers does share its own.
  `ErrorPagesSayTheirError` is about the pages of the library's responders, for every
  wiring of fallbacks: `ResponderAssumption` only gives `Fallback` its type.
  `AcceptedAssumption` says that an application handler does not itself answer with the status
  of an ingress, by which the properties tell the two apart.
* **Router** (`Router_proofs`). `TypeCorrect`; `HandlesUnique`; `SelectionBest`; `Refinement`.
  `HandleInv` adds to uniqueness that every handle in the table or under way is below the counter.
  `PreferenceIsOrder` shows that `Better` is a strict order, transitive
  also through ties; `BestExtends` that one comparison carries "best of the first n" to n + 1.
  At the end of a scan the selection is then `RouteTable`'s decision, because nobody
  changed the table since the scan began, which is what the lock is for.
* **HttpService** (`HttpService_proofs`). `TypeCorrect`; `ResultCorrect`; `Refinement`.
  `IInv` ties how far a walk is in its snapshot to the answers it has, and those to
  its result. `HandleInv` shows that a list never receives a handle it holds.
* **MiddlewarePipeline** (`MiddlewarePipeline_proofs`). `TypeCorrect`; `Refinement`. The invariant
  `Walks` is about the stack of frames: all but the innermost have called `next`, and a
  handler that has not is the last the walk came to; so a second `next` cannot run the
  rest again. `HandleInv` is as in HttpService.
* **WebSocketMessaging** (`WebSocketMessaging_proofs`). `TypeCorrect`; `OldReceiversStayAlone`;
  `PendingIsSent`; `DetachEnds`. `TransportInv` says which packets still under way may reach a transport
  that was detached: those for which releasing the handle did not wait, hence none where
  the observable drains. `ClockInv` says that the periodic thread calls only while it runs, and that what is
  pending was built for this attachment or is the one `stray` request of a call that `Detach` overtook.
* **WebSocketEndpoint** (`WebSocketEndpoint_proofs`). `TypeCorrect`; `OnlyUndercutCrashes`;
  `StateIsTrue`; `LeavesNothingBehind`; for calls nested to any depth. Most is said of one frame: a frame
  *comes to* the step it is at, or to the one it is at when its observers have returned, and every frame of the
  stack is `Good`. Of a frame inside of which nobody detached, `Keeps` says that the platform it looked at is
  still the one attached, so a crash is the fault of a nested `Detach`; of one inside of which nobody
  bound or unbound either, `Looked` says that what it knows of the binding holds; `Clears` says what
  a frame inside `SetSink(nullptr)` is about to forget. The rest is about the frames together. That a wrong `_state`
  has a frame under way that will assign it (`WillSettle`) makes the state true between calls. That
  a frame about to clear `_platform`, or about to be destroyed, has frames above it that undo the binding and
  detach (`WillUnbind`, `WillDetach`) leaves nothing behind; `SinksKnown` is what holds of a platform
  already forgotten. `Grows` is what pushing a frame does to all such statements, and `Rebinds` and
  `DetachFromKeeps` what a nested call does to the frames below it, so that no action's proof looks into the stack.
* **DnsServer** (last part of `HttpServer_proofs`, where `Dns` is an instance of it).
  `DnsRefinement`; `DnsTypeCorrect`; `DnsQueriesAreAnswered`. The two facades have the same lifecycle, so
  `Dns` shares `state`, `pc` and the threads with `HttpServer`, and only the sorting of the steps
  (`DnsSteps`) is proved anew: `KindKeepsOwnership` and `KindFollowsLifecycle` are about the kinds and not
  about a server. Of a query, what matters is that its response is `InStep` with the platform: fresh,
  being built, or over. One lemma per method says what each makes of such a response, `DestroyedEnds` that the
  destructor leaves none half built, and `DispatchEnds` that a success is of a completed one. For the
  wildcard the invariant adds that nothing was written before it ran, so that the one
  address in the answer is its own.
* **WebSocketClient** (`WebSocketClient_proofs`). `TypeCorrect`; `AfterDetach`; `StateIsTrue`;
  `ConfigurationsAreValid`. `AfterDetach` and `StateIsTrue` assume `Alone`, that there is one application
  thread: nothing in the code orders two of them (section 8), the run has one, and the event
  thread races it all the same. `CallInv` says what a call has done to `_platform` and the sink
  by now; `EventsInv` that the last event not yet delivered agrees with the connection; `TruthInv` that once
  nothing is left to tell, the state that is or will be assigned fits the connection, or will when
  the call has gone on (`WillFit`), unless `trust` says that an interleaving disturbed it.
  `ConfigurationsAreValid` is for any number of threads and headers and any width of `size_t`. The loop
  over the headers is a recursive function, and what it yields for every list is an induction
  that is carried out by hand: `Recurrence` to `Solves` builds the function, a least index at which
  the claim fails is taken, and it is none. `AcceptedLine` is the heart of it: a
  header the loop accepts is the application's, and its line was added to the total without wrapping.

*Only model-checked.* Liveness under fairness, which is out of the prover's reach: `DestructionCompletes`,
`ExchangeEnds`, `MutationsReturn`, `TransientStatesEnd`, and of `ImplementsFairLifecycle` what goes beyond
`ServerLifecycle!Spec`. Every safety property that a run checks is a theorem, but for `RunningIsServed` with
two threads, which is false. Those of `HttpResponse` and of `DnsServer` are stated through
an instance, as said above.

## 7. Findings

* `HttpServer_lateReset`: `Stop` publishes `Stopped` before it resets the platform
  (`ESPressio_HttpServer.hpp:263`); another thread's `Initialize` and `Start` can both succeed
  in between, and the late `Reset` leaves a Running server that serves nothing
  (`tests/test_http.cpp:198` and `:203` expect a started server to serve). It takes two
  lifecycle threads, which the mutex and the checked transitions are there to allow; with one,
  `RunningIsServed` holds (`HttpServer_single`, and `RunningServes` for any number of requests). `DnsServer::Stop` has the same order. The
  trace has 19 states.

Other behaviours the models show are *not* counted as disagreements, because no document,
comment or test says otherwise. The properties name each of them as an exception, or leave it open.

* *HttpServer.* With two lifecycle threads an observer can be told of a state the server has already
  left, because notifications are made after the mutex is released. `ObserversAreInformed` (what the
  observer of `tests/test_http.cpp:142` asserts) is claimed, and proved, for one thread.
* *HttpApplication.* A primary handler that begins a response and then declines lets the fallback
  handler write to it. A responder's page never does (`OneAuthor`).
  Resource responders that fall back only among themselves, one to itself included, call each other until the stack ends
  when none of them finds a resource for the error. `ExchangeEnds` excepts exactly these.
* *Ingress.* A body that was handed over may still be answered with an error, when the
  platform fails between the two: a client that retries delivers it twice
  (`AcceptedMeansHandedOver` says what each answer entitles it to believe).
* *WebSocketClient.* A connection lost while `Disconnect` runs leaves Disconnecting until the next event. A
  `Connect` on a connected client that the platform refuses leaves Attached while
  connected. A write of `SetState` is lost when both threads are inside it. All three are `trust` that is not
  sound: `StateTracksPlatform` does not forbid them, it says that nothing less brings `_state` out of step and that the
  next event nothing comes between puts it right; `TransientStatesEnd` leaves out the stuck Disconnecting likewise.
* *WebSocketEndpoint.* All of these take an observer that calls the endpoint back inside one of its calls.
  - One that detaches while `Bind`, `Unbind` or `Detach` notifies it, or on what the platform reports inside
    `Unbind`, makes the outer call go through a null `_platform` (`:149`, `:161`, `:133`, `:162`).
    `NullOnlyIfUndercut`: only this does.
  - One that detaches on what the platform reports inside `Bind` leaves `_state` Bound with no platform (`:150`),
    and the platform, if it then binds, bound without a sink. One that detaches inside the `SetSink` of `Attach`
    leaves Attached or Bound with no platform. One that binds or unbinds inside `Bind` leaves the state
    of the outer call. In `StateTracksPlatform` these are `overtaken`, until a call that is not sets the state.
  - One that binds, or attaches a bound platform, inside a `Detach` leaves it bound without a sink. One that attaches
    on what is reported inside `SetSink(nullptr)` leaves its platform forgotten with the sink set; one that attaches
    again inside the destructor's `Detach`, with a sink to a destroyed endpoint. `NothingIsLeftBehind` excepts
    each by name (`by`, `attached`).
* *Clock synchronization.* A request of an application thread that read `_client` before `Detach` and built
  its request after it stays pending (`stray` in `DetachEndsTheExchange`).
* *Transports.* `Attach` does not look at the observer handle it was given; with no handle it succeeds and
  nothing is ever received. `WebSocketEventBridge` does look.

## 8. What is not modelled

* `HttpRequest`'s header and query lookups, content types, and the validation of the servers'
  and ingress configurations: pure functions, a Boolean or an assumption on a constant where a decision
  hangs on them. The client's validation, where sizes can wrap, is modelled (`ClientConfiguration`).
* Parameter names and values handed to a route's handler, and headers of a response: no
  property is about them. The hazard that a declining handler leaves headers on the next handler's
  response is listed, with no property.
* The lifetime of handlers, routes' targets and providers: the library keeps raw pointers and
  their owner must outlive requests. There is no state in the code that would track it.
* `WebPersistence`, `WebSocketEventBridge`, `WebSocketEvents`: adapters to other libraries.
* `Send` of an event transport: it calls the platform and changes nothing. The same holds of broadcasts and
  `CloseAll` of an endpoint, of which only what the platform reports meanwhile is kept (`Forward`). That an
  endpoint's platform binds and unbinds only when told to, and reports nothing from a query (`IsBound`,
  `ConnectionCount`), is assumed.
* Several application threads of one `WebSocketClient`, and observers that call it back, from the event
  thread or on the application's own stack. The members have no lock and no document says whether this is allowed.
  From the source: an observer that detaches in the notification of `Connect` or `Disconnect`
  makes `ESPressio_WebSocketClient.hpp:172` or `:184` a call through a null `_platform`, as in the endpoint; what one that
  reconnects in `Disconnect`'s notification leaves is not examined. Nor is a second thread on a `WebSocketEndpoint`.
* That no delivery is under way when `SetReceiver(nullptr)` of an event transport returns (it may be: the receiver is called
  after the lock); a synchronization response that comes after the next request of the same attachment (matching
  identifiers is the protocol's); and how far `State()` of a server may be ahead of what observers were told with
  two threads: no property is about them.
* The clock arithmetic and packet formats of the synchronization protocol, another library's: of it only
  which request is pending is kept, and a request may be refused or replaced while another is.
* The envelope of a command other than its identifier, and the encoded form of a state: a length.
* The arguments of DNS state notifications, and addresses and TTLs: the steps are there, their
  data is not.

## 9. Plan

Done, in the order of importance: `HttpServer` with its refinement and proofs; `HttpResponse` and
`HttpExchange` with the resource writer; `Router`, `MiddlewarePipeline` and `HttpService` with theirs;
`DnsServer`; `WebSocketClient`; `WebSocketEndpoint`; the event transport and clock synchronization; the
ingress handlers inside the exchange; the proofs of section 6. No safety property is left that is only
model-checked. What would be worth adding next are models of what section 8 leaves out: `HttpRequest`'s lookups as
operators, and a second thread on a `WebSocketEndpoint` should the library come to permit one.
