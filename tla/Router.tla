-------------------------------- MODULE Router --------------------------------
(***************************************************************************)
(* Router (ESPressio_Router.hpp): requests select a route under a shared   *)
(* lock and run its handler without it, while application threads and the  *)
(* handlers themselves register and remove routes.                         *)
(*                                                                         *)
(* The scan of the table is one step per route, so that what the lock      *)
(* keeps apart is seen; a section under the exclusive lock is one step.    *)
(* A handler is identified with the route entry that refers to it.         *)
(***************************************************************************)
EXTENDS RoutePattern, SequencesExt

CONSTANTS Threads,        \* of the platform and the application
          Registrations,  \* [method, pattern] offered to RegisterRoute
          Requests,       \* [method, path] that arrive
          NoRoute, Undecided,
          MaxHandles      \* bound: routes ever registered

ASSUME RouterAssumption ==
  /\ Registrations \subseteq [method : STRING, pattern : PatternType]
  /\ Requests \subseteq [method : STRING, path : PathType]
  /\ Requests # {}
  /\ NoRoute \notin [id : Nat, method : STRING, pattern : PatternType]
  /\ MaxHandles \in Nat

VARIABLES
  routes,      \* _routes
  nextHandle,  \* _nextHandle
  issued,      \* handles RegisterRoute returned
  pc,          \* per thread: idle, scanning, decided, handling, mutating
  request,     \* per thread, the request it handles
  cursor,      \* per thread, the next route of its scan
  selected,    \* per thread, the best route of its scan so far
  mutation,    \* per thread, the mutation it is in
  resume       \* per thread, where it called that mutation: idle, handling

scanVars     == <<request, cursor, selected>>
mutationVars == <<issued, mutation, resume>>
vars         == <<routes, nextHandle, pc, scanVars, mutationVars>>

Accepted == {g \in Registrations : Valid(g.pattern)}

Routes == [id : 1..MaxHandles, method : {g.method : g \in Accepted},
           pattern : {g.pattern : g \in Accepted}]

Mutations == [operation : {"none", "clear"}, route : {NoRoute}, id : {0}]
               \cup [operation : {"insert"}, route : Routes, id : {0}]
               \cup [operation : {"remove"}, route : {NoRoute}, id : 1..MaxHandles]

NoMutation == [operation |-> "none", route |-> NoRoute, id |-> 0]

(* Every variable has its type.                                            *)
TypeOK ==
  /\ routes \in Seq(Routes)
  /\ nextHandle \in 1..(MaxHandles + 1)
  /\ issued \subseteq 1..MaxHandles
  /\ pc \in [Threads -> {"idle", "scanning", "decided", "handling", "mutating"}]
  /\ request \in [Threads -> Requests]
  /\ cursor \in [Threads -> Nat \ {0}]
  /\ selected \in [Threads -> Routes \cup {NoRoute}]
  /\ mutation \in [Threads -> Mutations]
  /\ resume \in [Threads -> {"idle", "handling"}]

(* Definitions named after a mistake ("...FromSize", "...Unlocked") are    *)
(* mutants of the definition that follows them; nothing else uses them.    *)

FirstHandle == 1

FirstRequest == CHOOSE q \in Requests : TRUE

Init ==
  /\ routes = <<>>
  /\ nextHandle = FirstHandle
  /\ issued = {}
  /\ pc = [t \in Threads |-> "idle"]
  /\ request = [t \in Threads |-> FirstRequest]
  /\ cursor = [t \in Threads |-> 1]
  /\ selected = [t \in Threads |-> NoRoute]
  /\ mutation = [t \in Threads |-> NoMutation]
  /\ resume = [t \in Threads |-> "idle"]

-----------------------------------------------------------------------------

Exact(r, q) == r.method = q.method

Fits(r, q) == (Exact(r, q) \/ r.method = "Any") /\ Match(r.pattern, q.path)

(* Fewer parameters, then more literal characters, then the method itself. *)
Better(r, s, q) ==
  LET named(x)    == NamedParameterCount(x.pattern)
      literals(x) == LiteralCharacterCount(x.pattern)
  IN  \/ named(r) < named(s)
      \/ named(r) = named(s) /\ literals(r) > literals(s)
      \/ named(r) = named(s) /\ literals(r) = literals(s) /\ Exact(r, q) /\ ~Exact(s, q)

(* Router::Handle takes the shared lock and scans from the first route.    *)
Handle(t, q) ==
  /\ pc[t] = "idle"
  /\ pc' = [pc EXCEPT ![t] = "scanning"]
  /\ request' = [request EXCEPT ![t] = q]
  /\ cursor' = [cursor EXCEPT ![t] = 1]
  /\ selected' = [selected EXCEPT ![t] = NoRoute]
  /\ UNCHANGED <<routes, nextHandle, mutationVars>>

PreferableLastWins(r, s, q) == s = NoRoute \/ ~Better(s, r, q)

Preferable(r, s, q) == s = NoRoute \/ Better(r, s, q)

Consider(t) ==
  /\ pc[t] = "scanning"
  /\ cursor[t] <= Len(routes)
  /\ LET r == routes[cursor[t]] IN
       selected' = IF Fits(r, request[t]) /\ Preferable(r, selected[t], request[t])
                   THEN [selected EXCEPT ![t] = r] ELSE selected
  /\ cursor' = [cursor EXCEPT ![t] = @ + 1]
  /\ UNCHANGED <<routes, nextHandle, pc, request, mutationVars>>

(* The scan ends and the shared lock is released.                          *)
EndScan(t) ==
  /\ pc[t] = "scanning"
  /\ cursor[t] > Len(routes)
  /\ pc' = [pc EXCEPT ![t] = "decided"]
  /\ UNCHANGED <<routes, nextHandle, scanVars, mutationVars>>

(* The locals of Handle(t) end with it.                                    *)
Return(t) ==
  /\ pc' = [pc EXCEPT ![t] = "idle"]
  /\ cursor' = [cursor EXCEPT ![t] = 1]
  /\ selected' = [selected EXCEPT ![t] = NoRoute]
  /\ request' = [request EXCEPT ![t] = FirstRequest]
  /\ UNCHANGED <<routes, nextHandle, mutationVars>>

NotHandled(t) ==
  /\ pc[t] = "decided" /\ selected[t] = NoRoute
  /\ Return(t)

(* The handler of the route runs, without the lock.                        *)
Invoke(t) ==
  /\ pc[t] = "decided" /\ selected[t] # NoRoute
  /\ pc' = [pc EXCEPT ![t] = "handling"]
  /\ UNCHANGED <<routes, nextHandle, scanVars, mutationVars>>

HandlerReturns(t) == pc[t] = "handling" /\ Return(t)

-----------------------------------------------------------------------------
(* A mutation, called by the application or by a handler.                  *)
Enter(t, m) ==
  /\ pc[t] \in {"idle", "handling"}
  /\ pc' = [pc EXCEPT ![t] = "mutating"]
  /\ resume' = [resume EXCEPT ![t] = pc[t]]
  /\ mutation' = [mutation EXCEPT ![t] = m]
  /\ UNCHANGED <<routes, issued, scanVars>>

(* RegisterRoute takes its handle before the lock, so that routes may be   *)
(* inserted in another order than that of their handles.                   *)
NewHandleFromSize == Len(routes) + 1

NewHandle == nextHandle

RegisterRoute(t, g) ==
  /\ nextHandle <= MaxHandles
  /\ Enter(t, [NoMutation EXCEPT !.operation = "insert",
       !.route = [id |-> NewHandle, method |-> g.method, pattern |-> g.pattern]])
  /\ nextHandle' = nextHandle + 1

RemoveRoute(t, h) ==
  /\ Enter(t, [NoMutation EXCEPT !.operation = "remove", !.id = h])
  /\ UNCHANGED nextHandle

Clear(t) ==
  /\ Enter(t, [NoMutation EXCEPT !.operation = "clear"])
  /\ UNCHANGED nextHandle

(* The exclusive lock waits for every shared one.                          *)
ExclusiveLockUnlocked == TRUE

ExclusiveLockAwaitingHandlers == \A u \in Threads : pc[u] \notin {"scanning", "handling"}

ExclusiveLock == \A u \in Threads : pc[u] # "scanning"

(* The table without the first route that has handle h.                    *)
Erased(h) ==
  LET found == {i \in DOMAIN routes : routes[i].id = h}
  IN  IF found = {} THEN routes
      ELSE RemoveAt(routes, CHOOSE i \in found : \A j \in found : i <= j)

Mutate(t) ==
  /\ pc[t] = "mutating"
  /\ ExclusiveLock
  /\ LET m == mutation[t] IN
       /\ routes' = CASE m.operation = "insert" -> Append(routes, m.route)
                      [] m.operation = "remove" -> Erased(m.id)
                      [] OTHER                  -> <<>>
       /\ issued' = IF m.operation = "insert" THEN issued \cup {m.route.id} ELSE issued
  /\ pc' = [pc EXCEPT ![t] = resume[t]]
  /\ mutation' = [mutation EXCEPT ![t] = NoMutation]
  /\ resume' = [resume EXCEPT ![t] = "idle"]
  /\ UNCHANGED <<nextHandle, scanVars>>

-----------------------------------------------------------------------------
Call(t) ==
  \/ \E q \in Requests : Handle(t, q)
  \/ \E g \in Accepted : RegisterRoute(t, g)
  \/ \E h \in issued : RemoveRoute(t, h)
  \/ Clear(t)

Continue(t) == Consider(t) \/ EndScan(t) \/ NotHandled(t) \/ Invoke(t) \/ HandlerReturns(t) \/ Mutate(t)

Next == \E t \in Threads : Call(t) \/ Continue(t)

Spec == Init /\ [][Next]_vars

(* Threads run and handlers return; nothing says that a writer gets the    *)
(* lock while readers keep coming.                                         *)
FairSpec == Spec /\ \A t \in Threads : WF_vars(Continue(t))

-----------------------------------------------------------------------------
(* Handles tell routes apart: no two routes in the table or on their way   *)
(* into it share one, however registrations interleave, so that removing   *)
(* by handle never removes another owner's route.                          *)
HandlesAreUnique ==
  /\ \A i, j \in DOMAIN routes : routes[i].id = routes[j].id => i = j
  /\ \A t \in Threads : mutation[t].operation = "insert" =>
       /\ \A i \in DOMAIN routes : routes[i].id # mutation[t].route.id
       /\ \A u \in Threads : mutation[u].operation = "insert" /\ u # t =>
            mutation[u].route.id # mutation[t].route.id

(* A scan stays in the table, and what it selected is the best of the      *)
(* routes it has passed, whatever threads wait to change the table.        *)
BestOfFirst(n, best, q) ==
  \/ best = NoRoute /\ \A i \in 1..n : ~Fits(routes[i], q)
  \/ \E i \in 1..n :
       /\ best = routes[i] /\ Fits(best, q)
       /\ \A j \in 1..n : Fits(routes[j], q) =>
            ~Better(routes[j], best, q) /\ (j < i => Better(best, routes[j], q))

SelectionIsBest ==
  \A t \in Threads : pc[t] = "scanning" =>
    /\ cursor[t] <= Len(routes) + 1
    /\ BestOfFirst(cursor[t] - 1, selected[t], request[t])

(* Requests and mutations are atomic to one another: each request is       *)
(* served as by one look at one table, by its best route (fewest           *)
(* parameters, most literal text, own method, first), and is left          *)
(* unhandled only if no route of that table fits.                          *)
Table == INSTANCE RouteTable WITH
           decision <- [t \in Threads |->
             IF pc[t] \in {"decided", "handling"} \/ (pc[t] = "mutating" /\ resume[t] = "handling")
               THEN selected[t] ELSE Undecided]

ImplementsRouteTable == Table!Spec

(* A mutation returns once requests pause, whatever handlers do and also   *)
(* when a handler calls it: no lock is held around handlers.               *)
MutationsReturn ==
  (<>[]\A t \in Threads : pc[t] # "scanning")
    => \A t \in Threads : pc[t] = "mutating" ~> pc[t] # "mutating"

=============================================================================
