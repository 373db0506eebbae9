------------------------------ MODULE RouteTable ------------------------------
(***************************************************************************)
(* What Router promises to concurrent requests and mutations: a table that *)
(* changes one route at a time, and for each request a decision taken on   *)
(* one table, which is the route of that table that fits the request best, *)
(* or none if none fits.                                                   *)
(***************************************************************************)
EXTENDS Naturals, SequencesExt

CONSTANTS Threads,
          Routes,           \* the routes that may be registered
          NoRoute,          \* the decision that no route fits
          Undecided,
          Requests,
          Fits(_, _),       \* a route fits a request
          Better(_, _, _)   \* one route is preferred to another for a request

VARIABLES routes,    \* the table
          decision   \* per thread, for the request it handles

vars == <<routes, decision>>

(* The first of the best routes of table for request q.                    *)
IsBest(r, table, q) ==
  \E i \in DOMAIN table :
    /\ r = table[i] /\ Fits(r, q)
    /\ \A j \in DOMAIN table : Fits(table[j], q) =>
         /\ ~Better(table[j], r, q)
         /\ j < i => Better(r, table[j], q)

NoneFits(table, q) == \A i \in DOMAIN table : ~Fits(table[i], q)

IsDecision(r, table, q) == IsBest(r, table, q) \/ (r = NoRoute /\ NoneFits(table, q))

Init == routes = <<>> /\ decision = [t \in Threads |-> Undecided]

Mutate ==
  /\ \/ \E r \in Routes : routes' = Append(routes, r)
     \/ \E i \in DOMAIN routes : routes' = RemoveAt(routes, i)
     \/ routes' = <<>>
  /\ UNCHANGED decision

Decide(t) ==
  /\ decision[t] = Undecided
  /\ \E q \in Requests, r \in Routes \cup {NoRoute} :
       IsDecision(r, routes, q) /\ decision' = [decision EXCEPT ![t] = r]
  /\ UNCHANGED routes

Forget(t) ==
  /\ decision' = [decision EXCEPT ![t] = Undecided]
  /\ UNCHANGED routes

Next == Mutate \/ \E t \in Threads : Decide(t) \/ Forget(t)

Spec == Init /\ [][Next]_vars
=============================================================================
