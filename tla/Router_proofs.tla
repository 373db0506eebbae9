----------------------------- MODULE Router_proofs -----------------------------
(***************************************************************************)
(* Proofs that Router keeps its safety properties and implements           *)
(* RouteTable for every number of threads, routes and requests.            *)
(***************************************************************************)
EXTENDS Router, SequencesExt, WellFoundedInduction, FiniteSetTheorems, TLAPS

(* The counts that order routes are numbers.                               *)
LEMMA CountsAreNat ==
  ASSUME NEW p \in PatternType
  PROVE  /\ NamedParameterCount(p) \in Nat
         /\ LiteralCharacterCount(p) \in Nat
<1> DEFINE positions == DOMAIN p.segments
           rows == {{i} \X (1..Length[p.segments[i].text]) : i \in positions \ NamedParameters(p)}
<1>0. /\ positions = 1..Len(p.segments) /\ Len(p.segments) \in Nat
      /\ \A i \in positions : p.segments[i] \in SegmentType
  <2>1. p.segments \in Seq(SegmentType)
    BY DEF PatternType
  <2> QED
    BY <2>1
<1>1. IsFiniteSet(positions)
  BY <1>0, FS_Interval
<1>2. IsFiniteSet(NamedParameters(p)) /\ IsFiniteSet(positions \ NamedParameters(p))
  BY <1>1, FS_Subset DEF NamedParameters
<1>3. ASSUME NEW i \in positions
      PROVE IsFiniteSet({i} \X (1..Length[p.segments[i].text]))
  <2>1. Length[p.segments[i].text] \in Nat
    <3>1. p.segments[i].text \in Texts
      BY <1>0 DEF SegmentType
    <3> QED
      BY <3>1, PatternAssumption
  <2>2. IsFiniteSet(1..Length[p.segments[i].text])
    BY <2>1, FS_Interval
  <2> QED
    BY <2>2, FS_Singleton, FS_Product
<1>4. IsFiniteSet(rows)
  <2> DEFINE f == [i \in positions \ NamedParameters(p) |-> {i} \X (1..Length[p.segments[i].text])]
  <2>1. f \in Surjection(positions \ NamedParameters(p), rows)
    BY DEF Surjection
  <2> QED
    BY <1>2, <2>1, FS_Surjection
<1>5. IsFiniteSet(UNION rows)
  <2> HIDE DEF rows
  <2>1. \A T \in rows : IsFiniteSet(T)
    BY <1>3 DEF rows
  <2> QED
    BY <1>4, <2>1, FS_UNION
<1> QED
  BY <1>2, <1>5, FS_CardinalityType DEF NamedParameterCount, LiteralCharacterCount, LiteralCharacters

LEMMA RoutesAreTyped ==
  /\ \A r \in Routes : r.pattern \in PatternType /\ r.id \in 1..MaxHandles
  /\ NoRoute \notin Routes
BY RouterAssumption DEF Routes, Accepted

(* Preference is a strict weak order: routes that neither is preferred to  *)
(* the other are alike to every third.                                     *)
LEMMA PreferenceIsOrder ==
  ASSUME NEW r \in Routes, NEW s \in Routes, NEW u \in Routes, NEW q
  PROVE  /\ ~Better(r, r, q)
         /\ Better(r, s, q) /\ Better(s, u, q) => Better(r, u, q)
         /\ Better(r, s, q) /\ ~Better(u, s, q) => Better(r, u, q)
<1>1. \A x \in {r, s, u} : /\ NamedParameterCount(x.pattern) \in Nat
                           /\ LiteralCharacterCount(x.pattern) \in Nat
  BY RoutesAreTyped, CountsAreNat
<1> QED
  BY <1>1 DEF Better
-----------------------------------------------------------------------------
(* Every set of numbers that is not empty has a least one.                 *)
LEMMA LeastNatural ==
  ASSUME NEW T \in SUBSET Nat, T # {}
  PROVE  \E i \in T : \A j \in T : i <= j
<1>1. IsWellFoundedOn({ss \in Nat \X Nat : ss[1] < ss[2]}, Nat)
  BY NatLessThanWellFounded, Zenon DEF OpToRel
<1>2. \E i \in T : \A j \in T : <<j, i>> \notin {ss \in Nat \X Nat : ss[1] < ss[2]}
  BY <1>1, WFMin, Zenon
<1>3. \A i, j \in T : <<j, i>> \in {ss \in Nat \X Nat : ss[1] < ss[2]} <=> j < i
  OBVIOUS
<1>4. \E i \in T : \A j \in T : ~(j < i)
  BY <1>2, <1>3, Zenon
<1> QED
  BY <1>4

(* Removing one element keeps the others in order.                         *)
LEMMA RemovalKeepsOrder ==
  ASSUME NEW S, NEW s \in Seq(S), NEW i \in DOMAIN s
  PROVE  /\ RemoveAt(s, i) \in Seq(S)
         /\ Len(RemoveAt(s, i)) = Len(s) - 1
         /\ \A k \in 1..(Len(s) - 1) :
              RemoveAt(s, i)[k] = IF k < i THEN s[k] ELSE s[k + 1]
BY SMTT(90) DEF RemoveAt

(* Removing by handle removes one route or none.                           *)
LEMMA ErasedIs ==
  ASSUME routes \in Seq(Routes), NEW h
  PROVE  Erased(h) = routes \/ \E i \in DOMAIN routes : Erased(h) = RemoveAt(routes, i)
<1> DEFINE found == {i \in DOMAIN routes : routes[i].id = h}
<1>1. CASE found = {}
  BY <1>1 DEF Erased
<1>2. CASE found # {}
  <2> DEFINE first == CHOOSE i \in found : \A j \in found : i <= j
  <2>1. \E i \in found : \A j \in found : i <= j
    BY <1>2, LeastNatural, found \subseteq Nat
  <2>2. first \in found
    BY <2>1
  <2>3. Erased(h) = RemoveAt(routes, first)
    BY <1>2 DEF Erased
  <2> QED
    BY <2>2, <2>3
<1> QED
  BY <1>1, <1>2

-----------------------------------------------------------------------------
USE DEF scanVars, mutationVars

LEMMA EnterTyped ==
  ASSUME TypeOK, NEW t \in Threads, NEW m \in Mutations, Enter(t, m)
  PROVE  /\ pc' \in [Threads -> {"idle", "scanning", "decided", "handling", "mutating"}]
         /\ resume' \in [Threads -> {"idle", "handling"}]
         /\ mutation' \in [Threads -> Mutations]
BY DEF TypeOK, Enter

LEMMA TypeInit == Init => TypeOK
BY RouterAssumption DEF Init, TypeOK, FirstHandle, FirstRequest, NoMutation, Mutations

LEMMA TypeStep == ASSUME TypeOK, [Next]_vars PROVE TypeOK'
<1>1. ASSUME NEW t \in Threads, NEW q \in Requests, Handle(t, q)
      PROVE TypeOK'
  BY <1>1 DEF Handle, TypeOK
<1>2. ASSUME NEW t \in Threads, NEW g \in Accepted, RegisterRoute(t, g)
      PROVE TypeOK'
  <2> DEFINE r == [id |-> NewHandle, method |-> g.method, pattern |-> g.pattern]
             m == [NoMutation EXCEPT !.operation = "insert", !.route = r]
  <2>1. nextHandle \in 1..MaxHandles
    BY <1>2, RouterAssumption DEF RegisterRoute, TypeOK
  <2>2. r \in Routes
    BY <2>1 DEF Routes, NewHandle
  <2>3. m \in Mutations
    BY <2>2 DEF Mutations, NoMutation
  <2>4. Enter(t, m) /\ nextHandle' = nextHandle + 1
    BY <1>2 DEF RegisterRoute
  <2> HIDE DEF m
  <2>5. nextHandle' \in 1..(MaxHandles + 1)
    BY <2>1, <2>4, RouterAssumption
  <2> QED
    BY <2>3, <2>4, <2>5, EnterTyped DEF TypeOK, Enter
<1>3. ASSUME NEW t \in Threads, NEW h \in issued, RemoveRoute(t, h)
      PROVE TypeOK'
  <2>1. [NoMutation EXCEPT !.operation = "remove", !.id = h] \in Mutations
    BY DEF Mutations, NoMutation, TypeOK
  <2> QED
    BY <1>3, <2>1, EnterTyped DEF RemoveRoute, TypeOK, Enter
<1>4. ASSUME NEW t \in Threads, Clear(t)
      PROVE TypeOK'
  <2>1. [NoMutation EXCEPT !.operation = "clear"] \in Mutations
    BY DEF Mutations, NoMutation
  <2> QED
    BY <1>4, <2>1, EnterTyped DEF Clear, TypeOK, Enter
<1>5. ASSUME NEW t \in Threads, Consider(t)
      PROVE TypeOK'
  <2>1. routes[cursor[t]] \in Routes
    BY <1>5 DEF Consider, TypeOK
  <2> QED
    BY <1>5, <2>1 DEF Consider, TypeOK
<1>6. ASSUME NEW t \in Threads, EndScan(t) \/ Invoke(t)
      PROVE TypeOK'
  BY <1>6 DEF EndScan, Invoke, TypeOK
<1>7. ASSUME NEW t \in Threads, NotHandled(t) \/ HandlerReturns(t)
      PROVE TypeOK'
  <2>1. FirstRequest \in Requests
    BY RouterAssumption DEF FirstRequest
  <2>2. Return(t) /\ UNCHANGED mutationVars
    BY <1>7 DEF NotHandled, HandlerReturns, Return
  <2>3. selected' \in [Threads -> Routes \cup {NoRoute}] /\ request' \in [Threads -> Requests]
    BY <2>1, <2>2 DEF Return, TypeOK
  <2>4. pc' \in [Threads -> {"idle", "scanning", "decided", "handling", "mutating"}]
    BY <2>2 DEF Return, TypeOK
  <2>5. cursor' \in [Threads -> Nat \ {0}]
    BY <2>2 DEF Return, TypeOK
  <2> QED
    BY <2>2, <2>3, <2>4, <2>5 DEF Return, TypeOK
<1>8. ASSUME NEW t \in Threads, Mutate(t)
      PROVE TypeOK'
  <2>1. routes' \in Seq(Routes) /\ issued' \subseteq 1..MaxHandles
    <3>1. CASE mutation[t].operation = "insert"
      <4>1. mutation[t].route \in Routes
        BY <3>1 DEF TypeOK, Mutations
      <4> QED
        BY <1>8, <3>1, <4>1, RoutesAreTyped DEF Mutate, TypeOK
    <3>2. CASE mutation[t].operation = "remove"
      <4>1. routes' = Erased(mutation[t].id)
        BY <1>8, <3>2 DEF Mutate
      <4>2. Erased(mutation[t].id) \in Seq(Routes)
        <5>1. \A i \in DOMAIN routes : RemoveAt(routes, i) \in Seq(Routes)
          BY RemovalKeepsOrder DEF TypeOK
        <5> QED
          BY <5>1, ErasedIs DEF TypeOK
      <4> QED
        BY <1>8, <3>2, <4>1, <4>2 DEF Mutate, TypeOK
    <3>3. CASE mutation[t].operation \notin {"insert", "remove"}
      BY <1>8, <3>3 DEF Mutate, TypeOK
    <3> QED
      BY <3>1, <3>2, <3>3
  <2>2. NoMutation \in Mutations
    BY DEF NoMutation, Mutations
  <2> QED
    BY <1>8, <2>1, <2>2 DEF Mutate, TypeOK
<1>9. CASE UNCHANGED vars
  BY <1>9 DEF vars, TypeOK
<1> QED
  BY <1>1, <1>2, <1>3, <1>4, <1>5, <1>6, <1>7, <1>8, <1>9 DEF Next, Call, Continue

(* Type correctness: the null handle is never given to a route.            *)
THEOREM TypeCorrect == Spec => []TypeOK
BY TypeInit, TypeStep, PTL DEF Spec

-----------------------------------------------------------------------------
(* Handles: one that is out is below the next one, and is out only once.   *)
HandleInv ==
  /\ HandlesAreUnique
  /\ \A i \in DOMAIN routes : routes[i].id < nextHandle
  /\ \A t \in Threads : mutation[t].operation = "insert" => mutation[t].route.id < nextHandle

(* The mutations under way and the next handle determine HandleInv while   *)
(* the table is not touched.                                               *)
LEMMA HandlesUntouched ==
  ASSUME HandleInv, UNCHANGED <<routes, nextHandle, mutation>>
  PROVE  HandleInv'
BY DEF HandleInv, HandlesAreUnique

LEMMA HandleEnter ==
  ASSUME TypeOK, HandleInv, NEW t \in Threads, NEW m, Enter(t, m),
         m.operation # "insert", nextHandle' = nextHandle
  PROVE  HandleInv'
BY DEF HandleInv, HandlesAreUnique, Enter, TypeOK

LEMMA HandleStep == ASSUME TypeOK, TypeOK', HandleInv, [Next]_vars PROVE HandleInv'
<1>1. ASSUME NEW t \in Threads, NEW g \in Accepted, RegisterRoute(t, g)
      PROVE HandleInv'
  <2> DEFINE r == [id |-> NewHandle, method |-> g.method, pattern |-> g.pattern]
             m == [NoMutation EXCEPT !.operation = "insert", !.route = r]
  <2>1. /\ routes' = routes /\ nextHandle' = nextHandle + 1
        /\ mutation' = [mutation EXCEPT ![t] = m]
    BY <1>1 DEF RegisterRoute, Enter
  <2>2. m.operation = "insert" /\ m.route.id = nextHandle
    BY DEF NoMutation, NewHandle
  <2> HIDE DEF m
  <2>3. /\ nextHandle \in Nat
        /\ \A i \in DOMAIN routes : routes[i].id \in Nat
    BY RouterAssumption, RoutesAreTyped DEF TypeOK
  <2>4. \A u \in Threads : mutation[u].operation = "insert" => mutation[u].route.id \in Nat
    <3>1. ASSUME NEW u \in Threads, mutation[u].operation = "insert"
          PROVE mutation[u].route \in Routes
      BY <3>1 DEF TypeOK, Mutations
    <3> QED
      BY <3>1, RoutesAreTyped, RouterAssumption
  <2>5. \A u \in Threads : mutation'[u] = IF u = t THEN m ELSE mutation[u]
    BY <2>1 DEF TypeOK
  <2>6. \A i \in DOMAIN routes : routes[i].id < nextHandle'
    BY <2>1, <2>3 DEF HandleInv
  <2>7. \A u \in Threads : mutation'[u].operation = "insert" => mutation'[u].route.id < nextHandle'
    BY <2>1, <2>2, <2>3, <2>4, <2>5 DEF HandleInv
  <2>8. \A u \in Threads : mutation'[u].operation = "insert" =>
          \A i \in DOMAIN routes : routes[i].id # mutation'[u].route.id
    BY <2>2, <2>3, <2>5 DEF HandleInv, HandlesAreUnique
  <2>9. \A u, v \in Threads :
          mutation'[u].operation = "insert" /\ mutation'[v].operation = "insert" /\ u # v =>
            mutation'[u].route.id # mutation'[v].route.id
    BY <2>2, <2>3, <2>4, <2>5 DEF HandleInv, HandlesAreUnique
  <2> QED
    BY <2>1, <2>6, <2>7, <2>8, <2>9 DEF HandleInv, HandlesAreUnique
<1>2. ASSUME NEW t \in Threads, NEW h \in issued, RemoveRoute(t, h)
      PROVE HandleInv'
  BY <1>2, HandleEnter DEF RemoveRoute, NoMutation
<1>3. ASSUME NEW t \in Threads, Clear(t)
      PROVE HandleInv'
  BY <1>3, HandleEnter DEF Clear, NoMutation
<1>4. ASSUME NEW t \in Threads, Mutate(t)
      PROVE HandleInv'
  <2>1. /\ nextHandle' = nextHandle
        /\ mutation' = [mutation EXCEPT ![t] = NoMutation]
        /\ NoMutation.operation = "none"
    BY <1>4 DEF Mutate, NoMutation
  <2>2. ASSUME NEW u \in Threads, mutation'[u].operation = "insert"
        PROVE mutation'[u] = mutation[u] /\ u # t
    BY <2>1, <2>2 DEF TypeOK
  <2>3. CASE mutation[t].operation = "insert"
    <3>1. routes' = Append(routes, mutation[t].route)
      BY <1>4, <2>3 DEF Mutate
    <3>2. /\ DOMAIN routes' = 1..(Len(routes) + 1) /\ DOMAIN routes = 1..Len(routes)
          /\ Len(routes) \in Nat
          /\ \A i \in DOMAIN routes' :
               routes'[i] = IF i = Len(routes) + 1 THEN mutation[t].route ELSE routes[i]
      BY <3>1 DEF TypeOK
    <3> QED
      BY <2>1, <2>2, <2>3, <3>2 DEF HandleInv, HandlesAreUnique
  <2>4. CASE mutation[t].operation = "remove"
    <3>1. routes' = Erased(mutation[t].id)
      BY <1>4, <2>4 DEF Mutate
    <3>2. CASE routes' = routes
      BY <2>1, <2>2, <3>2 DEF HandleInv, HandlesAreUnique
    <3>3. ASSUME NEW i \in DOMAIN routes, routes' = RemoveAt(routes, i)
          PROVE HandleInv'
      <4>1. /\ DOMAIN routes' = 1..(Len(routes) - 1) /\ DOMAIN routes = 1..Len(routes)
            /\ Len(routes) \in Nat
            /\ \A k \in DOMAIN routes' :
                 routes'[k] = IF k < i THEN routes[k] ELSE routes[k + 1]
        <5>1. /\ routes' \in Seq(Routes) /\ Len(routes') = Len(routes) - 1
              /\ \A k \in 1..(Len(routes) - 1) :
                   routes'[k] = IF k < i THEN routes[k] ELSE routes[k + 1]
          BY <3>3, RemovalKeepsOrder DEF TypeOK
        <5>2. /\ DOMAIN routes' = 1..Len(routes') /\ DOMAIN routes = 1..Len(routes)
              /\ Len(routes) \in Nat
          BY <5>1 DEF TypeOK
        <5> QED
          BY <5>1, <5>2
      <4> DEFINE old(k) == IF k < i THEN k ELSE k + 1
      <4>2. \A k \in DOMAIN routes' : old(k) \in DOMAIN routes /\ routes'[k] = routes[old(k)]
        BY <4>1
      <4>3. \A k, l \in DOMAIN routes' : old(k) = old(l) => k = l
        BY <4>1
      <4> HIDE DEF old
      <4>4. \A k, l \in DOMAIN routes' : routes'[k].id = routes'[l].id => k = l
        BY <4>2, <4>3 DEF HandleInv, HandlesAreUnique
      <4> QED
        BY <2>1, <2>2, <4>2, <4>4 DEF HandleInv, HandlesAreUnique
    <3> QED
      BY <3>1, <3>2, <3>3, ErasedIs DEF TypeOK
  <2>5. CASE mutation[t].operation \notin {"insert", "remove"}
    <3>1. routes' = <<>>
      BY <1>4, <2>5 DEF Mutate
    <3> QED
      BY <2>1, <2>2, <3>1 DEF HandleInv, HandlesAreUnique
  <2> QED
    BY <2>3, <2>4, <2>5
<1>5. CASE UNCHANGED <<routes, nextHandle, mutation>>
  BY <1>5, HandlesUntouched
<1> QED
  BY <1>1, <1>2, <1>3, <1>4, <1>5
     DEF Next, Call, Continue, vars, Handle, Consider, EndScan, NotHandled, Invoke,
         HandlerReturns, Return

(* No two routes share a handle, however registrations interleave.         *)
THEOREM HandlesUnique == Spec => []HandlesAreUnique
<1>1. Init => HandleInv
  BY DEF Init, HandleInv, HandlesAreUnique, NoMutation
<1>2. HandleInv => HandlesAreUnique
  BY DEF HandleInv
<1> QED
  BY <1>1, <1>2, TypeCorrect, HandleStep, PTL DEF Spec

-----------------------------------------------------------------------------
(* One step of the scan: the n-th route is compared with the best of those *)
(* before it.                                                              *)
LEMMA BestExtends ==
  ASSUME routes \in Seq(Routes), NEW n \in 1..Len(routes), NEW q,
         NEW s \in Routes \cup {NoRoute}, BestOfFirst(n - 1, s, q)
  PROVE  BestOfFirst(n, IF Fits(routes[n], q) /\ Preferable(routes[n], s, q)
                        THEN routes[n] ELSE s, q)
<1> DEFINE r == routes[n]
<1>1. /\ \A i \in 1..n : (i \in 1..(n - 1) \/ i = n) /\ routes[i] \in Routes
      /\ 1..(n - 1) \subseteq 1..n /\ n \in 1..n /\ n \notin 1..(n - 1)
      /\ \A i \in 1..n : i \in Nat
  OBVIOUS
<1>2. CASE s = NoRoute
  <2>1. \A i \in 1..(n - 1) : ~Fits(routes[i], q)
    BY <1>1, <1>2, RoutesAreTyped DEF BestOfFirst
  <2>2. CASE Fits(r, q)
    <3>1. ~Better(r, r, q)
      BY <1>1, PreferenceIsOrder
    <3> QED
      BY <1>1, <1>2, <2>1, <2>2, <3>1 DEF BestOfFirst, Preferable
  <2>3. CASE ~Fits(r, q)
    BY <1>1, <1>2, <2>1, <2>3 DEF BestOfFirst
  <2> QED
    BY <2>2, <2>3
<1>3. ASSUME s # NoRoute, NEW i \in 1..(n - 1), s = routes[i], Fits(s, q),
             \A j \in 1..(n - 1) : Fits(routes[j], q) =>
               ~Better(routes[j], s, q) /\ (j < i => Better(s, routes[j], q))
      PROVE BestOfFirst(n, IF Fits(r, q) /\ Preferable(r, s, q) THEN r ELSE s, q)
  <2>1. CASE Fits(r, q) /\ Better(r, s, q)
    <3>1. ASSUME NEW j \in 1..n, Fits(routes[j], q)
          PROVE ~Better(routes[j], r, q) /\ (j < n => Better(r, routes[j], q))
      <4>1. CASE j = n
        BY <4>1, <1>1, PreferenceIsOrder
      <4>2. CASE j # n
        <5>1. ~Better(routes[j], s, q)
          BY <1>1, <1>3, <3>1, <4>2
        <5>2. routes[j] \in Routes /\ r \in Routes /\ s \in Routes
          BY <1>1, <1>3
        <5> QED
          BY <2>1, <5>1, <5>2, PreferenceIsOrder
      <4> QED
        BY <4>1, <4>2
    <3>2. BestOfFirst(n, r, q)
      BY <1>1, <2>1, <3>1 DEF BestOfFirst
    <3> QED
      BY <2>1, <3>2 DEF Preferable
  <2>2. CASE ~(Fits(r, q) /\ Better(r, s, q))
    <3>1. ASSUME NEW j \in 1..n, Fits(routes[j], q)
          PROVE ~Better(routes[j], s, q) /\ (j < i => Better(s, routes[j], q))
      <4>1. CASE j = n
        BY <4>1, <2>2, <3>1
      <4>2. CASE j # n
        BY <1>1, <1>3, <3>1, <4>2
      <4> QED
        BY <4>1, <4>2
    <3>2. BestOfFirst(n, s, q)
      BY <1>1, <1>3, <3>1 DEF BestOfFirst
    <3> QED
      BY <1>3, <2>2, <3>2 DEF Preferable
  <2> QED
    BY <2>1, <2>2
<1> QED
  BY <1>2, <1>3 DEF BestOfFirst

LEMMA SelectionStep ==
  ASSUME TypeOK, TypeOK', SelectionIsBest, [Next]_vars
  PROVE  SelectionIsBest'
<1>0. ASSUME UNCHANGED routes
      PROVE \A n, best, q : BestOfFirst(n, best, q) => BestOfFirst(n, best, q)'
  BY <1>0 DEF BestOfFirst
<1>1. ASSUME NEW t \in Threads, NEW q \in Requests, Handle(t, q)
      PROVE SelectionIsBest'
  <2>1. UNCHANGED routes
    BY <1>1 DEF Handle
  <2>2. BestOfFirst(0, NoRoute, q)
    BY DEF BestOfFirst
  <2>3. cursor'[t] = 1 /\ selected'[t] = NoRoute /\ request'[t] = q
    BY <1>1 DEF Handle, TypeOK
  <2>4. cursor'[t] <= Len(routes') + 1 /\ BestOfFirst(cursor[t] - 1, selected[t], request[t])'
    BY <1>0, <2>1, <2>2, <2>3 DEF TypeOK
  <2>5. ASSUME NEW u \in Threads, u # t
        PROVE /\ pc'[u] = pc[u] /\ cursor'[u] = cursor[u]
              /\ selected'[u] = selected[u] /\ request'[u] = request[u]
    BY <1>1, <2>5 DEF Handle, TypeOK
  <2> QED
    BY <1>0, <2>1, <2>4, <2>5 DEF SelectionIsBest
<1>2. ASSUME NEW t \in Threads, Consider(t)
      PROVE SelectionIsBest'
  <2>1. /\ UNCHANGED <<routes, pc, request>>
        /\ pc[t] = "scanning" /\ cursor[t] \in 1..Len(routes)
        /\ cursor'[t] = cursor[t] + 1
        /\ selected'[t] = IF /\ Fits(routes[cursor[t]], request[t])
                             /\ Preferable(routes[cursor[t]], selected[t], request[t])
                          THEN routes[cursor[t]] ELSE selected[t]
    BY <1>2 DEF Consider, TypeOK
  <2>2. BestOfFirst(cursor[t], selected'[t], request[t])
    BY <2>1, BestExtends DEF SelectionIsBest, TypeOK
  <2>3. cursor'[t] - 1 = cursor[t] /\ cursor'[t] <= Len(routes') + 1
    BY <2>1
  <2>4. BestOfFirst(cursor[t] - 1, selected[t], request[t])'
    BY <1>0, <2>1, <2>2, <2>3
  <2>5. ASSUME NEW u \in Threads, u # t
        PROVE cursor'[u] = cursor[u] /\ selected'[u] = selected[u]
    BY <1>2, <2>5 DEF Consider, TypeOK
  <2> QED
    BY <1>0, <2>1, <2>3, <2>4, <2>5 DEF SelectionIsBest
<1>3. ASSUME NEW t \in Threads, Mutate(t)
      PROVE SelectionIsBest'
  <2>1. \A u \in Threads : pc[u] # "scanning"
    BY <1>3 DEF Mutate, ExclusiveLock
  <2>2. \A u \in Threads : pc'[u] # "scanning"
    BY <1>3, <2>1 DEF Mutate, TypeOK
  <2> QED
    BY <2>2 DEF SelectionIsBest
<1>4. ASSUME UNCHANGED <<routes, scanVars>>,
             \A u \in Threads : pc'[u] = "scanning" => pc[u] = "scanning"
      PROVE SelectionIsBest'
  BY <1>0, <1>4 DEF SelectionIsBest
<1>5. ASSUME NEW t \in Threads, NEW m, Enter(t, m)
      PROVE SelectionIsBest'
  BY <1>4, <1>5 DEF Enter, TypeOK
<1>6. ASSUME NEW t \in Threads, EndScan(t) \/ Invoke(t)
      PROVE SelectionIsBest'
  BY <1>4, <1>6 DEF EndScan, Invoke, TypeOK
<1>7. ASSUME NEW t \in Threads, NotHandled(t) \/ HandlerReturns(t)
      PROVE SelectionIsBest'
  <2>1. UNCHANGED routes /\ pc'[t] = "idle"
    BY <1>7 DEF NotHandled, HandlerReturns, Return, TypeOK
  <2>2. ASSUME NEW u \in Threads, u # t
        PROVE /\ pc'[u] = pc[u] /\ cursor'[u] = cursor[u]
              /\ selected'[u] = selected[u] /\ request'[u] = request[u]
    BY <1>7, <2>2 DEF NotHandled, HandlerReturns, Return, TypeOK
  <2> QED
    BY <1>0, <2>1, <2>2 DEF SelectionIsBest
<1>8. CASE UNCHANGED vars
  BY <1>4, <1>8 DEF vars
<1> QED
  BY <1>1, <1>2, <1>3, <1>5, <1>6, <1>7, <1>8
     DEF Next, Call, Continue, RegisterRoute, RemoveRoute, Clear

(* A scan selects the best route it has passed, whatever threads wait.     *)
THEOREM SelectionBest == Spec => []SelectionIsBest
<1>1. Init => SelectionIsBest
  BY DEF Init, SelectionIsBest
<1> QED
  BY <1>1, TypeCorrect, SelectionStep, PTL DEF Spec

-----------------------------------------------------------------------------
(* Refinement: a request decides when its scan ends.                       *)
Decided(t) == pc[t] \in {"decided", "handling"} \/ (pc[t] = "mutating" /\ resume[t] = "handling")

Decision == [t \in Threads |-> IF Decided(t) THEN selected[t] ELSE Undecided]

USE DEF Decided

(* A scan that passed the whole table has the decision.                    *)
LEMMA ScanDecides ==
  ASSUME TypeOK, SelectionIsBest, NEW t \in Threads, EndScan(t)
  PROVE  Table!IsDecision(selected[t], routes, request[t])
<1>1. cursor[t] - 1 = Len(routes) /\ DOMAIN routes = 1..Len(routes)
  BY DEF EndScan, TypeOK, SelectionIsBest
<1>2. BestOfFirst(Len(routes), selected[t], request[t])
  BY <1>1 DEF EndScan, SelectionIsBest
<1> QED
  BY <1>1, <1>2 DEF BestOfFirst, Table!IsDecision, Table!IsBest, Table!NoneFits

LEMMA TableStep ==
  ASSUME TypeOK, TypeOK', SelectionIsBest, [Next]_vars
  PROVE  [Table!Next]_(Table!vars)
<1>1. ASSUME UNCHANGED <<routes, selected>>, \A t \in Threads : Decided(t)' <=> Decided(t)
      PROVE UNCHANGED Table!vars
  BY <1>1 DEF Table!vars
<1>2. ASSUME NEW t \in Threads, NEW q \in Requests, Handle(t, q)
      PROVE UNCHANGED Table!vars
  <2>1. UNCHANGED routes /\ ~Decided(t) /\ ~Decided(t)'
    BY <1>2 DEF Handle, TypeOK
  <2>2. ASSUME NEW u \in Threads, u # t
        PROVE (Decided(u)' <=> Decided(u)) /\ selected'[u] = selected[u]
    BY <1>2, <2>2 DEF Handle, TypeOK
  <2> QED
    BY <2>1, <2>2 DEF Table!vars
<1>3. ASSUME NEW t \in Threads, Consider(t)
      PROVE UNCHANGED Table!vars
  <2>1. UNCHANGED <<routes, pc, resume>> /\ ~Decided(t)
    BY <1>3 DEF Consider
  <2>2. ASSUME NEW u \in Threads, u # t
        PROVE selected'[u] = selected[u]
    BY <1>3, <2>2 DEF Consider, TypeOK
  <2> QED
    BY <2>1, <2>2 DEF Table!vars
<1>4. ASSUME NEW t \in Threads, EndScan(t)
      PROVE Table!Decide(t)
  <2>1. UNCHANGED <<routes, selected>> /\ ~Decided(t) /\ Decided(t)'
    BY <1>4 DEF EndScan, TypeOK
  <2>2. ASSUME NEW u \in Threads, u # t
        PROVE Decided(u)' <=> Decided(u)
    BY <1>4, <2>2 DEF EndScan, TypeOK
  <2>3. Decision' = [Decision EXCEPT ![t] = selected[t]] /\ Decision[t] = Undecided
    BY <2>1, <2>2 DEF Decision
  <2>4. request[t] \in Requests /\ selected[t] \in Routes \cup {NoRoute}
    BY DEF TypeOK
  <2> QED
    BY <1>4, <2>1, <2>3, <2>4, ScanDecides DEF Table!Decide, Decision
<1>5. ASSUME NEW t \in Threads, NotHandled(t) \/ HandlerReturns(t)
      PROVE Table!Forget(t)
  <2>1. UNCHANGED routes /\ ~Decided(t)'
    BY <1>5 DEF NotHandled, HandlerReturns, Return, TypeOK
  <2>2. ASSUME NEW u \in Threads, u # t
        PROVE (Decided(u)' <=> Decided(u)) /\ selected'[u] = selected[u]
    BY <1>5, <2>2 DEF NotHandled, HandlerReturns, Return, TypeOK
  <2>3. Decision' = [Decision EXCEPT ![t] = Undecided]
    BY <2>1, <2>2 DEF Decision
  <2> QED
    BY <2>1, <2>3 DEF Table!Forget, Decision
<1>6. ASSUME NEW t \in Threads, Invoke(t)
      PROVE UNCHANGED Table!vars
  BY <1>1, <1>6 DEF Invoke, TypeOK
<1>7. ASSUME NEW t \in Threads, NEW m, Enter(t, m)
      PROVE UNCHANGED Table!vars
  BY <1>1, <1>7 DEF Enter, TypeOK
<1>8. ASSUME NEW t \in Threads, Mutate(t)
      PROVE Table!Mutate \/ UNCHANGED Table!vars
  <2>1. UNCHANGED selected /\ \A u \in Threads : Decided(u)' <=> Decided(u)
    BY <1>8 DEF Mutate, TypeOK
  <2>2. Decision' = Decision
    BY <2>1 DEF Decision
  <2>3. CASE mutation[t].operation = "insert"
    <3>1. mutation[t].route \in Routes
      BY <2>3 DEF TypeOK, Mutations
    <3> QED
      BY <1>8, <2>2, <2>3, <3>1 DEF Mutate, Table!Mutate, Decision
  <2>4. CASE mutation[t].operation = "remove"
    <3>1. routes' = Erased(mutation[t].id)
      BY <1>8, <2>4 DEF Mutate
    <3>2. routes' = routes \/ \E i \in DOMAIN routes : routes' = RemoveAt(routes, i)
      BY <3>1, ErasedIs DEF TypeOK
    <3> QED
      BY <2>2, <3>2 DEF Table!Mutate, Table!RemoveAt, RemoveAt, Table!vars, Decision
  <2>5. CASE mutation[t].operation \notin {"insert", "remove"}
    <3>1. routes' = <<>>
      BY <1>8, <2>5 DEF Mutate
    <3> QED
      BY <2>2, <3>1 DEF Table!Mutate, Decision
  <2> QED
    BY <2>3, <2>4, <2>5
<1>9. CASE UNCHANGED vars
  BY <1>1, <1>9 DEF vars
<1> QED
  BY <1>2, <1>3, <1>4, <1>5, <1>6, <1>7, <1>8, <1>9
     DEF Next, Call, Continue, RegisterRoute, RemoveRoute, Clear, Table!Next

(* Each request is served as by one look at one table, which changes one   *)
(* route at a time.                                                        *)
THEOREM Refinement == Spec => ImplementsRouteTable
<1>1. Init => Table!Init
  BY DEF Init, Table!Init
<1> QED
  BY <1>1, TypeCorrect, SelectionBest, TableStep, PTL
     DEF Spec, ImplementsRouteTable, Table!Spec
===============================================================================
