------------------------- MODULE WebSocketClient_proofs -------------------------
(***************************************************************************)
(* Proofs about WebSocketClient for any configurations, any number of      *)
(* native events under way, and platforms that drain their sink and that   *)
(* do not: of its state with one application thread, of its types and its  *)
(* validation with any number.                                             *)
(***************************************************************************)
EXTENDS WebSocketClient, SequenceTheorems, WellFoundedInduction, TLAPS

Alone == \A t, u \in Threads : t = u

SetStatePcs == {"load", "store", "notify"}

(* The event thread is idle or in a SetState, or tells observers.          *)
NativeInv ==
  /\ actor[Native].pc \in {"idle"} \cup SetStatePcs /\ actor[Native].then = "idle"
  /\ actor[Native].pc \in {"load", "store"} =>
       actor[Native].target \in {"Connected", "Disconnected"}

(* What an application's call has done to _platform and its sink by now,   *)
(* and what it will do after it has set the state: p, s and n are where it *)
(* is, its target and its next call; a and k, whether there is a platform  *)
(* and whether its sink is this client.                                    *)
CallOf(p, s, n, a, k) ==
  /\ p = "idle" => (k <=> a)
  /\ p \in {"attachSink", "detachClear"} => a /\ ~k
  /\ p \in {"attachRead", "detachSink"} \cup (OutsidePcs \ {"idle"}) => k
  /\ p \in SetStatePcs =>
       /\ IF s = "Detached" THEN ~a ELSE k
       /\ n = CASE s = "Connecting"    -> "platformConnect"
                [] s = "Disconnecting" -> "platformDisconnect"
                [] s = "Disconnected"  -> "platformStop"
                [] OTHER               -> "idle"
  /\ p \in {"idle", "attachSink", "attachRead"} => n = "idle"

CallInv ==
  /\ sink => attached
  /\ attached => Threads # {}
  /\ \A t \in Threads : CallOf(actor[t].pc, actor[t].target, actor[t].then, attached, sink)

-----------------------------------------------------------------------------
(* The last event the platform has yet to deliver says what its connection *)
(* is, as far as a state does.                                             *)
Agrees(e, l) == IF e = "connected" THEN l \in {"up", "closing"} ELSE l # "up"

Silent(q) == \A i \in DOMAIN q : q[i] = "message"

EndsWell(q, l) ==
  \A i \in DOMAIN q :
    q[i] # "message" /\ (\A j \in DOMAIN q : j > i => q[j] = "message") => Agrees(q[i], l)

Telling == actor[Native].pc \in {"load", "store"}

EventsInv ==
  /\ EndsWell(events, link)
  /\ Telling /\ Silent(events) =>
       Agrees(IF actor[Native].target = "Connected" THEN "connected" ELSE "disconnected", link)

-----------------------------------------------------------------------------
(* Once nothing is left to tell, the state that is or will be assigned     *)
(* fits the connection, or will when the call has gone on.                 *)
Fits(s, l) ==
  /\ s # "Detached"
  /\ l = "up" => s = "Connected"
  /\ s = "Connected" => l \in {"up", "closing"}
  /\ s = "Connecting" => l = "opening"
  /\ s = "Disconnecting" => l = "closing"

WillFit(s, l, next) ==
  CASE next = "idle"            -> Fits(s, l)
    [] next = "platformStop"    -> Fits(s, l) /\ s # "Connecting"
    [] next = "platformConnect" -> /\ s # "Detached"
                                   /\ l \in {"down", "lost"} => s \notin {"Connected", "Disconnecting"}
    [] OTHER                    -> /\ s \notin {"Detached", "Connecting"}
                                   /\ s \in {"Connected", "Disconnecting"} => l \in {"up", "closing"}

FitOf(p, s, n, st, l) ==
  p \in SetStatePcs \cup OutsidePcs =>
    WillFit(IF p \in {"load", "store"} THEN s ELSE st, l, IF p \in SetStatePcs THEN n ELSE p)

TruthInv ==
  /\ trust # "stale" => ~Overlap
  /\ draining \/ trust # "stale" =>
       /\ ~sink => At(Native, "idle")
       /\ ~attached /\ (\A t \in Threads : actor[t].pc \notin {"load", "store"}) =>
            state = "Detached"
  /\ trust # "stale" /\ ~Telling /\ Silent(events) /\ sink =>
       \A t \in Threads : FitOf(actor[t].pc, actor[t].target, actor[t].then, state, link)

Inv == TypeOK /\ NativeInv /\ CallInv /\ EventsInv /\ TruthInv

-----------------------------------------------------------------------------
(* What a step makes of the one thread it is a step of.                    *)
Becomes(a, p, s, n) ==
  /\ actor' \in [Actors -> ActorType]
  /\ actor'[a].pc = p /\ actor'[a].target = s /\ actor'[a].then = n
  /\ \A b \in Actors \ {a} : actor'[b] = actor[b]

LEMMA Goes ==
  ASSUME TypeOK, NEW a \in Actors, NEW p \in Pcs, Goto(a, p)
  PROVE  IF p = "idle" THEN Becomes(a, "idle", "Detached", "idle")
                       ELSE Becomes(a, p, actor[a].target, actor[a].then)
<1>1. Idle \in ActorType
  BY DEF Idle, ActorType, Pcs, OutsidePcs, States
<1>2. CASE p = "idle"
  BY <1>1, <1>2 DEF Goto, Becomes, TypeOK, Idle
<1>3. CASE p # "idle"
  <2>1. [actor[a] EXCEPT !.pc = p] \in ActorType
    BY DEF TypeOK, ActorType
  <2>2. actor' = [actor EXCEPT ![a] = [actor[a] EXCEPT !.pc = p]]
    BY <1>3 DEF Goto
  <2> QED
    BY <1>3, <2>1, <2>2 DEF Becomes, TypeOK, ActorType
<1> QED
  BY <1>2, <1>3

LEMMA Sets ==
  ASSUME TypeOK, NEW a \in Actors, NEW s \in States, NEW n \in OutsidePcs, SetState(a, s, n)
  PROVE  Becomes(a, "load", s, n)
<1>1. [actor[a] EXCEPT !.pc = "load", !.target = s, !.then = n] \in ActorType
  BY DEF TypeOK, ActorType, Pcs
<1>2. actor' = [actor EXCEPT ![a] = [actor[a] EXCEPT !.pc = "load", !.target = s, !.then = n]]
  BY DEF SetState
<1> QED
  BY <1>1, <1>2 DEF Becomes, TypeOK, ActorType

-----------------------------------------------------------------------------
(* What an event at either end makes of the events to be told.             *)
LEMMA AppendedEvent ==
  ASSUME NEW q \in Seq(Events), NEW e \in Events
  PROVE  /\ Append(q, e) \in Seq(Events) /\ Len(Append(q, e)) = Len(q) + 1
         /\ Silent(Append(q, e)) <=> Silent(q) /\ e = "message"
         /\ \A l \in Links : (IF e = "message" THEN EndsWell(q, l) ELSE Agrees(e, l)) =>
                               EndsWell(Append(q, e), l)
<1> DEFINE r == Append(q, e)
<1>1. /\ r \in Seq(Events) /\ Len(r) = Len(q) + 1 /\ r[Len(q) + 1] = e
      /\ \A i \in 1..Len(q) : r[i] = q[i]
      /\ DOMAIN q = 1..Len(q) /\ DOMAIN r = 1..(Len(q) + 1) /\ Len(q) \in Nat
  BY AppendProperties
<1> HIDE DEF r
<1>2. Silent(r) <=> Silent(q) /\ e = "message"
  BY <1>1 DEF Silent
<1>3. ASSUME NEW l \in Links, IF e = "message" THEN EndsWell(q, l) ELSE Agrees(e, l)
      PROVE EndsWell(r, l)
  <2> SUFFICES ASSUME NEW i \in 1..(Len(q) + 1), r[i] # "message",
                      \A j \in 1..(Len(q) + 1) : j > i => r[j] = "message"
               PROVE  Agrees(r[i], l)
    BY <1>1 DEF EndsWell
  <2>1. CASE i = Len(q) + 1
    BY <1>1, <1>3, <2>1
  <2>2. CASE i # Len(q) + 1
    <3>1. i \in 1..Len(q) /\ e = "message"
      BY <1>1, <2>2
    <3>2. q[i] # "message" /\ \A j \in 1..Len(q) : j > i => q[j] = "message"
      BY <1>1, <3>1
    <3> QED
      BY <1>1, <1>3, <3>1, <3>2 DEF EndsWell
  <2> QED
    BY <2>1, <2>2
<1> QED
  BY <1>1, <1>2, <1>3 DEF r

LEMMA DeliveredEvent ==
  ASSUME NEW q \in Seq(Events), q # <<>>, NEW l \in Links, EndsWell(q, l)
  PROVE  /\ Head(q) \in Events /\ Tail(q) \in Seq(Events) /\ Len(Tail(q)) = Len(q) - 1
         /\ EndsWell(Tail(q), l)
         /\ Silent(Tail(q)) =>
              IF Head(q) = "message" THEN Silent(q) ELSE Agrees(Head(q), l)
<1> DEFINE r == Tail(q)
<1>1. /\ Head(q) = q[1] /\ Head(q) \in Events /\ r \in Seq(Events) /\ Len(r) = Len(q) - 1
      /\ \A i \in 1..(Len(q) - 1) : r[i] = q[i + 1]
      /\ DOMAIN q = 1..Len(q) /\ DOMAIN r = 1..(Len(q) - 1) /\ Len(q) \in Nat \ {0}
  BY HeadTailProperties, EmptySeq
<1> HIDE DEF r
<1>2. ASSUME NEW i \in 2..Len(q)
      PROVE i - 1 \in 1..(Len(q) - 1) /\ q[i] = r[i - 1]
  <2>1. i - 1 \in 1..(Len(q) - 1) /\ (i - 1) + 1 = i
    BY <1>1
  <2> QED
    BY <1>1, <2>1
<1>3. EndsWell(r, l)
  <2> SUFFICES ASSUME NEW i \in 1..(Len(q) - 1), r[i] # "message",
                      \A j \in 1..(Len(q) - 1) : j > i => r[j] = "message"
               PROVE  Agrees(r[i], l)
    BY <1>1 DEF EndsWell
  <2>1. i + 1 \in 1..Len(q) /\ q[i + 1] = r[i]
    BY <1>1
  <2>2. ASSUME NEW j \in 1..Len(q), j > i + 1 PROVE q[j] = "message"
    BY <1>1, <1>2, <2>2
  <2> QED
    BY <1>1, <2>1, <2>2 DEF EndsWell
<1>4. ASSUME Silent(r) PROVE \A i \in 2..Len(q) : q[i] = "message"
  BY <1>1, <1>2, <1>4 DEF Silent
<1>5. ASSUME Silent(r), Head(q) = "message" PROVE Silent(q)
  BY <1>1, <1>4, <1>5 DEF Silent
<1>6. ASSUME Silent(r), Head(q) # "message" PROVE Agrees(Head(q), l)
  BY <1>1, <1>4, <1>6 DEF EndsWell
<1> QED
  BY <1>1, <1>3, <1>5, <1>6 DEF r

-----------------------------------------------------------------------------
LEMMA TypeInit == Init => TypeOK
<1> SUFFICES ASSUME Init PROVE TypeOK
  OBVIOUS
<1>1. Idle \in ActorType
  BY DEF Idle, ActorType, Pcs, OutsidePcs, States
<1>2. actor \in [Actors -> ActorType] /\ events \in Seq(Events) /\ Len(events) <= MaxEvents
  BY <1>1, ClientAssumption DEF Init
<1> QED
  BY <1>2 DEF Init, TypeOK, States, Links

(* What each step makes of its thread.                                     *)
LEMMA SetStateSteps ==
  ASSUME TypeOK, NEW a \in Actors
  PROVE  /\ Load(a) =>
              IF state # actor[a].target
                THEN Becomes(a, "store", actor[a].target, actor[a].then)
              ELSE IF actor[a].then = "idle" THEN Becomes(a, "idle", "Detached", "idle")
              ELSE Becomes(a, actor[a].then, actor[a].target, actor[a].then)
         /\ Store(a) => Becomes(a, "notify", actor[a].target, actor[a].then)
         /\ Notify(a) => IF actor[a].then = "idle" THEN Becomes(a, "idle", "Detached", "idle")
                         ELSE Becomes(a, actor[a].then, actor[a].target, actor[a].then)
<1>1. actor[a].then \in Pcs /\ "store" \in Pcs /\ "notify" \in Pcs
  BY DEF TypeOK, ActorType, Pcs
<1> QED
  BY <1>1, Goes DEF Load, Store, Notify

LEMMA CallSteps ==
  ASSUME TypeOK, NEW t \in Threads
  PROVE  /\ Attach(t) => Becomes(t, "attachSink", actor[t].target, actor[t].then)
         /\ Detach(t) => Becomes(t, "detachSink", actor[t].target, actor[t].then)
         /\ Disconnect(t) => IF IsConnected
                               THEN Becomes(t, "load", "Disconnecting", "platformDisconnect")
                               ELSE Becomes(t, "load", "Disconnected", "platformStop")
         /\ \A c \in Configurations : Connect(t, c) =>
              /\ Becomes(t, "load", "Connecting", "platformConnect")
              /\ actor'[t].configuration = c
<1>1. t \in Actors /\ "attachSink" \in Pcs /\ "detachSink" \in Pcs
  BY DEF Actors, Pcs
<1>2. /\ {"Disconnecting", "Disconnected"} \subseteq States
      /\ {"platformDisconnect", "platformStop"} \subseteq OutsidePcs
  BY DEF States, OutsidePcs
<1>3. ASSUME NEW c \in Configurations, Connect(t, c)
      PROVE  /\ Becomes(t, "load", "Connecting", "platformConnect")
             /\ actor'[t].configuration = c
  <2> DEFINE r == [pc |-> "load", target |-> "Connecting",
                   then |-> "platformConnect", configuration |-> c]
  <2>1. r \in ActorType
    BY DEF ActorType, Pcs, States, OutsidePcs
  <2>2. actor' = [actor EXCEPT ![t] = r]
    BY <1>3 DEF Connect
  <2> QED
    BY <1>1, <2>1, <2>2 DEF Becomes, TypeOK
<1>4. Attach(t) => Becomes(t, "attachSink", actor[t].target, actor[t].then)
  BY <1>1, Goes DEF Attach
<1>5. Detach(t) => Becomes(t, "detachSink", actor[t].target, actor[t].then)
  BY <1>1, Goes DEF Detach
<1>6. Disconnect(t) => IF IsConnected
                         THEN Becomes(t, "load", "Disconnecting", "platformDisconnect")
                         ELSE Becomes(t, "load", "Disconnected", "platformStop")
  BY <1>1, <1>2, Sets DEF Disconnect
<1> QED
  BY <1>3, <1>4, <1>5, <1>6

LEMMA ContinueSteps ==
  ASSUME TypeOK, NEW t \in Threads
  PROVE  /\ AttachSink(t) => Becomes(t, "attachRead", actor[t].target, actor[t].then)
         /\ AttachRead(t) =>
              Becomes(t, "store", IF IsConnected THEN "Connected" ELSE "Attached", actor[t].then)
         /\ DetachSink(t) => Becomes(t, "detachClear", actor[t].target, actor[t].then)
         /\ DetachClear(t) => Becomes(t, "load", "Detached", "idle")
         /\ PlatformStop(t) => Becomes(t, "idle", "Detached", "idle")
<1>1. t \in Actors /\ {"attachRead", "detachClear", "idle"} \subseteq Pcs
  BY DEF Actors, Pcs, OutsidePcs
<1>2. "Detached" \in States /\ "idle" \in OutsidePcs
  BY DEF States, OutsidePcs
<1>3. ASSUME AttachRead(t)
      PROVE  Becomes(t, "store", IF IsConnected THEN "Connected" ELSE "Attached", actor[t].then)
  <2> DEFINE r == [actor[t] EXCEPT !.pc = "store",
                                   !.target = IF IsConnected THEN "Connected" ELSE "Attached"]
  <2>1. r \in ActorType
    BY <1>1 DEF TypeOK, ActorType, Pcs, States
  <2>2. actor' = [actor EXCEPT ![t] = r]
    BY <1>3 DEF AttachRead
  <2>3. /\ r.pc = "store" /\ r.then = actor[t].then
        /\ r.target = IF IsConnected THEN "Connected" ELSE "Attached"
    BY <1>1 DEF TypeOK, ActorType
  <2> HIDE DEF r
  <2> QED
    BY <1>1, <2>1, <2>2, <2>3 DEF Becomes, TypeOK
<1>4. AttachSink(t) => Becomes(t, "attachRead", actor[t].target, actor[t].then)
  BY <1>1, Goes DEF AttachSink
<1>5. DetachSink(t) => Becomes(t, "detachClear", actor[t].target, actor[t].then)
  BY <1>1, Goes DEF DetachSink
<1>6. DetachClear(t) => Becomes(t, "load", "Detached", "idle")
  BY <1>1, <1>2, Sets DEF DetachClear
<1>7. PlatformStop(t) => Becomes(t, "idle", "Detached", "idle")
  BY <1>1, Goes DEF PlatformStop
<1> QED
  BY <1>3, <1>4, <1>5, <1>6, <1>7

(* A call of the platform that may fail.                                   *)
LEMMA FallibleSteps ==
  ASSUME TypeOK, NEW t \in Threads
  PROVE  /\ PlatformConnect(t) =>
              \/ /\ link' = IF link \in {"down", "lost"} THEN "opening" ELSE link
                 /\ Becomes(t, "idle", "Detached", "idle")
              \/ UNCHANGED link /\ Becomes(t, "load", "Attached", "idle")
         /\ PlatformDisconnect(t) =>
              \/ Close /\ Becomes(t, "idle", "Detached", "idle")
              \/ /\ UNCHANGED link
                 /\ IF IsConnected THEN Becomes(t, "load", "Connected", "idle")
                                   ELSE Becomes(t, "idle", "Detached", "idle")
<1>1. t \in Actors /\ "idle" \in Pcs
  BY DEF Actors, Pcs, OutsidePcs
<1>2. {"Attached", "Connected"} \subseteq States /\ "idle" \in OutsidePcs
  BY DEF States, OutsidePcs
<1> QED
  BY <1>1, <1>2, Goes, Sets
  DEF PlatformConnect, ConnectFails, PlatformDisconnect, DisconnectFails

(* A delivered event makes the event thread set the state or tell the      *)
(* observers; without a sink it is lost.                                   *)
LEMMA DeliverSteps ==
  ASSUME TypeOK, Deliver
  PROVE  \/ ~sink /\ UNCHANGED actor
         \/ /\ sink /\ Head(events) = "connected"
            /\ Becomes(Native, "load", "Connected", "idle")
         \/ /\ sink /\ Head(events) = "disconnected"
            /\ Becomes(Native, "load", "Disconnected", "idle")
         \/ /\ sink /\ Head(events) = "message"
            /\ Becomes(Native, "notify", actor[Native].target, actor[Native].then)
<1>1. Native \in Actors /\ "notify" \in Pcs /\ "idle" \in OutsidePcs
  BY DEF Actors, Pcs, OutsidePcs
<1>2. {"Connected", "Disconnected"} \subseteq States
  BY DEF States
<1>3. events \in Seq(Events) /\ events # <<>>
  BY DEF TypeOK, Deliver
<1>4. Head(events) \in Events
  BY <1>3, HeadTailProperties
<1> QED
  BY <1>1, <1>2, <1>4, Goes, Sets DEF Deliver, Callback, Events

(* Every step is typed.                                                    *)
LEMMA TypeNext == TypeOK /\ [Next]_vars => TypeOK'
<1> SUFFICES ASSUME TypeOK, [Next]_vars PROVE TypeOK'
  OBVIOUS
<1>1. CASE UNCHANGED vars
  BY <1>1 DEF vars, platformVars, TypeOK
<1>2. ASSUME Observe PROVE trust' \in {"sound", "stale", "healing"}
  BY <1>2 DEF Observe, TypeOK
<1>3. ASSUME NEW a \in Actors, Observe, SetStateStep(a) PROVE TypeOK'
  <2>1. actor[a].target \in States
    BY DEF TypeOK, ActorType
  <2>2. actor' \in [Actors -> ActorType]
    BY <1>3, SetStateSteps DEF SetStateStep, Becomes
  <2> QED
    BY <1>2, <1>3, <2>1, <2>2 DEF SetStateStep, Load, Store, Notify, TypeOK, platformVars
<1>4. ASSUME NEW t \in Threads, Observe, Call(t) PROVE TypeOK'
  <2>1. actor' \in [Actors -> ActorType]
    BY <1>4, CallSteps DEF Call, Becomes
  <2> QED
    BY <1>2, <1>4, <2>1 DEF Call, Attach, Detach, Disconnect, Connect, TypeOK, platformVars
<1>5. ASSUME NEW t \in Threads, Observe, Continue(t) PROVE TypeOK'
  <2>1. CASE SetStateStep(t)
    BY <1>3, <1>5, <2>1 DEF Actors
  <2>2. CASE AttachSink(t) \/ AttachRead(t) \/ DetachSink(t) \/ DetachClear(t)
    <3>1. actor' \in [Actors -> ActorType]
      BY <2>2, ContinueSteps DEF Becomes
    <3> QED
      BY <1>2, <1>5, <2>2, <3>1
      DEF AttachSink, AttachRead, DetachSink, DetachClear, TypeOK, platformVars
  <2>3. CASE PlatformConnect(t) \/ PlatformStop(t) \/ PlatformDisconnect(t)
    <3>1. actor' \in [Actors -> ActorType]
      BY <2>3, ContinueSteps, FallibleSteps DEF Becomes
    <3>2. link' \in Links
      BY <2>3, FallibleSteps DEF PlatformStop, Close, TypeOK, Links
    <3> QED
      BY <1>2, <1>5, <2>3, <3>1, <3>2
      DEF PlatformConnect, PlatformStop, PlatformDisconnect, TypeOK
  <2> QED
    BY <1>5, <2>1, <2>2, <2>3 DEF Continue
<1>6. ASSUME Observe, Deliver PROVE TypeOK'
  <2>1. actor' \in [Actors -> ActorType]
    BY <1>6, DeliverSteps DEF Becomes, TypeOK
  <2>2. events \in Seq(Events) /\ events # <<>> /\ Len(events) \in Nat /\ MaxEvents \in Nat
    BY <1>6, ClientAssumption DEF TypeOK, Deliver
  <2>3. Tail(events) \in Seq(Events) /\ Len(Tail(events)) <= MaxEvents
    BY <2>2, HeadTailProperties DEF TypeOK
  <2> QED
    BY <1>2, <1>6, <2>1, <2>3 DEF Deliver, TypeOK
<1>7. ASSUME NEW from \in Links, NEW to \in Links, NEW event \in Events, Observe,
             Emit(from, to, event)
      PROVE  TypeOK'
  <2>1. Append(events, event) \in Seq(Events) /\ Len(Append(events, event)) = Len(events) + 1
    BY AppendProperties DEF TypeOK
  <2>2. Len(events) \in Nat /\ MaxEvents \in Nat
    BY ClientAssumption DEF TypeOK
  <2> QED
    BY <1>2, <1>7, <2>1, <2>2 DEF Emit, TypeOK
<1>8. CASE Observe /\ (Settle \/ Lose \/ ReceiveMessage)
  BY <1>7, <1>8 DEF Settle, Lose, ReceiveMessage, Links, Events
<1>9. CASE Observe /\ Reconnect
  BY <1>2, <1>9 DEF Reconnect, TypeOK, Links
<1> QED
  BY <1>1, <1>3, <1>4, <1>5, <1>6, <1>8, <1>9 DEF Next, Step, Event, Actors

(* For any number of application threads.                                  *)
THEOREM TypeCorrect == Spec => []TypeOK
<1> QED
  BY TypeInit, TypeNext, PTL DEF Spec

-----------------------------------------------------------------------------
(* Of the application's steps: what the lemma asks of each is what differs *)
(* from one to the other.  That the state is sound is not asked where it   *)
(* was stale before, since only an event can heal it.                      *)
Sound == trust # "stale" /\ trust' # "stale" /\ ~Overlap /\ ~Overlap'

LEMMA ThreadStep ==
  ASSUME Alone, Inv, TypeOK', Observe, NEW t \in Threads, NEW p, NEW s, NEW n,
         Becomes(t, p, s, n), UNCHANGED <<draining, events>>,
         \A e \in Events : Agrees(e, link) => Agrees(e, link'),
         CallOf(p, s, n, attached', sink'), sink' => attached',
         draining \/ Sound =>
           /\ ~sink' => At(Native, "idle")
           /\ ~attached' /\ p \notin {"load", "store"} => state' = "Detached",
         Sound /\ ~Telling /\ Silent(events) /\ sink' => FitOf(p, s, n, state', link')
  PROVE  Inv'
<1>1. /\ Native \in Actors \ {t} /\ actor'[Native] = actor[Native]
      /\ actor'[t].pc = p /\ actor'[t].target = s /\ actor'[t].then = n
      /\ \A u \in Threads : u = t
  BY ClientAssumption DEF Becomes, Actors, Alone
<1>2. NativeInv'
  BY <1>1 DEF Inv, NativeInv
<1>3. CallInv'
  BY <1>1 DEF CallInv
<1>4. EventsInv'
  <2>1. EndsWell(events, link)'
    <3>1. \A i \in DOMAIN events : events[i] \in Events
      BY DEF Inv, TypeOK
    <3> QED
      BY <3>1 DEF Inv, EventsInv, EndsWell
  <2>2. (Telling /\ Silent(events))' => Telling /\ Silent(events)
    BY <1>1 DEF Telling
  <2> QED
    BY <1>1, <2>1, <2>2 DEF Inv, EventsInv, Events
<1>5. trust' # "stale" => Sound
  BY <1>1 DEF Observe, At, Inv, TruthInv, Sound
<1>6. TruthInv'
  <2>1. (trust # "stale" => ~Overlap)'
    BY <1>5 DEF Sound
  <2>2. draining' \/ trust' # "stale" =>
          /\ ~sink' => At(Native, "idle")'
          /\ ~attached' /\ (\A u \in Threads : actor'[u].pc \notin {"load", "store"}) =>
               state' = "Detached"
    BY <1>1, <1>5 DEF At
  <2>3. trust' # "stale" /\ ~Telling' /\ Silent(events)' /\ sink' =>
          \A u \in Threads : FitOf(actor[u].pc, actor[u].target, actor[u].then, state, link)'
    BY <1>1, <1>5 DEF Telling, Silent, FitOf
  <2> QED
    BY <2>1, <2>2, <2>3 DEF TruthInv
<1> QED
  BY <1>2, <1>3, <1>4, <1>6 DEF Inv

(* What the invariant says to the thread that steps.                       *)
LEMMA ThreadFacts ==
  ASSUME Alone, Inv, NEW t \in Threads
  PROVE  /\ CallOf(actor[t].pc, actor[t].target, actor[t].then, attached, sink)
         /\ sink => attached
         /\ Sound /\ actor[t].pc \notin OutsidePcs => At(Native, "idle")
         /\ draining \/ Sound =>
              /\ ~sink => At(Native, "idle")
              /\ ~attached /\ actor[t].pc \notin {"load", "store"} => state = "Detached"
         /\ Sound /\ ~Telling /\ Silent(events) /\ sink =>
              FitOf(actor[t].pc, actor[t].target, actor[t].then, state, link)
         /\ actor[t].target \in States /\ actor[t].then \in OutsidePcs
<1>1. Threads = {t} /\ t \in Actors
  BY DEF Alone, Actors
<1> QED
  BY <1>1 DEF Inv, CallInv, TruthInv, Sound, Overlap, TypeOK, ActorType

LEMMA KeptBySetState ==
  ASSUME Alone, Inv, TypeOK', Observe, NEW t \in Threads, SetStateStep(t)
  PROVE  Inv'
<1> DEFINE s == actor[t].target
           n == actor[t].then
<1>1. t \in Actors /\ TypeOK
  BY DEF Actors, Inv
<1>2. UNCHANGED <<attached, link, sink, draining, events>>
  BY DEF SetStateStep, Load, Store, Notify, platformVars
<1>3. CASE Load(t)
  <2>1. actor[t].pc = "load" /\ state' = state
    BY <1>3 DEF Load, At
  <2>2. CASE state # s
    <3>1. Becomes(t, "store", s, n)
      BY <1>1, <1>3, <2>2, SetStateSteps
    <3>2. CallOf("store", s, n, attached, sink)
      BY <2>1, ThreadFacts DEF CallOf, SetStatePcs, OutsidePcs
    <3>3. Sound /\ ~Telling /\ Silent(events) /\ sink => FitOf("store", s, n, state, link)
      BY <2>1, ThreadFacts DEF FitOf, SetStatePcs
    <3> QED
      BY <1>2, <2>1, <3>1, <3>2, <3>3, ThreadFacts, ThreadStep
  <2>3. CASE state = s /\ n = "idle"
    <3>1. Becomes(t, "idle", "Detached", "idle")
      BY <1>1, <1>3, <2>3, SetStateSteps
    <3>2. CallOf("idle", "Detached", "idle", attached, sink)
      BY <2>1, <2>3, ThreadFacts DEF CallOf, SetStatePcs, OutsidePcs
    <3>3. Sound /\ ~Telling /\ Silent(events) /\ sink =>
            FitOf("idle", "Detached", "idle", state, link)
      BY <2>1, <2>3, ThreadFacts DEF FitOf, SetStatePcs
    <3>4. ~attached => state = "Detached"
      BY <2>1, <2>3, ThreadFacts DEF CallOf, SetStatePcs
    <3> QED
      BY <1>2, <2>1, <3>1, <3>2, <3>3, <3>4, ThreadFacts, ThreadStep
  <2>4. CASE state = s /\ n # "idle"
    <3>1. Becomes(t, n, s, n)
      BY <1>1, <1>3, <2>4, SetStateSteps
    <3>2. CallOf(n, s, n, attached, sink) /\ attached
      BY <2>1, <2>4, ThreadFacts DEF CallOf, SetStatePcs, OutsidePcs
    <3>3. Sound /\ ~Telling /\ Silent(events) /\ sink => FitOf(n, s, n, state, link)
      BY <2>1, <2>4, ThreadFacts DEF FitOf, SetStatePcs, OutsidePcs
    <3> QED
      BY <1>2, <2>1, <3>1, <3>2, <3>3, ThreadFacts, ThreadStep
  <2> QED
    BY <2>2, <2>3, <2>4
<1>4. CASE Store(t)
  <2>1. actor[t].pc = "store" /\ state' = s
    BY <1>4 DEF Store, At
  <2>2. Becomes(t, "notify", s, n)
    BY <1>1, <1>4, SetStateSteps
  <2>3. CallOf("notify", s, n, attached, sink) /\ (~attached => s = "Detached")
    BY <2>1, ThreadFacts DEF CallOf, SetStatePcs, OutsidePcs
  <2>4. Sound /\ ~Telling /\ Silent(events) /\ sink => FitOf("notify", s, n, s, link)
    BY <2>1, ThreadFacts DEF FitOf, SetStatePcs
  <2> QED
    BY <1>2, <2>1, <2>2, <2>3, <2>4, ThreadFacts, ThreadStep
<1>5. CASE Notify(t)
  <2>1. actor[t].pc = "notify" /\ state' = state
    BY <1>5 DEF Notify, At
  <2>2. CASE n = "idle"
    <3>1. Becomes(t, "idle", "Detached", "idle")
      BY <1>1, <1>5, <2>2, SetStateSteps
    <3>2. CallOf("idle", "Detached", "idle", attached, sink)
      BY <2>1, <2>2, ThreadFacts DEF CallOf, SetStatePcs, OutsidePcs
    <3>3. Sound /\ ~Telling /\ Silent(events) /\ sink =>
            FitOf("idle", "Detached", "idle", state, link)
      BY <2>1, <2>2, ThreadFacts DEF FitOf, SetStatePcs
    <3> QED
      BY <1>2, <2>1, <3>1, <3>2, <3>3, ThreadFacts, ThreadStep
  <2>3. CASE n # "idle"
    <3>1. Becomes(t, n, s, n)
      BY <1>1, <1>5, <2>3, SetStateSteps
    <3>2. CallOf(n, s, n, attached, sink) /\ attached
      BY <2>1, <2>3, ThreadFacts DEF CallOf, SetStatePcs, OutsidePcs
    <3>3. Sound /\ ~Telling /\ Silent(events) /\ sink => FitOf(n, s, n, state, link)
      BY <2>1, <2>3, ThreadFacts DEF FitOf, SetStatePcs, OutsidePcs
    <3> QED
      BY <1>2, <2>1, <3>1, <3>2, <3>3, ThreadFacts, ThreadStep
  <2> QED
    BY <2>2, <2>3
<1> QED
  BY <1>3, <1>4, <1>5 DEF SetStateStep

LEMMA KeptByCall ==
  ASSUME Alone, Inv, TypeOK', Observe, NEW t \in Threads, Call(t)
  PROVE  Inv'
<1> DEFINE s == actor[t].target
           n == actor[t].then
<1>1. TypeOK /\ actor[t].pc = "idle" /\ UNCHANGED <<state, link, sink, draining, events>>
  BY DEF Inv, Call, Attach, Detach, Disconnect, Connect, At, platformVars
<1>2. n = "idle" /\ (sink <=> attached)
  BY <1>1, ThreadFacts DEF CallOf
<1>3. CASE Attach(t)
  <2>1. attached' = TRUE /\ ~attached /\ Becomes(t, "attachSink", s, n)
    BY <1>1, <1>3, CallSteps DEF Attach
  <2>2. CallOf("attachSink", s, n, attached', sink)
    BY <1>2, <2>1 DEF CallOf, SetStatePcs, OutsidePcs
  <2>3. FitOf("attachSink", s, n, state, link)
    BY DEF FitOf, SetStatePcs, OutsidePcs
  <2> QED
    BY <1>1, <2>1, <2>2, <2>3, ThreadFacts, ThreadStep
<1>4. CASE Detach(t)
  <2>1. UNCHANGED attached /\ attached /\ Becomes(t, "detachSink", s, n)
    BY <1>1, <1>4, CallSteps DEF Detach
  <2>2. CallOf("detachSink", s, n, attached, sink)
    BY <1>2, <2>1 DEF CallOf, SetStatePcs, OutsidePcs
  <2>3. FitOf("detachSink", s, n, state, link)
    BY DEF FitOf, SetStatePcs, OutsidePcs
  <2> QED
    BY <1>1, <2>1, <2>2, <2>3, ThreadFacts, ThreadStep
<1>5. CASE Disconnect(t) /\ IsConnected
  <2>1. /\ UNCHANGED attached /\ attached /\ link = "up"
        /\ Becomes(t, "load", "Disconnecting", "platformDisconnect")
    BY <1>1, <1>5, CallSteps DEF Disconnect, IsConnected
  <2>2. CallOf("load", "Disconnecting", "platformDisconnect", attached, sink)
    BY <1>2, <2>1 DEF CallOf, SetStatePcs, OutsidePcs
  <2>3. FitOf("load", "Disconnecting", "platformDisconnect", state, link)
    BY <2>1 DEF FitOf, WillFit, SetStatePcs
  <2> QED
    BY <1>1, <2>1, <2>2, <2>3, ThreadFacts, ThreadStep
<1>6. CASE Disconnect(t) /\ ~IsConnected
  <2>1. /\ UNCHANGED attached /\ attached /\ link # "up"
        /\ Becomes(t, "load", "Disconnected", "platformStop")
    BY <1>1, <1>6, CallSteps DEF Disconnect, IsConnected
  <2>2. CallOf("load", "Disconnected", "platformStop", attached, sink)
    BY <1>2, <2>1 DEF CallOf, SetStatePcs, OutsidePcs
  <2>3. FitOf("load", "Disconnected", "platformStop", state, link)
    BY <2>1 DEF FitOf, WillFit, Fits, SetStatePcs
  <2> QED
    BY <1>1, <2>1, <2>2, <2>3, ThreadFacts, ThreadStep
<1>7. ASSUME NEW c \in Configurations, Connect(t, c) PROVE Inv'
  <2>1. /\ UNCHANGED attached /\ attached
        /\ Becomes(t, "load", "Connecting", "platformConnect")
    BY <1>1, <1>7, CallSteps DEF Connect
  <2>2. CallOf("load", "Connecting", "platformConnect", attached, sink)
    BY <1>2, <2>1 DEF CallOf, SetStatePcs, OutsidePcs
  <2>3. FitOf("load", "Connecting", "platformConnect", state, link)
    BY DEF FitOf, WillFit, SetStatePcs
  <2> QED
    BY <1>1, <2>1, <2>2, <2>3, ThreadFacts, ThreadStep
<1> QED
  BY <1>3, <1>4, <1>5, <1>6, <1>7 DEF Call

LEMMA KeptByAttachAndDetach ==
  ASSUME Alone, Inv, TypeOK', Observe, NEW t \in Threads,
         AttachSink(t) \/ AttachRead(t) \/ DetachSink(t) \/ DetachClear(t)
  PROVE  Inv'
<1> DEFINE s == actor[t].target
           n == actor[t].then
<1>1. TypeOK /\ UNCHANGED <<state, link, draining, events>>
  BY DEF Inv, AttachSink, AttachRead, DetachSink, DetachClear, platformVars
<1>2. CASE AttachSink(t)
  <2>1. /\ UNCHANGED attached /\ sink' = TRUE /\ actor[t].pc = "attachSink"
        /\ Becomes(t, "attachRead", s, n)
    BY <1>1, <1>2, ContinueSteps DEF AttachSink, At
  <2>2. attached /\ CallOf("attachRead", s, n, attached, TRUE)
    BY <2>1, ThreadFacts DEF CallOf, SetStatePcs, OutsidePcs
  <2>3. FitOf("attachRead", s, n, state, link)
    BY DEF FitOf, SetStatePcs, OutsidePcs
  <2> QED
    BY <1>1, <2>1, <2>2, <2>3, ThreadFacts, ThreadStep
<1>3. CASE AttachRead(t)
  <2> DEFINE r == IF link = "up" THEN "Connected" ELSE "Attached"
  <2>1. /\ UNCHANGED <<attached, sink>> /\ actor[t].pc = "attachRead"
        /\ Becomes(t, "store", r, n)
    BY <1>1, <1>3, ContinueSteps DEF AttachRead, At, IsConnected, platformVars
  <2>2. sink /\ attached /\ CallOf("store", r, n, attached, sink)
    BY <2>1, ThreadFacts DEF CallOf, SetStatePcs, OutsidePcs
  <2>3. n = "idle"
    BY <2>1, ThreadFacts DEF CallOf
  <2>4. FitOf("store", r, n, state, link)
    BY <2>3 DEF FitOf, WillFit, Fits, SetStatePcs
  <2> HIDE DEF r
  <2> QED
    BY <1>1, <2>1, <2>2, <2>4, ThreadFacts, ThreadStep
<1>4. CASE DetachSink(t)
  <2>1. /\ UNCHANGED attached /\ sink' = FALSE /\ actor[t].pc = "detachSink"
        /\ draining => At(Native, "idle")
        /\ Becomes(t, "detachClear", s, n)
    BY <1>1, <1>4, ContinueSteps DEF DetachSink, At
  <2>2. attached /\ CallOf("detachClear", s, n, attached, FALSE)
    BY <2>1, ThreadFacts DEF CallOf, SetStatePcs, OutsidePcs
  <2>3. draining \/ Sound => At(Native, "idle")
    BY <2>1, ThreadFacts DEF OutsidePcs
  <2> QED
    BY <1>1, <2>1, <2>2, <2>3, ThreadFacts, ThreadStep
<1>5. CASE DetachClear(t)
  <2>1. /\ attached' = FALSE /\ UNCHANGED sink /\ actor[t].pc = "detachClear"
        /\ Becomes(t, "load", "Detached", "idle")
    BY <1>1, <1>5, ContinueSteps DEF DetachClear, At, platformVars
  <2>2. ~sink /\ CallOf("load", "Detached", "idle", FALSE, sink)
    BY <2>1, ThreadFacts DEF CallOf, SetStatePcs, OutsidePcs
  <2> QED
    BY <1>1, <2>1, <2>2, ThreadFacts, ThreadStep
<1> QED
  BY <1>2, <1>3, <1>4, <1>5

(* Asking the platform to connect or to close makes no undelivered event   *)
(* untrue.                                                                 *)
LEMMA AskingAgrees ==
  ASSUME NEW e \in Events, Agrees(e, link),
         Close \/ UNCHANGED link \/ (link \in {"down", "lost"} /\ link' = "opening")
  PROVE  Agrees(e, link')
BY DEF Agrees, Close

LEMMA KeptByPlatformCall ==
  ASSUME Alone, Inv, TypeOK', Observe, NEW t \in Threads,
         PlatformConnect(t) \/ PlatformStop(t) \/ PlatformDisconnect(t)
  PROVE  Inv'
<1> DEFINE s == actor[t].target
           n == actor[t].then
<1>1. TypeOK /\ UNCHANGED <<state, attached, sink, draining, events>>
  BY DEF Inv, PlatformConnect, PlatformStop, PlatformDisconnect
<1>2. actor[t].pc \in {"platformConnect", "platformStop", "platformDisconnect"}
  BY DEF PlatformConnect, PlatformStop, PlatformDisconnect, At
<1>3. sink /\ attached
  BY <1>2, ThreadFacts DEF CallOf, OutsidePcs
<1>4. CallOf("idle", "Detached", "idle", attached, sink)
  BY <1>3 DEF CallOf, SetStatePcs, OutsidePcs
<1>5. \A r \in {"Attached", "Connected"} : CallOf("load", r, "idle", attached, sink)
  BY <1>3 DEF CallOf, SetStatePcs, OutsidePcs
<1> DEFINE Clear == Sound /\ ~Telling /\ Silent(events) /\ sink
<1>6. CASE PlatformConnect(t)
  <2>1. actor[t].pc = "platformConnect"
    BY <1>6 DEF PlatformConnect, At
  <2>2. actor'[t].pc # "platformConnect"
    BY <1>1, <1>6, FallibleSteps DEF Becomes
  <2>3. Sound => link \in {"down", "lost"}
    BY <2>1, <2>2 DEF Sound, Observe, NeedlessConnect, At
  <2>4. Clear => WillFit(state, link, "platformConnect")
    BY <2>1, ThreadFacts DEF FitOf, SetStatePcs, OutsidePcs
  <2>5. CASE /\ link' = IF link \in {"down", "lost"} THEN "opening" ELSE link
             /\ Becomes(t, "idle", "Detached", "idle")
    <3>1. Clear => FitOf("idle", "Detached", "idle", state, link')
      BY <2>3, <2>4, <2>5 DEF FitOf, WillFit, Fits, SetStatePcs
    <3>2. \A e \in Events : Agrees(e, link) => Agrees(e, link')
      BY <2>5, AskingAgrees
    <3> QED
      BY <1>1, <1>3, <1>4, <2>5, <3>1, <3>2, ThreadStep
  <2>6. CASE UNCHANGED link /\ Becomes(t, "load", "Attached", "idle")
    <3>1. Clear => FitOf("load", "Attached", "idle", state, link)
      BY <2>3 DEF FitOf, WillFit, Fits, SetStatePcs
    <3> QED
      BY <1>1, <1>3, <1>5, <2>6, <3>1, ThreadStep
  <2> QED
    BY <1>1, <1>6, <2>5, <2>6, FallibleSteps
<1>7. CASE PlatformStop(t)
  <2>1. actor[t].pc = "platformStop" /\ Becomes(t, "idle", "Detached", "idle")
    BY <1>1, <1>7, ContinueSteps DEF PlatformStop, At
  <2>2. Clear => WillFit(state, link, "platformStop")
    BY <2>1, ThreadFacts DEF FitOf, SetStatePcs, OutsidePcs
  <2>3. Close \/ UNCHANGED link
    BY <1>7 DEF PlatformStop
  <2>4. Clear => FitOf("idle", "Detached", "idle", state, link')
    BY <2>2, <2>3 DEF FitOf, WillFit, Fits, SetStatePcs, Close
  <2>5. \A e \in Events : Agrees(e, link) => Agrees(e, link')
    BY <2>3, AskingAgrees
  <2> QED
    BY <1>1, <1>3, <1>4, <2>1, <2>4, <2>5, ThreadStep
<1>8. CASE PlatformDisconnect(t)
  <2>1. actor[t].pc = "platformDisconnect"
    BY <1>8 DEF PlatformDisconnect, At
  <2>2. Clear => WillFit(state, link, "platformDisconnect")
    BY <2>1, ThreadFacts DEF FitOf, SetStatePcs, OutsidePcs
  <2>3. CASE Close /\ Becomes(t, "idle", "Detached", "idle")
    <3>1. Clear => FitOf("idle", "Detached", "idle", state, link')
      BY <1>1, <2>2, <2>3 DEF FitOf, WillFit, Fits, SetStatePcs, Close, TypeOK, Links
    <3>2. \A e \in Events : Agrees(e, link) => Agrees(e, link')
      BY <2>3, AskingAgrees
    <3> QED
      BY <1>1, <1>3, <1>4, <2>3, <3>1, <3>2, ThreadStep
  <2>4. CASE UNCHANGED link /\ link = "up" /\ Becomes(t, "load", "Connected", "idle")
    <3>1. FitOf("load", "Connected", "idle", state, link)
      BY <2>4 DEF FitOf, WillFit, Fits, SetStatePcs
    <3> QED
      BY <1>1, <1>3, <1>5, <2>4, <3>1, ThreadStep
  <2>5. CASE UNCHANGED link /\ link # "up" /\ Becomes(t, "idle", "Detached", "idle")
    <3>1. Clear => FitOf("idle", "Detached", "idle", state, link)
      BY <2>2, <2>5 DEF FitOf, WillFit, Fits, SetStatePcs
    <3> QED
      BY <1>1, <1>3, <1>4, <2>5, <3>1, ThreadStep
  <2> QED
    BY <1>1, <1>8, <2>3, <2>4, <2>5, FallibleSteps DEF IsConnected
<1> QED
  BY <1>6, <1>7, <1>8

-----------------------------------------------------------------------------
(* Of the event thread's steps.                                            *)
LEMMA NativeStep ==
  ASSUME Alone, Inv, TypeOK', Observe, NEW p \in {"idle"} \cup SetStatePcs, NEW s,
         Becomes(Native, p, s, "idle"), UNCHANGED <<attached, link, sink, draining>>,
         p \in {"load", "store"} => s \in {"Connected", "Disconnected"},
         EndsWell(events', link),
         p \in {"load", "store"} /\ Silent(events') =>
           Agrees(IF s = "Connected" THEN "connected" ELSE "disconnected", link),
         draining \/ trust' # "stale" => sink \/ (p = "idle" /\ UNCHANGED state),
         trust' # "stale" /\ p \notin {"load", "store"} /\ Silent(events') /\ sink =>
           \A t \in Threads :
             FitOf(actor[t].pc, actor[t].target, actor[t].then, state', link)
  PROVE  Inv'
<1>1. /\ actor'[Native].pc = p /\ actor'[Native].target = s /\ actor'[Native].then = "idle"
      /\ \A t \in Threads : actor'[t] = actor[t]
  BY ClientAssumption DEF Becomes, Actors
<1>2. NativeInv'
  BY <1>1 DEF NativeInv
<1>3. CallInv'
  BY <1>1 DEF Inv, CallInv
<1>4. EventsInv'
  BY <1>1 DEF EventsInv, Telling
<1>5. TruthInv'
  <2>1. (trust # "stale" => ~Overlap)'
    BY DEF Observe
  <2>2. ~sink /\ trust' # "stale" => trust # "stale"
    BY <1>1 DEF Observe, At
  <2>3. draining' \/ trust' # "stale" =>
          /\ ~sink' => At(Native, "idle")'
          /\ ~attached' /\ (\A t \in Threads : actor'[t].pc \notin {"load", "store"}) =>
               state' = "Detached"
    BY <1>1, <2>2 DEF At, Inv, TruthInv, CallInv
  <2>4. trust' # "stale" /\ ~Telling' /\ Silent(events)' /\ sink' =>
          \A t \in Threads : FitOf(actor[t].pc, actor[t].target, actor[t].then, state, link)'
    BY <1>1 DEF Telling, Silent, FitOf
  <2> QED
    BY <2>1, <2>3, <2>4 DEF TruthInv
<1> QED
  BY <1>2, <1>3, <1>4, <1>5 DEF Inv

(* The state an event stands for fits the connection the event agrees with,*)
(* wherever outside a SetState the application is.                         *)
LEMMA EventFits ==
  ASSUME NEW s \in {"Connected", "Disconnected"}, NEW l \in Links, NEW p \in OutsidePcs, NEW r, NEW n,
         Agrees(IF s = "Connected" THEN "connected" ELSE "disconnected", l)
  PROVE  FitOf(p, r, n, s, l)
BY DEF Agrees, FitOf, WillFit, Fits, SetStatePcs, OutsidePcs, Links

LEMMA KeptByNative ==
  ASSUME Alone, Inv, TypeOK', Observe, SetStateStep(Native)
  PROVE  Inv'
<1> DEFINE s == actor[Native].target
<1>1. /\ TypeOK /\ Native \in Actors /\ actor[Native].then = "idle" /\ actor[Native].pc # "idle"
      /\ EndsWell(events, link) /\ link \in Links
  BY DEF Actors, Inv, NativeInv, EventsInv, TypeOK, SetStateStep, Load, Store, Notify, At
<1>2. UNCHANGED <<attached, link, sink, draining, events>>
  BY DEF SetStateStep, Load, Store, Notify, platformVars
<1>3. trust' # "stale" => trust # "stale"
  BY <1>1 DEF Observe, At
<1>4. draining \/ trust' # "stale" => sink
  BY <1>1, <1>3 DEF Inv, TruthInv, At
<1>5. ASSUME NEW p \in {"idle", "notify"}, actor[Native].pc \in {"load", "store"},
             state' = s, Silent(events), trust' # "stale", actor'[Native].pc = p,
             NEW t \in Threads
      PROVE  FitOf(actor[t].pc, actor[t].target, actor[t].then, state', link)
  <2>1. actor[t].pc \in OutsidePcs
    BY <1>1, <1>3, <1>5 DEF Inv, TruthInv, Overlap, At
  <2>2. /\ s \in {"Connected", "Disconnected"}
        /\ Agrees(IF s = "Connected" THEN "connected" ELSE "disconnected", link)
    BY <1>5 DEF Inv, NativeInv, EventsInv, Telling
  <2> QED
    BY <1>1, <1>5, <2>1, <2>2, EventFits
<1>6. CASE Load(Native) /\ state # s
  <2>1. /\ actor[Native].pc = "load" /\ UNCHANGED state
        /\ Becomes(Native, "store", s, "idle")
    BY <1>1, <1>6, SetStateSteps DEF Load, At
  <2>2. s \in {"Connected", "Disconnected"}
    BY <2>1 DEF Inv, NativeInv
  <2>3. Silent(events) => Agrees(IF s = "Connected" THEN "connected" ELSE "disconnected", link)
    BY <2>1 DEF Inv, EventsInv, Telling
  <2> QED
    BY <1>1, <1>2, <1>4, <2>1, <2>2, <2>3, NativeStep DEF SetStatePcs
<1>7. CASE Load(Native) /\ state = s
  <2>1. /\ actor[Native].pc = "load" /\ UNCHANGED state
        /\ Becomes(Native, "idle", "Detached", "idle")
    BY <1>1, <1>7, SetStateSteps DEF Load, At
  <2>2. actor'[Native].pc = "idle"
    BY <2>1 DEF Becomes
  <2>3. trust' # "stale" /\ Silent(events) =>
          \A t \in Threads :
            FitOf(actor[t].pc, actor[t].target, actor[t].then, state', link)
    BY <1>5, <1>7, <2>1, <2>2
  <2> QED
    BY <1>1, <1>2, <1>4, <2>1, <2>3, NativeStep DEF SetStatePcs
<1>8. CASE Store(Native)
  <2>1. /\ actor[Native].pc = "store" /\ state' = s
        /\ Becomes(Native, "notify", s, "idle")
    BY <1>1, <1>8, SetStateSteps DEF Store, At
  <2>2. actor'[Native].pc = "notify"
    BY <2>1 DEF Becomes
  <2>3. trust' # "stale" /\ Silent(events) =>
          \A t \in Threads :
            FitOf(actor[t].pc, actor[t].target, actor[t].then, state', link)
    BY <1>5, <2>1, <2>2
  <2> QED
    BY <1>1, <1>2, <1>4, <2>1, <2>3, NativeStep DEF SetStatePcs
<1>9. CASE Notify(Native)
  <2>1. /\ actor[Native].pc = "notify" /\ UNCHANGED state
        /\ Becomes(Native, "idle", "Detached", "idle")
    BY <1>1, <1>9, SetStateSteps DEF Notify, At
  <2>2. trust' # "stale" /\ Silent(events) /\ sink =>
          \A t \in Threads :
            FitOf(actor[t].pc, actor[t].target, actor[t].then, state, link)
    BY <1>3, <2>1 DEF Inv, TruthInv, Telling
  <2> QED
    BY <1>1, <1>2, <1>4, <2>1, <2>2, NativeStep DEF SetStatePcs
<1> QED
  BY <1>6, <1>7, <1>8, <1>9 DEF SetStateStep

LEMMA KeptByDeliver ==
  ASSUME Alone, Inv, TypeOK', Observe, Deliver
  PROVE  Inv'
<1>1. /\ TypeOK /\ EndsWell(events, link) /\ link \in Links
      /\ events \in Seq(Events) /\ events # <<>> /\ events' = Tail(events)
      /\ actor[Native].pc = "idle" /\ actor[Native].then = "idle" /\ Native \in Actors
      /\ UNCHANGED <<state, attached, link, sink, draining>>
  BY DEF Actors, Inv, EventsInv, NativeInv, TypeOK, Deliver, At
<1>2. EndsWell(events', link)
  BY <1>1, DeliveredEvent
<1>3. CASE ~sink /\ UNCHANGED actor
  <2>1. trust' # "stale" => trust # "stale"
    BY <1>1, <1>3 DEF Observe, At
  <2>2. (trust # "stale" => ~Overlap)'
    BY DEF Observe
  <2>3. TruthInv'
    BY <1>1, <1>3, <2>1, <2>2 DEF Inv, TruthInv, At
  <2>4. NativeInv' /\ CallInv' /\ EventsInv'
    BY <1>1, <1>2, <1>3 DEF Inv, NativeInv, CallInv, EventsInv, Telling
  <2> QED
    BY <2>3, <2>4 DEF Inv
<1>4. ASSUME NEW s \in {"Connected", "Disconnected"}, sink, Becomes(Native, "load", s, "idle"),
             Head(events) = IF s = "Connected" THEN "connected" ELSE "disconnected"
      PROVE  Inv'
  <2>1. Silent(events') => Agrees(IF s = "Connected" THEN "connected" ELSE "disconnected", link)
    BY <1>1, <1>4, DeliveredEvent
  <2> QED
    BY <1>1, <1>2, <1>4, <2>1, NativeStep DEF SetStatePcs
<1>5. CASE /\ sink /\ Head(events) = "message"
           /\ Becomes(Native, "notify", actor[Native].target, actor[Native].then)
  <2>1. Silent(events') => Silent(events)
    BY <1>1, <1>5, DeliveredEvent
  <2>2. trust' # "stale" => trust # "stale"
    BY <1>1, <1>5 DEF Observe, At, Becomes
  <2>3. trust' # "stale" /\ Silent(events') /\ sink =>
          \A t \in Threads :
            FitOf(actor[t].pc, actor[t].target, actor[t].then, state, link)
    BY <1>1, <2>1, <2>2 DEF Inv, TruthInv, Telling
  <2> QED
    BY <1>1, <1>2, <1>5, <2>3, NativeStep DEF SetStatePcs
<1> QED
  BY <1>1, <1>3, <1>4, <1>5, DeliverSteps

-----------------------------------------------------------------------------
(* Of the connection's steps: something new is to be told, or nothing that *)
(* a state tells apart has changed.                                        *)
LEMMA LinkStep ==
  ASSUME Inv, TypeOK', Observe, UNCHANGED <<state, attached, actor, sink, draining>>,
         EndsWell(events', link'),
         Silent(events') =>
           /\ Silent(events)
           /\ \A e \in Events : Agrees(e, link) => Agrees(e, link')
           /\ \A t \in Threads :
                FitOf(actor[t].pc, actor[t].target, actor[t].then, state, link) =>
                  FitOf(actor[t].pc, actor[t].target, actor[t].then, state, link')
  PROVE  Inv'
<1>1. NativeInv' /\ CallInv'
  BY DEF Inv, NativeInv, CallInv
<1>2. EventsInv'
  BY DEF Inv, EventsInv, Telling, Events
<1>3. trust' # "stale" => trust # "stale"
  BY DEF Observe, At
<1>4. (trust # "stale" => ~Overlap)'
  BY DEF Observe
<1>5. TruthInv'
  BY <1>3, <1>4 DEF Inv, TruthInv, At, Telling
<1> QED
  BY <1>1, <1>2, <1>5 DEF Inv

LEMMA KeptByEmit ==
  ASSUME Inv, TypeOK', Observe, NEW from \in Links, NEW to \in Links, NEW event \in Events,
         Emit(from, to, event), IF event = "message" THEN from = to ELSE Agrees(event, to)
  PROVE  Inv'
<1>1. events \in Seq(Events) /\ events' = Append(events, event) /\ link = from /\ link' = to
  BY DEF Inv, TypeOK, Emit
<1>2. EndsWell(events', link')
  BY <1>1, AppendedEvent DEF Inv, EventsInv
<1>3. Silent(events') => Silent(events) /\ event = "message"
  BY <1>1, AppendedEvent
<1> QED
  BY <1>1, <1>2, <1>3, LinkStep DEF Emit

LEMMA KeptByReconnect ==
  ASSUME Inv, TypeOK', Observe, Reconnect
  PROVE  Inv'
<1>1. link = "lost" /\ link' = "opening" /\ events' = events
  BY DEF Reconnect
<1>2. \A e \in Events : Agrees(e, link) => Agrees(e, link')
  BY <1>1 DEF Agrees
<1>3. EndsWell(events', link')
  <2>1. \A i \in DOMAIN events : events[i] \in Events
    BY DEF Inv, TypeOK
  <2> QED
    BY <1>1, <1>2, <2>1 DEF Inv, EventsInv, EndsWell
<1>4. ASSUME NEW t \in Threads, FitOf(actor[t].pc, actor[t].target, actor[t].then, state, link)
      PROVE  FitOf(actor[t].pc, actor[t].target, actor[t].then, state, link')
  BY <1>1, <1>4 DEF FitOf, WillFit, Fits
<1> QED
  BY <1>1, <1>2, <1>3, <1>4, LinkStep DEF Reconnect

LEMMA InvInit == Init => Inv
<1> SUFFICES ASSUME Init PROVE Inv
  OBVIOUS
<1>1. \A a \in Actors : actor[a] = Idle
  BY DEF Init
<1>2. Native \in Actors /\ \A t \in Threads : t \in Actors
  BY DEF Actors
<1>3. NativeInv /\ CallInv
  BY <1>1, <1>2 DEF Init, NativeInv, CallInv, CallOf, Idle, SetStatePcs, OutsidePcs
<1>4. EventsInv
  BY <1>1, <1>2 DEF Init, EventsInv, EndsWell, Telling, Idle
<1>5. TruthInv
  BY <1>1, <1>2 DEF Init, TruthInv, Overlap, At, Idle
<1> QED
  BY <1>3, <1>4, <1>5, TypeInit DEF Inv

LEMMA InvNext == Alone /\ Inv /\ [Next]_vars => Inv'
<1> SUFFICES ASSUME Alone, Inv, [Next]_vars PROVE Inv'
  OBVIOUS
<1>1. TypeOK'
  BY TypeNext DEF Inv
<1>2. CASE UNCHANGED vars
  BY <1>1, <1>2 DEF vars, platformVars, Inv, NativeInv, CallInv, EventsInv, TruthInv,
                    Telling, Overlap, At
<1>3. CASE Next
  <2>1. Observe
    BY <1>3 DEF Next
  <2>2. ASSUME NEW t \in Threads, Call(t) \/ Continue(t) PROVE Inv'
    BY <1>1, <2>1, <2>2, KeptByCall, KeptBySetState, KeptByAttachAndDetach, KeptByPlatformCall
    DEF Continue
  <2>3. CASE Event
    BY <1>1, <2>1, <2>3, KeptByNative, KeptByDeliver DEF Event
  <2>4. CASE Settle \/ Lose \/ ReceiveMessage
    BY <1>1, <2>1, <2>4, KeptByEmit DEF Settle, Lose, ReceiveMessage, Links, Events, Agrees
  <2>5. CASE Reconnect
    BY <1>1, <2>1, <2>5, KeptByReconnect
  <2> QED
    BY <1>3, <2>2, <2>3, <2>4, <2>5 DEF Next, Step
<1> QED
  BY <1>2, <1>3

LEMMA Invariance == ASSUME Alone PROVE Spec => []Inv
<1>1. Init => Inv
  BY InvInit
<1>2. Inv /\ [Next]_vars => Inv'
  BY InvNext
<1> QED
  BY <1>1, <1>2, PTL DEF Spec

-----------------------------------------------------------------------------
(* With one application thread, a platform that drains its sink is silent, *)
(* and _state is Detached, once Detach has returned.                       *)
THEOREM AfterDetach ==
  ASSUME Alone
  PROVE  Spec => []DetachedIsQuiet
<1>1. Inv => DetachedIsQuiet
  <2> SUFFICES ASSUME Inv, draining, ~attached, \A t \in Threads : At(t, "idle")
               PROVE  ~sink /\ At(Native, "idle") /\ state = "Detached"
    BY DEF DetachedIsQuiet
  <2>1. ~sink
    BY DEF Inv, CallInv
  <2> QED
    BY <2>1 DEF Inv, TruthInv, At
<1> QED
  BY <1>1, Invariance, PTL

(* With one application thread, _state says of an idle client what its     *)
(* platform's connection is, whatever order calls and events came in, but  *)
(* where an interleaving or a needless Connect has disturbed it.           *)
THEOREM StateIsTrue ==
  ASSUME Alone
  PROVE  Spec => []StateTracksPlatform
<1>1. Inv => StateTracksPlatform
  <2> SUFFICES ASSUME Inv, Quiet, trust = "sound"
               PROVE  /\ attached <=> state # "Detached"
                      /\ attached /\ link = "up" => state = "Connected"
                      /\ state = "Connected" => link \in {"up", "closing"}
                      /\ state = "Connecting" => link = "opening"
                      /\ state = "Disconnecting" => link = "closing"
    BY DEF StateTracksPlatform
  <2>1. ~Telling /\ Silent(events)
    BY DEF Quiet, At, Actors, Telling, Silent
  <2>2. ASSUME NEW t \in Threads
        PROVE  (sink <=> attached) /\ (sink => Fits(state, link))
    <3>1. actor[t].pc = "idle"
      BY DEF Quiet, At, Actors
    <3>2. sink <=> attached
      BY <3>1 DEF Inv, CallInv, CallOf
    <3>3. sink => FitOf("idle", actor[t].target, actor[t].then, state, link)
      BY <2>1, <3>1 DEF Inv, TruthInv
    <3> QED
      BY <3>2, <3>3 DEF FitOf, WillFit, SetStatePcs, OutsidePcs
  <2>3. attached => Threads # {}
    BY DEF Inv, CallInv
  <2>4. ~attached => state = "Detached"
    BY DEF Quiet, At, Actors, Inv, TruthInv
  <2> QED
    BY <2>2, <2>3, <2>4 DEF Fits
<1> QED
  BY <1>1, Invariance, PTL

-----------------------------------------------------------------------------
(* Every set of numbers that is not empty has a least one.                 *)
LEMMA LeastNatural ==
  ASSUME NEW T \in SUBSET Nat, T # {}
  PROVE  \E i \in T : \A j \in T : i <= j
<1>1. IsWellFoundedOn({ss \in Nat \X Nat : ss[1] < ss[2]}, Nat)
  BY NatLessThanWellFounded, Zenon DEF OpToRel
<1>2. \E i \in T : \A j \in T : <<j, i>> \notin {ss \in Nat \X Nat : ss[1] < ss[2]}
  BY <1>1, WFMin, Zenon
<1>3. \A i, j \in T : <<j, i>> \in {ss \in Nat \X Nat : ss[1] < ss[2]} <=> j < i
  OBVIOUS
<1>4. \E i \in T : \A j \in T : ~(j < i)
  BY <1>2, <1>3, Zenon
<1> QED
  BY <1>4

(* What holds of 0 and of a number's successor holds up to a bound.        *)
LEMMA UpTo ==
  ASSUME NEW N \in Nat, NEW T \in SUBSET (0..N), 0 \in T, \A n \in 1..N : n - 1 \in T => n \in T
  PROVE  T = 0..N
<1> DEFINE B == (0..N) \ T
<1> SUFFICES ASSUME B # {} PROVE FALSE
  OBVIOUS
<1>1. B \in SUBSET Nat
  OBVIOUS
<1> HIDE DEF B
<1>2. PICK k \in B : \A j \in B : k <= j
  BY <1>1, LeastNatural
<1>3. k \in 1..N /\ k - 1 \in 0..N /\ k - 1 \notin B
  BY <1>2 DEF B
<1> QED
  BY <1>3 DEF B

(* A function on 0..N may be defined by its value for 0 and, for n, from   *)
(* its value for n - 1.                                                    *)
Recurrence(N, D, z, G) == N \in Nat /\ z \in D /\ G \in [1..N -> [D -> D]]

Solves(f, N, D, z, G) ==
  f \in [0..N -> D] /\ f[0] = z /\ \A n \in 1..N : f[n] = G[n][f[n - 1]]

LEMMA Recursion ==
  ASSUME NEW N, NEW D, NEW z, NEW G, Recurrence(N, D, z, G)
  PROVE  \E f : Solves(f, N, D, z, G)
<1> USE DEF Recurrence
<1> DEFINE Defined(k) == \E f \in [0..k -> D] : f[0] = z /\ \A n \in 1..k : f[n] = G[n][f[n - 1]]
           T == {k \in 0..N : Defined(k)}
<1>1. 0 \in T
  <2>1. [n \in 0..0 |-> z] \in [0..0 -> D]
    OBVIOUS
  <2>2. [n \in 0..0 |-> z][0] = z /\ 1..0 = {}
    OBVIOUS
  <2>3. Defined(0)
    BY <2>1, <2>2
  <2> QED
    BY <2>3
<1>2. ASSUME NEW k \in 1..N, k - 1 \in T PROVE k \in T
  <2>1. PICK g \in [0..(k - 1) -> D] : g[0] = z /\ \A n \in 1..(k - 1) : g[n] = G[n][g[n - 1]]
    BY <1>2
  <2> DEFINE f == [n \in 0..k |-> IF n = k THEN G[k][g[k - 1]] ELSE g[n]]
  <2>2. G[k] \in [D -> D] /\ g[k - 1] \in D
    OBVIOUS
  <2>3. f \in [0..k -> D]
    BY <2>2
  <2>4. f[0] = z
    BY <2>1
  <2>5. ASSUME NEW n \in 1..k PROVE f[n] = G[n][f[n - 1]]
    <3>1. f[n - 1] = g[n - 1]
      OBVIOUS
    <3>2. CASE n = k
      BY <3>1, <3>2
    <3>3. CASE n # k
      <4>1. n \in 1..(k - 1) /\ f[n] = g[n]
        BY <3>3
      <4> QED
        BY <2>1, <3>1, <4>1
    <3> QED
      BY <3>2, <3>3
  <2> HIDE DEF f
  <2>6. Defined(k)
    BY <2>3, <2>4, <2>5
  <2> QED
    BY <2>6
<1> HIDE DEF T
<1>3. T \subseteq 0..N
  BY DEF T
<1>4. N \in T
  BY <1>1, <1>2, <1>3, UpTo
<1> QED
  BY <1>4 DEF T, Solves

(* A size that fits does not wrap.                                         *)
LEMMA NoWrap ==
  ASSUME NEW n \in 0..MaximumSize
  PROVE  C!Wrapped(n) = n
BY ClientAssumption DEF C!Wrapped

-----------------------------------------------------------------------------
(* The loop over the headers, as the function it is: what it is after n of *)
(* them.                                                                   *)
LoopState == [total : 0..MaximumSize, error : {"None", "InvalidConfiguration", "ResourceExhausted"}]

After(r, h, m) ==
  LET e == C!HeaderError(h, r.total, m)
  IN  IF r.error # "None" THEN r
      ELSE IF e # "None" THEN [r EXCEPT !.error = e]
      ELSE [r EXCEPT !.total = C!Wrapped(@ + C!LineBytes(h))]

IsLoop(f, headers, m) ==
  f = [n \in 0..Len(headers) |->
         IF n = 0 THEN [total |-> 0, error |-> "None"]
         ELSE After(f[n - 1], headers[n], m)]

IsSum(f, headers) ==
  f = [n \in 0..Len(headers) |->
         IF n = 0 THEN 0
         ELSE f[n - 1] + headers[n].name + headers[n].value + FramingBytes]

LEMMA SizesFit ==
  /\ MaximumSize \in Nat /\ FramingBytes \in 0..MaximumSize
  /\ \A n \in Nat : C!Wrapped(n) \in 0..MaximumSize
BY ClientAssumption DEF C!Wrapped

LEMMA AfterTyped ==
  ASSUME NEW r \in LoopState, NEW h \in C!HeaderType, NEW m \in 0..MaximumSize
  PROVE  After(r, h, m) \in LoopState
<1>1. C!HeaderError(h, r.total, m) \in {"None", "InvalidConfiguration", "ResourceExhausted"}
  BY DEF C!HeaderError
<1>2. h.name \in Nat /\ h.value \in Nat /\ r.total \in Nat /\ FramingBytes \in Nat
  BY SizesFit DEF C!HeaderType, LoopState
<1>3. C!LineBytes(h) \in Nat
  BY <1>2, SizesFit DEF C!LineBytes
<1>4. C!Wrapped(r.total + C!LineBytes(h)) \in 0..MaximumSize
  BY <1>2, <1>3, SizesFit
<1> QED
  BY <1>1, <1>4 DEF After, LoopState

(* A header the loop accepts is the application's, and its line is added   *)
(* whole: nothing wraps on the way to the bound.                           *)
LEMMA AcceptedLine ==
  ASSUME NEW h \in C!HeaderType, NEW t \in 0..MaximumSize, NEW m \in 0..MaximumSize, t <= m,
         C!HeaderError(h, t, m) = "None"
  PROVE  /\ h.kind = "application"
         /\ C!Wrapped(t + C!LineBytes(h)) = t + h.name + h.value + FramingBytes
         /\ t + h.name + h.value + FramingBytes <= m
<1>1. h.name \in 0..MaximumSize /\ h.value \in 0..MaximumSize
  BY DEF C!HeaderType
<1>2. h.kind = "application" /\ ~C!LineOverflows(h) /\ ~C!Exceeds(h, t, m)
  BY DEF C!HeaderError
<1>3. h.name + h.value \in 0..MaximumSize
  BY <1>1, <1>2, SizesFit DEF C!LineOverflows
<1>4. h.name + h.value + FramingBytes \in 0..MaximumSize
  BY <1>1, <1>2, <1>3, SizesFit, NoWrap DEF C!LineOverflows
<1>5. C!LineBytes(h) = h.name + h.value + FramingBytes
  BY <1>4, NoWrap DEF C!LineBytes
<1>6. t + h.name + h.value + FramingBytes <= m
  BY <1>1, <1>2, <1>4, <1>5, SizesFit DEF C!Exceeds
<1>7. t + C!LineBytes(h) \in 0..MaximumSize
  BY <1>1, <1>5, <1>6, SizesFit
<1> QED
  BY <1>1, <1>2, <1>5, <1>6, <1>7, NoWrap, SizesFit

LEMMA LoopExists ==
  ASSUME NEW headers \in Seq(C!HeaderType), NEW m \in 0..MaximumSize
  PROVE  \E f : IsLoop(f, headers, m)
<1> DEFINE N == Len(headers)
           z == [total |-> 0, error |-> "None"]
           G == [n \in 1..N |-> [r \in LoopState |-> After(r, headers[n], m)]]
<1>1. N \in Nat /\ z \in LoopState /\ \A n \in 1..N : headers[n] \in C!HeaderType
  BY SizesFit DEF LoopState
<1>2. G \in [1..N -> [LoopState -> LoopState]]
  BY <1>1, AfterTyped
<1>3. \A n \in 1..N, r \in LoopState : G[n][r] = After(r, headers[n], m)
  OBVIOUS
<1> HIDE DEF N, G, z
<1>4. PICK f : Solves(f, N, LoopState, z, G)
  BY <1>1, <1>2, Recursion DEF Recurrence
<1>5. \A n \in 1..N : f[n] = After(f[n - 1], headers[n], m)
  BY <1>1, <1>3, <1>4 DEF Solves
<1>6. \A n \in 0..N : f[n] = IF n = 0 THEN z ELSE After(f[n - 1], headers[n], m)
  BY <1>1, <1>4, <1>5 DEF Solves
<1>7. f = [n \in 0..N |-> IF n = 0 THEN z ELSE After(f[n - 1], headers[n], m)]
  BY <1>4, <1>6 DEF Solves
<1> QED
  BY <1>7 DEF IsLoop, N, z

LEMMA SumExists ==
  ASSUME NEW headers \in Seq(C!HeaderType)
  PROVE  \E f : IsSum(f, headers)
<1> DEFINE N == Len(headers)
           G == [n \in 1..N |-> [r \in Nat |-> r + headers[n].name + headers[n].value + FramingBytes]]
<1>1. N \in Nat /\ \A n \in 1..N : headers[n].name \in Nat /\ headers[n].value \in Nat
  <2>1. N \in Nat /\ \A n \in 1..N : headers[n] \in C!HeaderType
    OBVIOUS
  <2>2. \A h \in C!HeaderType : h.name \in Nat /\ h.value \in Nat
    BY SizesFit DEF C!HeaderType
  <2> QED
    BY <2>1, <2>2, Zenon
<1>2. G \in [1..N -> [Nat -> Nat]]
  <2>1. FramingBytes \in Nat
    BY SizesFit
  <2>2. ASSUME NEW n \in 1..N, NEW r \in Nat
        PROVE  r + headers[n].name + headers[n].value + FramingBytes \in Nat
    <3>1. headers[n].name \in Nat /\ headers[n].value \in Nat
      BY <1>1
    <3> DEFINE x == headers[n].name
               y == headers[n].value
    <3> HIDE DEF N, x, y
    <3>2. x \in Nat /\ y \in Nat /\ FramingBytes \in Nat
      BY <2>1, <3>1 DEF x, y
    <3>3. r + x + y + FramingBytes \in Nat
      BY <3>2
    <3> QED
      BY <3>3 DEF x, y
  <2>3. \A n \in 1..N : [r \in Nat |-> r + headers[n].name + headers[n].value + FramingBytes]
                         \in [Nat -> Nat]
    BY <2>2
  <2> QED
    BY <2>3
<1>3. \A n \in 1..N, r \in Nat : G[n][r] = r + headers[n].name + headers[n].value + FramingBytes
  OBVIOUS
<1> HIDE DEF N, G
<1>4. PICK f : Solves(f, N, Nat, 0, G)
  BY <1>1, <1>2, Recursion DEF Recurrence
<1>5. \A n \in 1..N : f[n] = f[n - 1] + headers[n].name + headers[n].value + FramingBytes
  <2> SUFFICES ASSUME NEW n \in 1..N
               PROVE  f[n] = f[n - 1] + headers[n].name + headers[n].value + FramingBytes
    OBVIOUS
  <2>1. f[n - 1] \in Nat /\ f[n] = G[n][f[n - 1]]
    BY <1>1, <1>4 DEF Solves
  <2> QED
    BY <1>3, <2>1
<1>6. f = [n \in 0..N |-> IF n = 0 THEN 0
                          ELSE f[n - 1] + headers[n].name + headers[n].value + FramingBytes]
  BY <1>1, <1>4, <1>5 DEF Solves
<1> QED
  BY <1>6 DEF IsSum, N

(* What the model's definitions choose are such functions.                 *)
LEMMA LoopIsAfter ==
  ASSUME NEW headers \in Seq(C!HeaderType), NEW m \in 0..MaximumSize
  PROVE  \E f : IsLoop(f, headers, m) /\ C!HeaderLoop(headers, m) = f[Len(headers)]
<1> DEFINE f == CHOOSE g : IsLoop(g, headers, m)
<1>1. IsLoop(f, headers, m)
  BY LoopExists
<1>2. C!HeaderLoop(headers, m) = f[Len(headers)]
  BY Zenon DEF C!HeaderLoop, IsLoop, After
<1> QED
  BY <1>1, <1>2

LEMMA BytesAreSum ==
  ASSUME NEW headers \in Seq(C!HeaderType)
  PROVE  \E f : IsSum(f, headers) /\ C!HeaderBytes(headers) = f[Len(headers)]
<1> DEFINE f == CHOOSE g : IsSum(g, headers)
<1>1. IsSum(f, headers)
  BY SumExists
<1>2. C!HeaderBytes(headers) = f[Len(headers)]
  BY Zenon DEF C!HeaderBytes, IsSum
<1> QED
  BY <1>1, <1>2

(* As long as the loop has found no error its total is the sum that does   *)
(* not wrap, and every header so far is the application's.                 *)
LEMMA HeadersChecked ==
  ASSUME NEW headers \in Seq(C!HeaderType), NEW m \in 0..MaximumSize,
         C!HeaderLoop(headers, m).error = "None"
  PROVE  /\ \A i \in DOMAIN headers : headers[i].kind = "application"
         /\ C!HeaderBytes(headers) <= m
<1> DEFINE N == Len(headers)
<1>1. PICK f : IsLoop(f, headers, m) /\ C!HeaderLoop(headers, m) = f[N]
  BY LoopIsAfter
<1>2. PICK g : IsSum(g, headers) /\ C!HeaderBytes(headers) = g[N]
  BY BytesAreSum
<1>3. N \in Nat /\ DOMAIN headers = 1..N /\ \A n \in 1..N : headers[n] \in C!HeaderType
  OBVIOUS
<1>4. f[0] = [total |-> 0, error |-> "None"] /\ g[0] = 0
  BY <1>1, <1>2, <1>3 DEF IsLoop, IsSum
<1>5. ASSUME NEW n \in 1..N
      PROVE  /\ f[n] = After(f[n - 1], headers[n], m)
             /\ g[n] = g[n - 1] + headers[n].name + headers[n].value + FramingBytes
  <2>1. n \in 0..N /\ n # 0
    BY <1>3
  <2> QED
    BY <1>1, <1>2, <2>1 DEF IsLoop, IsSum
<1> HIDE DEF N
<1> DEFINE Right(n) == /\ f[n] \in LoopState
                       /\ f[n].error = "None" =>
                            /\ f[n].total = g[n] /\ g[n] <= m
                            /\ \A i \in 1..n : headers[i].kind = "application"
           T == {n \in 0..N : Right(n)}
<1>6. 0 \in T
  <2>1. f[0] \in LoopState /\ f[0].total = g[0] /\ g[0] <= m /\ 1..0 = {}
    BY <1>4, SizesFit DEF LoopState
  <2> QED
    BY <1>3, <2>1
<1>7. ASSUME NEW n \in 1..N, n - 1 \in T PROVE n \in T
  <2> DEFINE r == f[n - 1]
             h == headers[n]
  <2>1. Right(n - 1) /\ h \in C!HeaderType
    BY <1>3, <1>7
  <2>2. f[n] = After(r, h, m) /\ g[n] = g[n - 1] + h.name + h.value + FramingBytes
    BY <1>5
  <2>3. f[n] \in LoopState
    BY <2>1, <2>2, AfterTyped
  <2>4. ASSUME f[n].error = "None"
        PROVE  /\ f[n].total = g[n] /\ g[n] <= m
               /\ \A i \in 1..n : headers[i].kind = "application"
    <3>1. r.error = "None" /\ C!HeaderError(h, r.total, m) = "None"
      BY <2>1, <2>2, <2>4 DEF After, LoopState
    <3>2. /\ r.total \in 0..MaximumSize /\ r.total = g[n - 1] /\ r.total <= m
          /\ \A i \in 1..(n - 1) : headers[i].kind = "application"
      BY <2>1, <3>1 DEF LoopState
    <3>3. f[n].total = C!Wrapped(r.total + C!LineBytes(h))
      BY <2>1, <2>2, <3>1 DEF After, LoopState
    <3>4. /\ h.kind = "application"
          /\ C!Wrapped(r.total + C!LineBytes(h)) = r.total + h.name + h.value + FramingBytes
          /\ r.total + h.name + h.value + FramingBytes <= m
      BY <2>1, <3>1, <3>2, AcceptedLine
    <3>5. \A i \in 1..n : i \in 1..(n - 1) \/ i = n
      OBVIOUS
    <3> QED
      BY <2>2, <3>2, <3>3, <3>4, <3>5
  <2>5. n \in 0..N
    BY <1>3
  <2> QED
    BY <2>3, <2>4, <2>5
<1> HIDE DEF T
<1>8. N \in T
  <2>1. T \in SUBSET (0..N)
    BY DEF T
  <2> QED
    BY <1>3, <1>6, <1>7, <2>1, UpTo
<1>9. Right(N)
  BY <1>8 DEF T
<1> QED
  BY <1>1, <1>2, <1>3, <1>9

(* What passes the validation is what a platform may rely on.              *)
LEMMA ValidIsAcceptable ==
  ASSUME NEW c \in C!ConfigurationType, C!ValidateConfiguration(c) = "None"
  PROVE  C!Acceptable(c)
<1>1. /\ c.headers \in Seq(C!HeaderType) /\ c.maximumBytes \in 0..MaximumSize
      /\ c.transport \in {"Plain", "Tls"} /\ c.tls \in C!TlsType
      /\ c.complete \in BOOLEAN /\ c.timed \in BOOLEAN
  BY DEF C!ConfigurationType
<1>2. /\ c.complete /\ c.timed
      /\ C!ValidateHeaders(c.headers, c.maximumBytes) = "None"
      /\ IF c.transport = "Tls" THEN C!TlsIsValid(c.tls) ELSE C!HasNoTls(c.tls)
  BY DEF C!ValidateConfiguration
<1>3. /\ ~(Len(c.headers) > MaximumHandshakeHeaderCount)
      /\ C!HeaderLoop(c.headers, c.maximumBytes).error = "None"
  BY <1>2 DEF C!ValidateHeaders
<1>4. Len(c.headers) <= MaximumHandshakeHeaderCount
  BY <1>1, <1>3, ClientAssumption
<1>5. /\ \A i \in DOMAIN c.headers : c.headers[i].kind = "application"
      /\ C!HeaderBytes(c.headers) <= c.maximumBytes
  BY <1>1, <1>3, HeadersChecked
<1>6. ASSUME c.transport = "Tls"
      PROVE  /\ c.tls.trust = "CertificateAuthority" => c.tls.authority = "present"
             /\ c.tls.trust = "PlatformTrust" => c.tls.authority = "empty"
             /\ {c.tls.certificate, c.tls.key} \in {{"empty"}, {"present"}}
  <2>1. /\ {c.tls.authority, c.tls.certificate, c.tls.key} \subseteq C!Credentials
        /\ c.tls.trust \in {"PlatformTrust", "CertificateAuthority"}
    BY <1>1 DEF C!TlsType
  <2>2. C!TlsIsValid(c.tls)
    BY <1>2, <1>6
  <2>3. c.tls.certificate = c.tls.key /\ c.tls.key \in {"empty", "present"}
    BY <2>1, <2>2 DEF C!TlsIsValid, C!Credentials
  <2>4. {c.tls.certificate, c.tls.key} = {c.tls.key}
    BY <2>3
  <2> QED
    BY <2>1, <2>2, <2>3, <2>4 DEF C!TlsIsValid, C!Credentials
<1>7. c.transport = "Plain" =>
        c.tls.trust = "PlatformTrust" /\ "present" \notin {c.tls.authority, c.tls.certificate, c.tls.key}
  BY <1>2 DEF C!HasNoTls
<1> QED
  BY <1>2, <1>4, <1>5, <1>6, <1>7 DEF C!Acceptable

-----------------------------------------------------------------------------
(* A call that is on its way to the platform has passed the validation.    *)
Chosen(a) ==
  actor[a].pc = "platformConnect" \/ actor[a].then = "platformConnect" =>
    /\ actor[a].configuration \in Configurations
    /\ C!ValidateConfiguration(actor[a].configuration) = "None"

ChosenInv == \A a \in Actors : Chosen(a)

LEMMA KeptByGoto ==
  ASSUME TypeOK, ChosenInv, NEW a \in Actors, NEW p \in Pcs, Goto(a, p),
         p = "platformConnect" => actor[a].then = "platformConnect"
  PROVE  ChosenInv'
<1>1. \A b \in Actors \ {a} : actor'[b] = actor[b]
  BY DEF Goto, TypeOK
<1>2. Chosen(a)'
  <2>1. CASE p = "idle"
    BY <2>1 DEF Goto, TypeOK, Chosen, Idle
  <2>2. CASE p # "idle"
    <3>1. actor' = [actor EXCEPT ![a] = [actor[a] EXCEPT !.pc = p]]
      BY <2>2 DEF Goto
    <3>2. /\ actor'[a].pc = p /\ actor'[a].then = actor[a].then
          /\ actor'[a].configuration = actor[a].configuration
      BY <3>1 DEF TypeOK, ActorType
    <3> QED
      BY <3>2 DEF ChosenInv, Chosen
  <2> QED
    BY <2>1, <2>2
<1> QED
  BY <1>1, <1>2 DEF ChosenInv, Chosen

(* The same of the assignments that set where a call goes on.              *)
LEMMA KeptBySet ==
  ASSUME TypeOK, ChosenInv, NEW a \in Actors,
         \A b \in Actors \ {a} : actor'[b] = actor[b],
         actor'[a].pc # "platformConnect", actor'[a].then # "platformConnect"
  PROVE  ChosenInv'
BY DEF ChosenInv, Chosen

LEMMA ChosenNext == TypeOK /\ ChosenInv /\ [Next]_vars => ChosenInv'
<1> SUFFICES ASSUME TypeOK, ChosenInv, [Next]_vars PROVE ChosenInv'
  OBVIOUS
<1>1. CASE UNCHANGED actor
  BY <1>1 DEF ChosenInv, Chosen
<1>2. ASSUME NEW a \in Actors, SetStateStep(a) PROVE ChosenInv'
  <2>1. actor[a].then \in Pcs /\ {"store", "notify"} \subseteq Pcs
    BY DEF TypeOK, ActorType, Pcs
  <2>2. CASE Load(a)
    BY <2>1, <2>2, KeptByGoto DEF Load
  <2>3. CASE Store(a)
    BY <2>1, <2>3, KeptByGoto DEF Store
  <2>4. CASE Notify(a)
    BY <2>1, <2>4, KeptByGoto DEF Notify
  <2> QED
    BY <1>2, <2>2, <2>3, <2>4 DEF SetStateStep
<1>3. ASSUME NEW t \in Threads, Call(t) PROVE ChosenInv'
  <2>1. t \in Actors /\ {"attachSink", "detachSink"} \subseteq Pcs
    BY DEF Actors, Pcs
  <2>2. CASE Attach(t) \/ Detach(t)
    BY <2>1, <2>2, KeptByGoto DEF Attach, Detach
  <2>3. CASE Disconnect(t)
    BY <2>1, <2>3, CallSteps, KeptBySet DEF Becomes
  <2>4. ASSUME NEW c \in Configurations, Connect(t, c) PROVE ChosenInv'
    <3>1. Becomes(t, "load", "Connecting", "platformConnect") /\ actor'[t].configuration = c
      BY <2>4, CallSteps
    <3>2. C!ValidateConfiguration(c) = "None"
      BY <2>4 DEF Connect
    <3> QED
      BY <2>1, <3>1, <3>2 DEF ChosenInv, Chosen, Becomes
  <2> QED
    BY <1>3, <2>2, <2>3, <2>4 DEF Call
<1>4. ASSUME NEW t \in Threads, Continue(t) PROVE ChosenInv'
  <2>1. t \in Actors /\ {"idle", "attachRead", "detachClear"} \subseteq Pcs
    BY DEF Actors, Pcs, OutsidePcs
  <2>2. CASE SetStateStep(t)
    BY <1>2, <2>1, <2>2
  <2>3. CASE AttachSink(t) \/ DetachSink(t) \/ PlatformStop(t)
    BY <2>1, <2>3, KeptByGoto DEF AttachSink, DetachSink, PlatformStop
  <2>4. CASE AttachRead(t)
    <3>1. \A b \in Actors \ {t} : actor'[b] = actor[b]
      BY <2>4 DEF AttachRead, TypeOK
    <3>2. /\ actor'[t].pc = "store" /\ actor'[t].then = actor[t].then
          /\ actor'[t].configuration = actor[t].configuration
      BY <2>1, <2>4 DEF AttachRead, TypeOK, ActorType
    <3> QED
      BY <2>1, <3>1, <3>2 DEF ChosenInv, Chosen
  <2>5. CASE DetachClear(t) \/ PlatformConnect(t) \/ PlatformDisconnect(t)
    BY <2>1, <2>5, ContinueSteps, FallibleSteps, KeptBySet DEF Becomes
  <2> QED
    BY <1>4, <2>2, <2>3, <2>4, <2>5 DEF Continue
<1>5. CASE Deliver
  <2>1. Native \in Actors /\ \A s \in {"Connected", "Disconnected"} :
          Becomes(Native, "load", s, "idle") => ChosenInv'
    BY KeptBySet DEF Actors, Becomes
  <2>2. Becomes(Native, "notify", actor[Native].target, actor[Native].then) /\ sink
          /\ Head(events) = "message" => Goto(Native, "notify")
    BY <1>5 DEF Deliver, Callback
  <2>3. Goto(Native, "notify") => ChosenInv'
    BY <2>1, KeptByGoto DEF Pcs
  <2> QED
    BY <1>1, <1>5, <2>1, <2>2, <2>3, DeliverSteps
<1>6. CASE Settle \/ Lose \/ ReceiveMessage \/ Reconnect
  BY <1>1, <1>6 DEF Settle, Lose, ReceiveMessage, Emit, Reconnect
<1>7. CASE UNCHANGED vars
  BY <1>1, <1>7 DEF vars
<1> QED
  BY <1>2, <1>3, <1>4, <1>5, <1>6, <1>7 DEF Next, Step, Event, Actors

(* For any number of application threads, configurations and headers of    *)
(* any number and size, and any width of a size_t: what the platform is    *)
(* asked to connect with is acceptable.                                    *)
THEOREM ConfigurationsAreValid == Spec => []PlatformGetsValidConfigurations
<1>1. Init => ChosenInv
  BY DEF Init, ChosenInv, Chosen, Idle
<1>2. ChosenInv => PlatformGetsValidConfigurations
  BY ValidIsAcceptable, ClientAssumption
  DEF ChosenInv, Chosen, PlatformGetsValidConfigurations, At, Actors
<1> QED
  BY <1>1, <1>2, TypeInit, TypeNext, ChosenNext, PTL DEF Spec

=============================================================================
