---------------------------- MODULE WebSocketClient ----------------------------
(***************************************************************************)
(* WebSocketClient (ESPressio_WebSocketClient.hpp): _platform and _state   *)
(* have no lock.  An application thread calls Attach, Connect, Disconnect  *)
(* and Detach; the platform's event thread calls the sink.  Each reads and *)
(* writes _state in steps of its own, so that either may come between the  *)
(* comparison in SetState and its assignment.                              *)
(*                                                                         *)
(* A call the client refuses (no platform, another platform attached, an   *)
(* invalid configuration) changes nothing and is a stuttering step.        *)
(***************************************************************************)
EXTENDS Naturals, Sequences

CONSTANTS
  Threads,         \* application threads
  Native,          \* the platform's event thread
  Configurations,  \* what Connect is called with
  NoConfiguration,
  MaxEvents,       \* bound: native events not yet delivered
  MaximumSize, MaximumHandshakeHeaderCount, FramingBytes  \* of ClientConfiguration

C == INSTANCE ClientConfiguration

ASSUME ClientAssumption ==
  /\ Native \notin Threads
  /\ Configurations \subseteq C!ConfigurationType
  /\ NoConfiguration \notin C!ConfigurationType
  /\ MaxEvents \in Nat
  /\ MaximumSize \in Nat /\ MaximumHandshakeHeaderCount \in Nat
  /\ FramingBytes \in 0..MaximumSize

VARIABLES
  state,     \* _state
  attached,  \* _platform is not null
  actor,     \* per thread and for the event thread, where its call is
  link,      \* the platform: its connection
  sink,      \* the platform: its sink is this client
  draining,  \* the platform: SetSink(nullptr) waits for the callback under way
  events,    \* the platform: what it has yet to tell the sink
  trust      \* (history) did an interleaving or a needless Connect disturb _state

platformVars == <<link, sink, draining, events>>
vars         == <<state, attached, actor, platformVars, trust>>

States == {"Detached", "Attached", "Connecting", "Connected", "Disconnecting", "Disconnected"}
Links  == {"down", "opening", "up", "closing", "lost"}  \* lost: may reconnect by itself
Events == {"connected", "disconnected", "message"}

(* In these the application is inside a call of the platform, or in none.  *)
OutsidePcs == {"idle", "platformConnect", "platformDisconnect", "platformStop"}
Pcs == OutsidePcs \cup {"load", "store", "notify", "attachSink", "attachRead",
                        "detachSink", "detachClear"}

Actors == Threads \cup {Native}

ActorType == [pc : Pcs, target : States, then : OutsidePcs,
              configuration : Configurations \cup {NoConfiguration}]

Idle == [pc |-> "idle", target |-> "Detached", then |-> "idle",
         configuration |-> NoConfiguration]

TypeOK ==
  /\ state \in States /\ attached \in BOOLEAN
  /\ actor \in [Actors -> ActorType]
  /\ link \in Links /\ sink \in BOOLEAN /\ draining \in BOOLEAN
  /\ events \in Seq(Events) /\ Len(events) <= MaxEvents
  /\ trust \in {"sound", "stale", "healing"}

Init ==
  /\ state = "Detached" /\ attached = FALSE
  /\ actor = [a \in Actors |-> Idle]
  /\ link \in {"down", "up"} /\ sink = FALSE /\ draining \in BOOLEAN
  /\ events = <<>>
  /\ trust = "sound"

-----------------------------------------------------------------------------
(* Definitions named after a mistake ("...Ignored", "...Forgotten") are     *)
(* the mutants of the definition that follows them; nothing else uses them. *)

At(a, pc) == actor[a].pc = pc

Goto(a, pc) ==
  actor' = [actor EXCEPT ![a] = IF pc = "idle" THEN Idle ELSE [@ EXCEPT !.pc = pc]]

(* SetState(s), after which the call goes on at next.                      *)
SetState(a, s, next) ==
  actor' = [actor EXCEPT ![a].pc = "load", ![a].target = s, ![a].then = next]

Load(a) ==
  /\ At(a, "load")
  /\ Goto(a, IF state = actor[a].target THEN actor[a].then ELSE "store")
  /\ UNCHANGED <<state, attached, platformVars>>

Store(a) ==
  /\ At(a, "store")
  /\ state' = actor[a].target
  /\ Goto(a, "notify")
  /\ UNCHANGED <<attached, platformVars>>

(* Observers run; one that calls the client back is a thread of its own.   *)
Notify(a) ==
  /\ At(a, "notify")
  /\ Goto(a, actor[a].then)
  /\ UNCHANGED <<state, attached, platformVars>>

-----------------------------------------------------------------------------
Attach(t) ==
  /\ At(t, "idle") /\ ~attached
  /\ attached' = TRUE
  /\ Goto(t, "attachSink")
  /\ UNCHANGED <<state, platformVars>>

AttachSink(t) ==
  /\ At(t, "attachSink")
  /\ sink' = TRUE
  /\ Goto(t, "attachRead")
  /\ UNCHANGED <<state, attached, link, draining, events>>

IsConnected == link = "up"

(* _state is assigned without a comparison.                                *)
AttachRead(t) ==
  /\ At(t, "attachRead")
  /\ actor' = [actor EXCEPT ![t].pc = "store",
                            ![t].target = IF IsConnected THEN "Connected" ELSE "Attached"]
  /\ UNCHANGED <<state, attached, platformVars>>

Detach(t) ==
  /\ At(t, "idle") /\ attached
  /\ Goto(t, "detachSink")
  /\ UNCHANGED <<state, attached, platformVars>>

DetachSinkForgotten(t) ==
  /\ At(t, "detachSink")
  /\ Goto(t, "detachClear")
  /\ UNCHANGED <<state, attached, platformVars>>

DetachSink(t) ==
  /\ At(t, "detachSink")
  /\ draining => At(Native, "idle")
  /\ sink' = FALSE
  /\ Goto(t, "detachClear")
  /\ UNCHANGED <<state, attached, link, draining, events>>

DetachClear(t) ==
  /\ At(t, "detachClear")
  /\ attached' = FALSE
  /\ SetState(t, "Detached", "idle")
  /\ UNCHANGED <<state, platformVars>>

Connect(t, c) ==
  /\ At(t, "idle") /\ attached
  /\ C!ValidateConfiguration(c) = "None"
  /\ actor' = [actor EXCEPT ![t] = [pc |-> "load", target |-> "Connecting",
                                    then |-> "platformConnect", configuration |-> c]]
  /\ UNCHANGED <<state, attached, platformVars>>

ConnectFailsIgnored(t) ==
  /\ Goto(t, "idle")
  /\ UNCHANGED link

ConnectFails(t) ==
  /\ SetState(t, "Attached", "idle")
  /\ UNCHANGED link

PlatformConnect(t) ==
  /\ At(t, "platformConnect")
  /\ \/ /\ link' = IF link \in {"down", "lost"} THEN "opening" ELSE link
        /\ Goto(t, "idle")
     \/ ConnectFails(t)
  /\ UNCHANGED <<state, attached, sink, draining, events>>

Disconnect(t) ==
  /\ At(t, "idle") /\ attached
  /\ IF IsConnected THEN SetState(t, "Disconnecting", "platformDisconnect")
                    ELSE SetState(t, "Disconnected", "platformStop")
  /\ UNCHANGED <<state, attached, platformVars>>

Close == link' = CASE link \in {"opening", "up"} -> "closing"
                   [] link = "lost" -> "down"
                   [] OTHER -> link

PlatformStop(t) ==
  /\ At(t, "platformStop")
  /\ Close \/ UNCHANGED link
  /\ Goto(t, "idle")
  /\ UNCHANGED <<state, attached, sink, draining, events>>

(* A Disconnect that failed leaves a connection that is still there.       *)
DisconnectFails(t) ==
  IF IsConnected THEN SetState(t, "Connected", "idle") ELSE Goto(t, "idle")

PlatformDisconnect(t) ==
  /\ At(t, "platformDisconnect")
  /\ \/ Close /\ Goto(t, "idle")
     \/ DisconnectFails(t) /\ UNCHANGED link
  /\ UNCHANGED <<state, attached, sink, draining, events>>

-----------------------------------------------------------------------------
(* The platform: its connection, and what it has to tell about it.         *)
Emit(from, to, event) ==
  /\ link = from /\ Len(events) < MaxEvents
  /\ link' = to
  /\ events' = Append(events, event)
  /\ UNCHANGED <<state, attached, actor, sink, draining>>

Settle == \/ Emit("opening", "up", "connected")
          \/ Emit("opening", "lost", "disconnected")
          \/ Emit("closing", "down", "disconnected")

Lose == Emit("up", "lost", "disconnected")

ReceiveMessage == Emit("up", "up", "message")

(* A connection that was lost may be opened again without being asked.     *)
Reconnect == /\ link = "lost"
             /\ link' = "opening"
             /\ UNCHANGED <<state, attached, actor, sink, draining, events>>

(* OnPlatformWebSocketClient...: without a sink the event is lost; a       *)
(* message is forwarded to the observers and changes nothing.              *)
CallbackForgetful(event) ==
  IF event = "connected" THEN SetState(Native, "Connected", "idle") ELSE Goto(Native, "notify")

Callback(event) ==
  CASE event = "connected"    -> SetState(Native, "Connected", "idle")
    [] event = "disconnected" -> SetState(Native, "Disconnected", "idle")
    [] event = "message"      -> Goto(Native, "notify")

Deliver ==
  /\ At(Native, "idle") /\ events # <<>>
  /\ events' = Tail(events)
  /\ IF sink THEN Callback(Head(events)) ELSE UNCHANGED actor
  /\ UNCHANGED <<state, attached, link, sink, draining>>

-----------------------------------------------------------------------------
(* When _state may be wrong: a callback ran while the application was      *)
(* between looking and writing, or the platform was asked to connect what  *)
(* was not down.  A callback that nothing came between sets it right.      *)
Overlap == ~At(Native, "idle") /\ \E t \in Threads : actor[t].pc \notin OutsidePcs

NeedlessConnect == /\ link \notin {"down", "lost"}
                   /\ \E t \in Threads : At(t, "platformConnect") /\ ~At(t, "platformConnect")'

Observe ==
  trust' = IF Overlap' \/ NeedlessConnect THEN "stale"
           ELSE IF trust = "stale" /\ At(Native, "idle") /\ At(Native, "load")' THEN "healing"
           ELSE IF trust = "healing" /\ At(Native, "idle")' THEN "sound"
           ELSE trust

SetStateStep(a) == Load(a) \/ Store(a) \/ Notify(a)

Continue(t) ==
  \/ SetStateStep(t)
  \/ AttachSink(t) \/ AttachRead(t) \/ DetachSink(t) \/ DetachClear(t)
  \/ PlatformConnect(t) \/ PlatformStop(t) \/ PlatformDisconnect(t)

Call(t) == \/ Attach(t) \/ Detach(t) \/ Disconnect(t)
           \/ \E c \in Configurations : Connect(t, c)

Event == SetStateStep(Native) \/ Deliver

Step == \/ \E t \in Threads : Call(t) \/ Continue(t)
        \/ Event \/ Settle \/ Lose \/ ReceiveMessage \/ Reconnect

Next == Step /\ Observe

Spec == Init /\ [][Next]_vars

(* A call that was made goes on, the event thread runs, and a connection   *)
(* that is being opened or closed is opened, closed or given up.           *)
FairSpec == /\ Spec
            /\ \A t \in Threads : WF_vars(Continue(t) /\ Observe)
            /\ WF_vars(Event /\ Observe)
            /\ WF_vars(Settle /\ Observe)

-----------------------------------------------------------------------------
Quiet == events = <<>> /\ \A a \in Actors : At(a, "idle")

(* With no call and no event under way, _state is the truth about the      *)
(* platform: Connected while and only while there is a connection, no      *)
(* transient state without an attempt that will end it, Detached without a *)
(* platform.  After an unlucky interleaving this may fail, but only until  *)
(* the next event that the application does not interfere with.            *)
StateTracksPlatform ==
  Quiet /\ trust = "sound" =>
    /\ attached <=> state # "Detached"
    /\ attached /\ link = "up" => state = "Connected"
    /\ state = "Connected" => link \in {"up", "closing"}
    /\ state = "Connecting" => link = "opening"
    /\ state = "Disconnecting" => link = "closing"

(* Once Detach has returned, a platform that drains its sink calls nothing *)
(* of this client and has not written _state after it.                     *)
DetachedIsQuiet ==
  draining /\ ~attached /\ (\A t \in Threads : At(t, "idle")) =>
    ~sink /\ At(Native, "idle") /\ state = "Detached"

(* The platform is never asked to connect with what the validation exists  *)
(* to stop: headers beyond the bound by count or by their true size,       *)
(* reserved or malformed ones, credentials that would be ignored or that   *)
(* are half an identity.                                                   *)
PlatformGetsValidConfigurations ==
  \A t \in Threads : At(t, "platformConnect") => C!Acceptable(actor[t].configuration)

(* Connecting and Disconnecting end, whether the attempt succeeds, fails   *)
(* or is overtaken by other events, unless an interleaving disturbed them. *)
TransientStatesEnd ==
  \A s \in {"Connecting", "Disconnecting"} :
    state = s /\ trust = "sound" ~> state # s \/ trust # "sound"
=============================================================================
