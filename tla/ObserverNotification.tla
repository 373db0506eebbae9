------------------------- MODULE ObserverNotification -------------------------
(***************************************************************************)
(* How a WebSocketClient or WebSocketEndpoint hands a binary message to    *)
(* its observers (ClientObservable::Binary, EndpointObservable::Binary):   *)
(* the native thread calls those that are registered, one after the other, *)
(* while other threads register and release handles.  The observable is    *)
(* another library's: releasing a handle may or may not wait for a         *)
(* notification under way, and an observer that is gone by the time its    *)
(* turn comes may or may not be called.                                    *)
(***************************************************************************)
EXTENDS Naturals

CONSTANTS Packets,   \* what the platform receives
          NoPacket

ASSUME PacketsAssumption == NoPacket \notin Packets

VARIABLES
  observed,      \* the observers that are registered
  notification,  \* the notification under way: whose turn is still to come
  draining       \* releasing a handle waits for the notification under way

notificationVars == <<observed, notification, draining>>

Observers == {"transport", "clock"}

NotificationType == [packet : Packets \cup {NoPacket}, waiting : SUBSET Observers,
                     in : Observers \cup {"none"}]

Silent == [packet |-> NoPacket, waiting |-> {}, in |-> "none"]

InitNotification ==
  observed = {} /\ notification = Silent /\ draining \in BOOLEAN

Notify(packet) ==
  /\ notification = Silent /\ observed # {}
  /\ notification' = [packet |-> packet, waiting |-> observed, in |-> "none"]
  /\ UNCHANGED <<observed, draining>>

Turn(o) == notification.in = "none" /\ o \in notification.waiting

Waiting(o) == notification.waiting \ {o}

(* o's callback ends at once, or o is skipped; o's callback goes on; it    *)
(* ends.                                                                   *)
Pass(o)  == notification' = IF Waiting(o) = {} THEN Silent
                            ELSE [notification EXCEPT !.waiting = Waiting(o)]
Enter(o) == notification' = [notification EXCEPT !.waiting = Waiting(o), !.in = o]
Leave    == notification' = IF notification.waiting = {} THEN Silent
                            ELSE [notification EXCEPT !.in = "none"]

Skip(o) ==
  /\ Turn(o) /\ o \notin observed
  /\ Pass(o)
  /\ UNCHANGED <<observed, draining>>

(* RegisterObserver, which gives no handle when memory has run out.        *)
Register(o) == /\ observed' \in {observed, observed \cup {o}}
               /\ UNCHANGED <<notification, draining>>

(* handle.reset()                                                          *)
Release(o) == /\ draining => notification = Silent
              /\ observed' = observed \ {o}
              /\ UNCHANGED <<notification, draining>>
=============================================================================
