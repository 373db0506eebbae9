-------------------------- MODULE WebSocketMessaging --------------------------
(***************************************************************************)
(* An event transport and a clock synchronization client on one connection *)
(* (the configuration the two headers are made for): every binary message  *)
(* goes to both, each of which tells by itself what is not for it.         *)
(***************************************************************************)
EXTENDS EventTransport, ClockSynchronization

vars == <<notificationVars, transportVars, clockVars>>

TypeOK ==
  /\ TransportTypeOK /\ ClockTypeOK
  /\ observed \subseteq Observers /\ notification \in NotificationType /\ draining \in BOOLEAN

Init == InitNotification /\ InitTransport /\ InitClock

(* A packet arrives: an event of any size, or a response that is on its    *)
(* way, for the last time.                                                 *)
Arrive(packet) ==
  /\ Notify(packet)
  /\ packet.kind = "response" => packet.id \in answers
  /\ answers' = IF packet.kind = "response" THEN answers \ {packet.id} ELSE answers
  /\ late' = FALSE
  /\ UNCHANGED <<source, limit, receiver, detaching, handing, introduced,
                 client, timer, lifecycle, pending, last, call, sent, server, oldest, stray, mistaken>>

Next ==
  \/ \E packet \in Packets : Arrive(packet)
  \/ (\E o \in Observers : Skip(o)) /\ UNCHANGED <<transportVars, clockVars>>
  \/ TransportNext /\ UNCHANGED clockVars
  \/ ClockNext /\ UNCHANGED transportVars

Spec == Init /\ [][Next]_vars
=============================================================================
