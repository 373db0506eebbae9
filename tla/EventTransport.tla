---------------------------- MODULE EventTransport ----------------------------
(***************************************************************************)
(* WebSocketServerEventTransport and WebSocketClientEventTransport         *)
(* (ESPressio_WebSocketEventTransport.hpp), which differ only in what they *)
(* observe and where they send.  An application thread attaches and        *)
(* detaches, any thread replaces the receiver, and the native thread hands *)
(* over packets: it takes the receiver under _receiverMutex and calls it   *)
(* after.  Send has no effect on the transport and is left out.            *)
(***************************************************************************)
EXTENDS ObserverNotification

CONSTANTS Receivers, NoReceiver,
          Limits     \* MaximumPacketBytes that Attach is called with

ASSUME TransportAssumption == NoReceiver \notin Receivers /\ Limits \subseteq Nat

VARIABLES
  source,      \* _endpoint or _client is not null
  limit,       \* _configuration.MaximumPacketBytes
  receiver,    \* _receiver
  detaching,   \* the application is inside Detach
  handing,     \* the native thread: the receiver it has taken
  introduced,  \* (history) the receivers set since the last Detach
  late         \* (history) a Detach has returned since the packet came

transportVars == <<source, limit, receiver, detaching, handing, introduced, late>>

TransportTypeOK ==
  /\ source \in BOOLEAN /\ limit \in Limits \cup {0}
  /\ receiver \in Receivers \cup {NoReceiver} /\ handing \in Receivers \cup {NoReceiver}
  /\ detaching \in BOOLEAN /\ late \in BOOLEAN /\ introduced \subseteq Receivers

InitTransport ==
  /\ source = FALSE /\ limit = 0 /\ detaching = FALSE
  /\ receiver = NoReceiver /\ handing = NoReceiver
  /\ introduced = {} /\ late = FALSE

-----------------------------------------------------------------------------
(* Definitions named after a mistake ("...Forgotten") are the mutants of   *)
(* the definition that follows them; nothing else uses them.               *)

(* A null handle is not noticed: Attach has succeeded and nothing arrives. *)
TransportAttach(maximum) ==
  /\ ~detaching /\ ~source /\ maximum # 0
  /\ source' = TRUE /\ limit' = maximum
  /\ Register("transport")
  /\ UNCHANGED <<receiver, detaching, handing, introduced, late>>

(* Detach, also of a transport that is not attached.                       *)
TransportRelease ==
  /\ ~detaching /\ detaching' = TRUE
  /\ Release("transport")
  /\ UNCHANGED <<source, limit, receiver, handing, introduced, late>>

TransportClearForgotten == UNCHANGED receiver

TransportClear == receiver' = NoReceiver

TransportDetached ==
  /\ detaching /\ detaching' = FALSE
  /\ source' = FALSE
  /\ TransportClear
  /\ introduced' = {} /\ late' = (notification # Silent)
  /\ UNCHANGED <<limit, handing, notificationVars>>

SetReceiver(r) ==
  /\ receiver' = r
  /\ introduced' = (introduced \cup {r}) \ {NoReceiver}
  /\ UNCHANGED <<source, limit, detaching, handing, late, notificationVars>>

(* OnWebSocketBinary, OnWebSocketClientBinary: the receiver is taken, ...  *)
Acceptable(size) == size # 0 /\ size <= limit

Take ==
  /\ Turn("transport")
  /\ IF receiver # NoReceiver /\ Acceptable(notification.packet.size)
     THEN Enter("transport") /\ handing' = receiver
     ELSE Pass("transport") /\ UNCHANGED handing
  /\ UNCHANGED <<source, limit, receiver, detaching, introduced, late, observed, draining>>

(* ... and called with a copy, or not when there is no memory for one.     *)
HandOver ==
  /\ notification.in = "transport"
  /\ Leave
  /\ handing' = NoReceiver
  /\ UNCHANGED <<source, limit, receiver, detaching, introduced, late, observed, draining>>

TransportNext ==
  \/ \E maximum \in Limits : TransportAttach(maximum)
  \/ TransportRelease \/ TransportDetached
  \/ \E r \in Receivers \cup {NoReceiver} : SetReceiver(r)
  \/ Take \/ HandOver

-----------------------------------------------------------------------------
(* A packet that comes after Detach has returned goes only to a receiver   *)
(* that was set after it, also when the transport is attached again, and   *)
(* is within the limit of the attachment it came under.  A packet that     *)
(* was being handed over may still reach the old receiver, unless          *)
(* releasing the handle waits.                                             *)
OldReceiversAreLeftAlone ==
  handing # NoReceiver =>
    \/ handing \in introduced /\ Acceptable(notification.packet.size)
    \/ late /\ ~draining
=============================================================================
