----------------------- MODULE WebSocketMessaging_proofs -----------------------
(***************************************************************************)
(* Proofs that an event transport and a clock synchronization client on    *)
(* one connection keep their safety properties for every set of packets,   *)
(* receivers and limits, any number of requests, and observables that      *)
(* drain and that do not.                                                  *)
(***************************************************************************)
EXTENDS WebSocketMessaging, TLAPS

(* The transport is told, or will be told, of the packet under way.        *)
Involved == notification.in = "transport" \/ "transport" \in notification.waiting

(* Only an attached transport is involved in a new packet.  One that was   *)
(* detached since is involved only if releasing its handle did not wait.   *)
TransportInv ==
  /\ "transport" \in observed => source /\ ~detaching
  /\ receiver # NoReceiver => receiver \in introduced
  /\ handing # NoReceiver => notification.in = "transport"
  /\ Involved /\ ~source => late /\ ~draining
  /\ Involved /\ detaching => ~draining

(* A response under way is for a request; what is pending belongs to this  *)
(* attachment or was built by a call that Detach overtook; the periodic    *)
(* thread calls only while it runs, and runs only while there is a client. *)
ClockInv ==
  /\ notification.waiting # {} /\ notification.packet.kind = "response" =>
       notification.packet.id \in Requests
  /\ oldest <= last + 1
  /\ pending # 0 => pending >= oldest \/ pending = stray
  /\ ~timer => At(Timer, "idle")
  /\ ~client => ~timer /\ "clock" \notin observed
  /\ lifecycle \in {"release", "cancel"} => ~timer

-----------------------------------------------------------------------------
(* What a notification's callbacks do to it keeps its type.                *)
LEMMA NotificationTyped ==
  ASSUME NEW o \in Observers, notification \in NotificationType,
         notification # Silent, Pass(o) \/ Enter(o) \/ Leave
  PROVE  notification' \in NotificationType
<1>1. Silent \in NotificationType
  BY DEF NotificationType, Silent
<1>2. CASE Pass(o)
  BY <1>1, <1>2 DEF NotificationType, Waiting, Pass
<1>3. CASE Enter(o)
  BY <1>3 DEF NotificationType, Waiting, Enter
<1>4. CASE Leave
  BY <1>1, <1>4 DEF NotificationType, Leave
<1> QED
  BY <1>2, <1>3, <1>4

LEMMA TurnIsLoud == \A o \in Observers : Turn(o) => notification # Silent
BY DEF Turn, Silent

LEMMA BoundIsNatural == MaxRequests \in Nat
BY ClockAssumption

LEMMA TypeInit == Init => TypeOK
<1> SUFFICES ASSUME Init PROVE TypeOK
  OBVIOUS
<1>1. TransportTypeOK
  BY DEF Init, InitTransport, TransportTypeOK
<1>2. ClockTypeOK
  <2>1. Idle \in CallType
    BY DEF Idle, CallType
  <2>2. call \in [Callers -> CallType]
    BY <2>1 DEF Init, InitClock
  <2>3. /\ pending \in 0..MaxRequests /\ last \in 0..MaxRequests
        /\ oldest \in 1..MaxRequests + 1 /\ stray \in 0..MaxRequests
    BY BoundIsNatural DEF Init, InitClock
  <2> QED
    BY <2>2, <2>3 DEF Init, InitClock, ClockTypeOK
<1>3. observed \subseteq Observers /\ notification \in NotificationType /\ draining \in BOOLEAN
  BY DEF Init, InitNotification, Silent, NotificationType
<1> QED
  BY <1>1, <1>2, <1>3 DEF TypeOK

LEMMA TransportTyped ==
  ASSUME TypeOK, TransportNext
  PROVE  /\ TransportTypeOK'
         /\ observed' \subseteq Observers /\ notification' \in NotificationType
         /\ draining' \in BOOLEAN
<1> USE DEF TypeOK, TransportTypeOK, Observers, notificationVars
<1>1. ASSUME NEW maximum \in Limits, TransportAttach(maximum)
      PROVE  /\ TransportTypeOK'
             /\ observed' \subseteq Observers /\ notification' \in NotificationType
             /\ draining' \in BOOLEAN
  BY <1>1 DEF TransportAttach, Register
<1>2. CASE TransportRelease \/ TransportDetached
  BY <1>2 DEF TransportRelease, Release, TransportDetached, TransportClear
<1>3. ASSUME NEW r \in Receivers \cup {NoReceiver}, SetReceiver(r)
      PROVE  /\ TransportTypeOK'
             /\ observed' \subseteq Observers /\ notification' \in NotificationType
             /\ draining' \in BOOLEAN
  BY <1>3 DEF SetReceiver
<1>4. CASE Take
  <2>1. notification' \in NotificationType
    BY <1>4, NotificationTyped, TurnIsLoud DEF Take
  <2> QED
    BY <1>4, <2>1 DEF Take
<1>5. CASE HandOver
  <2>1. notification' \in NotificationType
    BY <1>5, NotificationTyped DEF HandOver, Silent
  <2> QED
    BY <1>5, <2>1 DEF HandOver
<1> QED
  BY <1>1, <1>2, <1>3, <1>4, <1>5 DEF TransportNext

LEMMA ClockTyped ==
  ASSUME TypeOK, ClockNext
  PROVE  /\ ClockTypeOK'
         /\ observed' \subseteq Observers /\ notification' \in NotificationType
         /\ draining' \in BOOLEAN
<1> USE BoundIsNatural DEF TypeOK, ClockTypeOK, Observers, notificationVars
<1> DEFINE Typed == /\ ClockTypeOK'
                    /\ observed' \subseteq Observers /\ notification' \in NotificationType
                    /\ draining' \in BOOLEAN
<1>1. ASSUME NEW automatic \in BOOLEAN, NEW starts \in BOOLEAN, ClockAttach(automatic, starts)
      PROVE  Typed
  BY <1>1 DEF ClockAttach, Register
<1>2. CASE ClockDetach \/ Shutdown \/ ClockRelease \/ ClockDetached
  <2>1. CASE ClockDetach \/ Shutdown
    BY <2>1 DEF ClockDetach, Shutdown
  <2>2. CASE ClockRelease
    BY <2>2 DEF ClockRelease, Release
  <2>3. CASE ClockDetached
    BY <2>3 DEF ClockDetached, CancelPendingRequest
  <2> QED
    BY <1>2, <2>1, <2>2, <2>3
<1>3. ASSUME NEW c \in Callers, RequestSynchronization(c)
      PROVE  Typed
  <2>1. [call[c] EXCEPT !.pc = "build"] \in CallType
    BY <1>3 DEF RequestSynchronization, At, CallType
  <2> QED
    BY <1>3, <2>1 DEF RequestSynchronization
<1>4. Idle \in CallType
  BY DEF Idle, CallType
<1>5. ASSUME NEW c \in Callers, BuildRequest(c)
      PROVE  Typed
  <2>1. last < MaxRequests => [pc |-> "send", id |-> last + 1] \in CallType
    BY DEF CallType, Requests
  <2> QED
    BY <1>4, <1>5, <2>1 DEF BuildRequest
<1>6. ASSUME NEW c \in Callers, SendRequest(c)
      PROVE  Typed
  <2>1. call[c].id \in Requests
    BY <1>6 DEF SendRequest, At, CallType
  <2> QED
    BY <1>4, <1>6, <2>1 DEF SendRequest, SendFailed, CancelPendingRequest
<1>7. CASE ClockOnBinary
  <2>1. notification' \in NotificationType
    BY <1>7, NotificationTyped, TurnIsLoud DEF ClockOnBinary
  <2> QED
    BY <1>7, <2>1 DEF ClockOnBinary
<1>8. ASSUME \/ ServerAttach \/ ServerDetach
             \/ \E id \in Requests : ServerOnBinary(id)
      PROVE  Typed
  BY <1>8 DEF ServerAttach, ServerDetach, ServerVars, ServerOnBinary
<1> QED
  BY <1>1, <1>2, <1>3, <1>5, <1>7, <1>8, <1>6 DEF ClockNext

LEMMA TypeStep == ASSUME TypeOK, [Next]_vars PROVE TypeOK'
<1>1. ASSUME NEW packet \in Packets, Arrive(packet)
      PROVE  TypeOK'
  <2>1. notification' \in NotificationType
    BY <1>1 DEF Arrive, Notify, NotificationType, TypeOK
  <2> QED
    BY <1>1, <2>1 DEF Arrive, Notify, TypeOK, TransportTypeOK, ClockTypeOK
<1>2. ASSUME NEW o \in Observers, Skip(o), UNCHANGED <<transportVars, clockVars>>
      PROVE  TypeOK'
  <2>1. notification' \in NotificationType
    BY <1>2, NotificationTyped, TurnIsLoud DEF Skip, TypeOK
  <2> QED
    BY <1>2, <2>1 DEF Skip, TypeOK, TransportTypeOK, ClockTypeOK, transportVars, clockVars
<1>3. CASE TransportNext /\ UNCHANGED clockVars
  BY <1>3, TransportTyped DEF TypeOK, ClockTypeOK, clockVars
<1>4. CASE ClockNext /\ UNCHANGED transportVars
  BY <1>4, ClockTyped DEF TypeOK, TransportTypeOK, transportVars
<1>5. CASE UNCHANGED vars
  BY <1>5 DEF vars, notificationVars, transportVars, clockVars, TypeOK, TransportTypeOK, ClockTypeOK
<1> QED
  BY <1>1, <1>2, <1>3, <1>4, <1>5 DEF Next

(* Every variable keeps its type.                                          *)
THEOREM TypeCorrect == Spec => []TypeOK
BY TypeInit, TypeStep, PTL DEF Spec

-----------------------------------------------------------------------------
(* The transport, step by step.                                            *)
OldReceiversInv == TransportInv /\ OldReceiversAreLeftAlone

LEMMA TransportSteps ==
  ASSUME TypeOK, OldReceiversInv, TransportNext
  PROVE  OldReceiversInv'
<1> USE TransportAssumption
    DEF OldReceiversInv, TransportInv, OldReceiversAreLeftAlone, Involved, Acceptable,
        TypeOK, TransportTypeOK, notificationVars
<1>1. ASSUME NEW maximum \in Limits, TransportAttach(maximum)
      PROVE  OldReceiversInv'
  BY <1>1 DEF TransportAttach, Register
<1>2. CASE TransportRelease
  BY <1>2 DEF TransportRelease, Release, Silent
<1>3. CASE TransportDetached
  BY <1>3 DEF TransportDetached, TransportClear, Silent
<1>4. ASSUME NEW r \in Receivers \cup {NoReceiver}, SetReceiver(r)
      PROVE  OldReceiversInv'
  BY <1>4 DEF SetReceiver
<1>5. CASE Take
  <2>1. CASE receiver # NoReceiver /\ Acceptable(notification.packet.size)
    BY <1>5, <2>1 DEF Take, Turn, Enter, Waiting, NotificationType
  <2>2. CASE ~(receiver # NoReceiver /\ Acceptable(notification.packet.size))
    BY <1>5, <2>2 DEF Take, Turn, Pass, Waiting, Silent, NotificationType
  <2> QED
    BY <2>1, <2>2
<1>6. CASE HandOver
  BY <1>6 DEF HandOver, Leave, Silent, NotificationType
<1> QED
  BY <1>1, <1>2, <1>3, <1>4, <1>5, <1>6 DEF TransportNext

(* What others do with the notification does not involve the transport.    *)
LEMMA OtherTurns ==
  ASSUME TypeOK, OldReceiversInv, NEW o \in Observers, Turn(o), Pass(o),
         UNCHANGED <<transportVars, draining>>,
         "transport" \in observed' => "transport" \in observed
  PROVE  OldReceiversInv'
BY DEF OldReceiversInv, TransportInv, OldReceiversAreLeftAlone, Involved, Acceptable,
       TypeOK, NotificationType, Turn, Pass, Waiting, Silent, transportVars

LEMMA TransportUntouched ==
  ASSUME OldReceiversInv, UNCHANGED <<transportVars, notification, draining>>,
         "transport" \in observed' => "transport" \in observed
  PROVE  OldReceiversInv'
BY DEF OldReceiversInv, TransportInv, OldReceiversAreLeftAlone, Involved, Acceptable, transportVars

LEMMA OldReceiversStep == ASSUME TypeOK, OldReceiversInv, [Next]_vars PROVE OldReceiversInv'
<1>1. ASSUME NEW packet \in Packets, Arrive(packet)
      PROVE  OldReceiversInv'
  BY <1>1 DEF Arrive, Notify, Silent, OldReceiversInv, TransportInv, OldReceiversAreLeftAlone,
              Involved, TypeOK, TransportTypeOK
<1>2. ASSUME NEW o \in Observers, Skip(o), UNCHANGED <<transportVars, clockVars>>
      PROVE  OldReceiversInv'
  BY <1>2, OtherTurns DEF Skip
<1>3. CASE TransportNext
  BY <1>3, TransportSteps
<1>4. CASE ClockNext /\ UNCHANGED transportVars
  <2>1. CASE ClockOnBinary
    BY <1>4, <2>1, OtherTurns DEF ClockOnBinary, Observers
  <2>2. CASE ~ClockOnBinary
    <3>1. UNCHANGED <<notification, draining>> /\ ("transport" \in observed' => "transport" \in observed)
      BY <1>4, <2>2 DEF ClockNext, ClockAttach, Register, ClockDetach, Shutdown, ClockRelease, Release,
         ClockDetached, RequestSynchronization, BuildRequest, SendRequest, ServerAttach, ServerDetach,
         ServerVars, ServerOnBinary, notificationVars
    <3> QED
      BY <1>4, <3>1, TransportUntouched
  <2> QED
    BY <2>1, <2>2
<1>5. CASE UNCHANGED vars
  BY <1>5, TransportUntouched DEF vars, notificationVars
<1> QED
  BY <1>1, <1>2, <1>3, <1>4, <1>5 DEF Next

(* A packet that comes after Detach has returned goes only to a receiver   *)
(* set after it; only one that was on its way may reach the old receiver,  *)
(* and only when releasing the handle does not wait.                       *)
THEOREM OldReceiversStayAlone == Spec => []OldReceiversAreLeftAlone
<1>1. Init => OldReceiversInv
  BY DEF Init, InitNotification, InitTransport, Silent, OldReceiversInv, TransportInv, Involved,
         OldReceiversAreLeftAlone
<1>2. OldReceiversInv => OldReceiversAreLeftAlone
  BY DEF OldReceiversInv
<1> QED
  BY <1>1, <1>2, TypeCorrect, OldReceiversStep, PTL DEF Spec

-----------------------------------------------------------------------------
(* The clock, step by step.                                                *)
ExchangeInv == ClockInv /\ PendingWasSent /\ DetachEndsTheExchange

LEMMA ClockSteps ==
  ASSUME TypeOK, ExchangeInv, ClockNext
  PROVE  ExchangeInv'
<1> USE BoundIsNatural
    DEF ExchangeInv, ClockInv, PendingWasSent, DetachEndsTheExchange, At, Callers, Idle,
        Requests, TypeOK, ClockTypeOK, notificationVars
<1>1. ASSUME NEW automatic \in BOOLEAN, NEW starts \in BOOLEAN, ClockAttach(automatic, starts)
      PROVE  ExchangeInv'
  BY <1>1 DEF ClockAttach, Register
<1>2. CASE ClockDetach
  BY <1>2 DEF ClockDetach
<1>3. CASE Shutdown
  BY <1>3 DEF Shutdown
<1>4. CASE ClockRelease
  BY <1>4 DEF ClockRelease, Release
<1>5. CASE ClockDetached
  BY <1>5 DEF ClockDetached, CancelPendingRequest
<1>6. ASSUME NEW c \in Callers, RequestSynchronization(c)
      PROVE  ExchangeInv'
  BY <1>6 DEF RequestSynchronization
<1>7. ASSUME NEW c \in Callers, BuildRequest(c)
      PROVE  ExchangeInv'
  BY <1>7 DEF BuildRequest
<1>8. ASSUME NEW c \in Callers, SendRequest(c)
      PROVE  ExchangeInv'
  BY <1>8 DEF SendRequest, SendFailed, CancelPendingRequest
<1>9. CASE ClockOnBinary
  BY <1>9 DEF ClockOnBinary, Turn, Pass, Waiting, Silent, NotificationType
<1>10. CASE ServerAttach \/ ServerDetach \/ \E id \in Requests : ServerOnBinary(id)
  BY <1>10 DEF ServerAttach, ServerDetach, ServerVars, ServerOnBinary
<1> QED
  BY <1>1, <1>2, <1>3, <1>4, <1>5, <1>6, <1>7, <1>8, <1>9, <1>10 DEF ClockNext, Callers

LEMMA ClockUntouched ==
  ASSUME ExchangeInv, UNCHANGED <<client, timer, lifecycle, pending, last, call, sent, oldest,
                                  stray, mistaken>>,
         "clock" \in observed' => "clock" \in observed,
         notification'.waiting # {} =>
           notification.waiting # {} /\ notification'.packet = notification.packet
  PROVE  ExchangeInv'
BY DEF ExchangeInv, ClockInv, PendingWasSent, DetachEndsTheExchange, At

LEMMA CallbacksKeepThePacket ==
  ASSUME NEW o \in Observers, notification \in NotificationType,
         (Turn(o) /\ (Pass(o) \/ Enter(o))) \/ Leave
  PROVE  notification'.waiting # {} =>
           notification.waiting # {} /\ notification'.packet = notification.packet
<1>1. CASE Turn(o) /\ Pass(o)
  BY <1>1 DEF NotificationType, Turn, Waiting, Pass, Silent
<1>2. CASE Turn(o) /\ Enter(o)
  BY <1>2 DEF NotificationType, Turn, Waiting, Enter
<1>3. CASE Leave
  BY <1>3 DEF NotificationType, Leave, Silent
<1> QED
  BY <1>1, <1>2, <1>3

LEMMA ExchangeStep == ASSUME TypeOK, ExchangeInv, [Next]_vars PROVE ExchangeInv'
<1>1. ASSUME NEW packet \in Packets, Arrive(packet)
      PROVE  ExchangeInv'
  <2>1. packet.kind = "response" => packet.id \in Requests
    BY <1>1 DEF Arrive, TypeOK, ClockTypeOK
  <2>2. notification'.packet = packet
    BY <1>1 DEF Arrive, Notify
  <2> QED
    BY <1>1, <2>1, <2>2 DEF Arrive, Notify, ExchangeInv, ClockInv, PendingWasSent,
       DetachEndsTheExchange, At
<1>2. ASSUME NEW o \in Observers, Skip(o), UNCHANGED <<transportVars, clockVars>>
      PROVE  ExchangeInv'
  BY <1>2, ClockUntouched, CallbacksKeepThePacket DEF Skip, TypeOK, clockVars
<1>3. CASE TransportNext /\ UNCHANGED clockVars
  <2>1. CASE Take \/ HandOver
    BY <1>3, <2>1, ClockUntouched, CallbacksKeepThePacket
       DEF Take, HandOver, Observers, TypeOK, clockVars
  <2>2. CASE ~(Take \/ HandOver)
    <3>1. UNCHANGED notification /\ ("clock" \in observed' => "clock" \in observed)
      BY <1>3, <2>2 DEF TransportNext, TransportAttach, Register, TransportRelease, Release,
         TransportDetached, SetReceiver, notificationVars
    <3> QED
      BY <1>3, <3>1, ClockUntouched DEF clockVars
  <2> QED
    BY <2>1, <2>2
<1>4. CASE ClockNext
  BY <1>4, ClockSteps
<1>5. CASE UNCHANGED vars
  BY <1>5, ClockUntouched DEF vars, notificationVars, clockVars
<1> QED
  BY <1>1, <1>2, <1>3, <1>4, <1>5 DEF Next

LEMMA ExchangeIsInvariant == Spec => []ExchangeInv
<1>1. Init => ExchangeInv
  BY DEF Init, InitNotification, InitClock, Silent, ExchangeInv, ClockInv, PendingWasSent,
         DetachEndsTheExchange, At, Idle, Callers
<1> QED
  BY <1>1, TypeCorrect, ExchangeStep, PTL DEF Spec

(* A request that waits for its response was given to a connection or is   *)
(* about to be, whatever sends fail and whoever else builds requests.      *)
THEOREM PendingIsSent == Spec => []PendingWasSent
<1>1. ExchangeInv => PendingWasSent
  BY DEF ExchangeInv
<1> QED
  BY <1>1, ExchangeIsInvariant, PTL

(* Detach leaves no thread, no observer and nothing a late response could  *)
(* complete; no response ever sets the clock of a later attachment.        *)
THEOREM DetachEnds == Spec => []DetachEndsTheExchange
<1>1. ExchangeInv => DetachEndsTheExchange
  BY DEF ExchangeInv
<1> QED
  BY <1>1, ExchangeIsInvariant, PTL

=============================================================================
