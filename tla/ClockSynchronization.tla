-------------------------- MODULE ClockSynchronization --------------------------
(***************************************************************************)
(* WebSocketClockSynchronizationClient and -Server                         *)
(* (ESPressio_WebSocketClockSynchronization.hpp).  RequestSynchronization  *)
(* is called by the client's periodic thread and by the application; it    *)
(* reads _client, builds a request and sends it, with nothing to hold      *)
(* these together, while Attach and Detach run and responses arrive on     *)
(* the native thread, late or never.                                       *)
(*                                                                         *)
(* The protocol that numbers requests and knows the pending one, the       *)
(* thread and the connection are other libraries'; Shutdown returns when   *)
(* the periodic thread has left its iteration.                             *)
(***************************************************************************)
EXTENDS ObserverNotification

CONSTANTS Timer, User,   \* the periodic thread, an application thread
          MaxRequests    \* bound

VARIABLES
  client,     \* _client is not null
  timer,      \* _thread runs
  lifecycle,  \* where the application's Attach or Detach is
  pending,    \* the protocol: the request that waits for its response, or 0
  last,       \* the protocol: the last request built
  call,       \* per thread, where its RequestSynchronization is
  sent,       \* requests given to a connection
  answers,    \* responses on their way
  server,     \* the server is attached
  oldest,     \* (history) the first request of this attachment
  stray,      \* (history) the request built by a call that Detach overtook
  mistaken    \* (history) a response changed the clock of a later attachment

clockVars == <<client, timer, lifecycle, pending, last, call, sent, answers,
               server, oldest, stray, mistaken>>

Callers  == {Timer, User}
Requests == 1..MaxRequests

ASSUME ClockAssumption ==
  /\ Timer # User /\ MaxRequests \in Nat
  /\ \A id \in Requests : [kind |-> "response", size |-> 1, id |-> id] \in Packets

Idle == [pc |-> "idle", id |-> 0]

CallType == [pc : {"idle", "build"}, id : {0}] \cup [pc : {"send"}, id : Requests]

ClockTypeOK ==
  /\ client \in BOOLEAN /\ timer \in BOOLEAN
  /\ lifecycle \in {"idle", "shutdown", "release", "cancel"}
  /\ pending \in 0..MaxRequests /\ last \in 0..MaxRequests
  /\ call \in [Callers -> CallType]
  /\ sent \subseteq Requests /\ answers \subseteq sent
  /\ server \in BOOLEAN
  /\ oldest \in 1..MaxRequests + 1 /\ stray \in 0..MaxRequests /\ mistaken \in BOOLEAN

InitClock ==
  /\ client = FALSE /\ timer = FALSE /\ lifecycle = "idle"
  /\ pending = 0 /\ last = 0 /\ call = [c \in Callers |-> Idle]
  /\ sent = {} /\ answers = {} /\ server = FALSE
  /\ oldest = 1 /\ stray = 0 /\ mistaken = FALSE

-----------------------------------------------------------------------------
(* Definitions named after a mistake ("...Ignored", "...Uncancelled") are  *)
(* the mutants of the definition that follows them; nothing else uses them.*)

(* Without AutomaticSynchronization there is no periodic thread; when it   *)
(* cannot be started Attach detaches again.                                *)
ClockAttach(automatic, starts) ==
  /\ lifecycle = "idle" /\ ~client
  /\ client' = TRUE /\ oldest' = last + 1
  /\ Register("clock")
  /\ timer' = (automatic /\ starts)
  /\ lifecycle' = IF automatic /\ ~starts THEN "shutdown" ELSE "idle"
  /\ UNCHANGED <<pending, last, call, sent, answers, server, stray, mistaken>>

ClockDetach ==
  /\ lifecycle = "idle" /\ lifecycle' = "shutdown"
  /\ UNCHANGED <<client, timer, pending, last, call, sent, answers, server, oldest, stray, mistaken,
                 notificationVars>>

Shutdown ==
  /\ lifecycle = "shutdown" /\ call[Timer].pc = "idle"
  /\ timer' = FALSE /\ lifecycle' = "release"
  /\ UNCHANGED <<client, pending, last, call, sent, answers, server, oldest, stray, mistaken,
                 notificationVars>>

ClockRelease ==
  /\ lifecycle = "release" /\ lifecycle' = "cancel"
  /\ Release("clock")
  /\ client' = FALSE
  /\ UNCHANGED <<timer, pending, last, call, sent, answers, server, oldest, stray, mistaken>>

CancelPendingRequest == pending' = 0

ClockDetachedUncancelled ==
  /\ lifecycle = "cancel" /\ lifecycle' = "idle"
  /\ UNCHANGED <<client, timer, pending, last, call, sent, answers, server, oldest, stray,
                 mistaken, notificationVars>>

ClockDetached ==
  /\ lifecycle = "cancel" /\ lifecycle' = "idle"
  /\ CancelPendingRequest
  /\ UNCHANGED <<client, timer, last, call, sent, answers, server, oldest, stray, mistaken,
                 notificationVars>>

-----------------------------------------------------------------------------
At(c, pc) == call[c].pc = pc

(* RequestSynchronization: without a client or an open connection it is    *)
(* over, and a stuttering step.                                            *)
RequestSynchronization(c) ==
  /\ At(c, "idle") /\ client
  /\ c = Timer => timer
  /\ call' = [call EXCEPT ![c].pc = "build"]
  /\ UNCHANGED <<client, timer, lifecycle, pending, last, sent, answers, server, oldest, stray,
                 mistaken, notificationVars>>

(* BuildRequest may refuse while another request is pending, or take its   *)
(* place.                                                                  *)
BuildRequest(c) ==
  /\ At(c, "build")
  /\ \/ /\ last < MaxRequests
        /\ last' = last + 1 /\ pending' = last + 1
        /\ call' = [call EXCEPT ![c] = [pc |-> "send", id |-> last + 1]]
        /\ stray' = IF client \/ c = Timer THEN stray ELSE last + 1
     \/ /\ call' = [call EXCEPT ![c] = Idle]
        /\ UNCHANGED <<last, pending, stray>>
  /\ UNCHANGED <<client, timer, lifecycle, sent, answers, server, oldest, mistaken, notificationVars>>

SendFailedIgnored == UNCHANGED pending

(* The request that is cancelled may be the other caller's.                *)
SendFailed == CancelPendingRequest

SendRequest(c) ==
  /\ At(c, "send")
  /\ \/ sent' = sent \cup {call[c].id} /\ UNCHANGED pending
     \/ SendFailed /\ UNCHANGED sent
  /\ call' = [call EXCEPT ![c] = Idle]
  /\ UNCHANGED <<client, timer, lifecycle, last, answers, server, oldest, stray, mistaken,
                 notificationVars>>

(* OnWebSocketClientBinary: whatever is not a response of this protocol    *)
(* leaves the pending request alone.                                       *)
ClockOnBinary ==
  /\ Turn("clock") /\ Pass("clock")
  /\ LET p == notification.packet
         answered == p.kind = "response" /\ p.id = pending
     IN  /\ pending' = IF answered THEN 0 ELSE pending
         /\ mistaken' = (mistaken \/ (answered /\ p.id < oldest /\ p.id # stray))
  /\ UNCHANGED <<client, timer, lifecycle, last, call, sent, answers, server, oldest, stray,
                 observed, draining>>

-----------------------------------------------------------------------------
(* The server, which may have no observer handle or fail to send its       *)
(* answer: a request need not be answered.                                 *)
ServerVars(s) == /\ server' = s
                 /\ UNCHANGED <<client, timer, lifecycle, pending, last, call, sent, answers,
                                oldest, stray, mistaken, notificationVars>>

ServerAttach == ~server /\ ServerVars(TRUE)

ServerDetach == server /\ ServerVars(FALSE)

ServerOnBinary(id) ==
  /\ server /\ id \in sent
  /\ answers' = answers \cup {id}
  /\ UNCHANGED <<client, timer, lifecycle, pending, last, call, sent, server, oldest, stray,
                 mistaken, notificationVars>>

ClockNext ==
  \/ \E automatic, starts \in BOOLEAN : ClockAttach(automatic, starts)
  \/ ClockDetach \/ Shutdown \/ ClockRelease \/ ClockDetached
  \/ \E c \in Callers : RequestSynchronization(c) \/ BuildRequest(c) \/ SendRequest(c)
  \/ ClockOnBinary
  \/ ServerAttach \/ ServerDetach \/ \E id \in Requests : ServerOnBinary(id)

-----------------------------------------------------------------------------
(* A request that waits for its response was sent, or is about to be by    *)
(* the call that built it: a send that fails, also when another caller     *)
(* built a request meanwhile, leaves nothing pending that no response can  *)
(* ever answer.                                                            *)
PendingWasSent ==
  pending # 0 => \/ pending \in sent
                 \/ \E c \in Callers : At(c, "send") /\ call[c].id = pending

(* After Detach the periodic thread is stopped and nothing is pending that *)
(* a late response could complete, and no response to a request of an      *)
(* earlier attachment ever sets the clock in a later one.  The exception   *)
(* is a request that the application builds after Detach because it had    *)
(* looked at _client before.                                               *)
DetachEndsTheExchange ==
  /\ lifecycle = "idle" /\ ~client =>
       ~timer /\ "clock" \notin observed /\ pending \in {0, stray}
  /\ ~mistaken
=============================================================================
