--------------------------- MODULE HttpServer_proofs ---------------------------
(***************************************************************************)
(* Proofs that HttpServer keeps its safety properties for every number of  *)
(* threads, requests, handlers and configurations, on draining and on      *)
(* other platforms; then that DnsServer, the other facade, keeps the same  *)
(* lifecycle and answers its queries.                                      *)
(***************************************************************************)
EXTENDS HttpServer, TLAPS

USE DEF Owning, InitializePcs, StartPcs, StopPcs, Pcs, States, AfterNotify

(* Type correctness: the null handler never handles a request.             *)
LEMMA TypeInit == Init => TypeOK
BY ConstantsAssumption DEF Init, TypeOK, RequestType, Idle

LEMMA GotoTyped ==
  ASSUME TypeOK, NEW t \in Threads, NEW next \in Pcs, Goto(t, next)
  PROVE  pc' \in [Threads -> Pcs]
BY DEF TypeOK, Goto

LEMMA ChangeTyped ==
  ASSUME TypeOK, NEW t \in Threads, NEW new \in States, NEW next \in Pcs,
         Change(t, new, next)
  PROVE  /\ state' \in States
         /\ pc' \in [Threads -> Pcs]
         /\ note' \in [Threads -> States \X States]
BY DEF TypeOK, Change

LEMMA TypeStep == ASSUME TypeOK, [Next]_vars PROVE TypeOK'
<1> USE ConstantsAssumption
<1>1. ASSUME NEW t \in Threads, NEW c \in Configurations, Initialize(t, c)
      PROVE TypeOK'
  BY <1>1 DEF Initialize, Callable, Change, TypeOK, platformVars
<1>2. ASSUME NEW t \in Threads, Start(t)
      PROVE TypeOK'
  BY <1>2 DEF Start, Callable, Change, TypeOK, platformVars
<1>3. ASSUME NEW t \in Threads, StopSection(t)
      PROVE /\ state' \in States
            /\ pc' \in [Threads -> Pcs]
            /\ note' \in [Threads -> States \X States]
  <2>1. CASE state = "Running"
    BY <1>3, <2>1, ChangeTyped DEF StopSection
  <2>2. CASE state # "Running"
    BY <1>3, <2>2, ChangeTyped DEF StopSection
  <2> QED
    BY <2>1, <2>2
<1>4. ASSUME NEW t \in Threads, Stop(t)
      PROVE TypeOK'
  BY <1>4, <1>3 DEF Stop, TypeOK, platformVars
<1>5. ASSUME NEW t \in Threads, Destruct(t)
      PROVE TypeOK'
  BY <1>5, <1>3 DEF Destruct, TypeOK, platformVars
<1>6. ASSUME NEW t \in Threads, NotifyStateChanged(t)
      PROVE TypeOK'
  <2>1. note[t][2] \in States
    BY DEF TypeOK
  <2> QED
    BY <1>6, <2>1 DEF NotifyStateChanged, Goto, TypeOK, serverVars, platformVars
<1>7. ASSUME NEW t \in Threads, PlatformInitialize(t)
      PROVE TypeOK'
  <2>1. pc' \in [Threads -> Pcs]
    BY <1>7, GotoTyped DEF PlatformInitialize
  <2>2. ok' \in [Threads -> BOOLEAN]
    BY <1>7 DEF PlatformInitialize, TypeOK
  <2>3. /\ platform' \in {"reset", "initialized", "running", "closing"}
        /\ installed' \in Configurations \cup {DefaultConfiguration}
    BY <1>7 DEF PlatformInitialize, TypeOK, platformVars
  <2>4. UNCHANGED <<serverVars, note, arg, seen, requests>>
    BY <1>7 DEF PlatformInitialize
  <2> QED
    BY <2>1, <2>2, <2>3, <2>4 DEF TypeOK, serverVars
<1>8. ASSUME NEW t \in Threads, PlatformStart(t)
      PROVE TypeOK'
  <2>1. pc' \in [Threads -> Pcs]
    BY <1>8, GotoTyped DEF PlatformStart
  <2>2. ok' \in [Threads -> BOOLEAN]
    BY <1>8 DEF PlatformStart, TypeOK
  <2>3. /\ platform' \in {"reset", "initialized", "running", "closing"}
        /\ installed' \in Configurations \cup {DefaultConfiguration}
    BY <1>8 DEF PlatformStart, TypeOK, platformVars
  <2>4. UNCHANGED <<serverVars, note, arg, seen, requests>>
    BY <1>8 DEF PlatformStart
  <2> QED
    BY <2>1, <2>2, <2>3, <2>4 DEF TypeOK, serverVars
<1>9. ASSUME NEW t \in Threads, PlatformClose(t)
      PROVE TypeOK'
  BY <1>9 DEF PlatformClose, TypeOK, serverVars, threadVars
<1>10. ASSUME NEW t \in Threads, PlatformStop(t)
      PROVE TypeOK'
  <2>1. pc' \in [Threads -> Pcs]
    BY <1>10, GotoTyped DEF PlatformStop
  <2>2. ok' \in [Threads -> BOOLEAN]
    BY <1>10 DEF PlatformStop, TypeOK
  <2>3. /\ platform' \in {"reset", "initialized", "running", "closing"}
        /\ installed' \in Configurations \cup {DefaultConfiguration}
    BY <1>10 DEF PlatformStop, TypeOK, platformVars
  <2>4. UNCHANGED <<serverVars, note, arg, seen, requests>>
    BY <1>10 DEF PlatformStop
  <2> QED
    BY <2>1, <2>2, <2>3, <2>4 DEF TypeOK, serverVars
<1>11. ASSUME NEW t \in Threads, PlatformReset(t)
      PROVE TypeOK'
  <2>1. pc' \in [Threads -> Pcs]
    BY <1>11, GotoTyped DEF PlatformReset
  <2> QED
    BY <1>11, <2>1 DEF PlatformReset, TypeOK, serverVars
<1>12. ASSUME NEW t \in Threads, NEW success \in States
      PROVE Outcome(t, success) \in States
  BY DEF Outcome
<1>13. ASSUME NEW t \in Threads, PublishInitialized(t)
      PROVE TypeOK'
  <2>1. /\ state' \in States
        /\ pc' \in [Threads -> Pcs]
        /\ note' \in [Threads -> States \X States]
    BY <1>13, <1>12, ChangeTyped DEF PublishInitialized
  <2> QED
    BY <1>13, <2>1 DEF PublishInitialized, TypeOK, platformVars
<1>14. ASSUME NEW t \in Threads, PublishStarted(t)
      PROVE TypeOK'
  <2>1. /\ state' \in States
        /\ pc' \in [Threads -> Pcs]
        /\ note' \in [Threads -> States \X States]
    BY <1>14, <1>12, ChangeTyped DEF PublishStarted
  <2> QED
    BY <1>14, <2>1 DEF PublishStarted, TypeOK, platformVars
<1>15. ASSUME NEW t \in Threads, PublishStopped(t)
      PROVE TypeOK'
  <2>1. /\ state' \in States
        /\ pc' \in [Threads -> Pcs]
        /\ note' \in [Threads -> States \X States]
    BY <1>15, <1>12, ChangeTyped DEF PublishStopped
  <2> QED
    BY <1>15, <2>1 DEF PublishStopped, TypeOK, platformVars
<1>16. ASSUME NEW h \in Handlers \cup {NoHandler}, SetRequestHandler(h)
      PROVE TypeOK'
  BY <1>16 DEF SetRequestHandler, TypeOK, threadVars, platformVars
<1>17. ASSUME RegisterObserver \/ UnregisterObserver \/ DestructReset
      PROVE TypeOK'
  BY <1>17 DEF RegisterObserver, UnregisterObserver, DestructReset, TypeOK,
              serverVars, threadVars, platformVars
<1>18. ASSUME NEW r \in Requests, NEW n \in Lengths \cup {NoLength},
             Arrive(r, n)
      PROVE TypeOK'
  <2>1. [Idle EXCEPT !.pc = "arrived", !.length = n] \in RequestType
    BY DEF RequestType, Idle
  <2> QED
    BY <1>18, <2>1 DEF Arrive, TypeOK, serverVars, threadVars, platformVars
<1>19. ASSUME NEW r \in Requests, Dispatch(r)
       PROVE TypeOK'
  <2>1. requests[r] \in RequestType /\ requests[r].pc = "arrived"
    BY <1>19 DEF TypeOK, Dispatch
  <2>2. requests[r].length \in Lengths \cup {NoLength}
    BY <2>1 DEF RequestType, Idle
  <2>3. ASSUME handler # NoHandler
        PROVE [requests[r] EXCEPT !.pc = "handling", !.handler = handler] \in RequestType
    BY <2>1, <2>2, <2>3 DEF RequestType, Idle, TypeOK
  <2>4. Idle \in RequestType
    BY DEF RequestType
  <2>5. requests' = [requests EXCEPT ![r] =
          IF Admitted(requests[r].length)
            THEN [requests[r] EXCEPT !.pc = "handling", !.handler = handler]
            ELSE Idle]
    BY <1>19 DEF Dispatch, TypeOK
  <2>6. requests' \in [Requests -> RequestType]
    BY <2>3, <2>4, <2>5 DEF TypeOK, Admitted
  <2> QED
    BY <1>19, <2>6 DEF Dispatch, TypeOK, serverVars, threadVars, platformVars
<1>20. ASSUME NEW r \in Requests, HandlerReturns(r)
       PROVE TypeOK'
  BY <1>20 DEF HandlerReturns, RequestType, TypeOK, serverVars, threadVars, platformVars
<1>21. CASE UNCHANGED vars
  BY <1>21 DEF vars, TypeOK, serverVars, threadVars, platformVars
<1> QED
  BY <1>1, <1>2, <1>3, <1>4, <1>5, <1>6, <1>7, <1>8, <1>9, <1>10, <1>11, <1>12, <1>13, <1>14, <1>15, <1>16, <1>17, <1>18, <1>19, <1>20, <1>21
     DEF Next, Call, Continue, Serve, Destroyed

(* Every reachable state of the server is well typed.                      *)
THEOREM TypeCorrect == Spec => []TypeOK
BY TypeInit, TypeStep, PTL DEF Spec

-----------------------------------------------------------------------------
(* How a step may move the state and its owner: inside an operation, into  *)
(* one, out of one, or straight to Stopped.                                *)
Phase(p) == CASE p \in InitializePcs -> "Initializing"
              [] p \in StartPcs      -> "Starting"
              [] p \in StopPcs       -> "Stopping"
              [] OTHER               -> "none"

Unowned == \A t \in Threads : ~Owns(t)

Inside == /\ state' = state
          /\ \/ pc' = pc
             \/ \E t \in Threads, p \in Pcs : Goto(t, p) /\ Phase(p) = Phase(pc[t])

Enters(t) == /\ Unowned
             /\ <<state, state'>> \in Lifecycle!Entries
             /\ \E p \in Owning : Goto(t, p) /\ Phase(p) = state'

Leaves(t) == /\ Owns(t)
             /\ <<state, state'>> \in Lifecycle!Exits
             /\ \E p \in Pcs \ Owning : Goto(t, p)

Discards(t) == /\ Unowned
               /\ <<state, state'>> \in Lifecycle!Discards
               /\ \E p \in Pcs \ Owning : Goto(t, p)

Kind == Inside \/ \E t \in Threads : Enters(t) \/ Leaves(t) \/ Discards(t)

LifecycleTyped == state \in States /\ pc \in [Threads -> Pcs]

(* Requests under way are over before a configuration is installed, and    *)
(* stay over until the server runs; from then to the end of a Stop those   *)
(* admitted use what is installed.                                         *)
BeforeService ==
  \/ state \in {"Ready", "Starting"}
  \/ \E t \in Threads : pc[t] \in {"initPlatform", "initPublish"}

IsCurrent(r) ==
  /\ requests[r].handler = handler
  /\ requests[r].length # NoLength => requests[r].length <= configuration.maxBody

RequestInv ==
  Draining =>
    \A r \in Requests : requests[r].pc = "handling" =>
      /\ ~BeforeService
      /\ state \in {"Running", "Stopping"} => IsCurrent(r)

(* What an Initialize under way has to know to publish Ready.              *)
ConfigurationInv ==
  /\ \A t \in Threads : pc[t] \in InitializePcs => Supported(arg[t])
  /\ \A t \in Threads : pc[t] = "initPublish" /\ ok[t] => installed = arg[t]
  /\ ConfigurationIsInstalled

-----------------------------------------------------------------------------
(* Ownership: a step is of one of these kinds.                             *)
LEMMA StepKinds ==
  ASSUME TypeOK, OneOperationAtATime, [Next]_vars
  PROVE  Kind
<1> USE DEF Phase, Goto, Kind
<1>0. state \in {"Stopped", "Ready", "Running", "Faulted"} => Unowned
  BY DEF OneOperationAtATime, Owns, Unowned, TypeOK
<1>1. ASSUME NEW t \in Threads, NEW c \in Configurations, Initialize(t, c)
      PROVE Kind
  <2>1. /\ state \in {"Stopped", "Ready", "Faulted"}
        /\ state' = "Initializing"
        /\ Goto(t, "initNotify")
    BY <1>1 DEF Initialize, Initializable, Change, TypeOK
  <2>2. Enters(t)
    BY <1>0, <2>1 DEF Enters, Lifecycle!Entries
  <2> QED
    BY <2>2
<1>2. ASSUME NEW t \in Threads, Start(t)
      PROVE Kind
  <2>1. Enters(t)
    BY <1>0, <1>2 DEF Enters, Lifecycle!Entries, Start, Change
  <2> QED
    BY <2>1
<1>3. ASSUME NEW t \in Threads, Stoppable, StopSection(t)
      PROVE Kind
  <2>1. CASE state = "Running"
    BY <1>0, <1>3, <2>1 DEF Enters, Lifecycle!Entries, StopSection, Change
  <2>2. CASE state # "Running"
    <3>1. Discards(t)
      BY <1>0, <1>3, <2>2 DEF Discards, Lifecycle!Discards, StopSection, Change, Stoppable
    <3> QED
      BY <3>1
  <2> QED
    BY <2>1, <2>2
<1>4. ASSUME NEW t \in Threads, Stop(t) \/ Destruct(t)
      PROVE Kind
  BY <1>3, <1>4 DEF Stop, Destruct, Inside
<1>5. ASSUME NEW t \in Threads, NotifyStateChanged(t)
      PROVE Inside
  <2>1. pc[t] \in {"initNotify", "startNotify", "stopNotify", "finalNotify"}
    BY <1>5 DEF NotifyStateChanged
  <2>2. /\ AfterNotify[pc[t]] \in Pcs
        /\ Phase(AfterNotify[pc[t]]) = Phase(pc[t])
    BY <2>1
  <2>3. state' = state /\ pc' = [pc EXCEPT ![t] = AfterNotify[pc[t]]]
    BY <1>5 DEF NotifyStateChanged, serverVars
  <2> QED
    BY <2>2, <2>3 DEF Inside
<1>6. ASSUME NEW t \in Threads,
             PlatformInitialize(t) \/ PlatformStart(t) \/ PlatformStop(t)
      PROVE Inside
  <2>1. state' = state
    BY <1>6 DEF PlatformInitialize, PlatformStart, PlatformStop, serverVars
  <2>2. \E p \in Pcs : pc' = [pc EXCEPT ![t] = p] /\ Phase(p) = Phase(pc[t])
    <3>1. CASE PlatformInitialize(t)
      BY <3>1 DEF PlatformInitialize
    <3>2. CASE PlatformStart(t)
      BY <3>2 DEF PlatformStart
    <3>3. CASE PlatformStop(t)
      BY <3>3 DEF PlatformStop
    <3> QED
      BY <1>6, <3>1, <3>2, <3>3
  <2> QED
    BY <2>1, <2>2 DEF Inside
<1>7. ASSUME NEW t \in Threads, PlatformReset(t)
      PROVE Inside
  <2>1. state' = state
    BY <1>7 DEF PlatformReset, serverVars
  <2>2. \E p \in Pcs : pc' = [pc EXCEPT ![t] = p] /\ Phase(p) = Phase(pc[t])
    <3>1. CASE pc[t] = "initReset"
      BY <1>7, <3>1 DEF PlatformReset
    <3>2. CASE pc[t] = "stopReset"
      BY <1>7, <3>2 DEF PlatformReset
    <3> QED
      BY <1>7, <3>1, <3>2 DEF PlatformReset
  <2> QED
    BY <2>1, <2>2 DEF Inside
<1>8. ASSUME NEW t \in Threads,
             PublishInitialized(t) \/ PublishStarted(t) \/ PublishStopped(t)
      PROVE Kind
  <2>1. Leaves(t)
    <3>1. CASE PublishInitialized(t)
      BY <3>1 DEF PublishInitialized, Leaves, Owns, Change, Outcome, Lifecycle!Exits,
                  Lifecycle!Transient, OneOperationAtATime
    <3>2. CASE PublishStarted(t)
      BY <3>2 DEF PublishStarted, Leaves, Owns, Change, Outcome, Lifecycle!Exits,
                  Lifecycle!Transient, OneOperationAtATime
    <3>3. CASE PublishStopped(t)
      BY <3>3 DEF PublishStopped, Leaves, Owns, Change, Outcome, Lifecycle!Exits,
                  Lifecycle!Transient, OneOperationAtATime
    <3> QED
      BY <1>8, <3>1, <3>2, <3>3
  <2> QED
    BY <2>1
<1>9. ASSUME UNCHANGED <<state, pc>>
      PROVE Inside
  BY <1>9 DEF Inside
<1>10. CASE Next
  <2>1. \/ \E t \in Threads : Call(t) \/ Continue(t)
        \/ UNCHANGED <<state, pc>>
    BY <1>10 DEF Next, SetRequestHandler, RegisterObserver, UnregisterObserver, Serve,
                 Dispatch, HandlerReturns, Arrive, DestructReset, Destroyed,
                 serverVars, threadVars, vars
  <2>2. ASSUME NEW t \in Threads, PlatformClose(t)
        PROVE UNCHANGED <<state, pc>>
    BY <2>2 DEF PlatformClose, serverVars, threadVars
  <2> QED
    BY <1>1, <1>2, <1>4, <1>5, <1>6, <1>7, <1>8, <1>9, <2>1, <2>2 DEF Call, Continue
<1>11. CASE UNCHANGED vars
  BY <1>9, <1>11 DEF vars, serverVars, threadVars
<1> QED
  BY <1>10, <1>11

LEMMA KindKeepsOwnership ==
  ASSUME LifecycleTyped, OneOperationAtATime, Kind
  PROVE  OneOperationAtATime'
<1> USE DEF LifecycleTyped
<1>1. CASE Inside
  BY <1>1 DEF Inside, Phase, Goto, OneOperationAtATime, Owns
<1>2. ASSUME NEW t \in Threads, Enters(t)
      PROVE OneOperationAtATime'
  BY <1>2 DEF Enters, Unowned, Phase, Goto, OneOperationAtATime, Owns, Lifecycle!Entries
<1>3. ASSUME NEW t \in Threads, Leaves(t)
      PROVE OneOperationAtATime'
  BY <1>3 DEF Leaves, Goto, OneOperationAtATime, Owns, Lifecycle!Exits, Lifecycle!Transient
<1>4. ASSUME NEW t \in Threads, Discards(t)
      PROVE OneOperationAtATime'
  BY <1>4 DEF Discards, Unowned, Goto, OneOperationAtATime, Owns, Lifecycle!Discards
<1> QED
  BY <1>1, <1>2, <1>3, <1>4 DEF Kind

LEMMA OwnershipStep ==
  ASSUME TypeOK, OneOperationAtATime, [Next]_vars
  PROVE  OneOperationAtATime'
BY StepKinds, KindKeepsOwnership DEF TypeOK, LifecycleTyped

(* No two threads ever run the lifecycle at once, and a transient state is *)
(* always owned by the thread whose operation it names.                    *)
THEOREM Exclusive == Spec => []OneOperationAtATime
<1>1. Init => OneOperationAtATime
  BY DEF Init, OneOperationAtATime, Owns
<1> QED
  BY <1>1, TypeCorrect, OwnershipStep, PTL DEF Spec

-----------------------------------------------------------------------------
(* Refinement: the owner ServerLifecycle speaks of is the owning thread.   *)
OwnerIsOwning ==
  OneOperationAtATime => /\ \A t \in Threads : Owns(t) => Owner = t
                         /\ Unowned => Owner = NoThread

LEMMA OwnerIs == OwnerIsOwning
<1> SUFFICES ASSUME OneOperationAtATime
             PROVE  /\ \A t \in Threads : Owns(t) => Owner = t
                    /\ Unowned => Owner = NoThread
  BY DEF OwnerIsOwning
<1>1. Unowned => Owner = NoThread
  BY DEF Unowned, Owner
<1>2. ASSUME NEW t \in Threads, Owns(t)
      PROVE Owner = t
  <2>1. \A u \in Threads : Owns(u) => u = t
    BY <1>2 DEF OneOperationAtATime
  <2>2. Owner = CHOOSE u \in Threads : Owns(u)
    BY <1>2 DEF Owner
  <2>3. Owns(CHOOSE u \in Threads : Owns(u)) /\ (CHOOSE u \in Threads : Owns(u)) \in Threads
    BY <1>2
  <2> QED
    BY <2>1, <2>2, <2>3
<1> QED
  BY <1>1, <1>2

LEMMA KindFollowsLifecycle ==
  ASSUME LifecycleTyped, OneOperationAtATime, OneOperationAtATime', Kind,
         OwnerIsOwning, OwnerIsOwning'
  PROVE  [Lifecycle!Next]_(Lifecycle!vars)
<1> USE DEF Phase, Goto, LifecycleTyped
<1>1. CASE Inside
  <2>1. \A t \in Threads : Owns(t)' <=> Owns(t)
    BY <1>1 DEF Inside, Owns
  <2>2. Owner' = Owner
    <3>1. CASE Unowned
      BY <2>1, <3>1 DEF OwnerIsOwning, Unowned
    <3>2. ASSUME NEW t \in Threads, Owns(t)
          PROVE Owner' = Owner
      BY <2>1, <3>2 DEF OwnerIsOwning
    <3> QED
      BY <3>1, <3>2 DEF Unowned
  <2> QED
    BY <1>1, <2>2 DEF Inside, Lifecycle!vars
<1>2. ASSUME NEW t \in Threads, Enters(t)
      PROVE Lifecycle!Begin(t)
  <2>1. Owner = NoThread
    BY <1>2 DEF Enters, OwnerIsOwning
  <2>2. Owner' = t
    BY <1>2 DEF Enters, OwnerIsOwning, Owns
  <2>3. <<state, state'>> \in Lifecycle!Entries /\ state' \in Lifecycle!Transient
    BY <1>2 DEF Enters, Lifecycle!Entries, Lifecycle!Transient
  <2> QED
    BY <2>1, <2>2, <2>3 DEF Lifecycle!Begin
<1>3. ASSUME NEW t \in Threads, Leaves(t)
      PROVE Lifecycle!Finish(t)
  <2>1. Owner = t
    BY <1>3 DEF Leaves, OwnerIsOwning
  <2>2. Unowned'
    BY <1>3 DEF Leaves, Unowned, OneOperationAtATime, Owns
  <2>3. Owner' = NoThread
    BY <2>2 DEF OwnerIsOwning
  <2>4. <<state, state'>> \in Lifecycle!Exits /\ state' \in Lifecycle!Stable
    BY <1>3 DEF Leaves, Lifecycle!Exits, Lifecycle!Transient, Lifecycle!Stable
  <2> QED
    BY <2>1, <2>3, <2>4 DEF Lifecycle!Finish
<1>4. ASSUME NEW t \in Threads, Discards(t)
      PROVE Lifecycle!Discard
  <2>1. Unowned'
    BY <1>4 DEF Discards, Unowned, Owns
  <2>2. Owner = NoThread /\ Owner' = NoThread
    BY <1>4, <2>1 DEF Discards, OwnerIsOwning
  <2> QED
    BY <1>4, <2>2 DEF Discards, Lifecycle!Discard, Lifecycle!Discards
<1> QED
  BY <1>1, <1>2, <1>3, <1>4 DEF Kind, Lifecycle!Next

LEMMA LifecycleStep ==
  ASSUME TypeOK, OneOperationAtATime, OneOperationAtATime', [Next]_vars,
         OwnerIsOwning, OwnerIsOwning'
  PROVE  [Lifecycle!Next]_(Lifecycle!vars)
BY StepKinds, KindFollowsLifecycle DEF TypeOK, LifecycleTyped

(* HttpServer implements ServerLifecycle, whatever the platform does and   *)
(* however the calls interleave.                                           *)
THEOREM Refinement == Spec => ImplementsLifecycle
<1>1. Init => Lifecycle!Init
  BY DEF Init, Lifecycle!Init, Owner, Owns
<1> QED
  BY <1>1, TypeCorrect, Exclusive, LifecycleStep, OwnerIs, PTL
     DEF Spec, ImplementsLifecycle, Lifecycle!Spec

-----------------------------------------------------------------------------
(* Requests: a step that leaves them alone keeps RequestInv if it enters   *)
(* neither the time before service nor service itself.                     *)
LEMMA RequestsUntouched ==
  ASSUME RequestInv, requests' = requests,
         BeforeService' => BeforeService,
         state' \in {"Running", "Stopping"} =>
           \/ BeforeService
           \/ /\ state \in {"Running", "Stopping"}
              /\ UNCHANGED <<handler, configuration>>
  PROVE  RequestInv'
BY DEF RequestInv, IsCurrent

LEMMA RequestStep ==
  ASSUME TypeOK, OneOperationAtATime, RequestInv, [Next]_vars
  PROVE  RequestInv'
<1> USE DEF Goto, BeforeService
<1>0. OneOperationAtATime'
  BY OwnershipStep
<1>1. ASSUME NEW t \in Threads, NEW c \in Configurations, Initialize(t, c)
      PROVE RequestInv'
  <2>1. state' = "Initializing" /\ requests' = requests
    BY <1>1 DEF Initialize, Change
  <2>2. ~BeforeService'
    BY <1>1, <2>1 DEF Initialize, Initializable, Change, TypeOK, OneOperationAtATime, Owns
  <2> QED
    BY <2>1, <2>2, RequestsUntouched
<1>2. ASSUME NEW t \in Threads, Start(t)
      PROVE RequestInv'
  BY <1>2, RequestsUntouched DEF Start, Change
<1>3. ASSUME NEW t \in Threads, Stop(t) \/ Destruct(t)
      PROVE RequestInv'
  <2>1. /\ UNCHANGED <<requests, handler, configuration>>
        /\ UNCHANGED <<state, pc>> \/ (Stoppable /\ StopSection(t))
    BY <1>3 DEF Stop, Destruct
  <2>2. CASE UNCHANGED <<state, pc>>
    BY <2>1, <2>2, RequestsUntouched
  <2>3. CASE Stoppable /\ StopSection(t)
    <3>1. state' \in {"Stopping", "Stopped"} /\ (state' = "Stopping" => state = "Running")
      BY <2>3 DEF StopSection, Change
    <3>2. ~BeforeService'
      BY <1>0, <3>1 DEF OneOperationAtATime
    <3> QED
      BY <2>1, <3>1, <3>2, RequestsUntouched
  <2> QED
    BY <2>1, <2>2, <2>3
<1>4. ASSUME NEW t \in Threads, NotifyStateChanged(t)
      PROVE RequestInv'
  <2>1. UNCHANGED <<requests, handler, configuration, state>>
    BY <1>4 DEF NotifyStateChanged, serverVars
  <2>2. AfterNotify[pc[t]] \notin {"initPlatform", "initPublish"}
    BY <1>4 DEF NotifyStateChanged
  <2>3. BeforeService' => BeforeService
    BY <1>4, <2>1, <2>2 DEF NotifyStateChanged, TypeOK
  <2> QED
    BY <2>1, <2>3, RequestsUntouched
<1>5. ASSUME NEW t \in Threads,
             PlatformInitialize(t) \/ PlatformStart(t) \/ PlatformStop(t)
      PROVE RequestInv'
  <2>1. UNCHANGED <<requests, handler, configuration, state>>
    BY <1>5 DEF PlatformInitialize, PlatformStart, PlatformStop, serverVars
  <2>2. BeforeService' => BeforeService
    <3>1. CASE PlatformInitialize(t)
      BY <2>1, <3>1 DEF PlatformInitialize, TypeOK
    <3>2. CASE PlatformStart(t)
      BY <2>1, <3>2 DEF PlatformStart, TypeOK
    <3>3. CASE PlatformStop(t)
      BY <2>1, <3>3 DEF PlatformStop, TypeOK
    <3> QED
      BY <1>5, <3>1, <3>2, <3>3
  <2> QED
    BY <2>1, <2>2, RequestsUntouched
<1>6. ASSUME NEW t \in Threads, PlatformReset(t)
      PROVE RequestInv'
  BY <1>6 DEF PlatformReset, Quiet, RequestInv
<1>7. ASSUME NEW t \in Threads, PublishInitialized(t)
      PROVE RequestInv'
  <2>1. BeforeService /\ state' \in {"Ready", "Faulted"} /\ requests' = requests
    BY <1>7 DEF PublishInitialized, Change, Outcome
  <2> QED
    BY <2>1, RequestsUntouched
<1>8. ASSUME NEW t \in Threads, PublishStarted(t)
      PROVE RequestInv'
  <2>1. state = "Starting" /\ requests' = requests
    BY <1>8 DEF PublishStarted, OneOperationAtATime
  <2> QED
    BY <2>1, RequestsUntouched
<1>9. ASSUME NEW t \in Threads, PublishStopped(t)
      PROVE RequestInv'
  <2>1. state' \in {"Stopped", "Faulted"} /\ requests' = requests
    BY <1>9 DEF PublishStopped, Change, Outcome
  <2>2. ~BeforeService'
    BY <1>0, <2>1 DEF OneOperationAtATime
  <2> QED
    BY <2>1, <2>2, RequestsUntouched
<1>10. ASSUME NEW h \in Handlers \cup {NoHandler}, SetRequestHandler(h)
       PROVE RequestInv'
  BY <1>10, RequestsUntouched DEF SetRequestHandler, Replaceable, threadVars
<1>11. ASSUME NEW r \in Requests, NEW n \in Lengths \cup {NoLength}, Arrive(r, n)
       PROVE RequestInv'
  <2>1. requests'[r].pc = "arrived" /\ \A q \in Requests \ {r} : requests'[q] = requests[q]
    BY <1>11 DEF Arrive, TypeOK, Idle
  <2>2. UNCHANGED <<handler, configuration, state, pc>>
    BY <1>11 DEF Arrive, serverVars, threadVars
  <2> QED
    BY <2>1, <2>2 DEF RequestInv, IsCurrent
<1>12. ASSUME NEW r \in Requests, HandlerReturns(r)
       PROVE RequestInv'
  <2>1. requests'[r].pc = "idle" /\ \A q \in Requests \ {r} : requests'[q] = requests[q]
    BY <1>12 DEF HandlerReturns, TypeOK, Idle
  <2>2. UNCHANGED <<handler, configuration, state, pc>>
    BY <1>12 DEF HandlerReturns, serverVars, threadVars
  <2> QED
    BY <2>1, <2>2 DEF RequestInv, IsCurrent
<1>13. ASSUME NEW r \in Requests, Dispatch(r)
       PROVE RequestInv'
  <2>1. UNCHANGED <<handler, configuration, state, pc>>
    BY <1>13 DEF Dispatch, serverVars, threadVars
  <2>2. \A q \in Requests \ {r} : requests'[q] = requests[q]
    BY <1>13 DEF Dispatch, TypeOK
  <2>3. CASE Admitted(requests[r].length)
    <3>1. requests'[r] = [requests[r] EXCEPT !.pc = "handling", !.handler = handler]
      BY <1>13, <2>3 DEF Dispatch, TypeOK
    <3>2. /\ requests'[r].handler = handler
          /\ requests'[r].length = requests[r].length
      BY <3>1 DEF TypeOK, RequestType, Idle
    <3>3. ~BeforeService'
      BY <2>1, <2>3 DEF Admitted, OneOperationAtATime
    <3> QED
      BY <2>1, <2>2, <2>3, <3>2, <3>3 DEF RequestInv, IsCurrent, Admitted
  <2>4. CASE ~Admitted(requests[r].length)
    <3>1. requests'[r].pc = "idle"
      BY <1>13, <2>4 DEF Dispatch, TypeOK, Idle
    <3> QED
      BY <2>1, <2>2, <3>1 DEF RequestInv, IsCurrent
  <2> QED
    BY <2>3, <2>4
<1>14. ASSUME UNCHANGED <<requests, handler, configuration, state, pc>>
       PROVE RequestInv'
  BY <1>14, RequestsUntouched
<1>15. CASE Next
  <2>1. ASSUME NEW t \in Threads, PlatformClose(t)
        PROVE UNCHANGED <<requests, handler, configuration, state, pc>>
    BY <2>1 DEF PlatformClose, serverVars, threadVars
  <2>2. ASSUME RegisterObserver \/ UnregisterObserver \/ DestructReset \/ Destroyed
        PROVE UNCHANGED <<requests, handler, configuration, state, pc>>
    BY <2>2 DEF RegisterObserver, UnregisterObserver, DestructReset, Destroyed,
                serverVars, threadVars, vars
  <2> QED
    BY <1>1, <1>2, <1>3, <1>4, <1>5, <1>6, <1>7, <1>8, <1>9, <1>10, <1>11, <1>12,
       <1>13, <1>14, <1>15, <2>1, <2>2 DEF Next, Call, Continue, Serve
<1>16. CASE UNCHANGED vars
  BY <1>14, <1>16 DEF vars, serverVars, threadVars
<1> QED
  BY <1>15, <1>16

(* On a draining platform a running server handles no request with a       *)
(* handler or a limit other than its own, whatever failed before.          *)
THEOREM RequestsStayCurrent == Spec => []RequestsAreCurrent
<1>1. Init => RequestInv
  BY DEF Init, RequestInv, Idle
<1>2. RequestInv => RequestsAreCurrent
  BY DEF RequestInv, RequestsAreCurrent, IsCurrent
<1> QED
  BY <1>1, <1>2, TypeCorrect, Exclusive, RequestStep, PTL DEF Spec

-----------------------------------------------------------------------------
(* Configurations: what ConfigurationInv is about stays put outside an     *)
(* Initialize.                                                             *)
Serving == state \in {"Ready", "Starting", "Running", "Stopping"}

LEMMA ConfigurationsUntouched ==
  ASSUME ConfigurationInv, UNCHANGED <<configuration, installed, arg, ok>>,
         Serving' => Serving,
         \A t \in Threads : /\ pc'[t] \in InitializePcs => pc[t] \in InitializePcs
                            /\ pc'[t] = "initPublish" => pc[t] = "initPublish"
  PROVE  ConfigurationInv'
BY DEF ConfigurationInv, ConfigurationIsInstalled, Supported, Serving

LEMMA ConfigurationStep ==
  ASSUME TypeOK, OneOperationAtATime, ConfigurationInv, [Next]_vars
  PROVE  ConfigurationInv'
<1> USE DEF Goto, Serving
<1>1. ASSUME NEW t \in Threads, NEW c \in Configurations, Initialize(t, c)
      PROVE ConfigurationInv'
  <2>1. /\ state' = "Initializing" /\ UNCHANGED <<ok, installed, configuration>>
        /\ \A u \in Threads : pc'[u] = IF u = t THEN "initNotify" ELSE pc[u]
        /\ \A u \in Threads : arg'[u] = IF u = t THEN c ELSE arg[u]
    BY <1>1 DEF Initialize, Change, TypeOK, platformVars
  <2>2. Supported(c)
    BY <1>1 DEF Initialize
  <2> QED
    BY <2>1, <2>2 DEF ConfigurationInv, ConfigurationIsInstalled, Supported
<1>2. ASSUME NEW t \in Threads, Start(t)
      PROVE ConfigurationInv'
  BY <1>2, ConfigurationsUntouched DEF Start, Change, TypeOK, platformVars
<1>3. ASSUME NEW t \in Threads, Stop(t) \/ Destruct(t)
      PROVE ConfigurationInv'
  <2>1. /\ UNCHANGED <<configuration, installed, arg, ok>>
        /\ UNCHANGED <<state, pc>> \/ (Stoppable /\ StopSection(t))
    BY <1>3 DEF Stop, Destruct, platformVars
  <2>2. CASE UNCHANGED <<state, pc>>
    BY <2>1, <2>2, ConfigurationsUntouched
  <2>3. CASE Stoppable /\ StopSection(t)
    <3>1. Serving' => Serving
      BY <2>3 DEF StopSection, Change
    <3>2. \A u \in Threads : pc'[u] \in {"stopNotify", "stopReset", pc[u]}
      BY <2>3 DEF StopSection, Change, TypeOK
    <3> QED
      BY <2>1, <3>1, <3>2, ConfigurationsUntouched
  <2> QED
    BY <2>1, <2>2, <2>3
<1>4. ASSUME NEW t \in Threads, NotifyStateChanged(t)
      PROVE ConfigurationInv'
  <2>1. UNCHANGED <<state, configuration, installed, arg, ok>>
    BY <1>4 DEF NotifyStateChanged, serverVars, platformVars
  <2>2. AfterNotify[pc[t]] \in InitializePcs => pc[t] = "initNotify"
    BY <1>4 DEF NotifyStateChanged
  <2>3. AfterNotify[pc[t]] # "initPublish"
    BY <1>4 DEF NotifyStateChanged
  <2> QED
    BY <1>4, <2>1, <2>2, <2>3, ConfigurationsUntouched DEF NotifyStateChanged, TypeOK
<1>5. ASSUME NEW t \in Threads, PlatformInitialize(t)
      PROVE ConfigurationInv'
  <2>1. /\ state = "Initializing" /\ state' = "Initializing"
        /\ UNCHANGED <<configuration, arg>>
    BY <1>5 DEF PlatformInitialize, OneOperationAtATime, serverVars
  <2>2. /\ pc[t] = "initPlatform"
        /\ \A u \in Threads : pc'[u] = IF u = t THEN "initPublish" ELSE pc[u]
    BY <1>5 DEF PlatformInitialize, TypeOK
  <2>3. \A u \in Threads : u # t => pc[u] # "initPublish"
    BY <2>2 DEF OneOperationAtATime, Owns
  <2>4. ok'[t] => installed' = arg[t]
    BY <1>5 DEF PlatformInitialize, TypeOK
  <2>5. \A u \in Threads : pc'[u] \in InitializePcs => Supported(arg'[u])
    BY <2>1, <2>2 DEF ConfigurationInv
  <2>6. \A u \in Threads : pc'[u] = "initPublish" /\ ok'[u] => installed' = arg'[u]
    BY <2>1, <2>2, <2>3, <2>4
  <2> QED
    BY <2>1, <2>5, <2>6 DEF ConfigurationInv, ConfigurationIsInstalled, Supported
<1>6. ASSUME NEW t \in Threads, PlatformStart(t) \/ PlatformStop(t)
      PROVE ConfigurationInv'
  <2>1. /\ UNCHANGED <<state, configuration, installed, arg>>
        /\ \A u \in Threads : pc'[u] \in {"startPublish", "stopPublish", pc[u]}
        /\ \A u \in Threads : pc'[u] \in InitializePcs => ok'[u] = ok[u]
    <3>1. CASE PlatformStart(t)
      BY <3>1 DEF PlatformStart, TypeOK, serverVars
    <3>2. CASE PlatformStop(t)
      BY <3>2 DEF PlatformStop, TypeOK, serverVars
    <3> QED
      BY <1>6, <3>1, <3>2
  <2> QED
    BY <2>1 DEF ConfigurationInv, ConfigurationIsInstalled, Supported
<1>7. ASSUME NEW t \in Threads, PlatformReset(t)
      PROVE ConfigurationInv'
  <2>1. UNCHANGED <<state, configuration, installed, arg, ok>>
    BY <1>7 DEF PlatformReset, serverVars
  <2>2. \A u \in Threads : \/ pc'[u] \in {"finalNotify", pc[u]}
                           \/ pc'[u] = "initPlatform" /\ pc[u] = "initReset"
    BY <1>7 DEF PlatformReset, TypeOK
  <2> QED
    BY <2>1, <2>2, ConfigurationsUntouched
<1>8. ASSUME NEW t \in Threads, PublishInitialized(t)
      PROVE ConfigurationInv'
  <2>1. /\ UNCHANGED <<installed, arg, ok>>
        /\ \A u \in Threads : pc'[u] \in {"finalNotify", pc[u]}
    BY <1>8 DEF PublishInitialized, Change, TypeOK, platformVars
  <2>2. CASE ok[t]
    <3>1. configuration' = arg[t] /\ installed = arg[t] /\ Supported(arg[t])
      BY <1>8, <2>2 DEF PublishInitialized, ConfigurationInv
    <3> QED
      BY <2>1, <3>1 DEF ConfigurationInv, ConfigurationIsInstalled, Supported
  <2>3. CASE ~ok[t]
    <3>1. state' = "Faulted" /\ configuration' = configuration
      BY <1>8, <2>3 DEF PublishInitialized, Change, Outcome
    <3> QED
      BY <2>1, <3>1, ConfigurationsUntouched
  <2> QED
    BY <2>2, <2>3
<1>9. ASSUME NEW t \in Threads, PublishStarted(t) \/ PublishStopped(t)
      PROVE ConfigurationInv'
  <2>1. /\ UNCHANGED <<configuration, installed, arg, ok>>
        /\ \A u \in Threads : pc'[u] \in {"finalNotify", "stopReset", pc[u]}
        /\ Serving
    <3>1. CASE PublishStarted(t)
      BY <3>1 DEF PublishStarted, Change, TypeOK, platformVars, OneOperationAtATime
    <3>2. CASE PublishStopped(t)
      BY <3>2 DEF PublishStopped, Change, TypeOK, platformVars, OneOperationAtATime
    <3> QED
      BY <1>9, <3>1, <3>2
  <2> QED
    BY <2>1, ConfigurationsUntouched
<1>10. ASSUME UNCHANGED <<state, configuration, installed, arg, ok, pc>>
       PROVE ConfigurationInv'
  BY <1>10, ConfigurationsUntouched
<1>11. CASE Next
  <2>1. ASSUME NEW t \in Threads, PlatformClose(t)
        PROVE ConfigurationInv'
    BY <1>10, <2>1 DEF PlatformClose, serverVars, threadVars
  <2>2. ASSUME \/ RegisterObserver \/ UnregisterObserver \/ DestructReset \/ Destroyed
               \/ \E h \in Handlers \cup {NoHandler} : SetRequestHandler(h)
               \/ \E r \in Requests : Serve(r) \/ \E n \in Lengths \cup {NoLength} : Arrive(r, n)
        PROVE UNCHANGED <<state, configuration, installed, arg, ok, pc>>
    BY <2>2 DEF RegisterObserver, UnregisterObserver, DestructReset, Destroyed, Serve,
                SetRequestHandler, Dispatch, HandlerReturns, Arrive,
                serverVars, threadVars, platformVars, vars
  <2> QED
    BY <1>1, <1>2, <1>3, <1>4, <1>5, <1>6, <1>7, <1>8, <1>9, <1>10, <1>11,
       <2>1, <2>2 DEF Next, Call, Continue
<1>12. CASE UNCHANGED vars
  BY <1>10, <1>12 DEF vars, serverVars, threadVars, platformVars
<1> QED
  BY <1>11, <1>12

(* The limits Dispatch applies are those the platform was initialized      *)
(* with, and supports, from Ready to Stopping.                             *)
THEOREM ConfigurationStaysInstalled == Spec => []ConfigurationIsInstalled
<1>1. Init => ConfigurationInv
  BY DEF Init, ConfigurationInv, ConfigurationIsInstalled
<1>2. ConfigurationInv => ConfigurationIsInstalled
  BY DEF ConfigurationInv
<1> QED
  BY <1>1, <1>2, TypeCorrect, Exclusive, ConfigurationStep, PTL DEF Spec

-----------------------------------------------------------------------------
(* One lifecycle thread: the platform is what the state says, and          *)
(* observers are told the truth.                                           *)
Alone == \A t, u \in Threads : t = u

ServedInv ==
  /\ RunningIsServed
  /\ lifetime # "alive" => state # "Running"
  /\ \A t \in Threads :
       /\ pc[t] = "startPublish" /\ ok[t] => platform = "running"
       /\ pc[t] = "stopReset" => state = "Stopped"
       /\ lifetime # "alive" => pc[t] \notin InitializePcs \cup StartPcs

LEMMA ServedStep ==
  ASSUME Alone, TypeOK, OneOperationAtATime, ServedInv, [Next]_vars
  PROVE  ServedInv'
<1> USE DEF Goto
<1> DEFINE Only(t, next) == \A u \in Threads : u = t /\ pc'[u] = next
<1>1. ASSUME NEW t \in Threads, NEW next \in Pcs, pc' = [pc EXCEPT ![t] = next]
      PROVE  Only(t, next)
  BY <1>1 DEF TypeOK, Alone
<1>2. ASSUME NEW t \in Threads, Start(t) \/ \E c \in Configurations : Initialize(t, c)
      PROVE ServedInv'
  <2>1. /\ state' \in {"Initializing", "Starting"} /\ lifetime = "alive" /\ lifetime' = lifetime
        /\ \E next \in {"initNotify", "startNotify"} : pc' = [pc EXCEPT ![t] = next]
    BY <1>2 DEF Initialize, Start, Callable, Change
  <2> QED
    BY <1>1, <2>1 DEF ServedInv, RunningIsServed
<1>3. ASSUME NEW t \in Threads, Stop(t) \/ Destruct(t)
      PROVE ServedInv'
  <2>1. /\ UNCHANGED <<ok, platform>>
        /\ pc[t] = "idle"
        /\ \/ UNCHANGED <<state, pc>> /\ ~Stoppable
           \/ StopSection(t)
    BY <1>3 DEF Stop, Destruct, Callable, platformVars
  <2>2. CASE UNCHANGED <<state, pc>> /\ ~Stoppable
    <3>1. \A u \in Threads : pc'[u] = "idle"
      BY <2>1, <2>2 DEF Alone
    <3> QED
      BY <2>1, <2>2, <3>1 DEF ServedInv, RunningIsServed, Stoppable
  <2>3. CASE StopSection(t)
    <3>1. \/ state' = "Stopping" /\ pc' = [pc EXCEPT ![t] = "stopNotify"]
          \/ state' = "Stopped" /\ pc' = [pc EXCEPT ![t] = "stopReset"]
      BY <2>3 DEF StopSection, Change
    <3> QED
      BY <1>1, <3>1 DEF ServedInv, RunningIsServed
  <2> QED
    BY <2>1, <2>2, <2>3
<1>4. ASSUME NEW t \in Threads, NotifyStateChanged(t)
      PROVE ServedInv'
  <2>1. /\ UNCHANGED <<state, lifetime, ok, platform>>
        /\ pc[t] \in DOMAIN AfterNotify /\ Only(t, AfterNotify[pc[t]])
    <3>1. AfterNotify[pc[t]] \in Pcs
      BY <1>4 DEF NotifyStateChanged
    <3> QED
      BY <1>1, <1>4, <3>1 DEF NotifyStateChanged, serverVars, platformVars
  <2>2. /\ AfterNotify[pc[t]] \in {"initReset", "startPlatform", "stopPlatform", "idle"}
        /\ AfterNotify[pc[t]] \in InitializePcs \cup StartPcs => pc[t] \in InitializePcs \cup StartPcs
    BY <2>1
  <2> QED
    BY <2>1, <2>2 DEF ServedInv, RunningIsServed
<1>5. ASSUME NEW t \in Threads, PlatformInitialize(t)
      PROVE ServedInv'
  <2>1. /\ UNCHANGED <<state, lifetime>> /\ state = "Initializing"
        /\ pc[t] = "initPlatform" /\ Only(t, "initPublish")
    BY <1>1, <1>5 DEF PlatformInitialize, OneOperationAtATime, serverVars
  <2> QED
    BY <2>1 DEF ServedInv, RunningIsServed
<1>6. ASSUME NEW t \in Threads, PlatformStart(t)
      PROVE ServedInv'
  <2>1. /\ UNCHANGED <<state, lifetime>> /\ state = "Starting"
        /\ pc[t] = "startPlatform" /\ Only(t, "startPublish")
    BY <1>1, <1>6 DEF PlatformStart, OneOperationAtATime, serverVars
  <2>2. ok'[t] => platform' = "running"
    BY <1>6 DEF PlatformStart, TypeOK
  <2> QED
    BY <2>1, <2>2 DEF ServedInv, RunningIsServed
<1>7. ASSUME NEW t \in Threads, PlatformClose(t) \/ PlatformStop(t) \/ PlatformReset(t)
      PROVE ServedInv'
  <2>1. /\ UNCHANGED <<state, lifetime>>
        /\ pc[t] \in {"initReset", "stopPlatform", "stopReset"}
        /\ \/ pc' = pc
           \/ pc' = [pc EXCEPT ![t] = "stopPublish"]
           \/ pc[t] = "initReset" /\ pc' = [pc EXCEPT ![t] = "initPlatform"]
           \/ pc' = [pc EXCEPT ![t] = "finalNotify"]
    BY <1>7 DEF PlatformClose, PlatformStop, PlatformReset, serverVars, threadVars
  <2>2. state # "Running"
    BY <2>1 DEF OneOperationAtATime, ServedInv
  <2>3. CASE pc' = pc
    BY <2>1, <2>2, <2>3 DEF ServedInv, RunningIsServed, Alone
  <2>4. CASE pc' # pc
    <3>1. PICK next \in {"stopPublish", "initPlatform", "finalNotify"} :
            /\ Only(t, next)
            /\ next = "initPlatform" => pc[t] = "initReset"
      BY <1>1, <2>1, <2>4
    <3> QED
      BY <2>1, <2>2, <3>1 DEF ServedInv, RunningIsServed
  <2> QED
    BY <2>3, <2>4
<1>8. ASSUME NEW t \in Threads, PublishInitialized(t) \/ PublishStarted(t) \/ PublishStopped(t)
      PROVE ServedInv'
  <2>1. /\ UNCHANGED <<lifetime, platform>>
        /\ \/ Only(t, "finalNotify")
           \/ Only(t, "stopReset") /\ state' = "Stopped"
        /\ state' = "Running" => pc[t] = "startPublish" /\ ok[t]
    BY <1>1, <1>8 DEF PublishInitialized, PublishStarted, PublishStopped, Change, Outcome, platformVars
  <2> QED
    BY <2>1 DEF ServedInv, RunningIsServed
<1>9. ASSUME DestructReset
      PROVE ServedInv'
  <2>1. /\ UNCHANGED <<state, pc>> /\ lifetime = "destructing"
        /\ \A t \in Threads : pc[t] = "idle"
    BY <1>9 DEF DestructReset, threadVars
  <2> QED
    BY <2>1 DEF ServedInv, RunningIsServed
<1>10. ASSUME UNCHANGED <<state, lifetime, pc, ok, platform>>
       PROVE ServedInv'
  BY <1>10 DEF ServedInv, RunningIsServed
<1>11. ASSUME \/ RegisterObserver \/ UnregisterObserver \/ Destroyed \/ UNCHANGED vars
              \/ \E h \in Handlers \cup {NoHandler} : SetRequestHandler(h)
              \/ \E r \in Requests : Serve(r) \/ \E n \in Lengths \cup {NoLength} : Arrive(r, n)
       PROVE UNCHANGED <<state, lifetime, pc, ok, platform>>
  BY <1>11 DEF RegisterObserver, UnregisterObserver, Destroyed, Serve,
               SetRequestHandler, Dispatch, HandlerReturns, Arrive,
               serverVars, threadVars, platformVars, vars
<1> QED
  BY <1>2, <1>3, <1>4, <1>5, <1>6, <1>7, <1>8, <1>9, <1>10, <1>11 DEF Next, Call, Continue

(* While one thread drives the lifecycle, a running server has a platform  *)
(* that serves requests, whatever failed on the way.                       *)
THEOREM RunningServes == ASSUME Alone PROVE Spec => []RunningIsServed
<1>1. Init => ServedInv
  BY DEF Init, ServedInv, RunningIsServed
<1>2. TypeOK /\ OneOperationAtATime /\ ServedInv /\ [Next]_vars => ServedInv'
  BY Alone, ServedStep
<1>3. ServedInv => RunningIsServed
  BY DEF ServedInv
<1> QED
  BY <1>1, <1>2, <1>3, TypeCorrect, Exclusive, PTL DEF Spec

(* What the observer was told last is what the next notification says was  *)
(* before, also through a stop that announces itself only after its reset. *)
Untold == DOMAIN AfterNotify \cup {"stopReset"}

InformedInv ==
  \A t \in Threads :
    /\ pc[t] \in Untold => state = note[t][2] /\ (seen \in States => seen = note[t][1])
    /\ pc[t] \notin Untold => (seen \in States => seen = state)

LEMMA InformedStep ==
  ASSUME Alone, TypeOK, InformedInv, [Next]_vars
  PROVE  InformedInv'
<1> USE DEF Goto, Untold
<1> DEFINE Only(t, next) == \A u \in Threads : u = t /\ pc'[u] = next
           Changes(t)    == \E new \in States, next \in Untold :
                              UNCHANGED seen /\ pc[t] \notin Untold /\ Change(t, new, next)
           Goes(t)       == \E next \in Pcs :
                              /\ UNCHANGED <<state, note, seen>> /\ Only(t, next)
                              /\ (pc[t] \in Untold) = (next \in Untold)
<1>1. ASSUME NEW t \in Threads, NEW next \in Pcs, pc' = [pc EXCEPT ![t] = next]
      PROVE  Only(t, next)
  BY <1>1 DEF TypeOK, Alone
<1>2. ASSUME NEW t \in Threads, Changes(t) PROVE InformedInv'
  <2>1. PICK new \in States, next \in Untold :
          UNCHANGED seen /\ pc[t] \notin Untold /\ Change(t, new, next)
    BY <1>2
  <2>2. next \in Pcs
    BY <2>1
  <2>3. Only(t, next)
    BY <1>1, <2>1, <2>2 DEF Change
  <2>4. state' = new /\ note'[t] = <<state, new>>
    BY <2>1 DEF Change, TypeOK
  <2> QED
    BY <2>1, <2>3, <2>4 DEF InformedInv
<1>3. ASSUME NEW t \in Threads, Goes(t) PROVE InformedInv'
  BY <1>3 DEF InformedInv
<1>4. ASSUME NEW t \in Threads, Start(t) \/ \E c \in Configurations : Initialize(t, c)
      PROVE Changes(t)
  BY <1>4 DEF Start, Initialize, Callable
<1>5. ASSUME NEW t \in Threads, StopSection(t), UNCHANGED seen, pc[t] = "idle"
      PROVE Changes(t)
  BY <1>5 DEF StopSection
<1>6. ASSUME NEW t \in Threads, Stop(t) \/ Destruct(t)
      PROVE InformedInv'
  <2>1. /\ UNCHANGED seen /\ pc[t] = "idle"
        /\ UNCHANGED <<state, note, pc>> \/ StopSection(t)
    BY <1>6 DEF Stop, Destruct, Callable
  <2>2. CASE UNCHANGED <<state, note, pc>>
    BY <2>1, <2>2 DEF InformedInv
  <2> QED
    BY <1>2, <1>5, <2>1, <2>2
<1>7. ASSUME NEW t \in Threads, NotifyStateChanged(t)
      PROVE InformedInv'
  <2>1. /\ UNCHANGED <<state, note>> /\ pc[t] \in DOMAIN AfterNotify
        /\ seen' = IF seen = "unregistered" THEN seen ELSE note[t][2]
        /\ AfterNotify[pc[t]] \in Pcs \ Untold
    BY <1>7 DEF NotifyStateChanged, serverVars
  <2>2. Only(t, AfterNotify[pc[t]])
    BY <1>1, <1>7, <2>1 DEF NotifyStateChanged
  <2> QED
    BY <2>1, <2>2 DEF InformedInv
<1>8. ASSUME NEW t \in Threads,
             \/ PlatformInitialize(t) \/ PlatformStart(t) \/ PlatformStop(t)
             \/ PlatformReset(t)
      PROVE Goes(t)
  <2>1. /\ UNCHANGED <<state, note, seen>>
        /\ \/ pc[t] \notin Untold /\ \E next \in {"initPublish", "startPublish", "stopPublish", "initPlatform"} :
                                       pc' = [pc EXCEPT ![t] = next]
           \/ pc[t] = "stopReset" /\ pc' = [pc EXCEPT ![t] = "finalNotify"]
    BY <1>8 DEF PlatformInitialize, PlatformStart, PlatformStop, PlatformReset, serverVars
  <2> QED
    BY <1>1, <2>1
<1>9. ASSUME NEW t \in Threads,
             PublishInitialized(t) \/ PublishStarted(t) \/ PublishStopped(t)
      PROVE Changes(t)
  <2>1. UNCHANGED seen /\ pc[t] \notin Untold
    BY <1>9 DEF PublishInitialized, PublishStarted, PublishStopped
  <2>2. \E new \in States, next \in {"finalNotify", "stopReset"} : Change(t, new, next)
    BY <1>9 DEF PublishInitialized, PublishStarted, PublishStopped, Outcome
  <2> QED
    BY <2>1, <2>2
<1>10. ASSUME UNCHANGED <<state, note, pc>>, seen' = seen \/ seen' \notin States
       PROVE InformedInv'
  BY <1>10 DEF InformedInv
<1>11. ASSUME \/ \E t \in Threads : PlatformClose(t)
              \/ RegisterObserver \/ UnregisterObserver \/ Destroyed \/ DestructReset \/ UNCHANGED vars
              \/ \E h \in Handlers \cup {NoHandler} : SetRequestHandler(h)
              \/ \E r \in Requests : Serve(r) \/ \E n \in Lengths \cup {NoLength} : Arrive(r, n)
       PROVE UNCHANGED <<state, note, pc>> /\ (seen' = seen \/ seen' \notin States)
  BY <1>11 DEF PlatformClose, RegisterObserver, UnregisterObserver, Destroyed, DestructReset, Serve,
               SetRequestHandler, Dispatch, HandlerReturns, Arrive,
               serverVars, threadVars, platformVars, vars
<1> HIDE DEF Changes, Goes
<1> QED
  BY <1>2, <1>3, <1>4, <1>6, <1>7, <1>8, <1>9, <1>10, <1>11 DEF Next, Call, Continue

(* While one thread drives the lifecycle, what an observer is told is the  *)
(* server's state, and the old state is the one it was told before.        *)
THEOREM ObserversHearTheTruth == ASSUME Alone PROVE Spec => []ObserversAreInformed
<1>1. Init => InformedInv
  BY DEF Init, InformedInv, Untold
<1>2. TypeOK /\ InformedInv /\ [Next]_vars => InformedInv'
  BY Alone, InformedStep
<1>3. InformedInv => ObserversAreInformed
  BY DEF InformedInv, ObserversAreInformed, Untold
<1> QED
  BY <1>1, <1>2, <1>3, TypeCorrect, PTL DEF Spec

-----------------------------------------------------------------------------
(* The end of a server, for any number of threads.                         *)
QuietInv == /\ DestroyedIsQuiet
            /\ lifetime = "destroyed" => \A t \in Threads : pc[t] = "idle"

LEMMA QuietStep ==
  ASSUME QuietInv, [Next]_vars
  PROVE  QuietInv'
<1>1. CASE lifetime = "destroyed"
  <2>1. ASSUME NEW t \in Threads PROVE ~Call(t) /\ ~Continue(t)
    BY <1>1 DEF QuietInv, Call, Continue, Initialize, Start, Stop, Destruct, Callable,
                NotifyStateChanged, PlatformInitialize, PublishInitialized, PlatformStart,
                PublishStarted, PlatformClose, PlatformStop, PublishStopped, PlatformReset
  <2>2. ASSUME NEW r \in Requests, Serve(r) PROVE QuietInv'
    <3>1. /\ \A u \in Requests : Draining => requests'[u].pc = "idle"
          /\ UNCHANGED <<lifetime, pc, platform>>
      BY <1>1, <2>2 DEF QuietInv, DestroyedIsQuiet, Serve, Dispatch, HandlerReturns, Admitted, Idle,
                        serverVars, threadVars, platformVars
    <3> QED
      BY <3>1, <1>1 DEF QuietInv, DestroyedIsQuiet
  <2>3. /\ \A r \in Requests, n \in Lengths \cup {NoLength} : ~Arrive(r, n)
        /\ \A h \in Handlers \cup {NoHandler} : ~SetRequestHandler(h)
        /\ ~RegisterObserver /\ ~UnregisterObserver /\ ~DestructReset
    BY <1>1 DEF QuietInv, DestroyedIsQuiet, Arrive, SetRequestHandler, RegisterObserver,
                UnregisterObserver, DestructReset
  <2>4. ASSUME UNCHANGED vars PROVE QuietInv'
    BY <2>4 DEF QuietInv, DestroyedIsQuiet, vars, serverVars, threadVars, platformVars
  <2> QED
    BY <2>1, <2>2, <2>3, <2>4 DEF Next, Destroyed
<1>2. CASE lifetime # "destroyed"
  <2>1. ASSUME DestructReset PROVE QuietInv'
    BY <2>1 DEF DestructReset, Quiet, QuietInv, DestroyedIsQuiet, threadVars
  <2>2. ASSUME ~DestructReset PROVE lifetime' # "destroyed"
    BY <1>2, <2>2 DEF Next, Call, Continue, Initialize, Start, Stop, Destruct,
                NotifyStateChanged, PlatformInitialize, PublishInitialized, PlatformStart,
                PublishStarted, PlatformClose, PlatformStop, PublishStopped, PlatformReset,
                Serve, Dispatch, HandlerReturns, Arrive, SetRequestHandler, RegisterObserver,
                UnregisterObserver, Destroyed, serverVars, vars
  <2> QED
    BY <2>1, <2>2 DEF QuietInv, DestroyedIsQuiet
<1> QED
  BY <1>1, <1>2

(* A destroyed server is nobody's dispatcher and, on a draining platform,  *)
(* has no request inside it.                                               *)
THEOREM DestructionIsQuiet == Spec => []DestroyedIsQuiet
<1>1. Init => QuietInv
  BY DEF Init, QuietInv, DestroyedIsQuiet
<1>2. QuietInv => DestroyedIsQuiet
  BY DEF QuietInv
<1> QED
  BY <1>1, <1>2, QuietStep, PTL DEF Spec

-----------------------------------------------------------------------------
(* DnsServer: the other facade.  The two have their lifecycle, their       *)
(* threads and their platform's states in common, so that what is said     *)
(* above of the kinds of steps is said of both.                            *)
CONSTANTS Queries, Questions, Wildcard, WildcardFamily, DnsConfigurations, Codes, MaxAnswers

VARIABLE queries

Dns == INSTANCE DnsServer WITH Configurations <- DnsConfigurations

DnsLifecycle == LifecycleTyped /\ OneOperationAtATime

LEMMA DnsPcs ==
  /\ Dns!InitializePcs = InitializePcs /\ Dns!StartPcs = StartPcs /\ Dns!StopPcs = StopPcs
  /\ Dns!Owning = Owning
BY DEF Dns!InitializePcs, Dns!StartPcs, Dns!StopPcs, Dns!Owning

LEMMA DnsSteps ==
  ASSUME DnsLifecycle, [Dns!Next]_(Dns!vars)
  PROVE  LifecycleTyped' /\ Kind
<1> USE DEF Dns!Goto, Goto
<1>0. state \in {"Stopped", "Ready", "Running", "Faulted"} => Unowned
  BY DEF DnsLifecycle, OneOperationAtATime, Owns, Unowned
<1>1. ASSUME NEW t \in Threads, NEW c \in DnsConfigurations, Dns!Initialize(t, c) PROVE Enters(t)
  BY <1>0, <1>1 DEF Dns!Initialize, Enters, Lifecycle!Entries, Phase, DnsLifecycle, LifecycleTyped
<1>2. ASSUME NEW t \in Threads, Dns!Start(t) PROVE Enters(t)
  BY <1>0, <1>2 DEF Dns!Start, Enters, Lifecycle!Entries, Phase
<1>3. ASSUME NEW t \in Threads, Dns!Stoppable, Dns!StopSection(t) PROVE Enters(t) \/ Discards(t)
  BY <1>0, <1>3 DEF Dns!Stoppable, Dns!StopSection, Enters, Discards, Phase,
                    Lifecycle!Entries, Lifecycle!Discards
<1>4. ASSUME UNCHANGED <<state, pc>> PROVE Inside
  BY <1>4 DEF Inside
<1>5. ASSUME NEW t \in Threads, NEW p \in Pcs, UNCHANGED state, Goto(t, p), Phase(p) = Phase(pc[t])
      PROVE  Inside
  BY <1>5 DEF Inside
<1>6. ASSUME NEW t \in Threads, Dns!NotifyStateChanged(t) PROVE Inside
  <2>1. pc[t] \in {"initNotify", "startNotify", "stopNotify", "finalNotify"} /\ UNCHANGED state
    BY <1>6 DEF Dns!NotifyStateChanged, Dns!AfterNotify, Dns!serverVars
  <2>2. /\ Dns!AfterNotify[pc[t]] \in Pcs
        /\ Phase(Dns!AfterNotify[pc[t]]) = Phase(pc[t])
    BY <2>1 DEF Dns!AfterNotify, Phase
  <2> QED
    BY <1>5, <1>6, <2>1, <2>2 DEF Dns!NotifyStateChanged
<1>7. ASSUME NEW t \in Threads,
             \/ Dns!PlatformInitialize(t) \/ Dns!PlatformStart(t)
             \/ Dns!PlatformStop(t) \/ Dns!PlatformReset(t)
      PROVE  Inside
  <2>1. UNCHANGED state
    BY <1>7 DEF Dns!PlatformInitialize, Dns!PlatformStart, Dns!PlatformStop,
                Dns!PlatformReset, Dns!serverVars
  <2>2. \E p \in Pcs : Goto(t, p) /\ Phase(p) = Phase(pc[t])
    <3>1. CASE Dns!PlatformInitialize(t)
      BY <3>1 DEF Dns!PlatformInitialize, Phase
    <3>2. CASE Dns!PlatformStart(t)
      BY <3>2 DEF Dns!PlatformStart, Phase
    <3>3. CASE Dns!PlatformStop(t)
      BY <3>3 DEF Dns!PlatformStop, Phase
    <3>4. CASE Dns!PlatformReset(t)
      <4>1. CASE pc[t] = "initReset"
        BY <3>4, <4>1 DEF Dns!PlatformReset, Phase
      <4>2. CASE pc[t] = "stopReset"
        BY <3>4, <4>2 DEF Dns!PlatformReset, Phase
      <4> QED
        BY <3>4, <4>1, <4>2 DEF Dns!PlatformReset
    <3> QED
      BY <1>7, <3>1, <3>2, <3>3, <3>4
  <2> QED
    BY <1>5, <2>1, <2>2
<1>8. ASSUME NEW t \in Threads,
             Dns!PublishInitialized(t) \/ Dns!PublishStarted(t) \/ Dns!PublishStopped(t)
      PROVE  Leaves(t)
  <2> USE DEF Dns!Publish, Leaves, Owns, DnsLifecycle, OneOperationAtATime,
              Lifecycle!Exits, Lifecycle!Transient
  <2>1. CASE Dns!PublishInitialized(t)
    BY <2>1 DEF Dns!PublishInitialized
  <2>2. CASE Dns!PublishStarted(t)
    BY <2>2 DEF Dns!PublishStarted
  <2>3. CASE Dns!PublishStopped(t)
    BY <2>3 DEF Dns!PublishStopped
  <2> QED
    BY <1>8, <2>1, <2>2, <2>3
<1>9. Kind
  <2>1. ASSUME NEW t \in Threads, Dns!Call(t) \/ Dns!Continue(t) PROVE Kind
    <3>1. CASE Dns!PlatformClose(t)
      BY <1>4, <3>1 DEF Dns!PlatformClose, Dns!serverVars, Dns!threadVars, Kind
    <3>2. CASE Dns!Stop(t) \/ Dns!Destruct(t)
      BY <1>3, <1>4, <3>2 DEF Dns!Stop, Dns!Destruct, Kind
    <3> QED
      BY <1>1, <1>2, <1>6, <1>7, <1>8, <2>1, <3>1, <3>2 DEF Dns!Call, Dns!Continue, Kind
  <2>2. CASE ~\E t \in Threads : Dns!Call(t) \/ Dns!Continue(t)
    <3>1. UNCHANGED <<state, pc>>
      BY <2>2 DEF Dns!Next, Dns!SetRequestHandler, Dns!Arrive, Dns!Serve, Dns!Dispatch,
                  Dns!AppReturns, Dns!WildcardHandles, Dns!Conclude, Dns!Leave,
                  Dns!AppUsesResponse, Dns!DestructReset, Dns!Destroyed,
                  Dns!vars, Dns!serverVars, Dns!threadVars
    <3> QED
      BY <1>4, <3>1 DEF Kind
  <2> QED
    BY <2>1, <2>2
<1>10. LifecycleTyped'
  BY <1>9 DEF Kind, Inside, Enters, Leaves, Discards, DnsLifecycle, LifecycleTyped,
              Lifecycle!Entries, Lifecycle!Exits, Lifecycle!Discards, Lifecycle!Transient
<1> QED
  BY <1>9, <1>10

(* DnsServer implements ServerLifecycle as HttpServer does.                *)
THEOREM DnsRefinement == Dns!Spec => Dns!Lifecycle!Spec
<1>1. Dns!Init => DnsLifecycle /\ Lifecycle!Init
  BY DEF Dns!Init, DnsLifecycle, LifecycleTyped, OneOperationAtATime, Owns,
         Lifecycle!Init, Owner
<1>2. DnsLifecycle /\ [Dns!Next]_(Dns!vars) => DnsLifecycle' /\ Kind
  BY DnsSteps, KindKeepsOwnership DEF DnsLifecycle
<1>3. DnsLifecycle /\ DnsLifecycle' /\ Kind /\ OwnerIsOwning /\ OwnerIsOwning' =>
        [Lifecycle!Next]_(Lifecycle!vars)
  BY KindFollowsLifecycle DEF DnsLifecycle
<1>4. Dns!Owner = Owner
  BY DnsPcs DEF Dns!Owner, Owner, Owns
<1>5. Lifecycle!Init => Dns!Lifecycle!Init
  BY <1>4 DEF Lifecycle!Init, Dns!Lifecycle!Init
<1>6. Dns!Owner' = Owner'
  BY DnsPcs DEF Dns!Owner, Owner, Owns
<1>7. [Lifecycle!Next]_(Lifecycle!vars) => [Dns!Lifecycle!Next]_(Dns!Lifecycle!vars)
  BY <1>4, <1>6
  DEF Lifecycle!Next, Lifecycle!vars, Lifecycle!Begin, Lifecycle!Finish, Lifecycle!Discard,
      Lifecycle!Entries, Lifecycle!Exits, Lifecycle!Discards, Lifecycle!Transient, Lifecycle!Stable,
      Dns!Lifecycle!Next, Dns!Lifecycle!vars, Dns!Lifecycle!Begin, Dns!Lifecycle!Finish,
      Dns!Lifecycle!Discard, Dns!Lifecycle!Entries, Dns!Lifecycle!Exits,
      Dns!Lifecycle!Discards, Dns!Lifecycle!Transient, Dns!Lifecycle!Stable
<1> QED
  BY <1>1, <1>2, <1>3, <1>5, <1>7, OwnerIs, PTL DEF Dns!Spec, Dns!Lifecycle!Spec

-----------------------------------------------------------------------------
(* A DNS response, by its fields, and what a call of it may return.        *)
Fields(s, w, c, n) == [state |-> s, wire |-> w, code |-> c, answers |-> n]

Out(r, e) == [response |-> r, result |-> e]

DnsCodes == Codes \cup {"NoError", "NameError"}

LEMMA DnsFields ==
  ASSUME NEW s, NEW w, NEW c, NEW n, NEW x
  PROVE  /\ [Fields(s, w, c, n) EXCEPT !.state = x] = Fields(x, w, c, n)
         /\ [Fields(s, w, c, n) EXCEPT !.wire = x] = Fields(s, x, c, n)
         /\ [Fields(s, w, c, n) EXCEPT !.code = x] = Fields(s, w, x, n)
         /\ [Fields(s, w, c, n) EXCEPT !.answers = x] = Fields(s, w, c, x)
         /\ Fields(s, w, c, n).state = s /\ Fields(s, w, c, n).wire = w
         /\ Fields(s, w, c, n).code = c /\ Fields(s, w, c, n).answers = n
BY DEF Fields

LEMMA DnsTold ==
  ASSUME NEW s, NEW c, NEW n, NEW w
  PROVE  Dns!R!Told(Fields(s, "open", c, n), w) = Fields(s, w, c, n)
<1>1. Dns!R!Told(Fields(s, "open", c, n), w) = [Fields(s, "open", c, n) EXCEPT !.wire = w]
  BY DnsFields DEF Dns!R!Told, Fields
<1> QED
  BY <1>1, DnsFields

LEMMA DnsCodeSets ==
  ASSUME NEW s \in {"Uncommitted", "Building"}, NEW c, NEW n, NEW code,
         NEW o \in Dns!R!Code(Fields(s, "open", c, n), code)
  PROVE  \/ o = Out(Fields("Building", "open", code, n), "None")
         \/ o = Out(Fields(s, "open", c, n), "PlatformFailure")
<1> DEFINE r == Fields(s, "open", c, n)
           told == [Dns!R!Told(r, "open") EXCEPT !.code = code]
<1>1. told = Fields(s, "open", code, n) /\ ~Dns!R!Ended(r)
  BY DnsTold, DnsFields DEF Dns!R!Ended
<1> HIDE DEF r, told
<1>2. [told EXCEPT !.state = "Building"] = Fields("Building", "open", code, n)
  BY <1>1, DnsFields
<1>3. o \in Dns!R!Then({Out(told, "None"), Out(r, "PlatformFailure")},
                      LAMBDA x : Dns!R!Returns([x EXCEPT !.state = "Building"], "None"))
  BY <1>1 DEF Dns!R!Code, Dns!R!PlatformSetResponseCode, Dns!R!OrFails, Dns!R!Returns, Out, r, told
<1>4. \E p \in {Out(told, "None"), Out(r, "PlatformFailure")} :
        \/ p.result # "None" /\ o = p
        \/ p.result = "None" /\ o \in Dns!R!Returns([p.response EXCEPT !.state = "Building"], "None")
  BY <1>3 DEF Dns!R!Then
<1>5. /\ Out(told, "None").result = "None" /\ Out(told, "None").response = told
      /\ Out(r, "PlatformFailure").result # "None"
  BY DEF Out
<1>6. o \in Dns!R!Returns([told EXCEPT !.state = "Building"], "None") \/ o = Out(r, "PlatformFailure")
  BY <1>4, <1>5
<1> QED
  BY <1>2, <1>6 DEF Dns!R!Returns, Out, r

(* A response without a code is a success.                                 *)
CommittedCode(s, c) == IF s = "Building" THEN c ELSE "NoError"

LEMMA DnsCommittedSets ==
  ASSUME NEW s \in {"Uncommitted", "Building"}, NEW c, NEW n,
         NEW o \in Dns!R!Committed(Fields(s, "open", c, n))
  PROVE  \/ o = Out(Fields("Building", "open", CommittedCode(s, c), n), "None")
         \/ o = Out(Fields(s, "open", c, n), "PlatformFailure")
<1>1. CASE s = "Building"
  BY <1>1, DnsFields DEF Dns!R!Committed, Dns!R!IsCommitted, Dns!R!Returns, Out, CommittedCode
<1>2. CASE s = "Uncommitted"
  <2>1. o \in Dns!R!Code(Fields(s, "open", c, n), "NoError")
    BY <1>2, DnsFields DEF Dns!R!Committed, Dns!R!IsCommitted
  <2> QED
    BY <1>2, <2>1, DnsCodeSets DEF CommittedCode
<1> QED
  BY <1>1, <1>2

LEMMA OutFields ==
  ASSUME NEW r, NEW e
  PROVE  Out(r, e).response = r /\ Out(r, e).result = e
BY DEF Out

LEMMA DnsAddressAdds ==
  ASSUME NEW s \in {"Uncommitted", "Building"}, NEW c, NEW n,
         NEW o \in Dns!R!Address(Fields(s, "open", c, n))
  PROVE  \/ o = Out(Fields("Building", "open", CommittedCode(s, c), n + 1), "None")
         \/ o = Out(Fields("Building", "open", CommittedCode(s, c), n), "PlatformFailure")
         \/ o = Out(Fields(s, "open", c, n), "PlatformFailure")
<1> DEFINE r == Fields(s, "open", c, n)
           t == Fields("Building", "open", CommittedCode(s, c), n)
<1>1. t.state = "Building" /\ t.wire = "open" /\ t.answers = n
  BY DnsFields
<1>2. [Dns!R!Told(t, "open") EXCEPT !.answers = @ + 1]
        = Fields("Building", "open", CommittedCode(s, c), n + 1)
  BY DnsTold, DnsFields
<1> HIDE DEF r, t
<1>3. \E p \in Dns!R!Committed(r) :
        \/ p.result # "None" /\ o = p
        \/ /\ p.result = "None"
           /\ o \in IF p.response.state # "Building" THEN Dns!R!Returns(p.response, "InvalidState")
                    ELSE Dns!R!PlatformAddAddressAnswer(p.response)
  BY DEF Dns!R!Address, Dns!R!Then, r
<1>4. \A p \in Dns!R!Committed(r) : p = Out(t, "None") \/ p = Out(r, "PlatformFailure")
  BY DnsCommittedSets DEF r, t
<1>5. o = Out(r, "PlatformFailure") \/ o \in Dns!R!PlatformAddAddressAnswer(t)
  BY <1>1, <1>3, <1>4, OutFields
<1>6. ASSUME o \in Dns!R!PlatformAddAddressAnswer(t)
      PROVE  \/ o = Out([Dns!R!Told(t, "open") EXCEPT !.answers = @ + 1], "None")
             \/ o = Out(t, "PlatformFailure")
  BY <1>6 DEF Dns!R!PlatformAddAddressAnswer, Dns!R!OrFails, Dns!R!Returns, Out
<1> QED
  BY <1>2, <1>5, <1>6 DEF r, t

LEMMA DnsCompleteEnds ==
  ASSUME NEW s \in {"Uncommitted", "Building"}, NEW c, NEW n,
         NEW o \in Dns!R!Complete(Fields(s, "open", c, n))
  PROVE  \/ o = Out(Fields("Completed", "completed", CommittedCode(s, c), n), "None")
         \/ o = Out(Fields("Building", "open", CommittedCode(s, c), n), "PlatformFailure")
         \/ o = Out(Fields(s, "open", c, n), "PlatformFailure")
<1> DEFINE r == Fields(s, "open", c, n)
           t == Fields("Building", "open", CommittedCode(s, c), n)
           u == Fields("Building", "completed", CommittedCode(s, c), n)
           v == Fields("Completed", "completed", CommittedCode(s, c), n)
<1>1. Dns!R!Told(t, "completed") = u /\ [u EXCEPT !.state = "Completed"] = v
  BY DnsTold, DnsFields
<1>2. r.state # "Completed" /\ r.state # "Aborted"
  BY DnsFields
<1>3. \A p \in Dns!R!Committed(r) : p = Out(t, "None") \/ p = Out(r, "PlatformFailure")
  BY DnsCommittedSets
<1> HIDE DEF r, t, u, v
<1> DEFINE End(x) == Dns!R!Then(Dns!R!PlatformComplete(x),
                       LAMBDA y : Dns!R!Returns([y EXCEPT !.state = "Completed"], "None"))
<1>4. o \in Dns!R!Then(Dns!R!Committed(r), LAMBDA x : End(x))
  BY <1>2 DEF Dns!R!Complete, r
<1> HIDE DEF End
<1>5. \E p \in Dns!R!Committed(r) :
        \/ p.result # "None" /\ o = p
        \/ p.result = "None" /\ o \in End(p.response)
  BY <1>4 DEF Dns!R!Then
<1>6. o = Out(r, "PlatformFailure") \/ o \in End(t)
  BY <1>3, <1>5, OutFields
<1>7. ASSUME o \in End(t) PROVE o = Out(v, "None") \/ o = Out(t, "PlatformFailure")
  <2>1. \E p \in Dns!R!PlatformComplete(t) :
          \/ p.result # "None" /\ o = p
          \/ p.result = "None" /\ o \in Dns!R!Returns([p.response EXCEPT !.state = "Completed"], "None")
    BY <1>7 DEF End, Dns!R!Then
  <2>2. \A p \in Dns!R!PlatformComplete(t) : p = Out(u, "None") \/ p = Out(t, "PlatformFailure")
    BY <1>1 DEF Dns!R!PlatformComplete, Dns!R!OrFails, Dns!R!Returns, Out
  <2>3. o = Out(t, "PlatformFailure") \/ o \in Dns!R!Returns([u EXCEPT !.state = "Completed"], "None")
    BY <2>1, <2>2, OutFields
  <2> QED
    BY <1>1, <2>3 DEF Dns!R!Returns, Out
<1> QED
  BY <1>6, <1>7 DEF r, t, v

(* What a response is between calls: open or over, in step with what the   *)
(* platform was told; without a code as long as nothing was told.          *)
Building(r) == \E c \in DnsCodes, n \in Nat : r = Fields("Building", "open", c, n)

Over(r) == \E c \in DnsCodes \cup {"unset"}, n \in Nat :
             r = Fields("Completed", "completed", c, n) \/ r = Fields("Aborted", "aborted", c, n)

InStep(r) == r = Dns!R!Fresh \/ Building(r) \/ Over(r)

FreshFields == Fields("Uncommitted", "open", "unset", 0)

LEMMA FreshIs == Dns!R!Fresh = FreshFields
BY DEF Dns!R!Fresh, FreshFields, Fields

LEMMA InStepTyped == ASSUME NEW r, InStep(r) PROVE r \in Dns!R!ResponseType
BY DEF InStep, Building, Over, Fields, DnsCodes, Dns!R!Fresh, Dns!R!ResponseType

LEMMA InStepAfterCode ==
  ASSUME NEW r, InStep(r), NEW code \in DnsCodes, NEW o \in Dns!R!Code(r, code)
  PROVE  InStep(o.response)
<1>1. CASE r = Dns!R!Fresh
  <2>1. \/ o = Out(Fields("Building", "open", code, 0), "None") \/ o = Out(r, "PlatformFailure")
    BY <1>1, FreshIs, DnsCodeSets DEF FreshFields
  <2> QED
    BY <2>1, OutFields DEF InStep, Building
<1>2. CASE Building(r)
  <2>1. PICK c \in DnsCodes, n \in Nat : r = Fields("Building", "open", c, n)
    BY <1>2 DEF Building
  <2>2. \/ o = Out(Fields("Building", "open", code, n), "None") \/ o = Out(r, "PlatformFailure")
    BY <2>1, DnsCodeSets
  <2> QED
    BY <2>2, OutFields DEF InStep, Building
<1>3. CASE Over(r)
  <2>1. Dns!R!Ended(r)
    BY <1>3, DnsFields DEF Over, Dns!R!Ended
  <2>2. o \in Dns!R!Returns(r, "InvalidState")
    BY <2>1 DEF Dns!R!Code
  <2>3. o.response = r
    BY <2>2 DEF Dns!R!Returns
  <2> QED
    BY <2>3
<1> QED
  BY <1>1, <1>2, <1>3 DEF InStep

LEMMA InStepAfterAddress ==
  ASSUME NEW r, InStep(r), NEW o \in Dns!R!Address(r)
  PROVE  InStep(o.response)
<1>1. CASE r = Dns!R!Fresh
  <2>1. \/ o = Out(Fields("Building", "open", "NoError", 0 + 1), "None")
        \/ o = Out(Fields("Building", "open", "NoError", 0), "PlatformFailure")
        \/ o = Out(r, "PlatformFailure")
    BY <1>1, FreshIs, DnsAddressAdds DEF FreshFields, CommittedCode
  <2> QED
    BY <2>1, OutFields DEF InStep, Building, DnsCodes
<1>2. CASE Building(r)
  <2>1. PICK c \in DnsCodes, n \in Nat : r = Fields("Building", "open", c, n)
    BY <1>2 DEF Building
  <2>2. \/ o = Out(Fields("Building", "open", c, n + 1), "None") \/ o = Out(r, "PlatformFailure")
    BY <2>1, DnsAddressAdds DEF CommittedCode
  <2>3. n + 1 \in Nat
    OBVIOUS
  <2> QED
    BY <2>2, <2>3, OutFields DEF InStep, Building
<1>3. CASE Over(r)
  <2>1. r.state # "Building" /\ Dns!R!IsCommitted(r)
    BY <1>3, DnsFields DEF Over, Dns!R!IsCommitted
  <2>2. \E p \in Dns!R!Committed(r) :
          \/ p.result # "None" /\ o = p
          \/ /\ p.result = "None"
             /\ o \in IF p.response.state # "Building" THEN Dns!R!Returns(p.response, "InvalidState")
                      ELSE Dns!R!PlatformAddAddressAnswer(p.response)
    BY DEF Dns!R!Address, Dns!R!Then
  <2>3. \A p \in Dns!R!Committed(r) : p = Out(r, "None")
    BY <2>1 DEF Dns!R!Committed, Dns!R!Returns, Out
  <2>4. o \in Dns!R!Returns(r, "InvalidState")
    BY <2>1, <2>2, <2>3, OutFields
  <2>5. o.response = r
    BY <2>4 DEF Dns!R!Returns
  <2> QED
    BY <2>5
<1> QED
  BY <1>1, <1>2, <1>3 DEF InStep

LEMMA InStepAfterComplete ==
  ASSUME NEW r, InStep(r), NEW o \in Dns!R!Complete(r)
  PROVE  InStep(o.response) /\ (o.result = "None" => o.response.state = "Completed")
         /\ o.result \in {"None", "InvalidState", "PlatformFailure"}
<1>1. ASSUME NEW s \in {"Uncommitted", "Building"}, NEW c, NEW n \in Nat,
             r = Fields(s, "open", c, n), CommittedCode(s, c) \in DnsCodes
      PROVE  InStep(o.response) /\ (o.result = "None" => o.response.state = "Completed")
             /\ o.result \in {"None", "InvalidState", "PlatformFailure"}
  <2>1. \/ o = Out(Fields("Completed", "completed", CommittedCode(s, c), n), "None")
        \/ o = Out(Fields("Building", "open", CommittedCode(s, c), n), "PlatformFailure")
        \/ o = Out(r, "PlatformFailure")
    BY <1>1, DnsCompleteEnds
  <2> QED
    BY <1>1, <2>1, OutFields, DnsFields DEF InStep, Building, Over
<1>2. CASE r = Dns!R!Fresh
  BY <1>1, <1>2, FreshIs DEF FreshFields, CommittedCode, DnsCodes
<1>3. CASE Building(r)
  BY <1>1, <1>3 DEF Building, CommittedCode
<1>4. CASE Over(r)
  <2>1. r.state \in {"Completed", "Aborted"}
    BY <1>4, DnsFields DEF Over
  <2>2. /\ o.response = r /\ o.result \in {"None", "InvalidState"}
        /\ o.result = "None" => r.state = "Completed"
    <3>1. CASE r.state = "Completed"
      <4>1. o \in Dns!R!Returns(r, "None")
        BY <3>1 DEF Dns!R!Complete
      <4> QED
        BY <3>1, <4>1 DEF Dns!R!Returns
    <3>2. CASE r.state = "Aborted"
      <4>1. o \in Dns!R!Returns(r, "InvalidState")
        BY <3>2 DEF Dns!R!Complete
      <4> QED
        BY <4>1 DEF Dns!R!Returns
    <3> QED
      BY <2>1, <3>1, <3>2
  <2> QED
    BY <2>2
<1> QED
  BY <1>2, <1>3, <1>4 DEF InStep

LEMMA AbortEnds ==
  ASSUME NEW r, InStep(r)
  PROVE  Over(Dns!R!Abort(r)) /\ (Over(r) => Dns!R!Abort(r) = r)
<1>1. ASSUME NEW s \in {"Uncommitted", "Building"}, NEW c \in DnsCodes \cup {"unset"}, NEW n \in Nat,
             r = Fields(s, "open", c, n)
      PROVE  Over(Dns!R!Abort(r)) /\ ~Over(r)
  <2>1. Dns!R!Abort(r) = Fields("Aborted", "aborted", c, n)
    BY <1>1, DnsTold, DnsFields DEF Dns!R!Abort, Dns!R!Ended, Dns!R!PlatformAbort
  <2>2. ~Over(r)
    BY <1>1, DnsFields DEF Over
  <2> QED
    BY <2>1, <2>2 DEF Over
<1>2. CASE r = Dns!R!Fresh
  BY <1>1, <1>2, FreshIs DEF FreshFields
<1>3. CASE Building(r)
  BY <1>1, <1>3 DEF Building
<1>4. CASE Over(r)
  BY <1>4, DnsFields DEF Over, Dns!R!Abort, Dns!R!Ended
<1> QED
  BY <1>2, <1>3, <1>4 DEF InStep

(* The destructor leaves nothing half built.                               *)
LEMMA DestroyedEnds ==
  ASSUME NEW r, InStep(r)
  PROVE  /\ Dns!R!Destroyed(r) = Dns!R!Fresh \/ Over(Dns!R!Destroyed(r))
         /\ r.state = "Completed" => Dns!R!Destroyed(r) = r /\ r.wire = "completed"
<1>1. CASE r = Dns!R!Fresh
  BY <1>1, FreshIs, DnsFields DEF FreshFields, Dns!R!Destroyed
<1>2. CASE Building(r)
  <2>1. r.state = "Building"
    BY <1>2, DnsFields DEF Building
  <2> QED
    BY <2>1, AbortEnds DEF Dns!R!Destroyed
<1>3. CASE Over(r)
  <2>1. r.state # "Building" /\ (r.state = "Completed" => r.wire = "completed")
    BY <1>3, DnsFields DEF Over
  <2> QED
    BY <1>3, <2>1 DEF Dns!R!Destroyed
<1> QED
  BY <1>1, <1>2, <1>3 DEF InStep

(* The rest of Dispatch: a success is of a completed response, and an open *)
(* one of a failure that wrote nothing.                                    *)
LEMMA DispatchEnds ==
  ASSUME NEW h, InStep(h.response), h.result \in {"None", "HandlerFailure", "InvalidState", "PlatformFailure"},
         NEW o \in Dns!DispatchResult(h)
  PROVE  /\ InStep(o.response) /\ InStep(Dns!R!Destroyed(o.response)) /\ o.result \in Dns!Errors
         /\ o.result = "None" => Dns!R!Destroyed(o.response).wire = "completed"
         /\ Dns!R!Destroyed(o.response).wire = "open" =>
              Dns!R!Destroyed(o.response) = Dns!R!Fresh
<1>1. \/ /\ o.response = h.response
         /\ o.result \in Dns!Errors /\ (o.result = "None" => h.response.state = "Completed")
      \/ \E p \in Dns!R!Code(h.response, "NameError") :
           \/ p.result # "None" /\ o = p
           \/ p.result = "None" /\ o \in Dns!R!Complete(p.response)
  <2>1. CASE h.result # "None"
    <3>1. o \in Dns!R!Returns(h.response, h.result)
      BY <2>1 DEF Dns!DispatchResult
    <3> QED
      BY <2>1, <3>1 DEF Dns!R!Returns, Dns!Errors
  <2>2. CASE h.result = "None" /\ h.handled
    <3>1. o \in Dns!R!Returns(h.response, IF Dns!R!IsCompleted(h.response) THEN "None" ELSE "InvalidState")
      BY <2>2 DEF Dns!DispatchResult
    <3> QED
      BY <3>1 DEF Dns!R!Returns, Dns!R!IsCompleted, Dns!Errors
  <2>3. CASE h.result = "None" /\ ~h.handled /\ Dns!R!IsCommitted(h.response)
    <3>1. o \in Dns!R!Returns(h.response, "InvalidState")
      BY <2>3 DEF Dns!DispatchResult
    <3> QED
      BY <3>1 DEF Dns!R!Returns, Dns!Errors
  <2>4. CASE h.result = "None" /\ ~h.handled /\ ~Dns!R!IsCommitted(h.response)
    <3>1. o \in Dns!R!Then(Dns!R!Code(h.response, "NameError"), LAMBDA r : Dns!R!Complete(r))
      BY <2>4 DEF Dns!DispatchResult
    <3> QED
      BY <3>1 DEF Dns!R!Then
  <2> QED
    BY <2>1, <2>2, <2>3, <2>4
<1>2. ASSUME NEW p \in Dns!R!Code(h.response, "NameError")
      PROVE  InStep(p.response) /\ p.result \in Dns!Errors
  <2>1. InStep(p.response)
    BY <1>2, InStepAfterCode DEF DnsCodes
  <2>2. p.result \in {"None", "PlatformFailure", "InvalidState"}
    BY <1>2 DEF Dns!R!Code, Dns!R!Then, Dns!R!Returns, Dns!R!PlatformSetResponseCode, Dns!R!OrFails
  <2> QED
    BY <2>1, <2>2 DEF Dns!Errors
<1>3. InStep(o.response) /\ o.result \in Dns!Errors /\ (o.result = "None" => o.response.state = "Completed")
  <2>1. CASE \E p \in Dns!R!Code(h.response, "NameError") : p.result # "None" /\ o = p
    BY <1>2, <2>1
  <2>2. CASE \E p \in Dns!R!Code(h.response, "NameError") : o \in Dns!R!Complete(p.response)
    BY <1>2, <2>2, InStepAfterComplete DEF Dns!Errors
  <2> QED
    BY <1>1, <2>1, <2>2
<1>4. \A r : Over(r) => r.wire # "open"
  BY DnsFields DEF Over
<1> QED
  BY <1>3, <1>4, DestroyedEnds DEF InStep

(* What the wildcard handler completes.                                    *)
LEMMA WildcardAnswers ==
  ASSUME NEW o \in Dns!R!Then(Dns!R!Address(Dns!R!Fresh), LAMBDA s : Dns!R!Complete(s))
  PROVE  /\ InStep(o.response) /\ o.result \in {"None", "InvalidState", "PlatformFailure"}
         /\ o.result = "None" => o.response = Fields("Completed", "completed", "NoError", 1)
<1>1. \E p \in Dns!R!Address(Dns!R!Fresh) :
        \/ p.result # "None" /\ o = p
        \/ p.result = "None" /\ o \in Dns!R!Complete(p.response)
  BY DEF Dns!R!Then
<1>2. ASSUME NEW p \in Dns!R!Address(Dns!R!Fresh)
      PROVE  /\ InStep(p.response) /\ p.result \in {"None", "PlatformFailure"}
             /\ p.result = "None" => p.response = Fields("Building", "open", "NoError", 1)
  <2>1. \/ p = Out(Fields("Building", "open", "NoError", 0 + 1), "None")
        \/ p = Out(Fields("Building", "open", "NoError", 0), "PlatformFailure")
        \/ p = Out(FreshFields, "PlatformFailure")
    BY <1>2, FreshIs, DnsAddressAdds DEF FreshFields, CommittedCode
  <2>2. InStep(p.response)
    BY <1>2, InStepAfterAddress DEF InStep
  <2> QED
    BY <2>1, <2>2, OutFields
<1>3. ASSUME NEW p, p.response = Fields("Building", "open", "NoError", 1), o \in Dns!R!Complete(p.response)
      PROVE  o.result = "None" => o.response = Fields("Completed", "completed", "NoError", 1)
  BY <1>3, DnsCompleteEnds, OutFields DEF CommittedCode
<1>4. ASSUME NEW p \in Dns!R!Address(Dns!R!Fresh), p.result = "None", o \in Dns!R!Complete(p.response)
      PROVE  /\ InStep(o.response) /\ o.result \in {"None", "InvalidState", "PlatformFailure"}
             /\ o.result = "None" => o.response = Fields("Completed", "completed", "NoError", 1)
  BY <1>2, <1>3, <1>4, InStepAfterComplete
<1> QED
  BY <1>1, <1>2, <1>4

(* ... and what Dispatch makes of a query it turned down.                  *)
LEMMA TurnedDownIsNameError ==
  ASSUME NEW o \in Dns!DispatchResult([response |-> Dns!R!Fresh, result |-> "None", handled |-> FALSE]),
         o.result = "None"
  PROVE  o.response = Fields("Completed", "completed", "NameError", 0)
<1>1. ~Dns!R!IsCommitted(Dns!R!Fresh)
  BY DEF Dns!R!Fresh, Dns!R!IsCommitted
<1>2. o \in Dns!R!Then(Dns!R!Code(Dns!R!Fresh, "NameError"), LAMBDA r : Dns!R!Complete(r))
  BY <1>1 DEF Dns!DispatchResult
<1>3. \E p \in Dns!R!Code(Dns!R!Fresh, "NameError") :
        \/ p.result # "None" /\ o = p
        \/ p.result = "None" /\ o \in Dns!R!Complete(p.response)
  BY <1>2 DEF Dns!R!Then
<1>4. PICK p \in Dns!R!Code(Dns!R!Fresh, "NameError") :
        p.result = "None" /\ o \in Dns!R!Complete(p.response)
  BY <1>3
<1>5. p.response = Fields("Building", "open", "NameError", 0)
  BY <1>4, FreshIs, DnsCodeSets, OutFields DEF FreshFields
<1> QED
  BY <1>4, <1>5, DnsCompleteEnds, OutFields DEF CommittedCode

-----------------------------------------------------------------------------
(* One query, at each point of its Dispatch: its response is in step with  *)
(* the platform; before the handler, and with the wildcard handler until   *)
(* it ends, nothing was written; at the end it is answered.                *)
Answered(query) ==
  LET r == query.response
      asked == <<IF WildcardFamily = "IPv4" THEN "A" ELSE "Aaaa", "Internet">>
  IN  /\ query.outcome = "None" => r.wire = "completed"
      /\ r.wire = "open" => r = Dns!R!Fresh /\ query.outcome # "None"
      /\ query.outcome = "None" /\ query.handler = Wildcard =>
           IF query.question = asked THEN r.code = "NoError" /\ r.answers = 1
                                     ELSE r.code = "NameError" /\ r.answers = 0

QueryInv(query) ==
  /\ InStep(query.response)
  /\ query.pc \in {"arrived", "handling"} => query.question \in Questions
  /\ query.pc = "arrived" \/ (query.pc = "handling" /\ query.handler = Wildcard) =>
       query.response = Dns!R!Fresh
  /\ query.pc = "over" => Answered(query)

Sound(query) == query \in Dns!QueryType /\ QueryInv(query)

LEMMA IdleIsSound == Sound(Dns!Idle)
<1>1. InStep(Dns!R!Fresh) /\ Dns!R!Fresh \in Dns!R!ResponseType
  BY InStepTyped DEF InStep
<1> QED
  BY <1>1 DEF Sound, QueryInv, Dns!Idle, Dns!QueryType, Dns!AnyHandler, Dns!Errors

LEMMA ArrivedIsSound ==
  ASSUME NEW question \in Questions
  PROVE  Sound([Dns!Idle EXCEPT !.pc = "arrived", !.question = question])
BY IdleIsSound DEF Sound, QueryInv, Dns!Idle, Dns!QueryType

LEMMA DispatchedIsSound ==
  ASSUME NEW query, Sound(query), query.pc = "arrived",
         NEW h \in Dns!AnyHandler, NEW error \in Dns!Errors \ {"None"}
  PROVE  /\ Sound(Dns!Refused(query, error))
         /\ Sound([query EXCEPT !.pc = "handling", !.handler = h])
<1>1. query.response = Dns!R!Fresh /\ Dns!R!Fresh.wire = "open"
  BY DEF Sound, QueryInv, Dns!R!Fresh
<1>2. Sound(Dns!Refused(query, error))
  BY <1>1 DEF Sound, QueryInv, Answered, Dns!Refused, Dns!QueryType
<1>3. Sound([query EXCEPT !.pc = "handling", !.handler = h])
  BY <1>1 DEF Sound, QueryInv, Dns!QueryType
<1> QED
  BY <1>2, <1>3

LEMMA UsedIsSound ==
  ASSUME NEW query, Sound(query), query.pc = "handling", query.handler # Wildcard,
         NEW r, InStep(r)
  PROVE  Sound([query EXCEPT !.response = r])
BY InStepTyped DEF Sound, QueryInv, Dns!QueryType

LEMMA ConcludedIsSound ==
  ASSUME NEW query, Sound(query), NEW r, InStep(r), NEW error \in Dns!Errors,
         error = "None" => r.wire = "completed",
         r.wire = "open" => r = Dns!R!Fresh,
         error = "None" /\ query.handler = Wildcard =>
           IF query.question = <<IF WildcardFamily = "IPv4" THEN "A" ELSE "Aaaa", "Internet">>
             THEN r.code = "NoError" /\ r.answers = 1
             ELSE r.code = "NameError" /\ r.answers = 0
  PROVE  Sound([query EXCEPT !.pc = "over", !.outcome = error, !.response = r])
<1> DEFINE new == [query EXCEPT !.pc = "over", !.outcome = error, !.response = r]
<1>1. /\ new \in Dns!QueryType
      /\ new.pc = "over" /\ new.outcome = error /\ new.response = r
      /\ new.handler = query.handler /\ new.question = query.question
  BY InStepTyped DEF Sound, Dns!QueryType
<1> HIDE DEF new
<1>2. Answered(new)
  BY <1>1 DEF Answered
<1>3. QueryInv(new)
  BY <1>1, <1>2 DEF QueryInv
<1> QED
  BY <1>1, <1>3 DEF Sound, new

(* How Dispatch ends after the wildcard handler.                           *)
LEMMA WildcardConcludes ==
  ASSUME Dns!DnsAssumption, NEW question \in Questions, NEW h, NEW o \in Dns!DispatchResult(h),
         IF Dns!Compatible(question)
           THEN \E a \in Dns!R!Then(Dns!R!Address(Dns!R!Fresh), LAMBDA s : Dns!R!Complete(s)) :
                  h = [response |-> a.response, result |-> a.result, handled |-> TRUE]
           ELSE h = [response |-> Dns!R!Fresh, result |-> "None", handled |-> FALSE]
  PROVE  /\ InStep(h.response)
         /\ h.result \in {"None", "HandlerFailure", "InvalidState", "PlatformFailure"}
         /\ o.result = "None" =>
              LET r == Dns!R!Destroyed(o.response)
              IN  IF question = <<IF WildcardFamily = "IPv4" THEN "A" ELSE "Aaaa", "Internet">>
                    THEN r.code = "NoError" /\ r.answers = 1
                    ELSE r.code = "NameError" /\ r.answers = 0
<1>1. Dns!Compatible(question) <=>
        question = <<IF WildcardFamily = "IPv4" THEN "A" ELSE "Aaaa", "Internet">>
  <2>1. PICK type \in STRING, class \in STRING : question = <<type, class>>
    BY DEF Dns!DnsAssumption
  <2>2. WildcardFamily = "IPv4" \/ WildcardFamily = "IPv6"
    BY DEF Dns!DnsAssumption
  <2> QED
    BY <2>1, <2>2 DEF Dns!Compatible
<1>2. \A c, n : Dns!R!Destroyed(Fields("Completed", "completed", c, n)) = Fields("Completed", "completed", c, n)
  BY DnsFields DEF Dns!R!Destroyed
<1>3. CASE Dns!Compatible(question)
  <2>1. PICK a \in Dns!R!Then(Dns!R!Address(Dns!R!Fresh), LAMBDA s : Dns!R!Complete(s)) :
               h = [response |-> a.response, result |-> a.result, handled |-> TRUE]
    BY <1>3
  <2>2. h.response = a.response /\ h.result = a.result /\ h.handled
    BY <2>1
  <2>3. /\ InStep(h.response) /\ h.result \in {"None", "InvalidState", "PlatformFailure"}
        /\ h.result = "None" => h.response = Fields("Completed", "completed", "NoError", 1)
    BY <2>2, WildcardAnswers
  <2>4. o.result = "None" => h.result = "None" /\ o.response = h.response
    <3>1. CASE h.result # "None"
      <4>1. o \in Dns!R!Returns(h.response, h.result)
        BY <3>1 DEF Dns!DispatchResult
      <4> QED
        BY <3>1, <4>1 DEF Dns!R!Returns
    <3>2. CASE h.result = "None"
      <4>1. o \in Dns!R!Returns(h.response, IF Dns!R!IsCompleted(h.response) THEN "None" ELSE "InvalidState")
        BY <2>2, <3>2 DEF Dns!DispatchResult
      <4> QED
        BY <3>2, <4>1 DEF Dns!R!Returns
    <3> QED
      BY <3>1, <3>2
  <2> QED
    BY <1>1, <1>2, <1>3, <2>3, <2>4, DnsFields
<1>4. CASE ~Dns!Compatible(question)
  <2>1. h = [response |-> Dns!R!Fresh, result |-> "None", handled |-> FALSE]
    BY <1>4
  <2>2. InStep(h.response) /\ h.result = "None"
    BY <2>1 DEF InStep
  <2>3. o.result = "None" => o.response = Fields("Completed", "completed", "NameError", 0)
    BY <2>1, TurnedDownIsNameError
  <2> QED
    BY <1>1, <1>2, <1>4, <2>2, <2>3, DnsFields
<1> QED
  BY <1>3, <1>4

DnsQueriesInv == queries \in [Queries -> Dns!QueryType] /\ \A q \in Queries : Sound(queries[q])

LEMMA OneQueryChanges ==
  ASSUME DnsQueriesInv, NEW q \in Queries, NEW new, Sound(new), queries' = [queries EXCEPT ![q] = new]
  PROVE  DnsQueriesInv'
<1>1. \A p \in Queries : queries'[p] = IF p = q THEN new ELSE queries[p]
  BY DEF DnsQueriesInv
<1>2. \A p \in Queries : Sound(queries'[p])
  BY <1>1 DEF DnsQueriesInv
<1>3. queries' \in [Queries -> Dns!QueryType]
  BY DEF DnsQueriesInv, Sound
<1> QED
  BY <1>2, <1>3 DEF DnsQueriesInv

LEMMA QueryConcludes ==
  ASSUME DnsQueriesInv, NEW q \in Queries, NEW h, Dns!Conclude(q, h),
         InStep(h.response), h.result \in {"None", "HandlerFailure", "InvalidState", "PlatformFailure"},
         \A o \in Dns!DispatchResult(h) : o.result = "None" /\ queries[q].handler = Wildcard =>
              LET r == Dns!R!Destroyed(o.response)
              IN  IF queries[q].question = <<IF WildcardFamily = "IPv4" THEN "A" ELSE "Aaaa", "Internet">>
                    THEN r.code = "NoError" /\ r.answers = 1
                    ELSE r.code = "NameError" /\ r.answers = 0
  PROVE  DnsQueriesInv'
<1>1. PICK o \in Dns!DispatchResult(h) :
        queries' = [queries EXCEPT ![q].pc = "over", ![q].outcome = o.result,
                                   ![q].response = Dns!R!Destroyed(o.response)]
  BY DEF Dns!Conclude
<1> DEFINE r == Dns!R!Destroyed(o.response)
           new == [queries[q] EXCEPT !.pc = "over", !.outcome = o.result, !.response = r]
<1>2. queries' = [queries EXCEPT ![q] = new]
  BY <1>1 DEF DnsQueriesInv
<1>3. /\ InStep(r) /\ o.result \in Dns!Errors
      /\ o.result = "None" => r.wire = "completed"
      /\ r.wire = "open" => r = Dns!R!Fresh
  BY DispatchEnds
<1>4. Sound(queries[q])
  BY DEF DnsQueriesInv
<1>5. o.result = "None" /\ queries[q].handler = Wildcard =>
        IF queries[q].question = <<IF WildcardFamily = "IPv4" THEN "A" ELSE "Aaaa", "Internet">>
          THEN r.code = "NoError" /\ r.answers = 1
          ELSE r.code = "NameError" /\ r.answers = 0
  OBVIOUS
<1> HIDE DEF r
<1>6. Sound(new)
  BY <1>3, <1>4, <1>5, ConcludedIsSound
<1> HIDE DEF new
<1> QED
  BY <1>2, <1>6, OneQueryChanges

LEMMA DnsQueriesStep ==
  ASSUME Dns!DnsAssumption, handler \in Dns!AnyHandler, DnsQueriesInv, [Dns!Next]_(Dns!vars)
  PROVE  DnsQueriesInv'
<1>0. ASSUME UNCHANGED queries PROVE DnsQueriesInv'
  BY <1>0 DEF DnsQueriesInv
<1>1. ASSUME NEW q \in Queries, NEW question \in Questions, Dns!Arrive(q, question)
      PROVE  DnsQueriesInv'
  BY <1>1, ArrivedIsSound, OneQueryChanges DEF Dns!Arrive
<1>2. ASSUME NEW q \in Queries, Dns!Dispatch(q) PROVE DnsQueriesInv'
  <2> DEFINE new == CASE state # "Running"   -> Dns!Refused(queries[q], "NotRunning")
                      [] handler = NoHandler -> Dns!Refused(queries[q], "InvalidState")
                      [] OTHER -> [queries[q] EXCEPT !.pc = "handling", !.handler = handler]
  <2>1. queries' = [queries EXCEPT ![q] = new] /\ queries[q].pc = "arrived"
    BY <1>2 DEF Dns!Dispatch, DnsQueriesInv
  <2>2. Sound(queries[q])
    BY DEF DnsQueriesInv
  <2>3. {"NotRunning", "InvalidState"} \subseteq Dns!Errors \ {"None"}
    BY DEF Dns!Errors
  <2>4. /\ Sound(Dns!Refused(queries[q], "NotRunning"))
        /\ Sound(Dns!Refused(queries[q], "InvalidState"))
        /\ Sound([queries[q] EXCEPT !.pc = "handling", !.handler = handler])
    BY <2>1, <2>2, <2>3, DispatchedIsSound
  <2>5. Sound(new)
    BY <2>4
  <2> HIDE DEF new
  <2> QED
    BY <2>1, <2>5, OneQueryChanges
<1>3. ASSUME NEW q \in Queries, Dns!AppUsesResponse(q) PROVE DnsQueriesInv'
  <2> DEFINE r == queries[q].response
  <2>1. Sound(queries[q]) /\ InStep(r)
    BY DEF DnsQueriesInv, Sound, QueryInv
  <2>2. queries[q].pc = "handling" /\ queries[q].handler # Wildcard
    BY <1>3 DEF Dns!AppUsesResponse, Dns!Handling, Dns!DnsAssumption
  <2>3. PICK o \in (UNION {Dns!R!Code(r, c) : c \in Codes})
                     \cup (IF r.answers < MaxAnswers THEN Dns!R!Address(r) ELSE {})
                     \cup Dns!R!Complete(r) \cup Dns!R!Returns(Dns!R!Abort(r), "None") :
               queries' = [queries EXCEPT ![q].response = o.response]
    BY <1>3 DEF Dns!AppUsesResponse
  <2>4. InStep(o.response)
    <3>1. CASE \E c \in Codes : o \in Dns!R!Code(r, c)
      BY <2>1, <3>1, InStepAfterCode DEF DnsCodes
    <3>2. CASE o \in Dns!R!Address(r)
      BY <2>1, <3>2, InStepAfterAddress
    <3>3. CASE o \in Dns!R!Complete(r)
      BY <2>1, <3>3, InStepAfterComplete
    <3>4. CASE o \in Dns!R!Returns(Dns!R!Abort(r), "None")
      <4>1. o.response = Dns!R!Abort(r)
        BY <3>4 DEF Dns!R!Returns
      <4> QED
        BY <2>1, <4>1, AbortEnds DEF InStep
    <3> QED
      BY <2>3, <3>1, <3>2, <3>3, <3>4
  <2>5. queries' = [queries EXCEPT ![q] = [queries[q] EXCEPT !.response = o.response]]
    BY <2>3 DEF DnsQueriesInv
  <2>6. Sound([queries[q] EXCEPT !.response = o.response])
    BY <2>1, <2>2, <2>4, UsedIsSound
  <2> QED
    BY <2>5, <2>6, OneQueryChanges
<1>4. ASSUME NEW q \in Queries, Dns!AppReturns(q) PROVE DnsQueriesInv'
  <2>1. PICK error \in {"None", "HandlerFailure"}, handled \in BOOLEAN :
          Dns!Conclude(q, [response |-> queries[q].response, result |-> error, handled |-> handled])
    BY <1>4 DEF Dns!AppReturns
  <2> DEFINE h == [response |-> queries[q].response, result |-> error, handled |-> handled]
  <2>2. h.response = queries[q].response /\ h.result = error
    OBVIOUS
  <2>3. InStep(queries[q].response) /\ queries[q].handler # Wildcard
    BY <1>4 DEF Dns!AppReturns, Dns!Handling, Dns!DnsAssumption, DnsQueriesInv, Sound, QueryInv
  <2>4. Dns!Conclude(q, h)
    BY <2>1
  <2> HIDE DEF h
  <2> QED
    BY <2>2, <2>3, <2>4, QueryConcludes
<1>5. ASSUME NEW q \in Queries, Dns!WildcardHandles(q) PROVE DnsQueriesInv'
  <2>1. /\ queries[q].question \in Questions
        /\ queries[q].response = Dns!R!Fresh
    BY <1>5 DEF Dns!WildcardHandles, Dns!Handling, DnsQueriesInv, Sound, QueryInv
  <2>2. PICK h : /\ Dns!Conclude(q, h)
                 /\ IF Dns!Compatible(queries[q].question)
                      THEN \E a \in Dns!R!Then(Dns!R!Address(Dns!R!Fresh), LAMBDA s : Dns!R!Complete(s)) :
                             h = [response |-> a.response, result |-> a.result, handled |-> TRUE]
                      ELSE h = [response |-> Dns!R!Fresh, result |-> "None", handled |-> FALSE]
    BY <1>5, <2>1 DEF Dns!WildcardHandles
  <2>3. \E o : o \in Dns!DispatchResult(h)
    BY <2>2 DEF Dns!Conclude
  <2> QED
    BY <2>1, <2>2, <2>3, WildcardConcludes, QueryConcludes
<1>6. ASSUME NEW q \in Queries, Dns!Leave(q) PROVE DnsQueriesInv'
  BY <1>6, IdleIsSound, OneQueryChanges DEF Dns!Leave
<1>7. ASSUME NEW t \in Threads, Dns!Call(t) \/ Dns!Continue(t) PROVE UNCHANGED queries
  BY <1>7 DEF Dns!Call, Dns!Continue, Dns!Initialize, Dns!Start, Dns!Stop, Dns!Destruct,
              Dns!NotifyStateChanged, Dns!PlatformInitialize, Dns!PublishInitialized,
              Dns!PlatformStart, Dns!PublishStarted, Dns!PlatformClose, Dns!PlatformStop,
              Dns!PublishStopped, Dns!PlatformReset, Dns!Publish
<1>8. ASSUME (\E h \in Dns!AnyHandler : Dns!SetRequestHandler(h)) \/ Dns!DestructReset \/ Dns!Destroyed
                \/ UNCHANGED Dns!vars
      PROVE  UNCHANGED queries
  BY <1>8 DEF Dns!SetRequestHandler, Dns!DestructReset, Dns!Destroyed, Dns!vars
<1> QED
  BY <1>0, <1>1, <1>2, <1>3, <1>4, <1>5, <1>6, <1>7, <1>8 DEF Dns!Next, Dns!Serve

(* The rest of the types.                                                  *)
DnsRestTyped ==
  /\ handler \in Dns!AnyHandler
  /\ lifetime \in {"alive", "destructing", "destroyed"}
  /\ ok \in [Threads -> BOOLEAN]
  /\ platform \in {"reset", "initialized", "running", "closing"}

LEMMA DnsRestStep ==
  ASSUME DnsRestTyped, [Dns!Next]_(Dns!vars)
  PROVE  DnsRestTyped'
<1> USE DEF DnsRestTyped
<1>1. ASSUME NEW t \in Threads, NEW from, NEW to \in {"reset", "initialized", "running", "closing"},
             Dns!PlatformMoves(t, from, to)
      PROVE  /\ ok' \in [Threads -> BOOLEAN]
             /\ platform' \in {"reset", "initialized", "running", "closing"}
  BY <1>1 DEF Dns!PlatformMoves
<1>2. ASSUME NEW t \in Threads, Dns!Call(t) PROVE DnsRestTyped'
  BY <1>2 DEF Dns!Call, Dns!Initialize, Dns!Start, Dns!Stop, Dns!Destruct
<1>3. ASSUME NEW t \in Threads, Dns!Continue(t) PROVE DnsRestTyped'
  BY <1>1, <1>3
  DEF Dns!Continue, Dns!NotifyStateChanged, Dns!PlatformInitialize, Dns!PublishInitialized,
      Dns!PlatformStart, Dns!PublishStarted, Dns!PlatformClose, Dns!PlatformStop,
      Dns!PublishStopped, Dns!PlatformReset, Dns!Publish, Dns!serverVars, Dns!threadVars
<1>4. CASE ~\E t \in Threads : Dns!Call(t) \/ Dns!Continue(t)
  BY <1>4 DEF Dns!Next, Dns!SetRequestHandler, Dns!Arrive, Dns!Serve, Dns!Dispatch,
              Dns!AppReturns, Dns!WildcardHandles, Dns!Conclude, Dns!Leave,
              Dns!AppUsesResponse, Dns!DestructReset, Dns!Destroyed,
              Dns!vars, Dns!serverVars, Dns!threadVars
<1> QED
  BY <1>2, <1>3, <1>4

DnsInv == DnsLifecycle /\ DnsRestTyped /\ DnsQueriesInv

LEMMA DnsInvHolds ==
  ASSUME Dns!DnsAssumption
  PROVE  Dns!Spec => []DnsInv
<1>1. Dns!Init => DnsInv
  <2>1. Sound(Dns!Idle)
    BY IdleIsSound
  <2>2. Dns!Init => DnsQueriesInv
    BY <2>1 DEF Dns!Init, DnsQueriesInv, Sound
  <2> QED
    BY <2>2 DEF Dns!Init, DnsInv, DnsLifecycle, LifecycleTyped, OneOperationAtATime, Owns,
                DnsRestTyped, Dns!AnyHandler
<1>2. DnsInv /\ [Dns!Next]_(Dns!vars) => DnsInv'
  BY DnsSteps, KindKeepsOwnership, DnsRestStep, DnsQueriesStep DEF DnsInv, DnsLifecycle, DnsRestTyped
<1> QED
  BY <1>1, <1>2, PTL DEF Dns!Spec

(* Every variable of the DNS server has its type; in particular no calls   *)
(* of a handler make DnsResponse call a platform's response after its end. *)
THEOREM DnsTypeCorrect ==
  ASSUME Dns!DnsAssumption
  PROVE  Dns!Spec => []Dns!TypeOK
<1>1. DnsInv => Dns!TypeOK
  BY DnsPcs DEF DnsInv, DnsLifecycle, LifecycleTyped, DnsRestTyped, DnsQueriesInv,
                Dns!TypeOK, Dns!Pcs
<1> QED
  BY <1>1, DnsInvHolds, PTL

(* Dispatch reports success only for a completed response, and leaves      *)
(* every other one aborted or untouched; the wildcard's one address        *)
(* answers exactly the Internet queries for its family.                    *)
THEOREM DnsQueriesAreAnswered ==
  ASSUME Dns!DnsAssumption
  PROVE  Dns!Spec => []Dns!QueriesAreAnswered
<1>1. DnsInv => Dns!QueriesAreAnswered
  BY DEF DnsInv, DnsQueriesInv, Sound, QueryInv, Answered, Dns!QueriesAreAnswered
<1> QED
  BY <1>1, DnsInvHolds, PTL

=============================================================================
