--------------------------- MODULE WebSocketEndpoint ---------------------------
(***************************************************************************)
(* WebSocketEndpoint (ESPressio_WebSocketEndpoint.hpp) as one thread uses  *)
(* it.  It has no lock, and it notifies in the middle of its calls: an     *)
(* observer may call the endpoint back, and what the outer call looked at  *)
(* before the notification may be gone after it.  A platform may report to *)
(* its sink from inside any call the endpoint makes to it, which notifies  *)
(* too.  Calls under way are a stack of frames, the innermost last.        *)
(*                                                                         *)
(* A call the endpoint refuses (no platform, another platform attached, an *)
(* invalid path, already bound) changes nothing and is a stuttering step;  *)
(* of broadcasts and CloseAll only what the platform reports is left.  The *)
(* queries (IsBound, ConnectionCount) report nothing, and a platform binds *)
(* and unbinds only inside Bind and Unbind.                                *)
(***************************************************************************)
EXTENDS Naturals, Sequences, SequencesExt

CONSTANTS Platforms, NoPlatform,
          MaxDepth   \* bound: frames of calls inside calls

ASSUME EndpointAssumption == NoPlatform \notin Platforms /\ MaxDepth \in Nat

VARIABLES
  state,      \* _state
  platform,   \* _platform
  stack,      \* the calls under way
  outcome,    \* running, destroyed, or crashed: called through a null _platform
  bound,      \* the platforms: bound to a path
  sink,       \* the platforms: the sink is this endpoint
  by,         \* (history) why a platform is bound
  attached,   \* (history) where a platform was attached last
  overtaken   \* (history) the call that set _state last was overtaken inside

platformVars == <<bound, sink, by, attached>>
vars         == <<state, platform, stack, outcome, platformVars, overtaken>>

States == {"Detached", "Attached", "Binding", "Bound", "Unbinding"}

(* The calls of a platform that may report to the sink, with the point     *)
(* before each, where the endpoint is about to go through _platform.       *)
Inside == [callBind |-> "binding", callUnbind |-> "unbinding", callSetSink |-> "clearing"]

InPlatform == {"attaching", "binding", "bindSucceeded", "bindFailed",
               "unbinding", "unbound", "clearing"}

Pcs == {"return", "notify", "destroyDetach", "destroyed"} \cup DOMAIN Inside \cup InPlatform

(* then: where the call goes on after its observers have returned;         *)
(* on: the platform it is inside of; during: (history) the most that calls *)
(* of observers, made inside this one, did to the platform it looked at.   *)
FrameType == [pc : Pcs, then : Pcs, on : Platforms \cup {NoPlatform},
              during : {"nothing", "rebound", "detached"}]

Causes == {"outside", "call", "observer in Detach", "undercut Bind", "refused Unbind"}

Places == {"call", "inside SetSink", "inside the destructor"}

TypeOK ==
  /\ state \in States /\ platform \in Platforms \cup {NoPlatform}
  /\ stack \in Seq(FrameType) /\ outcome \in {"running", "destroyed", "crashed"}
  /\ bound \in [Platforms -> BOOLEAN] /\ sink \in [Platforms -> BOOLEAN]
  /\ by \in [Platforms -> Causes] /\ attached \in [Platforms -> Places]
  /\ overtaken \in BOOLEAN

Init ==
  /\ state = "Detached" /\ platform = NoPlatform
  /\ stack = <<>> /\ outcome = "running"
  /\ bound \in [Platforms -> BOOLEAN]
  /\ sink = [p \in Platforms |-> FALSE]
  /\ by = [p \in Platforms |-> "outside"]
  /\ attached = [p \in Platforms |-> "call"]
  /\ overtaken = FALSE

-----------------------------------------------------------------------------
(* Definitions named after a mistake ("...Always", "...Assumed") are the   *)
(* mutants of the definition that follows them; nothing else uses them.    *)

Frame(pc) == [pc |-> pc, then |-> "return", on |-> NoPlatform, during |-> "nothing"]

Top       == Last(stack)
Below     == Front(stack)
At(pc)    == outcome = "running" /\ stack # <<>> /\ Top.pc = pc
InSome(S) == \E i \in DOMAIN stack : stack[i].pc \in S

(* An application calls when nothing is under way, an observer when it is  *)
(* being notified.                                                         *)
Callable == /\ outcome = "running"
            /\ stack = <<>> \/ (At("notify") /\ Len(stack) < MaxDepth)

Cause == IF InSome({"callSetSink", "clearing"}) THEN "observer in Detach" ELSE "call"

(* The calls this one was made inside of.                                  *)
Detaching  == [i \in DOMAIN Below |-> [Below[i] EXCEPT !.during = "detached"]]
Rebinding  == [i \in DOMAIN Below |->
                [Below[i] EXCEPT !.during = IF @ = "nothing" THEN "rebound" ELSE @]]

(* SetState(s) in a call whose frame is f and which goes on at next.       *)
SetState(below, f, s, next) ==
  /\ state' = s
  /\ stack' = Append(below, IF state = s
                            THEN [f EXCEPT !.pc = next, !.on = NoPlatform]
                            ELSE [f EXCEPT !.pc = "notify", !.then = next, !.on = NoPlatform])

(* The call goes on through _platform, which nobody looked at again.       *)
Enter ==
  /\ \E pc \in DOMAIN Inside :
       At(pc) /\ stack' = Append(Below, [Top EXCEPT !.pc = Inside[pc], !.on = platform])
  /\ platform # NoPlatform
  /\ UNCHANGED <<state, platform, outcome, platformVars, overtaken>>

Crash ==
  /\ \E pc \in DOMAIN Inside \cup {"unbound"} : At(pc)
  /\ platform = NoPlatform
  /\ outcome' = "crashed"
  /\ UNCHANGED <<state, platform, stack, platformVars, overtaken>>

-----------------------------------------------------------------------------
Attach(p) ==
  /\ Callable /\ platform = NoPlatform
  /\ platform' = p
  /\ sink' = [sink EXCEPT ![p] = TRUE]
  /\ by' = [by EXCEPT ![p] = IF bound[p] THEN Cause ELSE @]
  /\ attached' = [attached EXCEPT ![p] = IF InSome({"clearing"}) THEN "inside SetSink"
                                         ELSE IF InSome({"destroyed"}) THEN "inside the destructor"
                                         ELSE "call"]
  /\ stack' = Append(stack, [Frame("attaching") EXCEPT !.on = p])
  /\ UNCHANGED <<state, outcome, bound, overtaken>>

(* SetSink(this) has returned.  Attach notifies whatever _state was.       *)
AttachReturns ==
  /\ At("attaching")
  /\ state' = IF bound[Top.on] THEN "Bound" ELSE "Attached"
  /\ stack' = Append(Below, [Top EXCEPT !.pc = "notify", !.on = NoPlatform])
  /\ overtaken' = (Top.during = "detached")
  /\ UNCHANGED <<platform, outcome, platformVars>>

Bind ==
  /\ Callable /\ platform # NoPlatform
  /\ ~bound[platform]
  /\ SetState(stack, Frame("notify"), "Binding", "callBind")
  /\ UNCHANGED <<platform, outcome, platformVars, overtaken>>

(* A platform that is bound refuses, and any platform may.                 *)
PlatformBinds ==
  /\ At("binding")
  /\ \E succeeds \in {FALSE, ~bound[Top.on]} :
       /\ bound' = [bound EXCEPT ![Top.on] = @ \/ succeeds]
       /\ by' = [by EXCEPT ![Top.on] = IF ~succeeds THEN @
                                       ELSE IF sink[Top.on] THEN Cause ELSE "undercut Bind"]
       /\ stack' = IF succeeds THEN Append(Rebinding, [Top EXCEPT !.pc = "bindSucceeded"])
                               ELSE Append(Below, [Top EXCEPT !.pc = "bindFailed"])
  /\ UNCHANGED <<state, platform, outcome, sink, attached, overtaken>>

BindReturns ==
  /\ \/ At("bindSucceeded") /\ SetState(Below, Top, "Bound", "return")
     \/ At("bindFailed") /\ SetState(Below, Top, "Attached", "return")
  /\ overtaken' = (Top.during # "nothing")
  /\ UNCHANGED <<platform, outcome, platformVars>>

(* Unbind, called by what is now on the stack.                             *)
UnbindOnto(frames) ==
  IF platform = NoPlatform THEN stack' = frames /\ UNCHANGED <<state, overtaken>>
  ELSE IF ~bound[platform]
    THEN SetState(frames, Frame("notify"), "Attached", "return") /\ overtaken' = FALSE
    ELSE SetState(frames, Frame("notify"), "Unbinding", "callUnbind") /\ UNCHANGED overtaken

Unbind ==
  /\ Callable /\ UnbindOnto(stack)
  /\ UNCHANGED <<platform, outcome, platformVars>>

PlatformUnbinds ==
  /\ At("unbinding")
  /\ \E remains \in {FALSE, bound[Top.on]} :
       /\ bound' = [bound EXCEPT ![Top.on] = remains]
       /\ by' = [by EXCEPT ![Top.on] = IF remains THEN "refused Unbind" ELSE @]
       /\ stack' = Append(IF bound[Top.on] = remains THEN Below ELSE Rebinding,
                          [Top EXCEPT !.pc = "unbound"])
  /\ UNCHANGED <<state, platform, outcome, sink, attached, overtaken>>

UnbindOutcomeAssumed(isBound) == "Attached"

UnbindOutcome(isBound) == IF isBound THEN "Bound" ELSE "Attached"

(* The platform asked is the one attached now, the one unbound or not.     *)
UnbindReturns ==
  /\ At("unbound") /\ platform # NoPlatform
  /\ SetState(Below, Top, UnbindOutcome(bound[platform]), "return")
  /\ overtaken' = FALSE
  /\ UNCHANGED <<platform, outcome, platformVars>>

DetachableAlways == TRUE

Detachable == platform # NoPlatform

DetachFromWithoutUnbind(frames) ==
  stack' = Append(frames, Frame("callSetSink")) /\ UNCHANGED <<state, overtaken>>

DetachFrom(frames) == UnbindOnto(Append(frames, Frame("callSetSink")))

Detach ==
  /\ Callable /\ Detachable
  /\ DetachFrom(stack)
  /\ UNCHANGED <<platform, outcome, platformVars>>

(* SetSink(nullptr) has returned: whatever is attached now is forgotten,   *)
(* and the calls this one is inside of have lost what they looked at.      *)
Clear ==
  /\ At("clearing")
  /\ sink' = [sink EXCEPT ![Top.on] = FALSE]
  /\ platform' = NoPlatform
  /\ SetState(Detaching, Top, "Detached", "return")
  /\ overtaken' = FALSE
  /\ UNCHANGED <<outcome, bound, by, attached>>

(* ~WebSocketEndpoint: Unbind, then Detach.                                *)
Destroy ==
  /\ outcome = "running" /\ stack = <<>>
  /\ UnbindOnto(<<Frame("destroyDetach")>>)
  /\ UNCHANGED <<platform, outcome, platformVars>>

DestroyDetach ==
  /\ At("destroyDetach")
  /\ LET rest == Append(Below, [Top EXCEPT !.pc = "destroyed"])
     IN  IF Detachable THEN DetachFrom(rest) ELSE stack' = rest /\ UNCHANGED <<state, overtaken>>
  /\ UNCHANGED <<platform, outcome, platformVars>>

Destroyed ==
  /\ At("destroyed")
  /\ stack' = <<>> /\ outcome' = "destroyed"
  /\ UNCHANGED <<state, platform, platformVars, overtaken>>

-----------------------------------------------------------------------------
(* OnPlatformWebSocket...: what a platform tells its sink is forwarded, of *)
(* its own accord, from inside a call the endpoint makes to a platform, or *)
(* from inside a broadcast or CloseAll of an observer.                     *)
Forward ==
  /\ outcome = "running" /\ Len(stack) < MaxDepth
  /\ \E p \in Platforms :
       /\ sink[p]
       /\ \/ stack = <<>>
          \/ stack # <<>> /\ Top.pc \in InPlatform
          \/ At("notify") /\ p = platform
  /\ stack' = Append(stack, Frame("notify"))
  /\ UNCHANGED <<state, platform, outcome, platformVars, overtaken>>

(* The last observer has returned.                                         *)
Notified ==
  /\ At("notify")
  /\ stack' = Append(Below, [Top EXCEPT !.pc = Top.then])
  /\ UNCHANGED <<state, platform, outcome, platformVars, overtaken>>

Return ==
  /\ At("return")
  /\ stack' = Below
  /\ UNCHANGED <<state, platform, outcome, platformVars, overtaken>>

Next ==
  \/ \E p \in Platforms : Attach(p)
  \/ Bind \/ Unbind \/ Detach \/ Destroy
  \/ Enter \/ AttachReturns \/ PlatformBinds \/ BindReturns
  \/ PlatformUnbinds \/ UnbindReturns \/ Clear \/ DestroyDetach \/ Destroyed
  \/ Crash \/ Forward \/ Notified \/ Return

Spec == Init /\ [][Next]_vars

-----------------------------------------------------------------------------
(* A null _platform is called through only if an observer detached the     *)
(* platform while the call that crashes was under way: as that call        *)
(* notified it, or on a report of the platform from inside the call.  No   *)
(* order of calls from outside the notifications does it, nor observers    *)
(* that bind, unbind or attach.                                            *)
NullOnlyIfUndercut == outcome = "crashed" => Top.during = "detached"

(* Between calls _state is the truth about the platform and never one of   *)
(* its transient values, whatever observers did and platforms refused.     *)
(* The exceptions, until a call that is not overtaken sets it again: a     *)
(* Bind reports its own result although an observer, inside it, bound,     *)
(* unbound or detached the platform, and an Attach although an observer    *)
(* detached it inside SetSink; both may leave Bound with no platform.      *)
StateTracksPlatform ==
  stack = <<>> /\ outcome = "running" =>
    \/ state = IF platform = NoPlatform THEN "Detached"
               ELSE IF bound[platform] THEN "Bound" ELSE "Attached"
    \/ overtaken /\ state \in {"Attached", "Bound"}

(* The endpoint never forgets a platform that still has it as its sink,    *)
(* nor leaves one bound to it without a sink that hears of its             *)
(* connections, and after the destructor no platform calls it.  The        *)
(* exceptions are the doing of observers: one that attaches a platform     *)
(* inside the SetSink(nullptr) of a Detach, or inside the destructor's     *)
(* Detach; one that binds or attaches a bound platform inside a Detach;    *)
(* one that detaches inside a Bind the platform then completes; or of a    *)
(* platform that refused to unbind.                                        *)
NothingIsLeftBehind ==
  \A p \in Platforms :
    /\ sink[p] /\ platform # p => attached[p] = "inside SetSink"
    /\ sink[p] /\ outcome = "destroyed" => attached[p] # "call"
    /\ bound[p] /\ ~sink[p] => by[p] # "call"
=============================================================================
