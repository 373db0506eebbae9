----------------------- MODULE WebSocketEndpoint_proofs -----------------------
(***************************************************************************)
(* Proofs about WebSocketEndpoint for any number of platforms and calls    *)
(* nested to any depth.  What a call under way may rely on is said of its  *)
(* frame: of where the frame is, or comes to when its observers return.    *)
(***************************************************************************)
EXTENDS WebSocketEndpoint, SequenceTheorems, TLAPS

ComesTo(f, pcs) == f.pc \in pcs \/ (f.pc = "notify" /\ f.then \in pcs)

(* The platform a call looked at is attached until an observer detaches    *)
(* it, and bound as it was until something inside the call binds it or     *)
(* unbinds it.                                                             *)
Keeps(f) ==
  /\ ComesTo(f, DOMAIN Inside) => platform # NoPlatform
  /\ f.pc \in InPlatform => platform = f.on

Looked(f) ==
  /\ ComesTo(f, {"callBind"}) => ~bound[platform]
  /\ f.pc \in {"binding", "bindFailed"} => ~bound[f.on]
  /\ f.pc = "bindSucceeded" => bound[f.on]

BoundByCall(p) == bound[p] /\ by[p] = "call"

(* A SetSink(nullptr) finds its platform unbound, and may forget only one  *)
(* that was attached inside it.                                            *)
Clears(f) ==
  /\ ~BoundByCall(f.on)
  /\ platform \in {NoPlatform, f.on} \/ attached[platform] = "inside SetSink"

Good == {f \in FrameType :
           /\ f.then \in {"return", "callBind", "callUnbind"}
           /\ f.pc \in InPlatform => f.on \in Platforms
           /\ f.pc = "attaching" => f.then = "return"
           /\ f.during # "detached" => Keeps(f)
           /\ f.during = "nothing" => Looked(f)
           /\ f.pc = "clearing" => Clears(f)}

(* The frames that will yet set _state, unbind the platform attached now,  *)
(* or forget it.                                                           *)
Setters ==
  {f \in FrameType : ComesTo(f, {"callBind", "callUnbind", "attaching", "binding", "bindSucceeded",
                                 "bindFailed", "unbinding", "unbound"})}

Unbinders ==
  {f \in FrameType : f.during # "detached" /\ ComesTo(f, {"callUnbind", "unbinding"})}

Detachers == {f \in FrameType : f.pc \in {"callSetSink", "clearing"}}

Pending(s, F) == \E i \in DOMAIN s : s[i] \in F

UnderWay(s, pc) == \E i \in DOMAIN s : s[i].pc = pc

(* Whatever is at pc waits for one of F above it.                          *)
Covered(s, pc, F) ==
  \A i \in DOMAIN s : s[i].pc = pc => \E j \in DOMAIN s : j > i /\ s[j] \in F

-----------------------------------------------------------------------------
Settled ==
  \/ state = IF platform = NoPlatform THEN "Detached"
             ELSE IF bound[platform] THEN "Bound" ELSE "Attached"
  \/ overtaken /\ state \in {"Attached", "Bound"}

(* _state is wrong only while a call under way will yet assign it.         *)
WillSettle(s) == Settled \/ Pending(s, Setters)

(* A Detach that is under way has an Unbind above it to undo a Bind.       *)
WillUnbind(s) ==
  platform # NoPlatform =>
    (BoundByCall(platform) => Covered(s, "callSetSink", Unbinders))

(* The destructor has detached the platform or is about to.                *)
WillDetach(s) ==
  platform # NoPlatform =>
    (attached[platform] = "call" => Covered(s, "destroyed", Detachers))

SinksKnown ==
  \A p \in Platforms : /\ sink[p] /\ platform # p => attached[p] = "inside SetSink"
                       /\ ~sink[p] => ~BoundByCall(p)

RunningInv == /\ stack \in Seq(Good)
              /\ WillSettle(stack) /\ WillUnbind(stack) /\ WillDetach(stack)
              /\ SinksKnown

Inv == /\ TypeOK
       /\ outcome = "running" => RunningInv
       /\ outcome # "running" => NullOnlyIfUndercut /\ NothingIsLeftBehind

-----------------------------------------------------------------------------
(* What the actions do to the stack.                                       *)
LEMMA Grows ==
  ASSUME NEW s \in Seq(FrameType), NEW f \in FrameType, NEW t, t = Append(s, f)
  PROVE  /\ t \in Seq(FrameType) /\ t # <<>>
         /\ \A F : Pending(t, F) <=> Pending(s, F) \/ f \in F
         /\ \A pc : UnderWay(t, pc) <=> UnderWay(s, pc) \/ f.pc = pc
         /\ \A pc, F : Covered(t, pc, F) <=> f.pc # pc /\ (f \in F \/ Covered(s, pc, F))
<1> DEFINE n == Len(s)
<1>1. n \in Nat /\ DOMAIN s = 1..n
  OBVIOUS
<1>2. /\ t \in Seq(FrameType) /\ Len(t) = n + 1 /\ t # <<>>
      /\ \A k \in 1..(n + 1) : t[k] = IF k <= n THEN s[k] ELSE f
  BY AppendProperties
<1>3. DOMAIN t = 1..(n + 1)
  BY <1>2
<1> HIDE DEF n
<1>4. /\ n + 1 \in DOMAIN t /\ t[n + 1] = f
      /\ \A i \in DOMAIN s : i \in DOMAIN t /\ t[i] = s[i] /\ n + 1 > i
      /\ \A i \in DOMAIN t : i = n + 1 \/ i \in DOMAIN s
      /\ \A i \in DOMAIN t : ~(i > n + 1)
  BY <1>1, <1>2, <1>3
<1>5. \A F : Pending(t, F) <=> Pending(s, F) \/ f \in F
  BY <1>4, Zenon DEF Pending
<1>6. \A pc : UnderWay(t, pc) <=> UnderWay(s, pc) \/ f.pc = pc
  BY <1>4, Zenon DEF UnderWay
<1>7. ASSUME NEW pc, NEW F
      PROVE  Covered(t, pc, F) <=> f.pc # pc /\ (f \in F \/ Covered(s, pc, F))
  <2>1. ASSUME Covered(t, pc, F) PROVE f.pc # pc
    BY <1>4, <2>1 DEF Covered
  <2>2. ASSUME Covered(t, pc, F), f \notin F PROVE Covered(s, pc, F)
    BY <1>4, <2>2, Zenon DEF Covered
  <2>3. ASSUME f.pc # pc, f \in F PROVE Covered(t, pc, F)
    BY <1>4, <2>3, Zenon DEF Covered
  <2>4. ASSUME f.pc # pc, Covered(s, pc, F) PROVE Covered(t, pc, F)
    BY <1>4, <2>4, Zenon DEF Covered
  <2> QED
    BY <2>1, <2>2, <2>3, <2>4
<1> QED
  BY <1>2, <1>5, <1>6, <1>7

LEMMA FrontOfList ==
  ASSUME NEW S, NEW s \in Seq(S), Len(s) > 0
  PROVE  /\ Front(s) \in Seq(S)
         /\ Len(Front(s)) = Len(s) - 1
         /\ \A i \in 1..(Len(s) - 1) : Front(s)[i] = s[i]
<1> DEFINE n == Len(s) - 1
<1>1. n \in Nat /\ 1 <= n + 1 /\ n - 1 + 1 = n /\ \A i \in 1..n : s[i] \in S
  BY ElementOfSeq
<1>2. Front(s) = SubSeq(s, 1, n)
  BY DEF Front
<1> HIDE DEF n
<1>3. /\ SubSeq(s, 1, n) \in Seq(S)
      /\ Len(SubSeq(s, 1, n)) = IF 1 <= n THEN n - 1 + 1 ELSE 0
      /\ \A i \in 1..(n - 1 + 1) : SubSeq(s, 1, n)[i] = s[1 + i - 1]
  BY <1>1, SubSeqProperties
<1>4. Len(SubSeq(s, 1, n)) = n /\ \A i \in 1..n : SubSeq(s, 1, n)[i] = s[i]
  BY <1>1, <1>3
<1> QED
  BY <1>2, <1>3, <1>4 DEF n

(* The innermost call, and the calls it is inside of.                      *)
LEMMA TopOf ==
  ASSUME NEW S, stack \in Seq(S), stack # <<>>
  PROVE  Below \in Seq(S) /\ Top \in S /\ stack = Append(Below, Top)
<1> DEFINE n == Len(stack)
<1>1. n \in Nat /\ n > 0 /\ DOMAIN stack = 1..n /\ Top = stack[n]
  BY DEF Top, Last
<1>2. Top \in S
  BY <1>1, ElementOfSeq
<1>3. /\ Below \in Seq(S) /\ Len(Below) = n - 1
      /\ \A i \in 1..(n - 1) : Below[i] = stack[i]
  BY <1>1, FrontOfList DEF Below
<1> HIDE DEF n
<1> DEFINE both == Append(Below, Top)
<1>4. /\ both \in Seq(S) /\ Len(both) = Len(Below) + 1
      /\ \A k \in 1..(Len(Below) + 1) : both[k] = IF k <= Len(Below) THEN Below[k] ELSE Top
  BY <1>2, <1>3, AppendProperties
<1>5. Len(Below) + 1 = n
  BY <1>1, <1>3
<1> HIDE DEF both
<1>6. \A k \in 1..n : both[k] = stack[k]
  BY <1>1, <1>3, <1>4, <1>5
<1>7. Len(stack) = n /\ Len(both) = n
  BY <1>4, <1>5 DEF n
<1>8. both = stack
  BY <1>4, <1>6, <1>7, SeqEqual
<1> QED
  BY <1>2, <1>3, <1>8 DEF both

(* A stack whose frames moved from s to t, each where it was.              *)
LEMMA Maps ==
  ASSUME NEW s \in Seq(FrameType), NEW t, NEW F,
         DOMAIN t = DOMAIN s, NEW pc, \A i \in DOMAIN s : t[i].pc = s[i].pc,
         \A i \in DOMAIN s : s[i] \in F => t[i] \in F
  PROVE  /\ Covered(s, pc, F) => Covered(t, pc, F)
         /\ UnderWay(t, pc) <=> UnderWay(s, pc)
<1>1. Covered(s, pc, F) => Covered(t, pc, F)
  BY Zenon DEF Covered
<1>2. UnderWay(t, pc) <=> UnderWay(s, pc)
  BY Zenon DEF UnderWay
<1> QED
  BY <1>1, <1>2

LEMMA Frames == \A pc \in Pcs : /\ Frame(pc) \in FrameType
                                /\ Frame(pc).pc = pc /\ Frame(pc).then = "return"
                                /\ Frame(pc).during = "nothing"
BY DEF Frame, FrameType, Pcs

LEMMA Points ==
  /\ DOMAIN Inside = {"callBind", "callUnbind", "callSetSink"}
  /\ Inside["callBind"] = "binding" /\ Inside["callUnbind"] = "unbinding"
  /\ Inside["callSetSink"] = "clearing"
  /\ Pcs = {"return", "notify", "destroyDetach", "destroyed", "callBind", "callUnbind",
            "callSetSink", "attaching", "binding", "bindSucceeded", "bindFailed", "unbinding",
            "unbound", "clearing"}
BY DEF Inside, Pcs, InPlatform

LEMMA Sets ==
  ASSUME NEW below, NEW f \in FrameType, NEW s, NEW next \in Pcs, SetState(below, f, s, next)
  PROVE  /\ state' = s
         /\ \E g \in FrameType :
              /\ stack' = Append(below, g)
              /\ g.during = f.during
              /\ \/ g.pc = next /\ g.then = f.then
                 \/ g.pc = "notify" /\ g.then = next
<1> DEFINE g1 == [f EXCEPT !.pc = next, !.on = NoPlatform]
           g2 == [f EXCEPT !.pc = "notify", !.then = next, !.on = NoPlatform]
<1>1. g1 \in FrameType /\ g1.pc = next /\ g1.then = f.then /\ g1.during = f.during
  BY DEF FrameType
<1>2. g2 \in FrameType /\ g2.pc = "notify" /\ g2.then = next /\ g2.during = f.during
  BY Points DEF FrameType
<1>3. state' = s /\ (stack' = Append(below, g1) \/ stack' = Append(below, g2))
  BY DEF SetState
<1> HIDE DEF g1, g2
<1> QED
  BY <1>1, <1>2, <1>3

LEMMA Nothing ==
  /\ \A S : <<>> \in Seq(S)
  /\ \A F : ~Pending(<<>>, F)
  /\ \A pc : ~UnderWay(<<>>, pc)
BY DEF Pending, UnderWay

LEMMA Trivially == \A s, pc, F : ~UnderWay(s, pc) => Covered(s, pc, F)
BY DEF UnderWay, Covered

LEMMA Inner ==
  ASSUME TypeOK, stack \in Seq(Good), stack # <<>>
  PROVE  /\ stack \in Seq(FrameType) /\ stack = Append(Below, Top)
         /\ Below \in Seq(FrameType) /\ Below \in Seq(Good) /\ Top \in Good /\ Top \in FrameType
         /\ \A F : Pending(stack, F) <=> Pending(Below, F) \/ Top \in F
         /\ \A pc : UnderWay(stack, pc) <=> UnderWay(Below, pc) \/ Top.pc = pc
         /\ \A pc, F : Covered(stack, pc, F) <=>
              Top.pc # pc /\ (Top \in F \/ Covered(Below, pc, F))
<1>1. stack \in Seq(FrameType)
  BY DEF TypeOK
<1>2. /\ Below \in Seq(FrameType) /\ Below \in Seq(Good) /\ Top \in Good /\ Top \in FrameType
      /\ stack = Append(Below, Top)
  BY <1>1, TopOf
<1> QED
  BY <1>1, <1>2, Grows

-----------------------------------------------------------------------------
(* One lemma per action.  An action that leaves the platforms as they are  *)
(* keeps what the calls it is inside of rely on.                           *)
Running == TypeOK /\ outcome = "running" /\ RunningInv

Quiet == UNCHANGED <<platform, outcome, platformVars>> /\ state' \in States /\ overtaken' \in BOOLEAN

LEMMA QuietKeeps ==
  ASSUME Running, Quiet, stack' \in Seq(Good), stack' \in Seq(FrameType), WillSettle(stack)',
         Covered(stack, "callSetSink", Unbinders) => Covered(stack', "callSetSink", Unbinders),
         Covered(stack, "destroyed", Detachers) => Covered(stack', "destroyed", Detachers)
  PROVE  Running'
<1>1. UNCHANGED <<platform, outcome, bound, sink, by, attached>>
  BY DEF Quiet, platformVars
<1>2. Good' = Good
  BY <1>1 DEF Good, Keeps, Looked, Clears, BoundByCall
<1>3. TypeOK'
  BY <1>1 DEF Running, TypeOK, Quiet
<1>4. SinksKnown'
  BY <1>1 DEF Running, RunningInv, SinksKnown, BoundByCall
<1>5. WillUnbind(stack)'
  BY <1>1 DEF Running, RunningInv, WillUnbind, BoundByCall, Unbinders
<1>6. WillDetach(stack)'
  BY <1>1 DEF Running, RunningInv, WillDetach, Detachers
<1> QED
  BY <1>1, <1>2, <1>3, <1>4, <1>5, <1>6 DEF Running, RunningInv

(* The innermost call goes on, with its frame now g.                       *)
LEMMA Moves ==
  ASSUME Running, Quiet, stack # <<>>, NEW g \in Good, stack' = Append(Below, g),
         g.pc \notin {"callSetSink", "destroyed"},
         Top \in Unbinders => g \in Unbinders,
         Top \in Detachers => g \in Detachers,
         g \in Setters \/ Settled' \/ Top \notin Setters,
         Settled => Settled'
  PROVE  Running'
<1>1. /\ Below \in Seq(FrameType) /\ Below \in Seq(Good)
      /\ \A F : Pending(stack, F) <=> Pending(Below, F) \/ Top \in F
      /\ \A pc, F : Covered(stack, pc, F) <=>
           Top.pc # pc /\ (Top \in F \/ Covered(Below, pc, F))
  BY Inner DEF Running, RunningInv
<1>2. g \in FrameType
  BY DEF Good
<1>3. /\ stack' \in Seq(FrameType)
      /\ \A F : Pending(stack', F) <=> Pending(Below, F) \/ g \in F
      /\ \A pc, F : Covered(stack', pc, F) <=> g.pc # pc /\ (g \in F \/ Covered(Below, pc, F))
  BY <1>1, <1>2, Grows
<1>4. stack' \in Seq(Good)
  BY <1>1, AppendProperties
<1>5. Setters' = Setters
  BY DEF Setters
<1>6. WillSettle(stack)'
  BY <1>1, <1>3, <1>5 DEF Running, RunningInv, WillSettle
<1>7. Covered(stack, "callSetSink", Unbinders) => Covered(stack', "callSetSink", Unbinders)
  BY <1>1, <1>3
<1>8. Covered(stack, "destroyed", Detachers) => Covered(stack', "destroyed", Detachers)
  BY <1>1, <1>3
<1> QED
  BY <1>3, <1>4, <1>6, <1>7, <1>8, QuietKeeps

(* A call whose own part is over: its frame returns, at once or after its  *)
(* observers.                                                              *)
LEMMA IsOver ==
  ASSUME NEW g \in FrameType, g.then \in {"return", "callBind", "callUnbind"},
         g.pc = "return" \/ (g.pc = "notify" /\ g.then = "return")
  PROVE  g \in Good /\ g \in Good' /\ g.pc \notin {"callSetSink", "destroyed", "clearing"}
BY Points DEF Good, Keeps, Looked, ComesTo, InPlatform

LEMMA Ends ==
  ASSUME Running, Quiet, stack # <<>>, Top \notin Unbinders, Top \notin Detachers, Settled',
         NEW s, SetState(Below, Top, s, "return")
  PROVE  Running'
<1>1. Top \in Good /\ Top \in FrameType /\ Top.then \in {"return", "callBind", "callUnbind"}
  BY Inner DEF Running, RunningInv, Good
<1>2. "return" \in Pcs
  BY Points
<1>3. PICK g \in FrameType : /\ stack' = Append(Below, g)
                             /\ \/ g.pc = "return" /\ g.then = Top.then
                                \/ g.pc = "notify" /\ g.then = "return"
  BY <1>1, <1>2, Sets
<1>4. g \in Good /\ g.pc \notin {"callSetSink", "destroyed", "clearing"}
  BY <1>1, <1>3, IsOver
<1> QED
  BY <1>3, <1>4, Moves

LEMMA EnterKeeps == ASSUME Running, Enter PROVE Running'
<1>1. PICK pc \in DOMAIN Inside :
        At(pc) /\ stack' = Append(Below, [Top EXCEPT !.pc = Inside[pc], !.on = platform])
  BY DEF Enter
<1>2. /\ platform # NoPlatform /\ platform \in Platforms /\ stack # <<>> /\ Top.pc = pc
      /\ UNCHANGED <<state, platform, outcome, bound, sink, by, attached, overtaken>>
  BY <1>1 DEF Enter, At, Running, TypeOK, platformVars
<1> DEFINE g == [Top EXCEPT !.pc = Inside[pc], !.on = platform]
<1>3. Top \in Good /\ Top \in FrameType
  BY <1>2, Inner DEF Running, RunningInv
<1>4. pc \in {"callBind", "callUnbind", "callSetSink"} /\ Inside[pc] \in {"binding", "unbinding", "clearing"}
  BY <1>1, Points
<1>5. /\ g \in FrameType /\ g.pc = Inside[pc] /\ g.on = platform
      /\ g.then = Top.then /\ g.during = Top.during
  BY <1>2, <1>3, <1>4, Points DEF FrameType
<1>6. stack' = Append(Below, g)
  BY <1>1
<1> HIDE DEF g
<1>7. pc = "callSetSink" => ~BoundByCall(platform)
  <2>1. pc = "callSetSink" => ~Covered(stack, "callSetSink", Unbinders)
    BY <1>2, Inner DEF Running, RunningInv, Unbinders, ComesTo
  <2> QED
    BY <1>2, <2>1 DEF Running, RunningInv, WillUnbind
<1>8. g \in Good
  <2>1. g.during = "nothing" => Looked(g)
    BY <1>2, <1>3, <1>4, <1>5, Points DEF Good, Looked, ComesTo
  <2>2. g.during # "detached" => Keeps(g)
    BY <1>2, <1>4, <1>5, Points DEF Keeps, ComesTo
  <2>3. g.pc = "clearing" => Clears(g)
    BY <1>2, <1>4, <1>5, <1>7, Points DEF Clears
  <2> QED
    BY <1>2, <1>3, <1>4, <1>5, <2>1, <2>2, <2>3 DEF Good
<1>9. Quiet
  BY <1>2 DEF Quiet, Running, TypeOK, platformVars
<1>10. Top \in Unbinders => g \in Unbinders
  BY <1>2, <1>4, <1>5, Points DEF Unbinders, ComesTo
<1>11. Top \in Detachers => g \in Detachers
  BY <1>2, <1>4, <1>5, Points DEF Detachers
<1>12. g \in Setters \/ Top \notin Setters
  BY <1>2, <1>4, <1>5, Points DEF Setters, ComesTo
<1>13. Settled => Settled'
  BY <1>2 DEF Settled
<1> QED
  BY <1>2, <1>4, <1>5, <1>6, <1>8, <1>9, <1>10, <1>11, <1>12, <1>13, Moves

LEMMA AttachReturnsKeeps == ASSUME Running, AttachReturns PROVE Running'
<1>1. /\ stack # <<>> /\ Top.pc = "attaching"
      /\ state' = IF bound[Top.on] THEN "Bound" ELSE "Attached"
      /\ stack' = Append(Below, [Top EXCEPT !.pc = "notify", !.on = NoPlatform])
      /\ overtaken' = (Top.during = "detached")
      /\ UNCHANGED <<platform, outcome, bound, sink, by, attached>>
  BY DEF AttachReturns, At, platformVars
<1> DEFINE g == [Top EXCEPT !.pc = "notify", !.on = NoPlatform]
<1>2. Top \in Good /\ Top \in FrameType
  BY <1>1, Inner DEF Running, RunningInv
<1>3. g \in FrameType /\ g.pc = "notify" /\ g.then = Top.then /\ g.during = Top.during
  BY <1>2, Points DEF FrameType
<1>4. stack' = Append(Below, g)
  BY <1>1
<1> HIDE DEF g
<1>5. g.then = "return" /\ Top.on \in Platforms
  BY <1>1, <1>2, <1>3 DEF Good, InPlatform
<1>6. g \in Good /\ g.pc \notin {"callSetSink", "destroyed"}
  BY <1>3, <1>5, IsOver
<1>7. Settled'
  <2>1. Top.during # "detached" => platform = Top.on
    BY <1>1, <1>2 DEF Good, Keeps, InPlatform
  <2>2. platform' = platform /\ bound' = bound /\ Top.on # NoPlatform
    BY <1>1, <1>5, EndpointAssumption
  <2> QED
    BY <1>1, <2>1, <2>2 DEF Settled
<1>8. Quiet
  BY <1>1 DEF Quiet, States, platformVars
<1>9. Top \notin Unbinders /\ Top \notin Detachers
  BY <1>1 DEF Unbinders, Detachers, ComesTo
<1> QED
  BY <1>1, <1>4, <1>6, <1>7, <1>8, <1>9, Moves

LEMMA BindReturnsKeeps == ASSUME Running, BindReturns PROVE Running'
<1>1. PICK s \in {"Bound", "Attached"} :
        /\ SetState(Below, Top, s, "return")
        /\ Top.pc = IF s = "Bound" THEN "bindSucceeded" ELSE "bindFailed"
  BY DEF BindReturns, At
<1>2. /\ stack # <<>> /\ overtaken' = (Top.during # "nothing")
      /\ UNCHANGED <<platform, outcome, bound, sink, by, attached>>
      /\ state' = s
  BY <1>1 DEF BindReturns, At, platformVars, SetState
<1>3. Top \in Good
  BY <1>2, Inner DEF Running, RunningInv
<1>4. Top.during = "nothing" =>
        platform = Top.on /\ Top.on \in Platforms /\ (bound[Top.on] <=> s = "Bound")
  BY <1>1, <1>3 DEF Good, Keeps, Looked, InPlatform
<1>5. Settled'
  BY <1>2, <1>4, EndpointAssumption DEF Settled
<1>6. Quiet
  BY <1>2 DEF Quiet, States, platformVars
<1>7. Top \notin Unbinders /\ Top \notin Detachers
  BY <1>1 DEF Unbinders, Detachers, ComesTo
<1> QED
  BY <1>1, <1>2, <1>5, <1>6, <1>7, Ends

LEMMA UnbindReturnsKeeps == ASSUME Running, UnbindReturns PROVE Running'
<1>1. /\ stack # <<>> /\ Top.pc = "unbound" /\ platform # NoPlatform /\ overtaken' = FALSE
      /\ UNCHANGED <<platform, outcome, bound, sink, by, attached>>
      /\ SetState(Below, Top, UnbindOutcome(bound[platform]), "return")
  BY DEF UnbindReturns, At, platformVars
<1>2. state' = UnbindOutcome(bound[platform])
  BY <1>1 DEF SetState
<1>3. Settled' /\ state' \in States
  BY <1>1, <1>2 DEF Settled, UnbindOutcome, States
<1>4. Quiet
  BY <1>1, <1>3 DEF Quiet, platformVars
<1>5. Top \notin Unbinders /\ Top \notin Detachers
  BY <1>1 DEF Unbinders, Detachers, ComesTo
<1> QED
  BY <1>1, <1>3, <1>4, <1>5, Ends

LEMMA NotifiedKeeps == ASSUME Running, Notified PROVE Running'
<1> DEFINE g == [Top EXCEPT !.pc = Top.then]
<1>1. /\ stack # <<>> /\ Top.pc = "notify" /\ stack' = Append(Below, g)
      /\ UNCHANGED <<state, platform, outcome, bound, sink, by, attached, overtaken>>
  BY DEF Notified, At, platformVars
<1>2. Top \in Good /\ Top \in FrameType /\ Top.then \in {"return", "callBind", "callUnbind"}
  BY <1>1, Inner DEF Running, RunningInv, Good
<1>3. g \in FrameType /\ g.pc = Top.then /\ g.then = Top.then /\ g.during = Top.during /\ g.on = Top.on
  BY <1>2 DEF FrameType
<1> HIDE DEF g
<1>4. g.during = "nothing" => Looked(g)
  BY <1>1, <1>2, <1>3 DEF Good, Looked, ComesTo
<1>5. g.during # "detached" => Keeps(g)
  BY <1>1, <1>2, <1>3, Points DEF Good, Keeps, ComesTo, InPlatform
<1>6. g \in Good
  BY <1>2, <1>3, <1>4, <1>5 DEF Good, InPlatform
<1>7. Top \in Unbinders => g \in Unbinders
  BY <1>1, <1>3 DEF Unbinders, ComesTo
<1>8. Top \in Setters => g \in Setters
  BY <1>1, <1>2, <1>3 DEF Setters, ComesTo
<1>9. Top \notin Detachers /\ g.pc \notin {"callSetSink", "destroyed"}
  BY <1>1, <1>2, <1>3 DEF Detachers
<1>10. Settled => Settled'
  BY <1>1 DEF Settled
<1>11. Quiet
  BY <1>1 DEF Quiet, platformVars, Running, TypeOK
<1> QED
  BY <1>1, <1>6, <1>7, <1>8, <1>9, <1>10, <1>11, Moves

LEMMA ReturnKeeps == ASSUME Running, Return PROVE Running'
<1>1. /\ stack # <<>> /\ Top.pc = "return" /\ stack' = Below
      /\ UNCHANGED <<state, platform, outcome, bound, sink, by, attached, overtaken>>
  BY DEF Return, At, platformVars
<1>2. /\ Below \in Seq(FrameType) /\ Below \in Seq(Good)
      /\ \A F : Pending(stack, F) <=> Pending(Below, F) \/ Top \in F
      /\ \A pc, F : Covered(stack, pc, F) <=>
           Top.pc # pc /\ (Top \in F \/ Covered(Below, pc, F))
  BY <1>1, Inner DEF Running, RunningInv
<1>3. Top \notin Setters /\ Top \notin Unbinders /\ Top \notin Detachers
  BY <1>1 DEF Setters, Unbinders, Detachers, ComesTo
<1>4. WillSettle(Below)
  BY <1>2, <1>3 DEF Running, RunningInv, WillSettle
<1>5. WillSettle(stack)'
  BY <1>1, <1>4 DEF WillSettle, Settled, Setters
<1>6. Quiet
  BY <1>1 DEF Quiet, platformVars, Running, TypeOK
<1> QED
  BY <1>1, <1>2, <1>3, <1>5, <1>6, QuietKeeps

-----------------------------------------------------------------------------
(* Calls begin, on top of what is under way.                               *)
LEMMA Pushes ==
  ASSUME Running, Quiet, NEW g \in Good, stack' = Append(stack, g),
         g.pc \notin {"callSetSink", "destroyed"}, g \in Setters \/ (Settled => Settled')
  PROVE  Running'
<1>1. stack \in Seq(FrameType) /\ stack \in Seq(Good) /\ g \in FrameType
  BY DEF Running, RunningInv, TypeOK, Good
<1>2. /\ stack' \in Seq(FrameType)
      /\ \A F : Pending(stack', F) <=> Pending(stack, F) \/ g \in F
      /\ \A pc, F : Covered(stack', pc, F) <=> g.pc # pc /\ (g \in F \/ Covered(stack, pc, F))
  BY <1>1, Grows
<1>3. stack' \in Seq(Good)
  BY <1>1, AppendProperties
<1>4. Setters' = Setters
  BY DEF Setters
<1>5. WillSettle(stack)'
  BY <1>2, <1>4 DEF Running, RunningInv, WillSettle
<1> QED
  BY <1>2, <1>3, <1>5, QuietKeeps

LEMMA BindKeeps == ASSUME Running, Bind PROVE Running'
<1>1. /\ platform # NoPlatform /\ ~bound[platform]
      /\ UNCHANGED <<platform, outcome, bound, sink, by, attached, overtaken>>
      /\ SetState(stack, Frame("notify"), "Binding", "callBind")
  BY DEF Bind, platformVars
<1>2. /\ Frame("notify") \in FrameType /\ Frame("notify").then = "return"
      /\ Frame("notify").during = "nothing" /\ "callBind" \in Pcs
  BY Frames, Points
<1>3. PICK g \in FrameType :
        /\ stack' = Append(stack, g) /\ g.during = "nothing"
        /\ \/ g.pc = "callBind" /\ g.then = "return"
           \/ g.pc = "notify" /\ g.then = "callBind"
  BY <1>1, <1>2, Sets
<1>4. Looked(g) /\ Keeps(g)
  BY <1>1, <1>3 DEF Looked, Keeps, ComesTo, InPlatform
<1>5. g \in Good /\ g.pc \notin {"callSetSink", "destroyed"}
  BY <1>3, <1>4 DEF Good, InPlatform
<1>6. g \in Setters
  BY <1>3 DEF Setters, ComesTo
<1>7. state' = "Binding"
  BY <1>1 DEF SetState
<1>8. Quiet
  BY <1>1, <1>7 DEF Quiet, States, platformVars, Running, TypeOK
<1> QED
  BY <1>3, <1>5, <1>6, <1>8, Pushes

LEMMA ForwardKeeps == ASSUME Running, Forward PROVE Running'
<1>1. /\ stack' = Append(stack, Frame("notify"))
      /\ UNCHANGED <<state, platform, outcome, bound, sink, by, attached, overtaken>>
  BY DEF Forward, platformVars
<1>2. /\ Frame("notify") \in FrameType /\ Frame("notify").pc = "notify"
      /\ Frame("notify").then = "return"
  BY Frames, Points
<1>3. Frame("notify") \in Good
  BY <1>2, IsOver
<1>4. Settled => Settled'
  BY <1>1 DEF Settled
<1>5. Quiet
  BY <1>1 DEF Quiet, platformVars, Running, TypeOK
<1> QED
  BY <1>1, <1>2, <1>3, <1>4, <1>5, Pushes

(* Unbind, called by frames that are all right without it.                 *)
LEMMA UnbindKeeps ==
  ASSUME TypeOK, outcome = "running", SinksKnown,
         UNCHANGED <<platform, outcome, platformVars>>,
         NEW frames \in Seq(FrameType), frames \in Seq(Good),
         UnbindOnto(frames),
         platform = NoPlatform => WillSettle(frames), WillDetach(frames)
  PROVE  Running'
<1>1. UNCHANGED <<platform, outcome, bound, sink, by, attached>>
  BY DEF platformVars
<1>2. Good' = Good /\ Setters' = Setters /\ Unbinders' = Unbinders /\ Detachers' = Detachers
  BY <1>1 DEF Good, Keeps, Looked, Clears, BoundByCall, Setters, Unbinders, Detachers
<1>3. SinksKnown'
  BY <1>1 DEF SinksKnown, BoundByCall
<1>4. CASE platform = NoPlatform
  <2>1. stack' = frames /\ state' = state /\ overtaken' = overtaken
    BY <1>4 DEF UnbindOnto
  <2>2. TypeOK'
    BY <1>1, <2>1 DEF TypeOK
  <2>3. WillSettle(stack)'
    BY <1>1, <1>2, <1>4, <2>1 DEF WillSettle, Settled
  <2>4. WillUnbind(stack)' /\ WillDetach(stack)'
    BY <1>1, <1>4 DEF WillUnbind, WillDetach
  <2> QED
    BY <1>1, <1>2, <1>3, <2>1, <2>2, <2>3, <2>4 DEF Running, RunningInv
<1>5. CASE platform # NoPlatform
  <2>1. PICK s \in States, next \in {"return", "callUnbind"} :
          /\ SetState(frames, Frame("notify"), s, next)
          /\ overtaken' \in BOOLEAN
          /\ IF bound[platform] THEN next = "callUnbind"
                                ELSE s = "Attached" /\ next = "return"
    BY <1>5 DEF UnbindOnto, States, TypeOK
  <2>2. /\ Frame("notify") \in FrameType /\ Frame("notify").then = "return"
        /\ Frame("notify").during = "nothing" /\ next \in Pcs
    BY Frames, Points
  <2>3. state' = s
    BY <2>1 DEF SetState
  <2>4. PICK g \in FrameType :
          /\ stack' = Append(frames, g) /\ g.during = "nothing"
          /\ \/ g.pc = next /\ g.then = "return"
             \/ g.pc = "notify" /\ g.then = next
    BY <2>1, <2>2, Sets
  <2>5. Looked(g) /\ Keeps(g)
    BY <1>5, <2>4 DEF Looked, Keeps, ComesTo, InPlatform
  <2>6. g \in Good /\ g.pc \notin {"callSetSink", "destroyed"}
    BY <2>4, <2>5 DEF Good, InPlatform
  <2>7. /\ stack' \in Seq(FrameType)
        /\ \A F : Pending(stack', F) <=> Pending(frames, F) \/ g \in F
        /\ \A pc, F : Covered(stack', pc, F) <=> g.pc # pc /\ (g \in F \/ Covered(frames, pc, F))
    BY <2>4, Grows
  <2>8. stack' \in Seq(Good)
    BY <2>4, <2>6, AppendProperties
  <2>9. bound[platform] => g \in Setters /\ g \in Unbinders
    BY <2>1, <2>4 DEF Setters, Unbinders, ComesTo
  <2>10. WillSettle(stack)'
    <3>1. CASE bound[platform]
      BY <1>2, <2>7, <2>9, <3>1 DEF WillSettle
    <3>2. CASE ~bound[platform]
      BY <1>1, <1>5, <2>1, <2>3, <3>2 DEF WillSettle, Settled
    <3> QED
      BY <3>1, <3>2
  <2>11. WillUnbind(stack)'
    BY <1>1, <1>2, <2>6, <2>7, <2>9 DEF WillUnbind, BoundByCall
  <2>12. WillDetach(stack)'
    BY <1>1, <1>2, <2>6, <2>7 DEF WillDetach
  <2>13. TypeOK'
    BY <1>1, <2>1, <2>3, <2>7 DEF TypeOK
  <2> QED
    BY <1>1, <1>2, <1>3, <2>8, <2>10, <2>11, <2>12, <2>13 DEF Running, RunningInv
<1> QED
  BY <1>4, <1>5

LEMMA UnbindCallKeeps == ASSUME Running, Unbind PROVE Running'
<1>1. UnbindOnto(stack) /\ UNCHANGED <<platform, outcome, platformVars>>
  BY DEF Unbind
<1> QED
  BY <1>1, UnbindKeeps DEF Running, RunningInv, TypeOK

(* Detach, called by frames that are all right without it.                 *)
LEMMA DetachFromKeeps ==
  ASSUME TypeOK, outcome = "running", SinksKnown,
         UNCHANGED <<platform, outcome, platformVars>>, platform # NoPlatform,
         NEW frames \in Seq(FrameType), frames \in Seq(Good), DetachFrom(frames)
  PROVE  Running'
<1> DEFINE f == Frame("callSetSink")
           called == Append(frames, f)
<1>1. /\ f \in FrameType /\ f.pc = "callSetSink" /\ f.then = "return" /\ f.during = "nothing"
  BY Frames, Points
<1>2. UnbindOnto(called)
  BY DEF DetachFrom
<1> HIDE DEF f
<1>3. Looked(f) /\ Keeps(f)
  BY <1>1 DEF Looked, Keeps, ComesTo, InPlatform
<1>4. f \in Good /\ f \in Detachers
  BY <1>1, <1>3 DEF Good, InPlatform, Detachers
<1>5. /\ called \in Seq(FrameType)
      /\ \A pc, F : Covered(called, pc, F) <=> f.pc # pc /\ (f \in F \/ Covered(frames, pc, F))
  BY <1>1, Grows
<1>6. called \in Seq(Good)
  BY <1>4, AppendProperties
<1> HIDE DEF called
<1>7. WillDetach(called)
  BY <1>1, <1>4, <1>5 DEF WillDetach
<1> QED
  BY <1>2, <1>5, <1>6, <1>7, UnbindKeeps

LEMMA DetachKeeps == ASSUME Running, Detach PROVE Running'
<1>1. /\ DetachFrom(stack) /\ UNCHANGED <<platform, outcome, platformVars>>
      /\ platform # NoPlatform
  BY DEF Detach, Detachable
<1> QED
  BY <1>1, DetachFromKeeps DEF Running, RunningInv, TypeOK

LEMMA DestroyKeeps == ASSUME Running, Destroy PROVE Running'
<1> DEFINE f == Frame("destroyDetach")
           frames == <<f>>
<1>1. /\ stack = <<>> /\ UnbindOnto(frames) /\ UNCHANGED <<platform, outcome, platformVars>>
  BY DEF Destroy
<1>2. f \in FrameType /\ f.pc = "destroyDetach" /\ f.then = "return" /\ f.during = "nothing"
  BY Frames, Points
<1> HIDE DEF f
<1>3. frames = Append(<<>>, f)
  OBVIOUS
<1>4. f \in Good
  BY <1>2 DEF Good, Looked, Keeps, ComesTo, InPlatform, Inside
<1>5. frames \in Seq(Good)
  BY <1>4
<1> HIDE DEF frames
<1>6. /\ frames \in Seq(FrameType)
      /\ \A pc : UnderWay(frames, pc) <=> UnderWay(<<>>, pc) \/ f.pc = pc
  BY <1>2, <1>3, Nothing, Grows
<1>7. WillSettle(frames) /\ WillDetach(frames)
  BY <1>1, <1>2, <1>6, Nothing, Trivially DEF Running, RunningInv, WillSettle, WillDetach
<1> QED
  BY <1>1, <1>5, <1>6, <1>7, UnbindKeeps DEF Running, RunningInv

LEMMA DestroyDetachKeeps == ASSUME Running, DestroyDetach PROVE Running'
<1> DEFINE f == [Top EXCEPT !.pc = "destroyed"]
           rest == Append(Below, f)
<1>1. /\ stack # <<>> /\ Top.pc = "destroyDetach"
      /\ \/ Detachable /\ DetachFrom(rest)
         \/ ~Detachable /\ stack' = rest /\ UNCHANGED <<state, overtaken>>
      /\ UNCHANGED <<platform, outcome, platformVars>>
  BY DEF DestroyDetach, At
<1>2. /\ Below \in Seq(FrameType) /\ Below \in Seq(Good) /\ Top \in Good /\ Top \in FrameType
      /\ \A F : Pending(stack, F) <=> Pending(Below, F) \/ Top \in F
  BY <1>1, Inner DEF Running, RunningInv
<1>3. f \in FrameType /\ f.pc = "destroyed" /\ f.then = Top.then
  BY <1>2, Points DEF FrameType
<1> HIDE DEF f
<1>4. f \in Good
  BY <1>2, <1>3 DEF Good, Looked, Keeps, ComesTo, InPlatform, Inside
<1>5. rest \in Seq(FrameType) /\ \A F : Pending(rest, F) <=> Pending(Below, F) \/ f \in F
  BY <1>2, <1>3, Grows
<1>6. rest \in Seq(Good)
  BY <1>2, <1>4, AppendProperties
<1> HIDE DEF rest
<1>7. WillSettle(rest)
  BY <1>1, <1>2, <1>5 DEF Running, RunningInv, WillSettle, Setters, ComesTo
<1>8. CASE Detachable
  BY <1>1, <1>5, <1>6, <1>8, DetachFromKeeps DEF Running, RunningInv, Detachable
<1>9. CASE ~Detachable
  <2>1. platform = NoPlatform /\ stack' = rest /\ state' = state /\ overtaken' = overtaken
    BY <1>1, <1>9 DEF Detachable
  <2>2. UnbindOnto(rest) /\ WillDetach(rest)
    BY <2>1 DEF UnbindOnto, WillDetach
  <2> QED
    BY <1>1, <1>5, <1>6, <1>7, <2>1, <2>2, UnbindKeeps DEF Running, RunningInv
<1> QED
  BY <1>1, <1>8, <1>9

-----------------------------------------------------------------------------
(* The actions that change what the calls they are inside of looked at.    *)
LEMMA CauseIs ==
  /\ Cause \in Causes
  /\ Cause = "call" => ~UnderWay(stack, "callSetSink") /\ ~UnderWay(stack, "clearing")
BY DEF Cause, Causes, InSome, UnderWay

LEMMA AttachKeeps == ASSUME Running, NEW p \in Platforms, Attach(p) PROVE Running'
<1> USE EndpointAssumption
<1> DEFINE f == [Frame("attaching") EXCEPT !.on = p]
<1>1. f \in FrameType /\ f.pc = "attaching" /\ f.then = "return" /\ f.on = p
  BY Points DEF Frame, FrameType
<1>2. /\ platform = NoPlatform /\ platform' = p /\ p # NoPlatform
      /\ sink' = [sink EXCEPT ![p] = TRUE]
      /\ by' = [by EXCEPT ![p] = IF bound[p] THEN Cause ELSE @]
      /\ attached' = [attached EXCEPT ![p] = IF InSome({"clearing"}) THEN "inside SetSink"
                                             ELSE IF InSome({"destroyed"}) THEN "inside the destructor"
                                             ELSE "call"]
      /\ stack' = Append(stack, f)
      /\ UNCHANGED <<state, outcome, bound, overtaken>>
  BY DEF Attach
<1> HIDE DEF f
<1>3. stack \in Seq(FrameType) /\ stack \in Seq(Good)
  BY DEF Running, RunningInv, TypeOK
<1>4. /\ attached'[p] = "call" => ~UnderWay(stack, "destroyed")
      /\ UnderWay(stack, "clearing") => attached'[p] = "inside SetSink"
      /\ attached' \in [Platforms -> Places]
  BY <1>2 DEF InSome, UnderWay, Places, Running, TypeOK
<1>5. /\ by' \in [Platforms -> Causes]
      /\ bound[p] => by'[p] = Cause
      /\ \A q \in Platforms : q # p => by'[q] = by[q] /\ attached'[q] = attached[q] /\ sink'[q] = sink[q]
      /\ sink' \in [Platforms -> BOOLEAN] /\ sink'[p]
  BY <1>2, CauseIs DEF Running, TypeOK
<1>6. ASSUME NEW i \in DOMAIN stack PROVE stack[i] \in Good'
  <2>1. PICK h \in Good : h = stack[i]
    BY <1>3, ElementOfSeq
  <2>2. h.pc = "clearing" => UnderWay(stack, "clearing")
    BY <2>1 DEF UnderWay
  <2>3. h.during # "detached" => ~ComesTo(h, DOMAIN Inside) /\ h.pc \notin InPlatform
    BY <1>2 DEF Good, Keeps
  <2>4. h.during # "detached" => Keeps(h)' /\ Looked(h)'
    BY <2>3, Points DEF Keeps, Looked, ComesTo, InPlatform
  <2>5. h.pc = "clearing" => Clears(h)'
    <3>1. SUFFICES ASSUME h.pc = "clearing" PROVE Clears(h)'
      OBVIOUS
    <3>2. ~BoundByCall(h.on) /\ h.on \in Platforms
      BY <3>1 DEF Good, Clears, InPlatform
    <3>3. Cause # "call"
      BY <2>2, <3>1, CauseIs
    <3>4. ~BoundByCall(h.on)'
      BY <1>2, <1>5, <3>2, <3>3 DEF BoundByCall
    <3> QED
      BY <1>2, <1>4, <2>2, <3>1, <3>4 DEF Clears
  <2> QED
    BY <2>1, <2>4, <2>5 DEF Good
<1>7. stack \in Seq(Good')
  <2>1. \A i \in 1..Len(stack) : stack[i] \in Good'
    BY <1>3, <1>6
  <2>2. stack = [i \in 1..Len(stack) |-> stack[i]] /\ Len(stack) \in Nat
    BY <1>3
  <2> QED
    BY <2>1, <2>2
<1>8. f \in Good'
  BY <1>1, <1>2 DEF Good, Keeps, Looked, ComesTo, Inside, InPlatform
<1>9. stack' \in Seq(Good')
  BY <1>2, <1>7, <1>8, AppendProperties
<1>10. /\ stack' \in Seq(FrameType)
       /\ \A F : Pending(stack', F) <=> Pending(stack, F) \/ f \in F
       /\ \A pc, F : Covered(stack', pc, F) <=> f.pc # pc /\ (f \in F \/ Covered(stack, pc, F))
  BY <1>1, <1>2, <1>3, Grows
<1>11. TypeOK'
  BY <1>2, <1>4, <1>5, <1>10 DEF Running, TypeOK
<1>12. WillSettle(stack)'
  BY <1>1, <1>10 DEF WillSettle, Setters, ComesTo
<1>13. BoundByCall(p)' => Covered(stack', "callSetSink", Unbinders')
  BY <1>1, <1>2, <1>5, <1>10, CauseIs, Trivially DEF BoundByCall
<1>14. WillUnbind(stack)'
  BY <1>2, <1>13 DEF WillUnbind
<1>15. WillDetach(stack)'
  BY <1>1, <1>2, <1>4, <1>10, Trivially DEF WillDetach
<1>16. SinksKnown'
  BY <1>2, <1>5 DEF Running, RunningInv, SinksKnown, BoundByCall
<1> QED
  BY <1>2, <1>9, <1>11, <1>12, <1>14, <1>15, <1>16 DEF Running, RunningInv

(* What a Bind or an Unbind of the innermost call's platform o does: its   *)
(* own frame becomes g, and the calls it is inside of, if o was bound or   *)
(* unbound, are told.                                                      *)
Rebinds(o, below, g) ==
  /\ o = Top.on /\ o \in Platforms
  /\ UNCHANGED <<state, platform, outcome, sink, attached, overtaken>>
  /\ bound' \in [Platforms -> BOOLEAN] /\ by' \in [Platforms -> Causes]
  /\ \A q \in Platforms : q # o => bound'[q] = bound[q] /\ by'[q] = by[q]
  /\ bound'[o] /\ by'[o] = "call" => sink[o] /\ (BoundByCall(o) \/ Cause = "call")
  /\ Top \in Unbinders => platform = o /\ ~(bound'[o] /\ by'[o] = "call")
  /\ Top \notin Detachers
  /\ below = Rebinding \/ (below = Below /\ bound' = bound)
  /\ g \in FrameType /\ g \in Good' /\ g \in Setters
  /\ g.pc \notin {"callSetSink", "destroyed", "clearing"}
  /\ stack' = Append(below, g)

LEMMA RebindsKeeps ==
  ASSUME Running, stack # <<>>, NEW o, NEW below, NEW g, Rebinds(o, below, g)
  PROVE  Running'
<1>1. /\ Below \in Seq(FrameType) /\ Below \in Seq(Good)
      /\ \A pc : UnderWay(stack, pc) <=> UnderWay(Below, pc) \/ Top.pc = pc
      /\ \A pc, F : Covered(stack, pc, F) <=>
           Top.pc # pc /\ (Top \in F \/ Covered(Below, pc, F))
  BY Inner DEF Running, RunningInv
<1>2. /\ below = Rebinding \/ (below = Below /\ bound' = bound)
      /\ g \in FrameType /\ g \in Good' /\ g \in Setters
      /\ g.pc \notin {"callSetSink", "destroyed", "clearing"}
      /\ stack' = Append(below, g)
  BY DEF Rebinds
<1>3. /\ DOMAIN below = 1..Len(Below) /\ DOMAIN Below = 1..Len(Below) /\ Len(Below) \in Nat
      /\ below = [i \in 1..Len(Below) |-> below[i]]
  BY <1>1, <1>2 DEF Rebinding
<1>4. ASSUME NEW i \in DOMAIN Below
      PROVE  \E b \in Good, h \in FrameType :
               /\ b = Below[i] /\ h = below[i]
               /\ h.pc = b.pc /\ h.then = b.then /\ h.on = b.on
               /\ h.during = "detached" <=> b.during = "detached"
               /\ (bound' = bound /\ h.during = b.during) \/ h.during # "nothing"
  <2>1. PICK b \in Good : b = Below[i] /\ b \in FrameType
    BY <1>1, <1>3, ElementOfSeq
  <2> DEFINE r == [b EXCEPT !.during = IF @ = "nothing" THEN "rebound" ELSE @]
  <2>2. Rebinding[i] = r
    BY <2>1 DEF Rebinding
  <2>3. /\ r \in FrameType /\ r.pc = b.pc /\ r.then = b.then /\ r.on = b.on
        /\ r.during = "detached" <=> b.during = "detached"
        /\ r.during # "nothing"
    BY <2>1 DEF FrameType
  <2> HIDE DEF r
  <2>4. below[i] = r \/ (below[i] = b /\ bound' = bound)
    BY <1>2, <2>1, <2>2
  <2> QED
    BY <2>1, <2>3, <2>4
<1>5. ASSUME NEW q \in Platforms, BoundByCall(q)', ~BoundByCall(q)
      PROVE  ~UnderWay(stack, "clearing") /\ ~UnderWay(stack, "callSetSink")
  <2>1. Cause = "call"
    BY <1>5 DEF Rebinds, BoundByCall
  <2> QED
    BY <2>1, CauseIs
<1>6. platform' = platform /\ attached' = attached
  BY DEF Rebinds
<1>7. ASSUME NEW i \in DOMAIN Below PROVE below[i] \in Good'
  <2>1. PICK b \in Good, h \in FrameType :
          /\ b = Below[i] /\ h = below[i]
          /\ h.pc = b.pc /\ h.then = b.then /\ h.on = b.on
          /\ h.during = "detached" <=> b.during = "detached"
          /\ (bound' = bound /\ h.during = b.during) \/ h.during # "nothing"
    BY <1>4
  <2>2. b.pc = "clearing" => UnderWay(stack, "clearing")
    BY <1>1, <2>1 DEF UnderWay
  <2>3. h.during # "detached" => Keeps(h)'
    BY <1>6, <2>1 DEF Good, Keeps, ComesTo
  <2>4. h.during = "nothing" => Looked(h)'
    BY <1>6, <2>1 DEF Good, Looked, ComesTo
  <2>5. h.pc = "clearing" => Clears(h)'
    <3>1. SUFFICES ASSUME h.pc = "clearing" PROVE Clears(h)'
      OBVIOUS
    <3>2. Clears(b) /\ h.on = b.on /\ h.on \in Platforms
      BY <2>1, <3>1 DEF Good, InPlatform
    <3>3. ~BoundByCall(h.on)'
      BY <1>5, <2>1, <2>2, <3>1, <3>2 DEF Clears
    <3> QED
      BY <1>6, <3>2, <3>3 DEF Clears
  <2> QED
    BY <2>1, <2>3, <2>4, <2>5 DEF Good
<1>8. below \in Seq(FrameType) /\ below \in Seq(Good')
  <2>1. \A i \in 1..Len(Below) : below[i] \in FrameType /\ below[i] \in Good'
    BY <1>3, <1>4, <1>7
  <2> QED
    BY <1>3, <2>1
<1>9. stack' \in Seq(Good')
  BY <1>2, <1>8, AppendProperties
<1>10. /\ stack' \in Seq(FrameType)
       /\ \A F : Pending(stack', F) <=> Pending(below, F) \/ g \in F
       /\ \A pc : UnderWay(stack', pc) <=> UnderWay(below, pc) \/ g.pc = pc
       /\ \A pc, F : Covered(stack', pc, F) <=> g.pc # pc /\ (g \in F \/ Covered(below, pc, F))
  BY <1>2, <1>8, Grows
<1>11. Setters' = Setters /\ Unbinders' = Unbinders /\ Detachers' = Detachers
  BY DEF Setters, Unbinders, Detachers
<1>12. \A i \in DOMAIN Below : /\ below[i].pc = Below[i].pc
                               /\ Below[i] \in Unbinders => below[i] \in Unbinders
                               /\ Below[i] \in Detachers => below[i] \in Detachers
  BY <1>4 DEF Unbinders, Detachers, ComesTo
<1>13. /\ Covered(Below, "callSetSink", Unbinders) => Covered(below, "callSetSink", Unbinders)
       /\ Covered(Below, "destroyed", Detachers) => Covered(below, "destroyed", Detachers)
       /\ UnderWay(below, "callSetSink") <=> UnderWay(Below, "callSetSink")
  BY <1>1, <1>3, <1>12, Maps
<1>14. TypeOK' /\ UNCHANGED <<platform, outcome, sink, attached>>
  BY <1>10 DEF Running, TypeOK, Rebinds
<1>15. WillSettle(stack)'
  BY <1>2, <1>10, <1>11 DEF WillSettle
<1>16. WillUnbind(stack)'
  <2>1. SUFFICES ASSUME platform # NoPlatform, BoundByCall(platform)'
                 PROVE  Covered(stack', "callSetSink", Unbinders)
    BY <1>11, <1>14 DEF WillUnbind
  <2>2. platform \in Platforms
    BY <2>1 DEF Running, TypeOK
  <2>3. CASE BoundByCall(platform)
    <3>1. Top \notin Unbinders
      BY <1>14, <2>1 DEF BoundByCall, Rebinds
    <3>2. Covered(Below, "callSetSink", Unbinders)
      BY <1>1, <2>1, <2>3, <3>1 DEF Running, RunningInv, WillUnbind
    <3> QED
      BY <1>2, <1>10, <1>13, <3>2
  <2>4. CASE ~BoundByCall(platform)
    <3>1. ~UnderWay(stack, "callSetSink")
      BY <1>5, <1>14, <2>1, <2>2, <2>4 DEF BoundByCall
    <3> QED
      BY <1>1, <1>2, <1>10, <1>13, <3>1, Trivially
  <2> QED
    BY <2>3, <2>4
<1>17. WillDetach(stack)'
  <2>1. Top \notin Detachers
    BY DEF Rebinds
  <2> QED
    BY <1>1, <1>2, <1>10, <1>11, <1>13, <1>14, <2>1 DEF WillDetach, Running, RunningInv
<1>18. SinksKnown'
  <2>1. SinksKnown
    BY DEF Running, RunningInv
  <2>2. /\ o \in Platforms /\ bound'[o] /\ by'[o] = "call" => sink[o]
        /\ \A q \in Platforms : q # o => bound'[q] = bound[q] /\ by'[q] = by[q]
    BY DEF Rebinds
  <2> QED
    BY <1>14, <2>1, <2>2 DEF SinksKnown, BoundByCall
<1> QED
  BY <1>9, <1>14, <1>15, <1>16, <1>17, <1>18 DEF Running, RunningInv

LEMMA PlatformBindsKeeps == ASSUME Running, PlatformBinds PROVE Running'
<1>1. PICK o : o = Top.on
  OBVIOUS
<1>2. /\ stack # <<>> /\ Top.pc = "binding"
      /\ UNCHANGED <<state, platform, outcome, sink, attached, overtaken>>
  BY DEF PlatformBinds, At
<1>3. Top \in Good /\ Top \in FrameType
  BY <1>2, Inner DEF Running, RunningInv
<1>4. o \in Platforms /\ bound[o] \in BOOLEAN
  BY <1>1, <1>2, <1>3 DEF Good, InPlatform, Running, TypeOK
<1>5. PICK succeeds \in BOOLEAN :
        /\ succeeds \in {FALSE, ~bound[o]}
        /\ bound' = [bound EXCEPT ![o] = @ \/ succeeds]
        /\ by' = [by EXCEPT ![o] = IF ~succeeds THEN @
                                   ELSE IF sink[o] THEN Cause ELSE "undercut Bind"]
        /\ stack' = IF succeeds THEN Append(Rebinding, [Top EXCEPT !.pc = "bindSucceeded"])
                                ELSE Append(Below, [Top EXCEPT !.pc = "bindFailed"])
  BY <1>1, <1>4 DEF PlatformBinds
<1>6. /\ bound' \in [Platforms -> BOOLEAN] /\ by' \in [Platforms -> Causes]
      /\ \A q \in Platforms : q # o => bound'[q] = bound[q] /\ by'[q] = by[q]
      /\ bound'[o] = (bound[o] \/ succeeds)
      /\ by'[o] = IF ~succeeds THEN by[o] ELSE IF sink[o] THEN Cause ELSE "undercut Bind"
      /\ ~succeeds => bound' = bound
  BY <1>4, <1>5, CauseIs DEF Running, TypeOK, Causes
<1>7. bound'[o] /\ by'[o] = "call" => sink[o] /\ (BoundByCall(o) \/ Cause = "call")
  BY <1>4, <1>5, <1>6 DEF Running, RunningInv, TypeOK, SinksKnown, BoundByCall
<1> DEFINE pc == IF succeeds THEN "bindSucceeded" ELSE "bindFailed"
<1>8. PICK g : g = [Top EXCEPT !.pc = pc]
  OBVIOUS
<1>9. /\ g \in FrameType /\ g.pc = pc /\ g.then = Top.then /\ g.during = Top.during /\ g.on = o
      /\ pc \in {"bindSucceeded", "bindFailed"}
  BY <1>1, <1>3, <1>8, Points DEF FrameType
<1>10. g \in Good'
  <2>1. g.during # "detached" => Keeps(g)'
    BY <1>1, <1>2, <1>3, <1>9, Points DEF Good, Keeps, ComesTo, InPlatform
  <2>2. g.during = "nothing" => Looked(g)'
    BY <1>1, <1>2, <1>3, <1>5, <1>6, <1>9 DEF Good, Looked, ComesTo
  <2> QED
    BY <1>3, <1>4, <1>9, <2>1, <2>2 DEF Good, InPlatform
<1>11. PICK below : below = IF succeeds THEN Rebinding ELSE Below
  OBVIOUS
<1>12. stack' = Append(below, g)
  BY <1>5, <1>8, <1>11
<1>13. g \in Setters
  BY <1>9 DEF Setters, ComesTo
<1>14. Top \notin Unbinders /\ Top \notin Detachers
  BY <1>2 DEF Unbinders, Detachers, ComesTo
<1>15. Rebinds(o, below, g)
  BY <1>1, <1>2, <1>4, <1>6, <1>7, <1>9, <1>10, <1>11, <1>12, <1>13, <1>14 DEF Rebinds
<1> QED
  BY <1>2, <1>15, RebindsKeeps

LEMMA PlatformUnbindsKeeps == ASSUME Running, PlatformUnbinds PROVE Running'
<1>1. PICK o : o = Top.on
  OBVIOUS
<1>2. /\ stack # <<>> /\ Top.pc = "unbinding"
      /\ UNCHANGED <<state, platform, outcome, sink, attached, overtaken>>
  BY DEF PlatformUnbinds, At
<1>3. Top \in Good /\ Top \in FrameType
  BY <1>2, Inner DEF Running, RunningInv
<1>4. o \in Platforms /\ bound[o] \in BOOLEAN
  BY <1>1, <1>2, <1>3 DEF Good, InPlatform, Running, TypeOK
<1>5. PICK remains \in BOOLEAN :
        /\ remains \in {FALSE, bound[o]}
        /\ bound' = [bound EXCEPT ![o] = remains]
        /\ by' = [by EXCEPT ![o] = IF remains THEN "refused Unbind" ELSE @]
        /\ stack' = Append(IF bound[o] = remains THEN Below ELSE Rebinding,
                           [Top EXCEPT !.pc = "unbound"])
  BY <1>1, <1>4 DEF PlatformUnbinds
<1>6. /\ bound' \in [Platforms -> BOOLEAN] /\ by' \in [Platforms -> Causes]
      /\ \A q \in Platforms : q # o => bound'[q] = bound[q] /\ by'[q] = by[q]
      /\ bound'[o] = remains
      /\ by'[o] = IF remains THEN "refused Unbind" ELSE by[o]
      /\ bound[o] = remains => bound' = bound
  BY <1>4, <1>5 DEF Running, TypeOK, Causes
<1>7. ~(bound'[o] /\ by'[o] = "call")
  BY <1>6
<1>8. PICK g : g = [Top EXCEPT !.pc = "unbound"]
  OBVIOUS
<1>9. /\ g \in FrameType /\ g.pc = "unbound" /\ g.then = Top.then /\ g.during = Top.during /\ g.on = o
  BY <1>1, <1>3, <1>8, Points DEF FrameType
<1>10. g \in Good'
  <2>1. g.during # "detached" => Keeps(g)'
    BY <1>1, <1>2, <1>3, <1>9, Points DEF Good, Keeps, ComesTo, InPlatform
  <2>2. Looked(g)'
    BY <1>9 DEF Looked, ComesTo
  <2> QED
    BY <1>3, <1>4, <1>9, <2>1, <2>2 DEF Good, InPlatform
<1>11. PICK below : below = IF bound[o] = remains THEN Below ELSE Rebinding
  OBVIOUS
<1>12. stack' = Append(below, g)
  BY <1>5, <1>8, <1>11
<1>13. g \in Setters
  BY <1>9 DEF Setters, ComesTo
<1>14. Top \notin Detachers /\ (Top \in Unbinders => platform = o)
  BY <1>1, <1>2, <1>3 DEF Unbinders, Detachers, Good, Keeps, InPlatform
<1>15. Rebinds(o, below, g)
  BY <1>1, <1>2, <1>4, <1>6, <1>7, <1>9, <1>10, <1>11, <1>12, <1>13, <1>14 DEF Rebinds
<1> QED
  BY <1>2, <1>15, RebindsKeeps

LEMMA ClearKeeps == ASSUME Running, Clear PROVE Running'
<1> USE EndpointAssumption
<1>1. /\ stack # <<>> /\ Top.pc = "clearing"
      /\ sink' = [sink EXCEPT ![Top.on] = FALSE] /\ platform' = NoPlatform
      /\ SetState(Detaching, Top, "Detached", "return") /\ overtaken' = FALSE
      /\ UNCHANGED <<outcome, bound, by, attached>>
  BY DEF Clear, At
<1>2. /\ Below \in Seq(FrameType) /\ Below \in Seq(Good) /\ Top \in Good /\ Top \in FrameType
  BY <1>1, Inner DEF Running, RunningInv
<1>3. Top.on \in Platforms /\ Clears(Top)
  BY <1>1, <1>2 DEF Good, InPlatform
<1>4. ASSUME NEW i \in 1..Len(Below) PROVE Detaching[i] \in FrameType /\ Detaching[i] \in Good'
  <2>1. PICK b \in Good : b = Below[i] /\ b \in FrameType
    BY <1>2, ElementOfSeq
  <2>2. PICK h : h = [b EXCEPT !.during = "detached"]
    OBVIOUS
  <2>3. Detaching[i] = h
    BY <1>2, <2>1, <2>2 DEF Detaching
  <2>4. h \in FrameType /\ h.pc = b.pc /\ h.then = b.then /\ h.on = b.on /\ h.during = "detached"
    BY <2>1, <2>2 DEF FrameType
  <2>5. h.pc = "clearing" => Clears(h)'
    BY <1>1, <2>4 DEF Good, Clears, BoundByCall
  <2> QED
    BY <2>3, <2>4, <2>5 DEF Good
<1>5. Detaching \in Seq(FrameType) /\ Detaching \in Seq(Good')
  <2>1. /\ Detaching = [i \in 1..Len(Below) |-> Detaching[i]] /\ Len(Below) \in Nat
    BY <1>2 DEF Detaching
  <2> QED
    BY <1>4, <2>1
<1>6. "return" \in Pcs
  BY Points
<1>7. PICK g \in FrameType : /\ stack' = Append(Detaching, g)
                             /\ \/ g.pc = "return" /\ g.then = Top.then
                                \/ g.pc = "notify" /\ g.then = "return"
  BY <1>1, <1>2, <1>6, Sets
<1>8. g \in Good'
  BY <1>2, <1>7, IsOver DEF Good
<1>9. stack' \in Seq(FrameType) /\ stack' \in Seq(Good')
  BY <1>5, <1>7, <1>8, AppendProperties
<1>10. state' = "Detached"
  BY <1>1 DEF SetState
<1>11. TypeOK'
  BY <1>1, <1>3, <1>9, <1>10 DEF Running, TypeOK, States
<1>12. WillSettle(stack)' /\ WillUnbind(stack)' /\ WillDetach(stack)'
  BY <1>1, <1>10 DEF WillSettle, Settled, WillUnbind, WillDetach
<1>13. SinksKnown'
  BY <1>1, <1>3 DEF Running, RunningInv, TypeOK, SinksKnown, Clears, BoundByCall
<1> QED
  BY <1>1, <1>9, <1>11, <1>12, <1>13 DEF Running, RunningInv

-----------------------------------------------------------------------------
(* The two ends, and the theorems.                                         *)
LEMMA InvSuffices == Inv => TypeOK /\ NullOnlyIfUndercut /\ NothingIsLeftBehind
<1>1. ASSUME Inv, outcome = "running" PROVE NothingIsLeftBehind
  BY <1>1 DEF Inv, RunningInv, SinksKnown, BoundByCall, NothingIsLeftBehind
<1> QED
  BY <1>1 DEF Inv, NullOnlyIfUndercut

LEMMA CrashIsUndercut == ASSUME Running, Crash PROVE Inv'
<1>1. /\ stack # <<>> /\ Top.pc \in DOMAIN Inside \cup {"unbound"}
      /\ platform = NoPlatform /\ outcome' = "crashed"
      /\ UNCHANGED <<state, platform, stack, bound, sink, by, attached, overtaken>>
  BY DEF Crash, At, platformVars
<1>2. Top \in Good
  BY <1>1, Inner DEF Running, RunningInv
<1>3. Top.during = "detached"
  BY <1>1, <1>2, EndpointAssumption DEF Good, Keeps, ComesTo, InPlatform
<1>4. Top' = Top
  BY <1>1 DEF Top
<1>5. TypeOK' /\ SinksKnown'
  BY <1>1 DEF Running, RunningInv, TypeOK, SinksKnown, BoundByCall
<1>6. NothingIsLeftBehind'
  BY <1>1, <1>5 DEF SinksKnown, BoundByCall, NothingIsLeftBehind
<1> QED
  BY <1>1, <1>3, <1>4, <1>5, <1>6 DEF Inv, NullOnlyIfUndercut

LEMMA DestroyedIsDetached == ASSUME Running, Destroyed PROVE Inv'
<1>1. /\ stack # <<>> /\ Top.pc = "destroyed" /\ stack' = <<>> /\ outcome' = "destroyed"
      /\ UNCHANGED <<state, platform, bound, sink, by, attached, overtaken>>
  BY DEF Destroyed, At, platformVars
<1>2. ~Covered(stack, "destroyed", Detachers)
  BY <1>1, Inner DEF Running, RunningInv, Detachers
<1>3. platform = NoPlatform \/ attached[platform] # "call"
  BY <1>2 DEF Running, RunningInv, WillDetach
<1>4. TypeOK' /\ SinksKnown'
  BY <1>1, Nothing DEF Running, RunningInv, TypeOK, SinksKnown, BoundByCall
<1>5. NothingIsLeftBehind'
  BY <1>1, <1>3, <1>4, EndpointAssumption DEF SinksKnown, BoundByCall, NothingIsLeftBehind
<1> QED
  BY <1>1, <1>4, <1>5 DEF Inv, NullOnlyIfUndercut

LEMMA Starts == Init => Inv
<1> SUFFICES ASSUME Init PROVE Inv
  OBVIOUS
<1> USE EndpointAssumption
<1>1. TypeOK
  BY Nothing DEF Init, TypeOK, States, Causes, Places
<1>2. stack \in Seq(Good)
  BY Nothing DEF Init
<1>3. WillSettle(stack) /\ WillUnbind(stack) /\ WillDetach(stack)
  BY DEF Init, WillSettle, Settled, WillUnbind, WillDetach
<1>4. SinksKnown
  BY DEF Init, SinksKnown, BoundByCall
<1> QED
  BY <1>1, <1>2, <1>3, <1>4 DEF Init, Inv, RunningInv

LEMMA Step == ASSUME Inv, [Next]_vars PROVE Inv'
<1>1. CASE UNCHANGED vars
  <2>1. UNCHANGED <<state, platform, stack, outcome, bound, sink, by, attached, overtaken>>
    BY <1>1 DEF vars, platformVars
  <2>2. TypeOK' /\ SinksKnown' = SinksKnown /\ Good' = Good /\ Top' = Top
    BY <2>1 DEF Inv, TypeOK, SinksKnown, BoundByCall, Good, Keeps, Looked, Clears, Top
  <2>3. NullOnlyIfUndercut' = NullOnlyIfUndercut /\ NothingIsLeftBehind' = NothingIsLeftBehind
    BY <2>1, <2>2 DEF NullOnlyIfUndercut, NothingIsLeftBehind
  <2>4. RunningInv' = RunningInv
    BY <2>1, <2>2 DEF RunningInv, WillSettle, Settled, WillUnbind, WillDetach, BoundByCall,
                      Setters, Unbinders, Detachers
  <2> QED
    BY <2>1, <2>2, <2>3, <2>4 DEF Inv
<1>2. CASE Next
  <2>1. outcome = "running"
    BY <1>2 DEF Next, Attach, Bind, Unbind, Detach, Destroy, Enter, AttachReturns, PlatformBinds,
                BindReturns, PlatformUnbinds, UnbindReturns, Clear, DestroyDetach, Destroyed, Crash,
                Forward, Notified, Return, Callable, At
  <2>2. Running
    BY <2>1 DEF Inv, Running
  <2>3. Running' => Inv'
    BY DEF Running, Inv
  <2> QED
    BY <1>2, <2>2, <2>3, AttachKeeps, BindKeeps, UnbindCallKeeps, DetachKeeps, DestroyKeeps,
       EnterKeeps, AttachReturnsKeeps, PlatformBindsKeeps, BindReturnsKeeps, PlatformUnbindsKeeps,
       UnbindReturnsKeeps, ClearKeeps, DestroyDetachKeeps, DestroyedIsDetached, CrashIsUndercut,
       ForwardKeeps, NotifiedKeeps, ReturnKeeps DEF Next
<1> QED
  BY <1>1, <1>2

LEMMA EndpointHolds == Spec => []Inv
BY Starts, Step, PTL DEF Spec

(* Every variable keeps its type, however deep calls are nested.           *)
THEOREM TypeCorrect == Spec => []TypeOK
BY EndpointHolds, InvSuffices, PTL

(* The endpoint calls through a null _platform (:149, :161, :162, :133)    *)
(* only in a call inside of which an observer detached the platform.       *)
THEOREM OnlyUndercutCrashes == Spec => []NullOnlyIfUndercut
BY EndpointHolds, InvSuffices, PTL

(* Between calls _state is the truth about the platform, unless the call   *)
(* that set it last was overtaken inside.                                  *)
THEOREM StateIsTrue == Spec => []StateTracksPlatform
<1>1. ASSUME Inv PROVE StateTracksPlatform
  <2> SUFFICES ASSUME stack = <<>>, outcome = "running" PROVE Settled
    BY DEF StateTracksPlatform, Settled
  <2> QED
    BY <1>1, Nothing DEF Inv, RunningInv, WillSettle
<1> QED
  BY EndpointHolds, <1>1, PTL

(* No platform is left bound without a sink, or with a sink the endpoint   *)
(* has forgotten or that was destroyed (Detach, :130-136, the destructor,  *)
(* :114), but for what observers do inside the call that leaves it.        *)
THEOREM LeavesNothingBehind == Spec => []NothingIsLeftBehind
BY EndpointHolds, InvSuffices, PTL

===============================================================================
