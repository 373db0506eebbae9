--------------------------- MODULE HttpService_proofs ---------------------------
(***************************************************************************)
(* Proofs that HttpService keeps its safety properties and implements      *)
(* SnapshotWalk for every number of threads, providers and mutations.      *)
(***************************************************************************)
EXTENDS HttpService, SequencesExt, SequenceTheorems, WellFoundedInduction, TLAPS

(* Every set of numbers that is not empty has a least one.                 *)
LEMMA LeastNatural ==
  ASSUME NEW T \in SUBSET Nat, T # {}
  PROVE  \E i \in T : \A j \in T : i <= j
<1>1. IsWellFoundedOn({ss \in Nat \X Nat : ss[1] < ss[2]}, Nat)
  BY NatLessThanWellFounded, Zenon DEF OpToRel
<1>2. \E i \in T : \A j \in T : <<j, i>> \notin {ss \in Nat \X Nat : ss[1] < ss[2]}
  BY <1>1, WFMin, Zenon
<1>3. \A i, j \in T : <<j, i>> \in {ss \in Nat \X Nat : ss[1] < ss[2]} <=> j < i
  OBVIOUS
<1>4. \E i \in T : \A j \in T : ~(j < i)
  BY <1>2, <1>3, Zenon
<1> QED
  BY <1>4

(* Removing one element keeps the others in order.                         *)
LEMMA RemovalKeepsOrder ==
  ASSUME NEW S, NEW s \in Seq(S), NEW i \in DOMAIN s
  PROVE  /\ RemoveAt(s, i) \in Seq(S)
         /\ Len(RemoveAt(s, i)) = Len(s) - 1
         /\ \A k \in 1..(Len(s) - 1) :
              RemoveAt(s, i)[k] = IF k < i THEN s[k] ELSE s[k + 1]
BY SMTT(90) DEF RemoveAt

LEMMA RemovalAddsNothing ==
  ASSUME NEW S, NEW s \in Seq(S), NEW i \in DOMAIN s
  PROVE  \A k \in DOMAIN RemoveAt(s, i) : \E j \in DOMAIN s : RemoveAt(s, i)[k] = s[j]
<1>1. DOMAIN RemoveAt(s, i) = 1..(Len(s) - 1)
  BY RemovalKeepsOrder
<1>2. \A k \in 1..(Len(s) - 1) : RemoveAt(s, i)[k] = s[k] \/ RemoveAt(s, i)[k] = s[k + 1]
  BY RemovalKeepsOrder
<1>3. \A k \in 1..(Len(s) - 1) : k \in DOMAIN s /\ k + 1 \in DOMAIN s
  OBVIOUS
<1> QED
  BY <1>1, <1>2, <1>3

(* Removing the first occurrence removes one element.                      *)
LEMMA RemovesOne ==
  ASSUME NEW S, NEW s \in Seq(S), NEW e, Contains(s, e)
  PROVE  \E i \in DOMAIN s : RemoveFirst(s, e) = RemoveAt(s, i)
<1> DEFINE found == {i \in 1..Len(s) : s[i] = e}
<1>1. found # {} /\ found \subseteq Nat /\ found \subseteq DOMAIN s
  BY DEF Contains
<1>2. Min(found) \in found
  BY <1>1, LeastNatural DEF Min
<1>3. SelectInSeq(s, LAMBDA v : v = e) = Min(found)
  BY <1>1 DEF SelectInSeq
<1> QED
  BY <1>1, <1>2, <1>3 DEF RemoveFirst

-----------------------------------------------------------------------------
USE DEF walkVars, Handles, Answers, Results

LEMMA TypeInit == Init => TypeOK
BY ServiceAssumption DEF Init, TypeOK, FirstHandle

(* A publication of a well-typed set.                                      *)
LEMMA PublishTyped ==
  ASSUME TypeOK, NEW set \in Seq(Handles), Publish(set)
  PROVE  /\ heap' \in Seq(Seq(Handles)) /\ providers' \in DOMAIN heap'
         /\ DOMAIN heap \subseteq DOMAIN heap'
         /\ \A i \in DOMAIN heap : heap'[i] = heap[i]
         /\ heap'[providers'] = set
BY DEF TypeOK, Publish

(* A request has a snapshot, and every provider it asked has answered but  *)
(* the one that runs.                                                      *)
Running(t) == pc[t] \in {"selecting", "handling"}

Walks(t) ==
  /\ pc[t] = "idle" <=> snapshot[t] = 0
  /\ pc[t] = "idle" => asked[t] = <<>> /\ answers[t] = <<>>
  /\ Len(asked[t]) = IF Running(t) THEN Len(answers[t]) + 1 ELSE Len(answers[t])
  /\ snapshot[t] # 0 => Len(asked[t]) <= Len(heap[snapshot[t]])
  /\ result[t] = "none" <=> pc[t] # "returning"

WalkInv == \A t \in Threads : Walks(t)

IInv == TypeOK /\ WalkInv /\ ResultIsTheAnswer

LEMMA InvInit == Init => IInv
BY TypeInit DEF Init, IInv, WalkInv, Walks, ResultIsTheAnswer, Verdict, TurnedDown, Running

(* A step of t leaves the other requests alone.                            *)
Alone(t) ==
  \A u \in Threads \ {t} :
    /\ pc'[u] = pc[u] /\ snapshot'[u] = snapshot[u] /\ asked'[u] = asked[u]
    /\ answers'[u] = answers[u] /\ result'[u] = result[u]

(* Mutations disturb no request.                                           *)
LEMMA MutationStep ==
  ASSUME IInv, TypeOK', UNCHANGED walkVars, \A i \in DOMAIN heap : heap'[i] = heap[i]
  PROVE  IInv'
<1>1. ASSUME NEW t \in Threads
      PROVE Walks(t)'
  <2>1. Walks(t) /\ (snapshot[t] # 0 => snapshot[t] \in DOMAIN heap)
    BY DEF IInv, WalkInv, TypeOK
  <2> QED
    BY <2>1 DEF Walks, Running
<1>2. ASSUME NEW t \in Threads
      PROVE Verdict(t)'
  <2>1. Verdict(t) /\ Walks(t)
    BY DEF IInv, WalkInv, ResultIsTheAnswer
  <2>2. result[t] = "notHandled" => snapshot[t] \in DOMAIN heap
    BY <2>1 DEF Walks, IInv, TypeOK
  <2> QED
    BY <2>1, <2>2 DEF Verdict, TurnedDown
<1> QED
  BY <1>1, <1>2 DEF IInv, WalkInv, ResultIsTheAnswer

(* A step of one walk.                                                     *)
LEMMA WalkStep ==
  ASSUME IInv, TypeOK', NEW t \in Threads, Alone(t), UNCHANGED heap, Walks(t)', Verdict(t)'
  PROVE  IInv'
<1>1. ASSUME NEW u \in Threads \ {t}
      PROVE Walks(u)' /\ Verdict(u)'
  <2>1. /\ pc'[u] = pc[u] /\ snapshot'[u] = snapshot[u] /\ asked'[u] = asked[u]
        /\ answers'[u] = answers[u] /\ result'[u] = result[u]
    BY DEF Alone
  <2>2. Walks(u) /\ Verdict(u)
    BY DEF IInv, WalkInv, ResultIsTheAnswer
  <2>3. Walks(u)'
    BY <2>1, <2>2 DEF Walks, Running
  <2>4. Verdict(u)'
    BY <2>1, <2>2 DEF Verdict, TurnedDown
  <2> QED
    BY <2>3, <2>4
<1> QED
  BY <1>1 DEF IInv, WalkInv, ResultIsTheAnswer

LEMMA RecordStep ==
  ASSUME IInv, NEW t \in Threads, NEW answer \in Answers, Running(t),
         Record(t, answer)
  PROVE  /\ answers' \in [Threads -> Seq(Answers)]
         /\ answers'[t] = Append(answers[t], answer)
         /\ Len(asked[t]) = Len(answers'[t])
         /\ TurnedDown(t)
<1>1. Walks(t) /\ Verdict(t)
  BY DEF IInv, WalkInv, ResultIsTheAnswer
<1>2. result[t] = "none" /\ Len(asked[t]) = Len(answers[t]) + 1
  BY <1>1 DEF Walks, Running
<1>3. answers[t] \in Seq(Answers)
  BY DEF IInv, TypeOK
<1>4. /\ answers' \in [Threads -> Seq(Answers)]
      /\ answers'[t] = Append(answers[t], answer)
  BY <1>3 DEF IInv, TypeOK, Record
<1> QED
  BY <1>1, <1>2, <1>3, <1>4 DEF Verdict

LEMMA GoOnStep ==
  ASSUME IInv, NEW t \in Threads, NEW answer \in {"unwilling", "declined"}, Running(t),
         GoOn(t, answer)
  PROVE  IInv'
<1> USE DEF GoOn
<1>1. /\ answers' \in [Threads -> Seq(Answers)]
      /\ answers'[t] = Append(answers[t], answer)
      /\ Len(asked[t]) = Len(answers'[t])
      /\ TurnedDown(t)
  BY RecordStep
<1>2. TypeOK'
  BY <1>1 DEF IInv, TypeOK, Record
<1>3. Walks(t)
  BY DEF IInv, WalkInv
<1>4. /\ pc'[t] = "asking" /\ asked'[t] = asked[t] /\ snapshot'[t] = snapshot[t]
      /\ result'[t] = "none" /\ UNCHANGED heap
  BY <1>3 DEF IInv, TypeOK, Record, Walks, Running
<1>5. Walks(t)'
  BY <1>1, <1>3, <1>4 DEF Walks, Running
<1>6. Verdict(t)'
  <2>1. \A i \in DOMAIN answers'[t] : answers'[t][i] \in {"unwilling", "declined"}
    BY <1>1 DEF TurnedDown, IInv, TypeOK
  <2> QED
    BY <1>4, <2>1 DEF Verdict, TurnedDown
<1>7. Alone(t)
  BY DEF Alone, Record, IInv, TypeOK
<1> QED
  BY <1>2, <1>4, <1>5, <1>6, <1>7, WalkStep

LEMMA SettleStep ==
  ASSUME IInv, NEW t \in Threads, NEW answer \in {"handled", "failed"}, Running(t),
         Settle(t, answer)
  PROVE  IInv'
<1> USE DEF Settle
<1>1. /\ answers' \in [Threads -> Seq(Answers)]
      /\ answers'[t] = Append(answers[t], answer)
      /\ Len(asked[t]) = Len(answers'[t])
      /\ TurnedDown(t)
  BY RecordStep
<1>2. TypeOK'
  BY <1>1 DEF IInv, TypeOK, Record
<1>3. Walks(t)
  BY DEF IInv, WalkInv
<1>4. /\ pc'[t] = "returning" /\ asked'[t] = asked[t] /\ snapshot'[t] = snapshot[t]
      /\ result'[t] = answer /\ UNCHANGED heap
  BY DEF IInv, TypeOK, Record
<1>5. Walks(t)'
  BY <1>1, <1>3, <1>4 DEF Walks, Running
<1>6. Verdict(t)'
  <2>1. answers[t] \in Seq(Answers)
    BY DEF IInv, TypeOK
  <2>2. /\ Len(answers'[t]) = Len(answers[t]) + 1 /\ Len(answers[t]) \in Nat
        /\ answers'[t][Len(answers'[t])] = answer /\ answers'[t] # <<>>
        /\ \A i \in 1..Len(answers[t]) : answers'[t][i] \in {"unwilling", "declined"}
    BY <1>1, <2>1 DEF TurnedDown
  <2>3. Last(answers'[t]) = answer
    BY <2>2 DEF Last
  <2> QED
    BY <1>4, <2>2, <2>3 DEF Verdict
<1>7. Alone(t)
  BY DEF Alone, Record, IInv, TypeOK
<1> QED
  BY <1>2, <1>4, <1>5, <1>6, <1>7, WalkStep

(* A publication, and the steps around it.                                 *)
LEMMA PublishStep ==
  ASSUME IInv, NEW set \in Seq(Handles), Publish(set), UNCHANGED <<nextHandle, walkVars>>,
         adding' \in [Threads -> 0..MaxHandles]
  PROVE  IInv'
<1>1. TypeOK'
  BY PublishTyped DEF IInv, TypeOK
<1> QED
  BY <1>1, PublishTyped, MutationStep DEF IInv

LEMMA InvMutation ==
  ASSUME IInv, NEW t \in Threads, Mutation(t)
  PROVE  IInv'
<1>0. heap[providers] \in Seq(Handles)
  BY DEF IInv, TypeOK
<1>1. CASE TakeHandle(t)
  <2>1. TypeOK'
    BY <1>1, ServiceAssumption DEF IInv, TakeHandle, NewHandle, TypeOK
  <2> QED
    BY <1>1, <2>1, MutationStep DEF TakeHandle
<1>2. CASE AddProvider(t)
  <2>1. adding[t] \in Handles
    BY <1>2, ServiceAssumption DEF AddProvider, IInv, TypeOK
  <2>2. Append(heap[providers], adding[t]) \in Seq(Handles)
    BY <1>0, <2>1
  <2>3. adding' \in [Threads -> 0..MaxHandles]
    BY <1>2, ServiceAssumption DEF AddProvider, IInv, TypeOK
  <2> QED
    BY <1>2, <2>2, <2>3, PublishStep DEF AddProvider
<1>3. ASSUME NEW h \in Handles, RemoveProvider(t, h)
      PROVE IInv'
  <2>1. RemoveFirst(heap[providers], h) \in Seq(Handles)
    BY <1>0, <1>3, RemovesOne, RemovalKeepsOrder DEF RemoveProvider
  <2> QED
    BY <1>3, <2>1, PublishStep DEF RemoveProvider, IInv, TypeOK
<1>4. CASE ClearProviders(t)
  <2>1. <<>> \in Seq(Handles)
    OBVIOUS
  <2> QED
    BY <1>4, <2>1, PublishStep DEF ClearProviders, IInv, TypeOK
<1> QED
  BY <1>1, <1>2, <1>3, <1>4 DEF Mutation

LEMMA InvWalk ==
  ASSUME IInv, NEW t \in Threads, Walk(t)
  PROVE  IInv'
<1>0. Walks(t) /\ Verdict(t)
  BY DEF IInv, WalkInv, ResultIsTheAnswer
<1>1. CASE Handle(t)
  <2>1. TypeOK' /\ Alone(t) /\ UNCHANGED heap
    BY <1>1 DEF Handle, IInv, TypeOK, Alone
  <2>2. /\ pc'[t] = "asking" /\ snapshot'[t] # 0
        /\ asked'[t] = <<>> /\ answers'[t] = <<>> /\ result'[t] = "none"
    BY <1>0, <1>1 DEF Handle, IInv, TypeOK, Walks
  <2>3. Walks(t)' /\ Verdict(t)'
    BY <2>2 DEF Walks, Running, Verdict, TurnedDown
  <2> QED
    BY <2>1, <2>3, WalkStep
<1>2. CASE Ask(t)
  <2> DEFINE set == heap[snapshot[t]]
             n   == Len(asked[t])
  <2>1. /\ set \in Seq(Handles) /\ n \in Nat /\ asked[t] \in Seq(Handles)
        /\ snapshot[t] # 0 /\ Len(answers[t]) = n /\ result[t] = "none"
    BY <1>0, <1>2 DEF Ask, Walks, Running, IInv, TypeOK
  <2>2. Alone(t) /\ UNCHANGED <<heap, snapshot, answers>>
    BY <1>2 DEF Ask, IInv, TypeOK, Alone
  <2>3. CASE n < Len(set)
    <3>1. set[n + 1] \in Handles
      <4>1. n + 1 \in 1..Len(set)
        BY <2>1, <2>3
      <4> QED
        BY <2>1, <4>1, ElementOfSeq
    <3>2. /\ asked' = [asked EXCEPT ![t] = Append(@, set[n + 1])]
          /\ pc' = [pc EXCEPT ![t] = "selecting"] /\ UNCHANGED result
      BY <1>2, <2>3 DEF Ask
    <3>3. TypeOK'
      <4>1. asked' \in [Threads -> Seq(Handles)]
        BY <2>1, <3>1, <3>2 DEF IInv, TypeOK
      <4> QED
        BY <1>2, <3>2, <4>1 DEF Ask, IInv, TypeOK
    <3>4. Len(asked'[t]) = n + 1 /\ pc'[t] = "selecting"
      BY <2>1, <3>1, <3>2 DEF IInv, TypeOK
    <3>5. Walks(t)'
      <4>1. Len(answers'[t]) = n /\ snapshot'[t] = snapshot[t] /\ result'[t] = "none"
        BY <2>1, <2>2, <3>2
      <4>2. n + 1 <= Len(heap'[snapshot'[t]])
        BY <2>1, <2>2, <2>3
      <4> QED
        BY <2>1, <3>4, <4>1, <4>2 DEF Walks, Running
    <3>6. Verdict(t)'
      BY <1>0, <2>1, <2>2, <3>2 DEF Verdict, TurnedDown
    <3> QED
      BY <2>2, <3>3, <3>5, <3>6, WalkStep
  <2>4. CASE ~(n < Len(set))
    <3>1. /\ pc' = [pc EXCEPT ![t] = "returning"] /\ UNCHANGED asked
          /\ result' = [result EXCEPT ![t] = "notHandled"]
      BY <1>2, <2>4 DEF Ask
    <3>2. TypeOK'
      BY <1>2, <3>1 DEF Ask, IInv, TypeOK
    <3>3. pc'[t] = "returning" /\ result'[t] = "notHandled"
      BY <3>1 DEF IInv, TypeOK
    <3>4. Walks(t)'
      BY <1>0, <1>2, <2>1, <2>2, <3>1, <3>3 DEF Walks, Running, Ask
    <3>5. n = Len(set)
      <4>1. n <= Len(set) /\ Len(set) \in Nat
        BY <1>0, <2>1 DEF Walks
      <4> QED
        BY <2>1, <2>4, <4>1
    <3>6. Verdict(t)'
      BY <1>0, <2>1, <2>2, <2>4, <3>3, <3>5 DEF Verdict, TurnedDown
    <3> QED
      BY <2>2, <3>2, <3>4, <3>6, WalkStep
  <2> QED
    BY <2>3, <2>4
<1>3. CASE CanHandle(t)
  <2>1. CASE Selected(t)
    BY <1>3, <2>1, GoOnStep, SettleStep DEF CanHandle, Selected, Running
  <2>2. CASE ~Selected(t)
    <3>1. /\ pc[t] = "selecting" /\ pc' = [pc EXCEPT ![t] = "handling"]
          /\ UNCHANGED <<heap, providers, nextHandle, adding, snapshot, asked, answers, result>>
      BY <1>3, <2>2 DEF CanHandle
    <3>2. TypeOK' /\ Alone(t)
      BY <3>1 DEF IInv, TypeOK, Alone
    <3>3. Walks(t)' /\ Verdict(t)'
      BY <1>0, <3>1 DEF Walks, Running, Verdict, TurnedDown, IInv, TypeOK
    <3> QED
      BY <3>1, <3>2, <3>3, WalkStep
  <2> QED
    BY <2>1, <2>2
<1>4. CASE ProviderHandles(t)
  BY <1>4, GoOnStep, SettleStep DEF ProviderHandles, Running
<1>5. CASE Return(t)
  <2>1. TypeOK' /\ Alone(t) /\ UNCHANGED heap
    BY <1>5 DEF Return, IInv, TypeOK, Alone
  <2>2. /\ pc'[t] = "idle" /\ snapshot'[t] = 0
        /\ asked'[t] = <<>> /\ answers'[t] = <<>> /\ result'[t] = "none"
    BY <1>5 DEF Return, IInv, TypeOK
  <2>3. Walks(t)' /\ Verdict(t)'
    BY <2>2 DEF Walks, Running, Verdict, TurnedDown
  <2> QED
    BY <2>1, <2>3, WalkStep
<1> QED
  BY <1>1, <1>2, <1>3, <1>4, <1>5 DEF Walk

LEMMA InvStep == ASSUME IInv, [Next]_vars PROVE IInv'
<1>1. CASE UNCHANGED vars
  <2>1. TypeOK'
    BY <1>1 DEF IInv, TypeOK, vars
  <2> QED
    BY <1>1, <2>1, MutationStep DEF vars
<1> QED
  BY <1>1, InvMutation, InvWalk DEF Next

LEMMA Invariant == Spec => []IInv
BY InvInit, InvStep, PTL DEF Spec

(* Type correctness: pointers point into the heap.                         *)
THEOREM TypeCorrect == Spec => []TypeOK
<1>1. IInv => TypeOK
  BY DEF IInv
<1> QED
  BY <1>1, Invariant, PTL

(* A request is passed on only if every provider asked turned it down.     *)
THEOREM ResultCorrect == Spec => []ResultIsTheAnswer
<1>1. IInv => ResultIsTheAnswer
  BY DEF IInv
<1> QED
  BY <1>1, Invariant, PTL

-----------------------------------------------------------------------------
(* Handles given out are below _nextHandle and told apart, whether their   *)
(* entries are in the list or on their way into it.                        *)
List == heap[providers]

HandleInv ==
  /\ \A i \in DOMAIN List : List[i] < nextHandle
  /\ \A t \in Threads : adding[t] # 0 =>
       /\ adding[t] < nextHandle
       /\ \A i \in DOMAIN List : List[i] # adding[t]
       /\ \A u \in Threads : adding[u] = adding[t] => u = t

LEMMA HandleInit == Init => HandleInv
BY DEF Init, HandleInv, List

(* A mutation that adds nothing.                                           *)
LEMMA HandlesKept ==
  ASSUME HandleInv, UNCHANGED <<nextHandle, adding>>,
         \A i \in DOMAIN List' : \E j \in DOMAIN List : List'[i] = List[j]
  PROVE  HandleInv'
BY DEF HandleInv

LEMMA HandleStep == ASSUME IInv, HandleInv, [Next]_vars PROVE HandleInv'
<1>0. List \in Seq(Handles) /\ nextHandle \in Nat /\ adding \in [Threads -> 0..MaxHandles]
  BY ServiceAssumption DEF IInv, TypeOK, List, Handles
<1>1. CASE UNCHANGED vars
  BY <1>1 DEF vars, HandleInv, List
<1>2. ASSUME NEW t \in Threads, Walk(t)
      PROVE HandleInv'
  <2>1. UNCHANGED <<heap, providers, nextHandle, adding>>
    BY <1>2 DEF Walk, Handle, Ask, CanHandle, ProviderHandles, Return,
                  Selected, GoOn, Settle, Record
  <2> QED
    BY <2>1 DEF HandleInv, List
<1>3. ASSUME NEW t \in Threads, TakeHandle(t)
      PROVE HandleInv'
  <2>1. /\ List' = List /\ nextHandle' = nextHandle + 1
        /\ adding' = [adding EXCEPT ![t] = nextHandle]
    BY <1>3 DEF TakeHandle, NewHandle, List
  <2>2. \A i \in DOMAIN List : List[i] \in Nat /\ List[i] < nextHandle
    <3> SUFFICES ASSUME NEW i \in DOMAIN List PROVE List[i] \in Nat /\ List[i] < nextHandle
      OBVIOUS
    <3>0. i \in 1..Len(List)
      BY <1>0
    <3>1. List[i] \in Handles
      BY <1>0, <3>0, ElementOfSeq
    <3> QED
      BY <3>1, ServiceAssumption DEF HandleInv, Handles
  <2>3. \A u \in Threads : adding[u] < nextHandle \/ adding[u] = 0
    BY DEF HandleInv
  <2>4. nextHandle # 0
    BY DEF IInv, TypeOK
  <2> QED
    BY <1>0, <2>1, <2>2, <2>3, <2>4 DEF HandleInv
<1>4. ASSUME NEW t \in Threads, AddProvider(t)
      PROVE HandleInv'
  <2>1. /\ adding[t] # 0 /\ adding[t] \in Handles /\ UNCHANGED nextHandle
        /\ adding' = [adding EXCEPT ![t] = 0] /\ List' = Append(List, adding[t])
    <3>1. adding[t] # 0 /\ adding[t] \in Handles
      BY <1>4, ServiceAssumption DEF AddProvider, IInv, TypeOK
    <3>2. Append(List, adding[t]) \in Seq(Handles)
      BY <1>0, <3>1, AppendProperties
    <3>3. List' = Append(List, adding[t])
      BY <1>4, <3>2, PublishTyped DEF AddProvider, IInv, List
    <3> QED
      BY <1>4, <3>1, <3>3 DEF AddProvider
  <2>2. \A i \in DOMAIN List' : (i \in DOMAIN List /\ List'[i] = List[i]) \/ List'[i] = adding[t]
    <3>1. Len(List') = Len(List) + 1 /\ List' \in Seq(Handles)
      BY <1>0, <2>1, AppendProperties
    <3> QED
      BY <1>0, <2>1, <3>1, AppendProperties
  <2>3. \A u \in Threads : adding'[u] # 0 => u # t /\ adding'[u] = adding[u]
    BY <1>0, <2>1
  <2> QED
    BY <2>1, <2>2, <2>3 DEF HandleInv
<1>5. ASSUME NEW t \in Threads, NEW h \in Handles, RemoveProvider(t, h)
      PROVE HandleInv'
  <2>1. PICK i \in DOMAIN List : List' = RemoveAt(List, i)
    <3>1. \E i \in DOMAIN List : RemoveFirst(List, h) = RemoveAt(List, i)
      BY <1>0, <1>5, RemovesOne DEF RemoveProvider, List
    <3>2. RemoveFirst(List, h) \in Seq(Handles)
      BY <1>0, <3>1, RemovalKeepsOrder
    <3>3. List' = RemoveFirst(List, h)
      BY <1>5, <3>2, PublishTyped DEF RemoveProvider, IInv, List
    <3> QED
      BY <3>1, <3>3
  <2>2. UNCHANGED <<nextHandle, adding>>
    BY <1>5 DEF RemoveProvider
  <2> QED
    BY <1>0, <2>1, <2>2, RemovalAddsNothing, HandlesKept
<1>6. ASSUME NEW t \in Threads, ClearProviders(t)
      PROVE HandleInv'
  <2>1. <<>> \in Seq(Handles)
    OBVIOUS
  <2>2. List' = <<>> /\ UNCHANGED <<nextHandle, adding>>
    BY <1>6, <2>1, PublishTyped DEF ClearProviders, List, IInv
  <2> QED
    BY <2>2, HandlesKept
<1> QED
  BY <1>1, <1>2, <1>3, <1>4, <1>5, <1>6 DEF Next, Mutation

LEMMA HandleInvariant == Spec => []HandleInv
<1>1. ASSUME IInv, HandleInv, [Next]_vars
      PROVE HandleInv'
  BY <1>1, HandleStep
<1> QED
  BY HandleInit, Invariant, <1>1, PTL DEF Spec


-----------------------------------------------------------------------------
(* Refinement: the walk of a request is its snapshot, which no mutation    *)
(* changes.                                                                *)
Plan == [t \in Threads |-> IF snapshot[t] = 0 THEN <<>> ELSE heap[snapshot[t]]]

LEMMA PlanKept ==
  ASSUME IInv, UNCHANGED snapshot, \A i \in DOMAIN heap : heap'[i] = heap[i]
  PROVE  Plan' = Plan
<1>1. \A t \in Threads : snapshot[t] # 0 => snapshot[t] \in DOMAIN heap
  BY DEF IInv, TypeOK
<1> QED
  BY <1>1 DEF Plan

LEMMA MutationImplements ==
  ASSUME IInv, HandleInv, NEW t \in Threads, Mutation(t)
  PROVE  [Providers!Next]_(Providers!vars)
<1> DEFINE list == heap[providers]
<1>0. list \in Seq(Handles)
  BY DEF IInv, TypeOK
<1>1. ASSUME NEW set \in Seq(Handles), Publish(set), UNCHANGED walkVars
      PROVE Plan' = Plan /\ list' = set /\ UNCHANGED asked
  BY <1>1, PublishTyped, PlanKept DEF IInv
<1>2. CASE TakeHandle(t)
  <2>1. Plan' = Plan
    BY <1>2, PlanKept DEF TakeHandle
  <2> QED
    BY <1>2, <2>1 DEF TakeHandle, Providers!vars, Plan
<1>3. CASE AddProvider(t)
  <2>1. adding[t] \in Handles
    BY <1>3, ServiceAssumption DEF AddProvider, IInv, TypeOK
  <2>2. Append(list, adding[t]) \in Seq(Handles)
    BY <1>0, <2>1
  <2>3. Plan' = Plan /\ list' = Append(list, adding[t]) /\ UNCHANGED asked
    BY <1>1, <1>3, <2>2 DEF AddProvider
  <2>4. \A i \in DOMAIN list : list[i] # adding[t]
    BY <1>3 DEF AddProvider, HandleInv, List
  <2> QED
    BY <2>1, <2>3, <2>4 DEF Providers!Next, Providers!Mutate, Plan
<1>4. ASSUME NEW h \in Handles, RemoveProvider(t, h)
      PROVE Providers!Mutate
  <2>1. PICK i \in DOMAIN list : RemoveFirst(list, h) = RemoveAt(list, i)
    BY <1>0, <1>4, RemovesOne DEF RemoveProvider
  <2>2. RemoveAt(list, i) \in Seq(Handles)
    BY <1>0, RemovalKeepsOrder
  <2>3. Plan' = Plan /\ list' = RemoveAt(list, i) /\ UNCHANGED asked
    BY <1>1, <1>4, <2>1, <2>2 DEF RemoveProvider
  <2> QED
    BY <2>3 DEF Providers!Mutate, Plan, RemoveAt, Providers!RemoveAt
<1>5. CASE ClearProviders(t)
  <2>1. <<>> \in Seq(Handles)
    OBVIOUS
  <2>2. Plan' = Plan /\ list' = <<>> /\ UNCHANGED asked
    BY <1>1, <1>5, <2>1 DEF ClearProviders
  <2> QED
    BY <2>2 DEF Providers!Next, Providers!Mutate, Plan
<1> QED
  BY <1>2, <1>3, <1>4, <1>5 DEF Mutation, Providers!Next

LEMMA WalkImplements ==
  ASSUME IInv, NEW t \in Threads, Walk(t)
  PROVE  [Providers!Next]_(Providers!vars)
<1>0. Walks(t)
  BY DEF IInv, WalkInv
<1>1. CASE Handle(t)
  <2>1. asked[t] = <<>> /\ asked' = [asked EXCEPT ![t] = <<>>]
    <3>1. asked[t] = <<>> /\ asked' = asked
      BY <1>0, <1>1 DEF Handle, Walks
    <3> QED
      BY <3>1 DEF IInv, TypeOK
  <2>2. Plan' = [Plan EXCEPT ![t] = heap[providers]]
    <3>1. /\ snapshot'[t] = providers /\ providers # 0 /\ heap' = heap
          /\ \A u \in Threads \ {t} : snapshot'[u] = snapshot[u]
      BY <1>1 DEF Handle, IInv, TypeOK
    <3> QED
      BY <3>1 DEF Plan
  <2>3. heap[providers] \o <<>> = heap[providers]
    <3>1. heap[providers] \in Seq(Handles)
      BY DEF IInv, TypeOK
    <3> QED
      BY <3>1, ConcatEmptySeq
  <2> QED
    BY <1>1, <2>1, <2>2, <2>3 DEF Handle, Providers!Begin, Providers!Next, Plan
<1>2. CASE Ask(t)
  <2> DEFINE set == heap[snapshot[t]]
  <2>1. snapshot[t] # 0 /\ Plan[t] = set
    BY <1>0, <1>2 DEF Ask, Walks, Plan
  <2>2. Plan' = Plan /\ UNCHANGED <<heap, providers>>
    BY <1>2 DEF Ask, Plan
  <2>3. CASE Len(asked[t]) < Len(set)
    <3>1. asked' = [asked EXCEPT ![t] = Append(@, Plan[t][Len(@) + 1])]
      BY <1>2, <2>1, <2>3 DEF Ask
    <3> QED
      BY <2>1, <2>2, <2>3, <3>1 DEF Providers!Visit, Providers!Next, Plan
  <2>4. CASE ~(Len(asked[t]) < Len(set))
    BY <1>2, <2>2, <2>4 DEF Ask, Providers!vars, Plan
  <2> QED
    BY <2>3, <2>4
<1>3. CASE CanHandle(t) \/ ProviderHandles(t)
  <2>1. UNCHANGED <<heap, providers, snapshot, asked>>
    BY <1>3 DEF CanHandle, ProviderHandles, Selected, GoOn, Settle, Record
  <2> QED
    BY <2>1 DEF Providers!vars
<1>4. CASE Return(t)
  <2>1. Plan' = [Plan EXCEPT ![t] = <<>>] /\ asked' = [asked EXCEPT ![t] = <<>>]
    BY <1>4 DEF Return, Plan, IInv, TypeOK
  <2> QED
    BY <1>4, <2>1 DEF Return, Providers!Finish, Providers!Next, Plan
<1> QED
  BY <1>1, <1>2, <1>3, <1>4 DEF Walk

(* Each request walks one provider set, in order, while the list changes   *)
(* by one whole mutation at a time.                                        *)
THEOREM Refinement == Spec => ImplementsSnapshotWalk
<1>1. Init => Providers!Init
  BY DEF Init, Providers!Init
<1>2. ASSUME IInv, HandleInv, [Next]_vars
      PROVE [Providers!Next]_(Providers!vars)
  <2>1. CASE UNCHANGED vars
    BY <2>1 DEF vars, Providers!vars
  <2> QED
    BY <1>2, <2>1, MutationImplements, WalkImplements DEF Next
<1> QED
  BY <1>1, <1>2, Invariant, HandleInvariant, PTL DEF Spec, ImplementsSnapshotWalk, Providers!Spec
===============================================================================
