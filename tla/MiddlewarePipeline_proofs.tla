----------------------- MODULE MiddlewarePipeline_proofs -----------------------
(***************************************************************************)
(* Proofs that MiddlewarePipeline implements SnapshotWalk for every number *)
(* of threads, middlewares, terminals and mutations.                       *)
(***************************************************************************)
EXTENDS MiddlewarePipeline, SequencesExt, SequenceTheorems, WellFoundedInduction, TLAPS

(* Every set of numbers that is not empty has a least one.                 *)
LEMMA LeastNatural ==
  ASSUME NEW T \in SUBSET Nat, T # {}
  PROVE  \E i \in T : \A j \in T : i <= j
<1>1. IsWellFoundedOn({ss \in Nat \X Nat : ss[1] < ss[2]}, Nat)
  BY NatLessThanWellFounded, Zenon DEF OpToRel
<1>2. \E i \in T : \A j \in T : <<j, i>> \notin {ss \in Nat \X Nat : ss[1] < ss[2]}
  BY <1>1, WFMin, Zenon
<1>3. \A i, j \in T : <<j, i>> \in {ss \in Nat \X Nat : ss[1] < ss[2]} <=> j < i
  OBVIOUS
<1>4. \E i \in T : \A j \in T : ~(j < i)
  BY <1>2, <1>3, Zenon
<1> QED
  BY <1>4

(* Removing one element keeps the others in order.                         *)
LEMMA RemovalKeepsOrder ==
  ASSUME NEW S, NEW s \in Seq(S), NEW i \in DOMAIN s
  PROVE  /\ RemoveAt(s, i) \in Seq(S)
         /\ Len(RemoveAt(s, i)) = Len(s) - 1
         /\ \A k \in 1..(Len(s) - 1) :
              RemoveAt(s, i)[k] = IF k < i THEN s[k] ELSE s[k + 1]
BY SMTT(90) DEF RemoveAt

LEMMA RemovalAddsNothing ==
  ASSUME NEW S, NEW s \in Seq(S), NEW i \in DOMAIN s
  PROVE  \A k \in DOMAIN RemoveAt(s, i) : \E j \in DOMAIN s : RemoveAt(s, i)[k] = s[j]
<1>1. DOMAIN RemoveAt(s, i) = 1..(Len(s) - 1)
  BY RemovalKeepsOrder
<1>2. \A k \in 1..(Len(s) - 1) : RemoveAt(s, i)[k] = s[k] \/ RemoveAt(s, i)[k] = s[k + 1]
  BY RemovalKeepsOrder
<1>3. \A k \in 1..(Len(s) - 1) : k \in DOMAIN s /\ k + 1 \in DOMAIN s
  OBVIOUS
<1> QED
  BY <1>1, <1>2, <1>3

(* Removing the first occurrence removes one element.                      *)
LEMMA RemovesOne ==
  ASSUME NEW S, NEW s \in Seq(S), NEW e, Contains(s, e)
  PROVE  \E i \in DOMAIN s : RemoveFirst(s, e) = RemoveAt(s, i)
<1> DEFINE found == {i \in 1..Len(s) : s[i] = e}
<1>1. found # {} /\ found \subseteq Nat /\ found \subseteq DOMAIN s
  BY DEF Contains
<1>2. Min(found) \in found
  BY <1>1, LeastNatural DEF Min
<1>3. SelectInSeq(s, LAMBDA v : v = e) = Min(found)
  BY <1>1 DEF SelectInSeq
<1> QED
  BY <1>1, <1>2, <1>3 DEF RemoveFirst

LEMMA FrontOfList ==
  ASSUME NEW S, NEW s \in Seq(S), Len(s) > 0
  PROVE  /\ Front(s) \in Seq(S)
         /\ Len(Front(s)) = Len(s) - 1
         /\ \A i \in 1..(Len(s) - 1) : Front(s)[i] = s[i]
<1> DEFINE n == Len(s) - 1
<1>1. n \in Nat /\ 1 <= n + 1 /\ n - 1 + 1 = n /\ \A i \in 1..n : s[i] \in S
  BY ElementOfSeq
<1>2. Front(s) = SubSeq(s, 1, n)
  BY DEF Front
<1> HIDE DEF n
<1>3. /\ SubSeq(s, 1, n) \in Seq(S)
      /\ Len(SubSeq(s, 1, n)) = IF 1 <= n THEN n - 1 + 1 ELSE 0
      /\ \A i \in 1..(n - 1 + 1) : SubSeq(s, 1, n)[i] = s[1 + i - 1]
  BY <1>1, SubSeqProperties
<1>4. Len(SubSeq(s, 1, n)) = n /\ \A i \in 1..n : SubSeq(s, 1, n)[i] = s[i]
  BY <1>1, <1>3
<1> QED
  BY <1>2, <1>3, <1>4 DEF n

-----------------------------------------------------------------------------
USE DEF walkVars

(* The frames under way: every caller has used its next, and a running     *)
(* handler that has not is the last the walk has come to.                  *)
Walks(t) ==
  /\ snapshot[t] = 0 <=> frames[t] = <<>>
  /\ snapshot[t] = 0 => ran[t] = <<>>
  /\ \A i \in 1..(Len(frames[t]) - 1) : frames[t][i].invoked
  /\ frames[t] # <<>> /\ ~frames[t][Len(frames[t])].invoked =>
       frames[t][Len(frames[t])].at = Len(ran[t])

IInv == TypeOK /\ \A t \in Threads : Walks(t)

LEMMA InvInit == Init => IInv
BY PipelineAssumption DEF Init, TypeOK, FirstHandle, IInv, Walks, Handles, ChainType, FrameType

LEMMA PublishTyped ==
  ASSUME TypeOK, NEW c \in ChainType, Publish(c)
  PROVE  /\ heap' \in Seq(ChainType) /\ chain' \in DOMAIN heap'
         /\ DOMAIN heap \subseteq DOMAIN heap'
         /\ \A i \in DOMAIN heap : heap'[i] = heap[i]
         /\ heap'[chain'] = c
BY DEF TypeOK, Publish

LEMMA PublishStep ==
  ASSUME IInv, NEW c \in ChainType, Publish(c), UNCHANGED <<nextHandle, walkVars>>,
         adding' \in [Threads -> 0..MaxHandles]
  PROVE  IInv'
<1>1. TypeOK'
  BY PublishTyped DEF IInv, TypeOK
<1> QED
  BY <1>1 DEF IInv, Walks

(* What each mutation publishes.                                           *)
LEMMA Published ==
  ASSUME IInv
  PROVE  /\ heap[chain].entries \in Seq(Handles)
         /\ heap[chain].terminal \in Terminals \cup {NoTerminal}
         /\ \A e \in Seq(Handles) : [heap[chain] EXCEPT !.entries = e] \in ChainType
         /\ \A x \in Terminals \cup {NoTerminal} : [heap[chain] EXCEPT !.terminal = x] \in ChainType
         /\ [entries |-> <<>>, terminal |-> heap[chain].terminal] \in ChainType
<1>1. heap[chain] \in ChainType
  BY ElementOfSeq DEF IInv, TypeOK
<1>2. ASSUME NEW e \in Seq(Handles)
      PROVE [heap[chain] EXCEPT !.entries = e] \in ChainType
  BY <1>1 DEF ChainType
<1>3. ASSUME NEW x \in Terminals \cup {NoTerminal}
      PROVE [heap[chain] EXCEPT !.terminal = x] \in ChainType
  BY <1>1 DEF ChainType
<1>4. <<>> \in Seq(Handles)
  OBVIOUS
<1> QED
  BY <1>1, <1>2, <1>3, <1>4 DEF ChainType

LEMMA Added ==
  ASSUME IInv, NEW t \in Threads, Add(t)
  PROVE  /\ adding[t] \in Handles
         /\ Append(heap[chain].entries, adding[t]) \in Seq(Handles)
         /\ adding' \in [Threads -> 0..MaxHandles]
<1>1. adding[t] \in Handles /\ adding' \in [Threads -> 0..MaxHandles]
  BY PipelineAssumption DEF Add, IInv, TypeOK, Handles
<1> QED
  BY <1>1, Published

LEMMA Removed ==
  ASSUME IInv, NEW t \in Threads, NEW h \in Handles, RemoveEntry(t, h)
  PROVE  /\ RemoveFirst(heap[chain].entries, h) \in Seq(Handles)
         /\ \E i \in DOMAIN heap[chain].entries :
              RemoveFirst(heap[chain].entries, h) = RemoveAt(heap[chain].entries, i)
BY Published, RemovesOne, RemovalKeepsOrder DEF RemoveEntry

LEMMA InvMutation ==
  ASSUME IInv, NEW t \in Threads, Mutation(t)
  PROVE  IInv'
<1>1. CASE TakeHandle(t)
  BY <1>1, PipelineAssumption DEF TakeHandle, NewHandle, IInv, TypeOK, Walks
<1>2. CASE Add(t)
  BY <1>2, Added, Published, PublishStep DEF Add
<1>3. ASSUME NEW h \in Handles, RemoveEntry(t, h)
      PROVE IInv'
  BY <1>3, Removed, Published, PublishStep DEF RemoveEntry, IInv, TypeOK
<1>4. CASE Clear(t)
  BY <1>4, Published, PublishStep DEF Clear, IInv, TypeOK
<1>5. ASSUME NEW x \in Terminals \cup {NoTerminal}, SetTerminal(t, x)
      PROVE IInv'
  BY <1>5, Published, PublishStep DEF SetTerminal, IInv, TypeOK
<1> QED
  BY <1>1, <1>2, <1>3, <1>4, <1>5 DEF Mutation

LEMMA CalleesTyped ==
  ASSUME NEW c \in ChainType
  PROVE  Callees(c) \in Seq(Handles \cup Terminals)
<1> DEFINE S == Handles \cup Terminals
<1>1. c.entries \in Seq(Handles) /\ c.terminal \in Terminals \cup {NoTerminal}
  BY DEF ChainType
<1>2. Handles \subseteq S
  OBVIOUS
<1>3. c.entries \in Seq(S)
  BY <1>1, <1>2, SeqMonotonic
<1>4. CASE c.terminal = NoTerminal
  <2>1. Callees(c) = c.entries
    BY <1>1, <1>4, ConcatEmptySeq DEF Callees
  <2> QED
    BY <1>3, <2>1
<1>5. CASE c.terminal # NoTerminal
  <2>1. c.terminal \in S
    BY <1>1, <1>5
  <2>2. <<c.terminal>> \in Seq(S)
    BY <2>1
  <2>3. Callees(c) = c.entries \o <<c.terminal>>
    BY <1>5 DEF Callees
  <2> QED
    BY <1>3, <2>2, <2>3, ConcatProperties
<1> QED
  BY <1>4, <1>5

(* A step of one walk.                                                     *)
LEMMA WalkStep ==
  ASSUME IInv, TypeOK', NEW t \in Threads, Walks(t)',
         \A u \in Threads \ {t} : /\ snapshot'[u] = snapshot[u] /\ frames'[u] = frames[u]
                                   /\ ran'[u] = ran[u]
  PROVE  IInv'
<1>1. ASSUME NEW u \in Threads \ {t}
      PROVE Walks(u)'
  BY DEF IInv, Walks
<1> QED
  BY <1>1 DEF IInv

LEMMA InvWalk ==
  ASSUME IInv, NEW t \in Threads, Walk(t)
  PROVE  IInv'
<1>0. Walks(t) /\ frames[t] \in Seq(FrameType)
  BY DEF IInv, TypeOK
<1>1. CASE Handle(t)
  <2>1. TypeOK'
    <3>1. <<[at |-> 0, invoked |-> FALSE]>> \in Seq(FrameType)
      BY DEF FrameType
    <3> QED
      BY <1>1, <3>1 DEF Handle, IInv, TypeOK
  <2>2. Walks(t)'
    BY <1>1 DEF Handle, IInv, TypeOK, Walks
  <2> QED
    BY <1>1, <2>1, <2>2, WalkStep DEF Handle, IInv, TypeOK
<1>2. CASE InvokeNext(t)
  <2> DEFINE n       == Len(frames[t])
             top     == frames[t][n]
             callees == Callees(heap[snapshot[t]])
             called  == [frames[t] EXCEPT ![n].invoked = TRUE]
             index   == top.at + 1
  <2>1. snapshot[t] \in DOMAIN heap /\ frames[t] # <<>> /\ n \in Nat \ {0}
    BY <1>0, <1>2 DEF InvokeNext, IInv, TypeOK, Walks
  <2>2. top \in FrameType /\ callees \in Seq(Handles \cup Terminals)
    <3>1. heap[snapshot[t]] \in ChainType
      BY <2>1, ElementOfSeq DEF IInv, TypeOK
    <3>2. n \in 1..Len(frames[t])
      BY <2>1
    <3> QED
      BY <1>0, <3>1, <3>2, CalleesTyped, ElementOfSeq
  <2>3. ~top.invoked /\ top.at = Len(ran[t])
    BY <1>0, <1>2, <2>1 DEF InvokeNext, Invocable, Last, Walks
  <2>4. /\ called \in Seq(FrameType) /\ Len(called) = n
        /\ \A i \in 1..n : called[i].invoked
    <3> DEFINE used == [top EXCEPT !.invoked = TRUE]
    <3>1. used \in FrameType /\ used.invoked /\ called = [frames[t] EXCEPT ![n] = used]
      BY <2>2 DEF FrameType
    <3>2. n \in 1..Len(frames[t])
      BY <2>1
    <3> HIDE DEF used, called
    <3>3. /\ called \in Seq(FrameType) /\ Len(called) = n
          /\ \A k \in 1..n : called[k] = IF k = n THEN used ELSE frames[t][k]
      BY <1>0, <3>1, <3>2, ExceptSeq
    <3>4. \A k \in 1..(n - 1) : frames[t][k].invoked
      BY <1>0 DEF Walks
    <3> QED
      BY <2>1, <3>1, <3>3, <3>4
  <2>5. UNCHANGED <<heap, chain, nextHandle, adding, snapshot>>
    BY <1>2 DEF InvokeNext
  <2>6. CASE index <= Len(callees)
    <3> DEFINE frame == [at |-> index, invoked |-> FALSE]
    <3>1. /\ frames' = [frames EXCEPT ![t] = Append(called, frame)]
          /\ ran' = [ran EXCEPT ![t] = Append(@, callees[index])]
      BY <1>2, <2>6 DEF InvokeNext, Last
    <3>2. callees[index] \in Handles \cup Terminals /\ frame \in FrameType
      <4>1. index \in 1..Len(callees)
        BY <2>2, <2>6 DEF FrameType
      <4> QED
        BY <2>2, <4>1, ElementOfSeq DEF FrameType
    <3> HIDE DEF called, callees, frame
    <3>3. frames'[t] = Append(called, frame) /\ ran'[t] = Append(ran[t], callees[index])
      BY <3>1 DEF IInv, TypeOK
    <3>4. TypeOK'
      <4>1. Append(called, frame) \in Seq(FrameType)
        BY <2>4, <3>2, AppendProperties
      <4>2. Append(ran[t], callees[index]) \in Seq(Handles \cup Terminals)
        BY <3>2, AppendProperties DEF IInv, TypeOK
      <4> QED
        BY <2>5, <3>1, <4>1, <4>2 DEF IInv, TypeOK
    <3>5. Len(ran'[t]) = Len(ran[t]) + 1
      BY <3>2, <3>3, AppendProperties DEF IInv, TypeOK
    <3>6. /\ Len(frames'[t]) = n + 1 /\ frames'[t][n + 1] = frame /\ frames'[t] # <<>>
          /\ \A i \in 1..n : frames'[t][i].invoked
      <4>1. /\ Len(frames'[t]) = n + 1 /\ frames'[t] # <<>>
            /\ \A k \in 1..(n + 1) : frames'[t][k] = IF k <= n THEN called[k] ELSE frame
        BY <2>4, <3>2, <3>3, AppendProperties
      <4> QED
        BY <2>1, <2>4, <4>1
    <3>7. frame.at = Len(ran'[t])
      BY <2>3, <3>5 DEF frame
    <3>8. Walks(t)'
      BY <2>1, <2>5, <3>6, <3>7 DEF Walks, IInv, TypeOK
    <3> QED
      BY <3>1, <3>4, <3>8, <2>5, WalkStep DEF IInv, TypeOK
  <2>7. CASE ~(index <= Len(callees))
    <3>1. frames' = [frames EXCEPT ![t] = called] /\ UNCHANGED ran
      BY <1>2, <2>7 DEF InvokeNext, Last
    <3> HIDE DEF called
    <3>2. TypeOK' /\ frames'[t] = called
      BY <2>4, <2>5, <3>1 DEF IInv, TypeOK
    <3>3. Walks(t)'
      BY <2>1, <2>4, <2>5, <3>1, <3>2 DEF Walks, IInv, TypeOK
    <3> QED
      BY <2>5, <3>1, <3>2, <3>3, WalkStep DEF IInv, TypeOK
  <2> QED
    BY <2>6, <2>7
<1>3. CASE Return(t)
  <2> DEFINE n == Len(frames[t])
  <2>1. /\ n \in Nat /\ n > 1 /\ Front(frames[t]) \in Seq(FrameType)
        /\ Len(Front(frames[t])) = n - 1
        /\ \A i \in 1..(n - 1) : Front(frames[t])[i] = frames[t][i]
    BY <1>0, <1>3, FrontOfList DEF Return
  <2>2. /\ frames' = [frames EXCEPT ![t] = Front(frames[t])]
        /\ UNCHANGED <<heap, chain, nextHandle, adding, snapshot, ran>>
    BY <1>3 DEF Return
  <2>3. TypeOK' /\ frames'[t] = Front(frames[t])
    BY <2>1, <2>2 DEF IInv, TypeOK
  <2>4. Walks(t)'
    <3>1. snapshot'[t] = snapshot[t] /\ ran'[t] = ran[t] /\ snapshot[t] # 0
      BY <1>0, <2>1, <2>2 DEF Walks
    <3>2. frames'[t] # <<>> /\ frames'[t][Len(frames'[t])].invoked
      BY <1>0, <2>1, <2>3 DEF Walks
    <3>3. \A i \in 1..(Len(frames'[t]) - 1) : frames'[t][i].invoked
      <4>1. \A i \in 1..(n - 1) : frames[t][i].invoked
        BY <1>0 DEF Walks
      <4> QED
        BY <2>1, <2>3, <4>1
    <3> QED
      BY <3>1, <3>2, <3>3 DEF Walks
  <2> QED
    BY <2>2, <2>3, <2>4, WalkStep DEF IInv, TypeOK
<1>4. CASE Finish(t)
  <2>1. TypeOK' /\ Walks(t)'
    BY <1>4 DEF Finish, IInv, TypeOK, Walks
  <2> QED
    BY <1>4, <2>1, WalkStep DEF Finish, IInv, TypeOK
<1> QED
  BY <1>1, <1>2, <1>3, <1>4 DEF Walk

LEMMA InvStep == ASSUME IInv, [Next]_vars PROVE IInv'
<1>1. CASE UNCHANGED vars
  BY <1>1 DEF vars, IInv, TypeOK, Walks
<1> QED
  BY <1>1, InvMutation, InvWalk DEF Next

LEMMA Invariant == Spec => []IInv
BY InvInit, InvStep, PTL DEF Spec

(* Type correctness: pointers point into the heap, and what a walk runs    *)
(* are middlewares and terminals.                                          *)
THEOREM TypeCorrect == Spec => []TypeOK
<1>1. IInv => TypeOK
  BY DEF IInv
<1> QED
  BY <1>1, Invariant, PTL

-----------------------------------------------------------------------------
(* Handles given out are below _nextHandle and told apart, whether their   *)
(* entries are in the list or on their way into it.                        *)
List == heap[chain].entries

HandleInv ==
  /\ \A i \in DOMAIN List : List[i] < nextHandle
  /\ \A t \in Threads : adding[t] # 0 =>
       /\ adding[t] < nextHandle
       /\ \A i \in DOMAIN List : List[i] # adding[t]
       /\ \A u \in Threads : adding[u] = adding[t] => u = t

LEMMA HandleInit == Init => HandleInv
BY DEF Init, HandleInv, List

(* A mutation that adds nothing.                                           *)
LEMMA HandlesKept ==
  ASSUME HandleInv, UNCHANGED <<nextHandle, adding>>,
         \A i \in DOMAIN List' : \E j \in DOMAIN List : List'[i] = List[j]
  PROVE  HandleInv'
BY DEF HandleInv

LEMMA HandleStep == ASSUME IInv, HandleInv, [Next]_vars PROVE HandleInv'
<1>0. List \in Seq(Handles) /\ nextHandle \in Nat /\ adding \in [Threads -> 0..MaxHandles]
  BY Published, PipelineAssumption DEF IInv, TypeOK, List, Handles
<1>1. CASE UNCHANGED vars
  BY <1>1 DEF vars, HandleInv, List
<1>2. ASSUME NEW t \in Threads, Walk(t)
      PROVE HandleInv'
  <2>1. UNCHANGED <<heap, chain, nextHandle, adding>>
    BY <1>2 DEF Walk, Handle, InvokeNext, Return, Finish
  <2> QED
    BY <2>1 DEF HandleInv, List
<1>3. ASSUME NEW t \in Threads, TakeHandle(t)
      PROVE HandleInv'
  <2>1. /\ List' = List /\ nextHandle' = nextHandle + 1
        /\ adding' = [adding EXCEPT ![t] = nextHandle]
    BY <1>3 DEF TakeHandle, NewHandle, List
  <2>2. \A i \in DOMAIN List : List[i] \in Nat /\ List[i] < nextHandle
    <3> SUFFICES ASSUME NEW i \in DOMAIN List PROVE List[i] \in Nat /\ List[i] < nextHandle
      OBVIOUS
    <3>0. i \in 1..Len(List)
      BY <1>0
    <3>1. List[i] \in Handles
      BY <1>0, <3>0, ElementOfSeq
    <3> QED
      BY <3>1, PipelineAssumption DEF HandleInv, Handles
  <2>3. \A u \in Threads : adding[u] < nextHandle \/ adding[u] = 0
    BY DEF HandleInv
  <2>4. nextHandle # 0
    BY DEF IInv, TypeOK
  <2> QED
    BY <1>0, <2>1, <2>2, <2>3, <2>4 DEF HandleInv
<1>4. ASSUME NEW t \in Threads, Add(t)
      PROVE HandleInv'
  <2>1. /\ adding[t] # 0 /\ adding[t] \in Handles /\ UNCHANGED nextHandle
        /\ adding' = [adding EXCEPT ![t] = 0] /\ List' = Append(List, adding[t])
    <3> DEFINE c == [heap[chain] EXCEPT !.entries = Append(@, adding[t])]
    <3>1. adding[t] \in Handles /\ Publish(c) /\ c \in ChainType
      BY <1>4, Added, Published DEF Add, List
    <3>2. c.entries = Append(List, adding[t])
      BY Published DEF List, IInv, TypeOK, ChainType
    <3> HIDE DEF c
    <3>3. List' = Append(List, adding[t])
      BY <3>1, <3>2, PublishTyped DEF IInv, List
    <3> QED
      BY <1>4, <3>1, <3>3 DEF Add
  <2>2. \A i \in DOMAIN List' : (i \in DOMAIN List /\ List'[i] = List[i]) \/ List'[i] = adding[t]
    <3>1. Len(List') = Len(List) + 1 /\ List' \in Seq(Handles)
      BY <1>0, <2>1, AppendProperties
    <3> QED
      BY <1>0, <2>1, <3>1, AppendProperties
  <2>3. \A u \in Threads : adding'[u] # 0 => u # t /\ adding'[u] = adding[u]
    BY <1>0, <2>1
  <2> QED
    BY <2>1, <2>2, <2>3 DEF HandleInv
<1>5. ASSUME NEW t \in Threads, NEW h \in Handles, RemoveEntry(t, h)
      PROVE HandleInv'
  <2>1. PICK i \in DOMAIN List : List' = RemoveAt(List, i)
    <3> DEFINE c == [heap[chain] EXCEPT !.entries = RemoveFirst(@, h)]
    <3>1. /\ Publish(c) /\ c \in ChainType
          /\ \E i \in DOMAIN List : RemoveFirst(List, h) = RemoveAt(List, i)
      BY <1>5, Removed, Published DEF RemoveEntry, List
    <3>2. c.entries = RemoveFirst(List, h)
      BY Published DEF List, IInv, TypeOK, ChainType
    <3> HIDE DEF c
    <3>3. List' = RemoveFirst(List, h)
      BY <3>1, <3>2, PublishTyped DEF IInv, List
    <3> QED
      BY <3>1, <3>3
  <2>2. UNCHANGED <<nextHandle, adding>>
    BY <1>5 DEF RemoveEntry
  <2> QED
    BY <1>0, <2>1, <2>2, RemovalAddsNothing, HandlesKept
<1>6. ASSUME NEW t \in Threads, Clear(t)
      PROVE HandleInv'
  <2>1. List' = <<>> /\ UNCHANGED <<nextHandle, adding>>
    BY <1>6, Published, PublishTyped DEF Clear, List, IInv
  <2> QED
    BY <2>1, HandlesKept
<1>7. ASSUME NEW t \in Threads, NEW x \in Terminals \cup {NoTerminal}, SetTerminal(t, x)
      PROVE HandleInv'
  <2> DEFINE c == [heap[chain] EXCEPT !.terminal = x]
  <2>1. Publish(c) /\ c \in ChainType /\ UNCHANGED <<nextHandle, adding>>
    BY <1>7, Published DEF SetTerminal
  <2>2. c.entries = List
    BY Published DEF List, IInv, TypeOK, ChainType
  <2> HIDE DEF c
  <2>3. List' = List
    BY <2>1, <2>2, PublishTyped DEF IInv, List
  <2> QED
    BY <2>1, <2>3, HandlesKept
<1> QED
  BY <1>1, <1>2, <1>3, <1>4, <1>5, <1>6, <1>7 DEF Next, Mutation

LEMMA HandleInvariant == Spec => []HandleInv
<1>1. ASSUME IInv, HandleInv, [Next]_vars
      PROVE HandleInv'
  BY <1>1, HandleStep
<1> QED
  BY HandleInit, Invariant, <1>1, PTL DEF Spec


-----------------------------------------------------------------------------
(* Refinement: the plan of a request is its snapshot, which no mutation    *)
(* changes, and only the frame on top, at the end of the walk so far, can  *)
(* call a next.                                                            *)
Plan == [t \in Threads |-> IF snapshot[t] = 0 THEN <<>> ELSE Callees(heap[snapshot[t]])]

End(c) == IF c.terminal = NoTerminal THEN <<>> ELSE <<c.terminal>>

LEMMA PlanKept ==
  ASSUME IInv, UNCHANGED snapshot, \A i \in DOMAIN heap : heap'[i] = heap[i]
  PROVE  Plan' = Plan
<1>1. \A t \in Threads : snapshot[t] # 0 => snapshot[t] \in DOMAIN heap
  BY DEF IInv, TypeOK
<1> QED
  BY <1>1 DEF Plan

LEMMA MutationImplements ==
  ASSUME IInv, HandleInv, NEW t \in Threads, Mutation(t)
  PROVE  [Chain!Next]_(Chain!vars)
<1> DEFINE list == heap[chain].entries
           end  == End(heap[chain])
<1>0. heap[chain] \in ChainType /\ list \in Seq(Handles)
  BY ElementOfSeq, Published DEF IInv, TypeOK
<1>1. ASSUME NEW c \in ChainType, Publish(c), UNCHANGED walkVars
      PROVE Plan' = Plan /\ list' = c.entries /\ end' = End(c) /\ UNCHANGED ran
  BY <1>1, PublishTyped, PlanKept DEF IInv, End
<1>2. CASE TakeHandle(t)
  <2>1. Plan' = Plan
    BY <1>2, PlanKept DEF TakeHandle
  <2> QED
    BY <1>2, <2>1 DEF TakeHandle, Chain!vars, Plan
<1>3. CASE Add(t)
  <2>1. adding[t] \in Handles /\ Append(list, adding[t]) \in Seq(Handles)
    BY <1>3, Added
  <2> DEFINE c == [heap[chain] EXCEPT !.entries = Append(list, adding[t])]
  <2>3. Publish(c) /\ UNCHANGED walkVars
    BY <1>3 DEF Add
  <2>4. c \in ChainType
    BY <2>1, Published
  <2>5. c.entries = Append(list, adding[t]) /\ c.terminal = heap[chain].terminal
    BY <1>0 DEF ChainType
  <2> HIDE DEF c
  <2>2. Plan' = Plan /\ list' = Append(list, adding[t]) /\ end' = end /\ UNCHANGED ran
    BY <1>1, <2>3, <2>4, <2>5 DEF End
  <2>6. \A i \in DOMAIN list : list[i] # adding[t]
    BY <1>3 DEF Add, HandleInv, List
  <2> QED
    BY <2>1, <2>2, <2>6 DEF Chain!Next, Chain!Mutate, Plan, End
<1>4. ASSUME NEW h \in Handles, RemoveEntry(t, h)
      PROVE Chain!Mutate
  <2>1. PICK i \in DOMAIN list : RemoveFirst(list, h) = RemoveAt(list, i)
    BY <1>4, Removed
  <2>2. Plan' = Plan /\ list' = RemoveAt(list, i) /\ end' = end /\ UNCHANGED ran
    BY <1>0, <1>1, <1>4, <2>1, Removed, Published DEF RemoveEntry, End, ChainType
  <2> QED
    BY <2>2 DEF Chain!Mutate, Plan, End, RemoveAt, Chain!RemoveAt
<1>5. CASE Clear(t)
  <2>1. Plan' = Plan /\ list' = <<>> /\ end' = end /\ UNCHANGED ran
    BY <1>0, <1>1, <1>5, Published DEF Clear, End
  <2> QED
    BY <2>1 DEF Chain!Next, Chain!Mutate, Plan, End
<1>6. ASSUME NEW x \in Terminals \cup {NoTerminal}, SetTerminal(t, x)
      PROVE Chain!Mutate
  <2> DEFINE c == [heap[chain] EXCEPT !.terminal = x]
  <2>1. c \in ChainType /\ c.entries = list /\ c.terminal = x
    BY <1>0, Published DEF ChainType
  <2>2. Publish(c) /\ UNCHANGED walkVars
    BY <1>6 DEF SetTerminal
  <2> HIDE DEF c
  <2>3. Plan' = Plan /\ list' = list /\ end' = End(c) /\ UNCHANGED ran
    BY <1>1, <2>1, <2>2
  <2>4. End(c) \in {<<>>} \cup {<<y>> : y \in Terminals}
    BY <2>1 DEF End
  <2> QED
    BY <2>3, <2>4 DEF Chain!Mutate, Plan, End
<1> QED
  BY <1>2, <1>3, <1>4, <1>5, <1>6 DEF Mutation, Chain!Next

LEMMA WalkImplements ==
  ASSUME IInv, NEW t \in Threads, Walk(t)
  PROVE  [Chain!Next]_(Chain!vars)
<1>0. Walks(t) /\ frames[t] \in Seq(FrameType)
  BY DEF IInv, TypeOK
<1>1. CASE Handle(t)
  <2>1. ran' = [ran EXCEPT ![t] = <<>>] /\ UNCHANGED <<heap, chain>>
    BY <1>1 DEF Handle
  <2>2. Plan' = [Plan EXCEPT ![t] = Callees(heap[chain])]
    <3>1. /\ snapshot'[t] = chain /\ chain # 0 /\ heap' = heap
          /\ \A u \in Threads \ {t} : snapshot'[u] = snapshot[u]
      BY <1>1 DEF Handle, IInv, TypeOK
    <3> QED
      BY <3>1 DEF Plan
  <2> QED
    BY <2>1, <2>2 DEF Chain!Begin, Chain!Next, Plan, Callees
<1>2. CASE InvokeNext(t)
  <2> DEFINE top     == Last(frames[t])
             callees == Callees(heap[snapshot[t]])
             index   == top.at + 1
  <2>1. snapshot[t] # 0 /\ Plan[t] = callees /\ frames[t] # <<>>
    BY <1>0, <1>2 DEF InvokeNext, Walks, Plan
  <2>2. ~top.invoked /\ top.at = Len(ran[t])
    BY <1>0, <1>2, <2>1 DEF InvokeNext, Invocable, Last, Walks
  <2>3. Plan' = Plan /\ UNCHANGED <<heap, chain>>
    BY <1>2 DEF InvokeNext, Plan
  <2>4. CASE index <= Len(callees)
    <3>1. ran' = [ran EXCEPT ![t] = Append(@, callees[index])]
      BY <1>2, <2>4 DEF InvokeNext
    <3>2. ran[t] \in Seq(Handles \cup Terminals) /\ Len(callees) \in Nat
      <4>1. callees \in Seq(Handles \cup Terminals)
        BY <2>1, CalleesTyped, ElementOfSeq DEF IInv, TypeOK
      <4> QED
        BY <4>1 DEF IInv, TypeOK
    <3>3. Len(ran[t]) < Len(Plan[t])
      BY <2>1, <2>2, <2>4, <3>2
    <3>4. ran' = [ran EXCEPT ![t] = Append(@, Plan[t][Len(@) + 1])]
      BY <2>1, <2>2, <3>1
    <3> QED
      BY <2>3, <3>3, <3>4 DEF Chain!Visit, Chain!Next, Plan
  <2>5. CASE ~(index <= Len(callees))
    <3>1. UNCHANGED ran
      BY <1>2, <2>5 DEF InvokeNext
    <3> QED
      BY <2>3, <3>1 DEF Chain!vars, Plan
  <2> QED
    BY <2>4, <2>5
<1>3. CASE Return(t)
  <2>1. UNCHANGED <<heap, chain, snapshot, ran>>
    BY <1>3 DEF Return
  <2> QED
    BY <2>1 DEF Chain!vars
<1>4. CASE Finish(t)
  <2>1. Plan' = [Plan EXCEPT ![t] = <<>>] /\ ran' = [ran EXCEPT ![t] = <<>>]
    BY <1>4 DEF Finish, Plan, IInv, TypeOK
  <2> QED
    BY <1>4, <2>1 DEF Finish, Chain!Finish, Chain!Next, Plan
<1> QED
  BY <1>1, <1>2, <1>3, <1>4 DEF Walk

(* Every request walks one chain, in its order and each middleware once,   *)
(* then its terminal, while the chain changes by one whole mutation at a   *)
(* time.                                                                   *)
THEOREM Refinement == Spec => ImplementsSnapshotWalk
<1>1. Init => Chain!Init
  BY DEF Init, Chain!Init
<1>2. ASSUME IInv, HandleInv, [Next]_vars
      PROVE [Chain!Next]_(Chain!vars)
  <2>1. CASE UNCHANGED vars
    BY <2>1 DEF vars, Chain!vars
  <2> QED
    BY <1>2, <2>1, MutationImplements, WalkImplements DEF Next
<1> QED
  BY <1>1, <1>2, Invariant, HandleInvariant, PTL DEF Spec, ImplementsSnapshotWalk, Chain!Spec
===============================================================================
