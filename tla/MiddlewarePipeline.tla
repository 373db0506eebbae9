-------------------------- MODULE MiddlewarePipeline --------------------------
(***************************************************************************)
(* MiddlewarePipeline (ESPressio_Middleware.hpp): chains are published by  *)
(* replacing a shared pointer and never changed; each request walks the    *)
(* chain it found, middleware calling middleware, while application        *)
(* threads and the middlewares themselves add, remove and clear.           *)
(*                                                                         *)
(* The heap holds every chain published and the shared pointers are        *)
(* indices into it, so that sharing is in the model. A middleware is       *)
(* identified with the handle of its entry.                                *)
(***************************************************************************)
EXTENDS Naturals, SequencesExt

CONSTANTS Threads,
          Terminals, NoTerminal,
          MaxHandles,  \* bound: entries ever added
          MaxChains    \* bound: chains published by other calls than Add

ASSUME PipelineAssumption == /\ NoTerminal \notin Terminals \cup Nat
                             /\ Terminals \cap Nat = {}
                             /\ MaxHandles \in Nat /\ MaxChains \in Nat \ {0}

VARIABLES
  heap,        \* chains, the published and the superseded
  chain,       \* _chain
  nextHandle,  \* _nextHandle
  adding,      \* per thread, the handle its Add has taken, or 0
  snapshot,    \* per thread, the chain its request walks, or 0
  frames,      \* per thread, the calls under way in that walk
  ran          \* per thread, what the walk has run (history)

walkVars == <<snapshot, frames, ran>>
vars     == <<heap, chain, nextHandle, adding, walkVars>>

Handles   == 1..MaxHandles
ChainType == [entries : Seq(Handles), terminal : Terminals \cup {NoTerminal}]
FrameType == [at : Nat, invoked : BOOLEAN]

(* Every variable has its type, and pointers point into the heap.          *)
TypeOK ==
  /\ heap \in Seq(ChainType) /\ chain \in DOMAIN heap
  /\ nextHandle \in 1..(MaxHandles + 1)
  /\ adding \in [Threads -> 0..MaxHandles]
  /\ snapshot \in [Threads -> DOMAIN heap \cup {0}]
  /\ frames \in [Threads -> Seq(FrameType)]
  /\ ran \in [Threads -> Seq(Handles \cup Terminals)]

(* Definitions named after a mistake ("...Again") are the                   *)
(* mutants of the definition that follows them; nothing else uses them.     *)

FirstHandle == 1

Init ==
  /\ heap = <<[entries |-> <<>>, terminal |-> NoTerminal]>>
  /\ chain = 1
  /\ nextHandle = FirstHandle
  /\ adding = [t \in Threads |-> 0]
  /\ snapshot = [t \in Threads |-> 0]
  /\ frames = [t \in Threads |-> <<>>]
  /\ ran = [t \in Threads |-> <<>>]

-----------------------------------------------------------------------------
(* A mutation publishes a new chain; walks under way keep theirs.          *)
Publish(c) ==
  /\ heap' = Append(heap, c)
  /\ chain' = Len(heap) + 1

Room == Len(heap) < MaxChains

(* The application calls, or the handler that runs on t.                   *)
Free(t) == adding[t] = 0

NewHandleFromSize == Len(heap[chain].entries) + 1

NewHandle == nextHandle

(* Add takes its handle before the lock.                                   *)
TakeHandle(t) ==
  /\ Free(t) /\ nextHandle <= MaxHandles
  /\ adding' = [adding EXCEPT ![t] = NewHandle]
  /\ nextHandle' = nextHandle + 1
  /\ UNCHANGED <<heap, chain, walkVars>>

Add(t) ==
  /\ adding[t] # 0
  /\ Publish([heap[chain] EXCEPT !.entries = Append(@, adding[t])])
  /\ adding' = [adding EXCEPT ![t] = 0]
  /\ UNCHANGED <<nextHandle, walkVars>>

RemoveEntry(t, h) ==
  /\ Free(t) /\ Room
  /\ Contains(heap[chain].entries, h)
  /\ Publish([heap[chain] EXCEPT !.entries = RemoveFirst(@, h)])
  /\ UNCHANGED <<nextHandle, adding, walkVars>>

Clear(t) ==
  /\ Free(t) /\ Room
  /\ Publish([entries |-> <<>>, terminal |-> heap[chain].terminal])
  /\ UNCHANGED <<nextHandle, adding, walkVars>>

SetTerminal(t, terminal) ==
  /\ Free(t) /\ Room
  /\ Publish([heap[chain] EXCEPT !.terminal = terminal])
  /\ UNCHANGED <<nextHandle, adding, walkVars>>

-----------------------------------------------------------------------------
(* Handle takes its snapshot; the frame at 0 is Invocation::Invoke.        *)
Handle(t) ==
  /\ Free(t) /\ snapshot[t] = 0
  /\ snapshot' = [snapshot EXCEPT ![t] = chain]
  /\ frames' = [frames EXCEPT ![t] = <<[at |-> 0, invoked |-> FALSE]>>]
  /\ ran' = [ran EXCEPT ![t] = <<>>]
  /\ UNCHANGED <<heap, chain, nextHandle, adding>>

(* What a walk of chain c calls, in order.                                 *)
Callees(c) == c.entries \o (IF c.terminal = NoTerminal THEN <<>> ELSE <<c.terminal>>)

InvocableAgain(t) == Last(frames[t]).at <= Len(heap[snapshot[t]].entries)

(* The running middleware may call its next, once.                         *)
Invocable(t) ==
  /\ ~Last(frames[t]).invoked
  /\ Last(frames[t]).at <= Len(heap[snapshot[t]].entries)

(* Next::Invoke and InvokeAt; after the last entry comes the terminal, or  *)
(* the answer NotHandled.                                                  *)
InvokeNext(t) ==
  /\ Free(t) /\ snapshot[t] # 0
  /\ Invocable(t)
  /\ LET callees == Callees(heap[snapshot[t]])
         called  == [frames[t] EXCEPT ![Len(frames[t])].invoked = TRUE]
         index   == Last(frames[t]).at + 1
     IN  IF index <= Len(callees)
         THEN /\ frames' = [frames EXCEPT ![t] =
                              Append(called, [at |-> index, invoked |-> FALSE])]
              /\ ran' = [ran EXCEPT ![t] = Append(@, callees[index])]
         ELSE frames' = [frames EXCEPT ![t] = called] /\ UNCHANGED ran
  /\ UNCHANGED <<heap, chain, nextHandle, adding, snapshot>>

(* A middleware or the terminal returns to its caller.                     *)
Return(t) ==
  /\ Free(t) /\ Len(frames[t]) > 1
  /\ frames' = [frames EXCEPT ![t] = Front(@)]
  /\ UNCHANGED <<heap, chain, nextHandle, adding, snapshot, ran>>

(* Handle returns.                                                         *)
Finish(t) ==
  /\ Free(t) /\ Len(frames[t]) = 1 /\ frames[t][1].invoked
  /\ snapshot' = [snapshot EXCEPT ![t] = 0]
  /\ frames' = [frames EXCEPT ![t] = <<>>]
  /\ ran' = [ran EXCEPT ![t] = <<>>]
  /\ UNCHANGED <<heap, chain, nextHandle, adding>>

Mutation(t) ==
  \/ TakeHandle(t) \/ Add(t) \/ Clear(t)
  \/ \E h \in Handles : RemoveEntry(t, h)
  \/ \E x \in Terminals \cup {NoTerminal} : SetTerminal(t, x)

Walk(t) == Handle(t) \/ InvokeNext(t) \/ Return(t) \/ Finish(t)

Next == \E t \in Threads : Mutation(t) \/ Walk(t)

Spec == Init /\ [][Next]_vars

-----------------------------------------------------------------------------
(* Requests and mutations are atomic to one another: every request runs    *)
(* the middlewares of one chain, in its order and each at most once, then  *)
(* its terminal, whatever is added or removed meanwhile, by themselves     *)
(* too; no mutation is lost, Clear keeps the terminal, and no two entries  *)
(* share a handle, so that Remove takes out the entry its caller added.    *)
Chain == INSTANCE SnapshotWalk WITH
           Elements <- Handles,
           Ends     <- {<<>>} \cup {<<x>> : x \in Terminals},
           list     <- heap[chain].entries,
           end      <- IF heap[chain].terminal = NoTerminal THEN <<>>
                       ELSE <<heap[chain].terminal>>,
           plan     <- [t \in Threads |-> IF snapshot[t] = 0 THEN <<>>
                                          ELSE Callees(heap[snapshot[t]])],
           walked   <- ran

ImplementsSnapshotWalk == Chain!Spec

=============================================================================
