------------------------------ MODULE HttpService ------------------------------
(***************************************************************************)
(* HttpService (ESPressio_HttpService.hpp): each request asks the          *)
(* providers of the set it found, in order, until one handles it or fails, *)
(* while application threads and the providers themselves add, remove and  *)
(* clear. Sets are published by replacing a shared pointer.                *)
(*                                                                         *)
(* The heap holds every set published and the shared pointers are indices  *)
(* into it. A provider is identified with the handle of its entry.         *)
(***************************************************************************)
EXTENDS Naturals, SequencesExt

CONSTANTS Threads,
          MaxHandles,  \* bound: providers ever added
          MaxSets      \* bound: sets published by other calls than AddProvider

ASSUME ServiceAssumption == MaxHandles \in Nat /\ MaxSets \in Nat \ {0}

VARIABLES
  heap,        \* provider sets, the published and the superseded
  providers,   \* _providers
  nextHandle,  \* _nextHandle
  adding,      \* per thread, the handle its AddProvider has taken, or 0
  pc,          \* per thread: idle, asking, selecting, handling, returning
  snapshot,    \* per thread, the set its request walks, or 0
  asked,       \* per thread, the providers it has asked
  answers,     \* per thread, what they answered (history)
  result       \* per thread, what Handle returns

walkVars == <<pc, snapshot, asked, answers, result>>
vars     == <<heap, providers, nextHandle, adding, walkVars>>

Handles == 1..MaxHandles
Answers == {"unwilling", "declined", "handled", "failed"}
Results == {"none", "notHandled", "handled", "failed"}

(* Every variable has its type, and pointers point into the heap.          *)
TypeOK ==
  /\ heap \in Seq(Seq(Handles)) /\ providers \in DOMAIN heap
  /\ nextHandle \in 1..(MaxHandles + 1)
  /\ adding \in [Threads -> 0..MaxHandles]
  /\ pc \in [Threads -> {"idle", "asking", "selecting", "handling", "returning"}]
  /\ snapshot \in [Threads -> DOMAIN heap \cup {0}]
  /\ asked \in [Threads -> Seq(Handles)]
  /\ answers \in [Threads -> Seq(Answers)]
  /\ result \in [Threads -> Results]

(* Definitions named after a mistake ("...InPlace", "...Skipped") are the   *)
(* mutants of the definition that follows them; nothing else uses them.     *)

FirstHandle == 1

Init ==
  /\ heap = <<<<>>>>
  /\ providers = 1
  /\ nextHandle = FirstHandle
  /\ adding = [t \in Threads |-> 0]
  /\ pc = [t \in Threads |-> "idle"]
  /\ snapshot = [t \in Threads |-> 0]
  /\ asked = [t \in Threads |-> <<>>]
  /\ answers = [t \in Threads |-> <<>>]
  /\ result = [t \in Threads |-> "none"]

-----------------------------------------------------------------------------
PublishInPlace(set) ==
  /\ heap' = [heap EXCEPT ![providers] = set]
  /\ UNCHANGED providers

(* A mutation publishes a new set; walks under way keep theirs.            *)
Publish(set) ==
  /\ heap' = Append(heap, set)
  /\ providers' = Len(heap) + 1

(* The application calls, or the provider that runs on t.                  *)
Free(t) == adding[t] = 0 /\ pc[t] \in {"idle", "selecting", "handling"}

Room == Len(heap) < MaxSets

NewHandleFromSize == Len(heap[providers]) + 1

NewHandle == nextHandle

(* AddProvider takes its handle before the lock.                           *)
TakeHandle(t) ==
  /\ Free(t) /\ nextHandle <= MaxHandles
  /\ adding' = [adding EXCEPT ![t] = NewHandle]
  /\ nextHandle' = nextHandle + 1
  /\ UNCHANGED <<heap, providers, walkVars>>

AddProvider(t) ==
  /\ adding[t] # 0
  /\ Publish(Append(heap[providers], adding[t]))
  /\ adding' = [adding EXCEPT ![t] = 0]
  /\ UNCHANGED <<nextHandle, walkVars>>

RemoveProvider(t, h) ==
  /\ Free(t) /\ Room
  /\ Contains(heap[providers], h)
  /\ Publish(RemoveFirst(heap[providers], h))
  /\ UNCHANGED <<nextHandle, adding, walkVars>>

ClearProviders(t) ==
  /\ Free(t) /\ Room
  /\ Publish(<<>>)
  /\ UNCHANGED <<nextHandle, adding, walkVars>>

-----------------------------------------------------------------------------
Handle(t) ==
  /\ Free(t) /\ pc[t] = "idle"
  /\ pc' = [pc EXCEPT ![t] = "asking"]
  /\ snapshot' = [snapshot EXCEPT ![t] = providers]
  /\ UNCHANGED <<heap, providers, nextHandle, adding, asked, answers, result>>

(* The loop asks the next provider of the set, which may take its time.    *)
Ask(t) ==
  /\ pc[t] = "asking"
  /\ LET set == heap[snapshot[t]] IN
       IF Len(asked[t]) < Len(set)
       THEN /\ asked' = [asked EXCEPT ![t] = Append(@, set[Len(@) + 1])]
            /\ pc' = [pc EXCEPT ![t] = "selecting"]
            /\ UNCHANGED result
       ELSE /\ result' = [result EXCEPT ![t] = "notHandled"]
            /\ pc' = [pc EXCEPT ![t] = "returning"]
            /\ UNCHANGED asked
  /\ UNCHANGED <<heap, providers, nextHandle, adding, snapshot, answers>>

(* The provider answers, and the loop goes on or Handle returns.           *)
Record(t, answer) ==
  /\ answers' = [answers EXCEPT ![t] = Append(@, answer)]
  /\ UNCHANGED <<heap, providers, nextHandle, adding, snapshot, asked>>

GoOn(t, answer) ==
  /\ Record(t, answer)
  /\ pc' = [pc EXCEPT ![t] = "asking"]
  /\ UNCHANGED result

Settle(t, answer) ==
  /\ Record(t, answer)
  /\ pc' = [pc EXCEPT ![t] = "returning"]
  /\ result' = [result EXCEPT ![t] = answer]

SelectedFailureSkipped(t) == GoOn(t, "unwilling") \/ GoOn(t, "failed")

Selected(t) == GoOn(t, "unwilling") \/ Settle(t, "failed")

(* CanHandle returns: unwilling, willing or failed.                        *)
CanHandle(t) ==
  /\ Free(t) /\ pc[t] = "selecting"
  /\ \/ Selected(t)
     \/ /\ pc' = [pc EXCEPT ![t] = "handling"]
        /\ UNCHANGED <<heap, providers, nextHandle, adding, snapshot, asked, answers, result>>

(* The willing provider's Handle returns; it may yet decline.              *)
ProviderHandles(t) ==
  /\ Free(t) /\ pc[t] = "handling"
  /\ GoOn(t, "declined") \/ Settle(t, "handled") \/ Settle(t, "failed")

Return(t) ==
  /\ pc[t] = "returning"
  /\ pc' = [pc EXCEPT ![t] = "idle"]
  /\ snapshot' = [snapshot EXCEPT ![t] = 0]
  /\ asked' = [asked EXCEPT ![t] = <<>>]
  /\ answers' = [answers EXCEPT ![t] = <<>>]
  /\ result' = [result EXCEPT ![t] = "none"]
  /\ UNCHANGED <<heap, providers, nextHandle, adding>>

Mutation(t) ==
  \/ TakeHandle(t) \/ AddProvider(t) \/ ClearProviders(t)
  \/ \E h \in Handles : RemoveProvider(t, h)

Walk(t) == Handle(t) \/ Ask(t) \/ CanHandle(t) \/ ProviderHandles(t) \/ Return(t)

Next == \E t \in Threads : Mutation(t) \/ Walk(t)

Spec == Init /\ [][Next]_vars

-----------------------------------------------------------------------------
(* Requests and mutations are atomic to one another: each request asks the *)
(* providers of one set, in order and each at most once; no mutation is    *)
(* lost, and no two entries share a handle, so that RemoveProvider takes   *)
(* out the entry its caller added.                                         *)
Providers == INSTANCE SnapshotWalk WITH
               Elements <- Handles,
               Ends     <- {<<>>},
               list     <- heap[providers],
               end      <- <<>>,
               plan     <- [t \in Threads |-> IF snapshot[t] = 0 THEN <<>>
                                              ELSE heap[snapshot[t]]],
               walked   <- asked

ImplementsSnapshotWalk == Providers!Spec

TurnedDown(t) == \A i \in DOMAIN answers[t] : answers[t][i] \in {"unwilling", "declined"}

Verdict(t) ==
  CASE result[t] = "none"       -> TurnedDown(t)
    [] result[t] = "notHandled" -> TurnedDown(t) /\ Len(answers[t]) = Len(heap[snapshot[t]])
    [] OTHER                    -> /\ answers[t] # <<>>
                                   /\ result[t] = Last(answers[t])
                                   /\ \A i \in 1..(Len(answers[t]) - 1) :
                                        answers[t][i] \in {"unwilling", "declined"}

(* Only a request that every provider of its set turned down is reported   *)
(* as not handled, so that the caller's fallback never answers a request   *)
(* that a provider handled or failed; a failure is never passed on to the  *)
(* next provider and is the result.                                        *)
ResultIsTheAnswer == \A t \in Threads : Verdict(t)

=============================================================================
