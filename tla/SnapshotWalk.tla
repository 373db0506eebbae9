----------------------------- MODULE SnapshotWalk -----------------------------
(***************************************************************************)
(* What MiddlewarePipeline and HttpService promise to concurrent requests  *)
(* and mutations: a list of distinct elements that changes by one whole    *)
(* mutation at a time, and for each request a walk of the list as it was   *)
(* when the request came, in order and each element once, that may stop    *)
(* anywhere.                                                               *)
(***************************************************************************)
EXTENDS Naturals, SequencesExt

CONSTANTS Threads,
          Elements,  \* of the list
          Ends       \* what may follow the list: sequences of one or none

VARIABLES list, end,
          plan,      \* per thread, the walk its request began with
          walked     \* per thread, what the walk has visited

vars == <<list, end, plan, walked>>

Init ==
  /\ list = <<>> /\ end = <<>>
  /\ plan = [t \in Threads |-> <<>>]
  /\ walked = [t \in Threads |-> <<>>]

Mutate ==
  /\ \/ \E x \in Elements : /\ \A i \in DOMAIN list : list[i] # x
                            /\ list' = Append(list, x) /\ end' = end
     \/ \E i \in DOMAIN list : list' = RemoveAt(list, i) /\ end' = end
     \/ list' = <<>> /\ end' = end
     \/ list' = list /\ end' \in Ends
  /\ UNCHANGED <<plan, walked>>

Begin(t) ==
  /\ plan' = [plan EXCEPT ![t] = list \o end]
  /\ walked' = [walked EXCEPT ![t] = <<>>]
  /\ UNCHANGED <<list, end>>

Visit(t) ==
  /\ Len(walked[t]) < Len(plan[t])
  /\ walked' = [walked EXCEPT ![t] = Append(@, plan[t][Len(@) + 1])]
  /\ UNCHANGED <<list, end, plan>>

Finish(t) ==
  /\ plan' = [plan EXCEPT ![t] = <<>>]
  /\ walked' = [walked EXCEPT ![t] = <<>>]
  /\ UNCHANGED <<list, end>>

Next == Mutate \/ \E t \in Threads : Begin(t) \/ Visit(t) \/ Finish(t)

Spec == Init /\ [][Next]_vars
=============================================================================
