--------------------------- MODULE ServerLifecycle ---------------------------
(***************************************************************************)
(* What a server facade (HttpServer, DnsServer) promises about its state,  *)
(* without its platform, its mutex or its callbacks: a lifecycle operation *)
(* takes the server into a transient state, from then on it alone decides  *)
(* how that state ends, and every change follows one of a few edges.       *)
(***************************************************************************)
CONSTANTS Threads,  \* the threads that may drive the lifecycle
          NoThread  \* nobody drives it

VARIABLES state,    \* the facade's state
          owner     \* the thread whose operation is under way

vars == <<state, owner>>

Stable    == {"Stopped", "Ready", "Running", "Faulted"}
Transient == {"Initializing", "Starting", "Stopping"}
States    == Stable \cup Transient

(* The transient state each operation enters, and from where.             *)
Entries == {"Stopped", "Ready", "Faulted"} \X {"Initializing"}
             \cup {<<"Ready", "Starting">>, <<"Running", "Stopping">>}

(* How each operation ends: the success state, or Faulted.                *)
Exits == {<<"Initializing", "Ready">>, <<"Starting", "Running">>,
          <<"Stopping", "Stopped">>}
           \cup (Transient \X {"Faulted"})

(* Stopping a server that does not run ends at once.                      *)
Discards == {"Ready", "Faulted"} \X {"Stopped"}

Init == state = "Stopped" /\ owner = NoThread

Begin(t) == /\ owner = NoThread
            /\ \E next \in Transient : <<state, next>> \in Entries /\ state' = next
            /\ owner' = t

Finish(t) == /\ owner = t
             /\ \E next \in Stable : <<state, next>> \in Exits /\ state' = next
             /\ owner' = NoThread

Discard == /\ owner = NoThread
           /\ <<state, "Stopped">> \in Discards
           /\ state' = "Stopped"
           /\ UNCHANGED owner

Next == Discard \/ \E t \in Threads : Begin(t) \/ Finish(t)

Spec == Init /\ [][Next]_vars

FairSpec == Spec /\ \A t \in Threads : WF_vars(Finish(t))

=============================================================================
