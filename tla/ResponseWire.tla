---------------------------- MODULE ResponseWire ----------------------------
(***************************************************************************)
(* What one HTTP response looks like on the wire: a head that may change   *)
(* until it is sent, body bytes after it, and one end.  Once it has ended, *)
(* complete or aborted, nothing is sent and nothing ends it again.         *)
(***************************************************************************)
EXTENDS Naturals

VARIABLES phase,   \* head, body, completed or aborted
          status,  \* the status in the head
          sent     \* body bytes sent

vars == <<phase, status, sent>>

Init == phase = "head" /\ sent = 0

EditHead == /\ phase = "head"
            /\ UNCHANGED <<phase, sent>>

(* One call of the facade may send the head, bytes and the end.            *)
Send == /\ phase \in {"head", "body"}
        /\ phase' \in {"body", "completed", "aborted"}
        /\ phase = "body" => UNCHANGED status
        /\ sent' >= sent

Next == EditHead \/ Send

Spec == Init /\ [][Next]_vars
=============================================================================
