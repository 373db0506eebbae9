----------------------------- MODULE DnsResponse -----------------------------
(***************************************************************************)
(* DnsResponse (ESPressio_Dns.hpp): the response facade a DNS handler      *)
(* writes through, over a platform whose every call may fail.              *)
(*                                                                         *)
(* A method is an operator from the response before the call to the set of *)
(* its outcomes, as in HttpResponse.                                       *)
(***************************************************************************)
EXTENDS Naturals

CONSTANT Codes  \* response codes handlers set

(* state is _state; wire, code and answers are what the platform was told. *)
ResponseType ==
  [state   : {"Uncommitted", "Building", "Completed", "Aborted"},
   wire    : {"open", "completed", "aborted"},
   code    : Codes \cup {"NoError", "NameError", "unset"},
   answers : Nat]

Fresh == [state |-> "Uncommitted", wire |-> "open", code |-> "unset", answers |-> 0]

Returns(r, error) == {[response |-> r, result |-> error]}

(* Early return on failure: what follows runs on what succeeded.           *)
Then(outcomes, Rest(_)) ==
  {o \in outcomes : o.result # "None"}
    \cup UNION {Rest(o.response) : o \in {p \in outcomes : p.result = "None"}}

(* The platform (IDnsResponsePlatform, outside this library) does what it  *)
(* is told or fails; a call after the end is on record as misuse.          *)
Told(r, after) == [r EXCEPT !.wire = IF @ = "open" THEN after ELSE "misused"]

OrFails(r, told) == Returns(told, "None") \cup Returns(r, "PlatformFailure")

PlatformSetResponseCode(r, c)  == OrFails(r, [Told(r, "open") EXCEPT !.code = c])
PlatformAddAddressAnswer(r)    == OrFails(r, [Told(r, "open") EXCEPT !.answers = @ + 1])
PlatformComplete(r)            == OrFails(r, Told(r, "completed"))
PlatformAbort(r)               == Told(r, "aborted")

-----------------------------------------------------------------------------
(* Definitions named after a mistake ("...Leaking") are the mutants of     *)
(* the definition that follows them; nothing else uses them.               *)
IsCommitted(r) == r.state # "Uncommitted"
IsCompleted(r) == r.state = "Completed"
Ended(r)       == r.state \in {"Completed", "Aborted"}

Code(r, c) ==
  IF Ended(r) THEN Returns(r, "InvalidState")
  ELSE Then(PlatformSetResponseCode(r, c),
            LAMBDA s : Returns([s EXCEPT !.state = "Building"], "None"))

(* What Address and Complete do first: a response without a code is a      *)
(* success.                                                                *)
Committed(r) == IF IsCommitted(r) THEN Returns(r, "None") ELSE Code(r, "NoError")

Address(r) ==
  Then(Committed(r), LAMBDA s : IF s.state # "Building" THEN Returns(s, "InvalidState")
                                ELSE PlatformAddAddressAnswer(s))

Complete(r) ==
  IF r.state = "Completed" THEN Returns(r, "None")
  ELSE IF r.state = "Aborted" THEN Returns(r, "InvalidState")
  ELSE Then(Committed(r),
       LAMBDA s : Then(PlatformComplete(s),
       LAMBDA t : Returns([t EXCEPT !.state = "Completed"], "None")))

Abort(r) == IF Ended(r) THEN r ELSE [PlatformAbort(r) EXCEPT !.state = "Aborted"]

(* ~DnsResponse: a response being built is aborted.                        *)
DestroyedLeaking(r) == r

Destroyed(r) == IF r.state = "Building" THEN Abort(r) ELSE r

=============================================================================
