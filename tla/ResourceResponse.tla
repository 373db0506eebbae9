--------------------------- MODULE ResourceResponse ---------------------------
(***************************************************************************)
(* WriteWebResourceResponse (ESPressio_Resources.hpp): one resource sent   *)
(* through an HttpResponse, size first and then chunk by chunk, from a     *)
(* provider whose every call may fail and whose resource may change        *)
(* between the call that gives its size and the reads of its bytes.        *)
(***************************************************************************)
EXTENDS Naturals

CONSTANTS Statuses, DefaultStatus, NoLength,  \* as in HttpResponse
          Sizes,           \* sizes a provider reports
          MaximumSize,     \* std::numeric_limits<std::size_t>::max()
          ReadChunkBytes   \* of the ResourceResponseConfiguration

VARIABLES response,  \* the HttpResponse written to
          job,       \* the call under way: its locals, what it returned and, for
                     \* the properties, how often it asked the provider to read
          before     \* the response when the call was made

R == INSTANCE HttpResponse
       WITH MaxBytes <- ReadChunkBytes, MaxSent <- 0, result <- "None", alive <- TRUE

ProviderErrors == {"NotFound", "PlatformFailure"}
Results == ProviderErrors \cup {"None", "InvalidState", "InvalidConfiguration",
                                "ResourceExhausted", "ProtocolError"}

JobType == [pc : {"idle", "open", "stat", "head", "read", "complete", "done"},
            headersOnly : BOOLEAN, size : Sizes \cup {0}, offset : Nat,
            reads : Nat, result : Results]

NoJob == [pc |-> "idle", headersOnly |-> FALSE, size |-> 0, offset |-> 0,
          reads |-> 0, result |-> "None"]

-----------------------------------------------------------------------------
(* Definitions named after a mistake ("...Silently", "...EndingShort") are *)
(* the mutants of the definition that follows them; nothing else uses them.*)

Goto(pc) == job' = [job EXCEPT !.pc = pc]

Return(error) == job' = [job EXCEPT !.pc = "done", !.result = error]

(* The call: an unsafe path or a chunk of no bytes is refused at once.     *)
Call(headersOnly, safe) ==
  /\ job.pc = "idle"
  /\ before' = response
  /\ job' = IF ~safe \/ ReadChunkBytes = 0
              THEN [NoJob EXCEPT !.pc = "done", !.result = "InvalidConfiguration"]
              ELSE [NoJob EXCEPT !.pc = IF headersOnly THEN "stat" ELSE "open",
                                 !.headersOnly = headersOnly]
  /\ UNCHANGED response

Sized(size) == job' = [job EXCEPT !.size = size, !.pc = "head"]

(* The size comes from an opened stream, or from Stat when the provider    *)
(* has no streams; a stream that is null although OpenRead succeeded is a  *)
(* failure of the platform.                                                *)
OpenRead ==
  /\ job.pc = "open"
  /\ \/ \E size \in Sizes : Sized(size)
     \/ Goto("stat")
     \/ \E e \in ProviderErrors : Return(e)
  /\ UNCHANGED <<response, before>>

(* A directory is not found.                                               *)
Stat ==
  /\ job.pc = "stat"
  /\ \/ \E size \in Sizes : Sized(size)
     \/ \E e \in ProviderErrors : Return(e)
  /\ UNCHANGED <<response, before>>

(* The calls on the response that follow one another without a read.       *)
Respond(outcomes, next) ==
  \E o \in outcomes :
    /\ response' = o.response
    /\ IF o.result = "None" THEN next ELSE Return(o.result)

SendHead ==
  /\ job.pc = "head"
  /\ IF job.size > MaximumSize
       THEN Return("ResourceExhausted") /\ UNCHANGED response
       ELSE Respond(R!Then(R!Header(response), LAMBDA s : R!Begin(s, job.size)),
                    Goto(IF job.headersOnly \/ job.size = 0 THEN "complete" ELSE "read"))
  /\ UNCHANGED before

Smaller(m, n) == IF m < n THEN m ELSE n

Requested == Smaller(job.size - job.offset, ReadChunkBytes)

FailSilently(error) ==
  /\ UNCHANGED response
  /\ job' = [job EXCEPT !.pc = "done", !.result = error, !.reads = @ + 1]

Fail(error) ==
  /\ response' = R!Abort(response)
  /\ job' = [job EXCEPT !.pc = "done", !.result = error, !.reads = @ + 1]

(* A provider may return fewer bytes than requested, or claim to have      *)
(* returned more, which is as wrong as returning none.                     *)
CountIsTrusted(n) == n > 0

CountIsValid(n) == n > 0 /\ n <= Requested

WriteChunkEndingShort(n) ==
  \E o \in R!Write(response, n) :
    /\ response' = o.response
    /\ job' = [job EXCEPT !.offset = @ + n, !.reads = @ + 1,
                          !.pc = IF n = ReadChunkBytes THEN "read" ELSE "complete"]

WriteChunk(n) ==
  \E o \in R!Write(response, n) :
    IF o.result = "None"
      THEN /\ response' = o.response
           /\ job' = [job EXCEPT !.offset = @ + n, !.reads = @ + 1,
                                 !.pc = IF job.offset + n < job.size THEN "read" ELSE "complete"]
      ELSE /\ response' = R!Abort(o.response)
           /\ job' = [job EXCEPT !.pc = "done", !.result = o.result, !.reads = @ + 1]

Read ==
  /\ job.pc = "read"
  /\ \/ \E e \in ProviderErrors : Fail(e)
     \/ \E n \in 0..(ReadChunkBytes + 1) :
          IF CountIsValid(n) THEN WriteChunk(n) ELSE Fail("ProtocolError")
  /\ UNCHANGED before

CompleteResponse ==
  /\ job.pc = "complete"
  /\ Respond(R!Complete(response), Return("None"))
  /\ UNCHANGED before

Continue == OpenRead \/ Stat \/ SendHead \/ Read \/ CompleteResponse

-----------------------------------------------------------------------------
Fails == job.pc = "done" /\ job.result # "None"

(* No more bytes than declared ever follow a head this call sent, although *)
(* neither the provider nor the platform is trusted to count; the offset   *)
(* never passes the size, so that size - offset does not wrap; and the     *)
(* loop ends, for it asks the provider at most once per byte.              *)
NeverOverruns ==
  /\ job.offset <= job.size
  /\ job.reads <= job.size
  /\ job.pc # "idle" /\ ~R!IsCommitted(before) /\ response.declared # NoLength =>
       response.sent <= response.declared

(* Success means that the client has the resource: its size declared, all  *)
(* its bytes (none for HEAD) and the end, with the status set before.      *)
SuccessIsWhole ==
  job.pc = "done" /\ job.result = "None" =>
    /\ response.wire = "completed"
    /\ response.declared = job.size
    /\ response.sent = IF job.headersOnly THEN 0 ELSE job.size
    /\ response.status = before.status

(* Failure leaves a response that still takes an error page, or one that   *)
(* the client can tell from a whole one: aborted, or lacking only its end. *)
(* A response that another handler began before is not disturbed: no byte  *)
(* of the resource follows that handler's bytes, it is not ended either,   *)
(* and the call does not succeed.                                          *)
FailureIsVisible ==
  /\ Fails /\ ~R!IsCommitted(before) =>
       \/ response.wire = "head" /\ response.sent = 0
       \/ response.wire = "aborted"
       \/ response.wire = "body" /\ response.sent = IF job.headersOnly THEN 0 ELSE job.size
  /\ job.pc # "idle" /\ R!IsCommitted(before) =>
       response = before /\ (job.pc = "done" => job.result # "None")
=============================================================================
