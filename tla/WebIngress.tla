------------------------------ MODULE WebIngress ------------------------------
(***************************************************************************)
(* The route handlers that take something in or give a state out:          *)
(* HttpEventIngress (ESPressio_WebEvent.hpp), HttpCommandIngress           *)
(* (ESPressio_WebCommand.hpp) and StateSnapshotHttpHandler with its        *)
(* default representation (ESPressio_WebState.hpp).  An ingress reads a    *)
(* body into a bounded buffer, hands it over, and only then answers; what  *)
(* the platform says of the body, its length, the bytes of a read and its  *)
(* end, need not agree.                                                    *)
(*                                                                         *)
(* SetReceiver may replace the receiver at any time: whether there is one  *)
(* is known once, when the request comes.                                  *)
(***************************************************************************)
EXTENDS Naturals, FiniteSets

CONSTANTS Statuses, DefaultStatus, NoLength,  \* as in HttpResponse
          MaximumBytes,  \* of an event packet, or of a raw command
          ChunkBytes,    \* ReadChunkBytes of an ingress configuration
          PayloadBytes,  \* lengths of an encoded state
          IdSpace,       \* numbers a CommandRequestId has
          MaxOthers      \* bound: ids other requests take while one is taken

VARIABLES response,  \* the HttpResponse answered through
          ingest,    \* the call under way, its locals and what it returned
          handed     \* (history) bodies handed over in this exchange

R == INSTANCE HttpResponse WITH MaxBytes <- 0, MaxSent <- 0, result <- "None", alive <- TRUE

ReadErrors == {"ConnectionFailure"}

Ids == 0..IdSpace - 1

(* counter is _nextRequestId; taken are the ids others took since ours.    *)
IngestType ==
  [pc : {"idle", "id", "again", "read", "handOver", "accept", "snapshot", "done"},
   kind : {"event", "command", "state"}, declared : Nat \cup {NoLength},
   offset : Nat, ended : BOOLEAN, id : Ids, counter : Ids, taken : SUBSET Ids,
   result : ReadErrors \cup {"None", "NotRunning", "RequestTooLarge", "ProtocolError", "NotFound",
                             "ResourceExhausted", "PlatformFailure", "InvalidState"}]

NoIngest == [pc |-> "idle", kind |-> "event", declared |-> NoLength, offset |-> 0, ended |-> FALSE,
             id |-> 0, counter |-> 0, taken |-> {}, result |-> "None"]

-----------------------------------------------------------------------------
(* Definitions named after a mistake ("...Trusting", "...Reused") are the  *)
(* mutants of the definition that follows them; nothing else uses them.    *)

Return(error) == ingest' = [ingest EXCEPT !.pc = "done", !.result = error]

DeclaredLengthError(declared) ==
  IF declared = NoLength THEN "None"
  ELSE IF declared > MaximumBytes THEN "RequestTooLarge"
  ELSE IF declared = 0 THEN "ProtocolError" ELSE "None"

(* Handle of the ingress handlers, for a POST.                             *)
Receive(kind, connected, declared) ==
  LET e == IF kind = "event" /\ ~connected THEN "NotRunning" ELSE DeclaredLengthError(declared)
  IN  \E counter \in IF kind = "command" THEN Ids ELSE {0} :
        ingest' = [NoIngest EXCEPT !.kind = kind, !.declared = declared, !.counter = counter,
                     !.pc = IF e # "None" THEN "done" ELSE IF kind = "command" THEN "id" ELSE "read",
                     !.result = e]

FetchAdd(n) == (n + 1) % IdSpace

(* NextRequestId: one fetch_add, and another if it gave 0.                 *)
TakeId ==
  /\ ingest.pc = "id"
  /\ ingest' = [ingest EXCEPT !.id = ingest.counter, !.counter = FetchAdd(@),
                              !.pc = IF ingest.counter = 0 THEN "again" ELSE "read"]
  /\ UNCHANGED <<response, handed>>

TakeAnotherIdReused ==
  /\ ingest.pc = "again"
  /\ ingest' = [ingest EXCEPT !.id = 1, !.pc = "read"]
  /\ UNCHANGED <<response, handed>>

TakeAnotherId ==
  /\ ingest.pc = "again"
  /\ ingest' = [ingest EXCEPT !.id = ingest.counter, !.counter = FetchAdd(@), !.pc = "read"]
  /\ UNCHANGED <<response, handed>>

(* A fetch_add of another request; those that do not come between the two  *)
(* of this one may as well come when its body has been read.               *)
OthersTakeId ==
  /\ ingest.kind = "command" /\ ingest.pc \in {"again", "handOver"}
  /\ Cardinality(ingest.taken) < MaxOthers
  /\ ingest' = [ingest EXCEPT !.counter = FetchAdd(@), !.taken = @ \cup {ingest.counter}]
  /\ UNCHANGED <<response, handed>>

Smaller(m, n) == IF m < n THEN m ELSE n

(* How many bytes a read is asked for.                                     *)
Capacity ==
  IF ingest.declared = NoLength THEN Smaller(ChunkBytes, MaximumBytes - ingest.offset)
  ELSE ingest.declared - ingest.offset

(* n valid bytes were read, the last ones of the body or not.              *)
AdvanceTrusting(n, last) ==
  ingest' = [ingest EXCEPT !.offset = @ + n, !.ended = last,
                           !.pc = IF last \/ ingest.offset + n = ingest.declared
                                  THEN "handOver" ELSE "read"]

Advance(n, last) ==
  LET offset == ingest.offset + n
      whole  == last /\ ingest.declared \in {offset, NoLength}
      error  == CASE whole -> IF offset = 0 THEN "ProtocolError" ELSE "None"
                  [] ~whole /\ (last \/ n = 0 \/ offset = ingest.declared) -> "ProtocolError"
                  [] OTHER -> "None"
  IN  ingest' = [ingest EXCEPT !.offset = offset, !.ended = last, !.result = error,
                               !.pc = IF error # "None" THEN "done"
                                      ELSE IF whole THEN "handOver" ELSE "read"]

(* ReadPacketBody and ReadCommandBody, one read at a time.                 *)
ReadBody ==
  /\ ingest.pc = "read"
  /\ IF ingest.declared = NoLength /\ ingest.offset >= MaximumBytes
     THEN Return("RequestTooLarge")
     ELSE \/ \E e \in ReadErrors : Return(e)
          \/ Return("ProtocolError")          \* more bytes than the read asked for
          \/ \E n \in 0..Capacity, last \in BOOLEAN : Advance(n, last)
  /\ UNCHANGED <<response, handed>>

(* The receiver gets the packet; the queue may have no room for a command. *)
HandOverRegardless ==
  /\ ingest.pc = "handOver"
  /\ ingest' = [ingest EXCEPT !.pc = "accept"]
  /\ handed' \in {handed, handed + 1}
  /\ UNCHANGED response

HandOver ==
  /\ ingest.pc = "handOver"
  /\ \/ ingest' = [ingest EXCEPT !.pc = "accept"] /\ handed' = handed + 1
     \/ /\ ingest.kind = "command"
        /\ \E e \in {"ResourceExhausted", "PlatformFailure"} : Return(e)
        /\ UNCHANGED handed
  /\ UNCHANGED response

Accept ==
  /\ ingest.pc = "accept"
  /\ \E o \in R!Then(R!Status(response, "Accepted"), LAMBDA r : R!Complete(r)) :
       response' = o.response /\ Return(o.result)
  /\ UNCHANGED handed

-----------------------------------------------------------------------------
(* StateSnapshotHttpHandler, for a GET or HEAD: no snapshot, no memory or  *)
(* nothing the codec can encode; or the status, the headers, and the       *)
(* encoded value.                                                          *)
WriteState(headersOnly, n) ==
  R!Then(R!Status(response, DefaultStatus),
  LAMBDA s : R!Then(R!Header(s),
  LAMBDA h : R!Then(R!Begin(h, n),
  LAMBDA b : R!Then(IF headersOnly THEN R!Returns(b, "None")
                    ELSE {IF o.result = "None" THEN o
                          ELSE [o EXCEPT !.response = R!Abort(@)] : o \in R!Write(b, n)},
  LAMBDA w : R!Complete(w)))))

Snapshot(headersOnly) ==
  /\ ingest.pc = "snapshot"
  /\ \/ /\ \E e \in {"NotFound", "ResourceExhausted", "ProtocolError"} : Return(e)
        /\ UNCHANGED response
     \/ \E n \in PayloadBytes : \E o \in WriteState(headersOnly, n) :
          response' = o.response /\ Return(o.result)
  /\ UNCHANGED handed

Continue == TakeId \/ TakeAnotherId \/ ReadBody \/ HandOver \/ Accept

-----------------------------------------------------------------------------
(* No read is given room beyond the buffer, and what is handed over is the *)
(* whole body: at least a byte, within the limit, as long as declared, and *)
(* the platform has said that it ended there.                              *)
BodyIsWholeAndBounded ==
  /\ ingest.pc = "read" => ingest.offset + Capacity <= MaximumBytes
  /\ ingest.pc = "handOver" => /\ ingest.offset \in 1..MaximumBytes /\ ingest.ended
                               /\ ingest.declared \in {ingest.offset, NoLength}

(* A command handed over has an id that is not 0 and that no request has   *)
(* taken since, although the counter wraps and others take ids meanwhile.  *)
RequestIdIsUsable ==
  ingest.kind = "command" /\ ingest.pc \in {"handOver", "accept"} =>
    ingest.id # 0 /\ ingest.id \notin ingest.taken
=============================================================================
