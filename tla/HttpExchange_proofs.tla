-------------------------- MODULE HttpExchange_proofs --------------------------
(***************************************************************************)
(* Proofs about one response and one exchange, for resources, bodies and   *)
(* chunks of any size, any statuses and any errors of handlers.            *)
(***************************************************************************)
EXTENDS HttpExchange, FiniteSets, FiniteSetTheorems, TLAPS

(* What is known of a response that only HttpResponse's methods have used: *)
(* its fields, and that the state and the wire agree.                      *)
States     == {"Uncommitted", "Streaming", "Completed", "Aborted"}
Phases     == {"head", "body", "completed", "aborted"}
LengthType == Nat \cup {NoLength}
StatusType == Statuses \cup {DefaultStatus, MappedStatus, "Accepted"}
                \cup {StatusFor(e) : e \in Errors}

ResponseType == [state : States, wire : Phases, status : StatusType,
                 declared : LengthType, sent : Nat]

Is(r, state, wire, status, declared, sent) ==
  /\ r \in ResponseType
  /\ r.state = state /\ r.wire = wire /\ r.status = status
  /\ r.declared = declared /\ r.sent = sent

Sound(r) ==
  /\ r \in ResponseType
  /\ r.state = "Uncommitted" => r.wire = "head" /\ r.declared = NoLength /\ r.sent = 0
  /\ r.state = "Streaming" => r.wire = "body"
  /\ r.state = "Completed" => r.wire = "completed"
  /\ r.state = "Aborted" => r.wire = "aborted"


Untouched(o, r) == o.response = r /\ o.result \in R!Errors

-----------------------------------------------------------------------------
(* What each method of HttpResponse leaves of a sound response.            *)

LEMMA Fields ==
  ASSUME NEW r, NEW state, NEW wire, NEW status, NEW declared, NEW sent,
         Is(r, state, wire, status, declared, sent)
  PROVE  /\ \A x \in States : Is([r EXCEPT !.state = x], x, wire, status, declared, sent)
         /\ \A x \in Phases : Is([r EXCEPT !.wire = x], state, x, status, declared, sent)
         /\ \A x \in StatusType : Is([r EXCEPT !.status = x], state, wire, x, declared, sent)
         /\ \A x \in LengthType : Is([r EXCEPT !.declared = x], state, wire, status, x, sent)
         /\ \A x \in Nat : Is([r EXCEPT !.sent = x], state, wire, status, declared, x)
  BY DEF Is, ResponseType

LEMMA IsSound ==
  ASSUME NEW r, Sound(r)
  PROVE  /\ r \in ResponseType
         /\ r.state \in States /\ r.status \in StatusType /\ r.declared \in LengthType /\ r.sent \in Nat
         /\ r.state = "Uncommitted" => Is(r, "Uncommitted", "head", r.status, NoLength, 0)
         /\ r.state = "Streaming" => Is(r, "Streaming", "body", r.status, r.declared, r.sent)
         /\ r.state = "Completed" => Is(r, "Completed", "completed", r.status, r.declared, r.sent)
         /\ r.state = "Aborted" => Is(r, "Aborted", "aborted", r.status, r.declared, r.sent)
  BY DEF Sound, Is, ResponseType

LEMMA SoundIs ==
  ASSUME NEW r, NEW status, NEW declared, NEW sent,
         \/ Is(r, "Uncommitted", "head", status, NoLength, 0)
         \/ Is(r, "Streaming", "body", status, declared, sent)
         \/ Is(r, "Completed", "completed", status, declared, sent)
         \/ Is(r, "Aborted", "aborted", status, declared, sent)
  PROVE  Sound(r)
  BY DEF Sound, Is

LEMMA ToldInOrder ==
  ASSUME NEW r, NEW state, NEW wire, NEW status, NEW declared, NEW sent,
         Is(r, state, wire, status, declared, sent),
         NEW phases, wire \in phases, NEW after \in Phases
  PROVE  Is(R!Told(r, phases, after), state, after, status, declared, sent)
  <1>1. r.wire = wire  BY DEF Is
  <1>2. R!Told(r, phases, after) = [r EXCEPT !.wire = after]  BY <1>1 DEF R!Told
  <1> QED  BY <1>2, Fields

LEMMA PlatformWrites ==
  ASSUME NEW r, NEW status, NEW declared, NEW sent \in Nat, NEW n \in Nat,
         Is(r, "Streaming", "body", status, declared, sent),
         NEW o \in R!PlatformWrite(r, n)
  PROVE  /\ o.result \in {"None", "PlatformFailure"}
         /\ \E k \in 0..n : /\ Is(o.response, "Streaming", "body", status, declared, sent + k)
                            /\ o.result = "None" => k = n
  <1> DEFINE t == R!Told(r, {"body"}, "body")
  <1>1. Is(t, "Streaming", "body", status, declared, sent)  BY ToldInOrder DEF Phases
  <1>2. t.sent = sent  BY <1>1 DEF Is
  <1>3. \A k \in Nat : Is([t EXCEPT !.sent = @ + k], "Streaming", "body", status, declared, sent + k)
    <2> SUFFICES ASSUME NEW k \in Nat
                 PROVE  Is([t EXCEPT !.sent = @ + k], "Streaming", "body", status, declared, sent + k)
      OBVIOUS
    <2>1. [t EXCEPT !.sent = @ + k] = [t EXCEPT !.sent = sent + k]  BY <1>2
    <2>2. sent + k \in Nat  OBVIOUS
    <2> HIDE DEF t
    <2> QED  BY <1>1, <2>1, <2>2, Fields
  <1>4. CASE o = R!Outcome([t EXCEPT !.sent = @ + n], "None")
    <2>1. o.result = "None" /\ o.response = [t EXCEPT !.sent = @ + n]  BY <1>4 DEF R!Outcome
    <2>2. n \in 0..n  OBVIOUS
    <2> HIDE DEF t
    <2> QED  BY <1>3, <2>1, <2>2
  <1>5. ASSUME NEW k \in 0..n, o = R!Outcome([t EXCEPT !.sent = @ + k], "PlatformFailure")
        PROVE  /\ o.result = "PlatformFailure"
               /\ Is(o.response, "Streaming", "body", status, declared, sent + k)
    <2>1. o.result = "PlatformFailure" /\ o.response = [t EXCEPT !.sent = @ + k]
      BY <1>5 DEF R!Outcome
    <2>2. k \in Nat  OBVIOUS
    <2> HIDE DEF t
    <2> QED  BY <1>3, <2>1, <2>2
  <1>6. \/ o = R!Outcome([t EXCEPT !.sent = @ + n], "None")
        \/ \E k \in 0..n : o = R!Outcome([t EXCEPT !.sent = @ + k], "PlatformFailure")
    BY DEF R!PlatformWrite, R!Returns
  <1> HIDE DEF t
  <1> QED  BY <1>4, <1>5, <1>6

LEMMA StatusSets ==
  ASSUME NEW r, Sound(r), NEW status \in StatusType, NEW o \in R!Status(r, status)
  PROVE  \/ Untouched(o, r)
         \/ /\ o.result = "None" /\ r.state = "Uncommitted"
            /\ Is(o.response, "Uncommitted", "head", status, NoLength, 0)
  <1>1. CASE R!IsCommitted(r)
    BY <1>1 DEF Untouched, R!Status, R!Returns, R!Outcome, R!Errors
  <1>2. CASE ~R!IsCommitted(r)
    <2>1. Is(r, "Uncommitted", "head", r.status, NoLength, 0)  BY <1>2, IsSound DEF R!IsCommitted
    <2>2. Is(R!Told(r, {"head"}, "head"), "Uncommitted", "head", r.status, NoLength, 0)
      BY <2>1, ToldInOrder DEF Phases
    <2>3. Is([R!Told(r, {"head"}, "head") EXCEPT !.status = status],
             "Uncommitted", "head", status, NoLength, 0)
      BY <2>2, Fields
    <2>4. \/ o = R!Outcome([R!Told(r, {"head"}, "head") EXCEPT !.status = status], "None")
          \/ o = R!Outcome(r, "PlatformFailure")
      BY <1>2 DEF R!Status, R!PlatformSetStatus, R!Returns
    <2> QED  BY <2>3, <2>4, <1>2 DEF R!Outcome, Untouched, R!IsCommitted, R!Errors
  <1> QED  BY <1>1, <1>2

LEMMA HeaderSets ==
  ASSUME NEW r, Sound(r), NEW o \in R!Header(r)
  PROVE  \/ Untouched(o, r)
         \/ /\ o.result = "None" /\ r.state = "Uncommitted"
            /\ Is(o.response, "Uncommitted", "head", r.status, NoLength, 0)
  <1>1. CASE R!IsCommitted(r)
    BY <1>1 DEF Untouched, R!Header, R!Returns, R!Outcome, R!Errors
  <1>2. CASE ~R!IsCommitted(r)
    <2>1. Is(r, "Uncommitted", "head", r.status, NoLength, 0)  BY <1>2, IsSound DEF R!IsCommitted
    <2>2. Is(R!Told(r, {"head"}, "head"), "Uncommitted", "head", r.status, NoLength, 0)
      BY <2>1, ToldInOrder DEF Phases
    <2>4. \/ o = R!Outcome(R!Told(r, {"head"}, "head"), "None")
          \/ o = R!Outcome(r, "PlatformFailure")
      BY <1>2 DEF R!Header, R!PlatformSetHeader, R!Returns
    <2> QED  BY <2>2, <2>4, <1>2 DEF R!Outcome, Untouched, R!IsCommitted, R!Errors
  <1> QED  BY <1>1, <1>2

LEMMA BeginBegins ==
  ASSUME NEW r, Sound(r), NEW n \in LengthType, NEW o \in R!Begin(r, n)
  PROVE  \/ Untouched(o, r)
         \/ /\ o.result = "None" /\ r.state = "Uncommitted"
            /\ Is(o.response, "Streaming", "body", r.status, n, 0)
  <1>1. CASE R!IsCommitted(r)
    BY <1>1 DEF Untouched, R!Begin, R!Then, R!Returns, R!Outcome, R!Errors
  <1>2. CASE ~R!IsCommitted(r)
    <2> DEFINE t == [R!Told(r, {"head"}, "body") EXCEPT !.declared = n]
    <2>1. Is(r, "Uncommitted", "head", r.status, NoLength, 0)  BY <1>2, IsSound DEF R!IsCommitted
    <2>2. Is(R!Told(r, {"head"}, "body"), "Uncommitted", "body", r.status, NoLength, 0)
      BY <2>1, ToldInOrder DEF Phases
    <2>3. Is(t, "Uncommitted", "body", r.status, n, 0)  BY <2>2, Fields
    <2>4. Is([t EXCEPT !.state = "Streaming"], "Streaming", "body", r.status, n, 0)
      <3> HIDE DEF t
      <3> QED  BY <2>3, Fields DEF States
    <2>5. \/ o.result # "None" /\ o \in R!PlatformBegin(r, n)
          \/ \E p \in R!PlatformBegin(r, n) :
               /\ p.result = "None"
               /\ o = R!Outcome([p.response EXCEPT !.state = "Streaming"], "None")
      BY <1>2 DEF R!Begin, R!Then, R!Returns
    <2>6. \A p \in R!PlatformBegin(r, n) :
            \/ p = R!Outcome(t, "None")
            \/ p = R!Outcome(r, "PlatformFailure")
      BY DEF R!PlatformBegin, R!Returns
    <2> HIDE DEF t
    <2>7. \A p \in R!PlatformBegin(r, n) :
            \/ p.result = "None" /\ p.response = t
            \/ p.result = "PlatformFailure" /\ p.response = r
      BY <2>6 DEF R!Outcome
    <2>8. CASE o.result # "None" /\ o \in R!PlatformBegin(r, n)
      BY <2>7, <2>8 DEF Untouched, R!Errors
    <2>9. ASSUME NEW p \in R!PlatformBegin(r, n), p.result = "None",
                 o = R!Outcome([p.response EXCEPT !.state = "Streaming"], "None")
          PROVE  o.result = "None" /\ Is(o.response, "Streaming", "body", r.status, n, 0)
      <3>1. p.response = t  BY <2>7, <2>9
      <3>2. o.result = "None" /\ o.response = [t EXCEPT !.state = "Streaming"]
        BY <2>9, <3>1 DEF R!Outcome
      <3> QED  BY <3>2, <2>4
    <2> QED  BY <2>5, <2>8, <2>9, <1>2 DEF R!IsCommitted
  <1> QED  BY <1>1, <1>2

LEMMA WriteWrites ==
  ASSUME NEW r, Sound(r), NEW n \in Nat, NEW o \in R!Write(r, n)
  PROVE  \/ /\ o.response = r /\ o.result \in R!Errors \cup {"None"}
            /\ o.result = "None" => n = 0
         \/ /\ r.state \in {"Uncommitted", "Streaming"} /\ o.result \in R!Errors \cup {"None"}
            /\ \E k \in 0..n : /\ Is(o.response, "Streaming", "body", r.status, r.declared, r.sent + k)
                               /\ o.result = "None" => k = n
  <1> DEFINE Rest(s) == IF s.state # "Streaming" THEN R!Returns(s, "InvalidState")
                        ELSE R!PlatformWrite(s, n)
  <1>1. CASE n = 0
    BY <1>1 DEF R!Write, R!Then, R!Returns, R!Outcome
  <1>2. CASE n # 0 /\ R!IsCommitted(r)
    <2>1. o \in Rest(r)  BY <1>2 DEF R!Write, R!Then, R!Returns, R!Outcome
    <2>2. CASE r.state # "Streaming"
      BY <2>1, <2>2 DEF R!Returns, R!Outcome, R!Errors
    <2>3. CASE r.state = "Streaming"
      <3>1. Is(r, "Streaming", "body", r.status, r.declared, r.sent)  BY <2>3, IsSound
      <3>2. o \in R!PlatformWrite(r, n)  BY <2>1, <2>3
      <3>3. r.sent \in Nat  BY IsSound
      <3>4. /\ o.result \in {"None", "PlatformFailure"}
            /\ \E k \in 0..n : /\ Is(o.response, "Streaming", "body", r.status, r.declared, r.sent + k)
                               /\ o.result = "None" => k = n
        BY <3>1, <3>2, <3>3, PlatformWrites
      <3> QED  BY <3>4, <2>3 DEF R!Errors
    <2> QED  BY <2>2, <2>3
  <1>3. CASE n # 0 /\ ~R!IsCommitted(r)
    <2>1. Is(r, "Uncommitted", "head", r.status, NoLength, 0)  BY <1>3, IsSound DEF R!IsCommitted
    <2>2. \/ o.result # "None" /\ o \in R!Begin(r, NoLength)
          \/ \E p \in R!Begin(r, NoLength) : p.result = "None" /\ o \in Rest(p.response)
      BY <1>3 DEF R!Write, R!Then
    <2>3. CASE o.result # "None" /\ o \in R!Begin(r, NoLength)
      BY <2>3, BeginBegins DEF LengthType, Untouched
    <2>4. ASSUME NEW p \in R!Begin(r, NoLength), p.result = "None", o \in Rest(p.response)
          PROVE  /\ o.result \in {"None", "PlatformFailure"}
                 /\ \E k \in 0..n : /\ Is(o.response, "Streaming", "body", r.status, NoLength, 0 + k)
                                    /\ o.result = "None" => k = n
      <3>1. Is(p.response, "Streaming", "body", r.status, NoLength, 0)
        BY <2>4, BeginBegins DEF LengthType, Untouched, R!Errors
      <3>2. o \in R!PlatformWrite(p.response, n)  BY <2>4, <3>1 DEF Is
      <3> QED  BY <3>1, <3>2, PlatformWrites
    <2>5. r.declared = NoLength /\ r.sent = 0 /\ r.state = "Uncommitted"  BY <2>1 DEF Is
    <2> HIDE DEF Rest
    <2> QED  BY <2>2, <2>3, <2>4, <2>5 DEF R!Errors
  <1> QED  BY <1>1, <1>2, <1>3

LEMMA CompleteCompletes ==
  ASSUME NEW r, Sound(r), NEW o \in R!Complete(r)
  PROVE  \/ /\ o.response = r /\ o.result \in R!Errors \cup {"None"}
            /\ o.result = "None" => r.state = "Completed"
         \/ /\ o.result = "PlatformFailure" /\ r.state = "Uncommitted"
            /\ Is(o.response, "Streaming", "body", r.status, 0, 0)
         \/ /\ o.result = "None" /\ r.state = "Uncommitted"
            /\ Is(o.response, "Completed", "completed", r.status, 0, 0)
         \/ /\ o.result = "None" /\ r.state = "Streaming"
            /\ Is(o.response, "Completed", "completed", r.status, r.declared, r.sent)
  <1> DEFINE End(s) == R!Then(R!PlatformComplete(s),
                              LAMBDA t : R!Returns([t EXCEPT !.state = "Completed"], "None"))
  <1>0. ASSUME NEW s, NEW declared, NEW sent, Is(s, "Streaming", "body", r.status, declared, sent),
               NEW e \in End(s)
        PROVE  \/ e.result = "PlatformFailure" /\ e.response = s
               \/ /\ e.result = "None"
                  /\ Is(e.response, "Completed", "completed", r.status, declared, sent)
    <2> DEFINE t == R!Told(s, {"body"}, "completed")
    <2>1. Is(t, "Streaming", "completed", r.status, declared, sent)  BY <1>0, ToldInOrder DEF Phases
    <2>2. Is([t EXCEPT !.state = "Completed"], "Completed", "completed", r.status, declared, sent)
      <3> HIDE DEF t
      <3> QED  BY <2>1, Fields DEF States
    <2>3. \A p \in R!PlatformComplete(s) :
            \/ p.result = "None" /\ p.response = t
            \/ p.result = "PlatformFailure" /\ p.response = s
      <3>1. \A p \in R!PlatformComplete(s) :
              p = R!Outcome(t, "None") \/ p = R!Outcome(s, "PlatformFailure")
        BY DEF R!PlatformComplete, R!Returns
      <3> HIDE DEF t
      <3> QED  BY <3>1 DEF R!Outcome
    <2>4. \/ e.result # "None" /\ e \in R!PlatformComplete(s)
          \/ \E p \in R!PlatformComplete(s) :
               p.result = "None" /\ e = R!Outcome([p.response EXCEPT !.state = "Completed"], "None")
      BY <1>0 DEF R!Then, R!Returns
    <2> HIDE DEF t
    <2>5. ASSUME NEW p \in R!PlatformComplete(s), p.result = "None",
                 e = R!Outcome([p.response EXCEPT !.state = "Completed"], "None")
          PROVE  /\ e.result = "None"
                 /\ Is(e.response, "Completed", "completed", r.status, declared, sent)
      <3>1. p.response = t  BY <2>3, <2>5
      <3>2. e.result = "None" /\ e.response = [t EXCEPT !.state = "Completed"]
        BY <2>5, <3>1 DEF R!Outcome
      <3> QED  BY <3>2, <2>2
    <2> QED  BY <2>3, <2>4, <2>5
  <1>1. CASE r.state = "Completed"
    BY <1>1 DEF R!Complete, R!Then, R!Returns, R!Outcome
  <1>2. CASE r.state = "Aborted"
    BY <1>2 DEF R!Complete, R!Then, R!Returns, R!Outcome, R!Errors
  <1>3. CASE r.state = "Streaming"
    <2>1. Is(r, "Streaming", "body", r.status, r.declared, r.sent)  BY <1>3, IsSound
    <2>2. o \in End(r)
      BY <1>3 DEF R!Complete, R!IsCommitted, R!Then, R!Returns, R!Outcome
    <2> HIDE DEF End
    <2> QED  BY <2>1, <2>2, <1>0, <1>3 DEF R!Errors
  <1>4. CASE r.state = "Uncommitted"
    <2>1. \/ o.result # "None" /\ o \in R!Begin(r, 0)
          \/ \E p \in R!Begin(r, 0) : p.result = "None" /\ o \in End(p.response)
      BY <1>4 DEF R!Complete, R!IsCommitted, R!Then
    <2> HIDE DEF End
    <2>2. 0 \in LengthType  BY DEF LengthType
    <2>3. CASE o.result # "None" /\ o \in R!Begin(r, 0)
      BY <2>2, <2>3, BeginBegins DEF Untouched
    <2>4. ASSUME NEW p \in R!Begin(r, 0), p.result = "None", o \in End(p.response)
          PROVE  \/ o.result = "PlatformFailure" /\ Is(o.response, "Streaming", "body", r.status, 0, 0)
                 \/ o.result = "None" /\ Is(o.response, "Completed", "completed", r.status, 0, 0)
      <3>1. Is(p.response, "Streaming", "body", r.status, 0, 0)
        BY <2>2, <2>4, BeginBegins DEF Untouched, R!Errors
      <3> QED  BY <2>4, <3>1, <1>0
    <2> QED  BY <1>4, <2>1, <2>3, <2>4
  <1> QED  BY <1>1, <1>2, <1>3, <1>4, IsSound DEF States

LEMMA AbortAborts ==
  ASSUME NEW r, Sound(r)
  PROVE  /\ r.state \in {"Completed", "Aborted"} => R!Abort(r) = r
         /\ r.state # "Completed" =>
              Is(R!Abort(r), "Aborted", "aborted", r.status, r.declared, r.sent)
  <1>1. CASE r.state \in {"Completed", "Aborted"}
    BY <1>1, IsSound DEF R!Abort
  <1>2. CASE r.state \in {"Uncommitted", "Streaming"}
    <2>1. PICK w \in {"head", "body"} : Is(r, r.state, w, r.status, r.declared, r.sent)
      BY <1>2, IsSound DEF Is
    <2>2. Is(R!PlatformAbort(r), r.state, "aborted", r.status, r.declared, r.sent)
      BY <2>1, ToldInOrder DEF R!PlatformAbort, Phases
    <2>3. R!Abort(r) = [R!PlatformAbort(r) EXCEPT !.state = "Aborted"]  BY <1>2 DEF R!Abort
    <2>4. Is([R!PlatformAbort(r) EXCEPT !.state = "Aborted"],
             "Aborted", "aborted", r.status, r.declared, r.sent)
      BY <2>2, Fields DEF States
    <2> QED  BY <1>2, <2>3, <2>4
  <1> QED  BY <1>1, <1>2, IsSound DEF States

LEMMA DestroyedEnds ==
  ASSUME NEW r, Sound(r)
  PROVE  /\ r.state # "Streaming" => R!Destroyed(r) = r
         /\ r.state = "Streaming" =>
              Is(R!Destroyed(r), "Aborted", "aborted", r.status, r.declared, r.sent)
  <1>1. r.state = "Streaming" => R!Destroyed(r) = R!Abort(r)  BY DEF R!Destroyed, R!Abort
  <1> QED  BY <1>1, AbortAborts DEF R!Destroyed

LEMMA SendSends ==
  ASSUME NEW r, Sound(r), NEW n \in Nat, NEW o \in R!Send(r, n)
  PROVE  \/ Untouched(o, r)
         \/ /\ r.state = "Uncommitted" /\ o.result \in R!Errors
            /\ \/ Is(o.response, "Uncommitted", "head", r.status, NoLength, 0)
               \/ \E k \in 0..n : Is(o.response, "Aborted", "aborted", r.status, n, k)
               \/ Is(o.response, "Streaming", "body", r.status, n, n)
         \/ /\ r.state = "Uncommitted" /\ o.result = "None"
            /\ Is(o.response, "Completed", "completed", r.status, n, n)
  <1> DEFINE Body(b) == IF n = 0 THEN R!Returns(b, "None")
                        ELSE {IF q.result = "None" THEN q
                              ELSE [q EXCEPT !.response = R!Abort(@)] : q \in R!PlatformWrite(b, n)}
             Written(b) == R!Then(Body(b), LAMBDA w : R!Complete(w))
             Begun(s) == R!Then(R!Begin(s, n), LAMBDA b : Written(b))
  <1>1. CASE R!IsCommitted(r)
    BY <1>1 DEF R!Send, R!Then, R!Returns, R!Outcome, Untouched, R!Errors
  <1>2. CASE ~R!IsCommitted(r)
    <2>1. r.state = "Uncommitted"  BY <1>2 DEF R!IsCommitted
    <2>2. \/ o.result # "None" /\ o \in R!Header(r)
          \/ \E p \in R!Header(r) : p.result = "None" /\ o \in Begun(p.response)
      BY <1>2 DEF R!Send, R!Then
    <2>3. CASE o.result # "None" /\ o \in R!Header(r)
      BY <2>3, HeaderSets
    <2>4. ASSUME NEW p \in R!Header(r), p.result = "None", o \in Begun(p.response)
          PROVE  \/ /\ o.result \in R!Errors
                    /\ \/ Is(o.response, "Uncommitted", "head", r.status, NoLength, 0)
                       \/ \E k \in 0..n : Is(o.response, "Aborted", "aborted", r.status, n, k)
                       \/ Is(o.response, "Streaming", "body", r.status, n, n)
                 \/ o.result = "None" /\ Is(o.response, "Completed", "completed", r.status, n, n)
      <3>1. Is(p.response, "Uncommitted", "head", r.status, NoLength, 0)
        BY <2>4, HeaderSets DEF Untouched, R!Errors
      <3>2. Sound(p.response) /\ p.response.status = r.status  BY <3>1, SoundIs DEF Is
      <3>3. \/ o.result # "None" /\ o \in R!Begin(p.response, n)
            \/ \E q \in R!Begin(p.response, n) : q.result = "None" /\ o \in Written(q.response)
        BY <2>4 DEF R!Then
      <3>4. CASE o.result # "None" /\ o \in R!Begin(p.response, n)
        BY <3>1, <3>2, <3>4, BeginBegins DEF LengthType, Untouched
      <3>5. ASSUME NEW q \in R!Begin(p.response, n), q.result = "None", o \in Written(q.response)
            PROVE  \/ /\ o.result \in R!Errors
                      /\ \/ \E k \in 0..n : Is(o.response, "Aborted", "aborted", r.status, n, k)
                         \/ Is(o.response, "Streaming", "body", r.status, n, n)
                   \/ o.result = "None" /\ Is(o.response, "Completed", "completed", r.status, n, n)
        <4>1. Is(q.response, "Streaming", "body", r.status, n, 0)
          BY <3>2, <3>5, BeginBegins DEF LengthType, Untouched, R!Errors
        <4>2. ASSUME NEW w \in Body(q.response)
              PROVE  \/ /\ w.result \in R!Errors
                        /\ \E k \in 0..n : Is(w.response, "Aborted", "aborted", r.status, n, k)
                     \/ w.result = "None" /\ Is(w.response, "Streaming", "body", r.status, n, n)
          <5>1. CASE n = 0
            BY <4>1, <4>2, <5>1 DEF R!Returns, R!Outcome
          <5>2. CASE n # 0
            <6>1. PICK v \in R!PlatformWrite(q.response, n) :
                    w = IF v.result = "None" THEN v ELSE [v EXCEPT !.response = R!Abort(@)]
              BY <4>2, <5>2
            <6>2. /\ v.result \in {"None", "PlatformFailure"}
                  /\ \E k \in 0..n : /\ Is(v.response, "Streaming", "body", r.status, n, 0 + k)
                                     /\ v.result = "None" => k = n
              BY <4>1, PlatformWrites
            <6>3. PICK k \in 0..n : /\ Is(v.response, "Streaming", "body", r.status, n, k)
                                    /\ v.result = "None" => k = n
              BY <6>2
            <6>4. CASE v.result = "None"
              BY <6>1, <6>3, <6>4
            <6>5. CASE v.result = "PlatformFailure"
              <7>1. Sound(v.response)  BY <6>3, SoundIs
              <7>2. Is(R!Abort(v.response), "Aborted", "aborted", r.status, n, k)
                BY <6>3, <7>1, AbortAborts DEF Is
              <7>3. w = [v EXCEPT !.response = R!Abort(v.response)]  BY <6>1, <6>5
              <7>4. v = [response |-> v.response, result |-> v.result]
                BY DEF R!PlatformWrite, R!Returns, R!Outcome
              <7>5. w.response = R!Abort(v.response) /\ w.result = "PlatformFailure"
                BY <6>5, <7>3, <7>4
              <7> QED  BY <7>2, <7>5 DEF R!Errors
            <6> QED  BY <6>2, <6>4, <6>5
          <5> QED  BY <5>1, <5>2
        <4>3. \/ o.result # "None" /\ o \in Body(q.response)
              \/ \E w \in Body(q.response) : w.result = "None" /\ o \in R!Complete(w.response)
          BY <3>5 DEF R!Then
        <4> HIDE DEF Body
        <4>4. CASE o.result # "None" /\ o \in Body(q.response)
          BY <4>2, <4>4
        <4>5. ASSUME NEW w \in Body(q.response), w.result = "None", o \in R!Complete(w.response)
              PROVE  \/ o.result \in R!Errors /\ Is(o.response, "Streaming", "body", r.status, n, n)
                     \/ o.result = "None" /\ Is(o.response, "Completed", "completed", r.status, n, n)
          <5>1. Is(w.response, "Streaming", "body", r.status, n, n)  BY <4>2, <4>5 DEF R!Errors
          <5>2. Sound(w.response)  BY <5>1, SoundIs
          <5> QED  BY <4>5, <5>1, <5>2, CompleteCompletes DEF Is, R!Errors
        <4> QED  BY <4>3, <4>4, <4>5
      <3> QED  BY <3>3, <3>4, <3>5
    <2> HIDE DEF Begun
    <2> QED  BY <2>1, <2>2, <2>3, <2>4
  <1> QED  BY <1>1, <1>2

(* What any use of a response may do to it.                                *)
Moves(r, q) ==
  /\ Sound(q)
  /\ \/ q = r
     \/ r.state = "Uncommitted" /\ q.state = "Uncommitted"
     \/ /\ r.state \in {"Uncommitted", "Streaming"} /\ q.state # "Uncommitted"
        /\ q.sent >= r.sent

Follows(r, q) ==
  /\ Moves(r, q)
  /\ q.status = r.status \/ (r.state = "Uncommitted" /\ q.status \in Statuses)

UsedBy(o, r) ==
  \/ \E s \in Statuses : o \in R!Status(r, s)
  \/ o \in R!Header(r)
  \/ \E n \in LengthType : o \in R!Begin(r, n)
  \/ \E n \in Nat : o \in R!Write(r, n)
  \/ \E n \in Nat : o \in R!Send(r, n)
  \/ o \in R!Complete(r)
  \/ o \in R!Returns(R!Abort(r), "None")

LEMMA EndFollows ==
  ASSUME NEW r, Sound(r), r.state # "Completed",
         NEW q, NEW declared, NEW sent \in Nat,
         \/ r.state \in {"Uncommitted", "Streaming"} /\ Is(q, "Streaming", "body", r.status, declared, sent)
         \/ r.state \in {"Uncommitted", "Streaming"} /\ Is(q, "Completed", "completed", r.status, declared, sent)
         \/ r.state \in {"Uncommitted", "Streaming"} /\ Is(q, "Aborted", "aborted", r.status, declared, sent),
         sent >= r.sent
  PROVE  Follows(r, q)
  <1>1. Sound(q)  BY SoundIs
  <1> QED  BY <1>1 DEF Follows, Moves, Is

LEMMA SelfFollows ==
  ASSUME NEW r, Sound(r)
  PROVE  Follows(r, r)
  BY DEF Follows, Moves

LEMMA UseFollows ==
  ASSUME NEW r, Sound(r), NEW o, UsedBy(o, r)
  PROVE  Follows(r, o.response)
  <1>0. /\ r.sent \in Nat /\ r.declared \in LengthType /\ r.state \in States
        /\ r.state = "Uncommitted" => r.sent = 0
    BY IsSound DEF Is
  <1>1. ASSUME NEW s \in Statuses, o \in R!Status(r, s)
        PROVE  Follows(r, o.response)
    <2>1. CASE Untouched(o, r)  BY <2>1, SelfFollows DEF Untouched
    <2>2. CASE r.state = "Uncommitted" /\ Is(o.response, "Uncommitted", "head", s, NoLength, 0)
      <3>1. Sound(o.response)  BY <2>2, SoundIs
      <3> QED  BY <2>2, <3>1 DEF Follows, Moves, Is
    <2>3. s \in StatusType  BY DEF StatusType
    <2> QED  BY <1>1, <2>1, <2>2, <2>3, StatusSets
  <1>2. ASSUME o \in R!Header(r)
        PROVE  Follows(r, o.response)
    <2>1. CASE Untouched(o, r)  BY <2>1, SelfFollows DEF Untouched
    <2>2. CASE r.state = "Uncommitted" /\ Is(o.response, "Uncommitted", "head", r.status, NoLength, 0)
      <3>1. Sound(o.response)  BY <2>2, SoundIs
      <3> QED  BY <2>2, <3>1 DEF Follows, Moves, Is
    <2> QED  BY <1>2, <2>1, <2>2, HeaderSets
  <1>3. ASSUME NEW n \in LengthType, o \in R!Begin(r, n)
        PROVE  Follows(r, o.response)
    <2>1. CASE Untouched(o, r)  BY <2>1, SelfFollows DEF Untouched
    <2>2. CASE r.state = "Uncommitted" /\ Is(o.response, "Streaming", "body", r.status, n, 0)
      BY <1>0, <2>2, EndFollows
    <2> QED  BY <1>3, <2>1, <2>2, BeginBegins
  <1>4. ASSUME NEW n \in Nat, o \in R!Write(r, n)
        PROVE  Follows(r, o.response)
    <2>1. CASE o.response = r  BY <2>1, SelfFollows
    <2>2. ASSUME r.state \in {"Uncommitted", "Streaming"},
                 NEW k \in 0..n, Is(o.response, "Streaming", "body", r.status, r.declared, r.sent + k)
          PROVE  Follows(r, o.response)
      <3>1. r.sent + k \in Nat /\ r.sent + k >= r.sent  BY <1>0
      <3>2. r.state # "Completed"  BY <2>2
      <3> QED  BY <2>2, <3>1, <3>2, EndFollows
    <2> QED  BY <1>4, <2>1, <2>2, WriteWrites
  <1>5. ASSUME NEW n \in Nat, o \in R!Send(r, n)
        PROVE  Follows(r, o.response)
    <2>1. CASE Untouched(o, r)  BY <2>1, SelfFollows DEF Untouched
    <2>2. CASE r.state = "Uncommitted" /\ Is(o.response, "Uncommitted", "head", r.status, NoLength, 0)
      <3>1. Sound(o.response)  BY <2>2, SoundIs
      <3> QED  BY <2>2, <3>1 DEF Follows, Moves, Is
    <2>3. ASSUME r.state = "Uncommitted",
                 NEW k \in 0..n, Is(o.response, "Aborted", "aborted", r.status, n, k)
          PROVE  Follows(r, o.response)
      BY <1>0, <2>3, EndFollows
    <2>4. CASE /\ r.state = "Uncommitted"
               /\ \/ Is(o.response, "Streaming", "body", r.status, n, n)
                  \/ Is(o.response, "Completed", "completed", r.status, n, n)
      BY <1>0, <2>4, EndFollows
    <2> QED  BY <1>5, <2>1, <2>2, <2>3, <2>4, SendSends
  <1>6. ASSUME o \in R!Complete(r)
        PROVE  Follows(r, o.response)
    <2>1. CASE o.response = r  BY <2>1, SelfFollows
    <2>2. CASE /\ r.state = "Uncommitted"
               /\ \/ Is(o.response, "Streaming", "body", r.status, 0, 0)
                  \/ Is(o.response, "Completed", "completed", r.status, 0, 0)
      BY <1>0, <2>2, EndFollows
    <2>3. CASE r.state = "Streaming" /\ Is(o.response, "Completed", "completed", r.status, r.declared, r.sent)
      BY <1>0, <2>3, EndFollows
    <2> QED  BY <1>6, <2>1, <2>2, <2>3, CompleteCompletes
  <1>7. ASSUME o \in R!Returns(R!Abort(r), "None")
        PROVE  Follows(r, o.response)
    <2>1. o.response = R!Abort(r)  BY <1>7 DEF R!Returns, R!Outcome
    <2>2. CASE r.state \in {"Completed", "Aborted"}
      BY <2>1, <2>2, AbortAborts, SelfFollows
    <2>3. CASE r.state \in {"Uncommitted", "Streaming"}
      <3>1. Is(o.response, "Aborted", "aborted", r.status, r.declared, r.sent)
        BY <2>1, <2>3, AbortAborts
      <3> QED  BY <1>0, <2>3, <3>1, EndFollows
    <2> QED  BY <1>0, <2>2, <2>3 DEF States
  <1> QED  BY <1>1, <1>2, <1>3, <1>4, <1>5, <1>6, <1>7 DEF UsedBy

-----------------------------------------------------------------------------
(* The facade by itself, in the hands of any handler: HttpResponse.        *)
VARIABLES result, alive

HR == INSTANCE HttpResponse

(* The response is sound and only the handler's statuses are set on it.    *)
FacadeInv == /\ HR!TypeOK
             /\ Sound(response)

LEMMA Facade ==
  /\ \A r, s : HR!Status(r, s) = R!Status(r, s)
  /\ \A r : HR!Header(r) = R!Header(r)
  /\ \A r, n : HR!Begin(r, n) = R!Begin(r, n)
  /\ \A r, n : HR!Write(r, n) = R!Write(r, n)
  /\ \A r, n : HR!Send(r, n) = R!Send(r, n)
  /\ \A r : HR!Complete(r) = R!Complete(r)
  /\ \A r : HR!Abort(r) = R!Abort(r)
  /\ \A r : HR!Destroyed(r) = R!Destroyed(r)
  <1> USE DEF HR!IsCommitted, HR!Returns, HR!Outcome, HR!Told, HR!Then,
              R!IsCommitted, R!Returns, R!Outcome, R!Told, R!Then
  <1>1. \A r, s : HR!Status(r, s) = R!Status(r, s)
    BY DEF HR!Status, HR!PlatformSetStatus, R!Status, R!PlatformSetStatus
  <1>2. \A r : HR!Header(r) = R!Header(r)
    BY DEF HR!Header, HR!PlatformSetHeader, R!Header, R!PlatformSetHeader
  <1>3. \A r, n : HR!Begin(r, n) = R!Begin(r, n)
    BY DEF HR!Begin, HR!PlatformBegin, R!Begin, R!PlatformBegin
  <1>5. \A r, n : HR!Write(r, n) = R!Write(r, n)
    BY DEF HR!Write, HR!Begin, HR!PlatformBegin, HR!PlatformWrite,
           R!Write, R!Begin, R!PlatformBegin, R!PlatformWrite
  <1>6. \A r : HR!Complete(r) = R!Complete(r)
    BY <1>3 DEF HR!Complete, HR!PlatformComplete, R!Complete, R!PlatformComplete
  <1>7. \A r : HR!Abort(r) = R!Abort(r)
    BY DEF HR!Abort, HR!PlatformAbort, R!Abort, R!PlatformAbort
  <1>8. \A r, n : HR!Send(r, n) = R!Send(r, n)
    BY DEF HR!Send, HR!Header, HR!PlatformSetHeader, HR!Begin, HR!PlatformBegin, HR!PlatformWrite,
           HR!Complete, HR!PlatformComplete, HR!Abort, HR!PlatformAbort,
           R!Send, R!Header, R!PlatformSetHeader, R!Begin, R!PlatformBegin, R!PlatformWrite,
           R!Complete, R!PlatformComplete, R!Abort, R!PlatformAbort
  <1>9. \A r : HR!Destroyed(r) = R!Destroyed(r)
    BY DEF HR!Destroyed, HR!PlatformAbort, R!Destroyed, R!PlatformAbort
  <1> QED  BY <1>1, <1>2, <1>3, <1>5, <1>6, <1>7, <1>8, <1>9

LEMMA FacadeStep ==
  ASSUME FacadeInv, [HR!Next]_(HR!vars)
  PROVE  /\ FacadeInv'
         /\ Follows(response, response')
         /\ ~alive => response' = response
  <1>0. Sound(response) /\ HR!TypeOK  BY DEF FacadeInv
  <1>1. ASSUME Sound(response'), Follows(response, response'),
               result' \in HR!Errors \cup {"None"}, alive' \in BOOLEAN
        PROVE  FacadeInv'
    <2>1. response'.status \in Statuses \cup {DefaultStatus}
      BY <1>0, <1>1 DEF Follows, Moves, HR!TypeOK, HR!ResponseType
    <2>2. response' \in HR!ResponseType
      BY <1>1, <2>1 DEF Sound, ResponseType, HR!ResponseType, States, Phases, LengthType
    <2> QED  BY <1>1, <2>2 DEF FacadeInv, HR!TypeOK
  <1>2. ASSUME NEW outcomes, HR!Call(outcomes), \A o \in outcomes : UsedBy(o, response),
               \A o \in outcomes : o.result \in HR!Errors \cup {"None"}
        PROVE  FacadeInv' /\ Follows(response, response') /\ (~alive => response' = response)
    <2>1. PICK o \in outcomes : response' = o.response /\ result' = o.result
      BY <1>2 DEF HR!Call
    <2>2. Follows(response, response')  BY <1>0, <1>2, <2>1, UseFollows
    <2>3. alive /\ alive' = alive  BY <1>2 DEF HR!Call
    <2>4. Sound(response')  BY <2>2 DEF Follows, Moves
    <2> QED  BY <1>0, <1>1, <1>2, <2>1, <2>2, <2>3, <2>4 DEF HR!TypeOK
  <1>3. CASE HR!CallStatus
    <2>1. PICK s \in Statuses : HR!Call(HR!Status(response, s))  BY <1>3 DEF HR!CallStatus
    <2>2. \A o \in HR!Status(response, s) : UsedBy(o, response)  BY Facade DEF UsedBy
    <2>3. \A o \in HR!Status(response, s) : o.result \in HR!Errors \cup {"None"}
      BY <1>0, Facade, StatusSets DEF StatusType, Untouched, HR!Errors, R!Errors
    <2> QED  BY <1>2, <2>1, <2>2, <2>3
  <1>4. CASE HR!CallHeader
    <2>1. \A o \in HR!Header(response) : UsedBy(o, response)  BY Facade DEF UsedBy
    <2>2. \A o \in HR!Header(response) : o.result \in HR!Errors \cup {"None"}
      BY <1>0, Facade, HeaderSets DEF Untouched, HR!Errors, R!Errors
    <2> QED  BY <1>2, <1>4, <2>1, <2>2 DEF HR!CallHeader
  <1>5. CASE HR!CallBegin
    <2>1. PICK n \in (0..MaxBytes) \cup {NoLength} : HR!Call(HR!Begin(response, n))
      BY <1>5 DEF HR!CallBegin
    <2>2. n \in LengthType  BY ExchangeAssumption DEF LengthType
    <2>3. \A o \in HR!Begin(response, n) : UsedBy(o, response)  BY <2>2, Facade DEF UsedBy
    <2>4. \A o \in HR!Begin(response, n) : o.result \in HR!Errors \cup {"None"}
      BY <1>0, <2>2, Facade, BeginBegins DEF Untouched, HR!Errors, R!Errors
    <2> QED  BY <1>2, <2>1, <2>3, <2>4
  <1>6. CASE HR!CallWrite
    <2>1. PICK n \in 0..MaxBytes : HR!Call(HR!Write(response, n))  BY <1>6 DEF HR!CallWrite
    <2>2. n \in Nat  BY ExchangeAssumption
    <2>3. \A o \in HR!Write(response, n) : UsedBy(o, response)  BY <2>2, Facade DEF UsedBy
    <2>4. \A o \in HR!Write(response, n) : o.result \in HR!Errors \cup {"None"}
      BY <1>0, <2>2, Facade, WriteWrites DEF HR!Errors, R!Errors
    <2> QED  BY <1>2, <2>1, <2>3, <2>4
  <1>7. CASE HR!CallSend
    <2>1. PICK n \in 0..MaxBytes : HR!Call(HR!Send(response, n))  BY <1>7 DEF HR!CallSend
    <2>2. n \in Nat  BY ExchangeAssumption
    <2>3. \A o \in HR!Send(response, n) : UsedBy(o, response)  BY <2>2, Facade DEF UsedBy
    <2>4. \A o \in HR!Send(response, n) : o.result \in HR!Errors \cup {"None"}
      BY <1>0, <2>2, Facade, SendSends DEF Untouched, HR!Errors, R!Errors
    <2> QED  BY <1>2, <2>1, <2>3, <2>4
  <1>8. CASE HR!CallComplete
    <2>1. \A o \in HR!Complete(response) : UsedBy(o, response)  BY Facade DEF UsedBy
    <2>2. \A o \in HR!Complete(response) : o.result \in HR!Errors \cup {"None"}
      BY <1>0, Facade, CompleteCompletes DEF HR!Errors, R!Errors
    <2> QED  BY <1>2, <1>8, <2>1, <2>2 DEF HR!CallComplete
  <1>9. CASE HR!CallAbort
    <2> DEFINE outcomes == HR!Returns(HR!Abort(response), "None")
    <2>1. outcomes = R!Returns(R!Abort(response), "None")
      BY Facade DEF HR!Returns, HR!Outcome, R!Returns, R!Outcome
    <2>2. \A o \in outcomes : UsedBy(o, response)  BY <2>1 DEF UsedBy
    <2>3. \A o \in outcomes : o.result \in HR!Errors \cup {"None"}  BY DEF HR!Returns, HR!Outcome
    <2> QED  BY <1>2, <1>9, <2>2, <2>3 DEF HR!CallAbort
  <1>10. CASE HR!Destruct
    <2>1. response' = R!Destroyed(response) /\ alive /\ alive' = FALSE /\ result' = result
      BY <1>10, Facade DEF HR!Destruct
    <2>2. Follows(response, response')
      <3>1. CASE response.state = "Streaming"
        <4>1. Is(response', "Aborted", "aborted", response.status, response.declared, response.sent)
          BY <1>0, <2>1, <3>1, DestroyedEnds
        <4>2. response.sent \in Nat /\ response.sent >= response.sent  BY <1>0, IsSound
        <4> QED  BY <1>0, <3>1, <4>1, <4>2, EndFollows
      <3>2. CASE response.state # "Streaming"
        BY <1>0, <2>1, <3>2, DestroyedEnds, SelfFollows
      <3> QED  BY <3>1, <3>2
    <2>3. Sound(response')  BY <2>2 DEF Follows, Moves
    <2> QED  BY <1>0, <1>1, <2>1, <2>2, <2>3 DEF HR!TypeOK
  <1>11. CASE HR!Gone \/ UNCHANGED HR!vars
    <2>1. UNCHANGED <<response, result, alive>>  BY <1>11 DEF HR!Gone, HR!vars
    <2> QED  BY <1>0, <1>1, <2>1, SelfFollows DEF HR!TypeOK
  <1> QED  BY <1>3, <1>4, <1>5, <1>6, <1>7, <1>8, <1>9, <1>10, <1>11 DEF HR!Next

LEMMA FacadeStarts == HR!Init => FacadeInv
  BY ExchangeAssumption
  DEF HR!Init, HR!Fresh, FacadeInv, HR!TypeOK, HR!ResponseType, Sound, ResponseType, States, Phases,
      LengthType, StatusType

LEMMA FacadeHolds == HR!Spec => []FacadeInv
  <1>1. FacadeInv /\ [HR!Next]_(HR!vars) => FacadeInv'  BY FacadeStep
  <1> QED  BY FacadeStarts, <1>1, PTL DEF HR!Spec

(* Handlers and the error responder decide by a state that is the          *)
(* platform's, whatever is called on the response and whichever call fails.*)
THEOREM StateIsTheWire == HR!Spec => []HR!StateIsWire
  <1>1. FacadeInv => HR!StateIsWire
    BY DEF FacadeInv, Sound, HR!StateIsWire, ResponseType, States
  <1> QED  BY FacadeHolds, <1>1, PTL

(* The facade never calls the platform out of order: HttpResponse          *)
(* implements ResponseWire, for statuses and lengths of any kind.          *)
THEOREM FacadeImplementsWire == HR!Spec => HR!ImplementsWire
  <1>1. HR!Init => HR!Wire!Init
    BY DEF HR!Init, HR!Fresh, HR!Wire!Init
  <1>2. FacadeInv /\ [HR!Next]_(HR!vars) => [HR!Wire!Next]_(HR!Wire!vars)
    <2> SUFFICES ASSUME FacadeInv, [HR!Next]_(HR!vars)
                 PROVE  [HR!Wire!Next]_(HR!Wire!vars)
      OBVIOUS
    <2> USE DEF HR!Wire!Next, HR!Wire!EditHead, HR!Wire!Send, HR!Wire!vars
    <2>1. Sound(response) /\ Follows(response, response')  BY FacadeStep DEF FacadeInv
    <2>2. CASE response' = response
      BY <2>2
    <2>3. CASE response.state = "Uncommitted" /\ response'.state = "Uncommitted"
      BY <2>1, <2>3 DEF Follows, Moves, Sound
    <2>4. CASE /\ response.state \in {"Uncommitted", "Streaming"} /\ response'.state # "Uncommitted"
               /\ response'.sent >= response.sent
      BY <2>1, <2>4 DEF Follows, Moves, Sound, ResponseType, States
    <2> QED  BY <2>1, <2>2, <2>3, <2>4 DEF Follows, Moves
  <1> QED  BY FacadeHolds, <1>1, <1>2, PTL DEF HR!Spec, HR!ImplementsWire, HR!Wire!Spec

(* Send is all or nothing as far as the platform lets it.                  *)
THEOREM SendIsAllOrNothing == HR!Spec => HR!SendIsWhole
  <1> DEFINE Whole ==
        \A n \in 0..MaxBytes :
          ~HR!IsCommitted(response) /\ alive /\ HR!Call(HR!Send(response, n)) =>
            \/ result' = "None" /\ response'.wire = "completed"
                 /\ response'.sent = n /\ response'.declared = n
            \/ result' # "None" /\ response'.wire \in {"head", "aborted"}
            \/ result' # "None" /\ response'.wire = "body" /\ response'.sent = n
  <1>1. FacadeInv /\ [HR!Next]_(HR!vars) => [Whole]_(HR!vars)
    <2> SUFFICES ASSUME FacadeInv, NEW n \in 0..MaxBytes,
                        ~HR!IsCommitted(response), HR!Call(HR!Send(response, n))
                 PROVE  \/ result' = "None" /\ response'.wire = "completed"
                             /\ response'.sent = n /\ response'.declared = n
                        \/ result' # "None" /\ response'.wire \in {"head", "aborted"}
                        \/ result' # "None" /\ response'.wire = "body" /\ response'.sent = n
      OBVIOUS
    <2>1. PICK o \in R!Send(response, n) : response' = o.response /\ result' = o.result
      BY Facade DEF HR!Call
    <2>2. n \in Nat  BY ExchangeAssumption
    <2>3. Sound(response) /\ response.state = "Uncommitted"  BY DEF FacadeInv, HR!IsCommitted
    <2>4. Is(response, "Uncommitted", "head", response.status, NoLength, 0)  BY <2>3, IsSound
    <2>5. CASE Untouched(o, response)
      BY <2>1, <2>4, <2>5 DEF Untouched, R!Errors, Is
    <2>6. CASE /\ o.result \in R!Errors
               /\ \/ Is(o.response, "Uncommitted", "head", response.status, NoLength, 0)
                  \/ \E k \in 0..n : Is(o.response, "Aborted", "aborted", response.status, n, k)
                  \/ Is(o.response, "Streaming", "body", response.status, n, n)
      BY <2>1, <2>6 DEF R!Errors, Is
    <2>7. CASE o.result = "None" /\ Is(o.response, "Completed", "completed", response.status, n, n)
      BY <2>1, <2>7 DEF Is
    <2> QED  BY <2>2, <2>3, <2>1, <2>5, <2>6, <2>7, SendSends
  <1> QED  BY FacadeHolds, <1>1, PTL DEF HR!Spec, HR!SendIsWhole

-----------------------------------------------------------------------------
(* The exchange. Whose turn it is, and what may be under way then.                       *)
StageInv ==
  /\ Sound(response)
  /\ running # "none" => \/ stage \in {"direct", "primary", "fallback"}
                         \/ stage = "responder" /\ running = "app"
  /\ job.pc # "idle" => \/ running = "static"
                        \/ stage = "mapped"
                        \/ stage \in {"dispatched", "over"} /\ job.pc = "done"
  /\ ingest.pc # "idle" => running = "ingress"
  /\ job.pc = "idle" => job = W!NoJob
  /\ job.pc # "idle" /\ running # "static" => ~R!IsCommitted(before)
  /\ stage \in {"responder", "mapped"} => error \in Errors
  /\ stage = "mapped" => /\ job.pc # "idle" /\ before.status = MappedStatus
                         /\ responder \in ResourceResponders
  /\ running = "static" => job.pc # "idle"
  /\ running = "static" /\ stage \in {"direct", "primary"} => ~R!IsCommitted(before)
  /\ stage = "responder" /\ running = "none" => response.state = "Uncommitted"
  /\ stage \in {"direct", "primary"} /\ running = "none" => response.state = "Uncommitted"

(* How far the resource writer is, and what the response is then.          *)
BodyOf(j) == IF j.headersOnly THEN 0 ELSE j.size

Fresh(j) == j.offset = 0 /\ j.reads = 0 /\ response = before

WrittenTo ==
  /\ job.pc \in {"open", "stat", "head"} => Fresh(job)
  /\ job.pc = "read" =>
       /\ Is(response, "Streaming", "body", before.status, job.size, job.offset)
       /\ job.offset < job.size /\ job.reads <= job.offset /\ ~job.headersOnly
  /\ job.pc = "complete" =>
       /\ Is(response, "Streaming", "body", before.status, job.size, BodyOf(job))
       /\ job.offset <= job.size /\ job.reads <= job.offset
  /\ job.pc = "done" =>
       /\ job.offset <= job.size /\ job.reads <= job.size
       /\ response.status = before.status
       /\ response.state = "Uncommitted" => job.result # "None"
       /\ response.state = "Streaming" => /\ job.result \notin {"None", "NotFound"}
                                          /\ response.declared = job.size
                                          /\ response.sent = BodyOf(job)
       /\ response.state = "Completed" => /\ job.result = "None"
                                          /\ response.declared = job.size
                                          /\ response.sent = BodyOf(job)
       /\ response.state = "Aborted" => /\ job.result # "None"
                                        /\ response.declared = job.size
                                        /\ response.sent <= job.size

LeftAlone == /\ Fresh(job) /\ job.pc \in {"open", "stat", "head", "done"}
             /\ job.pc = "done" => job.result # "None"

JobInv ==
  job.pc # "idle" => /\ Sound(before)
                     /\ IF R!IsCommitted(before) THEN LeftAlone ELSE WrittenTo

(* Which part of a body has been read.                                     *)
Limit == IF ingest.declared = NoLength THEN MaximumBytes ELSE ingest.declared

IngestInv ==
  /\ ingest.pc \in {"id", "again", "read", "handOver", "accept"} =>
       ingest.declared = NoLength \/ ingest.declared \in 1..MaximumBytes
  /\ ingest.pc \in {"id", "again"} => ingest.offset = 0
  /\ ingest.pc = "read" => ingest.offset <= Limit
  /\ ingest.pc = "handOver" => /\ ingest.offset \in 1..MaximumBytes /\ ingest.ended
                               /\ ingest.declared \in {ingest.offset, NoLength}

(* Who sent the head, and the status it has.                               *)
HeadHasAuthor ==
  /\ author.stage = "nobody" => author = Nobody
  /\ response.wire = "head" => author = Nobody
  /\ response.wire \in {"body", "completed"} => author # Nobody

AuthorInv ==
  /\ HeadHasAuthor
  /\ stage = "direct" => author.stage \in {"nobody", "direct"}
  /\ stage = "primary" => author = Nobody \/ author = [stage |-> "primary", ran |-> running]
  /\ stage = "fallback" => author.stage \in {"nobody", "primary", "fallback"}
  /\ stage = "fallback" /\ author.stage = "primary" =>
       author.ran = "app" \/ response.state = "Aborted"
  /\ stage = "mapped" => author.stage \in {"nobody", "mapped"}
  /\ stage = "responder" => author = Nobody \/ (running = "app" /\ author.stage = "responder")
  /\ running = "static" /\ ~R!IsCommitted(before) => author.stage \in {"nobody", stage}
  /\ author.stage = "responder" =>
       \/ author.ran = "app" /\ stage \in {"responder", "dispatched", "over"}
       \/ author.ran = "none" /\ stage \in {"dispatched", "over"} /\ response.status = StatusFor(error)
  /\ author.stage = "mapped" => response.status = MappedStatus

(* What became of a body that was handed over.                             *)
HandInv ==
  /\ handed = 0 \/ /\ handed = 1
                   /\ \/ ingest.pc \in {"accept", "done"}
                      \/ stage \in {"responder", "mapped", "dispatched", "over"}
  /\ ingest.pc = "accept" => handed = 1
  /\ response.status = "Accepted" => handed = 1
  /\ handed = 1 /\ ingest.pc = "done" /\ ingest.result = "None" => response.status = "Accepted"
  /\ handed = 1 /\ stage \in {"dispatched", "over"} /\ handling.error = "None" =>
       \/ response.status = "Accepted" \/ author.stage \in {"responder", "mapped"}
       \/ response.state # "Completed"
  /\ stage = "over" /\ outcome = "None" => handling.error = "None" /\ response.state = "Completed"

(* How the exchange ends.                                                  *)
EndInv == stage = "over" => response.state # "Streaming" /\ ClientIsAnswered

Inv == TypeOK /\ StageInv /\ JobInv /\ IngestInv /\ AuthorInv /\ HandInv /\ EndInv

-----------------------------------------------------------------------------
(* The writer and the ingress use the same methods.                        *)
LEMMA Writer ==
  /\ \A r : W!R!Header(r) = R!Header(r)
  /\ \A r, n : W!R!Begin(r, n) = R!Begin(r, n)
  /\ \A r, n : W!R!Write(r, n) = R!Write(r, n)
  /\ \A r : W!R!Complete(r) = R!Complete(r)
  /\ \A r : W!R!Abort(r) = R!Abort(r)
  /\ \A r : W!R!IsCommitted(r) = R!IsCommitted(r)
  <1> USE DEF W!R!IsCommitted, W!R!Returns, W!R!Outcome, W!R!Told, W!R!Then,
              R!IsCommitted, R!Returns, R!Outcome, R!Told, R!Then
  <1>1. \A r : W!R!Header(r) = R!Header(r)
    BY DEF W!R!Header, W!R!PlatformSetHeader, R!Header, R!PlatformSetHeader
  <1>2. \A r, n : W!R!Begin(r, n) = R!Begin(r, n)
    BY DEF W!R!Begin, W!R!PlatformBegin, R!Begin, R!PlatformBegin
  <1>3. \A r, n : W!R!Write(r, n) = R!Write(r, n)
    BY DEF W!R!Write, W!R!Begin, W!R!PlatformBegin, W!R!PlatformWrite,
           R!Write, R!Begin, R!PlatformBegin, R!PlatformWrite
  <1>4. \A r : W!R!Complete(r) = R!Complete(r)
    BY <1>2 DEF W!R!Complete, W!R!PlatformComplete, R!Complete, R!PlatformComplete
  <1>5. \A r : W!R!Abort(r) = R!Abort(r)
    BY DEF W!R!Abort, W!R!PlatformAbort, R!Abort, R!PlatformAbort
  <1>6. \A r : W!R!IsCommitted(r) = R!IsCommitted(r)
    OBVIOUS
  <1> QED  BY <1>1, <1>2, <1>3, <1>4, <1>5, <1>6

LEMMA Ingress ==
  /\ \A r, s : I!R!Status(r, s) = R!Status(r, s)
  /\ \A r : I!R!Header(r) = R!Header(r)
  /\ \A r, n : I!R!Begin(r, n) = R!Begin(r, n)
  /\ \A r, n : I!R!Write(r, n) = R!Write(r, n)
  /\ \A r : I!R!Complete(r) = R!Complete(r)
  /\ \A r : I!R!Abort(r) = R!Abort(r)
  <1> USE DEF I!R!IsCommitted, I!R!Returns, I!R!Outcome, I!R!Told, I!R!Then,
              R!IsCommitted, R!Returns, R!Outcome, R!Told, R!Then
  <1>1. \A r, s : I!R!Status(r, s) = R!Status(r, s)
    BY DEF I!R!Status, I!R!PlatformSetStatus, R!Status, R!PlatformSetStatus
  <1>2. \A r : I!R!Header(r) = R!Header(r)
    BY DEF I!R!Header, I!R!PlatformSetHeader, R!Header, R!PlatformSetHeader
  <1>3. \A r, n : I!R!Begin(r, n) = R!Begin(r, n)
    BY DEF I!R!Begin, I!R!PlatformBegin, R!Begin, R!PlatformBegin
  <1>4. \A r, n : I!R!Write(r, n) = R!Write(r, n)
    BY DEF I!R!Write, I!R!Begin, I!R!PlatformBegin, I!R!PlatformWrite,
           R!Write, R!Begin, R!PlatformBegin, R!PlatformWrite
  <1>5. \A r : I!R!Complete(r) = R!Complete(r)
    BY <1>3 DEF I!R!Complete, I!R!PlatformComplete, R!Complete, R!PlatformComplete
  <1>6. \A r : I!R!Abort(r) = R!Abort(r)
    BY DEF I!R!Abort, I!R!PlatformAbort, R!Abort, R!PlatformAbort
  <1> QED  BY <1>1, <1>2, <1>3, <1>4, <1>5, <1>6

LEMMA ErrorStatus == \A e \in Errors : StatusFor(e) \in StatusType /\ StatusFor(e) # "Accepted"
  BY DEF StatusType, StatusFor

LEMMA ExchangeStarts == Init => Inv
  <1> SUFFICES ASSUME Init PROVE Inv
    OBVIOUS
  <1>1. /\ Is(response, "Uncommitted", "head", DefaultStatus, NoLength, 0)
        /\ job = W!NoJob /\ before = response /\ ingest = I!NoIngest
    BY DEF Init, R!Fresh, Is, ResponseType, States, Phases, LengthType, StatusType
  <1>2. Sound(response)  BY <1>1, SoundIs
  <1>3. job \in W!JobType /\ job.pc = "idle"
    BY <1>1 DEF W!NoJob, W!JobType, W!Results
  <1>4. ingest \in I!IngestType /\ ingest.pc = "idle"
    BY <1>1, ExchangeAssumption DEF I!NoIngest, I!IngestType, I!Ids
  <1>5. TypeOK
    BY <1>1, <1>3, <1>4
    DEF Init, TypeOK, Responders, Handled, Nobody, Is, ResponseType, States, Phases, LengthType, StatusType
  <1>6. StageInv  BY <1>1, <1>2, <1>3, <1>4 DEF Init, StageInv, Is
  <1>7. JobInv /\ IngestInv  BY <1>3, <1>4 DEF JobInv, IngestInv
  <1>8. AuthorInv  BY <1>1 DEF Init, AuthorInv, HeadHasAuthor, Nobody, Is
  <1>9. HandInv  BY <1>1, <1>4, AcceptedAssumption DEF Init, HandInv, Is
  <1>10. EndInv  BY DEF Init, EndInv
  <1> QED  BY <1>5, <1>6, <1>7, <1>8, <1>9, <1>10 DEF Inv

-----------------------------------------------------------------------------
(* What a step that uses the response does to its author.                  *)
LEMMA Credited ==
  ASSUME TypeOK, Sound(response), HeadHasAuthor, Moves(response, response'),
         NEW s \in {"direct", "primary", "fallback", "responder", "mapped"},
         Credit(s), UNCHANGED running
  PROVE  /\ author' \in [stage : {"nobody", "direct", "primary", "fallback", "responder", "mapped"},
                         ran : {"none", "app", "static", "ingress"}]
         /\ HeadHasAuthor'
         /\ \/ author' = author
            \/ /\ author = Nobody /\ author' = [stage |-> s, ran |-> running]
               /\ response'.state # "Uncommitted"
         /\ response'.sent # response.sent => author' # Nobody
  <1>1. Sound(response')  BY DEF Moves
  <1>2. Nobody # [stage |-> s, ran |-> running]  BY DEF Nobody
  <1>3. CASE author = Nobody /\ (response'.wire \in {"body", "completed"} \/ response'.sent > 0)
    <2>1. author' = [stage |-> s, ran |-> running]  BY <1>3 DEF Credit
    <2>2. response'.state # "Uncommitted" /\ response'.wire # "head"
      BY <1>1, <1>3 DEF Sound, ResponseType, States
    <2> QED  BY <1>2, <1>3, <2>1, <2>2 DEF TypeOK, HeadHasAuthor
  <1>4. CASE ~(author = Nobody /\ (response'.wire \in {"body", "completed"} \/ response'.sent > 0))
    <2>1. author' = author  BY <1>4 DEF Credit
    <2>2. response'.wire = "head" => response.wire = "head"
      BY <1>1 DEF Moves, Sound, ResponseType, States
    <2>3. author = Nobody => response'.sent = response.sent
      <3>1. response'.sent \in Nat /\ response.sent \in Nat  BY <1>1, IsSound
      <3>2. author = Nobody => response'.sent = 0  BY <1>4, <3>1
      <3>3. response'.sent >= response.sent \/ response'.sent = response.sent
        BY <1>1 DEF Moves, Sound
      <3> QED  BY <3>1, <3>2, <3>3
    <2> QED  BY <1>4, <2>1, <2>2, <2>3 DEF TypeOK, HeadHasAuthor
  <1> QED  BY <1>3, <1>4

HandlerResult == [error : Errors \cup {"None"}, handled : BOOLEAN]

(* A handler's return, if one that declines has not sent anything that is  *)
(* not its own application's, and one that handed a body over has said so. *)
LEMMA Settled ==
  ASSUME Inv, NEW h \in HandlerResult, stage \in {"direct", "primary", "fallback"}, Settle(h),
         stage = "primary" /\ h.error = "None" /\ ~h.handled =>
           author = Nobody \/ author.ran = "app" \/ response.state = "Aborted",
         handed = 1 => h.error # "None" \/ (h.handled /\ response.status = "Accepted")
  PROVE  Inv'
  <1> USE DEF Inv
  <1>0. /\ running' = "none" /\ job' = W!NoJob /\ ingest' = I!NoIngest
        /\ UNCHANGED <<response, before, handed, request, outcome, author>>
    BY DEF Settle
  <1>1. \/ /\ stage' = "dispatched" /\ UNCHANGED <<error, responder>> /\ handling' \in HandlerResult
           /\ handling'.error = "None" => handling' = h
        \/ /\ stage' = "responder" /\ error' \in Errors /\ responder' \in Responders
           /\ handling' = handling
           /\ response.state = "Uncommitted" /\ (h.error # "None" \/ ~h.handled)
        \/ /\ stage = "primary" /\ stage' = "fallback" /\ UNCHANGED <<error, responder, handling>>
           /\ h.error = "None" /\ ~h.handled
    <2>1. h.error \in Errors \cup {"None"} /\ "NotFound" \in Errors  BY DEF HandlerResult, Errors
    <2>2. \A e \in Errors : Handled(e) \in HandlerResult /\ Handled(e).error # "None"
      BY DEF Handled, HandlerResult, Errors
    <2>3. ASSUME NEW e \in Errors, ResolveError(e)
          PROVE  \/ /\ stage' = "dispatched" /\ UNCHANGED <<error, responder>>
                    /\ handling' \in HandlerResult /\ handling'.error # "None"
                 \/ /\ stage' = "responder" /\ error' \in Errors /\ responder' \in Responders
                    /\ handling' = handling /\ response.state = "Uncommitted"
      BY <2>2, <2>3 DEF ResolveError, Return, errorVars, R!IsCommitted
    <2>4. CASE stage = "direct" \/ (stage # "direct" /\ h.error = "None" /\ h.handled)
      BY <2>4 DEF Settle, Decide, Return, errorVars
    <2>5. CASE stage # "direct" /\ h.error # "None"
      BY <2>1, <2>3, <2>5 DEF Settle, Decide
    <2>6. CASE stage # "direct" /\ h.error = "None" /\ ~h.handled
      BY <2>1, <2>3, <2>6 DEF Settle, Decide, errorVars
    <2> QED  BY <2>4, <2>5, <2>6
  <1>2. job' \in W!JobType /\ job'.pc = "idle"
    BY <1>0 DEF W!NoJob, W!JobType, W!Results
  <1>3. ingest' \in I!IngestType /\ ingest'.pc = "idle"
    BY <1>0, ExchangeAssumption DEF I!NoIngest, I!IngestType, I!Ids
  <1>4. handling' \in HandlerResult /\ error' \in Errors \cup {"None"} /\ responder' \in Responders
        /\ stage' \in {"dispatched", "responder", "fallback"}
    BY <1>1 DEF TypeOK, HandlerResult
  <1>5. TypeOK'
    BY <1>0, <1>2, <1>3, <1>4 DEF TypeOK, HandlerResult
  <1>6. StageInv'
    BY <1>0, <1>1, <1>2, <1>3, <1>4 DEF StageInv
  <1>7. JobInv' /\ IngestInv'  BY <1>2, <1>3 DEF JobInv, IngestInv
  <1>8. AuthorInv'
    <2>1. stage' = "responder" => author = Nobody
      BY <1>1 DEF StageInv, Sound, AuthorInv, HeadHasAuthor
    <2>2. stage' = "fallback" => /\ author.stage \in {"nobody", "primary"}
                                 /\ author.stage = "primary" => author.ran = "app" \/ response.state = "Aborted"
      BY <1>1 DEF AuthorInv, Nobody
    <2>3. author.stage \notin {"responder", "mapped"}
      BY DEF AuthorInv, Nobody
    <2> QED  BY <1>0, <1>4, <2>1, <2>2, <2>3 DEF AuthorInv, HeadHasAuthor
  <1>9. HandInv'
    <2>1. handed = 1 => stage' \in {"responder", "dispatched"}
      BY <1>1 DEF HandlerResult
    <2>2. handed = 1 /\ stage' = "dispatched" /\ handling'.error = "None" => response.status = "Accepted"
      BY <1>1
    <2> QED  BY <1>0, <1>3, <1>4, <2>1, <2>2 DEF HandInv
  <1>10. EndInv'  BY <1>4 DEF EndInv
  <1> QED  BY <1>5, <1>6, <1>7, <1>8, <1>9, <1>10

LEMMA ResponseTyped == TypeOK <=> /\ response \in ResponseType
                                  /\ job \in W!JobType /\ ingest \in I!IngestType /\ handed \in Nat
                                  /\ request \in [readable : BOOLEAN, headersOnly : BOOLEAN,
                                                  post : BOOLEAN, safe : BOOLEAN]
                                  /\ stage \in {"direct", "primary", "fallback", "responder",
                                                "mapped", "dispatched", "over"}
                                  /\ running \in {"none", "app", "static", "ingress"}
                                  /\ error \in Errors \cup {"None"} /\ responder \in Responders
                                  /\ handling \in HandlerResult
                                  /\ outcome \in Errors \cup {"None"}
                                  /\ author \in [stage : {"nobody", "direct", "primary", "fallback",
                                                          "responder", "mapped"},
                                                 ran : {"none", "app", "static", "ingress"}]
  BY DEF TypeOK, ResponseType, States, Phases, StatusType, LengthType, HandlerResult

(* Between two handlers nothing is under way; a primary or only handler    *)
(* finds the response untouched.                                           *)
LEMMA AtInvoking ==
  ASSUME Inv, Invoking
  PROVE  /\ job.pc = "idle" /\ ingest.pc = "idle" /\ handed = 0
         /\ stage \in {"direct", "primary"} => response.state = "Uncommitted" /\ author = Nobody
         /\ response.state = "Uncommitted" => author = Nobody
  <1> USE DEF Inv, Invoking
  <1>1. job.pc = "idle" /\ ingest.pc = "idle"  BY DEF StageInv
  <1>2. handed = 0  BY <1>1 DEF HandInv
  <1>3. response.state = "Uncommitted" => author = Nobody
    BY DEF StageInv, Sound, AuthorInv, HeadHasAuthor
  <1> QED  BY <1>1, <1>2, <1>3 DEF StageInv

LEMMA Declines == NotHandled \in HandlerResult /\ NotHandled.error = "None" /\ NotHandled.handled = FALSE
  BY DEF NotHandled, HandlerResult

LEMMA Handles == \A e \in Errors \cup {"None"} : /\ Handled(e) \in HandlerResult
                                                 /\ Handled(e).error = e /\ Handled(e).handled = TRUE
  BY DEF Handled, HandlerResult

LEMMA InvokeNullKeeps == ASSUME Inv, InvokeNull PROVE Inv'
  BY AtInvoking, Declines, Settled DEF InvokeNull, Invoking

LEMMA InvokeAppKeeps == ASSUME Inv, InvokeApp PROVE Inv'
  <1> USE DEF Inv
  <1>1. /\ Invoking /\ running = "none" /\ running' = "app" /\ before' = response
        /\ UNCHANGED <<response, job, ingest, handed, request, handling, outcome, stage, error, responder, author>>
    BY DEF InvokeApp, Invoking, ingestVars, callVars, errorVars
  <1>2. /\ job.pc = "idle" /\ ingest.pc = "idle" /\ handed = 0
        /\ stage \in {"direct", "primary"} => author = Nobody
    BY <1>1, AtInvoking
  <1>3. TypeOK'  BY <1>1 DEF TypeOK
  <1>4. StageInv'
    BY <1>1, <1>2 DEF StageInv, Invoking
  <1>5. JobInv' /\ IngestInv'  BY <1>1, <1>2 DEF JobInv, IngestInv
  <1>6. AuthorInv'  BY <1>1, <1>2 DEF AuthorInv, HeadHasAuthor, Invoking
  <1>7. HandInv'  BY <1>1, <1>2 DEF HandInv
  <1>8. EndInv'  BY <1>1 DEF EndInv, Invoking
  <1> QED  BY <1>3, <1>4, <1>5, <1>6, <1>7, <1>8

LEMMA AppUses ==
  ASSUME Inv, AppUsesResponse
  PROVE  /\ running = "app" /\ stage \in {"direct", "primary", "fallback", "responder"}
         /\ job.pc = "idle" /\ ingest.pc = "idle"
         /\ Follows(response, response') /\ Credit(stage)
         /\ UNCHANGED <<job, before, ingest, handed, request, handling, outcome, stage, running, error, responder>>
  <1>1. /\ running = "app" /\ Credit(stage)
        /\ UNCHANGED <<job, before, ingest, handed, request, handling, outcome, stage, running, error, responder>>
    BY DEF AppUsesResponse, writerVars, ingestVars, callVars, errorVars
  <1>2. /\ stage \in {"direct", "primary", "fallback", "responder"}
        /\ job.pc = "idle" /\ ingest.pc = "idle"
    BY <1>1 DEF Inv, StageInv
  <1>4. PICK o \in AppCalls : response' = o.response  BY DEF AppUsesResponse
  <1>5. UsedBy(o, response)
    <2>1. \A n \in 0..MaxBytes : n \in Nat /\ n \in LengthType
      BY ExchangeAssumption DEF LengthType
    <2>2. NoLength \in LengthType  BY DEF LengthType
    <2> QED  BY <1>4, <2>1, <2>2 DEF AppCalls, UsedBy
  <1>6. Sound(response)  BY DEF Inv, StageInv
  <1>7. Follows(response, response')  BY <1>4, <1>5, <1>6, UseFollows
  <1> QED  BY <1>1, <1>2, <1>7

LEMMA AppUsesKeeps == ASSUME Inv, AppUsesResponse PROVE Inv'
  <1> USE DEF Inv
  <1>1. /\ running = "app" /\ stage \in {"direct", "primary", "fallback", "responder"}
        /\ job.pc = "idle" /\ ingest.pc = "idle"
        /\ Follows(response, response') /\ Credit(stage)
        /\ UNCHANGED <<job, before, ingest, handed, request, handling, outcome, stage, running, error, responder>>
    BY AppUses
  <1>2. Sound(response) /\ HeadHasAuthor  BY DEF StageInv, AuthorInv
  <1>3. Sound(response')  BY <1>1 DEF Follows, Moves
  <1>4. /\ author' \in [stage : {"nobody", "direct", "primary", "fallback", "responder", "mapped"},
                        ran : {"none", "app", "static", "ingress"}]
        /\ HeadHasAuthor'
        /\ \/ author' = author
           \/ author = Nobody /\ author' = [stage |-> stage, ran |-> running]
    BY <1>1, <1>2, Credited DEF Follows
  <1>5. TypeOK'
    BY <1>1, <1>3, <1>4, ResponseTyped, IsSound DEF TypeOK, HandlerResult, ResponseType, States, Phases, StatusType, LengthType
  <1>6. StageInv'  BY <1>1, <1>3 DEF StageInv
  <1>7. JobInv' /\ IngestInv'  BY <1>1 DEF JobInv, IngestInv
  <1>8. AuthorInv'
    <2>1. response.state = "Aborted" => response'.state = "Aborted"  BY <1>1 DEF Follows, Moves
    <2>2. /\ author.stage # "mapped"
          /\ stage # "responder" => author.stage # "responder"
          /\ author.stage = "responder" => author.ran = "app"
      BY <1>1 DEF AuthorInv, Nobody
    <2>3. CASE author' = author
      <3>1. CASE stage = "responder"
        BY <1>1, <1>4, <2>2, <2>3, <3>1 DEF AuthorInv
      <3>2. CASE stage # "responder"
        BY <1>1, <1>4, <2>1, <2>2, <2>3, <3>2 DEF AuthorInv
      <3> QED  BY <3>1, <3>2
    <2>4. CASE author = Nobody /\ author' = [stage |-> stage, ran |-> running]
      BY <1>1, <1>4, <2>2, <2>4 DEF AuthorInv
    <2> QED  BY <1>4, <2>3, <2>4
  <1>9. HandInv'
    <2>1. response'.status = "Accepted" => response.status = "Accepted"
      BY <1>1, AcceptedAssumption DEF Follows, Moves
    <2> QED  BY <1>1, <2>1 DEF HandInv
  <1>10. EndInv'  BY <1>1 DEF EndInv
  <1> QED  BY <1>5, <1>6, <1>7, <1>8, <1>9, <1>10

(* An application's responder is asked, and what it returns is the result. *)
LEMMA AppRespondsKeeps ==
  ASSUME Inv, AppResponds
  PROVE  Inv' /\ response' = response
  <1> USE DEF Inv
  <1>1. /\ stage = "responder" /\ running = "none" /\ running' = "app" /\ before' = response
        /\ UNCHANGED <<response, job, ingest, handed, request, handling, outcome, stage, error,
                       responder, author>>
    BY DEF AppResponds, Responding, ingestVars, callVars, errorVars
  <1>2. job.pc = "idle" /\ ingest.pc = "idle"  BY <1>1 DEF StageInv
  <1>3. TypeOK'  BY <1>1 DEF TypeOK
  <1>4. StageInv'  BY <1>1, <1>2 DEF StageInv
  <1>5. JobInv' /\ IngestInv'  BY <1>1, <1>2 DEF JobInv, IngestInv
  <1>6. AuthorInv'  BY <1>1 DEF AuthorInv, HeadHasAuthor
  <1>7. HandInv'  BY <1>1 DEF HandInv
  <1>8. EndInv'  BY <1>1 DEF EndInv
  <1> QED  BY <1>1, <1>3, <1>4, <1>5, <1>6, <1>7, <1>8

LEMMA ResponderReturns ==
  ASSUME Inv, stage = "responder", running = "app", NEW h \in HandlerResult, Settle(h)
  PROVE  Inv'
  <1> USE DEF Inv
  <1>1. /\ running' = "none" /\ job' = W!NoJob /\ ingest' = I!NoIngest
        /\ stage' = "dispatched" /\ handling' = h
        /\ UNCHANGED <<response, before, handed, request, outcome, author, error, responder>>
    BY DEF Settle, Return, errorVars
  <1>2. job' \in W!JobType /\ job'.pc = "idle"
    BY <1>1 DEF W!NoJob, W!JobType, W!Results
  <1>3. ingest' \in I!IngestType /\ ingest'.pc = "idle"
    BY <1>1, ExchangeAssumption DEF I!NoIngest, I!IngestType, I!Ids
  <1>4. TypeOK'  BY <1>1, <1>2, <1>3 DEF TypeOK, HandlerResult
  <1>5. StageInv'  BY <1>1, <1>2, <1>3 DEF StageInv
  <1>6. JobInv' /\ IngestInv'  BY <1>2, <1>3 DEF JobInv, IngestInv
  <1>7. AuthorInv'  BY <1>1 DEF AuthorInv, HeadHasAuthor, Nobody
  <1>8. HandInv'
    <2>1. response.state = "Completed" => author.stage = "responder"
      BY DEF StageInv, Sound, AuthorInv, HeadHasAuthor
    <2> QED  BY <1>1, <1>3, <2>1 DEF HandInv
  <1>9. EndInv'  BY <1>1 DEF EndInv
  <1> QED  BY <1>4, <1>5, <1>6, <1>7, <1>8, <1>9

LEMMA AppReturnsKeeps == ASSUME Inv, AppReturns PROVE Inv'
  <1>1. /\ running = "app" /\ ingest.pc = "idle"
        /\ stage \in {"direct", "primary", "fallback", "responder"}
    BY DEF AppReturns, Inv, StageInv
  <1>2. stage # "responder" => handed = 0  BY <1>1 DEF Inv, HandInv
  <1>3. PICK h \in HandlerResult : Settle(h)
    BY Declines, Handles, ExchangeAssumption DEF AppReturns
  <1>4. stage = "primary" => author = Nobody \/ author.ran = "app"
    BY <1>1 DEF Inv, AuthorInv
  <1> QED  BY <1>1, <1>2, <1>3, <1>4, Settled, ResponderReturns

-----------------------------------------------------------------------------
(* The resource writer.                                                    *)
WriterKept == /\ before' = before
              /\ job' \in W!JobType /\ job'.pc # "idle"
              /\ Follows(response, response')
              /\ R!IsCommitted(before) => response' = response
              /\ JobInv'

LEMMA JobTyped ==
  ASSUME NEW j \in W!JobType
  PROVE  /\ j.size \in Nat /\ j.offset \in Nat /\ j.reads \in Nat /\ j.reads + 1 \in Nat
         /\ j.headersOnly \in BOOLEAN /\ j.result \in W!Results
  <1>1. \A n \in Sizes \cup {0} : n \in Nat  BY ExchangeAssumption
  <1>2. j.size \in Sizes \cup {0}  BY DEF W!JobType
  <1> QED  BY <1>1, <1>2 DEF W!JobType

(* The writer ends, or goes on, without a change of the response.          *)
LEMMA WriterWaits ==
  ASSUME job \in W!JobType, job.pc \in {"open", "stat", "head"}, Sound(response), JobInv,
         response' = response, before' = before,
         \/ \E size \in Sizes : W!Sized(size)
         \/ W!Goto("stat")
         \/ \E e \in W!Results \ {"None"} : W!Return(e)
  PROVE  WriterKept
  <1>1. /\ Sound(before) /\ Fresh(job)
    BY DEF JobInv, LeftAlone, WrittenTo
  <1>2. Follows(response, response')  BY SelfFollows
  <1>3. ASSUME NEW size \in Sizes, W!Sized(size)
        PROVE  job' \in W!JobType /\ job'.pc = "head" /\ Fresh(job')
    BY <1>1, <1>3, JobTyped DEF W!Sized, W!JobType, Fresh
  <1>4. ASSUME W!Goto("stat")
        PROVE  job' \in W!JobType /\ job'.pc = "stat" /\ Fresh(job')
    BY <1>1, <1>4, JobTyped DEF W!Goto, W!JobType, Fresh
  <1>5. ASSUME NEW e \in W!Results \ {"None"}, W!Return(e)
        PROVE  job' \in W!JobType /\ job'.pc = "done" /\ Fresh(job') /\ job'.result # "None"
    BY <1>1, <1>5, JobTyped DEF W!Return, W!JobType, Fresh
  <1>6. /\ job' \in W!JobType /\ job'.pc \in {"open", "stat", "head", "done"} /\ Fresh(job')
        /\ job'.pc = "done" => job'.result # "None"
    BY <1>3, <1>4, <1>5
  <1>7. JobInv'
    <2>1. job'.size \in Nat  BY <1>6, JobTyped
    <2>2. CASE R!IsCommitted(before)
      BY <1>1, <1>6, <2>2 DEF JobInv, LeftAlone, Fresh, R!IsCommitted
    <2>3. CASE ~R!IsCommitted(before)
      <3>1. response'.state = "Uncommitted"  BY <1>1, <2>3 DEF Fresh, R!IsCommitted
      <3>2. WrittenTo'
        BY <1>1, <1>6, <2>1, <3>1 DEF WrittenTo, Fresh
      <3> QED  BY <1>1, <2>3, <3>2 DEF JobInv, R!IsCommitted
    <2> QED  BY <2>2, <2>3
  <1> QED  BY <1>2, <1>6, <1>7 DEF WriterKept

LEMMA SendHeadKeeps ==
  ASSUME job \in W!JobType, Sound(response), JobInv, W!SendHead
  PROVE  WriterKept
  <1>0. /\ job.pc = "head" /\ before' = before /\ Sound(before) /\ response = before
        /\ job.offset = 0 /\ job.reads = 0
    BY DEF W!SendHead, JobInv, LeftAlone, WrittenTo, Fresh
  <1>1. CASE job.size > MaximumSize
    <2>1. W!Return("ResourceExhausted") /\ response' = response  BY <1>1 DEF W!SendHead
    <2>2. "ResourceExhausted" \in W!Results \ {"None"}  BY DEF W!Results
    <2> QED  BY <1>0, <2>1, <2>2, WriterWaits
  <1>2. CASE ~(job.size > MaximumSize)
    <2> DEFINE next == W!Goto(IF job.headersOnly \/ job.size = 0 THEN "complete" ELSE "read")
    <2>1. PICK o \in W!R!Then(W!R!Header(response), LAMBDA s : W!R!Begin(s, job.size)) :
            /\ response' = o.response
            /\ IF o.result = "None" THEN next ELSE W!Return(o.result)
      BY <1>2 DEF W!SendHead, W!Respond
    <2>2. \/ o.result # "None" /\ o \in R!Header(response)
          \/ \E p \in R!Header(response) : p.result = "None" /\ o \in R!Begin(p.response, job.size)
      BY <2>1, Writer DEF W!R!Then
    <2>3. CASE Untouched(o, response)
      <3>1. o.result \in W!Results \ {"None"}
        BY <2>3 DEF Untouched, R!Errors, W!Results, W!ProviderErrors
      <3>2. W!Return(o.result) /\ response' = response  BY <2>1, <2>3, <3>1 DEF Untouched
      <3> QED  BY <1>0, <3>1, <3>2, WriterWaits
    <2>4. ASSUME NEW p \in R!Header(response), p.result = "None", o \in R!Begin(p.response, job.size),
                 ~Untouched(o, response)
          PROVE  WriterKept
      <3>0. /\ response.state = "Uncommitted"
            /\ Is(p.response, "Uncommitted", "head", response.status, NoLength, 0)
        BY <2>4, HeaderSets DEF Untouched, R!Errors
      <3>1. Sound(p.response) /\ p.response.status = response.status
        BY <3>0, SoundIs DEF Is
      <3>2. job.size \in LengthType  BY JobTyped DEF LengthType
      <3>3. CASE Untouched(o, p.response)
        <4>1. o.result \in W!Results \ {"None"} /\ response' = p.response
          BY <2>1, <3>3 DEF Untouched, R!Errors, W!Results, W!ProviderErrors
        <4>2. job' = [job EXCEPT !.pc = "done", !.result = o.result]
          BY <2>1, <4>1 DEF W!Return
        <4>3. /\ job' \in W!JobType /\ job'.pc = "done" /\ job'.result # "None"
              /\ job'.offset = 0 /\ job'.reads = 0 /\ job'.size \in Nat
          BY <1>0, <4>1, <4>2, JobTyped DEF W!JobType
        <4>4. Follows(response, response')
          BY <3>0, <3>1, <4>1 DEF Follows, Moves, Is
        <4>5. JobInv'
          BY <1>0, <3>0, <4>1, <4>3 DEF JobInv, WrittenTo, R!IsCommitted, Is
        <4> QED  BY <1>0, <3>0, <4>3, <4>4, <4>5 DEF WriterKept, R!IsCommitted
      <3>4. CASE o.result = "None" /\ Is(o.response, "Streaming", "body", response.status, job.size, 0)
        <4>1. next /\ Is(response', "Streaming", "body", before.status, job.size, 0)
          BY <1>0, <2>1, <3>4
        <4>2. Follows(response, response')
          <5>1. 0 \in Nat /\ 0 >= response.sent  BY <1>0, <3>0, IsSound DEF Is
          <5>2. Is(response', "Streaming", "body", response.status, job.size, 0)  BY <1>0, <4>1
          <5> QED  BY <3>0, <5>1, <5>2, EndFollows
        <4>3. /\ job' \in W!JobType /\ job'.offset = 0 /\ job'.reads = 0
              /\ job'.size = job.size /\ job'.headersOnly = job.headersOnly
              /\ job'.pc = IF job.headersOnly \/ job.size = 0 THEN "complete" ELSE "read"
          BY <1>0, <4>1, JobTyped DEF W!Goto, W!JobType
        <4>4. WrittenTo'
          <5>1. CASE job.headersOnly \/ job.size = 0
            BY <1>0, <4>1, <4>3, <5>1, JobTyped DEF WrittenTo, BodyOf
          <5>2. CASE ~(job.headersOnly \/ job.size = 0)
            BY <1>0, <4>1, <4>3, <5>2, JobTyped DEF WrittenTo
          <5> QED  BY <5>1, <5>2
        <4>5. JobInv'  BY <1>0, <3>0, <4>4 DEF JobInv, R!IsCommitted
        <4> QED  BY <1>0, <3>0, <4>2, <4>3, <4>5 DEF WriterKept, R!IsCommitted
      <3> QED  BY <2>4, <3>1, <3>2, <3>3, <3>4, BeginBegins
    <2> QED  BY <2>2, <2>3, <2>4, HeaderSets
  <1> QED  BY <1>1, <1>2

(* A read that fails, or a write that fails, ends the response.            *)
LEMMA WriterFails ==
  ASSUME job \in W!JobType, Sound(before), ~R!IsCommitted(before), before' = before,
         NEW r, NEW sent \in Nat, NEW e \in W!Results \ {"None"},
         Is(response, "Streaming", "body", before.status, job.size, job.offset),
         Is(r, "Streaming", "body", before.status, job.size, sent),
         sent >= job.offset, sent <= job.size, job.offset < job.size, job.reads <= job.offset,
         response' = R!Abort(r),
         job' = [job EXCEPT !.pc = "done", !.result = e, !.reads = @ + 1]
  PROVE  WriterKept
  <1>1. Is(response', "Aborted", "aborted", before.status, job.size, sent)
    BY SoundIs, AbortAborts DEF Is
  <1>2. Sound(response) /\ response.status = before.status /\ response.state = "Streaming"
        /\ response.sent = job.offset
    BY SoundIs DEF Is
  <1>3. Follows(response, response')
    BY <1>1, <1>2, EndFollows
  <1>4. /\ job' \in W!JobType /\ job'.pc = "done" /\ job'.result = e
        /\ job'.offset = job.offset /\ job'.reads = job.reads + 1 /\ job'.size = job.size
    BY JobTyped DEF W!JobType
  <1>5. job'.offset <= job'.size /\ job'.reads <= job'.size  BY <1>4, JobTyped
  <1>6. JobInv'
    BY <1>1, <1>4, <1>5 DEF JobInv, WrittenTo, R!IsCommitted, Is
  <1> QED  BY <1>3, <1>4, <1>6 DEF WriterKept, R!IsCommitted

LEMMA ReadKeeps ==
  ASSUME job \in W!JobType, Sound(response), JobInv, W!Read
  PROVE  WriterKept
  <1>0. /\ job.pc = "read" /\ before' = before /\ Sound(before) /\ ~R!IsCommitted(before)
        /\ Is(response, "Streaming", "body", before.status, job.size, job.offset)
        /\ job.offset < job.size /\ job.reads <= job.offset /\ ~job.headersOnly
    BY DEF W!Read, JobInv, LeftAlone, WrittenTo
  <1>1. ASSUME NEW e \in W!Results \ {"None"}, W!Fail(e)
        PROVE  WriterKept
    <2>1. /\ response' = R!Abort(response)
          /\ job' = [job EXCEPT !.pc = "done", !.result = e, !.reads = @ + 1]
      BY <1>1, Writer DEF W!Fail
    <2>2. job.offset \in Nat /\ job.offset >= job.offset /\ job.offset <= job.size  BY <1>0, JobTyped
    <2> QED  BY <1>0, <1>1, <2>1, <2>2, WriterFails
  <1>2. ASSUME NEW n \in 0..(ReadChunkBytes + 1), W!CountIsValid(n), W!WriteChunk(n)
        PROVE  WriterKept
    <2>1. n \in Nat /\ n > 0 /\ job.offset + n <= job.size
      BY <1>2, ExchangeAssumption, JobTyped DEF W!CountIsValid, W!Requested, W!Smaller
    <2>2. PICK o \in R!Write(response, n) :
            IF o.result = "None"
              THEN /\ response' = o.response
                   /\ job' = [job EXCEPT !.offset = @ + n, !.reads = @ + 1,
                                         !.pc = IF job.offset + n < job.size THEN "read" ELSE "complete"]
              ELSE /\ response' = R!Abort(o.response)
                   /\ job' = [job EXCEPT !.pc = "done", !.result = o.result, !.reads = @ + 1]
      BY <1>2, Writer DEF W!WriteChunk
    <2>3. PICK k \in 0..n :
            /\ Is(o.response, "Streaming", "body", before.status, job.size, job.offset + k)
            /\ o.result \in R!Errors \cup {"None"} /\ (o.result = "None" => k = n)
      <3>1. 0 \in 0..n /\ job.offset + 0 = job.offset  BY <2>1, JobTyped
      <3> QED  BY <1>0, <2>1, <3>1, WriteWrites DEF Is
    <2>4. CASE o.result # "None"
      <3>1. o.result \in W!Results \ {"None"}
        BY <2>3, <2>4 DEF R!Errors, W!Results, W!ProviderErrors
      <3>2. /\ job.offset + k \in Nat /\ job.offset + k >= job.offset /\ job.offset + k <= job.size
        BY <2>1, JobTyped
      <3> QED  BY <1>0, <2>2, <2>3, <2>4, <3>1, <3>2, WriterFails
    <2>5. CASE o.result = "None"
      <3>1. Is(response', "Streaming", "body", before.status, job.size, job.offset + n)
        BY <2>2, <2>3, <2>5
      <3>2. /\ job' \in W!JobType /\ job'.size = job.size /\ job'.headersOnly = job.headersOnly
            /\ job'.offset = job.offset + n /\ job'.reads = job.reads + 1
            /\ job'.pc = IF job.offset + n < job.size THEN "read" ELSE "complete"
        <4>1. job.offset + n \in Nat /\ job.reads + 1 \in Nat  BY <2>1, JobTyped
        <4>2. job' = [job EXCEPT !.offset = @ + n, !.reads = @ + 1,
                                 !.pc = IF job.offset + n < job.size THEN "read" ELSE "complete"]
          BY <2>2, <2>5
        <4> QED  BY <4>1, <4>2 DEF W!JobType
      <3>3. Follows(response, response')
        <4>1. job.offset + n \in Nat /\ job.offset + n >= job.offset  BY <2>1, JobTyped
        <4> QED  BY <1>0, <3>1, <4>1, EndFollows DEF Is
      <3>4. job'.reads <= job'.offset /\ job'.offset <= job'.size  BY <1>0, <2>1, <3>2, JobTyped
      <3>5. WrittenTo'
        <4>1. CASE job.offset + n < job.size
          BY <1>0, <3>1, <3>2, <3>4, <4>1 DEF WrittenTo
        <4>2. CASE ~(job.offset + n < job.size)
          <5>1. job.offset + n = job.size  BY <2>1, <4>2, JobTyped
          <5> QED  BY <1>0, <3>1, <3>2, <3>4, <4>2, <5>1 DEF WrittenTo, BodyOf
        <4> QED  BY <4>1, <4>2
      <3>6. JobInv'  BY <1>0, <3>5 DEF JobInv, R!IsCommitted
      <3> QED  BY <1>0, <3>2, <3>3, <3>6 DEF WriterKept
    <2> QED  BY <2>4, <2>5
  <1>3. {"NotFound", "PlatformFailure", "ProtocolError"} \subseteq W!Results \ {"None"}
    BY DEF W!Results, W!ProviderErrors
  <1> QED  BY <1>1, <1>2, <1>3 DEF W!Read, W!ProviderErrors

LEMMA CompleteKeeps ==
  ASSUME job \in W!JobType, Sound(response), JobInv, W!CompleteResponse
  PROVE  WriterKept
  <1>0. /\ job.pc = "complete" /\ before' = before /\ Sound(before) /\ ~R!IsCommitted(before)
        /\ Is(response, "Streaming", "body", before.status, job.size, BodyOf(job))
        /\ job.offset <= job.size /\ job.reads <= job.offset
    BY DEF W!CompleteResponse, JobInv, LeftAlone, WrittenTo
  <1>1. PICK o \in R!Complete(response) :
          /\ response' = o.response
          /\ IF o.result = "None" THEN W!Return("None") ELSE W!Return(o.result)
    BY Writer DEF W!CompleteResponse, W!Respond
  <1>2. \/ o.result \in R!Errors /\ response' = response
        \/ o.result = "None" /\ Is(response', "Completed", "completed", before.status, job.size, BodyOf(job))
    BY <1>0, <1>1, CompleteCompletes DEF Is, R!Errors
  <1>3. o.result \in W!Results
    BY <1>2 DEF R!Errors, W!Results, W!ProviderErrors
  <1>4. job' = [job EXCEPT !.pc = "done", !.result = o.result]  BY <1>1 DEF W!Return
  <1>5. /\ job' \in W!JobType /\ job'.pc = "done" /\ job'.result = o.result /\ job'.size = job.size
        /\ job'.offset = job.offset /\ job'.reads = job.reads /\ job'.headersOnly = job.headersOnly
    BY <1>3, <1>4, JobTyped DEF W!JobType
  <1>6. BodyOf(job) \in Nat /\ BodyOf(job') = BodyOf(job)  BY <1>5, JobTyped DEF BodyOf
  <1>7. Follows(response, response')
    BY <1>0, <1>2, <1>6, SelfFollows, EndFollows DEF Is
  <1>8. job'.offset <= job'.size /\ job'.reads <= job'.size  BY <1>0, <1>5, JobTyped
  <1>9. WrittenTo'
    BY <1>0, <1>2, <1>5, <1>6, <1>8 DEF WrittenTo, Is, R!Errors
  <1>10. JobInv'  BY <1>0, <1>9 DEF JobInv, R!IsCommitted
  <1> QED  BY <1>0, <1>5, <1>7, <1>10 DEF WriterKept

LEMMA WriterContinues ==
  ASSUME job \in W!JobType, Sound(response), JobInv, W!Continue
  PROVE  WriterKept
  <1>1. W!ProviderErrors \subseteq W!Results \ {"None"}  BY DEF W!ProviderErrors, W!Results
  <1>2. CASE W!OpenRead
    BY <1>1, <1>2, WriterWaits DEF W!OpenRead
  <1>3. CASE W!Stat
    BY <1>1, <1>3, WriterWaits DEF W!Stat
  <1> QED  BY <1>2, <1>3, SendHeadKeeps, ReadKeeps, CompleteKeeps DEF W!Continue

LEMMA InvokeStaticKeeps == ASSUME Inv, InvokeStatic PROVE Inv'
  <1>1. Invoking /\ stage \in {"direct", "primary", "fallback"} /\ running = "none"
    BY DEF InvokeStatic, Invoking
  <1>2. /\ job.pc = "idle" /\ ingest.pc = "idle" /\ handed = 0
        /\ stage \in {"direct", "primary"} => response.state = "Uncommitted" /\ author = Nobody
        /\ response.state = "Uncommitted" => author = Nobody
    BY <1>1, AtInvoking
  <1>3. CASE Settle(NotHandled)
    BY <1>1, <1>2, <1>3, Declines, Settled
  <1>4. CASE Settle(Handled("ProtocolError"))
    <2>1. "ProtocolError" \in Errors \cup {"None"}  BY DEF Errors
    <2> QED  BY <1>1, <1>2, <1>4, <2>1, Handles, Settled
  <1>5. CASE /\ W!Call(request.headersOnly, TRUE) /\ running' = "static"
             /\ UNCHANGED <<ingestVars, callVars, stage, errorVars, author>>
    <2> USE DEF Inv
    <2>1. /\ before' = response /\ response' = response /\ running' = "static"
          /\ UNCHANGED <<ingest, handed, request, handling, outcome, stage, error, responder, author>>
      BY <1>5 DEF W!Call, ingestVars, callVars, errorVars
    <2>2. /\ job' \in W!JobType /\ job'.pc \in {"open", "stat", "done"}
          /\ job'.offset = 0 /\ job'.reads = 0 /\ job'.size = 0
          /\ job'.pc = "done" => job'.result # "None"
      <3>1. request.headersOnly \in BOOLEAN  BY DEF TypeOK
      <3>2. {"None", "InvalidConfiguration"} \subseteq W!Results  BY DEF W!Results
      <3>3. CASE ReadChunkBytes = 0
        <4>1. job' = [W!NoJob EXCEPT !.pc = "done", !.result = "InvalidConfiguration"]
          BY <1>5, <3>3 DEF W!Call
        <4> QED  BY <3>2, <4>1 DEF W!NoJob, W!JobType
      <3>4. CASE ReadChunkBytes # 0
        <4>1. job' = [W!NoJob EXCEPT !.pc = IF request.headersOnly THEN "stat" ELSE "open",
                                     !.headersOnly = request.headersOnly]
          BY <1>5, <3>4 DEF W!Call
        <4> QED  BY <3>1, <3>2, <4>1 DEF W!NoJob, W!JobType
      <3> QED  BY <3>3, <3>4
    <2>3. TypeOK'  BY <2>1, <2>2 DEF TypeOK
    <2>4. StageInv'  BY <1>1, <1>2, <2>1, <2>2 DEF StageInv, R!IsCommitted
    <2>5. JobInv'
      BY <2>1, <2>2 DEF JobInv, StageInv, LeftAlone, WrittenTo, Fresh, R!IsCommitted
    <2>6. IngestInv'  BY <1>2, <2>1 DEF IngestInv
    <2>7. AuthorInv'
      BY <1>1, <1>2, <2>1 DEF AuthorInv, HeadHasAuthor, Nobody, R!IsCommitted
    <2>8. HandInv'  BY <1>1, <1>2, <2>1 DEF HandInv
    <2>9. EndInv'  BY <1>1, <2>1 DEF EndInv
    <2> QED  BY <2>3, <2>4, <2>5, <2>6, <2>7, <2>8, <2>9
  <1> QED  BY <1>3, <1>4, <1>5 DEF InvokeStatic

LEMMA Writes ==
  ASSUME Inv, WriteResource
  PROVE  /\ stage \in {"direct", "primary", "fallback", "mapped"}
         /\ stage # "mapped" => running = "static"
         /\ stage = "mapped" => ~R!IsCommitted(before)
         /\ job.pc # "idle" /\ ingest.pc = "idle"
         /\ WriterKept /\ Credit(stage)
         /\ UNCHANGED <<ingest, handed, request, handling, outcome, stage, running, error, responder>>
  <1> USE DEF Inv
  <1>1. /\ W!Continue /\ Credit(stage)
        /\ UNCHANGED <<ingest, handed, request, handling, outcome, stage, running, error, responder>>
    BY DEF WriteResource, ingestVars, callVars, errorVars
  <1>2. job.pc \notin {"idle", "done"}
    BY <1>1 DEF W!Continue, W!OpenRead, W!Stat, W!SendHead, W!Read, W!CompleteResponse
  <1>3. /\ stage \in {"direct", "primary", "fallback", "mapped"}
        /\ stage # "mapped" => running = "static"
        /\ stage = "mapped" => ~R!IsCommitted(before)
        /\ ingest.pc = "idle"
    BY <1>2 DEF StageInv, TypeOK
  <1>4. WriterKept  BY <1>1, WriterContinues DEF StageInv, TypeOK
  <1> QED  BY <1>1, <1>2, <1>3, <1>4

LEMMA WriteResourceKeeps == ASSUME Inv, WriteResource PROVE Inv'
  <1> USE DEF Inv
  <1>1. /\ stage \in {"direct", "primary", "fallback", "mapped"}
        /\ stage # "mapped" => running = "static"
        /\ stage = "mapped" => ~R!IsCommitted(before)
        /\ job.pc # "idle" /\ ingest.pc = "idle" /\ Credit(stage)
        /\ UNCHANGED <<ingest, handed, request, handling, outcome, stage, running, error, responder>>
    BY Writes
  <1>2. /\ before' = before /\ job' \in W!JobType /\ job'.pc # "idle"
        /\ Follows(response, response') /\ JobInv'
        /\ R!IsCommitted(before) => response' = response
    BY Writes DEF WriterKept
  <1>3. Sound(response) /\ HeadHasAuthor /\ Sound(response')
    BY <1>2 DEF StageInv, AuthorInv, Follows, Moves
  <1>4. /\ author' \in [stage : {"nobody", "direct", "primary", "fallback", "responder", "mapped"},
                        ran : {"none", "app", "static", "ingress"}]
        /\ HeadHasAuthor'
        /\ \/ author' = author
           \/ author = Nobody /\ author' = [stage |-> stage, ran |-> running]
    BY <1>1, <1>2, <1>3, Credited DEF Follows
  <1>5. TypeOK'
    BY <1>1, <1>2, <1>3, <1>4, IsSound
    DEF TypeOK, HandlerResult, ResponseType, States, Phases, StatusType, LengthType
  <1>6. StageInv'
    BY <1>1, <1>2, <1>3 DEF StageInv, R!IsCommitted
  <1>7. IngestInv'  BY <1>1 DEF IngestInv
  <1>8. AuthorInv'
    <2>1. response.state = "Aborted" => response'.state = "Aborted"  BY <1>2 DEF Follows, Moves
    <2>2. author.stage # "responder" /\ (stage # "mapped" => author.stage # "mapped")
      BY <1>1 DEF AuthorInv, Nobody
    <2>3. author'.stage # "responder" /\ (stage # "mapped" => author'.stage # "mapped")
      BY <1>1, <1>4, <2>2
    <2>4. stage = "mapped" => response'.status = MappedStatus
      <3>1. job'.pc # "idle" /\ (stage = "mapped" => ~R!IsCommitted(before)')
        BY <1>1, <1>2 DEF R!IsCommitted
      <3>2. stage = "mapped" => response'.status = before'.status
        <4>1. stage = "mapped" => WrittenTo'  BY <1>2, <3>1 DEF JobInv
        <4>2. job'.pc \in {"open", "stat", "head", "read", "complete", "done"}
          BY <1>2 DEF W!JobType
        <4> QED  BY <4>1, <4>2 DEF WrittenTo, Fresh, Is
      <3> QED  BY <1>2, <3>2 DEF StageInv
    <2>5. CASE author' = author
      BY <1>1, <1>2, <1>4, <2>1, <2>3, <2>4, <2>5 DEF AuthorInv, R!IsCommitted
    <2>6. CASE author = Nobody /\ author' = [stage |-> stage, ran |-> running]
      BY <1>1, <1>4, <2>3, <2>4, <2>6 DEF AuthorInv
    <2> QED  BY <1>4, <2>5, <2>6
  <1>9. HandInv'
    <2>1. response'.status = "Accepted" => response.status = "Accepted"
      BY <1>2, AcceptedAssumption DEF Follows
    <2> QED  BY <1>1, <2>1 DEF HandInv
  <1>10. EndInv'  BY <1>1 DEF EndInv
  <1> QED  BY <1>2, <1>5, <1>6, <1>7, <1>8, <1>9, <1>10

LEMMA StaticReturnsKeeps == ASSUME Inv, StaticReturns PROVE Inv'
  <1> USE DEF Inv
  <1>1. /\ running = "static" /\ job.pc = "done" /\ stage \in {"direct", "primary", "fallback"}
        /\ ingest.pc = "idle" /\ job.result \in Errors \cup {"None"}
    BY DEF StaticReturns, StageInv, TypeOK, W!JobType, W!Results, W!ProviderErrors, Errors
  <1>2. handed = 0  BY <1>1 DEF HandInv
  <1>3. CASE job.result = "NotFound"
    <2>1. stage = "primary" => author = Nobody \/ response.state = "Aborted"
      <3>1. stage = "primary" => ~R!IsCommitted(before) /\ WrittenTo
        BY <1>1 DEF StageInv, JobInv
      <3>2. stage = "primary" => response.state \in {"Uncommitted", "Aborted"}
        BY <1>1, <1>3, <3>1, IsSound DEF WrittenTo, StageInv, States
      <3> QED  BY <3>2 DEF StageInv, Sound, AuthorInv, HeadHasAuthor
    <2>2. Settle(NotHandled)  BY <1>3 DEF StaticReturns
    <2> QED  BY <1>1, <1>2, <2>1, <2>2, Declines, Settled
  <1>4. CASE job.result # "NotFound"
    <2>1. Settle(Handled(job.result))  BY <1>4 DEF StaticReturns
    <2> QED  BY <1>1, <1>2, <2>1, Handles, Settled
  <1> QED  BY <1>3, <1>4

-----------------------------------------------------------------------------
(* The ingress handlers and the state handler.                             *)
IngestKept == /\ ingest' \in I!IngestType /\ ingest.pc # "idle" /\ ingest'.pc # "idle"
              /\ IngestInv'
              /\ Moves(response, response')
              /\ \/ response'.status \in {response.status, DefaultStatus}
                 \/ response'.status = "Accepted" /\ ingest.pc = "accept" /\ handed' = 1
              /\ R!IsCommitted(response) => response' = response
              /\ \/ handed' = handed /\ ingest'.pc # "accept"
                 \/ handed = 0 /\ handed' = 1 /\ ingest'.pc = "accept"
              /\ handed' = 1 => /\ ingest'.pc \in {"accept", "done"}
                                /\ ingest'.pc = "done" /\ ingest'.result = "None" =>
                                     response'.status = "Accepted"

LEMMA Wraps == \A n \in I!Ids : I!FetchAdd(n) \in I!Ids
  BY ExchangeAssumption DEF I!Ids, I!FetchAdd

(* What a step that leaves the response alone and hands nothing over does. *)
LEMMA IngestStays ==
  ASSUME Sound(response), response' = response, handed' = handed, handed = 0,
         ingest' \in I!IngestType, ingest.pc # "idle", ingest'.pc \notin {"idle", "accept"}, IngestInv'
  PROVE  IngestKept
  BY DEF IngestKept, Moves

LEMMA IdKeeps ==
  ASSUME Sound(response), ingest \in I!IngestType, IngestInv, handed = 0,
         I!TakeId \/ I!TakeAnotherId
  PROVE  IngestKept
  <1>1. /\ ingest.pc \in {"id", "again"} /\ response' = response /\ handed' = handed
        /\ \E pc \in {"again", "read"} :
             ingest' = [ingest EXCEPT !.id = ingest.counter, !.counter = I!FetchAdd(@), !.pc = pc]
    BY DEF I!TakeId, I!TakeAnotherId
  <1>2. ingest.counter \in I!Ids /\ I!FetchAdd(ingest.counter) \in I!Ids
    BY Wraps DEF I!IngestType
  <1>3. /\ ingest' \in I!IngestType /\ ingest'.pc \in {"again", "read"}
        /\ ingest'.offset = ingest.offset /\ ingest'.declared = ingest.declared
    BY <1>1, <1>2 DEF I!IngestType
  <1>4. IngestInv'
    BY <1>1, <1>3, ExchangeAssumption DEF IngestInv, Limit
  <1> QED  BY <1>1, <1>3, <1>4, IngestStays

LEMMA ReadBodyKeeps ==
  ASSUME Sound(response), ingest \in I!IngestType, IngestInv, handed = 0, I!ReadBody
  PROVE  IngestKept
  <1>1. ingest.pc = "read" /\ response' = response /\ handed' = handed  BY DEF I!ReadBody
  <1>2. ASSUME NEW e \in {"RequestTooLarge", "ConnectionFailure", "ProtocolError"}, I!Return(e)
        PROVE  IngestKept
    <2>1. ingest' \in I!IngestType /\ ingest'.pc = "done"
      BY <1>2 DEF I!Return, I!IngestType, I!ReadErrors
    <2>2. IngestInv'  BY <2>1 DEF IngestInv
    <2> QED  BY <1>1, <2>1, <2>2, IngestStays
  <1>3. ASSUME NEW n \in 0..I!Capacity, NEW last \in BOOLEAN, I!Advance(n, last),
               ~(ingest.declared = NoLength /\ ingest.offset >= MaximumBytes)
        PROVE  IngestKept
    <2> DEFINE offset == ingest.offset + n
               whole  == last /\ ingest.declared \in {offset, NoLength}
    <2>1. /\ ingest.offset \in Nat /\ ingest.declared \in LengthType /\ ingest.offset <= Limit
          /\ ingest.declared = NoLength \/ ingest.declared \in 1..MaximumBytes
      BY <1>1 DEF I!IngestType, IngestInv, LengthType
    <2>2. n \in Nat /\ offset \in Nat /\ offset <= Limit /\ Limit <= MaximumBytes
      <3>1. CASE ingest.declared = NoLength
        <4>1. I!Capacity \in Nat /\ I!Capacity <= MaximumBytes - ingest.offset /\ Limit = MaximumBytes
          BY <1>3, <2>1, <3>1, ExchangeAssumption DEF I!Capacity, I!Smaller, Limit
        <4> QED  BY <2>1, <4>1, ExchangeAssumption
      <3>2. CASE ingest.declared # NoLength
        <4>1. /\ ingest.declared \in 1..MaximumBytes /\ Limit = ingest.declared
              /\ I!Capacity = ingest.declared - ingest.offset
          BY <2>1, <3>2 DEF I!Capacity, Limit
        <4> QED  BY <2>1, <4>1, ExchangeAssumption
      <3> QED  BY <3>1, <3>2
    <2>3. PICK e \in {"ProtocolError", "None"} :
            /\ ingest' = [ingest EXCEPT !.offset = offset, !.ended = last, !.result = e,
                                        !.pc = IF e # "None" THEN "done"
                                               ELSE IF whole THEN "handOver" ELSE "read"]
            /\ whole /\ e = "None" => offset # 0
      <3> DEFINE e == CASE whole -> IF offset = 0 THEN "ProtocolError" ELSE "None"
                        [] ~whole /\ (last \/ n = 0 \/ offset = ingest.declared) -> "ProtocolError"
                        [] OTHER -> "None"
      <3>1. ingest' = [ingest EXCEPT !.offset = offset, !.ended = last, !.result = e,
                                     !.pc = IF e # "None" THEN "done"
                                            ELSE IF whole THEN "handOver" ELSE "read"]
        BY <1>3 DEF I!Advance
      <3>2. e \in {"ProtocolError", "None"}  OBVIOUS
      <3>3. whole /\ e = "None" => offset # 0  OBVIOUS
      <3> HIDE DEF e, whole, offset
      <3> QED  BY <3>1, <3>2, <3>3
    <2>4. /\ ingest' \in I!IngestType /\ ingest'.pc \in {"done", "handOver", "read"}
          /\ ingest'.offset = offset /\ ingest'.ended = last /\ ingest'.declared = ingest.declared
          /\ ingest'.pc = "handOver" => whole /\ offset # 0
      <3> HIDE DEF offset, whole
      <3> QED  BY <2>2, <2>3 DEF I!IngestType
    <2>5. IngestInv'
      BY <2>1, <2>2, <2>4, ExchangeAssumption DEF IngestInv, Limit
    <2> QED  BY <1>1, <2>4, <2>5, IngestStays
  <1> QED  BY <1>2, <1>3 DEF I!ReadBody, I!ReadErrors

LEMMA HandOverKeeps ==
  ASSUME Sound(response), ingest \in I!IngestType, IngestInv, handed = 0, I!HandOver
  PROVE  IngestKept
  <1>1. ingest.pc = "handOver" /\ response' = response  BY DEF I!HandOver
  <1>2. CASE ingest' = [ingest EXCEPT !.pc = "accept"] /\ handed' = handed + 1
    <2>1. /\ ingest' \in I!IngestType /\ ingest'.pc = "accept" /\ handed' = 1
          /\ ingest'.declared = ingest.declared
      BY <1>2 DEF I!IngestType
    <2>2. IngestInv'  BY <1>1, <2>1 DEF IngestInv
    <2> QED  BY <1>1, <2>1, <2>2 DEF IngestKept, Moves
  <1>3. ASSUME NEW e \in {"ResourceExhausted", "PlatformFailure"}, I!Return(e), handed' = handed
        PROVE  IngestKept
    <2>1. ingest' \in I!IngestType /\ ingest'.pc = "done"
      BY <1>3 DEF I!Return, I!IngestType
    <2>2. IngestInv'  BY <2>1 DEF IngestInv
    <2> QED  BY <1>1, <1>3, <2>1, <2>2, IngestStays
  <1> QED  BY <1>2, <1>3 DEF I!HandOver

LEMMA AcceptKeeps ==
  ASSUME Sound(response), ingest \in I!IngestType, IngestInv, handed = 1, I!Accept
  PROVE  IngestKept
  <1>1. ingest.pc = "accept" /\ handed' = handed  BY DEF I!Accept
  <1>2. PICK o \in I!R!Then(I!R!Status(response, "Accepted"), LAMBDA r : I!R!Complete(r)) :
          response' = o.response /\ I!Return(o.result)
    BY DEF I!Accept
  <1>3. \/ o.result # "None" /\ o \in R!Status(response, "Accepted")
        \/ \E p \in R!Status(response, "Accepted") : p.result = "None" /\ o \in R!Complete(p.response)
    BY <1>2, Ingress DEF I!R!Then
  <1>4. "Accepted" \in StatusType  BY DEF StatusType
  <1>5. /\ o.result \in R!Errors \cup {"None"}
        /\ \/ Untouched(o, response)
           \/ /\ response.state = "Uncommitted" /\ Moves(response, o.response)
              /\ o.response.status = "Accepted"
    <2>1. CASE o.result # "None" /\ o \in R!Status(response, "Accepted")
      BY <1>4, <2>1, StatusSets DEF Untouched
    <2>2. ASSUME NEW p \in R!Status(response, "Accepted"), p.result = "None", o \in R!Complete(p.response)
          PROVE  /\ o.result \in R!Errors \cup {"None"}
                 /\ response.state = "Uncommitted" /\ Moves(response, o.response)
                 /\ o.response.status = "Accepted"
      <3>1. /\ response.state = "Uncommitted" /\ response.sent = 0
            /\ Is(p.response, "Uncommitted", "head", "Accepted", NoLength, 0)
        BY <1>4, <2>2, StatusSets, IsSound DEF Untouched, R!Errors, Is
      <3>2. Sound(p.response)  BY <3>1, SoundIs
      <3>3. /\ o.result \in R!Errors \cup {"None"}
            /\ \/ o.response = p.response
               \/ Is(o.response, "Streaming", "body", "Accepted", 0, 0)
               \/ Is(o.response, "Completed", "completed", "Accepted", 0, 0)
        BY <2>2, <3>1, <3>2, CompleteCompletes DEF Is, R!Errors
      <3>4. Sound(o.response)  BY <3>2, <3>3, SoundIs
      <3> QED  BY <3>1, <3>3, <3>4 DEF Moves, Is
    <2> QED  BY <1>3, <2>1, <2>2
  <1>6. ingest' \in I!IngestType /\ ingest'.pc = "done" /\ ingest'.result = o.result
    BY <1>2, <1>5 DEF I!Return, I!IngestType, R!Errors
  <1>7. IngestInv'  BY <1>6 DEF IngestInv
  <1>8. CASE Untouched(o, response)
    <2>1. response' = response /\ ingest'.result # "None"
      BY <1>2, <1>6, <1>8 DEF Untouched, R!Errors
    <2> QED  BY <1>1, <1>6, <1>7, <2>1 DEF IngestKept, Moves
  <1>9. CASE /\ response.state = "Uncommitted" /\ Moves(response, o.response)
             /\ o.response.status = "Accepted"
    BY <1>1, <1>2, <1>6, <1>7, <1>9 DEF IngestKept, R!IsCommitted
  <1> QED  BY <1>5, <1>8, <1>9

(* The answer of the state handler: its calls in order.                    *)
LEMMA StateIsWritten ==
  ASSUME Sound(response), NEW headersOnly \in BOOLEAN, NEW n \in Nat,
         NEW o \in I!WriteState(headersOnly, n), DefaultStatus \in StatusType
  PROVE  /\ o.result \in R!Errors \cup {"None"}
         /\ \/ Untouched(o, response)
            \/ /\ response.state = "Uncommitted" /\ Moves(response, o.response)
               /\ o.response.status = DefaultStatus
  <1> DEFINE Body(b) == IF headersOnly THEN R!Returns(b, "None")
                        ELSE {IF q.result = "None" THEN q
                              ELSE [q EXCEPT !.response = R!Abort(@)] : q \in R!Write(b, n)}
             Written(b) == R!Then(Body(b), LAMBDA w : R!Complete(w))
             Begun(h) == R!Then(R!Begin(h, n), LAMBDA b : Written(b))
             Headed(s) == R!Then(R!Header(s), LAMBDA h : Begun(h))
  <1>1. \/ o.result # "None" /\ o \in R!Status(response, DefaultStatus)
        \/ \E p \in R!Status(response, DefaultStatus) : p.result = "None" /\ o \in Headed(p.response)
    BY Ingress DEF I!WriteState, I!R!Then, R!Then, I!R!Returns, I!R!Outcome, R!Returns, R!Outcome
  <1>2. CASE o.result # "None" /\ o \in R!Status(response, DefaultStatus)
    BY <1>2, StatusSets DEF Untouched
  <1>3. ASSUME NEW p \in R!Status(response, DefaultStatus), p.result = "None", o \in Headed(p.response)
        PROVE  /\ o.result \in R!Errors \cup {"None"}
               /\ response.state = "Uncommitted" /\ Moves(response, o.response)
               /\ o.response.status = DefaultStatus
    <2> DEFINE Ends(q) == \E declared \in LengthType, sent \in Nat :
                            \/ Is(q, "Uncommitted", "head", DefaultStatus, NoLength, 0)
                            \/ Is(q, "Streaming", "body", DefaultStatus, declared, sent)
                            \/ Is(q, "Completed", "completed", DefaultStatus, declared, sent)
                            \/ Is(q, "Aborted", "aborted", DefaultStatus, declared, sent)
    <2>1. /\ response.state = "Uncommitted" /\ response.sent = 0
          /\ Is(p.response, "Uncommitted", "head", DefaultStatus, NoLength, 0)
      BY <1>3, StatusSets, IsSound DEF Untouched, R!Errors, Is
    <2>2. /\ Sound(p.response) /\ p.response.status = DefaultStatus
          /\ p.response.state = "Uncommitted"
      BY <2>1, SoundIs DEF Is
    <2>3. 0 \in Nat /\ 0 \in LengthType /\ n \in LengthType /\ NoLength \in LengthType
      BY DEF LengthType
    <2>4. ASSUME NEW q, Ends(q)
          PROVE  Moves(response, q) /\ q.status = DefaultStatus
      <3>1. Sound(q) /\ q.status = DefaultStatus  BY <2>4, SoundIs DEF Is
      <3>2. q.sent \in Nat  BY <3>1, IsSound
      <3> QED  BY <2>1, <3>1, <3>2 DEF Moves
    <2>5. o.result \in R!Errors \cup {"None"} /\ Ends(o.response)
      <3>1. \/ o.result # "None" /\ o \in R!Header(p.response)
            \/ \E h \in R!Header(p.response) : h.result = "None" /\ o \in Begun(h.response)
        BY <1>3 DEF R!Then
      <3> HIDE DEF Begun
      <3>2. CASE o.result # "None" /\ o \in R!Header(p.response)
        BY <2>1, <2>2, <2>3, <3>2, HeaderSets DEF Untouched
      <3>3. ASSUME NEW h \in R!Header(p.response), h.result = "None", o \in Begun(h.response)
            PROVE  o.result \in R!Errors \cup {"None"} /\ Ends(o.response)
        <4>1. Is(h.response, "Uncommitted", "head", DefaultStatus, NoLength, 0)
          BY <2>2, <3>3, HeaderSets DEF Untouched, R!Errors
        <4>2. Sound(h.response) /\ h.response.status = DefaultStatus  BY <4>1, SoundIs DEF Is
        <4>3. \/ o.result # "None" /\ o \in R!Begin(h.response, n)
              \/ \E b \in R!Begin(h.response, n) : b.result = "None" /\ o \in Written(b.response)
          BY <3>3 DEF R!Then, Begun
        <4> HIDE DEF Written
        <4>4. CASE o.result # "None" /\ o \in R!Begin(h.response, n)
          BY <2>3, <4>1, <4>2, <4>4, BeginBegins DEF Untouched
        <4>5. ASSUME NEW b \in R!Begin(h.response, n), b.result = "None", o \in Written(b.response)
              PROVE  o.result \in R!Errors \cup {"None"} /\ Ends(o.response)
          <5>1. Is(b.response, "Streaming", "body", DefaultStatus, n, 0)
            BY <2>3, <4>2, <4>5, BeginBegins DEF Untouched, R!Errors
          <5>2. /\ Sound(b.response) /\ b.response.status = DefaultStatus /\ b.response.declared = n
                /\ b.response.sent = 0 /\ b.response.state = "Streaming"
            BY <5>1, SoundIs DEF Is
          <5>3. ASSUME NEW w \in Body(b.response)
                PROVE  /\ w.result \in R!Errors \cup {"None"}
                       /\ \E k \in 0..n :
                            /\ w.result # "None" => Is(w.response, "Aborted", "aborted", DefaultStatus, n, k)
                            /\ w.result = "None" => Is(w.response, "Streaming", "body", DefaultStatus, n, k)
            <6>1. CASE headersOnly
              BY <5>1, <5>3, <6>1 DEF R!Returns, R!Outcome
            <6>2. CASE ~headersOnly
              <7>1. PICK q \in R!Write(b.response, n) :
                      w = IF q.result = "None" THEN q ELSE [q EXCEPT !.response = R!Abort(@)]
                BY <5>3, <6>2
              <7>2. /\ q.result \in R!Errors \cup {"None"}
                    /\ \E k \in 0..n : Is(q.response, "Streaming", "body", DefaultStatus, n, k)
                <8>1. 0 \in 0..n /\ \A k \in 0..n : 0 + k = k  OBVIOUS
                <8> QED  BY <5>1, <5>2, <8>1, WriteWrites
              <7>3. PICK k \in 0..n : Is(q.response, "Streaming", "body", DefaultStatus, n, k)
                BY <7>2
              <7>4. Sound(q.response)  BY <7>3, SoundIs
              <7>5. Is(R!Abort(q.response), "Aborted", "aborted", DefaultStatus, n, k)
                BY <7>3, <7>4, AbortAborts DEF Is
              <7>6. q = [response |-> q.response, result |-> q.result]
                BY DEF R!Write, R!Then, R!Begin, R!PlatformBegin, R!PlatformWrite, R!Returns, R!Outcome
              <7> QED  BY <7>1, <7>2, <7>3, <7>5, <7>6
            <6> QED  BY <6>1, <6>2
          <5>4. \/ o.result # "None" /\ o \in Body(b.response)
                \/ \E w \in Body(b.response) : w.result = "None" /\ o \in R!Complete(w.response)
            BY <4>5 DEF R!Then, Written
          <5> HIDE DEF Body
          <5>5. CASE o.result # "None" /\ o \in Body(b.response)
            BY <2>3, <5>3, <5>5
          <5>6. ASSUME NEW w \in Body(b.response), w.result = "None", o \in R!Complete(w.response)
                PROVE  o.result \in R!Errors \cup {"None"} /\ Ends(o.response)
            <6>1. PICK k \in 0..n : Is(w.response, "Streaming", "body", DefaultStatus, n, k)
              BY <5>3, <5>6
            <6>2. Sound(w.response)  BY <6>1, SoundIs
            <6> QED  BY <2>3, <5>6, <6>1, <6>2, CompleteCompletes DEF Is, R!Errors
          <5> QED  BY <5>4, <5>5, <5>6
        <4> QED  BY <4>3, <4>4, <4>5
      <3> QED  BY <3>1, <3>2, <3>3
    <2> HIDE DEF Ends
    <2> QED  BY <2>1, <2>4, <2>5
  <1> HIDE DEF Headed
  <1> QED  BY <1>1, <1>2, <1>3

LEMMA SnapshotKeeps ==
  ASSUME Sound(response), ingest \in I!IngestType, IngestInv, handed = 0,
         NEW headersOnly \in BOOLEAN, I!Snapshot(headersOnly)
  PROVE  IngestKept
  <1>1. ingest.pc = "snapshot" /\ handed' = handed  BY DEF I!Snapshot
  <1>2. ASSUME NEW e \in {"NotFound", "ResourceExhausted", "ProtocolError"}, I!Return(e),
               response' = response
        PROVE  IngestKept
    <2>1. ingest' \in I!IngestType /\ ingest'.pc = "done"
      BY <1>2 DEF I!Return, I!IngestType
    <2>2. IngestInv'  BY <2>1 DEF IngestInv
    <2> QED  BY <1>1, <1>2, <2>1, <2>2, IngestStays
  <1>3. ASSUME NEW n \in PayloadBytes, NEW o \in I!WriteState(headersOnly, n),
               response' = o.response, I!Return(o.result)
        PROVE  IngestKept
    <2>1. n \in Nat /\ DefaultStatus \in StatusType  BY ExchangeAssumption DEF StatusType
    <2>2. /\ o.result \in R!Errors \cup {"None"}
          /\ \/ Untouched(o, response)
             \/ /\ response.state = "Uncommitted" /\ Moves(response, o.response)
                /\ o.response.status = DefaultStatus
      BY <2>1, StateIsWritten
    <2>3. ingest' \in I!IngestType /\ ingest'.pc = "done"
      BY <1>3, <2>2 DEF I!Return, I!IngestType, R!Errors
    <2>4. IngestInv'  BY <2>3 DEF IngestInv
    <2> QED  BY <1>1, <1>3, <2>2, <2>3, <2>4 DEF IngestKept, Moves, Untouched, R!IsCommitted
  <1> QED  BY <1>2, <1>3 DEF I!Snapshot

LEMMA InvokeIngressKeeps ==
  ASSUME Inv, NEW kind \in {"event", "command", "state"}, InvokeIngress(kind)
  PROVE  Inv'
  <1>1. Invoking /\ stage \in {"direct", "primary", "fallback"} /\ running = "none"
    BY DEF InvokeIngress, Invoking
  <1>2. /\ job.pc = "idle" /\ ingest.pc = "idle" /\ handed = 0
        /\ stage \in {"direct", "primary"} => response.state = "Uncommitted" /\ author = Nobody
    BY <1>1, AtInvoking
  <1>3. CASE Settle(NotHandled)
    BY <1>1, <1>2, <1>3, Declines, Settled
  <1>4. CASE ~Settle(NotHandled)
    <2> USE DEF Inv
    <2>1. /\ running' = "ingress"
          /\ UNCHANGED <<response, job, before, handed, request, handling, outcome, stage, error, responder, author>>
      BY <1>4 DEF InvokeIngress, writerVars, callVars, errorVars
    <2>2. I!NoIngest \in I!IngestType
      BY ExchangeAssumption DEF I!NoIngest, I!IngestType, I!Ids
    <2>3. /\ ingest' \in I!IngestType /\ ingest'.pc \in {"snapshot", "done", "id", "read"}
          /\ ingest'.offset = 0
          /\ ingest'.pc \in {"id", "read"} =>
               ingest'.declared = NoLength \/ ingest'.declared \in 1..MaximumBytes
      <3>1. CASE ingest' = [I!NoIngest EXCEPT !.pc = "snapshot", !.kind = kind]
        BY <2>2, <3>1 DEF I!NoIngest, I!IngestType
      <3>2. ASSUME NEW connected \in BOOLEAN, NEW declared \in (0..MaximumBytes + 1) \cup {NoLength},
                   I!Receive(kind, connected, declared)
            PROVE  /\ ingest' \in I!IngestType /\ ingest'.pc \in {"done", "id", "read"}
                   /\ ingest'.offset = 0
                   /\ ingest'.pc \in {"id", "read"} =>
                        ingest'.declared = NoLength \/ ingest'.declared \in 1..MaximumBytes
        <4> DEFINE e == IF kind = "event" /\ ~connected THEN "NotRunning"
                        ELSE I!DeclaredLengthError(declared)
        <4>1. PICK counter \in IF kind = "command" THEN I!Ids ELSE {0} :
                ingest' = [I!NoIngest EXCEPT !.kind = kind, !.declared = declared, !.counter = counter,
                             !.pc = IF e # "None" THEN "done" ELSE IF kind = "command" THEN "id" ELSE "read",
                             !.result = e]
          BY <3>2 DEF I!Receive
        <4>2. counter \in I!Ids  BY ExchangeAssumption DEF I!Ids
        <4>3. declared \in Nat \cup {NoLength}  BY ExchangeAssumption
        <4>4. /\ e \in {"None", "NotRunning", "RequestTooLarge", "ProtocolError"}
              /\ e = "None" => declared = NoLength \/ declared \in 1..MaximumBytes
          BY ExchangeAssumption DEF I!DeclaredLengthError
        <4> HIDE DEF e
        <4>5. ingest' \in I!IngestType
          BY <2>2, <4>1, <4>2, <4>3, <4>4 DEF I!IngestType
        <4>6. ingest'.pc \in {"done", "id", "read"} /\ ingest'.offset = 0 /\ ingest'.declared = declared
              /\ (ingest'.pc # "done" => e = "None")
          BY <4>1, <4>4 DEF I!NoIngest
        <4> QED  BY <4>4, <4>5, <4>6
      <3> QED  BY <1>4, <3>1, <3>2 DEF InvokeIngress
    <2>4. TypeOK'  BY <2>1, <2>3 DEF TypeOK
    <2>5. StageInv'  BY <1>1, <1>2, <2>1, <2>3 DEF StageInv
    <2>6. JobInv'  BY <1>2, <2>1 DEF JobInv
    <2>7. IngestInv'
      <3>1. 0 <= Limit'  BY <2>3, ExchangeAssumption DEF Limit, I!IngestType
      <3> QED  BY <2>3, <3>1 DEF IngestInv
    <2>8. AuthorInv'  BY <1>1, <1>2, <2>1 DEF AuthorInv, HeadHasAuthor
    <2>9. HandInv'  BY <1>1, <1>2, <2>1, <2>3 DEF HandInv
    <2>10. EndInv'  BY <1>1, <2>1 DEF EndInv
    <2> QED  BY <2>4, <2>5, <2>6, <2>7, <2>8, <2>9, <2>10
  <1> QED  BY <1>3, <1>4

LEMMA IngressGoes ==
  ASSUME Inv, IngressGoesOn
  PROVE  /\ stage \in {"direct", "primary", "fallback"} /\ running = "ingress"
         /\ job.pc = "idle"
         /\ IngestKept /\ Credit(stage)
         /\ UNCHANGED <<job, before, request, handling, outcome, stage, running, error, responder>>
  <1> USE DEF Inv
  <1>1. /\ I!Continue \/ I!Snapshot(request.headersOnly)
        /\ Credit(stage)
        /\ UNCHANGED <<job, before, request, handling, outcome, stage, running, error, responder>>
    BY DEF IngressGoesOn, writerVars, callVars, errorVars
  <1>2. ingest.pc \notin {"idle", "done"}
    BY <1>1 DEF I!Continue, I!Snapshot, I!TakeId, I!TakeAnotherId, I!ReadBody, I!HandOver, I!Accept
  <1>3. stage \in {"direct", "primary", "fallback"} /\ running = "ingress" /\ job.pc = "idle"
    BY <1>2 DEF StageInv
  <1>4. /\ ingest.pc # "accept" => handed = 0
        /\ ingest.pc = "accept" => handed = 1
    BY <1>2, <1>3 DEF HandInv
  <1>5. Sound(response) /\ ingest \in I!IngestType /\ IngestInv /\ request.headersOnly \in BOOLEAN
    BY DEF StageInv, TypeOK
  <1>6. ASSUME I!TakeId \/ I!TakeAnotherId PROVE IngestKept
    <2>1. ingest.pc # "accept"  BY <1>6 DEF I!TakeId, I!TakeAnotherId
    <2> QED  BY <1>4, <1>5, <1>6, <2>1, IdKeeps
  <1>7. ASSUME I!ReadBody PROVE IngestKept
    <2>1. ingest.pc # "accept"  BY <1>7 DEF I!ReadBody
    <2> QED  BY <1>4, <1>5, <1>7, <2>1, ReadBodyKeeps
  <1>8. ASSUME I!HandOver PROVE IngestKept
    <2>1. ingest.pc # "accept"  BY <1>8 DEF I!HandOver
    <2> QED  BY <1>4, <1>5, <1>8, <2>1, HandOverKeeps
  <1>9. ASSUME I!Accept PROVE IngestKept
    <2>1. ingest.pc = "accept"  BY <1>9 DEF I!Accept
    <2> QED  BY <1>4, <1>5, <1>9, <2>1, AcceptKeeps
  <1>10. ASSUME I!Snapshot(request.headersOnly) PROVE IngestKept
    <2>1. ingest.pc # "accept"  BY <1>10 DEF I!Snapshot
    <2> QED  BY <1>4, <1>5, <1>10, <2>1, SnapshotKeeps
  <1>11. IngestKept  BY <1>1, <1>6, <1>7, <1>8, <1>9, <1>10 DEF I!Continue
  <1> QED  BY <1>1, <1>3, <1>11

LEMMA IngressGoesOnKeeps == ASSUME Inv, IngressGoesOn PROVE Inv'
  <1> USE DEF Inv
  <1>1. /\ stage \in {"direct", "primary", "fallback"} /\ running = "ingress" /\ job.pc = "idle"
        /\ Credit(stage)
        /\ UNCHANGED <<job, before, request, handling, outcome, stage, running, error, responder>>
    BY IngressGoes
  <1>2. IngestKept  BY IngressGoes
  <1>3. /\ Sound(response) /\ HeadHasAuthor /\ Sound(response') /\ Moves(response, response')
        /\ ingest' \in I!IngestType /\ ingest'.pc # "idle" /\ IngestInv'
        /\ handed' \in Nat
    BY <1>2 DEF StageInv, AuthorInv, Moves, IngestKept, TypeOK
  <1>4. /\ author' \in [stage : {"nobody", "direct", "primary", "fallback", "responder", "mapped"},
                        ran : {"none", "app", "static", "ingress"}]
        /\ HeadHasAuthor'
        /\ \/ author' = author
           \/ author = Nobody /\ author' = [stage |-> stage, ran |-> running]
    BY <1>1, <1>3, Credited
  <1>5. TypeOK'
    BY <1>1, <1>3, <1>4, IsSound
    DEF TypeOK, HandlerResult, ResponseType, States, Phases, StatusType, LengthType
  <1>6. StageInv'  BY <1>1, <1>3 DEF StageInv
  <1>7. JobInv'  BY <1>1 DEF JobInv
  <1>8. AuthorInv'
    <2>1. response.state = "Aborted" => response'.state = "Aborted"  BY <1>3 DEF Moves
    <2>2. author.stage \notin {"responder", "mapped"}  BY <1>1 DEF AuthorInv, Nobody
    <2>3. author'.stage \notin {"responder", "mapped"}  BY <1>1, <1>4, <2>2
    <2>4. CASE author' = author
      BY <1>1, <1>4, <2>1, <2>3, <2>4 DEF AuthorInv
    <2>5. CASE author = Nobody /\ author' = [stage |-> stage, ran |-> running]
      BY <1>1, <1>4, <2>3, <2>5 DEF AuthorInv
    <2> QED  BY <1>4, <2>4, <2>5
  <1>9. HandInv'
    <2>1. response'.status = "Accepted" => handed' = 1
      BY <1>2, AcceptedAssumption DEF IngestKept, HandInv
    <2>2. handed' \in {0, 1}
      BY <1>2 DEF IngestKept, HandInv
    <2> QED  BY <1>1, <1>2, <2>1, <2>2 DEF HandInv, IngestKept
  <1>10. EndInv'  BY <1>1 DEF EndInv
  <1> QED  BY <1>3, <1>5, <1>6, <1>7, <1>8, <1>9, <1>10

LEMMA IngressReturnsKeeps == ASSUME Inv, IngressReturns PROVE Inv'
  <1>1. /\ running = "ingress" /\ ingest.pc = "done" /\ stage \in {"direct", "primary", "fallback"}
        /\ ingest.result \in Errors \cup {"None"} /\ Settle(Handled(ingest.result))
    BY DEF IngressReturns, Inv, StageInv, TypeOK, I!IngestType, I!ReadErrors, Errors
  <1>2. handed = 1 /\ ingest.result = "None" => response.status = "Accepted"
    BY <1>1 DEF Inv, HandInv
  <1> QED  BY <1>1, <1>2, Handles, Settled

LEMMA OthersTakeIdKeeps == ASSUME Inv, OthersTakeId PROVE Inv'
  <1> USE DEF Inv
  <1>1. /\ ingest.pc \in {"again", "handOver"}
        /\ ingest' = [ingest EXCEPT !.counter = I!FetchAdd(@), !.taken = @ \cup {ingest.counter}]
        /\ UNCHANGED <<response, handed, job, before, request, handling, outcome, stage, running,
                       error, responder, author>>
    BY DEF OthersTakeId, I!OthersTakeId, writerVars, callVars, errorVars
  <1>2. /\ ingest.counter \in I!Ids /\ I!FetchAdd(ingest.counter) \in I!Ids
        /\ ingest.taken \cup {ingest.counter} \in SUBSET I!Ids
    BY Wraps DEF TypeOK, I!IngestType
  <1>3. /\ ingest' \in I!IngestType /\ ingest'.pc = ingest.pc /\ ingest'.offset = ingest.offset
        /\ ingest'.declared = ingest.declared /\ ingest'.ended = ingest.ended
        /\ ingest'.result = ingest.result
    BY <1>1, <1>2 DEF TypeOK, I!IngestType
  <1>4. TypeOK'  BY <1>1, <1>3 DEF TypeOK
  <1>5. StageInv'  BY <1>1, <1>3 DEF StageInv
  <1>6. JobInv'  BY <1>1 DEF JobInv, LeftAlone, WrittenTo, Fresh
  <1>7. IngestInv'  BY <1>3 DEF IngestInv, Limit
  <1>8. AuthorInv' /\ EndInv'
    BY <1>1 DEF AuthorInv, HeadHasAuthor, EndInv, ClientIsAnswered
  <1>9. HandInv'  BY <1>1, <1>3 DEF HandInv
  <1> QED  BY <1>4, <1>5, <1>6, <1>7, <1>8, <1>9

-----------------------------------------------------------------------------
(* The error responders and the end of Dispatch.                           *)
LEMMA PageIsSent ==
  ASSUME Sound(response), response.state = "Uncommitted", NEW e \in Errors, NEW o \in DefaultPage(e)
  PROVE  /\ o.result \in R!Errors \cup {"None"}
         /\ Moves(response, o.response)
         /\ o.response = response \/ o.response.status = StatusFor(e)
         /\ o.result = "None" => o.response.state = "Completed"
         /\ o.response.state # "Uncommitted" => o.response.status = StatusFor(e)
  <1>1. \/ o.result # "None" /\ o \in R!Status(response, StatusFor(e))
        \/ \E p \in R!Status(response, StatusFor(e)) : p.result = "None" /\ o \in R!Send(p.response, PageBytes)
    BY DEF DefaultPage, R!Then
  <1>2. StatusFor(e) \in StatusType  BY ErrorStatus
  <1>3. CASE Untouched(o, response)
    BY <1>3 DEF Untouched, Moves, R!Errors
  <1>4. ASSUME NEW p \in R!Status(response, StatusFor(e)), p.result = "None",
               o \in R!Send(p.response, PageBytes)
        PROVE  /\ o.result \in R!Errors \cup {"None"}
               /\ Moves(response, o.response) /\ o.response.status = StatusFor(e)
               /\ o.result = "None" => o.response.state = "Completed"
    <2>1. /\ Is(p.response, "Uncommitted", "head", StatusFor(e), NoLength, 0) /\ response.sent = 0
      BY <1>2, <1>4, StatusSets, IsSound DEF Untouched, R!Errors, Is
    <2>2. Sound(p.response)  BY <2>1, SoundIs
    <2>3. PageBytes \in Nat  BY ExchangeAssumption
    <2>4. CASE /\ o.result \in R!Errors
               /\ Is(o.response, "Uncommitted", "head", StatusFor(e), NoLength, 0)
      <3>1. Sound(o.response)  BY <2>4, SoundIs
      <3> QED  BY <2>4, <3>1 DEF Moves, Is, R!Errors
    <2>5. ASSUME NEW k \in 0..PageBytes,
                 Is(o.response, "Aborted", "aborted", StatusFor(e), PageBytes, k), o.result \in R!Errors
          PROVE  /\ o.result \in R!Errors \cup {"None"}
                 /\ Moves(response, o.response) /\ o.response.status = StatusFor(e)
                 /\ o.result = "None" => o.response.state = "Completed"
      <3>1. Sound(o.response)  BY <2>5, SoundIs
      <3> QED  BY <2>1, <2>5, <3>1 DEF Moves, Is, R!Errors
    <2>6. CASE \/ /\ o.result \in R!Errors
                  /\ Is(o.response, "Streaming", "body", StatusFor(e), PageBytes, PageBytes)
               \/ /\ o.result = "None"
                  /\ Is(o.response, "Completed", "completed", StatusFor(e), PageBytes, PageBytes)
      <3>1. Sound(o.response)  BY <2>6, SoundIs
      <3> QED  BY <2>1, <2>3, <2>6, <3>1 DEF Moves, Is, R!Errors
    <2>7. p.response.status = StatusFor(e)  BY <2>1 DEF Is
    <2>8. Untouched(o, p.response) =>
            /\ o.result \in R!Errors
            /\ Is(o.response, "Uncommitted", "head", StatusFor(e), NoLength, 0)
      BY <2>1 DEF Untouched
    <2> QED  BY <1>4, <2>2, <2>3, <2>4, <2>5, <2>6, <2>7, <2>8, SendSends
  <1>5. o.result # "None" /\ o \in R!Status(response, StatusFor(e)) => Untouched(o, response)
    BY <1>2, StatusSets
  <1> QED  BY <1>1, <1>3, <1>4, <1>5

LEMMA DefaultRespondsKeeps ==
  ASSUME Inv, DefaultResponds
  PROVE  /\ Inv'
         /\ response'.sent # response.sent => author'.stage = "responder"
  <1> USE DEF Inv
  <1>0. /\ error \in Errors /\ stage = "responder" /\ running = "none" /\ job.pc = "idle"
        /\ response.state = "Uncommitted"
    BY DEF DefaultResponds, Responding, StageInv
  <1>1. PICK o \in DefaultPage(error) : response' = o.response /\ Return(Handled(o.result))
    BY DEF DefaultResponds
  <1>2. /\ Credit("responder") /\ stage' = "dispatched" /\ error' = error /\ responder' = responder
        /\ handling' = Handled(o.result)
        /\ UNCHANGED <<job, before, ingest, handed, request, running, outcome>>
    BY <1>0, <1>1 DEF DefaultResponds, Return, writerVars, ingestVars, errorVars
  <1>3. /\ o.result \in R!Errors \cup {"None"}
        /\ Moves(response, response')
        /\ response' = response \/ response'.status = StatusFor(error)
        /\ o.result = "None" => response'.state = "Completed"
        /\ response'.state # "Uncommitted" => response'.status = StatusFor(error)
    BY <1>0, <1>1, PageIsSent DEF StageInv
  <1>4. /\ Sound(response) /\ HeadHasAuthor /\ Sound(response') /\ author = Nobody
    BY <1>0, <1>3 DEF StageInv, AuthorInv, HeadHasAuthor, Moves, Sound
  <1>5. /\ author' \in [stage : {"nobody", "direct", "primary", "fallback", "responder", "mapped"},
                        ran : {"none", "app", "static", "ingress"}]
        /\ HeadHasAuthor'
        /\ \/ author' = Nobody
           \/ author' = [stage |-> "responder", ran |-> running] /\ response'.state # "Uncommitted"
        /\ response'.sent # response.sent => author' # Nobody
    BY <1>2, <1>3, <1>4, Credited
  <1>6. handling' \in HandlerResult /\ handling'.error = o.result
    BY <1>2, <1>3, Handles DEF R!Errors, Errors
  <1>7. /\ running = "none" /\ ingest.pc = "idle"  BY <1>0 DEF StageInv
  <1>8. job' \in W!JobType /\ job'.pc = "idle"  BY <1>0, <1>2 DEF TypeOK
  <1>9. TypeOK'
    BY <1>2, <1>4, <1>5, <1>6, <1>8, IsSound
    DEF TypeOK, HandlerResult, ResponseType, States, Phases, StatusType, LengthType
  <1>10. StageInv'  BY <1>0, <1>2, <1>4, <1>7, <1>8 DEF StageInv
  <1>11. JobInv' /\ IngestInv'  BY <1>2, <1>7, <1>8 DEF JobInv, IngestInv
  <1>12. AuthorInv'
    BY <1>2, <1>3, <1>5, <1>7 DEF AuthorInv, Nobody
  <1>13. HandInv'
    <2>1. response'.status = "Accepted" => handed' = 1
      BY <1>0, <1>2, <1>3, ErrorStatus DEF HandInv
    <2>2. handling'.error = "None" => author'.stage = "responder"
      <3>1. handling'.error = "None" => response'.state = "Completed"  BY <1>3, <1>6
      <3>2. handling'.error = "None" => author' # Nobody
        BY <1>4, <1>5, <3>1 DEF HeadHasAuthor, Sound
      <3> QED  BY <1>5, <3>2
    <2> QED  BY <1>2, <1>7, <2>1, <2>2 DEF HandInv
  <1>14. EndInv'  BY <1>2 DEF EndInv
  <1>15. response'.sent # response.sent => author'.stage = "responder"
    BY <1>5
  <1> QED  BY <1>9, <1>10, <1>11, <1>12, <1>13, <1>14, <1>15

LEMMA ResourceRespondsKeeps ==
  ASSUME Inv, ResourceResponds
  PROVE  Inv' /\ response'.sent = response.sent
  <1> USE DEF Inv
  <1>0. /\ stage = "responder" /\ response.state = "Uncommitted" /\ error \in Errors
        /\ job.pc = "idle" /\ ingest.pc = "idle" /\ running = "none" /\ author = Nobody
        /\ Sound(response) /\ response.sent = 0 /\ request.headersOnly \in BOOLEAN
    BY IsSound DEF ResourceResponds, Responding, StageInv, AuthorInv, TypeOK, Is
  <1>1. PICK o \in R!Status(response, MappedStatus) :
          /\ response' = o.response
          /\ before' = o.response
          /\ IF o.result = "None"
               THEN /\ stage' = "mapped"
                    /\ job' = [W!NoJob EXCEPT !.pc = IF request.headersOnly THEN "stat" ELSE "open",
                                              !.headersOnly = request.headersOnly]
                    /\ UNCHANGED <<errorVars, handling>>
               ELSE Return(Handled(o.result)) /\ UNCHANGED job
    BY DEF ResourceResponds
  <1>2. UNCHANGED <<ingest, handed, request, running, outcome, author>>
    BY DEF ResourceResponds, ingestVars
  <1>3. /\ Sound(response') /\ response'.state = "Uncommitted" /\ response'.sent = 0
        /\ \/ o.result \in R!Errors /\ response' = response
           \/ o.result = "None" /\ response'.status = MappedStatus
    <2>1. MappedStatus \in StatusType  BY DEF StatusType
    <2>2. \/ o.result \in R!Errors /\ response' = response
          \/ o.result = "None" /\ Is(response', "Uncommitted", "head", MappedStatus, NoLength, 0)
      BY <1>0, <1>1, <2>1, StatusSets DEF Untouched
    <2>3. CASE o.result \in R!Errors /\ response' = response
      BY <1>0, <2>3
    <2>4. CASE o.result = "None" /\ Is(response', "Uncommitted", "head", MappedStatus, NoLength, 0)
      <3>1. Sound(response')  BY <2>4, SoundIs
      <3> QED  BY <2>4, <3>1 DEF Is
    <2> QED  BY <2>2, <2>3, <2>4
  <1>4. \/ /\ stage' = "mapped" /\ UNCHANGED <<error, responder, handling>>
           /\ job' \in W!JobType /\ job'.pc \in {"stat", "open"} /\ job'.offset = 0 /\ job'.reads = 0
           /\ response'.status = MappedStatus /\ before' = response'
        \/ /\ stage' = "dispatched" /\ job' = job /\ UNCHANGED <<error, responder>>
           /\ handling' \in HandlerResult /\ handling'.error # "None"
           /\ response' = response
    <2>1. CASE o.result = "None"
      <3>1. "None" \in W!Results  BY DEF W!Results
      <3>2. job' \in W!JobType /\ job'.pc \in {"stat", "open"} /\ job'.offset = 0 /\ job'.reads = 0
        <4>1. job' = [W!NoJob EXCEPT !.pc = IF request.headersOnly THEN "stat" ELSE "open",
                                     !.headersOnly = request.headersOnly]
          BY <1>1, <2>1
        <4> QED  BY <1>0, <3>1, <4>1 DEF W!NoJob, W!JobType
      <3>3. response'.status = MappedStatus  BY <1>3, <2>1 DEF R!Errors
      <3> QED  BY <1>1, <2>1, <3>2, <3>3 DEF errorVars
    <2>2. CASE o.result # "None"
      <3>1. o.result \in Errors /\ o.result \in R!Errors  BY <1>3, <2>2 DEF R!Errors, Errors
      <3>2. Return(Handled(o.result)) /\ job' = job /\ response' = response
        BY <1>1, <1>3, <2>2, <3>1
      <3> QED  BY <2>2, <3>1, <3>2, Handles DEF Return, errorVars
    <2> QED  BY <2>1, <2>2
  <1>5. TypeOK'
    BY <1>2, <1>3, <1>4, IsSound
    DEF TypeOK, HandlerResult, ResponseType, States, Phases, StatusType, LengthType
  <1>6. StageInv'
    <2>1. responder \in ResourceResponders  BY DEF ResourceResponds, Responding
    <2> QED  BY <1>0, <1>1, <1>2, <1>3, <1>4, <2>1 DEF StageInv, R!IsCommitted
  <1>7. JobInv'
    BY <1>0, <1>1, <1>3, <1>4 DEF JobInv, WrittenTo, Fresh, R!IsCommitted
  <1>8. IngestInv'  BY <1>0, <1>2 DEF IngestInv
  <1>9. AuthorInv'
    BY <1>0, <1>2, <1>3, <1>4 DEF AuthorInv, HeadHasAuthor, Nobody, Sound
  <1>10. HandInv'
    BY <1>0, <1>2, <1>4, AcceptedAssumption DEF HandInv
  <1>11. EndInv'  BY <1>4 DEF EndInv
  <1> QED  BY <1>0, <1>3, <1>5, <1>6, <1>7, <1>8, <1>9, <1>10, <1>11

(* The error goes to the fallback, with the response still untouched.      *)
LEMMA FallBackKeeps ==
  ASSUME Inv, FallBack, stage \in {"responder", "mapped"}, running = "none",
         response.state = "Uncommitted", responder \in ResourceResponders,
         UNCHANGED <<response, before, ingest, handed, request, handling, running, outcome, error, author>>
  PROVE  Inv'
  <1> USE DEF Inv
  <1>1. stage' = "responder" /\ job' = W!NoJob /\ responder' \in Responders
    BY ResponderAssumption DEF FallBack
  <1>2. job' \in W!JobType /\ job'.pc = "idle"
    BY <1>1 DEF W!NoJob, W!JobType, W!Results
  <1>3. error \in Errors /\ ingest.pc = "idle"  BY DEF StageInv
  <1>4. author = Nobody  BY DEF StageInv, Sound, AuthorInv, HeadHasAuthor
  <1>5. TypeOK'  BY <1>1, <1>2 DEF TypeOK
  <1>6. StageInv'  BY <1>1, <1>2, <1>3 DEF StageInv
  <1>7. JobInv' /\ IngestInv'  BY <1>2, <1>3 DEF JobInv, IngestInv
  <1>8. AuthorInv'  BY <1>1, <1>4 DEF AuthorInv, HeadHasAuthor, Nobody
  <1>9. HandInv'  BY <1>1, <1>3 DEF HandInv
  <1>10. EndInv'  BY <1>1 DEF EndInv
  <1> QED  BY <1>5, <1>6, <1>7, <1>8, <1>9, <1>10

LEMMA ResourceUnmappedKeeps ==
  ASSUME Inv, ResourceUnmapped
  PROVE  Inv' /\ response' = response
  <1>1. /\ FallBack /\ stage = "responder" /\ running = "none" /\ responder \in ResourceResponders
        /\ UNCHANGED <<response, before, ingest, handed, request, handling, running, outcome, error, author>>
    BY DEF ResourceUnmapped, Responding, ingestVars, callVars
  <1>2. response.state = "Uncommitted"  BY <1>1 DEF Inv, StageInv
  <1> QED  BY <1>1, <1>2, FallBackKeeps

LEMMA ResourceReturnsKeeps ==
  ASSUME Inv, ResourceReturns
  PROVE  Inv' /\ response' = response
  <1> USE DEF Inv
  <1>0. stage = "mapped" /\ job.pc = "done" /\ response' = response /\ running = "none"
    BY DEF ResourceReturns, StageInv, TypeOK
  <1>1. CASE FallsBack
    <2>1. /\ FallBack /\ response.state = "Uncommitted"
          /\ UNCHANGED <<response, before, ingest, handed, request, handling, running, outcome, error, author>>
      BY <1>1 DEF ResourceReturns, FallsBack, R!IsCommitted, ingestVars
    <2> QED  BY <1>0, <2>1, FallBackKeeps DEF StageInv
  <1>2. CASE ~FallsBack
    <2>1. /\ stage' = "dispatched" /\ handling' = Handled(job.result) /\ UNCHANGED <<error, responder>>
          /\ UNCHANGED <<response, job, before, ingest, handed, request, running, outcome, author>>
      BY <1>2 DEF ResourceReturns, Return, errorVars, ingestVars
    <2>2. job.result \in Errors \cup {"None"}
      BY DEF TypeOK, W!JobType, W!Results, W!ProviderErrors, Errors
    <2>3. handling' \in HandlerResult /\ handling'.error = job.result  BY <2>1, <2>2, Handles
    <2>4. running = "none" /\ ingest.pc = "idle" /\ ~R!IsCommitted(before)
      BY <1>0 DEF StageInv, TypeOK
    <2>5. job.result = "None" => author.stage = "mapped"
      <3>1. job.result = "None" => response.state = "Completed"
        BY <1>0, <2>4, IsSound DEF JobInv, WrittenTo, StageInv, States
      <3> QED  BY <1>0, <3>1 DEF AuthorInv, HeadHasAuthor, StageInv, Sound
    <2>6. TypeOK'  BY <2>1, <2>3 DEF TypeOK, HandlerResult
    <2>7. StageInv'  BY <1>0, <2>1, <2>4 DEF StageInv
    <2>8. JobInv'  BY <2>1 DEF JobInv, LeftAlone, WrittenTo, Fresh
    <2>9. IngestInv'  BY <2>1, <2>4 DEF IngestInv
    <2>10. AuthorInv'  BY <1>0, <2>1, <2>4 DEF AuthorInv, HeadHasAuthor
    <2>11. HandInv'  BY <1>0, <2>1, <2>3, <2>4, <2>5 DEF HandInv
    <2>12. EndInv'  BY <2>1 DEF EndInv
    <2> QED  BY <2>1, <2>6, <2>7, <2>8, <2>9, <2>10, <2>11, <2>12
  <1> QED  BY <1>0, <1>1, <1>2

LEMMA ConcludeKeeps ==
  ASSUME Inv, Conclude
  PROVE  Inv' /\ response'.sent = response.sent
  <1> USE DEF Inv
  <1>1. /\ stage = "dispatched" /\ stage' = "over" /\ outcome' = DispatchResult(handling)
        /\ response' = R!Destroyed(response)
        /\ UNCHANGED <<job, before, ingest, handed, request, handling, running, error, responder, author>>
    BY DEF Conclude, writerVars, ingestVars, errorVars
  <1>2. /\ Sound(response) /\ running = "none" /\ ingest.pc = "idle"
        /\ job.pc # "idle" => job.pc = "done" /\ ~R!IsCommitted(before)
    BY <1>1 DEF StageInv, TypeOK
  <1>3. \/ response.state # "Streaming" /\ response' = response
        \/ /\ response.state = "Streaming"
           /\ Is(response', "Aborted", "aborted", response.status, response.declared, response.sent)
    BY <1>1, <1>2, DestroyedEnds
  <1>4. /\ Sound(response') /\ response'.sent = response.sent /\ response'.status = response.status
        /\ response'.declared = response.declared /\ response'.state # "Streaming"
        /\ response.state # "Streaming" => response' = response
        /\ response.state = "Streaming" => response'.state = "Aborted"
    <2>1. CASE response' = response /\ response.state # "Streaming"
      BY <1>2, <2>1
    <2>2. CASE /\ response.state = "Streaming"
               /\ Is(response', "Aborted", "aborted", response.status, response.declared, response.sent)
      <3>1. Sound(response')  BY <2>2, SoundIs
      <3> QED  BY <2>2, <3>1 DEF Is
    <2> QED  BY <1>3, <2>1, <2>2
  <1>5. /\ outcome' \in Errors \cup {"None"}
        /\ outcome' = "None" => handling.error = "None" /\ response.state = "Completed"
    <2>1. /\ handling.error \in Errors \cup {"None"} /\ "NotFound" \in Errors /\ "InvalidState" \in Errors
          /\ "None" \notin Errors
      BY DEF TypeOK, Errors
    <2> QED  BY <1>1, <2>1 DEF DispatchResult, R!IsCompleted
  <1>6. TypeOK'
    BY <1>1, <1>4, <1>5, IsSound
    DEF TypeOK, HandlerResult, ResponseType, States, Phases, StatusType, LengthType
  <1>7. StageInv'  BY <1>1, <1>2, <1>4 DEF StageInv
  <1>8. JobInv'
    <2>1. CASE job.pc = "idle"
      BY <1>1, <2>1 DEF JobInv
    <2>2. CASE job.pc = "done" /\ ~R!IsCommitted(before)
      <3>0. job.size \in Nat /\ BodyOf(job) \in Nat /\ BodyOf(job) <= job.size
        BY JobTyped DEF TypeOK, BodyOf
      <3>1. Sound(before) /\ WrittenTo  BY <2>2 DEF JobInv
      <3>2. WrittenTo'
        BY <1>1, <1>4, <2>2, <3>0, <3>1 DEF WrittenTo, BodyOf
      <3> QED  BY <1>1, <2>2, <3>1, <3>2 DEF JobInv, R!IsCommitted
    <2> QED  BY <1>2, <2>1, <2>2
  <1>9. IngestInv'  BY <1>1, <1>2 DEF IngestInv
  <1>10. AuthorInv'
    <2>1. HeadHasAuthor'
      BY <1>1, <1>2, <1>4 DEF AuthorInv, HeadHasAuthor, Sound, ResponseType, States
    <2> QED  BY <1>1, <1>2, <1>4, <2>1 DEF AuthorInv
  <1>11. HandInv'  BY <1>1, <1>2, <1>4, <1>5 DEF HandInv
  <1>12. EndInv'
    BY <1>1, <1>4, <1>5 DEF EndInv, ClientIsAnswered, Sound, ResponseType, States
  <1> QED  BY <1>4, <1>6, <1>7, <1>8, <1>9, <1>10, <1>11, <1>12

LEMMA StutterKeeps == ASSUME Inv, UNCHANGED vars PROVE Inv'
  <1>1. UNCHANGED <<response, job, before, ingest, handed, request, handling, outcome, stage, running,
                    error, responder, author>>
    BY DEF vars, writerVars, ingestVars, callVars, errorVars
  <1> QED
    BY <1>1
    DEF Inv, TypeOK, StageInv, JobInv, LeftAlone, WrittenTo, Fresh, IngestInv, Limit, AuthorInv,
        HeadHasAuthor, HandInv, EndInv, ClientIsAnswered

LEMMA ExchangeStep == ASSUME Inv, [Next]_vars PROVE Inv'
  <1>1. CASE UNCHANGED vars
    BY <1>1, StutterKeeps
  <1>2. CASE Proceed
    BY <1>2, InvokeNullKeeps, InvokeAppKeeps, InvokeStaticKeeps, AppReturnsKeeps, WriteResourceKeeps,
       StaticReturnsKeeps, InvokeIngressKeeps, IngressGoesOnKeeps, IngressReturnsKeeps,
       DefaultRespondsKeeps, AppRespondsKeeps, ResourceRespondsKeeps, ResourceUnmappedKeeps,
       ResourceReturnsKeeps, ConcludeKeeps
    DEF Proceed
  <1>3. CASE Over
    BY <1>3, StutterKeeps DEF Over
  <1> QED  BY <1>1, <1>2, <1>3, AppUsesKeeps, OthersTakeIdKeeps DEF Next

LEMMA ExchangeHolds == Spec => []Inv
  <1>1. Inv /\ [Next]_vars => Inv'  BY ExchangeStep
  <1> QED  BY ExchangeStarts, <1>1, PTL DEF Spec

-----------------------------------------------------------------------------
(* The ids of a command and of the others that come meanwhile are a run of *)
(* the counter, counted from the first one this request drew; the run is   *)
(* too short to come round.                                                *)
Since(s, x) == IF x >= s THEN x - s ELSE x + IdSpace - s

Drawn(s, id, counter, taken) ==
  /\ Since(s, id) < Since(s, counter)
  /\ \A x \in taken : Since(s, x) < Since(s, counter)

IdInv ==
  ingest.kind = "command" =>
    /\ ingest.pc = "id" => ingest.taken = {}
    /\ ingest.pc \in {"again", "read", "handOver", "accept"} =>
         /\ IsFiniteSet(ingest.taken) /\ Cardinality(ingest.taken) <= MaxOthers
         /\ ingest.id \notin ingest.taken
         /\ (ingest.pc = "again") = (ingest.id = 0)
         /\ \E s \in I!Ids :
              /\ Drawn(s, ingest.id, ingest.counter, ingest.taken)
              /\ Since(s, ingest.counter) <= Cardinality(ingest.taken) + 2
              /\ ingest.pc = "again" => /\ s = 0
                                        /\ Since(s, ingest.counter) <= Cardinality(ingest.taken) + 1

LEMMA NextId == \A n \in I!Ids : I!FetchAdd(n) = IF n = IdSpace - 1 THEN 0 ELSE n + 1
  BY ExchangeAssumption DEF I!Ids, I!FetchAdd

LEMMA SinceNext ==
  ASSUME NEW s \in I!Ids, NEW n \in I!Ids, Since(s, n) + 1 < IdSpace
  PROVE  Since(s, I!FetchAdd(n)) = Since(s, n) + 1
  BY NextId, ExchangeAssumption DEF I!Ids, Since

LEMMA IdStarts == Init => IdInv
  BY DEF Init, I!NoIngest, IdInv

(* The first id of a command, another one if that was 0, and those that    *)
(* other requests draw.                                                    *)
LEMMA TakeIdDraws ==
  ASSUME ingest \in I!IngestType, IdInv, I!TakeId
  PROVE  IdInv'
  <1>1. /\ ingest.pc = "id" /\ ingest.counter \in I!Ids
        /\ ingest' = [ingest EXCEPT !.id = ingest.counter, !.counter = I!FetchAdd(@),
                                    !.pc = IF ingest.counter = 0 THEN "again" ELSE "read"]
    BY DEF I!TakeId, I!IngestType
  <1>2. /\ ingest'.kind = ingest.kind /\ ingest'.id = ingest.counter /\ ingest'.taken = ingest.taken
        /\ ingest'.counter = I!FetchAdd(ingest.counter)
        /\ ingest'.pc = IF ingest.counter = 0 THEN "again" ELSE "read"
    BY <1>1 DEF I!IngestType
  <1> SUFFICES ASSUME ingest.kind = "command"
               PROVE  IdInv'
    BY <1>2 DEF IdInv
  <1>3. ingest'.taken = {}  BY <1>1, <1>2 DEF IdInv
  <1>4. IsFiniteSet(ingest'.taken) /\ Cardinality(ingest'.taken) = 0
    BY <1>3, FS_EmptySet
  <1> DEFINE s == ingest.counter
  <1>5. /\ s \in I!Ids /\ Since(s, s) = 0 /\ Since(s, ingest'.counter) = 1
    <2>1. Since(s, s) = 0 /\ Since(s, s) + 1 < IdSpace  BY <1>1, ExchangeAssumption DEF Since, I!Ids
    <2> QED  BY <1>1, <1>2, <2>1, SinceNext
  <1>6. Drawn(s, ingest'.id, ingest'.counter, ingest'.taken)
    BY <1>2, <1>3, <1>5 DEF Drawn
  <1>7. 0 <= MaxOthers  BY ExchangeAssumption
  <1>8. (ingest'.pc = "again") = (ingest'.id = 0) /\ (ingest'.pc = "again" => s = 0) /\ ingest'.pc # "id"
    BY <1>2
  <1> HIDE DEF s
  <1> QED  BY <1>3, <1>4, <1>5, <1>6, <1>7, <1>8 DEF IdInv

LEMMA TakeAnotherIdDraws ==
  ASSUME ingest \in I!IngestType, IdInv, I!TakeAnotherId
  PROVE  IdInv'
  <1>1. /\ ingest.pc = "again" /\ ingest.counter \in I!Ids /\ ingest.id \in I!Ids
        /\ ingest' = [ingest EXCEPT !.id = ingest.counter, !.counter = I!FetchAdd(@), !.pc = "read"]
    BY DEF I!TakeAnotherId, I!IngestType
  <1>2. /\ ingest'.kind = ingest.kind /\ ingest'.id = ingest.counter /\ ingest'.taken = ingest.taken
        /\ ingest'.counter = I!FetchAdd(ingest.counter) /\ ingest'.pc = "read"
        /\ ingest.taken \subseteq I!Ids
    BY <1>1 DEF I!IngestType
  <1> SUFFICES ASSUME ingest.kind = "command"
               PROVE  IdInv'
    BY <1>2 DEF IdInv
  <1> DEFINE s == 0
             c == Cardinality(ingest.taken)
  <1>3. /\ IsFiniteSet(ingest.taken) /\ c <= MaxOthers /\ ingest.id = 0 /\ s \in I!Ids
        /\ Drawn(s, ingest.id, ingest.counter, ingest.taken)
        /\ Since(s, ingest.counter) <= c + 1
    BY <1>1 DEF IdInv
  <1>4. c \in Nat  BY <1>3, FS_CardinalityType
  <1>5. Since(s, ingest.counter) \in Nat /\ Since(s, ingest.counter) + 1 < IdSpace
    BY <1>1, <1>3, <1>4, ExchangeAssumption DEF Since, I!Ids
  <1>6. Since(s, ingest'.counter) = Since(s, ingest.counter) + 1
    BY <1>1, <1>2, <1>3, <1>5, SinceNext
  <1>7. /\ ingest.counter # 0 /\ ingest.counter \notin ingest.taken
        /\ Drawn(s, ingest.counter, ingest'.counter, ingest.taken)
    <2>1. Since(s, ingest.id) < Since(s, ingest.counter)  BY <1>3 DEF Drawn
    <2>2. ingest.counter # 0 /\ ingest.counter \notin ingest.taken
      BY <1>3, <1>5, <2>1 DEF Drawn
    <2>3. \A x \in ingest.taken : Since(s, x) \in Int
      BY <1>2, ExchangeAssumption DEF Since, I!Ids
    <2> QED  BY <1>3, <1>5, <1>6, <2>2, <2>3 DEF Drawn
  <1>8. Since(s, ingest'.counter) <= c + 2  BY <1>3, <1>4, <1>5, <1>6
  <1> HIDE DEF s, c
  <1>9. c = Cardinality(ingest'.taken)  BY <1>2 DEF c
  <1> QED  BY <1>2, <1>3, <1>7, <1>8, <1>9 DEF IdInv

LEMMA OthersDraw ==
  ASSUME ingest \in I!IngestType, IdInv, I!OthersTakeId
  PROVE  IdInv'
  <1>1. /\ ingest.kind = "command" /\ ingest.pc \in {"again", "handOver"}
        /\ Cardinality(ingest.taken) < MaxOthers
        /\ ingest' = [ingest EXCEPT !.counter = I!FetchAdd(@), !.taken = @ \cup {ingest.counter}]
        /\ ingest.counter \in I!Ids /\ ingest.id \in I!Ids /\ ingest.taken \subseteq I!Ids
    <2>1. ingest.counter \in I!Ids /\ ingest.id \in I!Ids /\ ingest.taken \subseteq I!Ids
      BY DEF I!IngestType
    <2>2. /\ ingest.kind = "command" /\ ingest.pc \in {"again", "handOver"}
          /\ I!Cardinality(ingest.taken) < MaxOthers
      BY DEF I!OthersTakeId
    <2>3. I!Cardinality(ingest.taken) = Cardinality(ingest.taken)
      BY DEF I!Cardinality, Cardinality
    <2>4. ingest' = [ingest EXCEPT !.counter = I!FetchAdd(@), !.taken = @ \cup {ingest.counter}]
      BY DEF I!OthersTakeId
    <2> QED  BY <2>1, <2>2, <2>3, <2>4
  <1>2. /\ ingest'.kind = ingest.kind /\ ingest'.id = ingest.id /\ ingest'.pc = ingest.pc
        /\ ingest'.taken = ingest.taken \cup {ingest.counter}
        /\ ingest'.counter = I!FetchAdd(ingest.counter)
    BY <1>1 DEF I!IngestType
  <1> DEFINE c == Cardinality(ingest.taken)
  <1>3. PICK s \in I!Ids :
          /\ Drawn(s, ingest.id, ingest.counter, ingest.taken)
          /\ Since(s, ingest.counter) <= c + 2
          /\ ingest.pc = "again" => s = 0 /\ Since(s, ingest.counter) <= c + 1
    BY <1>1 DEF IdInv
  <1>4. /\ IsFiniteSet(ingest.taken) /\ ingest.id \notin ingest.taken
        /\ (ingest.pc = "again") = (ingest.id = 0)
    BY <1>1 DEF IdInv
  <1>5. c \in Nat /\ c < MaxOthers  BY <1>1, <1>4, FS_CardinalityType
  <1>6. Since(s, ingest.counter) \in Nat /\ Since(s, ingest.counter) + 1 < IdSpace
    BY <1>1, <1>3, <1>5, ExchangeAssumption DEF Since, I!Ids
  <1>7. Since(s, ingest'.counter) = Since(s, ingest.counter) + 1
    BY <1>1, <1>2, <1>6, SinceNext
  <1>8. ingest.counter \notin ingest.taken /\ ingest.counter # ingest.id
    BY <1>3, <1>6 DEF Drawn
  <1>9. IsFiniteSet(ingest'.taken) /\ Cardinality(ingest'.taken) = c + 1
    BY <1>2, <1>4, <1>8, FS_AddElement
  <1>10. Drawn(s, ingest'.id, ingest'.counter, ingest'.taken)
    <2>1. Since(s, ingest.id) \in Int /\ \A x \in ingest.taken : Since(s, x) \in Int
      BY <1>1, ExchangeAssumption DEF Since, I!Ids
    <2> QED  BY <1>2, <1>3, <1>6, <1>7, <2>1 DEF Drawn
  <1>11. /\ Since(s, ingest'.counter) <= Cardinality(ingest'.taken) + 2
         /\ ingest.pc = "again" => Since(s, ingest'.counter) <= Cardinality(ingest'.taken) + 1
         /\ Cardinality(ingest'.taken) <= MaxOthers
    BY <1>3, <1>5, <1>6, <1>7, <1>9, ExchangeAssumption
  <1>12. ingest'.id \notin ingest'.taken  BY <1>2, <1>4, <1>8
  <1>13. ingest'.pc # "id"  BY <1>1, <1>2
  <1> HIDE DEF c
  <1> QED  BY <1>2, <1>3, <1>4, <1>9, <1>10, <1>11, <1>12, <1>13 DEF IdInv

(* Every other step leaves the ids alone, or is not about a command's id.  *)
LEMMA IdsStay ==
  ASSUME ingest \in I!IngestType, IdInv,
         \/ ingest'.pc \in {"idle", "done", "snapshot"}
         \/ ingest'.kind # "command"
         \/ ingest'.pc = "id" /\ ingest'.taken = {}
         \/ /\ ingest.pc \in {"read", "handOver", "accept"} /\ ingest'.pc \in {"read", "handOver", "accept"}
            /\ ingest'.kind = ingest.kind /\ ingest'.id = ingest.id
            /\ ingest'.counter = ingest.counter /\ ingest'.taken = ingest.taken
  PROVE  IdInv'
  BY DEF IdInv

LEMMA IdStep == ASSUME Inv, IdInv, [Next]_vars PROVE IdInv'
  <1>0. ingest \in I!IngestType  BY DEF Inv, TypeOK
  <1>1. CASE ingest' = ingest
    BY <1>1 DEF IdInv
  <1>2. CASE ingest' = I!NoIngest
    BY <1>2 DEF IdInv, I!NoIngest
  <1>3. ASSUME NEW h, Settle(h) PROVE ingest' = I!NoIngest
    BY <1>3 DEF Settle
  <1>4. CASE InvokeNull \/ AppReturns \/ StaticReturns \/ IngressReturns
    BY <1>2, <1>3, <1>4 DEF InvokeNull, AppReturns, StaticReturns, IngressReturns
  <1>5. CASE InvokeApp \/ AppUsesResponse \/ WriteResource \/ DefaultResponds \/ AppResponds
             \/ ResourceResponds \/ ResourceUnmapped \/ ResourceReturns \/ Conclude \/ Over \/ UNCHANGED vars
    BY <1>1, <1>5
    DEF InvokeApp, AppUsesResponse, WriteResource, DefaultResponds, AppResponds, ResourceResponds,
        ResourceUnmapped, ResourceReturns, Conclude, Over, vars, ingestVars
  <1>6. CASE InvokeStatic
    BY <1>1, <1>2, <1>3, <1>6 DEF InvokeStatic, ingestVars
  <1>7. ASSUME NEW kind \in {"event", "command", "state"}, InvokeIngress(kind)
        PROVE  IdInv'
    <2>1. CASE Settle(NotHandled)
      BY <1>2, <1>3, <2>1
    <2>2. CASE ingest' = [I!NoIngest EXCEPT !.pc = "snapshot", !.kind = kind]
      <3>1. ingest'.pc = "snapshot"  BY <2>2 DEF I!NoIngest
      <3> QED  BY <1>0, <3>1, IdsStay
    <2>3. ASSUME NEW connected \in BOOLEAN, NEW declared \in (0..MaximumBytes + 1) \cup {NoLength},
                 I!Receive(kind, connected, declared)
          PROVE  IdInv'
      <3>1. /\ ingest'.kind = kind /\ ingest'.taken = {}
            /\ ingest'.pc \in {"done", "id", "read"}
            /\ ingest'.pc = "read" => kind # "command"
        BY <2>3 DEF I!Receive, I!NoIngest
      <3> QED  BY <1>0, <3>1, IdsStay
    <2> QED  BY <1>7, <2>1, <2>2, <2>3 DEF InvokeIngress
  <1>8. CASE IngressGoesOn
    <2>1. ASSUME NEW e, I!Return(e) PROVE IdInv'
      <3>1. ingest'.pc = "done"  BY <1>0, <2>1 DEF I!Return, I!IngestType
      <3> QED  BY <1>0, <3>1, IdsStay
    <2>2. ASSUME I!ReadBody PROVE IdInv'
      <3>1. ASSUME NEW n, NEW last, I!Advance(n, last) PROVE IdInv'
        <4>1. ingest.pc = "read"  BY <2>2 DEF I!ReadBody
        <4>2. /\ ingest'.pc \in {"done", "handOver", "read"}
              /\ ingest'.kind = ingest.kind /\ ingest'.id = ingest.id
              /\ ingest'.counter = ingest.counter /\ ingest'.taken = ingest.taken
          BY <1>0, <3>1 DEF I!Advance, I!IngestType
        <4> QED  BY <1>0, <4>1, <4>2, IdsStay
      <3> QED  BY <2>1, <2>2, <3>1 DEF I!ReadBody
    <2>3. ASSUME I!HandOver PROVE IdInv'
      <3>1. CASE ingest' = [ingest EXCEPT !.pc = "accept"]
        <4>1. /\ ingest'.pc = "accept" /\ ingest.pc = "handOver"
              /\ ingest'.kind = ingest.kind /\ ingest'.id = ingest.id
              /\ ingest'.counter = ingest.counter /\ ingest'.taken = ingest.taken
          BY <1>0, <2>3, <3>1 DEF I!HandOver, I!IngestType
        <4> QED  BY <1>0, <4>1, IdsStay
      <3> QED  BY <2>1, <2>3, <3>1 DEF I!HandOver
    <2>4. ASSUME I!Accept \/ I!Snapshot(request.headersOnly) PROVE IdInv'
      BY <2>1, <2>4 DEF I!Accept, I!Snapshot
    <2> QED
      BY <1>0, <1>8, <2>2, <2>3, <2>4, TakeIdDraws, TakeAnotherIdDraws DEF IngressGoesOn, I!Continue
  <1>9. CASE OthersTakeId
    BY <1>0, <1>9, OthersDraw DEF OthersTakeId
  <1> QED  BY <1>4, <1>5, <1>6, <1>7, <1>8, <1>9 DEF Next, Proceed

-----------------------------------------------------------------------------
(* Every variable keeps its type, the request's and the response's too.    *)
THEOREM TypeCorrect == Spec => []TypeOK
  BY ExchangeHolds, PTL DEF Inv

(* Whatever handlers, providers and the platform do, Dispatch ends with    *)
(* the response completed, aborted, or untouched and reported as a         *)
(* failure, and reports success only for a completed one.                  *)
THEOREM ClientIsNeverLeftWaiting == Spec => []ClientIsAnswered
  <1>1. Inv => ClientIsAnswered
    BY DEF Inv, EndInv, ClientIsAnswered
  <1> QED  BY ExchangeHolds, <1>1, PTL

(* An error page has the status of its error, whatever was set before.     *)
THEOREM ErrorPagesSayTheirError == Spec => []ErrorPageHasItsStatus
  <1>1. Inv => ErrorPageHasItsStatus
    BY DEF Inv, AuthorInv, ErrorPageHasItsStatus
  <1> QED  BY ExchangeHolds, <1>1, PTL

(* Told Accepted, the client has had its event or command handed over,     *)
(* once; handed over, it is told so or told of a failure.                  *)
THEOREM AcceptedIsTrue == Spec => []AcceptedMeansHandedOver
  <1>1. Inv => AcceptedMeansHandedOver
    BY DEF Inv, HandInv, AcceptedMeansHandedOver
  <1> QED  BY ExchangeHolds, <1>1, PTL

(* No count of a provider or the platform makes the writer send more than  *)
(* was declared or an ingress read past its buffer.                        *)
THEOREM CountsAreNotTrusted == Spec => []CountsAreChecked
  <1>1. ASSUME Inv PROVE W!NeverOverruns
    <2> USE DEF Inv
    <2>1. CASE job.pc = "idle"
      BY <1>1, <2>1 DEF StageInv, W!NoJob, W!NeverOverruns
    <2>2. CASE job.pc # "idle"
      <3>0. /\ job.pc \in {"open", "stat", "head", "read", "complete", "done"}
            /\ job.size \in Nat /\ job.offset \in Nat /\ job.reads \in Nat /\ response.sent \in Nat
            /\ BodyOf(job) \in Nat /\ BodyOf(job) <= job.size
        BY <1>1, <2>2, JobTyped, IsSound DEF TypeOK, W!JobType, BodyOf, StageInv
      <3>1. job.offset <= job.size /\ job.reads <= job.size
        BY <1>1, <2>2, <3>0 DEF JobInv, LeftAlone, WrittenTo, Fresh
      <3>2. ~R!IsCommitted(before) /\ response.declared # NoLength => response.sent <= response.declared
        <4> SUFFICES ASSUME ~R!IsCommitted(before), response.declared # NoLength
                     PROVE  response.sent <= response.declared
          OBVIOUS
        <4>1. WrittenTo /\ Sound(before) /\ Sound(response)  BY <1>1, <2>2 DEF JobInv, StageInv
        <4>2. job.pc \notin {"open", "stat", "head"}
          BY <1>1, <4>1 DEF WrittenTo, Fresh, Sound, R!IsCommitted
        <4>3. CASE job.pc \in {"read", "complete"}
          BY <3>0, <4>1, <4>3 DEF WrittenTo, Is
        <4>4. CASE job.pc = "done"
          BY <3>0, <4>1, <4>4 DEF WrittenTo, Sound, ResponseType, States
        <4> QED  BY <3>0, <4>2, <4>3, <4>4
      <3> QED  BY <3>1, <3>2, Writer DEF W!NeverOverruns
    <2> QED  BY <2>1, <2>2
  <1>2. ASSUME Inv PROVE I!BodyIsWholeAndBounded
    <2> USE DEF Inv
    <2>1. ASSUME ingest.pc = "read"
          PROVE  ingest.offset + I!Capacity <= MaximumBytes
      <3>1. /\ ingest.offset \in Nat /\ ingest.offset <= Limit
            /\ ingest.declared = NoLength \/ ingest.declared \in 1..MaximumBytes
        BY <1>2, <2>1 DEF TypeOK, I!IngestType, IngestInv
      <3> QED  BY <3>1, ExchangeAssumption DEF I!Capacity, I!Smaller, Limit
    <2> QED  BY <1>2, <2>1 DEF IngestInv, I!BodyIsWholeAndBounded
  <1>3. Inv => CountsAreChecked  BY <1>1, <1>2 DEF CountsAreChecked
  <1> QED  BY ExchangeHolds, <1>3, PTL

(* A resource reported as sent is whole at the client, with the status set *)
(* before.                                                                 *)
THEOREM SentIsWhole == Spec => []SuccessIsWhole
  <1>1. ASSUME Inv, job.pc = "done", job.result = "None"
        PROVE  /\ response.wire = "completed" /\ response.declared = job.size
               /\ response.sent = IF job.headersOnly THEN 0 ELSE job.size
               /\ response.status = before.status
    <2>1. ~R!IsCommitted(before) /\ WrittenTo /\ Sound(response)
      BY <1>1 DEF Inv, StageInv, JobInv, LeftAlone
    <2> QED  BY <1>1, <2>1 DEF WrittenTo, BodyOf, Sound, ResponseType, States
  <1>2. Inv => SuccessIsWhole  BY <1>1 DEF SuccessIsWhole, W!SuccessIsWhole
  <1> QED  BY ExchangeHolds, <1>2, PTL

(* A resource that could not be sent leaves a response that can be told    *)
(* from a whole one, and one that another handler began as it was.         *)
THEOREM FailureShows == Spec => []FailureIsVisible
  <1>1. ASSUME Inv PROVE W!FailureIsVisible
    <2> USE DEF Inv
    <2>1. ASSUME job.pc = "done", job.result # "None", ~R!IsCommitted(before)
          PROVE  \/ response.wire = "head" /\ response.sent = 0
                 \/ response.wire = "aborted"
                 \/ response.wire = "body" /\ response.sent = IF job.headersOnly THEN 0 ELSE job.size
      <3>1. WrittenTo /\ Sound(response)  BY <1>1, <2>1 DEF JobInv, StageInv
      <3> QED  BY <1>1, <2>1, <3>1 DEF WrittenTo, BodyOf, Sound, ResponseType, States
    <2>2. ASSUME job.pc # "idle", R!IsCommitted(before)
          PROVE  response = before /\ (job.pc = "done" => job.result # "None")
      BY <1>1, <2>2 DEF JobInv, LeftAlone, Fresh
    <2> QED  BY <2>1, <2>2, Writer DEF W!FailureIsVisible, W!Fails
  <1>2. Inv => FailureIsVisible  BY <1>1 DEF FailureIsVisible
  <1> QED  BY ExchangeHolds, <1>2, PTL

(* The bytes of one response come from one stage.                          *)
THEOREM OneStageWrites == Spec => OneAuthor
  <1> DEFINE One ==
        response'.sent # response.sent =>
          \/ author'.stage = stage
          \/ stage = "fallback" /\ running = "app" /\ author.ran = "app"
  <1>1. Inv /\ [Next]_vars => [One]_vars
    <2> SUFFICES ASSUME Inv, Next, response'.sent # response.sent
                 PROVE  \/ author'.stage = stage
                        \/ stage = "fallback" /\ running = "app" /\ author.ran = "app"
      OBVIOUS
    <2> USE DEF Inv
    <2>1. Sound(response) /\ HeadHasAuthor  BY DEF StageInv, AuthorInv
    <2>2. ASSUME Moves(response, response'), Credit(stage), UNCHANGED running,
                 stage \in {"direct", "primary", "fallback", "responder", "mapped"}
          PROVE  author'.stage = stage \/ (author # Nobody /\ author' = author)
      <3>1. author' # Nobody /\ (author' = author \/ author' = [stage |-> stage, ran |-> running])
        BY <2>1, <2>2, Credited
      <3> QED  BY <3>1
    <2>3. CASE AppUsesResponse
      <3>1. /\ running = "app" /\ running' = running
            /\ stage \in {"direct", "primary", "fallback", "responder"}
            /\ Moves(response, response') /\ Credit(stage)
        BY <2>3, AppUses DEF Follows
      <3>2. CASE author # Nobody /\ author' = author
        <4>1. response.state # "Aborted"  BY <3>1 DEF Moves
        <4> QED  BY <3>1, <3>2, <4>1 DEF AuthorInv, HeadHasAuthor
      <3> QED  BY <2>2, <3>1, <3>2
    <2>4. CASE WriteResource
      <3>1. /\ running' = running /\ stage \in {"direct", "primary", "fallback", "mapped"}
            /\ stage # "mapped" => running = "static"
            /\ Moves(response, response') /\ Credit(stage) /\ ~R!IsCommitted(before)
        BY <2>4, Writes DEF WriterKept, Follows
      <3>2. CASE author # Nobody /\ author' = author
        BY <3>1, <3>2 DEF AuthorInv, HeadHasAuthor
      <3> QED  BY <2>2, <3>1, <3>2
    <2>5. CASE IngressGoesOn
      <3>1. /\ running' = running /\ stage \in {"direct", "primary", "fallback"}
            /\ Moves(response, response') /\ Credit(stage) /\ ~R!IsCommitted(response)
        BY <2>5, IngressGoes DEF IngestKept
      <3>2. author = Nobody  BY <2>1, <3>1 DEF HeadHasAuthor, Sound, R!IsCommitted
      <3> QED  BY <2>2, <3>1, <3>2
    <2>6. CASE DefaultResponds
      BY <2>6, DefaultRespondsKeeps DEF DefaultResponds, Responding
    <2>7. ~(AppResponds \/ ResourceUnmapped \/ ResourceReturns)
      BY AppRespondsKeeps, ResourceUnmappedKeeps, ResourceReturnsKeeps
    <2>8. ASSUME NEW h, Settle(h) PROVE FALSE
      BY <2>8 DEF Settle
    <2>9. ~(InvokeNull \/ AppReturns \/ StaticReturns \/ IngressReturns)
      BY <2>8 DEF InvokeNull, AppReturns, StaticReturns, IngressReturns
    <2>10. ~(InvokeApp \/ InvokeStatic \/ OthersTakeId \/ Over)
      BY <2>8 DEF InvokeApp, InvokeStatic, W!Call, OthersTakeId, I!OthersTakeId, Over, vars
    <2>11. \A kind \in {"event", "command", "state"} : ~InvokeIngress(kind)
      BY <2>8 DEF InvokeIngress
    <2>12. ~(ResourceResponds \/ Conclude)
      BY ResourceRespondsKeeps, ConcludeKeeps
    <2> QED
      BY <2>3, <2>4, <2>5, <2>6, <2>7, <2>9, <2>10, <2>11, <2>12 DEF Next, Proceed
  <1> QED  BY ExchangeHolds, <1>1, PTL DEF Spec, OneAuthor

(* The command of this exchange has an id that is not 0 and that nobody    *)
(* else has taken since, for a counter of any width that the number of     *)
(* concurrent requests does not exhaust.                                   *)
THEOREM IdsAreUsable == Spec => []RequestIdIsUsable
  <1>1. Inv /\ IdInv /\ [Next]_vars => IdInv'  BY IdStep
  <1>2. IdInv => RequestIdIsUsable
    BY DEF IdInv, RequestIdIsUsable, I!RequestIdIsUsable
  <1> QED  BY ExchangeHolds, IdStarts, <1>1, <1>2, PTL DEF Spec
=============================================================================
