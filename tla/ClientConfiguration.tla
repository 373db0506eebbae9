-------------------------- MODULE ClientConfiguration --------------------------
(*****************************************************************************)
(* What WebSocketClient::Connect checks before the platform sees anything:   *)
(* ValidateConfiguration and ValidateHeaders (ESPressio_WebSocketClient.hpp) *)
(* and WebTlsConfiguration::Validate (ESPressio_WebTransportSecurity.hpp).   *)
(*                                                                           *)
(* Sizes are numbers of a size_t and sums of them wrap.  Of a header only    *)
(* its sizes and its kind matter: malformed (unreadable, or its name or      *)
(* value has a character that is not allowed), reserved (a name that the     *)
(* handshake owns, in any case of letters), or the application's.            *)
(*****************************************************************************)
EXTENDS Naturals, Sequences

CONSTANTS MaximumSize,                  \* std::numeric_limits<std::size_t>::max()
          MaximumHandshakeHeaderCount,
          FramingBytes                  \* ": " and the line break, in 0..MaximumSize

HeaderType == [kind : {"application", "reserved", "malformed"},
               name : 0..MaximumSize, value : 0..MaximumSize]

Credentials == {"empty", "present", "invalid"}  \* invalid: a pointer or a size only

TlsType == [trust : {"PlatformTrust", "CertificateAuthority"},
            authority : Credentials, certificate : Credentials, key : Credentials]

(* complete: Host, Port, Path and network timeout are given; timed: every  *)
(* feature of the policy that is on (reconnect, ping, keep-alive) has its  *)
(* times.                                                                  *)
ConfigurationType ==
  [complete : BOOLEAN, timed : BOOLEAN, headers : Seq(HeaderType),
   maximumBytes : 0..MaximumSize, transport : {"Plain", "Tls"}, tls : TlsType]

-----------------------------------------------------------------------------
(* Definitions named after a mistake ("...Unguarded") are the mutants of   *)
(* the definition that follows them; nothing else uses them.               *)

Wrapped(n) == n % (MaximumSize + 1)

LineBytes(h) == Wrapped(h.name + h.value + FramingBytes)

LineOverflowsUnguarded(h) == FALSE

LineOverflows(h) == \/ h.name > MaximumSize - h.value
                    \/ Wrapped(h.name + h.value) > MaximumSize - FramingBytes

(* total + LineBytes(h) is never formed before it is known not to wrap.    *)
Exceeds(h, total, maximumBytes) ==
  \/ LineBytes(h) > maximumBytes
  \/ total > maximumBytes - LineBytes(h)

HeaderError(h, total, maximumBytes) ==
  IF h.kind # "application" THEN "InvalidConfiguration"
  ELSE IF LineOverflows(h) \/ Exceeds(h, total, maximumBytes) THEN "ResourceExhausted"
  ELSE "None"

(* The loop of ValidateHeaders after n headers: it stops at the first      *)
(* error.                                                                  *)
HeaderLoop(headers, maximumBytes) ==
  LET after[n \in 0..Len(headers)] ==
        IF n = 0 THEN [total |-> 0, error |-> "None"]
        ELSE LET h == headers[n]
                 e == HeaderError(h, after[n - 1].total, maximumBytes)
             IN  IF after[n - 1].error # "None" THEN after[n - 1]
                 ELSE IF e # "None" THEN [after[n - 1] EXCEPT !.error = e]
                 ELSE [after[n - 1] EXCEPT !.total = Wrapped(@ + LineBytes(h))]
  IN  after[Len(headers)]

ValidateHeaders(headers, maximumBytes) ==
  IF Len(headers) > MaximumHandshakeHeaderCount THEN "ResourceExhausted"
  ELSE HeaderLoop(headers, maximumBytes).error

(* WebTlsConfiguration::Validate                                           *)
TlsIsValid(tls) ==
  /\ "invalid" \notin {tls.authority, tls.certificate, tls.key}
  /\ tls.trust = "CertificateAuthority" <=> tls.authority = "present"
  /\ tls.certificate = "present" <=> tls.key = "present"

(* Empty() of a credential: no pointer, or no size.                        *)
HasNoTls(tls) ==
  /\ tls.trust = "PlatformTrust"
  /\ "present" \notin {tls.authority, tls.certificate, tls.key}

ValidateConfiguration(c) ==
  IF ~c.complete \/ c.maximumBytes = 0 \/ ~c.timed THEN "InvalidConfiguration"
  ELSE LET e == ValidateHeaders(c.headers, c.maximumBytes)
       IN  IF e # "None" THEN e
           ELSE IF IF c.transport = "Tls" THEN TlsIsValid(c.tls) ELSE HasNoTls(c.tls)
                THEN "None" ELSE "InvalidConfiguration"

-----------------------------------------------------------------------------
(* What a platform may rely on, stated without the loop and without wrap.  *)
HeaderBytes(headers) ==
  LET sum[n \in 0..Len(headers)] ==
        IF n = 0 THEN 0
        ELSE sum[n - 1] + headers[n].name + headers[n].value + FramingBytes
  IN  sum[Len(headers)]

Acceptable(c) ==
  /\ c.complete /\ c.timed
  /\ Len(c.headers) <= MaximumHandshakeHeaderCount
  /\ \A i \in DOMAIN c.headers : c.headers[i].kind = "application"
  /\ HeaderBytes(c.headers) <= c.maximumBytes
  /\ c.transport = "Tls" =>
       /\ c.tls.trust = "CertificateAuthority" => c.tls.authority = "present"
       /\ c.tls.trust = "PlatformTrust" => c.tls.authority = "empty"
       /\ {c.tls.certificate, c.tls.key} \in {{"empty"}, {"present"}}
  /\ c.transport = "Plain" =>
       c.tls.trust = "PlatformTrust" /\ "present" \notin {c.tls.authority, c.tls.certificate, c.tls.key}
=============================================================================
