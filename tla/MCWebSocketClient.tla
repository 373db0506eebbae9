--------------------------- MODULE MCWebSocketClient ---------------------------
(* A small instance of WebSocketClient for TLC. A size_t goes up to 15; the *)
(* headers have a line that fits, one that would fit only if its length     *)
(* wrapped (4 + 12 + 4 is 4), and every other reason to be refused.         *)
EXTENDS WebSocketClient

NoTls == [trust |-> "PlatformTrust", authority |-> "empty", certificate |-> "empty", key |-> "empty"]

Header(k, n, v) == [kind |-> k, name |-> n, value |-> v]
Small    == Header("application", 1, 0)
Wrapping == Header("application", 4, 12)

Base == [complete |-> TRUE, timed |-> TRUE, headers |-> <<>>, maximumBytes |-> 10,
         transport |-> "Plain", tls |-> NoTls]

MCHeaders == {<<Small>>, <<Wrapping>>, <<Small, Small>>, <<Small, Small, Small>>,
              <<Small, Header("application", 1, 1)>>, <<Small, Header("reserved", 1, 0)>>,
              <<Header("malformed", 1, 0)>>}

MCTls == [trust : {"PlatformTrust", "CertificateAuthority"}, authority : {"empty", "present"},
          certificate : {"empty", "present"}, key : {"empty", "present", "invalid"}]

MCConfigurations ==
  {Base, [Base EXCEPT !.complete = FALSE], [Base EXCEPT !.timed = FALSE],
   [Base EXCEPT !.maximumBytes = 0]}
    \cup {[Base EXCEPT !.headers = h] : h \in MCHeaders}
    \cup {[Base EXCEPT !.transport = t, !.tls = s] : t \in {"Plain", "Tls"}, s \in MCTls}
=============================================================================
