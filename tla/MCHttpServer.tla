----------------------------- MODULE MCHttpServer -----------------------------
(* Small instances of HttpServer for TLC.                                   *)
EXTENDS HttpServer

(* A body of length 1 is within every limit, one of length 2 only within   *)
(* the larger ones.                                                        *)
MCLengths == {1, 2}

Plain  == [positive |-> TRUE, tls |-> FALSE, keepAlive |-> FALSE, maxBody |-> 1]
Large  == [positive |-> TRUE, tls |-> FALSE, keepAlive |-> TRUE, maxBody |-> 2]
Secure == [positive |-> TRUE, tls |-> TRUE, keepAlive |-> FALSE, maxBody |-> 2]
Unusable == [positive |-> FALSE, tls |-> FALSE, keepAlive |-> FALSE, maxBody |-> 2]
Unconfigured == [positive |-> TRUE, tls |-> FALSE, keepAlive |-> TRUE, maxBody |-> 2]

MCConfigurations == {Plain, Large, Secure, Unusable}
TwoConfigurations == {Plain, Secure}
MCCapabilities == {"Http", "PersistentConnections"}
=============================================================================
