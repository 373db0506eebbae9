---------------------------- MODULE MCDnsServer ----------------------------
(* A small instance of DnsServer for TLC: a query the wildcard answers, one *)
(* for the other family and one of another class; a usable configuration    *)
(* and one without a port.                                                  *)
EXTENDS DnsServer

MCQuestions == {<<"A", "Internet">>, <<"Aaaa", "Internet">>, <<"A", "Chaos">>}
MCConfigurations == {[Port |-> 53, MaximumPendingRequests |-> 8],
                     [Port |-> 0, MaximumPendingRequests |-> 8]}
=============================================================================
