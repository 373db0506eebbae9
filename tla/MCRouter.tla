------------------------------- MODULE MCRouter -------------------------------
(* A small instance of Router for TLC. The request fits every valid pattern: *)
(* one with one parameter and little literal text, one with one parameter   *)
(* and much, offered for the request's method and for any, one with two     *)
(* parameters and more literal text than the first. The first is offered    *)
(* for another method than the request's. Two patterns are invalid.         *)
EXTENDS Router

MCLength == [x \in {"", "a", "bc", "long"} |->
               CASE x = "" -> 0 [] x = "a" -> 1 [] x = "bc" -> 2 [] x = "long" -> 4]

Literal(x)   == [parameter |-> FALSE, text |-> x]
Parameter(x) == [parameter |-> TRUE, text |-> x]
Slashed(s)   == [rooted |-> TRUE, segments |-> s]

Short   == Slashed(<<Literal("a"), Literal("bc"), Parameter("a")>>)
Long    == Slashed(<<Parameter("a"), Literal("bc"), Literal("long")>>)
Two     == Slashed(<<Parameter("a"), Parameter("bc"), Literal("long")>>)
Three   == Slashed(<<Parameter("a"), Parameter("bc"), Parameter("long")>>)
Unnamed == Slashed(<<Literal("a"), Literal("bc"), Parameter("")>>)

Offer(m, p) == [method |-> m, pattern |-> p]
MCRegistrations ==
  {Offer("POST", Short), Offer("GET", Long), Offer("Any", Long), Offer("Any", Two),
   Offer("Any", Three), Offer("Any", Unnamed)}

MCRequests == {[method |-> "GET", path |-> Slashed(<<"a", "bc", "long">>)]}
=============================================================================
