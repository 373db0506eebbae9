---------------------------- MODULE MCHttpExchange ----------------------------
(* A small instance of HttpExchange for TLC: resources of no byte, of less     *)
(* than a chunk of two, of a chunk and a half, and one too large for a size_t; *)
(* resource responders that fall back in a chain to the default page, to one   *)
(* of the application's own, and to each other.                                *)
EXTENDS HttpExchange

MCSizes == {0, 1, 3, 5}
MCMaximumSize == 4
MCFallback == [r \in ResourceResponders |->
  CASE r = "first" -> "second" [] r = "second" -> DefaultResponder [] r = "own" -> "application"
    [] r = "left" -> "right"   [] r = "right" -> "left"]
=============================================================================
