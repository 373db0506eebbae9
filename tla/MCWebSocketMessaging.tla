-------------------------- MODULE MCWebSocketMessaging --------------------------
(* A small instance of WebSocketMessaging for TLC: events of no, some and  *)
(* too many bytes, and a response to every request.                        *)
EXTENDS WebSocketMessaging

MCPackets == [kind : {"event"}, size : {0, 1, 2}, id : {0}]
               \cup [kind : {"response"}, size : {1}, id : 1..MaxRequests]
=============================================================================
