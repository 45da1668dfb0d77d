---------------------------- MODULE MCWsClient ----------------------------
(* The WebSocket client on a small instance.                               *)
EXTENDS WsClient, TLC

(* Goroutines that only send are interchangeable.                          *)
SenderSymmetry == Permutations(Senders)
=============================================================================
