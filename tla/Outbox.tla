------------------------------- MODULE Outbox -------------------------------
(***************************************************************************)
(* What SendMessage of internal/ws/client.go promises about an accepted    *)
(* message, whatever the connections do: it is pending until it leaves, it *)
(* leaves at most once, and it is discarded only by Stop or because the    *)
(* outbox already holds as many messages as it may.  WsClient implements   *)
(* this with a queue, a writer and a sequence of connections.              *)
(***************************************************************************)
EXTENDS Naturals, Sequences, FiniteSets

CONSTANT Capacity    (* messages waiting besides the one being written *)

VARIABLES
  accepted,   (* number of messages accepted: they are numbered from 1 *)
  pending,    (* accepted messages that have not left                  *)
  delivered,  (* messages handed to the network, in order              *)
  lost,       (* messages discarded                                    *)
  stopped     (* Stop was called                                       *)

vars == <<accepted, pending, delivered, lost, stopped>>

Init ==
  /\ accepted = 0
  /\ pending = {}
  /\ delivered = <<>>
  /\ lost = {}
  /\ stopped = FALSE

Accept ==
  /\ Cardinality(pending) <= Capacity
  /\ accepted' = accepted + 1
  /\ pending' = pending \cup {accepted'}
  /\ UNCHANGED <<delivered, lost, stopped>>

Deliver(m) ==
  /\ pending' = pending \ {m}
  /\ delivered' = Append(delivered, m)
  /\ UNCHANGED <<accepted, lost, stopped>>

Lose(m) ==
  /\ stopped \/ Cardinality(pending) > Capacity
  /\ pending' = pending \ {m}
  /\ lost' = lost \cup {m}
  /\ UNCHANGED <<accepted, delivered, stopped>>

Halt ==
  /\ ~stopped
  /\ stopped' = TRUE
  /\ UNCHANGED <<accepted, pending, delivered, lost>>

Next ==
  \/ Accept
  \/ \E m \in pending : Deliver(m) \/ Lose(m)
  \/ Halt

Spec == Init /\ [][Next]_vars
=============================================================================
