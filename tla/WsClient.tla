------------------------------ MODULE WsClient ------------------------------
(***************************************************************************)
(* The reconnecting WebSocket client of internal/ws/client.go: every       *)
(* binary of the repository holds one.  Its goroutines are                 *)
(*                                                                         *)
(*   - runLoop, which dials, runs writeLoop on the connection and redials, *)
(*   - one readLoop per connection, which calls the message callback,      *)
(*   - the callers of SendMessage (Senders),                               *)
(*   - the caller of Stop.                                                 *)
(*                                                                         *)
(* Each action is one step of a goroutine between two points where another *)
(* goroutine can be observed: a mutex section, a channel operation, an     *)
(* atomic load or store, or a call into the network.  A connection is a    *)
(* number, 0 is the nil connection.  Messages are numbered in the order in *)
(* which SendMessage accepted them into the send queue.                    *)
(***************************************************************************)
EXTENDS Naturals, Sequences, FiniteSets, Functions

CONSTANTS
  Senders,     (* goroutines that call SendMessage                          *)
  QueueSize,   (* capacity of the send queue: sendQueueSize, 256            *)
  MaxMsgs,     (* bound of the model: messages accepted in a behaviour      *)
  MaxConns,    (* bound of the model: connections established               *)
  MaxRecv      (* bound of the model: messages received                     *)

ASSUME ClientAssumption ==
  /\ QueueSize \in Nat \ {0}
  /\ MaxMsgs \in Nat
  /\ MaxConns \in Nat
  /\ MaxRecv \in Nat

Conns == 1 .. MaxConns
Nil == 0                      (* no connection, or no message *)

(* Of a connection that was established: "up", "stalled" while its peer    *)
(* does not read, "down" when it has failed, "closed" on this side.        *)
LinkStates == {"unused", "up", "stalled", "down", "closed"}

VARIABLES
  running,     (* c.running                                                 *)
  stopClosed,  (* c.stopCh is closed                                        *)
  conn,        (* c.conn                                                    *)
  connected,   (* c.connected                                               *)
  sendCh,      (* c.sendCh                                                  *)
  runPc,       (* where runLoop is, writeLoop included                      *)
  runConn,     (* runLoop's local conn: the latest connection dialled       *)
  inflight,    (* writeLoop's local msg                                     *)
  reader,      (* reader[k]: where the readLoop of connection k is          *)
  sender,      (* sender[s]: where s is in SendMessage                      *)
  stopPc,      (* where Stop is                                             *)
  stopConn,    (* Stop's local conn                                         *)
  link,        (* link[k]: the network's state of connection k              *)
  received,    (* number of messages handed to the callback                 *)
  accepted,    (* history: number of messages accepted into sendCh          *)
  written,     (* history: messages WriteMessage returned nil for, in order *)
  requeued,    (* history: messages a failed write put back                 *)
  lost         (* history: accepted messages that were discarded            *)

Failed(k) == link[k] \in {"down", "closed"}

clientVars == <<running, stopClosed, conn, connected>>
stopVars == <<stopPc, stopConn>>
history == <<accepted, written, requeued, lost>>
vars == <<clientVars, sendCh, runPc, runConn, inflight, reader, sender,
          stopVars, link, received, history>>

Init ==
  /\ running = TRUE
  /\ stopClosed = FALSE
  /\ conn = Nil
  /\ connected = FALSE
  /\ sendCh = <<>>
  /\ runPc = "idle"
  /\ runConn = Nil
  /\ inflight = Nil
  /\ reader = [k \in Conns |-> "none"]
  /\ sender = [s \in Senders |-> "idle"]
  /\ stopPc = "none"
  /\ stopConn = Nil
  /\ link = [k \in Conns |-> "unused"]
  /\ received = 0
  /\ accepted = 0
  /\ written = <<>>
  /\ requeued = {}
  /\ lost = {}

(***************************************************************************)
(* runLoop                                                                 *)
(***************************************************************************)

(* Start is called once, by main, before anything else can call Stop.      *)
Start ==
  /\ runPc = "idle"
  /\ running' = TRUE
  /\ runPc' = "loop"
  /\ UNCHANGED <<stopClosed, conn, connected, sendCh, runConn, inflight,
                 reader, sender, stopVars, link, received, history>>

(* The test of running at the head of the loop.                            *)
TestRunning == runPc' = IF running THEN "dial" ELSE "exited"

LoopEnter ==
  /\ runPc = "loop"
  /\ TestRunning
  /\ UNCHANGED <<clientVars, sendCh, runConn, inflight, reader, sender,
                 stopVars, link, received, history>>

DialOk ==
  /\ runPc = "dial"
  /\ runConn < MaxConns
  /\ runConn' = runConn + 1
  /\ link' = [link EXCEPT ![runConn'] = "up"]
  /\ runPc' = "dialled"
  /\ UNCHANGED <<clientVars, sendCh, inflight, reader, sender, stopVars,
                 received, history>>

DialFail ==
  /\ runPc = "dial"
  /\ runPc' = "sleep"
  /\ UNCHANGED <<clientVars, sendCh, runConn, inflight, reader, sender,
                 stopVars, link, received, history>>

(* sleepOrStop: the timer fires and the loop goes round, or stopCh is      *)
(* closed and runLoop returns.                                             *)
SleepOrStop ==
  /\ runPc = "sleep"
  /\ \/ TestRunning
     \/ stopClosed /\ runPc' = "exited"
  /\ UNCHANGED <<clientVars, sendCh, runConn, inflight, reader, sender,
                 stopVars, link, received, history>>

(* setConn, then the readLoop of this connection is spawned.               *)
SetConn ==
  /\ runPc = "dialled"
  /\ conn' = runConn
  /\ connected' = TRUE
  /\ reader' = [reader EXCEPT ![runConn] = "reading"]
  /\ runPc' = "select"
  /\ UNCHANGED <<running, stopClosed, sendCh, runConn, inflight, sender,
                 stopVars, link, received, history>>

(* Seeded fault: writeLoop does not select on stopCh.                      *)
SelectDone_IgnoresStop ==
  /\ runPc = "select"
  /\ reader[runConn] = "done"
  /\ runPc' = "clearConn"
  /\ UNCHANGED <<clientVars, sendCh, runConn, inflight, reader, sender,
                 stopVars, link, received, history>>

(* Seeded fault: writeLoop does not select on connDone.                    *)
SelectDone_IgnoresReader ==
  /\ runPc = "select"
  /\ stopClosed
  /\ runPc' = "clearConn"
  /\ UNCHANGED <<clientVars, sendCh, runConn, inflight, reader, sender,
                 stopVars, link, received, history>>

(* The select of writeLoop: two ways to leave, one to take a message.      *)
SelectDone ==
  /\ runPc = "select"
  /\ reader[runConn] = "done" \/ stopClosed
  /\ runPc' = "clearConn"
  /\ UNCHANGED <<clientVars, sendCh, runConn, inflight, reader, sender,
                 stopVars, link, received, history>>

SelectSend ==
  /\ runPc = "select"
  /\ sendCh # <<>>
  /\ inflight' = Head(sendCh)
  /\ sendCh' = Tail(sendCh)
  /\ runPc' = "writing"
  /\ UNCHANGED <<clientVars, runConn, reader, sender, stopVars, link,
                 received, history>>

(* WriteMessage returns nil once the frame is with the kernel: the peer    *)
(* may already be gone, but the connection is not closed on this side.  No *)
(* deadline is set: it blocks while the peer does not read.                *)
WriteOk ==
  /\ runPc = "writing"
  /\ link[runConn] \in {"up", "down"}
  /\ written' = Append(written, inflight)
  /\ inflight' = Nil
  /\ runPc' = "select"
  /\ UNCHANGED <<clientVars, sendCh, runConn, reader, sender, stopVars, link,
                 received, accepted, requeued, lost>>

(* Seeded fault: a failed write does not requeue.                          *)
WriteFail_Forgets ==
  /\ runPc = "writing"
  /\ Failed(runConn)
  /\ connected' = FALSE
  /\ inflight' = Nil
  /\ runPc' = "clearConn"
  /\ UNCHANGED <<running, stopClosed, conn, sendCh, runConn, reader,
                 sender, stopVars, link, received, history>>

(* WriteMessage fails, setConnected(false); the message is still in hand.  *)
WriteFail ==
  /\ runPc = "writing"
  /\ Failed(runConn)
  /\ connected' = FALSE
  /\ runPc' = "requeue"
  /\ UNCHANGED <<running, stopClosed, conn, sendCh, runConn, inflight, reader,
                 sender, stopVars, link, received, history>>

(* Seeded fault: requeue discards although there is room.                  *)
Requeue_Discards ==
  /\ runPc = "requeue"
  /\ lost' = lost \cup {inflight}
  /\ inflight' = Nil
  /\ runPc' = "clearConn"
  /\ UNCHANGED <<clientVars, sendCh, requeued, runConn, reader, sender,
                 stopVars, link, received, accepted, written>>

(* requeue: back to the tail of the queue, unless the queue is full.       *)
Requeue ==
  /\ runPc = "requeue"
  /\ \/ /\ Len(sendCh) < QueueSize
        /\ sendCh' = Append(sendCh, inflight)
        /\ requeued' = requeued \cup {inflight}
        /\ UNCHANGED lost
     \/ /\ Len(sendCh) >= QueueSize
        /\ lost' = lost \cup {inflight}
        /\ UNCHANGED <<sendCh, requeued>>
  /\ inflight' = Nil
  /\ runPc' = "clearConn"
  /\ UNCHANGED <<clientVars, runConn, reader, sender, stopVars, link,
                 received, accepted, written>>

(* Seeded fault: clearConn does not close a connection that Stop took.     *)
ClearConn_OnlyCurrent ==
  /\ runPc = "clearConn"
  /\ conn' = IF conn = runConn THEN Nil ELSE conn
  /\ connected' = IF conn = runConn THEN FALSE ELSE connected
  /\ link' = IF conn = runConn THEN [link EXCEPT ![runConn] = "closed"] ELSE link
  /\ runPc' = "waitReader"
  /\ UNCHANGED <<running, stopClosed, sendCh, runConn, inflight, reader,
                 sender, stopVars, received, history>>

(* Seeded fault: what is queued goes with the connection.                  *)
ClearConn_Flushes ==
  /\ runPc = "clearConn"
  /\ conn' = IF conn = runConn THEN Nil ELSE conn
  /\ connected' = IF conn = runConn THEN FALSE ELSE connected
  /\ link' = [link EXCEPT ![runConn] = "closed"]
  /\ sendCh' = <<>>
  /\ runPc' = "waitReader"
  /\ UNCHANGED <<running, stopClosed, runConn, inflight, reader, sender,
                 stopVars, received, history>>

ClearConn ==
  /\ runPc = "clearConn"
  /\ conn' = IF conn = runConn THEN Nil ELSE conn
  /\ connected' = IF conn = runConn THEN FALSE ELSE connected
  /\ link' = [link EXCEPT ![runConn] = "closed"]
  /\ runPc' = "waitReader"
  /\ UNCHANGED <<running, stopClosed, sendCh, runConn, inflight, reader,
                 sender, stopVars, received, history>>

(* Seeded fault: runLoop redials without waiting for connDone.             *)
WaitReader_NoWait ==
  /\ runPc = "waitReader"
  /\ TestRunning
  /\ UNCHANGED <<clientVars, sendCh, runConn, inflight, reader, sender,
                 stopVars, link, received, history>>

(* <-connDone: the reader of this connection, and the callback it may be   *)
(* running, are finished before the next dial.                             *)
WaitReader ==
  /\ runPc = "waitReader"
  /\ reader[runConn] = "done"
  /\ TestRunning
  /\ UNCHANGED <<clientVars, sendCh, runConn, inflight, reader, sender,
                 stopVars, link, received, history>>

(***************************************************************************)
(* readLoop.  Bytes buffered before the connection failed or was closed    *)
(* can still complete a message, so a read may succeed on any link.        *)
(***************************************************************************)
ReadMessage(k) ==
  /\ reader[k] = "reading"
  /\ received < MaxRecv
  /\ reader' = [reader EXCEPT ![k] = "callback"]
  /\ received' = received + 1
  /\ UNCHANGED <<clientVars, sendCh, runPc, runConn, inflight, sender,
                 stopVars, link, history>>

CallbackDone(k) ==
  /\ reader[k] = "callback"
  /\ reader' = [reader EXCEPT ![k] = "reading"]
  /\ UNCHANGED <<clientVars, sendCh, runPc, runConn, inflight, sender,
                 stopVars, link, received, history>>

(* ReadMessage fails: setConnected(false) and, on return, close(connDone). *)
ReadError(k) ==
  /\ reader[k] = "reading"
  /\ Failed(k)
  /\ connected' = FALSE
  /\ reader' = [reader EXCEPT ![k] = "done"]
  /\ UNCHANGED <<running, stopClosed, conn, sendCh, runPc, runConn, inflight,
                 sender, stopVars, link, received, history>>

(***************************************************************************)
(* SendMessage: IsConnected reads running, then connected and conn under   *)
(* the read lock; the send to the queue does not block.                    *)
(***************************************************************************)
Busy == {s \in Senders : sender[s] # "idle"}

SendMessage(s) ==
  /\ sender[s] = "idle"
  /\ accepted + Cardinality(Busy) < MaxMsgs
  /\ running
  /\ sender' = [sender EXCEPT ![s] = "check"]
  /\ UNCHANGED <<clientVars, sendCh, runPc, runConn, inflight, reader,
                 stopVars, link, received, history>>

CheckConnected(s) ==
  /\ sender[s] = "check"
  /\ sender' = [sender EXCEPT ![s] =
                  IF connected /\ conn # Nil THEN "enqueue" ELSE "idle"]
  /\ UNCHANGED <<clientVars, sendCh, runPc, runConn, inflight, reader,
                 stopVars, link, received, history>>

(* Seeded fault: the queue grows past its capacity.                        *)
Enqueue_Unbounded(s) ==
  /\ sender[s] = "enqueue"
  /\ accepted' = accepted + 1
  /\ sendCh' = Append(sendCh, accepted')
  /\ sender' = [sender EXCEPT ![s] = "idle"]
  /\ UNCHANGED <<clientVars, runPc, runConn, inflight, reader, stopVars, link,
                 received, written, requeued, lost>>

(* Seeded fault: the latest message is sent first.                         *)
Enqueue_AtFront(s) ==
  /\ sender[s] = "enqueue"
  /\ Len(sendCh) < QueueSize
  /\ accepted' = accepted + 1
  /\ sendCh' = <<accepted'>> \o sendCh
  /\ sender' = [sender EXCEPT ![s] = "idle"]
  /\ UNCHANGED <<clientVars, runPc, runConn, inflight, reader, stopVars, link,
                 received, written, requeued, lost>>

Enqueue(s) ==
  /\ sender[s] = "enqueue"
  /\ \/ /\ Len(sendCh) < QueueSize
        /\ accepted' = accepted + 1
        /\ sendCh' = Append(sendCh, accepted')
     \/ /\ Len(sendCh) >= QueueSize
        /\ UNCHANGED <<accepted, sendCh>>
  /\ sender' = [sender EXCEPT ![s] = "idle"]
  /\ UNCHANGED <<clientVars, runPc, runConn, inflight, reader, stopVars, link,
                 received, written, requeued, lost>>

(***************************************************************************)
(* Stop                                                                    *)
(***************************************************************************)
StopSwap ==
  /\ runPc # "idle"
  /\ stopPc = "none"
  /\ running
  /\ running' = FALSE
  /\ stopPc' = "close"
  /\ UNCHANGED <<stopClosed, conn, connected, sendCh, runPc, runConn,
                 inflight, reader, sender, stopConn, link, received, history>>

StopClose ==
  /\ stopPc = "close"
  /\ stopClosed' = TRUE
  /\ stopPc' = "take"
  /\ UNCHANGED <<running, conn, connected, sendCh, runPc, runConn, inflight,
                 reader, sender, stopConn, link, received, history>>

StopTake ==
  /\ stopPc = "take"
  /\ stopConn' = conn
  /\ conn' = Nil
  /\ connected' = FALSE
  /\ stopPc' = IF conn # Nil THEN "shut" ELSE "drain"
  /\ UNCHANGED <<running, stopClosed, sendCh, runPc, runConn, inflight,
                 reader, sender, link, received, history>>

(* The close frame, which blocks like any other write, then Close.         *)
StopShut ==
  /\ stopPc = "shut"
  /\ link[stopConn] # "stalled"
  /\ link' = [link EXCEPT ![stopConn] = "closed"]
  /\ stopPc' = "drain"
  /\ UNCHANGED <<clientVars, sendCh, runPc, runConn, inflight, reader, sender,
                 stopConn, received, history>>

StopDrain ==
  /\ stopPc = "drain"
  /\ \/ /\ sendCh # <<>>
        /\ lost' = lost \cup {Head(sendCh)}
        /\ sendCh' = Tail(sendCh)
        /\ UNCHANGED stopPc
     \/ /\ sendCh = <<>>
        /\ stopPc' = "stopped"
        /\ UNCHANGED <<lost, sendCh>>
  /\ UNCHANGED <<clientVars, runPc, runConn, inflight, reader, sender,
                 stopConn, link, received, accepted, written, requeued>>

(* The peer stops reading, until the buffers are full, reads again, or the *)
(* peer or the network ends the connection.                                *)
LinkTurns(k, from, to) ==
  /\ link[k] \in from
  /\ link' = [link EXCEPT ![k] = to]
  /\ UNCHANGED <<clientVars, sendCh, runPc, runConn, inflight, reader, sender,
                 stopVars, received, history>>

PeerStalls(k) == LinkTurns(k, {"up"}, "stalled")
PeerReads(k) == LinkTurns(k, {"stalled"}, "up")
LinkDown(k) == LinkTurns(k, {"up", "stalled"}, "down")
Network(k) == PeerStalls(k) \/ PeerReads(k) \/ LinkDown(k)

(* Nothing is left to do: Stop returned and every goroutine has exited.    *)
Quiet ==
  /\ runPc = "exited"
  /\ stopPc = "stopped"
  /\ \A k \in Conns : reader[k] \in {"none", "done"}
  /\ \A s \in Senders : sender[s] = "idle"

Terminated == Quiet /\ UNCHANGED vars

(***************************************************************************)
(* The specification                                                       *)
(***************************************************************************)
RunLoop ==
  \/ Start \/ LoopEnter \/ DialOk \/ DialFail \/ SleepOrStop \/ SetConn
  \/ SelectDone \/ SelectSend \/ WriteOk \/ WriteFail \/ Requeue
  \/ ClearConn \/ WaitReader
ReadLoop(k) == ReadMessage(k) \/ CallbackDone(k) \/ ReadError(k)
Send(s) == SendMessage(s) \/ CheckConnected(s) \/ Enqueue(s)
Stop == StopSwap \/ StopClose \/ StopTake \/ StopShut \/ StopDrain

Next ==
  \/ RunLoop
  \/ \E k \in Conns : ReadLoop(k) \/ Network(k)
  \/ \E s \in Senders : Send(s)
  \/ Stop
  \/ Terminated

Spec == Init /\ [][Next]_vars

(* The Go scheduler runs every goroutine that can run, every callback ends *)
(* (each command a handler runs has a timeout), and a server that is       *)
(* redialled for ever accepts in the end.  Nothing makes a caller send or  *)
(* stop, the peer talk or read, or a connection fail; but a write gets on  *)
(* whenever the peer reads, if it does so again and again.                 *)
Fairness ==
  /\ WF_vars(RunLoop)
  /\ SF_vars(DialOk)
  /\ SF_vars(WriteOk \/ WriteFail)
  /\ SF_vars(StopShut)
  /\ \A k \in Conns : WF_vars(CallbackDone(k) \/ ReadError(k))
  /\ \A s \in Senders : WF_vars(CheckConnected(s) \/ Enqueue(s))
  /\ WF_vars(StopClose \/ StopTake \/ StopShut \/ StopDrain)

FairSpec == Spec /\ Fairness

(***************************************************************************)
(* Properties                                                              *)
(***************************************************************************)
RunPcs == {"idle", "loop", "dial", "dialled", "sleep", "select", "writing",
           "requeue", "clearConn", "waitReader", "exited"}

(* Every variable has its type; the send queue respects its capacity.      *)
TypeOK ==
  /\ running \in BOOLEAN
  /\ stopClosed \in BOOLEAN
  /\ conn \in Conns \cup {Nil}
  /\ connected \in BOOLEAN
  /\ sendCh \in Seq(1 .. accepted)
  /\ Len(sendCh) <= QueueSize
  /\ runPc \in RunPcs
  /\ runConn \in Conns \cup {Nil}
  /\ inflight \in 0 .. accepted
  /\ reader \in [Conns -> {"none", "reading", "callback", "done"}]
  /\ sender \in [Senders -> {"idle", "check", "enqueue"}]
  /\ stopPc \in {"none", "close", "take", "shut", "drain", "stopped"}
  /\ stopConn \in Conns \cup {Nil}
  /\ link \in [Conns -> LinkStates]
  /\ received \in Nat
  /\ accepted \in Nat
  /\ written \in Seq(1 .. accepted)
  /\ requeued \subseteq 1 .. accepted
  /\ lost \subseteq 1 .. accepted

Live(k) == reader[k] \in {"reading", "callback"}

(* The message callback never runs twice at the same time: OTA commands    *)
(* are handled one after the other, across reconnections too, because      *)
(* runLoop waits for connDone before it dials again.                       *)
HandlersSerial == \A j, k \in Conns : Live(j) /\ Live(k) => j = k

(* A connection is open on this side only while runLoop is serving it: the *)
(* server never sees two connections of one client, and none is left open  *)
(* by a Stop that runs while runLoop is between Dial and setConn.          *)
NoLeakedConn ==
  \A k \in Conns : link[k] \in {"up", "stalled", "down"} =>
    /\ k = runConn
    /\ runPc \in {"dialled", "select", "writing", "requeue", "clearConn"}

(* IsConnected turns false only because the connection failed or Stop was  *)
(* called: a readLoop that ends late never marks a newer connection as     *)
(* disconnected.                                                           *)
OnlyFailureDisconnects ==
  [][connected /\ ~connected' => ~running \/ Failed(conn)]_vars

Queued(m) == m \in Range(sendCh)
Written(m) == m \in Range(written)

(* Every accepted message is in exactly one place and there only once: in  *)
(* the queue, in writeLoop's hand, written, or discarded.  None is written *)
(* twice although a failed one is queued again, and none vanishes.         *)
EachMessageOnce ==
  /\ IsInjective(sendCh)
  /\ IsInjective(written)
  /\ \A m \in 1 .. accepted :
       /\ Queued(m) \/ inflight = m \/ Written(m) \/ m \in lost
       /\ Queued(m) => inflight # m /\ ~Written(m) /\ m \notin lost
       /\ inflight = m => ~Written(m) /\ m \notin lost
       /\ Written(m) => m \notin lost

(* Messages leave in the order in which they were accepted, but for those  *)
(* whose write failed: an older message written after a younger one was    *)
(* put back at the tail of the queue by requeue.                           *)
OnlyRequeuedOvertaken ==
  \A i, j \in DOMAIN written :
    i < j /\ written[j] < written[i] => written[j] \in requeued

(* The client keeps the promise Outbox makes: at most once, and nothing is *)
(* discarded before Stop while there is room.                              *)
Promise == INSTANCE Outbox WITH
  Capacity <- QueueSize,
  accepted <- accepted,
  pending <- Range(sendCh) \cup ({inflight} \ {Nil}),
  delivered <- written,
  lost <- lost,
  stopped <- ~running

KeepsPromise == Promise!Spec

(* "reconnecting with a fixed delay on failure" (the comment on runLoop):  *)
(* the loop dials on entry or after the delay, never straight after a      *)
(* connection failed.                                                      *)
ReconnectsAfterDelay ==
  [][runPc # "dial" /\ runPc' = "dial" => runPc \in {"loop", "sleep"}]_vars

(* A peer that is connected and never reads again.                         *)
PeerNeverReads == [](runConn # Nil /\ link[runConn] = "stalled")

(* Stop makes every goroutine of the client exit, whatever it interrupts:  *)
(* a dial, the delay, a blocked select, a failing write, a long callback,  *)
(* a write that waits for its peer.  Only a peer that never reads again    *)
(* keeps it from closing the connection: writes have no deadline.          *)
StopEndsAll == stopPc = "close" ~> Quiet \/ PeerNeverReads

(* A connection that fails is replaced by a new one unless the client is   *)
(* stopped; the model lets MaxConns connections be established.            *)
Reconnects ==
  \A k \in Conns :
    link[k] = "down" /\ k < MaxConns ~> (runConn > k /\ connected) \/ ~running

(* A message in the queue is written, on a later connection if its own     *)
(* fails, unless the client stops, a full queue rejects it when it is put  *)
(* back, no further connection can be established, or a peer that never    *)
(* reads again holds up the one before it.                                 *)
QueuedIsWritten ==
  \A m \in 1 .. MaxMsgs :
    Queued(m) ~>
      \/ Written(m)
      \/ m \in lost
      \/ ~running
      \/ \A k \in Conns : Failed(k)
      \/ PeerNeverReads

(***************************************************************************)
(* The inductive invariant behind the safety properties                    *)
(***************************************************************************)
ServingPcs == {"dialled", "select", "writing", "requeue", "clearConn",
               "waitReader"}

(* Which connection each goroutine can be working on.                      *)
ConnInv ==
  /\ \A k \in Conns : Live(k) =>
       k = runConn /\ runPc \in ServingPcs \ {"dialled"}
  /\ \A k \in Conns : k > runConn => reader[k] = "none" /\ link[k] = "unused"
  /\ \A k \in Conns : link[k] \in {"up", "stalled", "down"} =>
       k = runConn /\ runPc \in ServingPcs \ {"waitReader"}
  /\ \A k \in Conns : reader[k] = "done" => Failed(k)
  /\ runPc \in ServingPcs => runConn # Nil
  /\ runPc = "dialled" => reader[runConn] = "none"
  /\ runPc = "idle" => stopPc = "none"
  /\ stopPc = "none" <=> running
  /\ stopClosed => ~running
  /\ stopPc = "shut" => stopConn # Nil /\ stopConn <= runConn
  /\ conn # Nil =>
       conn = runConn /\ runPc \in ServingPcs \ {"dialled", "waitReader"}
  /\ connected => conn # Nil
  /\ runPc \in {"requeue", "clearConn"} /\ connected =>
       ~running \/ Failed(runConn)

(* b was accepted after a, or has lost its place by a failed write.        *)
After(a, b) == a <= b \/ b \in requeued

(* The order of the messages written, in hand and queued.                  *)
OrderInv ==
  /\ \A i, j \in DOMAIN written : i < j => After(written[i], written[j])
  /\ \A i, j \in DOMAIN sendCh : i < j => After(sendCh[i], sendCh[j])
  /\ \A i \in DOMAIN written, j \in DOMAIN sendCh : After(written[i], sendCh[j])
  /\ inflight # Nil =>
       /\ \A i \in DOMAIN written : After(written[i], inflight)
       /\ \A j \in DOMAIN sendCh : After(inflight, sendCh[j])

(* writeLoop holds a message exactly while it writes or puts it back.      *)
HandInv == inflight # Nil <=> runPc \in {"writing", "requeue"}

(* Connections, the order of messages and the place of each message: what  *)
(* every reachable state satisfies and every step preserves.               *)
SafeInv == TypeOK /\ ConnInv /\ HandInv /\ EachMessageOnce /\ OrderInv
=============================================================================
