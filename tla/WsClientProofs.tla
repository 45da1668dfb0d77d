--------------------------- MODULE WsClientProofs ---------------------------
(***************************************************************************)
(* Proofs about the WebSocket client, for any number of senders, any queue *)
(* size and any number of connections and messages.                        *)
(***************************************************************************)
EXTENDS WsClient, FiniteSetTheorems, TLAPS

LEMMA HeadTail ==
  ASSUME NEW S, NEW q \in Seq(S), q # <<>>
  PROVE  /\ Head(q) \in S
         /\ Head(q) = q[1]
         /\ Tail(q) \in Seq(S)
         /\ Len(q) > 0
         /\ Len(Tail(q)) = Len(q) - 1
         /\ \A i \in DOMAIN Tail(q) : i + 1 \in DOMAIN q /\ Tail(q)[i] = q[i + 1]
OBVIOUS

LEMMA AppendOne ==
  ASSUME NEW S, NEW q \in Seq(S), NEW e \in S
  PROVE  /\ Append(q, e) \in Seq(S)
         /\ Len(Append(q, e)) = Len(q) + 1
         /\ DOMAIN Append(q, e) = DOMAIN q \cup {Len(q) + 1}
         /\ Append(q, e)[Len(q) + 1] = e
         /\ \A i \in DOMAIN q : i # Len(q) + 1 /\ Append(q, e)[i] = q[i]
OBVIOUS

LEMMA Wider ==
  ASSUME NEW n \in Nat, NEW q \in Seq(1 .. n)
  PROVE  q \in Seq(1 .. n + 1)
OBVIOUS

-----------------------------------------------------------------------------
(* Types                                                                   *)

LEMMA TypeInit == Init => TypeOK /\ HandInv
<1> SUFFICES ASSUME Init PROVE TypeOK /\ HandInv
  OBVIOUS
<1> USE ClientAssumption DEF Init, LinkStates
<1>1. /\ sendCh \in Seq(1 .. accepted)
      /\ Len(sendCh) <= QueueSize
      /\ written \in Seq(1 .. accepted)
  OBVIOUS
<1>2. /\ reader \in [Conns -> {"none", "reading", "callback", "done"}]
      /\ link \in [Conns -> LinkStates]
      /\ sender \in [Senders -> {"idle", "check", "enqueue"}]
  OBVIOUS
<1>3. requeued \subseteq 1 .. accepted /\ lost \subseteq 1 .. accepted
  OBVIOUS
<1>4. HandInv /\ inflight \in 0 .. accepted
  BY DEF HandInv, Nil
<1> QED
  BY <1>1, <1>2, <1>3, <1>4 DEF TypeOK, RunPcs, Nil

LEMMA TypeStep == TypeOK /\ HandInv /\ [Next]_vars => TypeOK' /\ HandInv'
<1> SUFFICES ASSUME TypeOK, HandInv, [Next]_vars
             PROVE  TypeOK' /\ HandInv'
  OBVIOUS
<1> USE ClientAssumption DEF Nil, LinkStates
<1>1. CASE Start
  BY <1>1 DEF Start, TypeOK, HandInv, RunPcs, clientVars, stopVars, history
<1>2. CASE LoopEnter
  BY <1>2 DEF LoopEnter, TestRunning, TypeOK, HandInv, RunPcs, clientVars, stopVars, history
<1>3. CASE DialOk
  BY <1>3 DEF DialOk, TypeOK, HandInv, RunPcs, Conns, clientVars, stopVars, history
<1>4. CASE DialFail
  BY <1>4 DEF DialFail, TypeOK, HandInv, RunPcs, clientVars, stopVars, history
<1>5. CASE SleepOrStop
  BY <1>5 DEF SleepOrStop, TestRunning, TypeOK, HandInv, RunPcs, clientVars, stopVars, history
<1>6. CASE SetConn
  BY <1>6 DEF SetConn, TypeOK, HandInv, RunPcs, clientVars, stopVars, history
<1>7. CASE SelectDone
  BY <1>7 DEF SelectDone, TypeOK, HandInv, RunPcs, clientVars, stopVars, history
<1>8. CASE SelectSend
  BY <1>8, HeadTail DEF SelectSend, TypeOK, HandInv, RunPcs, clientVars, stopVars, history
<1>9. CASE WriteOk
  BY <1>9, AppendOne DEF WriteOk, TypeOK, HandInv, RunPcs, clientVars, stopVars, history
<1>10. CASE WriteFail
  BY <1>10 DEF WriteFail, TypeOK, HandInv, RunPcs, clientVars, stopVars, history
<1>11. CASE Requeue
  <2> inflight \in 1 .. accepted
    BY <1>11 DEF Requeue, TypeOK, HandInv
  <2>1. sendCh' \in Seq(1 .. accepted') /\ Len(sendCh') <= QueueSize
    <3> /\ sendCh \in Seq(1 .. accepted)
        /\ Len(sendCh) <= QueueSize
        /\ accepted' = accepted
      BY <1>11 DEF Requeue, TypeOK
    <3>1. CASE Len(sendCh) < QueueSize /\ sendCh' = Append(sendCh, inflight)
      BY <3>1, AppendOne
    <3>2. CASE sendCh' = sendCh
      BY <3>2
    <3> QED BY <1>11, <3>1, <3>2 DEF Requeue
  <2>2. requeued' \subseteq 1 .. accepted' /\ lost' \subseteq 1 .. accepted'
    <3> accepted' = accepted
      BY <1>11 DEF Requeue
    <3> requeued \subseteq 1 .. accepted /\ lost \subseteq 1 .. accepted
      BY DEF TypeOK
    <3>1. CASE requeued' = requeued \cup {inflight} /\ lost' = lost
      BY <3>1
    <3>2. CASE requeued' = requeued /\ lost' = lost \cup {inflight}
      BY <3>2
    <3> QED BY <1>11, <3>1, <3>2 DEF Requeue
  <2> QED
    BY <1>11, <2>1, <2>2
       DEF Requeue, TypeOK, HandInv, RunPcs, clientVars, stopVars, history
<1>12. CASE ClearConn
  BY <1>12 DEF ClearConn, TypeOK, HandInv, RunPcs, clientVars, stopVars, history
<1>13. CASE WaitReader
  BY <1>13 DEF WaitReader, TestRunning, TypeOK, HandInv, RunPcs, clientVars, stopVars, history
<1>14. ASSUME NEW k \in Conns, ReadLoop(k) \/ Network(k)
       PROVE  TypeOK' /\ HandInv'
  <2>1. CASE ReadMessage(k)
    BY <2>1 DEF ReadMessage, TypeOK, HandInv, clientVars, stopVars, history
  <2>2. CASE CallbackDone(k)
    BY <2>2 DEF CallbackDone, TypeOK, HandInv, clientVars, stopVars, history
  <2>3. CASE ReadError(k)
    BY <2>3 DEF ReadError, TypeOK, HandInv, clientVars, stopVars, history
  <2>4. CASE Network(k)
    BY <2>4 DEF
                Network, LinkDown, PeerStalls, PeerReads, LinkTurns,
                TypeOK, HandInv, clientVars, stopVars, history
  <2> QED
    BY <1>14, <2>1, <2>2, <2>3, <2>4 DEF ReadLoop
<1>15. ASSUME NEW s \in Senders, Send(s)
       PROVE  TypeOK' /\ HandInv'
  <2>1. CASE SendMessage(s) \/ CheckConnected(s)
    BY <2>1 DEF SendMessage, CheckConnected, TypeOK, HandInv, clientVars, stopVars, history
  <2>2. CASE Enqueue(s)
    <3>1. CASE UNCHANGED <<accepted, sendCh>>
      BY <2>2, <3>1 DEF Enqueue, TypeOK, HandInv, clientVars, stopVars, history
    <3>2. CASE /\ Len(sendCh) < QueueSize
               /\ accepted' = accepted + 1
               /\ sendCh' = Append(sendCh, accepted')
      <4>1. accepted' \in Nat /\ inflight' \in 0 .. accepted'
        BY <2>2, <3>2 DEF Enqueue, TypeOK, clientVars
      <4>2. sendCh' \in Seq(1 .. accepted') /\ Len(sendCh') <= QueueSize
        BY <3>2, Wider, AppendOne DEF TypeOK
      <4>3. written' \in Seq(1 .. accepted')
        BY <2>2, <3>2, Wider DEF Enqueue, TypeOK
      <4>4. requeued' \subseteq 1 .. accepted' /\ lost' \subseteq 1 .. accepted'
        BY <2>2, <3>2 DEF Enqueue, TypeOK
      <4> QED
        BY <2>2, <4>1, <4>2, <4>3, <4>4
           DEF Enqueue, TypeOK, HandInv, clientVars, stopVars
    <3> QED
      BY <2>2, <3>1, <3>2 DEF Enqueue
  <2> QED BY <1>15, <2>1, <2>2 DEF Send
<1>16. CASE Stop
  <2>1. CASE StopDrain
    <3> accepted' = accepted
      BY <2>1 DEF StopDrain
    <3>1. sendCh' \in Seq(1 .. accepted) /\ Len(sendCh') <= QueueSize
      <4>1. CASE sendCh # <<>> /\ sendCh' = Tail(sendCh)
        <5> sendCh \in Seq(1 .. accepted) /\ Len(sendCh) <= QueueSize
          BY DEF TypeOK
        <5> QED BY <4>1, HeadTail
      <4>2. CASE sendCh' = sendCh
        BY <4>2 DEF TypeOK
      <4> QED BY <2>1, <4>1, <4>2 DEF StopDrain
    <3>2. lost' \subseteq 1 .. accepted
      <4>1. CASE sendCh # <<>> /\ lost' = lost \cup {Head(sendCh)}
        <5>1. Head(sendCh) \in 1 .. accepted /\ lost \subseteq 1 .. accepted
          BY <4>1, HeadTail DEF TypeOK
        <5> QED BY <4>1, <5>1
      <4>2. CASE lost' = lost
        BY <4>2 DEF TypeOK
      <4> QED BY <2>1, <4>1, <4>2 DEF StopDrain
    <3> QED
      BY <2>1, <3>1, <3>2
         DEF StopDrain, TypeOK, HandInv, clientVars, stopVars, history
  <2>2. CASE StopSwap \/ StopClose \/ StopTake \/ StopShut
    BY <2>2 DEF StopSwap, StopClose, StopTake, StopShut,
                TypeOK, HandInv, clientVars, stopVars, history
  <2> QED BY <1>16, <2>1, <2>2 DEF Stop
<1>17. CASE UNCHANGED vars \/ Terminated
  BY <1>17 DEF Terminated, vars, TypeOK, HandInv, clientVars, stopVars, history
<1> QED
  BY <1>1, <1>2, <1>3, <1>4, <1>5, <1>6, <1>7, <1>8, <1>9, <1>10, <1>11, <1>12,
     <1>13, <1>14, <1>15, <1>16, <1>17
     DEF Next, RunLoop

(* Every variable always has its type: whatever the sizes, the send queue  *)
(* never exceeds its capacity and writeLoop holds a message only while it  *)
(* is writing it or putting it back.                                       *)
THEOREM TypeCorrect == Spec => [](TypeOK /\ HandInv)
BY TypeInit, TypeStep, PTL DEF Spec

(* In particular the types alone, with the capacity of the queue: Enqueue  *)
(* and Requeue never put a message beyond it.                              *)
THEOREM ClientTypes == Spec => []TypeOK
<1>1. TypeOK /\ HandInv => TypeOK
  OBVIOUS
<1> QED BY <1>1, TypeCorrect, PTL

-----------------------------------------------------------------------------
(* Connections                                                             *)

LEMMA ConnInit == Init => ConnInv
BY DEF Init, ConnInv, Conns, Nil, Live, ServingPcs, Failed

LEMMA ConnStep == TypeOK /\ ConnInv /\ [Next]_vars => ConnInv'
<1> SUFFICES ASSUME TypeOK, ConnInv, [Next]_vars
             PROVE  ConnInv'
  OBVIOUS
<1> USE ClientAssumption
    DEF Nil, Conns, Live, ServingPcs, Failed, LinkStates, TypeOK, ConnInv,
        clientVars, stopVars, history
<1>1. CASE Start
  BY <1>1 DEF Start
<1>2. CASE LoopEnter
  BY <1>2 DEF LoopEnter, TestRunning
<1>3. CASE DialOk
  BY <1>3 DEF DialOk
<1>4. CASE DialFail
  BY <1>4 DEF DialFail
<1>5. CASE SleepOrStop
  BY <1>5 DEF SleepOrStop, TestRunning
<1>6. CASE SetConn
  BY <1>6 DEF SetConn
<1>7. CASE SelectDone
  BY <1>7 DEF SelectDone
<1>8. CASE SelectSend
  BY <1>8 DEF SelectSend
<1>9. CASE WriteOk
  BY <1>9 DEF WriteOk
<1>10. CASE WriteFail
  BY <1>10 DEF WriteFail
<1>11. CASE Requeue
  BY <1>11 DEF Requeue
<1>12. CASE ClearConn
  BY <1>12 DEF ClearConn
<1>13. CASE WaitReader
  BY <1>13 DEF WaitReader, TestRunning
<1>14. ASSUME NEW k \in Conns, ReadLoop(k) \/ Network(k)
       PROVE  ConnInv'
  <2>1. CASE ReadMessage(k)
    BY <2>1 DEF ReadMessage
  <2>2. CASE CallbackDone(k)
    BY <2>2 DEF CallbackDone
  <2>3. CASE ReadError(k)
    BY <2>3 DEF ReadError
  <2>4. CASE PeerStalls(k)
    BY <2>4 DEF PeerStalls, LinkTurns
  <2>5. CASE PeerReads(k)
    BY <2>5 DEF PeerReads, LinkTurns
  <2>6. CASE LinkDown(k)
    BY <2>6 DEF LinkDown, LinkTurns
  <2> QED
    BY <1>14, <2>1, <2>2, <2>3, <2>4, <2>5, <2>6 DEF ReadLoop, Network
<1>15. ASSUME NEW s \in Senders, Send(s)
       PROVE  ConnInv'
  BY <1>15 DEF Send, SendMessage, CheckConnected, Enqueue
<1>16. CASE Stop
  <2>1. CASE StopSwap
    BY <2>1 DEF StopSwap
  <2>2. CASE StopClose
    BY <2>2 DEF StopClose
  <2>3. CASE StopTake
    BY <2>3 DEF StopTake
  <2>4. CASE StopShut
    BY <2>4 DEF StopShut
  <2>5. CASE StopDrain
    BY <2>5 DEF StopDrain
  <2> QED BY <1>16, <2>1, <2>2, <2>3, <2>4, <2>5 DEF Stop
<1>17. CASE UNCHANGED vars \/ Terminated
  BY <1>17 DEF Terminated, vars
<1> QED
  BY <1>1, <1>2, <1>3, <1>4, <1>5, <1>6, <1>7, <1>8, <1>9, <1>10, <1>11, <1>12,
     <1>13, <1>14, <1>15, <1>16, <1>17
     DEF Next, RunLoop

LEMMA ConnCorrect == Spec => []ConnInv
BY ConnInit, ConnStep, TypeCorrect, PTL DEF Spec

(* The callback of one connection is over before the next connection's     *)
(* can start, however reads, failures and Stop interleave.                 *)
THEOREM SerialHandlers == Spec => []HandlersSerial
<1>1. ConnInv => HandlersSerial
  BY DEF ConnInv, HandlersSerial
<1> QED BY <1>1, ConnCorrect, PTL

(* No connection is left open behind runLoop's back.                       *)
THEOREM NoConnectionLeaks == Spec => []NoLeakedConn
<1>1. ConnInv => NoLeakedConn
  BY DEF ConnInv, NoLeakedConn, ServingPcs
<1> QED BY <1>1, ConnCorrect, PTL

(* Only a failed connection or Stop makes IsConnected turn false.          *)
THEOREM DisconnectsOnFailureOnly == Spec => OnlyFailureDisconnects
<1>1. TypeOK /\ ConnInv /\ [Next]_vars =>
        [connected /\ ~connected' => ~running \/ Failed(conn)]_vars
  <2> SUFFICES ASSUME TypeOK, ConnInv, Next, connected, ~connected'
               PROVE  ~running \/ Failed(conn)
    BY DEF vars, clientVars
  <2> USE DEF Nil, Conns, ConnInv, ServingPcs, Live, Failed, clientVars
  <2>1. CASE RunLoop
    BY <2>1 DEF RunLoop, Start, LoopEnter, DialOk, DialFail, SleepOrStop, SetConn,
                SelectDone, SelectSend, WriteOk, WriteFail, Requeue, ClearConn,
                WaitReader
  <2>2. ASSUME NEW k \in Conns, ReadLoop(k) \/ Network(k)
        PROVE  ~running \/ Failed(conn)
    BY <2>2 DEF ReadLoop, ReadMessage, CallbackDone, ReadError,
                Network, LinkDown, PeerStalls, PeerReads, LinkTurns
  <2>3. ASSUME NEW s \in Senders, Send(s)
        PROVE  ~running \/ Failed(conn)
    BY <2>3 DEF Send, SendMessage, CheckConnected, Enqueue
  <2>4. CASE Stop
    BY <2>4 DEF Stop, StopSwap, StopClose, StopTake, StopShut, StopDrain
  <2>5. CASE Terminated
    BY <2>5 DEF Terminated, vars
  <2> QED BY <2>1, <2>2, <2>3, <2>4, <2>5 DEF Next
<1> QED BY <1>1, TypeCorrect, ConnCorrect, PTL DEF Spec, OnlyFailureDisconnects

-----------------------------------------------------------------------------
(* Messages                                                                *)

LEMMA TakeHead ==
  ASSUME NEW S, NEW q \in Seq(S), q # <<>>, IsInjective(q)
  PROVE  /\ Head(q) \in Range(q)
         /\ Range(Tail(q)) = Range(q) \ {Head(q)}
         /\ IsInjective(Tail(q))
<1>1. DOMAIN q = 1 .. Len(q) /\ DOMAIN Tail(q) = 1 .. (Len(q) - 1) /\ Len(q) \in Nat \ {0}
  OBVIOUS
<1>2. Head(q) = q[1] /\ \A i \in DOMAIN Tail(q) : Tail(q)[i] = q[i + 1]
  OBVIOUS
<1>3. Head(q) \in Range(q)
  BY <1>1, <1>2 DEF Range
<1>4. IsInjective(Tail(q))
  BY <1>1, <1>2 DEF IsInjective
<1>5. Range(Tail(q)) \subseteq Range(q) \ {Head(q)}
  BY <1>1, <1>2 DEF Range, IsInjective
<1>6. ASSUME NEW x \in Range(q), x # Head(q)
      PROVE  x \in Range(Tail(q))
  <2>1. PICK i \in 1 .. Len(q) : q[i] = x
    BY <1>1 DEF Range
  <2>2. i - 1 \in DOMAIN Tail(q) /\ Tail(q)[i - 1] = x
    BY <1>1, <1>2, <1>6, <2>1
  <2> QED BY <2>2 DEF Range
<1> QED BY <1>3, <1>4, <1>5, <1>6

LEMMA AppendLast ==
  ASSUME NEW S, NEW q \in Seq(S), NEW e \in S
  PROVE  /\ Range(Append(q, e)) = Range(q) \cup {e}
         /\ IsInjective(q) /\ e \notin Range(q) => IsInjective(Append(q, e))
<1>1. DOMAIN q = 1 .. Len(q) /\ DOMAIN Append(q, e) = 1 .. (Len(q) + 1) /\ Len(q) \in Nat
  OBVIOUS
<1>2. Append(q, e)[Len(q) + 1] = e /\ \A i \in 1 .. Len(q) : Append(q, e)[i] = q[i]
  OBVIOUS
<1>3. Range(Append(q, e)) = Range(q) \cup {e}
  <2>1. ASSUME NEW x \in Range(Append(q, e)) PROVE x \in Range(q) \cup {e}
    BY <1>1, <1>2 DEF Range
  <2>2. ASSUME NEW x \in Range(q) \cup {e} PROVE x \in Range(Append(q, e))
    BY <1>1, <1>2 DEF Range
  <2> QED BY <2>1, <2>2
<1>4. ASSUME IsInjective(q), e \notin Range(q)
      PROVE  IsInjective(Append(q, e))
  BY <1>1, <1>2, <1>4 DEF IsInjective, Range
<1> QED BY <1>3, <1>4

(* The steps that move a message; every other step leaves them alone.      *)
msgVars == <<sendCh, inflight, accepted, written, requeued, lost>>

LEMMA MovingSteps ==
  [Next]_vars =>
    \/ SelectSend \/ WriteOk \/ Requeue \/ StopDrain
    \/ \E s \in Senders : Enqueue(s)
    \/ UNCHANGED msgVars
<1> SUFFICES ASSUME [Next]_vars
             PROVE  \/ SelectSend \/ WriteOk \/ Requeue \/ StopDrain
                    \/ \E s \in Senders : Enqueue(s)
                    \/ UNCHANGED msgVars
  OBVIOUS
<1> USE DEF msgVars, history
<1>1. CASE RunLoop
  BY <1>1 DEF RunLoop, Start, LoopEnter, DialOk, DialFail, SleepOrStop, SetConn,
              SelectDone, WriteFail, ClearConn, WaitReader
<1>2. ASSUME NEW k \in Conns, ReadLoop(k) \/ Network(k)
      PROVE  UNCHANGED msgVars
  BY <1>2 DEF ReadLoop, ReadMessage, CallbackDone, ReadError,
              Network, LinkDown, PeerStalls, PeerReads, LinkTurns
<1>3. ASSUME NEW s \in Senders, Send(s)
      PROVE  Enqueue(s) \/ UNCHANGED msgVars
  BY <1>3 DEF Send, SendMessage, CheckConnected
<1>4. CASE Stop
  BY <1>4 DEF Stop, StopSwap, StopClose, StopTake, StopShut
<1>5. CASE Terminated \/ UNCHANGED vars
  BY <1>5 DEF Terminated, vars
<1> QED BY <1>1, <1>2, <1>3, <1>4, <1>5 DEF Next

LEMMA OnceInit == Init => EachMessageOnce
BY DEF Init, EachMessageOnce, IsInjective

LEMMA OnceStep ==
  TypeOK /\ HandInv /\ EachMessageOnce /\ [Next]_vars => EachMessageOnce'
<1> SUFFICES ASSUME TypeOK, HandInv, EachMessageOnce, [Next]_vars
             PROVE  EachMessageOnce'
  OBVIOUS
<1> /\ sendCh \in Seq(1 .. accepted)
    /\ written \in Seq(1 .. accepted)
    /\ accepted \in Nat
    /\ inflight \in 0 .. accepted
    /\ inflight # Nil <=> runPc \in {"writing", "requeue"}
    /\ requeued \subseteq 1 .. accepted
    /\ lost \subseteq 1 .. accepted
  BY DEF TypeOK, HandInv
<1> Range(sendCh) \subseteq 1 .. accepted /\ Range(written) \subseteq 1 .. accepted
  BY DEF Range
<1> USE DEF EachMessageOnce, Queued, Written, Nil
<1>1. CASE SelectSend
  <2> sendCh # <<>> /\ inflight = Nil
    BY <1>1 DEF SelectSend
  <2> /\ Head(sendCh) \in Range(sendCh)
      /\ Range(sendCh') = Range(sendCh) \ {Head(sendCh)}
      /\ IsInjective(sendCh')
    BY <1>1, TakeHead DEF SelectSend
  <2> QED BY <1>1 DEF SelectSend, history
<1>2. CASE WriteOk
  <2> inflight \in 1 .. accepted /\ inflight \notin Range(written)
    BY <1>2 DEF WriteOk
  <2> /\ Range(written') = Range(written) \cup {inflight}
      /\ IsInjective(written')
    BY <1>2, AppendLast DEF WriteOk
  <2> QED BY <1>2 DEF WriteOk
<1>3. CASE Requeue
  <2> inflight \in 1 .. accepted /\ inflight \notin Range(sendCh)
    BY <1>3 DEF Requeue
  <2>1. CASE sendCh' = Append(sendCh, inflight) /\ lost' = lost
    <3> /\ Range(sendCh') = Range(sendCh) \cup {inflight}
        /\ IsInjective(sendCh')
      BY <2>1, AppendLast
    <3> QED BY <1>3, <2>1 DEF Requeue
  <2>2. CASE lost' = lost \cup {inflight} /\ sendCh' = sendCh
    BY <1>3, <2>2 DEF Requeue
  <2> QED BY <1>3, <2>1, <2>2 DEF Requeue
<1>4. CASE StopDrain
  <2>1. CASE sendCh # <<>> /\ lost' = lost \cup {Head(sendCh)} /\ sendCh' = Tail(sendCh)
    <3> /\ Head(sendCh) \in Range(sendCh)
        /\ Range(sendCh') = Range(sendCh) \ {Head(sendCh)}
        /\ IsInjective(sendCh')
      BY <2>1, TakeHead
    <3> QED BY <1>4, <2>1 DEF StopDrain
  <2>2. CASE UNCHANGED <<lost, sendCh>>
    BY <1>4, <2>2 DEF StopDrain
  <2> QED BY <1>4, <2>1, <2>2 DEF StopDrain
<1>5. ASSUME NEW s \in Senders, Enqueue(s)
      PROVE  EachMessageOnce'
  <2>1. CASE accepted' = accepted + 1 /\ sendCh' = Append(sendCh, accepted')
    <3> accepted' \notin Range(sendCh) /\ sendCh \in Seq(1 .. accepted')
      BY <2>1, Wider
    <3> /\ Range(sendCh') = Range(sendCh) \cup {accepted'}
        /\ IsInjective(sendCh')
      BY <2>1, AppendLast
    <3> QED BY <1>5, <2>1 DEF Enqueue
  <2>2. CASE UNCHANGED <<accepted, sendCh>>
    BY <1>5, <2>2 DEF Enqueue
  <2> QED BY <1>5, <2>1, <2>2 DEF Enqueue
<1>6. CASE UNCHANGED msgVars
  BY <1>6 DEF msgVars
<1> QED BY <1>1, <1>2, <1>3, <1>4, <1>5, <1>6, MovingSteps

(* No accepted message is duplicated or vanishes: it is queued, in hand,   *)
(* written or discarded, in one of these places and once.                  *)
THEOREM MessagesOnce == Spec => []EachMessageOnce
BY OnceInit, OnceStep, TypeCorrect, PTL DEF Spec

LEMMA OrderInit == Init => OrderInv
BY DEF Init, OrderInv, Nil

LEMMA OrderStep ==
  TypeOK /\ HandInv /\ OrderInv /\ [Next]_vars => OrderInv'
<1> SUFFICES ASSUME TypeOK, HandInv, OrderInv, [Next]_vars
             PROVE  OrderInv'
  OBVIOUS
<1> /\ sendCh \in Seq(1 .. accepted)
    /\ written \in Seq(1 .. accepted)
    /\ accepted \in Nat
    /\ inflight \in 0 .. accepted
    /\ inflight # Nil <=> runPc \in {"writing", "requeue"}
  BY DEF TypeOK, HandInv
<1> USE DEF OrderInv, After, Nil
<1>1. CASE SelectSend
  <2>1. /\ inflight' = sendCh[1]
        /\ 1 \in DOMAIN sendCh
        /\ \A i \in DOMAIN sendCh' :
             i + 1 \in DOMAIN sendCh /\ 1 < i + 1 /\ sendCh'[i] = sendCh[i + 1]
    BY <1>1, HeadTail DEF SelectSend
  <2>2. \A i, j \in DOMAIN sendCh' : i < j => i + 1 < j + 1
    BY <1>1, HeadTail DEF SelectSend
  <2> QED BY <1>1, <2>1, <2>2 DEF SelectSend, history
<1>2. CASE WriteOk
  <2> inflight \in 1 .. accepted
    BY <1>2 DEF WriteOk
  <2>1. /\ DOMAIN written' = DOMAIN written \cup {Len(written) + 1}
        /\ written'[Len(written) + 1] = inflight
        /\ \A i \in DOMAIN written :
             i < Len(written) + 1 /\ written'[i] = written[i]
    BY <1>2 DEF WriteOk
  <2> QED BY <1>2, <2>1 DEF WriteOk
<1>3. CASE Requeue
  <2> inflight \in 1 .. accepted
    BY <1>3 DEF Requeue
  <2>1. CASE sendCh' = Append(sendCh, inflight) /\ requeued' = requeued \cup {inflight}
    <3>1. /\ DOMAIN sendCh' = DOMAIN sendCh \cup {Len(sendCh) + 1}
          /\ sendCh'[Len(sendCh) + 1] = inflight
          /\ \A i \in DOMAIN sendCh :
               i < Len(sendCh) + 1 /\ sendCh'[i] = sendCh[i]
      BY <2>1
    <3> QED BY <1>3, <2>1, <3>1 DEF Requeue
  <2>2. CASE UNCHANGED <<sendCh, requeued>>
    BY <1>3, <2>2 DEF Requeue
  <2> QED BY <1>3, <2>1, <2>2 DEF Requeue
<1>4. CASE StopDrain
  <2>1. CASE sendCh # <<>> /\ sendCh' = Tail(sendCh)
    <3>1. \A i \in DOMAIN sendCh' :
             i + 1 \in DOMAIN sendCh /\ sendCh'[i] = sendCh[i + 1]
      BY <2>1, HeadTail
    <3>2. \A i, j \in DOMAIN sendCh' : i < j => i + 1 < j + 1
      BY <2>1, HeadTail
    <3> QED BY <1>4, <3>1, <3>2 DEF StopDrain
  <2>2. CASE UNCHANGED sendCh
    BY <1>4, <2>2 DEF StopDrain
  <2> QED BY <1>4, <2>1, <2>2 DEF StopDrain
<1>5. ASSUME NEW s \in Senders, Enqueue(s)
      PROVE  OrderInv'
  <2>1. CASE accepted' = accepted + 1 /\ sendCh' = Append(sendCh, accepted')
    <3>1. /\ DOMAIN sendCh' = DOMAIN sendCh \cup {Len(sendCh) + 1}
          /\ sendCh'[Len(sendCh) + 1] = accepted'
          /\ \A i \in DOMAIN sendCh :
               i < Len(sendCh) + 1 /\ sendCh'[i] = sendCh[i]
      <4>1. sendCh \in Seq(1 .. accepted') /\ accepted' \in 1 .. accepted'
        BY <2>1, Wider
      <4> HIDE DEF OrderInv
      <4> QED BY <2>1, <4>1
    <3>2. /\ \A i \in DOMAIN sendCh : sendCh[i] <= accepted'
          /\ \A i \in DOMAIN written : written[i] <= accepted'
          /\ inflight <= accepted'
      <4>1. \A i \in DOMAIN sendCh : sendCh[i] \in 1 .. accepted
        OBVIOUS
      <4>2. \A i \in DOMAIN written : written[i] \in 1 .. accepted
        OBVIOUS
      <4> QED BY <2>1, <4>1, <4>2
    <3>3. UNCHANGED <<written, inflight, requeued>>
      BY <1>5 DEF Enqueue
    <3>4. \A i, j \in DOMAIN sendCh' : i < j => After(sendCh[i], sendCh[j])'
      BY <3>1, <3>2, <3>3
    <3> QED BY <3>1, <3>2, <3>3, <3>4
  <2>2. CASE UNCHANGED <<accepted, sendCh>>
    BY <1>5, <2>2 DEF Enqueue
  <2> QED BY <1>5, <2>1, <2>2 DEF Enqueue
<1>6. CASE UNCHANGED msgVars
  BY <1>6 DEF msgVars
<1> QED BY <1>1, <1>2, <1>3, <1>4, <1>5, <1>6, MovingSteps

LEMMA OrderCorrect == Spec => []OrderInv
BY OrderInit, OrderStep, TypeCorrect, PTL DEF Spec

(* A message overtaken on its way out is one whose write failed.           *)
THEOREM OrderKept == Spec => []OnlyRequeuedOvertaken
<1>1. TypeOK /\ OrderInv => OnlyRequeuedOvertaken
  BY DEF TypeOK, OrderInv, After, OnlyRequeuedOvertaken
<1> QED BY <1>1, TypeCorrect, OrderCorrect, PTL

(* The whole inductive invariant.                                          *)
THEOREM Safe == Spec => []SafeInv
BY TypeCorrect, ConnCorrect, MessagesOnce, OrderCorrect, PTL DEF SafeInv

-----------------------------------------------------------------------------
(* The client implements Outbox                                            *)

LEMMA RangeCardinality ==
  ASSUME NEW S, NEW q \in Seq(S), IsInjective(q)
  PROVE  IsFiniteSet(Range(q)) /\ Cardinality(Range(q)) = Len(q)
<1>1. q \in Surjection(1 .. Len(q), Range(q)) /\ q \in Injection(1 .. Len(q), Range(q))
  BY DEF Surjection, Injection, Range
<1>2. IsFiniteSet(1 .. Len(q)) /\ Cardinality(1 .. Len(q)) = Len(q)
  <2>1. 1 \in Int /\ Len(q) \in Int /\ Len(q) >= 0
    OBVIOUS
  <2>2. Cardinality(1 .. Len(q)) = IF 1 > Len(q) THEN 0 ELSE Len(q) - 1 + 1
    BY <2>1, FS_Interval
  <2> QED BY <2>1, <2>2, FS_Interval
<1> QED BY <1>1, <1>2, FS_Surjection

(* Cardinality as Outbox knows it is Cardinality.                          *)
LEMMA SameCardinality == ASSUME NEW S PROVE Promise!Cardinality(S) = Cardinality(S)
BY DEF Promise!Cardinality, Cardinality

(* The messages the refinement mapping shows as pending.                   *)
Pending == Range(sendCh) \cup ({inflight} \ {Nil})

LEMMA PendingCardinality ==
  ASSUME TypeOK, EachMessageOnce
  PROVE  /\ IsFiniteSet(Pending)
         /\ Cardinality(Pending) = Len(sendCh) + (IF inflight = Nil THEN 0 ELSE 1)
<1>1. IsFiniteSet(Range(sendCh)) /\ Cardinality(Range(sendCh)) = Len(sendCh)
  BY RangeCardinality DEF TypeOK, EachMessageOnce
<1>2. CASE inflight = Nil
  <2> Pending = Range(sendCh)
    BY <1>2 DEF Pending
  <2> QED BY <1>1, <1>2 DEF TypeOK
<1>3. CASE inflight # Nil
  <2>1. Pending = Range(sendCh) \cup {inflight}
    BY <1>3 DEF Pending
  <2>2. inflight \notin Range(sendCh)
    BY <1>3 DEF TypeOK, EachMessageOnce, Queued, Nil
  <2> QED BY <1>1, <1>3, <2>1, <2>2, FS_AddElement DEF TypeOK
<1> QED BY <1>2, <1>3

(* Every behaviour of the client, its connections forgotten, is one of the *)
(* outbox: each step of a goroutine accepts, delivers, discards or stops   *)
(* as Outbox allows, or leaves what Outbox shows unchanged.                *)
THEOREM ImplementsOutbox == Spec => KeepsPromise
<1>1. Init => Promise!Init
  BY DEF Init, Promise!Init, Range, Nil
<1>2. SafeInv /\ [Next]_vars => [Promise!Next]_(Promise!vars)
  <2> SUFFICES ASSUME SafeInv, [Next]_vars
               PROVE  Promise!Next \/ UNCHANGED Promise!vars
    OBVIOUS
  <2> /\ sendCh \in Seq(1 .. accepted)
      /\ Len(sendCh) <= QueueSize
      /\ accepted \in Nat
      /\ inflight \in 0 .. accepted
      /\ inflight # Nil <=> runPc \in {"writing", "requeue"}
      /\ IsInjective(sendCh)
      /\ inflight # Nil => inflight \notin Range(sendCh)
    BY DEF SafeInv, TypeOK, HandInv, EachMessageOnce, Queued, Nil
  <2> Range(sendCh) \subseteq 1 .. accepted
    BY DEF Range
  <2> /\ IsFiniteSet(Pending)
      /\ Cardinality(Pending) = Len(sendCh) + (IF inflight = Nil THEN 0 ELSE 1)
    BY PendingCardinality DEF SafeInv
  <2> USE ClientAssumption
  <2>1. CASE SelectSend
    <3> Pending' = Pending
      <4>1. sendCh # <<>> /\ inflight = Nil
        BY <2>1 DEF SelectSend
      <4>2. /\ Head(sendCh) \in Range(sendCh)
            /\ Range(sendCh') = Range(sendCh) \ {Head(sendCh)}
        BY <2>1, <4>1, TakeHead DEF SelectSend
      <4>3. inflight' = Head(sendCh) /\ Head(sendCh) # Nil
        BY <2>1, <4>2 DEF SelectSend, Nil
      <4> QED BY <4>1, <4>2, <4>3 DEF Pending
    <3> UNCHANGED <<accepted, written, lost, running>>
      BY <2>1 DEF SelectSend, history, clientVars
    <3> QED BY DEF Promise!vars, Pending
  <2>2. CASE WriteOk
    <3>1. inflight \in Pending /\ Pending' = Pending \ {inflight}
      BY <2>2 DEF WriteOk, Pending, Nil
    <3>2. Promise!Deliver(inflight)
      BY <2>2, <3>1 DEF WriteOk, Promise!Deliver, Pending, clientVars
    <3> QED BY <3>1, <3>2 DEF Promise!Next, Pending
  <2>3. CASE Requeue
    <3> inflight # Nil
      BY <2>3 DEF Requeue
    <3> UNCHANGED <<accepted, written, running>> /\ inflight' = Nil
      BY <2>3 DEF Requeue, clientVars
    <3>1. CASE sendCh' = Append(sendCh, inflight) /\ lost' = lost
      <4> Range(sendCh') = Range(sendCh) \cup {inflight}
        BY <3>1, AppendLast DEF Nil
      <4> Pending' = Pending
        BY DEF Pending, Nil
      <4> QED BY <3>1 DEF Promise!vars, Pending
    <3>2. CASE /\ Len(sendCh) >= QueueSize
               /\ lost' = lost \cup {inflight}
               /\ sendCh' = sendCh
      <4>1. inflight \in Pending /\ Pending' = Pending \ {inflight}
        BY <3>2 DEF Pending, Nil
      <4>2. Cardinality(Pending) > QueueSize
        BY <3>2
      <4>3. Promise!Lose(inflight)
        BY <3>2, <4>1, <4>2, SameCardinality DEF Promise!Lose, Pending
      <4> QED BY <4>1, <4>3 DEF Promise!Next, Pending
    <3> QED BY <2>3, <3>1, <3>2 DEF Requeue
  <2>4. CASE StopDrain
    <3> UNCHANGED <<accepted, written, running, inflight>> /\ ~running
      BY <2>4 DEF StopDrain, clientVars, SafeInv, ConnInv
    <3>1. CASE /\ sendCh # <<>>
               /\ lost' = lost \cup {Head(sendCh)}
               /\ sendCh' = Tail(sendCh)
      <4>1. /\ Head(sendCh) \in Range(sendCh)
            /\ Range(sendCh') = Range(sendCh) \ {Head(sendCh)}
        BY <3>1, TakeHead
      <4>2. Head(sendCh) \in Pending /\ Pending' = Pending \ {Head(sendCh)}
        BY <4>1 DEF Pending, Nil
      <4>3. Promise!Lose(Head(sendCh))
        BY <3>1, <4>2 DEF Promise!Lose, Pending
      <4> QED BY <4>2, <4>3 DEF Promise!Next, Pending
    <3>2. CASE UNCHANGED <<lost, sendCh>>
      BY <3>2 DEF Promise!vars
    <3> QED BY <2>4, <3>1, <3>2 DEF StopDrain
  <2>5. ASSUME NEW s \in Senders, Enqueue(s)
        PROVE  Promise!Next \/ UNCHANGED Promise!vars
    <3> UNCHANGED <<written, lost, running, inflight>>
      BY <2>5 DEF Enqueue, clientVars
    <3>1. CASE /\ Len(sendCh) < QueueSize
               /\ accepted' = accepted + 1
               /\ sendCh' = Append(sendCh, accepted')
      <4>1. Range(sendCh') = Range(sendCh) \cup {accepted'}
        BY <3>1, Wider, AppendLast
      <4>2. Pending' = Pending \cup {accepted'}
        BY <4>1 DEF Pending
      <4>3. Cardinality(Pending) <= QueueSize
        BY <3>1
      <4>4. Promise!Accept
        BY <3>1, <4>2, <4>3, SameCardinality DEF Promise!Accept, Pending
      <4> QED BY <4>4 DEF Promise!Next
    <3>2. CASE UNCHANGED <<accepted, sendCh>>
      BY <3>2 DEF Promise!vars
    <3> QED BY <2>5, <3>1, <3>2 DEF Enqueue
  <2>6. CASE UNCHANGED msgVars
    <3>1. CASE StopSwap
      BY <2>6, <3>1 DEF StopSwap, msgVars, Promise!Next, Promise!Halt
    <3>2. CASE ~StopSwap
      <4>1. running' = running
        <5> USE DEF clientVars
        <5>1. CASE RunLoop
          BY <5>1 DEF RunLoop, Start, LoopEnter, DialOk, DialFail, SleepOrStop,
                      SetConn, SelectDone, SelectSend, WriteOk, WriteFail,
                      Requeue, ClearConn, WaitReader, SafeInv, ConnInv, TypeOK
        <5>2. ASSUME NEW k \in Conns, ReadLoop(k) \/ Network(k)
              PROVE  running' = running
          BY <5>2 DEF ReadLoop, ReadMessage, CallbackDone, ReadError,
                      Network, LinkDown, PeerStalls, PeerReads, LinkTurns
        <5>3. ASSUME NEW s \in Senders, Send(s)
              PROVE  running' = running
          BY <5>3 DEF Send, SendMessage, CheckConnected, Enqueue
        <5>4. CASE Stop
          BY <3>2, <5>4 DEF Stop, StopClose, StopTake, StopShut, StopDrain
        <5>5. CASE Terminated \/ UNCHANGED vars
          BY <5>5 DEF Terminated, vars
        <5> QED BY <5>1, <5>2, <5>3, <5>4, <5>5 DEF Next
      <4> QED BY <2>6, <4>1 DEF msgVars, Promise!vars
    <3> QED BY <3>1, <3>2
  <2> QED BY <2>1, <2>2, <2>3, <2>4, <2>5, <2>6, MovingSteps
<1> QED BY <1>1, <1>2, Safe, PTL DEF Spec, KeepsPromise, Promise!Spec
=============================================================================
