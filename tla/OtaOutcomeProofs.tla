-------------------------- MODULE OtaOutcomeProofs --------------------------
(***************************************************************************)
(* More proofs about the OTA engine, on top of its inductive invariant:    *)
(* that what it reports is true of the containers, that docker-compose     *)
(* finds the variables of the command, that a handler always gets on, and  *)
(* that from outside the engine is CommandLoop.                            *)
(***************************************************************************)
EXTENDS OtaEngineProofs

-----------------------------------------------------------------------------
(* How a handler begins, moves and ends                                    *)

Dispatchable ==
  {"upgrade", "update_config", "start", "stop", "pause", "unpause", "restart"}

Answered(c, kind) ==
  /\ plan' = <<"callback">>
  /\ Len(verdicts') = 1 /\ verdicts'[1].kind = kind

(* Every frame of a verdict says which one, whether it is sent or not.     *)
LEMMA Reports ==
  ASSUME NEW op, NEW kind, NEW f \in Frame(op, kind)
  PROVE  f.kind = kind
BY DEF Frame

LEMMA EndReports ==
  ASSUME NEW kind, End(kind)
  PROVE  /\ plan' = <<"callback">>
         /\ \E f : f.kind = kind /\ verdicts' = Append(verdicts, f)
BY Reports DEF End, Report

(* What a message is to the engine: nothing, a verdict, or a plan.         *)
LEMMA Receives ==
  ASSUME Receive
  PROVE  /\ plan = <<>>
         /\ UNCHANGED <<docker, files, stage, stored, cached, envCut, doubt, crashes>>
         /\ \/ UNCHANGED <<control, message, locals>>
            \/ Answered(cmd', "error") \/ Answered(cmd', "decode_error")
            \/ \E a \in Dispatchable : cmd'.action = a /\ plan' = Plan(a)
<1>1. ASSUME NEW a, NEW s, NEW t, NEW e, NEW C, NEW full \in BOOLEAN,
             full => a \in Dispatchable, Dispatch(Request(a, s, t, e), C, full)
      PROVE  /\ plan = <<>>
             /\ UNCHANGED <<docker, files, stage, stored, cached, envCut, doubt, crashes>>
             /\ \/ Answered(cmd', "error")
                \/ \E b \in Dispatchable : cmd'.action = b /\ plan' = Plan(b)
  <2>1. Request(a, s, t, e).action = a
    BY DEF Request
  <2>2. /\ plan = <<>> /\ cmd' = Request(a, s, t, e)
        /\ UNCHANGED <<docker, files, stage, stored, cached, envCut, doubt, crashes>>
        /\ IF full THEN plan' = Plan(a)
                   ELSE /\ plan' = <<"callback">>
                        /\ \E f \in Frame(operation', "error") : verdicts' = <<f>>
    BY <1>1, <2>1 DEF Dispatch, Accept, history
  <2>3. ~full => Answered(cmd', "error")
    BY <2>2, Reports DEF Answered
  <2> QED
    BY <1>1, <2>1, <2>2, <2>3
<1>2. CASE ReceiveUpgrade
  <2>1. PICK s \in Services, t \in Tags \cup {"none"}, e \in BOOLEAN :
          Dispatch(Request("upgrade", s, t, e), {}, t # "none")
    BY <1>2 DEF ReceiveUpgrade
  <2> QED
    BY <1>1, <2>1, Zenon DEF Dispatchable
<1>3. CASE ReceiveConfigUpdate
  <2>1. PICK s \in Services, t \in Tags \cup {"none"}, e \in BOOLEAN :
          Dispatch(Request("update_config", s, t, e), {}, e)
    BY <1>3 DEF ReceiveConfigUpdate
  <2> QED
    BY <1>1, <2>1, Zenon DEF Dispatchable
<1>4. CASE ReceiveStart
  BY <1>1, <1>4, Zenon DEF ReceiveStart, Dispatchable
<1>5. CASE ReceiveSimple
  BY <1>1, <1>5, Zenon DEF ReceiveSimple, Dispatchable
<1>6. CASE ReceiveStop
  BY <1>1, <1>6, Zenon DEF ReceiveStop, Dispatchable
<1>7. CASE ReceiveUnknown
  BY <1>1, <1>7, Zenon DEF ReceiveUnknown, Dispatchable
<1>8. CASE ReceiveGarbled
  <2>1. /\ plan = <<>> /\ plan' = <<"callback">>
        /\ \E f \in Frame(operation, "decode_error") : verdicts' = <<f>>
        /\ UNCHANGED <<docker, files, stage, stored, cached, envCut, doubt, crashes>>
    BY <1>8 DEF ReceiveGarbled, Accept, history
  <2> QED
    BY <2>1, Reports DEF Answered
<1>9. CASE ReceiveIncomplete
  BY <1>9 DEF ReceiveIncomplete, control, history
<1> QED
  BY <1>2, <1>3, <1>4, <1>5, <1>6, <1>7, <1>8, <1>9 DEF Receive

(* The plans keep to the order that the phases are there for.              *)
LEMMA SequencePlan ==
  ASSUME NEW a \in Dispatchable
  PROVE  /\ Plan(a) # <<>> /\ Plan(a) # <<"callback">>
         /\ Plan(a)[1] \notin {"start", "recreate", "finish", "callback"}
         /\ \A i \in DOMAIN Plan(a) \ {1} :
              Plan(a)[i] = "finish" => Plan(a)[i - 1] = LastCall(a)
         /\ \A i, j \in DOMAIN Plan(a) :
              /\ Plan(a)[i] = "env" /\ Plan(a)[j] \in {"resolve", "schema"} => j < i
              /\ Plan(a)[i] \in {"start", "recreate"} /\ Plan(a)[j] = "env" => j < i
         /\ \A i \in DOMAIN Plan(a) : Plan(a)[i] \in {"start", "recreate"} =>
              \E j \in DOMAIN Plan(a) : Plan(a)[j] = "env"
<1>1. Plan(a) # <<>> /\ Plan(a) # <<"callback">>
  <2>1. Len(Plan(a)) >= 2
    BY PlanShape DEF Dispatchable
  <2> QED
    BY <2>1, Long
<1> USE DEF Plan, LastCall
<1>2. CASE a = "upgrade"
  BY <1>1, <1>2 DEF UpgradePlan
<1>3. CASE a = "update_config"
  BY <1>1, <1>3 DEF UpdatePlan
<1>4. CASE a = "start"
  BY <1>1, <1>4
<1>5. CASE a = "stop"
  BY <1>1, <1>5
<1>6. CASE a \in {"pause", "unpause", "restart"}
  <2>1. Plan(a) = <<"resolve", a, "finish">> /\ LastCall(a) = a
    BY <1>6
  <2> QED
    BY <1>1, <1>6, <2>1
<1> QED
  BY <1>2, <1>3, <1>4, <1>5, <1>6 DEF Dispatchable

LEMMA SequenceMoves ==
  ASSUME HandlerInv, PhaseSequence, UNCHANGED message, Moves
  PROVE  PhaseSequence'
<1>1. CASE UNCHANGED <<plan, verdicts>>
  BY <1>1 DEF PhaseSequence, message
<1>2. CASE plan # <<>> /\ plan[1] # "finish" /\ plan[1] # "callback" /\ NextPhase
  <2>1. /\ plan \in Seq(Phases) /\ plan' \in Seq(Phases) /\ Len(plan') = Len(plan) - 1
        /\ \A i \in DOMAIN plan' : i + 1 \in DOMAIN plan /\ plan'[i] = plan[i + 1]
    BY <1>2, Advance DEF HandlerInv, TypeOK
  <2>2. ASSUME NEW i \in DOMAIN plan' \ {1}, plan'[i] = "finish"
        PROVE  plan'[i - 1] = LastCall(cmd'.action)
    <3>1. /\ i \in Nat /\ i - 1 \in DOMAIN plan' /\ i + 1 \in DOMAIN plan \ {1}
          /\ (i + 1) - 1 = i
      BY <2>1
    <3>2. plan'[i] = plan[i + 1] /\ plan'[i - 1] = plan[i]
      BY <2>1, <3>1
    <3> QED
      BY <2>2, <3>1, <3>2 DEF PhaseSequence, message
  <2>3. ASSUME NEW i \in DOMAIN plan', NEW j \in DOMAIN plan'
        PROVE  /\ plan'[i] = "env" /\ plan'[j] \in {"resolve", "schema"} => j < i
               /\ plan'[i] \in {"start", "recreate"} /\ plan'[j] = "env" => j < i
    <3>1. /\ i \in Nat /\ j \in Nat /\ i + 1 \in DOMAIN plan /\ j + 1 \in DOMAIN plan
          /\ plan'[i] = plan[i + 1] /\ plan'[j] = plan[j + 1]
      BY <2>1
    <3> QED
      BY <3>1 DEF PhaseSequence
  <2> QED
    BY <2>2, <2>3 DEF PhaseSequence
<1>3. CASE Working /\ \E kind \in Verdicts : End(kind)
  <2>1. \A i \in DOMAIN plan' : i = 1 /\ plan'[i] = "callback"
    BY <1>3, Ending DEF HandlerInv
  <2> QED
    BY <2>1 DEF PhaseSequence
<1> QED
  BY <1>1, <1>2, <1>3 DEF Moves

(* What comes after the phase a handler is at.                             *)
LEMMA Goes ==
  ASSUME HandlerInv, PhaseSequence, plan # <<>>, plan[1] # "finish", plan[1] # "callback",
         NextPhase
  PROVE  /\ plan' # <<>> /\ plan' # <<"callback">>
         /\ plan'[1] = "finish" => plan[1] = LastCall(cmd.action)
         /\ plan'[1] = "start" /\ cmd.action = "upgrade" => plan[1] = "store"
<1>1. /\ plan \in Seq(Phases) /\ plan' \in Seq(Phases) /\ Len(plan') = Len(plan) - 1
      /\ \A i \in DOMAIN plan' : i + 1 \in DOMAIN plan /\ plan'[i] = plan[i + 1]
      /\ plan' # <<>> /\ plan' # <<"callback">>
  BY Advance DEF HandlerInv, TypeOK, Working
<1>2. 1 \in DOMAIN plan'
  BY <1>1
<1>3. plan'[1] = plan[2] /\ 2 \in DOMAIN plan \ {1} /\ 2 - 1 = 1
  BY <1>1, <1>2
<1>4. plan'[1] = "finish" => plan[1] = LastCall(cmd.action)
  BY <1>3 DEF PhaseSequence
<1>5. cmd.action = "upgrade" => PhaseOrder
  BY DEF HandlerInv, UpgradeInv
<1> QED
  BY <1>1, <1>3, <1>4, <1>5, Following DEF HandlerInv

-----------------------------------------------------------------------------
(* What has been made of the containers                                    *)

(* A step of a phase that calls no docker.                                 *)
LEMMA PhaseOutcome ==
  ASSUME HandlerInv, PhaseSequence, OutcomeInv,
         NEW p \in {"download", "resolve", "schema", "env", "login", "store"}, NEW s, At(p, s),
         UNCHANGED <<message, ctr, doubt>>, p = "store" => target' = target,
         stage' # "called",
         \/ plan' = plan
         \/ NextPhase
         \/ \E kind \in Verdicts \ {"completed"} : End(kind)
  PROVE  OutcomeInv'
<1>1. plan # <<>> /\ plan[1] = p
  BY AtPhase DEF HandlerInv, TypeOK
<1>2. CASE plan' = plan
  <2>1. plan # <<"callback">>
    BY <1>1
  <2> QED
    BY <1>1, <1>2, <2>1 DEF OutcomeInv, Ended
<1>3. CASE NextPhase
  <2>1. /\ plan' # <<>> /\ plan' # <<"callback">>
        /\ plan'[1] = "finish" => p = LastCall(cmd.action)
        /\ plan'[1] = "start" /\ cmd.action = "upgrade" => p = "store"
    BY <1>1, <1>3, Goes
  <2>2. LastCall(cmd.action) # p
    BY DEF HandlerInv, MessageInv, Actions, LastCall
  <2>3. p = "store" => doubt \/ \A c \in target : ctr[c] = "absent"
    BY Storing
  <2> QED
    BY <2>1, <2>2, <2>3 DEF OutcomeInv, Ended, message
<1>4. CASE \E kind \in Verdicts \ {"completed"} : End(kind)
  <2>1. PICK kind \in Verdicts \ {"completed"} : End(kind)
    BY <1>4
  <2>2. Working
    BY <1>1 DEF Working
  <2>3. verdicts = <<>>
    BY <2>2 DEF HandlerInv, VerdictInv
  <2>4. plan' = <<"callback">> /\ verdicts'[1].kind = kind
    BY <2>1, <2>3, EndReports
  <2> QED
    BY <2>4 DEF OutcomeInv, Ended
<1> QED
  BY <1>2, <1>3, <1>4

LEMMA CallOutcome ==
  ASSUME HandlerInv, OutcomeInv, CallDocker
  PROVE  OutcomeInv'
<1>1. PICK op \in D!Ops : At(op, "begin") /\ D!Begin(op, target)
  BY DEF CallDocker
<1>2. plan # <<>> /\ plan[1] = op /\ op \notin {"finish", "callback"}
  BY <1>1, AtPhase DEF HandlerInv, TypeOK, D!Ops
<1>3. /\ UNCHANGED <<plan, verdicts, ctr, doubt, target, cmd>>
      /\ call'.up = FALSE /\ result' = "none"
  BY <1>1 DEF CallDocker, Stage, D!Begin, locals, history, message
<1>4. plan # <<"callback">>
  BY <1>2
<1> QED
  BY <1>2, <1>3, <1>4 DEF OutcomeInv, Ended

(* docker-compose up makes of the containers what it is called for.        *)
LEMMA UpMakes ==
  ASSUME HandlerInv, OutcomeInv, stage = "called", D!Up, UNCHANGED <<message, locals, doubt>>
  PROVE  /\ call.op = "start" /\ cmd.action = "upgrade" =>
              doubt \/ \A c \in target : ctr'[c] # "paused"
         /\ call'.up => doubt \/ Made(call.op)'
<1>1. /\ call.op \in {"start", "recreate"} /\ call.up = FALSE /\ call.cfg = target
      /\ \/ ctr' \in D!Raised
         \/ ctr' \in D!HalfRaised /\ UNCHANGED call
  BY Calling DEF D!Up, HandlerInv, TypeOK
<1>2. target \subseteq Containers /\ ctr \in [Containers -> D!States]
  BY DEF HandlerInv, TypeOK
<1>3. call.op = "start" /\ cmd.action = "upgrade" => doubt \/ \A c \in target : ctr[c] # "paused"
  BY Calling DEF OutcomeInv
<1>4. CASE ctr' \in D!Raised
  <2>1. PICK K \in SUBSET {c \in target : ctr[c] = "paused"} :
          /\ call.op # "start" => K = {}
          /\ ctr' = [c \in Containers |-> IF c \in target \ K THEN "running" ELSE ctr[c]]
    BY <1>1, <1>4 DEF D!Raised
  <2>2. \A c \in target : ctr'[c] = "running" \/ (c \in K /\ ctr'[c] = "paused")
    BY <1>2, <2>1
  <2>3. call.op = "start" /\ cmd.action = "upgrade" => doubt \/ K = {}
    BY <1>3, <2>1
  <2>4. call.op = "start" /\ cmd.action = "upgrade" =>
          doubt \/ \A c \in target : ctr'[c] = "running"
    BY <2>2, <2>3
  <2>5. call.op = "recreate" => \A c \in target : ctr'[c] = "running"
    BY <2>1, <2>2
  <2>6. doubt \/ Made(call.op)'
    <3>1. UNCHANGED <<cmd, target, doubt>> /\ call'.op = call.op
      BY Calling, <1>1, <1>4 DEF message, locals, D!Up, HandlerInv, TypeOK
    <3>2. CASE call.op = "recreate"
      BY <2>5, <3>1, <3>2 DEF Made
    <3>3. CASE call.op = "start"
      BY <2>2, <2>4, <3>1, <3>3 DEF Made
    <3> QED
      BY <1>1, <3>2, <3>3
  <2> QED
    BY <2>4, <2>6
<1>5. CASE ctr' \in D!HalfRaised /\ UNCHANGED call
  <2>1. \A c \in Containers : ctr'[c] = ctr[c] \/ ctr'[c] \in {"running", "exited", "absent"}
    BY <1>5 DEF D!HalfRaised
  <2> QED
    BY <1>1, <1>2, <1>3, <1>5, <2>1
<1> QED
  BY <1>1, <1>4, <1>5

LEMMA RunsOutcome ==
  ASSUME HandlerInv, OutcomeInv, DockerRuns
  PROVE  OutcomeInv'
<1>1. /\ stage = "called" /\ result' = "none" /\ call'.op = call.op
      /\ UNCHANGED <<control, message, locals, doubt>>
      /\ plan # <<>> /\ plan[1] = call.op /\ plan[1] \notin {"finish", "callback"}
      /\ call.op \in D!Ops
  BY Calling, ContainersTyped DEF DockerRuns, history
<1>2. plan # <<"callback">>
  BY <1>1
<1>3. /\ target \subseteq Containers /\ ctr \in [Containers -> D!States]
      /\ call.up \in BOOLEAN
  BY DEF HandlerInv, TypeOK
<1>4. SUFFICES /\ call.op = "start" /\ cmd.action = "upgrade" =>
                    doubt \/ \A c \in target : ctr'[c] # "paused"
               /\ call'.up => call.op \in {"start", "recreate"} /\ (doubt \/ Made(call.op)')
  BY <1>1, <1>2 DEF OutcomeInv, Ended, control, message, locals, Made
<1>5. /\ call.op = "start" /\ cmd.action = "upgrade" => doubt \/ \A c \in target : ctr[c] # "paused"
      /\ call.up => call.op \in {"start", "recreate"} /\ (doubt \/ Made(call.op))
  BY <1>1 DEF OutcomeInv
<1>6. CASE \E c \in Containers : D!Work(c)
  <2>1. PICK c \in Containers : D!Work(c)
    BY <1>6
  <2>2. call.op \notin {"start", "recreate"} /\ UNCHANGED call
    BY <2>1 DEF D!Work, D!Becomes
  <2> QED
    BY <1>5, <2>2
<1>7. CASE D!Up
  <2>1. call.op \in {"start", "recreate"}
    BY <1>7 DEF D!Up
  <2> QED
    BY <1>1, <1>7, <2>1, UpMakes
<1>8. CASE D!Prune
  <2>1. \A c \in Containers : ctr[c] \in {"running", "paused"} => ctr'[c] = ctr[c]
    BY <1>8 DEF D!Prune
  <2>2. \A c \in Containers : ctr'[c] \in {ctr[c], "absent"}
    BY <1>8 DEF D!Prune
  <2>3. UNCHANGED call /\ call.op = "start"
    BY <1>8 DEF D!Prune
  <2> QED
    BY <1>1, <1>3, <1>5, <2>1, <2>2, <2>3 DEF Made, message, locals
<1>9. CASE D!Slip
  BY <1>1, <1>5, <1>9 DEF D!Slip
<1> QED
  BY <1>6, <1>7, <1>8, <1>9 DEF DockerRuns

LEMMA ReturnsOutcome ==
  ASSUME HandlerInv, OutcomeInv, DockerReturns
  PROVE  OutcomeInv'
<1>1. PICK res \in {"ok", "error"} : D!Return(res)
  BY DEF DockerReturns
<1>2. /\ stage = "called" /\ result' = res
      /\ UNCHANGED <<control, message, locals, doubt, ctr, call, clean>>
      /\ plan # <<>> /\ plan[1] = call.op /\ plan[1] \notin {"finish", "callback"}
      /\ call.cfg = target /\ call.op \in D!Ops
  BY <1>1, Calling DEF DockerReturns, D!Return, history
<1>3. plan # <<"callback">>
  BY <1>2
<1>4. res = "ok" => doubt \/ ~clean \/ Made(call.op)
  <2> SUFFICES ASSUME res = "ok", ~doubt, clean PROVE Made(call.op)
    OBVIOUS
  <2>1. CASE call.op \in {"start", "recreate"} /\ call.up
    BY <1>2, <2>1 DEF OutcomeInv
  <2>2. CASE call.op \in {"start", "recreate"} /\ target = {}
    BY <2>2 DEF Made
  <2>3. CASE call.op = "stop"
    BY <1>1, <1>2, <2>3 DEF D!Return, Made
  <2>4. CASE call.op \notin {"start", "recreate", "stop"}
    BY <2>4 DEF Made
  <2> QED
    BY <1>1, <1>2, <2>1, <2>2, <2>3, <2>4 DEF D!Return
<1> QED
  BY <1>2, <1>3, <1>4 DEF OutcomeInv, Ended, control, message, locals, Made

LEMMA DoneOutcome ==
  ASSUME HandlerInv, PhaseSequence, OutcomeInv, DockerDone
  PROVE  OutcomeInv'
<1>1. /\ stage = "called" /\ stage' = "begin" /\ doubt' = (doubt \/ ~clean)
      /\ UNCHANGED <<docker, message, locals>>
      /\ (result = "ok" /\ NextPhase) \/ End("error")
      /\ plan # <<>> /\ plan[1] = call.op /\ plan[1] \notin {"finish", "callback", "store"}
  BY Calling DEF DockerDone, NextPhase, End
<1>2. CASE result = "ok" /\ NextPhase
  <2>1. doubt \/ ~clean \/ Made(call.op)
    BY <1>1, <1>2 DEF OutcomeInv
  <2>2. /\ plan' # <<>> /\ plan' # <<"callback">>
        /\ plan'[1] = "finish" => call.op = LastCall(cmd.action)
        /\ ~(plan'[1] = "start" /\ cmd.action = "upgrade")
    BY <1>1, <1>2, Goes
  <2> QED
    BY <1>1, <2>1, <2>2 DEF OutcomeInv, Ended, docker, message, locals, Made
<1>3. CASE End("error")
  <2>1. Working
    BY <1>1 DEF Working
  <2>2. plan' = <<"callback">> /\ verdicts'[1].kind = "error"
    BY <1>3, <2>1, EndReports DEF HandlerInv, VerdictInv
  <2> QED
    BY <1>1, <2>2 DEF OutcomeInv, Ended
<1> QED
  BY <1>1, <1>2, <1>3

LEMMA FinishOutcome ==
  ASSUME HandlerInv, OutcomeInv, Finish
  PROVE  OutcomeInv'
<1>1. plan # <<>> /\ plan[1] = "finish"
  BY AtPhase DEF Finish, HandlerInv, TypeOK
<1>2. doubt \/ Made(LastCall(cmd.action))
  BY <1>1 DEF OutcomeInv
<1>3. plan' = <<"callback">> /\ stage' = "begin" /\ UNCHANGED <<ctr, target, cmd, doubt>>
  BY DEF Finish, End, docker, message, locals, history
<1> QED
  BY <1>2, <1>3 DEF OutcomeInv, Made

(* Outside a handler there is nothing to be done.                          *)
LEMMA IdleOutcome ==
  ASSUME \/ plan' = <<>> /\ stage' # "called"
         \/ (Answered(cmd', "error") \/ Answered(cmd', "decode_error")) /\ stage' # "called"
  PROVE  OutcomeInv'
BY DEF OutcomeInv, Ended, Answered

LEMMA StepOutcome ==
  ASSUME HandlerInv, PhaseSequence, OutcomeInv, HandlerStep
  PROVE  OutcomeInv'
<1>1. UNCHANGED message
  BY HandleMoves DEF HandlerStep
<1>2. NextPhase \/ (\E kind : End(kind)) => stage' # "called"
  BY DEF NextPhase, End
<1> USE DEF docker, locals, history, Stage, Verdicts
<1>3. CASE Download
  BY <1>1, <1>2, <1>3, PhaseOutcome DEF Download
<1>4. CASE Resolve
  BY <1>1, <1>2, <1>4, PhaseOutcome DEF Resolve
<1>5. CASE SchemaRefresh
  BY <1>1, <1>2, <1>5, PhaseOutcome DEF SchemaRefresh
<1>6. CASE SchemaBody
  BY <1>1, <1>2, <1>6, PhaseOutcome DEF SchemaBody
<1>7. CASE EnvOpen
  BY <1>1, <1>2, <1>7, PhaseOutcome DEF EnvOpen
<1>8. CASE EnvWrite
  BY <1>1, <1>2, <1>8, PhaseOutcome DEF EnvWrite
<1>9. CASE StoreOpen
  BY <1>1, <1>2, <1>9, PhaseOutcome DEF StoreOpen
<1>10. CASE StoreWrite
  BY <1>1, <1>2, <1>10, PhaseOutcome DEF StoreWrite
<1>11. CASE Login
  BY <1>1, <1>2, <1>11, PhaseOutcome DEF Login
<1>12. CASE CallDocker \/ DockerRuns \/ DockerReturns
  BY <1>12, CallOutcome, RunsOutcome, ReturnsOutcome
<1>13. CASE DockerDone \/ Finish
  BY <1>13, DoneOutcome, FinishOutcome
<1> QED
  BY <1>3, <1>4, <1>5, <1>6, <1>7, <1>8, <1>9, <1>10, <1>11, <1>12, <1>13 DEF HandlerStep

-----------------------------------------------------------------------------
(* The env file                                                            *)

(* A phase that is not the current one stays ahead.                        *)
LEMMA KeptAhead ==
  ASSUME HandlerInv, plan # <<>>, plan[1] # "finish", plan[1] # "callback", NextPhase,
         NEW p, p # plan[1], Ahead(p)
  PROVE  Ahead(p)'
<1>1. plan \in Seq(Phases) /\ plan' = Tail(plan)
  BY DEF HandlerInv, TypeOK, NextPhase
<1>2. PICK i \in DOMAIN plan : plan[i] = p
  BY DEF Ahead
<1>3. i - 1 \in DOMAIN plan' /\ plan'[i - 1] = plan[i]
  BY <1>1, <1>2
<1> QED
  BY <1>2, <1>3 DEF Ahead

(* A step that leaves the env file of the command and what it depends on   *)
(* alone.                                                                  *)
LEMMA EnvKept ==
  ASSUME HandlerInv, EnvInv, HandlerStep, UNCHANGED <<env, schema, tag, envCut>>,
         Ahead("env") => plan[1] # "env" \/ plan' = plan
  PROVE  EnvInv'
<1>1. UNCHANGED message /\ Moves
  BY HandleMoves DEF HandlerStep
<1>2. ResolvedEnv' = ResolvedEnv
  BY <1>1 DEF ResolvedEnv, message
<1>3. CASE plan' = plan
  BY <1>1, <1>2, <1>3 DEF EnvInv, Ahead, message
<1>4. CASE plan # <<>> /\ plan[1] # "finish" /\ plan[1] # "callback" /\ NextPhase
  <2>1. /\ \A p \in Phases : Ahead(p)' => Ahead(p)
        /\ plan \in Seq(Phases) /\ plan' = Tail(plan)
    BY <1>4, Advance DEF HandlerInv, TypeOK, NextPhase
  <2>2. plan' # plan
    <3>1. Len(plan') = Len(plan) - 1 /\ Len(plan) \in Nat
      BY <1>4, Advance DEF HandlerInv, TypeOK
    <3> QED
      BY <3>1
  <2>3. Ahead("env") => Ahead("env")'
    BY <1>4, <2>2, KeptAhead
  <2> QED
    BY <1>1, <1>2, <2>1, <2>3, PhaseSets DEF EnvInv, message, Phases, D!Ops
<1>5. CASE Working /\ \E kind \in Verdicts : End(kind)
  <2>1. \A i \in DOMAIN plan' : plan'[i] = "callback"
    BY <1>5, Ending DEF HandlerInv
  <2> QED
    BY <2>1 DEF EnvInv, Ahead
<1> QED
  BY <1>1, <1>3, <1>4, <1>5 DEF Moves

LEMMA EnvWriting ==
  ASSUME HandlerInv, PhaseSequence, EnvInv, EnvOpen \/ EnvWrite
  PROVE  EnvInv'
<1>1. /\ plan \in Seq(Phases) /\ plan # <<>> /\ plan[1] = "env" /\ Ahead("env")
      /\ UNCHANGED <<schema, tag, message>> /\ 1 \in DOMAIN plan
  BY AtPhase DEF EnvOpen, EnvWrite, HandlerInv, TypeOK, locals
<1>2. Working
  BY <1>1 DEF Working
<1>3. cmd.svc \in Services /\ tag \in EnvTags
  BY <1>1, <1>2 DEF HandlerInv, MessageInv, TagInv
<1>4. CASE plan' = plan
  BY <1>1, <1>4 DEF EnvInv, Ahead
<1>5. CASE NextPhase
  <2>1. envCut' \/ env'[cmd.svc][tag] = ResolvedEnv
    <3>1. CASE EnvWrite /\ env' = [env EXCEPT ![cmd.svc][tag] = ResolvedEnv]
      <4>1. env \in [Services -> [EnvTags -> {"none", "cut", "given", "defaults", "empty"}]]
        BY DEF HandlerInv, TypeOK
      <4> QED
        BY <1>3, <3>1, <4>1
    <3>2. CASE envCut' = TRUE
      BY <3>2
    <3>3. CASE Stage("write")
      BY <3>3, <1>5 DEF Stage, NextPhase
    <3> QED
      BY <3>1, <3>2, <3>3 DEF EnvOpen, EnvWrite
  <2>2. ResolvedEnv' = ResolvedEnv
    BY <1>1 DEF ResolvedEnv, message
  <2>3. ~Ahead("schema")' /\ ~Ahead("resolve")'
    <3>1. ASSUME NEW p \in {"schema", "resolve"}, Ahead(p)' PROVE FALSE
      <4>1. p \in Phases
        BY <3>1, PhaseSets
      <4>2. Ahead(p)
        BY <1>1, <1>5, <3>1, <4>1, Advance DEF HandlerInv
      <4>3. PICK j \in DOMAIN plan : plan[j] = p
        BY <4>2 DEF Ahead
      <4>4. j < 1
        BY <1>1, <3>1, <4>3 DEF PhaseSequence
      <4> QED
        BY <1>1, <4>3, <4>4
    <3> QED
      BY <3>1
  <2> QED
    BY <1>1, <2>1, <2>2, <2>3 DEF EnvInv, message
<1> QED
  BY <1>4, <1>5 DEF EnvOpen, EnvWrite, Stage

(* A step of the schema and of the configuration, both ahead of the file.  *)
LEMMA EnvToCome ==
  ASSUME HandlerInv, EnvInv, HandlerStep, NEW p \in {"schema", "resolve"}, NEW s, At(p, s)
  PROVE  EnvInv'
<1>1. /\ plan \in Seq(Phases) /\ plan # <<>> /\ plan[1] = p /\ Ahead(p)
      /\ UNCHANGED message /\ Moves
  BY AtPhase, HandleMoves DEF HandlerStep, HandlerInv, TypeOK
<1>2. Ahead("start") \/ Ahead("recreate") => Ahead("env")
  BY <1>1 DEF EnvInv
<1>3. CASE plan' = plan
  BY <1>2, <1>3 DEF EnvInv, Ahead
<1>4. CASE NextPhase
  <2>1. Ahead("env") => Ahead("env")'
    BY <1>1, <1>4, KeptAhead
  <2>2. /\ Ahead("start")' => Ahead("start")
        /\ Ahead("recreate")' => Ahead("recreate")
    BY <1>1, <1>4, Advance, PhaseSets DEF HandlerInv, D!Ops
  <2> QED
    BY <1>2, <2>1, <2>2 DEF EnvInv
<1>5. CASE Working /\ \E kind \in Verdicts : End(kind)
  <2>1. \A i \in DOMAIN plan' : plan'[i] = "callback"
    BY <1>5, Ending DEF HandlerInv
  <2> QED
    BY <2>1 DEF EnvInv, Ahead
<1> QED
  BY <1>1, <1>3, <1>4, <1>5 DEF Moves

LEMMA StepEnv ==
  ASSUME HandlerInv, PhaseSequence, EnvInv, HandlerStep
  PROVE  EnvInv'
<1>1. CASE Resolve
  BY <1>1, EnvToCome DEF Resolve
<1>2. CASE SchemaRefresh
  BY <1>2, EnvToCome DEF SchemaRefresh
<1>3. CASE SchemaBody
  BY <1>3, EnvToCome DEF SchemaBody
<1>4. CASE EnvOpen \/ EnvWrite
  BY <1>4, EnvWriting
<1>5. ASSUME NEW p, NEW s, At(p, s), p # "env", UNCHANGED <<env, schema, tag, envCut>>
      PROVE  EnvInv'
  BY <1>5, EnvKept, AtPhase DEF HandlerInv, TypeOK
<1> USE DEF files, locals, history
<1>6. CASE Download
  BY <1>5, <1>6 DEF Download
<1>7. CASE StoreOpen
  BY <1>5, <1>7 DEF StoreOpen
<1>8. CASE StoreWrite
  BY <1>5, <1>8 DEF StoreWrite
<1>9. CASE Login \/ Finish
  BY <1>5, <1>9 DEF Login, Finish
<1>10. CASE CallDocker
  BY <1>10, EnvKept DEF CallDocker, Stage
<1>11. CASE DockerRuns \/ DockerReturns
  BY <1>11, EnvKept DEF DockerRuns, DockerReturns, control
<1>12. CASE DockerDone
  BY <1>12, EnvKept, Calling DEF DockerDone
<1> QED
  BY <1>1, <1>2, <1>3, <1>4, <1>6, <1>7, <1>8, <1>9, <1>10, <1>11, <1>12 DEF HandlerStep

-----------------------------------------------------------------------------
(* The invariant and what follows from it                                  *)

Beyond == PhaseSequence /\ OutcomeInv /\ EnvInv

LEMMA BeyondInit == Init => Beyond
<1> SUFFICES ASSUME Init PROVE Beyond
  OBVIOUS
<1>1. plan = <<>> /\ DOMAIN plan = {} /\ stage = "begin" /\ plan # <<"callback">>
  BY DEF Init
<1> QED
  BY <1>1 DEF Beyond, PhaseSequence, OutcomeInv, EnvInv, Ended, Ahead

LEMMA BeyondReceive ==
  ASSUME HandlerInv, Beyond, Receive
  PROVE  Beyond'
<1>1. stage # "called" /\ UNCHANGED stage
  BY Receives DEF HandlerInv, CallInv
<1>2. CASE UNCHANGED <<control, message, locals>>
  <2>1. UNCHANGED <<docker, files, control, message, locals, stored, cached, envCut, doubt>>
    BY <1>2, Receives
  <2> QED
    BY <2>1 DEF Beyond, PhaseSequence, OutcomeInv, EnvInv, Ended, Ahead, Made, ResolvedEnv,
       docker, files, control, message, locals
<1>3. CASE Answered(cmd', "error") \/ Answered(cmd', "decode_error")
  <2>1. OutcomeInv'
    BY <1>1, <1>3, IdleOutcome
  <2>2. \A i \in DOMAIN plan' : i = 1 /\ plan'[i] = "callback"
    BY <1>3 DEF Answered
  <2> QED
    BY <2>1, <2>2 DEF Beyond, PhaseSequence, EnvInv, Ahead
<1>4. CASE \E a \in Dispatchable : cmd'.action = a /\ plan' = Plan(a)
  <2>1. PICK a \in Dispatchable : cmd'.action = a /\ plan' = Plan(a)
    BY <1>4
  <2>2. PhaseSequence'
    BY <2>1, SequencePlan DEF PhaseSequence
  <2>3. OutcomeInv'
    BY <1>1, <2>1, SequencePlan DEF OutcomeInv, Ended
  <2>4. EnvInv'
    BY <2>1, SequencePlan DEF EnvInv, Ahead
  <2> QED
    BY <2>2, <2>3, <2>4 DEF Beyond
<1> QED
  BY <1>2, <1>3, <1>4, Receives

LEMMA BeyondNext == HandlerInv /\ Beyond /\ [Next]_vars => Beyond'
<1> SUFFICES ASSUME HandlerInv, Beyond, [Next]_vars PROVE Beyond'
  OBVIOUS
<1>1. CASE Receive
  BY <1>1, BeyondReceive
<1>2. CASE HandlerStep
  BY <1>2, HandleMoves, SequenceMoves, StepOutcome, StepEnv DEF Beyond, HandlerStep
<1>3. CASE Callback \/ Crash
  <2>1. plan' = <<>> /\ DOMAIN plan' = {} /\ stage' = "begin"
    BY <1>3 DEF Callback, Crash, NoHandler
  <2> QED
    BY <2>1, IdleOutcome DEF Beyond, PhaseSequence, EnvInv, Ahead
<1>4. CASE UNCHANGED vars
  BY <1>4 DEF vars, Beyond, PhaseSequence, OutcomeInv, EnvInv, Ended, Ahead, Made,
     ResolvedEnv, docker, files, control, message, locals, history
<1> QED
  BY <1>1, <1>2, <1>3, <1>4 DEF Next, Handle, HandlerStep

(* The invariant of the engine with what has been done to containers and   *)
(* to the env file.                                                        *)
THEOREM EngineSafe == Spec => []EngineInv
<1>1. Spec => []Beyond
  BY BeyondInit, BeyondNext, HandlersSafe, PTL DEF Spec
<1>2. HandlerInv /\ Beyond => EngineInv
  BY DEF Beyond, EngineInv
<1> QED
  BY <1>1, <1>2, HandlersSafe, PTL

(* Every reachable state of the engine is well typed.                      *)
THEOREM EngineTypes == Spec => []TypeOK
<1>1. HandlerInv => TypeOK
  BY DEF HandlerInv
<1> QED
  BY <1>1, HandlersSafe, PTL

(* "completed" is true of the containers, unless a docker command had      *)
(* reported what it did not do.                                            *)
THEOREM CompletionsTrue == Spec => []CompletedIsDone
<1>1. EngineInv => CompletedIsDone
  <2> SUFFICES ASSUME EngineInv, ~doubt, Ended("completed")
               PROVE  CASE cmd.action \in {"upgrade", "update_config"} ->
                             \A c \in target : ctr[c] = "running"
                        [] cmd.action = "start" ->
                             \A c \in target : ctr[c] \in {"running", "paused"}
                        [] cmd.action = "stop"  -> \A c \in target : ctr[c] = "absent"
                        [] OTHER                -> TRUE
    BY DEF CompletedIsDone
  <2>1. Made(LastCall(cmd.action))
    BY DEF EngineInv, OutcomeInv
  <2>2. CASE cmd.action = "upgrade"
    BY <2>1, <2>2 DEF Made, LastCall
  <2>3. CASE cmd.action = "update_config"
    BY <2>1, <2>3 DEF Made, LastCall
  <2>4. CASE cmd.action = "start"
    BY <2>1, <2>4 DEF Made, LastCall
  <2>5. CASE cmd.action = "stop"
    BY <2>1, <2>5 DEF Made, LastCall
  <2>6. CASE cmd.action \notin {"upgrade", "update_config", "start", "stop"}
    BY <2>6
  <2> QED
    BY <2>2, <2>3, <2>4, <2>5, <2>6
<1> QED
  BY <1>1, EngineSafe, PTL

(* docker-compose finds the variables of the command in the env file.      *)
THEOREM VariablesInPlace == Spec => []EnvInPlace
<1>1. EngineInv => EnvInPlace
  <2> SUFFICES ASSUME EngineInv, Serving("start") \/ Serving("recreate")
               PROVE  \/ envCut
                      \/ env[cmd.svc][tag] = IF cmd.env THEN "given"
                                             ELSE IF schema[tag] = "good" THEN "defaults"
                                             ELSE "empty"
    BY DEF EnvInPlace
  <2>1. /\ plan \in Seq(Phases) /\ plan # <<>> /\ plan[1] \in {"start", "recreate"}
        /\ 1 \in DOMAIN plan
    BY DEF Serving, EngineInv, HandlerInv, TypeOK
  <2>2. ~Ahead("env")
    BY <2>1 DEF Ahead, EngineInv, PhaseSequence
  <2>3. envCut \/ env[cmd.svc][tag] = ResolvedEnv
    BY <2>1, <2>2 DEF Ahead, EngineInv, EnvInv
  <2> QED
    BY <2>3 DEF ResolvedEnv
<1> QED
  BY <1>1, EngineSafe, PTL

-----------------------------------------------------------------------------
(* A handler gets on                                                       *)

(* No step makes a handler start a phase over, so that the next message is *)
(* always reached.                                                         *)
THEOREM HandlersGetOn == Spec => HandlerAdvances
<1> DEFINE Advances == plan # <<>> =>
                         \/ Len(plan') < Len(plan)
                         \/ plan' = plan /\ stage' \in Further[stage]
                         \/ plan # plan' /\ plan' = <<"callback">>
<1>1. HandlerInv /\ [Next]_vars => [Advances]_<<plan, stage>>
  <2> SUFFICES ASSUME HandlerInv, Next, UNCHANGED <<plan, stage>> => FALSE, plan # <<>>
               PROVE  Advances
    BY DEF vars, control
  <2>1. plan \in Seq(Phases) /\ Len(plan) \in Nat /\ Len(plan) >= 1
    BY DEF HandlerInv, TypeOK
  <2>2. CASE Receive
    BY <2>2, Receives
  <2>3. CASE Callback \/ Crash
    <3>1. plan' = <<>>
      BY <2>3 DEF Callback, Crash, NoHandler
    <3>2. Len(plan') = 0
      BY <3>1
    <3> QED
      BY <2>1, <3>2
  <2>4. CASE NextPhase /\ plan[1] # "finish" /\ plan[1] # "callback"
    BY <2>1, <2>4, Advance DEF HandlerInv
  <2>5. CASE Working /\ \E kind \in Verdicts : End(kind)
    BY <2>5 DEF End, Working
  <2>6. CASE HandlerStep /\ UNCHANGED <<plan, verdicts>>
    <3>1. plan' = plan /\ stage' # stage
      BY <2>6
    <3>2. NextPhase \/ (\E kind : End(kind)) => FALSE
      <4>1. ASSUME NextPhase PROVE FALSE
        <5>1. plan' = Tail(plan)
          BY <4>1 DEF NextPhase
        <5>2. Len(plan') = Len(plan) - 1
          BY <2>1, <5>1
        <5> QED
          BY <2>1, <3>1, <5>2
      <4>2. ASSUME NEW kind, End(kind) PROVE FALSE
        <5>1. verdicts \in Seq(Frames)
          BY DEF HandlerInv, TypeOK
        <5>2. PICK f : verdicts' = Append(verdicts, f)
          BY <4>2, EndReports
        <5>3. Len(verdicts') = Len(verdicts) + 1 /\ Len(verdicts) \in Nat
          BY <5>1, <5>2
        <5> QED
          BY <2>6, <5>3
      <4> QED
        BY <4>1, <4>2
    <3>3. stage = "begin" /\ stage' \in {"body", "write", "called"}
      BY <2>6, <3>1, <3>2 DEF HandlerStep, Download, Resolve, SchemaRefresh, SchemaBody,
         EnvOpen, EnvWrite, StoreOpen, StoreWrite, Login, CallDocker, DockerRuns,
         DockerReturns, DockerDone, Finish, At, Stage, control
    <3> QED
      BY <3>1, <3>3 DEF Further
  <2> QED
    BY <2>2, <2>3, <2>4, <2>5, <2>6, HandleMoves DEF Next, Handle, HandlerStep, Moves
<1> QED
  BY <1>1, HandlersSafe, PTL DEF Spec, HandlerAdvances

-----------------------------------------------------------------------------
(* The engine is a CommandLoop                                             *)

(* The three phases that show from outside.                                *)
LEMMA SeenPhases ==
  /\ plan = <<>> => Seen = "idle"
  /\ plan = <<"callback">> => Seen = "callback"
  /\ Working => Seen = "working"
BY DEF Seen, Working

LEMMA FilesTyped == TypeOK => files \in FileContents
<1> SUFFICES ASSUME TypeOK PROVE files \in FileContents
  OBVIOUS
<1>1. /\ latest \in [Services -> Tags \cup {"none", "empty", "garbled", "short"}]
      /\ env \in [Services -> [EnvTags -> {"none", "cut", "given", "defaults", "empty"}]]
      /\ schema \in [EnvTags -> {"none", "cut", "good"}]
  BY DEF TypeOK
<1> QED
  BY <1>1 DEF files, FileContents

(* No step of a handler changes both containers and files, and one that    *)
(* ends it changes neither.                                                *)
LEMMA OneThing ==
  ASSUME HandlerInv, HandlerStep
  PROVE  /\ UNCHANGED ctr \/ UNCHANGED files
         /\ UNCHANGED <<plan, verdicts>> \/ NextPhase \/ UNCHANGED <<ctr, files>>
         /\ UNCHANGED crashes
<1> USE DEF docker, files, counts, Stage
<1>1. CASE Download \/ Resolve \/ SchemaRefresh \/ SchemaBody
  BY <1>1 DEF Download, Resolve, SchemaRefresh, SchemaBody
<1>2. CASE EnvOpen \/ EnvWrite \/ StoreOpen \/ StoreWrite
  BY <1>2 DEF EnvOpen, EnvWrite, StoreOpen, StoreWrite
<1>3. CASE Login \/ Finish \/ DockerDone
  BY <1>3 DEF Login, Finish, DockerDone
<1>4. CASE CallDocker \/ DockerRuns \/ DockerReturns
  BY <1>4 DEF CallDocker, DockerRuns, DockerReturns, control
<1> QED
  BY <1>1, <1>2, <1>3, <1>4 DEF HandlerStep

(* A step of a handler is one of a handler that has not ended.             *)
LEMMA StepAtWork ==
  ASSUME HandlerInv, HandlerStep
  PROVE  Working
<1>1. ASSUME NEW p, NEW s, At(p, s), p # "callback" PROVE Working
  BY <1>1, AtPhase DEF HandlerInv, TypeOK, Working
<1>2. CASE stage = "called"
  BY <1>1, <1>2, Calling
<1>3. CASE stage # "called"
  BY <1>1, <1>3 DEF HandlerStep, Download, Resolve, SchemaRefresh, SchemaBody, EnvOpen,
     EnvWrite, StoreOpen, StoreWrite, Login, CallDocker, DockerRuns, DockerReturns,
     DockerDone, Finish, D!Ops
<1> QED
  BY <1>2, <1>3

LEMMA WorkSeen ==
  ASSUME HandlerInv, HandlerInv', HandlerStep
  PROVE  [L!Next]_(L!vars)
<1>1. UNCHANGED message /\ Moves
  BY HandleMoves DEF HandlerStep
<1>2. ctr' \in [Containers -> D!States] /\ files' \in FileContents
  <2>1. /\ latest' \in [Services -> Tags \cup {"none", "empty", "garbled", "short"}]
        /\ env' \in [Services -> [EnvTags -> {"none", "cut", "given", "defaults", "empty"}]]
        /\ schema' \in [EnvTags -> {"none", "cut", "good"}]
        /\ ctr' \in [Containers -> D!States]
    BY DEF HandlerInv, TypeOK, EnvTags, D!States
  <2> QED
    BY <2>1 DEF files, FileContents
<1>3. ASSUME Working, Working' PROVE [L!Next]_(L!vars)
  <2>1. Seen = "working" /\ Seen' = "working"
    BY <1>3 DEF Seen, Working
  <2>2. L!Change
    BY <1>2, <2>1, OneThing DEF L!Change
  <2> QED
    BY <2>2 DEF L!Next
<1>4. ASSUME UNCHANGED <<plan, verdicts>> PROVE [L!Next]_(L!vars)
  <2>1. Working
    BY <1>4, StepAtWork
  <2> QED
    BY <1>3, <1>4, <2>1 DEF Working
<1>5. ASSUME plan # <<>>, plan[1] # "finish", plan[1] # "callback", NextPhase
      PROVE  [L!Next]_(L!vars)
  BY <1>3, <1>5, Advance DEF HandlerInv
<1>6. ASSUME Working, NEW kind \in Verdicts, End(kind)
      PROVE  [L!Next]_(L!vars)
  <2>1. plan' = <<"callback">>
    BY <1>6 DEF End
  <2>2. Seen = "working" /\ Seen' = "callback"
    BY <1>6, <2>1 DEF Seen, Working
  <2>3. UNCHANGED <<ctr, files, crashes>>
    <3>1. ASSUME UNCHANGED <<plan, verdicts>> PROVE FALSE
      BY <1>6, <2>1, <3>1 DEF Working
    <3>2. ASSUME NextPhase PROVE FALSE
      <4>1. plan' = Tail(plan) /\ plan \in Seq(Phases) /\ verdicts' = verdicts
        BY <3>2 DEF NextPhase, HandlerInv, TypeOK
      <4>4. verdicts \in Seq(Frames)
        BY DEF HandlerInv, TypeOK
      <4>2. PICK f : verdicts' = Append(verdicts, f)
        BY <1>6, EndReports
      <4>3. Len(verdicts') = Len(verdicts) + 1 /\ Len(verdicts) \in Nat
        BY <4>2, <4>4
      <4> QED
        BY <4>1, <4>3
    <3> QED
      BY <3>1, <3>2, OneThing
  <2>4. L!End
    BY <2>2, <2>3 DEF L!End
  <2> QED
    BY <2>4 DEF L!Next
<1> QED
  BY <1>1, <1>4, <1>5, <1>6 DEF Moves

LEMMA SeenStep == EngineAssumption /\ HandlerInv /\ [Next]_vars => [L!Next]_(L!vars)
<1> SUFFICES ASSUME EngineAssumption, HandlerInv, [Next]_vars PROVE [L!Next]_(L!vars)
  OBVIOUS
<1>1. HandlerInv'
  BY HandlerNext
<1>2. CASE Receive
  <2>1. /\ plan = <<>> /\ UNCHANGED <<ctr, files, crashes>>
        /\ UNCHANGED plan \/ Working' \/ plan' = <<"callback">>
    BY <1>2, Receives, SequencePlan DEF docker, control, Answered, Working
  <2>2. Seen = "idle" /\ (UNCHANGED Seen \/ Seen' \in {"working", "callback"})
    BY <2>1 DEF Seen, Working
  <2> QED
    BY <2>1, <2>2 DEF L!Next, L!Begin, L!vars
<1>3. CASE HandlerStep
  BY <1>1, <1>3, WorkSeen
<1>4. CASE Callback
  <2>1. plan # <<>> /\ plan[1] = "callback" /\ 1 \in DOMAIN plan
    BY <1>4, AtPhase DEF Callback, HandlerInv, TypeOK
  <2>2. plan = <<"callback">>
    BY <2>1 DEF HandlerInv, VerdictInv, Working, Ahead
  <2>3. plan' = <<>> /\ UNCHANGED <<ctr, files, crashes>>
    BY <1>4 DEF Callback, NoHandler, docker, counts
  <2>4. Seen = "callback" /\ Seen' = "idle"
    BY <2>2, <2>3 DEF Seen
  <2> QED
    BY <2>3, <2>4 DEF L!Next, L!Return
<1>5. CASE Crash
  <2>1. plan' = <<>> /\ crashes' = crashes + 1 /\ UNCHANGED <<ctr, files>>
    BY <1>5 DEF Crash, NoHandler
  <2>2. Seen' = "idle"
    BY <2>1 DEF Seen
  <2> QED
    BY <2>1, <2>2 DEF L!Next, L!Crash
<1>6. CASE UNCHANGED vars
  <2>1. UNCHANGED <<plan, ctr, files, crashes>>
    BY <1>6 DEF vars, control, docker, counts
  <2> QED
    BY <2>1 DEF L!vars, Seen
<1> QED
  BY <1>2, <1>3, <1>4, <1>5, <1>6 DEF Next, Handle, HandlerStep

(* From outside, the engine handles one message at a time, changes         *)
(* containers and files only while it does, and calls back when it is over.*)
THEOREM IsCommandLoop == Spec => LooksLikeCommandLoop
<1>1. Init => L!Init
  <2> SUFFICES ASSUME Init PROVE L!Init
    OBVIOUS
  <2>1. HandlerInv
    BY HandlerInit, EngineAssumption
  <2>2. files \in FileContents
    BY <2>1, FilesTyped DEF HandlerInv
  <2>3. Seen = "idle"
    BY DEF Init, Seen
  <2> QED
    BY <2>1, <2>2, <2>3 DEF Init, L!Init, HandlerInv, TypeOK
<1>2. HandlerInv /\ [Next]_vars => [L!Next]_(L!vars)
  BY SeenStep, EngineAssumption
<1> QED
  BY <1>1, <1>2, HandlersSafe, PTL DEF Spec, LooksLikeCommandLoop, L!Spec
=============================================================================
