-------------------------- MODULE OtaEngineProofs --------------------------
(***************************************************************************)
(* Proofs about the OTA engine, for any services, containers and releases, *)
(* any number of commands and of crashes.                                  *)
(***************************************************************************)
EXTENDS OtaEngine, TLAPS

-----------------------------------------------------------------------------
(* The ways control moves                                                  *)

LEMMA One ==
  ASSUME NEW S, NEW x \in S
  PROVE  <<x>> \in Seq(S) /\ Len(<<x>>) = 1 /\ <<x>>[1] = x
OBVIOUS

LEMMA PhaseSets ==
  /\ D!Ops \subseteq Phases
  /\ {"download", "resolve", "schema", "env", "login", "store", "finish", "callback"}
       \subseteq Phases
  /\ "callback" \notin D!Ops /\ "finish" \notin D!Ops
BY DEF Phases, D!Ops

LEMMA Long ==
  ASSUME NEW q, Len(q) >= 2
  PROVE  q # <<>> /\ q # <<"callback">>
<1>1. ASSUME q = <<>> PROVE FALSE
  <2>1. Len(q) = 0
    BY <1>1
  <2> QED
    BY <2>1
<1>2. ASSUME q = <<"callback">> PROVE FALSE
  <2>1. Len(q) = 1
    BY <1>2
  <2> QED
    BY <2>1
<1> QED
  BY <1>1, <1>2

(* A frame, sent or not, names its operation.                              *)
LEMMA FrameType ==
  ASSUME NEW op \in (Services \cup {"none"}) \X Actions, NEW kind \in Verdicts
  PROVE  /\ Frame(op, kind) # {}
         /\ \A f \in Frame(op, kind) : f \in Frames /\ f.op = op /\ f.kind = kind
<1>1. [op |-> op, kind |-> kind, sent |-> TRUE] \in Frame(op, kind)
  BY DEF Frame
<1>2. ASSUME NEW f \in Frame(op, kind)
      PROVE  f \in Frames /\ f.op = op /\ f.kind = kind
  <2>1. PICK b \in BOOLEAN : f = [op |-> op, kind |-> kind, sent |-> b]
    BY DEF Frame
  <2> QED
    BY <2>1 DEF Frames
<1> QED
  BY <1>1, <1>2

(* The plans that handlers start with.                                     *)
LEMMA PlanShape ==
  ASSUME NEW a \in {"upgrade", "update_config", "start", "stop", "pause", "unpause",
                    "restart"}
  PROVE  /\ Plan(a) \in Seq(Phases)
         /\ Len(Plan(a)) >= 2
         /\ Plan(a)[Len(Plan(a))] = "finish"
         /\ \A i \in DOMAIN Plan(a) : /\ Plan(a)[i] # "callback"
                                      /\ Plan(a)[i] \in {"download", "store"} => a = "upgrade"
<1> USE DEF Plan, Phases, D!Ops
<1>1. CASE a = "upgrade"
  BY <1>1 DEF UpgradePlan
<1>2. CASE a = "update_config"
  BY <1>2 DEF UpdatePlan
<1>3. CASE a = "start"
  BY <1>3
<1>4. CASE a = "stop"
  BY <1>4
<1>5. CASE a \in {"pause", "unpause", "restart"}
  <2>1. Plan(a) = <<"resolve", a, "finish">>
    BY <1>5
  <2>2. a \in Phases
    BY <1>5
  <2> HIDE DEF Plan, Phases, D!Ops
  <2>3. <<"resolve", a, "finish">> \in Seq(Phases)
    BY <2>2, PhaseSets
  <2> QED
    BY <1>5, <2>1, <2>3
<1> QED
  BY <1>1, <1>2, <1>3, <1>4, <1>5

LEMMA UpgradeShape ==
  /\ Plan("upgrade")[1] = "download"
  /\ \A i \in DOMAIN Plan("upgrade") : Plan("upgrade")[i] # "resolve"
  /\ \A i \in DOMAIN Plan("upgrade") \ {1} :
       /\ Plan("upgrade")[i] # "download"
       /\ Plan("upgrade")[i] = "login" => Plan("upgrade")[i - 1] = "stop"
       /\ Plan("upgrade")[i] = "store" => Plan("upgrade")[i - 1] = "login"
       /\ Plan("upgrade")[i] = "start" => Plan("upgrade")[i - 1] = "store"
BY DEF Plan, UpgradePlan

LEMMA OtherShape ==
  ASSUME NEW a \in {"update_config", "start", "stop", "pause", "unpause", "restart"},
         NEW i \in DOMAIN Plan(a), Plan(a)[i] \in {"schema", "env"}
  PROVE  Plan(a)[1] = "resolve"
BY DEF Plan, UpdatePlan

(* The phase a handler is at.                                              *)
LEMMA AtPhase ==
  ASSUME plan \in Seq(Phases), NEW p, NEW s, At(p, s)
  PROVE  plan # <<>> /\ plan[1] = p /\ 1 \in DOMAIN plan /\ stage = s /\ Ahead(p)
BY DEF At, Ahead

(* Going on to the next phase, which exists unless this one is the last.   *)
LEMMA Advance ==
  ASSUME TypeOK, VerdictInv, plan # <<>>, NextPhase,
         plan[1] # "finish", plan[1] # "callback"
  PROVE  /\ Working /\ Working'
         /\ plan' \in Seq(Phases)
         /\ Len(plan') = Len(plan) - 1
         /\ \A i \in DOMAIN plan' : i + 1 \in DOMAIN plan /\ plan'[i] = plan[i + 1]
         /\ plan'[Len(plan')] = "finish"
         /\ \A p \in Phases : Ahead(p)' => Ahead(p)
         /\ verdicts' = <<>> /\ stage' = "begin"
<1>1. plan \in Seq(Phases)
  BY DEF TypeOK
<1>2. Working
  BY DEF Working
<1>3. plan[Len(plan)] = "finish" /\ verdicts = <<>> /\ ~Ahead("callback")
  BY <1>2 DEF VerdictInv
<1>4. Len(plan) \in Nat /\ Len(plan) >= 2
  BY <1>1, <1>3
<1>5. /\ plan' = Tail(plan) /\ plan' \in Seq(Phases) /\ Len(plan') = Len(plan) - 1
      /\ \A i \in DOMAIN plan' : i + 1 \in DOMAIN plan /\ plan'[i] = plan[i + 1]
  BY <1>1, <1>4 DEF NextPhase
<1>6. plan'[Len(plan')] = "finish"
  BY <1>3, <1>4, <1>5
<1>7. plan' # <<>> /\ plan' # <<"callback">>
  <2>1. ASSUME plan' = <<>> PROVE FALSE
    <3>1. Len(plan') = 0
      BY <2>1
    <3> QED
      BY <1>4, <1>5, <3>1
  <2>2. ASSUME plan' = <<"callback">> PROVE FALSE
    <3>1. Len(plan') = 1 /\ plan'[1] = "callback"
      BY <2>2
    <3> QED
      BY <1>6, <3>1
  <2> QED
    BY <2>1, <2>2
<1>8. \A p \in Phases : Ahead(p)' => Ahead(p)
  BY <1>5 DEF Ahead
<1> QED
  BY <1>2, <1>3, <1>5, <1>6, <1>7, <1>8 DEF Working, NextPhase

(* A verdict before the last phase.                                        *)
LEMMA Ending ==
  ASSUME TypeOK, MessageInv, VerdictInv, Working, NEW kind \in Verdicts, End(kind)
  PROVE  /\ plan' = <<"callback">> /\ stage' = "begin" /\ ~Working'
         /\ verdicts' \in Seq(Frames)
         /\ Len(verdicts') = 1 /\ verdicts'[1].op = operation
         /\ plan' \in Seq(Phases)
         /\ \A i \in DOMAIN plan' : i = 1 /\ plan'[i] = "callback"
<1>1. verdicts = <<>>
  BY DEF VerdictInv
<1>2. PICK f \in Frame(operation, kind) : verdicts' = <<f>>
  BY <1>1 DEF End, Report
<1>3. f \in Frames /\ f.op = operation
  BY FrameType DEF MessageInv
<1>4. plan' = <<"callback">> /\ stage' = "begin"
  BY DEF End
<1>5. plan' \in Seq(Phases) /\ \A i \in DOMAIN plan' : i = 1 /\ plan'[i] = "callback"
  BY <1>4, PhaseSets
<1> QED
  BY <1>2, <1>3, <1>4, <1>5 DEF Working

(* How control moves while a handler runs: it stays in the phase, goes on  *)
(* to the next, or ends.                                                   *)
Moves ==
  \/ UNCHANGED <<plan, verdicts>>
  \/ plan # <<>> /\ plan[1] # "finish" /\ plan[1] # "callback" /\ NextPhase
  \/ Working /\ \E kind \in Verdicts : End(kind)

LEMMA VerdictMoves ==
  ASSUME TypeOK, MessageInv, VerdictInv, UNCHANGED message,
         Moves
  PROVE  VerdictInv'
<1> USE DEF message
<1>1. CASE UNCHANGED <<plan, verdicts>>
  BY <1>1 DEF VerdictInv, Working, Ahead
<1>2. CASE plan # <<>> /\ plan[1] # "finish" /\ plan[1] # "callback" /\ NextPhase
  <2>1. /\ Working /\ Working' /\ plan'[Len(plan')] = "finish" /\ verdicts' = <<>>
        /\ \A p \in Phases : Ahead(p)' => Ahead(p)
    BY <1>2, Advance
  <2>2. ~Ahead("callback")'
    BY <2>1, PhaseSets DEF VerdictInv
  <2> QED
    BY <2>1, <2>2 DEF VerdictInv, Working
<1>3. CASE Working /\ \E kind \in Verdicts : End(kind)
  <2>1. /\ plan' = <<"callback">> /\ ~Working'
        /\ Len(verdicts') = 1 /\ verdicts'[1].op = operation
    BY <1>3, Ending
  <2>2. cmd.action # "garbled" => operation = <<cmd.svc, cmd.action>>
    BY <1>3 DEF VerdictInv, Working
  <2> QED
    BY <2>1, <2>2 DEF VerdictInv
<1> QED
  BY <1>1, <1>2, <1>3 DEF Moves

(* The same for what is known of the message and for the order of phases.  *)
LEMMA MessageMoves ==
  ASSUME TypeOK, MessageInv, VerdictInv, UNCHANGED message,
         Moves
  PROVE  MessageInv'
<1> USE DEF message
<1>1. CASE UNCHANGED <<plan, verdicts>>
  BY <1>1 DEF MessageInv, Working, Ahead
<1>2. CASE plan # <<>> /\ plan[1] # "finish" /\ plan[1] # "callback" /\ NextPhase
  <2>1. Working /\ Working' /\ \A p \in Phases : Ahead(p)' => Ahead(p)
    BY <1>2, Advance
  <2>2. Ahead("download")' \/ Ahead("store")' => Ahead("download") \/ Ahead("store")
    BY <2>1, PhaseSets
  <2> QED
    BY <2>1, <2>2 DEF MessageInv
<1>3. CASE Working /\ \E kind \in Verdicts : End(kind)
  <2>1. ~Working' /\ \A i \in DOMAIN plan' : plan'[i] = "callback"
    BY <1>3, Ending
  <2>2. ~Ahead("download")' /\ ~Ahead("store")'
    BY <2>1 DEF Ahead
  <2> QED
    BY <2>1, <2>2 DEF MessageInv
<1> QED
  BY <1>1, <1>2, <1>3 DEF Moves

LEMMA OrderMoves ==
  ASSUME TypeOK, MessageInv, VerdictInv, PhaseOrder,
         Moves
  PROVE  PhaseOrder'
<1>1. CASE UNCHANGED <<plan, verdicts>>
  BY <1>1 DEF PhaseOrder, Ahead
<1>2. CASE plan # <<>> /\ plan[1] # "finish" /\ plan[1] # "callback" /\ NextPhase
  <2>1. /\ plan \in Seq(Phases) /\ plan' \in Seq(Phases) /\ Len(plan') = Len(plan) - 1
        /\ \A i \in DOMAIN plan' : i + 1 \in DOMAIN plan /\ plan'[i] = plan[i + 1]
        /\ \A p \in Phases : Ahead(p)' => Ahead(p)
    BY <1>2, Advance DEF TypeOK
  <2>2. ~Ahead("resolve")'
    BY <2>1, PhaseSets DEF PhaseOrder
  <2>3. ASSUME NEW i \in DOMAIN plan' \ {1}
        PROVE  /\ plan'[i] # "download"
               /\ plan'[i] = "login" => plan'[i - 1] = "stop"
               /\ plan'[i] = "store" => plan'[i - 1] = "login"
               /\ plan'[i] = "start" => plan'[i - 1] = "store"
    <3>1. /\ i \in Nat /\ i - 1 \in DOMAIN plan' /\ i + 1 \in DOMAIN plan \ {1}
          /\ (i + 1) - 1 = i
      BY <2>1
    <3>2. plan'[i] = plan[i + 1] /\ plan'[i - 1] = plan[i]
      BY <2>1, <3>1
    <3> QED
      BY <3>1, <3>2 DEF PhaseOrder
  <2> QED
    BY <2>2, <2>3 DEF PhaseOrder
<1>3. CASE Working /\ \E kind \in Verdicts : End(kind)
  BY <1>3, Ending DEF PhaseOrder, Ahead
<1> QED
  BY <1>1, <1>2, <1>3 DEF Moves

(* What follows the phase an upgrade is at.                                *)
LEMMA Following ==
  ASSUME TypeOK, MessageInv, VerdictInv, PhaseOrder,
         plan # <<>>, plan[1] # "finish", plan[1] # "callback", NextPhase
  PROVE  /\ plan'[1] # "download"
         /\ plan'[1] = "login" => plan[1] = "stop"
         /\ plan'[1] = "store" => plan[1] = "login"
         /\ plan'[1] = "start" => plan[1] = "store"
<1>1. /\ plan \in Seq(Phases) /\ plan' \in Seq(Phases) /\ Len(plan') = Len(plan) - 1
      /\ \A i \in DOMAIN plan' : i + 1 \in DOMAIN plan /\ plan'[i] = plan[i + 1]
      /\ plan' # <<>>
  BY Advance DEF TypeOK, Working
<1>2. 1 \in DOMAIN plan'
  BY <1>1
<1>3. plan'[1] = plan[2] /\ 2 \in DOMAIN plan \ {1}
  BY <1>1, <1>2
<1> QED
  BY <1>3 DEF PhaseOrder

(* The types of the control variables.                                     *)
LEMMA TypeMoves ==
  ASSUME TypeOK, MessageInv, VerdictInv,
         Moves
  PROVE  /\ plan' \in Seq(Phases)
         /\ verdicts' \in Seq(Frames)
<1>1. CASE UNCHANGED <<plan, verdicts>>
  BY <1>1 DEF TypeOK
<1>2. CASE plan # <<>> /\ plan[1] # "finish" /\ plan[1] # "callback" /\ NextPhase
  BY <1>2, Advance DEF NextPhase, TypeOK
<1>3. CASE Working /\ \E kind \in Verdicts : End(kind)
  BY <1>3, Ending
<1> QED
  BY <1>1, <1>2, <1>3 DEF Moves

LEMMA TagMoves ==
  ASSUME TypeOK, MessageInv, VerdictInv, TagInv, Moves,
         tag' \in EnvTags \/ (tag' = tag /\ plan[1] # "resolve")
  PROVE  TagInv'
<1>1. CASE UNCHANGED <<plan, verdicts>>
  BY <1>1 DEF TagInv, Ahead
<1>2. CASE plan # <<>> /\ plan[1] # "finish" /\ plan[1] # "callback" /\ NextPhase
  <2>1. \A p \in Phases : Ahead(p)' => Ahead(p)
    BY <1>2, Advance
  <2>2. Ahead("schema")' \/ Ahead("env")' => Ahead("schema") \/ Ahead("env")
    BY <2>1, PhaseSets
  <2> QED
    BY <2>2 DEF TagInv
<1>3. CASE Working /\ \E kind \in Verdicts : End(kind)
  <2>1. \A i \in DOMAIN plan' : plan'[i] = "callback"
    BY <1>3, Ending
  <2> QED
    BY <2>1 DEF TagInv, Ahead
<1> QED
  BY <1>1, <1>2, <1>3 DEF Moves

(* Every step of a handler but its return moves control so.                *)
LEMMA HandleMoves ==
  ASSUME HandlerInv,
         \/ Download \/ Resolve \/ SchemaRefresh \/ SchemaBody \/ EnvOpen \/ EnvWrite
         \/ StoreOpen \/ StoreWrite \/ Login \/ CallDocker \/ DockerRuns
         \/ DockerReturns \/ DockerDone \/ Finish
  PROVE  UNCHANGED message /\ Moves
<1>1. plan \in Seq(Phases)
  BY DEF HandlerInv, TypeOK
<1>2. ASSUME NEW p, NEW s, At(p, s), p # "callback" PROVE plan # <<>> /\ plan[1] = p /\ Working
  <2>1. plan # <<>> /\ plan[1] = p
    BY <1>1, <1>2, AtPhase
  <2> QED
    BY <1>2, <2>1 DEF Working
<1> USE DEF Stage, Verdicts
<1>3. CASE Download
  BY <1>2, <1>3 DEF Download, Moves
<1>4. CASE Resolve
  BY <1>2, <1>4 DEF Resolve, Moves
<1>5. CASE SchemaRefresh
  BY <1>2, <1>5 DEF SchemaRefresh, Moves
<1>6. CASE SchemaBody
  BY <1>2, <1>6 DEF SchemaBody, Moves
<1>7. CASE EnvOpen
  BY <1>2, <1>7 DEF EnvOpen, Moves
<1>8. CASE EnvWrite
  BY <1>2, <1>8 DEF EnvWrite, Moves
<1>9. CASE StoreOpen
  BY <1>2, <1>9 DEF StoreOpen, Moves
<1>10. CASE StoreWrite
  BY <1>2, <1>10 DEF StoreWrite, Moves
<1>11. CASE Login
  BY <1>2, <1>11 DEF Login, Moves
<1>12. CASE CallDocker
  BY <1>12 DEF CallDocker, Moves
<1>13. CASE DockerRuns
  BY <1>13 DEF DockerRuns, Moves, control
<1>14. CASE DockerReturns
  BY <1>14 DEF DockerReturns, Moves, control
<1>15. CASE DockerDone
  <2>1. plan # <<>> /\ plan[1] \in D!Ops
    BY <1>15 DEF DockerDone, HandlerInv, CallInv, TypeOK
  <2>2. plan[1] # "finish" /\ plan[1] # "callback" /\ plan # <<"callback">>
    BY <2>1, PhaseSets
  <2> QED
    BY <1>15, <2>1, <2>2 DEF DockerDone, Moves, Working
<1>16. CASE Finish
  BY <1>2, <1>16 DEF Finish, Moves
<1> QED
  BY <1>3, <1>4, <1>5, <1>6, <1>7, <1>8, <1>9, <1>10, <1>11, <1>12, <1>13, <1>14,
     <1>15, <1>16

-----------------------------------------------------------------------------
(* The message and the verdict                                             *)

(* A message that is dispatched, whatever it asks.                         *)
LEMMA Dispatched ==
  ASSUME EngineAssumption, HandlerInv,
         NEW a \in Actions, NEW s \in Services, NEW t \in Tags \cup {"none"},
         NEW e \in BOOLEAN, NEW C \in SUBSET Containers, NEW full \in BOOLEAN,
         full => a \in {"upgrade", "update_config", "start", "stop", "pause",
                        "unpause", "restart"},
         full /\ a = "upgrade" => t # "none",
         a # "garbled",
         Dispatch(Request(a, s, t, e), C, full)
  PROVE  HandlerInv'
<1> DEFINE c == Request(a, s, t, e)
<1>1. /\ c.action = a /\ c.svc = s /\ c.tag = t /\ c.env = e
      /\ c \in [env : BOOLEAN, tag : Tags \cup {"none"}, action : Actions,
               svc : Services \cup {"none"}]
  BY DEF Request
<1> HIDE DEF c
<1>2. /\ cmd' = c /\ tag' = c.tag /\ target' = C /\ operation' = <<c.svc, c.action>>
      /\ plan = <<>> /\ cmds < MaxCmds /\ cmds' = cmds + 1
      /\ UNCHANGED <<docker, files, stage, yaml, history, crashes>>
      /\ IF full THEN plan' = Plan(c.action) /\ verdicts' = <<>>
                 ELSE /\ plan' = <<"callback">>
                      /\ \E f \in Frame(operation', "error") : verdicts' = <<f>>
  BY DEF Dispatch, Accept, c
<1> DEFINE op == <<s, a>>
<1>15. /\ op \in (Services \cup {"none"}) \X Actions
       /\ Frame(op, "error") # {}
       /\ \A f \in Frame(op, "error") : f \in Frames /\ f.op = op
  <2>1. op \in (Services \cup {"none"}) \X Actions /\ "error" \in Verdicts
    BY DEF Verdicts
  <2> HIDE DEF op
  <2> QED
    BY <2>1, FrameType
<1>16. operation' = op
  BY <1>1, <1>2
<1> HIDE DEF op
<1>17. PICK frame \in Frame(op, "error") : full \/ verdicts' = <<frame>>
  BY <1>2, <1>15, <1>16
<1>18. frame \in Frames /\ frame.op = op
  BY <1>15, <1>17
<1> USE DEF op
<1>3. /\ plan' = IF full THEN Plan(a) ELSE <<"callback">>
      /\ verdicts' = IF full THEN <<>> ELSE <<frame>>
      /\ operation' = <<s, a>>
  BY <1>1, <1>2, <1>17
<1>4. ASSUME full
      PROVE  /\ plan' \in Seq(Phases) /\ Len(plan') >= 2 /\ plan'[Len(plan')] = "finish"
             /\ \A i \in DOMAIN plan' : /\ plan'[i] # "callback"
                                       /\ plan'[i] \in {"download", "store"} => a = "upgrade"
  BY <1>3, <1>4, PlanShape
<1>5. stage # "called"
  BY <1>2 DEF HandlerInv, CallInv
<1>6. plan' \in Seq(Phases)
  BY <1>3, <1>4, PhaseSets
<1>7. verdicts' \in Seq(Frames)
  <2>2. verdicts' = <<>> \/ verdicts' = <<frame>>
    BY <1>3
  <2>3. <<frame>> \in Seq(Frames)
    BY <1>18, One
  <2>4. <<>> \in Seq(Frames)
    OBVIOUS
  <2> QED
    BY <2>2, <2>3, <2>4
<1>8. TypeOK'
  <2>1. t \in EnvTags \cup {"none"}
    BY DEF EnvTags
  <2>2. cmds' \in 0 .. MaxCmds
    BY <1>2, EngineAssumption DEF HandlerInv, TypeOK
  <2> QED
    BY <1>1, <1>2, <1>6, <1>7, <2>1, <2>2 DEF HandlerInv, TypeOK, docker, files, history
<1>9. Working' => full
  BY <1>3 DEF Working
<1>10. ~full => ~Ahead("download")' /\ ~Ahead("store")'
  BY <1>3 DEF Ahead
<1>11. MessageInv'
  <2>1. Ahead("download")' \/ Ahead("store")' => a = "upgrade"
    BY <1>4, <1>10 DEF Ahead
  <2>2. operation' \in (Services \cup {"none"}) \X Actions
    BY <1>3
  <2> QED
    BY <1>1, <1>2, <1>9, <2>1, <2>2 DEF MessageInv
<1>12. VerdictInv'
  <2>1. ASSUME full
        PROVE  Working' /\ verdicts' = <<>> /\ ~Ahead("callback")' /\ plan' # <<"callback">>
    <3>1. Len(plan') >= 2
      BY <1>4, <2>1
    <3>2. plan' # <<>> /\ plan' # <<"callback">>
      BY <3>1, Long
    <3>3. Working'
      BY <3>2 DEF Working
    <3>4. ~Ahead("callback")'
      <4>1. plan' = Plan(a)
        BY <1>3, <2>1
      <4>2. \A i \in DOMAIN Plan(a) : Plan(a)[i] # "callback"
        BY <2>1, PlanShape
      <4>3. \A i \in DOMAIN plan' : plan'[i] # "callback"
        BY <4>1, <4>2
      <4> QED
        BY <4>3 DEF Ahead
    <3>5. verdicts' = <<>>
      BY <1>3, <2>1
    <3> QED
      BY <3>2, <3>3, <3>4, <3>5
  <2>2. ~full => ~Working' /\ Len(verdicts') = 1 /\ verdicts'[1].op = <<s, a>>
    BY <1>3, <1>18 DEF Working
  <2> QED
    BY <1>1, <1>2, <1>3, <1>4, <2>1, <2>2 DEF VerdictInv
<1>13. CallInv' /\ TagInv'
  <2>1. CallInv'
    BY <1>2, <1>5 DEF CallInv
  <2>2. ASSUME full, Ahead("schema")' \/ Ahead("env")'
        PROVE  tag' \in EnvTags \/ plan'[1] = "resolve"
    <3>1. CASE a = "upgrade"
      BY <1>1, <1>2, <2>2, <3>1 DEF EnvTags
    <3>2. CASE a # "upgrade"
      BY <1>3, <2>2, <3>2, OtherShape DEF Ahead
    <3> QED
      BY <3>1, <3>2
  <2>3. ~full => ~Ahead("schema")' /\ ~Ahead("env")'
    BY <1>3 DEF Ahead
  <2> QED
    BY <2>1, <2>2, <2>3 DEF TagInv
<1>14. UpgradeInv'
  <2> SUFFICES ASSUME a = "upgrade" PROVE PhaseOrder' /\ PhaseReached'
    BY <1>1, <1>2 DEF UpgradeInv
  <2>1. CASE full
    <3>1. plan' = Plan("upgrade")
      BY <1>3, <2>1
    <3> QED
      BY <3>1, UpgradeShape DEF PhaseOrder, PhaseReached, Ahead
  <2>2. CASE ~full
    BY <1>3, <1>9, <2>2 DEF PhaseOrder, PhaseReached, Ahead
  <2> QED
    BY <2>1, <2>2
<1> QED
  BY <1>8, <1>11, <1>12, <1>13, <1>14 DEF HandlerInv

LEMMA GarbledStep ==
  ASSUME EngineAssumption, HandlerInv, ReceiveGarbled
  PROVE  HandlerInv'
<1>1. /\ cmd' = [env |-> FALSE, tag |-> "none", action |-> "garbled", svc |-> "none"]
      /\ tag' = "none" /\ plan = <<>> /\ cmds < MaxCmds /\ cmds' = cmds + 1
      /\ plan' = <<"callback">>
      /\ \E f \in Frame(operation, "decode_error") : verdicts' = <<f>>
      /\ UNCHANGED <<docker, files, stage, yaml, history, crashes, operation, target>>
  BY DEF ReceiveGarbled, Accept, Request
<1>2. plan' \in Seq(Phases) /\ ~Working' /\ ~Ahead("download")' /\ ~Ahead("store")'
  BY <1>1, PhaseSets DEF Working, Ahead
<1>3. verdicts' \in Seq(Frames) /\ Len(verdicts') = 1
  <2>1. PICK f \in Frame(operation, "decode_error") : verdicts' = <<f>>
    BY <1>1
  <2>2. f \in Frames
    BY FrameType DEF HandlerInv, MessageInv, Verdicts
  <2> QED
    BY <2>1, <2>2, One
<1>4. TypeOK'
  <2>1. cmds' \in 0 .. MaxCmds
    BY <1>1, EngineAssumption DEF HandlerInv, TypeOK
  <2> QED
    BY <1>1, <1>2, <1>3, <2>1 DEF HandlerInv, TypeOK, docker, files, history
<1>5. MessageInv'
  <2>1. cmd' \in [env : BOOLEAN, tag : Tags \cup {"none"}, action : Actions,
                  svc : Services \cup {"none"}]
    BY <1>1 DEF Actions
  <2>2. operation' \in (Services \cup {"none"}) \X Actions
    BY <1>1 DEF HandlerInv, MessageInv
  <2>3. cmd'.action # "upgrade"
    BY <1>1
  <2> QED
    BY <1>2, <2>1, <2>2, <2>3 DEF MessageInv
<1>6. VerdictInv'
  BY <1>1, <1>2, <1>3 DEF VerdictInv
<1>7. CallInv' /\ UpgradeInv' /\ TagInv'
  BY <1>1 DEF HandlerInv, CallInv, UpgradeInv, TagInv, Ahead
<1> QED
  BY <1>4, <1>5, <1>6, <1>7 DEF HandlerInv

(* No step of the engine, or one that only counts.                         *)
LEMMA Unchanged ==
  ASSUME HandlerInv, UNCHANGED <<docker, files, control, message, locals, history>>,
         cmds' \in 0 .. MaxCmds, crashes' \in 0 .. MaxCrashes
  PROVE  HandlerInv'
<1> USE DEF docker, files, control, message, locals, history, HandlerInv
<1>1. TypeOK'
  BY DEF TypeOK
<1>2. MessageInv' /\ VerdictInv' /\ TagInv'
  BY DEF MessageInv, VerdictInv, TagInv, Working, Ahead
<1>3. CallInv'
  BY DEF CallInv
<1>4. UpgradeInv'
  BY DEF UpgradeInv, PhaseOrder, PhaseReached, Working, Ahead
<1> QED
  BY <1>1, <1>2, <1>3, <1>4

LEMMA ReceiveStep ==
  ASSUME EngineAssumption, HandlerInv, Receive
  PROVE  HandlerInv'
<1>1. CASE ReceiveUpgrade
  <2>1. PICK s \in Services, t \in Tags \cup {"none"}, e \in BOOLEAN :
          Dispatch(Request("upgrade", s, t, e), {}, t # "none")
    BY <1>1 DEF ReceiveUpgrade
  <2>2. {} \in SUBSET Containers /\ "upgrade" \in Actions /\ (t # "none") \in BOOLEAN
    BY DEF Actions
  <2> QED
    BY <2>1, <2>2, Dispatched, EngineAssumption, Zenon
<1>2. CASE ReceiveConfigUpdate
  <2>1. PICK s \in Services, t \in Tags \cup {"none"}, e \in BOOLEAN :
          Dispatch(Request("update_config", s, t, e), {}, e)
    BY <1>2 DEF ReceiveConfigUpdate
  <2>2. /\ {} \in SUBSET Containers
        /\ "update_config" \in Actions /\ "update_config" # "garbled"
    BY DEF Actions
  <2>3. TRUE \in BOOLEAN /\ FALSE \in BOOLEAN
    OBVIOUS
  <2>4. CASE e = TRUE
    <3>1. Dispatch(Request("update_config", s, t, TRUE), {}, TRUE)
      BY <2>1, <2>4
    <3>2. "update_config" \in {"upgrade", "update_config", "start", "stop", "pause",
                              "unpause", "restart"}
      OBVIOUS
    <3> QED
      BY <3>1, <3>2, <2>2, <2>3, Dispatched, EngineAssumption, Zenon
  <2>5. CASE e = FALSE
    <3>1. Dispatch(Request("update_config", s, t, FALSE), {}, FALSE)
      BY <2>1, <2>5
    <3> QED
      BY <3>1, <2>2, <2>3, Dispatched, EngineAssumption, Zenon
  <2> QED
    BY <2>4, <2>5
<1>3. CASE ReceiveStart
  <2>1. PICK s \in Services, t \in Tags \cup {"none"}, e \in BOOLEAN :
          Dispatch(Request("start", s, t, e), {}, TRUE)
    BY <1>3 DEF ReceiveStart
  <2>2. /\ {} \in SUBSET Containers /\ "start" \in Actions /\ "start" # "garbled"
        /\ "none" \in Tags \cup {"none"} /\ FALSE \in BOOLEAN /\ TRUE \in BOOLEAN
        /\ {} \in SUBSET Containers
        /\ "start" \in {"upgrade", "update_config", "start", "stop", "pause", "unpause",
                       "restart", "unknown"}
    BY <2>1 DEF Actions
  <2> QED
    BY <2>1, <2>2, Dispatched, EngineAssumption, Zenon
<1>4. CASE ReceiveSimple
  <2>1. PICK a \in {"pause", "unpause", "restart"}, s \in Services, t \in Tags \cup {"none"} :
          Dispatch(Request(a, s, t, FALSE), {}, TRUE)
    BY <1>4 DEF ReceiveSimple
  <2>2. /\ {} \in SUBSET Containers /\ a \in Actions /\ a # "garbled"
        /\ "none" \in Tags \cup {"none"} /\ FALSE \in BOOLEAN /\ TRUE \in BOOLEAN
        /\ {} \in SUBSET Containers
        /\ a \in {"upgrade", "update_config", "start", "stop", "pause", "unpause",
                       "restart", "unknown"}
    BY <2>1 DEF Actions
  <2> QED
    BY <2>1, <2>2, Dispatched, EngineAssumption, Zenon
<1>5. CASE ReceiveStop
  <2>1. PICK s \in Services, c \in Containers :
          Dispatch(Request("stop", s, "none", FALSE), {c}, TRUE)
    BY <1>5 DEF ReceiveStop
  <2>2. /\ {} \in SUBSET Containers /\ "stop" \in Actions /\ "stop" # "garbled"
        /\ "none" \in Tags \cup {"none"} /\ FALSE \in BOOLEAN /\ TRUE \in BOOLEAN
        /\ {c} \in SUBSET Containers
        /\ "stop" \in {"upgrade", "update_config", "start", "stop", "pause", "unpause",
                       "restart", "unknown"}
    BY <2>1 DEF Actions
  <2> QED
    BY <2>1, <2>2, Dispatched, EngineAssumption, Zenon
<1>6. CASE ReceiveUnknown
  <2>1. PICK s \in Services :
          Dispatch(Request("unknown", s, "none", FALSE), {}, FALSE)
    BY <1>6 DEF ReceiveUnknown
  <2>2. /\ {} \in SUBSET Containers /\ "unknown" \in Actions /\ "unknown" # "garbled"
        /\ "none" \in Tags \cup {"none"} /\ FALSE \in BOOLEAN /\ TRUE \in BOOLEAN
        /\ {} \in SUBSET Containers
        /\ "unknown" \in {"upgrade", "update_config", "start", "stop", "pause", "unpause",
                       "restart", "unknown"}
    BY <2>1 DEF Actions
  <2> QED
    BY <2>1, <2>2, Dispatched, EngineAssumption, Zenon
<1>7. CASE ReceiveGarbled
  BY <1>7, GarbledStep
<1>8. CASE ReceiveIncomplete
  <2>1. cmds' \in 0 .. MaxCmds /\ crashes' \in 0 .. MaxCrashes
    BY <1>8, EngineAssumption DEF ReceiveIncomplete, HandlerInv, TypeOK
  <2> QED
    BY <1>8, <2>1, Unchanged DEF ReceiveIncomplete
<1> QED
  BY <1>1, <1>2, <1>3, <1>4, <1>5, <1>6, <1>7, <1>8 DEF Receive

-----------------------------------------------------------------------------
(* The steps of a handler                                                  *)

HandlerStep ==
  \/ Download \/ Resolve \/ SchemaRefresh \/ SchemaBody \/ EnvOpen \/ EnvWrite
  \/ StoreOpen \/ StoreWrite \/ Login \/ CallDocker \/ DockerRuns
  \/ DockerReturns \/ DockerDone \/ Finish

(* What all of them keep.                                                  *)
LEMMA CommonStep ==
  ASSUME HandlerInv, HandlerStep
  PROVE  /\ plan' \in Seq(Phases) /\ verdicts' \in Seq(Frames)
         /\ cmd' = cmd /\ operation' = operation
         /\ MessageInv' /\ VerdictInv'
         /\ tag' \in EnvTags \/ (tag' = tag /\ plan[1] # "resolve") => TagInv'
         /\ cmd.action = "upgrade" => PhaseOrder'
         /\ stage' # "called" => CallInv'
<1>1. UNCHANGED message /\ Moves
  BY HandleMoves DEF HandlerStep
<1>2. TypeOK /\ MessageInv /\ VerdictInv
  BY DEF HandlerInv
<1>3. cmd.action = "upgrade" => PhaseOrder'
  BY <1>1, <1>2, OrderMoves DEF HandlerInv, UpgradeInv
<1>4. MessageInv' /\ VerdictInv'
  BY <1>1, <1>2, MessageMoves, VerdictMoves
<1>5. tag' \in EnvTags \/ (tag' = tag /\ plan[1] # "resolve") => TagInv'
  BY <1>1, <1>2, TagMoves DEF HandlerInv
<1> QED
  BY <1>1, <1>2, <1>3, <1>4, <1>5, TypeMoves DEF message, CallInv

(* The step at a phase either goes on, or ends the handler.                *)
LEMMA PhaseStep ==
  ASSUME HandlerInv, HandlerStep, NEW p, NEW s, At(p, s),
         p # "callback", p # "finish", cmd.action = "upgrade"
  PROVE  /\ NextPhase => /\ Working'
                         /\ plan'[1] # "download"
                         /\ plan'[1] = "login" => p = "stop"
                         /\ plan'[1] = "store" => p = "login"
                         /\ plan'[1] = "start" => p = "store"
         /\ \A kind \in Verdicts : End(kind) => PhaseReached'
<1>1. TypeOK /\ MessageInv /\ VerdictInv /\ PhaseOrder
  BY DEF HandlerInv, UpgradeInv
<1>2. plan # <<>> /\ plan[1] = p
  BY <1>1, AtPhase DEF TypeOK
<1>3. Working
  BY <1>2 DEF Working
<1>4. NextPhase => Working'
  BY <1>1, <1>2, Advance
<1> QED
  BY <1>1, <1>2, <1>3, <1>4, Following, Ending DEF PhaseReached

(* What is true of an upgrade at a phase.                                  *)
LEMMA ReachedPhase ==
  ASSUME HandlerInv, NEW p, NEW s, At(p, s), p # "callback", cmd.action = "upgrade"
  PROVE  /\ Working /\ cmd.svc \in Services /\ cmd.tag \in Tags
         /\ p # "resolve"
         /\ p # "download" => yaml = cmd.tag
         /\ p \in {"login", "store"} => doubt \/ \A c \in target : ctr[c] = "absent"
<1>1. plan # <<>> /\ plan[1] = p /\ Ahead(p)
  BY AtPhase DEF HandlerInv, TypeOK
<1>2. Working
  BY <1>1 DEF Working
<1> QED
  BY <1>1, <1>2 DEF HandlerInv, MessageInv, UpgradeInv, PhaseOrder, PhaseReached

LEMMA DownloadStep ==
  ASSUME EngineAssumption, HandlerInv, Download
  PROVE  HandlerInv'
<1>1. At("download", "begin") /\ HandlerStep
  BY DEF Download, HandlerStep
<1>2. cmd.action = "upgrade"
  BY <1>1, AtPhase DEF HandlerInv, TypeOK, MessageInv
<1>3. cmd.svc \in Services /\ cmd.tag \in Tags
  BY <1>1, <1>2, ReachedPhase
<1>4. stage' = "begin"
  BY DEF Download, NextPhase, End
<1>5. Cfg(cmd.svc, cmd.tag) \in SUBSET Containers
  BY <1>3, EngineAssumption
<1>6. TypeOK'
  BY <1>1, <1>3, <1>4, <1>5, CommonStep
  DEF HandlerInv, TypeOK, Download, Verified, docker, files, history, counts
<1>7. PhaseReached'
  <2>1. CASE NextPhase /\ yaml' = cmd.tag
    <3>1. cmd' = cmd
      BY DEF Download, message
    <3> QED
      BY <2>1, <3>1, <1>1, <1>2, PhaseStep DEF PhaseReached
  <2>2. CASE End("download_error")
    BY <2>2, <1>1, <1>2, PhaseStep DEF Verdicts
  <2> QED
    BY <2>1, <2>2 DEF Download, Verified
<1>8. tag' = tag /\ plan[1] # "resolve"
  BY <1>1, AtPhase DEF Download, HandlerInv, TypeOK
<1> QED
  BY <1>1, <1>2, <1>4, <1>6, <1>7, <1>8, CommonStep DEF HandlerInv, UpgradeInv

LEMMA ResolveStep ==
  ASSUME EngineAssumption, HandlerInv, Resolve
  PROVE  HandlerInv'
<1>1. At("resolve", "begin") /\ HandlerStep
  BY DEF Resolve, HandlerStep
<1>2. cmd.action # "upgrade"
  BY <1>1, ReachedPhase
<1>3. cmd.svc \in Services
  BY <1>1, AtPhase DEF HandlerInv, TypeOK, MessageInv, Working
<1>4. stage' = "begin"
  BY DEF Resolve, NextPhase, End
<1> DEFINE content == IF cmd.tag \in Tags THEN cmd.tag ELSE latest[cmd.svc]
<1>5. content \in Tags \cup {"none", "empty", "garbled", "short"}
  BY <1>3 DEF HandlerInv, TypeOK
<1>6. \/ End("error") /\ UNCHANGED locals
      \/ /\ content \in Tags \cup {"empty", "short"}
         /\ yaml' = content
         /\ target' \in TargetsOf(cmd.svc, content)
         /\ tag' \in TagsOf(content)
  BY <1>5 DEF Resolve
<1> HIDE DEF content
<1>7. TagsOf(content) \subseteq EnvTags
  BY EngineAssumption DEF TagsOf, EnvTags
<1>8. TargetsOf(cmd.svc, content) \subseteq SUBSET Containers
  <2>1. \A t \in Tags : Cfg(cmd.svc, t) \in SUBSET Containers
    BY <1>3, EngineAssumption
  <2> QED
    BY <2>1 DEF TargetsOf
<1>9. /\ yaml' \in Tags \cup {"none", "empty", "short"} /\ tag' \in EnvTags \cup {"none"}
      /\ target' \in SUBSET Containers
  BY <1>6, <1>7, <1>8 DEF locals, HandlerInv, TypeOK
<1>10. TypeOK'
  BY <1>1, <1>4, <1>9, CommonStep DEF HandlerInv, TypeOK, Resolve, docker, files, history, counts
<1>11. TagInv'
  <2>1. CASE tag' \in EnvTags
    BY <2>1, <1>1, CommonStep
  <2>2. CASE End("error")
    BY <2>2 DEF TagInv, Ahead, End
  <2> QED
    BY <1>6, <1>7, <2>1, <2>2 DEF Resolve
<1> QED
  BY <1>1, <1>2, <1>4, <1>10, <1>11, CommonStep DEF HandlerInv, UpgradeInv

(* The phases of the files that the order of an upgrade does not name.     *)
LEMMA FilePhase ==
  ASSUME HandlerInv, HandlerStep, NEW p \in {"schema", "env"}, NEW s, At(p, s),
         yaml' = yaml, NextPhase \/ plan' = plan
  PROVE  UpgradeInv'
<1> SUFFICES ASSUME cmd.action = "upgrade" PROVE PhaseReached'
  BY CommonStep DEF UpgradeInv
<1>1. yaml' = cmd'.tag
  BY ReachedPhase, CommonStep
<1>2. CASE NextPhase
  BY <1>1, <1>2, PhaseStep DEF PhaseReached
<1>3. CASE plan' = plan
  <2>1. plan[1] = p
    BY AtPhase DEF HandlerInv, TypeOK
  <2> QED
    BY <1>1, <1>3, <2>1 DEF PhaseReached
<1> QED
  BY <1>2, <1>3

(* The tag does not change once the configuration is known.                *)
LEMMA TagKept ==
  ASSUME HandlerInv, HandlerStep, NEW p, NEW s, At(p, s), p # "resolve", tag' = tag
  PROVE  TagInv'
BY AtPhase, CommonStep DEF HandlerInv, TypeOK

LEMMA SchemaRefreshStep ==
  ASSUME HandlerInv, SchemaRefresh
  PROVE  HandlerInv'
<1>1. /\ At("schema", "begin") /\ HandlerStep /\ (NextPhase \/ plan' = plan)
      /\ stage' \in {"begin", "body"} /\ yaml' = yaml /\ tag' = tag
  BY DEF SchemaRefresh, HandlerStep, NextPhase, Stage, locals
<1>2. UpgradeInv' /\ TagInv'
  BY <1>1, FilePhase, TagKept
<1>3. TypeOK'
  BY <1>1, CommonStep
  DEF HandlerInv, TypeOK, SchemaRefresh, docker, locals, history, counts
<1> QED
  BY <1>1, <1>2, <1>3, CommonStep DEF HandlerInv

LEMMA SchemaBodyStep ==
  ASSUME HandlerInv, SchemaBody
  PROVE  HandlerInv'
<1>1. /\ At("schema", "body") /\ HandlerStep /\ NextPhase
      /\ stage' = "begin" /\ yaml' = yaml /\ tag' = tag
  BY DEF SchemaBody, HandlerStep, NextPhase, locals
<1>2. UpgradeInv' /\ TagInv'
  BY <1>1, FilePhase, TagKept
<1>3. cached' \in SUBSET EnvTags
  <2>1. Ahead("schema") /\ plan[1] # "resolve"
    BY <1>1, AtPhase DEF HandlerInv, TypeOK
  <2>2. tag \in EnvTags
    BY <2>1 DEF HandlerInv, TagInv
  <2> QED
    BY <2>2 DEF SchemaBody, HandlerInv, TypeOK
<1>4. TypeOK'
  BY <1>1, <1>3, CommonStep
  DEF HandlerInv, TypeOK, SchemaBody, docker, locals, counts
<1> QED
  BY <1>1, <1>2, <1>4, CommonStep DEF HandlerInv

LEMMA EnvTyped ==
  ASSUME NEW v, NEW V, v \in V, NEW f \in [Services -> [EnvTags -> V]], NEW s, NEW t
  PROVE  [f EXCEPT ![s][t] = v] \in [Services -> [EnvTags -> V]]
<1>1. \A x \in Services : [f[x] EXCEPT ![t] = v] \in [EnvTags -> V]
  OBVIOUS
<1> QED
  BY <1>1

LEMMA EnvOpenStep ==
  ASSUME HandlerInv, EnvOpen
  PROVE  HandlerInv'
<1>1. /\ At("env", "begin") /\ HandlerStep /\ (NextPhase \/ plan' = plan)
      /\ stage' \in {"begin", "write"} /\ yaml' = yaml /\ tag' = tag
  BY DEF EnvOpen, HandlerStep, NextPhase, Stage, locals
<1>2. UpgradeInv' /\ TagInv'
  BY <1>1, FilePhase, TagKept
<1>3. env' \in [Services -> [EnvTags -> {"none", "cut", "given", "defaults", "empty"}]]
  <2> DEFINE V == {"none", "cut", "given", "defaults", "empty"}
  <2>1. env \in [Services -> [EnvTags -> V]] /\ "cut" \in V
    BY DEF HandlerInv, TypeOK
  <2>2. env' = [env EXCEPT ![cmd.svc][tag] = "cut"] \/ env' = env
    BY DEF EnvOpen
  <2> HIDE DEF V
  <2>3. [env EXCEPT ![cmd.svc][tag] = "cut"] \in [Services -> [EnvTags -> V]]
    BY <2>1, EnvTyped, Zenon
  <2>4. env' \in [Services -> [EnvTags -> V]]
    BY <2>1, <2>2, <2>3
  <2> QED
    BY <2>4 DEF V
<1>4. TypeOK'
  BY <1>1, <1>3, CommonStep
  DEF HandlerInv, TypeOK, EnvOpen, docker, locals, counts
<1> QED
  BY <1>1, <1>2, <1>4, CommonStep DEF HandlerInv

LEMMA EnvWriteStep ==
  ASSUME HandlerInv, EnvWrite
  PROVE  HandlerInv'
<1>1. /\ At("env", "write") /\ HandlerStep /\ NextPhase
      /\ stage' = "begin" /\ yaml' = yaml /\ tag' = tag
  BY DEF EnvWrite, HandlerStep, NextPhase, locals
<1>2. UpgradeInv' /\ TagInv'
  BY <1>1, FilePhase, TagKept
<1>3. ResolvedEnv \in {"given", "defaults", "empty"}
  BY DEF ResolvedEnv
<1>4. env' \in [Services -> [EnvTags -> {"none", "cut", "given", "defaults", "empty"}]]
  <2> DEFINE V == {"none", "cut", "given", "defaults", "empty"}
  <2>1. env \in [Services -> [EnvTags -> V]] /\ ResolvedEnv \in V
    BY <1>3 DEF HandlerInv, TypeOK
  <2>2. env' = [env EXCEPT ![cmd.svc][tag] = ResolvedEnv] \/ env' = env
    BY DEF EnvWrite
  <2> HIDE DEF V
  <2>3. [env EXCEPT ![cmd.svc][tag] = ResolvedEnv] \in [Services -> [EnvTags -> V]]
    BY <2>1, EnvTyped, Zenon
  <2>4. env' \in [Services -> [EnvTags -> V]]
    BY <2>1, <2>2, <2>3
  <2> QED
    BY <2>4 DEF V
<1>5. TypeOK'
  BY <1>1, <1>4, CommonStep
  DEF HandlerInv, TypeOK, EnvWrite, docker, locals, counts
<1> QED
  BY <1>1, <1>2, <1>5, CommonStep DEF HandlerInv

(* Only an upgrade stores.                                                 *)
LEMMA Storing ==
  ASSUME HandlerInv, NEW s, At("store", s)
  PROVE  /\ cmd.action = "upgrade" /\ cmd.svc \in Services /\ cmd.tag \in Tags
         /\ yaml = cmd.tag
         /\ doubt \/ \A c \in target : ctr[c] = "absent"
<1>1. cmd.action = "upgrade"
  BY AtPhase DEF HandlerInv, TypeOK, MessageInv
<1> QED
  BY <1>1, ReachedPhase

LEMMA StoreOpenStep ==
  ASSUME HandlerInv, StoreOpen
  PROVE  HandlerInv'
<1>1. At("store", "begin") /\ HandlerStep /\ stage' \in {"begin", "write"}
  BY DEF StoreOpen, HandlerStep, End, Stage
<1>6. latest' \in [Services -> Tags \cup {"none", "empty", "garbled", "short"}]
  BY DEF StoreOpen, HandlerInv, TypeOK
<1>2. TypeOK'
  BY <1>1, <1>6, CommonStep DEF HandlerInv, TypeOK, StoreOpen, docker, locals, history, counts
<1>3. PhaseReached'
  <2>1. CASE End("error")
    BY <1>1, <2>1, Storing, PhaseStep DEF Verdicts
  <2>2. CASE Stage("write")
    <3>1. plan[1] = "store" /\ plan' = plan
      BY <1>1, <2>2, AtPhase DEF HandlerInv, TypeOK, Stage
    <3>2. UNCHANGED <<yaml, target, ctr, doubt, cmd>>
      BY DEF StoreOpen, docker, locals, history, message
    <3> QED
      BY <1>1, <3>1, <3>2, Storing DEF PhaseReached
  <2> QED
    BY <2>1, <2>2 DEF StoreOpen
<1>5. TagInv'
  BY <1>1, TagKept DEF StoreOpen, locals
<1> QED
  BY <1>1, <1>2, <1>3, <1>5, CommonStep DEF HandlerInv, UpgradeInv

LEMMA StoreWriteStep ==
  ASSUME HandlerInv, StoreWrite
  PROVE  HandlerInv'
<1>1. At("store", "write") /\ HandlerStep /\ stage' = "begin"
  BY DEF StoreWrite, HandlerStep, End, NextPhase
<1>6. yaml \in Tags
  BY <1>1, Storing
<1>7. /\ latest' \in [Services -> Tags \cup {"none", "empty", "garbled", "short"}]
      /\ stored' \in [Services -> Tags \cup {"none"}]
  <2>1. /\ latest' = [latest EXCEPT ![cmd.svc] = yaml] \/ latest' = latest
        /\ stored' = [stored EXCEPT ![cmd.svc] = yaml] \/ stored' = stored
    BY DEF StoreWrite
  <2>2. /\ latest \in [Services -> Tags \cup {"none", "empty", "garbled", "short"}]
        /\ stored \in [Services -> Tags \cup {"none"}]
    BY DEF HandlerInv, TypeOK
  <2> QED
    BY <1>6, <2>1, <2>2
<1>2. TypeOK'
  BY <1>1, <1>7, CommonStep DEF HandlerInv, TypeOK, StoreWrite, docker, locals, counts
<1>3. PhaseReached'
  <2>1. CASE End("error")
    BY <1>1, <2>1, Storing, PhaseStep DEF Verdicts
  <2>2. CASE NextPhase /\ latest' = [latest EXCEPT ![cmd.svc] = yaml]
                       /\ stored' = [stored EXCEPT ![cmd.svc] = yaml]
    <3>1. yaml' = yaml /\ cmd' = cmd
      BY DEF StoreWrite, locals, message
    <3>2. latest'[cmd.svc] = cmd.tag /\ stored'[cmd.svc] = cmd.tag
      BY <1>1, <2>2, Storing DEF HandlerInv, TypeOK
    <3> QED
      BY <1>1, <2>2, <3>1, <3>2, Storing, PhaseStep DEF PhaseReached
  <2> QED
    BY <2>1, <2>2 DEF StoreWrite
<1>5. TagInv'
  BY <1>1, TagKept DEF StoreWrite, locals
<1> QED
  BY <1>1, <1>2, <1>3, <1>5, CommonStep DEF HandlerInv, UpgradeInv

LEMMA LoginStep ==
  ASSUME HandlerInv, Login
  PROVE  HandlerInv'
<1>1. At("login", "begin") /\ HandlerStep /\ stage' = "begin"
  BY DEF Login, HandlerStep, End, NextPhase
<1>2. UNCHANGED <<yaml, target, ctr, doubt, cmd>>
  BY DEF Login, docker, locals, history, message
<1>3. TypeOK'
  BY <1>1, CommonStep DEF HandlerInv, TypeOK, Login, docker, files, locals, history, counts
<1>4. ASSUME cmd.action = "upgrade" PROVE PhaseReached'
  <2>1. CASE End("error")
    BY <1>1, <1>4, <2>1, PhaseStep DEF Verdicts
  <2>2. CASE NextPhase
    BY <1>1, <1>2, <1>4, <2>2, ReachedPhase, PhaseStep DEF PhaseReached
  <2> QED
    BY <2>1, <2>2 DEF Login
<1>5. TagInv'
  BY <1>1, TagKept DEF Login, locals
<1> QED
  BY <1>1, <1>3, <1>4, <1>5, CommonStep DEF HandlerInv, UpgradeInv

-----------------------------------------------------------------------------
(* The steps of a Docker call                                              *)

(* Which of the phases can be a Docker call.                               *)
LEMMA Calling ==
  ASSUME HandlerInv, stage = "called"
  PROVE  /\ plan # <<>> /\ plan[1] \in D!Ops /\ At(plan[1], "called")
         /\ plan[1] = call.op /\ call.cfg = target
         /\ plan[1] \notin {"download", "resolve", "schema", "env", "login", "store",
                          "finish", "callback"}
<1>1. plan # <<>> /\ plan[1] = call.op /\ call.op \in D!Ops /\ call.cfg = target
  BY DEF HandlerInv, CallInv, TypeOK
<1>2. At(plan[1], "called")
  BY <1>1 DEF At
<1> QED
  BY <1>1, <1>2 DEF D!Ops

LEMMA CallDockerStep ==
  ASSUME HandlerInv, CallDocker
  PROVE  HandlerInv'
<1>1. PICK op \in D!Ops : At(op, "begin") /\ D!Begin(op, target)
  BY DEF CallDocker
<1>2. HandlerStep /\ plan # <<>> /\ plan[1] = op /\ op \notin {"resolve", "callback"}
  BY <1>1, AtPhase DEF HandlerStep, HandlerInv, TypeOK, D!Ops
<1>3. /\ UNCHANGED <<plan, verdicts, files, locals, history, counts, message, ctr>>
      /\ stage' = "called"
      /\ call' = [op |-> op, cfg |-> target, up |-> FALSE]
      /\ clean' = TRUE /\ result' = "none"
  BY <1>1 DEF CallDocker, Stage, D!Begin
<1>4. TypeOK'
  BY <1>2, <1>3, CommonStep DEF HandlerInv, TypeOK, files, locals, history, counts
<1>5. CallInv'
  BY <1>2, <1>3 DEF CallInv, locals
<1>6. TagInv'
  BY <1>1, <1>2, <1>3, TagKept DEF locals
<1>7. UpgradeInv'
  BY <1>3, CommonStep, <1>2
  DEF HandlerInv, UpgradeInv, PhaseReached, Working, files, locals, history, message
<1> QED
  BY <1>2, <1>4, <1>5, <1>6, <1>7, CommonStep DEF HandlerInv

(* What docker commands may make of the containers.                        *)
LEMMA ContainersTyped ==
  ASSUME HandlerInv, DockerRuns
  PROVE  /\ ctr' \in [Containers -> D!States]
         /\ call' \in [op : D!Ops, cfg : SUBSET Containers, up : BOOLEAN]
         /\ call'.op = call.op /\ call'.cfg = call.cfg
         /\ clean' \in BOOLEAN /\ result' = "none"
<1>1. /\ ctr \in [Containers -> D!States]
      /\ call \in [op : D!Ops, cfg : SUBSET Containers, up : BOOLEAN]
      /\ clean \in BOOLEAN /\ result \in {"none", "ok", "error"}
  BY DEF HandlerInv, TypeOK
<1>2. {"absent", "running", "paused", "exited"} \subseteq D!States
  BY DEF D!States
<1>3. ASSUME NEW c \in Containers, D!Work(c) PROVE ctr' \in [Containers -> D!States]
  <2>1. D!Becomes(call.op, ctr[c]) \subseteq D!States
    BY <1>2 DEF D!Becomes
  <2> QED
    BY <1>1, <1>3, <2>1 DEF D!Work
<1>4. ASSUME D!Up PROVE /\ ctr' \in [Containers -> D!States]
                        /\ call' \in [op : D!Ops, cfg : SUBSET Containers, up : BOOLEAN]
                        /\ call'.op = call.op /\ call'.cfg = call.cfg
  <2>1. ctr' \in D!Raised \cup D!HalfRaised
        /\ (call' = [call EXCEPT !.up = TRUE] \/ call' = call)
    BY <1>4 DEF D!Up
  <2>2. D!Raised \cup D!HalfRaised \subseteq [Containers -> D!States]
    BY <1>1, <1>2 DEF D!Raised, D!HalfRaised
  <2> QED
    BY <1>1, <2>1, <2>2
<1>5. ASSUME D!Prune PROVE ctr' \in [Containers -> D!States]
  BY <1>1, <1>2, <1>5 DEF D!Prune
<1>6. CASE \E c \in Containers : D!Work(c)
  BY <1>1, <1>3, <1>6 DEF D!Work, D!Idle
<1>7. CASE D!Up
  BY <1>1, <1>4, <1>7 DEF D!Up, D!Idle
<1>8. CASE D!Prune
  BY <1>1, <1>5, <1>8 DEF D!Prune, D!Idle
<1>9. CASE D!Slip
  BY <1>1, <1>9 DEF D!Slip, D!Idle
<1> QED
  BY <1>6, <1>7, <1>8, <1>9 DEF DockerRuns

LEMMA DockerRunsStep ==
  ASSUME HandlerInv, DockerRuns
  PROVE  HandlerInv'
<1>1. /\ stage = "called" /\ HandlerStep
      /\ UNCHANGED <<files, control, message, locals, history, counts>>
  BY DEF DockerRuns, HandlerStep
<1>2. TypeOK'
  BY <1>1, ContainersTyped, CommonStep
  DEF HandlerInv, TypeOK, files, control, locals, history, counts
<1>3. CallInv'
  BY <1>1, ContainersTyped, Calling DEF CallInv, control, locals
<1>4. TagInv'
  BY <1>1, Calling, TagKept DEF locals
<1>5. UpgradeInv'
  BY <1>1, Calling, CommonStep
  DEF HandlerInv, UpgradeInv, PhaseReached, Working, files, control, locals, history, message
<1> QED
  BY <1>1, <1>2, <1>3, <1>4, <1>5, CommonStep DEF HandlerInv

LEMMA DockerReturnsStep ==
  ASSUME HandlerInv, DockerReturns
  PROVE  HandlerInv'
<1>1. /\ stage = "called" /\ HandlerStep
      /\ UNCHANGED <<files, control, message, locals, history, counts>>
  BY DEF DockerReturns, HandlerStep
<1>2. PICK res \in {"ok", "error"} : D!Return(res)
  BY DEF DockerReturns
<1>3. /\ result' = res /\ UNCHANGED <<ctr, call, clean>>
      /\ res = "ok" /\ clean /\ call.op = "stop" => \A c \in call.cfg : ctr[c] = "absent"
  BY <1>2 DEF D!Return
<1>4. TypeOK'
  BY <1>1, <1>3, CommonStep DEF HandlerInv, TypeOK, files, control, locals, history, counts
<1>5. CallInv'
  BY <1>1, <1>3, Calling DEF CallInv, control, locals
<1>6. TagInv'
  BY <1>1, Calling, TagKept DEF locals
<1>7. UpgradeInv'
  BY <1>1, <1>3, Calling, CommonStep
  DEF HandlerInv, UpgradeInv, PhaseReached, Working, files, control, locals, history, message
<1> QED
  BY <1>1, <1>4, <1>5, <1>6, <1>7, CommonStep DEF HandlerInv

LEMMA DockerDoneStep ==
  ASSUME HandlerInv, DockerDone
  PROVE  HandlerInv'
<1>1. /\ stage = "called" /\ HandlerStep
      /\ UNCHANGED <<docker, files, message, locals, stored, cached, envCut, counts>>
      /\ doubt' = (doubt \/ ~clean)
      /\ (result = "ok" /\ NextPhase) \/ End("error")
      /\ stage' = "begin"
  BY DEF DockerDone, HandlerStep, NextPhase, End
<1>2. doubt' \in BOOLEAN
  BY <1>1 DEF HandlerInv, TypeOK
<1>3. TypeOK'
  BY <1>1, <1>2, CommonStep DEF HandlerInv, TypeOK, docker, files, locals, counts
<1>4. TagInv'
  BY <1>1, Calling, TagKept DEF locals
<1>5. ASSUME cmd.action = "upgrade" PROVE PhaseReached'
  <2>1. CASE End("error")
    BY <1>1, <1>5, <2>1, Calling, PhaseStep DEF Verdicts
  <2>2. CASE result = "ok" /\ NextPhase
    <3>1. /\ plan'[1] # "download" /\ plan'[1] # "store" /\ plan'[1] # "start"
          /\ plan'[1] = "login" => plan[1] = "stop"
      BY <1>1, <1>5, <2>2, Calling, PhaseStep
    <3>2. yaml' = cmd'.tag
      BY <1>1, <1>5, Calling, ReachedPhase DEF locals, message
    <3>3. plan[1] = "stop" => doubt' \/ \A c \in target : ctr[c] = "absent"
      BY <1>1, <2>2, Calling DEF HandlerInv, CallInv
    <3> QED
      BY <1>1, <3>1, <3>2, <3>3 DEF PhaseReached, docker, locals
  <2> QED
    BY <1>1, <2>1, <2>2
<1> QED
  BY <1>1, <1>3, <1>4, <1>5, CommonStep DEF HandlerInv, UpgradeInv

LEMMA FinishStep ==
  ASSUME HandlerInv, Finish
  PROVE  HandlerInv'
<1>1. /\ At("finish", "begin") /\ HandlerStep /\ End("completed") /\ stage' = "begin"
      /\ UNCHANGED <<docker, files, message, locals, history, counts>>
  BY DEF Finish, HandlerStep, End
<1>2. TypeOK'
  BY <1>1, CommonStep DEF HandlerInv, TypeOK, docker, files, locals, history, counts
<1>3. TagInv'
  BY <1>1, TagKept DEF locals
<1>4. PhaseReached'
  BY <1>1 DEF End, PhaseReached, Working
<1> QED
  BY <1>1, <1>2, <1>3, <1>4, CommonStep DEF HandlerInv, UpgradeInv

-----------------------------------------------------------------------------
(* No handler runs                                                         *)

LEMMA NoHandlerStep ==
  ASSUME HandlerInv, NoHandler, UNCHANGED <<ctr, files, stored, cached, cmds>>,
         operation' \in (Services \cup {"none"}) \X Actions,
         crashes' \in 0 .. MaxCrashes
  PROVE  HandlerInv'
<1>1. /\ plan' = <<>> /\ stage' = "begin" /\ verdicts' = <<>>
      /\ cmd' = [env |-> FALSE, tag |-> "none", action |-> "none", svc |-> "none"]
      /\ yaml' = "none" /\ tag' = "none" /\ target' = {}
      /\ envCut' = FALSE /\ doubt' = FALSE
      /\ call' \in [op : D!Ops, cfg : SUBSET Containers, up : BOOLEAN]
      /\ clean' = TRUE /\ result' = "ok"
  BY DEF NoHandler, NoCmd, NoCall, Request, D!Ops
<1>2. plan' \in Seq(Phases) /\ verdicts' \in Seq(Frames) /\ ~Working' /\ DOMAIN plan' = {}
  BY <1>1 DEF Working
<1>3. TypeOK'
  BY <1>1, <1>2 DEF HandlerInv, TypeOK, files
<1>4. MessageInv'
  <2>1. cmd' \in [env : BOOLEAN, tag : Tags \cup {"none"}, action : Actions,
                  svc : Services \cup {"none"}]
    BY <1>1 DEF Actions
  <2>2. ~Ahead("download")' /\ ~Ahead("store")' /\ cmd'.action # "upgrade"
    BY <1>1, <1>2 DEF Ahead
  <2> QED
    BY <1>2, <2>1, <2>2 DEF MessageInv
<1>5. TagInv'
  BY <1>2 DEF TagInv, Ahead
<1>6. VerdictInv'
  BY <1>1, <1>2 DEF VerdictInv
<1>7. CallInv' /\ UpgradeInv'
  BY <1>1 DEF CallInv, UpgradeInv
<1> QED
  BY <1>3, <1>4, <1>5, <1>6, <1>7 DEF HandlerInv

LEMMA CallbackStep ==
  ASSUME HandlerInv, Callback
  PROVE  HandlerInv'
BY NoHandlerStep DEF Callback, docker, counts, HandlerInv, TypeOK, MessageInv

LEMMA CrashStep ==
  ASSUME EngineAssumption, HandlerInv, Crash
  PROVE  HandlerInv'
<1>1. operation' \in (Services \cup {"none"}) \X Actions
  BY DEF Crash, Actions
<1>2. crashes' \in 0 .. MaxCrashes
  BY EngineAssumption DEF Crash, HandlerInv, TypeOK
<1> QED
  BY <1>1, <1>2, NoHandlerStep DEF Crash, HandlerInv, TypeOK

-----------------------------------------------------------------------------
(* The invariant and what follows from it                                  *)

LEMMA HandlerInit == EngineAssumption /\ Init => HandlerInv
<1> SUFFICES ASSUME EngineAssumption, Init PROVE HandlerInv
  OBVIOUS
<1>1. /\ plan = <<>> /\ verdicts = <<>> /\ stage = "begin"
      /\ cmd = [env |-> FALSE, tag |-> "none", action |-> "none", svc |-> "none"]
      /\ operation = <<"none", "none">>
  BY DEF Init, NoCmd, Request
<1>2. plan \in Seq(Phases) /\ verdicts \in Seq(Frames) /\ ~Working /\ DOMAIN plan = {}
  BY <1>1 DEF Working
<1>3. /\ ctr \in [Containers -> D!States]
      /\ call \in [op : D!Ops, cfg : SUBSET Containers, up : BOOLEAN]
      /\ clean \in BOOLEAN /\ result \in {"none", "ok", "error"}
  BY DEF Init, D!Init, D!States, D!Ops
<1>4. cmds \in 0 .. MaxCmds /\ crashes \in 0 .. MaxCrashes
  BY EngineAssumption DEF Init
<1>5. env \in [Services -> [EnvTags -> {"none", "cut", "given", "defaults", "empty"}]]
  BY DEF Init
<1>6. TypeOK
  BY <1>1, <1>2, <1>3, <1>4, <1>5 DEF Init, TypeOK
<1>7. MessageInv
  BY <1>1, <1>2 DEF MessageInv, Actions, Ahead
<1>8. TagInv /\ VerdictInv /\ CallInv /\ UpgradeInv
  BY <1>1, <1>2 DEF TagInv, VerdictInv, CallInv, UpgradeInv, Ahead
<1> QED
  BY <1>6, <1>7, <1>8 DEF HandlerInv

LEMMA HandlerNext == EngineAssumption /\ HandlerInv /\ [Next]_vars => HandlerInv'
<1> SUFFICES ASSUME EngineAssumption, HandlerInv, [Next]_vars PROVE HandlerInv'
  OBVIOUS
<1>1. CASE Receive
  BY <1>1, ReceiveStep
<1>2. CASE Download \/ Resolve
  BY <1>2, DownloadStep, ResolveStep
<1>3. CASE SchemaRefresh \/ SchemaBody
  BY <1>3, SchemaRefreshStep, SchemaBodyStep
<1>4. CASE EnvOpen \/ EnvWrite
  BY <1>4, EnvOpenStep, EnvWriteStep
<1>5. CASE StoreOpen \/ StoreWrite
  BY <1>5, StoreOpenStep, StoreWriteStep
<1>6. CASE Login \/ Finish
  BY <1>6, LoginStep, FinishStep
<1>7. CASE CallDocker \/ DockerRuns
  BY <1>7, CallDockerStep, DockerRunsStep
<1>8. CASE DockerReturns \/ DockerDone
  BY <1>8, DockerReturnsStep, DockerDoneStep
<1>9. CASE Callback \/ Crash
  BY <1>9, CallbackStep, CrashStep
<1>10. CASE UNCHANGED vars
  BY <1>10, Unchanged DEF vars, counts, HandlerInv, TypeOK
<1> QED
  BY <1>1, <1>2, <1>3, <1>4, <1>5, <1>6, <1>7, <1>8, <1>9, <1>10 DEF Next, Handle

(* The inductive invariant of the engine, types included.                  *)
THEOREM HandlersSafe == Spec => []HandlerInv
<1>1. Init => HandlerInv
  BY HandlerInit, EngineAssumption
<1>2. HandlerInv /\ [Next]_vars => HandlerInv'
  BY HandlerNext, EngineAssumption
<1> QED
  BY <1>1, <1>2, PTL DEF Spec

(* A command gets one verdict, under its own name, as its handler returns. *)
THEOREM VerdictsUnique == Spec => []OneVerdict
<1>1. HandlerInv => OneVerdict
  BY DEF HandlerInv, VerdictInv, Working, OneVerdict
<1> QED
  BY <1>1, HandlersSafe, PTL

(* An upgrade starts containers only after their configuration is stored.  *)
THEOREM StartsWhatIsStored == Spec => []StoredBeforeStart
<1>1. HandlerInv => StoredBeforeStart
  <2> SUFFICES ASSUME HandlerInv, cmd.action = "upgrade", Serving("start")
               PROVE  latest[cmd.svc] = cmd.tag /\ stored[cmd.svc] = cmd.tag
    BY DEF StoredBeforeStart
  <2>1. plan \in Seq(Phases) /\ plan # <<>> /\ plan[1] = "start"
    BY DEF Serving, HandlerInv, TypeOK
  <2>2. Working
    BY <2>1 DEF Working
  <2> QED
    BY <2>1, <2>2 DEF HandlerInv, UpgradeInv, PhaseReached
<1> QED
  BY <1>1, HandlersSafe, PTL

(* The steps that write the latest configuration of a service.             *)
LEMMA LatestChanges ==
  ASSUME HandlerInv, Next, UNCHANGED latest => FALSE
  PROVE  StoreOpen \/ StoreWrite
BY DEF Next, Receive, Handle, ReceiveUpgrade, ReceiveConfigUpdate, ReceiveStart,
       ReceiveSimple, ReceiveStop, ReceiveUnknown, ReceiveGarbled, ReceiveIncomplete,
       Dispatch, Accept, Download, Resolve, SchemaRefresh, SchemaBody, EnvOpen, EnvWrite,
       Login, CallDocker, DockerRuns, DockerReturns, DockerDone, Finish, Callback, Crash,
       files

(* The stored configuration changes only in an upgrade of its service that *)
(* has brought the containers down.                                        *)
THEOREM StoresWhenDown == Spec => StoredOnlyWhenDown
<1>1. HandlerInv /\ [Next]_vars =>
        [\A s \in Services : latest'[s] # latest[s] =>
           /\ cmd.action = "upgrade" /\ cmd.svc = s
           /\ doubt \/ \A c \in target : ctr[c] = "absent"]_latest
  <2> SUFFICES ASSUME HandlerInv, [Next]_vars, NEW s \in Services, latest'[s] # latest[s]
               PROVE  /\ cmd.action = "upgrade" /\ cmd.svc = s
                      /\ doubt \/ \A c \in target : ctr[c] = "absent"
    OBVIOUS
  <2>1. Next /\ latest' # latest
    BY DEF vars, files
  <2>2. StoreOpen \/ StoreWrite
    BY <2>1, LatestChanges
  <2>3. \E st : At("store", st)
    BY <2>2 DEF StoreOpen, StoreWrite
  <2>4. cmd.svc = s
    BY <2>2 DEF StoreOpen, StoreWrite, HandlerInv, TypeOK
  <2> QED
    BY <2>3, <2>4, Storing
<1> QED
  BY <1>1, HandlersSafe, PTL DEF Spec, StoredOnlyWhenDown

(* An upgrade that fails or dies before it holds a verified configuration  *)
(* has changed no container and no file.                                   *)
THEOREM FailedDownloadsHarmless == Spec => UntouchedUntilFetched
<1>1. HandlerInv /\ [Next]_vars =>
        [cmd.action = "upgrade" => yaml = cmd.tag]_<<ctr, files>>
  <2> SUFFICES ASSUME HandlerInv, [Next]_vars, cmd.action = "upgrade",
                      <<ctr, files>>' # <<ctr, files>>
               PROVE  yaml = cmd.tag
    OBVIOUS
  <2> plan \in Seq(Phases)
    BY DEF HandlerInv, TypeOK
  <2>1. \/ SchemaRefresh \/ SchemaBody \/ EnvOpen \/ EnvWrite
        \/ StoreOpen \/ StoreWrite \/ DockerRuns
    BY DEF Next, Receive, Handle, ReceiveUpgrade, ReceiveConfigUpdate, ReceiveStart,
       ReceiveSimple, ReceiveStop, ReceiveUnknown, ReceiveGarbled, ReceiveIncomplete,
       Dispatch, Accept, Download, Resolve, Login, CallDocker, DockerReturns, DockerDone,
       Finish, Callback, Crash, D!Begin, D!Return, docker, vars
  <2>2. /\ plan # <<>>
        /\ plan[1] \in {"schema", "env", "store"} \cup D!Ops
    <3>1. ASSUME NEW p, NEW s, At(p, s) PROVE plan # <<>> /\ plan[1] = p
      BY <3>1, AtPhase
    <3>2. CASE DockerRuns
      BY <3>2 DEF DockerRuns, HandlerInv, TypeOK, CallInv
    <3> QED
      BY <2>1, <3>1, <3>2
         DEF SchemaRefresh, SchemaBody, EnvOpen, EnvWrite, StoreOpen, StoreWrite
  <2>3. Working /\ plan[1] # "download"
    BY <2>2 DEF Working, D!Ops
  <2> QED
    BY <2>3 DEF HandlerInv, UpgradeInv, PhaseReached
<1> QED
  BY <1>1, HandlersSafe, PTL DEF Spec, UntouchedUntilFetched
=============================================================================
