------------------------ MODULE DockerManagerProofs ------------------------
(***************************************************************************)
(* Proofs about the Docker manager, for any containers, any overlap of     *)
(* their names and any faults of the commands.                             *)
(***************************************************************************)
EXTENDS DockerManager, TLAPS

USE DockerAssumption

(***************************************************************************)
(* The inductive invariant                                                 *)
(***************************************************************************)
StopPcs == {"ps", "stop", "rm", "kill", "rmForce", "psAll", "rmStopped"}
SimplePcs == {"check", "act"}
ComposePcs == {"temp", "pull", "up", "prune"}
SimpleOps == {"pause", "unpause", "restart"}
ComposeOps == {"start", "recreate"}

(* The command about to be run belongs to the method that was called, and  *)
(* to a service where the method goes service by service.                  *)
PhaseInv ==
  /\ pc = "idle" <=> result # "none"
  /\ pc \in StopPcs => call.op = "stop"
  /\ pc \in SimplePcs => call.op \in SimpleOps
  /\ pc \in ComposePcs => call.op \in ComposeOps
  /\ pc \in {"pull", "prune"} => call.op = "start"
  /\ pc \notin StopPcs \cup SimplePcs => cur = {}
  /\ pc = "idle" \/ call.op \in ComposeOps => todo = {}

(* What docker-compose up has to say by the time it has run.               *)
UpInv ==
  call.op \in ComposeOps =>
    /\ pc \in {"temp", "pull", "up"} => call.up = FALSE
    /\ pc = "prune" => call.up = TRUE
    /\ pc = "next" /\ failed = {} => call.up = TRUE \/ call.cfg = {}

(* A service that is behind the loop is as asked, or failed, or a command  *)
(* on it did not do what its exit code says.                               *)
BehindInv ==
  pc \notin {"temp", "pull", "up"} =>
    \A c \in call.cfg \ (todo \cup cur \cup failed \cup shaky) : Achieved(c)

(* What a stop has tried on a service before it resorts to force.          *)
TriedInv ==
  /\ pc \in {"rm", "kill", "rmForce"} => cur \subseteq tried
  /\ pc \in {"psAll", "rmStopped"} =>
       \A c \in cur : c \in shaky \/ c \notin steady \/ ctr[c] # "running"

ManagerInv == TypeOK /\ PhaseInv /\ UpInv /\ BehindInv /\ TriedInv

-----------------------------------------------------------------------------
(* What commands do                                                        *)

Commands == {"stop", "restart", "kill", "rm", "rm -f", "pause", "unpause"}

LEMMA AfterTypes ==
  ASSUME NEW cmd \in Commands
  PROVE  /\ After(cmd) \in Calls!States
         /\ "absent" \in Accepts(cmd) => After(cmd) = "absent"
BY DEF Commands, After, Accepts, Calls!States

(* A command changes its own container only, brings none into being, and   *)
(* is noted if its exit code is not true of what it did.                   *)
LEMMA DockerEffect ==
  ASSUME TypeOK, NEW cmd \in Commands, NEW c \in Containers, NEW o \in Outcomes,
         Docker(cmd, c, o)
  PROVE  /\ ctr' \in [Containers -> Calls!States]
         /\ \A d \in Containers \ {c} : ctr'[d] = ctr[d]
         /\ ctr[c] = "absent" => ctr'[c] = "absent"
         /\ ctr'[c] # ctr[c] => ctr[c] \in Accepts(cmd) /\ ctr'[c] = After(cmd)
         /\ shaky' \in {shaky, shaky \cup {c}}
         /\ shaky' # shaky => UNCHANGED ctr
<1>1. \/ ctr[c] \in Accepts(cmd) /\ ctr' = [ctr EXCEPT ![c] = After(cmd)] /\ UNCHANGED shaky
      \/ UNCHANGED ctr /\ shaky' \in {shaky, shaky \cup {c}}
  BY DEF Docker
<1> QED
  BY <1>1, AfterTypes DEF TypeOK

(* What an exit code of 0 means, where it counts.                          *)
LEMMA DockerExit0 ==
  ASSUME TypeOK, NEW cmd \in Commands, NEW c \in Containers, NEW o \in Outcomes,
         Docker(cmd, c, o), Exit0(o)
  PROVE  c \in shaky' \/ ctr'[c] = After(cmd)
BY DEF Docker, Exit0, TypeOK

LEMMA MatchEffect ==
  ASSUME TypeOK, NEW c \in Containers, NEW sure, NEW possible,
         NEW answer \in {"yes", "no", "error"}, Match(c, sure, possible, answer)
  PROVE  /\ UNCHANGED ctr
         /\ shaky' \in {shaky, shaky \cup {c}}
         /\ answer = "no" => c \in shaky' \/ ctr[c] \notin sure
BY DEF Match, Matching

(* A container that is as asked stays so unless it is brought into being:  *)
(* what else happens to it is not the doing of the call.                   *)
LEMMA AchievedKept ==
  ASSUME TypeOK, NEW c \in Containers, Achieved(c),
         call'.op = call.op, steady' \subseteq steady,
         ctr[c] = "absent" => ctr'[c] = "absent",
         c \in steady' => ctr'[c] = ctr[c]
  PROVE  Achieved(c)'
BY DEF Achieved, TypeOK, Calls!Ops

-----------------------------------------------------------------------------
(* Work on one service                                                     *)

(* A step of the work on c: it touches no other container, notes what it   *)
(* does, and goes on with c or leaves it as asked, noted or failed.        *)
Serves(c) ==
  /\ cur = {c} /\ UNCHANGED <<call, result, todo>>
  /\ ctr' \in [Containers -> Calls!States]
  /\ \A d \in Containers \ {c} : ctr'[d] = ctr[d]
  /\ ctr[c] = "absent" => ctr'[c] = "absent"
  /\ shaky' \in {shaky, shaky \cup {c}}
  /\ steady' \subseteq steady /\ \A d \in steady' : ctr'[d] = ctr[d]
  /\ tried' \in {tried, tried \cup {c}}
  /\ \/ pc' \in (IF call.op = "stop" THEN StopPcs ELSE {"act"}) /\ UNCHANGED <<cur, failed>>
     \/ Done /\ (c \in shaky' \/ Achieved(c)')
     \/ Failed

LEMMA OneService ==
  ASSUME TypeOK, NEW c \in cur
  PROVE  cur = {c} /\ c \in Containers /\ c \in call.cfg
BY DEF TypeOK

(* A command of a stop, with its ways on.                                  *)
LEMMA StopCommand ==
  ASSUME ManagerInv, NEW cmd \in Commands, NEW c \in cur, NEW o \in Outcomes,
         Docker(cmd, c, o), pc \in StopPcs, UNCHANGED <<call, result, todo>>, Watch,
         tried' \in {tried, tried \cup cur},
         \/ \E next \in StopPcs : Go(next)
         \/ Done /\ (c \in shaky' \/ ctr'[c] = "absent")
         \/ Failed
  PROVE  Serves(c)
<1>1. TypeOK /\ call.op = "stop" /\ call'.op = "stop"
  BY DEF ManagerInv, PhaseInv
<1>2. cur = {c} /\ c \in Containers
  BY <1>1, OneService
<1>3. /\ ctr' \in [Containers -> Calls!States]
      /\ \A d \in Containers \ {c} : ctr'[d] = ctr[d]
      /\ ctr[c] = "absent" => ctr'[c] = "absent"
      /\ shaky' \in {shaky, shaky \cup {c}}
  BY <1>1, <1>2, DockerEffect
<1>4. steady' \subseteq steady /\ \A d \in steady' : ctr'[d] = ctr[d]
  BY DEF Watch
<1>5. ctr'[c] = "absent" => Achieved(c)'
  BY <1>1 DEF Achieved
<1> QED
  BY <1>1, <1>2, <1>3, <1>4, <1>5 DEF Serves, Go

LEMMA DockerStopServes ==
  ASSUME ManagerInv, DockerStop
  PROVE  (\E c \in cur : Serves(c)) /\ TriedInv'
<1>1. PICK c \in cur, o \in Outcomes :
        /\ Step("stop") /\ Docker("stop", c, o) /\ Watch /\ tried' = tried \cup cur
        /\ Go("rm") \/ Go("kill") \/ Failed
  BY DEF DockerStop, Outcomes, Exit0
<1>2. Serves(c)
  BY <1>1, StopCommand DEF Step, Commands, StopPcs
<1>3. TriedInv'
  BY <1>1 DEF TriedInv, Go, Failed
<1> QED
  BY <1>2, <1>3

LEMMA DockerRmServes ==
  ASSUME ManagerInv, DockerRm
  PROVE  (\E c \in cur : Serves(c)) /\ TriedInv'
<1>1. PICK c \in cur, o \in Outcomes :
        /\ Step("rm") /\ Docker("rm", c, o) /\ Watch /\ UNCHANGED tried
        /\ (Exit0(o) /\ Done) \/ Go("rmForce") \/ Failed
  BY DEF DockerRm, Outcomes, Exit0
<1>2. Exit0(o) => c \in shaky' \/ ctr'[c] = "absent"
  BY <1>1, DockerExit0, OneService DEF ManagerInv, Commands, After
<1>3. Serves(c)
  BY <1>1, <1>2, StopCommand DEF Step, Commands, StopPcs
<1>4. TriedInv'
  BY <1>1 DEF ManagerInv, TriedInv, Step, Go, Done, Failed
<1> QED
  BY <1>3, <1>4

LEMMA DockerKillServes ==
  ASSUME ManagerInv, DockerKill
  PROVE  (\E c \in cur : Serves(c)) /\ TriedInv'
<1>1. PICK c \in cur, o \in Outcomes :
        /\ Step("kill") /\ Docker("kill", c, o) /\ Watch /\ UNCHANGED tried
        /\ \/ Go("rmForce") \/ Failed
           \/ o = "fail" /\ ctr[c] = "absent" /\ Done
  BY DEF DockerKill, Outcomes, Exit0
<1>2. ctr[c] = "absent" => ctr'[c] = "absent"
  BY <1>1, DockerEffect, OneService DEF ManagerInv, Commands
<1>3. Serves(c)
  BY <1>1, <1>2, StopCommand DEF Step, Commands, StopPcs
<1>4. TriedInv'
  BY <1>1 DEF ManagerInv, TriedInv, Step, Go, Done, Failed
<1> QED
  BY <1>3, <1>4

LEMMA DockerRmForceServes ==
  ASSUME ManagerInv, DockerRmForce
  PROVE  (\E c \in cur : Serves(c)) /\ TriedInv'
<1>1. PICK c \in cur, o \in Outcomes :
        /\ Step("rmForce") /\ Docker("rm -f", c, o) /\ Watch /\ UNCHANGED tried
        /\ (Exit0(o) /\ Done) \/ Failed
  BY DEF DockerRmForce
<1>2. Exit0(o) => c \in shaky' \/ ctr'[c] = "absent"
  BY <1>1, DockerExit0, OneService DEF ManagerInv, Commands, After
<1>3. Serves(c)
  BY <1>1, <1>2, StopCommand DEF Step, Commands, StopPcs
<1>4. TriedInv'
  BY <1>1 DEF ManagerInv, TriedInv, Done, Failed
<1> QED
  BY <1>3, <1>4

(* The failure of this command is only logged: what it leaves is noted.    *)
LEMMA DockerRmStoppedServes ==
  ASSUME ManagerInv, DockerRmStopped
  PROVE  (\E c \in cur : Serves(c)) /\ TriedInv'
<1>1. PICK c \in cur, o \in Outcomes :
        /\ Step("rmStopped") /\ Docker("rm -f", c, o) /\ Watch /\ UNCHANGED tried
        /\ (o # "err" /\ Done) \/ Failed
  BY DEF DockerRmStopped
<1>2. Exit0(o) => c \in shaky' \/ ctr'[c] = "absent"
  BY <1>1, DockerExit0, OneService DEF ManagerInv, Commands, After
<1>3. o = "fail" => c \in shaky' \/ ctr'[c] = "absent"
  BY <1>1 DEF Docker
<1>4. Serves(c)
  BY <1>1, <1>2, <1>3, StopCommand DEF Step, Commands, StopPcs, Outcomes, Exit0
<1>5. TriedInv'
  BY <1>1 DEF ManagerInv, TriedInv, Done, Failed
<1> QED
  BY <1>4, <1>5

(* A listing, with its ways on.                                            *)
LEMMA Listing ==
  ASSUME ManagerInv, NEW c \in cur, NEW sure, NEW possible,
         NEW answer \in {"yes", "no", "error"}, Match(c, sure, possible, answer),
         UNCHANGED <<call, result, todo>>, Watch, UNCHANGED tried,
         \/ /\ UNCHANGED <<cur, failed>>
            /\ pc' \in (IF call.op = "stop" THEN StopPcs ELSE {"act"})
         \/ Done /\ (c \in shaky' \/ Achieved(c)')
         \/ Failed
  PROVE  Serves(c)
<1>1. TypeOK
  BY DEF ManagerInv
<1>2. cur = {c} /\ c \in Containers
  BY <1>1, OneService
<1>3. UNCHANGED ctr /\ shaky' \in {shaky, shaky \cup {c}}
  BY <1>1, <1>2, MatchEffect
<1>4. steady' \subseteq steady /\ \A d \in steady' : ctr'[d] = ctr[d]
  BY DEF Watch
<1> QED
  BY <1>1, <1>2, <1>3, <1>4 DEF Serves, TypeOK

LEMMA PsServes ==
  ASSUME ManagerInv, Ps
  PROVE  (\E c \in cur : Serves(c)) /\ TriedInv'
<1>1. PICK c \in cur, answer \in {"yes", "no", "error"} :
        /\ Step("ps") /\ Match(c, {"running", "paused"}, {"crashed"}, answer)
        /\ Watch /\ UNCHANGED tried
        /\ Go("stop") \/ (answer = "no" /\ Go("psAll")) \/ Failed
  BY DEF Ps
<1>2. call.op = "stop" /\ TypeOK
  BY <1>1 DEF ManagerInv, PhaseInv, Step, StopPcs
<1>3. Serves(c)
  BY <1>1, <1>2, Listing DEF Step, Go, StopPcs
<1>4. answer = "no" => c \in shaky' \/ ctr'[c] # "running"
  BY <1>1, <1>2, MatchEffect, OneService
<1>5. TriedInv'
  BY <1>1, <1>2, <1>4, OneService DEF TriedInv, Go, Failed
<1> QED
  BY <1>3, <1>5

LEMMA PsAllServes ==
  ASSUME ManagerInv, PsAll
  PROVE  (\E c \in cur : Serves(c)) /\ TriedInv'
<1>1. PICK c \in cur, answer \in {"yes", "no", "error"} :
        /\ Step("psAll") /\ Match(c, Calls!States \ {"absent"}, {}, answer)
        /\ Watch /\ UNCHANGED tried
        /\ Go("rmStopped") \/ (answer = "no" /\ Done) \/ Failed
  BY DEF PsAll
<1>2. call.op = "stop" /\ TypeOK
  BY <1>1 DEF ManagerInv, PhaseInv, Step, StopPcs
<1>3. cur = {c} /\ c \in Containers
  BY <1>2, OneService
<1>4. UNCHANGED ctr /\ shaky \subseteq shaky'
  BY <1>1, <1>2, <1>3, MatchEffect
<1>5. answer = "no" => c \in shaky' \/ ctr'[c] = "absent"
  BY <1>1, <1>2, <1>3, MatchEffect DEF TypeOK
<1>6. answer = "no" => c \in shaky' \/ Achieved(c)'
  BY <1>1, <1>2, <1>5 DEF Achieved, Step
<1>7. Serves(c)
  BY <1>1, <1>2, <1>6, Listing DEF Step, Go, StopPcs
<1>8. steady' \subseteq steady
  BY <1>1 DEF Watch
<1>9. TriedInv'
  BY <1>1, <1>3, <1>4, <1>8 DEF ManagerInv, TriedInv, Step, Go, Failed, Done
<1> QED
  BY <1>7, <1>9

LEMMA CheckServes ==
  ASSUME ManagerInv, Check
  PROVE  (\E c \in cur : Serves(c)) /\ TriedInv'
<1>1. PICK c \in cur, answer \in {"yes", "no", "error"} :
        /\ Step("check")
        /\ Match(c, CheckStates(call.op), IF call.op = "pause" THEN {"crashed"} ELSE {}, answer)
        /\ Watch /\ UNCHANGED tried
        /\ Go("act") \/ (answer = "no" /\ Done) \/ Failed
  BY DEF Check
<1>2. call.op \in SimpleOps /\ TypeOK /\ call' = call
  BY <1>1 DEF ManagerInv, PhaseInv, Step, SimplePcs
<1>3. cur = {c} /\ c \in Containers
  BY <1>2, OneService
<1>4. UNCHANGED ctr /\ (answer = "no" => c \in shaky' \/ ctr[c] \notin CheckStates(call.op))
  BY <1>1, <1>2, <1>3, MatchEffect
<1>5. ctr[c] \notin CheckStates(call.op) => Achieved(c)'
  BY <1>2, <1>3, <1>4 DEF Achieved, CheckStates, SimpleOps, TypeOK
<1>6. Serves(c)
  BY <1>1, <1>2, <1>4, <1>5, Listing DEF Step, Go, SimpleOps
<1>7. TriedInv'
  BY <1>1 DEF TriedInv, Go, Failed, Done
<1> QED
  BY <1>6, <1>7

LEMMA ActServes ==
  ASSUME ManagerInv, Act
  PROVE  (\E c \in cur : Serves(c)) /\ TriedInv'
<1>1. PICK c \in cur, o \in Outcomes :
        /\ Step("act") /\ Docker(call.op, c, o) /\ UNCHANGED tried
        /\ IF o = "ok" THEN Done ELSE Failed
        /\ steady' = IF o = "ok" THEN steady \ cur ELSE {d \in steady : ctr'[d] = ctr[d]}
  BY DEF Act
<1>2. call.op \in SimpleOps /\ TypeOK /\ call' = call
  BY <1>1 DEF ManagerInv, PhaseInv, Step, SimplePcs
<1>3. cur = {c} /\ c \in Containers
  BY <1>2, OneService
<1>4. /\ ctr' \in [Containers -> Calls!States]
      /\ \A d \in Containers \ {c} : ctr'[d] = ctr[d]
      /\ ctr[c] = "absent" => ctr'[c] = "absent"
      /\ shaky' \in {shaky, shaky \cup {c}}
  <2>1. call.op \in Commands
    BY <1>2 DEF SimpleOps, Commands
  <2>2. Docker(call.op, c, o)
    BY <1>1
  <2> QED
    BY <1>2, <1>3, <2>1, <2>2, DockerEffect
<1>5. steady' \subseteq steady /\ \A d \in steady' : ctr'[d] = ctr[d]
  BY <1>1, <1>2, <1>3, <1>4 DEF TypeOK
<1>6. ASSUME o = "ok" PROVE Done /\ Achieved(c)'
  <2>1. Done /\ c \notin steady'
    BY <1>1, <1>3, <1>6
  <2> QED
    BY <1>2, <2>1 DEF Achieved, SimpleOps
<1>7. Serves(c)
  BY <1>1, <1>2, <1>3, <1>4, <1>5, <1>6 DEF Serves, Step
<1>8. TriedInv'
  BY <1>1 DEF TriedInv, Failed, Done
<1> QED
  BY <1>7, <1>8

ServiceStep == StopOne \/ Check \/ Act

LEMMA ServiceServes ==
  ASSUME ManagerInv, ServiceStep
  PROVE  (\E c \in cur : Serves(c)) /\ TriedInv'
BY PsServes, DockerStopServes, DockerRmServes, DockerKillServes, DockerRmForceServes,
   PsAllServes, DockerRmStoppedServes, CheckServes, ActServes
   DEF ServiceStep, StopOne

(* What such a step keeps.                                                 *)
LEMMA ServesTypes ==
  ASSUME TypeOK, NEW c \in cur, Serves(c)
  PROVE  TypeOK'
<1>1. cur = {c} /\ c \in call.cfg /\ call' = call
  BY OneService DEF Serves
<1>2. pc' \in {"next", "act"} \cup StopPcs
  BY DEF Serves, Done, Failed, StopPcs
<1>3. cur' \in {{}, {c}} /\ failed' \in {failed, failed \cup {c}}
  BY <1>1 DEF Serves, Done, Failed
<1> QED
  BY <1>1, <1>2, <1>3 DEF Serves, TypeOK, StopPcs

LEMMA ServesPhase ==
  ASSUME ManagerInv, ServiceStep, NEW c \in cur, Serves(c)
  PROVE  PhaseInv' /\ UpInv'
<1>1. pc # "idle" /\ pc' # "idle" /\ call' = call /\ result' = result /\ todo' = todo
  BY DEF Serves, Done, Failed, StopPcs, ServiceStep, StopOne, Step, Check, Act,
     Ps, DockerStop, DockerRm, DockerKill, DockerRmForce, PsAll, DockerRmStopped
<1>2. call.op = "stop" \/ call.op \in SimpleOps
  BY DEF ManagerInv, PhaseInv, ServiceStep, StopOne, Step, Check, Act, StopPcs, SimplePcs,
     Ps, DockerStop, DockerRm, DockerKill, DockerRmForce, PsAll, DockerRmStopped
<1>3. \/ pc' \in (IF call.op = "stop" THEN StopPcs ELSE {"act"})
      \/ pc' = "next" /\ cur' = {}
  BY DEF Serves, Done, Failed
<1>4. PhaseInv'
  BY <1>1, <1>2, <1>3 DEF ManagerInv, PhaseInv, StopPcs, SimplePcs, SimpleOps, ComposePcs,
     ComposeOps
<1>5. UpInv'
  BY <1>1, <1>2 DEF UpInv, SimpleOps, ComposeOps
<1> QED
  BY <1>4, <1>5

LEMMA ServesBehind ==
  ASSUME ManagerInv, pc \notin {"temp", "pull", "up"}, NEW c \in cur, Serves(c)
  PROVE  BehindInv'
<1>1. /\ TypeOK /\ c \in Containers /\ cur = {c}
      /\ call' = call /\ todo' = todo /\ shaky \subseteq shaky'
  BY OneService DEF ManagerInv, Serves
<1>2. ASSUME NEW d \in call.cfg \ (todo \cup cur \cup failed \cup shaky)
      PROVE  Achieved(d)'
  <2>1. Achieved(d) /\ d \in Containers
    BY <1>1, <1>2 DEF ManagerInv, BehindInv, TypeOK
  <2> QED
    BY <1>1, <2>1, AchievedKept DEF Serves
<1>3. ASSUME NEW d \in (call.cfg \ (todo \cup cur \cup failed \cup shaky))'
      PROVE  Achieved(d)'
  <2>1. CASE d # c
    BY <1>1, <1>2, <1>3, <2>1 DEF Serves, Done, Failed
  <2>2. CASE d = c
    BY <1>1, <1>3, <2>2 DEF Serves, Done, Failed
  <2> QED
    BY <2>1, <2>2
<1> QED
  BY <1>3 DEF BehindInv

LEMMA ServiceKeeps ==
  ASSUME ManagerInv, ServiceStep
  PROVE  ManagerInv'
<1>1. PICK c \in cur : Serves(c)
  BY ServiceServes
<1>2. pc \notin {"temp", "pull", "up"}
  BY DEF ServiceStep, StopOne, Step, Check, Act, Ps, DockerStop, DockerRm, DockerKill,
     DockerRmForce, PsAll, DockerRmStopped
<1> QED
  BY <1>1, <1>2, ServesTypes, ServesPhase, ServesBehind, ServiceServes DEF ManagerInv

-----------------------------------------------------------------------------
(* The other steps of a call                                               *)

LEMMA BeginKeeps ==
  ASSUME ManagerInv, NEW op \in Calls!Ops, NEW cfg \in SUBSET Containers, Begin(op, cfg)
  PROVE  ManagerInv'
<1>1. /\ call' = [op |-> op, cfg |-> cfg, up |-> FALSE] /\ result' = "none"
      /\ UNCHANGED ctr /\ shaky' = {} /\ cur' = {} /\ failed' = {} /\ tried' = {}
      /\ steady' = Containers
      /\ pc' = IF op \in ComposeOps /\ cfg # {} THEN "temp" ELSE "next"
      /\ todo' = IF op \in ComposeOps THEN {} ELSE cfg
  BY DEF Begin, Calls!Begin, ComposeOps
<1>2. TypeOK'
  BY <1>1 DEF ManagerInv, TypeOK
<1>3. PhaseInv'
  BY <1>1 DEF PhaseInv, StopPcs, SimplePcs, ComposePcs, ComposeOps
<1>4. UpInv' /\ BehindInv' /\ TriedInv'
  BY <1>1 DEF UpInv, BehindInv, TriedInv, ComposeOps
<1> QED
  BY <1>2, <1>3, <1>4 DEF ManagerInv

LEMMA NextServiceKeeps ==
  ASSUME ManagerInv, NextService
  PROVE  ManagerInv'
<1>1. PICK c \in todo : cur' = {c} /\ todo' = todo \ {c}
  BY DEF NextService
<1>2. /\ UNCHANGED <<ctr, call, result, failed, steady, tried, shaky>> /\ pc = "next"
      /\ pc' = IF call.op = "stop" THEN "ps" ELSE "check"
  BY DEF NextService
<1>3. call.op \in Calls!Ops /\ call.op \notin ComposeOps
  BY <1>1, <1>2 DEF ManagerInv, TypeOK, PhaseInv
<1>4. cur = {} /\ c \in call.cfg
  BY <1>1, <1>2 DEF ManagerInv, TypeOK, PhaseInv, StopPcs, SimplePcs
<1>5. TypeOK'
  BY <1>1, <1>2, <1>4 DEF ManagerInv, TypeOK
<1>6. PhaseInv' /\ UpInv'
  BY <1>1, <1>2, <1>3 DEF ManagerInv, PhaseInv, UpInv, StopPcs, SimplePcs, ComposePcs,
     ComposeOps, SimpleOps, Calls!Ops
<1>7. BehindInv'
  BY <1>1, <1>2, <1>4 DEF ManagerInv, BehindInv, Achieved
<1>8. TriedInv'
  BY <1>2 DEF TriedInv
<1> QED
  BY <1>5, <1>6, <1>7, <1>8 DEF ManagerInv

LEMMA ReturnKeeps ==
  ASSUME ManagerInv, Return
  PROVE  ManagerInv'
<1>1. /\ pc = "next" /\ todo = {} /\ result' \in {"ok", "error"} /\ pc' = "idle"
      /\ UNCHANGED <<ctr, call, todo, cur, failed, steady, tried, shaky>>
  BY DEF Return, loopVars
<1>2. TypeOK' /\ PhaseInv' /\ UpInv'
  BY <1>1 DEF ManagerInv, TypeOK, PhaseInv, UpInv, StopPcs, SimplePcs, ComposePcs
<1>3. BehindInv' /\ TriedInv'
  BY <1>1 DEF ManagerInv, BehindInv, TriedInv, Achieved
<1> QED
  BY <1>2, <1>3 DEF ManagerInv

LEMMA RaisedTypes ==
  ASSUME TypeOK, ctr' \in Calls!Raised \cup Calls!HalfRaised
  PROVE  ctr' \in [Containers -> Calls!States]
BY DEF TypeOK, Calls!Raised, Calls!HalfRaised, Calls!States

LEMMA RaisedAchieves ==
  ASSUME TypeOK, call.op \in ComposeOps, call'.op = call.op, ctr' \in Calls!Raised
  PROVE  \A c \in call.cfg : Achieved(c)'
<1>1. PICK K \in SUBSET {c \in call.cfg : ctr[c] = "paused"} :
        ctr' = [c \in Containers |-> IF c \in call.cfg \ K THEN "running" ELSE ctr[c]]
  BY DEF Calls!Raised
<1>2. \A c \in call.cfg : c \in Containers /\ ctr'[c] \in {"running", "paused"}
  BY <1>1 DEF TypeOK
<1> QED
  BY <1>2 DEF Achieved, ComposeOps

LEMMA ComposeKeeps ==
  ASSUME ManagerInv, Compose
  PROVE  ManagerInv'
<1>1. /\ call.op \in ComposeOps /\ pc \in ComposePcs /\ cur = {} /\ todo = {}
      /\ result = "none" /\ TypeOK
  BY DEF Compose, CreateTemp, Pull, ComposeUp, CleanupOldImages, Step, ManagerInv, PhaseInv,
     ComposePcs, StopPcs, SimplePcs
<1>2. /\ call'.op = call.op /\ call'.cfg = call.cfg /\ result' = result /\ todo' = {}
      /\ cur' = {} /\ UNCHANGED <<tried, shaky>>
      /\ steady' \subseteq steady /\ \A d \in steady' : ctr'[d] = ctr[d]
  BY <1>1 DEF Compose, CreateTemp, Pull, ComposeUp, CleanupOldImages, Step, Go, WholeFails,
     Watch, TypeOK
<1>3. \/ pc' = "next" /\ failed' = call.cfg
      \/ failed' = failed /\ pc' \in {"pull", "up", "prune", "next"}
  BY DEF Compose, CreateTemp, Pull, ComposeUp, CleanupOldImages, Go, WholeFails
<1>4. TypeOK'
  <2>1. ctr' \in [Containers -> Calls!States]
    BY <1>1, RaisedTypes DEF Compose, CreateTemp, Pull, ComposeUp, CleanupOldImages, TypeOK,
       Calls!States
  <2>2. call' \in [op : Calls!Ops, cfg : SUBSET Containers, up : BOOLEAN]
    BY <1>1 DEF Compose, CreateTemp, Pull, ComposeUp, CleanupOldImages, TypeOK, Step
  <2> QED
    BY <1>1, <1>2, <1>3, <2>1, <2>2 DEF TypeOK
<1>5. pc' \in {"pull", "prune"} => call.op = "start"
  BY DEF Compose, CreateTemp, Pull, ComposeUp, CleanupOldImages, Go, WholeFails, Step
<1>6. PhaseInv'
  BY <1>1, <1>2, <1>3, <1>5 DEF PhaseInv, ComposePcs, StopPcs, SimplePcs, ComposeOps
<1>7. UpInv'
  <2>1. CASE CreateTemp \/ Pull
    BY <1>1, <2>1 DEF CreateTemp, Pull, Step, Go, WholeFails, ManagerInv, UpInv
  <2>2. CASE ComposeUp
    BY <1>1, <2>2 DEF ComposeUp, Go, WholeFails, ManagerInv, UpInv, TypeOK
  <2>3. CASE CleanupOldImages
    BY <1>1, <2>3 DEF CleanupOldImages, Step, Go, ManagerInv, UpInv
  <2> QED
    BY <2>1, <2>2, <2>3 DEF Compose
<1>8. BehindInv'
  <2> SUFFICES ASSUME pc' \notin {"temp", "pull", "up"}, failed' # call.cfg,
                      NEW c \in call.cfg \ (failed' \cup shaky)
               PROVE  Achieved(c)'
    BY <1>2, <1>3 DEF BehindInv
  <2>1. CASE CreateTemp \/ Pull
    BY <2>1 DEF CreateTemp, Pull, Go, WholeFails
  <2>2. CASE ComposeUp
    BY <1>1, <1>2, <2>2, RaisedAchieves DEF ComposeUp, WholeFails
  <2>3. CASE CleanupOldImages
    <3>1. Achieved(c) /\ c \in Containers
      BY <1>1, <2>3 DEF CleanupOldImages, Step, Go, ManagerInv, BehindInv, TypeOK
    <3>2. ctr[c] = "absent" => ctr'[c] = "absent"
      BY <2>3, <3>1 DEF CleanupOldImages
    <3> QED
      BY <1>1, <1>2, <3>1, <3>2, AchievedKept
  <2> QED
    BY <2>1, <2>2, <2>3 DEF Compose
<1>9. TriedInv'
  BY <1>3, <1>2 DEF TriedInv
<1> QED
  BY <1>4, <1>6, <1>7, <1>8, <1>9 DEF ManagerInv

(* The host changes a container between two commands.                      *)
LEMMA DriftKeeps ==
  ASSUME ManagerInv, NEW c \in Containers, Drift(c)
  PROVE  ManagerInv'
<1>1. /\ UNCHANGED <<pc, todo, cur, failed, tried, shaky, call, result>>
      /\ steady' \subseteq steady /\ \A d \in steady' : ctr'[d] = ctr[d]
  BY DEF Drift, Calls!Drift, loopVars, Watch
<1>2. /\ ctr' \in [Containers -> Calls!States]
      /\ \A d \in Containers : ctr[d] = "absent" => ctr'[d] = "absent"
  BY DEF Drift, Calls!Drift, ManagerInv, TypeOK, Calls!States
<1>3. TypeOK' /\ PhaseInv' /\ UpInv'
  BY <1>1, <1>2 DEF ManagerInv, TypeOK, PhaseInv, UpInv
<1>4. BehindInv'
  <2> SUFFICES ASSUME pc \notin {"temp", "pull", "up"},
                      NEW d \in call.cfg \ (todo \cup cur \cup failed \cup shaky)
               PROVE  Achieved(d)'
    BY <1>1 DEF BehindInv
  <2>1. Achieved(d) /\ d \in Containers /\ TypeOK
    BY DEF ManagerInv, BehindInv, TypeOK
  <2> QED
    BY <1>1, <1>2, <2>1, AchievedKept
<1>5. TriedInv'
  BY <1>1 DEF ManagerInv, TriedInv
<1> QED
  BY <1>3, <1>4, <1>5 DEF ManagerInv

LEMMA StutterKeeps ==
  ASSUME ManagerInv, UNCHANGED vars
  PROVE  ManagerInv'
<1> USE DEF vars, loopVars, ManagerInv
<1>1. TypeOK' /\ PhaseInv' /\ UpInv' /\ TriedInv'
  BY DEF TypeOK, PhaseInv, UpInv, TriedInv
<1>2. BehindInv'
  BY DEF BehindInv, Achieved
<1> QED
  BY <1>1, <1>2

LEMMA ManagerInit == Init => ManagerInv
BY DEF Init, Calls!Init, ManagerInv, TypeOK, PhaseInv, UpInv, BehindInv, TriedInv, StopPcs,
   SimplePcs, ComposePcs, ComposeOps, Calls!Ops, Calls!States

LEMMA ManagerNext == ManagerInv /\ [Next]_vars => ManagerInv'
BY BeginKeeps, NextServiceKeeps, ReturnKeeps, ServiceKeeps, ComposeKeeps, DriftKeeps,
   StutterKeeps DEF Next, Working, ServiceStep

(* The inductive invariant: the command about to be run belongs to the     *)
(* call, and what is behind it is as asked, failed, or noted.              *)
THEOREM ManagerSafe == Spec => []ManagerInv
<1> QED
  BY ManagerInit, ManagerNext, PTL DEF Spec

(* Every reachable state of the Docker manager is well typed.              *)
THEOREM ManagerTypes == Spec => []TypeOK
<1>1. ManagerInv => TypeOK
  BY DEF ManagerInv
<1> QED
  BY <1>1, ManagerSafe, PTL

(* Every service that a call does not report as failed is as the call      *)
(* asked, whatever failed on the others and whatever the host did, unless  *)
(* a command on it reported a success it did not have.                     *)
THEOREM UnfailedIsDone == Spec => []NotFailedMeansAchieved
<1>1. ManagerInv => NotFailedMeansAchieved
  BY DEF ManagerInv, PhaseInv, BehindInv, NotFailedMeansAchieved, StopPcs, SimplePcs
<1> QED
  BY <1>1, ManagerSafe, PTL

-----------------------------------------------------------------------------
(* Grace before force                                                      *)

Graceful ==
  \A c \in steady :
    call.op = "stop" /\ ctr[c] = "running" /\ ctr'[c] \in {"exited", "absent"}
      => c \in tried' \cup shaky

(* A command on d ends another container's run in no way.                  *)
LEMMA OnlyItsOwn ==
  ASSUME TypeOK, NEW cmd \in Commands, NEW d \in cur, NEW o \in Outcomes, Docker(cmd, d, o),
         NEW c \in steady, ctr[c] = "running", ctr'[c] \in {"exited", "absent"}
  PROVE  c = d /\ "running" \in Accepts(cmd)
<1>1. c \in Containers /\ d \in Containers
  BY OneService DEF TypeOK
<1> QED
  BY <1>1, DockerEffect

LEMMA ServiceGraceful ==
  ASSUME ManagerInv, ServiceStep
  PROVE  Graceful
<1> SUFFICES ASSUME NEW c \in steady, call.op = "stop", ctr[c] = "running",
                    ctr'[c] \in {"exited", "absent"}
             PROVE  c \in tried' \cup shaky
  BY DEF Graceful
<1> USE DEF Commands
<1>1. TypeOK /\ TriedInv
  BY DEF ManagerInv
<1>2. CASE Ps \/ PsAll
  <2>1. UNCHANGED ctr
    BY <1>2 DEF Ps, PsAll, Match
  <2> QED
    BY <2>1
<1>3. CASE DockerStop
  BY <1>1, <1>3, OnlyItsOwn DEF DockerStop
<1>4. CASE DockerRm
  BY <1>1, <1>4, OnlyItsOwn DEF DockerRm, Accepts
<1>5. ASSUME NEW cmd \in {"kill", "rm -f"}, NEW d \in cur, NEW o \in Outcomes,
             Docker(cmd, d, o), pc \in {"kill", "rmForce", "rmStopped"}, UNCHANGED tried
      PROVE  c \in tried' \cup shaky
  <2>1. cmd \in Commands
    BY <1>5
  <2>2. c = d
    BY <1>1, <1>5, <2>1, OnlyItsOwn
  <2> QED
    BY <1>1, <1>5, <2>2 DEF TriedInv
<1>6. CASE DockerKill
  <2>1. PICK d \in cur, o \in Outcomes : Docker("kill", d, o)
    BY <1>6 DEF DockerKill
  <2> QED
    BY <1>5, <1>6, <2>1 DEF DockerKill, Step
<1>7. CASE DockerRmForce \/ DockerRmStopped
  <2>1. PICK d \in cur, o \in Outcomes : Docker("rm -f", d, o)
    BY <1>7 DEF DockerRmForce, DockerRmStopped
  <2> QED
    BY <1>5, <1>7, <2>1 DEF DockerRmForce, DockerRmStopped, Step
<1>8. CASE Check \/ Act
  BY <1>8 DEF ManagerInv, PhaseInv, Check, Act, Step, SimplePcs, SimpleOps
<1> QED
  BY <1>2, <1>3, <1>4, <1>5, <1>6, <1>7, <1>8 DEF ServiceStep, StopOne

LEMMA GracefulStep == ManagerInv /\ [Next]_vars => [Graceful]_vars
<1> SUFFICES ASSUME ManagerInv, Next PROVE Graceful
  OBVIOUS
<1>1. CASE ServiceStep
  BY <1>1, ServiceGraceful
<1>2. CASE Compose
  BY <1>2 DEF Compose, CreateTemp, Pull, ComposeUp, CleanupOldImages, Step, ManagerInv,
     PhaseInv, ComposePcs, ComposeOps, Graceful
<1>3. CASE NextService \/ Return \/ \E op \in Calls!Ops, cfg \in SUBSET Containers : Begin(op, cfg)
  <2>1. UNCHANGED ctr
    BY <1>3 DEF NextService, Return, Begin, Calls!Begin
  <2> QED
    BY <2>1 DEF Graceful
<1>4. ASSUME NEW c \in Containers, Drift(c) PROVE Graceful
  BY <1>4 DEF Drift, Calls!Drift, Graceful, ManagerInv, TypeOK
<1> QED
  BY <1>1, <1>2, <1>3, <1>4 DEF Next, Working, ServiceStep

(* A container that has been running since a stop began is not killed or   *)
(* removed before docker stop was tried on it, unless the listing of the   *)
(* running ones failed.                                                    *)
THEOREM GraceBeforeForce == Spec => GracefulFirst
<1> QED
  BY GracefulStep, ManagerSafe, PTL DEF Spec, GracefulFirst, Graceful

-----------------------------------------------------------------------------
(* The manager does what ServiceCalls promises                             *)

(* What a command makes of a container is what the call may make of it.    *)
LEMMA DockerBecomes ==
  ASSUME TypeOK, NEW cmd \in Commands, NEW c \in Containers, NEW o \in Outcomes,
         Docker(cmd, c, o), ctr' # ctr,
         \/ call.op = "stop" /\ cmd \in {"stop", "rm", "kill", "rm -f"}
         \/ call.op \in SimpleOps /\ cmd = call.op
  PROVE  /\ \E st \in Calls!Becomes(call.op, ctr[c]) : ctr' = [ctr EXCEPT ![c] = st]
         /\ UNCHANGED shaky
<1>1. ctr[c] \in Accepts(cmd) /\ ctr' = [ctr EXCEPT ![c] = After(cmd)] /\ UNCHANGED shaky
  BY DEF Docker
<1>2. ctr[c] # "absent"
  <2>1. ASSUME ctr[c] = "absent" PROVE FALSE
    <3>1. After(cmd) = "absent"
      BY <1>1, <2>1, AfterTypes
    <3> QED
      BY <1>1, <2>1, <3>1 DEF TypeOK
  <2> QED
    BY <2>1
<1>3. After(cmd) \in Calls!Becomes(call.op, ctr[c])
  BY <1>1, <1>2 DEF Calls!Becomes, After, Accepts, SimpleOps
<1> QED
  BY <1>1, <1>3

(* What the work on a service is to those who only see the call.           *)
LEMMA ServiceWorks ==
  ASSUME ManagerInv, ServiceStep
  PROVE  \E c \in cur :
           \/ /\ \E st \in Calls!Becomes(call.op, ctr[c]) : ctr' = [ctr EXCEPT ![c] = st]
              /\ UNCHANGED shaky
           \/ UNCHANGED ctr
<1>1. TypeOK /\ PhaseInv /\ cur \subseteq Containers
  BY OneService DEF ManagerInv
<1>2. CASE Ps \/ PsAll \/ Check
  BY <1>2 DEF Ps, PsAll, Check, Match
<1>3. CASE DockerStop \/ DockerRm \/ DockerKill \/ DockerRmForce \/ DockerRmStopped
  <2>1. call.op = "stop"
    BY <1>1, <1>3 DEF PhaseInv, StopPcs, Step, DockerStop, DockerRm, DockerKill,
       DockerRmForce, DockerRmStopped
  <2>2. PICK c \in cur, o \in Outcomes, cmd \in {"stop", "rm", "kill", "rm -f"} :
          Docker(cmd, c, o)
    BY <1>3 DEF DockerStop, DockerRm, DockerKill, DockerRmForce, DockerRmStopped
  <2>3. c \in Containers /\ cmd \in Commands
    BY <1>1, <2>2 DEF Commands
  <2> QED
    BY <1>1, <2>1, <2>2, <2>3, DockerBecomes
<1>4. CASE Act
  <2>1. PICK c \in cur, o \in Outcomes : Docker(call.op, c, o)
    BY <1>4 DEF Act
  <2>2. call.op \in SimpleOps /\ call.op \in Commands
    BY <1>1, <1>4 DEF Act, Step, PhaseInv, SimplePcs, SimpleOps, Commands
  <2>3. c \in Containers
    BY <1>1, <2>1
  <2> QED
    BY <1>1, <2>1, <2>2, <2>3, DockerBecomes
<1> QED
  BY <1>2, <1>3, <1>4 DEF ServiceStep, StopOne

LEMMA ServiceContract ==
  ASSUME ManagerInv, ServiceStep
  PROVE  [Calls!Next]_(Calls!vars)
<1>1. UNCHANGED <<call, result>> /\ shaky \subseteq shaky'
  BY ServiceServes DEF Serves
<1>2. result = "none" /\ cur \subseteq call.cfg /\ cur \subseteq Containers
  BY OneService DEF ManagerInv, PhaseInv, ServiceStep, StopOne, Step, Check, Act,
     Ps, DockerStop, DockerRm, DockerKill, DockerRmForce, PsAll, DockerRmStopped
<1>3. PICK c \in cur :
        \/ /\ \E st \in Calls!Becomes(call.op, ctr[c]) : ctr' = [ctr EXCEPT ![c] = st]
           /\ UNCHANGED shaky
        \/ UNCHANGED ctr
  BY ServiceWorks
<1>4. CASE /\ \E st \in Calls!Becomes(call.op, ctr[c]) : ctr' = [ctr EXCEPT ![c] = st]
           /\ UNCHANGED shaky
  <2>1. Calls!Work(c)
    BY <1>1, <1>2, <1>4 DEF Calls!Work, Calls!Idle
  <2> QED
    BY <1>2, <2>1 DEF Calls!Next
<1>5. CASE UNCHANGED ctr /\ (shaky' = shaky \/ call.op # "stop")
  BY <1>1, <1>5 DEF Calls!vars
<1>6. CASE UNCHANGED ctr /\ shaky' # shaky /\ call.op = "stop"
  <2>1. Calls!Slip
    BY <1>1, <1>2, <1>6 DEF Calls!Slip, Calls!Idle
  <2> QED
    BY <2>1 DEF Calls!Next
<1> QED
  BY <1>3, <1>4, <1>5, <1>6

LEMMA ComposeContract ==
  ASSUME ManagerInv, Compose
  PROVE  [Calls!Next]_(Calls!vars)
<1>1. /\ call.op \in ComposeOps /\ result = "none" /\ UNCHANGED <<result, shaky>>
      /\ call'.op = call.op
  BY DEF Compose, CreateTemp, Pull, ComposeUp, CleanupOldImages, Step, ManagerInv, PhaseInv,
     ComposePcs, TypeOK
<1>2. CASE CreateTemp \/ Pull
  BY <1>2 DEF CreateTemp, Pull, Step, Calls!vars
<1>3. CASE ComposeUp
  <2>1. Calls!Up
    BY <1>1, <1>3 DEF ComposeUp, Calls!Up, Calls!Idle, ManagerInv, UpInv, ComposeOps
  <2> QED
    BY <2>1 DEF Calls!Next
<1>4. CASE CleanupOldImages /\ UNCHANGED ctr
  BY <1>4 DEF CleanupOldImages, Step, Calls!vars
<1>5. CASE CleanupOldImages /\ ctr' # ctr
  <2>1. Calls!Prune
    BY <1>1, <1>5 DEF CleanupOldImages, Step, Calls!Prune, Calls!Idle, ManagerInv, PhaseInv, UpInv
  <2> QED
    BY <2>1 DEF Calls!Next
<1> QED
  BY <1>2, <1>3, <1>4, <1>5 DEF Compose

LEMMA ReturnContract ==
  ASSUME ManagerInv, Return
  PROVE  Calls!Next
<1>1. /\ pc = "next" /\ todo = {} /\ result' = (IF failed = {} THEN "ok" ELSE "error")
      /\ UNCHANGED <<ctr, call, cur, failed, shaky>>
  BY DEF Return, loopVars
<1>2. result = "none" /\ cur = {} /\ TypeOK
  BY <1>1 DEF ManagerInv, PhaseInv, StopPcs, SimplePcs
<1>3. failed = {} /\ call.op \in ComposeOps => call.up \/ call.cfg = {}
  BY <1>1 DEF ManagerInv, UpInv
<1>4. failed = {} /\ call.op = "stop" /\ shaky = {} => \A c \in call.cfg : ctr[c] = "absent"
  BY <1>1, <1>2 DEF ManagerInv, BehindInv, Achieved
<1>5. Calls!Return(result')
  BY <1>1, <1>2, <1>3, <1>4 DEF Calls!Return, Calls!Idle, ComposeOps
<1> QED
  BY <1>1, <1>5 DEF Calls!Next

LEMMA ContractStep == ManagerInv /\ [Next]_vars => [Calls!Next]_(Calls!vars)
<1> SUFFICES ASSUME ManagerInv, [Next]_vars PROVE [Calls!Next]_(Calls!vars)
  OBVIOUS
<1>1. ASSUME NEW op \in Calls!Ops, NEW cfg \in SUBSET Containers, Begin(op, cfg)
      PROVE  Calls!Next
  BY <1>1 DEF Begin, Calls!Next
<1>2. CASE NextService
  BY <1>2 DEF NextService, Calls!vars
<1>3. CASE Return
  BY <1>3, ReturnContract
<1>4. CASE ServiceStep
  BY <1>4, ServiceContract
<1>5. CASE Compose
  BY <1>5, ComposeContract
<1>6. ASSUME NEW c \in Containers, Drift(c) PROVE Calls!Next
  BY <1>6 DEF Drift, Calls!Next
<1>7. CASE UNCHANGED vars
  BY <1>7 DEF vars, Calls!vars
<1> QED
  BY <1>1, <1>2, <1>3, <1>4, <1>5, <1>6, <1>7 DEF Next, Working, ServiceStep

(* Each method, command by command, is a call as ServiceCalls describes    *)
(* it: it changes the containers of its configuration only, in the ways of *)
(* its kind, and a nil error says what it is taken to say.                 *)
THEOREM ImplementsServiceCalls == Spec => CallContract
<1>1. Init => Calls!Init
  BY DEF Init
<1> QED
  BY <1>1, ContractStep, ManagerSafe, PTL DEF Spec, CallContract, Calls!Spec
=============================================================================
