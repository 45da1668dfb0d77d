--------------------------- MODULE DockerManager ---------------------------
(***************************************************************************)
(* The DockerManager of internal/ota/docker.go: each method runs a         *)
(* sequence of docker or docker-compose commands, one per service of a     *)
(* compose configuration, and decides by their exit codes and output.      *)
(*                                                                         *)
(* A configuration is the set of its container names.  A command is one    *)
(* step: it meets the container in the state it is in by then, which       *)
(* another container's fate, a restart policy or an operator may have      *)
(* changed since the command before (ServiceCalls!Drift).  Methods of one  *)
(* DockerManager never overlap: the WebSocket client runs handlers one at  *)
(* a time (WsClient!HandlersSerial).                                       *)
(***************************************************************************)
EXTENDS FiniteSets

CONSTANTS
  Containers,   (* names of the containers of the host                     *)
  Similar,      (* pairs <<c, d>>: the name of c occurs in the name of d   *)
  Faults        (* what a command may do of itself: "fail", "timeout", or  *)
                (* "err" (it cannot be run at all)                         *)

ASSUME DockerAssumption ==
  /\ Similar \subseteq Containers \X Containers
  /\ Faults \subseteq {"fail", "timeout", "err"}

VARIABLES
  ctr,          (* ctr[c]: state of container c                            *)
  call,         (* the latest call                                         *)
  result,       (* "none" while it runs, then "ok" (nil) or "error"        *)
  pc,           (* the command about to be run                             *)
  todo,         (* services the loop has not reached                       *)
  cur,          (* set with the service being worked on, or {}             *)
  failed,       (* services collected in failed                            *)
  steady,       (* history: containers in one state since the call began,  *)
                (* and not restarted by it                                 *)
  tried,        (* history: docker stop was attempted on them in this call *)
  shaky         (* history: containers on which a command of this call did *)
                (* not do what its exit code says                          *)

loopVars == <<todo, cur, failed>>
vars == <<ctr, call, result, pc, loopVars, steady, tried, shaky>>

Calls == INSTANCE ServiceCalls WITH clean <- call.op = "stop" => shaky = {}

Init ==
  /\ shaky = {}
  /\ Calls!Init
  /\ pc = "idle"
  /\ todo = {} /\ cur = {} /\ failed = {}
  /\ steady = Containers
  /\ tried = {}

(* Every change of a container is noticed by the history.                  *)
Watch == steady' = {c \in steady : ctr'[c] = ctr[c]}

(***************************************************************************)
(* runCommand: "ok" is exit code 0, "fail" another code, "timeout" a       *)
(* command killed at its deadline (res.code stays 0), "err" an error.      *)
(***************************************************************************)
Exit0(o) == o \in {"ok", "timeout"}
Outcomes == {"ok", "fail", "timeout", "err"}

(* What docker does with a container: the states a command accepts and the *)
(* state it leads to.                                                      *)
Accepts(cmd) ==
  CASE cmd \in {"stop", "restart"} -> Calls!States \ {"absent"}
    [] cmd = "kill"                -> {"running", "paused"}
    [] cmd = "rm"                  -> {"exited", "crashed"}
    [] cmd = "rm -f"               -> Calls!States
    [] cmd = "pause"               -> {"running"}
    [] cmd = "unpause"             -> {"paused"}

After(cmd) ==
  CASE cmd \in {"stop", "kill"}       -> "exited"
    [] cmd \in {"rm", "rm -f"}        -> "absent"
    [] cmd = "pause"                  -> "paused"
    [] cmd \in {"unpause", "restart"} -> "running"

(* docker cmd c ends with o.  A rm -f of a missing container may count as  *)
(* a success or not, and a command killed at its deadline may have done    *)
(* its work.                                                               *)
Docker(cmd, c, o) ==
  LET done == ctr[c] \in Accepts(cmd) /\ ctr' = [ctr EXCEPT ![c] = After(cmd)]
      without(real) == UNCHANGED ctr /\ shaky' = IF real THEN shaky \cup {c} ELSE shaky
  IN
  \/ o = "ok" /\ done /\ UNCHANGED shaky
  \/ /\ o = "fail"
     /\ "fail" \in Faults \/ ctr[c] = "absent" \/ ctr[c] \notin Accepts(cmd)
     /\ without(cmd = "rm -f" /\ ctr[c] # "absent")
  \/ o = "timeout" /\ o \in Faults /\ without(TRUE)
  \/ o = "timeout" /\ o \in Faults /\ done /\ UNCHANGED shaky
  \/ o = "err" /\ o \in Faults /\ without(FALSE)

(* docker ps --filter name=c: the filter is a substring match.             *)
Matching(c) == {c} \cup {d \in Containers : <<c, d>> \in Similar}

(* containerMatch: the command lists the containers in a sure state and    *)
(* may list those in a possible one; a non-zero exit code is no match.     *)
Match(c, sure, possible, answer) ==
  LET missed == answer = "no" /\ \E d \in Matching(c) : ctr[d] \in sure IN
  /\ \/ answer = "yes" /\ \E d \in Matching(c) : ctr[d] \in sure \cup possible
     \/ answer = "no" /\ ("fail" \in Faults \/ ~missed)
     \/ answer = "error" /\ Faults \cap {"timeout", "err"} # {}
  /\ shaky' = IF missed THEN shaky \cup {c} ELSE shaky
  /\ UNCHANGED ctr

(***************************************************************************)
(* The loops over the services                                             *)
(***************************************************************************)
Begin(op, cfg) ==
  /\ shaky' = {}
  /\ Calls!Begin(op, cfg)
  /\ pc' = IF op \in {"start", "recreate"} /\ cfg # {} THEN "temp" ELSE "next"
  /\ todo' = IF op \in {"start", "recreate"} THEN {} ELSE cfg
  /\ cur' = {} /\ failed' = {}
  /\ steady' = Containers
  /\ tried' = {}

(* Seeded fault: a service is done twice.                                  *)
NextService_Repeats ==
  /\ pc = "next"
  /\ \E c \in todo : cur' = {c}
  /\ pc' = IF call.op = "stop" THEN "ps" ELSE "check"
  /\ UNCHANGED <<ctr, call, result, todo, failed, steady, tried, shaky>>

NextService ==
  /\ pc = "next"
  /\ \E c \in todo : cur' = {c} /\ todo' = todo \ {c}
  /\ pc' = IF call.op = "stop" THEN "ps" ELSE "check"
  /\ UNCHANGED <<ctr, call, result, failed, steady, tried, shaky>>

(* The loop is over (or never ran): nil unless something failed.           *)
Return ==
  /\ pc = "next"
  /\ todo = {}
  /\ result' = IF failed = {} THEN "ok" ELSE "error"
  /\ pc' = "idle"
  /\ UNCHANGED <<ctr, call, loopVars, steady, tried, shaky>>

(* How the work on a service goes on: with another command, to the next    *)
(* service, or to the next service with this one failed.                   *)
Go(next) == pc' = next /\ UNCHANGED <<cur, failed>>
Done == pc' = "next" /\ cur' = {} /\ UNCHANGED failed
Failed == pc' = "next" /\ cur' = {} /\ failed' = failed \cup cur

Step(at) == pc = at /\ UNCHANGED <<call, result, todo>>

(***************************************************************************)
(* stopOne                                                                 *)
(***************************************************************************)
(* Seeded fault: running containers are killed straight away.              *)
Ps_Kills == \E c \in cur, answer \in {"yes", "no", "error"} :
  /\ Step("ps")
  /\ Match(c, {"running", "paused"}, {"crashed"}, answer)
  /\ CASE answer = "yes"   -> Go("kill")
       [] answer = "no"    -> Go("psAll")
       [] answer = "error" -> Failed
  /\ Watch /\ UNCHANGED tried

Ps == \E c \in cur, answer \in {"yes", "no", "error"} :
  /\ Step("ps")
  /\ Match(c, {"running", "paused"}, {"crashed"}, answer)
  /\ CASE answer = "yes"   -> Go("stop")
       [] answer = "no"    -> Go("psAll")
       [] answer = "error" -> Failed
  /\ Watch /\ UNCHANGED tried

DockerStop == \E c \in cur, o \in Outcomes :
  /\ Step("stop")
  /\ Docker("stop", c, o)
  /\ CASE Exit0(o)   -> Go("rm")
       [] o = "fail" -> Go("kill")
       [] o = "err"  -> Failed
  /\ tried' = tried \cup cur
  /\ Watch

(* Seeded fault: a failed rm starts over with docker stop.                 *)
DockerRm_StartsOver == \E c \in cur, o \in Outcomes :
  /\ Step("rm")
  /\ Docker("rm", c, o)
  /\ CASE Exit0(o)   -> Done
       [] o = "fail" -> Go("stop")
       [] o = "err"  -> Failed
  /\ Watch /\ UNCHANGED tried

DockerRm == \E c \in cur, o \in Outcomes :
  /\ Step("rm")
  /\ Docker("rm", c, o)
  /\ CASE Exit0(o)   -> Done
       [] o = "fail" -> Go("rmForce")
       [] o = "err"  -> Failed
  /\ Watch /\ UNCHANGED tried

(* Seeded fault: every failed kill is taken for a missing container.       *)
DockerKill_Trusts == \E c \in cur, o \in Outcomes :
  /\ Step("kill")
  /\ Docker("kill", c, o)
  /\ CASE Exit0(o)   -> Go("rmForce")
       [] o = "fail" -> Done
       [] o = "err"  -> Failed
  /\ Watch /\ UNCHANGED tried

(* A kill that fails because the container is gone counts as stopped.      *)
DockerKill == \E c \in cur, o \in Outcomes :
  /\ Step("kill")
  /\ Docker("kill", c, o)
  /\ CASE Exit0(o)   -> Go("rmForce")
       [] o = "fail" -> \/ ctr[c] = "absent" /\ Done
                        \/ (ctr[c] # "absent" \/ "fail" \in Faults) /\ Failed
       [] o = "err"  -> Failed
  /\ Watch /\ UNCHANGED tried

(* rm -f after a failed rm and after a kill: an error is an error.         *)
DockerRmForce == \E c \in cur, o \in Outcomes :
  /\ Step("rmForce")
  /\ Docker("rm -f", c, o)
  /\ IF Exit0(o) THEN Done ELSE Failed
  /\ Watch /\ UNCHANGED tried

PsAll == \E c \in cur, answer \in {"yes", "no", "error"} :
  /\ Step("psAll")
  /\ Match(c, Calls!States \ {"absent"}, {}, answer)
  /\ CASE answer = "yes"   -> Go("rmStopped")
       [] answer = "no"    -> Done
       [] answer = "error" -> Failed
  /\ Watch /\ UNCHANGED tried

(* rm -f of a container that was not running: a failure is only logged.    *)
DockerRmStopped == \E c \in cur, o \in Outcomes :
  /\ Step("rmStopped")
  /\ Docker("rm -f", c, o)
  /\ IF o = "err" THEN Failed ELSE Done
  /\ Watch /\ UNCHANGED tried

StopOne ==
  \/ Ps \/ DockerStop \/ DockerRm \/ DockerKill \/ DockerRmForce
  \/ PsAll \/ DockerRmStopped

(***************************************************************************)
(* simpleServiceOp: pause, unpause, restart                                *)
(***************************************************************************)
CheckStates(op) ==
  CASE op = "pause"   -> {"running", "paused"}
    [] op = "unpause" -> {"paused"}
    [] op = "restart" -> Calls!States \ {"absent"}

Check == \E c \in cur, answer \in {"yes", "no", "error"} :
  /\ Step("check")
  /\ Match(c, CheckStates(call.op),
           IF call.op = "pause" THEN {"crashed"} ELSE {}, answer)
  /\ CASE answer = "yes"   -> Go("act")
       [] answer = "no"    -> Done
       [] answer = "error" -> Failed
  /\ Watch /\ UNCHANGED tried

Act == \E c \in cur, o \in Outcomes :
  /\ Step("act")
  /\ Docker(call.op, c, o)
  /\ IF o = "ok" THEN Done ELSE Failed
  /\ steady' = IF o = "ok" THEN steady \ cur ELSE {d \in steady : ctr'[d] = ctr[d]}
  /\ UNCHANGED tried

(***************************************************************************)
(* StartDockerServices and RecreateDockerServices: the configuration goes  *)
(* to docker-compose as a whole, and so does a failure.  The registry and  *)
(* the disk may fail whatever docker does.                                 *)
(***************************************************************************)
WholeFails == pc' = "next" /\ failed' = call.cfg /\ UNCHANGED cur

CreateTemp ==
  /\ Step("temp")
  /\ \/ Go(IF call.op = "start" THEN "pull" ELSE "up")
     \/ WholeFails
  /\ UNCHANGED <<ctr, steady, tried, shaky>>

Pull ==
  /\ Step("pull")
  /\ Go("up") \/ WholeFails
  /\ UNCHANGED <<ctr, steady, tried, shaky>>

(* Seeded fault: the exit code of docker-compose up is not looked at.      *)
ComposeUp_IgnoresCode ==
  /\ pc = "up"
  /\ \/ /\ ctr' \in Calls!Raised
        /\ call' = [call EXCEPT !.up = TRUE]
     \/ /\ ctr' \in Calls!HalfRaised
        /\ UNCHANGED call
  /\ Go(IF call.op = "start" THEN "prune" ELSE "next")
  /\ Watch
  /\ UNCHANGED <<result, todo, tried, shaky>>

ComposeUp ==
  /\ pc = "up"
  /\ \/ /\ ctr' \in Calls!Raised
        /\ call' = [call EXCEPT !.up = TRUE]
        /\ Go(IF call.op = "start" THEN "prune" ELSE "next")
     \/ /\ ctr' \in Calls!HalfRaised
        /\ UNCHANGED call
        /\ WholeFails
  /\ Watch
  /\ UNCHANGED <<result, todo, tried, shaky>>

(* cleanupOldImages: three prunes, whose failures are only logged.  Two of *)
(* them remove the stopped containers of the whole host.                   *)
CleanupOldImages ==
  /\ Step("prune")
  /\ \/ UNCHANGED ctr
     \/ ctr' = [c \in Containers |->
                  IF ctr[c] \in {"exited", "crashed"} THEN "absent" ELSE ctr[c]]
  /\ Go("next")
  /\ Watch /\ UNCHANGED <<tried, shaky>>

Compose == CreateTemp \/ Pull \/ ComposeUp \/ CleanupOldImages

(***************************************************************************)
(* The specification                                                       *)
(***************************************************************************)
Drift(c) ==
  /\ UNCHANGED <<pc, loopVars, tried, shaky>>
  /\ Calls!Drift(c)
  /\ Watch

Working == NextService \/ Return \/ StopOne \/ Check \/ Act \/ Compose

Next ==
  \/ \E op \in Calls!Ops, cfg \in SUBSET Containers : Begin(op, cfg)
  \/ Working
  \/ \E c \in Containers : Drift(c)

Spec == Init /\ [][Next]_vars

(* Every command ends, by itself or at its deadline.                       *)
FairSpec == Spec /\ WF_vars(Working)

(***************************************************************************)
(* Properties                                                              *)
(***************************************************************************)
TypeOK ==
  /\ ctr \in [Containers -> Calls!States]
  /\ call \in [op : Calls!Ops, cfg : SUBSET Containers, up : BOOLEAN]
  /\ result \in {"none", "ok", "error"}
  /\ pc \in {"idle", "next", "ps", "stop", "rm", "kill", "rmForce", "psAll",
             "rmStopped", "check", "act", "temp", "pull", "up", "prune"}
  /\ todo \subseteq call.cfg /\ cur \subseteq call.cfg \ todo
  /\ failed \subseteq call.cfg
  /\ \A c, d \in cur : c = d
  /\ steady \subseteq Containers
  /\ tried \subseteq call.cfg /\ shaky \subseteq call.cfg

(* The calls mean what ServiceCalls says.                                  *)
CallContract == Calls!Spec

(* What a method is called for, as far as it shows in a container that may *)
(* at any time end by itself or be brought back.                           *)
Achieved(c) ==
  CASE call.op = "stop"    -> ctr[c] = "absent"
    [] call.op = "pause"   -> ~(ctr[c] = "running" /\ c \in steady)
    [] call.op = "unpause" -> ~(ctr[c] = "paused" /\ c \in steady)
    [] call.op = "restart" -> ctr[c] = "absent" \/ c \notin steady
    [] OTHER               -> ctr[c] \in {"running", "paused"} \/ c \notin steady

(* After a call, every service that is not reported as failed is as asked, *)
(* the failure of another service notwithstanding: unless a command on it  *)
(* had no effect (it timed out, its listing failed, or the last rm -f of a *)
(* stopped container failed), none of which the code tells from success.   *)
NotFailedMeansAchieved ==
  result # "none" => \A c \in call.cfg \ (failed \cup shaky) : Achieved(c)

(* "Returns nil on success" (StopDockerServices): after a nil error none   *)
(* of the containers runs.                                                 *)
StopNilMeansStopped ==
  result = "ok" /\ call.op = "stop" =>
    \A c \in call.cfg : ~(ctr[c] = "running" /\ c \in steady)

(* "escalating from graceful to forced operations": a container that has  *)
(* been running since a stop began is neither killed nor removed before    *)
(* docker stop was tried on it, unless the listing that finds the running  *)
(* ones failed.                                                            *)
GracefulFirst ==
  [][\A c \in steady :
       call.op = "stop" /\ ctr[c] = "running" /\ ctr'[c] \in {"exited", "absent"}
         => c \in tried' \cup shaky]_vars

(* "checks existence with a filter command, then runs the action on        *)
(* matches": a service whose container does not exist is not a failure.    *)
MissingIsSkipped ==
  result # "none" /\ call.op \in {"pause", "unpause", "restart"} =>
    \A c \in failed : ~(ctr[c] = "absent" /\ c \in steady)

(* Whatever fails, the call returns.                                       *)
CallsReturn == result = "none" ~> result # "none"
=============================================================================
