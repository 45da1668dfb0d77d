---------------------------- MODULE ServiceCalls ----------------------------
(***************************************************************************)
(* What a call of a DockerManager method (internal/ota/docker.go) means to *)
(* its caller: which containers it may change, how, and what a nil error   *)
(* says if every docker command did what its exit code says.               *)
(* DockerManager implements it command by command, OtaEngine is built on   *)
(* it.                                                                     *)
(***************************************************************************)
EXTENDS FiniteSets

CONSTANT Containers   (* names of the containers of the host *)

VARIABLES
  ctr,          (* ctr[c]: state of container c                     *)
  call,         (* the latest call: its method, its configuration   *)
  clean,        (* every command of a stop did as it reported       *)
  result        (* "none" while it runs, then "ok" (nil) or "error" *)

vars == <<ctr, call, clean, result>>

(* "exited" was stopped through docker; "crashed" ended by itself, and its *)
(* restart policy may bring it back.                                       *)
States == {"absent", "running", "paused", "exited", "crashed"}

Ops == {"stop", "start", "recreate", "pause", "unpause", "restart"}

(* Containers come from no other source than the calls of start.           *)
Init ==
  /\ ctr \in [Containers -> {"absent", "running"}]
  /\ call = [op |-> "stop", cfg |-> {}, up |-> FALSE]
  /\ clean = TRUE
  /\ result = "ok"

Idle == result # "none"

Begin(op, cfg) ==
  /\ Idle
  /\ call' = [op |-> op, cfg |-> cfg, up |-> FALSE]
  /\ clean' = TRUE
  /\ result' = "none"
  /\ UNCHANGED ctr

(* A container ends by itself, is brought back by its restart policy, or,  *)
(* once it does not run, is removed by somebody else.                      *)
Drift(c) ==
  /\ \/ ctr[c] = "running" /\ ctr' = [ctr EXCEPT ![c] = "crashed"]
     \/ ctr[c] = "crashed" /\ ctr' = [ctr EXCEPT ![c] = "running"]
     \/ ctr[c] \in {"exited", "crashed"} /\ ctr' = [ctr EXCEPT ![c] = "absent"]
  /\ UNCHANGED <<call, clean, result>>

(* What a command run for op makes of a container in state st.             *)
Becomes(op, st) ==
  IF st = "absent" THEN {} ELSE
  CASE op = "stop"      -> {"exited", "absent"}
    [] op = "pause"     -> IF st = "running" THEN {"paused"} ELSE {}
    [] op = "unpause"   -> IF st = "paused" THEN {"running"} ELSE {}
    [] op = "restart"   -> {"running"}
    [] OTHER            -> {}

Work(c) ==
  /\ ~Idle
  /\ c \in call.cfg
  /\ \E st \in Becomes(call.op, ctr[c]) : ctr' = [ctr EXCEPT ![c] = st]
  /\ UNCHANGED <<call, clean, result>>

(* docker-compose up brings the configuration to life.  Without            *)
(* --force-recreate it leaves a paused container alone if nothing about it *)
(* changed.                                                                *)
Raised ==
  LET paused == {c \in call.cfg : ctr[c] = "paused"}
      kept == IF call.op = "start" THEN SUBSET paused ELSE {{}}
  IN {[c \in Containers |-> IF c \in call.cfg \ K THEN "running" ELSE ctr[c]] : K \in kept}

(* What it leaves when it fails: a container it replaces is stopped and    *)
(* removed first.                                                          *)
HalfRaised ==
  {f \in [Containers -> States] : \A c \in Containers :
     f[c] = ctr[c] \/ (c \in call.cfg /\ f[c] \in {"running", "exited", "absent"})}

Up ==
  /\ ~Idle
  /\ call.op \in {"start", "recreate"}
  /\ ~call.up
  /\ \/ ctr' \in Raised /\ call' = [call EXCEPT !.up = TRUE]
     \/ ctr' \in HalfRaised /\ UNCHANGED call
  /\ UNCHANGED <<clean, result>>

(* A successful start removes every container of the host that does not    *)
(* run, whoever it belongs to.                                             *)
Prune ==
  /\ ~Idle
  /\ call.op = "start"
  /\ call.up
  /\ ctr' = [c \in Containers |->
               IF ctr[c] \in {"exited", "crashed"} THEN "absent" ELSE ctr[c]]
  /\ UNCHANGED <<call, clean, result>>

(* A command of stop without effect passes for one that worked: the other  *)
(* methods rest nothing on it.                                             *)
Slip ==
  /\ ~Idle
  /\ call.op = "stop"
  /\ clean' = FALSE
  /\ UNCHANGED <<ctr, call, result>>

Return(res) ==
  /\ ~Idle
  /\ res = "ok" =>
       /\ call.op \in {"start", "recreate"} => call.up \/ call.cfg = {}
       /\ clean /\ call.op = "stop" => \A c \in call.cfg : ctr[c] = "absent"
  /\ result' = res
  /\ UNCHANGED <<ctr, call, clean>>

Next ==
  \/ \E op \in Ops, cfg \in SUBSET Containers : Begin(op, cfg)
  \/ \E c \in Containers : Drift(c) \/ Work(c)
  \/ Up
  \/ Prune
  \/ Slip
  \/ \E res \in {"ok", "error"} : Return(res)

Spec == Init /\ [][Next]_vars
=============================================================================
