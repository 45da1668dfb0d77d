---------------------------- MODULE StatusReport ----------------------------
(***************************************************************************)
(* The status reports of the agent (internal/agent/agent.go), beside the   *)
(* OTA engine as CommandLoop describes it.  A periodic loop and, after a   *)
(* command, the process callback read the containers and the files and     *)
(* post what they read; neither holds a lock, so that everything they read *)
(* may change under them.  Docker commands fail, posts are refused, lost   *)
(* or answered too late, and the process dies.  Whoever else uses the host *)
(* (the updater and its engine on the same .ota directory, restart         *)
(* policies, a user) changes containers and files at any time.             *)
(*                                                                         *)
(* The variables reported of a container are those of its env file and,    *)
(* of its environment, those that the cached schema names: they are known  *)
(* by the state of the files they were read from.                          *)
(***************************************************************************)
EXTENDS Naturals, FiniteSets

CONSTANTS
  Containers, States, FileStates,   (* as in CommandLoop                   *)
  Unknown,       (* a report the server has not had                        *)
  MaxCmds,       (* bounds of the model: messages,                         *)
  MaxCrashes,    (* crashes,                                               *)
  MaxMeddling    (* changes by others                                      *)

Reporters == {"periodic", "callback"}
Report == [state : [Containers -> States], vars : FileStates \cup {"unread", "partial"}]

ASSUME ReportAssumption ==
  {"unread", "partial"} \cap FileStates = {} /\ {MaxCmds, MaxCrashes, MaxMeddling} \subseteq Nat

VARIABLES
  phase, ctr, files, crashes,   (* the engine: CommandLoop                 *)
  step,       (* step[r]: where reporter r is                              *)
  report,     (* report[r]: what it has read                               *)
  late,       (* a post given up by its sender that may yet arrive         *)
  server,     (* the report the server had last                            *)
  meddled,    (* history: others changed something under the callback      *)
  cmds, meddling

engine == <<phase, ctr, files, crashes>>
reporters == <<step, report>>
posts == <<late, server>>
vars == <<engine, reporters, posts, meddled, cmds, meddling>>

L == INSTANCE CommandLoop

Nothing == [r \in Reporters |-> Unknown]

Init ==
  /\ L!Init
  /\ step = [r \in Reporters |-> "idle"] /\ report = Nothing
  /\ late = {} /\ server = Unknown
  /\ meddled = FALSE /\ cmds = 0 /\ meddling = 0

(***************************************************************************)
(* The engine and the others                                               *)
(***************************************************************************)
Command ==
  /\ \/ cmds < MaxCmds /\ L!Begin /\ cmds' = cmds + 1
     \/ (L!Change \/ L!End) /\ UNCHANGED cmds
  /\ UNCHANGED <<reporters, posts, meddled, meddling>>

(* Seeded fault: the callback is started, and the next message accepted.   *)
Return_DoesNotWait ==
  /\ step["callback"] # "idle"
  /\ L!Return
  /\ step' = [step EXCEPT !["callback"] = IF @ = "done" THEN "idle" ELSE @]
  /\ UNCHANGED <<report, posts, meddled, cmds, meddling>>

(* The handler goes on when the callback has returned.                     *)
Return ==
  /\ step["callback"] = "done"
  /\ L!Return
  /\ step' = [step EXCEPT !["callback"] = "idle"]
  /\ UNCHANGED <<report, posts, meddled, cmds, meddling>>

Meddle ==
  /\ meddling < MaxMeddling
  /\ \/ ctr' \in [Containers -> States] /\ UNCHANGED files
     \/ files' \in FileStates /\ UNCHANGED ctr
  /\ <<ctr', files'>> # <<ctr, files>>
  /\ meddling' = meddling + 1
  /\ meddled' = (step["callback"] \notin {"idle", "done"})
  /\ UNCHANGED <<phase, crashes, reporters, posts, cmds>>

(***************************************************************************)
(* A reporter                                                              *)
(***************************************************************************)
(* The periodic loop waits for its ticker, the callback returns.           *)
Rest(r) == step' = [step EXCEPT ![r] = IF r = "periodic" THEN "idle" ELSE "done"]
Quit(r) == Rest(r) /\ report' = [report EXCEPT ![r] = Unknown]

MayStart(r) == step[r] = "idle" /\ (r = "callback" => phase = "callback")

(* docker ps: the states of all containers at once.                        *)
Ps(r) ==
  /\ MayStart(r)
  /\ report' = [report EXCEPT ![r] = [state |-> ctr, vars |-> "unread"]]
  /\ step' = [step EXCEPT ![r] = "read"]
  /\ meddled' = (r # "callback" /\ meddled)
  /\ UNCHANGED <<engine, posts, cmds, meddling>>

(* Seeded fault: a failure ends the loop.                                  *)
PsFails_EndsLoop(r) ==
  /\ MayStart(r)
  /\ step' = [step EXCEPT ![r] = "done"]
  /\ UNCHANGED <<engine, report, posts, meddled, cmds, meddling>>

PsFails(r) ==
  /\ MayStart(r)
  /\ Quit(r)
  /\ UNCHANGED <<engine, posts, meddled, cmds, meddling>>

(* docker inspect, the schema and the env file.  Where docker inspect      *)
(* fails, what only the container's environment has is left out.           *)
ReadVars(r, vars0) ==
  /\ step[r] = "read"
  /\ report' = [report EXCEPT ![r].vars = vars0]
  /\ step' = [step EXCEPT ![r] = "sent"]
  /\ UNCHANGED <<engine, posts, meddled, cmds, meddling>>

(* The server takes the post and answers in time.                          *)
Answer(r) ==
  /\ step[r] = "sent"
  /\ server' = report[r]
  /\ Quit(r)
  /\ UNCHANGED <<engine, late, meddled, cmds, meddling>>

(* Seeded fault: a report that was refused is read and posted again.       *)
Refused_Retries(r) ==
  /\ step[r] = "sent"
  /\ report' = [report EXCEPT ![r].vars = "unread"]
  /\ step' = [step EXCEPT ![r] = "read"]
  /\ UNCHANGED <<engine, posts, meddled, cmds, meddling>>

(* Refused, not sent at all, or given up after httpTimeout.                *)
Refused(r) ==
  /\ step[r] = "sent"
  /\ late' \in {late, {report[r]}}
  /\ Quit(r)
  /\ UNCHANGED <<engine, server, meddled, cmds, meddling>>

(* A post nobody waits for arrives, or is lost on the way.                 *)
LatePost ==
  /\ late # {}
  /\ server' \in late \cup {server}
  /\ late' = {}
  /\ UNCHANGED <<engine, reporters, meddled, cmds, meddling>>

(* The process dies and is started again.  What it was posting may arrive. *)
Crash ==
  /\ crashes < MaxCrashes
  /\ L!Crash
  /\ late' \in {late} \cup {{report[r]} : r \in {q \in Reporters : step[q] = "sent"}}
  /\ step' = [r \in Reporters |-> "idle"] /\ report' = Nothing
  /\ UNCHANGED <<server, meddled, cmds, meddling>>

(***************************************************************************)
(* Specification                                                           *)
(***************************************************************************)
ReportStatus(r) ==
  \/ Ps(r) \/ PsFails(r)
  \/ ReadVars(r, files) \/ ReadVars(r, "partial")
  \/ Answer(r) \/ Refused(r)

Next ==
  \/ Command \/ Return \/ Crash \/ Meddle
  \/ \E r \in Reporters : ReportStatus(r)
  \/ LatePost

Spec == Init /\ [][Next]_vars

(* Handlers end (HandlerAdvances of OtaEngine), every docker command and   *)
(* every post of a reporter has a timeout, and the ticker of the loop      *)
(* comes again and again.  If it does so for ever, docker answers it now   *)
(* and then, and so does the server when its report is complete.           *)
FairSpec ==
  /\ Spec
  /\ WF_vars(Command /\ phase = "working" /\ phase' = "callback") /\ WF_vars(Return)
  /\ \A r \in Reporters : WF_vars(ReportStatus(r))
  /\ SF_vars(Ps("periodic")) /\ SF_vars(ReadVars("periodic", files))
  /\ SF_vars(Answer("periodic") /\ report["periodic"].vars # "partial")
  /\ WF_vars(LatePost)

(***************************************************************************)
(* Properties                                                              *)
(***************************************************************************)
Steps == {"idle", "read", "sent", "done"}

TypeOK ==
  /\ phase \in {"idle", "working", "callback"}
  /\ ctr \in [Containers -> States] /\ files \in FileStates
  /\ step \in [Reporters -> Steps]
  /\ report \in [Reporters -> Report \cup {Unknown}]
  /\ \A r \in Reporters :
       report[r] \in IF step[r] \in {"read", "sent"} THEN Report ELSE {Unknown}
  /\ step["callback"] # "idle" => phase = "callback"
  /\ late \in SUBSET Report /\ Cardinality(late) <= 1
  /\ server \in Report \cup {Unknown}
  /\ meddled \in BOOLEAN
  /\ cmds \in 0 .. MaxCmds /\ crashes \in 0 .. MaxCrashes
  /\ meddling \in 0 .. MaxMeddling

(* What is posted after a command is what the command left: the handler is *)
(* done, the next one waits, and a periodic report that runs meanwhile     *)
(* does not come between.  It may still reach the server after it.         *)
CallbackIsTrue ==
  step["callback"] = "sent" /\ ~meddled =>
    report["callback"].state = ctr /\ report["callback"].vars \in {files, "partial"}

(* A server that refuses reports, or never answers, does not keep the next *)
(* message from being handled.                                             *)
NextMessageReached == (phase # "idle") ~> (phase = "idle")

(* Whatever was overtaken, lost or read half-way, once the host is left    *)
(* alone the server knows the state of its containers for good, and their  *)
(* variables whenever docker lets them be read.                            *)
StatusEndsCurrent ==
  /\ <>[](server # Unknown /\ server.state = ctr)
  /\ []<>(server # Unknown /\ server.vars = files)
=============================================================================
