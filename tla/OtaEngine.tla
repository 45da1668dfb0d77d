----------------------------- MODULE OtaEngine -----------------------------
(***************************************************************************)
(* The OTA engine of internal/ota: OTAProcess and the handlers it          *)
(* dispatches to, with the files they keep under .ota (FileManager and     *)
(* s3.Downloader) and the registry login (ECRHandler).  Both the agent and *)
(* the updater are this engine behind a WebSocket client, which runs one   *)
(* handler at a time.                                                      *)
(*                                                                         *)
(* A handler is the list of the phases it has yet to go through; each      *)
(* phase may end it early with a verdict for the server.  The Docker       *)
(* phases are calls of ServiceCalls, which DockerManager implements.  The  *)
(* process may crash between any two steps; files and containers remain.   *)
(*                                                                         *)
(* A compose configuration is known by the tag it was released under.      *)
(***************************************************************************)
EXTENDS Naturals, Sequences, FiniteSets

CONSTANTS
  Services, Containers, Tags,
  Cfg(_, _),       (* Cfg(s, t): the containers of service s at tag t       *)
  ImageTags(_),    (* ImageTags(t): the image tags in configuration t       *)
  Private,         (* tags whose images are in the private registry         *)
  MaxCmds,         (* bound of the model: messages received                 *)
  MaxCrashes       (* bound of the model: crashes                           *)

ASSUME EngineAssumption ==
  /\ \A s \in Services, t \in Tags : Cfg(s, t) \in SUBSET Containers
  /\ \A t \in Tags : ImageTags(t) \in SUBSET Tags /\ ImageTags(t) # {}
  /\ Private \in SUBSET Tags
  /\ {"none", "empty", "garbled", "short", "corrupt", "latest"} \cap Tags = {}
  /\ MaxCmds \in Nat /\ MaxCrashes \in Nat

VARIABLES
  ctr, call, clean, result,  (* containers and Docker call: ServiceCalls    *)
  latest,     (* latest[s]: content of {s}_latest.yaml                      *)
  env,        (* env[s][t]: content of {s}_{t}.env                          *)
  schema,     (* schema[t]: content of {t}_schema.json                      *)
  plan,       (* phases the handler has yet to go through                   *)
  stage,      (* how far the first of them is                               *)
  verdicts,   (* frames reported that end the handling of cmd, sent or not  *)
  cmd,        (* the message being handled                                  *)
  operation,  (* Progress.operation: labels every frame                     *)
  yaml,       (* the handler's yamlContent                                  *)
  tag,        (* the handler's tag                                          *)
  target,     (* the containers of yamlContent                              *)
  stored,     (* history: stored[s], the last tag stored to its end         *)
  cached,     (* history: tags whose schema was cached at some time         *)
  envCut,     (* history: cmd's env file could not be written               *)
  doubt,      (* history: a Docker call of cmd was not clean                *)
  cmds, crashes

docker == <<ctr, call, clean, result>>
files == <<latest, env, schema>>
control == <<plan, stage, verdicts>>
message == <<cmd, operation>>
locals == <<yaml, tag, target>>
history == <<stored, cached, envCut, doubt>>
counts == <<cmds, crashes>>
vars == <<docker, files, control, message, locals, history, counts>>

D == INSTANCE ServiceCalls

EnvTags == Tags \cup {"latest"}
Verdicts == {"completed", "error", "download_error", "decode_error"}
Request(action, s, t, e) == [env |-> e, tag |-> t, action |-> action, svc |-> s]
NoCmd == Request("none", "none", "none", FALSE)

Init ==
  /\ D!Init
  /\ latest = [s \in Services |-> "none"]
  /\ env = [s \in Services |-> [t \in EnvTags |-> "none"]]
  /\ schema = [t \in EnvTags |-> "none"]
  /\ plan = <<>> /\ stage = "begin" /\ verdicts = <<>>
  /\ cmd = NoCmd /\ operation = <<"none", "none">>
  /\ yaml = "none" /\ tag = "none" /\ target = {}
  /\ stored = [s \in Services |-> "none"]
  /\ cached = {} /\ envCut = FALSE /\ doubt = FALSE
  /\ cmds = 0 /\ crashes = 0

(***************************************************************************)
(* Phases                                                                  *)
(***************************************************************************)
(* Seeded fault: the configuration is stored after its containers start.   *)
UpgradePlan_StartsFirst ==
  <<"download", "schema", "env", "stop", "login", "start", "store", "finish">>

(* Seeded fault: the files of the release are written before its           *)
(* configuration is known.                                                 *)
UpgradePlan_FilesFirst ==
  <<"schema", "env", "download", "stop", "login", "store", "start", "finish">>

(* Seeded fault: the configuration is stored while the old containers run. *)
UpgradePlan_StoresFirst ==
  <<"download", "schema", "env", "login", "store", "stop", "start", "finish">>

(* HandleUpgrade and applyOTAUpdate.                                       *)
UpgradePlan ==
  <<"download", "schema", "env", "stop", "login", "store", "start", "finish">>

(* Seeded fault: the containers are created before their env file.         *)
UpdatePlan_EnvLast == <<"resolve", "stop", "recreate", "env", "finish">>

(* HandleConfigUpdate.                                                     *)
UpdatePlan == <<"resolve", "env", "stop", "recreate", "finish">>

(* HandleStart, HandleStop, simpleAction.                                  *)
Plan(action) ==
  CASE action = "upgrade"       -> UpgradePlan
    [] action = "update_config" -> UpdatePlan
    [] action = "start" -> <<"resolve", "schema", "env", "login", "start", "finish">>
    [] action = "stop"  -> <<"stop", "finish">>
    [] OTHER            -> <<"resolve", action, "finish">>

At(phase, s) == plan # <<>> /\ Head(plan) = phase /\ stage = s
Stage(s) == stage' = s /\ UNCHANGED <<plan, verdicts>>
NextPhase == plan' = Tail(plan) /\ stage' = "begin" /\ UNCHANGED verdicts

(* No handler and no Docker call runs: what was local to them is gone.     *)
NoCall == [op |-> "stop", cfg |-> {}, up |-> FALSE]

NoHandler ==
  /\ plan' = <<>> /\ stage' = "begin" /\ verdicts' = <<>>
  /\ cmd' = NoCmd
  /\ yaml' = "none" /\ tag' = "none" /\ target' = {}
  /\ envCut' = FALSE /\ doubt' = FALSE
  /\ call' = NoCall /\ clean' = TRUE /\ result' = "ok"

(* SendProgressUpdate: without a client, without a connection or with a    *)
(* full queue the frame is dropped and nobody is told.                     *)
Frame(op, kind) == {[op |-> op, kind |-> kind, sent |-> b] : b \in BOOLEAN}
Report(kind) == \E f \in Frame(operation, kind) : verdicts' = Append(verdicts, f)

(* Seeded fault: a handler that fails returns past the callback.           *)
End_NoCallback(kind) ==
  /\ Report(kind)
  /\ plan' = IF kind = "completed" THEN <<"callback">> ELSE <<>>
  /\ stage' = "begin"

(* The handler reports its verdict and returns; the callback is left.      *)
End(kind) ==
  /\ Report(kind)
  /\ plan' = <<"callback">>
  /\ stage' = "begin"

(***************************************************************************)
(* OTAProcess: a message is decoded, labelled and dispatched               *)
(***************************************************************************)
Accept(c) ==
  /\ plan = <<>>
  /\ cmds < MaxCmds
  /\ cmds' = cmds + 1
  /\ cmd' = c
  /\ tag' = c.tag
  /\ UNCHANGED <<docker, files, stage, yaml, history, crashes>>

(* SetOperation, then the handler up to its first phase: a message without *)
(* the fields its action requires is answered at once.                     *)
Dispatch(c, containers, complete) ==
  /\ Accept(c)
  /\ operation' = <<c.svc, c.action>>
  /\ target' = containers
  /\ IF complete
       THEN plan' = Plan(c.action) /\ verdicts' = <<>>
       ELSE /\ plan' = <<"callback">>
            /\ \E f \in Frame(operation', "error") : verdicts' = <<f>>

ReceiveUpgrade == \E s \in Services, t \in Tags \cup {"none"}, e \in BOOLEAN :
  Dispatch(Request("upgrade", s, t, e), {}, t # "none")

(* The tag of the others is that of the yaml_content they bring, if any.   *)
ReceiveConfigUpdate == \E s \in Services, t \in Tags \cup {"none"}, e \in BOOLEAN :
  Dispatch(Request("update_config", s, t, e), {}, e)

ReceiveStart == \E s \in Services, t \in Tags \cup {"none"}, e \in BOOLEAN :
  Dispatch(Request("start", s, t, e), {}, TRUE)

ReceiveSimple ==
  \E a \in {"pause", "unpause", "restart"}, s \in Services, t \in Tags \cup {"none"} :
    Dispatch(Request(a, s, t, FALSE), {}, TRUE)

ReceiveStop == \E s \in Services, c \in Containers :
  Dispatch(Request("stop", s, "none", FALSE), {c}, TRUE)

ReceiveUnknown == \E s \in Services :
  Dispatch(Request("unknown", s, "none", FALSE), {}, FALSE)

(* JSON that does not decode is answered under the label of the operation  *)
(* before; a message without action or service_name is dropped, callback   *)
(* included.                                                               *)
ReceiveGarbled ==
  /\ Accept(Request("garbled", "none", "none", FALSE))
  /\ plan' = <<"callback">>
  /\ \E f \in Frame(operation, "decode_error") : verdicts' = <<f>>
  /\ UNCHANGED <<operation, target>>

ReceiveIncomplete ==
  /\ plan = <<>>
  /\ cmds < MaxCmds
  /\ cmds' = cmds + 1
  /\ UNCHANGED <<docker, files, control, message, locals, history, crashes>>

Callback ==
  /\ At("callback", "begin")
  /\ NoHandler
  /\ UNCHANGED <<ctr, files, operation, stored, cached, counts>>

(***************************************************************************)
(* Where the configuration comes from                                      *)
(***************************************************************************)
(* Seeded fault: the checksum is not compared.                             *)
Verified_Always(content) == content # "none"

(* What DownloadAndVerifyYAML accepts: the content the checksum is of.     *)
Verified(content) == content = cmd.tag

Download ==
  /\ At("download", "begin")
  /\ \E content \in {cmd.tag, "corrupt", "none"} :
       \/ /\ Verified(content)
          /\ yaml' = content
          /\ target' = Cfg(cmd.svc, cmd.tag)
          /\ NextPhase
       \/ /\ ~Verified(content)
          /\ End("download_error")
          /\ UNCHANGED <<yaml, target>>
  /\ UNCHANGED <<docker, files, message, tag, history, counts>>

(* The containers of what resolveYAML returns.  An empty file is a         *)
(* configuration of none; one that was cut short ("short") may parse all   *)
(* the same, as the first services of a configuration.                     *)
TargetsOf(s, content) ==
  IF content \in Tags THEN {Cfg(s, content)}
  ELSE IF content = "short" THEN UNION {SUBSET Cfg(s, t) \ {{}} : t \in Tags}
  ELSE {{}}

(* extractTagFromYAML ranges over a Go map: any service may come first.    *)
TagsOf(content) ==
  IF content \in Tags THEN ImageTags(content)
  ELSE IF content = "short" THEN EnvTags ELSE {"latest"}

(* yaml_content of the message is taken as it is.  Without it, the handler *)
(* ends when the latest file is missing, cannot be read or does not parse. *)
Resolve ==
  /\ At("resolve", "begin")
  /\ LET content == IF cmd.tag \in Tags THEN cmd.tag ELSE latest[cmd.svc] IN
       \/ /\ content \notin {"none", "garbled"}
          /\ yaml' = content
          /\ target' \in TargetsOf(cmd.svc, content)
          /\ tag' \in TagsOf(content)
          /\ NextPhase
       \/ /\ cmd.tag \notin Tags
          /\ End("error")
          /\ UNCHANGED locals
  /\ UNCHANGED <<docker, files, message, history, counts>>

(***************************************************************************)
(* The files                                                               *)
(***************************************************************************)
(* DownloadSchema.  A response truncates the cached schema ("cut" does not *)
(* decode), its absence removes it; the handler goes on in any case.       *)
SchemaRefresh ==
  /\ At("schema", "begin")
  /\ \/ schema' = [schema EXCEPT ![tag] = "none"] /\ NextPhase
     \/ schema' = [schema EXCEPT ![tag] = "cut"] /\ Stage("body")
  /\ UNCHANGED <<docker, latest, env, message, locals, history, counts>>

(* Seeded fault: the schema is fetched again until it arrives.             *)
SchemaBody_Retries ==
  /\ At("schema", "body")
  /\ \/ /\ schema' = [schema EXCEPT ![tag] = "good"]
        /\ cached' = cached \cup {tag}
        /\ NextPhase
     \/ Stage("begin") /\ UNCHANGED <<schema, cached>>
  /\ UNCHANGED <<docker, latest, env, message, locals, stored, envCut, doubt, counts>>

SchemaBody ==
  /\ At("schema", "body")
  /\ \E content \in {"good", "cut", "none"} :
       /\ schema' = [schema EXCEPT ![tag] = content]
       /\ cached' = IF content = "good" THEN cached \cup {tag} ELSE cached
  /\ NextPhase
  /\ UNCHANGED <<docker, latest, env, message, locals, stored, envCut, doubt, counts>>

ResolvedEnv ==
  IF cmd.env THEN "given"
  ELSE IF schema[tag] = "good" THEN "defaults" ELSE "empty"

(* UpdateEnvFile truncates, then writes; the handler ignores its error.    *)
EnvOpen ==
  /\ At("env", "begin")
  /\ \/ env' = [env EXCEPT ![cmd.svc][tag] = "cut"] /\ Stage("write") /\ UNCHANGED envCut
     \/ envCut' = TRUE /\ NextPhase /\ UNCHANGED env
  /\ UNCHANGED <<docker, latest, schema, message, locals, stored, cached, doubt, counts>>

EnvWrite ==
  /\ At("env", "write")
  /\ \/ env' = [env EXCEPT ![cmd.svc][tag] = ResolvedEnv] /\ UNCHANGED envCut
     \/ envCut' = TRUE /\ UNCHANGED env
  /\ NextPhase
  /\ UNCHANGED <<docker, latest, schema, message, locals, stored, cached, doubt, counts>>

(* StoreUpdateFiles: the version file, which nothing reads, then the       *)
(* latest one, truncated and written: what a write that fails or is cut    *)
(* short leaves may be empty, may not parse, or may parse as less.         *)
StoreOpen ==
  /\ At("store", "begin")
  /\ \/ End("error") /\ UNCHANGED latest
     \/ /\ latest' \in {[latest EXCEPT ![cmd.svc] = part] : part \in {"empty", "garbled", "short"}}
        /\ Stage("write")
  /\ UNCHANGED <<docker, env, schema, message, locals, history, counts>>

StoreWrite ==
  /\ At("store", "write")
  /\ \/ /\ latest' = [latest EXCEPT ![cmd.svc] = yaml]
        /\ stored' = [stored EXCEPT ![cmd.svc] = yaml]
        /\ NextPhase
     \/ End("error") /\ UNCHANGED <<latest, stored>>
  /\ UNCHANGED <<docker, env, schema, message, locals, cached, envCut, doubt, counts>>

(***************************************************************************)
(* Docker                                                                  *)
(***************************************************************************)
(* Seeded fault: the handler goes on after a login it reported as failed.  *)
Login_GoesOn ==
  /\ At("login", "begin")
  /\ \/ NextPhase
     \/ /\ yaml \in Private \cup {"short"}
        /\ Report("error")
        /\ plan' = Tail(plan) /\ stage' = "begin"
  /\ UNCHANGED <<docker, files, message, locals, history, counts>>

(* CheckImagePrivacy and LoginWithCredentials.                             *)
Login ==
  /\ At("login", "begin")
  /\ \/ NextPhase
     \/ yaml \in Private \cup {"short"} /\ End("error")
  /\ UNCHANGED <<docker, files, message, locals, history, counts>>

CallDocker ==
  /\ \E op \in D!Ops : At(op, "begin") /\ D!Begin(op, target)
  /\ Stage("called")
  /\ UNCHANGED <<files, message, locals, history, counts>>

DockerRuns ==
  /\ stage = "called"
  /\ \/ \E c \in Containers : D!Work(c)
     \/ D!Up
     \/ D!Prune
     \/ D!Slip
  /\ UNCHANGED <<files, control, message, locals, history, counts>>

DockerReturns ==
  /\ stage = "called"
  /\ \E res \in {"ok", "error"} : D!Return(res)
  /\ UNCHANGED <<files, control, message, locals, history, counts>>

(* Seeded fault: the error of a Docker call is dropped.                    *)
DockerDone_IgnoresError ==
  /\ stage = "called"
  /\ result # "none"
  /\ NextPhase
  /\ doubt' = (doubt \/ ~clean)
  /\ UNCHANGED <<docker, files, message, locals, stored, cached, envCut, counts>>

DockerDone ==
  /\ stage = "called"
  /\ \/ result = "ok" /\ NextPhase
     \/ result = "error" /\ End("error")
  /\ doubt' = (doubt \/ ~clean)
  /\ UNCHANGED <<docker, files, message, locals, stored, cached, envCut, counts>>

Finish ==
  /\ At("finish", "begin")
  /\ End("completed")
  /\ UNCHANGED <<docker, files, message, locals, history, counts>>

(* The process dies and is started again: it remembers no command and no   *)
(* operation.  A docker command it was running is given up.                *)
Crash ==
  /\ plan # <<>>
  /\ crashes < MaxCrashes
  /\ crashes' = crashes + 1
  /\ NoHandler
  /\ operation' = <<"none", "none">>
  /\ UNCHANGED <<ctr, files, stored, cached, cmds>>

(***************************************************************************)
(* Specification                                                           *)
(***************************************************************************)
Receive ==
  \/ ReceiveUpgrade
  \/ ReceiveConfigUpdate
  \/ ReceiveStart
  \/ ReceiveSimple
  \/ ReceiveStop
  \/ ReceiveUnknown
  \/ ReceiveGarbled
  \/ ReceiveIncomplete

Handle ==
  \/ Download \/ Resolve
  \/ SchemaRefresh \/ SchemaBody \/ EnvOpen \/ EnvWrite \/ StoreOpen \/ StoreWrite
  \/ Login \/ CallDocker \/ DockerReturns \/ DockerDone
  \/ Finish \/ Callback

Next == Receive \/ Handle \/ DockerRuns \/ Crash

Spec == Init /\ [][Next]_vars

(***************************************************************************)
(* Properties                                                              *)
(***************************************************************************)
Phases == {"download", "resolve", "schema", "env", "login", "store", "finish", "callback"}
            \cup D!Ops

Actions == {"none", "upgrade", "update_config", "start", "stop", "pause", "unpause",
            "restart", "unknown", "garbled"}
Frames == [op : (Services \cup {"none"}) \X Actions, kind : Verdicts, sent : BOOLEAN]

TypeOK ==
  /\ ctr \in [Containers -> D!States]
  /\ call \in [op : D!Ops, cfg : SUBSET Containers, up : BOOLEAN]
  /\ result \in {"none", "ok", "error"}
  /\ latest \in [Services -> Tags \cup {"none", "empty", "garbled", "short"}]
  /\ env \in [Services -> [EnvTags -> {"none", "cut", "given", "defaults", "empty"}]]
  /\ schema \in [EnvTags -> {"none", "cut", "good"}]
  /\ plan \in Seq(Phases)
  /\ stage \in {"begin", "body", "write", "called"}
  /\ verdicts \in Seq(Frames)
  /\ yaml \in Tags \cup {"none", "empty", "short"}
  /\ tag \in EnvTags \cup {"none"}
  /\ target \in SUBSET Containers
  /\ stored \in [Services -> Tags \cup {"none"}]
  /\ cached \in SUBSET EnvTags
  /\ clean \in BOOLEAN /\ envCut \in BOOLEAN /\ doubt \in BOOLEAN
  /\ cmds \in 0 .. MaxCmds /\ crashes \in 0 .. MaxCrashes

(* A handler reports one final verdict on its command, under the name of   *)
(* that command and at its end: one that reports a failure returns, and    *)
(* none returns in silence.  So the server hears at most one, and none     *)
(* only if the client could not take it (sent) when it was reported.       *)
OneVerdict ==
  /\ plan = <<"callback">> =>
       /\ Len(verdicts) = 1
       /\ cmd.action # "garbled" => verdicts[1].op = <<cmd.svc, cmd.action>>
  /\ plan # <<>> /\ plan # <<"callback">> => verdicts = <<>>

Ended(kind) == plan = <<"callback">> /\ verdicts[1].kind = kind

(* "completed" is true of the containers if docker commands did what they  *)
(* reported: after an upgrade or a configuration update the services of the  *)
(* configuration run, whatever state they were left in before, after a     *)
(* start they were brought up, after a stop they are gone.                 *)
CompletedIsDone ==
  ~doubt /\ Ended("completed") =>
    CASE cmd.action \in {"upgrade", "update_config"} -> \A c \in target : ctr[c] = "running"
      [] cmd.action = "start" -> \A c \in target : ctr[c] \in {"running", "paused"}
      [] cmd.action = "stop"  -> \A c \in target : ctr[c] = "absent"
      [] OTHER                -> TRUE

Serving(phase) == plan # <<>> /\ Head(plan) = phase /\ stage = "called"

(* What an upgrade starts is what a later start will load: the             *)
(* configuration is on disk, whole, before its first container is created, *)
(* so that a crash from there on leaves a start with the new one.          *)
StoredBeforeStart ==
  cmd.action = "upgrade" /\ Serving("start") =>
    latest[cmd.svc] = cmd.tag /\ stored[cmd.svc] = cmd.tag

(* When docker-compose creates the containers, the env file holds the      *)
(* variables of this command, whatever it held before, unless this command *)
(* could not write it (envCut): the handler ignores that error.            *)
EnvInPlace ==
  Serving("start") \/ Serving("recreate") =>
    \/ envCut
    \/ env[cmd.svc][tag] = IF cmd.env THEN "given"
                           ELSE IF schema[tag] = "good" THEN "defaults" ELSE "empty"

(* An upgrade leaves containers and stored files as it found them until it *)
(* holds the configuration the checksum is of: one that fails or dies      *)
(* while it downloads does not cost the robot the service that runs.       *)
UntouchedUntilFetched ==
  [][cmd.action = "upgrade" => yaml = cmd.tag]_<<ctr, files>>

(* The stored configuration of a service changes only in an upgrade of     *)
(* that service, and only once the containers it describes are down.       *)
StoredOnlyWhenDown ==
  [][\A s \in Services : latest'[s] # latest[s] =>
       /\ cmd.action = "upgrade" /\ cmd.svc = s
       /\ doubt \/ \A c \in target : ctr[c] = "absent"]_latest

(* The next message is always reached: each step of a handler shortens its *)
(* plan, moves on within the first phase, or leaves only the callback; no  *)
(* failure makes it start a phase over.                                    *)
Further == [begin |-> {"body", "write", "called"}, body |-> {}, write |-> {}, called |-> {}]

HandlerAdvances ==
  [][plan # <<>> =>
       \/ Len(plan') < Len(plan)
       \/ plan' = plan /\ stage' \in Further[stage]
       \/ plan # plan' /\ plan' = <<"callback">>]_<<plan, stage>>

(* Seen from outside, the engine does what CommandLoop promises.           *)
Seen ==
  CASE plan = <<>>           -> "idle"
    [] plan = <<"callback">> -> "callback"
    [] OTHER                 -> "working"

FileContents ==
  [Services -> Tags \cup {"none", "empty", "garbled", "short"}]
    \X [Services -> [EnvTags -> {"none", "cut", "given", "defaults", "empty"}]]
    \X [EnvTags -> {"none", "cut", "good"}]

L == INSTANCE CommandLoop WITH
  phase <- Seen, States <- D!States, FileStates <- FileContents
LooksLikeCommandLoop == L!Spec

(***************************************************************************)
(* The inductive invariant behind the safety properties                    *)
(***************************************************************************)
Working == plan # <<>> /\ plan # <<"callback">>
Ahead(phase) == \E i \in DOMAIN plan : plan[i] = phase

(* What is known of the message while its handler runs.                    *)
MessageInv ==
  /\ cmd \in [env : BOOLEAN, tag : Tags \cup {"none"}, action : Actions,
              svc : Services \cup {"none"}]
  /\ operation \in (Services \cup {"none"}) \X Actions
  /\ Working => cmd.svc \in Services
  /\ Ahead("download") \/ Ahead("store") => cmd.action = "upgrade"
  /\ cmd.action = "upgrade" => cmd.svc \in Services
  /\ cmd.action = "upgrade" /\ Working => cmd.tag \in Tags

(* The env file has a name by the time it is written.                      *)
TagInv ==
  Ahead("schema") \/ Ahead("env") => tag \in EnvTags \/ plan[1] = "resolve"

(* A handler that has not returned has said nothing, and ends with Finish  *)
(* or an early verdict.                                                    *)
VerdictInv ==
  /\ Working => /\ verdicts = <<>>
                /\ plan[Len(plan)] = "finish"
                /\ ~Ahead("callback")
  /\ plan = <<"callback">> =>
       /\ Len(verdicts) = 1
       /\ cmd.action # "garbled" => verdicts[1].op = <<cmd.svc, cmd.action>>
  /\ plan # <<>> /\ cmd.action # "garbled" => operation = <<cmd.svc, cmd.action>>

(* A Docker call in progress is the one the first phase made.              *)
CallInv ==
  stage = "called" =>
    /\ plan # <<>>
    /\ call.op = plan[1] /\ call.cfg = target
    /\ result = "ok" /\ clean /\ call.op = "stop" => \A c \in target : ctr[c] = "absent"

(* The order of the phases an upgrade has yet to go through.               *)
PhaseOrder ==
  /\ ~Ahead("resolve")
  /\ \A i \in DOMAIN plan \ {1} :
       /\ plan[i] # "download"
       /\ plan[i] = "login" => plan[i - 1] = "stop"
       /\ plan[i] = "store" => plan[i - 1] = "login"
       /\ plan[i] = "start" => plan[i - 1] = "store"

(* What an upgrade has done by the time it reaches a phase.                *)
PhaseReached ==
  Working =>
    /\ plan[1] # "download" => yaml = cmd.tag
    /\ plan[1] \in {"login", "store"} => doubt \/ \A c \in target : ctr[c] = "absent"
    /\ plan[1] = "start" => latest[cmd.svc] = cmd.tag /\ stored[cmd.svc] = cmd.tag

UpgradeInv == cmd.action = "upgrade" => PhaseOrder /\ PhaseReached

(* What every reachable state satisfies and every step preserves: who is   *)
(* handled, what was said, which call runs, how far an upgrade is.         *)
HandlerInv == TypeOK /\ MessageInv /\ TagInv /\ VerdictInv /\ CallInv /\ UpgradeInv

(* The last thing a handler has done to the containers when it finishes,   *)
(* and what that makes of them.                                            *)
LastCall(action) ==
  CASE action \in {"upgrade", "start"} -> "start"
    [] action = "update_config"        -> "recreate"
    [] OTHER                           -> action

Made(op) ==
  CASE op = "stop"     -> \A c \in target : ctr[c] = "absent"
    [] op = "recreate" -> \A c \in target : ctr[c] = "running"
    [] op = "start"    -> \A c \in target :
                            ctr[c] = "running" \/ (ctr[c] = "paused" /\ cmd.action # "upgrade")
    [] OTHER           -> TRUE

(* What the order of the phases is for: a handler finishes after the call  *)
(* that does its work, and writes the env file after everything that it    *)
(* depends on and before anything that depends on it.                      *)
PhaseSequence ==
  /\ \A i \in DOMAIN plan \ {1} : plan[i] = "finish" => plan[i - 1] = LastCall(cmd.action)
  /\ \A i, j \in DOMAIN plan :
       /\ plan[i] = "env" /\ plan[j] \in {"resolve", "schema"} => j < i
       /\ plan[i] \in {"start", "recreate"} /\ plan[j] = "env" => j < i

(* A call that has gone well made of the containers what it is for, and    *)
(* they stay so until the verdict.  An upgrade starts from containers that *)
(* it has removed: none of them is paused.                                 *)
OutcomeInv ==
  /\ plan # <<>> /\ plan[1] = "start" /\ cmd.action = "upgrade" =>
       doubt \/ \A c \in target : ctr[c] # "paused"
  /\ stage = "called" /\ call.up =>
       call.op \in {"start", "recreate"} /\ (doubt \/ Made(call.op))
  /\ stage = "called" /\ result = "ok" => doubt \/ ~clean \/ Made(call.op)
  /\ (plan # <<>> /\ plan[1] = "finish") \/ Ended("completed") =>
       doubt \/ Made(LastCall(cmd.action))

(* What docker-compose is about to read is not there yet, or it is right   *)
(* and nothing that it depends on changes any more.                        *)
EnvInv ==
  Ahead("start") \/ Ahead("recreate") =>
    \/ Ahead("env")
    \/ /\ envCut \/ env[cmd.svc][tag] = ResolvedEnv
       /\ ~Ahead("schema") /\ ~Ahead("resolve")

EngineInv == HandlerInv /\ PhaseSequence /\ OutcomeInv /\ EnvInv

(***************************************************************************)
(* What the comments and messages of the code say                          *)
(***************************************************************************)
(* filemanager.go: "loads the most recently stored compose config".        *)
LoadsLastStored ==
  cmd.action \notin {"upgrade", "stop"} /\ cmd.tag \notin Tags /\ yaml # "none"
    => yaml = stored[cmd.svc]

(* actions.go: env_variables when present, "otherwise the schema           *)
(* defaults".  A schema that was cached has defaults to give.              *)
DefaultsUsed ==
  [][\A s \in Services, t \in EnvTags :
       env[s][t] = "cut" /\ env'[s][t] = "empty" => t \notin cached]_env
=============================================================================
