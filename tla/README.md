# A TLA+ model of OM1-OTA

OM1-OTA keeps the software of a robot up to date. Three programs run on the
host: the **agent** (`cmd/agent`) that manages the OM1 containers, the
**updater** (`cmd/updater`) that manages the agent's own container, and the
**terminal** (`cmd/terminal`) that gives an operator a shell. Each holds a
WebSocket connection to a server and acts on the JSON messages that arrive.

This directory states what the code does as TLA+ modules, checks the modules
with TLC on small instances, and proves theorems about them with TLAPS for every
value of the constants. Every definition carries, in `PROJECT.json` under `map`,
the lines of Go it stands for; `hazards` lists what can go wrong in this code
and which property watches it.

## 1. Inventory

| Component (source) | State it keeps | Operations | Correct when |
|---|---|---|---|
| WebSocket client (`internal/ws/client.go`) | `running`, `stopCh`, `conn`, `connected`, the send queue, one goroutine for writing and one per connection for reading | `Start`, `SendMessage`, `Stop`; dial, read, write, requeue, redial | one handler at a time, no connection leaked, no accepted message lost or written twice, it reconnects, `Stop` ends everything |
| Docker manager (`internal/ota/docker.go`) | none of its own: the containers of the host | stop (graceful, then forced), start, recreate, pause, unpause, restart | what is not reported as failed is done; stop before remove; every call returns |
| OTA engine (`ota.go`, `actions.go`, `progress.go`) | the label of the operation in progress | the seven message handlers | each handler reports one verdict, a true one; files in place before containers |
| File manager (`filemanager.go`) | `.ota/update/*.yaml`, `.ota/env/*.env` | store, load, write env | a start loads what was stored last |
| S3 downloader (`internal/s3/downloader.go`) | the schema cache | download, verify, cache | an upgrade uses what its checksum is of, and touches nothing before it has it; a schema is cached whole |
| ECR login (`internal/ota/ecr.go`) | none | fetch credentials, `docker login` | a failed login ends the handler |
| Agent (`internal/agent/agent.go`) | tickers | status report, after each command and on a timer | the server ends with the current status |
| Configuration sync (`internal/configsync/syncer.go`) | synced files and `sync_state.json` | poll a manifest, download, remove | the directory mirrors the manifest, local files excepted |
| Self-update (`internal/selfupdate/updater.go`) | the installed binary | compare, download, verify, rename, exit | never a half-written binary, never an older one, no restart that changes nothing |
| Terminal sessions (`internal/terminal/manager.go`) | the open sessions | open, two pumps, deadline, close | the shell is killed and reaped, terminal and connection are closed, both pumps end |
| Updater binary (`cmd/updater`) | as the OTA engine | as the OTA engine | it shares `.ota` with the agent without corrupting it |
| Configuration, logging, version | none over time | – | – |

How they interact:

- `readLoop` of the client calls the message callback, which is
  `BaseOTA.OTAProcess` in the agent and the updater and the session manager in
  the terminal. Because the callback runs *inside* the reading goroutine, and
  `runLoop` waits for the old reader before it dials again, handlers never
  overlap. Everything above the client relies on that.
- A handler calls the file manager, the downloader, the registry login and the
  Docker manager in turn, and reports progress with `SendMessage`.
- The agent's callback after a command sends a status report, as its ticker does.
- Agent and updater run in different processes on the same `.ota` volume, and
  the updater may restart the agent in the middle of a handler.
- The configuration sync and the status loop of the agent run beside the engine
  and share no memory with it: the reports read the containers, the cached schema
  and the env files that handlers change, without a lock.
- The self-update ends the terminal process, and every session in it.

Hard behaviours: interleaving of five kinds of goroutine in the client, of three
in each terminal session; loss and reordering through the requeue; reports that
overtake each other; containers that change between two docker
commands; commands that hang and are killed; a handler that fails, or a process
that dies, between two of the things it changes; files that are truncated and
then written; a state file that lags behind the directory it describes.

## 2. Modules

```
 Outbox   <== refined by ==  WsClient   <- MCWsClient, WsClientProofs
 ServiceCalls <== refined by ==  DockerManager   <- MCDockerManager, DockerManagerProofs
 ServiceCalls  -- part of -->  OtaEngine         <- MCOtaEngine, OtaEngineProofs <- OtaOutcomeProofs
 CommandLoop  <== refined by ==  OtaEngine
 CommandLoop   -- part of -->  StatusReport      <- MCStatusReport, StatusReportProofs
 Mirror   <== refined by ==  ConfigSync          <- MCConfigSync, ConfigSyncProofs
 TerminalSession, SelfUpdate  -- part of -->  TerminalHost   <- MCTerminalHost, TerminalHostProofs
```

**`Outbox`** is what `SendMessage` promises: an accepted message is delivered at
most once, and is discarded only after `Stop` or when more messages wait than
the queue holds.

**`WsClient`** is the client, one action per step of a goroutine between two
points where another goroutine can see it: a mutex section, a channel
operation, an atomic, a network call. `runPc`, `reader[k]`, `sender[s]` and
`stopPc` are the program counters of `runLoop` (with `writeLoop`), of the
`readLoop` of connection `k`, of the callers of `SendMessage`, and of `Stop`.
The other variables are the fields of `Client` under their own names. `link[k]`
is connection `k` with its network and its peer (external): it may fail at any
time, and a peer may stop reading (`stalled`), which blocks the writes of
`writeLoop` and of `Stop`: the code gives them no deadline. `accepted`, `written`, `requeued` and `lost` are
history. Messages are numbers in order of acceptance: their content is never
looked at by the client.

**`ServiceCalls`** is what a method of `DockerManager` means to its caller: which
containers it may change, into what, and what a nil error says. It is written
for two purposes: `DockerManager` refines it, and `OtaEngine` is built on it.

**`DockerManager`** is each method as the sequence of docker commands it runs. A
command has four outcomes: exit code 0, another code, a kill at its deadline
(code 0 with `timedOut`), an error that kept it from running. Each command meets
the container in the state it has *by then*: `Drift` lets containers crash, come
back by their restart policy, or be removed by others between two commands. A
compose configuration is the set of its containers; the substring semantics of
`docker ps --filter name=` is the relation `Similar`. `failed` is the list the
code collects; `steady`, `tried` and `shaky` are history.

**`OtaEngine`** is `OTAProcess` and its handlers. A handler is the list `plan` of
the phases it has yet to go through (`HandleUpgrade` and `applyOTAUpdate` are
`UpgradePlan`, and so on); each phase is one or two actions with the outcomes
its code has, and may `End` the handler with a verdict. A verdict is a frame that
is sent or not: `SendProgressUpdate` drops it without a word when there is no
connection or the queue is full, and the handler goes on alike. File writes are two
steps, truncate and write, with `Crash` possible in between. A compose
configuration is known by the tag it was released under; a file's content is
that tag, or how the file is damaged: empty, not to be parsed, or cut where what
is left still parses as a smaller configuration. `Crash` is possible at every step: what is
on disk and the containers stay, the rest is gone.

**`CommandLoop`** is the engine seen by those who only look at containers and
files: it changes them while a handler works and at no other time, and calls the
process callback after the work and before the next message. `OtaEngine` refines
it (`LooksLikeCommandLoop`), so that `StatusReport` can be built on five short
actions instead of the whole engine.

**`StatusReport`** is the agent's two reporters beside that engine and beside
everybody else who changes the host (`Meddle`; the updater with its engine on the
same directory is one of them). A report is three steps: `docker ps`, the
variables of each container, the post. What it read is in `report[r]`; `server`
is what the status server had last. A post can be refused, lost, or given up by
its sender and arrive afterwards (`late`), over a younger one.

**`Mirror`** is what the configuration sync promises whoever keeps files in the
same directory: no file is touched that no manifest has named, what is put there
is what the server holds at that moment, and the file of a key is removed only
when the manifest in force does not name that key. When two keys are spellings of
one path, a removal under one takes the file that the other still names: `Mirror`
allows it, as the code does it, and `MirrorsInTheEnd` says that the file comes
back.

**`ConfigSync`** is a pass of `Sync` step by step and the loop around it. `state`
is the state the pass works on, `record` the state file; they are the same again
only after `Save`. The manifest names a key with an etag, but the download gets
what the server has by then, so a file may hold more than its record says. Two
keys may be spellings of one path (`filepath.Clean`), hence `Path`. `Touch` is
other programs, `Publish` the server. `lost`, `reverted` and `named` are history.

**`TerminalSession`** is `runSession` with its two pumps. The order of the
deferred calls is the order of `kill`, `wait`, `closePty`, `closeConn`. A pump
blocks in a read or in a write, each of which goes on only while the other side
answers or once it is closed; `jobs` stands for background jobs of the shell,
which keep the terminal open when the shell is dead. **`SelfUpdate`** is
`CheckAndApply`: builds are numbers in the order of their time stamps, the file
next to the executable is absent, partial or a build; `enabled` is whether the
process got its download directory when it started (`main` disables the
self-update for the life of the process otherwise); `Release` and `Advertise` are
the two jobs of the release workflow. **`TerminalHost`** runs
both in one process: an exit or a crash ends all sessions.

Operators whose comment begins "Seeded fault" are not part of any specification.
Each is a plausible bug in the definition after it, and each breaks a property
when it takes that definition's place: it shows that the property can fail.

## 3. Runs

Run with `tlc -workers 2 -config <cfg> <module>`.

| Run | Module, cfg | Shows |
|---|---|---|
| `ws_safety` | `MCWsClient`, `WsClient_safety` | All interleavings of two senders, `Stop` and failing connections: `HandlersSerial`, `NoLeakedConn`, `EachMessageOnce`, `OnlyRequeuedOvertaken`, `OnlyFailureDisconnects`, the inductive invariant `SafeInv`, and the refinement `KeepsPromise` (`Outbox`). |
| `ws_live` | `MCWsClient`, `WsClient_live` | `Reconnects`, `QueuedIsWritten`, `StopEndsAll`, the last two unless a connected peer never reads again; deadlock freedom. |
| `ws_delay` | `MCWsClient`, `WsClient_delay` | Violation: the "fixed delay on failure" is only kept when dialling fails. |
| `docker` | `MCDockerManager`, `Docker` | With every fault: `NotFailedMeansAchieved`, `GracefulFirst`, the refinement `CallContract` (`ServiceCalls`), `CallsReturn`. |
| `docker_stop_nil` | `MCDockerManager`, `Docker_stop_nil` | Violation: `StopDockerServices` returns nil and the container runs. |
| `docker_missing` | `MCDockerManager`, `Docker_missing` | Violation: a missing service fails a restart because another name contains its name. |
| `ota_safety` | `MCOtaEngine`, `Ota_safety` | Any two commands, any failure, one crash: `OneVerdict`, `CompletedIsDone`, `StoredBeforeStart`, `EnvInPlace`, `UntouchedUntilFetched`, `StoredOnlyWhenDown`, the invariant `EngineInv` that the proofs rest on, and the refinement `LooksLikeCommandLoop` (`CommandLoop`). Whatever fails, the next message is reached: `HandlerAdvances` gives every handler a measure that each step lowers, and with deadlock checked no handler is left without a step. |
| `ota_latest` | `MCOtaEngine`, `Ota_latest` | Violation: a torn `_latest.yaml` loads as an empty configuration. |
| `ota_defaults` | `MCOtaEngine`, `Ota_defaults` | Violation: a failed refresh of the schema removes the defaults a start needs. |
| `agent` | `MCStatusReport`, `Agent` | Commands, both reporters, others on the host, late posts and a crash: `CallbackIsTrue` (what is posted after a command is what it left), `NextMessageReached` (no server can hold up the next command), `StatusEndsCurrent` (an overtaken or half-read report does not stay the last). |
| `config_sync` | `MCConfigSync`, `ConfigSync` | Every failure of a pass, a state file that is lost, a crash, keys that share a file: `SyncedIsOnRecord`, the refinement `Mirrors` (`Mirror`), and `MirrorsInTheEnd`. |
| `terminal` | `MCTerminalHost`, `Terminal` | A session and an update in one process, each with every failure, and a crash: `SessionsClean`, `SessionsEnd`, `WholeBinary`, `UpdatesForward`, `Settles`. |

The five violations are disagreements between the code and its own comments;
`PROJECT.json` quotes both sides under `findings`. The properties that pass are
worded so that they hold of the code as it is: `NotFailedMeansAchieved` excludes
the containers a command failed on in silence (`shaky`), and `CompletedIsDone`
the commands with such a call (`doubt`). The violation runs show that these
exclusions are not idle. `MirrorsInTheEnd` excuses a key that went back to a
content that is on record while its record was not true of the file (`reverted`):
the sync compares etags with its record, never with the file, and would miss it.
It also excuses a loop that a 403 has ended. `CallbackIsTrue` excuses a report
under which others changed the host (`meddled`). `QueuedIsWritten` and
`StopEndsAll` excuse a live peer that never reads again: with no deadline on a
write nothing in the code ends one that blocks. `Settles` excuses a process that
found no download directory when it started. `OneVerdict` says that a handler
reports once, not that the frame is sent (`sent`). `SessionsClean` is about what
the session holds: background jobs of the shell, of which the code kills only the
shell's own process (manager.go:136), may outlive it.

### Bounds

- **Client**: three connections let an old reader, the current connection and
  the next dial coexist if the code allowed it; with a queue of two and four
  messages the queue fills up, a failed write finds it full, and a requeued
  message can be overtaken by two others; two received messages let two
  callbacks overlap. Senders are symmetric in the safety run, which checks no
  liveness. The liveness run has one sender, two messages, two connections:
  enough for a message to be written on the connection after the one that
  failed. The queue of the code holds 256; the theorems hold for every size.
- **Docker manager**: the loops treat one service at a time and share only
  `failed`, so two services show every way one's failure can affect another.
  Their names overlap, which the product's names do too. There is no bound on
  the number of calls: the state space is finite.
- **Engine**: one service with two releases, the second of which adds a
  container, needs the private registry and still uses an image of the first.
  Two commands show every effect one command has on the next; the two runs that
  need three (upgrade, a failed upgrade, start) have them. One crash at any step,
  recovery included. Handlers for different services touch different files and
  are serial, so a second service adds no interleaving.
- **Reports**: one container with two states and files that are whole or cut: the
  reporters treat containers alike, and a report that mixes old and new shows in
  one container and its files. Two commands let the callback of one meet the
  change of the next; one change by others and one crash fall at any point.
- **Configuration sync**: two keys that share a file, two contents, three changes
  on the server: a key can be published, changed and go back, or be published
  and removed while the other spelling stays. A behaviour that publishes only one
  spelling is one with an ordinary key. Passes are not bounded; one fault and one
  change by others fall at any point. The theorems hold for any number of each.
- **Terminal**: sessions share nothing but the process, so one shows everything
  but their number; two releases and three manifests let the manifest go forward,
  back and forward again. Within the session nothing is bounded.

`CHECK_DEADLOCK FALSE` appears where a behaviour may stop: in the two violation
runs of the engine when the bound on messages is reached, in `config_sync` when
a 403 has ended the loop, in `terminal` when its session is over and there is
nothing newer to install. In `ota_safety` an engine that
waits for a message may wait for ever (`WaitingSpec`); a handler that waits for
ever is a deadlock, and there is none.

### Fairness

- Client: weak fairness on each goroutine that can run, which is the Go
  scheduler. Strong fairness on a successful dial: the dial is retried for ever,
  and a server that is never reachable again is not a fault of the client. A
  callback ends, since every command a handler runs has a timeout. A reader on a
  failed link gets its error (closing the connection unblocks it; TCP keepalive
  does for a silent peer). A write is strongly fair, as is the close frame of
  `Stop`: it returns if the peer reads, or the link fails, again and again.
  Nothing is assumed of callers, the peer or the network: `SendMessage`,
  `StopSwap`, `ReadMessage`, `PeerStalls`, `PeerReads` and `LinkDown` are not fair.
- Docker manager: weak fairness on the steps of the program as a whole. Each
  docker command has a deadline in the code, so each ends. No outcome is assumed
  to be the good one. The engine states no fairness: `HandlerAdvances` is a safety
  property.
- Reports: weak fairness on the end of a handler, which is what `HandlerAdvances`
  says of the engine, and on each reporter, whose docker commands and posts have
  timeouts. The ticker comes for ever, so docker and the server each get a chance
  again and again: strong fairness on their good answers to the periodic report
  (none for the callback). A late post arrives or is lost.
- Configuration sync: weak fairness on a pass, strong fairness on a manifest that
  can be read, on `Save`, and on the download and the removal of each key: the
  ticker tries for ever, and a disk or a server that is gone for good is not the
  program's to mend. Nothing is assumed of `Publish`, `Touch`, `Forbidden` and
  `Crash`.
- Terminal: weak fairness on `runSession` (each call returns or has a timeout, the
  deadline comes) and on reads and writes that have failed; none on a read or
  write that succeeds, on the shell, on its jobs or on the link. That closing a
  pseudo-terminal ends a read on it is what its library does. For the update, weak
  fairness on the loop, on exit and on systemd; strong fairness on the good
  outcome of a download, a chmod and a rename.

## 4. Proofs

Every invariant, action property and refinement that a run shows to hold is also a
theorem, for every value of the constants that the named assumption allows. The
proofs of a component all go the same way: an invariant that is inductive, one
lemma per action (or per goroutine, where its actions disturb the same conjuncts)
that the action keeps it, and the properties as consequences of it. Each section
below says why the property alone is not inductive.

### Client

`WsClientProofs` proves, for any number of senders, any queue size of at least
one and any number of connections and messages (`ClientAssumption`):

| Theorem | States |
|---|---|
| `TypeCorrect` | `[](TypeOK /\ HandInv)` |
| `ClientTypes` | `[]TypeOK` |
| `SerialHandlers` | `[]HandlersSerial` |
| `NoConnectionLeaks` | `[]NoLeakedConn` |
| `DisconnectsOnFailureOnly` | `OnlyFailureDisconnects` |
| `MessagesOnce` | `[]EachMessageOnce` |
| `OrderKept` | `[]OnlyRequeuedOvertaken` |
| `Safe` | `[]SafeInv` |
| `ImplementsOutbox` | `Spec => KeepsPromise` |

The argument. None of the properties is inductive alone. `HandlersSerial` says
nothing of a state where a reader of an old connection is alive while `runLoop`
is about to dial; `ConnInv` does: a live reader belongs to `runConn`, and
`runLoop` is between `setConn` and `<-connDone`. It also relates `conn`,
`connected`, `link` and Stop's local connection to where `runLoop` is, which
gives `NoLeakedConn` and `OnlyFailureDisconnects`. `HandInv` says that
`writeLoop` holds a message exactly while it writes or requeues it. With it,
`EachMessageOnce` is preserved by every move of a message (`TakeHead`,
`AppendLast`). `OrderInv` extends the order of `written` to the message in hand
and the queue: a later one is younger or was requeued. `SafeInv` is their
conjunction; `ws_safety` checks it before it is proved. The refinement maps
`pending` to the queue and the hand; the only hard step is that a requeue that
discards finds `Cardinality(pending) > Capacity`, which follows from the queue
having no duplicates and being full.

### Docker manager

`DockerManagerProofs` proves, for any containers, any overlap of their names, any
of the faults and any drift (`DockerAssumption`):

| Theorem | States |
|---|---|
| `ManagerSafe` | `[]ManagerInv`, the inductive invariant |
| `ManagerTypes` | `[]TypeOK`: also that no service is treated twice, nor one that was not asked for |
| `UnfailedIsDone` | `[]NotFailedMeansAchieved` |
| `GraceBeforeForce` | `GracefulFirst` |
| `ImplementsServiceCalls` | `Spec => CallContract` |

The argument. `NotFailedMeansAchieved` speaks of a call that has returned; in the
middle of the loop it must be known of the services the loop has left behind, and
must survive the commands on those that follow and the drift of all of them.
`BehindInv` says that: a service that is neither to do, nor in hand, nor failed,
nor noted as one a command failed on in silence (`shaky`), is as asked. A command
can only change the container it names (`DockerEffect`), so the work is in the
last step of each service: what the exit code or the empty listing it ends on says
of the container (`DockerExit0`, `MatchEffect`). `UpInv` does the same for
docker-compose, whose one command brings up all services: a call that gets past it
without a failure has brought them up. `TriedInv` is what `GracefulFirst` needs:
before `rm`, `kill` and `rm -f` a stop was tried, and the `rm -f` of a container
that was listed as stopped meets a steadily running one only if that listing
failed. `PhaseInv` ties each command to the method it belongs to, without which `Achieved`
would have no meaning. That a step of one service is one of a few things (a move,
a failure, the end of the service) is stated once (`Serves`), one lemma per docker
command. In the refinement a command is a `Work`, a `Slip` (a failure in silence),
`Up`, `Prune` or a stutter. The hard step is `Return`, where the contract says what
a nil error means: it is `BehindInv` and `UpInv` with nothing left to do.

### Engine

`OtaEngineProofs` proves, for any sets of services, containers and tags, any
assignment of containers and image tags to the configurations, any number of
commands and crashes (`EngineAssumption`: configurations and image lists are
sets of containers and tags, and no tag is one of the names the model uses for
damaged or absent files):

| Theorem | States |
|---|---|
| `HandlersSafe` | `[]HandlerInv`, the invariant, which has `TypeOK` as its first conjunct |
| `VerdictsUnique` | `[]OneVerdict` |
| `StartsWhatIsStored` | `[]StoredBeforeStart` |
| `StoresWhenDown` | `StoredOnlyWhenDown` |
| `FailedDownloadsHarmless` | `UntouchedUntilFetched` |

The argument. A handler is the list `plan` of the phases left, so what makes it
correct is a statement about a suffix of one of a few lists. `PhaseOrder` says
which phase can only come right after which (`start` after `store`, `store` after
`login`, `login` after `stop`), a statement that every suffix inherits;
`PhaseReached` says what the first phase finds done: the downloaded configuration
in hand, at `login` and `store` the containers gone (or a docker command failed
in silence, `doubt`), at `start` the configuration on disk. The step that
finishes a phase needs `PhaseOrder` to know which phase comes next. `CallInv` ties
a docker call in progress to the phase that made it; without it nothing would be
known of the containers when `stop` returns. `VerdictInv` says that a handler that
works has said nothing and ends with `finish`, or with an early verdict; `TagInv`
that an env file has a name when it is written. `HandlerInv` is the conjunction,
a part of the `EngineInv` that `ota_safety` checks. There is one lemma per action
(`DownloadStep`, ..., `CrashStep`). `UntouchedUntilFetched` follows from
`PhaseReached`: a phase that changes anything is not the first of an upgrade's plan
before the download has been.

`OtaOutcomeProofs` proves, under the same assumption, what a handler achieves:

| Theorem | States |
|---|---|
| `EngineSafe` | `[]EngineInv` |
| `EngineTypes` | `[]TypeOK` |
| `CompletionsTrue` | `[]CompletedIsDone` |
| `VariablesInPlace` | `[]EnvInPlace` |
| `HandlersGetOn` | `HandlerAdvances` |
| `IsCommandLoop` | `Spec => LooksLikeCommandLoop` |

The argument. `EngineInv` is `HandlerInv` with three more conjuncts.
`PhaseSequence` says what is left of the order of the phases in every suffix of a
plan: a plan that finishes does so right after the docker call its action is
for; the env file is written after everything it depends on and before the call
that reads it. `OutcomeInv` says that a docker call that has gone well made of the
containers what it is for (`Made`), from its return to the verdict. For `start`
this is not what `compose up` alone gives, which leaves a paused container paused:
an upgrade ends with running containers only because it begins with containers it
has removed, hence its first conjunct. `EnvInv` says that while a call that reads
the env file is ahead, the file is yet to be written, or it is right and neither
the variables nor the schema change any more. The lemmas `PhaseOutcome`,
`RunsOutcome`, `ReturnsOutcome` and `DoneOutcome` follow a call from the phase that
makes it to the one after it. `HandlerAdvances` needs that a phase that is over has another behind
it unless it was `finish`, and that an unfinished handler has given no verdict,
which is `VerdictInv`. The refinement needs
that a step of a handler changes containers or files but not both (`OneThing`),
and that a step which ends it changes neither.

### Configuration sync

`ConfigSyncProofs` proves, for any keys, paths and contents, any sharing of paths
by keys, and any number of changes, touches and faults (`SyncAssumption`):

| Theorem | States |
|---|---|
| `SyncTypes` | `[]TypeOK`: also that a pass only has keys of its manifest left to download, and only keys on record and not in it left to remove |
| `WrittenIsRecorded` | `[]SyncedIsOnRecord` |
| `ImplementsMirror` | `Spec => Mirrors` |
| `NamedFilesStay` | if no two keys are spellings of one path, the sync removes no file that the manifest in force names, nor one that none has named |

The argument. `TypeOK` is inductive because it ties `todo` to the loop the pass
is in. `SyncedIsOnRecord` is inductive beside it: it speaks of the state of the
pass while there is one and of the state file otherwise, and a pass that ends
without saving puts what it had changed into `lost` (`RecordKept` is the frame
lemma for all steps that leave the files alone). Its last two conjuncts, that only
named keys are on record, are what the refinement needs: `Drop` of `Mirror` asks
for a key that a manifest has named and that the one in force does not, and
`RemoveDrops` finds both in `SyncedIsOnRecord` and `TypeOK`.

### Terminal

`TerminalHostProofs` proves, for any number of sessions, releases, changes of the
manifest and crashes (`HostAssumption`):

| Theorem | States |
|---|---|
| `HostSafe` | `[]HostInv`, the inductive invariant |
| `HostTypes` | `[]TypeOK`: also that `done` is closed once at most |
| `SessionsReleaseAll` | `[]SessionsClean` |
| `AlwaysWhole` | `[]WholeBinary` |
| `OnlyForward` | `UpdatesForward` |

The argument. `SessionsClean` speaks of sessions that have returned; `SessionInv`
says at each point of `runSession`, and of each way there, what has been acquired
and what given back. `UpdateInv` says that `update` is the build of the manifest
entry from `Verify` to `rename`, that this entry is newer than what runs, and that
what runs is what is on disk except between the rename and the exit: that is why a
crash at any step leaves a whole build, and why the process is never ended for
the build it already runs. The two parts share no variable but die together.

### Status reports

`StatusReportProofs` proves, for any containers and states of files, any number of
commands, changes by others and crashes (`ReportAssumption`):

| Theorem | States |
|---|---|
| `ReportsSafe` | `[]ReportInv`, the inductive invariant |
| `ReportTypes` | `[]TypeOK`: also that a reporter holds a report exactly while it reads or posts |
| `CallbackPostsTruth` | `[]CallbackIsTrue` |

The argument. `CallbackIsTrue` says that what is posted is true. `CallbackInv`
extends it back to the first reading: from then on the containers do not change,
because the callback is part of the message and the next handler waits for it, and
the engine as seen through `CommandLoop` touches them in no other phase. That this
is a faithful view of the engine is `IsCommandLoop`.

### What stays with TLC

The liveness properties: `StopEndsAll`, `Reconnects`, `QueuedIsWritten`,
`CallsReturn`, `MirrorsInTheEnd`, `SessionsEnd`, `Settles`, `NextMessageReached`
and `StatusEndsCurrent`. They rest on fairness, and reasoning about `ENABLED` is
out of the prover's reach. For the engine the safety half of one is proved:
`HandlerAdvances` bounds the steps of every handler; that it always has one is the
deadlock check of `ota_safety`. The five violations are counterexamples, which no
proof replaces. Nothing is assumed in the proofs beyond the named assumptions on
the constants.

## 5. Not modelled, and why

- The content of frames and of progress messages, except which operation a frame
  is labelled with and which verdict ends a command.
- A write to a connection may block, but happens whole. `Stop` writes a close frame
  without the writer's knowledge (client.go:169), which the library forbids; no
  program of the repository calls `Stop`.
- The version file `{service}_{tag}.yaml`: nothing reads it.
- The hour-long read of `docker-compose pull`: one step that ends.
- `update_config` writes the env file while the old containers still run
  (actions.go:68, 85-92), and an upgrade stops the containers of the *new*
  configuration (actions.go:216-217). Both are in the model; no property objects
  to them since nothing in the repository says otherwise beyond a progress text.
- In the engine containers change only by docker commands and by what these leave
  behind: a container that exits or is restarted by itself between two calls is
  modelled in `DockerManager` (`Drift`) and not again there, since
  `CompletedIsDone` is about what the commands did. A docker command the process
  dies in the middle of has either had its effect or not; the daemon does not go
  on with it after the restart.
- Two engines at work on one `.ota` directory. To the agent's reports the updater
  is one of those who change files at any time; that each of the two engines may
  find a file the other is writing is listed as a hazard without a property: they
  handle different services, whose configurations have different names, and
  share the cached schemas and the env files named by tag.
- The descriptions of containers, and the loop that fetches them: they say which
  containers are reported and how they are called.
- The temporary files of downloads (`.om1_dl_*`), which a crash leaves behind and
  nothing cleans up.
- Two terminal sessions under one id: nothing in the code refers to a session by
  its id after the dial. Whether an update should wait for open sessions: nothing
  says so, and `UpdatesForward` only demands that they are cut for a newer build.
  That a background job holds a session open until its deadline is in the model;
  `SessionsEnd` says that it is over then.
- A build whose compiled-in stamp differs from the one it is advertised with, which
  would restart the program for ever: the release workflow compiles and advertises
  one output (release.yml:178-211), and a build is known by that stamp.
- A download directory that disappears while the process runs is a download that
  fails; only its absence at the start (main.go:53-55) disables the self-update.
- The `s3://` branch of the downloader and the temporary file of a configuration.
- Configuration and logging: no behaviour over time.

## 6. Plan

The modules above are done, and every safety property of the runs is proved. What
could be added, in order of importance:

1. The other half of `HandlerAdvances` as a theorem: in every state that
   `HandlerInv` allows in the middle of a handler, a step of it is possible. It
   can be stated without `ENABLED`, as the existence of values for the next state.
2. That a pass of the sync that fails nowhere and meets nobody leaves the
   directory as the manifest says: the safety half of `MirrorsInTheEnd`.
3. The two engines of agent and updater on one `.ota` directory, and what each may
   find of the other's files (see section 5).

Liveness stays with TLC.
