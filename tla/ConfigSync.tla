----------------------------- MODULE ConfigSync -----------------------------
(***************************************************************************)
(* The configuration sync of the agent (internal/configsync/syncer.go and  *)
(* syncConfigLoop of internal/agent/agent.go).  A pass fetches a manifest, *)
(* downloads what changed, removes what a manifest ceased to name, and     *)
(* records in a state file which keys it manages.  Meanwhile the server's  *)
(* files change, other programs write to the directory, any request or     *)
(* file operation fails, and the process dies and is started again.        *)
(*                                                                         *)
(* A file is known by its etag, which the server derives from the content. *)
(* A pass that fails before its first change leaves everything as it was   *)
(* and is a stuttering step.                                               *)
(***************************************************************************)
EXTENDS Naturals, FiniteSets

CONSTANTS
  Keys, Paths, Path(_), Etags,   (* as in Mirror                           *)
  MaxPublish,                    (* bounds of the model: changes on the    *)
  MaxTouch,                      (* server, changes by other programs,     *)
  MaxFaults                      (* crashes and failed or unreadable saves *)

ASSUME SyncAssumption ==
  /\ \A k \in Keys : Path(k) \in Paths
  /\ {"none", "user"} \cap Etags = {}
  /\ MaxPublish \in Nat /\ MaxTouch \in Nat /\ MaxFaults \in Nat

VARIABLES
  upstream,    (* the server's files                                       *)
  files,       (* the directory: an etag, "none", or "user"                *)
  record,      (* the state file: record[k] is the etag of a managed key   *)
  pc,          (* where the pass is; "stopped" once the loop has ended     *)
  remote,      (* the manifest of this pass                                *)
  state,       (* the state as this pass has changed it                    *)
  todo,        (* keys the current loop of the pass has not reached        *)
  named,       (* history: keys that any manifest has named                *)
  lost,        (* history: keys whose record a fault may have lost         *)
  reverted,    (* history: keys that went back to a content on record      *)
  published, touched, faults

world == <<upstream, reverted, published>>
pass == <<pc, remote, state, todo>>
counts == <<touched, faults>>
vars == <<world, files, record, pass, named, lost, counts>>

Nothing == [k \in Keys |-> "none"]
InPass == pc \in {"download", "remove"}
Managed(st) == {k \in Keys : st[k] # "none"}
Named(man) == Managed(man)

Init ==
  /\ upstream = Nothing
  /\ files \in [Paths -> {"none", "user"}]
  /\ record = Nothing
  /\ pc = "idle" /\ remote = Nothing /\ state = Nothing /\ todo = {}
  /\ named = {} /\ lost = {} /\ reverted = {}
  /\ published = 0 /\ touched = 0 /\ faults = 0

(***************************************************************************)
(* A pass                                                                  *)
(***************************************************************************)
Fault == faults < MaxFaults /\ faults' = faults + 1 /\ UNCHANGED touched

(* fetchManifest succeeds; loadState reads the state file.  One that       *)
(* cannot be read counts as empty: what it recorded is forgotten.          *)
Fetch(readable) ==
  /\ pc = "idle"
  /\ remote' = upstream
  /\ named' = named \cup Named(upstream)
  /\ \/ readable /\ state' = record /\ UNCHANGED <<lost, counts>>
     \/ ~readable /\ state' = Nothing /\ lost' = lost \cup Managed(record) /\ Fault
  /\ pc' = "download"
  /\ todo' = Named(upstream)
  /\ UNCHANGED <<world, files, record>>

(* ErrForbidden ends the loop for the life of the process.                 *)
Forbidden ==
  /\ pc = "idle"
  /\ pc' = "stopped"
  /\ UNCHANGED <<world, files, record, remote, state, todo, named, lost, counts>>

(* Seeded fault: a file that is on record is not looked for on disk.       *)
UpToDate_TrustsRecord(k) == state[k] = remote[k]

UpToDate(k) == state[k] = remote[k] /\ files[Path(k)] # "none"

Skip(k) ==
  /\ pc = "download" /\ k \in todo
  /\ UpToDate(k)
  /\ todo' = todo \ {k}
  /\ UNCHANGED <<world, files, record, pc, remote, state, named, lost, counts>>

(* The server sends what it has by now, which may be newer than the        *)
(* manifest, or gone; the etag of the manifest is recorded.  The file is   *)
(* renamed into place whole.                                               *)
Download(k) ==
  /\ pc = "download" /\ k \in todo
  /\ ~UpToDate(k)
  /\ upstream[k] # "none"
  /\ files' = [files EXCEPT ![Path(k)] = upstream[k]]
  /\ state' = [state EXCEPT ![k] = remote[k]]
  /\ todo' = todo \ {k}
  /\ UNCHANGED <<world, record, pc, remote, named, lost, counts>>

DownloadFails(k) ==
  /\ pc = "download" /\ k \in todo
  /\ ~UpToDate(k)
  /\ todo' = todo \ {k}
  /\ UNCHANGED <<world, files, record, pc, remote, state, named, lost, counts>>

(* Seeded fault: what the manifest does not name is stale, whoever wrote   *)
(* it.                                                                     *)
Stale_Unmanaged == Keys \ Named(remote)

Stale == Managed(state) \ Named(remote)

ToStale ==
  /\ pc = "download" /\ todo = {}
  /\ pc' = "remove"
  /\ todo' = Stale
  /\ UNCHANGED <<world, files, record, remote, state, named, lost, counts>>

(* Seeded fault: a file that could not be removed is forgotten.            *)
RemoveFails_Forgets(k) ==
  /\ pc = "remove" /\ k \in todo
  /\ files[Path(k)] # "none"
  /\ state' = [state EXCEPT ![k] = "none"]
  /\ todo' = todo \ {k}
  /\ UNCHANGED <<world, files, record, pc, remote, named, lost, counts>>

(* A file that is gone already counts as removed.                          *)
Remove(k) ==
  /\ pc = "remove" /\ k \in todo
  /\ files' = [files EXCEPT ![Path(k)] = "none"]
  /\ state' = [state EXCEPT ![k] = "none"]
  /\ todo' = todo \ {k}
  /\ UNCHANGED <<world, record, pc, remote, named, lost, counts>>

RemoveFails(k) ==
  /\ pc = "remove" /\ k \in todo
  /\ files[Path(k)] # "none"
  /\ todo' = todo \ {k}
  /\ UNCHANGED <<world, files, record, pc, remote, state, named, lost, counts>>

EndPass ==
  /\ pc' = "idle"
  /\ state' = Nothing
  /\ remote' = Nothing /\ todo' = {}

(* saveState replaces the state file whole, or leaves it.                  *)
Save ==
  /\ pc = "remove" /\ todo = {}
  /\ record' = state
  /\ EndPass
  /\ UNCHANGED <<world, files, named, lost, counts>>

Changed == {k \in Keys : state[k] # record[k]}

SaveFails ==
  /\ pc = "remove" /\ todo = {}
  /\ lost' = lost \cup Changed
  /\ EndPass
  /\ Fault
  /\ UNCHANGED <<world, files, record, named>>

(* The process dies and is started again, with its first pass at once.     *)
Crash ==
  /\ lost' = IF InPass THEN lost \cup Changed ELSE lost
  /\ EndPass
  /\ Fault
  /\ UNCHANGED <<world, files, record, named>>

(***************************************************************************)
(* The others                                                              *)
(***************************************************************************)
(* The etags that are on record for a key, or may be when the pass ends.   *)
OnRecord(k) == {record[k], state[k]} \cup (IF pc = "download" THEN {remote[k]} ELSE {})

Publish(k, e) ==
  /\ published < MaxPublish
  /\ e # upstream[k]
  /\ upstream' = [upstream EXCEPT ![k] = e]
  /\ reverted' = IF e # "none" /\ e \in OnRecord(k) THEN reverted \cup {k} ELSE reverted
  /\ published' = published + 1
  /\ UNCHANGED <<files, record, pass, named, lost, counts>>

Touch(p, content) ==
  /\ touched < MaxTouch
  /\ content # files[p]
  /\ files' = [files EXCEPT ![p] = content]
  /\ touched' = touched + 1
  /\ UNCHANGED <<world, record, pass, named, lost, faults>>

(***************************************************************************)
(* Specification                                                           *)
(***************************************************************************)
Pass ==
  \/ Fetch(TRUE) \/ Fetch(FALSE)
  \/ \E k \in Keys : Skip(k) \/ Download(k) \/ DownloadFails(k)
  \/ ToStale
  \/ \E k \in Keys : Remove(k) \/ RemoveFails(k)
  \/ Save \/ SaveFails

Next ==
  \/ Pass
  \/ Forbidden
  \/ Crash
  \/ \E k \in Keys, e \in Etags \cup {"none"} : Publish(k, e)
  \/ \E p \in Paths, content \in {"none", "user"} : Touch(p, content)

Spec == Init /\ [][Next]_vars

(* The ticker starts passes for ever and every request has a timeout.  A   *)
(* request, a removal or a save that is tried again and again succeeds in  *)
(* the end: a server or a disk that is gone for good is not this program's *)
(* to mend.                                                                *)
FairSpec ==
  /\ Spec
  /\ WF_vars(Pass)
  /\ SF_vars(Fetch(TRUE)) /\ SF_vars(Save)
  /\ \A k \in Keys : SF_vars(Download(k)) /\ SF_vars(Remove(k))

(***************************************************************************)
(* Properties                                                              *)
(***************************************************************************)
TypeOK ==
  /\ upstream \in [Keys -> Etags \cup {"none"}]
  /\ files \in [Paths -> Etags \cup {"none", "user"}]
  /\ record \in [Keys -> Etags \cup {"none"}]
  /\ remote \in [Keys -> Etags \cup {"none"}]
  /\ state \in [Keys -> Etags \cup {"none"}]
  /\ pc \in {"idle", "download", "remove", "stopped"}
  /\ todo \in SUBSET (CASE pc = "download" -> Named(remote)
                      [] pc = "remove"   -> Managed(state) \ Named(remote)
                      [] OTHER           -> {})
  /\ named \in SUBSET Keys /\ lost \in SUBSET Keys /\ reverted \in SUBSET Keys
  /\ published \in 0 .. MaxPublish /\ touched \in 0 .. MaxTouch
  /\ faults \in 0 .. MaxFaults

KeysAt(p) == {k \in Keys : Path(k) = p}

(* A file the sync has written is on record, in memory until the pass ends *)
(* and in the state file after it, so that it is removed when its time     *)
(* comes; only a fault in the middle of a pass breaks this.  And nothing   *)
(* is on record, to be removed, that no manifest has named.                *)
SyncedIsOnRecord ==
  /\ \A p \in Paths : files[p] \in Etags =>
       \E k \in KeysAt(p) :
         k \in lost \/ k \in Managed(IF InPass THEN state ELSE record)
  /\ Managed(record) \subseteq named
  /\ InPass => Managed(state) \cup Named(remote) \subseteq named

(* The directory is touched as Mirror allows and in no other way, whatever *)
(* the state file says and wherever a pass was cut off.                    *)
M == INSTANCE Mirror WITH remote <- IF InPass THEN remote ELSE <<>>
Mirrors == M!Spec

(* What the server holds is there and nothing it has ceased to hold is on  *)
(* record.  A key that goes back to a content that is on record may be     *)
(* missed: a pass that was cut off, or that downloaded more than its       *)
(* manifest said, has left another content under that etag.  So may keys   *)
(* that share a file with one whose record was lost.                       *)
Mirrored ==
  \A k \in Keys :
    LET others == KeysAt(Path(k)) \cap (named \cup {k}) IN
    IF upstream[k] = "none"
      THEN record[k] = "none"
      ELSE /\ files[Path(k)] # "none"
           /\ others \cap reverted = {} /\ (others \cap lost = {} \/ others = {k}) =>
                files[Path(k)] \in {upstream[j] : j \in others} \cup {"user"}

(* Once the server's files stay as they are, the directory becomes their   *)
(* mirror and remains it, whatever failed before; a 403 ends the effort.   *)
MirrorsInTheEnd == <>[](Mirrored \/ pc = "stopped")
=============================================================================
