----------------------------- MODULE SelfUpdate -----------------------------
(***************************************************************************)
(* The self-update of the terminal program (internal/selfupdate and        *)
(* runUpdateLoop of cmd/terminal): it compares the build the manifest      *)
(* advertises with its own, downloads it beside its executable, verifies   *)
(* it, renames it into place and exits, for systemd to start the new one.  *)
(* Releases appear meanwhile, the manifest may go back to an older one,    *)
(* every step fails, and the process dies anywhere.                        *)
(*                                                                         *)
(* A build is known by its time stamp, in the order of time; a release     *)
(* compiles the stamp it advertises into the build and never changes what  *)
(* a url holds (.github/workflows/release.yml).                            *)
(***************************************************************************)
EXTENDS Integers

CONSTANTS
  MaxVersion,     (* bounds of the model: releases,                        *)
  MaxAdvertised,  (* changes of the manifest,                              *)
  MaxCrashes      (* crashes                                               *)

VARIABLES
  released,   (* builds 1 .. released are on the server                    *)
  manifest,   (* the build the manifest advertises                         *)
  up,         (* the process runs                                          *)
  running,    (* the build it runs, or ran last                            *)
  enabled,    (* it has a directory to download to, and so updates itself  *)
  disk,       (* the executable                                            *)
  update,     (* the file beside it: None, Partial or a build              *)
  step,       (* where CheckAndApply is                                    *)
  entry,      (* the manifest entry it works on                            *)
  advertised, crashes

server == <<released, manifest, advertised>>
process == <<up, running, enabled>>
vars == <<server, process, disk, update, step, entry, crashes>>

None == -1
Partial == -2

(* An installation starts with some build, a development build being 0.  A *)
(* process that cannot have its download directory when it starts does not *)
(* update itself for as long as it lives.                                  *)
Init ==
  /\ released = 0 /\ manifest = 0 /\ advertised = 0
  /\ up = TRUE /\ running = 0 /\ enabled \in BOOLEAN
  /\ disk = 0
  /\ update = None
  /\ step = "idle" /\ entry = 0
  /\ crashes = 0

Release ==
  /\ released < MaxVersion
  /\ released' = released + 1
  /\ UNCHANGED <<manifest, advertised, process, disk, update, step, entry, crashes>>

(* Workflows that finish out of order leave the older manifest.            *)
Advertise(v) ==
  /\ advertised < MaxAdvertised
  /\ manifest' = v
  /\ advertised' = advertised + 1
  /\ UNCHANGED <<released, process, disk, update, step, entry, crashes>>

(***************************************************************************)
(* CheckAndApply                                                           *)
(***************************************************************************)
At(here) == up /\ step = here
Goto(there) == step' = there /\ UNCHANGED <<server, process, entry, crashes>>

(* Seeded fault: the build that runs counts as newer.                      *)
IsNewer_OrSame(candidate, current) == candidate >= current

IsNewer(candidate, current) == candidate > current

Check ==
  /\ At("idle")
  /\ enabled
  /\ IsNewer(manifest, running)
  /\ entry' = manifest
  /\ step' = "download"
  /\ UNCHANGED <<server, process, disk, update, crashes>>

(* A failure on the way removes the file; the next check starts afresh.    *)
GiveUp == update' = None /\ Goto("idle") /\ UNCHANGED disk

Download ==
  /\ At("download")
  /\ \/ update' = Partial /\ Goto("body") /\ UNCHANGED disk
     \/ GiveUp

(* The body may end early without an error.                                *)
DownloadBody ==
  /\ At("body")
  /\ \/ update' \in {entry, Partial} /\ Goto("verify") /\ UNCHANGED disk
     \/ GiveUp

(* Seeded fault: the checksum is not compared.                             *)
Verified_Always == TRUE

Verified == update = entry

Verify ==
  /\ At("verify")
  /\ \/ Verified /\ Goto("chmod") /\ UNCHANGED <<update, disk>>
     \/ ~Verified /\ GiveUp

Chmod ==
  /\ At("chmod")
  /\ \/ Goto("rename") /\ UNCHANGED <<update, disk>>
     \/ GiveUp

(* Seeded fault: the process does not exit after the replacement.          *)
Rename_StaysUp ==
  /\ At("rename")
  /\ \/ disk' = update /\ update' = None /\ Goto("idle")
     \/ GiveUp

Rename ==
  /\ At("rename")
  /\ \/ disk' = update /\ update' = None /\ Goto("exit")
     \/ GiveUp

Down == up' = FALSE /\ step' = "idle" /\ entry' = 0 /\ UNCHANGED <<running, enabled>>

Exit ==
  /\ At("exit")
  /\ Down
  /\ UNCHANGED <<server, disk, update, crashes>>

Crash ==
  /\ up
  /\ crashes < MaxCrashes
  /\ crashes' = crashes + 1
  /\ Down
  /\ UNCHANGED <<server, disk, update>>

(* systemd: Restart=always.                                                *)
Restart ==
  /\ ~up
  /\ up' = TRUE
  /\ running' = disk
  /\ enabled' \in BOOLEAN
  /\ UNCHANGED <<server, disk, update, step, entry, crashes>>

CheckAndApply == Check \/ Download \/ DownloadBody \/ Verify \/ Chmod \/ Rename

(* The ticker checks for ever.  A download, a chmod and a rename that are  *)
(* tried again and again succeed in the end.                               *)
Fairness ==
  /\ WF_vars(CheckAndApply) /\ WF_vars(Exit) /\ WF_vars(Restart)
  /\ SF_vars(Download /\ update' = Partial)
  /\ SF_vars(DownloadBody /\ update' = entry)
  /\ SF_vars(Chmod /\ step' = "rename")
  /\ SF_vars(Rename /\ disk' = update)
=============================================================================
