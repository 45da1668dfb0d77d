---------------------------- MODULE CommandLoop ----------------------------
(***************************************************************************)
(* What the OTA engine promises to those who look at the containers and at *)
(* the files under .ota from outside: it handles one message at a time,    *)
(* changes containers and files only while a handler works, and calls the  *)
(* process callback once the work is over, before the next message.  Only  *)
(* a crash keeps the callback from being called.                           *)
(***************************************************************************)
EXTENDS Naturals

CONSTANTS Containers, States, FileStates

VARIABLES
  phase,     (* "idle", "working" or "callback"                            *)
  ctr,       (* ctr[c]: the state of container c                           *)
  files,     (* the files under .ota                                       *)
  crashes    (* how often the process has died                             *)

vars == <<phase, ctr, files, crashes>>

Init ==
  /\ phase = "idle"
  /\ ctr \in [Containers -> States]
  /\ files \in FileStates
  /\ crashes = 0

(* A message that lacks what its action requires is answered at once.      *)
Begin ==
  /\ phase = "idle"
  /\ phase' \in {"working", "callback"}
  /\ UNCHANGED <<ctr, files, crashes>>

Change ==
  /\ phase = "working"
  /\ \/ ctr' \in [Containers -> States] /\ UNCHANGED files
     \/ files' \in FileStates /\ UNCHANGED ctr
  /\ UNCHANGED <<phase, crashes>>

End ==
  /\ phase = "working"
  /\ phase' = "callback"
  /\ UNCHANGED <<ctr, files, crashes>>

Return ==
  /\ phase = "callback"
  /\ phase' = "idle"
  /\ UNCHANGED <<ctr, files, crashes>>

Crash ==
  /\ phase' = "idle"
  /\ crashes' = crashes + 1
  /\ UNCHANGED <<ctr, files>>

Next == Begin \/ Change \/ End \/ Return \/ Crash

Spec == Init /\ [][Next]_vars
=============================================================================
