---------------------------- MODULE TerminalHost ----------------------------
(***************************************************************************)
(* The terminal program (cmd/terminal): sessions run until they end while  *)
(* the same process updates itself, and an exit ends them all.             *)
(***************************************************************************)
EXTENDS Integers

CONSTANTS Sessions, MaxVersion, MaxAdvertised, MaxCrashes

ASSUME HostAssumption == MaxVersion \in Nat /\ MaxAdvertised \in Nat /\ MaxCrashes \in Nat

VARIABLES
  pc, conn, pty, shell, jobs, out, in, closes,                     (* TerminalSession *)
  released, manifest, up, running, enabled, disk, update, step, entry,  (* SelfUpdate *)
  advertised, crashes

S == INSTANCE TerminalSession
U == INSTANCE SelfUpdate

sessions == <<pc, conn, pty, shell, jobs, out, in, closes>>
updates == <<released, manifest, up, running, enabled, disk, update, step, entry, advertised, crashes>>
vars == <<sessions, updates>>

Init == S!Init /\ U!Init

Sessioning == up /\ S!Next /\ UNCHANGED updates

Updating ==
  /\ U!CheckAndApply \/ U!Restart \/ U!Release
     \/ \E v \in 1 .. released \ {manifest} : U!Advertise(v)
  /\ UNCHANGED sessions

Stopping == (U!Exit \/ U!Crash) /\ S!Die

Next == Sessioning \/ Updating \/ Stopping

Spec == Init /\ [][Next]_vars

FairSpec == Spec /\ S!Fairness /\ U!Fairness

(***************************************************************************)
(* Properties                                                              *)
(***************************************************************************)
Link == {"none", "open", "broken", "closed"}

TypeOK ==
  /\ pc \in [Sessions -> {"idle", "dial", "start", "status", "select", "kill", "wait",
                          "closePty", "closeConn", "ended"}]
  /\ conn \in [Sessions -> Link] /\ pty \in [Sessions -> Link \ {"broken"}]
  /\ shell \in [Sessions -> {"none", "running", "exited", "reaped"}]
  /\ jobs \in [Sessions -> BOOLEAN]
  /\ out \in [Sessions -> {"none", "read", "write", "ended"}]
  /\ in \in [Sessions -> {"none", "read", "write", "ended"}]
  /\ closes \in [Sessions -> 0 .. 1]
  /\ released \in 0 .. MaxVersion /\ manifest \in 0 .. released
  /\ up \in BOOLEAN /\ enabled \in BOOLEAN
  /\ running \in 0 .. released
  /\ disk \in {U!None, U!Partial} \cup 0 .. released
  /\ update \in {U!None, U!Partial} \cup 0 .. released
  /\ step \in {"idle", "download", "body", "verify", "chmod", "rename", "exit"}
  /\ entry \in 0 .. released
  /\ advertised \in 0 .. MaxAdvertised /\ crashes \in 0 .. MaxCrashes

(* A session that has returned has reaped its shell and closed its         *)
(* terminal and its connection, whichever of its steps failed; jobs the    *)
(* shell left in the background are nobody's and may go on.  A session     *)
(* that has not hears of the end of either pump at once, not at its        *)
(* deadline.                                                               *)
Cleaned(s) ==
  pc[s] = "ended" =>
    /\ shell[s] \in {"none", "reaped"}
    /\ pty[s] \in {"none", "closed"}
    /\ conn[s] \in {"none", "closed"}

PumpEndNoticed(s) == "ended" \in {out[s], in[s]} => closes[s] = 1

SessionsClean == \A s \in Sessions : Cleaned(s) /\ PumpEndNoticed(s)

(* What systemd starts is a whole build that was released, wherever the    *)
(* update before it failed or was cut off.                                 *)
WholeBinary == disk \in 0 .. released

(* The executable only ever becomes newer, whatever the manifest says, and *)
(* sessions are cut for a newer build or by a crash, not by a restart that *)
(* changes nothing.                                                        *)
UpdatesForward ==
  [][/\ disk' >= disk
     /\ up /\ ~up' => disk > running \/ crashes' > crashes]_vars

(* However its link, its shell and the jobs it leaves behave, a session is *)
(* over in the end, and both of its pumps with it.                         *)
Over(s) == pc[s] = "ended" /\ {out[s], in[s]} \subseteq {"none", "ended"}
SessionsEnd == \A s \in Sessions : (pc[s] # "idle") ~> (pc[s] = "idle" \/ Over(s))

(* Once the manifest stays as it is, the program runs what it advertises,  *)
(* or something newer, and goes on running it; only a process that found   *)
(* no download directory when it started goes on with what it is.          *)
Settles == <>[](up /\ (running >= manifest \/ ~enabled))
=============================================================================
