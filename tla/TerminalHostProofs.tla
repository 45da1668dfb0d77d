------------------------- MODULE TerminalHostProofs -------------------------
(***************************************************************************)
(* Proofs about the terminal program, for any number of sessions, releases,*)
(* changes of the manifest and crashes.                                    *)
(***************************************************************************)
EXTENDS TerminalHost, TLAPS

USE HostAssumption DEF U!None, U!Partial

(***************************************************************************)
(* The inductive invariant                                                 *)
(***************************************************************************)
(* What a session holds at each point of runSession, and that the end of a *)
(* pump has closed done.                                                   *)
SessionInv(s) ==
  /\ pc[s] \in {"idle", "dial"} => conn[s] = "none"
  /\ pc[s] \in {"idle", "dial", "start"} => shell[s] = "none" /\ pty[s] = "none"
  /\ pc[s] = "closePty" => shell[s] = "reaped"
  /\ pc[s] \in {"closeConn", "ended"} =>
       shell[s] \in {"none", "reaped"} /\ pty[s] \in {"none", "closed"}
  /\ pc[s] = "ended" => conn[s] \in {"none", "closed"}
  /\ PumpEndNoticed(s)

(* What is on disk is the build that runs until a newer one that was       *)
(* verified takes its place, and the process exits for it.                 *)
UpdateInv ==
  /\ step # "idle" => up /\ entry > running
  /\ step \in {"chmod", "rename"} => update = entry
  /\ disk \in 0 .. released
  /\ disk >= running
  /\ up /\ step # "exit" => disk = running
  /\ step = "exit" => disk > running

HostInv == TypeOK /\ (\A s \in Sessions : SessionInv(s)) /\ UpdateInv

(* The two parts of the type invariant.                                    *)
SessionTypes ==
  /\ pc \in [Sessions -> {"idle", "dial", "start", "status", "select", "kill", "wait",
                          "closePty", "closeConn", "ended"}]
  /\ conn \in [Sessions -> Link] /\ pty \in [Sessions -> Link \ {"broken"}]
  /\ shell \in [Sessions -> {"none", "running", "exited", "reaped"}]
  /\ jobs \in [Sessions -> BOOLEAN]
  /\ out \in [Sessions -> {"none", "read", "write", "ended"}]
  /\ in \in [Sessions -> {"none", "read", "write", "ended"}]
  /\ closes \in [Sessions -> 0 .. 1]

UpdateTypes ==
  /\ released \in 0 .. MaxVersion /\ manifest \in 0 .. released
  /\ up \in BOOLEAN /\ enabled \in BOOLEAN
  /\ running \in 0 .. released
  /\ disk \in {U!None, U!Partial} \cup 0 .. released
  /\ update \in {U!None, U!Partial} \cup 0 .. released
  /\ step \in {"idle", "download", "body", "verify", "chmod", "rename", "exit"}
  /\ entry \in 0 .. released
  /\ advertised \in 0 .. MaxAdvertised /\ crashes \in 0 .. MaxCrashes

SessionPart == SessionTypes /\ \A s \in Sessions : SessionInv(s)
UpdatePart == UpdateTypes /\ UpdateInv

LEMMA Parts == HostInv <=> SessionPart /\ UpdatePart
BY DEF HostInv, TypeOK, SessionPart, UpdatePart, SessionTypes, UpdateTypes

-----------------------------------------------------------------------------
(* Sessions                                                                *)

(* A step of one session.                                                  *)
LEMMA RunKeeps ==
  ASSUME SessionPart, NEW s \in Sessions, S!HandleStart(s) \/ S!RunSession(s)
  PROVE  SessionPart'
<1> USE DEF SessionPart, SessionTypes, SessionInv, PumpEndNoticed, Link, S!Goto, S!Pumps
<1>1. CASE S!HandleStart(s)
  BY <1>1 DEF S!HandleStart
<1>2. CASE S!Dial(s)
  BY <1>2 DEF S!Dial
<1>3. CASE S!StartShell(s)
  BY <1>3 DEF S!StartShell
<1>4. CASE S!StartPumps(s)
  BY <1>4 DEF S!StartPumps
<1>5. CASE S!Done(s) \/ S!Deadline(s)
  BY <1>5 DEF S!Done, S!Deadline, S!CloseDone
<1>6. CASE S!Kill(s)
  BY <1>6 DEF S!Kill
<1>7. CASE S!Wait(s)
  BY <1>7 DEF S!Wait
<1>8. CASE S!ClosePty(s)
  BY <1>8 DEF S!ClosePty
<1>9. CASE S!CloseConn(s)
  BY <1>9 DEF S!CloseConn
<1> QED
  BY <1>1, <1>2, <1>3, <1>4, <1>5, <1>6, <1>7, <1>8, <1>9 DEF S!RunSession

LEMMA PumpKeeps ==
  ASSUME SessionPart, NEW s \in Sessions,
         \/ S!OutRead(s) \/ S!OutWrite(s) \/ S!OutFails(s)
         \/ S!InRead(s) \/ S!InWrite(s) \/ S!InFails(s)
  PROVE  SessionPart'
<1> USE DEF SessionPart, SessionTypes, SessionInv, PumpEndNoticed, Link, S!Step
<1>1. CASE S!OutRead(s) \/ S!OutWrite(s)
  BY <1>1 DEF S!OutRead, S!OutWrite
<1>2. CASE S!OutFails(s)
  BY <1>2 DEF S!OutFails, S!CloseDone
<1>3. CASE S!InRead(s) \/ S!InWrite(s)
  BY <1>3 DEF S!InRead, S!InWrite
<1>4. CASE S!InFails(s)
  BY <1>4 DEF S!InFails, S!CloseDone
<1> QED
  BY <1>1, <1>2, <1>3, <1>4

LEMMA WorldKeeps ==
  ASSUME SessionPart, NEW s \in Sessions, S!Environment(s)
  PROVE  SessionPart'
<1> USE DEF SessionPart, SessionTypes, SessionInv, PumpEndNoticed, Link, S!Pumps
<1>1. CASE S!ShellExits(s)
  BY <1>1 DEF S!ShellExits
<1>2. CASE S!JobStarts(s) \/ S!JobsEnd(s)
  <2>1. UNCHANGED <<pc, conn, pty, shell, out, in, closes>>
    BY <1>2 DEF S!JobStarts, S!JobsEnd
  <2>2. jobs' \in [Sessions -> BOOLEAN]
    BY <1>2 DEF S!JobStarts, S!JobsEnd
  <2> QED
    BY <2>1, <2>2
<1>3. CASE S!LinkDown(s)
  BY <1>3 DEF S!LinkDown
<1> QED
  BY <1>1, <1>2, <1>3 DEF S!Environment

LEMMA DieKeeps == S!Die => SessionPart'
BY DEF SessionPart, SessionTypes, SessionInv, PumpEndNoticed, Link, S!Die, S!None

LEMMA SessionsStay == SessionPart /\ UNCHANGED sessions => SessionPart'
BY DEF SessionPart, SessionTypes, SessionInv, PumpEndNoticed, sessions

-----------------------------------------------------------------------------
(* Updates                                                                 *)

LEMMA ServerKeeps ==
  ASSUME UpdatePart, U!Release \/ \E v \in 1 .. released \ {manifest} : U!Advertise(v)
  PROVE  UpdatePart'
BY DEF UpdatePart, UpdateTypes, UpdateInv, U!Release, U!Advertise, U!process

LEMMA ApplyKeeps ==
  ASSUME UpdatePart, U!CheckAndApply
  PROVE  UpdatePart'
<1> USE DEF UpdatePart, UpdateTypes, UpdateInv, U!At, U!Goto, U!GiveUp, U!server, U!process
<1>1. CASE U!Check
  BY <1>1 DEF U!Check, U!IsNewer
<1>2. CASE U!Download
  BY <1>2 DEF U!Download
<1>3. CASE U!DownloadBody
  BY <1>3 DEF U!DownloadBody
<1>4. CASE U!Verify
  BY <1>4 DEF U!Verify, U!Verified
<1>5. CASE U!Chmod
  BY <1>5 DEF U!Chmod
<1>6. CASE U!Rename
  <2>1. /\ disk' = update /\ update' = U!None /\ step' = "exit"
        /\ UNCHANGED <<released, manifest, advertised, up, running, enabled, entry, crashes>>
        /\ update = entry /\ entry > running /\ up
     \/ U!GiveUp
    BY <1>6 DEF U!Rename
  <2>2. UpdateTypes'
    BY <1>6, <2>1 DEF U!Rename
  <2>3. UpdateInv'
    <3>1. CASE U!GiveUp
      BY <1>6, <3>1 DEF U!Rename
    <3>2. CASE disk' = update /\ step' = "exit"
      BY <1>6, <2>1, <3>2 DEF U!Rename
    <3> QED
      BY <2>1, <3>1, <3>2
  <2> QED
    BY <2>2, <2>3
<1> QED
  BY <1>1, <1>2, <1>3, <1>4, <1>5, <1>6 DEF U!CheckAndApply

LEMMA ProcessKeeps ==
  ASSUME UpdatePart, U!Exit \/ U!Crash \/ U!Restart
  PROVE  UpdatePart'
<1> USE DEF UpdatePart, UpdateTypes, UpdateInv
<1>1. CASE U!Exit \/ U!Crash
  <2>1. /\ up' = FALSE /\ step' = "idle" /\ entry' = 0
        /\ UNCHANGED <<released, manifest, advertised, running, enabled, disk, update>>
        /\ crashes' \in 0 .. MaxCrashes
    BY <1>1 DEF U!Exit, U!Crash, U!Down, U!server, U!process
  <2>2. UpdateTypes'
    <3>1. up' \in BOOLEAN
      BY <2>1, Zenon
    <3>2. entry' \in 0 .. released' /\ step' \in {"idle", "exit"}
      BY <2>1
    <3> QED
      BY <2>1, <3>1, <3>2
  <2>3. UpdateInv'
    BY <2>1
  <2> QED
    BY <2>2, <2>3
<1>2. CASE U!Restart
  BY <1>2 DEF U!Restart, U!server, U!process
<1> QED
  BY <1>1, <1>2

LEMMA UpdatesStay == UpdatePart /\ UNCHANGED updates => UpdatePart'
BY DEF UpdatePart, UpdateTypes, UpdateInv, updates

-----------------------------------------------------------------------------
(* The invariant and what follows from it                                  *)

LEMMA HostInit == Init => HostInv
<1> SUFFICES ASSUME Init PROVE SessionPart /\ UpdatePart
  BY Parts
<1>1. SessionPart
  BY DEF Init, S!Init, S!None, SessionPart, SessionTypes, SessionInv, PumpEndNoticed, Link
<1>2. UpdatePart
  BY DEF Init, U!Init, UpdatePart, UpdateTypes, UpdateInv
<1> QED
  BY <1>1, <1>2

LEMMA HostNext == HostInv /\ [Next]_vars => HostInv'
<1> SUFFICES ASSUME SessionPart, UpdatePart, [Next]_vars
             PROVE  SessionPart' /\ UpdatePart'
  BY Parts DEF HostInv, TypeOK, SessionPart, UpdatePart, SessionTypes, UpdateTypes
<1>1. CASE Sessioning
  <2>1. SessionPart'
    BY <1>1, RunKeeps, PumpKeeps, WorldKeeps DEF Sessioning, S!Next
  <2> QED
    BY <1>1, <2>1, UpdatesStay DEF Sessioning
<1>2. CASE Updating
  BY <1>2, ServerKeeps, ApplyKeeps, ProcessKeeps, SessionsStay DEF Updating
<1>3. CASE Stopping
  BY <1>3, ProcessKeeps, DieKeeps DEF Stopping
<1>4. CASE UNCHANGED vars
  BY <1>4, SessionsStay, UpdatesStay DEF vars
<1> QED
  BY <1>1, <1>2, <1>3, <1>4 DEF Next

(* The inductive invariant of the terminal program.                        *)
THEOREM HostSafe == Spec => []HostInv
<1> QED
  BY HostInit, HostNext, PTL DEF Spec

(* Every reachable state of the terminal program is well typed.            *)
THEOREM HostTypes == Spec => []TypeOK
<1>1. HostInv => TypeOK
  BY DEF HostInv
<1> QED
  BY <1>1, HostSafe, PTL

(* A session that has returned has reaped its shell and closed its         *)
(* terminal and its connection, and the end of a pump is noticed at once.  *)
THEOREM SessionsReleaseAll == Spec => []SessionsClean
<1>1. HostInv => SessionsClean
  BY DEF HostInv, SessionInv, SessionsClean, Cleaned
<1> QED
  BY <1>1, HostSafe, PTL

(* The executable is a whole released build at all times.                  *)
THEOREM AlwaysWhole == Spec => []WholeBinary
<1>1. HostInv => WholeBinary
  BY DEF HostInv, UpdateInv, WholeBinary
<1> QED
  BY <1>1, HostSafe, PTL

(* The executable only becomes newer, and the process ends only for a      *)
(* newer one or in a crash.                                                *)
THEOREM OnlyForward == Spec => UpdatesForward
<1>1. HostInv /\ [Next]_vars =>
        [/\ disk' >= disk
         /\ up /\ ~up' => disk > running \/ crashes' > crashes]_vars
  <2> SUFFICES ASSUME UpdatePart, Next
               PROVE  /\ disk' >= disk
                      /\ up /\ ~up' => disk > running \/ crashes' > crashes
    BY Parts
  <2> USE DEF UpdatePart, UpdateTypes, UpdateInv
  <2>1. CASE Sessioning
    BY <2>1 DEF Sessioning, updates
  <2>2. CASE Updating
    BY <2>2 DEF Updating, U!CheckAndApply, U!Check, U!Download, U!DownloadBody, U!Verify,
       U!Chmod, U!Rename, U!Restart, U!Release, U!Advertise, U!At, U!Goto, U!GiveUp, U!process
  <2>3. CASE Stopping
    BY <2>3 DEF Stopping, U!Exit, U!Crash, U!Down, U!At
  <2> QED
    BY <2>1, <2>2, <2>3 DEF Next
<1> QED
  BY <1>1, HostSafe, PTL DEF Spec, UpdatesForward
=============================================================================
