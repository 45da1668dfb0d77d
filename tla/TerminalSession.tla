-------------------------- MODULE TerminalSession --------------------------
(***************************************************************************)
(* The terminal sessions of internal/terminal/manager.go.  A session is a  *)
(* goroutine that dials the relay, starts a shell on a pseudo-terminal and *)
(* waits for the end; two pumps carry the shell's output to the relay and  *)
(* keystrokes to the shell.  Each pump blocks in a read or a write until   *)
(* the other side of it answers or is closed.  Meanwhile the link fails,   *)
(* the shell exits, and jobs it left in the background hold the terminal.  *)
(*                                                                         *)
(* Sessions share nothing.  Output and keystrokes have no content here,    *)
(* and resize messages change nothing.                                     *)
(***************************************************************************)
EXTENDS Naturals

CONSTANT Sessions    (* sessions asked for during the life of the process  *)

VARIABLES
  pc,        (* pc[s]: where runSession is                                 *)
  conn,      (* its connection to the relay                                *)
  pty,       (* its end of the pseudo-terminal                             *)
  shell,     (* its child process                                          *)
  jobs,      (* jobs[s]: descendants of the shell keep the terminal open   *)
  out, in,   (* the pumps, terminal to relay and relay to terminal         *)
  closes     (* closes[s]: how often the channel done was closed           *)

vars == <<pc, conn, pty, shell, jobs, out, in, closes>>

None == [s \in Sessions |-> "none"]

Init ==
  /\ pc = [s \in Sessions |-> "idle"]
  /\ conn = None /\ pty = None /\ shell = None
  /\ jobs = [s \in Sessions |-> FALSE]
  /\ out = None /\ in = None
  /\ closes = [s \in Sessions |-> 0]

Goto(s, from, to) == pc[s] = from /\ pc' = [pc EXCEPT ![s] = to]
Pumps == <<out, in>>

(***************************************************************************)
(* runSession                                                              *)
(***************************************************************************)
HandleStart(s) ==
  /\ Goto(s, "idle", "dial")
  /\ UNCHANGED <<conn, pty, shell, jobs, Pumps, closes>>

Dial(s) ==
  /\ \/ Goto(s, "dial", "start") /\ conn' = [conn EXCEPT ![s] = "open"]
     \/ Goto(s, "dial", "ended") /\ UNCHANGED conn
  /\ UNCHANGED <<pty, shell, jobs, Pumps, closes>>

(* Seeded fault: the connection is not closed when the shell cannot start. *)
StartShell_Leaks(s) ==
  /\ \/ /\ Goto(s, "start", "status")
        /\ pty' = [pty EXCEPT ![s] = "open"]
        /\ shell' = [shell EXCEPT ![s] = "running"]
     \/ Goto(s, "start", "ended") /\ UNCHANGED <<pty, shell>>
  /\ UNCHANGED <<conn, jobs, Pumps, closes>>

StartShell(s) ==
  /\ \/ /\ Goto(s, "start", "status")
        /\ pty' = [pty EXCEPT ![s] = "open"]
        /\ shell' = [shell EXCEPT ![s] = "running"]
     \/ Goto(s, "start", "closeConn") /\ UNCHANGED <<pty, shell>>
  /\ UNCHANGED <<conn, jobs, Pumps, closes>>

(* The active status is sent, its failure only logged; the pumps start.    *)
StartPumps(s) ==
  /\ Goto(s, "status", "select")
  /\ out' = [out EXCEPT ![s] = "read"] /\ in' = [in EXCEPT ![s] = "read"]
  /\ UNCHANGED <<conn, pty, shell, jobs, closes>>

(* Seeded fault: close(done) without the sync.Once.                        *)
CloseDone_Again(s) == closes' = [closes EXCEPT ![s] = @ + 1]

CloseDone(s) == closes' = [closes EXCEPT ![s] = 1]

Done(s) ==
  /\ closes[s] > 0
  /\ Goto(s, "select", "kill")
  /\ UNCHANGED <<conn, pty, shell, jobs, Pumps, closes>>

(* maxSessionDuration.                                                     *)
Deadline(s) ==
  /\ Goto(s, "select", "kill")
  /\ CloseDone(s)
  /\ UNCHANGED <<conn, pty, shell, jobs, Pumps>>

(* Seeded fault: the shell is left to notice the hang-up by itself.        *)
Kill_Omitted(s) ==
  /\ Goto(s, "kill", "wait")
  /\ UNCHANGED <<conn, pty, shell, jobs, Pumps, closes>>

Kill(s) ==
  /\ Goto(s, "kill", "wait")
  /\ shell' = [shell EXCEPT ![s] = "exited"]
  /\ UNCHANGED <<conn, pty, jobs, Pumps, closes>>

Wait(s) ==
  /\ shell[s] = "exited"
  /\ Goto(s, "wait", "closePty")
  /\ shell' = [shell EXCEPT ![s] = "reaped"]
  /\ UNCHANGED <<conn, pty, jobs, Pumps, closes>>

(* The deferred calls, last first.                                         *)
ClosePty(s) ==
  /\ Goto(s, "closePty", "closeConn")
  /\ pty' = [pty EXCEPT ![s] = "closed"]
  /\ UNCHANGED <<conn, shell, jobs, Pumps, closes>>

CloseConn(s) ==
  /\ Goto(s, "closeConn", "ended")
  /\ conn' = [conn EXCEPT ![s] = "closed"]
  /\ UNCHANGED <<pty, shell, jobs, Pumps, closes>>

(***************************************************************************)
(* The pumps                                                               *)
(***************************************************************************)
Step(pump, s, from, to) == pump[s] = from /\ pump' = [pump EXCEPT ![s] = to]

(* Somebody has the terminal open: a read of our end waits for output.     *)
InUse(s) == pty[s] = "open" /\ (shell[s] = "running" \/ jobs[s])

OutRead(s) ==
  /\ InUse(s)
  /\ Step(out, s, "read", "write")
  /\ UNCHANGED <<pc, conn, pty, shell, jobs, in, closes>>

OutWrite(s) ==
  /\ conn[s] = "open"
  /\ Step(out, s, "write", "read")
  /\ UNCHANGED <<pc, conn, pty, shell, jobs, in, closes>>

OutFails(s) ==
  /\ \/ Step(out, s, "read", "ended") /\ ~InUse(s)
     \/ Step(out, s, "write", "ended") /\ conn[s] # "open"
  /\ CloseDone(s)
  /\ UNCHANGED <<pc, conn, pty, shell, jobs, in>>

InRead(s) ==
  /\ conn[s] = "open"
  /\ Step(in, s, "read", "write")
  /\ UNCHANGED <<pc, conn, pty, shell, jobs, out, closes>>

InWrite(s) ==
  /\ pty[s] = "open"
  /\ Step(in, s, "write", "read")
  /\ UNCHANGED <<pc, conn, pty, shell, jobs, out, closes>>

InFails(s) ==
  /\ \/ Step(in, s, "read", "ended") /\ conn[s] # "open"
     \/ Step(in, s, "write", "ended") /\ ~InUse(s)
  /\ CloseDone(s)
  /\ UNCHANGED <<pc, conn, pty, shell, jobs, out>>

(***************************************************************************)
(* The shell, its jobs and the link                                        *)
(***************************************************************************)
ShellExits(s) ==
  /\ shell[s] = "running"
  /\ shell' = [shell EXCEPT ![s] = "exited"]
  /\ UNCHANGED <<pc, conn, pty, jobs, Pumps, closes>>

JobStarts(s) ==
  /\ shell[s] = "running" /\ ~jobs[s]
  /\ jobs' = [jobs EXCEPT ![s] = TRUE]
  /\ UNCHANGED <<pc, conn, pty, shell, Pumps, closes>>

JobsEnd(s) ==
  /\ jobs[s]
  /\ jobs' = [jobs EXCEPT ![s] = FALSE]
  /\ UNCHANGED <<pc, conn, pty, shell, Pumps, closes>>

LinkDown(s) ==
  /\ conn[s] = "open"
  /\ conn' = [conn EXCEPT ![s] = "broken"]
  /\ UNCHANGED <<pc, pty, shell, jobs, Pumps, closes>>

(* The process dies: its goroutines are gone, and with it everything in    *)
(* its control group, the shells included.                                 *)
Die ==
  /\ pc' = [s \in Sessions |-> "idle"]
  /\ conn' = None /\ pty' = None /\ shell' = None
  /\ jobs' = [s \in Sessions |-> FALSE]
  /\ out' = None /\ in' = None
  /\ closes' = [s \in Sessions |-> 0]

(***************************************************************************)
(* Steps, and which of them cannot be put off for ever                     *)
(***************************************************************************)
RunSession(s) ==
  \/ Dial(s) \/ StartShell(s) \/ StartPumps(s)
  \/ Done(s) \/ Deadline(s)
  \/ Kill(s) \/ Wait(s) \/ ClosePty(s) \/ CloseConn(s)

Environment(s) == ShellExits(s) \/ JobStarts(s) \/ JobsEnd(s) \/ LinkDown(s)

Next == \E s \in Sessions :
  \/ HandleStart(s)
  \/ RunSession(s)
  \/ OutRead(s) \/ OutWrite(s) \/ OutFails(s)
  \/ InRead(s) \/ InWrite(s) \/ InFails(s)
  \/ Environment(s)

(* A call of runSession returns or has a timeout, and a read or write that *)
(* has failed returns.  One that waits for the relay or the shell may wait *)
(* for ever.                                                               *)
Fairness == \A s \in Sessions :
  WF_vars(RunSession(s)) /\ WF_vars(OutFails(s)) /\ WF_vars(InFails(s))
=============================================================================
