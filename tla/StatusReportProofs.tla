------------------------- MODULE StatusReportProofs -------------------------
(***************************************************************************)
(* Proofs about the status reports, for any containers and files, any      *)
(* number of commands and crashes, and any meddling.                       *)
(***************************************************************************)
EXTENDS StatusReport, FiniteSetTheorems, TLAPS

USE ReportAssumption

(***************************************************************************)
(* The inductive invariant                                                 *)
(***************************************************************************)
(* From its first reading to its post, what the callback has read is what  *)
(* is there, unless others have changed it.                                *)
CallbackInv ==
  ~meddled =>
    /\ step["callback"] \in {"read", "sent"} => report["callback"].state = ctr
    /\ step["callback"] = "sent" => report["callback"].vars \in {files, "partial"}

ReportInv == TypeOK /\ CallbackInv

-----------------------------------------------------------------------------
(* Types                                                                   *)

(* A report, read and completed.                                           *)
LEMMA ReportTyped ==
  ASSUME TypeOK
  PROVE  /\ [state |-> ctr, vars |-> "unread"] \in Report
         /\ \A R \in Report, v \in FileStates \cup {"partial"} : [R EXCEPT !.vars = v] \in Report
         /\ files \in FileStates \cup {"partial"}
BY DEF TypeOK, Report

(* What is on its way to the server is one report at most.                 *)
LEMMA LateTyped ==
  /\ {} \in SUBSET Report /\ Cardinality({}) <= 1
  /\ \A R \in Report : {R} \in SUBSET Report /\ Cardinality({R}) <= 1
<1>1. Cardinality({}) = 0
  BY FS_EmptySet
<1>2. \A R \in Report : Cardinality({R}) = 1
  BY FS_Singleton
<1> QED
  BY <1>1, <1>2

(* The ways a reporter moves on, with what it then holds.                  *)
Moved(r, to, R) ==
  /\ step' = [step EXCEPT ![r] = to]
  /\ report' = [report EXCEPT ![r] = R]

LEMMA MovedTypes ==
  ASSUME TypeOK, NEW r \in Reporters, NEW to \in Steps, NEW R,
         R \in IF to \in {"read", "sent"} THEN Report ELSE {Unknown},
         Moved(r, to, R)
  PROVE  /\ step' \in [Reporters -> Steps]
         /\ report' \in [Reporters -> Report \cup {Unknown}]
         /\ \A q \in Reporters :
              report'[q] \in IF step'[q] \in {"read", "sent"} THEN Report ELSE {Unknown}
         /\ step'[r] = to /\ report'[r] = R
         /\ \A q \in Reporters \ {r} : step'[q] = step[q] /\ report'[q] = report[q]
<1>1. /\ step \in [Reporters -> Steps]
      /\ report \in [Reporters -> Report \cup {Unknown}]
      /\ \A q \in Reporters :
           report[q] \in IF step[q] \in {"read", "sent"} THEN Report ELSE {Unknown}
  BY DEF TypeOK
<1>2. R \in Report \cup {Unknown}
  OBVIOUS
<1> QED
  BY <1>1, <1>2 DEF Moved

-----------------------------------------------------------------------------
(* Reporters                                                               *)

(* What every step of a reporter keeps of the types.                       *)
LEMMA ReporterTypes ==
  ASSUME TypeOK, NEW r \in Reporters, NEW to \in Steps, NEW R,
         R \in IF to \in {"read", "sent"} THEN Report ELSE {Unknown},
         Moved(r, to, R),
         r = "callback" => phase = "callback",
         UNCHANGED <<engine, cmds, meddling>>, meddled' \in BOOLEAN,
         late' \in SUBSET Report, Cardinality(late') <= 1,
         server' \in Report \cup {Unknown}
  PROVE  TypeOK'
<1>1. step'["callback"] # "idle" => phase' = "callback"
  BY MovedTypes DEF TypeOK, engine, Reporters
<1> QED
  BY <1>1, MovedTypes DEF TypeOK, engine

(* The ends of a report.                                                   *)
LEMMA QuitMoves ==
  ASSUME NEW r \in Reporters, Quit(r)
  PROVE  \E to \in {"idle", "done"} : Moved(r, to, Unknown)
BY DEF Quit, Rest, Moved

LEMMA ReporterKeeps ==
  ASSUME ReportInv, NEW r \in Reporters, ReportStatus(r)
  PROVE  ReportInv'
<1>1. TypeOK /\ CallbackInv /\ late \in SUBSET Report /\ Cardinality(late) <= 1
      /\ server \in Report \cup {Unknown} /\ meddled \in BOOLEAN
  BY DEF ReportInv, TypeOK
<1>2. {"idle", "read", "sent", "done"} \subseteq Steps /\ "callback" \in Reporters
  BY DEF Steps, Reporters
<1>3. r = "callback" => phase = "callback"
  BY <1>1 DEF TypeOK, ReportStatus, Ps, PsFails, MayStart, ReadVars, Answer, Refused
<1>4. CASE Ps(r)
  <2> DEFINE R == [state |-> ctr, vars |-> "unread"]
  <2>1. /\ Moved(r, "read", R) /\ meddled' = (r # "callback" /\ meddled)
        /\ UNCHANGED <<engine, posts, cmds, meddling>>
    BY <1>4 DEF Ps, Moved
  <2>2. R \in Report
    BY <1>1, ReportTyped
  <2>3. meddled' \in BOOLEAN
    BY <2>1, Zenon
  <2>4. TypeOK'
    BY <1>1, <1>2, <1>3, <2>1, <2>2, <2>3, ReporterTypes DEF posts
  <2>5. CallbackInv'
    <3>1. CASE r = "callback"
      BY <1>1, <1>2, <2>1, <2>2, <3>1, MovedTypes DEF CallbackInv, engine
    <3>2. CASE r # "callback"
      BY <1>1, <1>2, <2>1, <2>2, <3>2, MovedTypes DEF CallbackInv, engine
    <3> QED
      BY <3>1, <3>2
  <2> QED
    BY <2>4, <2>5 DEF ReportInv
<1>5. ASSUME NEW v \in FileStates \cup {"partial"}, v \in {files, "partial"}, ReadVars(r, v)
      PROVE  ReportInv'
  <2> DEFINE R == [report[r] EXCEPT !.vars = v]
  <2>1. /\ Moved(r, "sent", R) /\ step[r] = "read"
        /\ UNCHANGED <<engine, posts, meddled, cmds, meddling>>
    BY <1>5 DEF ReadVars, Moved
  <2>2. report[r] \in Report
    BY <1>1, <2>1 DEF TypeOK
  <2>3. R \in Report /\ R.state = report[r].state /\ R.vars = v
    BY <1>1, <2>2, ReportTyped DEF Report
  <2> HIDE DEF R
  <2>4. TypeOK'
    BY <1>1, <1>2, <1>3, <2>1, <2>3, ReporterTypes DEF posts
  <2>5. CallbackInv'
    <3>1. CASE r = "callback"
      BY <1>1, <1>2, <1>5, <2>1, <2>3, <3>1, MovedTypes DEF CallbackInv, engine
    <3>2. CASE r # "callback"
      BY <1>1, <1>2, <2>1, <2>3, <3>2, MovedTypes DEF CallbackInv, engine
    <3> QED
      BY <3>1, <3>2
  <2> QED
    BY <2>4, <2>5 DEF ReportInv
<1>6. ASSUME Quit(r), UNCHANGED <<engine, meddled, cmds, meddling>>,
             late' \in SUBSET Report, Cardinality(late') <= 1, server' \in Report \cup {Unknown}
      PROVE  ReportInv'
  <2>1. PICK to \in {"idle", "done"} : Moved(r, to, Unknown)
    BY <1>6, QuitMoves
  <2>2. TypeOK'
    BY <1>1, <1>2, <1>3, <1>6, <2>1, ReporterTypes
  <2>3. CallbackInv'
    <3>1. CASE r = "callback"
      BY <1>1, <1>2, <1>6, <2>1, <3>1, MovedTypes DEF CallbackInv
    <3>2. CASE r # "callback"
      BY <1>1, <1>2, <1>6, <2>1, <3>2, MovedTypes DEF CallbackInv, engine
    <3> QED
      BY <3>1, <3>2
  <2> QED
    BY <2>2, <2>3 DEF ReportInv
<1>7. CASE PsFails(r)
  BY <1>1, <1>6, <1>7 DEF PsFails, posts
<1>8. CASE Answer(r) \/ Refused(r)
  <2>1. report[r] \in Report
    BY <1>1, <1>8 DEF Answer, Refused, TypeOK
  <2> QED
    BY <1>1, <1>6, <1>8, <2>1, LateTyped DEF Answer, Refused
<1>9. CASE ReadVars(r, files) \/ ReadVars(r, "partial")
  BY <1>1, <1>5, <1>9, ReportTyped
<1> QED
  BY <1>4, <1>7, <1>8, <1>9 DEF ReportStatus

-----------------------------------------------------------------------------
(* The engine, the others and the process                                  *)

LEMMA CommandKeeps ==
  ASSUME ReportInv, Command
  PROVE  ReportInv'
<1>1. phase \in {"idle", "working"} /\ UNCHANGED <<reporters, posts, meddled, meddling>>
  BY DEF Command, L!Begin, L!Change, L!End
<1>2. step["callback"] = "idle" /\ step'["callback"] = "idle"
  BY <1>1 DEF ReportInv, TypeOK, reporters
<1>3. /\ phase' \in {"idle", "working", "callback"}
      /\ ctr' \in [Containers -> States] /\ files' \in FileStates
      /\ cmds' \in 0 .. MaxCmds /\ UNCHANGED crashes
  BY DEF Command, L!Begin, L!Change, L!End, ReportInv, TypeOK
<1>4. TypeOK'
  BY <1>1, <1>2, <1>3 DEF ReportInv, TypeOK, reporters, posts
<1> QED
  BY <1>2, <1>4 DEF ReportInv, CallbackInv

LEMMA ReturnKeeps ==
  ASSUME ReportInv, Return
  PROVE  ReportInv'
<1>1. /\ Moved("callback", "idle", Unknown)
      /\ phase' = "idle" /\ UNCHANGED <<ctr, files, crashes, posts, meddled, cmds, meddling>>
  <2>1. report["callback"] = Unknown /\ report \in [Reporters -> Report \cup {Unknown}]
    BY DEF Return, ReportInv, TypeOK, Reporters
  <2>2. report = [report EXCEPT !["callback"] = Unknown]
    BY <2>1
  <2> QED
    BY <2>2 DEF Return, L!Return, Moved
<1>2. "callback" \in Reporters /\ "idle" \in Steps
  BY DEF Reporters, Steps
<1>3. TypeOK'
  BY <1>1, <1>2, MovedTypes DEF ReportInv, TypeOK, posts
<1>4. step'["callback"] = "idle"
  BY <1>1, <1>2, MovedTypes DEF ReportInv
<1> QED
  BY <1>3, <1>4 DEF ReportInv, CallbackInv

LEMMA MeddleKeeps ==
  ASSUME ReportInv, Meddle
  PROVE  ReportInv'
<1>1. /\ ctr' \in [Containers -> States] /\ files' \in FileStates
      /\ meddling' \in 0 .. MaxMeddling
      /\ UNCHANGED <<phase, crashes, step, report, late, server, cmds>>
  BY DEF Meddle, ReportInv, TypeOK, reporters, posts
<1>2. meddled' = (step["callback"] \notin {"idle", "done"})
  BY DEF Meddle
<1>3. meddled' \in BOOLEAN
  BY <1>2, Zenon
<1>4. TypeOK'
  BY <1>1, <1>3 DEF ReportInv, TypeOK
<1>5. CallbackInv'
  BY <1>1, <1>2 DEF CallbackInv
<1> QED
  BY <1>4, <1>5 DEF ReportInv

LEMMA CrashKeeps ==
  ASSUME ReportInv, Crash
  PROVE  ReportInv'
<1>1. /\ phase' = "idle" /\ crashes' \in 0 .. MaxCrashes
      /\ UNCHANGED <<ctr, files, server, meddled, cmds, meddling>>
      /\ step' = [r \in Reporters |-> "idle"] /\ report' = [r \in Reporters |-> Unknown]
  BY DEF Crash, L!Crash, Nothing, ReportInv, TypeOK
<1>2. late' \in SUBSET Report /\ Cardinality(late') <= 1
  <2>1. \A r \in Reporters : step[r] = "sent" => report[r] \in Report
    BY DEF ReportInv, TypeOK
  <2>2. late' = late \/ \E r \in Reporters : step[r] = "sent" /\ late' = {report[r]}
    BY DEF Crash
  <2> QED
    BY <2>1, <2>2, LateTyped DEF ReportInv, TypeOK
<1>3. TypeOK'
  BY <1>1, <1>2 DEF ReportInv, TypeOK, Steps, Reporters
<1>4. CallbackInv'
  BY <1>1 DEF CallbackInv, Reporters
<1> QED
  BY <1>3, <1>4 DEF ReportInv

LEMMA LateKeeps ==
  ASSUME ReportInv, LatePost
  PROVE  ReportInv'
<1>1. /\ server' \in Report \cup {Unknown} /\ late' \in SUBSET Report
      /\ Cardinality(late') <= 1
  BY LateTyped DEF LatePost, ReportInv, TypeOK
<1> QED
  BY <1>1 DEF LatePost, ReportInv, TypeOK, CallbackInv, engine, reporters

-----------------------------------------------------------------------------
(* The invariant and what follows from it                                  *)

LEMMA ReportInit == Init => ReportInv
<1> SUFFICES ASSUME Init PROVE ReportInv
  OBVIOUS
<1>1. late \in SUBSET Report /\ Cardinality(late) <= 1
  BY LateTyped DEF Init
<1>2. 0 \in 0 .. MaxCmds /\ 0 \in 0 .. MaxCrashes /\ 0 \in 0 .. MaxMeddling
  OBVIOUS
<1>3. /\ step = [r \in Reporters |-> "idle"] /\ report = [r \in Reporters |-> Unknown]
      /\ phase = "idle" /\ ctr \in [Containers -> States] /\ files \in FileStates
      /\ server = Unknown /\ meddled = FALSE /\ "callback" \in Reporters
      /\ cmds = 0 /\ crashes = 0 /\ meddling = 0
  BY DEF Init, L!Init, Nothing, Reporters
<1>4. TypeOK
  BY <1>1, <1>2, <1>3 DEF TypeOK, Steps
<1> QED
  BY <1>3, <1>4 DEF ReportInv, CallbackInv

LEMMA ReportNext == ReportInv /\ [Next]_vars => ReportInv'
<1> SUFFICES ASSUME ReportInv, [Next]_vars PROVE ReportInv'
  OBVIOUS
<1>1. CASE UNCHANGED vars
  BY <1>1 DEF vars, engine, reporters, posts, ReportInv, TypeOK, CallbackInv
<1> QED
  BY <1>1, CommandKeeps, ReturnKeeps, CrashKeeps, MeddleKeeps, ReporterKeeps, LateKeeps
  DEF Next

(* The inductive invariant of the reports.                                 *)
THEOREM ReportsSafe == Spec => []ReportInv
<1> QED
  BY ReportInit, ReportNext, PTL DEF Spec

(* Every reachable state of the reports is well typed.                     *)
THEOREM ReportTypes == Spec => []TypeOK
<1>1. ReportInv => TypeOK
  BY DEF ReportInv
<1> QED
  BY <1>1, ReportsSafe, PTL

(* What the process callback posts after a command is what the command     *)
(* left, unless others have meddled meanwhile.                             *)
THEOREM CallbackPostsTruth == Spec => []CallbackIsTrue
<1>1. ReportInv => CallbackIsTrue
  BY DEF ReportInv, CallbackInv, CallbackIsTrue
<1> QED
  BY <1>1, ReportsSafe, PTL
=============================================================================
