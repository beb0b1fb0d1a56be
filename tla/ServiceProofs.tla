----------------------------- MODULE ServiceProofs ----------------------------
(***************************************************************************)
(* Theorems about module Service, the service's threads and the SCM, for   *)
(* any number of starts of the program.                                    *)
(***************************************************************************)
EXTENDS Service, TLAPS

-------------------------------------------------------------------------------
(* Type correctness. *)

\* Every variable of the service model stays in its range.
THEOREM TypeCorrect == SafeSpec => []TypeOK
<1>1. Init => TypeOK
  <2> SUFFICES ASSUME Init PROVE TypeOK
    OBVIOUS
  <2> USE DEF Init, SvcStates, NoStatus, NoCall, Off, Labels, Threads,
              Reporters, ReportSteps
  <2>1. NoStatus \in Status
    BY DEF Status
  <2>2. pc \in [Threads -> Labels]
    OBVIOUS
  <2>3. call \in [Reporters -> [state : SvcStates, ret : Labels]]
    OBVIOUS
  <2> QED
    BY <2>1, <2>2, <2>3 DEF TypeOK
<1>2. TypeOK /\ [Next]_vars => TypeOK'
  <2> SUFFICES ASSUME TypeOK, [Next]_vars PROVE TypeOK'
    OBVIOUS
  <2> USE DEF TypeOK, Status, SvcStates, NoStatus, NoCall, Off, Labels,
              Threads, Reporters, ReportSteps, osvars
  <2>1. CASE MainEnter
    BY <2>1 DEF MainEnter
  <2>2. CASE ConsoleMyMainReturns
    BY <2>2 DEF ConsoleMyMainReturns, Goto
  <2>3. CASE HandleStop
    BY <2>3 DEF HandleStop, CallReport, Goto
  <2>4. CASE HandlerSetEvent
    BY <2>4 DEF HandlerSetEvent, Goto
  <2>5. CASE HandlerReportAgain
    BY <2>5 DEF HandlerReportAgain, CallReport, Goto
  <2>6. CASE HandleOther
    BY <2>6 DEF HandleOther
  <2>7. CASE DispatcherReturns
    BY <2>7 DEF DispatcherReturns, ProcessEnd
  <2>8. ASSUME NEW t \in Reporters, ReportSvcStatus(t) PROVE TypeOK'
    <3>1. CASE WriteState(t)
      BY <3>1 DEF WriteState, Goto
    <3>2. CASE WriteRest(t)
      <4>1. gSvcStatus' \in Status
        BY <3>2 DEF WriteRest, Settled
      <4>2. pc' \in [Threads -> Labels]
        BY <3>2 DEF WriteRest, Goto
      <4>3. dwCheckPoint' \in Nat
        BY <3>2 DEF WriteRest
      <4> QED
        BY <3>2, <4>1, <4>2, <4>3 DEF WriteRest
    <3>3. CASE SetStatus(t)
      BY <3>3 DEF SetStatus, Goto
    <3> QED
      BY <2>8, <3>1, <3>2, <3>3 DEF ReportSvcStatus
  <2>9. CASE SvcMain
    BY <2>9 DEF SvcMain, CallReport, Goto
  <2>10. CASE SvcCreateEvent
    BY <2>10 DEF SvcCreateEvent, CallReport, Goto
  <2>11. CASE SvcCreateThread
    BY <2>11 DEF SvcCreateThread
  <2>12. CASE SvcStopLoop
    BY <2>12 DEF SvcStopLoop, CallReport, Goto
  <2>13. CASE MainThreadReturns
    BY <2>13 DEF MainThreadReturns, Goto
  <2>14. CASE SvcInstall \/ DoDeleteSvc \/ ScmDropEntry
    BY <2>14 DEF SvcInstall, DoDeleteSvc, ScmDropEntry
  <2>15. CASE ScmStart
    BY <2>15 DEF ScmStart, NewProcess
  <2>16. CASE RunConsole
    BY <2>16 DEF RunConsole, NewProcess
  <2>17. ASSUME NEW c \in {"stop", "interrogate"}, ScmControl(c) PROVE TypeOK'
    BY <2>17 DEF ScmControl
  <2>18. CASE Crash
    BY <2>18 DEF Crash, ProcessEnd
  <2>19. CASE UNCHANGED vars
    BY <2>19 DEF vars
  <2> QED
    BY <2>1, <2>2, <2>3, <2>4, <2>5, <2>6, <2>7, <2>8, <2>9, <2>10, <2>11,
       <2>12, <2>13, <2>14, <2>15, <2>16, <2>17, <2>18, <2>19
       DEF Next, MainThreadStep, SvcThreadStep, Environment
<1> QED
  BY <1>1, <1>2, PTL DEF SafeSpec

-------------------------------------------------------------------------------
(* The phases are inductive. *)

LEMMA PhasesInit == Init => Phases
  BY DEF Init, Phases, NoProcess, Off, Threads, NoStatus

\* Who runs ReportSvcStatus, and on whose behalf.
LEMMA PhasesReport ==
  ASSUME TypeOK, Phases, NEW t \in Reporters, ReportSvcStatus(t)
  PROVE  Phases'
<1> USE DEF TypeOK, Threads, Reporters, ReportSteps, osvars, Goto, Status, Off
<1>1. CASE WriteState(t)
  <2>1. CASE t = "main"
    BY <1>1, <2>1
      DEF WriteState, Phases, Reporting, NoProcess, Console, Entered, Starting,
          StartFailed, Running, Stopping
  <2>2. CASE t = "svc"
    BY <1>1, <2>2
      DEF WriteState, Phases, Reporting, NoProcess, Console, Entered, Starting,
          StartFailed, Running, Stopping
  <2> QED
    BY <2>1, <2>2
<1>2. CASE WriteRest(t)
  <2>1. gSvcStatus'.state = gSvcStatus.state
    BY <1>2 DEF WriteRest
  <2>2. CASE t = "main"
    BY <1>2, <2>1, <2>2
      DEF WriteRest, Phases, Reporting, NoProcess, Console, Entered, Starting,
          StartFailed, Running, Stopping
  <2>3. CASE t = "svc"
    BY <1>2, <2>1, <2>3
      DEF WriteRest, Phases, Reporting, NoProcess, Console, Entered, Starting,
          StartFailed, Running, Stopping
  <2> QED
    BY <2>2, <2>3
<1>3. CASE SetStatus(t)
  <2> USE <1>3 DEF SetStatus, Reporting
  <2>1. \/ t = "main" /\ (Running \/ Stopping)
        \/ t = "svc" /\ (Starting \/ Stopping)
    BY DEF Phases, NoProcess, Console, Entered, StartFailed, Running,
           Starting
  <2>2. CASE t = "main" /\ Running
    <3>1. Reporting("main", "STOP_PENDING", "set_event") /\ connected
      BY <2>2 DEF Running
    <3>2. scm' = gSvcStatus /\ connected'
      BY <2>2, <3>1
    <3>3. Running'
      BY <2>2, <3>1, <3>2 DEF Running
    <3> QED
      BY <3>3 DEF Phases
  <2>3. CASE t = "svc" /\ Starting
    <3>1. connected /\ scm' = gSvcStatus
          /\ connected' = (gSvcStatus.state # "STOPPED")
      BY <2>3 DEF Starting
    <3>2. CASE Reporting("svc", "START_PENDING", "svc_init")
      <4>1. gSvcStatus.state = "START_PENDING" /\ stopEvent = "null"
        BY <2>3, <3>2 DEF Starting
      <4>2. connected'
        BY <3>1, <4>1
      <4>3. pc' = [pc EXCEPT !["svc"] = "svc_init"]
        BY <2>3, <3>2 DEF Goto
      <4>4. Starting'
        BY <2>3, <3>1, <4>1, <4>2, <4>3 DEF Starting
      <4> QED
        BY <4>4 DEF Phases
    <3>3. CASE Reporting("svc", "STOPPED", "returned")
      <4>1. gSvcStatus.state = "STOPPED" /\ stopEvent = "null"
        BY <2>3, <3>3 DEF Starting
      <4>2. ~connected'
        BY <3>1, <4>1
      <4>3. pc' = [pc EXCEPT !["svc"] = "returned"]
        BY <2>3, <3>3 DEF Goto
      <4>4. StartFailed'
        BY <2>3, <3>1, <4>1, <4>2, <4>3 DEF Starting, StartFailed
      <4> QED
        BY <4>4 DEF Phases
    <3>4. CASE Reporting("svc", "RUNNING", "wait")
      <4>1. gSvcStatus.state = "RUNNING" /\ stopEvent = "unset"
        BY <2>3, <3>4 DEF Starting
      <4>2. connected'
        BY <3>1, <4>1
      <4>3. pc' = [pc EXCEPT !["svc"] = "wait"]
        BY <2>3, <3>4 DEF Goto
      <4>4. Running'
        BY <2>3, <3>1, <4>1, <4>2, <4>3 DEF Starting, Running
      <4> QED
        BY <4>4 DEF Phases
    <3> QED
      BY <2>3, <3>2, <3>3, <3>4 DEF Starting
  <2>4. CASE Stopping
    <3>1. Stopping'
      <4>1. scm'.state \in {"STOP_PENDING", "STOPPED"}
            /\ (connected' <=> scm'.state # "STOPPED")
        BY <2>4 DEF Stopping
      <4>2. CASE t = "main"
        BY <2>4, <4>1, <4>2 DEF Stopping
      <4>3. CASE t = "svc"
        BY <2>4, <4>1, <4>3 DEF Stopping
      <4> QED
        BY <4>2, <4>3
    <3> QED
      BY <3>1 DEF Phases
  <2> QED
    BY <2>1, <2>2, <2>3, <2>4
<1> QED
  BY <1>1, <1>2, <1>3 DEF ReportSvcStatus

LEMMA PhasesStep == TypeOK /\ Phases /\ [Next]_vars => Phases'
<1> SUFFICES ASSUME TypeOK, Phases, [Next]_vars PROVE Phases'
  OBVIOUS
<1> USE DEF TypeOK, Threads, Reporters, ReportSteps, osvars, Off, Phases, Reporting,
            NoProcess, Console, Entered, Starting, StartFailed, Running,
            Stopping
<1>1. CASE MainEnter
  BY <1>1 DEF MainEnter
<1>2. CASE ConsoleMyMainReturns
  BY <1>2 DEF ConsoleMyMainReturns, Goto
<1>3. CASE HandleStop
  BY <1>3 DEF HandleStop, CallReport, Goto
<1>4. CASE HandlerSetEvent
  BY <1>4 DEF HandlerSetEvent, Goto
<1>5. CASE HandlerReportAgain
  BY <1>5 DEF HandlerReportAgain, CallReport, Goto
<1>6. CASE HandleOther
  BY <1>6 DEF HandleOther
<1>7. CASE DispatcherReturns
  BY <1>7 DEF DispatcherReturns, ProcessEnd, Off, NoStatus
<1>8. ASSUME NEW t \in Reporters, ReportSvcStatus(t) PROVE Phases'
  BY <1>8, PhasesReport
<1>9. CASE SvcMain
  BY <1>9 DEF SvcMain, CallReport, Goto
<1>10. CASE SvcCreateEvent
  BY <1>10 DEF SvcCreateEvent, CallReport, Goto
<1>11. CASE SvcCreateThread
  BY <1>11 DEF SvcCreateThread
<1>12. CASE SvcStopLoop
  BY <1>12 DEF SvcStopLoop, CallReport, Goto
<1>13. CASE MainThreadReturns
  BY <1>13 DEF MainThreadReturns, Goto, Off
<1>14. CASE SvcInstall \/ DoDeleteSvc \/ ScmDropEntry
  BY <1>14 DEF SvcInstall, DoDeleteSvc, ScmDropEntry
<1>15. CASE ScmStart
  BY <1>15 DEF ScmStart, NewProcess, Off, NoStatus
<1>16. CASE RunConsole
  BY <1>16 DEF RunConsole, NewProcess, Off
<1>17. ASSUME NEW c \in {"stop", "interrogate"}, ScmControl(c) PROVE Phases'
  BY <1>17 DEF ScmControl
<1>18. CASE Crash
  BY <1>18 DEF Crash, ProcessEnd, Off, NoStatus
<1>19. CASE UNCHANGED vars
  BY <1>19 DEF vars
<1> QED
  BY <1>1, <1>2, <1>3, <1>4, <1>5, <1>6, <1>7, <1>8, <1>9, <1>10, <1>11,
     <1>12, <1>13, <1>14, <1>15, <1>16, <1>17, <1>18, <1>19
     DEF Next, MainThreadStep, SvcThreadStep, Environment

\* Threads and SCM never leave the phases, however their steps interleave and
\* wherever the process dies.
THEOREM PhasesInvariant == SafeSpec => []Phases
<1>1. Init => Phases
  BY PhasesInit
<1>2. TypeOK /\ Phases /\ [Next]_vars => Phases'
  BY PhasesStep
<1> QED
  BY <1>1, <1>2, TypeCorrect, PTL DEF SafeSpec

-------------------------------------------------------------------------------
(* What follows from the phases. *)

\* SetEvent is never called on a handle that does not exist.
THEOREM StopIsHeardAlways == SafeSpec => []StopIsHeard
<1>1. Phases => StopIsHeard
  BY DEF Phases, NoProcess, Console, Entered, Starting, StartFailed, Running,
         Stopping, StopIsHeard, ReportSteps
<1> QED
  BY <1>1, PhasesInvariant, PTL

\* Behind every STOP_PENDING on display there is a stop in progress.
THEOREM PendingIsBackedAlways == SafeSpec => []PendingIsBacked
<1>1. Phases => PendingIsBacked
  BY DEF Phases, NoProcess, Console, Entered, Starting, StartFailed, Running,
         Stopping, PendingIsBacked
<1> QED
  BY <1>1, PhasesInvariant, PTL

\* A signalled stop is final.
THEOREM StopIsFinalAlways == SafeSpec => []StopIsFinal
<1>1. Phases => StopIsFinal
  BY DEF Phases, NoProcess, Console, Entered, Starting, StartFailed, Running,
         Stopping, StopIsFinal
<1> QED
  BY <1>1, PhasesInvariant, PTL

-------------------------------------------------------------------------------
(* The service implements the lifecycle. *)

\* A report moves the displayed state along the lifecycle or leaves it.
LEMMA ReportRefines ==
  ASSUME TypeOK, Phases, NEW t \in Reporters, SetStatus(t)
  PROVE  [Lifecycle!Next]_(scm.state)
<1> USE DEF SetStatus, Reporting, TypeOK, Reporters, Threads, ReportSteps, Off,
            Lifecycle!Next, Lifecycle!Start, Lifecycle!Started,
            Lifecycle!Stop, Lifecycle!Stopped, Lifecycle!Die
<1>1. CASE ~connected
  BY <1>1
<1>2. CASE connected
  <2>1. scm'.state = gSvcStatus.state /\ scm.state # "STOPPED"
    BY <1>2 DEF Phases, NoProcess, Console, Entered, Starting, StartFailed,
                Running, Stopping
  <2>2. CASE gSvcStatus.state = "STOPPED"
    BY <2>1, <2>2
  <2>3. CASE gSvcStatus.state = scm.state
    BY <2>1, <2>3
  <2>4. CASE gSvcStatus.state # "STOPPED" /\ gSvcStatus.state # scm.state
    <3>1. \/ t = "svc" /\ Starting /\ gSvcStatus.state = "RUNNING"
          \/ t = "main" /\ Running /\ gSvcStatus.state = "STOP_PENDING"
             /\ scm.state = "RUNNING"
      BY <1>2, <2>4 DEF Phases, NoProcess, Console, Entered, Starting,
                        StartFailed, Running, Stopping
    <3> QED
      BY <2>1, <3>1 DEF Starting
  <2> QED
    BY <2>2, <2>3, <2>4
<1> QED
  BY <1>1, <1>2

LEMMA StepRefines ==
  TypeOK /\ Phases /\ [Next]_vars => [Lifecycle!Next]_(scm.state)
<1> SUFFICES ASSUME TypeOK, Phases, [Next]_vars
             PROVE  [Lifecycle!Next]_(scm.state)
  OBVIOUS
<1>1. ASSUME NEW t \in Reporters, ReportSvcStatus(t)
      PROVE  [Lifecycle!Next]_(scm.state)
  BY <1>1, ReportRefines DEF ReportSvcStatus, WriteState, WriteRest
<1>2. CASE DispatcherReturns \/ Crash
  <2>1. scm' = IF mode = "service" THEN NoStatus ELSE scm
    BY <1>2 DEF DispatcherReturns, Crash, ProcessEnd
  <2>2. scm'.state = "STOPPED" \/ scm' = scm
    BY <2>1 DEF NoStatus
  <2> QED
    BY <2>2 DEF Lifecycle!Next, Lifecycle!Die
<1>3. CASE ScmStart
  BY <1>3 DEF ScmStart, NoStatus, Lifecycle!Next, Lifecycle!Start
<1>4. CASE \/ MainEnter \/ ConsoleMyMainReturns \/ HandleStop
           \/ HandlerSetEvent \/ HandlerReportAgain \/ HandleOther
           \/ SvcMain \/ SvcCreateEvent \/ SvcCreateThread \/ SvcStopLoop
           \/ MainThreadReturns \/ SvcInstall \/ DoDeleteSvc \/ ScmDropEntry
           \/ RunConsole
           \/ \E c \in {"stop", "interrogate"} : ScmControl(c)
  BY <1>4 DEF MainEnter, ConsoleMyMainReturns, HandleStop, HandlerSetEvent,
              HandlerReportAgain, HandleOther, SvcMain, SvcCreateEvent,
              SvcCreateThread, SvcStopLoop, MainThreadReturns, SvcInstall,
              DoDeleteSvc, ScmDropEntry, RunConsole, ScmControl
<1>5. CASE UNCHANGED vars
  BY <1>5 DEF vars
<1> QED
  BY <1>1, <1>2, <1>3, <1>4, <1>5
     DEF Next, MainThreadStep, SvcThreadStep, Environment, Reporters

\* The states the SCM displays follow the lifecycle, for any number of starts
\* and any interleaving of the two reporting threads.
THEOREM ServiceImplementsLifecycle == SafeSpec => Lifecycle!Safe
<1>1. Init => Lifecycle!Init
  BY DEF Init, NoStatus, Lifecycle!Init
<1>2. TypeOK /\ Phases /\ [Next]_vars => [Lifecycle!Next]_(scm.state)
  BY StepRefines
<1> QED
  BY <1>1, <1>2, TypeCorrect, PhasesInvariant, PTL DEF SafeSpec, Lifecycle!Safe
===============================================================================
