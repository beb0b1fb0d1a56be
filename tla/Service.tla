-------------------------------- MODULE Service -------------------------------
(***************************************************************************)
(* The life of the daemon as a Windows service (src/deamon/winsvr.cpp).    *)
(*                                                                         *)
(* Three threads of the daemon run here:                                   *)
(*   "main"  main(), then the dispatcher inside StartServiceCtrlDispatcher *)
(*           which calls SvcCtrlHandler for each control it receives;      *)
(*   "svc"   SvcMain and SvcInit, started by the dispatcher;               *)
(*   "work"  MainThread, which runs MyMain (the libuv loop of module       *)
(*           PipeServer).                                                  *)
(* The main and the svc thread both call ReportSvcStatus, which fills the  *)
(* global gSvcStatus field by field without a lock and hands it to the     *)
(* SCM; each of its stretches is a step of its own.  The SCM is external:  *)
(* it keeps the last status reported to it, refuses every report after the *)
(* first STOPPED one, and sends controls one at a time.                    *)
(***************************************************************************)
EXTENDS Naturals

CONSTANT MaxStarts       \* how often the program is started
ASSUME MaxStartsAssumption == MaxStarts \in Nat

VARIABLES
  registered,   \* the SCM's database entry: "no", "yes", "marked" (for delete)
  scm,          \* the status the SCM holds for the service
  connected,    \* the process may still report: no STOPPED report was made
  ctrl,         \* the control the SCM is delivering, or "none"
  mode,         \* how the process was started: "service" or "console"
  pc,           \* where each thread is
  call,         \* per thread: argument and return point of ReportSvcStatus
  gSvcStatus,   \* the global of that name
  dwCheckPoint, \* the static counter of ReportSvcStatus
  stopEvent,    \* ghSvcStopEvent: "null", "unset", "set"
  starts        \* number of processes started so far

osvars == <<registered, ctrl, mode, starts>>
vars == <<registered, scm, connected, ctrl, mode, pc, call, gSvcStatus,
          dwCheckPoint, stopEvent, starts>>

Threads == {"main", "svc", "work"}
Reporters == {"main", "svc"}
SvcStates == {"STOPPED", "START_PENDING", "RUNNING", "STOP_PENDING"}
Status == [state : SvcStates, accepted : SUBSET {"stop"}, checkPoint : Nat]
ReportSteps == {"write_state", "write_rest", "set_status"}

Labels == {"off", "main", "dispatch", "mymain", "get_message", "set_event",
           "report_again", "svc_main", "svc_init", "create_thread", "wait",
           "returned"} \cup ReportSteps

\* The status block of a new process and of a service nobody started.
NoStatus == [state |-> "STOPPED", accepted |-> {}, checkPoint |-> 0]
NoCall == [state |-> "STOPPED", ret |-> "off"]
Off == [t \in Threads |-> "off"]

Init ==
  /\ registered = "no"
  /\ scm = NoStatus
  /\ connected = FALSE
  /\ ctrl = "none"
  /\ mode = "service"
  /\ pc = Off
  /\ call = [t \in Reporters |-> NoCall]
  /\ gSvcStatus = NoStatus
  /\ dwCheckPoint = 1
  /\ stopEvent = "null"
  /\ starts = 0

-------------------------------------------------------------------------------
(* The administrator and the SCM. *)

\* "daemon install": CreateService fails while an entry of that name exists.
SvcInstall ==
  /\ registered = "no"
  /\ registered' = "yes"
  /\ UNCHANGED <<scm, connected, ctrl, mode, pc, call, gSvcStatus,
                 dwCheckPoint, stopEvent, starts>>

\* "daemon delete": the entry goes at once, or when the service has stopped.
DoDeleteSvc ==
  /\ registered = "yes"
  /\ registered' = IF scm.state = "STOPPED" THEN "no" ELSE "marked"
  /\ UNCHANGED <<scm, connected, ctrl, mode, pc, call, gSvcStatus,
                 dwCheckPoint, stopEvent, starts>>

ScmDropEntry ==
  /\ registered = "marked" /\ scm.state = "STOPPED"
  /\ registered' = "no"
  /\ UNCHANGED <<scm, connected, ctrl, mode, pc, call, gSvcStatus,
                 dwCheckPoint, stopEvent, starts>>

\* A new process: its globals have their initial values.
NewProcess(m) ==
  /\ pc = Off
  /\ starts < MaxStarts
  /\ starts' = starts + 1
  /\ mode' = m
  /\ pc' = [pc EXCEPT !["main"] = "main"]
  /\ call' = [t \in Reporters |-> NoCall]
  /\ gSvcStatus' = NoStatus
  /\ dwCheckPoint' = 1
  /\ stopEvent' = "null"
  /\ ctrl' = "none"
  /\ UNCHANGED registered

ScmStart ==
  /\ registered = "yes" /\ scm.state = "STOPPED"
  /\ NewProcess("service")
  /\ scm' = [NoStatus EXCEPT !.state = "START_PENDING"]
  /\ connected' = TRUE

\* The executable run by hand: the dispatcher finds no SCM to talk to.
RunConsole ==
  /\ NewProcess("console")
  /\ UNCHANGED <<scm, connected>>

\* ControlService refuses a STOP the status does not accept, and any STOP
\* unless the service is RUNNING; the SCM sends one control at a time.
ScmControl(c) ==
  /\ mode = "service" /\ pc["main"] = "dispatch" /\ ctrl = "none"
  /\ scm.state # "STOPPED"
  /\ c = "stop" => scm.state = "RUNNING" /\ "stop" \in scm.accepted
  /\ ctrl' = c
  /\ UNCHANGED <<registered, scm, connected, mode, pc, call, gSvcStatus,
                 dwCheckPoint, stopEvent, starts>>

\* The end of the process, whoever causes it: every thread is gone, and the
\* SCM, which watches the process, displays STOPPED.
ProcessEnd ==
  /\ pc' = Off
  /\ scm' = IF mode = "service" THEN NoStatus ELSE scm
  /\ connected' = IF mode = "service" THEN FALSE ELSE connected
  /\ ctrl' = "none"
  /\ UNCHANGED <<registered, mode, call, gSvcStatus, dwCheckPoint, stopEvent,
                 starts>>

\* Killed or crashed.
Crash == pc # Off /\ ProcessEnd

-------------------------------------------------------------------------------
(* ReportSvcStatus, called by thread t. *)

Goto(t, l) == pc' = [pc EXCEPT ![t] = l]

\* Enter ReportSvcStatus(s, ...) and come back to label l.
CallReport(t, s, l) ==
  /\ Goto(t, "write_state")
  /\ call' = [call EXCEPT ![t] = [state |-> s, ret |-> l]]

WriteState(t) ==
  /\ pc[t] = "write_state"
  /\ gSvcStatus' = [gSvcStatus EXCEPT !.state = call[t].state]
  /\ Goto(t, "write_rest")
  /\ UNCHANGED <<osvars, scm, connected, call, dwCheckPoint, stopEvent>>

Settled(s) == s \in {"RUNNING", "STOPPED"}

WriteRest(t) ==
  /\ pc[t] = "write_rest"
  /\ gSvcStatus' =
       [gSvcStatus EXCEPT
          !.accepted = IF call[t].state = "START_PENDING" THEN {} ELSE {"stop"},
          !.checkPoint = IF Settled(call[t].state) THEN 0 ELSE dwCheckPoint]
  /\ dwCheckPoint' =
       IF Settled(call[t].state) THEN dwCheckPoint ELSE dwCheckPoint + 1
  /\ Goto(t, "set_status")
  /\ UNCHANGED <<osvars, scm, connected, call, stopEvent>>

\* SetServiceStatus: the SCM copies the global as it is now.
SetStatus(t) ==
  /\ pc[t] = "set_status"
  /\ IF connected
     THEN /\ scm' = gSvcStatus
          /\ connected' = (gSvcStatus.state # "STOPPED")
     ELSE UNCHANGED <<scm, connected>>
  /\ Goto(t, call[t].ret)
  /\ UNCHANGED <<osvars, call, gSvcStatus, dwCheckPoint, stopEvent>>

ReportSvcStatus(t) == WriteState(t) \/ WriteRest(t) \/ SetStatus(t)

-------------------------------------------------------------------------------
(* The main thread: main(), the dispatcher, SvcCtrlHandler. *)

MainEnter ==
  /\ pc["main"] = "main"
  /\ pc' = IF mode = "service"
           THEN [pc EXCEPT !["main"] = "dispatch", !["svc"] = "svc_main"]
           ELSE [pc EXCEPT !["main"] = "mymain"]
  /\ UNCHANGED <<osvars, scm, connected, call, gSvcStatus, dwCheckPoint,
                 stopEvent>>

\* Started by hand, MyMain runs on the main thread, which then pumps messages
\* for ever.
ConsoleMyMainReturns ==
  /\ pc["main"] = "mymain"
  /\ Goto("main", "get_message")
  /\ UNCHANGED <<osvars, scm, connected, call, gSvcStatus, dwCheckPoint,
                 stopEvent>>

\* Seeded fault: the handler reports the control code in place of a state.
HandleStopReportsControl ==
  /\ pc["main"] = "dispatch" /\ ctrl = "stop"
  /\ ctrl' = "none"
  /\ CallReport("main", ctrl, "set_event")
  /\ UNCHANGED <<registered, scm, connected, mode, gSvcStatus, dwCheckPoint,
                 stopEvent, starts>>

HandleStop ==
  /\ pc["main"] = "dispatch" /\ ctrl = "stop"
  /\ ctrl' = "none"
  /\ CallReport("main", "STOP_PENDING", "set_event")
  /\ UNCHANGED <<registered, scm, connected, mode, gSvcStatus, dwCheckPoint,
                 stopEvent, starts>>

\* Seeded fault: the event is signalled only while RUNNING is in the global.
HandlerSetEventIfRunning ==
  /\ pc["main"] = "set_event"
  /\ stopEvent' = IF gSvcStatus.state = "RUNNING" THEN "set" ELSE stopEvent
  /\ Goto("main", "report_again")
  /\ UNCHANGED <<osvars, scm, connected, call, gSvcStatus, dwCheckPoint>>

\* SetEvent on a null handle fails, and nobody looks at its result.
HandlerSetEvent ==
  /\ pc["main"] = "set_event"
  /\ stopEvent' = IF stopEvent = "null" THEN "null" ELSE "set"
  /\ Goto("main", "report_again")
  /\ UNCHANGED <<osvars, scm, connected, call, gSvcStatus, dwCheckPoint>>

\* Seeded fault: the state to repeat was read when the handler was entered.
HandlerReportsStale ==
  /\ pc["main"] = "report_again"
  /\ CallReport("main", "RUNNING", "dispatch")
  /\ UNCHANGED <<osvars, scm, connected, gSvcStatus, dwCheckPoint, stopEvent>>

\* Seeded fault: the handler first waits for SvcMain to return.
HandlerJoinsSvcMain ==
  /\ pc["main"] = "report_again" /\ pc["svc"] = "returned"
  /\ CallReport("main", gSvcStatus.state, "dispatch")
  /\ UNCHANGED <<osvars, scm, connected, gSvcStatus, dwCheckPoint, stopEvent>>

\* The handler reads the global before it calls ReportSvcStatus with it.
HandlerReportAgain ==
  /\ pc["main"] = "report_again"
  /\ CallReport("main", gSvcStatus.state, "dispatch")
  /\ UNCHANGED <<osvars, scm, connected, gSvcStatus, dwCheckPoint, stopEvent>>

HandleOther ==
  /\ pc["main"] = "dispatch" /\ ctrl = "interrogate"
  /\ ctrl' = "none"
  /\ UNCHANGED <<registered, scm, connected, mode, pc, call, gSvcStatus,
                 dwCheckPoint, stopEvent, starts>>

\* The dispatcher returns when the only service of the process has stopped;
\* then main returns 0.
DispatcherReturns ==
  /\ mode = "service" /\ pc["main"] = "dispatch"
  /\ ~connected
  /\ ProcessEnd

-------------------------------------------------------------------------------
(* The svc thread: SvcMain and SvcInit. *)

\* Seeded fault: RUNNING is reported as soon as the handler is registered.
SvcMainReportsEarly ==
  /\ pc["svc"] = "svc_main"
  /\ \/ CallReport("svc", "RUNNING", "svc_init")
     \/ Goto("svc", "returned") /\ UNCHANGED call
  /\ UNCHANGED <<osvars, scm, connected, gSvcStatus, dwCheckPoint, stopEvent>>

\* RegisterServiceCtrlHandler may fail: SvcMain returns and reports nothing.
SvcMain ==
  /\ pc["svc"] = "svc_main"
  /\ \/ CallReport("svc", "START_PENDING", "svc_init")
     \/ Goto("svc", "returned") /\ UNCHANGED call
  /\ UNCHANGED <<osvars, scm, connected, gSvcStatus, dwCheckPoint, stopEvent>>

\* Seeded fault: no report when the event cannot be created.
SvcCreateEventSilent ==
  /\ pc["svc"] = "svc_init"
  /\ \/ stopEvent' = "unset" /\ Goto("svc", "create_thread")
     \/ Goto("svc", "returned") /\ UNCHANGED stopEvent
  /\ UNCHANGED <<osvars, scm, connected, call, gSvcStatus, dwCheckPoint>>

SvcCreateEvent ==
  /\ pc["svc"] = "svc_init"
  /\ \/ stopEvent' = "unset" /\ Goto("svc", "create_thread") /\ UNCHANGED call
     \/ CallReport("svc", "STOPPED", "returned") /\ UNCHANGED stopEvent
  /\ UNCHANGED <<osvars, scm, connected, gSvcStatus, dwCheckPoint>>

\* RUNNING is reported whether or not there is a worker thread.
SvcCreateThread ==
  /\ pc["svc"] = "create_thread"
  /\ \E w \in {"mymain", "off"} :
       pc' = [pc EXCEPT !["svc"] = "write_state", !["work"] = w]
  /\ call' = [call EXCEPT !["svc"] = [state |-> "RUNNING", ret |-> "wait"]]
  /\ UNCHANGED <<osvars, scm, connected, gSvcStatus, dwCheckPoint, stopEvent>>

\* Seeded fault: the loop is left after the first report.
SvcStopOnce ==
  /\ pc["svc"] = "wait" /\ stopEvent = "set"
  /\ CallReport("svc", "STOPPED", "returned")
  /\ UNCHANGED <<osvars, scm, connected, gSvcStatus, dwCheckPoint, stopEvent>>

\* The event is manual-reset and never reset: from now on every turn of the
\* loop passes the wait and reports STOPPED again.
SvcStopLoop ==
  /\ pc["svc"] = "wait" /\ stopEvent = "set"
  /\ CallReport("svc", "STOPPED", "wait")
  /\ UNCHANGED <<osvars, scm, connected, gSvcStatus, dwCheckPoint, stopEvent>>

\* MyMain returns (CMachine::run fell out of its loop): the thread is over.
MainThreadReturns ==
  /\ pc["work"] = "mymain"
  /\ Goto("work", "returned")
  /\ UNCHANGED <<osvars, scm, connected, call, gSvcStatus, dwCheckPoint,
                 stopEvent>>

-------------------------------------------------------------------------------
MainThreadStep ==
  \/ MainEnter \/ ConsoleMyMainReturns \/ HandleStop \/ HandlerSetEvent
  \/ HandlerReportAgain \/ HandleOther \/ DispatcherReturns
  \/ ReportSvcStatus("main")

SvcThreadStep ==
  \/ SvcMain \/ SvcCreateEvent \/ SvcCreateThread \/ SvcStopLoop
  \/ ReportSvcStatus("svc")

Environment ==
  \/ SvcInstall \/ DoDeleteSvc \/ ScmDropEntry \/ ScmStart \/ RunConsole
  \/ \E c \in {"stop", "interrogate"} : ScmControl(c)
  \/ Crash

Next == MainThreadStep \/ SvcThreadStep \/ MainThreadReturns \/ Environment

\* The Windows scheduler runs every thread that can run.  Nothing is assumed
\* of MyMain, which may serve for ever, nor of the administrator.
Fairness == WF_vars(MainThreadStep) /\ WF_vars(SvcThreadStep)

SafeSpec == Init /\ [][Next]_vars
Spec == SafeSpec /\ Fairness

-------------------------------------------------------------------------------
(* Properties. *)

\* Every variable stays in its range.
TypeOK ==
  /\ registered \in {"no", "yes", "marked"}
  /\ scm \in Status
  /\ connected \in BOOLEAN
  /\ ctrl \in {"none", "stop", "interrogate"}
  /\ mode \in {"service", "console"}
  /\ pc \in [Threads -> Labels]
  /\ call \in [Reporters -> [state : SvcStates, ret : Labels]]
  /\ gSvcStatus \in Status
  /\ dwCheckPoint \in Nat
  /\ stopEvent \in {"null", "unset", "set"}
  /\ starts \in Nat

\* A STOP reaches the handler only when ghSvcStopEvent exists, although
\* handler and SvcInit run on different threads: SetEvent never hits NULL.
StopIsHeard ==
  ctrl = "stop" \/ pc["main"] = "set_event" => stopEvent # "null"

\* Once the stop event is signalled neither thread can put the service back
\* to RUNNING or START_PENDING, whatever the two threads' writes to the shared
\* gSvcStatus leave in it.
StopIsFinal ==
  stopEvent = "set" => scm.state \in {"STOP_PENDING", "STOPPED"}

\* A displayed STOP_PENDING is backed by a stop in progress: the handler has
\* signalled the event or is about to.
PendingIsBacked ==
  scm.state = "STOP_PENDING" => pc["main"] = "set_event" \/ stopEvent = "set"

\* "net stop shimmer" works: a STOP that was delivered ends with STOPPED, even
\* when the handler's last report overwrites SvcInit's STOPPED in gSvcStatus.
StopCompletes == ctrl = "stop" ~> scm.state = "STOPPED"

\* A stopped service leaves no process behind: the dispatcher gets to return
\* although SvcMain itself never does.
StoppedProcessEnds ==
  (mode = "service" /\ pc["main"] # "off" /\ ~connected) ~> pc = Off

\* Past the registration of the handler a start never hangs: it gets to
\* RUNNING, or to STOPPED when the event cannot be created.
StartCompletes ==
  pc["svc"] = "svc_init" ~> scm.state \in {"RUNNING", "STOPPED"}

\* The states the SCM displays follow the lifecycle of ServiceLifecycle, and
\* a pending stop is completed.
Lifecycle == INSTANCE ServiceLifecycle WITH state <- scm.state
ImplementsLifecycle == Lifecycle!Spec

\* winsvr.cpp:164 "Report running status when initialization is complete.":
\* a service displayed as RUNNING has its worker thread.
RunningIsInitialised == scm.state = "RUNNING" => pc["work"] # "off"

-------------------------------------------------------------------------------
(* The inductive invariant: threads and SCM are always together in one of    *)
(* the following phases.                                                     *)

\* Thread t is in ReportSvcStatus(s), called from before l; if it has written
\* the state already, nobody else has overwritten it.
Reporting(t, s, l) ==
  /\ pc[t] \in ReportSteps
  /\ call[t] = [state |-> s, ret |-> l]
  /\ pc[t] # "write_state" => gSvcStatus.state = s

NoProcess ==
  /\ pc["main"] = "off" /\ pc = Off
  /\ ~connected /\ scm.state = "STOPPED" /\ ctrl = "none"

Console ==
  /\ pc["main"] \in {"main", "mymain", "get_message"} /\ pc["svc"] = "off"
  /\ mode = "console" /\ stopEvent = "null"
  /\ ~connected /\ scm.state = "STOPPED" /\ ctrl = "none"

Entered ==
  /\ pc["main"] = "main" /\ pc["svc"] = "off"
  /\ mode = "service" /\ stopEvent = "null"
  /\ connected /\ scm.state = "START_PENDING" /\ ctrl = "none"

Starting ==
  /\ pc["main"] = "dispatch" /\ ctrl # "stop"
  /\ mode = "service" /\ connected /\ scm.state = "START_PENDING"
  /\ \/ /\ stopEvent = "null"
        /\ \/ pc["svc"] \in {"svc_main", "svc_init", "returned"}
           \/ Reporting("svc", "START_PENDING", "svc_init")
           \/ Reporting("svc", "STOPPED", "returned")
     \/ /\ stopEvent = "unset"
        /\ pc["svc"] = "create_thread" \/ Reporting("svc", "RUNNING", "wait")

StartFailed ==
  /\ pc["main"] = "dispatch" /\ pc["svc"] = "returned"
  /\ mode = "service" /\ stopEvent = "null" /\ ctrl # "stop"
  /\ ~connected /\ scm.state = "STOPPED"

Running ==
  /\ pc["svc"] = "wait"
  /\ mode = "service" /\ connected /\ stopEvent = "unset"
  /\ \/ pc["main"] = "dispatch" /\ scm.state = "RUNNING"
     \/ /\ Reporting("main", "STOP_PENDING", "set_event")
        /\ scm.state = "RUNNING" /\ ctrl = "none"
     \/ /\ pc["main"] = "set_event" /\ gSvcStatus.state = "STOP_PENDING"
        /\ scm.state = "STOP_PENDING" /\ ctrl # "stop"

\* Both threads may be reporting: gSvcStatus is what either of them wrote.
Stopping ==
  /\ mode = "service" /\ stopEvent = "set" /\ ctrl # "stop"
  /\ scm.state \in {"STOP_PENDING", "STOPPED"}
  /\ connected <=> scm.state # "STOPPED"
  /\ gSvcStatus.state \in {"STOP_PENDING", "STOPPED"}
  /\ \/ pc["svc"] = "wait"
     \/ pc["svc"] \in ReportSteps
        /\ call["svc"] = [state |-> "STOPPED", ret |-> "wait"]
  /\ \/ pc["main"] \in {"report_again", "dispatch"}
     \/ /\ pc["main"] \in ReportSteps
        /\ call["main"].ret = "dispatch"
        /\ call["main"].state \in {"STOP_PENDING", "STOPPED"}

\* Every reachable state is in one of the phases.
Phases ==
  \/ NoProcess \/ Console \/ Entered \/ Starting \/ StartFailed
  \/ Running \/ Stopping
===============================================================================
