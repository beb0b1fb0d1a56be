-------------------------------- MODULE VpnChild ------------------------------
(***************************************************************************)
(* The VPN's own process: vpnmgr (src/shimmer/VPNMgr.cpp), a base of       *)
(* CMachine, and what it makes libuv do                                    *)
(* (src/depends/libuv/src/win/process.c, pipe.c).                          *)
(*                                                                         *)
(* The connect button spawns the child from the UI thread; its end is      *)
(* reported on the main thread, in the loop; the destructor runs on the    *)
(* main thread after uv_run.  There is one uv_process_t and one uv_pipe_t, *)
(* which every connect initialises again.  The pipe has its flags cleared, *)
(* UV_HANDLE_REF among them, so it never counts as active.                 *)
(* The child is external: it ends when it likes, and writes nothing to the *)
(* pipe.  assert() is empty, as in a release build.                        *)
(***************************************************************************)
EXTENDS UvLoop, Integers, FiniteSets

CONSTANT MaxSpawns  \* clicks that get as far as uv_spawn

ASSUME VpnChildAssumption == MaxSpawns \in Nat \ {0}

VARIABLES
  pc,      \* where the threads "main" and "ui" are
  child,   \* what became of the child of each spawn
  proc,    \* child_req, the uv_process_t of all spawns
  read,    \* stdin_pipe.read_req: "none", "kernel" or "done"
  reused,  \* a handle or a request was initialised while libuv used it
  early    \* a child was reported before uv_spawn had made its handle active

childVars == <<pc, child, proc, read, reused, early>>
vars == <<loopVars, childVars>>

Spawns == 1..MaxSpawns
None == 0

\* exit_req, read_req and the work of the window: one object each.
ExitReq == <<"exit">>
ReadReq == <<"read">>
WorkReq == <<"work">>

\* An active and a closing uv_process_t, as uv_run counts them.
Active(n) == <<"active", n>>
Closing(n) == <<"closing", n>>

\* What uv__process_init makes of child_req for spawn n.  handle and wait name
\* the child whose process handle is open and whose end is waited for; queued
\* is UV_HANDLE_ENDGAME_QUEUED, pending is exit_cb_pending.
FreshProc(n) ==
  [spawn |-> n, pid |-> None, handle |-> None, wait |-> None, active |-> FALSE,
   closing |-> FALSE, queued |-> FALSE, pending |-> FALSE]

Init ==
  /\ LoopInit
  /\ pc = [main |-> "queue", ui |-> "none"]
  /\ child = [n \in Spawns |-> "none"]
  /\ proc = FreshProc(None)
  /\ read = "none"
  /\ reused = FALSE /\ early = FALSE

Goto(t, from, to) ==
  lpc # "undefined" /\ pc[t] = from /\ pc' = [pc EXCEPT ![t] = to]

Queues == Range(ring) \cup Range(batch) \cup Range(iocp) \cup {inserting.req}
OnItsWay(r) == r \in Queues

-------------------------------------------------------------------------------
(* The main thread: CMachine::run and CMachine::deleteInstance. *)

\* The window is work of the pool: it may be there before uv_run is.
QueueUi ==
  /\ Goto("main", "queue", "enter")
  /\ pc.ui = "none"
  /\ reqs' = reqs + 1
  /\ UNCHANGED <<lpc, ring, batch, iocp, active, endgame, inserting, lost,
                 child, proc, read, reused, early>>

OpenWindow ==
  /\ reqs > 0
  /\ Goto("ui", "none", "idle")
  /\ UNCHANGED <<loopVars, child, proc, read, reused, early>>

EnterLoop ==
  /\ Goto("main", "enter", "run")
  /\ lpc' = "check"
  /\ UNCHANGED <<ring, batch, iocp, active, reqs, endgame, inserting, lost,
                 child, proc, read, reused, early>>

\* ~vpnmgr without a child to end.
DeleteInstance ==
  /\ lpc = "left" /\ proc.pid = None
  /\ Goto("main", "run", "done")
  /\ UNCHANGED <<loopVars, child, proc, read, reused, early>>

\* ~vpnmgr calls disconnect: a wait without a limit, when uv_write accepted
\* the line that asks the child to end, or else one of 200 ms.
Disconnect ==
  /\ lpc = "left" /\ proc.pid # None
  /\ \E wait \in {"wait_for_ever", "wait_a_moment"} : Goto("main", "run", wait)
  /\ UNCHANGED <<loopVars, child, proc, read, reused, early>>

\* WaitForSingleObject returns, at once when the handle is not open, and
\* TerminateProcess ends a child that is still there.
Terminate ==
  /\ \/ Goto("main", "wait_a_moment", "done")
     \/ /\ Goto("main", "wait_for_ever", "done")
        /\ \A n \in Spawns : child[n] = "running" => proc.handle # n
  /\ child' = [n \in Spawns |-> IF n = proc.handle /\ child[n] = "running"
                                THEN "exited" ELSE child[n]]
  /\ UNCHANGED <<loopVars, proc, read, reused, early>>

-------------------------------------------------------------------------------
(* vpnmgr::connect, on the UI thread. *)

\* Seeded fault: the pid is not tested.
ClickConnectAgain ==
  /\ Goto("ui", "idle", "init")
  /\ proc.spawn < MaxSpawns
  /\ UNCHANGED <<loopVars, child, proc, read, reused, early>>

\* With a pid there is a child, and the click does nothing.
ClickConnect ==
  /\ Goto("ui", "idle", "init")
  /\ proc.pid = None
  /\ proc.spawn < MaxSpawns
  /\ UNCHANGED <<loopVars, child, proc, read, reused, early>>

\* uv_pipe_init, the flags, uv__process_init: whatever state the two handles
\* are in.
InitHandles ==
  /\ Goto("ui", "init", "create")
  /\ proc' = FreshProc(proc.spawn + 1)
  /\ read' = "none"
  /\ reused' = \/ reused \/ OnItsWay(ReadReq)
               \/ pc.main = "on_exit" \/ Closing(proc.spawn) \in active
  /\ UNCHANGED <<loopVars, child, early>>

\* The pipe pair, the search for the program, CreateProcess.
CreateChild ==
  /\ Goto("ui", "create", "register")
  /\ child' = [child EXCEPT ![proc.spawn] = "running"]
  /\ proc' = [proc EXCEPT !.handle = proc.spawn, !.pid = proc.spawn]
  /\ UNCHANGED <<loopVars, read, reused, early>>

CreateFails ==
  /\ Goto("ui", "create", "idle")
  /\ UNCHANGED <<loopVars, child, proc, read, reused, early>>

\* RegisterWaitForSingleObject: from here on the end of the child is reported.
RegisterWait ==
  /\ Goto("ui", "register", "start")
  /\ proc.handle # None
  /\ proc' = [proc EXCEPT !.wait = proc.spawn]
  /\ UNCHANGED <<loopVars, child, read, reused, early>>

\* The handle was closed under it: uv_fatal_error.
RegisterWaitFails ==
  /\ pc.ui = "register" /\ proc.handle = None
  /\ lpc' = "undefined"
  /\ UNCHANGED <<ring, batch, iocp, active, reqs, endgame, inserting,
                 lost,
                 childVars>>

\* Seeded fault: the handle is not made active.
StartHandleForgets ==
  /\ Goto("ui", "start", "read")
  /\ UNCHANGED <<loopVars, child, proc, read, reused, early>>

\* uv__handle_start.
StartHandle ==
  /\ Goto("ui", "start", "read")
  /\ active' = active \cup {Active(proc.spawn)}
  /\ proc' = [proc EXCEPT !.active = TRUE]
  /\ UNCHANGED <<lpc, ring, batch, iocp, reqs, endgame, inserting, lost, child,
                 read, reused, early>>

\* The counter of active handles is changed by both threads at once: an update
\* may be lost.
CountersCollide ==
  /\ pc.ui = "start"
  /\ \/ lpc \in {"process", "process_more"} /\ batch # <<>>
     \/ lpc = "drain" /\ endgame # {}
  /\ lpc' = "undefined"
  /\ UNCHANGED <<ring, batch, iocp, active, reqs, endgame, inserting,
                 lost,
                 childVars>>

\* uv_read_start: the read waits for the child ...
ReadStart ==
  /\ Goto("ui", "read", "idle")
  /\ ~OnItsWay(ReadReq)
  /\ child[proc.spawn] = "running"
  /\ read' = "kernel"
  /\ UNCHANGED <<loopVars, child, proc, reused, early>>

\* ... or fails, because the child is gone: the UI thread inserts the request
\* into the ring of the loop ...
ReadStartFails ==
  /\ Goto("ui", "read", "link")
  /\ ~OnItsWay(ReadReq)
  /\ child[proc.spawn] # "running"
  /\ read' = "done"
  /\ InsertLook(ReadReq)
  /\ UNCHANGED <<lpc, ring, batch, iocp, active, reqs, endgame, lost, child,
                 proc, reused, early>>

\* ... or the request is in a list of the loop already, from the child before.
ReadTwice ==
  /\ pc.ui = "read" /\ OnItsWay(ReadReq)
  /\ lpc' = "undefined"
  /\ UNCHANGED <<ring, batch, iocp, active, reqs, endgame, inserting,
                 lost,
                 childVars>>

LinkRead ==
  /\ Goto("ui", "link", "idle")
  /\ InsertLink
  /\ UNCHANGED <<batch, iocp, active, reqs, endgame, child, proc, read, reused,
                 early>>

CloseWindow ==
  /\ Goto("ui", "idle", "closed")
  /\ Post(WorkReq)
  /\ UNCHANGED <<lpc, ring, batch, active, reqs, endgame, inserting, lost,
                 child, proc, read, reused, early>>

-------------------------------------------------------------------------------
(* The child and the threads of the system. *)

\* Its handles are closed, which ends a read, before the process object is
\* signalled.
ChildExits(n) ==
  /\ lpc # "undefined" /\ child[n] = "running"
  /\ child' = [child EXCEPT ![n] = "exited"]
  /\ IF read = "kernel"
     THEN Post(ReadReq) /\ read' = "done"
     ELSE UNCHANGED <<iocp, read>>
  /\ UNCHANGED <<lpc, ring, batch, active, reqs, endgame, inserting, lost, pc,
                 proc, reused, early>>

\* Seeded fault: the completion is not posted.
ExitSignalSilently(n) ==
  /\ lpc # "undefined" /\ child[n] = "exited" /\ proc.wait = n
  /\ child' = [child EXCEPT ![n] = "signalled"]
  /\ proc' = [proc EXCEPT !.pending = TRUE]
  /\ UNCHANGED <<loopVars, pc, read, reused, early>>

\* exit_wait_callback.  When the handle it waits on was closed, the wait may
\* or may not end.
ExitSignal(n) ==
  /\ lpc # "undefined" /\ child[n] = "exited" /\ proc.wait = n
  /\ child' = [child EXCEPT ![n] = "signalled"]
  /\ proc' = [proc EXCEPT !.pending = TRUE]
  /\ Post(ExitReq)
  /\ UNCHANGED <<lpc, ring, batch, active, reqs, endgame, inserting, lost, pc,
                 read, reused, early>>

-------------------------------------------------------------------------------
(* The callbacks, in the loop. *)

\* uv__want_endgame, for a handle that is counted as counted says: it is queued
\* once.  A handle that is in the list but lost its flag would be linked to
\* itself, and one that is not counted would be counted off.
WantEndgame(counted) ==
  IF proc.queued THEN UNCHANGED <<lpc, endgame>>
  ELSE IF endgame # {} \/ Closing(proc.spawn) \notin counted
       THEN lpc' = "undefined" /\ UNCHANGED endgame
       ELSE endgame' = {Closing(proc.spawn)} /\ UNCHANGED lpc

\* Seeded fault: the pid stays.
ExitReportedKeepsPid ==
  /\ lpc \in {"process", "process_more"}
  /\ batch # <<>> /\ Head(batch) = ExitReq
  /\ ~proc.closing
  /\ Goto("main", "run", "on_exit")
  /\ child' = [n \in Spawns |-> IF child[n] = "signalled" THEN "reported"
                                ELSE child[n]]
  /\ active' = active \ {Active(proc.spawn)}
  /\ proc' = [proc EXCEPT !.pending = FALSE, !.wait = None, !.active = FALSE]
  /\ early' = (early \/ pc.ui = "start")
  /\ UNCHANGED <<lpc, ring, batch, iocp, reqs, endgame, inserting, lost, read,
                 reused>>

\* uv__process_proc_exit up to the first half of on_exit: the handle is no
\* longer active, and the pid is cleared ...
ExitReported ==
  /\ lpc \in {"process", "process_more"}
  /\ batch # <<>> /\ Head(batch) = ExitReq
  /\ ~proc.closing
  /\ Goto("main", "run", "on_exit")
  /\ child' = [n \in Spawns |-> IF child[n] = "signalled" THEN "reported"
                                ELSE child[n]]
  /\ active' = active \ {Active(proc.spawn)}
  /\ proc' = [proc EXCEPT !.pending = FALSE, !.wait = None, !.active = FALSE,
                          !.pid = None]
  /\ early' = (early \/ pc.ui = "start")
  /\ UNCHANGED <<lpc, ring, batch, iocp, reqs, endgame, inserting, lost, read,
                 reused>>

\* Seeded fault: it is counted as the end of a request, which it is not.
CloseProcessUnregisters ==
  /\ Goto("main", "on_exit", "run")
  /\ Processing(ExitReq)
  /\ active' = (active \ {Active(proc.spawn)}) \cup {Closing(proc.spawn)}
  /\ IF proc.pending
     THEN UNCHANGED <<lpc, endgame>>
     ELSE WantEndgame(active')
  /\ reqs' = reqs - 1
  /\ proc' = [proc EXCEPT !.closing = TRUE, !.active = FALSE, !.wait = None,
                          !.queued = ~proc.pending]
  /\ UNCHANGED <<ring, iocp, inserting, lost, child, read, reused, early>>

\* Seeded fault: the endgame is not asked for.
CloseProcessOnly ==
  /\ Goto("main", "on_exit", "run")
  /\ Processing(ExitReq)
  /\ active' = (active \ {Active(proc.spawn)}) \cup {Closing(proc.spawn)}
  /\ proc' = [proc EXCEPT !.closing = TRUE, !.active = FALSE, !.wait = None]
  /\ UNCHANGED <<lpc, ring, iocp, reqs, endgame, inserting, lost, child, read,
                 reused, early>>

\* ... then uv_close closes the handle, if it is still the one that ended.
CloseProcess ==
  /\ Goto("main", "on_exit", "run")
  /\ Processing(ExitReq)
  /\ active' = (active \ {Active(proc.spawn)}) \cup {Closing(proc.spawn)}
  /\ IF proc.pending
     THEN UNCHANGED <<lpc, endgame>>
     ELSE WantEndgame(active')
  /\ proc' = [proc EXCEPT !.closing = TRUE, !.active = FALSE, !.wait = None,
                          !.queued = ~proc.pending]
  /\ UNCHANGED <<ring, iocp, reqs, inserting, lost, child, read, reused, early>>

\* uv__process_proc_exit of a handle that is being closed: no callback.
ExitWhileClosing ==
  /\ Processing(ExitReq)
  /\ pc.main = "run" /\ proc.closing
  /\ WantEndgame(active)
  /\ proc' = [proc EXCEPT !.pending = FALSE, !.queued = TRUE]
  /\ UNCHANGED <<ring, iocp, active, reqs, inserting, lost, pc, child, read,
                 reused, early>>

\* uv__process_endgames: CloseHandle on the handle that child_req holds now.
CloseHandles ==
  /\ Endgames
  /\ proc' = IF endgame = {} THEN proc
             ELSE [proc EXCEPT !.queued = FALSE, !.handle = None]
  /\ UNCHANGED <<pc, child, read, reused, early>>

\* uv__process_pipe_read_req: nothing to read, the pipe is broken.
ReadEnds ==
  /\ Processing(ReadReq)
  /\ read' = "none"
  /\ UNCHANGED <<lpc, ring, iocp, active, reqs, endgame, inserting, lost, pc,
                 child, proc, reused, early>>

WorkDone ==
  /\ Processing(WorkReq)
  /\ reqs' = reqs - 1
  /\ UNCHANGED <<lpc, ring, iocp, active, endgame, inserting, lost, childVars>>

-------------------------------------------------------------------------------
MainThread ==
  \/ QueueUi \/ EnterLoop \/ DeleteInstance \/ Disconnect \/ Terminate
  \/ pc.main = "run" /\ LoopStep /\ UNCHANGED childVars
  \/ ExitReported \/ CloseProcess \/ ExitWhileClosing \/ CloseHandles
  \/ ReadEnds \/ WorkDone

\* The UI thread inside connect().
UiThread ==
  \/ InitHandles \/ CreateChild \/ CreateFails \/ RegisterWait
  \/ RegisterWaitFails \/ StartHandle \/ ReadStart \/ ReadStartFails
  \/ ReadTwice \/ LinkRead

User == ClickConnect \/ CloseWindow

Next ==
  \/ MainThread \/ UiThread \/ User \/ OpenWindow \/ CountersCollide
  \/ \E n \in Spawns : ChildExits(n) \/ ExitSignal(n)

\* The threads are scheduled, and a wait on a handle that is open ends when
\* the process did.  The child need not end, the user need not do anything.
Fairness ==
  /\ WF_vars(MainThread) /\ WF_vars(UiThread)
  /\ \A n \in Spawns : WF_vars(proc.handle = n /\ ExitSignal(n))

SafeSpec == Init /\ [][Next]_vars
Spec == SafeSpec /\ Fairness

-------------------------------------------------------------------------------
(* Properties. *)

Reqs == {ExitReq, ReadReq, WorkReq}

TypeOK ==
  /\ lpc \in {"before", "check", "take", "process", "sleep", "peek", "drain",
              "process_more", "left", "undefined"}
  /\ ring \in Seq(Reqs) /\ batch \in Seq(Reqs) /\ iocp \in Seq(Reqs)
  /\ active \subseteq {"active", "closing"} \X Spawns
  /\ reqs \in 0..1
  /\ endgame \subseteq {Closing(n) : n \in Spawns}
  /\ inserting = Nobody \/ inserting \in [req : Reqs, seen : Seq(Reqs)]
  /\ lost \subseteq Reqs
  /\ pc.main \in {"queue", "enter", "run", "on_exit", "wait_for_ever",
                  "wait_a_moment", "done"}
  /\ pc.ui \in {"none", "idle", "init", "create", "register", "start", "read",
                "link", "closed"}
  /\ child \in [Spawns -> {"none", "running", "exited", "signalled",
                           "reported"}]
  /\ proc \in [spawn : 0..MaxSpawns, pid : 0..MaxSpawns, handle : 0..MaxSpawns,
               wait : 0..MaxSpawns, active : BOOLEAN, closing : BOOLEAN,
               queued : BOOLEAN, pending : BOOLEAN]
  /\ read \in {"none", "kernel", "done"}
  /\ reused \in BOOLEAN /\ early \in BOOLEAN

\* The pid that connect() tests on one thread and on_exit clears on another
\* names the child for as long as it runs: there are never two VPN processes,
\* even when a closing handle was used again.
OneChild == \A n \in Spawns : child[n] = "running" => proc.pid = n

\* As long as there is a pid, child_req holds the open handle of that process,
\* for disconnect() to wait for and to terminate: on_exit clears the pid before
\* the loop closes the handle.
PidHasHandle == proc.pid # None /\ ~reused => proc.handle = proc.pid

\* uv_run goes on for as long as the child runs, with or without a window, so
\* the destructor finds no child: its disconnect(), and the wait without a
\* limit in it, are reached only after a closing handle was used again, and
\* even then not with the handle of a process, which need not end.
LoopOutlivesChild ==
  /\ lpc = "left" /\ ~reused =>
       /\ \A n \in Spawns : child[n] # "running"
       /\ pc.main \notin {"wait_for_ever", "wait_a_moment"}
  /\ pc.main = "wait_for_ever" => proc.handle = None

\* What calling into the loop from the UI thread may do.
Excused == lost # {} \/ lpc = "undefined" \/ reused

\* The end of a child is reported, so that connect() works again.
ExitNoticed ==
  \A n \in Spawns : child[n] = "exited" ~> child[n] = "reported" \/ Excused

\* When the window is closed the program ends, unless the child goes on
\* running, or had ended before uv_spawn made its handle active.
ClosedWindowEndsProgram ==
  pc.ui = "closed" ~>
    \/ pc.main = "done" \/ Excused
    \/ early \/ \E n \in Spawns : child[n] = "running"

\* process.c:928 of libuv, on a process that gets its endgame:
\* assert(handle->flags & UV_HANDLE_CLOSING).
EndgameOfClosing == lpc = "drain" /\ endgame # {} => proc.closing
===============================================================================
