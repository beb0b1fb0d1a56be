------------------------------- MODULE PipeClient -----------------------------
(***************************************************************************)
(* The client's end of the pipe: CMachine::run and rpc_dispath             *)
(* (src/shimmer/Machine.cpp), rpcmgr (src/shimmer/rpcmgr.cpp) and what     *)
(* they make libuv's pipe code do (src/depends/libuv/src/win/pipe.c).      *)
(*                                                                         *)
(* The main thread starts the user interface as work of libuv's pool,      *)
(* connects to the daemon and runs the loop.  The UI thread, for as long   *)
(* as the window is open, is inside that one piece of work; its option     *)
(* button sends a message, or starts another attempt to connect, straight  *)
(* into the loop of the main thread.  All attempts share one uv_pipe_t,    *)
(* which each of them clears.  The daemon is external.                     *)
(* Counters are those of a release build, where assert() is empty.         *)
(***************************************************************************)
EXTENDS UvLoop, Integers, FiniteSets

CONSTANTS
  MaxAttempts,  \* calls of initPipeClient: one of run(), the others clicks
  MaxWrites     \* messages that get as far as uv_write

ASSUME PipeClientAssumption == MaxAttempts \in Nat \ {0} /\ MaxWrites \in Nat

VARIABLES
  pc,         \* where the threads "main" and "ui" are
  rpcc,       \* the global rpcc points to an rpcmgr
  reqConnect, \* the attempt rpcmgr::reqConnect points to, None or Garbage
  tries,      \* the last attempt that the UI thread began
  status,     \* what became of each attempt
  pipe,       \* pipeClient.server_client, the uv_pipe_t of all attempts
  sent,       \* messages given to the kernel
  reported,   \* how many of them had their callback
  overlapped  \* an attempt cleared the uv_pipe_t while another one used it

clientVars == <<pc, rpcc, reqConnect, tries, status, pipe, sent, reported,
                overlapped>>
vars == <<loopVars, clientVars>>

Threads == {"main", "ui"}
Attempts == 1..MaxAttempts
None == 0
Garbage == -1

\* The attempt that thread t is making, or made last.
Attempt(t) == IF t = "main" THEN 1 ELSE tries

ConnectReq(n) == <<"connect", n>>
WriteReq(k) == <<"write", k>>
WorkReq == <<"work", 0>>

\* wiped: the attempt that cleared it last; count: activecnt; conn: the attempt
\* whose pipe is open in it, or None; used: UV_HANDLE_CONNECTION.
FreshPipe(n) == [wiped |-> n, count |-> 0, conn |-> None, used |-> FALSE]

Init ==
  /\ LoopInit
  /\ pc = [main |-> "queue", ui |-> "none"]
  /\ rpcc = FALSE /\ reqConnect = Garbage
  /\ tries = 1
  /\ status = [n \in Attempts |-> "none"]
  /\ pipe = FreshPipe(None)
  /\ sent = 0 /\ reported = 0
  /\ overlapped = FALSE

\* The process is there and its behaviour is defined.
Running == lpc \notin {"left", "undefined"}

Goto(t, from, to) == Running /\ pc[t] = from /\ pc' = [pc EXCEPT ![t] = to]

-------------------------------------------------------------------------------
(* How requests are counted. *)

\* REGISTER_HANDLE_REQ, which comes after the request was made pending.
Register ==
  /\ pipe' = [pipe EXCEPT !.count = @ + 1]
  /\ active' = IF pipe.count = 0 THEN active \cup {<<"pipe", pipe.wiped>>}
                                 ELSE active
  /\ reqs' = reqs + 1

\* Seeded fault: the handle's count goes down and the loop's does not.
UnregisterHandleOnly ==
  /\ pipe' = [pipe EXCEPT !.count = @ - 1]
  /\ active' = IF pipe.count = 1 THEN active \ {<<"pipe", pipe.wiped>>}
                                 ELSE active
  /\ UNCHANGED reqs

\* UNREGISTER_HANDLE_REQ, when the request is processed.
Unregister ==
  /\ pipe' = [pipe EXCEPT !.count = @ - 1]
  /\ active' = IF pipe.count = 1 THEN active \ {<<"pipe", pipe.wiped>>}
                                 ELSE active
  /\ reqs' = reqs - 1

-------------------------------------------------------------------------------
(* CMachine::run on the main thread, up to uv_run. *)

\* Seeded fault: the work is not a request of the loop.
QueueUiUncounted ==
  /\ pc.main = "queue"
  /\ pc' = [main |-> "new", ui |-> "idle"]
  /\ UNCHANGED <<loopVars, rpcc, reqConnect, tries, status, pipe, sent,
                 reported, overlapped>>

\* The UI is work of the pool from here on: its window may open at once.
QueueUi ==
  /\ pc.main = "queue"
  /\ pc' = [main |-> "new", ui |-> "idle"]
  /\ reqs' = reqs + 1
  /\ UNCHANGED <<lpc, ring, batch, iocp, active, endgame, inserting, lost,
                 rpcc, reqConnect, tries, status, pipe, sent, reported,
                 overlapped>>

\* The constructor of rpcmgr is empty: reqConnect holds what was in the heap.
NewRpcmgr ==
  /\ Goto("main", "new", "reset")
  /\ rpcc' = TRUE
  /\ UNCHANGED <<loopVars, reqConnect, tries, status, pipe, sent, reported,
                 overlapped>>

-------------------------------------------------------------------------------
(* rpcmgr::initPipeClient, on the main thread and on the UI thread. *)

ResetConnect(t) ==
  /\ Goto(t, "reset", "wipe")
  /\ reqConnect' = None
  /\ UNCHANGED <<loopVars, rpcc, tries, status, pipe, sent, reported,
                 overlapped>>

\* memset and uv_pipe_init.  The old handle, if it was active, stays counted.
WipePipe(t) ==
  /\ Goto(t, "wipe", "connect")
  /\ pipe' = FreshPipe(Attempt(t))
  /\ overlapped' = (overlapped \/ pipe.count # 0 \/ pipe.conn # None)
  /\ UNCHANGED <<loopVars, rpcc, reqConnect, tries, status, sent, reported>>

\* uv_pipe_connect: the pipe could be opened or not, and either goes into the
\* ring; the insertion by the UI thread races with the loop.
PipeConnect(t) ==
  /\ Goto(t, "connect", IF t = "main" THEN "register" ELSE "link")
  /\ \E outcome \in IF pipe.used THEN {"error"} ELSE {"opened", "error"} :
       status' = [status EXCEPT ![Attempt(t)] = outcome]
  /\ pipe' = [pipe EXCEPT !.used = TRUE]
  /\ IF t = "main"
     THEN Insert(ConnectReq(Attempt(t))) /\ UNCHANGED inserting
     ELSE InsertLook(ConnectReq(Attempt(t))) /\ UNCHANGED ring
  /\ UNCHANGED <<lpc, batch, iocp, active, reqs, endgame, lost, rpcc,
                 reqConnect, tries, sent, reported, overlapped>>

\* All instances of the daemon's pipe are taken: a thread of the system waits
\* for one.
PipeConnectBusy(t) ==
  /\ Goto(t, "connect", "register")
  /\ ~pipe.used
  /\ status' = [status EXCEPT ![Attempt(t)] = "waiting"]
  /\ pipe' = [pipe EXCEPT !.used = TRUE]
  /\ UNCHANGED <<loopVars, rpcc, reqConnect, tries, sent, reported, overlapped>>

LinkConnect ==
  /\ Goto("ui", "link", "register")
  /\ InsertLink
  /\ UNCHANGED <<batch, iocp, active, reqs, endgame, rpcc, reqConnect, tries,
                 status, pipe, sent, reported, overlapped>>

\* Seeded fault: the request is not registered.
RegisterConnectForgets(t) ==
  /\ Goto(t, "register", IF t = "main" THEN "run" ELSE "idle")
  /\ lpc' = IF t = "main" THEN "check" ELSE lpc
  /\ UNCHANGED <<ring, batch, iocp, active, reqs, endgame, inserting, lost,
                 rpcc, reqConnect, tries, status, pipe, sent, reported,
                 overlapped>>

\* initPipeClient returns: to the message loop, or to run(), which enters
\* uv_run.
RegisterConnect(t) ==
  /\ Goto(t, "register", IF t = "main" THEN "run" ELSE "idle")
  /\ Register
  /\ lpc' = IF t = "main" THEN "check" ELSE lpc
  /\ UNCHANGED <<ring, batch, iocp, endgame, inserting, lost, rpcc, reqConnect,
                 tries, status, sent, reported, overlapped>>

\* Seeded fault: the waiting thread gives up and posts nothing.
BusyEndsSilently(n) ==
  /\ Running /\ status[n] = "waiting"
  /\ status' = [status EXCEPT ![n] = "error"]
  /\ UNCHANGED <<loopVars, pc, rpcc, reqConnect, tries, pipe, sent, reported,
                 overlapped>>

\* pipe_connect_thread_proc: it got an instance, or gave up after 30 seconds.
BusyEnds(n) ==
  /\ Running /\ status[n] = "waiting"
  /\ \E outcome \in {"opened", "error"} :
       status' = [status EXCEPT ![n] = outcome]
  /\ Post(ConnectReq(n))
  /\ UNCHANGED <<lpc, ring, batch, active, reqs, endgame, inserting, lost, pc,
                 rpcc, reqConnect, tries, pipe, sent, reported, overlapped>>

-------------------------------------------------------------------------------
(* The option button: rpc_dispath and rpcmgr::send_data on the UI thread.  A  *)
(* message that uv_write or WriteFile refuses is dropped and changes nothing. *)

\* rpcc is a null pointer, or reqConnect is whatever the heap held.
ClickTooEarly ==
  /\ Running /\ pc.ui = "idle" /\ (~rpcc \/ reqConnect = Garbage)
  /\ lpc' = "undefined"
  /\ UNCHANGED <<ring, batch, iocp, active, reqs, endgame, inserting, lost,
                 clientVars>>

\* No connection yet: the message is dropped and another attempt begins.
ClickConnects ==
  /\ tries < MaxAttempts
  /\ Goto("ui", "idle", "reset")
  /\ rpcc /\ reqConnect \in {None, Garbage}
  /\ tries' = tries + 1
  /\ UNCHANGED <<loopVars, rpcc, reqConnect, status, pipe, sent, reported,
                 overlapped>>

\* Seeded fault: the request of the message before is posted again.
ClickWritesStale ==
  /\ sent < MaxWrites
  /\ Goto("ui", "idle", "wrote")
  /\ rpcc /\ reqConnect \in Attempts /\ pipe.conn # None
  /\ sent' = sent + 1
  /\ Post(WriteReq(sent))
  /\ UNCHANGED <<lpc, ring, batch, active, reqs, endgame, inserting, lost,
                 rpcc, reqConnect, tries, status, pipe, reported, overlapped>>

\* uv_write: the kernel has the message, and completes the request through the
\* port, before the request is registered.
ClickWrites ==
  /\ sent < MaxWrites
  /\ Goto("ui", "idle", "wrote")
  /\ rpcc /\ reqConnect \in Attempts /\ pipe.conn # None
  /\ sent' = sent + 1
  /\ Post(WriteReq(sent + 1))
  /\ UNCHANGED <<lpc, ring, batch, active, reqs, endgame, inserting, lost,
                 rpcc, reqConnect, tries, status, pipe, reported, overlapped>>

RegisterWrite ==
  /\ Goto("ui", "wrote", "idle")
  /\ Register
  /\ UNCHANGED <<lpc, ring, batch, iocp, endgame, inserting, lost, rpcc,
                 reqConnect, tries, status, sent, reported, overlapped>>

\* The UI thread changes the handle and the counts that the main thread changes
\* at the same time, in its own initPipeClient or in a callback, and neither uses
\* a lock or interlocked instructions: an update may be lost.
CountersCollide ==
  /\ Running
  /\ pc.ui \in {"wipe", "connect", "register", "wrote"}
  /\ \/ pc.main \in {"wipe", "connect", "register"}
     \/ lpc \in {"process", "process_more"} /\ batch # <<>>
  /\ lpc' = "undefined"
  /\ UNCHANGED <<ring, batch, iocp, active, reqs, endgame, inserting, lost,
                 clientVars>>

\* The window is closed, MessageLoop and the work end.
CloseWindow ==
  /\ Goto("ui", "idle", "closed")
  /\ Post(WorkReq)
  /\ UNCHANGED <<lpc, ring, batch, active, reqs, endgame, inserting, lost,
                 rpcc, reqConnect, tries, status, pipe, sent, reported,
                 overlapped>>

-------------------------------------------------------------------------------
(* The callbacks, on the loop thread. *)

\* uv__process_pipe_connect_req: first the request is no longer active ...
ConnectTaken(n) ==
  /\ lpc \in {"process", "process_more"}
  /\ batch # <<>> /\ Head(batch) = ConnectReq(n)
  /\ status[n] \in {"opened", "error"}
  /\ status' = [status EXCEPT ![n] = IF @ = "opened" THEN "taken" ELSE "failed"]
  /\ Unregister
  /\ UNCHANGED <<lpc, ring, batch, iocp, endgame, inserting, lost, pc, rpcc,
                 reqConnect, tries, sent, reported, overlapped>>

\* Seeded fault: on_connect remembers the request whatever its status is.
ConnectReportedAlways(n) ==
  /\ Processing(ConnectReq(n)) /\ status[n] \in {"taken", "failed"}
  /\ status' = [status EXCEPT ![n] = "reported"]
  /\ reqConnect' = n
  /\ pipe' = IF status[n] = "taken" /\ pipe.conn = None
             THEN [pipe EXCEPT !.conn = n] ELSE pipe
  /\ UNCHANGED <<lpc, ring, iocp, active, reqs, endgame, inserting, lost, pc,
                 rpcc, tries, sent, overlapped, reported>>

\* ... then the opened pipe is put into the handle, unless one is there, and
\* on_connect remembers the request.
ConnectReported(n) ==
  /\ Processing(ConnectReq(n)) /\ status[n] \in {"taken", "failed"}
  /\ status' = [status EXCEPT ![n] = "reported"]
  /\ IF status[n] = "taken" /\ pipe.conn = None
     THEN pipe' = [pipe EXCEPT !.conn = n] /\ reqConnect' = n
     ELSE UNCHANGED <<pipe, reqConnect>>
  /\ UNCHANGED <<lpc, ring, iocp, active, reqs, endgame, inserting, lost, pc,
                 rpcc, tries, sent, overlapped, reported>>

WriteReported(k) ==
  /\ Processing(WriteReq(k))
  /\ Unregister
  /\ reported' = reported + 1
  /\ UNCHANGED <<lpc, ring, iocp, endgame, inserting, lost, pc, rpcc,
                 reqConnect, tries, status, sent, overlapped>>

WorkDone ==
  /\ Processing(WorkReq)
  /\ reqs' = reqs - 1
  /\ UNCHANGED <<lpc, ring, iocp, active, endgame, inserting, lost, clientVars>>

-------------------------------------------------------------------------------
InitPipeClient(t) ==
  \/ ResetConnect(t) \/ WipePipe(t) \/ PipeConnect(t) \/ PipeConnectBusy(t)
  \/ RegisterConnect(t)

MainThread ==
  \/ QueueUi \/ NewRpcmgr \/ InitPipeClient("main")
  \/ (LoopStep \/ Endgames) /\ UNCHANGED clientVars
  \/ \E n \in Attempts : ConnectTaken(n) \/ ConnectReported(n)
  \/ \E k \in 1..MaxWrites : WriteReported(k)
  \/ WorkDone

\* The UI thread inside a call.
UiThread == InitPipeClient("ui") \/ LinkConnect \/ RegisterWrite

User == ClickTooEarly \/ ClickConnects \/ ClickWrites \/ CloseWindow

System == CountersCollide \/ \E n \in Attempts : BusyEnds(n)

Next == MainThread \/ UiThread \/ User \/ System

\* The threads are scheduled.  Nothing makes the user click or close the
\* window, and the wait for a busy pipe may go on as long as others take every
\* instance first.
Fairness == WF_vars(MainThread) /\ WF_vars(UiThread)

SafeSpec == Init /\ [][Next]_vars
Spec == SafeSpec /\ Fairness

-------------------------------------------------------------------------------
(* Properties. *)

Reqs == {WorkReq} \cup {ConnectReq(n) : n \in Attempts}
                  \cup {WriteReq(k) : k \in 1..MaxWrites}

TypeOK ==
  /\ lpc \in {"before", "check", "take", "process", "sleep", "peek", "drain",
              "process_more", "left", "undefined"}
  /\ ring \in Seq(Reqs) /\ batch \in Seq(Reqs) /\ iocp \in Seq(Reqs)
  /\ active \subseteq {"pipe"} \X Attempts
  /\ reqs \in 0..(1 + MaxAttempts + MaxWrites)
  /\ endgame = {}
  /\ inserting = Nobody \/ inserting \in [req : Reqs, seen : Seq(Reqs)]
  /\ lost \subseteq Reqs
  /\ pc.main \in {"queue", "new", "reset", "wipe", "connect", "register", "run"}
  /\ pc.ui \in {"none", "idle", "reset", "wipe", "connect", "link", "register",
                "wrote", "closed"}
  /\ rpcc \in BOOLEAN
  /\ reqConnect \in Attempts \cup {None, Garbage}
  /\ tries \in Attempts
  /\ status \in [Attempts -> {"none", "waiting", "opened", "error", "taken",
                              "failed", "reported"}]
  /\ pipe \in [wiped : Attempts \cup {None}, count : Int,
               conn : Attempts \cup {None}, used : BOOLEAN]
  /\ sent \in 0..MaxWrites /\ reported \in 0..sent
  /\ overlapped \in BOOLEAN

\* The request of every attempt that was made and has not had its callback is on
\* its way in exactly one place, or recorded as lost by racing insertions, however
\* the two threads interleave, as long as the loop's behaviour is defined.
AttemptsOnTheWay ==
  lpc # "undefined" =>
    \A n \in Attempts :
      Copies(ConnectReq(n)) =
        IF status[n] \in {"opened", "error", "taken", "failed"} THEN 1 ELSE 0

\* Requests the pipe owes a callback, less those that are not registered yet.
Outstanding ==
  Cardinality({n \in Attempts : status[n] \in {"waiting", "opened", "error"}})
    + (sent - reported)
    - Cardinality({t \in Threads : pc[t] \in {"link", "register", "wrote"}})

\* The counts that decide whether uv_run goes on are exact, although requests
\* complete, and may be processed, before they are counted: the loop's counts
\* the window and the outstanding requests, the handle's the outstanding
\* requests unless an attempt cleared it in use.
RequestsCounted ==
  lpc # "undefined" =>
    /\ reqs = Outstanding + Copies(WorkReq)
                + (IF pc.ui \in {"none", "closed"} THEN 0 ELSE 1)
    /\ ~overlapped => /\ pipe.count = Outstanding
                      /\ active # {} <=> pipe.count > 0

\* When send_data has a request to write on, its handle is the connection that
\* this request opened, unless an attempt cleared the handle in use.
UsableConnection ==
  reqConnect \in Attempts /\ ~overlapped => pipe.conn = reqConnect

\* uv_run is left with the window open only in the middle of a call that has
\* completed and is not yet counted: of no idle window, however many messages
\* and attempts there were, does the loop go away.
LoopOutlivesIdleWindow ==
  lpc = "left" => pc.ui \in {"closed", "wrote", "register"}

\* What calling into the loop from the UI thread may do to a request.
Excused == lost # {} \/ lpc = "undefined"

\* The attempt that run() makes before the loop runs gets its callback without
\* anything else waking the loop.
StartupConnectReported ==
  status[1] \in {"opened", "error"} ~>
    status[1] = "reported" \/ Excused \/ lpc = "left"

\* When the window is closed the program ends, unless an attempt cleared the
\* handle of another one, or a busy pipe keeps an attempt waiting.
ClosedWindowEndsLoop ==
  pc.ui = "closed" ~>
    \/ lpc = "left" \/ overlapped \/ Excused
    \/ \E n \in Attempts : status[n] = "waiting"

\* stream.rst of libuv on uv_connect_cb: "Callback called after a connection
\* started by uv_connect is done."
ConnectCallbackComes ==
  \A n \in Attempts :
    status[n] \in {"opened", "error"} ~>
      status[n] = "reported" \/ Excused \/ lpc = "left"
===============================================================================
