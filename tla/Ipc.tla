---------------------------------- MODULE Ipc ---------------------------------
(***************************************************************************)
(* The client and the daemon together: rpcmgr and CMachine of the client   *)
(* (src/shimmer/rpcmgr.cpp, Machine.cpp) send the messages of the option   *)
(* button through the named pipe to rpsmgr (src/deamon/rpsmgr.cpp), in a   *)
(* daemon that may die at any time and be started again.                   *)
(*                                                                         *)
(* What PipeClient and PipeServer do step by step is one action here: a    *)
(* completed attempt is reported once, a connected client is accepted and  *)
(* read unless the daemon lost a request of it or closed its instance, and *)
(* the loops do not end early.  What stays apart is what the UI thread     *)
(* reads and clears while the loop thread sets it.  What is undefined in   *)
(* those two modules, clicks before run() has reset reqConnect among it,   *)
(* is left out here.                                                       *)
(***************************************************************************)
EXTENDS Naturals, Sequences

CONSTANTS
  MaxMessages, \* clicks of the option button
  MaxAttempts, \* calls of initPipeClient
  MaxLives     \* starts of the daemon

ASSUME IpcAssumption ==
  MaxMessages \in Nat /\ MaxAttempts \in Nat \ {0} /\ MaxLives \in Nat

VARIABLES
  pc,         \* where initPipeClient is, on the threads "main" and "ui"
  tries,      \* the last attempt that the UI thread began
  reqConnect, \* the attempt whose request send_data uses, or None
  pipe,       \* pipeClient, the one uv_pipe_t of all attempts
  outcome,    \* of each attempt, for as long as it is not reported
  conn,       \* the connection that each attempt opened
  buffer,     \* the messages in it
  daemon,     \* "up" or "down"
  lives,      \* starts of the daemon
  served,     \* connections that the daemon accepted and reads
  unheard,    \* connections that the daemon lost a request of
  offered,    \* how many messages there were
  carried,    \* those that went into a pipe
  received,   \* those that a daemon read
  writtenOn   \* the connections they went to

clientVars == <<pc, tries, reqConnect, pipe, outcome>>
daemonVars == <<daemon, lives, served, unheard, received>>
messageVars == <<offered, carried, writtenOn>>
vars == <<clientVars, conn, buffer, daemonVars, messageVars>>

Attempts == 1..MaxAttempts
None == 0
Attempt(t) == IF t = "main" THEN 1 ELSE tries

\* conn: the connection in the handle; used: UV_HANDLE_CONNECTION.
FreshPipe == [conn |-> None, used |-> FALSE]

Init ==
  /\ pc = [main |-> "reset", ui |-> "idle"] /\ tries = 1
  /\ reqConnect = None /\ pipe = FreshPipe
  /\ outcome = [n \in Attempts |-> "none"]
  /\ conn = [n \in Attempts |-> "none"]
  /\ buffer = [n \in Attempts |-> <<>>]
  /\ daemon = "down" /\ lives = 0 /\ served = {} /\ unheard = {}
  /\ offered = 0 /\ carried = <<>> /\ received = <<>> /\ writtenOn = {}

Goto(t, from, to) == pc[t] = from /\ pc' = [pc EXCEPT ![t] = to]

-------------------------------------------------------------------------------
(* initPipeClient, from run() on the main thread and from a click. *)

ResetConnect(t) ==
  /\ Goto(t, "reset", "wipe")
  /\ reqConnect' = None
  /\ UNCHANGED <<tries, pipe, outcome, conn, buffer, daemonVars, messageVars>>

\* A connection that was in the handle stays open and is forgotten.
WipePipe(t) ==
  /\ Goto(t, "wipe", "connect")
  /\ pipe' = FreshPipe
  /\ UNCHANGED <<tries, reqConnect, outcome, conn, buffer, daemonVars,
                 messageVars>>

\* uv_pipe_connect opens an instance of the daemon's pipe, or there is none.
PipeConnect(t) ==
  /\ Goto(t, "connect", IF t = "main" THEN "run" ELSE "idle")
  /\ \/ /\ daemon = "up" /\ ~pipe.used
        /\ outcome' = [outcome EXCEPT ![Attempt(t)] = "opened"]
        /\ conn' = [conn EXCEPT ![Attempt(t)] = "open"]
     \/ /\ outcome' = [outcome EXCEPT ![Attempt(t)] = "error"]
        /\ UNCHANGED conn
  /\ pipe' = [pipe EXCEPT !.used = TRUE]
  /\ UNCHANGED <<tries, reqConnect, buffer, daemonVars, messageVars>>

-------------------------------------------------------------------------------
(* on_connect, on the main thread in uv_run. *)

\* An error is reported and changes nothing; so is the opened pipe whose other
\* end is gone, or one more than the handle can hold, which is closed.
ConnectFailed(n) ==
  /\ pc.main = "run"
  /\ \/ outcome[n] = "error" /\ UNCHANGED conn
     \/ /\ outcome[n] = "opened" /\ (pipe.conn # None \/ conn[n] = "broken")
        /\ conn' = [conn EXCEPT ![n] = IF @ = "open" THEN "left" ELSE @]
  /\ outcome' = [outcome EXCEPT ![n] = "none"]
  /\ UNCHANGED <<pc, tries, reqConnect, pipe, buffer, daemonVars, messageVars>>

\* Seeded fault: a pipe in the handle is replaced.
ConnectReplaces(n) ==
  /\ pc.main = "run" /\ outcome[n] = "opened"
  /\ pipe' = [pipe EXCEPT !.conn = n] /\ reqConnect' = n
  /\ outcome' = [outcome EXCEPT ![n] = "none"]
  /\ UNCHANGED <<pc, tries, conn, buffer, daemonVars, messageVars>>

\* The opened pipe is put into the handle and the request remembered.
Connected(n) ==
  /\ pc.main = "run" /\ outcome[n] = "opened" /\ pipe.conn = None
  /\ pipe' = [pipe EXCEPT !.conn = n] /\ reqConnect' = n
  /\ outcome' = [outcome EXCEPT ![n] = "none"]
  /\ UNCHANGED <<pc, tries, conn, buffer, daemonVars, messageVars>>

-------------------------------------------------------------------------------
(* send_data, on the UI thread. *)

Click ==
  /\ offered < MaxMessages
  /\ pc.main # "reset" /\ pc.ui = "idle"
  /\ offered' = offered + 1

Writable == pipe.conn # None /\ conn[pipe.conn] = "open"

\* Without a connection the message is dropped and an attempt begins.
ClickConnects ==
  /\ Click /\ reqConnect = None /\ tries < MaxAttempts
  /\ Goto("ui", "idle", "reset") /\ tries' = tries + 1
  /\ UNCHANGED <<reqConnect, pipe, outcome, conn, buffer, daemonVars, carried,
                 writtenOn>>

ClickWrites ==
  /\ Click /\ reqConnect # None /\ Writable
  /\ buffer' = [buffer EXCEPT ![pipe.conn] = Append(@, offered')]
  /\ carried' = Append(carried, offered')
  /\ writtenOn' = writtenOn \cup {pipe.conn}
  /\ UNCHANGED <<clientVars, conn, daemonVars>>

\* Seeded fault: when a message cannot be written, another attempt begins.
ClickReconnects ==
  /\ Click /\ reqConnect # None /\ ~Writable /\ tries < MaxAttempts
  /\ Goto("ui", "idle", "reset") /\ tries' = tries + 1
  /\ UNCHANGED <<reqConnect, pipe, outcome, conn, buffer, daemonVars, carried,
                 writtenOn>>

\* uv_write fails: the handle was cleared, or the other end is gone.
ClickFails ==
  /\ Click /\ reqConnect # None /\ ~Writable
  /\ UNCHANGED <<clientVars, conn, buffer, daemonVars, carried, writtenOn>>

\* The window is closed, the loop and the process end, and with the process
\* every connection.
ClientLeaves ==
  /\ pc.main = "run" /\ Goto("ui", "idle", "left")
  /\ conn' = [n \in Attempts |-> IF conn[n] = "open" THEN "left" ELSE conn[n]]
  /\ outcome' = [n \in Attempts |-> "none"]
  /\ UNCHANGED <<tries, reqConnect, pipe, buffer, daemonVars, messageVars>>

-------------------------------------------------------------------------------
(* The daemon. *)

\* initLocalServer: the name is free, because the process before is gone.
DaemonStart ==
  /\ daemon = "down" /\ lives < MaxLives
  /\ daemon' = "up" /\ lives' = lives + 1
  /\ UNCHANGED <<clientVars, conn, buffer, served, unheard, received, messageVars>>

\* It may die at any time, with what is in the pipes.
DaemonCrash ==
  /\ daemon = "up" /\ daemon' = "down"
  /\ conn' = [n \in Attempts |-> IF conn[n] \in {"open", "left"} THEN "broken"
                                                                 ELSE conn[n]]
  /\ buffer' = [n \in Attempts |-> <<>>]
  /\ served' = {}
  /\ UNCHANGED <<clientVars, lives, unheard, received, messageVars>>

Accept(n) ==
  /\ conn[n] \in {"open", "left"} /\ n \notin served \cup unheard
  /\ served' = served \cup {n}
  /\ UNCHANGED <<clientVars, conn, buffer, daemon, lives, unheard, received,
                 messageVars>>

\* The worker's insertion into the list of the running loop loses the accept or
\* read request of n, or onPipeConnection finds no memory: n waits for ever.
LoseRequest(n) ==
  /\ conn[n] \in {"open", "left"} /\ n \notin unheard
  /\ unheard' = unheard \cup {n}
  /\ UNCHANGED <<clientVars, conn, buffer, daemon, lives, served, received,
                 messageVars>>

\* The daemon closes its end unread: ConnectNamedPipe failed, because the client
\* had left already or otherwise, or the data could not be read.
CloseUnread(n) ==
  /\ conn[n] \in {"open", "left"} /\ (n \notin served \/ buffer[n] # <<>>)
  /\ conn' = [conn EXCEPT ![n] = "broken"] /\ served' = served \ {n}
  /\ buffer' = [buffer EXCEPT ![n] = <<>>]
  /\ UNCHANGED <<clientVars, daemon, lives, unheard, received, messageVars>>

\* onPipeRead, until nothing is left to read.
OnData(n) ==
  /\ n \in served \ unheard /\ buffer[n] # <<>>
  /\ received' = received \o buffer[n]
  /\ buffer' = [buffer EXCEPT ![n] = <<>>]
  /\ UNCHANGED <<clientVars, conn, daemon, lives, served, unheard, messageVars>>

\* Seeded fault: the end of the client is looked at before its messages.
OnEofEager(n) ==
  /\ n \in served \ unheard /\ conn[n] = "left"
  /\ conn' = [conn EXCEPT ![n] = "closed"] /\ served' = served \ {n}
  /\ buffer' = [buffer EXCEPT ![n] = <<>>]
  /\ UNCHANGED <<clientVars, daemon, lives, unheard, received, messageVars>>

OnEof(n) ==
  /\ n \in served \ unheard /\ conn[n] = "left" /\ buffer[n] = <<>>
  /\ conn' = [conn EXCEPT ![n] = "closed"] /\ served' = served \ {n}
  /\ UNCHANGED <<clientVars, buffer, daemon, lives, unheard, received,
                 messageVars>>

-------------------------------------------------------------------------------
InitPipeClient(t) == ResetConnect(t) \/ WipePipe(t) \/ PipeConnect(t)
Report(n) == Connected(n) \/ ConnectFailed(n)
Serve(n) == Accept(n) \/ OnData(n) \/ OnEof(n)
Fault(n) == LoseRequest(n) \/ CloseUnread(n)
User == ClickConnects \/ ClickWrites \/ ClickFails \/ ClientLeaves

Next ==
  \/ InitPipeClient("main") \/ InitPipeClient("ui")
  \/ \E n \in Attempts : Report(n) \/ Serve(n) \/ Fault(n)
  \/ User \/ DaemonStart \/ DaemonCrash

\* The daemon's loop gets to every request that it did not lose, as long as the
\* daemon lives.  Nothing more is assumed: neither that an attempt is reported
\* nor that the user clicks or the daemon is started.
Fairness == \A n \in Attempts : WF_vars(Serve(n))

SafeSpec == Init /\ [][Next]_vars
Spec == SafeSpec /\ Fairness

-------------------------------------------------------------------------------
(* Properties. *)

TypeOK ==
  /\ pc \in [{"main", "ui"} ->
               {"reset", "wipe", "connect", "run", "idle", "left"}]
  /\ pc.main \in {"reset", "wipe", "connect", "run"}
  /\ tries \in Attempts
  /\ reqConnect \in Attempts \cup {None}
  /\ pipe \in [conn : Attempts \cup {None}, used : BOOLEAN]
  /\ outcome \in [Attempts -> {"none", "opened", "error"}]
  /\ conn \in [Attempts -> {"none", "open", "left", "closed", "broken"}]
  /\ buffer \in [Attempts -> Seq(1..MaxMessages)]
  /\ daemon \in {"up", "down"}
  /\ lives \in 0..MaxLives
  /\ served \subseteq Attempts /\ unheard \subseteq Attempts
  /\ offered \in 0..MaxMessages
  /\ carried \in Seq(1..MaxMessages)
  /\ received \in Seq(1..MaxMessages)
  /\ writtenOn \subseteq Attempts

\* The daemon's end of the connection that messages went into is gone.
Cut == \E n \in writtenOn : conn[n] = "broken"

\* Whatever attempts the two threads make on the one handle, all messages go
\* into one connection, which stays the one that send_data writes to: the
\* thread that sends is the only one that gives a connection up, and does so
\* only while it has none.
OneConnection ==
  \A n \in writtenOn : pipe.conn = n /\ reqConnect = n /\ writtenOn = {n}

Stream == INSTANCE MessageStream WITH cut <- Cut

\* The daemon receives a run of the messages without a gap, in order and once,
\* and nothing after the connection was cut, however often it is started again.
ImplementsStream == Stream!Spec

\* A message that went into the pipe is read, also when the client leaves right
\* after it, unless the daemon's end of the pipe went with the message in it or
\* the daemon lost the request that would have told it.
CarriedIsReceived ==
  \A m \in 1..MaxMessages :
    (\E k \in DOMAIN carried : carried[k] = m) ~>
      (\E k \in DOMAIN received : received[k] = m)
        \/ Cut \/ writtenOn \cap unheard # {}
===============================================================================
