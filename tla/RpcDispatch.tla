------------------------------ MODULE RpcDispatch -----------------------------
(***************************************************************************)
(* One call of CDataMgr::rpcjson_dispath (src/shimmer/DataMgr.h) and the   *)
(* rpclib client it makes for it (src/depends/rpclib/lib/rpc/client.cc):   *)
(* the calling thread, which may not return before it has joined the       *)
(* other, and the thread that runs the client's io_service.                *)
(*                                                                         *)
(* The server is external: it may refuse, reply once, close, reset or lose *)
(* the connection at any time, or stay silent.  One action is one handler  *)
(* of the io_service; a pending write ends by itself and is left out.      *)
(***************************************************************************)
CONSTANT Texts  \* the strings the server may reply

VARIABLES
  caller,    \* where the calling thread is
  result,    \* what it returns or throws
  io,        \* io_thread_: "none", "running" or "ended"
  stopped,   \* io_.stop() was called
  state,     \* state_ of the client, which the caller reads without a lock
  reading,   \* a read is pending
  call,      \* the request: "none", "posted" to the strand, or "ongoing"
  future,    \* what the promise in ongoing_calls_ was given
  link,      \* the connection, as the client's end of it is
  requested, \* the server has the request
  replied,   \* its reply
  unread     \* the reply is here and nobody has read it

callerVars == <<caller, result>>
clientVars == <<io, stopped, state, reading, call, future>>
serverVars == <<link, requested, replied, unread>>
dispatchVars == <<callerVars, clientVars, serverVars>>

None == <<"none">>
Text(t) == <<"text", t>>

\* A string, a value that is none (get().as throws), or an error (get throws).
Replies == {Text(t) : t \in Texts} \cup {<<"no_string">>, <<"rpc_error">>}

\* The text "{}" that stands for no reply.
Fallback == <<"fallback">>

Lost == {"eof", "reset", "broken"}

DispatchInit ==
  /\ caller = "construct" /\ result = None
  /\ io = "none" /\ stopped = FALSE /\ state = "initial"
  /\ reading = FALSE /\ call = "none" /\ future = None
  /\ link = "closed" /\ requested = FALSE /\ replied = None /\ unread = FALSE

Goto(from, to) == caller = from /\ caller' = to

-------------------------------------------------------------------------------
(* rpcjson_dispath, on the calling thread. *)

\* The constructor starts to connect and starts the thread.
Construct ==
  /\ Goto("construct", "look")
  /\ link' = "connecting" /\ io' = "running"
  /\ UNCHANGED <<result, stopped, state, reading, call, future, requested,
                 replied, unread>>

\* wait_all_responses finds no call to wait for; then the state decides.
Look ==
  /\ IF state = "connected"
     THEN Goto("look", "post") /\ UNCHANGED result
     ELSE Goto("look", "stop") /\ result' = Fallback
  /\ UNCHANGED <<clientVars, serverVars>>

\* async_call: connected, so wait_conn returns at once.
PostCall ==
  /\ Goto("post", "wait")
  /\ call' = "posted"
  /\ UNCHANGED <<result, io, stopped, state, reading, future, serverVars>>

\* Seeded fault: the wait has a limit, and then the fallback is returned.
GetOrGiveUp ==
  /\ Goto("wait", "stop")
  /\ result' = IF future = None THEN Fallback ELSE future
  /\ UNCHANGED <<clientVars, serverVars>>

\* wait, without a limit, and get().as<std::string>.
Get ==
  /\ Goto("wait", "stop")
  /\ future # None
  /\ result' = future
  /\ UNCHANGED <<clientVars, serverVars>>

\* Seeded fault: the destructor only joins.
StopForgets ==
  /\ Goto("stop", "join")
  /\ UNCHANGED <<result, clientVars, serverVars>>

\* The destructor runs whether a value is returned or an exception thrown.
Stop ==
  /\ Goto("stop", "join")
  /\ stopped' = TRUE
  /\ UNCHANGED <<result, io, state, reading, call, future, serverVars>>

Join ==
  /\ Goto("join", "done")
  /\ io = "ended"
  /\ UNCHANGED <<result, clientVars, serverVars>>

-------------------------------------------------------------------------------
(* io_.run() on the client's thread. *)

Handling == io = "running" /\ ~stopped

\* Seeded fault: nothing is read.
OnConnectedDeaf ==
  /\ Handling /\ state = "initial" /\ link \in {"open"} \cup Lost
  /\ state' = "connected"
  /\ UNCHANGED <<callerVars, io, stopped, reading, call, future, serverVars>>

\* The handler of async_connect: is_connected_, state_, do_read.
OnConnected ==
  /\ Handling /\ state = "initial" /\ link \in {"open"} \cup Lost
  /\ state' = "connected" /\ reading' = TRUE
  /\ UNCHANGED <<callerVars, io, stopped, call, future, serverVars>>

OnConnectError ==
  /\ Handling /\ state = "initial" /\ link = "refused"
  /\ state' = "disconnected"
  /\ UNCHANGED <<callerVars, io, stopped, reading, call, future, serverVars>>

\* What post() gave to the strand: the call is remembered and written.
OnPosted ==
  /\ Handling /\ call = "posted"
  /\ call' = "ongoing"
  /\ UNCHANGED <<callerVars, io, stopped, state, reading, future, serverVars>>

\* The reply completes the promise, and the next read begins.
OnReply ==
  /\ Handling /\ reading /\ unread
  /\ future' = replied /\ unread' = FALSE
  /\ UNCHANGED <<callerVars, io, stopped, state, reading, call, link, requested,
                 replied>>

\* The end of the connection: no further read, and the promises of the calls
\* stay as they are.  Errors other than eof and reset are only logged.
OnReadError ==
  /\ Handling /\ reading /\ ~unread /\ link \in Lost
  /\ reading' = FALSE
  /\ state' = IF link = "broken" THEN state ELSE "disconnected"
  /\ UNCHANGED <<callerVars, io, stopped, call, future, serverVars>>

HasWork == state = "initial" \/ call = "posted" \/ reading

\* run() returns when it was stopped, or for lack of work.
RunReturns ==
  /\ io = "running" /\ (stopped \/ ~HasWork)
  /\ io' = "ended"
  /\ UNCHANGED <<callerVars, stopped, state, reading, call, future, serverVars>>

-------------------------------------------------------------------------------
(* The server and the network. *)

ConnectEnds ==
  /\ link = "connecting"
  /\ link' \in {"open", "refused"}
  /\ UNCHANGED <<callerVars, clientVars, requested, replied, unread>>

ServerReceives ==
  /\ link = "open" /\ call = "ongoing" /\ ~requested
  /\ requested' = TRUE
  /\ UNCHANGED <<callerVars, clientVars, link, replied, unread>>

ServerReplies ==
  /\ link = "open" /\ requested /\ replied = None
  /\ replied' \in Replies /\ unread' = TRUE
  /\ UNCHANGED <<callerVars, clientVars, link, requested>>

\* A closed connection delivers what was sent before, another may not.
ConnectionLost ==
  /\ link = "open"
  /\ link' \in Lost
  /\ unread' \in IF link' = "eof" THEN {unread} ELSE {unread, FALSE}
  /\ UNCHANGED <<callerVars, clientVars, requested, replied>>

-------------------------------------------------------------------------------
CallerStep == Construct \/ Look \/ PostCall \/ Get \/ Stop \/ Join

IoStep ==
  \/ OnConnected \/ OnConnectError \/ OnPosted \/ OnReply \/ OnReadError
  \/ RunReturns

ServerStep == ServerReceives \/ ServerReplies \/ ConnectionLost

DispatchNext == CallerStep \/ IoStep \/ ConnectEnds \/ ServerStep

DispatchSafeSpec == DispatchInit /\ [][DispatchNext]_dispatchVars

\* Both threads are scheduled and the system ends every attempt to connect.
\* Nothing makes a server reply.
DispatchFairness ==
  /\ WF_dispatchVars(CallerStep) /\ WF_dispatchVars(IoStep)
  /\ WF_dispatchVars(ConnectEnds)

-------------------------------------------------------------------------------
(* Properties. *)

DispatchTypeOK ==
  /\ caller \in {"construct", "look", "post", "wait", "stop", "join", "done"}
  /\ result \in Replies \cup {None, Fallback}
  /\ io \in {"none", "running", "ended"}
  /\ stopped \in BOOLEAN
  /\ state \in {"initial", "connected", "disconnected"}
  /\ reading \in BOOLEAN
  /\ call \in {"none", "posted", "ongoing"}
  /\ future \in Replies \cup {None}
  /\ link \in {"closed", "connecting", "refused", "open"} \cup Lost
  /\ requested \in BOOLEAN
  /\ replied \in Replies \cup {None}
  /\ unread \in BOOLEAN

Remote == INSTANCE RemoteCall WITH Replies <- Replies, Fallback <- Fallback,
            Nothing <- None, requested <- requested, replied <- replied,
            outcome <- result

\* rpcjson_dispath is the abstract call: asks at most once, returns what the
\* server replied, and gives "{}" only when the server was not asked.
ImplementsRemoteCall == Remote!Spec

\* The thread that could complete the promise the caller waits for is gone
\* only when the connection is: the state says so, or the error was not one of
\* the two that client.cc treats as a loss.
NobodyToAnswer ==
  caller = "wait" /\ future = None /\ io = "ended" =>
    ~reading /\ link \in Lost /\ (state = "disconnected" \/ link = "broken")
===============================================================================
