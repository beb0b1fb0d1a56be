------------------------------- MODULE IpcProofs ------------------------------
(***************************************************************************)
(* Theorems about module Ipc, the client's and the daemon's ends of the    *)
(* pipe together, for any number of messages, of attempts to connect and   *)
(* of starts of the daemon.                                                *)
(***************************************************************************)
EXTENDS Ipc, TLAPS

-------------------------------------------------------------------------------
(* Type correctness. *)

Messages == 1..MaxMessages

LEMMA AttemptsExist == 1 \in Attempts /\ Attempts \subseteq Nat \ {None}
  BY IpcAssumption DEF Attempts, None

LEMMA AttemptType == TypeOK => \A t \in {"main", "ui"} : Attempt(t) \in Attempts
  BY AttemptsExist DEF TypeOK, Attempt

\* Every variable of the two programs stays in its range.
THEOREM IpcTypeCorrect == SafeSpec => []TypeOK
<1>1. Init => TypeOK
  <2> SUFFICES ASSUME Init PROVE TypeOK
    OBVIOUS
  <2>1. pc \in [{"main", "ui"} ->
                  {"reset", "wipe", "connect", "run", "idle", "left"}]
    BY DEF Init
  <2> QED
    BY <2>1, AttemptsExist, IpcAssumption DEF Init, TypeOK, FreshPipe
<1>2. TypeOK /\ [Next]_vars => TypeOK'
  <2> SUFFICES ASSUME TypeOK, [Next]_vars PROVE TypeOK'
    OBVIOUS
  <2> USE AttemptType, IpcAssumption
      DEF TypeOK, Goto, clientVars, daemonVars, messageVars
  <2>1. ASSUME NEW t \in {"main", "ui"}, InitPipeClient(t) PROVE TypeOK'
    <3>1. CASE ResetConnect(t)
      BY <3>1 DEF ResetConnect
    <3>2. CASE WipePipe(t)
      BY <3>2 DEF WipePipe, FreshPipe
    <3>3. CASE PipeConnect(t)
      <4>1. /\ pc' \in [{"main", "ui"} ->
                          {"reset", "wipe", "connect", "run", "idle", "left"}]
            /\ pc'.main \in {"reset", "wipe", "connect", "run"}
        BY <3>3 DEF PipeConnect
      <4>2. /\ outcome' \in [Attempts -> {"none", "opened", "error"}]
            /\ conn' \in [Attempts -> {"none", "open", "left", "closed", "broken"}]
        BY <3>3 DEF PipeConnect
      <4> QED
        BY <3>3, <4>1, <4>2 DEF PipeConnect
    <3> QED
      BY <2>1, <3>1, <3>2, <3>3 DEF InitPipeClient
  <2>2. ASSUME NEW n \in Attempts, Connected(n) PROVE TypeOK'
    BY <2>2 DEF Connected
  <2>3. ASSUME NEW n \in Attempts, ConnectFailed(n) PROVE TypeOK'
    BY <2>3 DEF ConnectFailed
  <2>4. ASSUME NEW n \in Attempts, Serve(n) PROVE TypeOK'
    <3>1. CASE Accept(n)
      BY <3>1 DEF Accept
    <3>2. CASE OnData(n)
      BY <3>2 DEF OnData
    <3>3. CASE OnEof(n)
      BY <3>3 DEF OnEof
    <3> QED
      BY <2>4, <3>1, <3>2, <3>3 DEF Serve
  <2>5. CASE ClickConnects
    <3>1. offered' \in 0..MaxMessages
      BY <2>5 DEF ClickConnects, Click
    <3>2. tries' \in Attempts
      BY <2>5 DEF ClickConnects, Attempts
    <3> QED
      BY <2>5, <3>1, <3>2 DEF ClickConnects
  <2>6. CASE ClickWrites
    <3>1. offered' \in Messages /\ offered' \in 0..MaxMessages
      BY <2>6 DEF ClickWrites, Click, Messages
    <3>2. pipe.conn \in Attempts
      BY <2>6 DEF ClickWrites, Writable
    <3> QED
      BY <2>6, <3>1, <3>2 DEF ClickWrites, Click, Messages
  <2>7. CASE ClickFails
    BY <2>7 DEF ClickFails, Click
  <2>8. CASE ClientLeaves
    BY <2>8 DEF ClientLeaves
  <2>9. CASE DaemonStart
    BY <2>9 DEF DaemonStart
  <2>10. CASE DaemonCrash
    BY <2>10 DEF DaemonCrash
  <2>11. ASSUME NEW n \in Attempts, Fault(n) PROVE TypeOK'
    <3>1. CASE LoseRequest(n)
      BY <3>1 DEF LoseRequest
    <3>2. CASE CloseUnread(n)
      BY <3>2 DEF CloseUnread
    <3> QED
      BY <2>11, <3>1, <3>2 DEF Fault
  <2>12. CASE UNCHANGED vars
    BY <2>12 DEF vars
  <2> QED
    BY <2>1, <2>2, <2>3, <2>4, <2>5, <2>6, <2>7, <2>8, <2>9, <2>10, <2>11, <2>12
       DEF Next, Report, User
<1> QED
  BY <1>1, <1>2, PTL DEF SafeSpec

-------------------------------------------------------------------------------
(* The inductive invariant. *)

Connecting == {"reset", "wipe", "connect"}

\* No uv_pipe_connect was made for attempt n.
Unused(n) ==
  \/ n > tries
  \/ n = 1 /\ pc.main \in Connecting
  \/ n = tries /\ pc.ui \in Connecting

\* How the two threads share the handle and the request.
ClientInv ==
  /\ pc.main # "run" => reqConnect = None /\ pipe.conn = None
  /\ pc.ui \in Connecting => tries > 1 /\ writtenOn = {}
  /\ \A n \in Attempts : Unused(n) => conn[n] = "none" /\ outcome[n] = "none"
  /\ \A n \in Attempts : outcome[n] = "opened" => conn[n] \in {"open", "broken"}
  /\ pipe.conn # None =>
       /\ outcome[pipe.conn] = "none" /\ conn[pipe.conn] # "none"
       /\ reqConnect \in {None, pipe.conn}
       /\ pc.ui # "left" => conn[pipe.conn] \in {"open", "broken"}
  /\ OneConnection

\* Where the carried messages are: read, or in the one connection.
StreamInv ==
  /\ writtenOn = {} => carried = <<>> /\ received = <<>>
  /\ \A n \in Attempts :
       n \notin writtenOn \/ conn[n] = "closed" => buffer[n] = <<>>
  /\ \A n \in writtenOn : conn[n] # "broken" => carried = received \o buffer[n]
  /\ \A n \in served : conn[n] \in {"open", "left"}

LEMMA ClientInvStep ==
  TypeOK /\ TypeOK' /\ ClientInv /\ [Next]_vars => ClientInv'
<1> SUFFICES ASSUME TypeOK, TypeOK', ClientInv, [Next]_vars
             PROVE  ClientInv'
  OBVIOUS
<1> USE AttemptsExist
    DEF TypeOK, ClientInv, OneConnection, Unused, Connecting, Goto, clientVars,
        daemonVars, messageVars
<1>1. ASSUME NEW t \in {"main", "ui"}, ResetConnect(t) PROVE ClientInv'
  BY <1>1 DEF ResetConnect
<1>2. ASSUME NEW t \in {"main", "ui"}, WipePipe(t) PROVE ClientInv'
  BY <1>2 DEF WipePipe, FreshPipe
<1>3. ASSUME NEW t \in {"main", "ui"}, PipeConnect(t) PROVE ClientInv'
  <2> DEFINE a == Attempt(t)
  <2>1. a \in Attempts /\ Unused(a)
    BY <1>3, AttemptType DEF PipeConnect, Attempt
  <2>3. ASSUME NEW n \in Attempts, Unused(n)' PROVE Unused(n) /\ n # a
    <3>1. tries' = tries /\ tries \in Nat /\ n \in Nat
      BY <1>3 DEF PipeConnect, Attempts
    <3>2. CASE t = "main"
      <4>1. pc.main = "connect" /\ pc'.main = "run" /\ pc'.ui = pc.ui /\ a = 1
        BY <1>3, <3>2 DEF PipeConnect, Attempt
      <4>2. tries >= 1
        BY DEF Attempts
      <4> HIDE DEF a
      <4> QED
        BY <2>3, <3>1, <4>1, <4>2
    <3>3. CASE t = "ui"
      <4>1. /\ pc.ui = "connect" /\ pc'.ui = "idle" /\ pc'.main = pc.main
            /\ a = tries
        BY <1>3, <3>3 DEF PipeConnect, Attempt
      <4> HIDE DEF a
      <4>2. tries > 1
        BY <4>1
      <4> HIDE DEF TypeOK, ClientInv
      <4>3. CASE n > tries
        BY <3>1, <4>1, <4>3
      <4>4. CASE n = 1 /\ pc.main \in Connecting
        BY <3>1, <4>1, <4>2, <4>4
      <4>5. ~(n = tries' /\ pc'.ui \in Connecting)
        BY <4>1
      <4> QED
        BY <2>3, <3>1, <4>1, <4>3, <4>4, <4>5
    <3> QED
      BY <3>2, <3>3
  <2> HIDE DEF a
  <2>2. conn[a] = "none" /\ outcome[a] = "none" /\ pipe.conn # a
    <3>1. /\ \A n \in Attempts : Unused(n) => conn[n] = "none" /\ outcome[n] = "none"
          /\ pipe.conn # None => conn[pipe.conn] # "none"
          /\ None \notin Attempts
      OBVIOUS
    <3> HIDE DEF TypeOK, ClientInv, Unused, None, Attempts
    <3> QED
      BY <2>1, <3>1
  <2>4. /\ pipe'.conn = pipe.conn
        /\ UNCHANGED <<tries, reqConnect, writtenOn>>
        /\ \A n \in Attempts \ {a} : conn'[n] = conn[n] /\ outcome'[n] = outcome[n]
        /\ outcome'[a] = "opened" => conn'[a] = "open"
    BY <1>3, <2>1 DEF PipeConnect, a
  <2>5. /\ pc.main = "run" => pc'.main = "run"
        /\ pc'.ui = "left" <=> pc.ui = "left"
        /\ pc'.ui \in Connecting => pc.ui \in Connecting
    BY <1>3 DEF PipeConnect
  <2> HIDE DEF Unused
  <2>6. \A n \in Attempts : Unused(n)' => conn'[n] = "none" /\ outcome'[n] = "none"
    BY <2>3, <2>4
  <2>7. \A n \in Attempts : outcome'[n] = "opened" => conn'[n] \in {"open", "broken"}
    BY <2>4
  <2>8. pipe.conn # None =>
          /\ conn'[pipe.conn] = conn[pipe.conn]
          /\ outcome'[pipe.conn] = outcome[pipe.conn]
    BY <2>2, <2>4
  <2>9. pc'.main # "run" => reqConnect = None /\ pipe.conn = None
    BY <2>5
  <2> QED
    BY <2>4, <2>5, <2>6, <2>7, <2>8, <2>9
<1>4. ASSUME NEW n \in Attempts, Connected(n) PROVE ClientInv'
  BY <1>4 DEF Connected
<1>5. ASSUME NEW n \in Attempts, ConnectFailed(n) PROVE ClientInv'
  <2>1. /\ UNCHANGED <<pc, tries, reqConnect, pipe, writtenOn>>
        /\ outcome' = [outcome EXCEPT ![n] = "none"]
        /\ outcome[n] # "none"
        /\ conn' = conn \/ conn' = [conn EXCEPT ![n] = conn'[n]]
    BY <1>5 DEF ConnectFailed
  <2>2. OneConnection'
    BY <2>1
  <2>3. \A m \in Attempts : Unused(m)' <=> Unused(m)
    BY <2>1
  <2>4. ~Unused(n) /\ n # pipe.conn
    BY <2>1
  <2>5. \A m \in Attempts \ {n} : conn'[m] = conn[m] /\ outcome'[m] = outcome[m]
    <3>1. DOMAIN conn = Attempts /\ DOMAIN outcome = Attempts
      OBVIOUS
    <3> HIDE DEF TypeOK, ClientInv, Attempts
    <3> QED
      BY <2>1, <3>1
  <2>6. outcome'[n] = "none"
    BY <2>1
  <2>7. pipe.conn # None => pipe.conn \in Attempts \ {n}
    BY <2>4
  <2> HIDE DEF Unused
  <2>8. \A m \in Attempts :
          Unused(m)' => conn'[m] = "none" /\ outcome'[m] = "none"
    <3> SUFFICES ASSUME NEW m \in Attempts, Unused(m)'
                 PROVE  conn'[m] = "none" /\ outcome'[m] = "none"
      OBVIOUS
    <3>1. Unused(m)
      BY <2>3
    <3>2. m # n
      BY <2>4, <3>1
    <3>3. conn[m] = "none" /\ outcome[m] = "none"
      BY <3>1
    <3> QED
      BY <2>5, <3>2, <3>3
  <2>9. \A m \in Attempts :
          outcome'[m] = "opened" => conn'[m] \in {"open", "broken"}
    BY <2>5, <2>6
  <2>10. pipe'.conn # None =>
           /\ outcome'[pipe'.conn] = "none" /\ conn'[pipe'.conn] # "none"
           /\ reqConnect' \in {None, pipe'.conn}
           /\ pc'.ui # "left" => conn'[pipe'.conn] \in {"open", "broken"}
    <3> SUFFICES ASSUME pipe.conn # None
                 PROVE  /\ outcome'[pipe.conn] = "none"
                        /\ conn'[pipe.conn] # "none"
                        /\ reqConnect \in {None, pipe.conn}
                        /\ pc.ui # "left" =>
                             conn'[pipe.conn] \in {"open", "broken"}
      BY <2>1
    <3>1. /\ conn'[pipe.conn] = conn[pipe.conn]
          /\ outcome'[pipe.conn] = outcome[pipe.conn]
      BY <2>5, <2>7
    <3> QED
      BY <3>1
  <2>11. /\ pc'.main # "run" => reqConnect' = None /\ pipe'.conn = None
         /\ pc'.ui \in Connecting => tries' > 1 /\ writtenOn' = {}
    BY <2>1
  <2> QED
    BY <2>2, <2>8, <2>9, <2>10, <2>11
<1>6. ASSUME NEW n \in Attempts, Serve(n) PROVE ClientInv'
  <2>1. CASE Accept(n)
    BY <2>1 DEF Accept
  <2>2. CASE OnData(n)
    BY <2>2 DEF OnData
  <2>3. CASE OnEof(n)
    BY <2>3 DEF OnEof
  <2> QED
    BY <1>6, <2>1, <2>2, <2>3 DEF Serve
<1>7. CASE ClickConnects
  <2>1. /\ reqConnect = None /\ tries' = tries + 1
        /\ pc.ui = "idle" /\ pc' = [pc EXCEPT !["ui"] = "reset"]
        /\ UNCHANGED <<reqConnect, pipe, outcome, conn, writtenOn>>
    BY <1>7 DEF ClickConnects, Click
  <2>2. writtenOn = {}
    BY <2>1
  <2>3. tries \in Nat /\ tries >= 1
    BY DEF Attempts
  <2>4. \A n \in Attempts : Unused(n)' => Unused(n)
    BY <2>1, <2>3 DEF Attempts
  <2>5. pc'.main = pc.main /\ pc'.ui = "reset"
    BY <2>1
  <2> HIDE DEF Unused
  <2> QED
    BY <2>1, <2>2, <2>3, <2>4, <2>5
<1>8. CASE ClickWrites
  <2>1. /\ pc.ui = "idle" /\ reqConnect # None /\ pipe.conn # None
        /\ conn[pipe.conn] = "open" /\ writtenOn' = writtenOn \cup {pipe.conn}
        /\ UNCHANGED <<pc, tries, reqConnect, pipe, outcome, conn>>
    BY <1>8 DEF ClickWrites, Click, Writable
  <2>2. reqConnect = pipe.conn
    BY <2>1
  <2>3. OneConnection'
    BY <2>1, <2>2
  <2>4. \A n \in Attempts : Unused(n)' <=> Unused(n)
    BY <2>1
  <2> HIDE DEF Unused
  <2> QED
    BY <2>1, <2>3, <2>4
<1>9. CASE ClickFails
  BY <1>9 DEF ClickFails, Click
<1>10. CASE ClientLeaves
  BY <1>10 DEF ClientLeaves
<1>11. CASE DaemonStart
  BY <1>11 DEF DaemonStart
<1>12. CASE DaemonCrash
  <2>1. /\ UNCHANGED <<pc, tries, reqConnect, pipe, outcome, writtenOn>>
        /\ \A n \in Attempts :
             conn'[n] = IF conn[n] \in {"open", "left"} THEN "broken" ELSE conn[n]
    BY <1>12 DEF DaemonCrash
  <2>2. \A n \in Attempts : Unused(n)' <=> Unused(n)
    BY <2>1
  <2>3. pipe.conn # None => pipe.conn \in Attempts
    OBVIOUS
  <2> HIDE DEF Unused
  <2>4. \A n \in Attempts : Unused(n)' => conn'[n] = "none" /\ outcome'[n] = "none"
    BY <2>1, <2>2
  <2>5. \A n \in Attempts : outcome'[n] = "opened" => conn'[n] \in {"open", "broken"}
    BY <2>1
  <2>6. pipe.conn # None =>
          /\ conn'[pipe.conn] # "none"
          /\ pc.ui # "left" => conn'[pipe.conn] \in {"open", "broken"}
    BY <2>1, <2>3
  <2> QED
    BY <2>1, <2>4, <2>5, <2>6
<1>13. ASSUME NEW n \in Attempts, Fault(n) PROVE ClientInv'
  <2>1. /\ UNCHANGED <<pc, tries, reqConnect, pipe, outcome, writtenOn>>
        /\ \A k \in Attempts :
             conn'[k] = conn[k] \/ (conn[k] # "none" /\ conn'[k] = "broken")
    BY <1>13 DEF Fault, LoseRequest, CloseUnread
  <2>2. \A k \in Attempts : Unused(k)' <=> Unused(k)
    BY <2>1
  <2>3. pipe.conn # None => pipe.conn \in Attempts
    OBVIOUS
  <2> HIDE DEF Unused
  <2>4. \A k \in Attempts : Unused(k)' => conn'[k] = "none" /\ outcome'[k] = "none"
    BY <2>1, <2>2
  <2>5. \A k \in Attempts : outcome'[k] = "opened" => conn'[k] \in {"open", "broken"}
    BY <2>1
  <2>6. pipe.conn # None =>
          /\ conn'[pipe.conn] # "none"
          /\ pc.ui # "left" => conn'[pipe.conn] \in {"open", "broken"}
    BY <2>1, <2>3
  <2> QED
    BY <2>1, <2>4, <2>5, <2>6
<1>14. CASE UNCHANGED vars
  BY <1>14 DEF vars
<1> QED
  BY <1>1, <1>2, <1>3, <1>4, <1>5, <1>6, <1>7, <1>8, <1>9, <1>10, <1>11, <1>12,
     <1>13, <1>14 DEF Next, InitPipeClient, Report, User

\* All messages go into one connection, whatever attempts the two threads make.
THEOREM OneConnectionAlways == SafeSpec => []OneConnection
<1>1. Init => ClientInv
  BY AttemptsExist DEF Init, ClientInv, OneConnection, Unused, Connecting,
                       FreshPipe
<1>2. TypeOK /\ TypeOK' /\ ClientInv /\ [Next]_vars => ClientInv'
  BY ClientInvStep
<1>3. ClientInv => OneConnection
  BY DEF ClientInv
<1> QED
  BY <1>1, <1>2, <1>3, IpcTypeCorrect, PTL DEF SafeSpec

-------------------------------------------------------------------------------
(* The two programs implement the stream. *)

LEMMA AppendToEnd ==
  ASSUME NEW s \in Seq(Messages), NEW b \in Seq(Messages), NEW m \in Messages
  PROVE  Append(s \o b, m) = s \o Append(b, m)
  OBVIOUS

LEMMA StreamInvStep ==
  TypeOK /\ TypeOK' /\ ClientInv /\ StreamInv /\ [Next]_vars => StreamInv'
<1> SUFFICES ASSUME TypeOK, TypeOK', ClientInv, StreamInv, [Next]_vars
             PROVE  StreamInv'
  OBVIOUS
<1> USE AttemptsExist DEF StreamInv, clientVars, daemonVars, messageVars
<1>1. ASSUME NEW t \in {"main", "ui"}, ResetConnect(t) \/ WipePipe(t)
      PROVE  StreamInv'
  BY <1>1 DEF ResetConnect, WipePipe
<1>2. ASSUME NEW t \in {"main", "ui"}, PipeConnect(t) PROVE StreamInv'
  <2>1. Attempt(t) \in Attempts /\ conn[Attempt(t)] = "none"
    BY <1>2, AttemptType DEF PipeConnect, Attempt, Goto, ClientInv, Unused,
                             Connecting
  <2>2. /\ \A n \in Attempts \ {Attempt(t)} : conn'[n] = conn[n]
        /\ conn'[Attempt(t)] \in {"none", "open"}
        /\ UNCHANGED <<buffer, served, received, carried, writtenOn>>
    BY <1>2, <2>1 DEF PipeConnect, TypeOK
  <2>3. Attempt(t) \notin served
    BY <2>1
  <2> HIDE DEF Attempt
  <2> QED
    BY <2>1, <2>2, <2>3 DEF TypeOK
<1>3. ASSUME NEW n \in Attempts, Report(n) PROVE StreamInv'
  <2>1. CASE Connected(n)
    BY <2>1 DEF Connected
  <2>2. CASE ConnectFailed(n)
    <3>1. /\ UNCHANGED <<buffer, served, received, carried, writtenOn>>
          /\ \A k \in Attempts :
               conn'[k] = conn[k] \/ (conn[k] = "open" /\ conn'[k] = "left")
      BY <2>2 DEF ConnectFailed, TypeOK
    <3>2. writtenOn \subseteq Attempts /\ served \subseteq Attempts
      BY DEF TypeOK
    <3> QED
      BY <3>1, <3>2
  <2> QED
    BY <1>3, <2>1, <2>2 DEF Report
<1>4. ASSUME NEW n \in Attempts, Accept(n) PROVE StreamInv'
  BY <1>4 DEF Accept
<1>5. ASSUME NEW n \in Attempts, OnData(n) PROVE StreamInv'
  <2>1. /\ n \in served /\ n \in writtenOn /\ conn[n] \in {"open", "left"}
        /\ received' = received \o buffer[n]
        /\ buffer' = [buffer EXCEPT ![n] = <<>>]
        /\ UNCHANGED <<conn, served, carried, writtenOn>>
    BY <1>5 DEF OnData
  <2>2. writtenOn = {n}
    BY <2>1 DEF ClientInv, OneConnection
  <2>3. carried = received'
    BY <2>1
  <2>4. received' \o <<>> = received'
    BY DEF TypeOK
  <2> QED
    BY <2>1, <2>2, <2>3, <2>4 DEF TypeOK
<1>6. ASSUME NEW n \in Attempts, OnEof(n) PROVE StreamInv'
  <2>1. /\ conn[n] = "left" /\ buffer[n] = <<>>
        /\ conn' = [conn EXCEPT ![n] = "closed"] /\ served' = served \ {n}
        /\ UNCHANGED <<buffer, received, carried, writtenOn>>
    BY <1>6 DEF OnEof
  <2>2. conn'[n] = "closed" /\ \A k \in Attempts \ {n} : conn'[k] = conn[k]
    BY <2>1 DEF TypeOK
  <2>3. writtenOn \subseteq Attempts /\ served \subseteq Attempts
    BY DEF TypeOK
  <2>4. \A k \in writtenOn : conn'[k] # "broken" => conn[k] # "broken"
    BY <2>1, <2>2, <2>3
  <2> QED
    BY <2>1, <2>2, <2>3, <2>4
<1>7. CASE ClickWrites
  <2> DEFINE c == pipe.conn
  <2>1. /\ c \in Attempts /\ conn[c] = "open"
        /\ buffer' = [buffer EXCEPT ![c] = Append(@, offered')]
        /\ carried' = Append(carried, offered')
        /\ writtenOn' = writtenOn \cup {c}
        /\ UNCHANGED <<conn, served, received>>
    BY <1>7 DEF ClickWrites, Click, Writable, TypeOK
  <2>2. writtenOn \subseteq {c}
    BY DEF ClientInv, OneConnection
  <2>3. offered' \in Messages
    BY <1>7 DEF ClickWrites, Click, TypeOK, Messages
  <2>4. carried = received \o buffer[c]
    <3>1. CASE writtenOn = {}
      <4>1. carried = <<>> /\ received = <<>> /\ buffer[c] = <<>>
        BY <2>1, <3>1
      <4> QED
        BY <4>1
    <3>2. CASE writtenOn # {}
      BY <2>1, <2>2, <3>2
    <3> QED
      BY <3>1, <3>2
  <2>5. received \in Seq(Messages) /\ buffer[c] \in Seq(Messages)
    BY <2>1 DEF TypeOK, Messages
  <2>6. buffer'[c] = Append(buffer[c], offered')
    BY <2>1 DEF TypeOK
  <2>7. carried' = received' \o buffer'[c]
    <3>1. Append(received \o buffer[c], offered')
            = received \o Append(buffer[c], offered')
      BY <2>3, <2>5, AppendToEnd
    <3> QED
      BY <2>1, <2>4, <2>6, <3>1
  <2>8. \A n \in Attempts \ {c} : buffer'[n] = buffer[n]
    BY <2>1 DEF TypeOK
  <2> HIDE DEF c
  <2> QED
    BY <2>1, <2>2, <2>7, <2>8 DEF TypeOK
<1>8. CASE ClickConnects \/ ClickFails
  BY <1>8 DEF ClickConnects, ClickFails
<1>9. CASE ClientLeaves
  BY <1>9 DEF ClientLeaves, TypeOK
<1>10. CASE DaemonStart
  BY <1>10 DEF DaemonStart
<1>11. CASE DaemonCrash
  <2>1. /\ \A n \in Attempts :
             conn'[n] = IF conn[n] \in {"open", "left"} THEN "broken" ELSE conn[n]
        /\ \A n \in Attempts : buffer'[n] = <<>>
        /\ served' = {} /\ UNCHANGED <<received, carried, writtenOn>>
    BY <1>11 DEF DaemonCrash
  <2>2. ASSUME NEW n \in writtenOn, conn'[n] # "broken"
        PROVE  carried' = received' \o buffer'[n]
    <3>1. n \in Attempts /\ pipe.conn = n /\ conn[n] # "none"
      BY DEF ClientInv, OneConnection, TypeOK
    <3>2. conn[n] = "closed"
      BY <2>1, <2>2, <3>1 DEF TypeOK
    <3> QED
      BY <2>1, <3>1, <3>2
  <2> QED
    BY <2>1, <2>2
<1>12. ASSUME NEW n \in Attempts, LoseRequest(n) PROVE StreamInv'
  BY <1>12 DEF LoseRequest
<1>13. ASSUME NEW n \in Attempts, CloseUnread(n) PROVE StreamInv'
  <2>1. /\ conn'[n] = "broken" /\ \A k \in Attempts \ {n} : conn'[k] = conn[k]
        /\ buffer'[n] = <<>> /\ \A k \in Attempts \ {n} : buffer'[k] = buffer[k]
        /\ served' = served \ {n}
        /\ UNCHANGED <<received, carried, writtenOn>>
    BY <1>13 DEF CloseUnread, TypeOK
  <2>2. writtenOn \subseteq Attempts /\ served \subseteq Attempts
    BY DEF TypeOK
  <2> QED
    BY <2>1, <2>2
<1>14. CASE UNCHANGED vars
  BY <1>14 DEF vars
<1> QED
  BY <1>1, <1>2, <1>3, <1>4, <1>5, <1>6, <1>7, <1>8, <1>9, <1>10, <1>11, <1>12,
     <1>13, <1>14 DEF Next, InitPipeClient, Serve, Fault, User

\* Steps that change neither the messages nor whether their connection is cut.
LEMMA CutKept ==
  ASSUME TypeOK, TypeOK', UNCHANGED writtenOn,
         \A n \in writtenOn : conn'[n] = "broken" <=> conn[n] = "broken"
  PROVE  Cut' = Cut
  BY DEF Cut

LEMMA StreamStepRefines ==
  ASSUME TypeOK, TypeOK', ClientInv, StreamInv, [Next]_vars
  PROVE  [Stream!Next]_(Stream!vars)
<1> USE AttemptsExist DEF clientVars, daemonVars, messageVars, Stream!vars
<1>1. ASSUME UNCHANGED <<offered, carried, received, writtenOn>>,
             \A n \in writtenOn : conn'[n] = "broken" <=> conn[n] = "broken"
      PROVE  [Stream!Next]_(Stream!vars)
  BY <1>1, CutKept
<1>2. writtenOn \subseteq Attempts
  BY DEF TypeOK
<1>3. \A n \in writtenOn : pipe.conn = n /\ writtenOn = {n}
  BY DEF ClientInv, OneConnection
<1>4. ASSUME NEW t \in {"main", "ui"}, InitPipeClient(t)
      PROVE  [Stream!Next]_(Stream!vars)
  <2>1. CASE ResetConnect(t) \/ WipePipe(t)
    BY <1>1, <2>1 DEF ResetConnect, WipePipe
  <2>2. CASE PipeConnect(t)
    <3>1. UNCHANGED <<offered, carried, received, writtenOn>> /\ writtenOn = {}
      <4>1. CASE t = "main"
        BY <1>2, <1>3, <2>2, <4>1 DEF PipeConnect, Goto, ClientInv
      <4>2. CASE t = "ui"
        BY <2>2, <4>2 DEF PipeConnect, Goto, ClientInv, Connecting
      <4> QED
        BY <4>1, <4>2
    <3> QED
      BY <1>1, <3>1
  <2> QED
    BY <1>4, <2>1, <2>2 DEF InitPipeClient
<1>5. ASSUME NEW n \in Attempts, Report(n) \/ Accept(n) \/ OnEof(n)
      PROVE  [Stream!Next]_(Stream!vars)
  <2>1. /\ UNCHANGED <<offered, carried, received, writtenOn>>
        /\ \A k \in Attempts : conn'[k] = "broken" <=> conn[k] = "broken"
    <3>1. CASE Connected(n)
      BY <3>1 DEF Connected
    <3>2. CASE ConnectFailed(n)
      BY <3>2 DEF ConnectFailed, TypeOK
    <3>3. CASE Accept(n)
      BY <3>3 DEF Accept
    <3>4. CASE OnEof(n)
      BY <3>4 DEF OnEof, TypeOK
    <3> QED
      BY <1>5, <3>1, <3>2, <3>3, <3>4 DEF Report
  <2> QED
    BY <1>1, <1>2, <2>1
<1>6. ASSUME NEW n \in Attempts, OnData(n) PROVE [Stream!Next]_(Stream!vars)
  <2>1. /\ n \in served /\ buffer[n] # <<>> /\ received' = received \o buffer[n]
        /\ UNCHANGED <<offered, carried, writtenOn, conn>>
    BY <1>6 DEF OnData
  <2>2. n \in writtenOn /\ conn[n] # "broken" /\ carried = received \o buffer[n]
    BY <2>1 DEF StreamInv
  <2>3. ~Cut /\ Cut' = Cut
    BY <1>3, <2>1, <2>2 DEF Cut
  <2>4. received' = SubSeq(carried, 1, Len(carried))
    BY <2>1, <2>2 DEF TypeOK
  <2>5. Len(carried) \in (Len(received) + 1)..Len(carried)
    <3>1. /\ received \in Seq(Messages) /\ buffer[n] \in Seq(Messages)
      BY DEF TypeOK, Messages
    <3>2. Len(buffer[n]) # 0
      BY <2>1, <3>1
    <3>3. Len(carried) = Len(received) + Len(buffer[n])
      BY <2>2, <3>1
    <3> QED
      BY <3>1, <3>2, <3>3
  <2> QED
    BY <2>1, <2>3, <2>4, <2>5 DEF Stream!Next, Stream!Receive
<1>7. CASE ClickWrites
  <2>1. /\ pipe.conn \in Attempts /\ conn[pipe.conn] = "open"
        /\ offered' = offered + 1 /\ carried' = Append(carried, offered')
        /\ writtenOn' = writtenOn \cup {pipe.conn}
        /\ UNCHANGED <<conn, received>>
    BY <1>7 DEF ClickWrites, Click, Writable, TypeOK
  <2>2. ~Cut /\ ~Cut'
    BY <1>3, <2>1 DEF Cut
  <2>3. Cut' = Cut
    BY <2>2 DEF Cut
  <2> QED
    BY <2>1, <2>2, <2>3 DEF Stream!Next, Stream!Carry
<1>8. CASE ClickConnects \/ ClickFails
  <2>1. /\ offered' = offered + 1 /\ pc.ui = "idle"
        /\ UNCHANGED <<carried, received, writtenOn, conn>>
        /\ reqConnect = None \/ ~Writable
    BY <1>8 DEF ClickConnects, ClickFails, Click, Goto
  <2>2. Cut' = Cut
    BY <2>1 DEF Cut
  <2>3. carried = <<>> \/ Cut
    <3>1. CASE writtenOn = {}
      BY <3>1 DEF StreamInv
    <3>2. CASE writtenOn # {}
      <4>1. PICK n \in writtenOn : pipe.conn = n /\ reqConnect = n
        BY <3>2 DEF ClientInv, OneConnection
      <4>2. n # None
        BY <1>2
      <4>3. conn[n] # "open"
        BY <2>1, <4>1, <4>2 DEF Writable
      <4>4. conn[n] = "broken"
        BY <2>1, <4>1, <4>2, <4>3 DEF ClientInv
      <4> QED
        BY <4>1, <4>4 DEF Cut
    <3> QED
      BY <3>1, <3>2
  <2> QED
    BY <2>1, <2>2, <2>3 DEF Stream!Next, Stream!Drop
<1>9. CASE ClientLeaves
  <2>1. /\ UNCHANGED <<offered, carried, received, writtenOn>>
        /\ \A k \in Attempts : conn'[k] = "broken" <=> conn[k] = "broken"
    BY <1>9 DEF ClientLeaves, TypeOK
  <2> QED
    BY <1>1, <1>2, <2>1
<1>10. CASE DaemonStart
  BY <1>1, <1>10 DEF DaemonStart
<1>11. CASE DaemonCrash
  <2>1. /\ UNCHANGED <<offered, carried, received, writtenOn>>
        /\ \A k \in Attempts : conn[k] = "broken" => conn'[k] = "broken"
    BY <1>11 DEF DaemonCrash
  <2>2. Cut => Cut'
    BY <1>2, <2>1 DEF Cut
  <2>3. Cut \in BOOLEAN /\ Cut' \in BOOLEAN
    BY DEF Cut
  <2> QED
    BY <2>1, <2>2, <2>3 DEF Stream!Next, Stream!Cut
<1>12. ASSUME NEW n \in Attempts, Fault(n) PROVE [Stream!Next]_(Stream!vars)
  <2>1. /\ UNCHANGED <<offered, carried, received, writtenOn>>
        /\ \A k \in Attempts : conn[k] = "broken" => conn'[k] = "broken"
    BY <1>12 DEF Fault, LoseRequest, CloseUnread, TypeOK
  <2>2. Cut => Cut'
    BY <1>2, <2>1 DEF Cut
  <2>3. Cut \in BOOLEAN /\ Cut' \in BOOLEAN
    BY DEF Cut
  <2> QED
    BY <2>1, <2>2, <2>3 DEF Stream!Next, Stream!Cut
<1>13. CASE UNCHANGED vars
  BY <1>1, <1>13 DEF vars
<1> QED
  BY <1>4, <1>5, <1>6, <1>7, <1>8, <1>9, <1>10, <1>11, <1>12, <1>13
     DEF Next, Serve, User

\* The daemon receives a run of the messages without a gap, in order and once,
\* and nothing after the connection was cut.
THEOREM IpcImplementsStream == SafeSpec => ImplementsStream
<1>1. Init => ClientInv /\ StreamInv /\ Stream!Init
  <2>1. Init => ClientInv
    BY AttemptsExist DEF Init, ClientInv, OneConnection, Unused, Connecting,
                         FreshPipe
  <2>2. Init => StreamInv
    BY DEF Init, StreamInv
  <2>3. Init => Stream!Init
    BY DEF Init, Stream!Init, Cut
  <2> QED
    BY <2>1, <2>2, <2>3
<1>2. /\ TypeOK /\ TypeOK' /\ ClientInv /\ StreamInv /\ [Next]_vars
        => ClientInv' /\ StreamInv' /\ [Stream!Next]_(Stream!vars)
  BY ClientInvStep, StreamInvStep, StreamStepRefines
<1> QED
  BY <1>1, <1>2, IpcTypeCorrect, PTL DEF SafeSpec, ImplementsStream, Stream!Spec
===============================================================================
