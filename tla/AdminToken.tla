------------------------------- MODULE AdminToken -----------------------------
(***************************************************************************)
(* createAdminProcess and UGToken::createAdminToken                        *)
(* (src/deamon/appmgr.cpp): a privilege for the process, a search for the  *)
(* user's explorer.exe, a token of it and one of lsass.exe, a token built  *)
(* for each logon session while the thread impersonates the second of      *)
(* them, the choice among those, and the process started with it.          *)
(*                                                                         *)
(* Nearly every call may fail; what the model follows is which kernel      *)
(* handles and session records are open after each return, which token is  *)
(* chosen, and whether the thread is itself again.  Memory that the code   *)
(* allocates for what it asks about tokens is left out.                    *)
(***************************************************************************)
EXTENDS Naturals, Sequences

CONSTANTS
  MaxProcesses, \* processes that the search looks at
  MaxSessions   \* logon sessions

ASSUME AdminTokenAssumption == MaxProcesses \in Nat /\ MaxSessions \in Nat

VARIABLES
  pc,
  exit,          \* how createAdminToken ended: its own numbers, or "token"
  open,          \* kernel handles that are open
  stray,         \* handles that were closed while they were not open
  records,       \* session records LSA lent us
  impersonating, \* the thread acts as the owner of hLsaToken
  searched,      \* processes that the search has looked at
  hProcess, hProcessToken,    \* locals of the search
  hExplorerToken, hLsaToken,  \* locals of createAdminToken
  hToken, hTokenBack,
  sessions,      \* what there is to find out about each logon session
  scanned        \* sessions that the loop has looked at

searchVars == <<searched, hProcess, hProcessToken>>
tokenVars == <<hExplorerToken, hLsaToken, hToken, hTokenBack>>
scanVars == <<sessions, scanned>>
vars == <<pc, exit, open, stray, records, impersonating, searchVars, tokenVars,
          scanVars>>

Null == <<"null">>
Snapshot == <<"snapshot">>
Searched(what, k) == <<"searched", what, k>>
ProcessOf(who) == <<"process", who>>
TokenOf(who) == <<"token", who>>
SessionToken(i) == <<"session", i>>
Child == {<<"child process">>, <<"child thread">>}
Garbage == <<"uninitialised">> \* what a local holds before it is assigned

Processes == {"other", "no process", "no token", "no user", "system", "user"}

\* no record: LsaGetLogonSessionData fails.  other: no user, or not the active
\* session.  no token: createUserToken returns NULL.  unknown: the elevation
\* type cannot be had.  The others are elevation types.
Sessions == {"no record", "other", "no token", "unknown", "full", "default",
             "limited"}

Init ==
  /\ pc = "privilege" /\ exit = "none"
  /\ open = {} /\ stray = {} /\ records = {} /\ impersonating = FALSE
  /\ searched = 0 /\ hProcess = Null /\ hProcessToken = Null
  /\ hExplorerToken = Null /\ hLsaToken = Null
  /\ hToken = Null /\ hTokenBack = Null
  /\ sessions = <<>> /\ scanned = 0

Goto(from, to) == pc = from /\ pc' = to

\* Code that tests for NULL before it closes the handles of hs and opens new.
CloseAndOpen(hs, new) ==
  LET closed == hs \ {Null}
  IN /\ open' = (open \ closed) \cup new
     /\ stray' = stray \cup (closed \ open)

Return(how) == pc' = "returned" /\ exit' = how

-------------------------------------------------------------------------------
(* AdjustProcessTokenPrivilege, whose answer nobody looks at. *)

\* The token of the process is closed again whichever later call fails.
AdjustPrivilege ==
  /\ Goto("privilege", "start")
  /\ UNCHANGED <<exit, open, stray, records, impersonating, searchVars,
                 tokenVars, scanVars>>

\* Without that token the code goes on, and closes what its local holds.
AdjustGarbage ==
  /\ Goto("privilege", "start")
  /\ stray' = stray \cup {Garbage}
  /\ UNCHANGED <<exit, open, records, impersonating, searchVars, tokenVars,
                 scanVars>>

-------------------------------------------------------------------------------
(* getExplorerIdFromCurrentSessionId, and the console's session before it. *)

\* If WTSEnumerateSessions fails, its count is uninitialised and its list NULL.
\* With a count of 0 the code goes on, for session 0.
CrashAtList ==
  /\ Goto("start", "crashed")
  /\ UNCHANGED <<exit, open, stray, records, impersonating, searchVars,
                 tokenVars, scanVars>>

TakeSnapshot ==
  /\ Goto("start", "search")
  /\ open' = open \cup {Snapshot}
  /\ UNCHANGED <<exit, stray, records, impersonating, searchVars, tokenVars,
                 scanVars>>

NoSnapshot ==
  /\ pc = "start" /\ Return("1")
  /\ UNCHANGED <<open, stray, records, impersonating, searchVars, tokenVars,
                 scanVars>>

\* One round: the handles of the round before are closed first.
LookAtProcess(kind) ==
  /\ searched < MaxProcesses
  /\ Goto("search", IF kind = "user" THEN "found" ELSE "search")
  /\ searched' = searched + 1
  /\ hProcess' = IF kind \in {"other", "no process"} THEN Null
                 ELSE Searched("process", searched')
  /\ hProcessToken' = IF kind \in {"no user", "system", "user"}
                      THEN Searched("token", searched') ELSE Null
  /\ CloseAndOpen({hProcess, hProcessToken}, {hProcess', hProcessToken'} \ {Null})
  /\ UNCHANGED <<exit, records, impersonating, tokenVars, scanVars>>

SearchEnds ==
  /\ pc \in {"search", "found"}
  /\ IF pc = "found" THEN pc' = "explorer" /\ UNCHANGED exit ELSE Return("1")
  /\ CloseAndOpen({hProcess, hProcessToken, Snapshot}, {})
  /\ hProcess' = Null /\ hProcessToken' = Null
  /\ UNCHANGED <<records, impersonating, searched, tokenVars, scanVars>>

-------------------------------------------------------------------------------
(* getTokenFromPid, for explorer.exe and lsass.exe. *)

\* With the token, the handle of the process stays open.
TokenFromPid(who) == open' = open \cup {TokenOf(who), ProcessOf(who)}

ExplorerToken ==
  /\ Goto("explorer", "lsass")
  /\ TokenFromPid("explorer") /\ hExplorerToken' = TokenOf("explorer")
  /\ UNCHANGED <<exit, stray, records, impersonating, searchVars, hLsaToken,
                 hToken, hTokenBack, scanVars>>

\* Without it the process is closed, and the answer is true all the same.
ExplorerNoToken ==
  /\ Goto("explorer", "lsass")
  /\ UNCHANGED <<exit, open, stray, records, impersonating, searchVars,
                 tokenVars, scanVars>>

ExplorerGone ==
  /\ pc = "explorer" /\ Return("2")
  /\ UNCHANGED <<open, stray, records, impersonating, searchVars, tokenVars,
                 scanVars>>

\* ImpersonateLoggedOnUser may fail, which nobody looks at.
LsassToken ==
  /\ Goto("lsass", "enumerate")
  /\ TokenFromPid("lsass") /\ hLsaToken' = TokenOf("lsass")
  /\ impersonating' \in BOOLEAN
  /\ UNCHANGED <<exit, stray, records, searchVars, hExplorerToken, hToken,
                 hTokenBack, scanVars>>

LsassNoToken ==
  /\ Goto("lsass", "enumerate")
  /\ UNCHANGED <<exit, open, stray, records, impersonating, searchVars,
                 tokenVars, scanVars>>

\* No process of that name, or none that can be opened.
LsassGone ==
  /\ pc = "lsass" /\ \E how \in {"3", "4"} : Return(how)
  /\ UNCHANGED <<open, stray, records, impersonating, searchVars, tokenVars,
                 scanVars>>

-------------------------------------------------------------------------------
(* The logon sessions. *)

Enumerate ==
  /\ Goto("enumerate", "scan")
  /\ \E n \in 0..MaxSessions : sessions' \in [1..n -> Sessions]
  /\ UNCHANGED <<exit, open, stray, records, impersonating, searchVars,
                 tokenVars, scanned>>

EnumerateFails ==
  /\ pc = "enumerate" /\ Return("5")
  /\ UNCHANGED <<open, stray, records, impersonating, searchVars, tokenVars,
                 scanVars>>

\* The loop looks at the next session, of one of these kinds.
Scan(kinds) ==
  /\ pc = "scan" /\ scanned < Len(sessions)
  /\ sessions[scanned + 1] \in kinds
  /\ scanned' = scanned + 1
  /\ UNCHANGED <<exit, impersonating, searchVars, hExplorerToken, hLsaToken,
                 sessions>>

\* createUserToken reads the statistics of the explorer's token through a
\* pointer that is NULL if they cannot be had: always if there is no token.
CrashAtStatistics ==
  /\ pc = "scan" /\ scanned < Len(sessions)
  /\ sessions[scanned + 1] \notin {"no record", "other"}
  /\ pc' = "crashed"
  /\ UNCHANGED <<exit, open, stray, records, impersonating, searchVars,
                 tokenVars, scanVars>>

\* A session for which createUserToken gets past that.
ScanToken(kinds) == hExplorerToken # Null /\ Scan(kinds)

\* A record that is lent is given back at the end of the round.
SkipSession ==
  /\ Scan({"other"})
  /\ UNCHANGED <<pc, open, stray, records, hToken, hTokenBack>>

\* Seeded fault: the token is kept open.
SkipLimitedKeeps ==
  /\ ScanToken({"limited"})
  /\ open' = open \cup {SessionToken(scanned')}
  /\ UNCHANGED <<pc, stray, records, hToken, hTokenBack>>

\* The token is made and closed in the same round.
SkipLimited ==
  /\ ScanToken({"limited"})
  /\ UNCHANGED <<pc, open, stray, records, hToken, hTokenBack>>

\* Seeded fault: the first token of the default type ends the loop.
KeepBackEnds ==
  /\ ScanToken({"default"}) /\ hTokenBack = Null
  /\ pc' = "finish"
  /\ hTokenBack' = SessionToken(scanned')
  /\ open' = open \cup {hTokenBack'}
  /\ UNCHANGED <<stray, records, hToken>>

KeepBack ==
  /\ ScanToken({"default"}) /\ hTokenBack = Null
  /\ hTokenBack' = SessionToken(scanned')
  /\ open' = open \cup {hTokenBack'}
  /\ UNCHANGED <<pc, stray, records, hToken>>

\* A second one ends the loop, and its record is not given back.
SecondBack ==
  /\ ScanToken({"default"}) /\ hTokenBack # Null
  /\ pc' = "finish" /\ records' = records \cup {scanned'}
  /\ UNCHANGED <<open, stray, hToken, hTokenBack>>

TakeToken ==
  /\ ScanToken({"full", "unknown"})
  /\ pc' = "finish"
  /\ hToken' = SessionToken(scanned') /\ open' = open \cup {hToken'}
  /\ UNCHANGED <<stray, records, hTokenBack>>

\* The type of the token NULL cannot be had either: the loop ends with it.
StopScan ==
  /\ Scan({"no record"}) \/ ScanToken({"no token"})
  /\ pc' = "finish"
  /\ UNCHANGED <<open, stray, records, hToken, hTokenBack>>

ScanEnds ==
  /\ Goto("scan", "finish") /\ scanned = Len(sessions)
  /\ UNCHANGED <<exit, open, stray, records, impersonating, searchVars,
                 tokenVars, scanVars>>

\* Seeded fault: the thread goes on as somebody else.
FinishImpersonating ==
  /\ Goto("finish", "launch") /\ exit' = "token"
  /\ hToken' = IF hToken = Null THEN hTokenBack ELSE hToken
  /\ CloseAndOpen({hLsaToken, hExplorerToken}, {})
  /\ UNCHANGED <<records, impersonating, searchVars, hExplorerToken, hLsaToken,
                 hTokenBack, scanVars>>

Finish ==
  /\ Goto("finish", "launch") /\ exit' = "token"
  /\ hToken' = IF hToken = Null THEN hTokenBack ELSE hToken
  /\ impersonating' = (impersonating /\ hLsaToken = Null)
  /\ CloseAndOpen({hLsaToken, hExplorerToken}, {})
  /\ UNCHANGED <<records, searchVars, hExplorerToken, hLsaToken, hTokenBack,
                 scanVars>>

-------------------------------------------------------------------------------
(* createAdminProcess. *)

NoToken ==
  /\ Goto("launch", "returned") /\ hToken = Null
  /\ UNCHANGED <<exit, open, stray, records, impersonating, searchVars,
                 tokenVars, scanVars>>

\* The process is there or not; the caller asked for its handles or not.
Launch ==
  /\ Goto("launch", "returned") /\ hToken # Null
  /\ \E handedOver \in {{}, Child} : CloseAndOpen({hToken}, handedOver)
  /\ UNCHANGED <<exit, records, impersonating, searchVars, tokenVars, scanVars>>

-------------------------------------------------------------------------------
Privilege == AdjustPrivilege \/ AdjustGarbage
Search == CrashAtList \/ TakeSnapshot \/ NoSnapshot \/ SearchEnds
            \/ \E kind \in Processes : LookAtProcess(kind)
Tokens == ExplorerToken \/ ExplorerNoToken \/ ExplorerGone
            \/ LsassToken \/ LsassNoToken \/ LsassGone
Scanning == Enumerate \/ EnumerateFails \/ CrashAtStatistics \/ SkipSession
              \/ SkipLimited \/ KeepBack \/ SecondBack \/ TakeToken
              \/ StopScan \/ ScanEnds \/ Finish

Next == Privilege \/ Search \/ Tokens \/ Scanning \/ NoToken \/ Launch

Spec == Init /\ [][Next]_vars

-------------------------------------------------------------------------------
(* Properties. *)

\* What a return leaves open: the process of each token that was got by way of
\* it; the tokens themselves when a later step of createAdminToken failed; the
\* spare token when a better one was found.
LeftOpen ==
  LET gotten == {who \in {"explorer", "lsass"} :
                   TokenOf(who) \in {hExplorerToken, hLsaToken}}
  IN {ProcessOf(who) : who \in gotten}
     \cup (IF exit \in {"3", "4", "5"} THEN {TokenOf(who) : who \in gotten}
                                       ELSE {})
     \cup (IF hToken # hTokenBack THEN {hTokenBack} \ {Null} ELSE {})

\* On each of the ways out, whichever calls failed, what stays open is exactly
\* that, besides the child's handles that the caller asked for; no handle is
\* closed twice or without having been opened, but for the uninitialised one of
\* AdjustProcessTokenPrivilege; and the one session record that is not given
\* back is that of the second token of the default type.
HandlesAccounted ==
  /\ pc = "returned" => open \ Child = LeftOpen
  /\ stray \subseteq {Garbage}
  /\ \A i \in records :
       /\ sessions[i] = "default"
       /\ \E j \in 1..(i - 1) : SessionToken(j) = hTokenBack

\* The thread is itself again when the process is launched and when the code
\* returns, except by the return 5, which leaves it impersonating.
ImpersonationEnds ==
  impersonating =>
    pc \in {"enumerate", "scan", "finish", "crashed"} \/ exit = "5"

\* The process is launched with a full token if a session has one, unless the
\* loop ended before: at a session without record or token, at a token of
\* unknown type, or at a second one of the default type, whatever follows it.
FullTokenChosen ==
  pc = "launch" =>
    \A i \in DOMAIN sessions :
      sessions[i] = "full" =>
        \/ \E j \in 1..i : sessions[j] = "full" /\ hToken = SessionToken(j)
        \/ \E j \in 1..(i - 1) :
             sessions[j] \in {"no record", "no token", "unknown"}
        \/ \E j, k \in 1..(i - 1) :
             j # k /\ sessions[j] = "default" /\ sessions[k] = "default"
===============================================================================
