---------------------------- MODULE SequentialProofs --------------------------
(***************************************************************************)
(* Theorems about the parts of the daemon that run on one thread: module   *)
(* AdminToken, for any number of processes and of logon sessions and every *)
(* combination of calls that fail, and module DataEncrypt, for texts of    *)
(* any length, every noise and every block cipher.                         *)
(***************************************************************************)
EXTENDS AdminToken, DataEncrypt, SequenceTheorems, TLAPS

-------------------------------------------------------------------------------
(* Module AdminToken: handles. *)

\* Handles of different calls differ.
LEMMA HandlesDiffer ==
  /\ Snapshot # Null /\ Snapshot \notin Child
  /\ \A x, k : Searched(x, k) \notin {Null, Snapshot}
  /\ \A i : SessionToken(i) \notin {Null} \cup Child
  /\ \A i, j : SessionToken(i) = SessionToken(j) => i = j
  /\ \A w : {TokenOf(w), ProcessOf(w)} \cap ({Null} \cup Child) = {}
  /\ \A w, i : SessionToken(i) \notin {TokenOf(w), ProcessOf(w)}
  /\ \A w, v : TokenOf(w) # ProcessOf(v)
  /\ \A w, v : TokenOf(w) = TokenOf(v) \/ ProcessOf(w) = ProcessOf(v) => w = v
<1> USE DEF Null, Snapshot, Searched, SessionToken, TokenOf, ProcessOf, Child
<1>1. Snapshot # Null /\ Snapshot \notin Child
  OBVIOUS
<1>2. \A x, k : Searched(x, k) \notin {Null, Snapshot}
  OBVIOUS
<1>3. \A i : SessionToken(i) \notin {Null} \cup Child
  OBVIOUS
<1>4. \A i, j : SessionToken(i) = SessionToken(j) => i = j
  OBVIOUS
<1>5. \A w : {TokenOf(w), ProcessOf(w)} \cap ({Null} \cup Child) = {}
  OBVIOUS
<1>6. \A w, i : SessionToken(i) \notin {TokenOf(w), ProcessOf(w)}
  OBVIOUS
<1>7. \A w, v : TokenOf(w) # ProcessOf(v)
  OBVIOUS
<1>8. \A w, v : TokenOf(w) = TokenOf(v) \/ ProcessOf(w) = ProcessOf(v) => w = v
  OBVIOUS
<1> QED
  BY <1>1, <1>2, <1>3, <1>4, <1>5, <1>6, <1>7, <1>8

-------------------------------------------------------------------------------
(* The inductive invariant, in parts. *)

Before == {"privilege", "start", "search", "found", "explorer", "lsass", "enumerate"}

\* Ranges, and what is not there yet.
TokenTypeOK ==
  /\ pc \in Before \cup {"scan", "finish", "launch", "returned", "crashed"}
  /\ exit \in {"none", "1", "2", "3", "4", "5", "token"}
  /\ pc # "returned" => exit = IF pc = "launch" THEN "token" ELSE "none"
  /\ hExplorerToken \in {Null, TokenOf("explorer")}
  /\ hLsaToken \in {Null, TokenOf("lsass")}
  /\ pc \in {"privilege", "start", "search", "found", "explorer"} =>
       hExplorerToken = Null
  /\ pc \in Before \ {"enumerate"} => hLsaToken = Null
  /\ pc \in Before => scanned = 0 /\ records = {} /\ hToken = Null
                      /\ hTokenBack = Null
  /\ scanned \in Nat /\ sessions \in Seq(Sessions)
  /\ scanned <= Len(sessions)

\* The thread impersonates the owner of a token that it has, and only there.
ImpersonationHeld ==
  impersonating =>
    /\ hLsaToken # Null
    /\ pc \in {"enumerate", "scan", "finish", "crashed"} \/ exit = "5"

\* What the loop over the sessions has passed, and the tokens it has kept.
ScanInv ==
  /\ pc = "scan" =>
       /\ hToken = Null /\ records = {}
       /\ \A i \in 1..scanned :
            /\ sessions[i] \in {"other", "limited", "default"}
            /\ sessions[i] = "default" => hTokenBack = SessionToken(i)
  /\ hTokenBack # Null =>
       \E j \in 1..scanned : hTokenBack = SessionToken(j) /\ sessions[j] = "default"
  /\ pc = "finish" /\ hToken # Null =>
       /\ scanned >= 1 /\ hToken = SessionToken(scanned)
       /\ sessions[scanned] \in {"full", "unknown"}
  /\ pc = "launch" /\ hToken # Null => \E j \in 1..scanned : hToken = SessionToken(j)
  /\ pc = "launch" /\ hToken = Null => hTokenBack = Null
  /\ \A i \in records :
       /\ sessions[i] = "default"
       /\ \E j \in 1..(i - 1) : SessionToken(j) = hTokenBack

\* Why the full token of session i is not, or not necessarily, the one.
Excuse(i) ==
  \/ \E j \in 1..i : sessions[j] = "full" /\ hToken = SessionToken(j)
  \/ \E j \in 1..(i - 1) : sessions[j] \in {"no record", "no token", "unknown"}
  \/ \E j, k \in 1..(i - 1) :
       j # k /\ sessions[j] = "default" /\ sessions[k] = "default"

ChoiceInv ==
  pc \in {"finish", "launch"} =>
    \A i \in DOMAIN sessions : sessions[i] = "full" => Excuse(i)

Gotten == {who \in {"explorer", "lsass"} :
             TokenOf(who) \in {hExplorerToken, hLsaToken}}
Kept == {hToken, hTokenBack} \ {Null}

\* Which kernel handles are open in each part of the code.
OpenInv ==
  /\ stray \subseteq {Garbage}
  /\ pc \in {"privilege", "start"} =>
       open = {} /\ hProcess = Null /\ hProcessToken = Null
  /\ pc \in {"search", "found"} =>
       /\ hProcess \in {Null, Searched("process", searched)}
       /\ hProcessToken \in {Null, Searched("token", searched)}
       /\ open = {Snapshot} \cup ({hProcess, hProcessToken} \ {Null})
  /\ pc \in {"explorer", "lsass", "enumerate", "scan", "finish"} =>
       open = {ProcessOf(w) : w \in Gotten} \cup {TokenOf(w) : w \in Gotten}
                \cup Kept
  /\ pc = "launch" => open = {ProcessOf(w) : w \in Gotten} \cup Kept
  /\ pc = "returned" => open \ Child = LeftOpen

-------------------------------------------------------------------------------
(* Ranges. *)

LEMMA TokenTypeCorrect == Spec => []TokenTypeOK
<1>1. Init => TokenTypeOK
  BY DEF Init, TokenTypeOK, Before
<1>2. TokenTypeOK /\ [Next]_vars => TokenTypeOK'
  <2> SUFFICES ASSUME TokenTypeOK, [Next]_vars PROVE TokenTypeOK'
    OBVIOUS
  <2> USE DEF TokenTypeOK, Before, Goto, Return, searchVars, tokenVars, scanVars
  <2>1. CASE Privilege \/ Search
    BY <2>1 DEF Privilege, AdjustPrivilege, AdjustGarbage, Search, CrashAtList,
                TakeSnapshot, NoSnapshot, SearchEnds, LookAtProcess
  <2>2. CASE ExplorerToken
    BY <2>2 DEF ExplorerToken
  <2>3. CASE LsassToken
    BY <2>3 DEF LsassToken
  <2>4. CASE ExplorerNoToken \/ ExplorerGone \/ LsassNoToken \/ LsassGone
             \/ EnumerateFails
    BY <2>4 DEF ExplorerNoToken, ExplorerGone, LsassNoToken, LsassGone,
                EnumerateFails
  <2>5. CASE Enumerate
    <3>1. PICK n \in 0..MaxSessions : sessions' \in [1..n -> Sessions]
      BY <2>5 DEF Enumerate
    <3>2. n \in Nat
      BY <3>1, AdminTokenAssumption
    <3>3. sessions' \in Seq(Sessions)
      BY <3>1, <3>2
    <3> QED
      BY <2>5, <3>3 DEF Enumerate
  <2>6. ASSUME NEW kinds, Scan(kinds)
        PROVE  /\ scanned' \in Nat /\ scanned' <= Len(sessions')
               /\ sessions' = sessions /\ pc = "scan"
               /\ UNCHANGED <<exit, hExplorerToken, hLsaToken>>
    BY <2>6 DEF Scan
  <2>7. CASE SkipSession \/ SkipLimited \/ KeepBack \/ SecondBack \/ TakeToken
             \/ StopScan
    BY <2>6, <2>7 DEF SkipSession, SkipLimited, KeepBack, SecondBack, TakeToken,
                      StopScan, ScanToken
  <2>8. CASE CrashAtStatistics \/ ScanEnds \/ Finish
    BY <2>8 DEF CrashAtStatistics, ScanEnds, Finish
  <2>9. CASE NoToken \/ Launch
    BY <2>9 DEF NoToken, Launch
  <2>10. CASE UNCHANGED vars
    BY <2>10 DEF vars
  <2> QED
    BY <2>1, <2>2, <2>3, <2>4, <2>5, <2>7, <2>8, <2>9, <2>10
       DEF Next, Tokens, Scanning
<1> QED
  BY <1>1, <1>2, PTL DEF Spec

-------------------------------------------------------------------------------
(* The impersonation ends. *)

\* On every way out of createAdminToken but one the thread is itself again.
THEOREM ImpersonationEndsAlways == Spec => []ImpersonationEnds
<1>1. Init => ImpersonationHeld
  BY DEF Init, ImpersonationHeld
<1>2. TokenTypeOK /\ ImpersonationHeld /\ [Next]_vars => ImpersonationHeld'
  <2> SUFFICES ASSUME TokenTypeOK, ImpersonationHeld, [Next]_vars
               PROVE  ImpersonationHeld'
    OBVIOUS
  <2> USE DEF TokenTypeOK, ImpersonationHeld, Goto, Return, searchVars,
              tokenVars, scanVars
  <2>1. CASE Privilege \/ Search
    BY <2>1 DEF Privilege, AdjustPrivilege, AdjustGarbage, Search, CrashAtList,
                TakeSnapshot, NoSnapshot, SearchEnds, LookAtProcess
  <2>2. CASE LsassToken
    BY <2>2, HandlesDiffer DEF LsassToken
  <2>3. CASE Tokens /\ ~LsassToken
    BY <2>3 DEF Tokens, ExplorerToken, ExplorerNoToken, ExplorerGone,
                LsassNoToken, LsassGone
  <2>4. CASE Enumerate \/ EnumerateFails \/ CrashAtStatistics \/ ScanEnds
    BY <2>4 DEF Enumerate, EnumerateFails, CrashAtStatistics, ScanEnds
  <2>5. CASE SkipSession \/ SkipLimited \/ KeepBack \/ SecondBack \/ TakeToken
             \/ StopScan
    BY <2>5 DEF SkipSession, SkipLimited, KeepBack, SecondBack, TakeToken,
                StopScan, ScanToken, Scan
  <2>6. CASE Finish
    BY <2>6 DEF Finish
  <2>7. CASE NoToken \/ Launch
    BY <2>7 DEF NoToken, Launch
  <2>8. CASE UNCHANGED vars
    BY <2>8 DEF vars
  <2> QED
    BY <2>1, <2>2, <2>3, <2>4, <2>5, <2>6, <2>7, <2>8 DEF Next, Scanning
<1>3. ImpersonationHeld => ImpersonationEnds
  BY DEF ImpersonationHeld, ImpersonationEnds
<1> QED
  BY <1>1, <1>2, <1>3, TokenTypeCorrect, PTL DEF Spec

-------------------------------------------------------------------------------
(* The choice among the sessions. *)

\* Steps that neither look at a session nor touch the tokens of one.
Elsewhere ==
  /\ pc' \notin {"finish", "launch"}
  /\ pc' = "scan" => pc = "scan"
  /\ UNCHANGED <<records, hToken, hTokenBack, sessions, scanned>>

NoSession == Privilege \/ Search \/ Tokens \/ EnumerateFails \/ NoToken
               \/ CrashAtStatistics

LEMMA StepsElsewhere == TokenTypeOK /\ NoSession => Elsewhere
<1> SUFFICES ASSUME TokenTypeOK, NoSession PROVE Elsewhere
  OBVIOUS
<1> USE DEF Elsewhere, Goto, Return, tokenVars, scanVars
<1>1. CASE Privilege \/ Search
  BY <1>1 DEF Privilege, AdjustPrivilege, AdjustGarbage, Search, CrashAtList,
              TakeSnapshot, NoSnapshot, SearchEnds, LookAtProcess
<1>2. CASE Tokens
  BY <1>2 DEF Tokens, ExplorerToken, ExplorerNoToken, ExplorerGone, LsassToken,
              LsassNoToken, LsassGone
<1>3. CASE EnumerateFails \/ NoToken \/ CrashAtStatistics
  BY <1>3 DEF EnumerateFails, NoToken, CrashAtStatistics
<1> QED
  BY <1>1, <1>2, <1>3 DEF NoSession

LEMMA ScanStep ==
  TokenTypeOK /\ TokenTypeOK' /\ ScanInv /\ [Next]_vars => ScanInv'
<1> SUFFICES ASSUME TokenTypeOK, TokenTypeOK', ScanInv, [Next]_vars
             PROVE  ScanInv'
  OBVIOUS
<1> USE HandlesDiffer DEF ScanInv
<1>1. CASE NoSession
  BY <1>1, StepsElsewhere DEF Elsewhere
<1>2. CASE Enumerate
  BY <1>2 DEF Enumerate, Goto, TokenTypeOK, Before, tokenVars
<1>3. ASSUME NEW kinds, Scan(kinds)
      PROVE  /\ pc = "scan" /\ scanned' = scanned + 1 /\ sessions' = sessions
             /\ sessions[scanned'] \in kinds /\ scanned \in Nat
             /\ hToken = Null /\ records = {}
  BY <1>3 DEF Scan, TokenTypeOK
<1>4. CASE SkipSession \/ SkipLimited
  BY <1>3, <1>4 DEF SkipSession, SkipLimited, ScanToken
<1>5. CASE KeepBack
  <2>1. Scan({"default"}) /\ hTokenBack = Null
        /\ hTokenBack' = SessionToken(scanned') /\ UNCHANGED <<pc, records, hToken>>
    BY <1>5 DEF KeepBack, ScanToken
  <2>2. \A i \in 1..scanned : sessions[i] # "default"
    BY <1>3, <2>1
  <2> QED
    BY <1>3, <2>1, <2>2
<1>6. CASE SecondBack
  <2>1. /\ Scan({"default"}) /\ hTokenBack # Null /\ pc' = "finish"
        /\ records' = records \cup {scanned'} /\ UNCHANGED <<hToken, hTokenBack>>
    BY <1>6 DEF SecondBack, ScanToken
  <2>2. records' = {scanned + 1} /\ sessions[scanned + 1] = "default"
    BY <1>3, <2>1
  <2>3. PICK j \in 1..scanned : hTokenBack = SessionToken(j) /\ sessions[j] = "default"
    BY <2>1
  <2>4. j \in 1..((scanned + 1) - 1) /\ j \in 1..scanned'
    BY <1>3, <2>1, <2>3
  <2> QED
    BY <1>3, <2>1, <2>2, <2>3, <2>4
<1>7. CASE TakeToken
  <2>1. /\ Scan({"full", "unknown"}) /\ pc' = "finish"
        /\ hToken' = SessionToken(scanned') /\ UNCHANGED <<records, hTokenBack>>
    BY <1>7 DEF TakeToken, ScanToken
  <2> QED
    BY <1>3, <2>1
<1>8. CASE StopScan
  <2>1. /\ Scan({"no record"}) \/ Scan({"no token"})
        /\ pc' = "finish" /\ UNCHANGED <<records, hToken, hTokenBack>>
    BY <1>8 DEF StopScan, ScanToken
  <2>2. hToken' = Null /\ records' = {}
    BY <1>3, <2>1
  <2>3. sessions' = sessions /\ scanned' = scanned + 1 /\ scanned \in Nat
    BY <1>3, <2>1
  <2>4. 1..scanned \subseteq 1..scanned'
    BY <2>3
  <2> QED
    BY <2>1, <2>2, <2>3, <2>4
<1>9. CASE ScanEnds
  BY <1>9 DEF ScanEnds, Goto, tokenVars, scanVars
<1>10. CASE Finish
  BY <1>10 DEF Finish, Goto, TokenTypeOK, scanVars
<1>11. CASE Launch
  BY <1>11 DEF Launch, Goto, tokenVars, scanVars
<1>12. CASE UNCHANGED vars
  BY <1>12 DEF vars, tokenVars, scanVars
<1> QED
  BY <1>1, <1>2, <1>4, <1>5, <1>6, <1>7, <1>8, <1>9, <1>10, <1>11, <1>12
     DEF Next, Scanning, NoSession

LEMMA ChoiceStep ==
  TokenTypeOK /\ TokenTypeOK' /\ ScanInv /\ ChoiceInv /\ [Next]_vars => ChoiceInv'
<1> SUFFICES ASSUME TokenTypeOK, TokenTypeOK', ScanInv, ChoiceInv, [Next]_vars,
                    pc' \in {"finish", "launch"},
                    NEW i \in DOMAIN sessions', sessions'[i] = "full"
             PROVE  Excuse(i)'
  BY DEF ChoiceInv
<1>1. ~NoSession
  BY StepsElsewhere DEF Elsewhere
<1>2. ~Enumerate /\ ~SkipSession /\ ~SkipLimited /\ ~KeepBack /\ ~Launch
  BY DEF Enumerate, SkipSession, SkipLimited, KeepBack, ScanToken, Scan, Launch,
         Goto, TokenTypeOK
<1>3. ASSUME NEW kinds, Scan(kinds)
      PROVE  /\ scanned' = scanned + 1 /\ scanned \in Nat
             /\ sessions' = sessions /\ sessions[scanned + 1] \in kinds
             /\ i \in Nat /\ i > scanned
  BY <1>3 DEF Scan, TokenTypeOK, ScanInv
<1>4. CASE SecondBack
  <2>1. Scan({"default"}) /\ hTokenBack # Null /\ UNCHANGED hToken
    BY <1>4 DEF SecondBack, ScanToken
  <2>2. PICK j \in 1..scanned : sessions[j] = "default"
    BY <2>1 DEF ScanInv
  <2>3. j \in 1..(i - 1) /\ scanned + 1 \in 1..(i - 1) /\ j # scanned + 1
    BY <1>3, <2>1, <2>2
  <2> QED
    BY <1>3, <2>1, <2>2, <2>3 DEF Excuse
<1>5. CASE TakeToken
  <2>1. Scan({"full", "unknown"}) /\ hToken' = SessionToken(scanned + 1)
    BY <1>3, <1>5 DEF TakeToken, ScanToken
  <2>2. CASE sessions[scanned + 1] = "full"
    <3>1. scanned + 1 \in 1..i
      BY <1>3, <2>1
    <3> QED
      BY <1>3, <2>1, <2>2, <3>1 DEF Excuse
  <2>3. CASE sessions[scanned + 1] = "unknown"
    <3>1. scanned + 1 \in 1..(i - 1)
      BY <1>3, <2>1, <2>3
    <3> QED
      BY <1>3, <2>1, <2>3, <3>1 DEF Excuse
  <2> QED
    BY <1>3, <2>1, <2>2, <2>3
<1>6. CASE StopScan
  <2>1. Scan({"no record"}) \/ Scan({"no token"})
    BY <1>6 DEF StopScan, ScanToken
  <2>2. sessions[scanned + 1] \in {"no record", "no token"}
    BY <1>3, <2>1
  <2>3. scanned \in Nat /\ i \in Nat /\ i > scanned
    BY <1>3, <2>1
  <2>4. scanned + 1 # i
    BY <1>3, <2>1, <2>2
  <2>5. scanned + 1 \in 1..(i - 1)
    BY <2>3, <2>4
  <2> QED
    BY <1>3, <2>1, <2>2, <2>5 DEF Excuse
<1>7. CASE ScanEnds
  <2>1. pc = "scan" /\ scanned = Len(sessions) /\ sessions' = sessions
    BY <1>7 DEF ScanEnds, Goto, scanVars
  <2> QED
    BY <2>1 DEF TokenTypeOK, ScanInv
<1>8. CASE Finish
  <2>1. /\ pc = "finish" /\ sessions' = sessions
        /\ hToken # Null => hToken' = hToken
    BY <1>8 DEF Finish, Goto, scanVars
  <2>2. Excuse(i)
    BY <2>1 DEF ChoiceInv
  <2> QED
    BY <2>1, <2>2, HandlesDiffer DEF Excuse
<1>9. CASE UNCHANGED vars
  BY <1>9 DEF vars, tokenVars, scanVars, ChoiceInv, Excuse
<1> QED
  BY <1>1, <1>2, <1>4, <1>5, <1>6, <1>7, <1>8, <1>9
     DEF Next, Scanning, NoSession

\* The choice is right, or excused, for any number of sessions.
THEOREM FullTokenChosenAlways == Spec => []FullTokenChosen
<1>1. Init => ScanInv /\ ChoiceInv
  BY DEF Init, ScanInv, ChoiceInv
<1>2. /\ TokenTypeOK /\ TokenTypeOK' /\ ScanInv /\ ChoiceInv /\ [Next]_vars
        => ScanInv' /\ ChoiceInv'
  BY ScanStep, ChoiceStep
<1>3. ChoiceInv => FullTokenChosen
  BY DEF ChoiceInv, Excuse, FullTokenChosen
<1> QED
  BY <1>1, <1>2, <1>3, TokenTypeCorrect, PTL DEF Spec

-------------------------------------------------------------------------------
(* The handles. *)

LEMMA OpenStep ==
  TokenTypeOK /\ TokenTypeOK' /\ ScanInv /\ OpenInv /\ [Next]_vars => OpenInv'
<1> SUFFICES ASSUME TokenTypeOK, TokenTypeOK', ScanInv, OpenInv, [Next]_vars
             PROVE  OpenInv'
  OBVIOUS
<1> USE HandlesDiffer
<1>1. CASE Privilege \/ TakeSnapshot
  BY <1>1 DEF Privilege, AdjustPrivilege, AdjustGarbage, TakeSnapshot, OpenInv,
              Goto, searchVars
<1>2. CASE NoSnapshot \/ ExplorerGone
  <2>1. /\ pc \in {"start", "explorer"} /\ pc' = "returned"
        /\ exit' \in {"1", "2"} /\ open = {}
        /\ UNCHANGED <<open, stray, hExplorerToken, hLsaToken, hToken, hTokenBack>>
        /\ hExplorerToken = Null /\ hLsaToken = Null /\ hToken = hTokenBack
    BY <1>2 DEF NoSnapshot, ExplorerGone, Return, tokenVars, OpenInv,
                TokenTypeOK, Before, Gotten, Kept
  <2> QED
    BY <2>1 DEF OpenInv, LeftOpen
<1>3. ASSUME NEW kind \in Processes, LookAtProcess(kind) PROVE OpenInv'
  <2>1. /\ pc = "search" /\ pc' \in {"search", "found"}
        /\ hProcess' \in {Null, Searched("process", searched')}
        /\ hProcessToken' \in {Null, Searched("token", searched')}
    BY <1>3 DEF LookAtProcess, Goto
  <2>2. /\ open' = (open \ ({hProcess, hProcessToken} \ {Null}))
                     \cup ({hProcess', hProcessToken'} \ {Null})
        /\ stray' = stray \cup (({hProcess, hProcessToken} \ {Null}) \ open)
    BY <1>3 DEF LookAtProcess, CloseAndOpen
  <2> QED
    BY <2>1, <2>2 DEF OpenInv
<1>4. CASE SearchEnds
  <2>1. /\ pc \in {"search", "found"} /\ pc' \in {"explorer", "returned"}
        /\ open' = open \ ({hProcess, hProcessToken, Snapshot} \ {Null})
        /\ stray' = stray \cup (({hProcess, hProcessToken, Snapshot} \ {Null})
                                 \ open)
        /\ UNCHANGED <<hExplorerToken, hLsaToken, hToken, hTokenBack>>
        /\ pc' = "returned" => exit' = "1"
    BY <1>4 DEF SearchEnds, CloseAndOpen, Return, tokenVars, TokenTypeOK
  <2>2. open' = {} /\ stray' = stray
    BY <2>1 DEF OpenInv
  <2>3. hExplorerToken = Null /\ hLsaToken = Null /\ hToken = Null
        /\ hTokenBack = Null
    BY <2>1 DEF TokenTypeOK, Before
  <2>4. Gotten' = {} /\ Kept' = {}
    BY <2>1, <2>3 DEF Gotten, Kept
  <2> QED
    BY <2>1, <2>2, <2>3, <2>4 DEF OpenInv, LeftOpen
<1>5. CASE ExplorerToken
  <2>1. /\ pc = "explorer" /\ pc' = "lsass" /\ stray' = stray
        /\ open' = open \cup {TokenOf("explorer"), ProcessOf("explorer")}
        /\ hExplorerToken' = TokenOf("explorer")
        /\ UNCHANGED <<hLsaToken, hToken, hTokenBack>>
        /\ hExplorerToken = Null /\ hLsaToken = Null
    BY <1>5 DEF ExplorerToken, TokenFromPid, Goto, TokenTypeOK, Before
  <2>2. Gotten = {} /\ Gotten' = {"explorer"} /\ Kept' = Kept
    BY <2>1 DEF Gotten, Kept
  <2> QED
    BY <2>1, <2>2 DEF OpenInv
<1>6. CASE LsassToken
  <2>1. /\ pc = "lsass" /\ pc' = "enumerate" /\ stray' = stray
        /\ open' = open \cup {TokenOf("lsass"), ProcessOf("lsass")}
        /\ hLsaToken' = TokenOf("lsass")
        /\ UNCHANGED <<hExplorerToken, hToken, hTokenBack>>
        /\ hExplorerToken \in {Null, TokenOf("explorer")} /\ hLsaToken = Null
    BY <1>6 DEF LsassToken, TokenFromPid, Goto, TokenTypeOK, Before
  <2>2. Gotten' = Gotten \cup {"lsass"} /\ Kept' = Kept
    BY <2>1 DEF Gotten, Kept
  <2> QED
    BY <2>1, <2>2 DEF OpenInv
<1>7. CASE ExplorerNoToken \/ LsassNoToken \/ Enumerate \/ ScanEnds
  <2>1. /\ pc \in {"explorer", "lsass", "enumerate", "scan"}
        /\ pc' \in {"lsass", "enumerate", "scan", "finish"}
        /\ UNCHANGED <<open, stray, tokenVars>>
    BY <1>7 DEF ExplorerNoToken, LsassNoToken, Enumerate, ScanEnds, Goto
  <2>2. Gotten' = Gotten /\ Kept' = Kept
    BY <2>1 DEF Gotten, Kept, tokenVars
  <2> QED
    BY <2>1, <2>2 DEF OpenInv
<1>8. CASE LsassGone \/ EnumerateFails
  <2>1. /\ pc \in {"lsass", "enumerate"} /\ pc' = "returned"
        /\ exit' \in {"3", "4", "5"} /\ UNCHANGED <<open, stray, tokenVars>>
        /\ hToken = Null /\ hTokenBack = Null
    BY <1>8 DEF LsassGone, EnumerateFails, Return, TokenTypeOK, Before
  <2>2. open' = {ProcessOf(w) : w \in Gotten} \cup {TokenOf(w) : w \in Gotten}
    BY <2>1 DEF OpenInv, Kept
  <2>3. open' \ Child = open'
    BY <2>2
  <2>4. LeftOpen' = {ProcessOf(w) : w \in Gotten} \cup {TokenOf(w) : w \in Gotten}
    BY <2>1 DEF LeftOpen, Gotten, tokenVars
  <2> QED
    BY <2>1, <2>2, <2>3, <2>4 DEF OpenInv
<1>9. CASE SkipSession \/ SkipLimited \/ SecondBack \/ StopScan
  <2>1. /\ pc = "scan" /\ pc' \in {"scan", "finish"}
        /\ UNCHANGED <<open, stray, hExplorerToken, hLsaToken, hToken, hTokenBack>>
    BY <1>9 DEF SkipSession, SkipLimited, SecondBack, StopScan, ScanToken, Scan,
                TokenTypeOK
  <2>2. Gotten' = Gotten /\ Kept' = Kept
    BY <2>1 DEF Gotten, Kept
  <2> QED
    BY <2>1, <2>2 DEF OpenInv
<1>10. CASE KeepBack \/ TakeToken
  <2>1. /\ pc = "scan" /\ pc' \in {"scan", "finish"}
        /\ UNCHANGED <<stray, hExplorerToken, hLsaToken>>
        /\ \/ hTokenBack = Null /\ open' = open \cup {hTokenBack'}
              /\ hTokenBack' = SessionToken(scanned') /\ hToken' = hToken
           \/ hToken = Null /\ open' = open \cup {hToken'}
              /\ hToken' = SessionToken(scanned') /\ hTokenBack' = hTokenBack
    BY <1>10 DEF KeepBack, TakeToken, ScanToken, Scan, ScanInv
  <2>2. Gotten' = Gotten /\ open' = open \cup Kept' /\ Kept \subseteq Kept'
    BY <2>1 DEF Gotten, Kept, OpenInv
  <2> QED
    BY <2>1, <2>2 DEF OpenInv
<1>11. CASE Finish
  <2>1. /\ pc = "finish" /\ pc' = "launch"
        /\ hToken' = IF hToken = Null THEN hTokenBack ELSE hToken
        /\ open' = open \ ({hLsaToken, hExplorerToken} \ {Null})
        /\ stray' = stray \cup (({hLsaToken, hExplorerToken} \ {Null}) \ open)
        /\ UNCHANGED <<hExplorerToken, hLsaToken, hTokenBack>>
    BY <1>11 DEF Finish, Goto, CloseAndOpen
  <2>2. {hLsaToken, hExplorerToken} \ {Null} = {TokenOf(w) : w \in Gotten}
    BY DEF TokenTypeOK, Gotten
  <2>3. open = {ProcessOf(w) : w \in Gotten} \cup {TokenOf(w) : w \in Gotten}
                 \cup Kept
    BY <2>1 DEF OpenInv
  <2>4. Kept \cap {TokenOf(w) : w \in Gotten} = {}
    BY <2>1 DEF Kept, ScanInv
  <2>5. open' = {ProcessOf(w) : w \in Gotten} \cup Kept
    BY <2>1, <2>2, <2>3, <2>4
  <2>6. Gotten' = Gotten /\ Kept' = Kept
    BY <2>1 DEF Gotten, Kept
  <2> QED
    BY <2>1, <2>2, <2>3, <2>5, <2>6 DEF OpenInv
<1>12. CASE NoToken
  <2>1. /\ pc = "launch" /\ pc' = "returned" /\ exit' = "token"
        /\ UNCHANGED <<open, stray, tokenVars>>
        /\ hToken = Null /\ hTokenBack = Null
    BY <1>12 DEF NoToken, Goto, TokenTypeOK, ScanInv
  <2>2. open' = {ProcessOf(w) : w \in Gotten}
    BY <2>1 DEF OpenInv, Kept
  <2>3. open' \ Child = open'
    BY <2>2
  <2>4. LeftOpen' = {ProcessOf(w) : w \in Gotten}
    BY <2>1 DEF LeftOpen, Gotten, tokenVars
  <2> QED
    BY <2>1, <2>2, <2>3, <2>4 DEF OpenInv
<1>13. CASE Launch
  <2>1. /\ pc = "launch" /\ pc' = "returned" /\ exit' = "token" /\ hToken # Null
        /\ UNCHANGED <<hExplorerToken, hLsaToken, hToken, hTokenBack>>
    BY <1>13 DEF Launch, Goto, TokenTypeOK, tokenVars
  <2>2. PICK handedOver \in {{}, Child} :
          /\ open' = (open \ {hToken}) \cup handedOver
          /\ stray' = stray \cup ({hToken} \ open)
    BY <1>13, <2>1 DEF Launch, CloseAndOpen
  <2>3. open = {ProcessOf(w) : w \in Gotten} \cup Kept
    BY <2>1 DEF OpenInv
  <2>4. PICK j \in 1..scanned : hToken = SessionToken(j)
    BY <2>1 DEF ScanInv
  <2>5. hTokenBack = Null \/ \E k \in 1..scanned : hTokenBack = SessionToken(k)
    BY DEF ScanInv
  <2>6. stray' = stray
    BY <2>1, <2>2, <2>3 DEF OpenInv, Kept
  <2>7. open' \ Child = {ProcessOf(w) : w \in Gotten}
                          \cup ({hTokenBack} \ {Null, hToken})
    BY <2>1, <2>2, <2>3, <2>4, <2>5 DEF Kept
  <2>8. LeftOpen' = {ProcessOf(w) : w \in Gotten}
                      \cup (IF hToken # hTokenBack THEN {hTokenBack} \ {Null}
                                                   ELSE {})
    BY <2>1 DEF LeftOpen, Gotten
  <2> QED
    BY <2>1, <2>6, <2>7, <2>8 DEF OpenInv
<1>14. CASE CrashAtList \/ CrashAtStatistics
  BY <1>14 DEF CrashAtList, CrashAtStatistics, OpenInv, Goto
<1>15. CASE UNCHANGED vars
  BY <1>15 DEF vars, searchVars, tokenVars, OpenInv, Gotten, Kept, LeftOpen
<1> QED
  BY <1>1, <1>2, <1>3, <1>4, <1>5, <1>6, <1>7, <1>8, <1>9, <1>10, <1>11, <1>12,
     <1>13, <1>14, <1>15 DEF Next, Search, Tokens, Scanning

\* What each way out leaves open is exactly known, and nothing is closed that is
\* not open, but for the uninitialised handle of AdjustProcessTokenPrivilege.
THEOREM HandlesAccountedAlways == Spec => []HandlesAccounted
<1>1. Init => ScanInv /\ OpenInv
  BY DEF Init, ScanInv, OpenInv
<1>2. /\ TokenTypeOK /\ TokenTypeOK' /\ ScanInv /\ OpenInv /\ [Next]_vars
        => ScanInv' /\ OpenInv'
  BY ScanStep, OpenStep
<1>3. ScanInv /\ OpenInv => HandlesAccounted
  BY DEF ScanInv, OpenInv, HandlesAccounted
<1> QED
  BY <1>1, <1>2, <1>3, TokenTypeCorrect, PTL DEF Spec

-------------------------------------------------------------------------------
(* Module DataEncrypt: the noise. *)

\* Every second character of what was interleaved is the text, wherever the
\* noise was put.
LEMMA KeepSecondInverts ==
  ASSUME NEW t \in Seq(Chars), NEW where \in {1, 2},
         NEW noise \in [1..Len(t) -> Chars]
  PROVE  KeepSecond(Interleave(t, where, noise)) = t
<1> DEFINE s == Interleave(t, where, noise)
           n == Len(t)
<1>1. n \in Nat
  OBVIOUS
<1>2. s = [k \in 1..(2 * n + 1) |->
            IF k = 1 THEN where
            ELSE IF (k % 2 = 0) = (where = 1) THEN noise[k \div 2]
                                              ELSE t[k \div 2]]
  BY DEF Interleave
<1> HIDE DEF s
<1>3. Len(s) = 2 * n + 1
  BY <1>1, <1>2
<1>4. s[1] = where
  BY <1>1, <1>2
<1>5. CASE where = 1
  <2>1. ASSUME NEW k \in 1..n PROVE s[2 * k + 1] = t[k]
    <3>1. /\ 2 * k + 1 \in 1..(2 * n + 1) /\ 2 * k + 1 # 1
          /\ (2 * k + 1) % 2 = 1 /\ (2 * k + 1) \div 2 = k
      BY <1>1
    <3> QED
      BY <1>2, <1>5, <3>1
  <2>2. (Len(s) - 1) \div 2 = n
    BY <1>1, <1>3
  <2>3. KeepSecond(s) = [k \in 1..n |-> s[2 * k + 1]]
    BY <1>1, <1>3, <1>4, <1>5, <2>2 DEF KeepSecond
  <2>4. KeepSecond(s) = [k \in 1..n |-> t[k]]
    BY <2>1, <2>3
  <2> QED
    BY <2>4 DEF s
<1>6. CASE where = 2
  <2>1. ASSUME NEW k \in 1..n PROVE s[2 * k] = t[k]
    <3>1. /\ 2 * k \in 1..(2 * n + 1) /\ 2 * k # 1
          /\ (2 * k) % 2 = 0 /\ (2 * k) \div 2 = k
      BY <1>1
    <3> QED
      BY <1>2, <1>6, <3>1
  <2>2. Len(s) \div 2 = n
    BY <1>1, <1>3
  <2>3. KeepSecond(s) = [k \in 1..n |-> s[2 * k]]
    <3>1. Len(s) > 0 /\ s[1] = 2 /\ s[1] # 1
      BY <1>1, <1>3, <1>4, <1>6
    <3>2. KeepSecond(s) = [k \in 1..(Len(s) \div 2) |-> s[2 * k]]
      BY <3>1 DEF KeepSecond
    <3> QED
      BY <2>2, <3>2
  <2>4. KeepSecond(s) = [k \in 1..n |-> t[k]]
    BY <2>1, <2>3
  <2> QED
    BY <2>4 DEF s
<1> QED
  BY <1>5, <1>6 DEF s

\* The noise goes out again.
THEOREM DecodingInvertsAlways == EncryptSpec => []DecodingInverts
<1> DEFINE Encoded == \E where \in {1, 2}, noise \in [1..Len(text) -> Chars] :
                        data = Interleave(text, where, noise)
           Inv == /\ text \in Seq(Chars)
                  /\ at = "encoded" => Encoded
                  /\ at = "decoded" => data = text
<1>1. EncryptInit => Inv
  BY DataEncryptAssumption DEF EncryptInit
<1>2. Inv /\ [EncryptNext]_encryptVars => Inv'
  <2> SUFFICES ASSUME Inv, [EncryptNext]_encryptVars PROVE Inv'
    OBVIOUS
  <2>1. CASE SimpleEncode
    <3>1. PICK where \in {1, 2}, noise \in [1..Len(text) -> Noise] :
            data' = Interleave(text, where, noise)
      BY <2>1 DEF SimpleEncode
    <3>2. noise \in [1..Len(text) -> Chars]
      BY <3>1, DataEncryptAssumption
    <3>3. text' = text /\ at' = "encoded"
      BY <2>1 DEF SimpleEncode
    <3> QED
      BY <3>1, <3>2, <3>3
  <2>2. CASE SimpleDecode
    <3>1. /\ Encoded /\ text' = text /\ at' = "decoded"
          /\ data' = KeepSecond(data)
      BY <2>2 DEF SimpleDecode
    <3>2. data' = text
      BY <3>1, KeepSecondInverts
    <3> QED
      BY <3>1, <3>2
  <2>3. CASE EncryptA_ECB \/ DecryptA_ECB
    BY <2>3 DEF EncryptA_ECB, DecryptA_ECB
  <2>4. CASE UNCHANGED encryptVars
    BY <2>4 DEF encryptVars
  <2> QED
    BY <2>1, <2>2, <2>3, <2>4 DEF EncryptNext
<1>3. Inv => DecodingInverts
  BY DEF DecodingInverts
<1> QED
  BY <1>1, <1>2, <1>3, PTL DEF EncryptSpec

-------------------------------------------------------------------------------
(* Module DataEncrypt: base64. *)

\* Three bytes come back from the four digits made of them.
LEMMA DigitsInvert ==
  ASSUME NEW a \in Bytes, NEW b \in Bytes, NEW c \in Bytes
  PROVE  LET d1 == a \div 4
             d2 == (a % 4) * 16 + (b \div 16)
             d3 == (b % 16) * 4 + (c \div 64)
             d4 == c % 64
         IN /\ {d1, d2, d3, d4} \subseteq 0..63
            /\ ((d1 * 4) % 256) + (d2 \div 16) = a
            /\ ((d2 * 16) % 256) + (d3 \div 4) = b
            /\ ((d3 * 64) % 256) + d4 = c
<1> USE DEF Bytes
<1>1. a \div 4 \in 0..63 /\ c % 64 \in 0..63
  OBVIOUS
<1>2. (a % 4) * 16 + (b \div 16) \in 0..63
  OBVIOUS
<1>3. (b % 16) * 4 + (c \div 64) \in 0..63
  OBVIOUS
<1>4. (((a \div 4) * 4) % 256) + (((a % 4) * 16 + (b \div 16)) \div 16) = a
  OBVIOUS
<1>5. ((((a % 4) * 16 + (b \div 16)) * 16) % 256)
        + (((b % 16) * 4 + (c \div 64)) \div 4) = b
  OBVIOUS
<1>6. ((((b % 16) * 4 + (c \div 64)) * 64) % 256) + (c % 64) = c
  OBVIOUS
<1> QED
  BY <1>1, <1>2, <1>3, <1>4, <1>5, <1>6

\* The bytes that fill the last group up, and the groups.
Fills(s) == (3 - (Len(s) % 3)) % 3
Groups(s) == (Len(s) + Fills(s)) \div 3
ByteOr0(s, k) == IF k <= Len(s) THEN s[k] ELSE 0

LEMMA GroupsFilled ==
  ASSUME NEW s \in Seq(Bytes)
  PROVE  /\ Len(s) \in Nat /\ Fills(s) \in 0..2 /\ Groups(s) \in Nat
         /\ Len(s) + Fills(s) = 3 * Groups(s)
         /\ \A k \in Nat \ {0} : ByteOr0(s, k) \in Bytes
<1>1. Len(s) \in Nat
  OBVIOUS
<1>2. ASSUME NEW k \in Nat \ {0} PROVE ByteOr0(s, k) \in Bytes
  <2>1. CASE k <= Len(s)
    <3>1. k \in 1..Len(s)
      BY <1>1, <2>1
    <3>2. s[k] \in Bytes
      BY <3>1
    <3> QED
      BY <2>1, <3>2 DEF ByteOr0
  <2>2. CASE ~(k <= Len(s))
    BY <2>2 DEF ByteOr0, Bytes
  <2> QED
    BY <2>1, <2>2
<1> QED
  BY <1>1, <1>2 DEF Fills, Groups

\* The digits of group j + 1, as far as they are not filled up.
LEMMA EncodedDigits ==
  ASSUME NEW s \in Seq(Bytes), NEW j \in Nat, j < Groups(s)
  PROVE  LET e == Encode64(s)
             a == ByteOr0(s, 3 * j + 1)
             b == ByteOr0(s, 3 * j + 2)
             c == ByteOr0(s, 3 * j + 3)
             digits == 4 * Groups(s) - Fills(s)
         IN /\ 4 * j + 1 <= digits => e[4 * j + 1] = a \div 4
            /\ 4 * j + 2 <= digits => e[4 * j + 2] = (a % 4) * 16 + (b \div 16)
            /\ 4 * j + 3 <= digits => e[4 * j + 3] = (b % 16) * 4 + (c \div 64)
            /\ 4 * j + 4 <= digits => e[4 * j + 4] = c % 64
<1> DEFINE e == Encode64(s)
           q == Groups(s)
           f == Fills(s)
           byte(k) == ByteOr0(s, k)
           g(k) == 3 * ((k - 1) \div 4)
           digit(k) ==
             CASE k % 4 = 1 -> byte(g(k) + 1) \div 4
               [] k % 4 = 2 -> (byte(g(k) + 1) % 4) * 16 + (byte(g(k) + 2) \div 16)
               [] k % 4 = 3 -> (byte(g(k) + 2) % 16) * 4 + (byte(g(k) + 3) \div 64)
               [] k % 4 = 0 -> byte(g(k) + 3) % 64
<1>1. e = [k \in 1..(4 * q) |-> IF k > 4 * q - f THEN Fill ELSE digit(k)]
  BY DEF Encode64, Groups, Fills, ByteOr0
<1>2. f \in 0..2 /\ q \in Nat
  BY GroupsFilled
<1> HIDE DEF e, q, f, digit
<1>3. ASSUME NEW i \in 1..4, 4 * j + i <= 4 * q - f
      PROVE  e[4 * j + i] = digit(4 * j + i)
  <2>1. 4 * j + i \in 1..(4 * q) /\ ~(4 * j + i > 4 * q - f)
    BY <1>2, <1>3
  <2> QED
    BY <1>1, <2>1
<1>4. digit(4 * j + 1) = byte(3 * j + 1) \div 4
  <2>1. (4 * j + 1) % 4 = 1 /\ g(4 * j + 1) = 3 * j
    OBVIOUS
  <2> QED
    BY <2>1 DEF digit
<1>5. digit(4 * j + 2) = (byte(3 * j + 1) % 4) * 16 + (byte(3 * j + 2) \div 16)
  <2>1. (4 * j + 2) % 4 = 2 /\ g(4 * j + 2) = 3 * j
    OBVIOUS
  <2> QED
    BY <2>1 DEF digit
<1>6. digit(4 * j + 3) = (byte(3 * j + 2) % 16) * 4 + (byte(3 * j + 3) \div 64)
  <2>1. (4 * j + 3) % 4 = 3 /\ g(4 * j + 3) = 3 * j
    OBVIOUS
  <2> QED
    BY <2>1 DEF digit
<1>7. digit(4 * j + 4) = byte(3 * j + 3) % 64
  <2>1. (4 * j + 4) % 4 = 0 /\ g(4 * j + 4) = 3 * j
    OBVIOUS
  <2> QED
    BY <2>1 DEF digit
<1> QED
  BY <1>3, <1>4, <1>5, <1>6, <1>7 DEF e, q, f

\* Only the last group is filled up, and with '='; nothing else is one.
LEMMA EncodedShape ==
  ASSUME NEW s \in Seq(Bytes)
  PROVE  LET e == Encode64(s)
         IN /\ Len(e) = 4 * Groups(s)
            /\ \A k \in 1..Len(e) : e[k] = Fill <=> k > Len(e) - Fills(s)
<1> DEFINE e == Encode64(s)
           q == Groups(s)
           f == Fills(s)
<1>1. f \in 0..2 /\ q \in Nat
  BY GroupsFilled
<1>2. Len(e) = 4 * q
  BY <1>1 DEF Encode64, Groups, Fills
<1>3. ASSUME NEW k \in 1..(4 * q), k > 4 * q - f PROVE e[k] = Fill
  BY <1>3 DEF Encode64, Groups, Fills
<1>4. ASSUME NEW k \in 1..(4 * q), k <= 4 * q - f PROVE e[k] # Fill
  <2>1. PICK j \in Nat, i \in 1..4 : k = 4 * j + i
    <3>1. (k - 1) \div 4 \in Nat /\ (k - 4 * ((k - 1) \div 4)) \in 1..4
      BY <1>1
    <3> QED
      BY <1>1, <3>1
  <2>2. j < q
    BY <1>1, <2>1
  <2>3. /\ ByteOr0(s, 3 * j + 1) \in Bytes
        /\ ByteOr0(s, 3 * j + 2) \in Bytes
        /\ ByteOr0(s, 3 * j + 3) \in Bytes
    <3>1. {3 * j + 1, 3 * j + 2, 3 * j + 3} \subseteq Nat \ {0}
      OBVIOUS
    <3> QED
      BY <3>1, GroupsFilled
  <2> HIDE DEF e, q, f
  <2>4. e[k] \in 0..63
    <3>1. CASE i = 1
      BY <1>4, <2>1, <2>2, <2>3, <3>1, EncodedDigits, DigitsInvert DEF e, q, f
    <3>2. CASE i = 2
      BY <1>4, <2>1, <2>2, <2>3, <3>2, EncodedDigits, DigitsInvert DEF e, q, f
    <3>3. CASE i = 3
      BY <1>4, <2>1, <2>2, <2>3, <3>3, EncodedDigits, DigitsInvert DEF e, q, f
    <3>4. CASE i = 4
      BY <1>4, <2>1, <2>2, <2>3, <3>4, EncodedDigits, DigitsInvert DEF e, q, f
    <3> QED
      BY <3>1, <3>2, <3>3, <3>4
  <2> HIDE DEF e
  <2>5. ~(64 \in 0..63)
    OBVIOUS
  <2> QED
    BY <2>4, <2>5 DEF Fill
<1> HIDE DEF e, q, f
<1>5. \A k \in 1..Len(e) : e[k] = Fill <=> k > Len(e) - f
  BY <1>1, <1>2, <1>3, <1>4
<1> QED
  BY <1>2, <1>5 DEF e, q, f

\* Decoding inverts encoding, whatever the length.
LEMMA Base64Inverts ==
  ASSUME NEW s \in Seq(Bytes) PROVE Decode64(Encode64(s)) = s
<1> DEFINE e == Encode64(s)
           q == Groups(s)
           f == Fills(s)
           n == Len(s)
           fills == IF Len(e) = 0 \/ e[Len(e)] # Fill THEN 0
                    ELSE IF e[Len(e) - 1] = Fill THEN 2 ELSE 1
           g(k) == 4 * ((k - 1) \div 3)
           byte(k) ==
             CASE k % 3 = 1 -> ((e[g(k) + 1] * 4) % 256) + (e[g(k) + 2] \div 16)
               [] k % 3 = 2 -> ((e[g(k) + 2] * 16) % 256) + (e[g(k) + 3] \div 4)
               [] k % 3 = 0 -> ((e[g(k) + 3] * 64) % 256) + e[g(k) + 4]
<1>1. Decode64(e) = [k \in 1..(3 * (Len(e) \div 4) - fills) |-> byte(k)]
  BY DEF Decode64
<1>2. f \in 0..2 /\ q \in Nat /\ n \in Nat /\ n + f = 3 * q
  BY GroupsFilled
<1>3. Len(e) = 4 * q /\ \A k \in 1..Len(e) : e[k] = Fill <=> k > Len(e) - f
  BY EncodedShape
<1> HIDE DEF e, q, f
<1>4. fills = f
  <2>1. CASE q = 0
    BY <1>2, <1>3, <2>1
  <2>2. CASE q > 0
    <3>1. Len(e) \in 1..Len(e) /\ Len(e) - 1 \in 1..Len(e) /\ Len(e) # 0
      BY <1>2, <1>3, <2>2
    <3>2. /\ e[Len(e)] = Fill <=> Len(e) > Len(e) - f
          /\ e[Len(e) - 1] = Fill <=> Len(e) - 1 > Len(e) - f
      BY <1>3, <3>1
    <3> QED
      BY <1>2, <1>3, <3>1, <3>2
  <2> QED
    BY <1>2, <2>1, <2>2
<1>5. 3 * (Len(e) \div 4) - fills = n
  <2>1. Len(e) \div 4 = q
    BY <1>2, <1>3
  <2> QED
    BY <1>2, <1>4, <2>1
<1> HIDE DEF fills, byte
<1>6. ASSUME NEW k \in 1..n PROVE byte(k) = s[k]
  <2>1. PICK j \in Nat, i \in 1..3 : k = 3 * j + i
    <3>1. (k - 1) \div 3 \in Nat /\ (k - 3 * ((k - 1) \div 3)) \in 1..3
      BY <1>2
    <3> QED
      BY <1>2, <3>1
  <2> DEFINE a == ByteOr0(s, 3 * j + 1)
             b == ByteOr0(s, 3 * j + 2)
             c == ByteOr0(s, 3 * j + 3)
  <2>2. j < q /\ 4 * j + i + 1 <= 4 * q - f
    BY <1>2, <2>1
  <2>3. a \in Bytes /\ b \in Bytes /\ c \in Bytes
    <3>1. {3 * j + 1, 3 * j + 2, 3 * j + 3} \subseteq Nat \ {0}
      OBVIOUS
    <3> QED
      BY <3>1, GroupsFilled
  <2>4. ByteOr0(s, k) = s[k]
    BY <1>2 DEF ByteOr0
  <2>5. g(k) = 4 * j
    BY <2>1
  <2> HIDE DEF a, b, c, g
  <2>6. CASE i = 1
    <3>1. k % 3 = 1 /\ a = s[k]
      BY <2>1, <2>4, <2>6 DEF a
    <3>2. byte(k) = ((e[4 * j + 1] * 4) % 256) + (e[4 * j + 2] \div 16)
      BY <2>5, <3>1 DEF byte
    <3>3. e[4 * j + 1] = a \div 4 /\ e[4 * j + 2] = (a % 4) * 16 + (b \div 16)
      BY <1>2, <2>2, <2>6, EncodedDigits DEF a, b, e, q, f
    <3>4. (((a \div 4) * 4) % 256) + (((a % 4) * 16 + (b \div 16)) \div 16) = a
      BY <2>3, DigitsInvert
    <3> QED
      BY <3>1, <3>2, <3>3, <3>4
  <2>7. CASE i = 2
    <3>1. k % 3 = 2 /\ b = s[k]
      BY <2>1, <2>4, <2>7 DEF b
    <3>2. byte(k) = ((e[4 * j + 2] * 16) % 256) + (e[4 * j + 3] \div 4)
      BY <2>5, <3>1 DEF byte
    <3>3. /\ e[4 * j + 2] = (a % 4) * 16 + (b \div 16)
          /\ e[4 * j + 3] = (b % 16) * 4 + (c \div 64)
      BY <1>2, <2>2, <2>7, EncodedDigits DEF a, b, c, e, q, f
    <3>4. ((((a % 4) * 16 + (b \div 16)) * 16) % 256)
            + (((b % 16) * 4 + (c \div 64)) \div 4) = b
      BY <2>3, DigitsInvert
    <3> QED
      BY <3>1, <3>2, <3>3, <3>4
  <2>8. CASE i = 3
    <3>1. k % 3 = 0 /\ c = s[k]
      BY <2>1, <2>4, <2>8 DEF c
    <3>2. byte(k) = ((e[4 * j + 3] * 64) % 256) + e[4 * j + 4]
      BY <2>5, <3>1 DEF byte
    <3>3. e[4 * j + 3] = (b % 16) * 4 + (c \div 64) /\ e[4 * j + 4] = c % 64
      BY <1>2, <2>2, <2>8, EncodedDigits DEF b, c, e, q, f
    <3>4. ((((b % 16) * 4 + (c \div 64)) * 64) % 256) + (c % 64) = c
      BY <2>3, DigitsInvert
    <3> QED
      BY <3>1, <3>2, <3>3, <3>4
  <2> QED
    BY <2>6, <2>7, <2>8
<1>7. Decode64(e) = [k \in 1..n |-> s[k]]
  BY <1>1, <1>5, <1>6
<1>8. s = [k \in 1..n |-> s[k]]
  OBVIOUS
<1> QED
  BY <1>7, <1>8 DEF e

-------------------------------------------------------------------------------
(* Module DataEncrypt: padding. *)

\* What is padded is a whole number of blocks.
LEMMA PaddedBlocks ==
  ASSUME NEW t \in Seq(Chars)
  PROVE  /\ Len(t) \in Nat /\ Padding(t) \in Nat \ {0}
         /\ Pad(t) \in Seq(Chars) /\ Len(Pad(t)) = Len(t) + Padding(t)
         /\ \A k \in 1..Len(Pad(t)) :
              Pad(t)[k] = IF k <= Len(t) THEN t[k] ELSE Padding(t)
         /\ AesRoundSize(Len(Pad(t))) = Len(Pad(t))
<1> DEFINE n == Len(t)
           q == n \div BlockSize
           r == n % BlockSize
           p == Padding(t)
           filling == [k \in 1..p |-> p]
<1>1. n \in Nat /\ BlockSize \in 1..255
  BY DataEncryptAssumption DEF Chars
<1>2. q \in Nat /\ r \in 0..(BlockSize - 1) /\ n = BlockSize * q + r
  BY <1>1
<1>3. p = BlockSize - r
  BY DEF Padding
<1> HIDE DEF n, q, r, p
<1>4. p \in Nat \ {0} /\ p \in Chars
  BY <1>1, <1>2, <1>3 DEF Chars
<1>5. filling \in Seq(Chars) /\ Len(filling) = p /\ \A k \in 1..p : filling[k] = p
  <2>1. filling \in [1..p -> Chars]
    BY <1>4
  <2> QED
    BY <1>4, <2>1
<1>6. Pad(t) = t \o filling
  BY DEF Pad, p
<1> HIDE DEF filling
<1>7. Pad(t) \in Seq(Chars) /\ Len(Pad(t)) = n + p
  BY <1>5, <1>6, ConcatProperties DEF n
<1>8. ASSUME NEW k \in 1..(n + p)
      PROVE  Pad(t)[k] = IF k <= n THEN t[k] ELSE p
  <2>1. Pad(t)[k] = IF k <= n THEN t[k] ELSE filling[k - n]
    BY <1>5, <1>6, ConcatProperties DEF n
  <2>2. k > n => k - n \in 1..p
    BY <1>1, <1>4
  <2> QED
    BY <1>1, <1>5, <2>1, <2>2
<1>9. n + p = BlockSize * (q + 1)
  BY <1>1, <1>2, <1>3
<1>10. (BlockSize * (q + 1)) % BlockSize = 0
  BY <1>1, <1>2
<1>11. AesRoundSize(n + p) = n + p
  BY <1>9, <1>10 DEF AesRoundSize
<1> QED
  BY <1>1, <1>4, <1>7, <1>8, <1>11 DEF n, p

\* The padded text comes back from the cipher and from base64.
LEMMA CipherInverts ==
  ASSUME NEW t \in Seq(Chars)
  PROVE  LET hidden == Encode64(AesEncryptECB(Pad(t)))
         IN hidden # <<>> /\ AesDecryptECB(Decode64(hidden)) = Pad(t)
<1> DEFINE s == Pad(t)
           m == Len(s)
           c == AesEncryptECB(s)
<1>1. s \in Seq(Chars) /\ m \in Nat \ {0} /\ AesRoundSize(m) = m
  BY PaddedBlocks
<1>2. \A k \in 1..m : s[k] \in Bytes
  BY <1>1 DEF Chars, Bytes
<1>3. c = [k \in 1..m |-> Cipher[s[k]]]
  BY <1>1 DEF AesEncryptECB
<1> HIDE DEF s, m, c
<1>4. c \in [1..m -> Bytes]
  <2>1. \A k \in 1..m : Cipher[s[k]] \in Bytes
    BY <1>2, DataEncryptAssumption
  <2> QED
    BY <1>3, <2>1
<1>5. c \in Seq(Bytes) /\ Len(c) = m
  BY <1>1, <1>4
<1>6. Decode64(Encode64(c)) = c
  BY <1>5, Base64Inverts
<1>7. Encode64(c) # <<>>
  <2>1. Len(Encode64(c)) = 4 * Groups(c) /\ 3 * Groups(c) >= m
    BY <1>5, EncodedShape, GroupsFilled
  <2>2. Len(Encode64(c)) # 0
    BY <1>1, <1>5, <2>1, GroupsFilled
  <2> QED
    BY <2>2
<1>8. AesDecryptECB(c) = [k \in 1..m |-> s[k]]
  <2>1. AesDecryptECB(c) = [k \in 1..m |-> Decipher[c[k]]]
    BY <1>5 DEF AesDecryptECB
  <2>2. \A k \in 1..m : Decipher[c[k]] = s[k]
    BY <1>2, <1>3, DataEncryptAssumption
  <2> QED
    BY <2>1, <2>2
<1>9. s = [k \in 1..m |-> s[k]]
  BY <1>1 DEF m
<1> QED
  BY <1>6, <1>7, <1>8, <1>9 DEF s, c

\* The place of the last other character is the only one of its kind.
LEMMA LastOtherUnique ==
  ASSUME NEW S, NEW s \in Seq(S), NEW k \in DOMAIN s, IsLastOther(s, k)
  PROVE  LastOther(s) = k
<1>1. ASSUME NEW i \in DOMAIN s, NEW j \in DOMAIN s, IsLastOther(s, i),
             IsLastOther(s, j)
      PROVE  i = j
  <2>1. i \in 1..Len(s) /\ j \in 1..Len(s) /\ Len(s) \in Nat
    OBVIOUS
  <2>2. ~(j \in (i + 1)..Len(s)) /\ ~(i \in (j + 1)..Len(s))
    BY <1>1 DEF IsLastOther
  <2> QED
    BY <2>1, <2>2
<1>2. LastOther(s) = CHOOSE i \in DOMAIN s : IsLastOther(s, i)
  BY DEF LastOther
<1>3. LastOther(s) \in DOMAIN s /\ IsLastOther(s, LastOther(s))
  BY <1>2
<1> QED
  BY <1>1, <1>3

\* What the padding leaves of a text: all of it, or what precedes the run of
\* its last character, or, if it has no other character, the padding too.
LEMMA UnpadPadded ==
  ASSUME NEW t \in Seq(Chars)
  PROVE  /\ t # <<>> /\ ~Ambiguous(t) => Unpad(Pad(t)) = t
         /\ Ambiguous(t) /\ LastOther(t) > 0 =>
              Unpad(Pad(t)) = SubSeq(t, 1, LastOther(t))
         /\ Ambiguous(t) /\ ~(LastOther(t) > 0) => Unpad(Pad(t)) = Pad(t)
<1> DEFINE n == Len(t)
           p == Padding(t)
           s == Pad(t)
<1>1. n \in Nat /\ p \in Nat \ {0} /\ s \in Seq(Chars) /\ Len(s) = n + p
  BY PaddedBlocks
<1>2. \A k \in 1..(n + p) : s[k] = IF k <= n THEN t[k] ELSE p
  BY <1>1, PaddedBlocks
<1> HIDE DEF s, p
<1>3. s[Len(s)] = p /\ \A k \in (n + 1)..Len(s) : s[k] = p
  BY <1>1, <1>2
<1>4. ASSUME NEW k \in 1..n PROVE SubSeq(s, 1, k) = SubSeq(t, 1, k)
  <2>1. \A i \in 1..k : s[i] = t[i]
    BY <1>1, <1>2
  <2>2. /\ SubSeq(s, 1, k) = [i \in 1..k |-> s[i]]
        /\ SubSeq(t, 1, k) = [i \in 1..k |-> t[i]]
    BY <1>1
  <2> QED
    BY <2>1, <2>2
<1>5. CASE t # <<>> /\ ~Ambiguous(t)
  <2>1. n \in DOMAIN s /\ n >= 1
    BY <1>1, <1>5
  <2>2. IsLastOther(s, n)
    <3>1. t[n] # p
      BY <1>5 DEF Ambiguous, p
    <3>2. s[n] = t[n]
      BY <1>1, <1>2, <2>1
    <3> QED
      BY <1>3, <3>1, <3>2 DEF IsLastOther
  <2>3. LastOther(s) = n
    BY <1>1, <2>1, <2>2, LastOtherUnique
  <2>4. Unpad(s) = SubSeq(t, 1, n)
    BY <1>1, <1>4, <2>1, <2>3 DEF Unpad
  <2> QED
    BY <1>5, <2>4 DEF s
<1>6. CASE Ambiguous(t)
  <2>1. n >= 1 /\ t[n] = p
    BY <1>1, <1>6 DEF Ambiguous, p
  <2>2. \A k \in 1..n : IsLastOther(s, k) <=> IsLastOther(t, k)
    <3> SUFFICES ASSUME NEW k \in 1..n
                 PROVE  IsLastOther(s, k) <=> IsLastOther(t, k)
      OBVIOUS
    <3>1. s[k] = t[k] /\ \A j \in (k + 1)..n : s[j] = t[j]
      BY <1>1, <1>2
    <3>2. (k + 1)..Len(s) = (k + 1)..n \cup (n + 1)..Len(s)
      BY <1>1
    <3> QED
      BY <1>3, <2>1, <3>1, <3>2 DEF IsLastOther
  <2>3. \A k \in DOMAIN s : IsLastOther(s, k) => k \in 1..n
    BY <1>1, <1>3 DEF IsLastOther
  <2>4. CASE \E k \in DOMAIN t : IsLastOther(t, k)
    <3>1. PICK k \in 1..n : IsLastOther(t, k)
      BY <2>4
    <3>2. LastOther(t) = k
      BY <3>1, LastOtherUnique
    <3>3. LastOther(s) = k
      BY <1>1, <2>2, <3>1, LastOtherUnique
    <3>4. Unpad(s) = SubSeq(t, 1, LastOther(t)) /\ LastOther(t) > 0
      BY <1>4, <3>2, <3>3 DEF Unpad
    <3> QED
      BY <1>6, <3>4 DEF s
  <2>5. CASE ~\E k \in DOMAIN t : IsLastOther(t, k)
    <3>1. LastOther(t) = 0 /\ LastOther(s) = 0
      BY <2>2, <2>3, <2>5 DEF LastOther
    <3> QED
      BY <1>6, <3>1 DEF Unpad, s
  <2> QED
    BY <2>4, <2>5
<1> QED
  BY <1>5, <1>6 DEF s

\* What is encrypted decrypts to itself, unless it ends like its own padding.
THEOREM DecryptionInvertsAlways == EncryptSpec => []DecryptionInverts
<1> DEFINE Inv == /\ text \in Seq(Chars)
                  /\ at = "encrypted" =>
                       data = IF text = <<>> THEN <<>>
                              ELSE Encode64(AesEncryptECB(Pad(text)))
                  /\ DecryptionInverts
<1>1. EncryptInit => Inv
  BY DataEncryptAssumption DEF EncryptInit, DecryptionInverts
<1>2. Inv /\ [EncryptNext]_encryptVars => Inv'
  <2> SUFFICES ASSUME Inv, [EncryptNext]_encryptVars PROVE Inv'
    OBVIOUS
  <2>1. CASE EncryptA_ECB
    BY <2>1 DEF EncryptA_ECB, DecryptionInverts
  <2>2. CASE DecryptA_ECB
    <3>1. text' = text /\ at' = "decrypted"
      BY <2>2 DEF DecryptA_ECB
    <3>2. CASE text = <<>>
      <4>1. data' = <<>> /\ ~Ambiguous(text)
        BY <2>2, <3>2 DEF DecryptA_ECB, Ambiguous
      <4> QED
        BY <3>1, <3>2, <4>1 DEF DecryptionInverts, Ambiguous
    <3>3. CASE text # <<>>
      <4>1. data' = Unpad(Pad(text))
        BY <2>2, <3>3, CipherInverts DEF DecryptA_ECB
      <4> QED
        BY <3>1, <3>3, <4>1, UnpadPadded
           DEF DecryptionInverts
    <3> QED
      BY <3>2, <3>3
  <2>3. CASE SimpleEncode \/ SimpleDecode
    BY <2>3 DEF SimpleEncode, SimpleDecode, DecryptionInverts
  <2>4. CASE UNCHANGED encryptVars
    BY <2>4 DEF encryptVars, DecryptionInverts, Ambiguous
  <2> QED
    BY <2>1, <2>2, <2>3, <2>4 DEF EncryptNext
<1>3. Inv => DecryptionInverts
  OBVIOUS
<1> QED
  BY <1>1, <1>2, <1>3, PTL DEF EncryptSpec
===============================================================================
