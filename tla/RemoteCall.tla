------------------------------- MODULE RemoteCall -----------------------------
(***************************************************************************)
(* What a caller of CDataMgr::rpcjson_dispath (src/shimmer/DataMgr.h) may  *)
(* rely on: the server is asked at most once, a result is the server's     *)
(* reply, and the fallback means that the server was not and will not be   *)
(* asked, so that asking again repeats nothing.                            *)
(***************************************************************************)
CONSTANTS
  Replies,   \* what the server may reply
  Fallback,  \* what the caller gets when it gives up
  Nothing    \* no reply or result yet, none of them

VARIABLES
  requested, \* the server has the request
  replied,   \* its reply
  outcome    \* what the caller got

vars == <<requested, replied, outcome>>

Init == requested = FALSE /\ replied = Nothing /\ outcome = Nothing

Request ==
  /\ ~requested /\ outcome = Nothing
  /\ requested' = TRUE
  /\ UNCHANGED <<replied, outcome>>

Reply ==
  /\ requested /\ replied = Nothing
  /\ replied' \in Replies
  /\ UNCHANGED <<requested, outcome>>

Return ==
  /\ replied # Nothing /\ outcome = Nothing
  /\ outcome' = replied
  /\ UNCHANGED <<requested, replied>>

GiveUp ==
  /\ ~requested /\ outcome = Nothing
  /\ outcome' = Fallback
  /\ UNCHANGED <<requested, replied>>

Next == Request \/ Reply \/ Return \/ GiveUp

Spec == Init /\ [][Next]_vars
===============================================================================
