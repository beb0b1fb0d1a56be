------------------------------- MODULE ServerList -----------------------------
(***************************************************************************)
(* CMainWndFrame::InitWindow (src/shimmer/MainWinFrame.cpp): the window is *)
(* not shown before loadServerlist has asked the daemon, by module         *)
(* RpcDispatch, and has made an item of the list for each usable entry of  *)
(* the answer (DuiLib's CContainerUI::AddAt).  The text of an answer is    *)
(* the sequence of its entries, or one without a list of servers.          *)
(***************************************************************************)
EXTENDS RpcDispatch, Naturals, Sequences

CONSTANT MaxEntries  \* entries in the longest list of servers

ASSUME ServerListAssumption == MaxEntries \in Nat

VARIABLES
  window, \* InitWindow: "loading", "adding", "ready", or "thrown"
  index,  \* the entry loadServerlist is at
  failed, \* entries whose item could not be created
  items   \* m_pPorxyList: the entry and the tag of each item

listVars == <<window, index, failed, items>>
vars == <<dispatchVars, listVars>>

\* An entry is an object with a country and an address, or something else.
Entries == {"server", "junk"}

\* A list of entries, or any other text.
Documents ==
  (UNION {[1..n -> Entries] : n \in 0..MaxEntries}) \cup {<<"no list">>}

\* The entries loadServerlist goes through.
Servers ==
  IF result \in {Text(d) : d \in Documents \ {<<"no list">>}} THEN result[2]
                                                              ELSE <<>>

Init ==
  /\ DispatchInit
  /\ window = "loading" /\ index = 0 /\ failed = {} /\ items = <<>>

\* An exception of rpcjson_dispath is caught by nobody.
Dispatched ==
  /\ window = "loading" /\ caller = "done"
  /\ window' = IF result \in {<<"rpc_error">>, <<"no_string">>} THEN "thrown"
                                                               ELSE "adding"
  /\ UNCHANGED <<dispatchVars, index, failed, items>>

Adding == window = "adding" /\ index < Len(Servers)

SkipEntry ==
  /\ Adding /\ Servers[index + 1] # "server"
  /\ index' = index + 1
  /\ UNCHANGED <<dispatchVars, window, failed, items>>

\* CDialogBuilder::Create returns NULL.
CreateFails ==
  /\ Adding /\ Servers[index + 1] = "server"
  /\ index' = index + 1 /\ failed' = failed \cup {index}
  /\ UNCHANGED <<dispatchVars, window, items>>

\* Seeded fault: the item is put in front of what is there.
InsertItemFirst(item, at) == <<item>> \o items

\* CDuiPtrArray::InsertAt: beyond the end the item is dropped.
InsertItem(item, at) ==
  IF at > Len(items) THEN items
  ELSE SubSeq(items, 1, at) \o <<item>> \o SubSeq(items, at + 1, Len(items))

\* AddPorxyItem: the item is inserted at the index of its entry, and its tag is
\* the number of items after that.
AddPorxyItem ==
  /\ Adding /\ Servers[index + 1] = "server"
  /\ LET count == IF index > Len(items) THEN Len(items) ELSE Len(items) + 1
     IN items' = InsertItem([entry |-> index, tag |-> count], index)
  /\ index' = index + 1
  /\ UNCHANGED <<dispatchVars, window, failed>>

ListComplete ==
  /\ window = "adding" /\ index = Len(Servers)
  /\ window' = "ready"
  /\ UNCHANGED <<dispatchVars, index, failed, items>>

ListStep ==
  Dispatched \/ SkipEntry \/ CreateFails \/ AddPorxyItem \/ ListComplete

Next == (DispatchNext /\ UNCHANGED listVars) \/ ListStep

SafeSpec == Init /\ [][Next]_vars
Spec == SafeSpec /\ DispatchFairness /\ WF_vars(ListStep)

-------------------------------------------------------------------------------
(* Properties. *)

TypeOK ==
  /\ DispatchTypeOK
  /\ window \in {"loading", "adding", "ready", "thrown"}
  /\ index \in 0..MaxEntries
  /\ failed \subseteq 0..(MaxEntries - 1)
  /\ items \in Seq([entry : 0..(MaxEntries - 1), tag : 0..MaxEntries])

\* The entry at n got no item.
Missing(n) == Servers[n + 1] # "server" \/ n \in failed

\* The list shows the servers of the answer in their order, from the first on,
\* and an item's tag is its place; what is not shown comes after an entry that
\* was skipped or an item that could not be made, and all that comes after one
\* is not shown.
ShownUpToFirstGap ==
  /\ \A k \in 1..Len(items) : items[k] = [entry |-> k - 1, tag |-> k]
  /\ Len(items) <= index
  /\ Len(items) < index => Missing(Len(items))

\* The window comes up, with the list or with an exception, unless the call
\* hangs.  The call waits without a limit, so a server that is silent, or that
\* is lost before its reply is read, holds it for ever, and nothing else does:
\* a reply that was sent before the server closed is enough, and the destructor
\* of the client always ends.
WindowComesUp ==
  \/ <>(window \in {"ready", "thrown"})
  \/ <>[](caller = "wait" /\ (replied = None \/ link \in {"reset", "broken"}))
===============================================================================
