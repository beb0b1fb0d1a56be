----------------------------- MODULE MCServerList -----------------------------
(* Module ServerList with every list of up to three entries: a gap at the     *)
(* start, in the middle or at the end, and entries after it.                  *)
EXTENDS ServerList

MCTexts == Documents
===============================================================================
