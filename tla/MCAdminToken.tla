----------------------------- MODULE MCAdminToken -----------------------------
(* Module AdminToken with every list of up to three sessions: two tokens of   *)
(* the default type with a better one before, between and after them.         *)
EXTENDS AdminToken
===============================================================================
