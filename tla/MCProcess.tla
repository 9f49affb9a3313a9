----------------------------- MODULE MCProcess -----------------------------
(* Process on a small table. *)
EXTENDS Process
=============================================================================
