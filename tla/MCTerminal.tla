----------------------------- MODULE MCTerminal -----------------------------
(* A terminal with a ring of two places and a screen of two rows. *)
EXTENDS Terminal
=============================================================================
