----------------------------- MODULE MCSession -----------------------------
(* Session for TLC: every constant has its value in the configuration. *)
EXTENDS Session
=============================================================================
