----------------------------- MODULE MCChannel -----------------------------
(* Channel for TLC: every constant has its value in the configurations. *)
EXTENDS Channel
=============================================================================
