---------------------------- MODULE MCSession -----------------------------
(* RlpxSession for model checking. *)
EXTENDS RlpxSession
===========================================================================
