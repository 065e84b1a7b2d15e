----------------------------- MODULE MCChannel -----------------------------
(* Three threads, enough for a sleeper, its waker and a thread that gets   *)
(* in between, share a ring of two slots and two distinct payloads.        *)
EXTENDS Channel
=============================================================================
