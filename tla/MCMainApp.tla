----------------------------- MODULE MCMainApp -----------------------------
(* Small instances of MainApp for TLC. *)
EXTENDS MainApp, TLC
=============================================================================
