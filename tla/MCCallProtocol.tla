--------------------------- MODULE MCCallProtocol ---------------------------
(* Small instances of CallProtocol for TLC. *)
EXTENDS CallProtocol, TLC

\* Pages and calls are interchangeable.
Symmetry == Permutations(Pages) \cup Permutations(CallIds)
=============================================================================
