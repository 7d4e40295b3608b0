-------------------------- MODULE MCWebSocketPlugin --------------------------
(* Small instances of WebSocketPlugin for TLC. *)
EXTENDS WebSocketPlugin, TLC

\* Controls and addresses are interchangeable.
Symmetry == Permutations(Controls) \cup Permutations(Wsis)

\* The liveness run names the controls in the order in which they are created
\* instead.  This cuts steps of Create only, which fairness does not oblige.
FirstControl == CHOOSE c \in Controls : TRUE
InOrder == (\E c \in Controls : pc[c] # "none") => pc[FirstControl] # "none"
=============================================================================
