----------------------------- MODULE MCUCServer -----------------------------
(* Small instances of UCServer for TLC. *)
EXTENDS UCServer, TLC

\* Objects and addresses are interchangeable.
Symmetry == Permutations(Clients) \cup Permutations(Wsis)

\* One callback of each kind of handler, and the change of the session.
OneOfEach == {"onCallAnswered", "onLogOut", "onSwitchCallMediaTypeRequest"}
             \cup SessionEvents
LockedAndNot == {"onCallAnswered", "onLogOut"} \cup SessionEvents
Locked == {"onCallAnswered"}

\* A process that has crashed takes no step: its states are checked, not kept.
Alive == crashed = "no"

\* TLC's symmetry is unsound for liveness, so the liveness run names objects
\* and addresses in the order of their first use instead.  This cuts steps
\* of Accept only, which no fairness condition mentions.
FirstClient == CHOOSE c \in Clients : TRUE
FirstWsi == CHOOSE w \in Wsis : TRUE
InOrder == (\E c \in Clients : obj[c] # "none") => wsi[FirstClient] = FirstWsi
=============================================================================
