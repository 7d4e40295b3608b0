------------------------------- MODULE Outbox -------------------------------
(***************************************************************************)
(* What the server promises to the pages, whatever its threads do: each    *)
(* page has an outbox of its own.  What is sent to a page while or after   *)
(* it is open is delivered while it is open, in the order of sending,      *)
(* nothing twice, nothing left out and nothing meant for another page.     *)
(* Two threads that use one outbox at the same time may spoil it; from     *)
(* then on its messages may come in any order or number, but still come    *)
(* from that outbox and only while the page is open.                       *)
(***************************************************************************)
EXTENDS Naturals, Sequences

CONSTANTS Pages, Messages

VARIABLES
    state,        \* new, open or closed
    sent,         \* what was put into the outbox
    delivered,    \* what the page was given
    spoilt        \* outboxes in disorder

vars == <<state, sent, delivered, spoilt>>

Init ==
    /\ state = [p \in Pages |-> "new"]
    /\ sent = [p \in Pages |-> <<>>]
    /\ delivered = [p \in Pages |-> <<>>]
    /\ spoilt = {}

Open(p) ==
    /\ state[p] = "new"
    /\ state' = [state EXCEPT ![p] = "open"]
    /\ UNCHANGED <<sent, delivered, spoilt>>

\* For good: a page that comes back is another page.
Close(p) ==
    /\ state[p] # "closed"
    /\ state' = [state EXCEPT ![p] = "closed"]
    /\ UNCHANGED <<sent, delivered, spoilt>>

Send(p, m) ==
    /\ state[p] # "new"
    /\ sent' = [sent EXCEPT ![p] = Append(@, m)]
    /\ spoilt' \in {spoilt, spoilt \cup {p}}
    /\ UNCHANGED <<state, delivered>>

Spoil(p) ==
    /\ spoilt' = spoilt \cup {p}
    /\ UNCHANGED <<state, sent, delivered>>

Deliver(p) ==
    /\ state[p] = "open"
    /\ \E i \in 1..Len(sent[p]) :
          /\ p \notin spoilt => i = Len(delivered[p]) + 1
          /\ delivered' = [delivered EXCEPT ![p] = Append(@, sent[p][i])]
    /\ UNCHANGED <<state, sent, spoilt>>

Next == \E p \in Pages : \/ Open(p) \/ Close(p) \/ Spoil(p) \/ Deliver(p)
                         \/ \E m \in Messages : Send(p, m)

Spec == Init /\ [][Next]_vars
=============================================================================
