------------------------ MODULE WebSocketPluginProofs ------------------------
(***************************************************************************)
(* Theorems about WebSocketPlugin, for any controls and addresses: the     *)
(* registry, the shared context, the documented state OPEN, the events.    *)
(***************************************************************************)
EXTENDS WebSocketPlugin, FiniteSetTheorems, SequenceTheorems, TLAPS

\* The controls that hold a reference to the service thread.
Counted == {c \in Controls : pc[c] \in {"start", "wait", "make", "alive", "dtor", "uninit"}}

Joining == \E c \in Controls : pc[c] = "join"

\* The reference count is right, somebody joins a thread that is not needed,
\* and controls created during a join are known.
CountInv ==
    /\ count = Cardinality(Counted)
    /\ th # "none" /\ count = 0 => Joining
    /\ th \in {"leaving", "stopping", "ended"} => Joining
    /\ Joining => Counted \subseteq mixed
    /\ wsserver = "ready" => th \in {"loop", "leaving"}

\* A client that is not made yet has no connection.
UnmadeInv ==
    \A c \in Controls : pc[c] \in {"none", "start", "wait", "make"} =>
        m_state[c] = "CONNECTING" /\ wsi[c] = Null

\* Until its entry is taken away, a client that has been open has it.
OpenInv ==
    \A c \in Controls \ robbed :
        pc[c] \in {"alive", "dtor"} /\ m_state[c] \in {"OPEN", "CLOSING"} =>
            /\ wsi[c] \in Wsis
            /\ conn[wsi[c]] \in {"open", "closing"} /\ WSClientSet[wsi[c]] = c

-----------------------------------------------------------------------------
(* Layer 1: types, and who is counted.                                     *)

\* The cases of Next, one action each.
LEMMA NextCases ==
    ASSUME Next
    PROVE  \/ \E c \in Controls :
                 \/ Create(c) \/ StartThread(c) \/ GetContextCrashes(c)
                 \/ WaitContext(c) \/ MakeClient(c)
                 \/ Setwsurl(c) \/ SetwsurlCrashes(c) \/ Send(c) \/ CloseMethod(c)
                 \/ Fire(c) \/ DtorDerived(c) \/ DtorBase(c) \/ UnInit(c) \/ Join(c)
           \/ \E w \in Wsis :
                 \/ ConnectionError(w) \/ ClosedClientHttp(w) \/ ClientEstablished(w)
                 \/ ClientReceive(w) \/ ClientWriteable(w) \/ Closed(w)
           \/ ThreadNew \/ InitInstance \/ LeaveLoop \/ UnInitInstance \/ DeleteServer
           \/ UNCHANGED vars
  BY DEF Next, Constructor, Script, OnDestroy, ServiceThread, Callback, Finished

\* The number of counted controls when one of them comes or goes.
LEMMA CountedFacts ==
    ASSUME NEW c \in Controls
    PROVE  /\ Cardinality(Counted) \in Nat
           /\ c \in Counted => Cardinality(Counted) > 0
           /\ Cardinality(Counted) = 0 => Counted = {}
           /\ c \notin Counted => Cardinality(Counted \cup {c}) = Cardinality(Counted) + 1
           /\ c \in Counted => Cardinality(Counted \ {c}) = Cardinality(Counted) - 1
           /\ c \in Counted /\ Cardinality(Counted) = 1 => Counted = {c}
  <1>1. IsFiniteSet(Counted)
    BY FS_Subset, PluginAssumption DEF Counted
  <1>2. Cardinality(Counted) \in Nat /\ (Cardinality(Counted) = 0 <=> Counted = {})
    BY <1>1, FS_CardinalityType, FS_EmptySet
  <1>3. c \notin Counted => Cardinality(Counted \cup {c}) = Cardinality(Counted) + 1
    BY <1>1, FS_AddElement
  <1>4. /\ IsFiniteSet(Counted \ {c})
        /\ c \in Counted => Cardinality(Counted \ {c}) = Cardinality(Counted) - 1
    BY <1>1, FS_RemoveElement
  <1>5. c \in Counted /\ Cardinality(Counted) = 1 => Counted \ {c} = {}
    BY <1>2, <1>4, FS_EmptySet
  <1> QED BY <1>2, <1>3, <1>4, <1>5

\* What a post does to the type of the window's queue.
LEMMA PostType ==
    ASSUME TypeOK, NEW c \in Controls, NEW e \in Seq(WindowEvents)
    PROVE  /\ Post(c, e) \in [Controls -> Seq(WindowEvents)]
           /\ Post(c, e)[c] \in Seq(WindowEvents)
  <1>1. posted[c] \o e \in Seq(WindowEvents)
    BY ConcatProperties DEF TypeOK
  <1> QED BY <1>1 DEF Post, TypeOK

\* The events a callback posts.
LEMMA EventTuples ==
    /\ <<"open">> \in Seq(WindowEvents) /\ <<"message">> \in Seq(WindowEvents)
    /\ <<"close">> \in Seq(WindowEvents) /\ <<"error", "close">> \in Seq(WindowEvents)
    /\ <<>> \in Seq(WindowEvents)
  BY DEF WindowEvents

\* What the end of connections does to the types.
LEMMA LwsEndType ==
    ASSUME TypeOK, NEW W \in SUBSET Wsis, NEW F \in SUBSET W, LwsEnd(W, F)
    PROVE  /\ WSClientSet' \in [Wsis -> Controls \cup {Null}]
           /\ m_state' \in [Controls -> Statuses]
           /\ posted' \in [Controls -> Seq(WindowEvents)]
  <1>1. WSClientSet' \in [Wsis -> Controls \cup {Null}]
    BY DEF LwsEnd, TypeOK
  <1>2. m_state' \in [Controls -> Statuses]
    BY DEF LwsEnd, TypeOK, Statuses
  <1>3. \A c \in Controls : /\ Post(c, <<"close">>)[c] \in Seq(WindowEvents)
                            /\ Post(c, <<"error", "close">>)[c] \in Seq(WindowEvents)
    BY PostType, EventTuples
  <1>4. posted' \in [Controls -> Seq(WindowEvents)]
    BY <1>3 DEF LwsEnd, TypeOK
  <1> QED BY <1>1, <1>2, <1>4

\* What GetContext returns is 0, a context or a wild value.
LEMMA GetContextType ==
    \A ctx \in GetContext : gen \in Nat => ctx \in Nat
  <1>1. Wild \in Nat
    BY FS_CardinalityType, PluginAssumption DEF Wild
  <1> QED BY <1>1 DEF GetContext

\* What Close does to the types.
LEMMA AskCloseType ==
    ASSUME TypeOK, NEW c \in Controls, AskClose(c)
    PROVE  m_state' \in [Controls -> Statuses] /\ wake' \subseteq Wsis
  <1> USE DEF TypeOK
  <1>1. CASE wsi[c] # Null /\ WSClientSet[wsi[c]] # Null /\ m_state[c] = "OPEN"
    <2>1. m_state' = [m_state EXCEPT ![c] = "CLOSING"] /\ wake' = wake \cup {wsi[c]}
      BY <1>1 DEF AskClose
    <2> QED BY <1>1, <2>1 DEF Statuses
  <1>2. CASE ~(wsi[c] # Null /\ WSClientSet[wsi[c]] # Null /\ m_state[c] = "OPEN")
    BY <1>2 DEF AskClose
  <1> QED BY <1>1, <1>2

\* A counter below its bound.
LEMMA CountUp ==
    ASSUME NEW m \in Nat, NEW n \in 0..m, n < m
    PROVE  n + 1 \in 0..m
  OBVIOUS

\* The two counters of Send.
LEMMA SendType ==
    ASSUME TypeOK, NEW c \in Controls, Send(c)
    PROVE  /\ sends' \in [Controls -> 0..MaxSends]
           /\ unsent' \in [Controls -> Nat]
  <1>1. sends \in [Controls -> 0..MaxSends] /\ unsent \in [Controls -> Nat]
    BY DEF TypeOK
  <1>2. /\ sends[c] < MaxSends /\ sends' = [sends EXCEPT ![c] = @ + 1]
        /\ unsent' = [unsent EXCEPT ![c] = @ + 1]
    BY DEF Send
  <1>3. sends[c] + 1 \in 0..MaxSends
    BY <1>1, <1>2, CountUp, PluginAssumption
  <1> QED BY <1>1, <1>2, <1>3

\* The counter of ClientReceive.
LEMMA ReceiveType ==
    ASSUME TypeOK, NEW w \in Wsis, ClientReceive(w)
    PROVE  recv' \in [Controls -> 0..MaxRecv] /\ WSClientSet[w] \in Controls
  <1>1. /\ recv \in [Controls -> 0..MaxRecv]
        /\ WSClientSet \in [Wsis -> Controls \cup {Null}]
    BY DEF TypeOK
  <1>2. /\ WSClientSet[w] # Null /\ recv[WSClientSet[w]] < MaxRecv
        /\ recv' = [recv EXCEPT ![WSClientSet[w]] = @ + 1]
    BY DEF ClientReceive
  <1>3. WSClientSet[w] \in Controls
    BY <1>1, <1>2
  <1>4. recv[WSClientSet[w]] + 1 \in 0..MaxRecv
    BY <1>1, <1>2, <1>3, CountUp, PluginAssumption
  <1> QED BY <1>1, <1>2, <1>3, <1>4

\* What CLIENT_WRITEABLE does to the types.
LEMMA WriteableType ==
    ASSUME TypeOK, NEW w \in Wsis, ClientWriteable(w)
    PROVE  /\ unsent' \in [Controls -> Nat] /\ wake' \subseteq Wsis
           /\ conn' \in [Wsis -> {"free", "connecting", "failing", "open", "closing"}]
  <1>1. /\ unsent \in [Controls -> Nat] /\ wake \subseteq Wsis
        /\ WSClientSet \in [Wsis -> Controls \cup {Null}]
        /\ conn \in [Wsis -> {"free", "connecting", "failing", "open", "closing"}]
    BY DEF TypeOK
  <1> DEFINE c == WSClientSet[w]
             n == unsent[c]
  <1>2. \/ c # Null /\ unsent' = [unsent EXCEPT ![c] = IF @ > 0 THEN @ - 1 ELSE 0]
        \/ UNCHANGED unsent
    BY DEF ClientWriteable
  <1>3. wake' \subseteq wake /\ (UNCHANGED conn \/ conn' = [conn EXCEPT ![w] = "closing"])
    BY DEF ClientWriteable
  <1>4. c # Null => c \in Controls /\ n \in Nat
    BY <1>1
  <1>5. unsent' \in [Controls -> Nat]
    BY <1>1, <1>2, <1>4
  <1>6. conn' \in [Wsis -> {"free", "connecting", "failing", "open", "closing"}]
    BY <1>1, <1>3
  <1> QED BY <1>1, <1>3, <1>5, <1>6

\* What ~WebSocketClient does to the registry.
LEMMA DtorBaseType ==
    ASSUME TypeOK, NEW c \in Controls, DtorBase(c)
    PROVE  WSClientSet' \in [Wsis -> Controls \cup {Null}] /\ robbed' \subseteq Controls
  <1>1. /\ wsi \in [Controls -> Wsis \cup {Null}] /\ robbed \subseteq Controls
        /\ WSClientSet \in [Wsis -> Controls \cup {Null}]
    BY DEF TypeOK
  <1>2. CASE wsi[c] = Null
    BY <1>1, <1>2 DEF DtorBase
  <1>3. CASE wsi[c] # Null
    <2>1. wsi[c] \in Wsis /\ WSClientSet[wsi[c]] \in Controls \cup {Null}
      BY <1>1, <1>3
    <2>2. /\ WSClientSet' = [WSClientSet EXCEPT ![wsi[c]] = Null]
          /\ robbed' = robbed \cup ({WSClientSet[wsi[c]]} \ {c, Null})
      BY <1>3 DEF DtorBase
    <2> QED BY <1>1, <2>1, <2>2
  <1> QED BY <1>2, <1>3

\* Every step keeps the types; UnInit needs to know that its control is counted.
LEMMA TypeStep ==
    ASSUME TypeOK, CountInv, [Next]_vars
    PROVE  TypeOK'
  <1> USE PluginAssumption DEF TypeOK, serverVars, clientVars, lwsVars, eventVars,
          historyVars, vars, At, Go, Crash
  <1>1. ASSUME NEW c \in Controls, Create(c) PROVE TypeOK'
    <2>1. pc' \in [Controls -> Steps]
      BY <1>1 DEF Create, Steps
    <2>2. count' \in Nat /\ mixed' \subseteq Controls
      BY <1>1 DEF Create
    <2> QED BY <1>1, <2>1, <2>2 DEF Create
  <1>2. ASSUME NEW c \in Controls, StartThread(c) PROVE TypeOK'
    BY <1>2 DEF StartThread, Steps
  <1>3. ASSUME NEW c \in Controls, GetContextCrashes(c) PROVE TypeOK'
    BY <1>3 DEF GetContextCrashes, Steps
  <1>4. ASSUME NEW c \in Controls, WaitContext(c) PROVE TypeOK'
    <2>1. pc' \in [Controls -> Steps]
      BY <1>4 DEF WaitContext, Steps
    <2>2. waits' \in 0..(Patience + 1)
      BY <1>4 DEF WaitContext
    <2> QED BY <1>4, <2>1, <2>2 DEF WaitContext
  <1>5. ASSUME NEW c \in Controls, MakeClient(c) PROVE TypeOK'
    BY <1>5, GetContextType DEF MakeClient, Steps
  <1>6. ASSUME NEW c \in Controls, Setwsurl(c) PROVE TypeOK'
    <2>1. m_state' \in [Controls -> Statuses]
      BY <1>6 DEF Setwsurl, Statuses
    <2>2. PICK w \in Wsis :
             /\ wsi' = [wsi EXCEPT ![c] = w]
             /\ conn' = [conn EXCEPT ![w] = "connecting"]
             /\ owner' = [owner EXCEPT ![w] = c]
             /\ WSClientSet' = [WSClientSet EXCEPT ![w] = IF @ = Null THEN c ELSE @]
      BY <1>6 DEF Setwsurl
    <2>3. wsi' \in [Controls -> Wsis \cup {Null}]
      BY <2>2
    <2>4. WSClientSet' \in [Wsis -> Controls \cup {Null}]
      BY <2>2
    <2>5. /\ conn' \in [Wsis -> {"free", "connecting", "failing", "open", "closing"}]
          /\ owner' \in [Wsis -> Controls \cup {Null}]
      BY <2>2
    <2> QED BY <1>6, <2>1, <2>3, <2>4, <2>5 DEF Setwsurl
  <1>7. ASSUME NEW c \in Controls, SetwsurlCrashes(c) PROVE TypeOK'
    BY <1>7 DEF SetwsurlCrashes, Steps
  <1>8. ASSUME NEW c \in Controls, Send(c) PROVE TypeOK'
    <2>1. sends' \in [Controls -> 0..MaxSends] /\ unsent' \in [Controls -> Nat]
      BY <1>8, SendType
    <2>2. wake' \subseteq Wsis
      BY <1>8 DEF Send
    <2> QED BY <1>8, <2>1, <2>2 DEF Send
  <1>9. ASSUME NEW c \in Controls, CloseMethod(c) PROVE TypeOK'
    BY <1>9, AskCloseType DEF CloseMethod
  <1>10. ASSUME NEW c \in Controls, Fire(c) PROVE TypeOK'
    BY <1>10 DEF Fire, Steps
  <1>11. ASSUME NEW c \in Controls, DtorDerived(c) PROVE TypeOK'
    BY <1>11 DEF DtorDerived, Steps
  <1>12. ASSUME NEW c \in Controls, DtorBase(c) PROVE TypeOK'
    <2>1. m_state' \in [Controls -> Statuses] /\ wake' \subseteq Wsis
      BY <1>12, AskCloseType DEF DtorBase
    <2>2. WSClientSet' \in [Wsis -> Controls \cup {Null}] /\ robbed' \subseteq Controls
      BY <1>12, DtorBaseType
    <2> QED BY <1>12, <2>1, <2>2 DEF DtorBase, Steps
  <1>13. ASSUME NEW c \in Controls, UnInit(c) PROVE TypeOK'
    <2>1. c \in Counted
      BY <1>13 DEF UnInit, Counted
    <2>2. count \in Nat /\ count > 0
      BY <2>1, CountedFacts DEF CountInv
    <2> QED BY <1>13, <2>2 DEF UnInit, Steps
  <1>14. ASSUME NEW c \in Controls, Join(c) PROVE TypeOK'
    BY <1>14 DEF Join, Steps
  <1>15. ASSUME NEW w \in Wsis, ConnectionError(w) PROVE TypeOK'
    <2>1. /\ m_state' \in [Controls -> Statuses]
          /\ posted' \in [Controls -> Seq(WindowEvents)]
      <3>1. CASE WSClientSet[w] = Null
        BY <1>15, <3>1 DEF ConnectionError
      <3>2. CASE WSClientSet[w] \in Controls
        <4>1. Post(WSClientSet[w], <<"error", "close">>) \in [Controls -> Seq(WindowEvents)]
          BY <3>2, PostType, EventTuples
        <4>2. /\ m_state' = [m_state EXCEPT ![WSClientSet[w]] = "CLOSED"]
              /\ posted' = Post(WSClientSet[w], <<"error", "close">>)
          BY <1>15, <3>2 DEF ConnectionError
        <4> QED BY <3>2, <4>1, <4>2 DEF Statuses
      <3> QED BY <3>1, <3>2
    <2> QED BY <1>15, <2>1 DEF ConnectionError, CallbackFrame
  <1>16. ASSUME NEW w \in Wsis, ClosedClientHttp(w) PROVE TypeOK'
    BY <1>16, LwsEndType DEF LwsClose, ClosedClientHttp, Freed, CallbackFrame
  <1>17. ASSUME NEW w \in Wsis, ClientEstablished(w) PROVE TypeOK'
    <2>1. /\ m_state' \in [Controls -> Statuses] /\ wake' \subseteq Wsis
          /\ posted' \in [Controls -> Seq(WindowEvents)]
      <3>1. CASE WSClientSet[w] = Null
        BY <1>17, <3>1 DEF ClientEstablished
      <3>2. CASE WSClientSet[w] \in Controls
        <4>1. Post(WSClientSet[w], <<"open">>) \in [Controls -> Seq(WindowEvents)]
          BY <3>2, PostType, EventTuples
        <4>2. /\ m_state' = [m_state EXCEPT ![WSClientSet[w]] = "OPEN"]
              /\ posted' = Post(WSClientSet[w], <<"open">>) /\ wake' = wake \cup {w}
          BY <1>17, <3>2 DEF ClientEstablished
        <4> QED BY <3>2, <4>1, <4>2 DEF Statuses
      <3> QED BY <3>1, <3>2
    <2> QED BY <1>17, <2>1 DEF ClientEstablished, CallbackFrame
  <1>18. ASSUME NEW w \in Wsis, ClientReceive(w) PROVE TypeOK'
    <2>1. recv' \in [Controls -> 0..MaxRecv] /\ WSClientSet[w] \in Controls
      BY <1>18, ReceiveType
    <2>2. posted' \in [Controls -> Seq(WindowEvents)]
      BY <1>18, <2>1, PostType, EventTuples DEF ClientReceive
    <2> QED BY <1>18, <2>1, <2>2 DEF ClientReceive, CallbackFrame
  <1>19. ASSUME NEW w \in Wsis, ClientWriteable(w) PROVE TypeOK'
    <2>1. /\ unsent' \in [Controls -> Nat] /\ wake' \subseteq Wsis
          /\ conn' \in [Wsis -> {"free", "connecting", "failing", "open", "closing"}]
      BY <1>19, WriteableType
    <2>2. UNCHANGED <<m_state, WSClientSet, owner, posted, recv>> /\ CallbackFrame
      BY <1>19 DEF ClientWriteable
    <2> QED BY <2>1, <2>2 DEF CallbackFrame
  <1>20. ASSUME NEW w \in Wsis, Closed(w) PROVE TypeOK'
    BY <1>20, LwsEndType DEF LwsClose, Closed, Freed, CallbackFrame
  <1>21. CASE ThreadNew
    BY <1>21 DEF ThreadNew
  <1>22. CASE InitInstance
    BY <1>22 DEF InitInstance
  <1>23. CASE LeaveLoop
    BY <1>23 DEF LeaveLoop
  <1>24. CASE UnInitInstance
    <2>1. {w \in Wsis : conn[w] # "free"} \in SUBSET Wsis
      OBVIOUS
    <2> QED BY <1>24, <2>1, LwsEndType DEF UnInitInstance, Freed
  <1>25. CASE DeleteServer
    BY <1>25 DEF DeleteServer
  <1>26. CASE UNCHANGED vars
    BY <1>26
  <1> QED
    BY <1>1, <1>2, <1>3, <1>4, <1>5, <1>6, <1>7, <1>8, <1>9, <1>10, <1>11, <1>12,
       <1>13, <1>14, <1>15, <1>16, <1>17, <1>18, <1>19, <1>20, <1>21, <1>22, <1>23,
       <1>24, <1>25, <1>26, NextCases

\* Every step keeps the count right.
LEMMA CountStep ==
    ASSUME TypeOK, CountInv, [Next]_vars
    PROVE  CountInv'
  <1> USE DEF At, Go, serverVars
  <1> DEFINE Idle == UNCHANGED <<count, th, wsserver, mixed>>
  <1>1. ASSUME Idle, Counted' = Counted, Joining' <=> Joining
        PROVE  CountInv'
    BY <1>1 DEF CountInv
  <1>2. ASSUME UNCHANGED pc PROVE Counted' = Counted /\ (Joining' <=> Joining)
    BY <1>2 DEF Counted, Joining
  <1>3. ASSUME NEW c \in Controls, Create(c) PROVE CountInv'
    <2>1. c \notin Counted /\ Counted' = Counted \cup {c}
      BY <1>3 DEF Create, Counted, TypeOK
    <2>2. Joining' <=> Joining
      BY <1>3 DEF Create, Joining, TypeOK
    <2>3. count' = Cardinality(Counted') /\ count' # 0
      BY <1>3, <2>1, CountedFacts DEF Create, CountInv
    <2>4. Joining' => Counted' \subseteq mixed'
      BY <1>3, <2>1, <2>2 DEF Create, CountInv, Joining
    <2> QED BY <1>3, <2>2, <2>3, <2>4 DEF Create, CountInv
  <1>4. ASSUME NEW c \in Controls, StartThread(c) PROVE CountInv'
    <2>1. c \in Counted
      BY <1>4 DEF StartThread, Counted
    <2>2. count # 0
      BY <2>1, CountedFacts DEF CountInv
    <2>3. Counted' = Counted /\ (Joining' <=> Joining)
      BY <1>4 DEF StartThread, Counted, Joining, TypeOK
    <2> QED BY <1>4, <2>2, <2>3 DEF StartThread, CountInv, historyVars
  <1>5. ASSUME NEW c \in Controls, WaitContext(c) \/ MakeClient(c) PROVE CountInv'
    <2>1. Idle
      BY <1>5 DEF WaitContext, MakeClient, historyVars
    <2>2. pc[c] \in {"wait", "make"} /\ \E l \in {"wait", "make", "alive"} :
            pc' = [pc EXCEPT ![c] = l]
      BY <1>5 DEF WaitContext, MakeClient, TypeOK
    <2>3. Counted' = Counted
      BY <2>2 DEF Counted, TypeOK
    <2>4. Joining' <=> Joining
      BY <2>2 DEF Joining, TypeOK
    <2> QED BY <1>1, <2>1, <2>3, <2>4
  <1>6. ASSUME NEW c \in Controls, DtorDerived(c) \/ DtorBase(c) PROVE CountInv'
    <2>1. Idle
      BY <1>6 DEF DtorDerived, DtorBase, historyVars
    <2>2. Counted' = Counted
      BY <1>6 DEF DtorDerived, DtorBase, Counted, TypeOK
    <2>3. Joining' <=> Joining
      BY <1>6 DEF DtorDerived, DtorBase, Joining, TypeOK
    <2> QED BY <1>1, <2>1, <2>2, <2>3
  <1>7. ASSUME NEW c \in Controls, UnInit(c) PROVE CountInv'
    <2>1. c \in Counted /\ Counted' = Counted \ {c}
      BY <1>7 DEF UnInit, Counted, TypeOK
    <2>2. count' = Cardinality(Counted')
      BY <1>7, <2>1, CountedFacts DEF UnInit, CountInv
    <2>3. CASE count = 1
      <3>1. Joining'
        BY <1>7, <2>3 DEF UnInit, Joining, TypeOK
      <3>2. Counted' = {}
        BY <2>1, <2>3, CountedFacts DEF CountInv
      <3> QED BY <1>7, <2>2, <3>1, <3>2 DEF UnInit, CountInv, historyVars
    <2>4. CASE count # 1
      <3>1. Joining' <=> Joining
        BY <1>7, <2>4 DEF UnInit, Joining, TypeOK
      <3>2. count' # 0
        BY <1>7, <2>4 DEF UnInit, TypeOK
      <3> QED BY <1>7, <2>1, <2>2, <3>1, <3>2 DEF UnInit, CountInv, historyVars
    <2> QED BY <2>3, <2>4
  <1>8. ASSUME NEW c \in Controls, Join(c) PROVE CountInv'
    <2>1. Counted' = Counted /\ (Joining' => Joining)
      BY <1>8 DEF Join, Counted, Joining, TypeOK
    <2> QED BY <1>8, <2>1 DEF Join, CountInv, historyVars
  <1>9. CASE ThreadNew \/ InitInstance \/ DeleteServer
    <2>1. Counted' = Counted /\ (Joining' <=> Joining)
      BY <1>2, <1>9 DEF ThreadNew, InitInstance, DeleteServer
    <2> QED BY <1>9, <2>1 DEF ThreadNew, InitInstance, DeleteServer, CountInv, historyVars
  <1>10. CASE LeaveLoop \/ UnInitInstance
    <2>1. Counted' = Counted /\ (Joining' <=> Joining)
      BY <1>2, <1>10 DEF LeaveLoop, UnInitInstance
    <2> QED BY <1>10, <2>1 DEF LeaveLoop, UnInitInstance, CountInv, historyVars
  <1>11. ASSUME NEW c \in Controls,
                \/ GetContextCrashes(c) \/ Setwsurl(c) \/ SetwsurlCrashes(c)
                \/ Send(c) \/ CloseMethod(c) \/ Fire(c)
         PROVE  CountInv'
    <2>1. Idle /\ UNCHANGED pc
      BY <1>11 DEF GetContextCrashes, Setwsurl, SetwsurlCrashes, Send, CloseMethod,
                   Fire, historyVars
    <2> QED BY <1>1, <1>2, <2>1
  <1>12. ASSUME NEW w \in Wsis, Callback(w) PROVE CountInv'
    <2>1. Idle /\ UNCHANGED pc
      BY <1>12 DEF Callback, ConnectionError, ClosedClientHttp, ClientEstablished,
                   ClientReceive, ClientWriteable, Closed, CallbackFrame, historyVars
    <2> QED BY <1>1, <1>2, <2>1
  <1>13. CASE UNCHANGED vars
    <2>1. Idle /\ UNCHANGED pc
      BY <1>13 DEF vars, historyVars
    <2> QED BY <1>1, <1>2, <2>1
  <1> QED
    BY <1>3, <1>4, <1>5, <1>6, <1>7, <1>8, <1>9, <1>10, <1>11, <1>12, <1>13,
       NextCases DEF Callback

\* Every variable keeps its type for any number of controls and addresses;
\* the reference count is never decremented below 0.
THEOREM PluginTypes == Spec => [](TypeOK /\ CountInv)
  <1>1. Init => TypeOK
    <2> USE PluginAssumption DEF Init
    <2>1. Init => pc \in [Controls -> Steps] /\ m_state \in [Controls -> Statuses]
      BY DEF Steps, Statuses
    <2>2. Init => posted \in [Controls -> Seq(WindowEvents)]
      BY EventTuples
    <2>3. Init => /\ wsi \in [Controls -> Wsis \cup {Null}]
                  /\ WSClientSet \in [Wsis -> Controls \cup {Null}]
                  /\ owner \in [Wsis -> Controls \cup {Null}]
      OBVIOUS
    <2>4. Init => waits \in 0..(Patience + 1) /\ recv \in [Controls -> 0..MaxRecv]
                  /\ sends \in [Controls -> 0..MaxSends]
      OBVIOUS
    <2>5. Init => crashed \in BOOLEAN
      OBVIOUS
    <2> QED BY <2>1, <2>2, <2>3, <2>4, <2>5 DEF TypeOK
  <1>2. Init => CountInv
    <2>1. Init => Counted = {} /\ ~Joining
      BY DEF Init, Counted, Joining
    <2> QED BY <2>1, FS_EmptySet DEF Init, CountInv
  <1>3. TypeOK /\ CountInv /\ [Next]_vars => (TypeOK /\ CountInv)'
    BY TypeStep, CountStep
  <1> QED BY <1>1, <1>2, <1>3, PTL DEF Spec

-----------------------------------------------------------------------------
(* Layer 2: the shared context.                                            *)

\* No step takes the context of a client away.
LEMMA ContextStep ==
    ASSUME TypeOK, CountInv, ContextKept, [Next]_vars
    PROVE  ContextKept'
  <1> USE DEF At, Go, serverVars, historyVars
  <1> DEFINE Same == UNCHANGED <<th, wsserver, gen, m_Context, mixed>>
  <1>1. ASSUME Same, UNCHANGED pc PROVE ContextKept'
    BY <1>1 DEF ContextKept
  <1>2. ASSUME NEW c \in Controls, MakeClient(c) PROVE ContextKept'
    <2> SUFFICES ASSUME NEW d \in Controls \ mixed', pc'[d] \in {"alive", "dtor"},
                        m_Context'[d] \notin {0, Wild}
                 PROVE  wsserver' = "ready" /\ th' = "loop" /\ m_Context'[d] = gen'
      BY DEF ContextKept
    <2>1. CASE d # c
      BY <1>2, <2>1 DEF MakeClient, ContextKept, TypeOK
    <2>2. CASE d = c
      <3>1. wsserver = "ready" /\ m_Context'[d] = gen
        BY <1>2, <2>2 DEF MakeClient, GetContext, TypeOK
      <3>2. c \in Counted /\ c \notin mixed
        BY <1>2, <2>2 DEF MakeClient, Counted
      <3>3. th = "loop"
        BY <3>1, <3>2 DEF CountInv
      <3> QED BY <1>2, <3>1, <3>3 DEF MakeClient
    <2> QED BY <2>1, <2>2
  <1>3. ASSUME NEW c \in Controls,
               \/ Create(c) \/ WaitContext(c) \/ DtorDerived(c) \/ DtorBase(c) \/ UnInit(c)
        PROVE  ContextKept'
    <2>1. UNCHANGED <<th, wsserver, gen, m_Context>> /\ mixed \subseteq mixed'
      BY <1>3 DEF Create, WaitContext, DtorDerived, DtorBase, UnInit, clientVars
    <2>2. \A d \in Controls : pc'[d] \in {"alive", "dtor"} => pc[d] \in {"alive", "dtor"}
      BY <1>3 DEF Create, WaitContext, DtorDerived, DtorBase, UnInit, TypeOK
    <2> QED BY <2>1, <2>2 DEF ContextKept
  <1>4. ASSUME NEW c \in Controls, StartThread(c) \/ Join(c) PROVE ContextKept'
    <2>1. UNCHANGED <<wsserver, gen, m_Context, mixed>> /\ (th = "loop" => th' = "loop")
      BY <1>4 DEF StartThread, Join, clientVars
    <2>2. \A d \in Controls : pc'[d] \in {"alive", "dtor"} => pc[d] \in {"alive", "dtor"}
      BY <1>4 DEF StartThread, Join, TypeOK
    <2> QED BY <2>1, <2>2 DEF ContextKept
  <1>5. CASE LeaveLoop
    <2>1. Counted = {}
      <3>1. Counted # {} => \E c \in Controls : c \in Counted
        BY DEF Counted
      <3> QED BY <1>5, <3>1, CountedFacts DEF LeaveLoop, CountInv
    <2>2. \A c \in Controls : pc[c] \notin {"alive", "dtor"}
      BY <2>1 DEF Counted
    <2> QED BY <1>5, <2>2 DEF LeaveLoop, ContextKept
  <1>6. CASE ThreadNew \/ InitInstance \/ UnInitInstance \/ DeleteServer
    <2>1. th # "loop" /\ UNCHANGED <<pc, m_Context, mixed>>
      BY <1>6 DEF ThreadNew, InitInstance, UnInitInstance, DeleteServer, clientVars
    <2> QED BY <2>1 DEF ContextKept
  <1>7. ASSUME NEW c \in Controls,
               \/ GetContextCrashes(c) \/ Setwsurl(c) \/ SetwsurlCrashes(c)
               \/ Send(c) \/ CloseMethod(c) \/ Fire(c)
        PROVE  ContextKept'
    <2>1. Same /\ UNCHANGED pc
      BY <1>7 DEF GetContextCrashes, Setwsurl, SetwsurlCrashes, Send, CloseMethod,
                  Fire, clientVars
    <2> QED BY <1>1, <2>1
  <1>8. ASSUME NEW w \in Wsis, Callback(w) PROVE ContextKept'
    <2>1. Same /\ UNCHANGED pc
      BY <1>8 DEF Callback, ConnectionError, ClosedClientHttp, ClientEstablished,
                  ClientReceive, ClientWriteable, Closed, CallbackFrame
    <2> QED BY <1>1, <2>1
  <1>9. CASE UNCHANGED vars
    <2>1. Same /\ UNCHANGED pc
      BY <1>9 DEF vars, clientVars
    <2> QED BY <1>1, <2>1
  <1> QED
    BY <1>2, <1>3, <1>4, <1>5, <1>6, <1>7, <1>8, <1>9, NextCases DEF Callback

\* While a client exists, nobody destroys the context that it was given,
\* however constructors and OnDestroy of other controls interleave, unless
\* it was created while another control joined the service thread.
THEOREM ContextSafe == Spec => []ContextKept
  <1>1. Init => ContextKept
    BY DEF Init, ContextKept
  <1> QED BY <1>1, ContextStep, PluginTypes, PTL DEF Spec

-----------------------------------------------------------------------------
(* Layer 3: the registry.                                                  *)

\* No step leaves an entry that is not its client's connection.
LEMMA RegistryStep ==
    ASSUME TypeOK, RegistrySound, [Next]_vars
    PROVE  RegistrySound'
  <1> USE PluginAssumption DEF At, Go
  <1>1. ASSUME NEW W \in SUBSET Wsis, NEW F, LwsEnd(W, F), UNCHANGED <<pc, wsi, owner>>,
               \A w \in Wsis \ W : WSClientSet[w] # Null => conn'[w] = conn[w]
        PROVE  RegistrySound'
    <2>1. \A w \in Wsis : WSClientSet'[w] = IF w \in W THEN Null ELSE WSClientSet[w]
      BY <1>1 DEF LwsEnd
    <2> QED BY <1>1, <2>1 DEF RegistrySound
  <1>2. ASSUME UNCHANGED <<WSClientSet, wsi, owner>>,
               \A c \in Controls : pc[c] \in {"alive", "dtor"} => pc'[c] \in {"alive", "dtor"},
               \A w \in Wsis : conn[w] # "free" => conn'[w] # "free"
        PROVE  RegistrySound'
    BY <1>2 DEF RegistrySound, TypeOK
  <1>3. ASSUME NEW c \in Controls, Setwsurl(c) PROVE RegistrySound'
    <2>1. ASSUME NEW w \in Wsis, conn[w] = "free",
                 wsi' = [wsi EXCEPT ![c] = w],
                 conn' = [conn EXCEPT ![w] = "connecting"],
                 owner' = [owner EXCEPT ![w] = c],
                 WSClientSet' = [WSClientSet EXCEPT ![w] = IF @ = Null THEN c ELSE @]
          PROVE  RegistrySound'
      <3>1. WSClientSet[w] = Null /\ WSClientSet' = [WSClientSet EXCEPT ![w] = c]
        BY <2>1 DEF RegistrySound
      <3>2. pc[c] = "alive" /\ wsi[c] = Null /\ pc' = pc
        BY <1>3 DEF Setwsurl
      <3> SUFFICES ASSUME NEW v \in Wsis, WSClientSet'[v] # Null
                   PROVE  /\ pc'[WSClientSet'[v]] \in {"alive", "dtor"}
                          /\ wsi'[WSClientSet'[v]] = v
                          /\ conn'[v] # "free" /\ owner'[v] = WSClientSet'[v]
        BY DEF RegistrySound
      <3>3. CASE v = w
        BY <2>1, <3>1, <3>2, <3>3 DEF TypeOK
      <3>4. CASE v # w
        <4>1. WSClientSet'[v] = WSClientSet[v] /\ WSClientSet[v] \in Controls
          BY <3>1, <3>4 DEF TypeOK
        <4>2. WSClientSet[v] # c
          BY <3>2, <4>1 DEF RegistrySound
        <4> QED BY <2>1, <3>2, <3>4, <4>1, <4>2 DEF RegistrySound, TypeOK
      <3> QED BY <3>3, <3>4
    <2> QED BY <1>3, <2>1 DEF Setwsurl
  <1>4. ASSUME NEW c \in Controls, DtorBase(c) PROVE RegistrySound'
    <2>1. UNCHANGED <<wsi, conn, owner>> /\ \A d \in Controls \ {c} : pc'[d] = pc[d]
      BY <1>4 DEF DtorBase, TypeOK
    <2>2. \A w \in Wsis : WSClientSet'[w] # Null =>
             WSClientSet[w] \in Controls \ {c} /\ WSClientSet'[w] = WSClientSet[w]
      <3>1. \A w \in Wsis : WSClientSet'[w] # Null =>
               w # wsi[c] /\ WSClientSet'[w] = WSClientSet[w]
        BY <1>4 DEF DtorBase, TypeOK
      <3>2. \A w \in Wsis : WSClientSet[w] = c => wsi[c] = w
        BY DEF RegistrySound
      <3> QED BY <3>1, <3>2 DEF TypeOK
    <2> QED BY <2>1, <2>2 DEF RegistrySound
  <1>5. ASSUME NEW c \in Controls,
               \/ Create(c) \/ StartThread(c) \/ GetContextCrashes(c) \/ WaitContext(c)
               \/ MakeClient(c) \/ SetwsurlCrashes(c) \/ Send(c) \/ CloseMethod(c)
               \/ Fire(c) \/ DtorDerived(c) \/ UnInit(c) \/ Join(c)
        PROVE  RegistrySound'
    <2>1. UNCHANGED <<WSClientSet, wsi, owner, conn>>
      BY <1>5 DEF Create, StartThread, GetContextCrashes, WaitContext, MakeClient,
         SetwsurlCrashes, Send, CloseMethod, Fire, DtorDerived, UnInit, Join,
         clientVars, lwsVars
    <2>2. \A d \in Controls : pc[d] \in {"alive", "dtor"} => pc'[d] \in {"alive", "dtor"}
      BY <1>5 DEF Create, StartThread, GetContextCrashes, WaitContext, MakeClient,
         SetwsurlCrashes, Send, CloseMethod, Fire, DtorDerived, UnInit, Join, TypeOK
    <2> QED BY <1>2, <2>1, <2>2
  <1>6. ASSUME NEW w \in Wsis, ClosedClientHttp(w) \/ Closed(w) PROVE RegistrySound'
    <2>1. /\ LwsEnd({w}, {}) /\ UNCHANGED <<pc, wsi, owner>>
          /\ \A v \in Wsis \ {w} : conn'[v] = conn[v]
      BY <1>6 DEF ClosedClientHttp, Closed, LwsClose, Freed, CallbackFrame
    <2> QED BY <1>1, <2>1
  <1>7. ASSUME NEW w \in Wsis, ConnectionError(w) PROVE RegistrySound'
    <2>1. /\ UNCHANGED <<pc, wsi, owner>>
          /\ \A v \in Wsis : conn'[v] # "free" \/ conn'[v] = conn[v]
          /\ \A v \in Wsis : WSClientSet'[v] # Null => WSClientSet'[v] = WSClientSet[v]
      BY <1>7 DEF ConnectionError, CallbackFrame, TypeOK
    <2> QED BY <2>1 DEF RegistrySound
  <1>8. ASSUME NEW w \in Wsis, ClientEstablished(w) \/ ClientReceive(w) \/ ClientWriteable(w)
        PROVE  RegistrySound'
    <2>1. /\ UNCHANGED <<pc, WSClientSet, wsi, owner>>
          /\ \A v \in Wsis : conn[v] # "free" => conn'[v] # "free"
      BY <1>8 DEF ClientEstablished, ClientReceive, ClientWriteable, CallbackFrame,
                  lwsVars, TypeOK
    <2> QED BY <1>2, <2>1
  <1>9. CASE UnInitInstance
    <2> DEFINE W == {w \in Wsis : conn[w] # "free"}
               F == {w \in Wsis : conn[w] = "connecting"}
    <2>1. LwsEnd(W, F) /\ UNCHANGED <<pc, wsi, owner>>
      BY <1>9 DEF UnInitInstance, Freed
    <2>2. \A w \in Wsis \ W : WSClientSet[w] = Null
      BY DEF RegistrySound
    <2>3. W \in SUBSET Wsis
      OBVIOUS
    <2> HIDE DEF W, F
    <2> QED BY <1>1, <2>1, <2>2, <2>3
  <1>10. CASE ThreadNew \/ InitInstance \/ LeaveLoop \/ DeleteServer \/ UNCHANGED vars
    BY <1>2, <1>10 DEF ThreadNew, InitInstance, LeaveLoop, DeleteServer, vars,
                       clientVars, lwsVars
  <1> QED
    BY <1>3, <1>4, <1>5, <1>6, <1>7, <1>8, <1>9, <1>10, NextCases

\* A callback never reaches a deleted client, nor the client of an earlier
\* connection at the same address, in any interleaving of controls,
\* callbacks and destructors.
THEOREM RegistrySafe == Spec => []RegistrySound
  <1>1. Init => RegistrySound
    BY DEF Init, RegistrySound
  <1> QED BY <1>1, RegistryStep, PluginTypes, PTL DEF Spec

-----------------------------------------------------------------------------
(* Layer 4: the state OPEN.                                                *)

Unmade == {"none", "start", "wait", "make"}

\* Only a client that exists is changed.
LEMMA UnmadeStep ==
    ASSUME TypeOK, RegistrySound, UnmadeInv, [Next]_vars
    PROVE  UnmadeInv'
  <1> USE PluginAssumption DEF At, Go
  <1>1. ASSUME \A c \in Controls : pc'[c] \in Unmade =>
                  pc[c] \in Unmade /\ wsi'[c] = wsi[c] /\ m_state'[c] = m_state[c]
        PROVE  UnmadeInv'
    BY <1>1 DEF UnmadeInv, Unmade
  <1>2. ASSUME NEW c \in Controls,
               \/ Create(c) \/ StartThread(c) \/ GetContextCrashes(c) \/ WaitContext(c)
               \/ MakeClient(c) \/ SetwsurlCrashes(c) \/ Send(c) \/ Fire(c)
               \/ DtorDerived(c) \/ UnInit(c) \/ Join(c)
        PROVE  UnmadeInv'
    <2>1. UNCHANGED <<wsi, m_state>>
      BY <1>2 DEF Create, StartThread, GetContextCrashes, WaitContext, MakeClient,
         SetwsurlCrashes, Send, Fire, DtorDerived, UnInit, Join, clientVars
    <2>2. \A d \in Controls : pc'[d] \in Unmade => pc[d] \in Unmade
      BY <1>2 DEF Create, StartThread, GetContextCrashes, WaitContext, MakeClient,
         SetwsurlCrashes, Send, Fire, DtorDerived, UnInit, Join, TypeOK, Unmade
    <2> QED BY <1>1, <2>1, <2>2
  <1>3. ASSUME NEW c \in Controls, Setwsurl(c) \/ CloseMethod(c) \/ DtorBase(c)
        PROVE  UnmadeInv'
    <2>1. pc[c] \notin Unmade /\ pc'[c] \notin Unmade
      BY <1>3 DEF Setwsurl, CloseMethod, DtorBase, Unmade, TypeOK
    <2>2. \A d \in Controls \ {c} : pc'[d] = pc[d] /\ wsi'[d] = wsi[d]
      BY <1>3 DEF Setwsurl, CloseMethod, DtorBase, TypeOK
    <2>3. \A d \in Controls \ {c} : m_state'[d] = m_state[d]
      <3>1. CASE Setwsurl(c)
        BY <3>1 DEF Setwsurl, TypeOK
      <3>2. CASE AskClose(c)
        BY <3>2 DEF AskClose, TypeOK
      <3> QED BY <1>3, <3>1, <3>2 DEF CloseMethod, DtorBase
    <2> QED BY <1>1, <2>1, <2>2, <2>3
  <1>4. ASSUME NEW W \in SUBSET Wsis, UNCHANGED <<pc, wsi>>,
               \A c \in Controls :
                  m_state'[c] # m_state[c] => \E w \in W : WSClientSet[w] = c
        PROVE  UnmadeInv'
    <2>1. \A c \in Controls : pc[c] \in Unmade => m_state'[c] = m_state[c]
      BY <1>4 DEF RegistrySound, Unmade
    <2> QED BY <1>1, <1>4, <2>1
  <1>5. ASSUME NEW w \in Wsis, Callback(w) PROVE UnmadeInv'
    <2>1. UNCHANGED <<pc, wsi>>
      BY <1>5 DEF Callback, ConnectionError, ClosedClientHttp, ClientEstablished,
                  ClientReceive, ClientWriteable, Closed, CallbackFrame
    <2>2. \A c \in Controls : m_state'[c] # m_state[c] => WSClientSet[w] = c
      <3>1. CASE ConnectionError(w) \/ ClientEstablished(w)
        BY <3>1 DEF ConnectionError, ClientEstablished, TypeOK
      <3>2. CASE ClosedClientHttp(w) \/ Closed(w)
        BY <3>2 DEF ClosedClientHttp, Closed, LwsClose, LwsEnd
      <3>3. CASE ClientReceive(w) \/ ClientWriteable(w)
        BY <3>3 DEF ClientReceive, ClientWriteable
      <3> QED BY <1>5, <3>1, <3>2, <3>3 DEF Callback
    <2> QED BY <1>4, <2>1, <2>2
  <1>6. CASE UnInitInstance
    <2>1. UNCHANGED <<pc, wsi>>
      BY <1>6 DEF UnInitInstance
    <2>2. \A c \in Controls : m_state'[c] # m_state[c] => \E w \in Wsis : WSClientSet[w] = c
      BY <1>6 DEF UnInitInstance, LwsEnd
    <2> QED BY <1>4, <2>1, <2>2
  <1>7. CASE ThreadNew \/ InitInstance \/ LeaveLoop \/ DeleteServer \/ UNCHANGED vars
    BY <1>7, <1>1 DEF ThreadNew, InitInstance, LeaveLoop, DeleteServer, vars, clientVars
  <1> QED
    BY <1>2, <1>3, <1>5, <1>6, <1>7, NextCases DEF Callback

\* What OpenInv says of one client.
HasConnection(c) ==
    /\ wsi[c] \in Wsis
    /\ conn[wsi[c]] \in {"open", "closing"} /\ WSClientSet[wsi[c]] = c

Opened(c) == pc[c] \in {"alive", "dtor"} /\ m_state[c] \in {"OPEN", "CLOSING"}

\* No step but another client's destructor takes the connection of an open client away.
LEMMA OpenStep ==
    ASSUME TypeOK, RegistrySound, UnmadeInv, OpenInv, [Next]_vars
    PROVE  OpenInv'
  <1> USE PluginAssumption DEF At, Go
  <1>0. \A c \in Controls \ robbed : Opened(c) => HasConnection(c)
    BY DEF OpenInv, Opened, HasConnection
  <1> SUFFICES ASSUME NEW c \in Controls, c \notin robbed', Opened(c)'
               PROVE  HasConnection(c)'
    BY DEF OpenInv, Opened, HasConnection
  <1>1. ASSUME UNCHANGED <<wsi, conn, WSClientSet, robbed>>, Opened(c)
        PROVE  HasConnection(c)'
    BY <1>0, <1>1 DEF HasConnection
  <1>2. ASSUME NEW d \in Controls,
               \/ Create(d) \/ StartThread(d) \/ GetContextCrashes(d) \/ WaitContext(d)
               \/ MakeClient(d) \/ SetwsurlCrashes(d) \/ Send(d) \/ Fire(d)
               \/ DtorDerived(d) \/ UnInit(d) \/ Join(d)
        PROVE  HasConnection(c)'
    <2>1. UNCHANGED <<wsi, conn, WSClientSet, robbed, m_state>>
      BY <1>2 DEF Create, StartThread, GetContextCrashes, WaitContext, MakeClient,
         SetwsurlCrashes, Send, Fire, DtorDerived, UnInit, Join, clientVars, lwsVars,
         historyVars
    <2>2. pc[c] \in {"make", "alive", "dtor"}
      BY <1>2 DEF Create, StartThread, GetContextCrashes, WaitContext, MakeClient,
         SetwsurlCrashes, Send, Fire, DtorDerived, UnInit, Join, TypeOK, Opened
    <2>3. Opened(c)
      BY <2>1, <2>2 DEF Opened, UnmadeInv
    <2> QED BY <1>1, <2>1, <2>3
  <1>3. ASSUME NEW d \in Controls, CloseMethod(d) PROVE HasConnection(c)'
    <2>1. UNCHANGED <<pc, wsi, conn, WSClientSet, robbed>>
      BY <1>3 DEF CloseMethod, historyVars
    <2>2. m_state'[c] \in {"OPEN", "CLOSING"} => m_state[c] \in {"OPEN", "CLOSING"}
      BY <1>3 DEF CloseMethod, AskClose, TypeOK
    <2> QED BY <1>1, <2>1, <2>2 DEF Opened
  <1>4. ASSUME NEW d \in Controls, DtorBase(d) PROVE HasConnection(c)'
    <2>1. UNCHANGED <<wsi, conn>>
      BY <1>4 DEF DtorBase
    <2>2. c # d /\ pc'[c] = pc[c]
      BY <1>4 DEF DtorBase, Opened, TypeOK
    <2>3. m_state'[c] = m_state[c]
      BY <1>4, <2>2 DEF DtorBase, AskClose, TypeOK
    <2>4. c \notin robbed
      BY <1>4 DEF DtorBase
    <2>5. HasConnection(c)
      BY <1>0, <2>2, <2>3, <2>4 DEF Opened
    <2>6. wsi[d] # wsi[c]
      BY <1>4, <2>2, <2>5 DEF DtorBase, HasConnection
    <2>7. WSClientSet'[wsi[c]] = WSClientSet[wsi[c]]
      BY <1>4, <2>5, <2>6 DEF DtorBase, HasConnection, TypeOK
    <2> QED BY <2>1, <2>5, <2>7 DEF HasConnection
  <1>5. ASSUME NEW d \in Controls, Setwsurl(d) PROVE HasConnection(c)'
    <2>1. c # d /\ pc'[c] = pc[c] /\ m_state'[c] = m_state[c] /\ robbed' = robbed
      BY <1>5 DEF Setwsurl, Opened, TypeOK, historyVars
    <2>2. HasConnection(c)
      BY <1>0, <2>1 DEF Opened
    <2>3. wsi'[c] = wsi[c]
      BY <1>5, <2>1 DEF Setwsurl, TypeOK
    <2>4. conn'[wsi[c]] = conn[wsi[c]] /\ WSClientSet'[wsi[c]] = WSClientSet[wsi[c]]
      BY <1>5, <2>2 DEF Setwsurl, HasConnection, TypeOK, lwsVars
    <2> QED BY <2>2, <2>3, <2>4 DEF HasConnection
  <1>6. ASSUME NEW W \in SUBSET Wsis, NEW F, LwsEnd(W, F), UNCHANGED <<pc, wsi, robbed>>,
               \A w \in Wsis \ W : conn[w] # "free" => conn'[w] = conn[w]
        PROVE  HasConnection(c)'
    <2>1. \A w \in W : WSClientSet[w] # c
      BY <1>6 DEF LwsEnd, Opened
    <2>2. m_state'[c] = m_state[c]
      BY <1>6, <2>1 DEF LwsEnd
    <2>3. HasConnection(c)
      BY <1>0, <1>6, <2>2 DEF Opened
    <2>4. wsi[c] \in Wsis \ W
      BY <2>1, <2>3 DEF HasConnection
    <2>5. WSClientSet'[wsi[c]] = WSClientSet[wsi[c]]
      BY <1>6, <2>4 DEF LwsEnd
    <2> QED BY <1>6, <2>3, <2>4, <2>5 DEF HasConnection
  <1>7. ASSUME NEW w \in Wsis, ClosedClientHttp(w) \/ Closed(w) PROVE HasConnection(c)'
    <2>1. /\ LwsEnd({w}, {}) /\ UNCHANGED <<pc, wsi, robbed>>
          /\ \A v \in Wsis \ {w} : conn'[v] = conn[v]
      BY <1>7 DEF ClosedClientHttp, Closed, LwsClose, Freed, CallbackFrame, historyVars
    <2> QED BY <1>6, <2>1
  <1>8. CASE UnInitInstance
    <2> DEFINE W == {w \in Wsis : conn[w] # "free"}
               F == {w \in Wsis : conn[w] = "connecting"}
    <2>1. LwsEnd(W, F) /\ UNCHANGED <<pc, wsi, robbed>>
      BY <1>8 DEF UnInitInstance, historyVars
    <2>2. \A w \in Wsis \ W : conn[w] = "free"
      OBVIOUS
    <2>3. W \in SUBSET Wsis
      OBVIOUS
    <2> HIDE DEF W, F
    <2> QED BY <1>6, <2>1, <2>2, <2>3
  <1>9. ASSUME NEW w \in Wsis, ConnectionError(w) \/ ClientEstablished(w)
        PROVE  HasConnection(c)'
    <2>0. UNCHANGED <<pc, wsi, robbed>> /\ conn[w] = "connecting"
      BY <1>9 DEF ConnectionError, ClientEstablished, CallbackFrame, historyVars
    <2>1. CASE WSClientSet[w] # c
      <3>1. m_state'[c] = m_state[c]
        BY <1>9, <2>1 DEF ConnectionError, ClientEstablished, TypeOK
      <3>2. HasConnection(c)
        BY <1>0, <2>0, <3>1 DEF Opened
      <3>3. wsi[c] \in Wsis /\ wsi[c] # w
        BY <2>1, <3>2 DEF HasConnection
      <3>4. conn'[wsi[c]] = conn[wsi[c]] /\ WSClientSet'[wsi[c]] = WSClientSet[wsi[c]]
        BY <1>9, <3>3 DEF ConnectionError, ClientEstablished, TypeOK
      <3> QED BY <2>0, <3>2, <3>4 DEF HasConnection
    <2>2. CASE WSClientSet[w] = c
      <3>1. wsi[c] = w
        BY <2>2 DEF RegistrySound
      <3>2. ClientEstablished(w)
        BY <1>9, <2>2 DEF ConnectionError, Opened, TypeOK
      <3>3. conn'[w] = "open" /\ WSClientSet' = WSClientSet
        BY <3>2 DEF ClientEstablished, TypeOK
      <3> QED BY <2>0, <2>2, <3>1, <3>3 DEF HasConnection
    <2> QED BY <2>1, <2>2
  <1>10. ASSUME NEW w \in Wsis, ClientReceive(w) \/ ClientWriteable(w)
         PROVE  HasConnection(c)'
    <2>1. UNCHANGED <<pc, wsi, robbed, m_state, WSClientSet>>
      BY <1>10 DEF ClientReceive, ClientWriteable, CallbackFrame, historyVars, lwsVars
    <2>2. \A v \in Wsis : conn[v] \in {"open", "closing"} => conn'[v] \in {"open", "closing"}
      BY <1>10 DEF ClientReceive, ClientWriteable, lwsVars, TypeOK
    <2>3. HasConnection(c)
      BY <1>0, <2>1 DEF Opened
    <2> QED BY <2>1, <2>2, <2>3 DEF HasConnection
  <1>11. CASE ThreadNew \/ InitInstance \/ LeaveLoop \/ DeleteServer \/ UNCHANGED vars
    <2>1. UNCHANGED <<pc, wsi, conn, WSClientSet, robbed, m_state>>
      BY <1>11 DEF ThreadNew, InitInstance, LeaveLoop, DeleteServer, vars, clientVars,
                   lwsVars, historyVars
    <2> QED BY <1>1, <2>1 DEF Opened
  <1> QED
    BY <1>2, <1>3, <1>4, <1>5, <1>7, <1>8, <1>9, <1>10, <1>11, NextCases

\* A client whose m_readyState is OPEN has its own open connection and gets
\* its callbacks, unless another client's destructor erased its entry: that
\* is the only way to lose it.
THEOREM OpenIsOpenUnlessRobbed == Spec => []OpenUnlessRobbed
  <1>1. Init => UnmadeInv /\ OpenInv
    BY DEF Init, UnmadeInv, OpenInv
  <1>2. OpenInv /\ RegistrySound /\ TypeOK => OpenUnlessRobbed
    BY PluginAssumption DEF OpenInv, RegistrySound, OpenUnlessRobbed, TypeOK
  <1> QED
    BY <1>1, <1>2, UnmadeStep, OpenStep, RegistrySafe, PluginTypes, PTL DEF Spec

\* No step leaves a message queued without a callback asked for.
LEMMA WakeStep ==
    ASSUME TypeOK, RegistrySound, UnmadeInv, OpenInv, SendWakeKept, [Next]_vars
    PROVE  SendWakeKept'
  <1> USE PluginAssumption DEF At, Go
  <1> DEFINE Waiting(c) == /\ pc[c] = "alive" /\ m_state[c] = "OPEN"
                           /\ conn[wsi[c]] = "open" /\ unsent[c] > 0
  <1> SUFFICES ASSUME NEW c \in Controls, c \notin robbed', Waiting(c)'
               PROVE  wsi'[c] \in wake'
    BY DEF SendWakeKept
  <1>0. /\ c \notin robbed /\ Waiting(c) => wsi[c] \in wake
        /\ c \notin robbed /\ pc[c] = "alive" /\ m_state[c] = "OPEN" => HasConnection(c)
    BY DEF SendWakeKept, OpenInv, HasConnection
  <1>1. ASSUME pc'[c] = pc[c], m_state'[c] = m_state[c], UNCHANGED <<wsi, robbed>>,
               conn'[wsi[c]] = "open" => conn[wsi[c]] = "open",
               unsent'[c] = unsent[c],
               wsi[c] \in wake /\ conn'[wsi[c]] = "open" => wsi[c] \in wake'
        PROVE  wsi'[c] \in wake'
    BY <1>0, <1>1
  <1>2. ASSUME NEW d \in Controls,
               \/ Create(d) \/ StartThread(d) \/ GetContextCrashes(d) \/ WaitContext(d)
               \/ MakeClient(d) \/ SetwsurlCrashes(d) \/ Fire(d)
               \/ DtorDerived(d) \/ UnInit(d) \/ Join(d)
        PROVE  wsi'[c] \in wake'
    <2>1. UNCHANGED <<wsi, conn, robbed, m_state, unsent, wake>>
      BY <1>2 DEF Create, StartThread, GetContextCrashes, WaitContext, MakeClient,
         SetwsurlCrashes, Fire, DtorDerived, UnInit, Join, clientVars, lwsVars,
         historyVars
    <2>2. pc[c] \in {"make", "alive"}
      BY <1>2 DEF Create, StartThread, GetContextCrashes, WaitContext, MakeClient,
         SetwsurlCrashes, Fire, DtorDerived, UnInit, Join, TypeOK
    <2>3. pc[c] = "alive"
      BY <2>1, <2>2 DEF UnmadeInv
    <2> QED BY <1>0, <2>1, <2>3
  <1>3. ASSUME NEW d \in Controls, Send(d) PROVE wsi'[c] \in wake'
    <2>1. UNCHANGED <<pc, wsi, conn, robbed, m_state, WSClientSet>> /\ wake \subseteq wake'
      BY <1>3 DEF Send, historyVars
    <2>2. CASE d = c
      <3>1. HasConnection(c)
        BY <1>0, <2>1
      <3> QED BY <1>3, <2>1, <2>2, <3>1 DEF Send, HasConnection
    <2>3. CASE d # c
      <3>1. unsent'[c] = unsent[c]
        BY <1>3, <2>3 DEF Send, TypeOK
      <3> QED BY <1>1, <2>1, <3>1
    <2> QED BY <2>2, <2>3
  <1>4. ASSUME NEW d \in Controls, CloseMethod(d) PROVE wsi'[c] \in wake'
    BY <1>1, <1>4 DEF CloseMethod, AskClose, TypeOK, historyVars
  <1>5. ASSUME NEW d \in Controls, DtorBase(d) PROVE wsi'[c] \in wake'
    <2>1. c # d /\ pc'[c] = pc[c] /\ UNCHANGED <<wsi, conn>>
      BY <1>5 DEF DtorBase, TypeOK
    <2>2. m_state'[c] = m_state[c] /\ unsent'[c] = unsent[c] /\ wake \subseteq wake'
      BY <1>5, <2>1 DEF DtorBase, AskClose, TypeOK
    <2>3. c \notin robbed
      BY <1>5 DEF DtorBase
    <2> QED BY <1>0, <2>1, <2>2, <2>3
  <1>6. ASSUME NEW d \in Controls, Setwsurl(d) PROVE wsi'[c] \in wake'
    <2>1. c # d /\ UNCHANGED <<pc, unsent, wake, robbed>> /\ m_state'[c] = m_state[c]
      BY <1>6 DEF Setwsurl, TypeOK, historyVars
    <2>2. HasConnection(c)
      BY <1>0, <2>1
    <2>3. wsi'[c] = wsi[c] /\ conn'[wsi[c]] = conn[wsi[c]]
      BY <1>6, <2>1, <2>2 DEF Setwsurl, HasConnection, TypeOK
    <2> QED BY <1>0, <2>1, <2>3
  <1>7. ASSUME NEW W \in SUBSET Wsis, NEW F, LwsEnd(W, F), Freed(W),
               UNCHANGED <<pc, wsi, unsent, robbed>>
        PROVE  wsi'[c] \in wake'
    <2>1. m_state'[c] = m_state[c]
      BY <1>7 DEF LwsEnd
    <2>2. HasConnection(c)
      BY <1>0, <1>7, <2>1
    <2>3. wsi[c] \notin W
      BY <1>7, <2>2 DEF HasConnection, Freed
    <2> QED BY <1>1, <1>7, <2>1, <2>2, <2>3 DEF Freed, HasConnection
  <1>8. ASSUME NEW w \in Wsis, ClosedClientHttp(w) \/ Closed(w) PROVE wsi'[c] \in wake'
    BY <1>7, <1>8 DEF ClosedClientHttp, Closed, LwsClose, CallbackFrame, historyVars
  <1>9. CASE UnInitInstance
    <2>1. conn'[wsi[c]] = "free" \/ wsi[c] \notin Wsis
      BY <1>9 DEF UnInitInstance, Freed
    <2>2. HasConnection(c)
      <3>1. m_state'[c] = m_state[c]
        BY <1>9 DEF UnInitInstance, LwsEnd
      <3> QED BY <1>0, <1>9, <3>1 DEF UnInitInstance, historyVars
    <2> QED BY <1>9, <2>1, <2>2 DEF UnInitInstance, HasConnection
  <1>10. ASSUME NEW w \in Wsis, ConnectionError(w) \/ ClientEstablished(w)
         PROVE  wsi'[c] \in wake'
    <2>0. /\ UNCHANGED <<pc, wsi, robbed, unsent>> /\ conn[w] = "connecting"
          /\ wake \subseteq wake'
      BY <1>10 DEF ConnectionError, ClientEstablished, CallbackFrame, historyVars
    <2>1. CASE WSClientSet[w] # c
      <3>1. m_state'[c] = m_state[c]
        BY <1>10, <2>1 DEF ConnectionError, ClientEstablished, TypeOK
      <3>2. HasConnection(c)
        BY <1>0, <2>0, <3>1
      <3>3. conn'[wsi[c]] = conn[wsi[c]]
        BY <1>10, <2>0, <3>2 DEF ConnectionError, ClientEstablished, HasConnection, TypeOK
      <3> QED BY <1>1, <2>0, <3>1, <3>3
    <2>2. CASE WSClientSet[w] = c
      <3>1. wsi[c] = w
        BY <2>2 DEF RegistrySound
      <3>2. ClientEstablished(w)
        BY <1>10, <2>2 DEF ConnectionError, TypeOK
      <3> QED BY <2>0, <2>2, <3>1, <3>2 DEF ClientEstablished
    <2> QED BY <2>1, <2>2
  <1>11. ASSUME NEW w \in Wsis, ClientReceive(w) PROVE wsi'[c] \in wake'
    BY <1>1, <1>11 DEF ClientReceive, CallbackFrame, lwsVars, historyVars
  <1>12. ASSUME NEW w \in Wsis, ClientWriteable(w) PROVE wsi'[c] \in wake'
    <2>0. UNCHANGED <<pc, wsi, robbed, m_state, WSClientSet>>
      BY <1>12 DEF ClientWriteable, CallbackFrame, historyVars
    <2>1. HasConnection(c)
      BY <1>0, <2>0
    <2>2. CASE wsi[c] = w
      <3>1. WSClientSet[w] = c /\ conn'[w] # "closing" /\ w \in wake
        BY <1>12, <2>0, <2>1, <2>2 DEF HasConnection, ClientWriteable
      <3>2. unsent' = [unsent EXCEPT ![c] = IF @ > 0 THEN @ - 1 ELSE 0]
            /\ wake' = IF unsent[c] > 1 THEN wake ELSE wake \ {w}
        BY <1>12, <3>1 DEF ClientWriteable, TypeOK
      <3>3. unsent[c] \in Nat /\ unsent'[c] = IF unsent[c] > 0 THEN unsent[c] - 1 ELSE 0
        BY <3>2 DEF TypeOK
      <3> QED BY <2>0, <2>2, <3>1, <3>2, <3>3
    <2>3. CASE wsi[c] # w
      <3>1. WSClientSet[w] # c
        BY <2>3 DEF RegistrySound
      <3>2. unsent'[c] = unsent[c] /\ conn'[wsi[c]] = conn[wsi[c]]
        BY <1>12, <2>1, <2>3, <3>1 DEF ClientWriteable, HasConnection, TypeOK
      <3>3. wsi[c] \in wake => wsi[c] \in wake'
        BY <1>12, <2>3 DEF ClientWriteable
      <3> QED BY <1>1, <2>0, <3>2, <3>3
    <2> QED BY <2>2, <2>3
  <1>13. CASE ThreadNew \/ InitInstance \/ LeaveLoop \/ DeleteServer \/ UNCHANGED vars
    BY <1>1, <1>13 DEF ThreadNew, InitInstance, LeaveLoop, DeleteServer, vars, clientVars,
                       lwsVars, historyVars
  <1> QED
    BY <1>2, <1>3, <1>4, <1>5, <1>6, <1>8, <1>9, <1>10, <1>11, <1>12, <1>13, NextCases

\* A queued message of an open connection always has a callback coming, however
\* many are queued and however scripts, callbacks and destructors interleave,
\* unless another client's destructor erased the entry.
THEOREM SendsAreWoken == Spec => []SendWakeKept
  <1>1. Init => UnmadeInv /\ OpenInv /\ SendWakeKept
    BY DEF Init, UnmadeInv, OpenInv, SendWakeKept
  <1> QED
    BY <1>1, UnmadeStep, OpenStep, WakeStep, RegistrySafe, PluginTypes, PTL DEF Spec

-----------------------------------------------------------------------------
(* Layer 5: the order of the events.                                       *)

\* The events s of a window's queue may follow x and one another.
Ordered(x, s) == \A i \in 1..Len(s) : s[i] \in Follows[IF i = 1 THEN x ELSE s[i - 1]]

\* The last event of which the page is or will be told.
Newest(x, s) == IF s = <<>> THEN x ELSE s[Len(s)]

\* What a page may have been told, last, of a connection in state k.
ToldOf(k, x) ==
    /\ k # "failing"
    /\ (k = "connecting") => x = "none"
    /\ (k \in {"open", "closing"}) => x \in {"open", "message"}

\* Each queue is in order; there is none without a connection or a window.
QueueInv ==
    \A c \in Controls :
        /\ Ordered(seen[c], posted[c])
        /\ wsi[c] = Null => seen[c] = "none" /\ posted[c] = <<>>
        /\ pc[c] # "alive" => posted[c] = <<>>

\* What the page of a registered client was told fits its connection.  The
\* events a callback may still post follow from the state of the connection,
\* never from the queue, so this is what makes QueueInv inductive.
ToldInv ==
    \A w \in Wsis : WSClientSet[w] # Null /\ pc[WSClientSet[w]] = "alive" =>
        ToldOf(conn[w], Newest(seen[WSClientSet[w]], posted[WSClientSet[w]]))

SeenEvents == WindowEvents \cup {"none"}

\* The queue of a control that has none.
LEMMA OrderedEmpty ==
    ASSUME NEW x
    PROVE  Ordered(x, <<>>) /\ Newest(x, <<>>) = x
  BY DEF Ordered, Newest

\* Posting an event that may follow the newest one.
LEMMA OrderedAppend ==
    ASSUME NEW x \in SeenEvents, NEW s \in Seq(WindowEvents), NEW e \in WindowEvents,
           Ordered(x, s), e \in Follows[Newest(x, s)]
    PROVE  /\ Ordered(x, s \o <<e>>) /\ Newest(x, s \o <<e>>) = e
           /\ s \o <<e>> \in Seq(WindowEvents)
  <1> DEFINE t == s \o <<e>>
  <1>1. /\ t \in Seq(WindowEvents) /\ Len(t) = Len(s) + 1 /\ Len(s) \in Nat
        /\ t[Len(s) + 1] = e /\ t # <<>>
    OBVIOUS
  <1>2. \A i \in 1..Len(s) : t[i] = s[i]
    OBVIOUS
  <1>3. Newest(x, t) = e
    BY <1>1 DEF Newest
  <1>4. ASSUME NEW i \in 1..Len(t)
        PROVE  t[i] \in Follows[IF i = 1 THEN x ELSE t[i - 1]]
    <2>1. CASE i \in 1..Len(s)
      <3>1. s[i] \in Follows[IF i = 1 THEN x ELSE s[i - 1]]
        BY <2>1 DEF Ordered
      <3>2. i # 1 => i - 1 \in 1..Len(s)
        BY <2>1, <1>1
      <3> QED BY <1>2, <2>1, <3>1, <3>2
    <2>2. CASE i = Len(s) + 1
      <3>1. CASE Len(s) = 0
        BY <1>1, <2>2, <3>1 DEF Newest
      <3>2. CASE Len(s) # 0
        <4>1. Newest(x, s) = s[Len(s)]
          BY <3>2 DEF Newest
        <4>2. i # 1 /\ i - 1 = Len(s) /\ t[i - 1] = s[Len(s)]
          BY <1>1, <1>2, <2>2, <3>2
        <4> QED BY <1>1, <2>2, <4>1, <4>2
      <3> QED BY <3>1, <3>2
    <2> QED BY <1>1, <2>1, <2>2
  <1>5. Ordered(x, t)
    BY <1>4 DEF Ordered
  <1> QED BY <1>1, <1>3, <1>5

\* The queue without events is the empty one.
LEMMA EmptyByLength ==
    ASSUME NEW t \in Seq(WindowEvents)
    PROVE  (t = <<>>) <=> (Len(t) = 0)
  OBVIOUS

\* The window procedure takes the first event.
LEMMA OrderedTail ==
    ASSUME NEW x \in SeenEvents, NEW s \in Seq(WindowEvents), s # <<>>, Ordered(x, s)
    PROVE  /\ Ordered(Head(s), Tail(s))
           /\ Newest(Head(s), Tail(s)) = Newest(x, s)
  <1>1. /\ Tail(s) \in Seq(WindowEvents) /\ Len(Tail(s)) = Len(s) - 1
        /\ Len(s) \in Nat /\ Len(s) > 0 /\ Head(s) = s[1]
    OBVIOUS
  <1>2. \A i \in 1..Len(Tail(s)) : Tail(s)[i] = s[i + 1]
    OBVIOUS
  <1>3. ASSUME NEW i \in 1..Len(Tail(s))
        PROVE  Tail(s)[i] \in Follows[IF i = 1 THEN Head(s) ELSE Tail(s)[i - 1]]
    <2>1. i + 1 \in 1..Len(s) /\ i + 1 # 1 /\ (i + 1) - 1 = i
      BY <1>1
    <2>2. s[i + 1] \in Follows[s[i]]
      BY <2>1 DEF Ordered
    <2>3. s[i] = IF i = 1 THEN Head(s) ELSE Tail(s)[i - 1]
      <3>1. CASE i = 1
        BY <1>1, <3>1
      <3>2. CASE i # 1
        <4>1. i - 1 \in 1..Len(Tail(s)) /\ (i - 1) + 1 = i
          BY <1>1, <3>2
        <4> QED BY <1>2, <3>2, <4>1
      <3> QED BY <3>1, <3>2
    <2> QED BY <1>2, <2>2, <2>3
  <1>4. Newest(Head(s), Tail(s)) = Newest(x, s)
    <2>1. CASE Len(s) = 1
      <3>1. Len(Tail(s)) = 0
        BY <1>1, <2>1
      <3>2. Tail(s) = <<>>
        BY <1>1, <3>1, EmptyByLength, Zenon
      <3> QED BY <1>1, <2>1, <3>2 DEF Newest
    <2>2. CASE Len(s) # 1
      <3>1. Len(Tail(s)) \in 1..Len(Tail(s)) /\ Len(Tail(s)) # 0
        BY <1>1, <2>2
      <3>2. Tail(s) # <<>>
        BY <1>1, <3>1, EmptyByLength, Zenon
      <3>3. Tail(s)[Len(Tail(s))] = s[Len(s)]
        BY <1>1, <1>2, <3>1
      <3> QED BY <3>2, <3>3 DEF Newest
    <2> QED BY <2>1, <2>2
  <1> QED BY <1>3, <1>4 DEF Ordered

\* What Ordered says of the queue behind the event that was seen last.
LEMMA OrderedQueue ==
    ASSUME NEW x \in SeenEvents, NEW q \in Seq(WindowEvents), Ordered(x, q)
    PROVE  LET s == <<x>> \o q IN
           \A i \in 1..(Len(s) - 1) : s[i + 1] \in Follows[s[i]]
  <1> DEFINE s == <<x>> \o q
  <1>0. <<x>> \in Seq(SeenEvents) /\ q \in Seq(SeenEvents)
    BY DEF SeenEvents
  <1>1. Len(s) = Len(q) + 1 /\ Len(q) \in Nat /\ s[1] = x
    BY <1>0
  <1>2. \A i \in 1..Len(q) : s[i + 1] = q[i]
    BY <1>0
  <1>3. ASSUME NEW i \in 1..Len(q) PROVE s[i + 1] \in Follows[s[i]]
    <2>1. q[i] \in Follows[IF i = 1 THEN x ELSE q[i - 1]]
      BY DEF Ordered
    <2>2. i # 1 => s[i] = q[i - 1]
      <3>1. i # 1 => i - 1 \in 1..Len(q) /\ (i - 1) + 1 = i
        BY <1>1
      <3> QED BY <1>2, <3>1
    <2> QED BY <1>1, <1>2, <2>1, <2>2
  <1> QED BY <1>1, <1>3

\* The newest event of a client whose callbacks can still come, and what may
\* follow it.
LEMMA NewestFacts ==
    ASSUME TypeOK, RegistrySound, ToldInv, NEW w \in Wsis,
           WSClientSet[w] # Null, pc[WSClientSet[w]] = "alive"
    PROVE  LET c == WSClientSet[w]
               x == Newest(seen[c], posted[c])
           IN  /\ conn[w] \in {"connecting", "open", "closing"}
               /\ conn[w] = "connecting" => {"open", "error", "close"} \subseteq Follows[x]
               /\ conn[w] \in {"open", "closing"} => {"message", "close"} \subseteq Follows[x]
  <1> DEFINE c == WSClientSet[w]
             x == Newest(seen[c], posted[c])
  <1>1. ToldOf(conn[w], x) /\ conn[w] # "free"
    BY DEF ToldInv, RegistrySound
  <1>2. conn[w] \in {"free", "connecting", "failing", "open", "closing"}
    BY DEF TypeOK
  <1>3. /\ Follows["none"] = {"open", "error", "close"}
        /\ Follows["open"] = {"message", "close"} /\ Follows["message"] = {"message", "close"}
    BY DEF Follows
  <1> HIDE DEF x
  <1>4. /\ conn[w] \in {"connecting", "open", "closing"}
        /\ conn[w] = "connecting" => x = "none"
        /\ conn[w] \in {"open", "closing"} => x \in {"open", "message"}
    BY <1>1, <1>2 DEF ToldOf
  <1>5. /\ conn[w] = "connecting" => {"open", "error", "close"} \subseteq Follows[x]
        /\ conn[w] \in {"open", "closing"} => {"message", "close"} \subseteq Follows[x]
    BY <1>3, <1>4
  <1> QED BY <1>4, <1>5 DEF x

\* The queue after a post, which changes nothing when the client is in its
\* destructor.
LEMMA PostFacts ==
    ASSUME TypeOK, QueueInv, NEW c \in Controls, NEW e \in WindowEvents,
           pc[c] = "alive" => e \in Follows[Newest(seen[c], posted[c])]
    PROVE  /\ \A d \in Controls \ {c} : Post(c, <<e>>)[d] = posted[d]
           /\ pc[c] # "alive" => Post(c, <<e>>)[c] = posted[c]
           /\ pc[c] = "alive" => /\ Ordered(seen[c], Post(c, <<e>>)[c])
                                 /\ Newest(seen[c], Post(c, <<e>>)[c]) = e
  <1>1. /\ posted \in [Controls -> Seq(WindowEvents)] /\ seen[c] \in SeenEvents
        /\ posted[c] \in Seq(WindowEvents)
    BY DEF TypeOK, SeenEvents
  <1>2. CASE pc[c] # "alive"
    BY <1>2 DEF Post
  <1>3. CASE pc[c] = "alive"
    <2>1. Post(c, <<e>>) = [posted EXCEPT ![c] = posted[c] \o <<e>>]
      BY <1>3 DEF Post
    <2>2. /\ Post(c, <<e>>)[c] = posted[c] \o <<e>>
          /\ \A d \in Controls \ {c} : Post(c, <<e>>)[d] = posted[d]
      BY <1>1, <2>1
    <2>3. Ordered(seen[c], posted[c])
      BY DEF QueueInv
    <2>4. /\ Ordered(seen[c], posted[c] \o <<e>>)
          /\ Newest(seen[c], posted[c] \o <<e>>) = e
      BY <1>1, <1>3, <2>3, OrderedAppend
    <2> QED BY <1>3, <2>2, <2>4
  <1> QED BY <1>2, <1>3

\* OnError and OnClose, together.
LEMMA PostErrorFacts ==
    ASSUME TypeOK, QueueInv, NEW c \in Controls,
           pc[c] = "alive" => "error" \in Follows[Newest(seen[c], posted[c])]
    PROVE  /\ \A d \in Controls \ {c} : Post(c, <<"error", "close">>)[d] = posted[d]
           /\ pc[c] # "alive" => Post(c, <<"error", "close">>)[c] = posted[c]
           /\ pc[c] = "alive" => Ordered(seen[c], Post(c, <<"error", "close">>)[c])
  <1>1. /\ posted \in [Controls -> Seq(WindowEvents)] /\ seen[c] \in SeenEvents
        /\ posted[c] \in Seq(WindowEvents)
    BY DEF TypeOK, SeenEvents
  <1>2. CASE pc[c] # "alive"
    BY <1>2 DEF Post
  <1>3. CASE pc[c] = "alive"
    <2> DEFINE s == posted[c] \o <<"error">>
    <2>1. Post(c, <<"error", "close">>)
             = [posted EXCEPT ![c] = posted[c] \o <<"error", "close">>]
      BY <1>3 DEF Post
    <2>2. /\ Post(c, <<"error", "close">>)[c] = posted[c] \o <<"error", "close">>
          /\ \A d \in Controls \ {c} : Post(c, <<"error", "close">>)[d] = posted[d]
      BY <1>1, <2>1
    <2>3. Ordered(seen[c], posted[c])
      BY DEF QueueInv
    <2>4. "error" \in WindowEvents /\ "close" \in WindowEvents
      BY DEF WindowEvents
    <2>5. /\ Ordered(seen[c], s) /\ Newest(seen[c], s) = "error"
          /\ s \in Seq(WindowEvents)
      BY <1>1, <1>3, <2>3, <2>4, OrderedAppend
    <2>6. "close" \in Follows["error"]
      BY DEF Follows
    <2>7. posted[c] \o <<"error", "close">> = s \o <<"close">>
      <3>1. /\ <<"error">> \in Seq(WindowEvents) /\ <<"close">> \in Seq(WindowEvents)
            /\ <<"error", "close">> \in Seq(WindowEvents)
        BY <2>4
      <3> DEFINE u == <<"error">> \o <<"close">>
                 v == <<"error", "close">>
      <3>2. u \in Seq(WindowEvents) /\ Len(u) = 2 /\ u[1] = "error" /\ u[2] = "close"
        BY <3>1
      <3>3. Len(v) = 2 /\ v[1] = "error" /\ v[2] = "close"
        OBVIOUS
      <3> HIDE DEF u, v
      <3>4. u = v
        BY <3>1, <3>2, <3>3, SeqEqual DEF v
      <3> QED BY <1>1, <3>1, <3>4, ConcatAssociative DEF u, v
    <2> HIDE DEF s
    <2>8. Ordered(seen[c], s \o <<"close">>)
      BY <1>1, <2>4, <2>5, <2>6, OrderedAppend
    <2> QED BY <1>3, <2>2, <2>7, <2>8
  <1> QED BY <1>2, <1>3

\* A step that posts to registered clients only, in order.
LEMMA PostingStep ==
    ASSUME TypeOK, RegistrySound, QueueInv, UNCHANGED <<pc, wsi, seen>>,
           \A d \in Controls : posted'[d] # posted[d] =>
              /\ \E w \in Wsis : WSClientSet[w] = d
              /\ pc[d] = "alive" /\ Ordered(seen[d], posted'[d])
    PROVE  QueueInv'
  <1> SUFFICES ASSUME NEW d \in Controls
               PROVE  /\ Ordered(seen[d], posted'[d])
                      /\ wsi[d] = Null => seen[d] = "none" /\ posted'[d] = <<>>
                      /\ pc[d] # "alive" => posted'[d] = <<>>
    BY DEF QueueInv
  <1>1. CASE posted'[d] = posted[d]
    BY <1>1 DEF QueueInv
  <1>2. CASE posted'[d] # posted[d]
    <2>1. PICK w \in Wsis : WSClientSet[w] = d
      BY <1>2
    <2>2. wsi[d] = w /\ d # Null /\ w # Null
      BY <2>1, PluginAssumption DEF RegistrySound
    <2> QED BY <1>2, <2>2
  <1> QED BY <1>1, <1>2

\* Two entries are of two clients.
LEMMA EntriesDiffer ==
    ASSUME TypeOK, RegistrySound, NEW v \in Wsis, NEW w \in Wsis, v # w,
           WSClientSet[v] # Null
    PROVE  WSClientSet[v] # WSClientSet[w] /\ WSClientSet[v] \in Controls
  BY DEF RegistrySound, TypeOK

\* The end of connections is told to their pages, and to no other.
LEMMA LwsEndEvents ==
    ASSUME TypeOK, RegistrySound, QueueInv, ToldInv,
           NEW W \in SUBSET Wsis, NEW F \in SUBSET W, LwsEnd(W, F),
           \A w \in F : conn[w] = "connecting",
           UNCHANGED <<pc, wsi, seen>>,
           \A w \in Wsis \ W : conn[w] # "free" => conn'[w] = conn[w]
    PROVE  QueueInv' /\ ToldInv'
  <1> DEFINE clients == {WSClientSet[w] : w \in W} \ {Null}
             failed  == {WSClientSet[w] : w \in F} \ {Null}
  <1>1. \A d \in Controls : posted'[d] # posted[d] =>
           /\ d \in clients
           /\ \/ posted'[d] = Post(d, <<"close">>)[d]
              \/ d \in failed /\ posted'[d] = Post(d, <<"error", "close">>)[d]
    BY DEF LwsEnd
  <1>2. ASSUME NEW d \in Controls, posted'[d] # posted[d]
        PROVE  /\ \E w \in Wsis : WSClientSet[w] = d
               /\ pc[d] = "alive" /\ Ordered(seen[d], posted'[d])
    <2>1. PICK w \in W : WSClientSet[w] = d /\ d # Null
      BY <1>1, <1>2
    <2>2. "close" \in WindowEvents
      BY DEF WindowEvents
    <2>3. pc[d] = "alive" => "close" \in Follows[Newest(seen[d], posted[d])]
      BY <2>1, NewestFacts
    <2>4. /\ pc[d] # "alive" => Post(d, <<"close">>)[d] = posted[d]
          /\ pc[d] = "alive" => Ordered(seen[d], Post(d, <<"close">>)[d])
      BY <2>2, <2>3, PostFacts
    <2>5. CASE d \in failed
      <3>1. PICK v \in F : WSClientSet[v] = d
        BY <2>5
      <3>2. pc[d] = "alive" => "error" \in Follows[Newest(seen[d], posted[d])]
        BY <2>1, <3>1, NewestFacts
      <3>3. /\ pc[d] # "alive" => Post(d, <<"error", "close">>)[d] = posted[d]
            /\ pc[d] = "alive" => Ordered(seen[d], Post(d, <<"error", "close">>)[d])
        BY <3>2, PostErrorFacts
      <3> QED BY <1>1, <1>2, <2>1, <2>4, <3>3
    <2>6. CASE d \notin failed
      BY <1>1, <1>2, <2>1, <2>4, <2>6
    <2> QED BY <2>5, <2>6
  <1>3. QueueInv'
    BY <1>2, PostingStep
  <1>4. ASSUME NEW v \in Wsis, WSClientSet'[v] # Null, pc[WSClientSet'[v]] = "alive"
        PROVE  /\ WSClientSet'[v] = WSClientSet[v] /\ conn'[v] = conn[v]
               /\ posted'[WSClientSet[v]] = posted[WSClientSet[v]]
    <2>1. v \notin W /\ WSClientSet'[v] = WSClientSet[v]
      BY <1>4 DEF LwsEnd
    <2>2. conn[v] # "free" /\ WSClientSet[v] \in Controls
      BY <1>4, <2>1 DEF RegistrySound, TypeOK
    <2>3. WSClientSet[v] \notin clients
      BY <1>4, <2>1, EntriesDiffer
    <2> QED BY <1>1, <2>1, <2>2, <2>3
  <1>5. ToldInv'
    BY <1>4 DEF ToldInv
  <1> QED BY <1>3, <1>5

\* Every step keeps the queues in order.
LEMMA EventStep ==
    ASSUME TypeOK, RegistrySound, QueueInv, ToldInv, [Next]_vars
    PROVE  QueueInv' /\ ToldInv'
  <1> USE PluginAssumption DEF At, Go
  <1>1. ASSUME UNCHANGED <<WSClientSet, conn, wsi, posted, seen>>,
               \A d \in Controls : pc'[d] # pc[d] => pc[d] # "alive" /\ pc'[d] # "dtor"
                                   /\ (pc'[d] = "alive" => pc[d] = "make")
        PROVE  QueueInv' /\ ToldInv'
    <2>1. QueueInv'
      BY <1>1 DEF QueueInv
    <2>2. \A w \in Wsis : WSClientSet[w] # Null /\ pc'[WSClientSet[w]] = "alive" =>
             pc[WSClientSet[w]] = "alive"
      BY <1>1 DEF RegistrySound, TypeOK
    <2>3. ToldInv'
      BY <1>1, <2>2 DEF ToldInv
    <2> QED BY <2>1, <2>3
  <1>2. ASSUME NEW c \in Controls,
               \/ Create(c) \/ StartThread(c) \/ GetContextCrashes(c) \/ WaitContext(c)
               \/ MakeClient(c) \/ SetwsurlCrashes(c) \/ Send(c) \/ CloseMethod(c)
               \/ UnInit(c) \/ Join(c)
        PROVE  QueueInv' /\ ToldInv'
    <2>1. UNCHANGED <<WSClientSet, conn, wsi, posted, seen>>
      BY <1>2 DEF Create, StartThread, GetContextCrashes, WaitContext, MakeClient,
         SetwsurlCrashes, Send, CloseMethod, UnInit, Join, clientVars, lwsVars, eventVars
    <2>2. \A d \in Controls : pc'[d] # pc[d] => pc[d] # "alive" /\ pc'[d] # "dtor"
                                   /\ (pc'[d] = "alive" => pc[d] = "make")
      BY <1>2 DEF Create, StartThread, GetContextCrashes, WaitContext, MakeClient,
         SetwsurlCrashes, Send, CloseMethod, UnInit, Join, TypeOK
    <2> QED BY <1>1, <2>1, <2>2
  <1>3. ASSUME NEW c \in Controls, Fire(c) PROVE QueueInv' /\ ToldInv'
    <2>1. /\ UNCHANGED <<pc, WSClientSet, conn, wsi>> /\ pc[c] = "alive"
          /\ posted[c] # <<>> /\ seen[c] \in SeenEvents /\ posted[c] \in Seq(WindowEvents)
      BY <1>3 DEF Fire, TypeOK, clientVars, lwsVars, SeenEvents
    <2>2. /\ seen'[c] = Head(posted[c]) /\ posted'[c] = Tail(posted[c])
          /\ \A d \in Controls \ {c} : seen'[d] = seen[d] /\ posted'[d] = posted[d]
      BY <1>3 DEF Fire, TypeOK
    <2>3. Ordered(seen[c], posted[c]) /\ wsi[c] # Null
      BY <2>1 DEF QueueInv
    <2>4. /\ Ordered(seen'[c], posted'[c])
          /\ Newest(seen'[c], posted'[c]) = Newest(seen[c], posted[c])
      BY <2>1, <2>2, <2>3, OrderedTail
    <2>5. QueueInv'
      <3> SUFFICES ASSUME NEW d \in Controls
                   PROVE  /\ Ordered(seen'[d], posted'[d])
                          /\ wsi[d] = Null => seen'[d] = "none" /\ posted'[d] = <<>>
                          /\ pc[d] # "alive" => posted'[d] = <<>>
        BY <2>1 DEF QueueInv
      <3>1. CASE d = c
        BY <2>1, <2>3, <2>4, <3>1
      <3>2. CASE d # c
        BY <2>2, <3>2 DEF QueueInv
      <3> QED BY <3>1, <3>2
    <2>6. \A d \in Controls : Newest(seen'[d], posted'[d]) = Newest(seen[d], posted[d])
      BY <2>2, <2>4
    <2>7. \A w \in Wsis : WSClientSet[w] # Null => WSClientSet[w] \in Controls
      BY DEF TypeOK
    <2>8. ToldInv'
      BY <2>1, <2>6, <2>7 DEF ToldInv
    <2> QED BY <2>5, <2>8
  <1>4. ASSUME NEW c \in Controls, DtorDerived(c) PROVE QueueInv' /\ ToldInv'
    <2>1. /\ UNCHANGED <<WSClientSet, conn, wsi, seen>> /\ posted'[c] = <<>>
          /\ pc'[c] = "dtor"
          /\ \A d \in Controls \ {c} : pc'[d] = pc[d] /\ posted'[d] = posted[d]
      BY <1>4 DEF DtorDerived, TypeOK, clientVars, lwsVars
    <2>2. QueueInv'
      BY <2>1, OrderedEmpty DEF QueueInv
    <2>3. \A w \in Wsis : WSClientSet[w] # Null => WSClientSet[w] \in Controls
      BY DEF TypeOK
    <2>4. ToldInv'
      BY <2>1, <2>3 DEF ToldInv
    <2> QED BY <2>2, <2>4
  <1>5. ASSUME NEW c \in Controls, DtorBase(c) PROVE QueueInv' /\ ToldInv'
    <2>1. /\ UNCHANGED <<conn, wsi, seen, posted>>
          /\ \A d \in Controls : pc'[d] = "alive" <=> pc[d] = "alive"
      BY <1>5 DEF DtorBase, TypeOK, eventVars
    <2>2. \A w \in Wsis : WSClientSet'[w] # Null => WSClientSet'[w] = WSClientSet[w]
                                                    /\ WSClientSet[w] \in Controls
      BY <1>5 DEF DtorBase, TypeOK
    <2>3. QueueInv'
      BY <2>1 DEF QueueInv
    <2>4. ToldInv'
      BY <2>1, <2>2 DEF ToldInv
    <2> QED BY <2>3, <2>4
  <1>6. ASSUME NEW c \in Controls, Setwsurl(c) PROVE QueueInv' /\ ToldInv'
    <2>1. PICK w \in Wsis :
             /\ conn[w] = "free"
             /\ wsi' = [wsi EXCEPT ![c] = w]
             /\ conn' = [conn EXCEPT ![w] = "connecting"]
             /\ WSClientSet' = [WSClientSet EXCEPT ![w] = IF @ = Null THEN c ELSE @]
      BY <1>6 DEF Setwsurl
    <2>2. UNCHANGED <<pc, seen, posted>> /\ wsi[c] = Null
      BY <1>6 DEF Setwsurl, eventVars
    <2>3. QueueInv'
      <3>1. \A d \in Controls : wsi'[d] = Null => wsi[d] = Null
        BY <2>1, <2>2 DEF TypeOK
      <3> QED BY <2>2, <3>1 DEF QueueInv
    <2>4. WSClientSet[w] = Null
      BY <2>1 DEF RegistrySound
    <2>5. /\ WSClientSet'[w] = c /\ conn'[w] = "connecting"
          /\ \A v \in Wsis \ {w} : WSClientSet'[v] = WSClientSet[v] /\ conn'[v] = conn[v]
      BY <2>1, <2>4 DEF TypeOK
    <2>6. Newest(seen[c], posted[c]) = "none"
      BY <2>2, OrderedEmpty DEF QueueInv
    <2>7. ToldOf("connecting", "none")
      BY DEF ToldOf
    <2>8. ToldInv'
      <3> SUFFICES ASSUME NEW v \in Wsis, WSClientSet'[v] # Null, pc[WSClientSet'[v]] = "alive"
                   PROVE  ToldOf(conn'[v], Newest(seen[WSClientSet'[v]], posted[WSClientSet'[v]]))
        BY <2>2 DEF ToldInv
      <3>1. CASE v = w
        BY <2>5, <2>6, <2>7, <3>1
      <3>2. CASE v # w
        BY <2>5, <3>2 DEF ToldInv
      <3> QED BY <3>1, <3>2
    <2> QED BY <2>3, <2>8
  <1>7. ASSUME NEW w \in Wsis, ClosedClientHttp(w) \/ Closed(w) PROVE QueueInv' /\ ToldInv'
    <2>1. /\ LwsEnd({w}, {}) /\ UNCHANGED <<pc, wsi, seen>>
          /\ \A v \in Wsis \ {w} : conn'[v] = conn[v]
      BY <1>7 DEF ClosedClientHttp, Closed, LwsClose, Freed, CallbackFrame
    <2> QED BY <2>1, LwsEndEvents
  <1>8. CASE UnInitInstance
    <2> DEFINE W == {w \in Wsis : conn[w] # "free"}
               F == {w \in Wsis : conn[w] = "connecting"}
    <2>1. LwsEnd(W, F) /\ UNCHANGED <<pc, wsi, seen>>
      BY <1>8 DEF UnInitInstance
    <2>2. \A w \in Wsis \ W : conn[w] = "free"
      OBVIOUS
    <2>3. W \in SUBSET Wsis /\ F \in SUBSET W /\ \A w \in F : conn[w] = "connecting"
      OBVIOUS
    <2> HIDE DEF W, F
    <2> QED BY <2>1, <2>2, <2>3, LwsEndEvents
  <1>9. ASSUME NEW w \in Wsis, WSClientSet[w] = Null, UNCHANGED <<pc, wsi, seen, posted, WSClientSet>>,
               \A v \in Wsis \ {w} : conn'[v] = conn[v]
        PROVE  QueueInv' /\ ToldInv'
    <2>1. QueueInv'
      BY <1>9 DEF QueueInv
    <2>2. ToldInv'
      BY <1>9 DEF ToldInv
    <2> QED BY <2>1, <2>2
  <1>10. ASSUME NEW w \in Wsis, UNCHANGED <<pc, wsi, seen>>, WSClientSet[w] # Null,
                \A v \in Wsis \ {w} :
                   conn'[v] = conn[v] /\ WSClientSet'[v] = WSClientSet[v],
                \A d \in Controls \ {WSClientSet[w]} : posted'[d] = posted[d],
                pc[WSClientSet[w]] # "alive" => posted'[WSClientSet[w]] = posted[WSClientSet[w]],
                pc[WSClientSet[w]] = "alive" =>
                   /\ Ordered(seen[WSClientSet[w]], posted'[WSClientSet[w]])
                   /\ \/ WSClientSet'[w] = Null
                      \/ /\ WSClientSet'[w] = WSClientSet[w]
                         /\ ToldOf(conn'[w], Newest(seen[WSClientSet[w]],
                                                    posted'[WSClientSet[w]])),
                WSClientSet'[w] \in {Null, WSClientSet[w]}
         PROVE  QueueInv' /\ ToldInv'
    <2> DEFINE c == WSClientSet[w]
    <2>1. QueueInv'
      BY <1>10, PostingStep
    <2>2. ASSUME NEW v \in Wsis, WSClientSet'[v] # Null, pc[WSClientSet'[v]] = "alive"
          PROVE  ToldOf(conn'[v], Newest(seen[WSClientSet'[v]], posted'[WSClientSet'[v]]))
      <3>1. CASE v = w
        BY <1>10, <2>2, <3>1
      <3>2. CASE v # w
        <4>1. WSClientSet'[v] = WSClientSet[v] /\ conn'[v] = conn[v]
          BY <1>10, <3>2
        <4>2. WSClientSet[v] \in Controls \ {c}
          BY <2>2, <3>2, <4>1, EntriesDiffer
        <4>3. posted'[WSClientSet[v]] = posted[WSClientSet[v]]
          BY <1>10, <4>2
        <4> QED BY <2>2, <4>1, <4>3 DEF ToldInv
      <3> QED BY <3>1, <3>2
    <2>3. ToldInv'
      BY <1>10, <2>2 DEF ToldInv
    <2> QED BY <2>1, <2>3
  <1>11. ASSUME NEW w \in Wsis, ConnectionError(w) PROVE QueueInv' /\ ToldInv'
    <2> DEFINE c == WSClientSet[w]
    <2>1. /\ UNCHANGED <<pc, wsi, seen>> /\ conn[w] = "connecting" /\ WSClientSet'[w] = Null
          /\ \A v \in Wsis \ {w} : conn'[v] = conn[v] /\ WSClientSet'[v] = WSClientSet[v]
      BY <1>11 DEF ConnectionError, CallbackFrame, TypeOK
    <2>2. CASE c = Null
      <3>1. UNCHANGED <<posted, WSClientSet>>
        BY <1>11, <2>2 DEF ConnectionError, TypeOK
      <3> QED BY <1>9, <2>1, <2>2, <3>1
    <2>3. CASE c # Null
      <3>1. c \in Controls /\ posted' = Post(c, <<"error", "close">>)
        BY <1>11, <2>3 DEF ConnectionError, TypeOK
      <3>2. pc[c] = "alive" => "error" \in Follows[Newest(seen[c], posted[c])]
        BY <2>1, <2>3, NewestFacts
      <3>3. /\ \A d \in Controls \ {c} : posted'[d] = posted[d]
            /\ pc[c] # "alive" => posted'[c] = posted[c]
            /\ pc[c] = "alive" => Ordered(seen[c], posted'[c])
        BY <3>1, <3>2, PostErrorFacts
      <3> QED BY <1>10, <2>1, <2>3, <3>3
    <2> QED BY <2>2, <2>3
  <1>12. ASSUME NEW w \in Wsis, ClientEstablished(w) PROVE QueueInv' /\ ToldInv'
    <2> DEFINE c == WSClientSet[w]
    <2>1. /\ UNCHANGED <<pc, wsi, seen, WSClientSet>>
          /\ conn[w] = "connecting" /\ conn'[w] = "open"
          /\ \A v \in Wsis \ {w} : conn'[v] = conn[v]
      BY <1>12 DEF ClientEstablished, CallbackFrame, TypeOK
    <2>2. CASE c = Null
      <3>1. UNCHANGED posted
        BY <1>12, <2>2 DEF ClientEstablished
      <3> QED BY <1>9, <2>1, <2>2, <3>1
    <2>3. CASE c # Null
      <3>1. c \in Controls /\ posted' = Post(c, <<"open">>)
        BY <1>12, <2>3 DEF ClientEstablished, TypeOK
      <3>2. pc[c] = "alive" => "open" \in Follows[Newest(seen[c], posted[c])]
        BY <2>1, <2>3, NewestFacts
      <3>3. "open" \in WindowEvents /\ ToldOf("open", "open")
        BY DEF WindowEvents, ToldOf
      <3>4. /\ \A d \in Controls \ {c} : posted'[d] = posted[d]
            /\ pc[c] # "alive" => posted'[c] = posted[c]
            /\ pc[c] = "alive" => /\ Ordered(seen[c], posted'[c])
                                  /\ Newest(seen[c], posted'[c]) = "open"
        BY <3>1, <3>2, <3>3, PostFacts
      <3> QED BY <1>10, <2>1, <2>3, <3>3, <3>4
    <2> QED BY <2>2, <2>3
  <1>13. ASSUME NEW w \in Wsis, ClientReceive(w) PROVE QueueInv' /\ ToldInv'
    <2> DEFINE c == WSClientSet[w]
    <2>1. /\ UNCHANGED <<pc, wsi, seen, WSClientSet, conn>>
          /\ conn[w] = "open" /\ c # Null /\ c \in Controls /\ posted' = Post(c, <<"message">>)
      BY <1>13 DEF ClientReceive, CallbackFrame, lwsVars, TypeOK
    <2>2. pc[c] = "alive" => "message" \in Follows[Newest(seen[c], posted[c])]
      BY <2>1, NewestFacts
    <2>3. "message" \in WindowEvents /\ ToldOf("open", "message")
      BY DEF WindowEvents, ToldOf
    <2>4. /\ \A d \in Controls \ {c} : posted'[d] = posted[d]
          /\ pc[c] # "alive" => posted'[c] = posted[c]
          /\ pc[c] = "alive" => /\ Ordered(seen[c], posted'[c])
                                /\ Newest(seen[c], posted'[c]) = "message"
      BY <2>1, <2>2, <2>3, PostFacts
    <2> QED BY <1>10, <2>1, <2>3, <2>4
  <1>14. ASSUME NEW w \in Wsis, ClientWriteable(w) PROVE QueueInv' /\ ToldInv'
    <2>1. /\ UNCHANGED <<pc, wsi, seen, posted, WSClientSet>> /\ conn[w] = "open"
          /\ \A v \in Wsis : conn'[v] = conn[v]
                             \/ (conn[v] = "open" /\ conn'[v] = "closing")
      BY <1>14 DEF ClientWriteable, CallbackFrame, TypeOK
    <2>2. QueueInv'
      BY <2>1 DEF QueueInv
    <2>3. \A x : ToldOf("open", x) => ToldOf("closing", x)
      BY DEF ToldOf
    <2>4. ToldInv'
      BY <2>1, <2>3 DEF ToldInv
    <2> QED BY <2>2, <2>4
  <1>15. CASE ThreadNew \/ InitInstance \/ LeaveLoop \/ DeleteServer \/ UNCHANGED vars
    <2>1. UNCHANGED <<pc, WSClientSet, conn, wsi, posted, seen>>
      BY <1>15 DEF ThreadNew, InitInstance, LeaveLoop, DeleteServer, vars, clientVars,
                   lwsVars, eventVars
    <2> QED BY <1>1, <2>1
  <1> QED
    BY <1>2, <1>3, <1>4, <1>5, <1>6, <1>7, <1>8, <1>11, <1>12, <1>13, <1>14, <1>15,
       NextCases

\* Whatever the service thread does while earlier messages wait in the
\* window's queue, a page hears of its connection in order: onopen first, messages after it, onerror
\* just before onclose, nothing after onclose.
THEOREM EventsInOrder == Spec => []EventOrder
  <1>1. Init => QueueInv /\ ToldInv
    BY OrderedEmpty, PluginAssumption DEF Init, QueueInv, ToldInv
  <1>2. QueueInv /\ TypeOK => EventOrder
    <2> SUFFICES ASSUME QueueInv, TypeOK, NEW c \in Controls
                 PROVE  LET s == <<seen[c]>> \o posted[c] IN
                        \A i \in 1..(Len(s) - 1) : s[i + 1] \in Follows[s[i]]
      BY DEF EventOrder
    <2>1. /\ seen[c] \in SeenEvents /\ posted[c] \in Seq(WindowEvents)
          /\ Ordered(seen[c], posted[c])
      BY DEF QueueInv, TypeOK, SeenEvents
    <2> QED BY <2>1, OrderedQueue
  <1> QED
    BY <1>1, <1>2, EventStep, RegistrySafe, PluginTypes, PTL DEF Spec
=============================================================================
