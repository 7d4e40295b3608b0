---------------------------- MODULE OutboxProofs ----------------------------
(***************************************************************************)
(* UCServer implements Outbox, for every number of clients, connections,   *)
(* threads and messages, and for every outcome of the races on m_sendBuf.  *)
(* Beside the invariants of UCServerProofs this needs to know that an      *)
(* upgraded connection leads to an open object, that nobody sends to an    *)
(* object that never was open, and that a queue holds only what was pushed *)
(* to it, also after a race.                                               *)
(***************************************************************************)
EXTENDS UCServerProofs

\* The entry of an upgraded connection is an object that is not new: ESTABLISHED
\* marks it, and CONNECTING never comes back.
UpgradedOpen ==
    \A w \in Wsis : conn[w] = "ws" =>
        WSClientSet[w] # Null /\ m_state[WSClientSet[w]] \in {"OPEN", "CLOSING"}

\* Only objects that have been open are sent to.
SentToOpened ==
    \A t \in Threads : pc[t] = "push" => m_state[cur[t]] # "CONNECTING"

Occurs(m, c) == \E j \in 1..Len(pushed[c]) : pushed[c][j] = m

\* What is in a queue was pushed to that queue.
QueuedWasSent ==
    \A c \in Clients : \A i \in 1..Len(m_sendBuf[c]) : Occurs(m_sendBuf[c][i], c)

\* No thread but Lws touches connections, registrations and states.
LEMMA OthersFrame ==
    ASSUME TypeInv,
              (\E t \in Broadcasters : Broadcast(t))
           \/ (\E t \in SdkThreads : Thunk(t) \/ (\E e \in Events \cap SdkEvents : SdkEvent(t, e)) \/ SdkEventDropped(t))
           \/ OnSessionChange \/ WSStop \/ WSJoined
           \/ (\E t \in Threads : UndefinedBehaviour(t)) \/ Finished \/ UNCHANGED vars
    PROVE  UNCHANGED <<conn, WSClientSet, m_state>>
  <1> USE DEF objVars, regVars, lwsVars
  <1>1. CASE \E t \in Broadcasters : Broadcast(t)
    BY <1>1 DEF Broadcast, BroadcastLock, BroadcastNext, BroadcastEnd, Send, Push, Find, Writable
  <1>2. CASE \E t \in SdkThreads : Thunk(t) \/ (\E e \in Events \cap SdkEvents : SdkEvent(t, e)) \/ SdkEventDropped(t)
    BY <1>2 DEF Thunk, SdkCall, SwitchReturns, SwitchOverflows, SdkEvent, SdkEventDropped
  <1>3. CASE OnSessionChange \/ WSStop \/ WSJoined
    BY <1>3 DEF OnSessionChange, WSStop, WSJoined
  <1>4. CASE (\E t \in Threads : UndefinedBehaviour(t)) \/ Finished \/ UNCHANGED vars
    BY <1>4 DEF UndefinedBehaviour, Finished, vars
  <1> QED BY <1>1, <1>2, <1>3, <1>4

\* ESTABLISHED and CLOSED keep entries and states together.
LEMMA UpgradedStep ==
    TypeInv /\ ServiceInv /\ UpgradedOpen /\ [Next]_vars => UpgradedOpen'
  <1> SUFFICES ASSUME TypeInv, ServiceInv, UpgradedOpen, [Next]_vars PROVE UpgradedOpen'
    OBVIOUS
  <1> USE ThreadFacts DEF TypeInv, TypeOK, ObjTypes, RegTypes, LwsTypes, LwsAtHand,
          UpgradedOpen, At, objVars, regVars, lwsVars
  <1>1. ASSUME UNCHANGED <<WSClientSet, m_state>>,
               \A w \in Wsis : conn'[w] = "ws" => conn[w] = "ws"
        PROVE  UpgradedOpen'
    BY <1>1
  <1>2. CASE \E w \in Wsis, c \in Clients : Accept(w, c)
    BY <1>1, <1>2 DEF Accept
  <1>3. CASE AcceptInsert
    BY <1>3 DEF AcceptInsert
  <1>4. CASE \E w \in Wsis : Established(w)
    BY <1>4 DEF Established, ServiceInv, EveryConnectionServed, InCallback
  <1>5. CASE \E w \in Wsis : TlsAccepted(w) \/ OnMessage(w) \/ Dropped(w) \/ ClosedHttp(w)
    BY <1>1, <1>5 DEF TlsAccepted, OnMessage, Dropped, ClosedHttp, Closing
  <1>6. CASE AcceptInstance \/ AcceptDerived \/ OnOpen \/ WriteablePop \/ Send(Lws)
    BY <1>1, <1>6 DEF AcceptInstance, AcceptDerived, OnOpen, WriteablePop, Leave,
       Send, Push, Find, Writable
  <1>7. CASE \E w \in Wsis : Writeable(w) \/ Closed(w) \/ ShutdownEnds(w) \/ ContextDestroy(w)
    BY <1>1, <1>7 DEF Writeable, Closed, ShutdownEnds, ContextDestroy, Closing
  <1>8. CASE ClosedErase
    BY <1>8 DEF ClosedErase, ServiceInv, InCallback, RegistrySound
  <1>9. CASE DtorDerived \/ DtorSDK \/ FreeWsi \/ ListenEnds
    BY <1>1, <1>9 DEF DtorDerived, DtorSDK, FreeWsi, ListenEnds, Leave
  <1>10. CASE DtorWS
    BY <1>10 DEF DtorWS, Registered, ServiceInv, InCallback
  <1>11. CASE LwsStep
    BY <1>2, <1>3, <1>4, <1>5, <1>6, <1>7, <1>8, <1>9, <1>10, <1>11 DEF LwsStep, Service
  <1> QED BY <1>1, <1>11, OthersFrame DEF Next, Environment, LwsStep

\* Replies go to the object that got the message, broadcasts to listed ones.
LEMMA SentToStep ==
    TypeInv /\ ServiceInv /\ UpgradedOpen /\ SentToOpened /\ [Next]_vars => SentToOpened'
  <1> SUFFICES ASSUME TypeInv, ServiceInv, UpgradedOpen, SentToOpened, [Next]_vars
               PROVE  SentToOpened'
    OBVIOUS
  <1> USE ThreadFacts DEF TypeInv, TypeOK, ObjTypes, RegTypes, ThreadTypes, LwsAtHand,
          SentToOpened, At, Goto, Working
  <1>0. \A t \in Threads : pc[t] = "push" => cur[t] \in Clients
    BY DEF ThreadAtHand, SendLabels
  <1>1. \A c \in Clients : m_state'[c] = "CONNECTING" => m_state[c] = "CONNECTING"
    <2>1. CASE LwsStep
      BY <2>1 DEF LwsStep, Service, Accept, AcceptInsert, AcceptInstance, AcceptDerived,
         TlsAccepted, Established, OnMessage, Dropped, ClosedHttp, OnOpen, WriteablePop,
         Send, Push, Find, Writable, Writeable, Closed, ShutdownEnds, ContextDestroy,
         ClosedErase, DtorDerived, DtorSDK, DtorWS, FreeWsi, ListenEnds, objVars
    <2> QED BY <2>1, OthersFrame DEF Next, Environment, LwsStep
  <1>2. ASSUME \A t \in Threads : pc'[t] = "push" => pc[t] = "push" /\ cur'[t] = cur[t]
        PROVE  SentToOpened'
    BY <1>0, <1>1, <1>2
  <1>3. CASE \E w \in Wsis : OnMessage(w)
    <2> PICK w \in Wsis : OnMessage(w) BY <1>3
    <2>1. m_state[WSClientSet[w]] # "CONNECTING" /\ WSClientSet[w] \in Clients
      BY DEF OnMessage, UpgradedOpen
    <2>2. UNCHANGED m_state
      BY DEF OnMessage, objVars
    <2> QED BY <1>0, <2>1, <2>2 DEF OnMessage
  <1>4. CASE \E t \in Broadcasters : BroadcastNext(t)
    <2> PICK t \in Broadcasters : BroadcastNext(t) BY <1>4
    <2>1. cur'[t] \in Clients /\ m_state[cur'[t]] # "CONNECTING" /\ UNCHANGED m_state
      BY DEF BroadcastNext, ServiceInv, ListedOpened, objVars
    <2>2. \A u \in Threads : u # t => pc'[u] = pc[u] /\ cur'[u] = cur[u]
      BY DEF BroadcastNext
    <2> QED BY <1>0, <2>1, <2>2
  <1>5. CASE \E t \in Threads : Send(t)
    BY <1>2, <1>5 DEF Send, Push, Find, Writable, SendReturn
  <1>6. CASE (\E w \in Wsis : (\E c \in Clients : Accept(w, c)) \/ TlsAccepted(w)
                               \/ Established(w) \/ Dropped(w) \/ ClosedHttp(w))
             \/ AcceptInsert \/ AcceptInstance \/ AcceptDerived
    BY <1>2, <1>6 DEF Accept, TlsAccepted, Established, Dropped, ClosedHttp, Enter,
       AcceptInsert, AcceptInstance, AcceptDerived, Leave
  <1>7. CASE \/ OnOpen \/ WriteablePop
             \/ \E w \in Wsis : Writeable(w) \/ Closed(w) \/ ShutdownEnds(w) \/ ContextDestroy(w)
    BY <1>2, <1>7 DEF OnOpen, WriteablePop, Leave, Writeable, Closed, ShutdownEnds,
       ContextDestroy, Enter
  <1>8. CASE ClosedErase \/ DtorDerived \/ DtorSDK \/ DtorWS \/ FreeWsi \/ ListenEnds
    BY <1>2, <1>8 DEF ClosedErase, DtorDerived, DtorSDK, DtorWS, FreeWsi, ListenEnds, Leave
  <1>9. CASE \E t \in Broadcasters : BroadcastLock(t) \/ BroadcastEnd(t)
    BY <1>2, <1>9 DEF BroadcastLock, BroadcastEnd, HandlerReturns
  <1>10. CASE \E t \in SdkThreads : Thunk(t) \/ (\E e \in Events \cap SdkEvents : SdkEvent(t, e)) \/ SdkEventDropped(t)
    BY <1>2, <1>10 DEF Thunk, SdkCall, SwitchReturns, SwitchOverflows, HandlerReturns,
       HandlerEntry, SdkEvent, SdkEventDropped
  <1>11. CASE OnSessionChange \/ WSStop \/ WSJoined
    BY <1>2, <1>11 DEF OnSessionChange, WSStop, WSJoined
  <1>12. CASE (\E t \in Threads : UndefinedBehaviour(t)) \/ Finished \/ UNCHANGED vars
    BY <1>2, <1>12 DEF UndefinedBehaviour, Finished, vars
  <1> QED BY <1>3, <1>4, <1>5, <1>6, <1>7, <1>8, <1>9, <1>10, <1>11, <1>12
          DEF Next, Environment, Service, Broadcast

\* Only Push, WRITEABLE and its erase touch the queues and their histories.
LEMMA BufFrame ==
    ASSUME TypeInv, [Next]_vars
    PROVE  \/ UNCHANGED <<m_sendBuf, pushed, written, overlapped>>
           \/ \E t \in Threads : Push(t)
           \/ \E w \in Wsis : Writeable(w)
           \/ WriteablePop
  <1> USE DEF bufVars
  <1>1. CASE LwsStep
    BY <1>1 DEF LwsStep, Service, Accept, AcceptInsert, AcceptInstance, AcceptDerived,
       TlsAccepted, Established, OnMessage, Dropped, ClosedHttp, OnOpen,
       Send, Find, Writable, Closed, ShutdownEnds, ContextDestroy, Threads,
       ClosedErase, DtorDerived, DtorSDK, DtorWS, FreeWsi, ListenEnds
  <1>2. CASE \E t \in Broadcasters : Broadcast(t)
    BY <1>2, ThreadFacts DEF Broadcast, BroadcastLock, BroadcastNext, BroadcastEnd,
       Send, Find, Writable
  <1>3. CASE \E t \in SdkThreads : Thunk(t) \/ (\E e \in Events \cap SdkEvents : SdkEvent(t, e)) \/ SdkEventDropped(t)
    BY <1>3 DEF Thunk, SdkCall, SwitchReturns, SwitchOverflows, SdkEvent, SdkEventDropped
  <1>4. CASE OnSessionChange \/ WSStop \/ WSJoined
    BY <1>4 DEF OnSessionChange, WSStop, WSJoined
  <1>5. CASE (\E t \in Threads : UndefinedBehaviour(t)) \/ Finished \/ UNCHANGED vars
    BY <1>5 DEF UndefinedBehaviour, Finished, vars
  <1> QED BY <1>1, <1>2, <1>3, <1>4, <1>5 DEF Next, Environment, LwsStep

\* Push adds to both, the erase after WRITEABLE only takes away.
LEMMA QueuedStep == TypeInv /\ QueuedWasSent /\ [Next]_vars => QueuedWasSent'
  <1> SUFFICES ASSUME TypeInv, QueuedWasSent, [Next]_vars,
                      NEW c \in Clients, NEW i \in 1..Len(m_sendBuf'[c])
               PROVE  Occurs(m_sendBuf[c][i], c)'
    BY DEF QueuedWasSent
  <1> DEFINE Msgs == 1..MaxMsgs
  <1>0. /\ m_sendBuf[c] \in Seq(Msgs) /\ pushed[c] \in Seq(Msgs)
        /\ m_sendBuf \in [Clients -> Seq(Msgs)] /\ pushed \in [Clients -> Seq(Msgs)]
        /\ \A k \in 1..Len(m_sendBuf[c]) : Occurs(m_sendBuf[c][k], c)
    BY DEF TypeInv, TypeOK, BufTypes, QueuedWasSent
  <1>1. CASE \E t \in Threads : Push(t)
    <2> PICK t \in Threads : Push(t) BY <1>1
    <2>1. cur[t] \in Clients /\ msg[t] \in Msgs
      BY DEF Push, At, TypeInv, ThreadAtHand, SendLabels
    <2>2. CASE cur[t] # c
      BY <1>0, <2>1, <2>2 DEF Push, Occurs
    <2>3. CASE cur[t] = c
      <3>1. pushed'[c] = Append(pushed[c], msg[t])
        BY <1>0, <2>3 DEF Push
      <3>2. /\ Len(pushed'[c]) = Len(pushed[c]) + 1
            /\ pushed'[c][Len(pushed[c]) + 1] = msg[t]
            /\ \A j \in 1..Len(pushed[c]) : pushed'[c][j] = pushed[c][j]
            /\ Len(pushed[c]) \in Nat
        BY <1>0, <2>1, <3>1, AppendProperties, LenProperties
      <3>3. \A k \in 1..Len(m_sendBuf[c]) :
               \E j \in 1..Len(pushed'[c]) : pushed'[c][j] = m_sendBuf[c][k]
        BY <1>0, <3>2 DEF Occurs
      <3>4. CASE UNCHANGED m_sendBuf
        BY <3>3, <3>4 DEF Occurs
      <3>5. CASE m_sendBuf' = [m_sendBuf EXCEPT ![cur[t]] = Append(@, msg[t])]
        <4>1. m_sendBuf'[c] = Append(m_sendBuf[c], msg[t])
          BY <1>0, <2>3, <3>5
        <4>2. /\ Len(m_sendBuf'[c]) = Len(m_sendBuf[c]) + 1
              /\ m_sendBuf'[c][Len(m_sendBuf[c]) + 1] = msg[t]
              /\ \A k \in 1..Len(m_sendBuf[c]) : m_sendBuf'[c][k] = m_sendBuf[c][k]
              /\ Len(m_sendBuf[c]) \in Nat
          BY <1>0, <2>1, <4>1, AppendProperties, LenProperties
        <4>3. CASE i \in 1..Len(m_sendBuf[c])
          BY <3>3, <4>2, <4>3 DEF Occurs
        <4>4. CASE i = Len(m_sendBuf[c]) + 1
          BY <3>2, <4>2, <4>4 DEF Occurs
        <4> QED BY <4>2, <4>3, <4>4
      <3> QED BY <3>4, <3>5 DEF Push
    <2> QED BY <2>2, <2>3
  <1>2. CASE WriteablePop
    <2>1. pushed' = pushed /\ m_sendBuf[cur[Lws]] # <<>> /\ cur[Lws] \in Clients
      BY <1>2 DEF WriteablePop, At, TypeInv, LwsAtHand
    <2>2. CASE m_sendBuf'[c] = m_sendBuf[c]
      BY <1>0, <2>1, <2>2 DEF Occurs
    <2>3. CASE m_sendBuf[c] # <<>> /\ m_sendBuf'[c] = Tail(m_sendBuf[c])
      <3>1. i + 1 \in 1..Len(m_sendBuf[c]) /\ m_sendBuf'[c][i] = m_sendBuf[c][i + 1]
        BY <1>0, <2>3, HeadTailProperties, LenProperties
      <3> QED BY <1>0, <2>1, <3>1 DEF Occurs
    <2> QED BY <1>0, <1>2, <2>1, <2>2, <2>3 DEF WriteablePop
  <1>3. CASE (\E w \in Wsis : Writeable(w)) \/ UNCHANGED <<m_sendBuf, pushed>>
    BY <1>0, <1>3 DEF Writeable, Occurs
  <1> QED BY <1>1, <1>2, <1>3, BufFrame

-----------------------------------------------------------------------------
(* Every step of the server is a step of Outbox, or leaves it alone.       *)

\* The state of a page changes when its connection is upgraded or closed.
LEMMA StateFrame ==
    ASSUME TypeInv, ServiceInv, [Next]_vars
    PROVE  \/ UNCHANGED PageState
           \/ \E w \in Wsis : Established(w)
           \/ ClosedErase
  <1>1. CASE UNCHANGED m_state
    BY <1>1 DEF PageState
  <1>2. CASE DtorWS
    <2>1. ~Registered(cur[Lws])
      BY <1>2 DEF DtorWS, At, Registered, TypeInv, LwsAtHand, ServiceInv, InCallback
    <2> QED BY <1>1, <1>2, <2>1 DEF DtorWS
  <1>3. CASE LwsStep
    BY <1>1, <1>2, <1>3 DEF LwsStep, Service, Accept, AcceptInsert, AcceptInstance,
       AcceptDerived, TlsAccepted, OnMessage, Dropped, ClosedHttp, OnOpen, WriteablePop,
       Send, Push, Find, Writable, Writeable, Closed, ShutdownEnds, ContextDestroy,
       DtorDerived, DtorSDK, FreeWsi, ListenEnds, objVars
  <1> QED BY <1>1, <1>3, OthersFrame DEF Next, Environment, LwsStep

\* PageState without its CASE.
LEMMA PageStateOf ==
    \A c \in Clients :
        PageState[c] = IF m_state[c] = "CONNECTING" THEN "new"
                       ELSE IF m_state[c] = "CLOSED" THEN "closed" ELSE "open"
  BY DEF PageState

\* A connection is upgraded: its page opens.
LEMMA OpenStep ==
    ASSUME TypeInv, ServiceInv, NEW w \in Wsis, Established(w)
    PROVE  [Box!Next]_(Box!vars)
  <1> DEFINE c == WSClientSet[w]
  <1> USE ThreadFacts DEF TypeInv, TypeOK, ObjTypes, RegTypes
  <1>0. c \in Clients /\ m_state[c] # "CLOSED"
    BY DEF Established, At, ServiceInv, InCallback, EveryConnectionServed, RegistrySound
  <1>1. /\ m_state' = [m_state EXCEPT ![c] = "OPEN"]
        /\ UNCHANGED <<pushed, written, overlapped>>
    BY <1>0 DEF Established, bufVars
  <1>2. CASE m_state[c] = "CONNECTING"
    <2>1. PageState[c] = "new" BY <1>0, <1>2, PageStateOf
    <2>2. PageState' = [PageState EXCEPT ![c] = "open"]
      BY <1>0, <1>1 DEF PageState
    <2>3. Box!Open(c) BY <1>1, <2>1, <2>2 DEF Box!Open
    <2> QED BY <1>0, <2>3 DEF Box!Next
  <1>3. CASE m_state[c] # "CONNECTING"
    <2>1. PageState' = PageState
      BY <1>0, <1>1, <1>3 DEF PageState
    <2> QED BY <1>1, <2>1 DEF Box!vars
  <1> QED BY <1>2, <1>3

\* CLOSED and CLOSED_HTTP: its page closes.
LEMMA CloseStep ==
    ASSUME TypeInv, ServiceInv, ClosedErase
    PROVE  [Box!Next]_(Box!vars)
  <1> DEFINE c == cur[Lws]
  <1> USE ThreadFacts DEF TypeInv, TypeOK, ObjTypes, ThreadTypes, ClosedErase
  <1>1. UNCHANGED <<pushed, written, overlapped>>
    BY DEF bufVars
  <1>2. CASE c # Null /\ m_state[c] # "CLOSED"
    <2>0. c \in Clients /\ m_state' = [m_state EXCEPT ![c] = "CLOSED"]
      BY <1>2
    <2>1. PageState[c] # "closed" BY <1>2, <2>0, PageStateOf
    <2>2. PageState' = [PageState EXCEPT ![c] = "closed"]
      BY <2>0 DEF PageState
    <2>3. Box!Close(c) BY <1>1, <2>1, <2>2 DEF Box!Close
    <2> QED BY <2>0, <2>3 DEF Box!Next
  <1>3. CASE ~(c # Null /\ m_state[c] # "CLOSED")
    <2>1. PageState' = PageState BY <1>3 DEF PageState
    <2> QED BY <1>1, <2>1 DEF Box!vars
  <1> QED BY <1>2, <1>3

\* push_back on a queue: something is sent to its page.
LEMMA SendStep ==
    ASSUME TypeInv, SentToOpened, NEW t \in Threads, Push(t)
    PROVE  [Box!Next]_(Box!vars)
  <1> DEFINE c == cur[t]
  <1>1. c \in Clients /\ msg[t] \in 1..MaxMsgs
    BY DEF Push, At, TypeInv, ThreadAtHand, SendLabels
  <1>2. PageState[c] # "new"
    BY <1>1, PageStateOf DEF SentToOpened, Push, At
  <1>3. /\ pushed' = [pushed EXCEPT ![c] = Append(@, msg[t])]
        /\ overlapped' \in {overlapped, overlapped \cup {c}}
        /\ PageState' = PageState /\ written' = written
    BY DEF Push, NoteOverlap, objVars, PageState
  <1>4. Box!Send(c, msg[t]) BY <1>2, <1>3 DEF Box!Send
  <1> QED BY <1>1, <1>4 DEF Box!Next

\* The element after w in a concatenation is the head of the rest.
LEMMA NextOfConcat ==
    ASSUME NEW S, NEW w \in Seq(S), NEW b \in Seq(S), b # <<>>
    PROVE  /\ Len(w) + 1 \in 1..Len(w \o b)
           /\ (w \o b)[Len(w) + 1] = Head(b)
  <1>1. Len(w) \in Nat /\ Len(b) \in Nat /\ Len(b) > 0 /\ Head(b) = b[1]
    BY LenProperties, HeadTailProperties, EmptySeq
  <1>2. Len(w \o b) = Len(w) + Len(b)
    BY ConcatProperties
  <1>3. (w \o b)[Len(w) + 1] = b[1]
    BY <1>1, <1>2, ConcatProperties
  <1> QED BY <1>1, <1>2, <1>3

\* WRITEABLE: the next message is delivered to its page, or any of those
\* sent to it if the queue is spoilt.
LEMMA DeliverStep ==
    ASSUME TypeInv, UpgradedOpen, QueuedWasSent, QueueFifo,
           NEW w \in Wsis, Writeable(w)
    PROVE  [Box!Next]_(Box!vars)
  <1> DEFINE c == WSClientSet[w]
  <1> DEFINE Msgs == 1..MaxMsgs
  <1>0. c \in Clients /\ PageState[c] = "open"
    BY PageStateOf, ThreadFacts DEF Writeable, UpgradedOpen, TypeInv, TypeOK, RegTypes
  <1>1. PageState' = PageState /\ UNCHANGED <<pushed, overlapped>>
    BY DEF Writeable, objVars, PageState
  <1>2. CASE UNCHANGED written
    BY <1>1, <1>2 DEF Box!vars
  <1>3. CASE /\ m_sendBuf[c] # <<>>
             /\ written' = [written EXCEPT ![c] = Append(@, Head(m_sendBuf[c]))]
    <2>0. /\ m_sendBuf[c] \in Seq(Msgs) /\ written[c] \in Seq(Msgs)
          /\ pushed[c] \in Seq(Msgs)
      BY <1>0 DEF TypeInv, TypeOK, BufTypes
    <2>1. Len(m_sendBuf[c]) \in Nat /\ Len(m_sendBuf[c]) > 0 /\ Head(m_sendBuf[c]) = m_sendBuf[c][1]
      BY <1>3, <2>0, LenProperties, HeadTailProperties, EmptySeq
    <2>2. Occurs(Head(m_sendBuf[c]), c)
      BY <1>0, <2>1 DEF QueuedWasSent
    <2>3. ASSUME c \notin overlapped
          PROVE  /\ Len(written[c]) + 1 \in 1..Len(pushed[c])
                 /\ pushed[c][Len(written[c]) + 1] = Head(m_sendBuf[c])
      <3>1. pushed[c] = written[c] \o m_sendBuf[c]
        BY <1>0, <2>3 DEF QueueFifo, Unwritten, Writeable, At
      <3>2. m_sendBuf[c] # <<>>
        BY <1>3
      <3>3. /\ Len(written[c]) + 1 \in 1..Len(written[c] \o m_sendBuf[c])
            /\ (written[c] \o m_sendBuf[c])[Len(written[c]) + 1] = Head(m_sendBuf[c])
        BY ONLY <2>0, <3>2, NextOfConcat
      <3> QED BY <3>1, <3>3
    <2>4. PICK i \in 1..Len(pushed[c]) :
             /\ pushed[c][i] = Head(m_sendBuf[c])
             /\ c \notin overlapped => i = Len(written[c]) + 1
      BY <2>2, <2>3 DEF Occurs
    <2>5. written' = [written EXCEPT ![c] = Append(@, pushed[c][i])]
      BY <1>3, <2>4
    <2>6. Box!Deliver(c)
      BY <1>0, <1>1, <2>4, <2>5 DEF Box!Deliver
    <2> QED BY <1>0, <2>6 DEF Box!Next
  <1> QED BY <1>2, <1>3 DEF Writeable

\* Any step of the server: one of the four above, or a stutter.
LEMMA BoxStep ==
    TypeInv /\ ServiceInv /\ UpgradedOpen /\ SentToOpened /\ QueuedWasSent
        /\ QueueFifo /\ [Next]_vars
    => [Box!Next]_(Box!vars)
  <1> SUFFICES ASSUME TypeInv, ServiceInv, UpgradedOpen, SentToOpened, QueuedWasSent,
                      QueueFifo, [Next]_vars
               PROVE  [Box!Next]_(Box!vars)
    OBVIOUS
  <1>1. CASE WriteablePop
    <2>1. /\ overlapped' \in {overlapped, overlapped \cup {cur[Lws]}}
          /\ PageState' = PageState /\ UNCHANGED <<pushed, written>>
          /\ cur[Lws] \in Clients
      BY <1>1 DEF WriteablePop, NoteOverlap, objVars, PageState, At, TypeInv, LwsAtHand
    <2> QED BY <2>1 DEF Box!vars, Box!Next, Box!Spoil
  <1>2. CASE UNCHANGED <<pushed, written, overlapped>>
    <2>1. CASE UNCHANGED PageState
      BY <1>2, <2>1 DEF Box!vars
    <2> QED BY <2>1, StateFrame, OpenStep, CloseStep
  <1> QED BY <1>1, <1>2, BufFrame, SendStep, DeliverStep

\* The server implements Outbox: what the page of a connection sees of its
\* queue, whichever threads push and whenever the service thread writes, is
\* an outbox of its own, in order while no two updates overlapped.
THEOREM ImplementsOutbox == Spec => OutboxKept
  <1>1. Init => Box!Init /\ UpgradedOpen /\ SentToOpened /\ QueuedWasSent /\ QueueFifo
    <2> SUFFICES ASSUME Init
                 PROVE  Box!Init /\ UpgradedOpen /\ SentToOpened /\ QueuedWasSent /\ QueueFifo
      OBVIOUS
    <2>1. Box!Init
      BY DEF Init, Box!Init, PageState
    <2>2. UpgradedOpen /\ SentToOpened /\ QueuedWasSent
      BY DEF Init, UpgradedOpen, SentToOpened, QueuedWasSent
    <2>3. QueueFifo
      BY ThreadFacts DEF Init, QueueFifo, Unwritten
    <2> QED BY <2>1, <2>2, <2>3
  <1> QED BY TypeInit, TypeStep, ServiceInit, ServiceStep, FifoStep, UpgradedStep,
             SentToStep, QueuedStep, BoxStep, <1>1, PTL DEF Spec, OutboxKept, Box!Spec
=============================================================================
