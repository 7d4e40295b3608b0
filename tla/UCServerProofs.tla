--------------------------- MODULE UCServerProofs ---------------------------
(***************************************************************************)
(* The safety of UCServer for every number of clients, connections, SDK    *)
(* threads and messages.  The invariant comes in three layers, each one    *)
(* inductive relative to the ones before it: what each thread has at hand, *)
(* who holds g_WSClientMtx and what that protects, and where an object     *)
(* stands between OnAccept and `delete this`.                              *)
(***************************************************************************)
EXTENDS UCServer, SequenceTheorems, TLAPS

-----------------------------------------------------------------------------
(* Layer 1: TypeOK, and what a thread's label says about its locals.       *)

ThreadAtHand(t) ==
    /\ pc[t] \in SendLabels => cur[t] \in Clients
    /\ pc[t] \in SendLabels \cup {"call", "recurse", "lock", "next"} =>
          msg[t] \in 1..MaxMsgs
    /\ pc[t] = "writable" => wsi[cur[t]] \in Wsis

LwsAtHand ==
    /\ pc[Lws] \in {"insert", "instance", "derived", "open", "pop",
                    "dtor", "dtorSDK", "dtorWS"} => cur[Lws] \in Clients
    /\ pc[Lws] \in {"insert", "instance", "derived", "open", "pop", "erase",
                    "dtor", "dtorSDK", "dtorWS", "free"} => lwsi \in Wsis
    /\ pc[Lws] = "pop" => m_sendBuf[cur[Lws]] # <<>>

TypeInv == TypeOK /\ LwsAtHand /\ \A t \in Threads : ThreadAtHand(t)

\* The threads: the service thread, the window thread and those of the SDK.
LEMMA ThreadFacts ==
    /\ Lws \in Threads
    /\ \A t \in Broadcasters : t \in Threads /\ t # Lws
    /\ \A t \in Threads : t # Lws => t \in Broadcasters
    /\ \A t \in SdkThreads : t \in Broadcasters /\ t # UI
    /\ \A t \in Broadcasters : t # UI => t \in SdkThreads
    /\ UI \in Broadcasters
    /\ Null \notin Clients /\ Null \notin Wsis /\ Null \notin Threads
    /\ MaxMsgs \in Nat
  BY ServerAssumption DEF Threads, Broadcasters

\* What push_back and erase do to the type of a message queue.
LEMMA BufSteps ==
    ASSUME NEW q \in [Clients -> Seq(1..MaxMsgs)], NEW c \in Clients,
           NEW m \in 1..MaxMsgs
    PROVE  /\ [q EXCEPT ![c] = Append(@, m)] \in [Clients -> Seq(1..MaxMsgs)]
           /\ Append(q[c], m) # <<>>
           /\ q[c] # <<>> =>
                /\ Head(q[c]) \in 1..MaxMsgs
                /\ [q EXCEPT ![c] = Tail(q[c])] \in [Clients -> Seq(1..MaxMsgs)]
  <1>1. Append(q[c], m) \in Seq(1..MaxMsgs) /\ Append(q[c], m) # <<>>
    BY AppendProperties
  <1>2. q[c] # <<>> => Head(q[c]) \in 1..MaxMsgs /\ Tail(q[c]) \in Seq(1..MaxMsgs)
    BY HeadTailProperties
  <1> QED BY <1>1, <1>2

\* Each group of types depends on its own variables only.
LEMMA Frame ==
    /\ ObjTypes /\ UNCHANGED objVars => ObjTypes'
    /\ BufTypes /\ UNCHANGED bufVars => BufTypes'
    /\ RegTypes /\ UNCHANGED regVars => RegTypes'
    /\ LwsTypes /\ UNCHANGED lwsVars => LwsTypes'
    /\ SendTypes /\ UNCHANGED sendVars => SendTypes'
    /\ ThreadTypes /\ UNCHANGED <<pc, cur>> => ThreadTypes'
  BY DEF ObjTypes, BufTypes, RegTypes, LwsTypes, SendTypes, ThreadTypes,
         objVars, bufVars, regVars, lwsVars, sendVars

\* The types hold at the start.
LEMMA TypeInit == Init => TypeInv
  BY ThreadFacts DEF Init, TypeInv, TypeOK, ThreadAtHand, LwsAtHand, ObjTypes,
     BufTypes, RegTypes, LwsTypes, SendTypes, ThreadTypes,
     LwsLabels, SendLabels, BroadcastLabels

\* The three steps of Send keep the types.
LEMMA TypeSend ==
    ASSUME TypeInv, NEW t \in Threads, Send(t)
    PROVE  TypeInv'
  <1> USE ThreadFacts DEF TypeInv, TypeOK, 
          LwsLabels, SendLabels, BroadcastLabels, At, Goto, Working
  <1>1. CASE Push(t)
    <2> USE <1>1 DEF Push, NoteOverlap, objVars, regVars, lwsVars, sendVars
    <2>0. cur[t] \in Clients /\ msg[t] \in 1..MaxMsgs BY DEF ThreadAtHand
    <2>1. BufTypes'
      <3>1. /\ [m_sendBuf EXCEPT ![cur[t]] = Append(@, msg[t])] \in [Clients -> Seq(1..MaxMsgs)]
            /\ [pushed EXCEPT ![cur[t]] = Append(@, msg[t])] \in [Clients -> Seq(1..MaxMsgs)]
        BY <2>0, BufSteps DEF BufTypes
      <3>2. (overlapped \subseteq Clients)' BY <2>0 DEF BufTypes
      <3>3. (m_sendBuf \in [Clients -> Seq(1..MaxMsgs)])' BY <3>1 DEF BufTypes
      <3>4. (pushed \in [Clients -> Seq(1..MaxMsgs)])' BY <3>1
      <3> QED BY <3>2, <3>3, <3>4 DEF BufTypes
    <2>4. ThreadTypes' BY DEF ThreadTypes
    <2>2. LwsAtHand' BY <2>0, BufSteps DEF LwsAtHand, ThreadTypes, BufTypes
    <2>3. (\A u \in Threads : ThreadAtHand(u))' BY DEF ThreadAtHand, ThreadTypes
    <2> QED BY <2>1, <2>2, <2>3, <2>4, Frame
  <1>2. CASE Find(t)
    <2> USE <1>2 DEF Find, SendReturn, Registered, objVars, bufVars, regVars, lwsVars, sendVars
    <2>0. cur[t] \in Clients BY DEF ThreadAtHand
    <2>1. ThreadTypes' BY DEF ThreadTypes
    <2>2. LwsAtHand' BY DEF LwsAtHand, ThreadTypes
    <2>3. (\A u \in Threads : ThreadAtHand(u))'
      BY DEF ThreadAtHand, ThreadTypes, ObjTypes, SendTypes
    <2>4. BufTypes' BY <2>0 DEF BufTypes
    <2>5. SendTypes' BY DEF SendTypes
    <2> QED BY <2>1, <2>2, <2>3, <2>4, <2>5, Frame
  <1>3. CASE Writable(t)
    <2> USE <1>3 DEF Writable, SendReturn, PollOut, objVars, bufVars, regVars, sendVars
    <2>1. LwsTypes' /\ ThreadTypes' BY DEF LwsTypes, ThreadTypes, ThreadAtHand
    <2>2. LwsAtHand' BY DEF LwsAtHand, ThreadTypes
    <2>3. (\A u \in Threads : ThreadAtHand(u))' BY DEF ThreadAtHand, ThreadTypes, SendTypes
    <2>4. SendTypes' BY DEF SendTypes
    <2> QED BY <2>1, <2>2, <2>3, <2>4, Frame
  <1> QED BY <1>1, <1>2, <1>3 DEF Send

\* OnAccept and the constructors.
LEMMA TypeAccept ==
    ASSUME TypeInv,
              (\E w \in Wsis, c \in Clients : Accept(w, c))
           \/ AcceptInsert
           \/ AcceptInstance
           \/ AcceptDerived
    PROVE  TypeInv'
  <1> USE ThreadFacts DEF TypeInv, TypeOK, LwsLabels, SendLabels,
          BroadcastLabels, At, Goto, Working, objVars, bufVars, regVars, lwsVars, sendVars
  <1>1. CASE \E w \in Wsis, c \in Clients : Accept(w, c)
    <2> PICK w \in Wsis, c \in Clients : Accept(w, c) BY <1>1
    <2> USE DEF Accept, Enter
    <2>1. ObjTypes' BY DEF ObjTypes, ThreadTypes, LwsAtHand, RegTypes
    <2>2. LwsTypes' BY DEF LwsTypes, ThreadTypes, LwsAtHand
    <2>3. ThreadTypes' BY DEF ThreadTypes, RegTypes, LwsAtHand
    <2>4. LwsAtHand' BY DEF LwsAtHand, ThreadTypes, RegTypes, ObjTypes, BufTypes
    <2>5. (\A u \in Threads : ThreadAtHand(u))' BY DEF ThreadAtHand, ThreadTypes, ObjTypes, SendTypes, RegTypes
    <2> QED BY <2>1, <2>2, <2>3, <2>4, <2>5, Frame
  <1>2. CASE AcceptInsert
    <2> USE <1>2 DEF AcceptInsert
    <2>1. RegTypes' BY DEF RegTypes, ThreadTypes, LwsAtHand, ObjTypes
    <2>2. ThreadTypes' BY DEF ThreadTypes, RegTypes, LwsAtHand
    <2>3. LwsAtHand' BY DEF LwsAtHand, ThreadTypes, RegTypes, ObjTypes, BufTypes
    <2>4. (\A u \in Threads : ThreadAtHand(u))' BY DEF ThreadAtHand, ThreadTypes, ObjTypes, SendTypes, RegTypes
    <2> QED BY <2>1, <2>2, <2>3, <2>4, Frame
  <1>3. CASE AcceptInstance
    <2> USE <1>3 DEF AcceptInstance
    <2>1. RegTypes' BY DEF RegTypes, ThreadTypes, LwsAtHand, ObjTypes
    <2>2. ThreadTypes' BY DEF ThreadTypes, RegTypes, LwsAtHand
    <2>3. LwsAtHand' BY DEF LwsAtHand, ThreadTypes, RegTypes, ObjTypes, BufTypes
    <2>4. (\A u \in Threads : ThreadAtHand(u))' BY DEF ThreadAtHand, ThreadTypes, ObjTypes, SendTypes, RegTypes
    <2> QED BY <2>1, <2>2, <2>3, <2>4, Frame
  <1>4. CASE AcceptDerived
    <2> USE <1>4 DEF AcceptDerived, Leave
    <2>1. ObjTypes' BY DEF ObjTypes, ThreadTypes, LwsAtHand, RegTypes
    <2>2. LwsTypes' BY DEF LwsTypes, ThreadTypes, LwsAtHand
    <2>3. ThreadTypes' BY DEF ThreadTypes, RegTypes, LwsAtHand
    <2>4. LwsAtHand' BY DEF LwsAtHand, ThreadTypes, RegTypes, ObjTypes, BufTypes
    <2>5. (\A u \in Threads : ThreadAtHand(u))' BY DEF ThreadAtHand, ThreadTypes, ObjTypes, SendTypes, RegTypes
    <2> QED BY <2>1, <2>2, <2>3, <2>4, <2>5, Frame
  <1> QED BY <1>1, <1>2, <1>3, <1>4

\* The callbacks of a connection while it lasts.
LEMMA TypeConnection ==
    ASSUME TypeInv,
              (\E w \in Wsis : TlsAccepted(w))
           \/ (\E w \in Wsis : Established(w))
           \/ OnOpen
           \/ (\E w \in Wsis : OnMessage(w))
           \/ (\E w \in Wsis : Writeable(w))
           \/ WriteablePop
           \/ (\E w \in Wsis : Dropped(w))
    PROVE  TypeInv'
  <1> USE ThreadFacts DEF TypeInv, TypeOK, LwsLabels, SendLabels,
          BroadcastLabels, At, Goto, Working, objVars, bufVars, regVars, lwsVars, sendVars
  <1>1. CASE \E w \in Wsis : TlsAccepted(w)
    <2> PICK w \in Wsis : TlsAccepted(w) BY <1>1
    <2> USE DEF TlsAccepted
    <2>1. LwsTypes' BY DEF LwsTypes, ThreadTypes, LwsAtHand
    <2>2. LwsAtHand' BY DEF LwsAtHand, ThreadTypes, RegTypes, ObjTypes, BufTypes
    <2>3. (\A u \in Threads : ThreadAtHand(u))' BY DEF ThreadAtHand, ThreadTypes, ObjTypes, SendTypes, RegTypes
    <2> QED BY <2>1, <2>2, <2>3, Frame
  <1>2. CASE \E w \in Wsis : Established(w)
    <2> PICK w \in Wsis : Established(w) BY <1>2
    <2> USE DEF Established, Enter
    <2>1. ObjTypes' BY DEF ObjTypes, ThreadTypes, LwsAtHand, RegTypes
    <2>2. LwsTypes' BY DEF LwsTypes, ThreadTypes, LwsAtHand
    <2>3. ThreadTypes' BY DEF ThreadTypes, RegTypes, LwsAtHand
    <2>4. LwsAtHand' BY DEF LwsAtHand, ThreadTypes, RegTypes, ObjTypes, BufTypes
    <2>5. (\A u \in Threads : ThreadAtHand(u))' BY DEF ThreadAtHand, ThreadTypes, ObjTypes, SendTypes, RegTypes
    <2> QED BY <2>1, <2>2, <2>3, <2>4, <2>5, Frame
  <1>3. CASE OnOpen
    <2> USE <1>3 DEF OnOpen, Leave, PollOut
    <2>1. RegTypes' BY DEF RegTypes, ThreadTypes, LwsAtHand, ObjTypes
    <2>2. LwsTypes' BY DEF LwsTypes, ThreadTypes, LwsAtHand
    <2>3. ThreadTypes' BY DEF ThreadTypes, RegTypes, LwsAtHand
    <2>4. LwsAtHand' BY DEF LwsAtHand, ThreadTypes, RegTypes, ObjTypes, BufTypes
    <2>5. (\A u \in Threads : ThreadAtHand(u))' BY DEF ThreadAtHand, ThreadTypes, ObjTypes, SendTypes, RegTypes
    <2> QED BY <2>1, <2>2, <2>3, <2>4, <2>5, Frame
  <1>4. CASE \E w \in Wsis : OnMessage(w)
    <2> PICK w \in Wsis : OnMessage(w) BY <1>4
    <2> USE DEF OnMessage
    <2>1. SendTypes' BY DEF SendTypes, RegTypes, ThreadTypes
    <2>2. ThreadTypes' BY DEF ThreadTypes, RegTypes, LwsAtHand
    <2>3. LwsAtHand' BY DEF LwsAtHand, ThreadTypes, RegTypes, ObjTypes, BufTypes
    <2>4. (\A u \in Threads : ThreadAtHand(u))' BY DEF ThreadAtHand, ThreadTypes, ObjTypes, SendTypes, RegTypes
    <2> QED BY <2>1, <2>2, <2>3, <2>4, Frame
  <1>5. CASE \E w \in Wsis : Writeable(w)
    <2> PICK w \in Wsis : Writeable(w) BY <1>5
    <2> USE DEF Writeable, Enter, Closing
    <2>1. BufTypes'
      <3>1. CASE UNCHANGED written
        BY <3>1 DEF BufTypes
      <3>2. CASE written' # written
        <4> DEFINE c == WSClientSet[w]
        <4>1. c \in Clients /\ m_sendBuf[c] # <<>>
          BY <3>2 DEF RegTypes
        <4>2. Head(m_sendBuf[c]) \in 1..MaxMsgs
          BY <4>1, HeadTailProperties DEF BufTypes
        <4>3. [written EXCEPT ![c] = Append(@, Head(m_sendBuf[c]))]
                 \in [Clients -> Seq(1..MaxMsgs)]
          BY <4>1, <4>2, BufSteps DEF BufTypes
        <4> QED BY <4>3, <3>2 DEF BufTypes
      <3> QED BY <3>1, <3>2
    <2>2. LwsTypes' BY DEF LwsTypes, ThreadTypes, LwsAtHand
    <2>3. ThreadTypes' BY DEF ThreadTypes, RegTypes, LwsAtHand
    <2>4. LwsAtHand' BY DEF LwsAtHand, ThreadTypes, RegTypes, ObjTypes, BufTypes
    <2>5. (\A u \in Threads : ThreadAtHand(u))' BY DEF ThreadAtHand, ThreadTypes, ObjTypes, SendTypes, RegTypes
    <2> QED BY <2>1, <2>2, <2>3, <2>4, <2>5, Frame
  <1>6. CASE WriteablePop
    <2> USE <1>6 DEF WriteablePop, Leave, PollOut, NoteOverlap
    <2>1. BufTypes'
      <3>1. cur[Lws] \in Clients /\ m_sendBuf[cur[Lws]] # <<>> BY DEF LwsAtHand
      <3>2. (overlapped \subseteq Clients)' BY <3>1 DEF BufTypes
      <3>3. Tail(m_sendBuf[cur[Lws]]) \in Seq(1..MaxMsgs)
        BY <3>1, HeadTailProperties DEF BufTypes
      <3>4. [m_sendBuf EXCEPT ![cur[Lws]] = Tail(@)] \in [Clients -> Seq(1..MaxMsgs)]
        BY <3>3 DEF BufTypes
      <3>5. (m_sendBuf \in [Clients -> Seq(1..MaxMsgs)])' BY <3>4 DEF BufTypes
      <3> QED BY <3>2, <3>5 DEF BufTypes
    <2>2. LwsTypes' BY DEF LwsTypes, ThreadTypes, LwsAtHand
    <2>3. ThreadTypes' BY DEF ThreadTypes, RegTypes, LwsAtHand
    <2>4. LwsAtHand' BY DEF LwsAtHand, ThreadTypes, RegTypes, ObjTypes, BufTypes
    <2>5. (\A u \in Threads : ThreadAtHand(u))' BY DEF ThreadAtHand, ThreadTypes, ObjTypes, SendTypes, RegTypes
    <2> QED BY <2>1, <2>2, <2>3, <2>4, <2>5, Frame
  <1>7. CASE \E w \in Wsis : Dropped(w)
    <2> PICK w \in Wsis : Dropped(w) BY <1>7
    <2> USE DEF Dropped, Closing
    <2>1. LwsTypes' BY DEF LwsTypes, ThreadTypes, LwsAtHand
    <2>2. LwsAtHand' BY DEF LwsAtHand, ThreadTypes, RegTypes, ObjTypes, BufTypes
    <2>3. (\A u \in Threads : ThreadAtHand(u))' BY DEF ThreadAtHand, ThreadTypes, ObjTypes, SendTypes, RegTypes
    <2> QED BY <2>1, <2>2, <2>3, Frame
  <1> QED BY <1>1, <1>2, <1>3, <1>4, <1>5, <1>6, <1>7

\* The end of a connection, of its object and of the server.
LEMMA TypeClose ==
    ASSUME TypeInv,
              (\E w \in Wsis : Closed(w) \/ ClosedHttp(w))
           \/ ClosedErase
           \/ DtorDerived
           \/ DtorSDK
           \/ DtorWS
           \/ FreeWsi
           \/ (\E w \in Wsis : ContextDestroy(w) \/ ShutdownEnds(w))
           \/ ListenEnds
    PROVE  TypeInv'
  <1> USE ThreadFacts DEF TypeInv, TypeOK, LwsLabels, SendLabels,
          BroadcastLabels, At, Goto, Working, objVars, bufVars, regVars, lwsVars, sendVars
  <1>1. CASE \E w \in Wsis : Closed(w) \/ ClosedHttp(w)
    <2> PICK w \in Wsis : Closed(w) \/ ClosedHttp(w) BY <1>1
    <2> USE DEF Closed, ClosedHttp, Enter
    <2>1. LwsTypes' BY DEF LwsTypes, ThreadTypes, LwsAtHand
    <2>2. ThreadTypes' BY DEF ThreadTypes, RegTypes, LwsAtHand
    <2>3. LwsAtHand' BY DEF LwsAtHand, ThreadTypes, RegTypes, ObjTypes, BufTypes
    <2>4. (\A u \in Threads : ThreadAtHand(u))' BY DEF ThreadAtHand, ThreadTypes, ObjTypes, SendTypes, RegTypes
    <2> QED BY <2>1, <2>2, <2>3, <2>4, Frame
  <1>2. CASE ClosedErase
    <2> USE <1>2 DEF ClosedErase
    <2>1. ObjTypes' BY DEF ObjTypes, ThreadTypes, LwsAtHand, RegTypes
    <2>2. RegTypes' BY DEF RegTypes, ThreadTypes, LwsAtHand, ObjTypes
    <2>3. ThreadTypes' BY DEF ThreadTypes, RegTypes, LwsAtHand
    <2>4. LwsAtHand' BY DEF LwsAtHand, ThreadTypes, RegTypes, ObjTypes, BufTypes
    <2>5. (\A u \in Threads : ThreadAtHand(u))' BY DEF ThreadAtHand, ThreadTypes, ObjTypes, SendTypes, RegTypes
    <2>6. BufTypes' BY DEF BufTypes
    <2> QED BY <2>1, <2>2, <2>3, <2>4, <2>5, <2>6, Frame
  <1>3. CASE DtorDerived
    <2> USE <1>3 DEF DtorDerived
    <2>1. ObjTypes' BY DEF ObjTypes, ThreadTypes, LwsAtHand, RegTypes
    <2>2. RegTypes' BY DEF RegTypes, ThreadTypes, LwsAtHand, ObjTypes
    <2>3. ThreadTypes' BY DEF ThreadTypes, RegTypes, LwsAtHand
    <2>4. LwsAtHand' BY DEF LwsAtHand, ThreadTypes, RegTypes, ObjTypes, BufTypes
    <2>5. (\A u \in Threads : ThreadAtHand(u))' BY DEF ThreadAtHand, ThreadTypes, ObjTypes, SendTypes, RegTypes
    <2> QED BY <2>1, <2>2, <2>3, <2>4, <2>5, Frame
  <1>4. CASE DtorSDK
    <2> USE <1>4 DEF DtorSDK
    <2>1. RegTypes' BY DEF RegTypes, ThreadTypes, LwsAtHand, ObjTypes
    <2>2. ThreadTypes' BY DEF ThreadTypes, RegTypes, LwsAtHand
    <2>3. LwsAtHand' BY DEF LwsAtHand, ThreadTypes, RegTypes, ObjTypes, BufTypes
    <2>4. (\A u \in Threads : ThreadAtHand(u))' BY DEF ThreadAtHand, ThreadTypes, ObjTypes, SendTypes, RegTypes
    <2> QED BY <2>1, <2>2, <2>3, <2>4, Frame
  <1>5. CASE DtorWS
    <2> USE <1>5 DEF DtorWS
    <2>1. ObjTypes' BY DEF ObjTypes, ThreadTypes, LwsAtHand, RegTypes
    <2>2. RegTypes' BY DEF RegTypes, ThreadTypes, LwsAtHand, ObjTypes
    <2>3. ThreadTypes' BY DEF ThreadTypes, RegTypes, LwsAtHand
    <2>4. LwsAtHand' BY DEF LwsAtHand, ThreadTypes, RegTypes, ObjTypes, BufTypes
    <2>5. (\A u \in Threads : ThreadAtHand(u))' BY DEF ThreadAtHand, ThreadTypes, ObjTypes, SendTypes, RegTypes
    <2> QED BY <2>1, <2>2, <2>3, <2>4, <2>5, Frame
  <1>6. CASE FreeWsi
    <2> USE <1>6 DEF FreeWsi, Leave
    <2>1. LwsTypes' BY DEF LwsTypes, ThreadTypes, LwsAtHand
    <2>2. ThreadTypes' BY DEF ThreadTypes, RegTypes, LwsAtHand
    <2>3. LwsAtHand' BY DEF LwsAtHand, ThreadTypes, RegTypes, ObjTypes, BufTypes
    <2>4. (\A u \in Threads : ThreadAtHand(u))' BY DEF ThreadAtHand, ThreadTypes, ObjTypes, SendTypes, RegTypes
    <2> QED BY <2>1, <2>2, <2>3, <2>4, Frame
  <1>7. CASE \E w \in Wsis : ContextDestroy(w) \/ ShutdownEnds(w)
    <2> PICK w \in Wsis : ContextDestroy(w) \/ ShutdownEnds(w) BY <1>7
    <2> USE DEF ContextDestroy, ShutdownEnds
    <2>1. LwsTypes' BY DEF LwsTypes, ThreadTypes, LwsAtHand
    <2>2. LwsAtHand' BY DEF LwsAtHand, ThreadTypes, RegTypes, ObjTypes, BufTypes
    <2>3. (\A u \in Threads : ThreadAtHand(u))' BY DEF ThreadAtHand, ThreadTypes, ObjTypes, SendTypes, RegTypes
    <2> QED BY <2>1, <2>2, <2>3, Frame
  <1>8. CASE ListenEnds
    <2> USE <1>8 DEF ListenEnds
    <2>1. ThreadTypes' BY DEF ThreadTypes, RegTypes, LwsAtHand
    <2>2. LwsAtHand' BY DEF LwsAtHand, ThreadTypes, RegTypes, ObjTypes, BufTypes
    <2>3. (\A u \in Threads : ThreadAtHand(u))' BY DEF ThreadAtHand, ThreadTypes, ObjTypes, SendTypes, RegTypes
    <2> QED BY <2>1, <2>2, <2>3, Frame
  <1> QED BY <1>1, <1>2, <1>3, <1>4, <1>5, <1>6, <1>7, <1>8

\* The thunks of the SDK callbacks.
LEMMA TypeThunk ==
    ASSUME TypeInv, NEW t \in SdkThreads,
              (\E e \in Events \cap SdkEvents : SdkEvent(t, e))
           \/ SdkEventDropped(t)
           \/ SdkCall(t)
           \/ SwitchReturns(t)
           \/ SwitchOverflows(t)
    PROVE  TypeInv'
  <1> USE ThreadFacts DEF TypeInv, TypeOK, LwsLabels, SendLabels,
          BroadcastLabels, At, Goto, Working, objVars, bufVars, regVars, lwsVars, sendVars
  <1>1. CASE \E e \in Events \cap SdkEvents : SdkEvent(t, e)
    <2> PICK e \in Events \cap SdkEvents : SdkEvent(t, e) BY <1>1
    <2> USE DEF SdkEvent
    <2>1. SendTypes' BY ServerAssumption DEF SendTypes, RegTypes, ThreadTypes
    <2>2. ThreadTypes' BY DEF ThreadTypes, RegTypes, LwsAtHand
    <2>3. LwsAtHand' BY DEF LwsAtHand, ThreadTypes, RegTypes, ObjTypes, BufTypes
    <2>4. (\A u \in Threads : ThreadAtHand(u))' BY DEF ThreadAtHand, ThreadTypes, ObjTypes, SendTypes, RegTypes
    <2> QED BY <2>1, <2>2, <2>3, <2>4, Frame
  <1>2. CASE SdkEventDropped(t)
    <2> USE <1>2 DEF SdkEventDropped
    <2>1. SendTypes' BY DEF SendTypes, RegTypes, ThreadTypes
    <2>2. LwsAtHand' BY DEF LwsAtHand, ThreadTypes, RegTypes, ObjTypes, BufTypes
    <2>3. (\A u \in Threads : ThreadAtHand(u))' BY DEF ThreadAtHand, ThreadTypes, ObjTypes, SendTypes, RegTypes
    <2> QED BY <2>1, <2>2, <2>3, Frame
  <1>3. CASE SdkCall(t)
    <2> USE <1>3 DEF SdkCall, HandlerEntry, Callable
    <2>1. SendTypes' BY DEF SendTypes, RegTypes, ThreadTypes
    <2>2. ThreadTypes' BY DEF ThreadTypes, RegTypes, LwsAtHand
    <2>3. LwsAtHand' BY DEF LwsAtHand, ThreadTypes, RegTypes, ObjTypes, BufTypes
    <2>4. (\A u \in Threads : ThreadAtHand(u))' BY DEF ThreadAtHand, ThreadTypes, ObjTypes, SendTypes, RegTypes
    <2> QED BY <2>1, <2>2, <2>3, <2>4, Frame
  <1>4. CASE SwitchReturns(t)
    <2> USE <1>4 DEF SwitchReturns, HandlerReturns
    <2>1. SendTypes' BY DEF SendTypes, RegTypes, ThreadTypes
    <2>2. ThreadTypes' BY DEF ThreadTypes, RegTypes, LwsAtHand
    <2>3. LwsAtHand' BY DEF LwsAtHand, ThreadTypes, RegTypes, ObjTypes, BufTypes
    <2>4. (\A u \in Threads : ThreadAtHand(u))' BY DEF ThreadAtHand, ThreadTypes, ObjTypes, SendTypes, RegTypes
    <2> QED BY <2>1, <2>2, <2>3, <2>4, Frame
  <1>5. CASE SwitchOverflows(t)
    <2> USE <1>5 DEF SwitchOverflows
    <2>1. LwsAtHand' BY DEF LwsAtHand, ThreadTypes, RegTypes, ObjTypes, BufTypes
    <2>2. (\A u \in Threads : ThreadAtHand(u))' BY DEF ThreadAtHand, ThreadTypes, ObjTypes, SendTypes, RegTypes
    <2> QED BY <2>1, <2>2, Frame
  <1> QED BY <1>1, <1>2, <1>3, <1>4, <1>5

\* The broadcast loop.
LEMMA TypeBroadcast ==
    ASSUME TypeInv, NEW t \in Broadcasters,
              BroadcastLock(t)
           \/ BroadcastNext(t)
           \/ BroadcastEnd(t)
    PROVE  TypeInv'
  <1> USE ThreadFacts DEF TypeInv, TypeOK, LwsLabels, SendLabels,
          BroadcastLabels, At, Goto, Working, objVars, bufVars, regVars, lwsVars, sendVars
  <1>1. CASE BroadcastLock(t)
    <2> USE <1>1 DEF BroadcastLock
    <2>1. ThreadTypes' BY DEF ThreadTypes, RegTypes, LwsAtHand
    <2>2. LwsAtHand' BY DEF LwsAtHand, ThreadTypes, RegTypes, ObjTypes, BufTypes
    <2>3. (\A u \in Threads : ThreadAtHand(u))' BY DEF ThreadAtHand, ThreadTypes, ObjTypes, SendTypes, RegTypes
    <2> QED BY <2>1, <2>2, <2>3, Frame
  <1>2. CASE BroadcastNext(t)
    <2> USE <1>2 DEF BroadcastNext
    <2>1. SendTypes' BY DEF SendTypes, RegTypes, ThreadTypes
    <2>2. ThreadTypes' BY DEF ThreadTypes, RegTypes, LwsAtHand
    <2>3. LwsAtHand' BY DEF LwsAtHand, ThreadTypes, RegTypes, ObjTypes, BufTypes
    <2>4. (\A u \in Threads : ThreadAtHand(u))' BY DEF ThreadAtHand, ThreadTypes, ObjTypes, SendTypes, RegTypes
    <2> QED BY <2>1, <2>2, <2>3, <2>4, Frame
  <1>3. CASE BroadcastEnd(t)
    <2> USE <1>3 DEF BroadcastEnd, HandlerReturns
    <2>1. SendTypes' BY DEF SendTypes, RegTypes, ThreadTypes
    <2>2. ThreadTypes' BY DEF ThreadTypes, RegTypes, LwsAtHand
    <2>3. LwsAtHand' BY DEF LwsAtHand, ThreadTypes, RegTypes, ObjTypes, BufTypes
    <2>4. (\A u \in Threads : ThreadAtHand(u))' BY DEF ThreadAtHand, ThreadTypes, ObjTypes, SendTypes, RegTypes
    <2> QED BY <2>1, <2>2, <2>3, <2>4, Frame
  <1> QED BY <1>1, <1>2, <1>3

\* The window thread, crashes, and steps that change nothing.
LEMMA TypeRest ==
    ASSUME TypeInv,
              OnSessionChange \/ WSStop \/ WSJoined
           \/ (\E t \in Threads : UndefinedBehaviour(t)) \/ UNCHANGED vars
    PROVE  TypeInv'
  <1> USE ThreadFacts DEF TypeInv, TypeOK, LwsLabels, SendLabels,
          BroadcastLabels, At, Goto, objVars, bufVars, regVars, lwsVars, sendVars
  <1>1. CASE OnSessionChange
    <2> USE <1>1 DEF OnSessionChange
    <2>1. SendTypes' /\ ThreadTypes' BY DEF SendTypes, ThreadTypes, SessionEvents
    <2>2. LwsAtHand' BY DEF LwsAtHand, ThreadTypes
    <2>3. (\A u \in Threads : ThreadAtHand(u))' BY DEF ThreadAtHand, ThreadTypes, SendTypes
    <2> QED BY <2>1, <2>2, <2>3, Frame
  <1>2. CASE WSStop \/ WSJoined
    <2> USE <1>2 DEF WSStop, WSJoined
    <2>1. ThreadTypes' BY DEF ThreadTypes
    <2>2. LwsAtHand' BY DEF LwsAtHand, ThreadTypes
    <2>3. (\A u \in Threads : ThreadAtHand(u))' BY DEF ThreadAtHand, ThreadTypes
    <2> QED BY <2>1, <2>2, <2>3, Frame
  <1>3. CASE \E t \in Threads : UndefinedBehaviour(t)
    <2> USE <1>3 DEF UndefinedBehaviour
    <2>1. LwsAtHand' BY DEF LwsAtHand
    <2>2. (\A u \in Threads : ThreadAtHand(u))' BY DEF ThreadAtHand
    <2> QED BY <2>1, <2>2, Frame
  <1>4. CASE UNCHANGED vars
    <2> USE <1>4 DEF vars
    <2>1. LwsAtHand' BY DEF LwsAtHand
    <2>2. (\A u \in Threads : ThreadAtHand(u))' BY DEF ThreadAtHand
    <2> QED BY <2>1, <2>2, Frame
  <1> QED BY <1>1, <1>2, <1>3, <1>4

\* No step breaks layer 1.
LEMMA TypeStep == TypeInv /\ [Next]_vars => TypeInv'
  <1> SUFFICES ASSUME TypeInv, [Next]_vars PROVE TypeInv'
    OBVIOUS
  <1>1. CASE Environment
    BY <1>1, TypeAccept, TypeConnection, TypeClose, TypeThunk, TypeRest, ThreadFacts DEF Environment
  <1>2. CASE Service
    BY <1>2, TypeAccept, TypeConnection, TypeClose, TypeSend, ThreadFacts DEF Service
  <1>3. CASE \E t \in Broadcasters : Broadcast(t)
    BY <1>3, TypeBroadcast, TypeSend, ThreadFacts DEF Broadcast
  <1>4. CASE \E t \in SdkThreads : Thunk(t)
    BY <1>4, TypeThunk DEF Thunk
  <1>5. CASE WSJoined \/ (\E t \in Threads : UndefinedBehaviour(t)) \/ Finished \/ UNCHANGED vars
    BY <1>5, TypeRest DEF Finished
  <1> QED BY <1>1, <1>2, <1>3, <1>4, <1>5 DEF Next

\* Every variable keeps its type in every behaviour, whatever the interleaving
\* of the three kinds of threads.
THEOREM TypeCorrect == Spec => []TypeOK
  <1>1. TypeInv => TypeOK
    BY DEF TypeInv
  <1> QED BY TypeInit, TypeStep, <1>1, PTL DEF Spec

-----------------------------------------------------------------------------
(* Layer 2: the mutex is held exactly inside the loops of the handlers that *)
(* take it, and the object such a loop is at stays in the list.             *)

Holding(t) == pc[t] \in SendLabels \cup {"next"} /\ event[t] \notin UnlockedEvents

LockInv ==
    /\ \A t \in Broadcasters :
          /\ g_WSClientMtx = t <=> Holding(t)
          /\ pc[t] = "lock" => event[t] \notin UnlockedEvents
          /\ pc[t] \in {"idle", "call", "recurse", "lock"} => cur[t] = Null
    /\ \A t \in Broadcasters :
          g_WSClientMtx = t /\ cur[t] # Null => cur[t] \in g_WSClientSet

\* Every step of the Lws thread.
LwsStep ==
    \/ Service
    \/ \E w \in Wsis : \/ \E c \in Clients : Accept(w, c)
                       \/ TlsAccepted(w) \/ Established(w)
                       \/ OnMessage(w) \/ Dropped(w) \/ ClosedHttp(w)

\* The Lws thread leaves the broadcasters and the mutex alone, and unlists an
\* object only while nobody holds the mutex.
LEMMA LwsFrame ==
    ASSUME TypeInv, LwsStep
    PROVE  /\ UNCHANGED <<g_WSClientMtx, event>>
           /\ \A t \in Broadcasters : pc'[t] = pc[t] /\ cur'[t] = cur[t]
           /\ g_WSClientSet \subseteq g_WSClientSet' \/ g_WSClientMtx = Null
  <1> USE ThreadFacts DEF TypeInv, TypeOK, ThreadTypes, Goto, Working, regVars, sendVars
  <1>1. CASE \E w \in Wsis, c \in Clients : Accept(w, c)
    BY <1>1 DEF Accept, Enter
  <1>2. CASE AcceptInsert \/ AcceptInstance \/ AcceptDerived
    BY <1>2 DEF AcceptInsert, AcceptInstance, AcceptDerived, Leave
  <1>3. CASE \E w \in Wsis : TlsAccepted(w) \/ Established(w) \/ OnMessage(w) \/ Dropped(w) \/ ClosedHttp(w)
    BY <1>3 DEF TlsAccepted, Established, OnMessage, Dropped, ClosedHttp, Enter
  <1>4. CASE OnOpen \/ WriteablePop
    BY <1>4 DEF OnOpen, WriteablePop, Leave
  <1>5. CASE Send(Lws)
    BY <1>5 DEF Send, Push, Find, Writable, SendReturn
  <1>6. CASE \E w \in Wsis : Writeable(w) \/ Closed(w) \/ ShutdownEnds(w) \/ ContextDestroy(w)
    BY <1>6 DEF Writeable, Closed, ShutdownEnds, ContextDestroy, Enter
  <1>7. CASE ClosedErase \/ DtorDerived \/ DtorSDK \/ DtorWS \/ FreeWsi \/ ListenEnds
    BY <1>7 DEF ClosedErase, DtorDerived, DtorSDK, DtorWS, FreeWsi, ListenEnds, Leave
  <1> QED BY <1>1, <1>2, <1>3, <1>4, <1>5, <1>6, <1>7 DEF LwsStep, Service

\* Nobody holds the mutex at the start.
LEMMA LockInit == Init => LockInv
  BY ThreadFacts DEF Init, LockInv, Holding, SendLabels

\* A step of one broadcaster disturbs only its own part of LockInv.
LEMMA LockBroadcaster ==
    ASSUME TypeInv, LockInv, NEW t \in Broadcasters,
              Broadcast(t) \/ (t \in SdkThreads /\ Thunk(t))
           \/ (\E e \in Events \cap SdkEvents : t \in SdkThreads /\ SdkEvent(t, e))
           \/ (t \in SdkThreads /\ SdkEventDropped(t))
           \/ (t = UI /\ (OnSessionChange \/ WSStop \/ WSJoined))
    PROVE  LockInv'
  <1> USE ThreadFacts DEF TypeInv, TypeOK, ThreadTypes, SendTypes, LockInv, Holding, SendLabels,
          At, Goto, Working, regVars, sendVars
  <1>1. CASE Send(t)
    BY <1>1 DEF Send, Push, Find, Writable, SendReturn
  <1>2. CASE BroadcastLock(t)
    BY <1>2 DEF BroadcastLock
  <1>3. CASE BroadcastNext(t)
    BY <1>3 DEF BroadcastNext
  <1>4. CASE BroadcastEnd(t)
    BY <1>4 DEF BroadcastEnd, HandlerReturns
  <1>5. CASE t \in SdkThreads /\ SdkCall(t)
    BY <1>5 DEF SdkCall, HandlerEntry, RecursiveEvents, UnlockedEvents
  <1>6. CASE t \in SdkThreads /\ (SwitchReturns(t) \/ SwitchOverflows(t))
    BY <1>6 DEF SwitchReturns, SwitchOverflows, HandlerReturns
  <1>7. CASE t \in SdkThreads /\ \E e \in Events \cap SdkEvents : SdkEvent(t, e)
    BY <1>7 DEF SdkEvent
  <1>8. CASE t \in SdkThreads /\ SdkEventDropped(t)
    BY <1>8 DEF SdkEventDropped
  <1>9. CASE t = UI /\ OnSessionChange
    BY <1>9 DEF OnSessionChange, UnlockedEvents
  <1>10. CASE t = UI /\ (WSStop \/ WSJoined)
    BY <1>10 DEF WSStop, WSJoined
  <1> QED BY <1>1, <1>2, <1>3, <1>4, <1>5, <1>6, <1>7, <1>8, <1>9, <1>10 DEF Broadcast, Thunk

\* Every step keeps LockInv.
LEMMA LockStep == TypeInv /\ LockInv /\ [Next]_vars => LockInv'
  <1> SUFFICES ASSUME TypeInv, LockInv, [Next]_vars PROVE LockInv'
    OBVIOUS
  <1>1. CASE LwsStep
    BY <1>1, LwsFrame, ThreadFacts DEF LockInv, Holding
  <1>2. CASE Environment
    BY <1>1, <1>2, LockBroadcaster, ThreadFacts DEF Environment, LwsStep
  <1>3. CASE (\E t \in Broadcasters : Broadcast(t)) \/ (\E t \in SdkThreads : Thunk(t)) \/ WSJoined
    BY <1>3, LockBroadcaster, ThreadFacts
  <1>4. CASE (\E t \in Threads : UndefinedBehaviour(t)) \/ Finished \/ UNCHANGED vars
    BY <1>4 DEF UndefinedBehaviour, Finished, vars, regVars, sendVars, LockInv, Holding
  <1> QED BY <1>1, <1>2, <1>3, <1>4 DEF Next, LwsStep

-----------------------------------------------------------------------------
(* Layer 3: an object from OnAccept to the end of its destructor.          *)

\* What the Lws thread knows at each label of a callback.
InCallback ==
    /\ pc[Lws] \in {"loop", "done"} \cup SendLabels => lwsi = Null
    /\ pc[Lws] \in {"insert", "instance", "derived"} =>
          /\ obj[cur[Lws]] = "ctor" /\ wsi[cur[Lws]] = lwsi
          /\ m_state[cur[Lws]] = "CONNECTING"
    /\ pc[Lws] \in {"instance", "derived"} => WSClientSet[lwsi] # Null
    /\ pc[Lws] \in {"open", "pop"} => WSClientSet[lwsi] = cur[Lws]
    /\ pc[Lws] = "open" => m_state[cur[Lws]] = "OPEN"
    /\ pc[Lws] = "erase" => WSClientSet[lwsi] = cur[Lws]
    /\ pc[Lws] \in {"erase", "dtor"} => conn[lwsi] \in {"closing", "shutdown"}
    /\ pc[Lws] \in {"dtor", "dtorSDK", "dtorWS"} => wsi[cur[Lws]] = lwsi
    /\ pc[Lws] \in {"dtor", "dtorSDK", "dtorWS", "free"} => WSClientSet[lwsi] = Null
    /\ pc[Lws] = "dtor" => obj[cur[Lws]] = "live"
    /\ pc[Lws] \in {"dtorSDK", "dtorWS"} => obj[cur[Lws]] = "dtor"
    /\ pc[Lws] = "dtorWS" => g_Instance = Null

Untouched ==
    \A c \in Clients : obj[c] = "none" => m_state[c] = "CONNECTING"

\* An object is under construction only while the Lws thread is at it.
UnderConstruction ==
    \A c \in Clients : obj[c] = "ctor" =>
        pc[Lws] \in {"insert", "instance", "derived"} /\ cur[Lws] = c

\* An intact object that has been open still has its connection, and its
\* registration until the Lws thread waits in its destructor.
OpenedConnected ==
    \A c \in Clients : obj[c] = "live" /\ m_state[c] # "CONNECTING" =>
        /\ wsi[c] \in Wsis
        /\ \/ WSClientSet[wsi[c]] = c /\ conn[wsi[c]] \in {"ws", "closing"}
           \/ /\ pc[Lws] = "dtor" /\ cur[Lws] = c
              /\ conn[wsi[c]] \in {"closing", "shutdown"}

ListedOpened ==
    \A c \in g_WSClientSet : obj[c] = "live" /\ m_state[c] # "CONNECTING"

ServiceInv ==
    /\ InCallback /\ Untouched /\ UnderConstruction
    /\ OpenedConnected /\ ListedOpened
    /\ RegistrySound /\ EveryConnectionServed /\ InstanceSound /\ StoppedClean

\* No object exists at the start.
LEMMA ServiceInit == Init => ServiceInv
  BY ThreadFacts DEF Init, ServiceInv, InCallback, Untouched, UnderConstruction,
     OpenedConnected, ListedOpened, RegistrySound, EveryConnectionServed,
     InstanceSound, StoppedClean, SendLabels

\* OnAccept and the constructors.
LEMMA ServiceAccept ==
    ASSUME TypeInv, ServiceInv,
              (\E w \in Wsis, c \in Clients : Accept(w, c))
           \/ AcceptInsert
           \/ AcceptInstance
           \/ AcceptDerived
    PROVE  ServiceInv'
  <1> USE ThreadFacts DEF TypeInv, TypeOK, LwsAtHand, ObjTypes, RegTypes, LwsTypes, ThreadTypes,
          ServiceInv, InCallback, Untouched, UnderConstruction, OpenedConnected, ListedOpened,
          RegistrySound, EveryConnectionServed, InstanceSound, StoppedClean,
          SendLabels, LwsLabels, At, Goto, Working, objVars, regVars, lwsVars
  <1>1. CASE \E w \in Wsis, c \in Clients : Accept(w, c)
    <2> PICK w \in Wsis, c \in Clients : Accept(w, c) BY <1>1
    <2> USE DEF Accept, Enter
    <2>1. InCallback' OBVIOUS
    <2>2. Untouched' /\ UnderConstruction' /\ OpenedConnected' /\ ListedOpened' OBVIOUS
    <2>3. RegistrySound' /\ EveryConnectionServed' /\ InstanceSound' /\ StoppedClean' OBVIOUS
    <2> QED BY <2>1, <2>2, <2>3
  <1>2. CASE AcceptInsert
    <2> USE <1>2 DEF AcceptInsert
    <2>1. InCallback' OBVIOUS
    <2>2. Untouched' /\ UnderConstruction' /\ OpenedConnected' /\ ListedOpened' OBVIOUS
    <2>3. RegistrySound' /\ EveryConnectionServed' /\ InstanceSound' /\ StoppedClean' OBVIOUS
    <2> QED BY <2>1, <2>2, <2>3
  <1>3. CASE AcceptInstance
    <2> USE <1>3 DEF AcceptInstance
    <2>1. InCallback' OBVIOUS
    <2>2. Untouched' /\ UnderConstruction' /\ OpenedConnected' /\ ListedOpened' OBVIOUS
    <2>3. RegistrySound' /\ EveryConnectionServed' /\ InstanceSound' /\ StoppedClean' OBVIOUS
    <2> QED BY <2>1, <2>2, <2>3
  <1>4. CASE AcceptDerived
    <2> USE <1>4 DEF AcceptDerived, Leave
    <2>1. InCallback' OBVIOUS
    <2>2. Untouched' /\ UnderConstruction' /\ OpenedConnected' /\ ListedOpened' OBVIOUS
    <2>3. RegistrySound' /\ EveryConnectionServed' /\ InstanceSound' /\ StoppedClean' OBVIOUS
    <2> QED BY <2>1, <2>2, <2>3
  <1> QED BY <1>1, <1>2, <1>3, <1>4

\* The callbacks of a connection while it lasts.
LEMMA ServiceConnection ==
    ASSUME TypeInv, ServiceInv,
              (\E w \in Wsis : TlsAccepted(w))
           \/ (\E w \in Wsis : Established(w))
           \/ OnOpen
           \/ (\E w \in Wsis : OnMessage(w))
           \/ Send(Lws)
           \/ (\E w \in Wsis : Writeable(w))
           \/ WriteablePop
           \/ (\E w \in Wsis : Dropped(w))
    PROVE  ServiceInv'
  <1> USE ThreadFacts DEF TypeInv, TypeOK, LwsAtHand, ObjTypes, RegTypes, LwsTypes, ThreadTypes,
          ServiceInv, InCallback, Untouched, UnderConstruction, OpenedConnected, ListedOpened,
          RegistrySound, EveryConnectionServed, InstanceSound, StoppedClean,
          SendLabels, LwsLabels, At, Goto, Working, objVars, regVars, lwsVars
  <1>1. CASE \E w \in Wsis : TlsAccepted(w)
    <2> PICK w \in Wsis : TlsAccepted(w) BY <1>1
    <2> USE DEF TlsAccepted
    <2>1. InCallback' OBVIOUS
    <2>2. Untouched' /\ UnderConstruction' /\ OpenedConnected' /\ ListedOpened' OBVIOUS
    <2>3. RegistrySound' /\ EveryConnectionServed' /\ InstanceSound' /\ StoppedClean' OBVIOUS
    <2> QED BY <2>1, <2>2, <2>3
  <1>2. CASE \E w \in Wsis : Established(w)
    <2> PICK w \in Wsis : Established(w) BY <1>2
    <2> USE DEF Established, Enter
    <2>1. InCallback' OBVIOUS
    <2>2. Untouched' /\ UnderConstruction' /\ OpenedConnected' /\ ListedOpened' OBVIOUS
    <2>3. RegistrySound' /\ EveryConnectionServed' /\ InstanceSound' /\ StoppedClean' OBVIOUS
    <2> QED BY <2>1, <2>2, <2>3
  <1>3. CASE OnOpen
    <2> USE <1>3 DEF OnOpen, Leave, PollOut
    <2>1. InCallback' OBVIOUS
    <2>2. Untouched' /\ UnderConstruction' /\ OpenedConnected' /\ ListedOpened' OBVIOUS
    <2>3. RegistrySound' /\ EveryConnectionServed' /\ InstanceSound' /\ StoppedClean' OBVIOUS
    <2> QED BY <2>1, <2>2, <2>3
  <1>4. CASE \E w \in Wsis : OnMessage(w)
    <2> PICK w \in Wsis : OnMessage(w) BY <1>4
    <2> USE DEF OnMessage
    <2>1. InCallback' OBVIOUS
    <2>2. Untouched' /\ UnderConstruction' /\ OpenedConnected' /\ ListedOpened' OBVIOUS
    <2>3. RegistrySound' /\ EveryConnectionServed' /\ InstanceSound' /\ StoppedClean' OBVIOUS
    <2> QED BY <2>1, <2>2, <2>3
  <1>5. CASE Send(Lws)
    <2> USE <1>5 DEF Send, Push, Find, Writable, SendReturn
    <2>1. InCallback' OBVIOUS
    <2>2. Untouched' /\ UnderConstruction' /\ OpenedConnected' /\ ListedOpened' OBVIOUS
    <2>3. RegistrySound' /\ EveryConnectionServed' /\ InstanceSound' /\ StoppedClean' OBVIOUS
    <2> QED BY <2>1, <2>2, <2>3
  <1>6. CASE \E w \in Wsis : Writeable(w)
    <2> PICK w \in Wsis : Writeable(w) BY <1>6
    <2> USE DEF Writeable, Enter, Closing
    <2>1. InCallback' OBVIOUS
    <2>2. Untouched' /\ UnderConstruction' /\ OpenedConnected' /\ ListedOpened' OBVIOUS
    <2>3. RegistrySound' /\ EveryConnectionServed' /\ InstanceSound' /\ StoppedClean' OBVIOUS
    <2> QED BY <2>1, <2>2, <2>3
  <1>7. CASE WriteablePop
    <2> USE <1>7 DEF WriteablePop, Leave
    <2>1. InCallback' OBVIOUS
    <2>2. Untouched' /\ UnderConstruction' /\ OpenedConnected' /\ ListedOpened' OBVIOUS
    <2>3. RegistrySound' /\ EveryConnectionServed' /\ InstanceSound' /\ StoppedClean' OBVIOUS
    <2> QED BY <2>1, <2>2, <2>3
  <1>8. CASE \E w \in Wsis : Dropped(w)
    <2> PICK w \in Wsis : Dropped(w) BY <1>8
    <2> USE DEF Dropped, Closing
    <2>1. InCallback' OBVIOUS
    <2>2. Untouched' /\ UnderConstruction' /\ OpenedConnected' /\ ListedOpened' OBVIOUS
    <2>3. RegistrySound' /\ EveryConnectionServed' /\ InstanceSound' /\ StoppedClean' OBVIOUS
    <2> QED BY <2>1, <2>2, <2>3
  <1> QED BY <1>1, <1>2, <1>3, <1>4, <1>5, <1>6, <1>7, <1>8

\* The end of a connection, of its object and of the server.
LEMMA ServiceClose ==
    ASSUME TypeInv, ServiceInv,
              (\E w \in Wsis : Closed(w) \/ ClosedHttp(w))
           \/ ClosedErase
           \/ DtorDerived
           \/ DtorSDK
           \/ DtorWS
           \/ FreeWsi
           \/ (\E w \in Wsis : ContextDestroy(w) \/ ShutdownEnds(w))
           \/ ListenEnds
    PROVE  ServiceInv'
  <1> USE ThreadFacts DEF TypeInv, TypeOK, LwsAtHand, ObjTypes, RegTypes, LwsTypes, ThreadTypes,
          ServiceInv, InCallback, Untouched, UnderConstruction, OpenedConnected, ListedOpened,
          RegistrySound, EveryConnectionServed, InstanceSound, StoppedClean,
          SendLabels, LwsLabels, At, Goto, Working, objVars, regVars, lwsVars
  <1>1. CASE \E w \in Wsis : Closed(w) \/ ClosedHttp(w)
    <2> PICK w \in Wsis : Closed(w) \/ ClosedHttp(w) BY <1>1
    <2> USE DEF Closed, ClosedHttp, Enter
    <2>1. InCallback' OBVIOUS
    <2>2. Untouched' /\ UnderConstruction' /\ OpenedConnected' /\ ListedOpened' OBVIOUS
    <2>3. RegistrySound' /\ EveryConnectionServed' /\ InstanceSound' /\ StoppedClean' OBVIOUS
    <2> QED BY <2>1, <2>2, <2>3
  <1>2. CASE ClosedErase
    <2> USE <1>2 DEF ClosedErase
    <2>1. InCallback' OBVIOUS
    <2>2. Untouched' /\ UnderConstruction' /\ OpenedConnected' /\ ListedOpened' OBVIOUS
    <2>3. RegistrySound' /\ EveryConnectionServed' /\ InstanceSound' /\ StoppedClean' OBVIOUS
    <2> QED BY <2>1, <2>2, <2>3
  <1>3. CASE DtorDerived
    <2> USE <1>3 DEF DtorDerived
    <2>1. InCallback' OBVIOUS
    <2>2. Untouched' /\ UnderConstruction' /\ OpenedConnected' /\ ListedOpened' OBVIOUS
    <2>3. RegistrySound' /\ EveryConnectionServed' /\ InstanceSound' /\ StoppedClean' OBVIOUS
    <2> QED BY <2>1, <2>2, <2>3
  <1>4. CASE DtorSDK
    <2> USE <1>4 DEF DtorSDK
    <2>1. InCallback' OBVIOUS
    <2>2. Untouched' /\ UnderConstruction' /\ OpenedConnected' /\ ListedOpened' OBVIOUS
    <2>3. RegistrySound' /\ EveryConnectionServed' /\ InstanceSound' /\ StoppedClean' OBVIOUS
    <2> QED BY <2>1, <2>2, <2>3
  <1>5. CASE DtorWS
    <2> USE <1>5 DEF DtorWS
    <2>1. InCallback' OBVIOUS
    <2>2. Untouched' /\ UnderConstruction' /\ OpenedConnected' /\ ListedOpened' OBVIOUS
    <2>3. RegistrySound' /\ EveryConnectionServed' /\ InstanceSound' /\ StoppedClean' OBVIOUS
    <2> QED BY <2>1, <2>2, <2>3
  <1>6. CASE FreeWsi
    <2> USE <1>6 DEF FreeWsi, Leave
    <2>1. InCallback' OBVIOUS
    <2>2. Untouched' /\ UnderConstruction' /\ OpenedConnected' /\ ListedOpened' OBVIOUS
    <2>3. RegistrySound' /\ EveryConnectionServed' /\ InstanceSound' /\ StoppedClean' OBVIOUS
    <2> QED BY <2>1, <2>2, <2>3
  <1>7. CASE \E w \in Wsis : ContextDestroy(w) \/ ShutdownEnds(w)
    <2> PICK w \in Wsis : ContextDestroy(w) \/ ShutdownEnds(w) BY <1>7
    <2> USE DEF ContextDestroy, ShutdownEnds
    <2>1. InCallback' OBVIOUS
    <2>2. Untouched' /\ UnderConstruction' /\ OpenedConnected' /\ ListedOpened' OBVIOUS
    <2>3. RegistrySound' /\ EveryConnectionServed' /\ InstanceSound' /\ StoppedClean' OBVIOUS
    <2> QED BY <2>1, <2>2, <2>3
  <1>8. CASE ListenEnds
    <2> USE <1>8 DEF ListenEnds
    <2>1. InCallback' OBVIOUS
    <2>2. Untouched' /\ UnderConstruction' /\ OpenedConnected' /\ ListedOpened' OBVIOUS
    <2>3. RegistrySound' /\ EveryConnectionServed' /\ InstanceSound' /\ StoppedClean' OBVIOUS
    <2> QED BY <2>1, <2>2, <2>3
  <1> QED BY <1>1, <1>2, <1>3, <1>4, <1>5, <1>6, <1>7, <1>8

\* Everyone else leaves objects, registries and the Lws thread alone.
LEMMA OtherFrame ==
    ASSUME TypeInv, [Next]_vars, ~LwsStep
    PROVE  /\ UNCHANGED <<objVars, regVars, conn, lwsi>>
           /\ pc'[Lws] = pc[Lws] /\ cur'[Lws] = cur[Lws]
  <1> USE ThreadFacts DEF TypeInv, TypeOK, ThreadTypes, Goto, Working, lwsVars
  <1>1. CASE \E t \in Broadcasters : Broadcast(t)
    BY <1>1 DEF Broadcast, BroadcastLock, BroadcastNext, BroadcastEnd, HandlerReturns,
                Send, Push, Find, Writable, SendReturn
  <1>2. CASE \E t \in SdkThreads : Thunk(t)
    BY <1>2 DEF Thunk, SdkCall, SwitchReturns, SwitchOverflows, HandlerReturns
  <1>3. CASE \E t \in SdkThreads : (\E e \in Events \cap SdkEvents : SdkEvent(t, e)) \/ SdkEventDropped(t)
    BY <1>3 DEF SdkEvent, SdkEventDropped
  <1>4. CASE OnSessionChange \/ WSStop \/ WSJoined
    BY <1>4 DEF OnSessionChange, WSStop, WSJoined
  <1>5. CASE (\E t \in Threads : UndefinedBehaviour(t)) \/ Finished \/ UNCHANGED vars
    BY <1>5 DEF UndefinedBehaviour, Finished, vars
  <1> QED BY <1>1, <1>2, <1>3, <1>4, <1>5 DEF Next, Environment, LwsStep

\* So they keep layer 3.
LEMMA ServiceFrame ==
    ASSUME TypeInv, ServiceInv, [Next]_vars, ~LwsStep
    PROVE  ServiceInv'
  <1>1. /\ UNCHANGED <<objVars, regVars, conn, lwsi>>
        /\ pc'[Lws] = pc[Lws] /\ cur'[Lws] = cur[Lws]
    BY OtherFrame
  <1>2. InCallback'
    BY <1>1 DEF ServiceInv, InCallback, objVars, regVars
  <1>3. Untouched' /\ UnderConstruction' /\ OpenedConnected' /\ ListedOpened'
    BY <1>1 DEF ServiceInv, Untouched, UnderConstruction, OpenedConnected,
                ListedOpened, objVars, regVars
  <1>4. RegistrySound' /\ EveryConnectionServed' /\ InstanceSound' /\ StoppedClean'
    BY <1>1 DEF ServiceInv, RegistrySound, EveryConnectionServed, InstanceSound,
                StoppedClean, objVars, regVars
  <1> QED BY <1>2, <1>3, <1>4 DEF ServiceInv

\* Every step keeps ServiceInv.
LEMMA ServiceStep == TypeInv /\ ServiceInv /\ [Next]_vars => ServiceInv'
  BY ServiceAccept, ServiceConnection, ServiceClose, ServiceFrame
     DEF LwsStep, Service

-----------------------------------------------------------------------------
(* Layer 4: the queue of each connection is first in, first out.           *)

\* A push at the end of the queue is a push at the end of the history.
LEMMA AppendConcat ==
    \A w, b \in Seq(1..MaxMsgs) : \A m \in 1..MaxMsgs :
        w \o Append(b, m) = Append(w \o b, m)
  <1> DEFINE Msgs == 1..MaxMsgs
  <1> SUFFICES ASSUME NEW w \in Seq(Msgs), NEW b \in Seq(Msgs), NEW m \in Msgs
               PROVE  w \o Append(b, m) = Append(w \o b, m)
    OBVIOUS
  <1> HIDE DEF Msgs
  <1>1. w \o b \in Seq(Msgs) /\ <<m>> \in Seq(Msgs)
    BY ConcatProperties
  <1>2. Append(w \o b, m) = (w \o b) \o <<m>> /\ Append(b, m) = b \o <<m>>
    BY <1>1, AppendIsConcat
  <1> QED BY <1>1, <1>2, ConcatAssociative

\* Writing the front of the queue moves it, and changes nothing behind it.
LEMMA MoveFront ==
    ASSUME NEW S, NEW w \in Seq(S), NEW b \in Seq(S), b # <<>>
    PROVE  Append(w, Head(b)) \o Tail(b) = w \o b
  <1>1. Head(b) \in S /\ Tail(b) \in Seq(S) /\ <<Head(b)>> \in Seq(S)
    BY HeadTailProperties
  <1>2. <<Head(b)>> \o Tail(b) = b
    OBVIOUS
  <1>3. Append(w, Head(b)) = w \o <<Head(b)>>
    BY <1>1, AppendIsConcat
  <1> QED BY <1>1, <1>2, <1>3, ConcatAssociative

\* Every step keeps QueueFifo.
LEMMA FifoStep == TypeInv /\ QueueFifo /\ [Next]_vars => QueueFifo'
  <1> SUFFICES ASSUME TypeInv, QueueFifo, [Next]_vars,
                      NEW c \in Clients, c \notin overlapped'
               PROVE  (pushed[c] = written[c] \o Unwritten(c))'
    BY DEF QueueFifo
  <1> USE ThreadFacts DEF TypeInv, TypeOK, ThreadTypes, At, Goto, Working
  <1> DEFINE Msgs == 1..MaxMsgs
  <1>0. ASSUME c \notin overlapped
        PROVE  /\ m_sendBuf[c] \in Seq(Msgs) /\ written[c] \in Seq(Msgs)
               /\ pushed[c] = written[c] \o Unwritten(c)
    BY <1>0 DEF BufTypes, QueueFifo
  <1>1. ASSUME NEW t \in Threads, Push(t)
        PROVE  (pushed[c] = written[c] \o Unwritten(c))'
    <2> USE <1>1 DEF Push
    <2>0. c \notin overlapped /\ (cur[t] = c => ~BufOverlap(t))
      BY DEF NoteOverlap
    <2>1. cur[t] \in Clients /\ msg[t] \in Msgs
      BY DEF ThreadAtHand, SendLabels
    <2>2. CASE UNCHANGED m_sendBuf[c] /\ UNCHANGED pushed[c]
      BY <1>0, <2>0, <2>2 DEF Unwritten
    <2>3. CASE /\ cur[t] = c
               /\ m_sendBuf'[c] = Append(m_sendBuf[c], msg[t])
               /\ pushed'[c] = Append(pushed[c], msg[t])
      <3> DEFINE b == m_sendBuf[c]
      <3>1. b # <<>> => /\ Tail(b) \in Seq(Msgs)
                        /\ Tail(Append(b, msg[t])) = Append(Tail(b), msg[t])
        BY <1>0, <2>0, <2>1, HeadTailProperties, HeadTailAppend
      <3>2. Unwritten(c)' = Append(Unwritten(c), msg[t]) /\ Unwritten(c) \in Seq(Msgs)
        BY <1>0, <2>0, <2>3, <3>1 DEF Unwritten, LwsAtHand
      <3>3. written[c] \o Append(Unwritten(c), msg[t]) = Append(written[c] \o Unwritten(c), msg[t])
        <4>1. /\ written[c] \in Seq(1..MaxMsgs) /\ Unwritten(c) \in Seq(1..MaxMsgs)
              /\ msg[t] \in 1..MaxMsgs
          BY <1>0, <2>0, <2>1, <3>2
        <4> QED BY ONLY <4>1, AppendConcat, ZenonT(20)
      <3> QED BY <1>0, <2>0, <2>3, <3>2, <3>3
    <2> QED BY <2>0, <2>1, <2>2, <2>3 DEF BufTypes
  <1>2. ASSUME NEW w \in Wsis, Writeable(w)
        PROVE  (pushed[c] = written[c] \o Unwritten(c))'
    <2> USE <1>2 DEF Writeable, Enter
    <2>0. /\ m_sendBuf[c] \in Seq(Msgs) /\ written[c] \in Seq(Msgs)
          /\ pushed[c] = written[c] \o Unwritten(c)
      BY <1>0
    <2>1. CASE WSClientSet[w] = c /\ pc'[Lws] = "pop"
      <3>1. m_sendBuf[c] # <<>> /\ Unwritten(c)' = Tail(m_sendBuf[c])
        BY <2>1 DEF Unwritten
      <3>2. written'[c] = Append(written[c], Head(m_sendBuf[c]))
        BY <2>1 DEF BufTypes
      <3>3. Head(m_sendBuf[c]) \in Msgs
        BY <2>0, <3>1, HeadTailProperties
      <3>4. Append(written[c], Head(m_sendBuf[c])) \o Tail(m_sendBuf[c]) = written[c] \o m_sendBuf[c]
        BY ONLY <2>0, <3>1, MoveFront
      <3> QED BY <2>0, <3>1, <3>2, <3>4 DEF Unwritten
    <2>2. CASE ~(WSClientSet[w] = c /\ pc'[Lws] = "pop")
      BY <2>0, <2>2 DEF Unwritten, BufTypes
    <2> QED BY <2>1, <2>2
  <1>3. CASE WriteablePop
    <2>1. c \notin overlapped /\ (cur[Lws] = c => ~BufOverlap(Lws))
      BY <1>3 DEF WriteablePop, NoteOverlap
    <2> QED BY <1>0, <1>3, <2>1 DEF WriteablePop, Leave, Unwritten, LwsAtHand, BufTypes
  <1>4. ASSUME /\ UNCHANGED <<m_sendBuf, pushed, written, overlapped>>
               /\ \/ pc[Lws] # "pop" /\ pc'[Lws] # "pop"
                  \/ pc'[Lws] = pc[Lws] /\ cur'[Lws] = cur[Lws]
        PROVE  (pushed[c] = written[c] \o Unwritten(c))'
    BY <1>0, <1>4 DEF Unwritten
  <1> USE DEF bufVars
  <1>5. CASE LwsStep
    <2>1. CASE \E w \in Wsis, d \in Clients : Accept(w, d)
      BY <1>4, <2>1 DEF Accept, Enter
    <2>2. CASE AcceptInsert \/ AcceptInstance \/ AcceptDerived
      BY <1>4, <2>2 DEF AcceptInsert, AcceptInstance, AcceptDerived, Leave
    <2>3. CASE \E w \in Wsis : TlsAccepted(w) \/ Established(w) \/ OnMessage(w) \/ Dropped(w) \/ ClosedHttp(w)
      BY <1>4, <2>3 DEF TlsAccepted, Established, OnMessage, Dropped, ClosedHttp, Enter
    <2>4. CASE Find(Lws) \/ Writable(Lws)
      BY <1>4, <2>4 DEF Find, Writable, SendReturn
    <2>5. CASE OnOpen
      BY <1>4, <2>5 DEF OnOpen, Leave
    <2>6. CASE \E w \in Wsis : Closed(w) \/ ShutdownEnds(w) \/ ContextDestroy(w)
      BY <1>4, <2>6 DEF Closed, ShutdownEnds, ContextDestroy, Enter
    <2>7. CASE ClosedErase \/ DtorDerived \/ DtorSDK \/ DtorWS \/ FreeWsi \/ ListenEnds
      BY <1>4, <2>7 DEF ClosedErase, DtorDerived, DtorSDK, DtorWS, FreeWsi, ListenEnds, Leave
    <2> QED BY <1>1, <1>2, <1>3, <1>5, <2>1, <2>2, <2>3, <2>4, <2>5, <2>6, <2>7
            DEF LwsStep, Service, Send
  <1>6. CASE \E t \in Broadcasters : Broadcast(t)
    <2>1. CASE \E t \in Broadcasters : Find(t) \/ Writable(t)
      BY <1>4, <2>1 DEF Find, Writable, SendReturn
    <2>2. CASE \E t \in Broadcasters : BroadcastLock(t) \/ BroadcastNext(t) \/ BroadcastEnd(t)
      BY <1>4, <2>2 DEF BroadcastLock, BroadcastNext, BroadcastEnd, HandlerReturns
    <2> QED BY <1>1, <1>6, <2>1, <2>2 DEF Broadcast, Send
  <1>7. CASE \E t \in SdkThreads : Thunk(t) \/ (\E e \in Events \cap SdkEvents : SdkEvent(t, e)) \/ SdkEventDropped(t)
    BY <1>4, <1>7 DEF Thunk, SdkCall, SwitchReturns, SwitchOverflows, HandlerReturns,
                      SdkEvent, SdkEventDropped
  <1>8. CASE OnSessionChange \/ WSStop \/ WSJoined
    BY <1>4, <1>8 DEF OnSessionChange, WSStop, WSJoined
  <1>9. CASE (\E t \in Threads : UndefinedBehaviour(t)) \/ Finished \/ UNCHANGED vars
    BY <1>4, <1>9 DEF UndefinedBehaviour, Finished, vars
  <1> QED BY <1>5, <1>6, <1>7, <1>8, <1>9 DEF Next, Environment, LwsStep

-----------------------------------------------------------------------------
(* Layer 5: no wakeup is lost.                                             *)

\* An object is OPEN only while it is intact: the callback that erases its
\* entry has made it CLOSED before its destructor begins.
OpenIntact ==
    /\ \A c \in Clients : m_state[c] = "OPEN" => obj[c] = "live"
    /\ pc[Lws] = "dtor" => m_state[cur[Lws]] = "CLOSED"

\* Every step keeps OpenIntact.
LEMMA IntactStep == TypeInv /\ ServiceInv /\ OpenIntact /\ [Next]_vars => OpenIntact'
  <1> SUFFICES ASSUME TypeInv, ServiceInv, OpenIntact, [Next]_vars PROVE OpenIntact'
    OBVIOUS
  <1> USE ThreadFacts DEF TypeInv, TypeOK, ObjTypes, ThreadTypes, OpenIntact, At, Goto, Working
  <1>1. CASE LwsStep
    <2> USE DEF objVars
    <2>1. CASE \E w \in Wsis, d \in Clients : Accept(w, d)
      BY <2>1 DEF Accept, Enter, ServiceInv, Untouched
    <2>2. CASE AcceptInsert \/ AcceptInstance \/ AcceptDerived
      BY <2>2 DEF AcceptInsert, AcceptInstance, AcceptDerived, Leave, LwsAtHand
    <2>3. CASE \E w \in Wsis : Established(w)
      <3> PICK w \in Wsis : Established(w) BY <2>3
      <3>1. WSClientSet[w] # Null => WSClientSet[w] \in Clients /\ obj[WSClientSet[w]] = "live"
        BY DEF Established, RegTypes, ServiceInv, RegistrySound, UnderConstruction
      <3> QED BY <3>1 DEF Established, Enter
    <2>4. CASE \E w \in Wsis : TlsAccepted(w) \/ OnMessage(w) \/ Dropped(w) \/ ClosedHttp(w)
      BY <2>4 DEF TlsAccepted, OnMessage, Dropped, ClosedHttp, Enter
    <2>5. CASE OnOpen \/ WriteablePop \/ Send(Lws)
      BY <2>5 DEF OnOpen, WriteablePop, Leave, Send, Push, Find, Writable, SendReturn
    <2>6. CASE \E w \in Wsis : Writeable(w) \/ Closed(w) \/ ShutdownEnds(w) \/ ContextDestroy(w)
      BY <2>6 DEF Writeable, Closed, ShutdownEnds, ContextDestroy, Enter
    <2>7. CASE ClosedErase
      BY <2>7 DEF ClosedErase, ServiceInv, InCallback
    <2>8. CASE DtorDerived
      BY <2>8 DEF DtorDerived, LwsAtHand
    <2>9. CASE DtorSDK \/ DtorWS \/ FreeWsi \/ ListenEnds
      BY <2>9 DEF DtorSDK, DtorWS, FreeWsi, ListenEnds, Leave, LwsAtHand, ServiceInv, InCallback
    <2> QED BY <1>1, <2>1, <2>2, <2>3, <2>4, <2>5, <2>6, <2>7, <2>8, <2>9 DEF LwsStep, Service
  <1>2. CASE ~LwsStep
    <2>1. UNCHANGED objVars /\ pc'[Lws] = pc[Lws] /\ cur'[Lws] = cur[Lws]
      BY <1>2, OtherFrame
    <2> QED BY <2>1 DEF objVars
  <1> QED BY <1>1, <1>2

\* An open object has a connection and is the one that callbacks for it find.
LEMMA OpenEntry ==
    ASSUME TypeInv, ServiceInv, OpenIntact, NEW c \in Clients, m_state[c] = "OPEN"
    PROVE  wsi[c] \in Wsis /\ WSClientSet[wsi[c]] = c
  BY DEF ServiceInv, OpenedConnected, OpenIntact

\* Somebody sees to it that the queue of c is drained.
Asking(t, c) == cur[t] = c /\ pc[t] \in {"find", "writable", "open", "pop"}
Armed(c) == wsi[c] \in pollout \/ \E t \in Threads : Asking(t, c)

\* Every step keeps WakeupKept.
LEMMA WakeupStep ==
    TypeInv /\ ServiceInv /\ OpenIntact /\ WakeupKept /\ [Next]_vars => WakeupKept'
  <1> SUFFICES ASSUME TypeInv, ServiceInv, OpenIntact, WakeupKept, [Next]_vars,
                      NEW c \in Clients, c \notin missed', m_state'[c] = "OPEN",
                      conn'[wsi'[c]] = "ws", m_sendBuf'[c] # <<>>
               PROVE  Armed(c)'
    BY DEF WakeupKept, Armed, Asking
  <1> USE ThreadFacts DEF TypeInv, TypeOK, ThreadTypes, At, Goto, Working
  <1>0. ASSUME c \notin missed, m_state[c] = "OPEN", conn[wsi[c]] = "ws", m_sendBuf[c] # <<>>
        PROVE  Armed(c)
    BY <1>0 DEF WakeupKept, Armed, Asking
  <1>1. ASSUME NEW t \in Threads, Send(t)
        PROVE  Armed(c)'
    <2> USE DEF objVars, lwsVars
    <2>1. CASE Push(t)
      <3>1. CASE cur[t] = c
        BY <2>1, <3>1 DEF Push, Armed, Asking
      <3>2. CASE cur[t] # c
        <4>1. m_sendBuf'[c] = m_sendBuf[c]
          BY <2>1, <3>2 DEF Push, BufTypes
        <4> QED BY <1>0, <2>1, <3>2, <4>1 DEF Push, Armed, Asking
      <3> QED BY <3>1, <3>2
    <2>2. CASE Find(t)
      <3>1. CASE cur[t] = c
        <4>1. m_state[c] = "OPEN" BY <2>2 DEF Find
        <4>2. Registered(c) BY <4>1, OpenEntry DEF Registered
        <4>3. CASE pc'[t] = "writable" /\ cur'[t] = c
          BY <4>3 DEF Armed, Asking
        <4>4. CASE wsi[c] \in pollout
          BY <2>2, <4>4 DEF Find, Armed
        <4> QED BY <2>2, <3>1, <4>2, <4>3, <4>4 DEF Find
      <3>2. CASE cur[t] # c
        <4>1. c \notin missed BY <2>2, <3>2 DEF Find
        <4>2. Armed(c) BY <1>0, <2>2, <4>1 DEF Find
        <4>3. \A u \in Threads : u # t => pc'[u] = pc[u] /\ cur'[u] = cur[u]
          BY <2>2 DEF Find, SendReturn
        <4> QED BY <2>2, <3>2, <4>2, <4>3 DEF Find, Armed, Asking
      <3> QED BY <3>1, <3>2
    <2>3. CASE Writable(t)
      <3>0. UNCHANGED <<objVars, bufVars, conn>> BY <2>3 DEF Writable
      <3>1. CASE cur[t] = c
        BY <2>3, <3>0, <3>1 DEF Writable, PollOut, Armed
      <3>2. CASE cur[t] # c
        <4>1. Armed(c) BY <1>0, <3>0 DEF bufVars
        <4>2. \A u \in Threads : u # t => pc'[u] = pc[u] /\ cur'[u] = cur[u]
          BY <2>3 DEF Writable, SendReturn
        <4> QED BY <2>3, <3>0, <3>2, <4>1, <4>2 DEF Writable, PollOut, Armed, Asking
      <3> QED BY <3>1, <3>2
    <2> QED BY <1>1, <2>1, <2>2, <2>3 DEF Send
  <1>2. ASSUME NEW w \in Wsis, Established(w)
        PROVE  Armed(c)'
    <2>1. CASE wsi[c] = w
      <3>1. WSClientSet[w] = c
        <4>1. WSClientSet[w] \in Clients /\ wsi[WSClientSet[w]] = w
          BY <1>2 DEF Established, RegTypes, ServiceInv, InCallback, EveryConnectionServed, RegistrySound
        <4>2. m_state[c] = "OPEN" => WSClientSet[w] = c
          BY <2>1, OpenEntry
        <4> QED BY <1>2, <4>1, <4>2 DEF Established, ObjTypes
      <3>2. pc'[Lws] = "open" /\ cur'[Lws] = c
        BY <1>2, <3>1 DEF Established, Enter
      <3> QED BY <3>2 DEF Armed, Asking
    <2>2. CASE wsi[c] # w
      <3>1. conn[wsi[c]] = "ws"
        BY <1>2, <2>2 DEF Established, LwsTypes
      <3>2. m_state[c] = "OPEN"
        BY <1>2, <2>2 DEF Established, ObjTypes, RegTypes, ServiceInv, RegistrySound
      <3>3. Armed(c)
        BY <1>0, <1>2, <3>1, <3>2 DEF Established, bufVars
      <3> QED BY <1>2, <3>3 DEF Established, Enter, Armed, Asking
    <2> QED BY <2>1, <2>2
  <1>3. ASSUME NEW w \in Wsis, Writeable(w)
        PROVE  Armed(c)'
    <2>0. /\ UNCHANGED <<objVars, m_sendBuf, missed>>
          /\ m_state[c] = "OPEN" /\ wsi[c] \in Wsis /\ WSClientSet[wsi[c]] = c
      BY <1>3, OpenEntry DEF Writeable, objVars
    <2>1. CASE wsi[c] = w
      <3>1. conn'[w] # "closing" BY <2>0, <2>1 DEF objVars
      <3>2. pc'[Lws] = "pop" /\ cur'[Lws] = c
        BY <1>3, <2>0, <2>1, <3>1 DEF Writeable, Closing, Enter, LwsTypes
      <3> QED BY <3>2 DEF Armed, Asking
    <2>2. CASE wsi[c] # w
      <3>1. conn'[wsi[c]] = conn[wsi[c]] /\ (wsi[c] \in pollout' <=> wsi[c] \in pollout)
        BY <1>3, <2>0, <2>2 DEF Writeable, Closing, LwsTypes
      <3>2. Armed(c)
        BY <1>0, <2>0, <3>1 DEF objVars
      <3> QED BY <1>3, <2>0, <3>1, <3>2 DEF Writeable, Enter, Armed, Asking, objVars
    <2> QED BY <2>1, <2>2
  <1>4. CASE OnOpen \/ WriteablePop
    <2>0. /\ UNCHANGED <<objVars, conn>> /\ lwsi \in Wsis /\ cur[Lws] \in Clients
          /\ m_state[c] = "OPEN" /\ wsi[c] \in Wsis /\ WSClientSet[wsi[c]] = c
          /\ WSClientSet[lwsi] = cur[Lws]
      BY <1>4, OpenEntry DEF OnOpen, WriteablePop, objVars, bufVars, LwsAtHand, ServiceInv, InCallback
    <2>1. CASE wsi[c] = lwsi
      BY <1>4, <2>0, <2>1 DEF OnOpen, WriteablePop, PollOut, Armed, objVars
    <2>2. CASE wsi[c] # lwsi
      <3>1. cur[Lws] # c
        BY <2>0, <2>2 DEF ServiceInv, RegistrySound
      <3>2. m_sendBuf'[c] = m_sendBuf[c]
        BY <1>4, <3>1 DEF OnOpen, WriteablePop, bufVars, BufTypes
      <3>3. Armed(c)
        BY <1>0, <1>4, <2>0, <3>1, <3>2 DEF OnOpen, WriteablePop, objVars, bufVars
      <3>4. pollout \subseteq pollout'
        BY <1>4 DEF OnOpen, WriteablePop, PollOut
      <3> QED BY <1>4, <2>0, <3>1, <3>3, <3>4 DEF OnOpen, WriteablePop, Leave, Armed, Asking, objVars
    <2> QED BY <2>1, <2>2
  <1>5. ASSUME /\ UNCHANGED m_sendBuf /\ c \notin missed
               /\ m_state[c] = "OPEN" /\ wsi'[c] = wsi[c] /\ conn[wsi[c]] = "ws"
               /\ wsi[c] \in pollout => wsi[c] \in pollout'
               /\ \A t \in Threads : \/ pc'[t] = pc[t] /\ cur'[t] = cur[t]
                                     \/ pc[t] \notin {"find", "writable", "open", "pop"}
        PROVE  Armed(c)'
    BY <1>0, <1>5 DEF Armed, Asking
  <1> USE DEF objVars, lwsVars, bufVars
  <1>6. ASSUME NEW w \in Wsis, NEW d \in Clients, Accept(w, d)
        PROVE  Armed(c)'
    BY <1>5, <1>6, OpenEntry DEF Accept, Enter, ServiceInv, Untouched, LwsTypes, ObjTypes
  <1>7. CASE AcceptInsert \/ AcceptInstance \/ AcceptDerived
    BY <1>5, <1>7 DEF AcceptInsert, AcceptInstance, AcceptDerived, Leave
  <1>8. CASE \E w \in Wsis : TlsAccepted(w) \/ OnMessage(w) \/ Dropped(w) \/ ClosedHttp(w)
    BY <1>5, <1>8, OpenEntry DEF TlsAccepted, OnMessage, Dropped, ClosedHttp, Closing, Enter, LwsTypes
  <1>9. CASE \E w \in Wsis : Closed(w) \/ ShutdownEnds(w) \/ ContextDestroy(w)
    BY <1>5, <1>9, OpenEntry DEF Closed, ShutdownEnds, ContextDestroy, Enter, LwsTypes
  <1>10. CASE ClosedErase \/ DtorDerived \/ DtorSDK \/ DtorWS \/ FreeWsi \/ ListenEnds
    <2>1. CASE ClosedErase
      BY <1>5, <2>1 DEF ClosedErase, ObjTypes
    <2>2. CASE DtorDerived \/ DtorSDK \/ ListenEnds
      BY <1>5, <2>2 DEF DtorDerived, DtorSDK, ListenEnds
    <2>3. CASE DtorWS
      BY <1>5, <2>3 DEF DtorWS, ObjTypes
    <2>4. CASE FreeWsi
      BY <1>5, <2>4, OpenEntry DEF FreeWsi, Leave, LwsTypes, LwsAtHand
    <2> QED BY <1>10, <2>1, <2>2, <2>3, <2>4
  <1>11. CASE \E t \in Broadcasters : BroadcastLock(t) \/ BroadcastNext(t) \/ BroadcastEnd(t)
    BY <1>5, <1>11 DEF BroadcastLock, BroadcastNext, BroadcastEnd, HandlerReturns
  <1>12. CASE \E t \in SdkThreads : Thunk(t) \/ (\E e \in Events \cap SdkEvents : SdkEvent(t, e)) \/ SdkEventDropped(t)
    BY <1>5, <1>12 DEF Thunk, SdkCall, SwitchReturns, SwitchOverflows, HandlerReturns,
                       SdkEvent, SdkEventDropped
  <1>13. CASE OnSessionChange \/ WSStop \/ WSJoined
    BY <1>5, <1>13 DEF OnSessionChange, WSStop, WSJoined
  <1>14. CASE (\E t \in Threads : UndefinedBehaviour(t)) \/ Finished \/ UNCHANGED vars
    BY <1>5, <1>14 DEF UndefinedBehaviour, Finished, vars
  <1> QED BY <1>1, <1>2, <1>3, <1>4, <1>6, <1>7, <1>8, <1>9, <1>10, <1>11, <1>12, <1>13, <1>14
          DEF Next, Environment, Service, Broadcast

-----------------------------------------------------------------------------
(* The theorems.                                                           *)

\* callback_lws never looks up an object that is being destroyed, however
\* many connections come, fail in the TLS handshake and go, and however
\* often libwebsockets uses an address again.
THEOREM RegistrySafe == Spec => []RegistrySound
  <1>1. TypeInv /\ ServiceInv => RegistrySound
    BY DEF ServiceInv
  <1> QED BY TypeInit, TypeStep, ServiceInit, ServiceStep, <1>1, PTL DEF Spec

\* The branches of callback_lws for a connection without an object are dead.
THEOREM ConnectionsServed == Spec => []EveryConnectionServed
  <1>1. TypeInv /\ ServiceInv => EveryConnectionServed
    BY DEF ServiceInv
  <1> QED BY TypeInit, TypeStep, ServiceInit, ServiceStep, <1>1, PTL DEF Spec

\* g_Instance is never left pointing at an object without its CWinSDKBase.
THEOREM InstanceSafe == Spec => []InstanceSound
  <1>1. TypeInv /\ ServiceInv => InstanceSound
    BY DEF ServiceInv
  <1> QED BY TypeInit, TypeStep, ServiceInit, ServiceStep, <1>1, PTL DEF Spec

\* After listenWS returns, the list is empty and every object that ever was
\* open has been destroyed.
THEOREM StopsClean == Spec => []StoppedClean
  <1>1. TypeInv /\ ServiceInv => StoppedClean
    BY DEF ServiceInv
  <1> QED BY TypeInit, TypeStep, ServiceInit, ServiceStep, <1>1, PTL DEF Spec

\* A broadcast under g_WSClientMtx only ever touches objects that are intact
\* and connections that libwebsockets still has, for any number of threads.
THEOREM BroadcastSafe == Spec => []LockedBroadcastSafe
  <1>1. TypeInv /\ LockInv /\ ServiceInv => LockedBroadcastSafe
    <2> SUFFICES ASSUME TypeInv, LockInv, ServiceInv,
                        NEW t \in Broadcasters, g_WSClientMtx = t, DanglingTarget(t)
                 PROVE  FALSE
      BY DEF LockedBroadcastSafe
    <2>1. cur[t] # Null
      BY ThreadFacts DEF TypeInv, ThreadAtHand, DanglingTarget, SendLabels
    <2>2. cur[t] \in g_WSClientSet
      BY <2>1 DEF LockInv
    <2>3. cur[t] \in Clients /\ obj[cur[t]] = "live" /\ conn[wsi[cur[t]]] # "free"
      BY <2>2 DEF TypeInv, TypeOK, RegTypes, ServiceInv, ListedOpened, OpenedConnected
    <2> QED BY <2>2, <2>3 DEF DanglingTarget
  <1> QED BY TypeInit, TypeStep, LockInit, LockStep, ServiceInit, ServiceStep, <1>1, PTL DEF Spec

\* What a connection carries is what was sent to it, in order, for any
\* number of threads that queue, until two updates of its queue overlap.
THEOREM QueueIsFifo == Spec => []QueueFifo
  <1>1. Init => QueueFifo
    BY ThreadFacts DEF Init, QueueFifo, Unwritten
  <1> QED BY TypeInit, TypeStep, FifoStep, <1>1, PTL DEF Spec

\* While a message is queued on an open connection, somebody has asked or is
\* about to ask for its WRITEABLE, for any number of threads and connections,
\* unless the lookup of the last Send on it missed the entry.
THEOREM NoWakeupLost == Spec => []WakeupKept
  <1>1. Init => OpenIntact /\ WakeupKept
    BY ThreadFacts DEF Init, OpenIntact, WakeupKept
  <1> QED BY TypeInit, TypeStep, ServiceInit, ServiceStep, IntactStep, WakeupStep, <1>1, PTL
          DEF Spec
=============================================================================
