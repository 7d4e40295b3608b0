------------------------------ MODULE UCServer ------------------------------
(***************************************************************************)
(* The websocket server inside UCClient.exe: every browser page that opens *)
(* a connection gets one UCClientWSclient object; commands from the page   *)
(* are answered on that connection, and every callback of the telephony    *)
(* SDK is broadcast to all open connections.                               *)
(*                                                                         *)
(* Three kinds of threads meet here:                                       *)
(*   Lws         the listenWS thread.  It runs lws_service, hence every    *)
(*               callback_lws, hence every constructor and destructor of   *)
(*               a client object;                                          *)
(*   SdkThreads  threads of the telephony SDK, which run the static thunks *)
(*               CWinSDKBase::sonX and through them the onX broadcasts;    *)
(*   UI          the window thread: OnSessionChange broadcasts too, and    *)
(*               WSStop ends the server and joins its thread.              *)
(*                                                                         *)
(* They share WSClientSet (wsi to object, unprotected: its mutex is        *)
(* commented out), g_WSClientSet (the objects whose connection is open,    *)
(* protected by g_WSClientMtx except in two handlers), g_Instance (the     *)
(* object that receives SDK callbacks, unprotected) and the m_sendBuf of   *)
(* each object (unprotected).  An unsynchronised access that overlaps      *)
(* another one has several outcomes; Races names the ones, beside the      *)
(* clean one and the crash, that a run admits.                             *)
(***************************************************************************)
EXTENDS Naturals, Sequences, FiniteSets

CONSTANTS
    Clients,      \* UCClientWSclient objects; an address is not used twice
    Wsis,         \* struct lws addresses; libwebsockets does reuse them
    SdkThreads,   \* SDK threads that deliver callbacks
    Lws, UI,      \* the service thread and the window thread
    Null,
    Events,       \* the SDK callbacks and session changes a run admits
    Races,        \* subset of {"lost", "kept", "missed"}, see below
    MaxMsgs       \* bound: messages (events and replies) made in a behaviour

Broadcasters == SdkThreads \cup {UI}
Threads      == Broadcasters \cup {Lws}

-----------------------------------------------------------------------------
(* The SDK callbacks, grouped by what the handler does.  All but the last  *)
(* two groups take g_WSClientMtx around the loop over g_WSClientSet.  The  *)
(* thunk of onLogInfo is empty, so that callback never gets here.          *)

RegistrationEvents == {"onSipConnect", "onSipLogOut", "onDtmfReceived"}

ConnectEvents == {"onConnect", "onIncomingCallReceived", "onCallProceeding",
                  "onCallAlerting", "onCallAnswered", "onCallReleased"}

HoldEvents == {"onCallPaused", "onCallResumed"}

VideoEvents == {"onSwitchCallMediaTypeResponse", "onRemoteVideoRatio",
                "onAudioData", "onVideoData"}

DeviceEvents == {"onAudioCaptureData", "onVideoCaptureData",
                 "onMediaDestinationChanged", "onNoCamera", "onNoMicRecording"}

TransferEvents == {"onCallTransfered", "onMeetingTransfered",
                   "onAudioEnergyFeedback"}

\* These two loop over g_WSClientSet without taking g_WSClientMtx.
UnlockedEvents == {"onLogOut", "onWillCloseTcp"}

\* The thunk of this one calls itself instead of the handler.
RecursiveEvents == {"onSwitchCallMediaTypeRequest"}

LockedEvents == UNION {RegistrationEvents, ConnectEvents, HoldEvents,
                       VideoEvents, DeviceEvents, TransferEvents}

SdkEvents == UNION {LockedEvents, UnlockedEvents, RecursiveEvents}

\* Broadcast by the window thread, under the mutex.
SessionEvents == {"OnWTSSessionChange"}

ASSUME ServerAssumption ==
    /\ Null \notin Clients \cup Wsis \cup Threads
    /\ UI \notin SdkThreads /\ Lws \notin Broadcasters
    /\ Events \subseteq SdkEvents \cup SessionEvents
    /\ Races \subseteq {"lost", "kept", "missed"}
    /\ MaxMsgs \in Nat

-----------------------------------------------------------------------------
VARIABLES
    obj,            \* life of each object: none, ctor, live, dtor, freed
    wsi,            \* the connection an object was made for
    m_state,        \* WebSocketClient::m_state
    m_sendBuf,      \* WebSocketClient::m_sendBuf
    WSClientSet,    \* websocket.cpp: wsi -> object, or Null
    g_WSClientSet,  \* UCClientWebSocket.cpp: the open objects
    g_WSClientMtx,  \* the thread holding the mutex, or Null
    g_Instance,     \* WinSDKBase.cpp: target of SDK callbacks, or Null
    m_bWSRunning,   \* MainWnd: cleared by WSStop
    conn,           \* libwebsockets: free, tls, http, ws, closing, shutdown
    pollout,        \* libwebsockets: connections that asked for a WRITEABLE
    pc,             \* where each thread is
    cur,            \* the object each thread is working on
    lwsi,           \* the wsi argument of the callback the Lws thread is in
    this,           \* the g_Instance an SDK thread loaded
    event, msg,     \* what each thread is sending
    seen,           \* objects a broadcast loop has visited
    msgs,           \* messages made so far
    pushed,         \* history: what entered m_sendBuf
    written,        \* history: what lws_write sent
    overlapped,     \* history: objects with overlapping m_sendBuf updates
    missed,         \* history: open objects whose queue waits without a wakeup
    crashed         \* "no", or how the process ended

objVars  == <<obj, wsi, m_state>>
bufVars  == <<m_sendBuf, pushed, written, overlapped, missed>>
regVars  == <<WSClientSet, g_WSClientSet, g_Instance>>
lwsVars  == <<conn, pollout, lwsi>>
sendVars == <<this, event, msg, seen, msgs>>
vars == <<objVars, bufVars, regVars, lwsVars, sendVars,
          g_WSClientMtx, m_bWSRunning, pc, cur, crashed>>

LwsLabels == {"loop", "insert", "instance", "derived", "open", "pop", "erase",
              "dtor", "dtorSDK", "dtorWS", "free", "done"}
SendLabels == {"push", "find", "writable"}
BroadcastLabels == {"idle", "call", "recurse", "lock", "next", "join", "exited"}

ObjTypes ==
    /\ obj \in [Clients -> {"none", "ctor", "live", "dtor", "freed"}]
    /\ wsi \in [Clients -> Wsis \cup {Null}]
    /\ m_state \in [Clients -> {"CONNECTING", "OPEN", "CLOSING", "CLOSED"}]

BufTypes ==
    /\ m_sendBuf \in [Clients -> Seq(1..MaxMsgs)]
    /\ pushed \in [Clients -> Seq(1..MaxMsgs)]
    /\ written \in [Clients -> Seq(1..MaxMsgs)]
    /\ overlapped \subseteq Clients /\ missed \subseteq Clients

RegTypes ==
    /\ WSClientSet \in [Wsis -> Clients \cup {Null}]
    /\ g_WSClientSet \subseteq Clients
    /\ g_Instance \in Clients \cup {Null}

LwsTypes ==
    /\ conn \in [Wsis -> {"free", "tls", "http", "ws", "closing", "shutdown"}]
    /\ pollout \subseteq Wsis
    /\ lwsi \in Wsis \cup {Null}

SendTypes ==
    /\ this \in [SdkThreads -> Clients \cup {Null}]
    /\ event \in [Broadcasters -> Events \cup {Null}]
    /\ msg \in [Threads -> 0..MaxMsgs]
    /\ seen \in [Broadcasters -> SUBSET Clients]
    /\ msgs \in 0..MaxMsgs

ThreadTypes ==
    /\ pc \in [Threads -> LwsLabels \cup SendLabels \cup BroadcastLabels]
    /\ pc[Lws] \in LwsLabels \cup SendLabels
    /\ \A t \in Broadcasters : pc[t] \in BroadcastLabels \cup SendLabels
    /\ cur \in [Threads -> Clients \cup {Null}]

TypeOK ==
    /\ ObjTypes /\ BufTypes /\ RegTypes /\ LwsTypes /\ SendTypes /\ ThreadTypes
    /\ g_WSClientMtx \in Broadcasters \cup {Null}
    /\ m_bWSRunning \in BOOLEAN
    /\ crashed \in {"no", "ub", "overflow"}

\* WinMain has created the window, OnPrepare has called Start, and the
\* service thread has listened successfully (InitInstance).
Init ==
    /\ obj = [c \in Clients |-> "none"]
    /\ wsi = [c \in Clients |-> Null]
    /\ m_state = [c \in Clients |-> "CONNECTING"]
    /\ m_sendBuf = [c \in Clients |-> <<>>]
    /\ pushed = [c \in Clients |-> <<>>]
    /\ written = [c \in Clients |-> <<>>]
    /\ overlapped = {} /\ missed = {}
    /\ WSClientSet = [w \in Wsis |-> Null]
    /\ g_WSClientSet = {}
    /\ g_WSClientMtx = Null
    /\ g_Instance = Null
    /\ m_bWSRunning = TRUE
    /\ conn = [w \in Wsis |-> "free"]
    /\ pollout = {}
    /\ pc = [t \in Threads |-> IF t = Lws THEN "loop" ELSE "idle"]
    /\ cur = [t \in Threads |-> Null]
    /\ lwsi = Null
    /\ this = [t \in SdkThreads |-> Null]
    /\ event = [t \in Broadcasters |-> Null]
    /\ msg = [t \in Threads |-> 0]
    /\ seen = [t \in Broadcasters |-> {}]
    /\ msgs = 0
    /\ crashed = "no"

\* A thread of a process that has not crashed is at a label.
At(t, label) == crashed = "no" /\ pc[t] = label
Goto(t, label) == pc' = [pc EXCEPT ![t] = label]
Working(t, c) == cur' = [cur EXCEPT ![t] = c]

\* The Lws thread enters a callback for w that concerns c, or leaves one.
Enter(w, c, label) == lwsi' = w /\ Working(Lws, c) /\ Goto(Lws, label)
Leave == lwsi' = Null /\ Working(Lws, Null) /\ Goto(Lws, "loop")

-----------------------------------------------------------------------------
(* WebSocketClient::Send, run by the Lws thread for a command's reply and  *)
(* by a broadcaster for an event: push_back on m_sendBuf, look the         *)
(* connection up, ask libwebsockets for a WRITEABLE callback.              *)

\* The text of a reply is a local of OnMessage and goes with it.
SendReturn(t) ==
    IF t = Lws
    THEN Goto(t, "loop") /\ Working(t, Null) /\ msg' = [msg EXCEPT ![t] = 0]
    ELSE Goto(t, "next") /\ UNCHANGED <<cur, msg>>

\* Another thread is inside push_back or erase on the same vector.
BufOverlap(t) ==
    \E u \in Threads \ {t} : cur[u] = cur[t] /\ pc[u] \in {"push", "pop"}

\* The Lws thread is inside insert or erase on the map.
MapOverlap(t) == t # Lws /\ pc[Lws] \in {"insert", "erase", "dtorWS"}

NoteOverlap(t) ==
    overlapped' = IF BufOverlap(t) THEN overlapped \cup {cur[t]} ELSE overlapped

\* m_sendBuf.push_back(data).  An overlapping erase may write the old end of
\* the vector back, and the element is lost.
Push(t) ==
    /\ At(t, "push")
    /\ pushed' = [pushed EXCEPT ![cur[t]] = Append(@, msg[t])]
    /\ \/ m_sendBuf' = [m_sendBuf EXCEPT ![cur[t]] = Append(@, msg[t])]
       \/ BufOverlap(t) /\ "lost" \in Races /\ UNCHANGED m_sendBuf
    /\ NoteOverlap(t)
    /\ Goto(t, "find")
    /\ UNCHANGED <<objVars, written, missed, regVars, lwsVars, sendVars,
                   g_WSClientMtx, m_bWSRunning, cur, crashed>>

Registered(c) == wsi[c] # Null /\ WSClientSet[wsi[c]] # Null /\ m_state[c] = "OPEN"

\* A lookup that overlaps a rebalancing of the map may miss the entry; Send
\* then returns with the message queued and no WRITEABLE asked for.
Find(t) ==
    /\ At(t, "find")
    /\ \/ /\ Registered(cur[t])
          /\ missed' = missed \ {cur[t]}
          /\ Goto(t, "writable") /\ UNCHANGED <<cur, msg>>
       \/ ~Registered(cur[t]) /\ SendReturn(t) /\ UNCHANGED missed
       \/ /\ Registered(cur[t]) /\ MapOverlap(t) /\ "missed" \in Races
          /\ missed' = IF m_sendBuf[cur[t]] = <<>> \/ wsi[cur[t]] \in pollout
                       THEN missed ELSE missed \cup {cur[t]}
          /\ SendReturn(t)
    /\ UNCHANGED <<objVars, m_sendBuf, pushed, written, overlapped, regVars, lwsVars,
                   this, event, seen, msgs, g_WSClientMtx, m_bWSRunning, crashed>>

\* lws_callback_on_writable does nothing on a connection being shut down.
PollOut(w) == IF conn[w] = "ws" THEN pollout \cup {w} ELSE pollout

Writable(t) ==
    /\ At(t, "writable")
    /\ pollout' = PollOut(wsi[cur[t]])
    /\ SendReturn(t)
    /\ UNCHANGED <<objVars, bufVars, regVars, conn, lwsi, this, event, seen, msgs,
                   g_WSClientMtx, m_bWSRunning, crashed>>

Send(t) == Push(t) \/ Find(t) \/ Writable(t)

-----------------------------------------------------------------------------
(* callback_lws.  The Lws thread is in lws_service while m_bWSRunning and  *)
(* in lws_context_destroy after that; both call back at label "loop".      *)

\* WSI_CREATE: OnAccept makes the object; bases are constructed in order,
\* WebSocketClient (which registers the wsi) and then CWinSDKBase.
Accept(w, c) ==
    /\ At(Lws, "loop") /\ m_bWSRunning
    /\ conn[w] = "free" /\ obj[c] = "none"
    /\ conn' = [conn EXCEPT ![w] = "tls"]
    /\ obj' = [obj EXCEPT ![c] = "ctor"]
    /\ wsi' = [wsi EXCEPT ![c] = w]
    /\ Enter(w, c, "insert")
    /\ UNCHANGED <<m_state, bufVars, regVars, pollout, sendVars,
                   g_WSClientMtx, m_bWSRunning, crashed>>

\* Mutant: the constructor forgets to register its wsi.
AcceptInsertForgotten ==
    /\ At(Lws, "insert")
    /\ Goto(Lws, "instance")
    /\ UNCHANGED <<objVars, bufVars, regVars, lwsVars, sendVars,
                   g_WSClientMtx, m_bWSRunning, cur, crashed>>

\* std::map::insert keeps an entry that is already there.
AcceptInsert ==
    /\ At(Lws, "insert")
    /\ WSClientSet' = IF WSClientSet[lwsi] = Null
                      THEN [WSClientSet EXCEPT ![lwsi] = cur[Lws]]
                      ELSE WSClientSet
    /\ Goto(Lws, "instance")
    /\ UNCHANGED <<objVars, bufVars, g_WSClientSet, g_Instance, lwsVars,
                   sendVars, g_WSClientMtx, m_bWSRunning, cur, crashed>>

AcceptInstance ==
    /\ At(Lws, "instance")
    /\ g_Instance' = cur[Lws]
    /\ Goto(Lws, "derived")
    /\ UNCHANGED <<objVars, bufVars, WSClientSet, g_WSClientSet, lwsVars,
                   sendVars, g_WSClientMtx, m_bWSRunning, cur, crashed>>

AcceptDerived ==
    /\ At(Lws, "derived")
    /\ obj' = [obj EXCEPT ![cur[Lws]] = "live"]
    /\ Leave
    /\ UNCHANGED <<wsi, m_state, bufVars, regVars, conn, pollout, sendVars,
                   g_WSClientMtx, m_bWSRunning, crashed>>

\* libwebsockets finishes SSL_accept (or sees plain HTTP) on its own.
TlsAccepted(w) ==
    /\ At(Lws, "loop") /\ m_bWSRunning /\ conn[w] = "tls"
    /\ conn' = [conn EXCEPT ![w] = "http"]
    /\ UNCHANGED <<objVars, bufVars, regVars, pollout, lwsi, sendVars,
                   g_WSClientMtx, m_bWSRunning, pc, cur, crashed>>

\* Mutant: m_state stays CONNECTING.
EstablishedUnmarked(w) ==
    /\ At(Lws, "loop") /\ m_bWSRunning /\ conn[w] = "http"
    /\ conn' = [conn EXCEPT ![w] = "ws"]
    /\ Enter(w, WSClientSet[w], "open")
    /\ UNCHANGED <<objVars, bufVars, regVars, pollout, sendVars,
                   g_WSClientMtx, m_bWSRunning, crashed>>

\* ESTABLISHED: m_state is OPEN before OnOpen asks for the mutex.
Established(w) ==
    /\ At(Lws, "loop") /\ m_bWSRunning /\ conn[w] = "http"
    /\ conn' = [conn EXCEPT ![w] = "ws"]
    /\ IF WSClientSet[w] = Null
       THEN UNCHANGED <<m_state, lwsi, cur, pc>>
       ELSE /\ m_state' = [m_state EXCEPT ![WSClientSet[w]] = "OPEN"]
            /\ Enter(w, WSClientSet[w], "open")
    /\ UNCHANGED <<obj, wsi, bufVars, regVars, pollout, sendVars,
                   g_WSClientMtx, m_bWSRunning, crashed>>

OnOpen ==
    /\ At(Lws, "open") /\ g_WSClientMtx = Null
    /\ g_WSClientSet' = g_WSClientSet \cup {cur[Lws]}
    /\ pollout' = PollOut(lwsi)
    /\ Leave
    /\ UNCHANGED <<objVars, bufVars, WSClientSet, g_Instance, conn,
                   sendVars, g_WSClientMtx, m_bWSRunning, crashed>>

\* RECEIVE: a command is answered by exactly one Send; anything that is not
\* a JSON object of type "cmd" is dropped without a trace.
OnMessage(w) ==
    /\ At(Lws, "loop") /\ m_bWSRunning /\ conn[w] = "ws"
    /\ WSClientSet[w] # Null /\ msgs < MaxMsgs
    /\ msgs' = msgs + 1
    /\ msg' = [msg EXCEPT ![Lws] = msgs + 1]
    /\ Working(Lws, WSClientSet[w]) /\ Goto(Lws, "push")
    /\ UNCHANGED <<objVars, bufVars, regVars, lwsVars, this, event, seen,
                   g_WSClientMtx, m_bWSRunning, crashed>>

Closing(w) ==
    /\ conn' = [conn EXCEPT ![w] = "closing"]
    /\ pollout' = pollout \ {w}

\* SERVER_WRITEABLE: one message of the queue is written (libwebsockets keeps
\* what the socket does not take), or the connection is given up (return -1)
\* because there is no client, or it is CLOSING, or lws_write failed.
Writeable(w) ==
    /\ At(Lws, "loop") /\ m_bWSRunning /\ conn[w] = "ws" /\ w \in pollout
    /\ LET c == WSClientSet[w] IN
       IF c = Null \/ m_state[c] = "CLOSING"
       THEN Closing(w) /\ UNCHANGED <<written, lwsi, cur, pc>>
       ELSE \/ /\ m_sendBuf[c] = <<>>
               /\ pollout' = pollout \ {w}
               /\ UNCHANGED <<conn, written, lwsi, cur, pc>>
            \/ /\ m_sendBuf[c] # <<>>
               /\ written' = [written EXCEPT ![c] = Append(@, Head(m_sendBuf[c]))]
               /\ pollout' = pollout \ {w}
               /\ Enter(w, c, "pop")
               /\ UNCHANGED conn
            \/ /\ m_sendBuf[c] # <<>>
               /\ Closing(w) /\ UNCHANGED <<written, lwsi, cur, pc>>
    /\ UNCHANGED <<objVars, m_sendBuf, pushed, overlapped, missed, regVars, sendVars,
                   g_WSClientMtx, m_bWSRunning, crashed>>

\* Mutant: the last element is removed instead of the first.
WriteablePopBack ==
    /\ At(Lws, "pop")
    /\ LET buf == m_sendBuf[cur[Lws]]
           rest == SubSeq(buf, 1, Len(buf) - 1) IN
       /\ m_sendBuf' = [m_sendBuf EXCEPT ![cur[Lws]] = rest]
       /\ pollout' = IF rest = <<>> THEN pollout ELSE PollOut(lwsi)
    /\ Leave
    /\ UNCHANGED <<objVars, pushed, written, overlapped, missed, regVars, conn, sendVars,
                   g_WSClientMtx, m_bWSRunning, crashed>>

\* Mutant: no further WRITEABLE is asked for when something is left.
WriteablePopOnce ==
    /\ At(Lws, "pop")
    /\ m_sendBuf' = [m_sendBuf EXCEPT ![cur[Lws]] = Tail(@)]
    /\ missed' = missed \ {cur[Lws]}
    /\ Leave
    /\ UNCHANGED <<objVars, pushed, written, overlapped, regVars, conn, pollout,
                   sendVars, g_WSClientMtx, m_bWSRunning, crashed>>

\* m_sendBuf.erase(begin), and another WRITEABLE if something is left.  A
\* push_back that moves the vector meanwhile may bring the front back; once
\* per queue is enough to bound the model.
WriteablePop ==
    /\ At(Lws, "pop")
    /\ \/ m_sendBuf' = [m_sendBuf EXCEPT ![cur[Lws]] = Tail(@)]
       \/ /\ BufOverlap(Lws) /\ "kept" \in Races /\ cur[Lws] \notin overlapped
          /\ UNCHANGED m_sendBuf
    /\ pollout' = IF m_sendBuf'[cur[Lws]] = <<>> THEN pollout ELSE PollOut(lwsi)
    /\ missed' = missed \ {cur[Lws]}
    /\ NoteOverlap(Lws)
    /\ Leave
    /\ UNCHANGED <<objVars, pushed, written, regVars, conn, sendVars,
                   g_WSClientMtx, m_bWSRunning, crashed>>

\* The peer closes, breaks or times out.  An open connection is on its way to
\* CLOSED.  One that is still in the TLS handshake, or whose socket died or
\* timed out before the upgrade, goes away with WSI_DESTROY only: no CLOSED
\* callback, and WSI_DESTROY deletes nothing but plain WebSocketClient
\* objects, so the object and its WSClientSet entry stay behind.
Dropped(w) ==
    /\ At(Lws, "loop") /\ m_bWSRunning
    /\ \/ conn[w] = "ws" /\ Closing(w)
       \/ /\ conn[w] \in {"tls", "http"}
          /\ conn' = [conn EXCEPT ![w] = "free"]
          /\ UNCHANGED pollout
    /\ UNCHANGED <<objVars, bufVars, regVars, lwsi, sendVars,
                   g_WSClientMtx, m_bWSRunning, pc, cur, crashed>>

\* CLOSED_HTTP: a connection that was not upgraded closes in good order; the
\* callback comes before libwebsockets waits for the peer's shutdown.
ClosedHttp(w) ==
    /\ At(Lws, "loop") /\ m_bWSRunning /\ conn[w] = "http"
    /\ conn' = [conn EXCEPT ![w] = "shutdown"]
    /\ Enter(w, WSClientSet[w], "erase")
    /\ UNCHANGED <<objVars, bufVars, regVars, pollout, sendVars,
                   g_WSClientMtx, m_bWSRunning, crashed>>

\* CLOSED: the object is looked up, then erased from the map.
Closed(w) ==
    /\ At(Lws, "loop")
    /\ conn[w] = "closing" \/ (~m_bWSRunning /\ conn[w] = "ws")
    /\ conn' = [conn EXCEPT ![w] = "closing"]
    /\ pollout' = pollout \ {w}
    /\ Enter(w, WSClientSet[w], "erase")
    /\ UNCHANGED <<objVars, bufVars, regVars, sendVars,
                   g_WSClientMtx, m_bWSRunning, crashed>>

\* Mutant: the entry is left to the destructor to erase.
ClosedEraseLate ==
    /\ At(Lws, "erase")
    /\ IF cur[Lws] # Null /\ m_state[cur[Lws]] # "CLOSED"
       THEN /\ m_state' = [m_state EXCEPT ![cur[Lws]] = "CLOSED"]
            /\ Goto(Lws, "dtor")
       ELSE UNCHANGED m_state /\ Goto(Lws, "free")
    /\ UNCHANGED <<obj, wsi, bufVars, regVars, lwsVars,
                   sendVars, g_WSClientMtx, m_bWSRunning, cur, crashed>>

\* Mutant: OnClose does not delete the object.
ClosedEraseKept ==
    /\ At(Lws, "erase")
    /\ WSClientSet' = [WSClientSet EXCEPT ![lwsi] = Null]
    /\ m_state' = [m_state EXCEPT ![cur[Lws]] = "CLOSED"]
    /\ Goto(Lws, "free")
    /\ UNCHANGED <<obj, wsi, bufVars, g_WSClientSet, g_Instance, lwsVars,
                   sendVars, g_WSClientMtx, m_bWSRunning, cur, crashed>>

ClosedErase ==
    /\ At(Lws, "erase")
    /\ WSClientSet' = [WSClientSet EXCEPT ![lwsi] = Null]
    /\ IF cur[Lws] # Null /\ m_state[cur[Lws]] # "CLOSED"
       THEN /\ m_state' = [m_state EXCEPT ![cur[Lws]] = "CLOSED"]
            /\ Goto(Lws, "dtor")
       ELSE UNCHANGED m_state /\ Goto(Lws, "free")
    /\ missed' = missed \ {cur[Lws]}
    /\ UNCHANGED <<obj, wsi, m_sendBuf, pushed, written, overlapped, g_WSClientSet,
                   g_Instance, lwsVars, sendVars, g_WSClientMtx, m_bWSRunning, cur, crashed>>

\* Mutant: the destructor unlists the object without taking the mutex.
DtorDerivedUnlocked ==
    /\ At(Lws, "dtor")
    /\ g_WSClientSet' = g_WSClientSet \ {cur[Lws]}
    /\ obj' = [obj EXCEPT ![cur[Lws]] = "dtor"]
    /\ Goto(Lws, "dtorSDK")
    /\ UNCHANGED <<wsi, m_state, bufVars, WSClientSet, g_Instance, lwsVars,
                   sendVars, g_WSClientMtx, m_bWSRunning, cur, crashed>>

\* OnClose is `delete this`; ~UCClientWSclient unlists the object ...
DtorDerived ==
    /\ At(Lws, "dtor") /\ g_WSClientMtx = Null
    /\ g_WSClientSet' = g_WSClientSet \ {cur[Lws]}
    /\ obj' = [obj EXCEPT ![cur[Lws]] = "dtor"]
    /\ Goto(Lws, "dtorSDK")
    /\ UNCHANGED <<wsi, m_state, bufVars, WSClientSet, g_Instance, lwsVars,
                   sendVars, g_WSClientMtx, m_bWSRunning, cur, crashed>>

\* Mutant: g_Instance is not cleared.
DtorSDKForgotten ==
    /\ At(Lws, "dtorSDK")
    /\ Goto(Lws, "dtorWS")
    /\ UNCHANGED <<objVars, bufVars, regVars, lwsVars,
                   sendVars, g_WSClientMtx, m_bWSRunning, cur, crashed>>

\* ... ~CWinSDKBase clears g_Instance, whichever object that is ...
DtorSDK ==
    /\ At(Lws, "dtorSDK")
    /\ g_Instance' = Null
    /\ Goto(Lws, "dtorWS")
    /\ UNCHANGED <<objVars, bufVars, WSClientSet, g_WSClientSet, lwsVars,
                   sendVars, g_WSClientMtx, m_bWSRunning, cur, crashed>>

\* ... and ~WebSocketClient closes (if still registered) and erases the wsi.
DtorWS ==
    /\ At(Lws, "dtorWS")
    /\ LET c == cur[Lws] IN
       /\ m_state' = IF Registered(c) THEN [m_state EXCEPT ![c] = "CLOSING"]
                                      ELSE m_state
       /\ WSClientSet' = [WSClientSet EXCEPT ![wsi[c]] = Null]
       /\ obj' = [obj EXCEPT ![c] = "freed"]
    /\ Goto(Lws, "free")
    /\ UNCHANGED <<wsi, bufVars, g_WSClientSet, g_Instance, lwsVars, sendVars,
                   g_WSClientMtx, m_bWSRunning, cur, crashed>>

\* lws_close_free_wsi_final: the address may be used again from here on.  A
\* connection that was not upgraded may linger for the peer's shutdown.
FreeWsi ==
    /\ At(Lws, "free")
    /\ \/ conn' = [conn EXCEPT ![lwsi] = "free"]
       \/ conn[lwsi] = "shutdown" /\ UNCHANGED conn
    /\ Leave
    /\ UNCHANGED <<objVars, bufVars, regVars, pollout, sendVars,
                   g_WSClientMtx, m_bWSRunning, crashed>>

ShutdownEnds(w) ==
    /\ At(Lws, "loop") /\ conn[w] = "shutdown"
    /\ conn' = [conn EXCEPT ![w] = "free"]
    /\ UNCHANGED <<objVars, bufVars, regVars, pollout, lwsi, sendVars,
                   g_WSClientMtx, m_bWSRunning, pc, cur, crashed>>

\* lws_context_destroy calls CLOSED for established connections (Closed
\* above) and closes the others without a callback.
ContextDestroy(w) ==
    /\ At(Lws, "loop") /\ ~m_bWSRunning /\ conn[w] \in {"tls", "http"}
    /\ conn' = [conn EXCEPT ![w] = "free"]
    /\ UNCHANGED <<objVars, bufVars, regVars, pollout, lwsi, sendVars,
                   g_WSClientMtx, m_bWSRunning, pc, cur, crashed>>

\* Mutant: listenWS returns without UnInitInstance.
ListenEndsEarly ==
    /\ At(Lws, "loop") /\ ~m_bWSRunning
    /\ Goto(Lws, "done")
    /\ UNCHANGED <<objVars, bufVars, regVars, lwsVars, sendVars,
                   g_WSClientMtx, m_bWSRunning, cur, crashed>>

\* Mutant: the loop does not look at m_bWSRunning.
ListenNeverEnds ==
    /\ At(Lws, "loop") /\ ~m_bWSRunning
    /\ \A w \in Wsis : conn[w] = "free"
    /\ UNCHANGED vars

ListenEnds ==
    /\ At(Lws, "loop") /\ ~m_bWSRunning
    /\ \A w \in Wsis : conn[w] = "free"
    /\ Goto(Lws, "done")
    /\ UNCHANGED <<objVars, bufVars, regVars, lwsVars, sendVars,
                   g_WSClientMtx, m_bWSRunning, cur, crashed>>

-----------------------------------------------------------------------------
(* The thunks of CWinSDKBase: if (g_Instance) g_Instance->onX(...).        *)

SdkEvent(t, e) ==
    /\ At(t, "idle") /\ msgs < MaxMsgs /\ g_Instance # Null
    /\ msgs' = msgs + 1
    /\ this' = [this EXCEPT ![t] = g_Instance]
    /\ event' = [event EXCEPT ![t] = e]
    /\ msg' = [msg EXCEPT ![t] = msgs + 1]
    /\ Goto(t, "call")
    /\ UNCHANGED <<objVars, bufVars, regVars, lwsVars, seen,
                   g_WSClientMtx, m_bWSRunning, cur, crashed>>

SdkEventDropped(t) ==
    /\ At(t, "idle") /\ msgs < MaxMsgs /\ g_Instance = Null
    /\ msgs' = msgs + 1
    /\ UNCHANGED <<objVars, bufVars, regVars, lwsVars, this, event, msg, seen,
                   g_WSClientMtx, m_bWSRunning, pc, cur, crashed>>

HandlerEntry(e) == CASE e \in UnlockedEvents  -> "next"
                     [] e \in RecursiveEvents -> "recurse"
                     [] OTHER                 -> "lock"

\* Only a fully constructed object has the handlers in its vtable.
Callable(p) == p # Null /\ obj[p] = "live"

\* g_Instance is read a second time for the call; the compiler may reuse
\* the first value.  The recursive thunk is static and needs no object.
SdkCall(t) ==
    /\ At(t, "call")
    /\ \E p \in {this[t], g_Instance} :
          /\ Callable(p) \/ event[t] \in RecursiveEvents
          /\ this' = [this EXCEPT ![t] = p]
    /\ Goto(t, HandlerEntry(event[t]))
    /\ UNCHANGED <<objVars, bufVars, regVars, lwsVars, event, msg, seen, msgs,
                   g_WSClientMtx, m_bWSRunning, cur, crashed>>

\* The locals of the thunk and the handler go out of scope.
HandlerReturns(t) ==
    /\ this' = [u \in SdkThreads |-> IF u = t THEN Null ELSE this[u]]
    /\ event' = [event EXCEPT ![t] = Null]
    /\ msg' = [msg EXCEPT ![t] = 0]
    /\ seen' = [seen EXCEPT ![t] = {}]
    /\ Working(t, Null) /\ Goto(t, "idle")

\* sonSwitchCallMediaTypeRequest calls itself until g_Instance is null (a
\* build that turns the tail call into a jump spins meanwhile) ...
SwitchReturns(t) ==
    /\ At(t, "recurse") /\ g_Instance = Null
    /\ HandlerReturns(t)
    /\ UNCHANGED <<objVars, bufVars, regVars, lwsVars, msgs,
                   g_WSClientMtx, m_bWSRunning, crashed>>

\* ... or the stack is used up.
SwitchOverflows(t) ==
    /\ At(t, "recurse") /\ g_Instance # Null
    /\ crashed' = "overflow"
    /\ UNCHANGED <<objVars, bufVars, regVars, lwsVars, sendVars,
                   g_WSClientMtx, m_bWSRunning, pc, cur>>

-----------------------------------------------------------------------------
(* The broadcast loop of the handlers and of OnSessionChange.              *)

\* Mutant: the event is broadcast before its text is written.
OnSessionChangeUnwritten ==
    /\ At(UI, "idle") /\ msgs < MaxMsgs /\ SessionEvents \subseteq Events
    /\ msgs' = msgs + 1
    /\ event' = [event EXCEPT ![UI] = "OnWTSSessionChange"]
    /\ Goto(UI, "lock")
    /\ UNCHANGED <<objVars, bufVars, regVars, lwsVars, this, msg, seen,
                   g_WSClientMtx, m_bWSRunning, cur, crashed>>

OnSessionChange ==
    /\ At(UI, "idle") /\ msgs < MaxMsgs /\ SessionEvents \subseteq Events
    /\ msgs' = msgs + 1
    /\ event' = [event EXCEPT ![UI] = "OnWTSSessionChange"]
    /\ msg' = [msg EXCEPT ![UI] = msgs + 1]
    /\ Goto(UI, "lock")
    /\ UNCHANGED <<objVars, bufVars, regVars, lwsVars, this, seen,
                   g_WSClientMtx, m_bWSRunning, cur, crashed>>

BroadcastLock(t) ==
    /\ At(t, "lock") /\ g_WSClientMtx = Null
    /\ g_WSClientMtx' = t
    /\ Goto(t, "next")
    /\ UNCHANGED <<objVars, bufVars, regVars, lwsVars, sendVars,
                   m_bWSRunning, cur, crashed>>

\* The order of the list does not matter to any one connection.
BroadcastNext(t) ==
    /\ At(t, "next")
    /\ \E c \in g_WSClientSet \ seen[t] :
          /\ Working(t, c)
          /\ seen' = [seen EXCEPT ![t] = @ \cup {c}]
    /\ Goto(t, "push")
    /\ UNCHANGED <<objVars, bufVars, regVars, lwsVars, this, event, msg, msgs,
                   g_WSClientMtx, m_bWSRunning, crashed>>

BroadcastEnd(t) ==
    /\ At(t, "next") /\ g_WSClientSet \subseteq seen[t]
    /\ g_WSClientMtx' = IF g_WSClientMtx = t THEN Null ELSE g_WSClientMtx
    /\ HandlerReturns(t)
    /\ UNCHANGED <<objVars, bufVars, regVars, lwsVars, msgs,
                   m_bWSRunning, crashed>>

-----------------------------------------------------------------------------
(* WSStop: the flag, then join.                                            *)

WSStop ==
    /\ At(UI, "idle")
    /\ m_bWSRunning' = FALSE
    /\ Goto(UI, "join")
    /\ UNCHANGED <<objVars, bufVars, regVars, lwsVars, sendVars,
                   g_WSClientMtx, cur, crashed>>

WSJoined ==
    /\ At(UI, "join") /\ At(Lws, "done")
    /\ Goto(UI, "exited")
    /\ UNCHANGED <<objVars, bufVars, regVars, lwsVars, sendVars,
                   g_WSClientMtx, m_bWSRunning, cur, crashed>>

-----------------------------------------------------------------------------
(* Undefined behaviour.  A thread about to use memory that is gone, or     *)
(* inside an update that another thread overlaps, may end the process; the *)
(* actions above are what happens when it does not.                        *)

\* The object, list node or connection a Send or a broadcast loop is about
\* to use has been freed.
DanglingTarget(t) ==
    \/ pc[t] \in SendLabels /\ obj[cur[t]] = "freed"
    \/ pc[t] = "writable" /\ conn[wsi[cur[t]]] = "free"
    \/ pc[t] = "next" /\ cur[t] # Null /\ cur[t] \notin g_WSClientSet

\* The object whose handler is running: entered through a dead g_Instance,
\* or destroyed before the handler's last use of this->log.
DanglingThis(t) ==
    /\ t \in SdkThreads
    /\ \/ /\ pc[t] = "call" /\ event[t] \notin RecursiveEvents
          /\ \E p \in {this[t], g_Instance} : ~Callable(p)
       \/ /\ pc[t] = "next" /\ g_WSClientSet \subseteq seen[t]
          /\ obj[this[t]] # "live"

Racing(t) ==
    \/ pc[t] \in {"push", "pop"} /\ BufOverlap(t)
    \/ pc[t] = "find" /\ MapOverlap(t)

UndefinedBehaviour(t) ==
    /\ crashed = "no"
    /\ DanglingTarget(t) \/ DanglingThis(t) \/ Racing(t)
    /\ crashed' = "ub"
    /\ UNCHANGED <<objVars, bufVars, regVars, lwsVars, sendVars,
                   g_WSClientMtx, m_bWSRunning, pc, cur>>

-----------------------------------------------------------------------------
\* What libwebsockets, the peers, the SDK and the user may do at any time.
Environment ==
    \/ \E w \in Wsis : \/ \E c \in Clients : Accept(w, c)
                       \/ TlsAccepted(w) \/ Established(w)
                       \/ OnMessage(w) \/ Dropped(w) \/ ClosedHttp(w)
    \/ \E t \in SdkThreads : \/ \E e \in Events \cap SdkEvents : SdkEvent(t, e)
                             \/ SdkEventDropped(t)
    \/ OnSessionChange
    \/ WSStop

\* What the service thread does once it has something to do.
Service ==
    \/ AcceptInsert \/ AcceptInstance \/ AcceptDerived
    \/ OnOpen \/ WriteablePop \/ Send(Lws)
    \/ ClosedErase \/ DtorDerived \/ DtorSDK \/ DtorWS \/ FreeWsi
    \/ \E w \in Wsis : \/ Writeable(w) \/ Closed(w)
                       \/ ShutdownEnds(w) \/ ContextDestroy(w)
    \/ ListenEnds

\* What a broadcasting thread does once it is in a handler.
Broadcast(t) == BroadcastLock(t) \/ BroadcastNext(t) \/ BroadcastEnd(t) \/ Send(t)

Thunk(t) == SdkCall(t) \/ SwitchReturns(t) \/ SwitchOverflows(t)

\* The process has ended, or the server has and nobody has more to do.
Finished == (crashed # "no" \/ pc[UI] = "exited") /\ UNCHANGED vars

Next ==
    \/ Environment
    \/ Service
    \/ \E t \in Broadcasters : Broadcast(t)
    \/ \E t \in SdkThreads : Thunk(t)
    \/ WSJoined
    \/ \E t \in Threads : UndefinedBehaviour(t)
    \/ Finished

Spec == Init /\ [][Next]_vars

\* Every thread that can run is eventually scheduled; a connection on its way
\* out is finished by libwebsockets' own timeouts.  Nothing obliges a peer,
\* the SDK or the user to act.
Fairness ==
    /\ WF_vars(Service)
    /\ \A t \in SdkThreads : WF_vars(Thunk(t) \/ Broadcast(t))
    /\ WF_vars(Broadcast(UI) \/ WSJoined)

FairSpec == Spec /\ Fairness

-----------------------------------------------------------------------------
(* What makes the server correct.                                          *)

\* A broadcast that holds g_WSClientMtx never uses a freed object, a list
\* node that was removed, or a connection that libwebsockets has freed: the
\* destructor takes the same mutex before anything is torn down, and the
\* connection outlives the destructor.  (onLogOut, onWillCloseTcp and the
\* handler's own object have no such protection.)
LockedBroadcastSafe ==
    \A t \in Broadcasters : g_WSClientMtx = t => ~DanglingTarget(t)

\* callback_lws never finds an object that is being destroyed: an entry of
\* WSClientSet is an intact object made for that address, not yet CLOSED.
\* This survives the entries that failed TLS handshakes leave behind and
\* the reuse of their addresses.
RegistrySound ==
    \A w \in Wsis : WSClientSet[w] # Null =>
        LET c == WSClientSet[w] IN
        obj[c] \in {"ctor", "live"} /\ wsi[c] = w /\ m_state[c] # "CLOSED"

\* Between callbacks, every connection that may still get one has an object,
\* so the branches of callback_lws for a missing client are never taken.
EveryConnectionServed ==
    \A w \in Wsis : conn[w] \notin {"free", "shutdown"} /\ lwsi # w =>
        WSClientSet[w] # Null

\* g_Instance itself never points to an object whose CWinSDKBase part is
\* gone (a thread that loaded it earlier may still hold such a pointer).
InstanceSound ==
    g_Instance # Null => \/ obj[g_Instance] \in {"ctor", "live"}
                         \/ obj[g_Instance] = "dtor" /\ pc[Lws] = "dtorSDK"

\* What is left to write: WRITEABLE writes the front before it erases it.
Unwritten(c) == IF pc[Lws] = "pop" /\ cur[Lws] = c
                THEN Tail(m_sendBuf[c]) ELSE m_sendBuf[c]

\* As long as no two updates of an object's m_sendBuf overlapped, what is
\* written on its connection is what was sent to it, in that order, nothing
\* twice and nothing skipped, whatever the interleaving of replies, SDK
\* events, session events and WRITEABLE.  (m_sendBuf has no lock; when a push
\* and an erase do overlap, a message may be lost or sent twice.)
QueueFifo == \A c \in Clients \ overlapped : pushed[c] = written[c] \o Unwritten(c)

\* Whenever an open connection has something queued, a WRITEABLE is asked for
\* or somebody is about to ask: the thread that pushed, OnOpen or WRITEABLE
\* itself, and no order of a push, its lookup and the drain on the service
\* thread loses the wakeup.  The exception: Send looks its connection up
\* without a lock, and a lookup that overlaps the insert or erase of another
\* connection may miss it; what it queued is then in missed, until
\* another Send finds the connection.
WakeupKept ==
    \A c \in Clients \ missed :
        (m_state[c] = "OPEN" /\ conn[wsi[c]] = "ws" /\ m_sendBuf[c] # <<>>) =>
            \/ wsi[c] \in pollout
            \/ \E t \in Threads :
                  cur[t] = c /\ pc[t] \in {"find", "writable", "open", "pop"}

\* When listenWS has returned, no object is listed any more, so no later
\* broadcast can reach the destroyed context; the only objects left are ones
\* whose connection never opened.
StoppedClean ==
    pc[Lws] = "done" =>
        /\ g_WSClientSet = {}
        /\ \A c \in Clients : obj[c] = "live" => m_state[c] = "CONNECTING"

\* A queued message of an open connection is eventually written, unless the
\* connection closes, the process ends, or the lookup of a Send on this
\* connection overlapped another connection's insert or erase and missed its
\* entry (see WakeupKept): then nothing drains the queue until the next Send.
QueueDrains ==
    \A c \in Clients :
        (m_state[c] = "OPEN" /\ m_sendBuf[c] # <<>>)
            ~> \/ m_sendBuf[c] = <<>> \/ m_state[c] = "CLOSED"
               \/ c \in missed \/ crashed # "no"

\* An object whose connection is on its way out is eventually freed, although
\* its destructor has to wait for broadcasts.
ClosingFreed ==
    \A c \in Clients :
        (obj[c] = "live" /\ m_state[c] = "OPEN" /\ conn[wsi[c]] = "closing")
            ~> (obj[c] = "freed" \/ crashed # "no")

\* WSStop returns: the join never waits forever on a destructor that waits
\* for a broadcast.
StopReturns == pc[UI] = "join" ~> (pc[UI] = "exited" \/ crashed # "no")

\* The comments on the callbacks promise the event to the application
\* ("the caller receives this event ..."): an SDK event may be dropped only
\* when no page is connected.
NoEventDropped ==
    [][\A t \in SdkThreads : SdkEventDropped(t) => g_WSClientSet = {}]_vars

-----------------------------------------------------------------------------
(* The server implements Outbox.                                           *)

PageState == [c \in Clients |-> CASE m_state[c] = "CONNECTING" -> "new"
                                  [] m_state[c] = "CLOSED" -> "closed"
                                  [] OTHER -> "open"]

Box == INSTANCE Outbox WITH Pages <- Clients, Messages <- 1..MaxMsgs,
                            state <- PageState, sent <- pushed,
                            delivered <- written, spoilt <- overlapped

\* Send, WRITEABLE, ESTABLISHED and CLOSED, on their threads, do to every
\* connection what Outbox says, although an address may still carry the
\* object that a failed TLS handshake left behind.
OutboxKept == Box!Spec
=============================================================================
