--------------------------- MODULE WebSocketPlugin ---------------------------
(***************************************************************************)
(* The browser plugin: controls (CATLWebSocket), each with a websocket     *)
(* client (ATLWSclient) and one connection, that come and go on the        *)
(* threads of browser tabs, and the one service thread they share, which   *)
(* runs while the reference count is not 0.                                *)
(*                                                                         *)
(* A control is on a thread of its own: controls of one tab do less.       *)
(* wsClientSetMtx is held in every callback, in Send, Close, the base      *)
(* destructor and the second half of Open, so each of these is one step.   *)
(* What happens outside the mutex is a step for each access: the count,    *)
(* the thread object, wsserver, and the two destructors.                   *)
(***************************************************************************)
EXTENDS Naturals, Sequences, FiniteSets

CONSTANTS
    Controls,     \* controls the browser creates in a behaviour
    Wsis,         \* addresses libwebsockets can give to a connection
    Null,
    Patience,     \* how often constructors wait for the context (5 in the code)
    MaxSends,     \* bound: messages each control sends
    MaxRecv       \* bound: messages each control receives

ASSUME PluginAssumption ==
    /\ IsFiniteSet(Controls)
    /\ Null \notin Controls \cup Wsis
    /\ Patience \in Nat /\ MaxSends \in Nat /\ MaxRecv \in Nat

-----------------------------------------------------------------------------
VARIABLES
    pc,           \* where each control is in its life
    count,        \* g_WebSocketServerReferce
    th,           \* g_WebSocketServerTh and where its thread is
    wsserver,     \* the server object that the global points to
    gen,          \* contexts made so far; the last one is wsserver's
    waits,        \* the static i of the constructor
    m_Context,    \* the context each client was given
    wsi,          \* the connection each client believes it has
    m_state,
    unsent,       \* length of m_sendBuf
    WSClientSet,
    conn,         \* libwebsockets' connections
    owner,        \* the control a connection was last made for
    wake,         \* connections with a WRITEABLE callback asked for
    posted,       \* window messages posted to each control
    seen,         \* the last event a control's page was told of
    recv, sends,  \* counters for the bounds
    robbed,       \* history: controls whose entry another one erased
    mixed,        \* history: controls created while one joined the thread
    crashed       \* the process is gone

serverVars  == <<count, th, wsserver, gen, waits>>
clientVars  == <<m_Context, wsi, m_state, unsent>>
lwsVars     == <<WSClientSet, conn, owner, wake>>
eventVars   == <<posted, seen, recv, sends>>
historyVars == <<robbed, mixed>>
vars == <<pc, serverVars, clientVars, lwsVars, eventVars, historyVars, crashed>>

\* Contexts are numbered; 0 is nullptr, and the last value is not a context
\* at all but what a read of freed memory gave.
Wild == Cardinality(Controls) + 1

Steps == {"none", "start", "wait", "make", "alive", "dtor", "uninit", "join", "gone"}
Statuses == {"CONNECTING", "OPEN", "CLOSING", "CLOSED"}
WindowEvents == {"open", "message", "error", "close"}

TypeOK ==
    /\ pc \in [Controls -> Steps]
    /\ count \in Nat
    /\ th \in {"none", "starting", "init", "loop", "leaving", "stopping", "ended"}
    /\ wsserver \in {"null", "new", "ready", "failed", "stopped", "deleted"}
    /\ gen \in Nat /\ waits \in 0..(Patience + 1)
    /\ m_Context \in [Controls -> Nat]
    /\ wsi \in [Controls -> Wsis \cup {Null}]
    /\ m_state \in [Controls -> Statuses]
    /\ unsent \in [Controls -> Nat]
    /\ WSClientSet \in [Wsis -> Controls \cup {Null}]
    /\ conn \in [Wsis -> {"free", "connecting", "failing", "open", "closing"}]
    /\ owner \in [Wsis -> Controls \cup {Null}]
    /\ wake \subseteq Wsis
    /\ posted \in [Controls -> Seq(WindowEvents)]
    /\ seen \in [Controls -> WindowEvents \cup {"none"}]
    /\ recv \in [Controls -> 0..MaxRecv] /\ sends \in [Controls -> 0..MaxSends]
    /\ robbed \subseteq Controls /\ mixed \subseteq Controls
    /\ crashed \in BOOLEAN

Init ==
    /\ pc = [c \in Controls |-> "none"]
    /\ count = 0 /\ th = "none" /\ wsserver = "null" /\ gen = 0 /\ waits = 0
    /\ m_Context = [c \in Controls |-> 0]
    /\ wsi = [c \in Controls |-> Null]
    /\ m_state = [c \in Controls |-> "CONNECTING"]
    /\ unsent = [c \in Controls |-> 0]
    /\ WSClientSet = [w \in Wsis |-> Null]
    /\ conn = [w \in Wsis |-> "free"]
    /\ owner = [w \in Wsis |-> Null]
    /\ wake = {}
    /\ posted = [c \in Controls |-> <<>>]
    /\ seen = [c \in Controls |-> "none"]
    /\ recv = [c \in Controls |-> 0] /\ sends = [c \in Controls |-> 0]
    /\ robbed = {} /\ mixed = {}
    /\ crashed = FALSE

At(c, step) == ~crashed /\ pc[c] = step
Go(c, step) == pc' = [pc EXCEPT ![c] = step]

\* The process ends: terminate, an access violation.
Crash == crashed' = TRUE

-----------------------------------------------------------------------------
(* The constructor of CATLWebSocket and the service thread.                *)

\* Mutant: a control that finds the thread running is not counted.
CreateUncounted(c) ==
    /\ At(c, "none")
    /\ count' = IF count = 0 THEN 1 ELSE count
    /\ Go(c, IF count = 0 THEN "start" ELSE "wait")
    /\ mixed' = IF \E d \in Controls : pc[d] = "join" THEN mixed \cup {c} ELSE mixed
    /\ UNCHANGED <<th, wsserver, gen, waits, clientVars, lwsVars, eventVars,
                   robbed, crashed>>

\* InitWebSocket: only the control that finds the count 0 starts the thread.
Create(c) ==
    /\ At(c, "none")
    /\ count' = count + 1
    /\ Go(c, IF count = 0 THEN "start" ELSE "wait")
    /\ mixed' = IF \E d \in Controls : pc[d] = "join" THEN mixed \cup {c} ELSE mixed
    /\ UNCHANGED <<th, wsserver, gen, waits, clientVars, lwsVars, eventVars,
                   robbed, crashed>>

\* g_WebSocketServerTh = std::thread(...), which terminates the process when
\* the old thread is not joined yet; then a sleep that guarantees nothing.
StartThread(c) ==
    /\ At(c, "start")
    /\ IF th = "none"
       THEN th' = "starting" /\ Go(c, "wait") /\ UNCHANGED crashed
       ELSE Crash /\ UNCHANGED <<th, pc>>
    /\ UNCHANGED <<count, wsserver, gen, waits, clientVars, lwsVars, eventVars,
                   historyVars>>

\* What wsserver->GetContext() may return, if it returns.
GetContext ==
    CASE wsserver = "null"    -> {}
      [] wsserver = "ready"   -> {gen}
      [] wsserver = "deleted" -> {0, Wild}
      [] OTHER                -> {0}

\* Reading through nullptr ends the process, through a deleted object may.
GetContextCrashes(c) ==
    /\ ~crashed /\ pc[c] \in {"wait", "make"} /\ wsserver \in {"null", "deleted"}
    /\ Crash
    /\ UNCHANGED <<pc, serverVars, clientVars, lwsVars, eventVars, historyVars>>

\* The loop of the constructor: i is shared by all of them.
WaitContext(c) ==
    /\ At(c, "wait")
    /\ \E ctx \in GetContext :
          IF ctx # 0
          THEN Go(c, "make") /\ UNCHANGED waits
          ELSE /\ waits' = IF waits > Patience THEN waits ELSE waits + 1
               /\ IF waits' > Patience THEN Go(c, "make") ELSE UNCHANGED pc
    /\ UNCHANGED <<count, th, wsserver, gen, clientVars, lwsVars, eventVars,
                   historyVars, crashed>>

MakeClient(c) ==
    /\ At(c, "make")
    /\ \E ctx \in GetContext : m_Context' = [m_Context EXCEPT ![c] = ctx]
    /\ Go(c, "alive")
    /\ UNCHANGED <<serverVars, wsi, m_state, unsent, lwsVars, eventVars,
                   historyVars, crashed>>

\* WebSocketThread, up to the loop.
ThreadNew ==
    /\ ~crashed /\ th = "starting"
    /\ th' = "init" /\ wsserver' = "new"
    /\ UNCHANGED <<pc, count, gen, waits, clientVars, lwsVars, eventVars,
                   historyVars, crashed>>

InitInstance ==
    /\ ~crashed /\ th = "init"
    /\ th' = "loop"
    /\ \/ wsserver' = "ready" /\ gen' = gen + 1
       \/ wsserver' = "failed" /\ UNCHANGED gen
    /\ UNCHANGED <<pc, count, waits, clientVars, lwsVars, eventVars,
                   historyVars, crashed>>

LeaveLoop ==
    /\ ~crashed /\ th = "loop" /\ count = 0
    /\ th' = "leaving"
    /\ UNCHANGED <<pc, count, wsserver, gen, waits, clientVars, lwsVars,
                   eventVars, historyVars, crashed>>

-----------------------------------------------------------------------------
(* callback_lws, on the service thread, and the end of connections.        *)

\* A virtual call of a client in its base destructor reaches the base class,
\* which only logs; ATLWSclient posts to the control's window.
Post(c, events) ==
    IF pc[c] = "alive" THEN [posted EXCEPT ![c] = @ \o events] ELSE posted

Serving == ~crashed /\ th = "loop" /\ wsserver = "ready"

CallbackFrame == UNCHANGED <<pc, serverVars, m_Context, wsi, seen, sends,
                             historyVars, crashed>>

\* What callback_lws does when libwebsockets ends the connections W: CLOSED
\* and CLOSED_CLIENT_HTTP (lwsclose) tell a client that is not CLOSED yet;
\* CLIENT_CONNECTION_ERROR, for those in F, tells it in any state.
LwsEnd(W, F) ==
    LET clients == {WSClientSet[w] : w \in W} \ {Null}
        failed  == {WSClientSet[w] : w \in F} \ {Null} IN
    /\ WSClientSet' = [w \in Wsis |-> IF w \in W THEN Null ELSE WSClientSet[w]]
    /\ m_state' = [c \in Controls |-> IF c \in clients THEN "CLOSED" ELSE m_state[c]]
    /\ posted' = [c \in Controls |->
                     CASE c \in failed -> Post(c, <<"error", "close">>)[c]
                       [] c \in clients \ failed /\ m_state[c] # "CLOSED" ->
                              Post(c, <<"close">>)[c]
                       [] OTHER -> posted[c]]

\* Mutant: the state is not set.
LwsCloseKeepsState(W) ==
    LET clients == {WSClientSet[w] : w \in W} \ {Null} IN
    /\ WSClientSet' = [w \in Wsis |-> IF w \in W THEN Null ELSE WSClientSet[w]]
    /\ posted' = [c \in Controls |->
                     IF c \in clients THEN Post(c, <<"close">>)[c] ELSE posted[c]]
    /\ UNCHANGED m_state

LwsClose(W) == LwsEnd(W, {})

\* The connections W are gone and their addresses may be used again.
Freed(W) ==
    /\ conn' = [w \in Wsis |-> IF w \in W THEN "free" ELSE conn[w]]
    /\ wake' = wake \ W
    /\ UNCHANGED owner

\* Mutant: OnClose before OnError.
ConnectionErrorSwapped(w) ==
    /\ Serving /\ conn[w] = "connecting"
    /\ conn' = [conn EXCEPT ![w] = "failing"]
    /\ WSClientSet' = [WSClientSet EXCEPT ![w] = Null]
    /\ LET c == WSClientSet[w] IN
       IF c = Null THEN UNCHANGED <<m_state, posted>>
       ELSE /\ m_state' = [m_state EXCEPT ![c] = "CLOSED"]
            /\ posted' = Post(c, <<"close", "error">>)
    /\ UNCHANGED <<unsent, owner, wake, recv>> /\ CallbackFrame

\* CLIENT_CONNECTION_ERROR: refused, timed out, a bad answer.
ConnectionError(w) ==
    /\ Serving /\ conn[w] = "connecting"
    /\ conn' = [conn EXCEPT ![w] = "failing"]
    /\ WSClientSet' = [WSClientSet EXCEPT ![w] = Null]
    /\ LET c == WSClientSet[w] IN
       IF c = Null THEN UNCHANGED <<m_state, posted>>
       ELSE /\ m_state' = [m_state EXCEPT ![c] = "CLOSED"]
            /\ posted' = Post(c, <<"error", "close">>)
    /\ UNCHANGED <<unsent, owner, wake, recv>> /\ CallbackFrame

\* CLOSED_CLIENT_HTTP: after the error, or instead of it when the request
\* cannot be written.
ClosedClientHttp(w) ==
    /\ Serving /\ conn[w] \in {"connecting", "failing"}
    /\ LwsClose({w}) /\ Freed({w})
    /\ UNCHANGED <<unsent, recv>> /\ CallbackFrame

\* Mutant: the page is not told.
EstablishedSilent(w) ==
    /\ Serving /\ conn[w] = "connecting"
    /\ conn' = [conn EXCEPT ![w] = "open"]
    /\ LET c == WSClientSet[w] IN
       IF c = Null THEN UNCHANGED <<m_state, wake>>
       ELSE /\ m_state' = [m_state EXCEPT ![c] = "OPEN"]
            /\ wake' = wake \cup {w}
    /\ UNCHANGED <<unsent, WSClientSet, owner, posted, recv>> /\ CallbackFrame

ClientEstablished(w) ==
    /\ Serving /\ conn[w] = "connecting"
    /\ conn' = [conn EXCEPT ![w] = "open"]
    /\ LET c == WSClientSet[w] IN
       IF c = Null THEN UNCHANGED <<m_state, posted, wake>>
       ELSE /\ m_state' = [m_state EXCEPT ![c] = "OPEN"]
            /\ posted' = Post(c, <<"open">>)
            /\ wake' = wake \cup {w}
    /\ UNCHANGED <<unsent, WSClientSet, owner, recv>> /\ CallbackFrame

ClientReceive(w) ==
    /\ Serving /\ conn[w] = "open"
    /\ LET c == WSClientSet[w] IN
       /\ c # Null /\ recv[c] < MaxRecv
       /\ recv' = [recv EXCEPT ![c] = @ + 1]
       /\ posted' = Post(c, <<"message">>)
    /\ UNCHANGED <<m_state, unsent, lwsVars>> /\ CallbackFrame

\* Mutant: erase without a test that there is a message.
WriteableErasesAlways(w) ==
    /\ Serving /\ conn[w] = "open" /\ w \in wake
    /\ LET c == WSClientSet[w] IN
       /\ c # Null
       /\ unsent' = [unsent EXCEPT ![c] = @ - 1]
       /\ wake' = IF unsent[c] > 1 THEN wake ELSE wake \ {w}
    /\ UNCHANGED <<m_state, WSClientSet, conn, owner, posted, recv>> /\ CallbackFrame

\* Mutant: no further callback is asked for when something is left.
WriteableOnce(w) ==
    /\ Serving /\ conn[w] = "open" /\ w \in wake
    /\ LET c == WSClientSet[w] IN
       \/ /\ c # Null /\ m_state[c] # "CLOSING"
          /\ unsent' = [unsent EXCEPT ![c] = IF @ > 0 THEN @ - 1 ELSE 0]
          /\ UNCHANGED conn
       \/ /\ c # Null => m_state[c] = "CLOSING" \/ unsent[c] > 0
          /\ conn' = [conn EXCEPT ![w] = "closing"]
          /\ UNCHANGED unsent
    /\ wake' = wake \ {w}
    /\ UNCHANGED <<m_state, WSClientSet, owner, posted, recv>> /\ CallbackFrame

\* CLIENT_WRITEABLE: one message is written; without a client, in state
\* CLOSING, or when the write fails, -1 makes libwebsockets close.
ClientWriteable(w) ==
    /\ Serving /\ conn[w] = "open" /\ w \in wake
    /\ LET c == WSClientSet[w] IN
       \/ /\ c # Null /\ m_state[c] # "CLOSING"
          /\ unsent' = [unsent EXCEPT ![c] = IF @ > 0 THEN @ - 1 ELSE 0]
          /\ wake' = IF unsent[c] > 1 THEN wake ELSE wake \ {w}
          /\ UNCHANGED conn
       \/ /\ c # Null => m_state[c] = "CLOSING" \/ unsent[c] > 0
          /\ wake' = wake \ {w}
          /\ conn' = [conn EXCEPT ![w] = "closing"]
          /\ UNCHANGED unsent
    /\ UNCHANGED <<m_state, WSClientSet, owner, posted, recv>> /\ CallbackFrame

\* CLOSED: the close is complete, or the peer or the network ends it.
Closed(w) ==
    /\ Serving /\ conn[w] \in {"open", "closing"}
    /\ LwsClose({w}) /\ Freed({w})
    /\ UNCHANGED <<unsent, recv>> /\ CallbackFrame

\* lws_context_destroy closes what is left: an attempt to connect that is
\* under way gets CLIENT_CONNECTION_ERROR, any other connection CLOSED.  Only
\* then is m_Context nulled; a GetContext in between reads what it would have
\* read before, and its control has no entry yet, so the two are one step.
UnInitInstance ==
    /\ ~crashed /\ th = "leaving"
    /\ th' = "stopping"
    /\ wsserver' = IF wsserver = "ready" THEN "stopped" ELSE wsserver
    /\ LwsEnd({w \in Wsis : conn[w] # "free"}, {w \in Wsis : conn[w] = "connecting"})
    /\ Freed(Wsis)
    /\ UNCHANGED <<pc, count, gen, waits, m_Context, wsi, unsent, seen, recv,
                   sends, historyVars, crashed>>

DeleteServer ==
    /\ ~crashed /\ th = "stopping"
    /\ th' = "ended" /\ wsserver' = "deleted"
    /\ UNCHANGED <<pc, count, gen, waits, clientVars, lwsVars, eventVars,
                   historyVars, crashed>>

-----------------------------------------------------------------------------
(* The methods of a control, called by the page's script.                  *)

\* Mutant: libwebsockets is not asked for a callback.
AskCloseNoWake(c) ==
    /\ IF wsi[c] # Null /\ WSClientSet[wsi[c]] # Null /\ m_state[c] = "OPEN"
       THEN m_state' = [m_state EXCEPT ![c] = "CLOSING"] ELSE UNCHANGED m_state
    /\ UNCHANGED wake

\* Close, as the script's close and the base destructor call it.
AskClose(c) ==
    IF wsi[c] # Null /\ WSClientSet[wsi[c]] # Null /\ m_state[c] = "OPEN"
    THEN /\ m_state' = [m_state EXCEPT ![c] = "CLOSING"]
         /\ wake' = wake \cup {wsi[c]}
    ELSE UNCHANGED <<m_state, wake>>

\* The context exists: it is the one of the server, not an earlier one.
ContextLive(c) == wsserver = "ready" /\ m_Context[c] = gen

\* setwsurl: Open, when lws_client_connect_via_info gives a connection.  A
\* second connection is never opened, and a url that does not parse changes
\* nothing.  Nor does a call that fails at once (a name that does not resolve):
\* its error callback finds no entry, the state was CONNECTING and stays it,
\* and nothing is looked up by the entry that it makes for nullptr.
Setwsurl(c) ==
    /\ At(c, "alive") /\ wsi[c] = Null
    /\ ContextLive(c)
    /\ \E w \in Wsis :
          /\ conn[w] = "free"
          /\ wsi' = [wsi EXCEPT ![c] = w]
          /\ conn' = [conn EXCEPT ![w] = "connecting"]
          /\ owner' = [owner EXCEPT ![w] = c]
          /\ WSClientSet' = [WSClientSet EXCEPT ![w] = IF @ = Null THEN c ELSE @]
    /\ m_state' = [m_state EXCEPT ![c] = "CONNECTING"]
    /\ UNCHANGED <<pc, serverVars, m_Context, unsent, wake, eventVars,
                   historyVars, crashed>>

\* The context is null when InitInstance failed or took too long, and gone
\* when the thread was joined after all: using it may end the process.
SetwsurlCrashes(c) ==
    /\ At(c, "alive") /\ wsi[c] = Null
    /\ ~ContextLive(c)
    /\ Crash
    /\ UNCHANGED <<pc, serverVars, clientVars, lwsVars, eventVars, historyVars>>

Send(c) ==
    /\ At(c, "alive") /\ sends[c] < MaxSends
    /\ sends' = [sends EXCEPT ![c] = @ + 1]
    /\ unsent' = [unsent EXCEPT ![c] = @ + 1]
    /\ wake' = IF /\ wsi[c] # Null /\ WSClientSet[wsi[c]] # Null
                  /\ m_state[c] = "OPEN"
               THEN wake \cup {wsi[c]} ELSE wake
    /\ UNCHANGED <<pc, serverVars, m_Context, wsi, m_state, WSClientSet, conn,
                   owner, posted, seen, recv, historyVars, crashed>>

CloseMethod(c) ==
    /\ At(c, "alive")
    /\ AskClose(c)
    /\ UNCHANGED <<pc, serverVars, m_Context, wsi, unsent, WSClientSet, conn,
                   owner, eventVars, historyVars, crashed>>

\* The window procedure: onOpen, onMessage, onError, onClose.
Fire(c) ==
    /\ At(c, "alive") /\ posted[c] # <<>>
    /\ seen' = [seen EXCEPT ![c] = Head(posted[c])]
    /\ posted' = [posted EXCEPT ![c] = Tail(@)]
    /\ UNCHANGED <<pc, serverVars, clientVars, lwsVars, recv, sends,
                   historyVars, crashed>>

-----------------------------------------------------------------------------
(* OnDestroy: the window goes away.                                        *)

\* delete m_wsclient, ~ATLWSclient.  The window's messages go with it.
DtorDerived(c) ==
    /\ At(c, "alive")
    /\ Go(c, "dtor")
    /\ posted' = [posted EXCEPT ![c] = <<>>]
    /\ UNCHANGED <<serverVars, clientVars, lwsVars, seen, recv, sends,
                   historyVars, crashed>>

\* Mutant: the entry stays.
DtorBaseKeeps(c) ==
    /\ At(c, "dtor")
    /\ Go(c, "uninit")
    /\ AskClose(c)
    /\ UNCHANGED <<serverVars, m_Context, wsi, unsent, WSClientSet, conn, owner,
                   eventVars, historyVars, crashed>>

\* ~WebSocketClient erases the entry of its wsi, whoever it belongs to now;
\* m_sendBuf goes with the client.
DtorBase(c) ==
    /\ At(c, "dtor")
    /\ Go(c, "uninit")
    /\ AskClose(c)
    /\ IF wsi[c] = Null THEN UNCHANGED <<WSClientSet, robbed>>
       ELSE /\ WSClientSet' = [WSClientSet EXCEPT ![wsi[c]] = Null]
            /\ robbed' = robbed \cup ({WSClientSet[wsi[c]]} \ {c, Null})
    /\ unsent' = [unsent EXCEPT ![c] = 0]
    /\ UNCHANGED <<serverVars, m_Context, wsi, conn, owner, eventVars,
                   mixed, crashed>>

\* Mutant: every control joins the thread.
UnInitJoins(c) ==
    /\ At(c, "uninit")
    /\ count' = count - 1
    /\ Go(c, "join")
    /\ UNCHANGED <<th, wsserver, gen, waits, clientVars, lwsVars, eventVars,
                   historyVars, crashed>>

\* UnInitWebSocket: the last control joins the thread.
UnInit(c) ==
    /\ At(c, "uninit")
    /\ count' = count - 1
    /\ Go(c, IF count = 1 THEN "join" ELSE "gone")
    /\ UNCHANGED <<th, wsserver, gen, waits, clientVars, lwsVars, eventVars,
                   historyVars, crashed>>

Join(c) ==
    /\ At(c, "join") /\ th = "ended"
    /\ th' = "none"
    /\ Go(c, "gone")
    /\ UNCHANGED <<count, wsserver, gen, waits, clientVars, lwsVars, eventVars,
                   historyVars, crashed>>

-----------------------------------------------------------------------------
Constructor(c) == Create(c) \/ StartThread(c) \/ WaitContext(c) \/ MakeClient(c)
                  \/ GetContextCrashes(c)

Script(c) == Setwsurl(c) \/ SetwsurlCrashes(c) \/ Send(c) \/ CloseMethod(c)

OnDestroy(c) == DtorDerived(c) \/ DtorBase(c) \/ UnInit(c) \/ Join(c)

ServiceThread == \/ ThreadNew \/ InitInstance \/ LeaveLoop
                 \/ UnInitInstance \/ DeleteServer

Callback(w) == \/ ConnectionError(w) \/ ClosedClientHttp(w) \/ ClientEstablished(w)
               \/ ClientReceive(w) \/ ClientWriteable(w) \/ Closed(w)

\* The process crashed, or the browser has destroyed every control.
Finished == /\ crashed \/ (th = "none" /\ \A c \in Controls : pc[c] = "gone")
            /\ UNCHANGED vars

Next == \/ \E c \in Controls : Constructor(c) \/ Script(c) \/ Fire(c) \/ OnDestroy(c)
        \/ \E w \in Wsis : Callback(w)
        \/ ServiceThread
        \/ Finished

Spec == Init /\ [][Next]_vars

\* Threads that can run do run.  libwebsockets ends every attempt to connect
\* and every close by a timeout.  Nobody must send, close or destroy.
FairSpec ==
    /\ Spec
    /\ WF_vars(ServiceThread)
    /\ \A w \in Wsis :
          /\ WF_vars(ConnectionError(w) \/ ClosedClientHttp(w) \/ ClientEstablished(w))
          /\ WF_vars(ClientWriteable(w))
          /\ WF_vars(conn[w] = "closing" /\ Closed(w))
    /\ \A c \in Controls :
          /\ WF_vars(pc[c] # "none" /\ Constructor(c))
          /\ WF_vars(DtorBase(c) \/ UnInit(c) \/ Join(c))
          /\ WF_vars(Fire(c))

-----------------------------------------------------------------------------
\* An entry of WSClientSet is a client that is not deleted and whose
\* connection, still alive, this is: a callback never uses a freed client,
\* nor the client of an earlier connection at the same address.
RegistrySound ==
    \A w \in Wsis : WSClientSet[w] # Null =>
        /\ pc[WSClientSet[w]] \in {"alive", "dtor"}
        /\ wsi[WSClientSet[w]] = w
        /\ conn[w] # "free" /\ owner[w] = WSClientSet[w]

\* While a client exists the context it was given, if any, is the one the
\* service thread serves: no other control's end takes it away.  Controls
\* created while another one joins the thread have no such guarantee.
ContextKept ==
    \A c \in Controls \ mixed :
        pc[c] \in {"alive", "dtor"} /\ m_Context[c] \notin {0, Wild} =>
            wsserver = "ready" /\ th = "loop" /\ m_Context[c] = gen

\* What may follow an event of a control.
Follows == [none    |-> {"open", "error", "close"},
            open    |-> {"message", "close"},
            message |-> {"message", "close"},
            error   |-> {"close"},
            close   |-> {}]

\* A page is told of its connection in order, whatever the service thread
\* does while earlier messages still wait in the window's queue: onopen once
\* and first, messages only after it, onerror just before onclose, nothing
\* after onclose.
EventOrder ==
    \A c \in Controls :
        LET s == <<seen[c]>> \o posted[c] IN
        \A i \in 1..(Len(s) - 1) : s[i + 1] \in Follows[s[i]]

\* m_readyState OPEN is documented as open and ready to communicate: the
\* client has a connection, and it is its own.
OpenIsOpen ==
    \A c \in Controls : pc[c] = "alive" /\ m_state[c] = "OPEN" =>
        conn[wsi[c]] \in {"open", "closing"} /\ owner[wsi[c]] = c

\* It holds for every client whose entry no other client has erased, and its
\* callbacks find it.
OpenUnlessRobbed ==
    \A c \in Controls \ robbed : pc[c] = "alive" /\ m_state[c] = "OPEN" =>
        /\ conn[wsi[c]] \in {"open", "closing"} /\ owner[wsi[c]] = c
        /\ WSClientSet[wsi[c]] = c

\* While a message waits in m_sendBuf of an open connection a WRITEABLE is
\* asked for: by the Send that queued it, by the callback that opened the
\* connection after it, or by the WRITEABLE that wrote the one before it.
\* The exception is a client whose entry another one has erased.
SendWakeKept ==
    \A c \in Controls \ robbed :
        pc[c] = "alive" /\ m_state[c] = "OPEN" /\ conn[wsi[c]] = "open" /\ unsent[c] > 0
            => wsi[c] \in wake

\* OnDestroy returns, or the process has crashed: the join in it never waits
\* for ever.
DestroyReturns == \A c \in Controls : (pc[c] = "dtor") ~> (pc[c] = "gone" \/ crashed)

\* Every message handed to send is written when the connection is open, also
\* one that was sent too early and one that was queued behind others: each
\* WRITEABLE writes one message and asks for the next callback.  Unless the
\* connection ends, the control's entry was erased by another control, or
\* the process crashes.
SendDrains ==
    \A c \in Controls :
        (pc[c] = "alive" /\ m_state[c] = "OPEN" /\ unsent[c] > 0) ~>
            \/ unsent[c] = 0 \/ m_state[c] \in {"CLOSING", "CLOSED"}
            \/ pc[c] # "alive" \/ c \in robbed \/ crashed

\* Once libwebsockets has given a connection, the page is told how the attempt
\* to connect went, unless the control is destroyed, its entry was erased by
\* another control, or the process crashes.  (An attempt that fails inside
\* lws_client_connect_via_info has no connection, and its page hears nothing.)
OpenerTold ==
    \A c \in Controls :
        (pc[c] = "alive" /\ wsi[c] # Null) ~>
            (seen[c] # "none" \/ pc[c] # "alive" \/ c \in robbed \/ crashed)

\* The connection of a control that is destroyed while it is open is closed,
\* although the destructor erased the entry (a crash apart).  A control that
\* lost its entry to another one does not get as far as CLOSING.
OrphanClosed ==
    \A w \in Wsis :
        (conn[w] = "open" /\ pc[owner[w]] = "gone" /\ m_state[owner[w]] = "CLOSING")
            ~> (conn[w] = "free" \/ crashed)
=============================================================================
