# Verification of UCClient

UCClient is a Windows soft-phone. `UCClient.exe` listens on a local websocket
port; a web page (`UCClient.js`) connects to it, sends commands ("makeCall",
"acceptCall", ...) and receives the telephony SDK's callbacks as events. A
browser plugin (`WebSocketPlugin`) gives old browsers a websocket client built
from the same `websocket.cpp`. This directory holds TLA+ modules of the parts
that carry the program's own logic, TLC configurations that check them on
small instances, and TLAPS proofs for all instances.

Paths below are relative to `src/dev/trunk/`.

## Inventory

| part | state it keeps | operations | hard behaviour |
|---|---|---|---|
| websocket server core (`UCClient/websocket.cpp`) | `WSClientSet` (wsi to object), per object `m_state`, `m_sendBuf` | `callback_lws` (create, established, receive, writeable, closed, destroy), `Send`, `Close`, constructors, destructor | all locks are commented out; `Send` runs on any thread; libwebsockets reuses addresses |
| page connection and broadcast (`UCClient/UCClientWebSocket.cpp`) | `g_WSClientSet`, `g_WSClientMtx` | `OnOpen`, `OnClose` (`delete this`), `OnMessage`, some 27 event handlers | objects deleted by one thread while others iterate; two handlers skip the mutex |
| SDK binding (`UCClient/WinSDKBase.cpp`) | `g_Instance`, the initialise count (1 throughout), the account | thunks, SDK function wrappers | check-then-use of `g_Instance`; one global for many objects |
| main window (`UCClient/MainWnd.cpp`, `UCClient.cpp`) | `m_bWSRunning`, two threads, tray | `Start`, `Stop`, `OnSessionChange`, `signton` | join against a thread that needs the mutex; launches that race the end; nested message loops |
| page library (`UCClient/UCClient.js`, `demo.html`) | sessions and their states | one function per command, `wsonMessage` | replies and events in any order |
| settings (`UCClient/SettingsWnd.cpp`, `stdafx.cpp`) | registry values | load, save, `setRegConfig` | two writers of the same values |
| browser plugin (`WebSocketPlugin/ATLWebSocket.cpp`) | reference-counted service thread, connection, posted events | `setwsurl`, `open`, `send`, `close`, `OnDestroy` | a thread shared by controls that come and go; events posted to a window that may be gone |
| vendored: DuiLib, libwebsockets, jsoncpp, log4cplus, openssl; binary: winsdk | | | taken as environment |

What would make each part correct: nobody uses an object after `delete`; every
connection has exactly one object; messages of a connection stay in order and
are sent in the end; an SDK event reaches every connected page; shutdown
returns and leaves nothing behind; a command gets one answer the page can read.
`PROJECT.json` lists the hazards line by line.

## Modules

### UCServer

The server inside `UCClient.exe`: the service thread (`Lws`), the SDK's threads
(`SdkThreads`) and the window thread (`UI`) around the shared state. Variables
carry the source's names. A thread's position (`pc`) is a label between two
accesses to shared state; everything between two labels is local or protected.

| actions | code |
|---|---|
| `Accept`, `AcceptInsert`, `AcceptInstance`, `AcceptDerived` | WSI_CREATE, `OnAccept`, and the three constructors in order: `WebSocketClient` inserts into the map, `CWinSDKBase` sets `g_Instance`, then the object's handlers exist |
| `Established`, `OnOpen` | ESTABLISHED sets `m_state`, then `OnOpen` waits for the mutex and lists the object |
| `OnMessage`, `Push`, `Find`, `Writable` | RECEIVE; one reply through `Send`: push_back, lookup, `lws_callback_on_writable` |
| `Writeable`, `WriteablePop` | SERVER_WRITEABLE: one message is written, then erased; another callback is asked for if something is left |
| `Dropped`, `ClosedHttp`, `Closed`, `ClosedErase` | how a connection ends, with CLOSED, with CLOSED_HTTP, or with WSI_DESTROY only |
| `DtorDerived`, `DtorSDK`, `DtorWS`, `FreeWsi`, `ShutdownEnds` | `delete this`: the three destructors in order; then libwebsockets frees the wsi |
| `SdkEvent`, `SdkEventDropped`, `SdkCall`, `SwitchReturns`, `SwitchOverflows` | the thunks: test of `g_Instance`, the call through it (read again, or not), the thunk that calls itself |
| `OnSessionChange`, `BroadcastLock`, `BroadcastNext`, `BroadcastEnd` | the loop over `g_WSClientSet` of all handlers; `onLogOut` and `onWillCloseTcp` enter it without the lock |
| `WSStop`, `WSJoined`, `ContextDestroy`, `ListenEnds` | shutdown |
| `UndefinedBehaviour` | a thread about to use freed memory, or inside an update that overlaps another one, may end the process |

What libwebsockets does is an external contract, read off its 2.2.1 source:
one thread makes all callbacks; ESTABLISHED comes once; CLOSED follows for every
established connection, also in `lws_context_destroy`; CLOSED_HTTP follows for a
connection that is closed in order before the upgrade, and before its address
is free again; a handshake failure, a dead socket or a timeout before the
upgrade gives WSI_DESTROY only; a freed address may be handed out again.

Data races are nondeterministic: `Races` names the outcomes, beside the clean
one and the crash, that a run admits: `"lost"`, an overlapped push_back
swallows its element; `"kept"`, an overlapped erase leaves its element, which is
then written again; `"missed"`, a lookup that overlaps a rebalancing of the map
misses its entry. Two histories name what properties except: `overlapped`, the
objects on whose queue two updates have overlapped; `missed`, those with something in their
queue for which a lookup missed, so that nobody asked for the callback, until the
next wakeup or the end of the connection. `Events` names the
callbacks of the SDK and the session changes that a run admits.

Abstracted: the text of messages (a number), the callback's arguments, logging;
the order of the list (no property of one connection depends on it). An address
of a client object is not used twice; the addresses of connections are.

### UCServerProofs

Theorems about `UCServer` with their proofs. See "Proofs".

### CallProtocol

The conversation of three parties: pages (`UCClient.js`), the command
dispatcher (`UCClientWSclient::OnMessage`) and the SDK. A connection is a pair
of FIFO queues, `up` and `down`; that the server's queue is one is what
`UCServer` shows for queues without overlapping updates. `page`, `SessionS`,
`cause` and `callid` are the page's state, `srv` is the command the service
thread is executing, `call` and `asked` are the SDK's calls and the requests it
has accepted.

| actions | code |
|---|---|
| `Connect`, `Close` | the page's websocket; the constructor sets and the destructor clears `g_Instance` |
| `Plain`, `MakeCall`, `OnCall`, `ConsultationCall`, `ReconnectCall`, `AlternateCall`, `TransferMeeting` | the library's functions, with the commands they send and the `_status` they set |
| `OnMessage`, `OnMakeCall`, `CheckCurrentCall`, `UseCurrentCall` | the dispatcher; the two commands that read the current call twice take three steps, because the SDK's threads run between them |
| `Incoming`, `Alerting`, `Answered`, `Paused`, `Resumed`, `PeerHolds`, `Released` | external: the SDK changes a call and makes the callback, which `Broadcast` puts on every open connection |
| `OnResult`, `OnCallAlerting`, `OnCallAnswered`, `OnIncomingCallReceived`, `OnCallReleased`, `OnCallPaused`, `OnCallResumed` | the cases of `wsonMessage` that read or change the page's state |

The SDK is a binary; its part is read off `CCPClient.h` and the code that uses
it. It may refuse any request and makes the callbacks of a call one after the
other, in the order of the call's states. A user names only calls the page has
told of, or none. Abstracted: numbers, return codes, the causes passed on to
the application, and events whose handler in the page only logs
(`onCallProceeding` and the like). A broadcast is one step: the loop of
`UCServer` reaches every listed page, and no handler depends on when another
page gets the event.

### WebSocketPlugin

The browser plugin. A control (`CATLWebSocket`) has a client (`ATLWSclient`) with
one connection; all controls of the process share one service thread, which
runs while the reference count is not 0. Each control is on a thread of its
own, the most general case (controls of one browser tab take turns). `pc` is
where a control is between its constructor and the end of `OnDestroy`, `th` the
thread object and its thread's position, `conn` libwebsockets' connections.
`wsClientSetMtx`, unlike the locks of the server, is in use here: a callback,
`Send`, `Close`, the second half of `Open` and the base destructor are one step
each. What happens outside it, the count, the thread object, `wsserver` and the
two destructors, takes a step per access.

| actions | code |
|---|---|
| `Create`, `StartThread`, `WaitContext`, `MakeClient`, `GetContextCrashes` | the constructor: `InitWebSocket`, the wait for the context, `new ATLWSclient` |
| `ThreadNew`, `InitInstance`, `LeaveLoop`, `UnInitInstance`, `DeleteServer` | `WebSocketThread` |
| `ConnectionError`, `ClosedClientHttp`, `ClientEstablished`, `ClientReceive`, `ClientWriteable`, `Closed` | the cases of `callback_lws` that a client connection gets |
| `Setwsurl`, `SetwsurlCrashes`, `Send`, `CloseMethod` | the script's methods, with `Open`, `Send` and `Close` of `WebSocketClient` |
| `Fire` | the window procedure: one posted message becomes one script event |
| `DtorDerived`, `DtorBase`, `UnInit`, `Join` | `OnDestroy`: the two destructors, `UnInitWebSocket` |

The contract of libwebsockets: an attempt to connect ends with ESTABLISHED, with
CONNECTION_ERROR and then CLOSED_CLIENT_HTTP, or with the latter alone; an
established connection ends with CLOSED; the address is free only after that.
A read through the null `wsserver` ends the process, through the deleted one it
may, or gives 0 or a wild value. `UnInitInstance` ends every connection that is
left: one that was still connecting gets CONNECTION_ERROR before its close. That
it forgets the context and destroys it is one step; `GetContext` reads the
pointer without the mutex in between only for a `mixed` control. Opening a connection in a context that is not
alive changes nothing or ends the process. `Patience` stands for the 5 in the constructor's loop. An `Open`
that fails at once changes nothing, so it is no action: the state was CONNECTING
and stays it, and nothing is looked up by its entry for `nullptr`. Two histories
name what properties exclude: `mixed`, controls created while another one joins
the thread; `robbed`, controls whose entry another one's destructor erased.

### WebSocketPluginProofs, CallProtocolProofs, MainAppProofs, SettingsProofs, Lemmas

Theorems about `WebSocketPlugin`, `CallProtocol`, `MainApp` and `Settings` with
their proofs; see "Proofs". `Lemmas` has the facts about maxima and prefixes of
sequences that several of them use.

### MainApp

The life of `UCClient.exe` as a process, for several launches (`Procs`) around
one named event. `pc` is where `WinMain` is; between two messages it is at
`"loop"`, in whichever `GetMessage` that is, since settings windows run message
loops of their own (`modal` is the stack of them). `server` and `sington` are
the two threads of the main window; what `listenWS` does inside is `UCServer`.

| actions | code |
|---|---|
| `Launch`, `SecondSets`, `SecondLeaves` | `CreateEvent`; a launch that finds the event sets it and leaves |
| `InitFails`, `CreateWnd`, `OnPrepare` | up to the message loop; the first paint starts both threads |
| `CloseBtn`, `OnMouseLButtonDown`, `OnMouseRButtonDown`, `EscapeKey`, `OnClose`, `Stopped` | the messages of the main window; `OnClose` waits in `WSStop` |
| `SettingsBtn`, `SettingsClosed`, `ModalQuits`, `OrphanCrash` | `ShowModal`: a loop ends when its window is gone and the loops inside it have ended, or on WM_QUIT, which it posts again; in that case the object is deleted under its window |
| `LoopEnds`, `ExitUnstarted`, `TermSets`, `TermCloses`, `Exit` | the end of `WinMain`: `SetEvent`, `CloseHandle`, join of `signton` |
| `InitInstance`, `ListenEnds` | `listenWS`; a failed `InitInstance` is ignored, so both results are one step |
| `Wait`, `Woken`, `ShowWnd` | `signton`; `ShowWindow` from another thread waits for the window thread |

External: the event (auto-reset, gone with its last handle, a closed handle
makes the wait fail, a thread that already waits goes on waiting) and the
windows. The menu of the tray icon is one step. `OnCloseWindow` is left out: its
message comes from the prompt window only, whose creation is commented out.

### Settings

The registry values that settings windows and commands of pages share. `hkcu`
and `hku` are the user's key and the default user's key, each value with its
type; `windows` is the stack of settings objects, with what each one loaded and
what its controls show; `saver` and `next` are where `OnExit` is, which takes a
step per setting because commands run on the service thread.

| actions | code |
|---|---|
| `SettingsBtn`, `OnPrepare` | the object with its combos filled; then `windowinit` loads and shows the values |
| `Edit`, `Play`, `Pause` | the user changes a control, starts and stops a device test |
| `OnExit`, `SaveField`, `Closed`, `Restart` | the close button: each setting is stored if its control differs from what was loaded; then, or for the Escape key, the window is destroyed; the end of the program |
| `SelectAudioDevice`, `SetAudioPlayoutVolume`, `SetRegConfig` | commands of pages: a DWORD under the name of a string value, an uninitialised index, any type under any name |

The conversions are modelled by what they do: the port is cut to 16 bits on the
way in and out (`UInt16`), a slider clamps, a combo that does not list the device
stays at its first entry, a query of the wrong type fails but has copied what
fits, so the reader goes on with those bytes. A DWORD is written as the int of
the same bits, since TLC's numbers end there. Two facts have no step of their
own: a stored port is used at the next start only (the restart in `setRegConfig`
is commented out), and a missing LogLevel is 23 for the window
(`SettingsWnd.cpp:201`) and 20000 for the logger (`stdafx.cpp:31`).

### Outbox, OutboxProofs

`Outbox` is the abstract specification of the server's sending side: one outbox
per page, with what was sent and what was delivered. `Deliver` gives the page
the next message, only while it is open; `Spoil` is what two overlapping updates
may do to one outbox, and to no other. `UCServer` is shown to implement it
(`OutboxKept`) with the mapping `PageState` (from `m_state`), `pushed`, `written`
and `overlapped`. `OutboxProofs` proves it for all instances.

### MCUCServer, MCCallProtocol, MCWebSocketPlugin, MCMainApp, MCSettings

Definitions for TLC: symmetry, the numbers, devices and defaults of the settings and, for the server, event sets with one callback per kind of
handler. All locked handlers have the same control flow, so one of them stands
for all; the two unlocked ones likewise.

## Runs

| run | bounds | shows |
|---|---|---|
| `server_safety` | 2 objects, 2 addresses, 1 SDK thread, window thread, 2 messages, one event of each kind, session changes, lookups may miss; 2.2 M states | the eight invariants below |
| `server_live` | 2 objects, 2 addresses, 1 SDK thread, 2 messages, a locked event, overlapping updates may lose or repeat a message, lookups may miss; 0.3 M states | the three liveness properties, `OutboxKept` |
| `protocol_calls` | 1 page, 2 calls, 3 user actions: accept, pause, resume, consult, reconnect, alternate, conference; 1.4 M states | `TypeOK`, `NoSessionOnlyLate`, `CurrentHasSession`, `RepliesInOrder` |
| `protocol_live` | 2 pages, 1 call, 2 user actions of all kinds (`getCurrentCall` for the plain ones), 1 hold by the peer; 0.6 M states | `SessionsTracked`, `AllAnswered` |
| `plugin_conns` | 2 controls, 2 addresses, 2 messages sent and 1 received per control; 1.6 M states | `TypeOK`, `ContextKept`, `RegistrySound`, `EventOrder`, `OpenUnlessRobbed`, `SendWakeKept` |
| `plugin_live` | 2 controls, 1 address, 2 messages sent per control; 0.4 M states | `DestroyReturns`, `OpenerTold`, `SendDrains`, `OrphanClosed` |
| `app` | 3 launches, 2 settings windows at a time | `TypeOK`, `OneInstance`, `HiddenReachable`, `CleanExit`, `OrphanOnlyAtEnd`, `ExitReturns`, `LaunchAnswered` |
| `settings` | 3 of the 7 settings (the 16-bit one, a combo, a slider), 2 windows, 2 changes, one device test; 4.8 M states | `TypeOK`, `SavedIsShown`, `TestOwned`, `UntouchedKept` |
| `event_dropped` | 2 objects, 2 addresses | violation of `NoEventDropped`: open two pages, close one, and the next event is dropped |
| `uninitialize` | 1 page, 1 user action | violation of `EveryResultReadable` |
| `consult_twice` | 1 page, 1 call, 4 user actions | violation of `ConsultationDialsOnce` |
| `stale_wsi` | 2 controls, 1 address | violation of `OpenIsOpen` |

Why the bounds are enough: two addresses and two objects allow one page to
close while another is open, and an address to be used again after a failed
handshake left a stale entry; two messages allow a queue with a front and a
rest, and two threads pushing on the same queue. More of each adds states of
the same kinds; the server's safety properties are proved for all sizes anyway.
`server_safety` does not keep the states of a crashed process, which takes no step
(`Alive`; they are checked all the same).
TLC's symmetry reduction is not sound for liveness; `server_live` and `plugin_live`
cut renamed copies with a constraint (`InOrder`) that only fixes which object and
address, or which control, comes first, in a step that no fairness condition
mentions. To stay small `server_live` has one locked event: the handlers without
the mutex, the thunk that calls itself and the session changes of the window
thread are in `server_safety`, where `WakeupKept` is the safety half of
`QueueDrains`; for `OutboxKept` they are left to its theorem.
For the protocol, two pages let one act on the other's call, connect in the
middle of it, or silence the other by closing; two user actions make a call
on one page and hold or release it on the other; two calls and three user actions
reach a hold that is resumed, a consultation, an alternation and a conference, since accepting and
holding are also driven by the SDK and a consultation sends three commands. There
the users do not call `makeCall` and `releaseCall` themselves (`UserCmds`): calls
come in, are dialled by consultations, and end by their peers.
For the plugin, two controls let one be created or destroyed while the other
joins the thread, and two controls with one address are what it takes for an
address to be used again; two messages are what it takes for a write to leave
something in the queue, whose wakeup is then asked for by the write. The safety properties of all modules are proved for
any number of everything. For the application, three launches are an instance that ends, one
that comes while it does, and one after both; two settings windows are the least
that nest. For the settings, the three chosen have all conversions between them
(the others are a second combo, a second slider, an edit with a number and one
with a path), the numbers are 0 and one that fits neither a slider nor 16 bits,
and two windows and two changes let a command and a user, or two users, change
the same setting in either order.

`LockedBroadcastSafe`: a broadcast under the mutex never touches a freed object,
a removed list node or a freed connection. `RegistrySound`: an entry of
`WSClientSet` is an intact object made for that address. `EveryConnectionServed`:
every connection that may get a callback has an entry. `InstanceSound`:
`g_Instance` itself never dangles. `QueueFifo`: until two updates of a queue
overlap, what is written is what was queued, in order, and nothing else; after
an overlap a message may be lost or sent twice. `StoppedClean`: when `listenWS` returns, nothing is listed and
every object that was open is destroyed. `TypeOK`: the type invariant.

`WakeupKept`: while an open connection has something queued, a WRITEABLE is asked
for or a thread is about to ask for it. Its exception is an object in `missed`:
`Send` looks its connection up without a lock (`UCClient/websocket.cpp:528`, `:533`),
a lookup that overlaps the insert or erase of another connection may miss the
entry, and then nobody asks.

`QueueDrains`: a queued message of an open connection is written, unless the
connection closes, the process ends or the object is in `missed`; without this
last exception `server_live` fails, since a message whose lookup missed waits for
the next `Send` that finds the entry. `ClosingFreed`: the object of a closing
connection is freed. `StopReturns`: `WSStop` returns.

`SessionsTracked`: a page that was sent every event and has handled those about
a call has a session for it exactly when the call exists. `CurrentHasSession`:
`callid` of such a page names a session. `NoSessionOnlyLate`: the handlers that
use a session without a test find one on such a page. `RepliesInOrder`: what is
under way on an open page's connection, the results on their way to it, the
command in execution and those on their way to the server, in this order, stands
for exactly its unanswered commands, each once and in the order in which they
were sent; so each command gets one result, in order. `AllAnswered`: it gets it
in the end. Pages that were opened during a call or that lost an
event when another page closed are what `whole` leaves out; for them the three
properties do fail, and `event_dropped` shows the cause.

`RegistrySound` (plugin): an entry is a client that is not deleted, and the
connection at that address is still the client's own. `ContextKept`: while a
client exists, its context, if it got one, is the one being served; it fails for
`mixed` controls, whose thread is about to end. `EventOrder`: what a page is told
is onopen, messages, onclose, or onerror and onclose, or onclose, also
while some of it is still posted and not fired (`PostMessage` is taken to succeed). `OpenUnlessRobbed`: a client in state OPEN has its own open
connection and its entry. `SendWakeKept`: what is queued on an open
connection has a WRITEABLE asked for, by `Send`, by the opening or by the write of
the message before it. `DestroyReturns`: `OnDestroy` returns or the process has
crashed (the termination in `StartThread` is such a crash). `OpenerTold`: once
`lws_client_connect_via_info` has given a connection the page gets an event; an
attempt that fails inside that call has none, and its page hears nothing.
`OrphanClosed`: the connection of a control that is destroyed while OPEN is closed.
`SendDrains`: messages are written once the connection is open, those sent too
early and those queued behind others as well. These four except a crash, and
`SendWakeKept`, `OpenerTold`, `OrphanClosed` and `SendDrains` also `robbed` controls,
which get no more callbacks. `TypeOK`
includes that the number of queued messages never goes below 0.

`OutboxKept`: the server does to each page what `Outbox` allows and nothing
else, although an address may still carry the entry of an earlier object.

`OneInstance`: never two servers or two main windows at a time, also when a
launch races the end of an instance. `HiddenReachable`: a hidden window has its
icon or is about to close. `CleanExit`: both threads have ended when the process
does. `OrphanOnlyAtEnd`: a settings object is deleted under its window only when
no page is served any more. `ExitReturns`: the end that `OnClose` begins is
reached, wherever `signton` is. `LaunchAnswered`: a second launch brings the
window up, unless the instance is ending; such a launch is lost.

`UntouchedKept`: a window stores a setting its user left alone only when its
control could not show it (an unplugged device, a volume out of range); so a
window does not undo what a command or another window stored meanwhile.
`SavedIsShown`: what a window showed on leaving is what the next one loads,
whatever types were stored before, unless somebody else stored it since.
`TestOwned`: a running device test always has a settings object that shows it as
running. (The reverse is not so: an inner window's destructor stops the tests
of the outer one, whose button goes on showing them as running.)

Fairness: weak fairness of the service thread, of each SDK thread once it is in a
thunk or handler, and of the window thread once it is in a handler or in the
join, one condition per thread. The operating system schedules runnable
threads; the service thread's poll wakes at least once a second
(`Loop(1 * 1000)`), and libwebsockets' own timeouts finish a closing connection.
Nothing is assumed of peers, the SDK or the user. In `CallProtocol` the service
thread and the event loops of the pages are weakly fair, for the same reasons.
In `WebSocketPlugin` the service thread (`Loop(200)`), its writeable callbacks,
the end of an attempt to connect and of a close (`timeout_secs = 5` and
libwebsockets' own timeouts), the window's message loop, and constructors and
destructors once they have begun are weakly fair; nobody has to create, send,
close or destroy, and no peer has to answer.
In `MainApp` the steps of `WinMain` that need no user (posted messages, the first
paint, the way out), those of `listenWS` and those of `signton` are weakly fair,
each kind for all processes together, which is weaker than per process and is
enough since no process takes steps of one kind for ever. That `listenWS` ends
once `m_bWSRunning` is false is `StopReturns` of `UCServer`. No user has to launch, click
or close anything.

Deadlock is checked in every run: in `UCServer`, `Finished` lets only a crashed
or stopped process rest; in `CallProtocol`, `Quiet` lets the system rest only
when every queue of an open page is empty and no command is in execution; in
`WebSocketPlugin`, `Finished` lets only a crashed process, or one whose controls
are all destroyed and whose thread is joined, rest; in `MainApp`, `Resting` needs
every process to be gone or in a message loop; in `Settings` a window can always
be opened or closed.

## Findings

* `event_dropped`: `~CWinSDKBase` (`UCClient/WinSDKBase.cpp:174`) clears
  `g_Instance` whichever object is destroyed. The pages that stay connected get
  no further SDK event until another page connects.
* `uninitialize`: `OnMessage` (`UCClient/UCClientWebSocket.cpp:81`) compares with
  `"unInitialize "`, with a blank, so the result has no `param` and the page's
  handler throws.
* `consult_twice`: `_status` (`UCClient/UCClient.js:393`) stays CONSULTATIONING
  after the consultation, and the next hold of the call dials again.
  (The same handler dials whatever `reason` says, also when the hold failed.)
* `stale_wsi`: `~WebSocketClient` (`WebSocketPlugin/websocket/websocket.cpp:469`)
  erases the entry of its last connection's address, which may be another
  control's by now. That control gets no more callbacks and stays OPEN.

Three disagreements are in the models without a run of their own:
`sonSwitchCallMediaTypeRequest` (`UCClient/WinSDKBase.cpp:78`) calls itself
instead of `onSwitchCallMediaTypeRequest`, until `g_Instance` is null or the stack
is used up (`SwitchReturns`, `SwitchOverflows`); `makeCall` and
`getCurrentCall` (`UCClient/UCClientWebSocket.cpp:155`, `:114`) test one answer
of `getCurrentCall` and use another; `Open` of the plugin
(`WebSocketPlugin/websocket/websocket.cpp:511`) stays CONNECTING, and posts no
event, when the attempt fails before `lws_client_connect_via_info` returns.

## Proofs

`UCServerProofs` proves `Spec => []P` for `TypeOK`, `LockedBroadcastSafe`,
`RegistrySound`, `EveryConnectionServed`, `InstanceSound`, `StoppedClean`,
`QueueFifo` and `WakeupKept`, for any sets of objects, addresses and threads, any bound on
messages and any race outcomes. The only assumption is `ServerAssumption`: the
threads are different, `Null` is none of the others, the bound is a number.

None of these is inductive alone. The invariant has layers, each inductive
given the ones before:

1. `TypeInv`: `TypeOK` and what a label says about a thread's locals (a thread
   in `Send` has an object and a message; the queue at "pop" is not empty).
2. `LockInv`: the mutex is held exactly inside the loops of handlers that take
   it, and the object such a loop is at is in the list. The list shrinks only
   while nobody holds the mutex.
3. `ServiceInv`: where an object stands between `OnAccept` and the end of
   `delete this`. The key part is `OpenedConnected`: an intact object that has
   been open has its connection, and its entry until the service thread waits in
   its destructor. With `ListedOpened` this gives the locked broadcast what it
   relies on, and an empty list when all connections are gone.
4. `QueueFifo` itself, given layer 1 and three facts about sequences.
5. `WakeupKept` itself, given layers 1 and 3: an object that is OPEN on an
   upgraded connection is the intact one its entry leads to (`OpenIntact`,
   `OpenEntry`), so the WRITEABLE that finds it, and no other step, takes the
   request away (`WakeupStep`).

`OutboxProofs` proves `Spec => OutboxKept`, the refinement, under the same
assumption. Three facts carry it
beside the layers above: `UpgradedOpen` (the entry of an upgraded connection is an
object that ESTABLISHED has marked), `SentToOpened` (only objects that have been
open are sent to) and `QueuedWasSent` (what is in a queue was pushed to it, so that
even a spoilt outbox delivers nothing of another page).
`StateFrame`, `OpenStep`, `CloseStep`, `SendStep` and
`DeliverStep` then map each action to its abstract step, `QueueFifo` gives the
index of the delivered message, and all other actions are stutters (`BoxStep`).

`WebSocketPluginProofs` proves `Spec => []P` for `TypeOK`, `ContextKept`,
`RegistrySound`, `OpenUnlessRobbed`, `EventOrder` and `SendWakeKept`, for any finite set of controls, any set
of addresses and any bounds; `PluginAssumption` says just that. Its layers:

1. `TypeOK` with `CountInv`: the count is the number of controls between
   `InitWebSocket` and `UnInitWebSocket` (so it never goes below 0), a thread
   that is not needed has somebody joining it, and only `mixed` controls are
   counted during a join.
2. `ContextKept`, given layer 1: the thread leaves its loop only when nobody is
   counted, and a client is made from a live context only while it is in it.
3. `RegistrySound`, given the types: an address is free only when its entry is
   gone, and a destructor erases its own entry if it still has one.
4. `UnmadeInv` and `OpenInv`, given layer 3: a client that has been open keeps
   its entry until its connection ends or another destructor takes it.
   `OpenUnlessRobbed` follows. `SendWakeKept` is inductive given it (`WakeStep`).
5. `QueueInv` and `ToldInv`, given layer 3: each window's queue is in order, and
   the newest event in it (or the last one fired) fits the state of the
   connection. `EventOrder` alone is not inductive, because what a callback
   posts depends on the connection and not on the queue.

`CallProtocolProofs` proves `Spec => []P` for `TypeOK`, `RepliesInOrder`,
`CurrentHasSession`, `NoSessionOnlyLate` and `SessionsTracked`, for any pages,
calls, commands the users may give and any bounds. Assumed: `Null` is no page,
call or command in execution (`ProtocolAssumption`, `NullAssumption`), the users'
commands are commands of the library, the bounds are numbers. The inductive
invariant is `ProtocolInv`:

* `LinesInv`, for `RepliesInOrder`: what is under way, read as numbers with 0 for
  an event, is an ascending list of the unanswered commands. A command that is
  received, executed and answered keeps its place in that list; a handled
  result takes the first number away, a sent command adds the next one.
* `SessionsInv`, for the others: `Tracks` relates, for one page and one call, the
  state of the call at the SDK, the events about it that the page has not
  handled, and the page's session. Its five parts say that nothing precedes the
  first event, that a call in progress has a session or an event that makes one,
  that the end is announced or was handled, that a hold or retrieve finds a
  session when its turn comes, and that nothing follows a release.
  `SessionsTracked` speaks only of pages that have handled everything, so it
  needs the events in between.
* `PagesInv`: a page that was not opened has nothing, and the command in
  execution is that of an open page.

`MainAppProofs` proves `Spec => []P` for `TypeOK`, `OneInstance`,
`HiddenReachable`, `CleanExit` and `OrphanOnlyAtEnd`, for any set of launches and
any number of nested windows (`AppAssumption`: the bound is a number). `AppInv`
says who holds a handle of the named event and that a first instance is alone
(`EventInv`), what the label of `WinMain` tells of window and threads
(`AtLabel`), and that the server has ended when the window is destroyed
(`ThreadInv`). `OneInstance` cannot be had from windows and threads alone: it
rests on the handles, which outlive them.

`SettingsProofs` proves `Spec => []P` for `TypeOK`, `SavedIsShown` and
`TestOwned`, and the action property `UntouchedKept`, for any of the seven
settings, any numbers, strings, devices and defaults (`SettingsAssumption` gives
their types only). `SettingsInv` adds, for each window, that its values survive
the conversions (`Consistent`: an untouched control shows what was loaded, as far
as it can; a loaded port fits 16 bits) and how they relate to the registry while
`OnExit` is half way (`InSync`: what it has passed is stored as shown, the rest is
as loaded, unless somebody else has stored since). `OrderFacts` shows that
`OnExit` passes each setting exactly once.

Left to TLC: the liveness properties (fairness and ENABLED are out of the
prover's reach) and the violations. Every safety invariant and action property
of a passing run, and the refinement, has its theorem.

## Plan

1. `UCServer` with its proofs (done).
2. `CallProtocol`: commands, results, events and the page's sessions (done).
3. `WebSocketPlugin` with its proofs: the plugin's reference-counted service
   thread, the client side of `websocket.cpp` and the events posted to the
   control's window (done).
4. `MainApp`: `WinMain`, the single-instance event, the way out, a failed
   `InitInstance` (done).
5. `Settings`: the settings window and `OnMessage`'s configuration commands on
   the same registry values (done).
6. `Outbox`, what the server promises to a page, implemented by `UCServer`, with
   its proof (done).
7. Theorems about `MainApp`, `CallProtocol`, `Settings` and the order of the
   plugin's events (done).
8. More for every instance: what a page may rely on when it does miss events
   (the pages outside `whole`), as theorems rather than as a restriction.

## Not modelled

* The vendored libraries, which are most of the repository's lines: openssl's
  headers, DuiLib, libwebsockets, jsoncpp, log4cplus. Where the program depends
  on the order of what they do, that part is modelled and mapped to their source
  (`ShowModal` and the message loop of DuiLib; the close path, the writeable
  request and the context's end of libwebsockets). The program's own code is
  about 9000 lines.
* The telephony SDK, a binary; its callbacks and answers are nondeterministic.
* The prompt window: never created. The demo page: a sample.
* Crash dumps, string conversions, drawing, installer and build: no state that
  another part depends on.
* Inside `lws_callback_on_writable` and `lws_client_connect_via_info`, called from
  threads other than the service thread: each is one step here.
