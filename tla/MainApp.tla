------------------------------ MODULE MainApp ------------------------------
(***************************************************************************)
(* The life of UCClient.exe: WinMain, the named event that keeps a second  *)
(* launch from becoming a second instance, the main window with its tray   *)
(* icon, the nested message loops of settings windows, and the two threads *)
(* of the window: listenWS, which serves the pages (UCServer looks inside  *)
(* it), and signton, which waits for later launches.                       *)
(*                                                                         *)
(* The window thread is at "loop" between two messages, in whichever       *)
(* GetMessage it is; a handler is one step unless it waits for a thread.   *)
(***************************************************************************)
EXTENDS Naturals, Sequences, SequencesExt, FiniteSetsExt

CONSTANTS
    Procs,        \* launches of UCClient.exe, each one a process
    MaxModal      \* bound: settings windows open at a time

ASSUME AppAssumption == MaxModal \in Nat

VARIABLES
    pc,           \* where WinMain is
    handles,      \* processes with an open handle of the named event
    signalled,    \* the state of the event, which is auto-reset
    m_bWSRunning,
    server,       \* the thread m_wsserver, in listenWS
    sington,      \* the thread m_sington, in signton
    win,          \* the main window
    tray,         \* processes with an icon in the tray
    closePosted,  \* a WM_CLOSE for the main window is in the queue
    quitPosted,   \* PostQuitMessage was called
    modal,        \* the settings windows whose ShowModal is on the stack
    orphan        \* a settings window outlived its object

eventVars  == <<handles, signalled>>
threadVars == <<m_bWSRunning, server>>
uiVars     == <<win, tray, closePosted, quitPosted, modal, orphan>>
vars == <<pc, eventVars, threadVars, sington, uiVars>>

Second == {"second", "signalled"}
Ending == {"term", "set", "closed"}
Steps  == {"none", "init", "loop", "stopping", "exited"} \cup Second \cup Ending

TypeOK ==
    /\ pc \in [Procs -> Steps]
    /\ handles \subseteq Procs /\ signalled \in BOOLEAN
    /\ m_bWSRunning \in [Procs -> BOOLEAN]
    /\ server \in [Procs -> {"none", "starting", "up", "ended"}]
    /\ sington \in [Procs -> {"none", "enter", "waiting", "woken", "show", "ended"}]
    /\ win \in [Procs -> {"none", "shown", "hidden", "destroyed"}]
    /\ tray \subseteq Procs
    /\ closePosted \in [Procs -> BOOLEAN] /\ quitPosted \in [Procs -> BOOLEAN]
    /\ modal \in [Procs -> Seq({"open", "closed"})]
    /\ \A p \in Procs : modal[p] # <<>> => Last(modal[p]) = "open"
    /\ orphan \subseteq Procs

Init ==
    /\ pc = [p \in Procs |-> "none"]
    /\ handles = {} /\ signalled = FALSE
    /\ m_bWSRunning = [p \in Procs |-> FALSE]
    /\ server = [p \in Procs |-> "none"]
    /\ sington = [p \in Procs |-> "none"]
    /\ win = [p \in Procs |-> "none"]
    /\ tray = {}
    /\ closePosted = [p \in Procs |-> FALSE]
    /\ quitPosted = [p \in Procs |-> FALSE]
    /\ modal = [p \in Procs |-> <<>>]
    /\ orphan = {}

Goto(p, step) == pc' = [pc EXCEPT ![p] = step]
Set(f, p, v) == [f EXCEPT ![p] = v]

-----------------------------------------------------------------------------
(* The named event.  It exists while somebody has a handle of it.          *)

\* Mutant: ERROR_ALREADY_EXISTS is not looked at.
LaunchUnchecked(p) ==
    /\ pc[p] = "none"
    /\ handles' = handles \cup {p}
    /\ Goto(p, "init")
    /\ UNCHANGED <<signalled, threadVars, sington, uiVars>>

\* CreateEvent and GetLastError.
Launch(p) ==
    /\ pc[p] = "none"
    /\ handles' = handles \cup {p}
    /\ Goto(p, IF handles = {} THEN "init" ELSE "second")
    /\ UNCHANGED <<signalled, threadVars, sington, uiVars>>

\* SetEvent releases one waiting thread, or leaves the event signalled.
SetEvent ==
    LET waiting == {q \in Procs : sington[q] = "waiting"} IN
    IF waiting = {}
    THEN signalled' = TRUE /\ UNCHANGED sington
    ELSE /\ \E q \in waiting : sington' = Set(sington, q, "woken")
         /\ UNCHANGED signalled

\* CloseHandle, also by the end of a process.
CloseHandle(p) ==
    /\ handles' = handles \ {p}
    /\ signalled' = (signalled /\ handles # {p})

\* The process is gone, and with it its handle, windows and icon.
Gone(p) ==
    /\ CloseHandle(p)
    /\ Goto(p, "exited")
    /\ win' = Set(win, p, IF win[p] = "none" THEN "none" ELSE "destroyed")
    /\ tray' = tray \ {p} /\ orphan' = orphan \ {p}
    /\ closePosted' = Set(closePosted, p, FALSE)
    /\ quitPosted' = Set(quitPosted, p, FALSE)
    /\ modal' = Set(modal, p, <<>>)

\* Mutant: a second launch just leaves.
SecondSetsNothing(p) ==
    /\ pc[p] = "second"
    /\ Goto(p, "signalled")
    /\ UNCHANGED <<eventVars, sington, threadVars, uiVars>>

\* A launch that finds the event tells the first instance and leaves.
SecondSets(p) ==
    /\ pc[p] = "second"
    /\ SetEvent
    /\ Goto(p, "signalled")
    /\ UNCHANGED <<handles, threadVars, uiVars>>

SecondLeaves(p) ==
    /\ pc[p] = "signalled"
    /\ Gone(p)
    /\ UNCHANGED <<threadVars, sington>>

-----------------------------------------------------------------------------
(* The first instance, up to its message loop.                             *)

\* CoInitialize fails, or the skin cannot be loaded.
InitFails(p) ==
    /\ pc[p] = "init"
    /\ Gone(p)
    /\ UNCHANGED <<threadVars, sington>>

\* new CMainWnd, Create, ShowWindow.
CreateWnd(p) ==
    /\ pc[p] = "init"
    /\ win' = Set(win, p, "shown")
    /\ Goto(p, "loop")
    /\ UNCHANGED <<eventVars, threadVars, sington, tray, closePosted,
                   quitPosted, modal, orphan>>

\* The first WM_PAINT sends windowinit: OnPrepare, Start, WSStart.
OnPrepare(p) ==
    /\ pc[p] = "loop" /\ win[p] = "shown" /\ sington[p] = "none"
    /\ m_bWSRunning' = Set(m_bWSRunning, p, TRUE)
    /\ server' = Set(server, p, "starting")
    /\ sington' = Set(sington, p, "enter")
    /\ UNCHANGED <<pc, eventVars, uiVars>>

-----------------------------------------------------------------------------
(* Messages of the main window.                                            *)

\* The user can click on a window that has been laid out.
Clickable(p) == pc[p] = "loop" /\ win[p] = "shown" /\ sington[p] # "none"

\* Mutant: the window is hidden without an icon.
CloseBtnNoIcon(p) ==
    /\ Clickable(p)
    /\ win' = Set(win, p, "hidden")
    /\ UNCHANGED <<pc, eventVars, threadVars, sington, tray, closePosted,
                   quitPosted, modal, orphan>>

\* closebtn and minbtn.
CloseBtn(p) ==
    /\ Clickable(p)
    /\ tray' = tray \cup {p}
    /\ win' = Set(win, p, "hidden")
    /\ UNCHANGED <<pc, eventVars, threadVars, sington, closePosted, quitPosted,
                   modal, orphan>>

OnMouseLButtonDown(p) ==
    /\ pc[p] = "loop" /\ p \in tray /\ win[p] # "destroyed"
    /\ tray' = tray \ {p}
    /\ win' = Set(win, p, "shown")
    /\ UNCHANGED <<pc, eventVars, threadVars, sington, closePosted, quitPosted,
                   modal, orphan>>

\* The menu of the icon has one entry, to exit.
OnMouseRButtonDown(p) ==
    /\ pc[p] = "loop" /\ p \in tray /\ win[p] # "destroyed"
    /\ tray' = tray \ {p}
    /\ closePosted' = Set(closePosted, p, TRUE)
    /\ UNCHANGED <<pc, eventVars, threadVars, sington, win, quitPosted, modal,
                   orphan>>

\* The Escape key and the system's close command.
EscapeKey(p) ==
    /\ pc[p] = "loop" /\ win[p] = "shown"
    /\ closePosted' = Set(closePosted, p, TRUE)
    /\ UNCHANGED <<pc, eventVars, threadVars, sington, win, tray, quitPosted,
                   modal, orphan>>

\* OnClose as far as the join in WSStop ...
OnClose(p) ==
    /\ pc[p] = "loop" /\ closePosted[p]
    /\ closePosted' = Set(closePosted, p, FALSE)
    /\ m_bWSRunning' = Set(m_bWSRunning, p, FALSE)
    /\ Goto(p, "stopping")
    /\ UNCHANGED <<eventVars, server, sington, win, tray, quitPosted, modal,
                   orphan>>

\* Mutant: the server is told to stop and not waited for.
StoppedUnjoined(p) ==
    /\ pc[p] = "stopping"
    /\ quitPosted' = Set(quitPosted, p, TRUE)
    /\ win' = Set(win, p, "destroyed")
    /\ Goto(p, "loop")
    /\ UNCHANGED <<eventVars, threadVars, sington, tray, closePosted, modal,
                   orphan>>

\* ... and after it: WM_QUIT is posted and the window destroyed.
Stopped(p) ==
    /\ pc[p] = "stopping" /\ server[p] \in {"none", "ended"}
    /\ quitPosted' = Set(quitPosted, p, TRUE)
    /\ win' = Set(win, p, "destroyed")
    /\ Goto(p, "loop")
    /\ UNCHANGED <<eventVars, threadVars, sington, tray, closePosted, modal,
                   orphan>>

-----------------------------------------------------------------------------
(* Settings windows.  They have no owner, so ShowModal disables nothing:   *)
(* the main window still takes clicks, and another one may be opened.      *)

SettingsBtn(p) ==
    /\ Clickable(p) /\ Len(modal[p]) < MaxModal
    /\ modal' = Set(modal, p, Append(modal[p], "open"))
    /\ UNCHANGED <<pc, eventVars, threadVars, sington, win, tray, closePosted,
                   quitPosted, orphan>>

\* The loops that go on: a loop whose window is gone returns as soon as the
\* loops inside it have.
Unwind(stack) ==
    SubSeq(stack, 1, Max({0} \cup {i \in DOMAIN stack : stack[i] = "open"}))

\* Mutant: ShowModal does not look whether its window is still there.
SettingsClosedStays(p, i) ==
    /\ pc[p] = "loop" /\ i \in DOMAIN modal[p] /\ modal[p][i] = "open"
    /\ modal' = Set(modal, p, [modal[p] EXCEPT ![i] = "closed"])
    /\ UNCHANGED <<pc, eventVars, threadVars, sington, win, tray, closePosted,
                   quitPosted, orphan>>

\* WM_CLOSE of the i-th settings window.
SettingsClosed(p, i) ==
    /\ pc[p] = "loop" /\ i \in DOMAIN modal[p] /\ modal[p][i] = "open"
    /\ modal' = Set(modal, p, Unwind([modal[p] EXCEPT ![i] = "closed"]))
    /\ UNCHANGED <<pc, eventVars, threadVars, sington, win, tray, closePosted,
                   quitPosted, orphan>>

\* GetMessage of the innermost ShowModal finds WM_QUIT: it posts it again,
\* and the object is deleted while its window is still there.
ModalQuits(p) ==
    /\ pc[p] = "loop" /\ quitPosted[p] /\ modal[p] # <<>>
    /\ modal' = Set(modal, p, Unwind(Front(modal[p])))
    /\ orphan' = orphan \cup {p}
    /\ UNCHANGED <<pc, eventVars, threadVars, sington, win, tray, closePosted,
                   quitPosted>>

\* A message for such a window reaches the deleted object, which may end
\* the process.
OrphanCrash(p) ==
    /\ pc[p] = "loop" /\ p \in orphan
    /\ Gone(p)
    /\ sington' = Set(sington, p, "ended")
    /\ UNCHANGED threadVars

-----------------------------------------------------------------------------
(* The end of WinMain.                                                     *)

LoopEnds(p) ==
    /\ pc[p] = "loop" /\ quitPosted[p] /\ modal[p] = <<>>
    /\ quitPosted' = Set(quitPosted, p, FALSE)
    /\ Goto(p, "term")
    /\ UNCHANGED <<eventVars, threadVars, sington, win, tray, closePosted, modal,
                   orphan>>

\* The window was closed before it was painted: there is no thread to end.
ExitUnstarted(p) ==
    /\ pc[p] = "term" /\ sington[p] = "none"
    /\ Gone(p)
    /\ UNCHANGED <<threadVars, sington>>

TermSets(p) ==
    /\ pc[p] = "term" /\ sington[p] # "none"
    /\ SetEvent
    /\ Goto(p, "set")
    /\ UNCHANGED <<handles, threadVars, uiVars>>

TermCloses(p) ==
    /\ pc[p] = "set"
    /\ CloseHandle(p)
    /\ Goto(p, "closed")
    /\ UNCHANGED <<threadVars, sington, uiVars>>

\* Mutant: WinMain returns without the join.
ExitUnjoined(p) ==
    /\ pc[p] = "closed"
    /\ Gone(p)
    /\ UNCHANGED <<threadVars, sington>>

Exit(p) ==
    /\ pc[p] = "closed" /\ sington[p] = "ended"
    /\ Gone(p)
    /\ UNCHANGED <<threadVars, sington>>

-----------------------------------------------------------------------------
(* listenWS.  Its result is ignored when InitInstance fails (the port is   *)
(* taken): the thread is up all the same, and Loop returns at once.        *)

InitInstance(p) ==
    /\ server[p] = "starting"
    /\ server' = Set(server, p, "up")
    /\ UNCHANGED <<pc, eventVars, m_bWSRunning, sington, uiVars>>

\* Mutant: a server that was told to stop is taken for a failed one.
ListenRestarts(p) ==
    /\ server[p] = "up" /\ ~m_bWSRunning[p]
    /\ server' = Set(server, p, "starting")
    /\ UNCHANGED <<pc, eventVars, m_bWSRunning, sington, uiVars>>

ListenEnds(p) ==
    /\ server[p] = "up" /\ ~m_bWSRunning[p]
    /\ server' = Set(server, p, "ended")
    /\ UNCHANGED <<pc, eventVars, m_bWSRunning, sington, uiVars>>

-----------------------------------------------------------------------------
(* signton.                                                                *)

\* WaitForSingleObject takes the signal, waits for it, or fails because the
\* handle is closed, which ends the thread.
Wait(p) ==
    /\ sington[p] = "enter"
    /\ sington' = Set(sington, p, IF p \notin handles THEN "ended"
                                  ELSE IF signalled THEN "woken" ELSE "waiting")
    /\ signalled' = (signalled /\ p \notin handles)
    /\ UNCHANGED <<pc, handles, threadVars, uiVars>>

Woken(p) ==
    /\ sington[p] = "woken"
    /\ sington' = Set(sington, p, IF m_bWSRunning[p] THEN "show" ELSE "ended")
    /\ UNCHANGED <<pc, eventVars, threadVars, uiVars>>

\* ShowWindow sends messages to the window thread, and returns when that
\* thread has come to a GetMessage; on a destroyed window it does nothing.
ShowWnd(p) ==
    /\ sington[p] = "show"
    /\ \/ pc[p] = "loop" /\ win[p] # "destroyed" /\ win' = Set(win, p, "shown")
       \/ win[p] = "destroyed" /\ UNCHANGED win
    /\ sington' = Set(sington, p, "enter")
    /\ UNCHANGED <<pc, eventVars, threadVars, tray, closePosted, quitPosted,
                   modal, orphan>>

-----------------------------------------------------------------------------
User(p) ==
    \/ Launch(p) \/ CloseBtn(p) \/ EscapeKey(p)
    \/ OnMouseLButtonDown(p) \/ OnMouseRButtonDown(p)
    \/ SettingsBtn(p) \/ \E i \in 1..MaxModal : SettingsClosed(p, i)

\* What WinMain does without being asked.
WinMain(p) ==
    \/ SecondSets(p) \/ SecondLeaves(p)
    \/ InitFails(p) \/ CreateWnd(p) \/ OnPrepare(p)
    \/ OnClose(p) \/ Stopped(p) \/ ModalQuits(p) \/ LoopEnds(p)
    \/ ExitUnstarted(p) \/ TermSets(p) \/ TermCloses(p) \/ Exit(p)

ListenWS(p) == InitInstance(p) \/ ListenEnds(p)
Signton(p)  == Wait(p) \/ Woken(p) \/ ShowWnd(p)

\* Every launch has ended, or what runs waits for the user.
Resting ==
    /\ \A p \in Procs : pc[p] \in {"loop", "exited"}
    /\ UNCHANGED vars

Next ==
    \/ \E p \in Procs : User(p) \/ WinMain(p) \/ ListenWS(p) \/ Signton(p)
                        \/ OrphanCrash(p)
    \/ Resting

Spec == Init /\ [][Next]_vars

\* The system schedules every thread that can run, and delivers posted
\* messages and the first WM_PAINT.  That listenWS ends is UCServer's
\* StopReturns.  The user has to do nothing.  No process takes a step of one
\* kind for ever, so it is enough that each kind is not neglected.
Fairness == /\ WF_vars(\E p \in Procs : WinMain(p))
            /\ WF_vars(\E p \in Procs : ListenWS(p))
            /\ WF_vars(\E p \in Procs : Signton(p))

FairSpec == Spec /\ Fairness

-----------------------------------------------------------------------------
Serving(p) == server[p] \in {"starting", "up"}

\* Two launches never have their servers up at the same time, nor two main
\* windows: an instance gives the event away only after WSStop has joined
\* listenWS, so a restart never loses the port to its own predecessor.
OneInstance ==
    \A p, q \in Procs : p # q =>
        /\ ~(Serving(p) /\ Serving(q))
        /\ ~(win[p] \in {"shown", "hidden"} /\ win[q] \in {"shown", "hidden"})

\* A hidden window can be had back by its icon, or is about to close,
\* whatever signton and the handlers of closebtn and the icon do in between.
HiddenReachable ==
    \A p \in Procs : win[p] = "hidden" =>
        p \in tray \/ closePosted[p] \/ pc[p] = "stopping"

\* When WinMain returns both threads have ended: the destructor of the static
\* m_sington does not terminate the process, and nobody serves any more.
CleanExit ==
    \A p \in Procs : pc[p] = "exited" =>
        ~Serving(p) /\ sington[p] \in {"none", "ended"}

\* A settings object is deleted under its window only when the main window
\* is gone and the server has stopped: a crash there cannot cut off a page.
OrphanOnlyAtEnd ==
    \A p \in orphan : win[p] = "destroyed" /\ ~Serving(p) /\ ~m_bWSRunning[p]

\* Once OnClose has begun the process ends.  The window thread waits for
\* listenWS and then for signton, which may be waiting for the event, for
\* the window thread to take its messages, or about to use a closed handle.
ExitReturns == \A p \in Procs : pc[p] = "stopping" ~> pc[p] = "exited"

\* A second launch brings the window of the first instance up, unless that
\* instance is ending (then the launch is lost: no window comes up at all).
LaunchAnswered ==
    (\E p \in Procs : pc[p] = "second") ~>
        \/ \E q \in Procs : win[q] = "shown"
        \/ \A q \in Procs : pc[q] \notin {"init", "loop"}
=============================================================================
