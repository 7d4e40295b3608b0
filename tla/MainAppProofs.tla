--------------------------- MODULE MainAppProofs ---------------------------
(***************************************************************************)
(* The safety of MainApp for any number of launches and settings windows.  *)
(*                                                                         *)
(* The invariant says what the label of WinMain tells about the rest of    *)
(* the process: who holds the named event, whether the window is there,    *)
(* and whether the threads run.  From who holds the event it follows that  *)
(* at most one process is the first instance, and from what holds at each  *)
(* label the four properties of the app run.                               *)
(***************************************************************************)
EXTENDS MainApp, Lemmas

-----------------------------------------------------------------------------
(* The stack of settings windows.                                          *)

Stacks == Seq({"open", "closed"})

\* What is left of a stack when the finished loops have returned: its part up
\* to the last open window.
LEMMA UnwindProperties ==
    ASSUME NEW s \in Stacks
    PROVE  /\ Unwind(s) \in Stacks
           /\ Unwind(s) # <<>> => Last(Unwind(s)) = "open"
  <1> DEFINE G == {0} \cup {i \in DOMAIN s : s[i] = "open"}
             n == Max(G)
  <1>1. Len(s) \in Nat /\ G \in SUBSET (0..Len(s)) /\ G # {} BY DEF Stacks
  <1>2. n \in G BY <1>1, MaxOfBounded
  <1>3. Unwind(s) = SubSeq(s, 1, n) BY DEF Unwind
  <1> HIDE DEF n
  <1>4. n \in 0..Len(s) BY <1>1, <1>2
  <1>5. /\ SubSeq(s, 1, n) \in Stacks
        /\ Len(SubSeq(s, 1, n)) = n
        /\ \A i \in 1..n : SubSeq(s, 1, n)[i] = s[i]
    BY <1>4, PrefixProperties DEF Stacks
  <1>6. CASE n = 0 BY <1>3, <1>5, <1>6, EmptySeq DEF Stacks
  <1>7. CASE n # 0
    <2>1. s[n] = "open" BY <1>2, <1>7
    <2>2. Last(SubSeq(s, 1, n)) = s[n] BY <1>4, <1>5, <1>7 DEF Last
    <2> QED BY <1>3, <1>5, <2>1, <2>2
  <1> QED BY <1>6, <1>7

\* Opening a window, closing one, and leaving the innermost loop.
LEMMA StackSteps ==
    ASSUME NEW s \in Stacks
    PROVE  /\ Append(s, "open") \in Stacks /\ Last(Append(s, "open")) = "open"
           /\ \A i \in DOMAIN s : [s EXCEPT ![i] = "closed"] \in Stacks
           /\ s # <<>> => Front(s) \in Stacks
  <1>1. Append(s, "open") \in Stacks /\ Last(Append(s, "open")) = "open"
    BY AppendProperties DEF Stacks, Last
  <1>2. \A i \in DOMAIN s : [s EXCEPT ![i] = "closed"] \in Stacks
    BY ExceptSeq, LenProperties DEF Stacks
  <1>3. s # <<>> => Front(s) \in Stacks
    <2> HAVE s # <<>>
    <2>1. Len(s) \in Nat \ {0} /\ \A i \in 1..(Len(s) - 1) : s[i] \in {"open", "closed"}
      BY EmptySeq, LenProperties DEF Stacks
    <2> QED BY <2>1, SubSeqProperties DEF Stacks, Front
  <1> QED BY <1>1, <1>2, <1>3

-----------------------------------------------------------------------------
(* The invariant.                                                          *)

\* A first instance that has not given the event away.
First == {"init", "loop", "stopping", "term", "set"}

\* The named event: its handles say who has launched and not yet left it, and
\* a first instance is alone.
EventInv ==
    /\ \A p \in Procs : p \in handles <=> pc[p] \in First \cup Second
    /\ \A p, q \in Procs : pc[p] \in First /\ pc[q] \in First => p = q

\* What holds in process p where its WinMain is.
AtLabel(p) ==
    /\ pc[p] \in {"none", "init"} \cup Second =>
          win[p] = "none" /\ sington[p] = "none"
    /\ pc[p] = "loop" => win[p] # "none"
    /\ pc[p] = "stopping" => win[p] \in {"shown", "hidden"} /\ ~m_bWSRunning[p]
    /\ pc[p] \in Ending => win[p] = "destroyed"
    /\ pc[p] = "exited" => win[p] \in {"none", "destroyed"}
                           /\ sington[p] \in {"none", "ended"}

\* The threads are started together, and the server is gone before the window
\* is.
ThreadInv(p) ==
    /\ sington[p] = "none" => server[p] = "none"
    /\ win[p] \in {"none", "destroyed"} =>
          server[p] \in {"none", "ended"} /\ ~m_bWSRunning[p]
    /\ closePosted[p] => pc[p] = "loop" /\ win[p] \in {"shown", "hidden"}
    /\ quitPosted[p] => win[p] = "destroyed"
    /\ p \in orphan => win[p] = "destroyed"

\* The inductive invariant.
AppInv ==
    /\ TypeOK /\ EventInv /\ HiddenReachable
    /\ \A p \in Procs : AtLabel(p) /\ ThreadInv(p)

-----------------------------------------------------------------------------
(* The invariant is inductive.                                             *)

\* Before the first launch nothing is there.
LEMMA AppInit == Init => AppInv
  <1> SUFFICES ASSUME Init PROVE AppInv OBVIOUS
  <1> USE DEF Init, First, Second, Ending, Steps
  <1>1. \A p \in Procs : modal[p] = <<>> OBVIOUS
  <1>2. modal \in [Procs -> Seq({"open", "closed"})] BY EmptySeq
  <1>3. TypeOK BY <1>1, <1>2 DEF TypeOK
  <1>4. EventInv BY DEF EventInv
  <1>5. HiddenReachable BY DEF HiddenReachable
  <1>6. \A p \in Procs : AtLabel(p) /\ ThreadInv(p) BY DEF AtLabel, ThreadInv
  <1> QED BY <1>3, <1>4, <1>5, <1>6 DEF AppInv

SigntonLabels == {"none", "enter", "waiting", "woken", "show", "ended"}

\* SetEvent wakes one waiting thread at most, and nobody else.
LEMMA SetEventSteps ==
    ASSUME signalled \in BOOLEAN, sington \in [Procs -> SigntonLabels], SetEvent
    PROVE  /\ signalled' \in BOOLEAN
           /\ sington' \in [Procs -> SigntonLabels]
           /\ \A q \in Procs : \/ sington'[q] = sington[q]
                               \/ sington[q] = "waiting" /\ sington'[q] = "woken"
  <1> DEFINE waiting == {q \in Procs : sington[q] = "waiting"}
  <1>1. CASE waiting = {} BY <1>1 DEF SetEvent
  <1>2. CASE waiting # {}
    <2>1. UNCHANGED signalled BY <1>2 DEF SetEvent
    <2>2. PICK q \in waiting : sington' = Set(sington, q, "woken") BY <1>2 DEF SetEvent
    <2> QED BY <2>1, <2>2 DEF Set, SigntonLabels
  <1> QED BY <1>1, <1>2

\* A launch, up to the message loop or to its end as a second one.
LEMMA AppLaunch ==
    ASSUME AppInv, NEW p \in Procs,
           Launch(p) \/ SecondSets(p) \/ SecondLeaves(p) \/ InitFails(p)
           \/ CreateWnd(p) \/ OnPrepare(p)
    PROVE  AppInv'
  <1> USE DEF AppInv, TypeOK, EventInv, HiddenReachable, AtLabel, ThreadInv,
          First, Second, Ending, Steps, Goto, Set, eventVars, threadVars, uiVars
  <1>1. CASE Launch(p)
    <2> USE <1>1 DEF Launch
    <2>1. TypeOK' OBVIOUS
    <2>2. EventInv' OBVIOUS
    <2>3. HiddenReachable' OBVIOUS
    <2>4. (\A r \in Procs : AtLabel(r) /\ ThreadInv(r))' OBVIOUS
    <2> QED BY <2>1, <2>2, <2>3, <2>4
  <1>2. CASE SecondSets(p)
    <2> USE <1>2 DEF SecondSets
    <2>0. \A q \in Procs : \/ sington'[q] = sington[q]
                           \/ sington[q] = "waiting" /\ sington'[q] = "woken"
      BY SetEventSteps DEF SigntonLabels
    <2>1. TypeOK' BY SetEventSteps DEF SigntonLabels
    <2>2. EventInv' OBVIOUS
    <2>3. HiddenReachable' OBVIOUS
    <2>4. (\A r \in Procs : AtLabel(r))' BY <2>0
    <2>5. (\A r \in Procs : ThreadInv(r))' BY <2>0
    <2> QED BY <2>1, <2>2, <2>3, <2>4, <2>5
  <1>3. CASE SecondLeaves(p)
    <2> USE <1>3 DEF SecondLeaves, Gone, CloseHandle
    <2>1. TypeOK' BY EmptySeq
    <2>2. EventInv' OBVIOUS
    <2>3. HiddenReachable' OBVIOUS
    <2>4. (\A r \in Procs : AtLabel(r) /\ ThreadInv(r))' OBVIOUS
    <2> QED BY <2>1, <2>2, <2>3, <2>4
  <1>4. CASE InitFails(p)
    <2> USE <1>4 DEF InitFails, Gone, CloseHandle
    <2>1. TypeOK' BY EmptySeq
    <2>2. EventInv' OBVIOUS
    <2>3. HiddenReachable' OBVIOUS
    <2>4. (\A r \in Procs : AtLabel(r) /\ ThreadInv(r))' OBVIOUS
    <2> QED BY <2>1, <2>2, <2>3, <2>4
  <1>5. CASE CreateWnd(p)
    <2> USE <1>5 DEF CreateWnd
    <2>1. TypeOK' OBVIOUS
    <2>2. EventInv' OBVIOUS
    <2>3. HiddenReachable' OBVIOUS
    <2>4. (\A r \in Procs : AtLabel(r) /\ ThreadInv(r))' OBVIOUS
    <2> QED BY <2>1, <2>2, <2>3, <2>4
  <1>6. CASE OnPrepare(p)
    <2> USE <1>6 DEF OnPrepare
    <2>1. TypeOK' OBVIOUS
    <2>2. EventInv' OBVIOUS
    <2>3. HiddenReachable' OBVIOUS
    <2>4. (\A r \in Procs : AtLabel(r) /\ ThreadInv(r))' OBVIOUS
    <2> QED BY <2>1, <2>2, <2>3, <2>4
  <1> QED BY <1>1, <1>2, <1>3, <1>4, <1>5, <1>6

\* The messages of the main window.
LEMMA AppMessages ==
    ASSUME AppInv, NEW p \in Procs,
           CloseBtn(p) \/ OnMouseLButtonDown(p) \/ OnMouseRButtonDown(p)
           \/ EscapeKey(p) \/ OnClose(p) \/ Stopped(p)
    PROVE  AppInv'
  <1> USE DEF AppInv, TypeOK, EventInv, HiddenReachable, AtLabel, ThreadInv,
          First, Second, Ending, Steps, Goto, Set, eventVars, threadVars, uiVars
  <1>1. CASE CloseBtn(p)
    <2> USE <1>1 DEF CloseBtn, Clickable
    <2>1. TypeOK' OBVIOUS
    <2>2. EventInv' OBVIOUS
    <2>3. HiddenReachable' OBVIOUS
    <2>4. (\A r \in Procs : AtLabel(r) /\ ThreadInv(r))' OBVIOUS
    <2> QED BY <2>1, <2>2, <2>3, <2>4
  <1>2. CASE OnMouseLButtonDown(p)
    <2> USE <1>2 DEF OnMouseLButtonDown
    <2>1. TypeOK' OBVIOUS
    <2>2. EventInv' OBVIOUS
    <2>3. HiddenReachable' OBVIOUS
    <2>4. (\A r \in Procs : AtLabel(r) /\ ThreadInv(r))' OBVIOUS
    <2> QED BY <2>1, <2>2, <2>3, <2>4
  <1>3. CASE OnMouseRButtonDown(p)
    <2> USE <1>3 DEF OnMouseRButtonDown
    <2>1. TypeOK' OBVIOUS
    <2>2. EventInv' OBVIOUS
    <2>3. HiddenReachable' OBVIOUS
    <2>4. (\A r \in Procs : AtLabel(r) /\ ThreadInv(r))' OBVIOUS
    <2> QED BY <2>1, <2>2, <2>3, <2>4
  <1>4. CASE EscapeKey(p)
    <2> USE <1>4 DEF EscapeKey
    <2>1. TypeOK' OBVIOUS
    <2>2. EventInv' OBVIOUS
    <2>3. HiddenReachable' OBVIOUS
    <2>4. (\A r \in Procs : AtLabel(r) /\ ThreadInv(r))' OBVIOUS
    <2> QED BY <2>1, <2>2, <2>3, <2>4
  <1>5. CASE OnClose(p)
    <2> USE <1>5 DEF OnClose
    <2>1. TypeOK' OBVIOUS
    <2>2. EventInv' OBVIOUS
    <2>3. HiddenReachable' OBVIOUS
    <2>4. (\A r \in Procs : AtLabel(r) /\ ThreadInv(r))' OBVIOUS
    <2> QED BY <2>1, <2>2, <2>3, <2>4
  <1>6. CASE Stopped(p)
    <2> USE <1>6 DEF Stopped
    <2>1. TypeOK' OBVIOUS
    <2>2. EventInv' OBVIOUS
    <2>3. HiddenReachable' OBVIOUS
    <2>4. (\A r \in Procs : AtLabel(r) /\ ThreadInv(r))' OBVIOUS
    <2> QED BY <2>1, <2>2, <2>3, <2>4
  <1> QED BY <1>1, <1>2, <1>3, <1>4, <1>5, <1>6

\* The settings windows.
LEMMA AppModal ==
    ASSUME AppInv, NEW p \in Procs,
           SettingsBtn(p) \/ (\E i \in 1..MaxModal : SettingsClosed(p, i))
           \/ ModalQuits(p) \/ OrphanCrash(p)
    PROVE  AppInv'
  <1> USE DEF AppInv, TypeOK, EventInv, HiddenReachable, AtLabel, ThreadInv,
          First, Second, Ending, Steps, Goto, Set, eventVars, threadVars, uiVars
  <1>1. CASE SettingsBtn(p)
    <2> USE <1>1 DEF SettingsBtn, Clickable
    <2>1. TypeOK' BY StackSteps DEF Stacks
    <2>2. EventInv' OBVIOUS
    <2>3. HiddenReachable' OBVIOUS
    <2>4. (\A r \in Procs : AtLabel(r) /\ ThreadInv(r))' OBVIOUS
    <2> QED BY <2>1, <2>2, <2>3, <2>4
  <1>2. CASE (\E i \in 1..MaxModal : SettingsClosed(p, i))
    <2> PICK i \in 1..MaxModal : SettingsClosed(p, i) BY <1>2
    <2> USE DEF SettingsClosed
    <2>1. TypeOK'
      <3>1. modal[p] \in Stacks BY DEF Stacks
      <3>2. [modal[p] EXCEPT ![i] = "closed"] \in Stacks BY <3>1, StackSteps
      <3> DEFINE s == Unwind([modal[p] EXCEPT ![i] = "closed"])
      <3>3. s \in Stacks /\ (s # <<>> => Last(s) = "open") BY <3>2, UnwindProperties
      <3> HIDE DEF s
      <3>4. modal' = [modal EXCEPT ![p] = s] BY DEF s
      <3>5. modal' \in [Procs -> Stacks] BY <3>3, <3>4 DEF Stacks
      <3>6. \A r \in Procs : modal'[r] # <<>> => Last(modal'[r]) = "open" BY <3>3, <3>4
      <3> QED BY <3>5, <3>6 DEF Stacks
    <2>2. EventInv' OBVIOUS
    <2>3. HiddenReachable' OBVIOUS
    <2>4. (\A r \in Procs : AtLabel(r) /\ ThreadInv(r))' OBVIOUS
    <2> QED BY <2>1, <2>2, <2>3, <2>4
  <1>3. CASE ModalQuits(p)
    <2> USE <1>3 DEF ModalQuits
    <2>1. TypeOK' BY StackSteps, UnwindProperties DEF Stacks
    <2>2. EventInv' OBVIOUS
    <2>3. HiddenReachable' OBVIOUS
    <2>4. (\A r \in Procs : AtLabel(r) /\ ThreadInv(r))' OBVIOUS
    <2> QED BY <2>1, <2>2, <2>3, <2>4
  <1>4. CASE OrphanCrash(p)
    <2> USE <1>4 DEF OrphanCrash, Gone, CloseHandle
    <2>1. TypeOK' BY EmptySeq
    <2>2. EventInv' OBVIOUS
    <2>3. HiddenReachable' OBVIOUS
    <2>4. (\A r \in Procs : AtLabel(r) /\ ThreadInv(r))' OBVIOUS
    <2> QED BY <2>1, <2>2, <2>3, <2>4
  <1> QED BY <1>1, <1>2, <1>3, <1>4

\* The end of WinMain.
LEMMA AppEnd ==
    ASSUME AppInv, NEW p \in Procs,
           LoopEnds(p) \/ ExitUnstarted(p) \/ TermSets(p) \/ TermCloses(p)
           \/ Exit(p)
    PROVE  AppInv'
  <1> USE DEF AppInv, TypeOK, EventInv, HiddenReachable, AtLabel, ThreadInv,
          First, Second, Ending, Steps, Goto, Set, eventVars, threadVars, uiVars
  <1>1. CASE LoopEnds(p)
    <2> USE <1>1 DEF LoopEnds
    <2>1. TypeOK' OBVIOUS
    <2>2. EventInv' OBVIOUS
    <2>3. HiddenReachable' OBVIOUS
    <2>4. (\A r \in Procs : AtLabel(r) /\ ThreadInv(r))' OBVIOUS
    <2> QED BY <2>1, <2>2, <2>3, <2>4
  <1>2. CASE ExitUnstarted(p)
    <2> USE <1>2 DEF ExitUnstarted, Gone, CloseHandle
    <2>1. TypeOK' BY EmptySeq
    <2>2. EventInv' OBVIOUS
    <2>3. HiddenReachable' OBVIOUS
    <2>4. (\A r \in Procs : AtLabel(r) /\ ThreadInv(r))' OBVIOUS
    <2> QED BY <2>1, <2>2, <2>3, <2>4
  <1>3. CASE TermSets(p)
    <2> USE <1>3 DEF TermSets
    <2>0. \A q \in Procs : \/ sington'[q] = sington[q]
                           \/ sington[q] = "waiting" /\ sington'[q] = "woken"
      BY SetEventSteps DEF SigntonLabels
    <2>1. TypeOK' BY SetEventSteps DEF SigntonLabels
    <2>2. EventInv' OBVIOUS
    <2>3. HiddenReachable' OBVIOUS
    <2>4. (\A r \in Procs : AtLabel(r))' BY <2>0
    <2>5. (\A r \in Procs : ThreadInv(r))' BY <2>0
    <2> QED BY <2>1, <2>2, <2>3, <2>4, <2>5
  <1>4. CASE TermCloses(p)
    <2> USE <1>4 DEF TermCloses, CloseHandle
    <2>1. TypeOK' OBVIOUS
    <2>2. EventInv' OBVIOUS
    <2>3. HiddenReachable' OBVIOUS
    <2>4. (\A r \in Procs : AtLabel(r) /\ ThreadInv(r))' OBVIOUS
    <2> QED BY <2>1, <2>2, <2>3, <2>4
  <1>5. CASE Exit(p)
    <2> USE <1>5 DEF Exit, Gone, CloseHandle
    <2>1. TypeOK' BY EmptySeq
    <2>2. EventInv' OBVIOUS
    <2>3. HiddenReachable' OBVIOUS
    <2>4. (\A r \in Procs : AtLabel(r) /\ ThreadInv(r))' OBVIOUS
    <2> QED BY <2>1, <2>2, <2>3, <2>4
  <1> QED BY <1>1, <1>2, <1>3, <1>4, <1>5

\* The threads listenWS and signton.
LEMMA AppThreads ==
    ASSUME AppInv, NEW p \in Procs,
           InitInstance(p) \/ ListenEnds(p) \/ Wait(p) \/ Woken(p)
           \/ ShowWnd(p)
    PROVE  AppInv'
  <1> USE DEF AppInv, TypeOK, EventInv, HiddenReachable, AtLabel, ThreadInv,
          First, Second, Ending, Steps, Goto, Set, eventVars, threadVars, uiVars
  <1>1. CASE InitInstance(p)
    <2> USE <1>1 DEF InitInstance
    <2>1. TypeOK' OBVIOUS
    <2>2. EventInv' OBVIOUS
    <2>3. HiddenReachable' OBVIOUS
    <2>4. (\A r \in Procs : AtLabel(r) /\ ThreadInv(r))' OBVIOUS
    <2> QED BY <2>1, <2>2, <2>3, <2>4
  <1>2. CASE ListenEnds(p)
    <2> USE <1>2 DEF ListenEnds
    <2>1. TypeOK' OBVIOUS
    <2>2. EventInv' OBVIOUS
    <2>3. HiddenReachable' OBVIOUS
    <2>4. (\A r \in Procs : AtLabel(r) /\ ThreadInv(r))' OBVIOUS
    <2> QED BY <2>1, <2>2, <2>3, <2>4
  <1>3. CASE Wait(p)
    <2> USE <1>3 DEF Wait
    <2>1. TypeOK' OBVIOUS
    <2>2. EventInv' OBVIOUS
    <2>3. HiddenReachable' OBVIOUS
    <2>4. (\A r \in Procs : AtLabel(r) /\ ThreadInv(r))' OBVIOUS
    <2> QED BY <2>1, <2>2, <2>3, <2>4
  <1>4. CASE Woken(p)
    <2> USE <1>4 DEF Woken
    <2>1. TypeOK' OBVIOUS
    <2>2. EventInv' OBVIOUS
    <2>3. HiddenReachable' OBVIOUS
    <2>4. (\A r \in Procs : AtLabel(r) /\ ThreadInv(r))' OBVIOUS
    <2> QED BY <2>1, <2>2, <2>3, <2>4
  <1>5. CASE ShowWnd(p)
    <2> USE <1>5 DEF ShowWnd
    <2>1. TypeOK' OBVIOUS
    <2>2. EventInv' OBVIOUS
    <2>3. HiddenReachable' OBVIOUS
    <2>4. (\A r \in Procs : AtLabel(r) /\ ThreadInv(r))' OBVIOUS
    <2> QED BY <2>1, <2>2, <2>3, <2>4
  <1> QED BY <1>1, <1>2, <1>3, <1>4, <1>5

-----------------------------------------------------------------------------
(* The theorems.                                                           *)

\* Every step of every process keeps the invariant.
LEMMA AppNext == AppInv /\ [Next]_vars => AppInv'
  <1> SUFFICES ASSUME AppInv, [Next]_vars PROVE AppInv' OBVIOUS
  <1>1. CASE UNCHANGED vars
    BY <1>1 DEF vars, eventVars, threadVars, uiVars, AppInv, TypeOK, EventInv,
       HiddenReachable, AtLabel, ThreadInv
  <1>2. ASSUME NEW p \in Procs, User(p) PROVE AppInv'
    BY <1>2, AppLaunch, AppMessages, AppModal DEF User
  <1>3. ASSUME NEW p \in Procs, WinMain(p) PROVE AppInv'
    BY <1>3, AppLaunch, AppMessages, AppModal, AppEnd DEF WinMain
  <1>4. ASSUME NEW p \in Procs, ListenWS(p) \/ Signton(p) PROVE AppInv'
    BY <1>4, AppThreads DEF ListenWS, Signton
  <1>5. ASSUME NEW p \in Procs, OrphanCrash(p) PROVE AppInv'
    BY <1>5, AppModal
  <1>6. CASE Resting BY <1>1, <1>6 DEF Resting
  <1> QED BY <1>1, <1>2, <1>3, <1>4, <1>5, <1>6 DEF Next

\* What the label of WinMain says about handle, window and threads holds at
\* all times.
THEOREM AppInvariant == Spec => []AppInv
  BY AppInit, AppNext, PTL DEF Spec

\* Type correctness, for every number of launches and settings windows: what
\* WinMain, the handlers and the two threads keep has its type, and the
\* innermost ShowModal is always that of a window that is still there.
THEOREM AppTypes == Spec => []TypeOK
  <1>1. AppInv => TypeOK BY DEF AppInv
  <1> QED BY <1>1, AppInvariant, PTL

\* However many times the program is launched, at most one process has a main
\* window or a server: whoever has one holds the event as the first instance.
THEOREM OnlyOneInstance == Spec => []OneInstance
  <1>1. AppInv => OneInstance
    <2> SUFFICES ASSUME AppInv, NEW p \in Procs, NEW q \in Procs, p # q
                 PROVE  /\ ~(Serving(p) /\ Serving(q))
                        /\ ~(win[p] \in {"shown", "hidden"} /\ win[q] \in {"shown", "hidden"})
      BY DEF OneInstance
    <2>1. \A r \in Procs : Serving(r) => win[r] \in {"shown", "hidden"}
      BY DEF AppInv, TypeOK, ThreadInv, Serving
    <2>2. \A r \in Procs : win[r] \in {"shown", "hidden"} => pc[r] \in First
      BY DEF AppInv, TypeOK, AtLabel, Steps, First, Second, Ending
    <2> QED BY <2>1, <2>2 DEF AppInv, EventInv
  <1> QED BY <1>1, AppInvariant, PTL

\* No order of clicks, icon messages and ShowWindow calls of signton leaves
\* the window hidden with nothing to bring it back.
THEOREM HiddenIsReachable == Spec => []HiddenReachable
  <1>1. AppInv => HiddenReachable BY DEF AppInv
  <1> QED BY <1>1, AppInvariant, PTL

\* When the process is gone, both of its threads had ended.
THEOREM ExitIsClean == Spec => []CleanExit
  <1>1. AppInv => CleanExit
    BY DEF AppInv, CleanExit, AtLabel, ThreadInv, Serving
  <1> QED BY <1>1, AppInvariant, PTL

\* ModalQuits deletes a settings object under its window only after WSStop.
THEOREM OrphansAtEnd == Spec => []OrphanOnlyAtEnd
  <1>1. AppInv => OrphanOnlyAtEnd
    BY DEF AppInv, TypeOK, OrphanOnlyAtEnd, ThreadInv, Serving
  <1> QED BY <1>1, AppInvariant, PTL
=============================================================================
