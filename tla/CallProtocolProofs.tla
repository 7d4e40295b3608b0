------------------------- MODULE CallProtocolProofs -------------------------
(***************************************************************************)
(* The safety of CallProtocol for any number of pages, calls and commands. *)
(*                                                                         *)
(* Two arguments.  What is under way on a connection, read as a sequence   *)
(* of numbers with 0 for an event, is an ascending list of the unanswered  *)
(* commands; each step of the server keeps it as it is but for a zero.     *)
(* And for a page that was sent every event, the SDK's state of a call,    *)
(* the events about it that the page has not handled yet and the page's    *)
(* session fit together: nothing follows a release, and a hold or retrieve *)
(* finds a session or comes after an event that makes one.                 *)
(***************************************************************************)
EXTENDS CallProtocol, Lemmas

\* What the server sends to a page.
DownMsgs == ReplyMsgs \cup EventMsgs

\* Events whose handler makes a session.
Introduces == {"onIncomingCallReceived", "onCallAlerting", "onCallAnswered"}

\* Message m is about call c, and is the event e.
About(m, c) == IsEvent(m) /\ m.callid = c
Is(m, c, E) == About(m, c) /\ m.event \in E

\* A call in state st, the messages d a page has not handled, and whether it
\* has a session.  Before the SDK has told of a call there is nothing.
NotYetTold(st, d, ex, c) ==
    st \in {"free", "calling"} => ~ex /\ \A i \in 1..Len(d) : ~About(d[i], c)

\* After its end the release is to come, or has been handled.
ToldOfEnd(st, d, ex, c) ==
    st = "ended" =>
        \/ \E i \in 1..Len(d) : Is(d[i], c, {"onCallReleased"})
        \/ ~ex /\ \A i \in 1..Len(d) : ~About(d[i], c)

\* In between there is no release, and a session or an event that makes one.
ToldOfCall(st, d, ex, c) ==
    st \notin {"free", "calling", "ended"} =>
        /\ \A i \in 1..Len(d) : ~Is(d[i], c, {"onCallReleased"})
        /\ ex \/ \E i \in 1..Len(d) : Is(d[i], c, Introduces)

\* A hold or a retrieve finds a session when its turn comes.
HoldsFindSession(d, ex, c) ==
    \A i \in 1..Len(d) : Is(d[i], c, {"onCallPaused", "onCallResumed"}) =>
        ex \/ \E j \in 1..(i - 1) : Is(d[j], c, Introduces)

\* Nothing about a call follows its release.
ReleaseIsLast(d, c) ==
    \A i, j \in 1..Len(d) : Is(d[i], c, {"onCallReleased"}) /\ i < j => ~About(d[j], c)

Tracks(st, d, ex, c) ==
    /\ NotYetTold(st, d, ex, c) /\ ToldOfEnd(st, d, ex, c) /\ ToldOfCall(st, d, ex, c)
    /\ HoldsFindSession(d, ex, c) /\ ReleaseIsLast(d, c)

-----------------------------------------------------------------------------
(* Messages.                                                               *)

\* Events and results are told apart by their members.
LEMMA MessageKinds ==
    /\ \A m \in EventMsgs : IsEvent(m) /\ m.callid \in CallIds /\ m.event \in Events
                            /\ "cmdresult" \notin DOMAIN m
    /\ \A m \in ReplyMsgs : ~IsEvent(m) /\ m.n \in Nat
    /\ \A m \in CmdMsgs : ~IsEvent(m) /\ m.n \in Nat
  <1>1. ASSUME NEW m \in EventMsgs
        PROVE  IsEvent(m) /\ m.callid \in CallIds /\ m.event \in Events
               /\ "cmdresult" \notin DOMAIN m
    BY DEF EventMsgs, IsEvent
  <1>2. ASSUME NEW m \in ReplyMsgs PROVE ~IsEvent(m) /\ m.n \in Nat
    BY DEF ReplyMsgs, IsEvent
  <1>3. ASSUME NEW m \in CmdMsgs PROVE ~IsEvent(m) /\ m.n \in Nat
    BY DEF CmdMsgs, IsEvent
  <1> QED BY <1>1, <1>2, <1>3

\* An event is of one kind.
LEMMA EventKinds ==
    ASSUME NEW m, NEW c
    PROVE  /\ Is(m, c, {"onCallReleased"}) => /\ About(m, c)
                                             /\ ~Is(m, c, Introduces)
                                             /\ ~Is(m, c, {"onCallPaused", "onCallResumed"})
           /\ Is(m, c, Introduces) => /\ About(m, c)
                                      /\ ~Is(m, c, {"onCallPaused", "onCallResumed"})
           /\ Is(m, c, {"onCallPaused", "onCallResumed"}) => About(m, c)
  BY DEF Is, Introduces

-----------------------------------------------------------------------------
(* How a page's view of one call changes with the messages.                *)

\* A message about another call, or none, changes nothing.
LEMMA TracksAppendOther ==
    ASSUME NEW st, NEW ex \in BOOLEAN, NEW c, NEW d \in Seq(DownMsgs), NEW m \in DownMsgs,
           Tracks(st, d, ex, c), ~About(m, c)
    PROVE  Tracks(st, Append(d, m), ex, c)
  <1> DEFINE d2 == Append(d, m)
  <1>1. Len(d) \in Nat /\ Len(d2) = Len(d) + 1 /\ d2[Len(d) + 1] = m
        /\ \A i \in 1..Len(d) : d2[i] = d[i] /\ i \in 1..Len(d2)
    OBVIOUS
  <1>2. \A i \in 1..Len(d2) : i \in 1..Len(d) \/ i = Len(d) + 1 BY <1>1
  <1>3. \A E : ~Is(m, c, E) BY DEF Is
  <1> HIDE DEF d2
  <1>4. NotYetTold(st, d2, ex, c) BY <1>1, <1>2 DEF Tracks, NotYetTold
  <1>5. ToldOfEnd(st, d2, ex, c) BY <1>1, <1>2 DEF Tracks, ToldOfEnd
  <1>6. ToldOfCall(st, d2, ex, c) BY <1>1, <1>2, <1>3 DEF Tracks, ToldOfCall
  <1>7. HoldsFindSession(d2, ex, c) BY <1>1, <1>2, <1>3 DEF Tracks, HoldsFindSession
  <1>8. ReleaseIsLast(d2, c) BY <1>1, <1>2, <1>3 DEF Tracks, ReleaseIsLast
  <1> QED BY <1>4, <1>5, <1>6, <1>7, <1>8 DEF Tracks, d2

\* The SDK's moves: the event m it sends when a call goes from st to st2.
Sends(st, m, st2, c) ==
    \/ /\ Is(m, c, Introduces) /\ st # "ended"
       /\ st2 \notin {"free", "calling", "ended"}
    \/ /\ Is(m, c, {"onCallPaused", "onCallResumed"})
       /\ {st, st2} \cap {"free", "calling", "ended"} = {}
    \/ Is(m, c, {"onCallReleased"}) /\ st # "ended" /\ st2 = "ended"

\* An event the SDK sends keeps the line in step with the call.
LEMMA TracksAppend ==
    ASSUME NEW st, NEW st2, NEW ex \in BOOLEAN, NEW c, NEW d \in Seq(DownMsgs),
           NEW m \in DownMsgs, Tracks(st, d, ex, c), Sends(st, m, st2, c)
    PROVE  Tracks(st2, Append(d, m), ex, c)
  <1> DEFINE d2 == Append(d, m)
  <1>1. Len(d) \in Nat /\ Len(d2) = Len(d) + 1 /\ d2[Len(d) + 1] = m
        /\ Len(d) + 1 \in 1..Len(d2)
        /\ \A i \in 1..Len(d) : d2[i] = d[i] /\ i \in 1..Len(d2)
    OBVIOUS
  <1>2. \A i \in 1..Len(d2) : i \in 1..Len(d) \/ i = Len(d) + 1 BY <1>1
  <1>3. st # "ended" /\ About(m, c) BY DEF Sends, Is
  <1> HIDE DEF d2
  <1>4. \A i \in 1..Len(d) : ~Is(d[i], c, {"onCallReleased"})
    BY <1>3, EventKinds DEF Tracks, NotYetTold, ToldOfCall
  <1>5. ReleaseIsLast(d2, c) BY <1>1, <1>2, <1>4 DEF ReleaseIsLast
  <1>6. CASE Is(m, c, Introduces) /\ st2 \notin {"free", "calling", "ended"}
    <2>1. ~Is(m, c, {"onCallPaused", "onCallResumed"}) /\ ~Is(m, c, {"onCallReleased"})
      BY <1>6, EventKinds
    <2>2. NotYetTold(st2, d2, ex, c) /\ ToldOfEnd(st2, d2, ex, c)
      BY <1>6 DEF NotYetTold, ToldOfEnd
    <2>3. ToldOfCall(st2, d2, ex, c) BY <1>1, <1>2, <1>4, <1>6, <2>1 DEF ToldOfCall
    <2>4. HoldsFindSession(d2, ex, c)
      BY <1>1, <1>2, <2>1 DEF Tracks, HoldsFindSession
    <2> QED BY <1>5, <2>2, <2>3, <2>4 DEF Tracks, d2
  <1>7. CASE /\ Is(m, c, {"onCallPaused", "onCallResumed"})
             /\ {st, st2} \cap {"free", "calling", "ended"} = {}
    <2>1. ~Is(m, c, {"onCallReleased"}) BY <1>7, EventKinds
    <2>2. NotYetTold(st2, d2, ex, c) /\ ToldOfEnd(st2, d2, ex, c)
      BY <1>7 DEF NotYetTold, ToldOfEnd
    <2>3. ex \/ \E i \in 1..Len(d) : Is(d[i], c, Introduces)
      BY <1>7 DEF Tracks, ToldOfCall
    <2>4. ToldOfCall(st2, d2, ex, c) BY <1>1, <1>2, <1>4, <2>1, <2>3 DEF ToldOfCall
    <2>5. HoldsFindSession(d2, ex, c)
      BY <1>1, <1>2, <2>3 DEF Tracks, HoldsFindSession
    <2> QED BY <1>5, <2>2, <2>4, <2>5 DEF Tracks, d2
  <1>8. CASE Is(m, c, {"onCallReleased"}) /\ st2 = "ended"
    <2>1. ~Is(m, c, {"onCallPaused", "onCallResumed"}) BY <1>8, EventKinds
    <2>2. NotYetTold(st2, d2, ex, c) /\ ToldOfEnd(st2, d2, ex, c) /\ ToldOfCall(st2, d2, ex, c)
      BY <1>1, <1>8 DEF NotYetTold, ToldOfEnd, ToldOfCall
    <2>3. HoldsFindSession(d2, ex, c)
      BY <1>1, <1>2, <2>1 DEF Tracks, HoldsFindSession
    <2> QED BY <1>5, <2>2, <2>3 DEF Tracks, d2
  <1> QED BY <1>6, <1>7, <1>8 DEF Sends

\* What the handlers of a page make of its session: ex2, after message m.
Handled(m, ex, ex2, c) ==
    /\ ~About(m, c) => ex2 = ex
    /\ Is(m, c, Introduces) => ex2 = TRUE
    /\ Is(m, c, {"onCallPaused", "onCallResumed"}) => ex2 = ex
    /\ Is(m, c, {"onCallReleased"}) => ex2 = FALSE

\* An event the page handles keeps the rest of the line in step with its session.
LEMMA TracksTail ==
    ASSUME NEW st, NEW ex \in BOOLEAN, NEW ex2 \in BOOLEAN, NEW c,
           NEW d \in Seq(DownMsgs), d # <<>>,
           Tracks(st, d, ex, c), Handled(Head(d), ex, ex2, c)
    PROVE  /\ Tracks(st, Tail(d), ex2, c)
           /\ Is(Head(d), c, {"onCallPaused", "onCallResumed"}) => ex
  <1> DEFINE t == Tail(d)
             m == d[1]
  <1>1. Len(d) \in Nat \ {0} /\ Len(t) = Len(d) - 1 /\ Head(d) = m /\ 1 \in 1..Len(d)
    BY HeadTailProperties, LenProperties, EmptySeq
  <1>2. \A i \in 1..Len(t) : t[i] = d[i + 1] /\ i + 1 \in 1..Len(d)
    BY HeadTailProperties, <1>1
  <1>3. \A i \in 1..Len(d) : i = 1 \/ (i - 1 \in 1..Len(t) /\ t[i - 1] = d[i])
    BY <1>1, <1>2
  <1>4. m \in DownMsgs BY <1>1, ElementOfSeq
  <1>5. About(m, c) => \/ Is(m, c, Introduces) \/ Is(m, c, {"onCallReleased"})
                       \/ Is(m, c, {"onCallPaused", "onCallResumed"})
    BY <1>4, MessageKinds DEF DownMsgs, About, Is, Introduces, Events
  <1>6. Handled(m, ex, ex2, c) BY <1>1
  <1> HIDE DEF t, m
  <1>7. Is(m, c, {"onCallPaused", "onCallResumed"}) => ex
    BY <1>1 DEF Tracks, HoldsFindSession, m
  <1>8. ReleaseIsLast(t, c) BY <1>1, <1>2 DEF Tracks, ReleaseIsLast
  <1>9. CASE Is(m, c, {"onCallReleased"})
    <2>1. About(m, c) /\ ~ex2 BY <1>9, <1>6, EventKinds DEF Handled
    <2>2. \A i \in 1..Len(t) : ~About(t[i], c)
      BY <1>1, <1>2, <1>9 DEF Tracks, ReleaseIsLast, m
    <2>3. st \notin {"free", "calling"} BY <1>1, <2>1 DEF Tracks, NotYetTold, m
    <2>4. st = "ended" BY <1>1, <1>9, <2>3 DEF Tracks, ToldOfCall, m
    <2>5. HoldsFindSession(t, ex2, c) BY <2>2, EventKinds DEF HoldsFindSession
    <2>6. NotYetTold(st, t, ex2, c) /\ ToldOfEnd(st, t, ex2, c) /\ ToldOfCall(st, t, ex2, c)
      BY <2>1, <2>2, <2>4 DEF NotYetTold, ToldOfEnd, ToldOfCall
    <2> QED BY <1>1, <1>7, <1>8, <2>5, <2>6 DEF Tracks, t
  <1>10. CASE ~Is(m, c, {"onCallReleased"})
    <2>1. ToldOfEnd(st, t, ex2, c)
      <3> SUFFICES ASSUME st = "ended" PROVE ToldOfEnd(st, t, ex2, c) BY DEF ToldOfEnd
      <3>1. CASE \E i \in 1..Len(d) : Is(d[i], c, {"onCallReleased"})
        BY <1>3, <1>10, <3>1 DEF ToldOfEnd, m
      <3>2. CASE ~ex /\ \A i \in 1..Len(d) : ~About(d[i], c)
        BY <1>1, <1>2, <1>6, <3>2 DEF ToldOfEnd, Handled, m
      <3> QED BY <3>1, <3>2 DEF Tracks, ToldOfEnd
    <2>2. NotYetTold(st, t, ex2, c)
      BY <1>1, <1>2, <1>6 DEF Tracks, NotYetTold, Handled, m
    <2>3. ToldOfCall(st, t, ex2, c)
      <3> SUFFICES ASSUME st \notin {"free", "calling", "ended"}
                   PROVE  ToldOfCall(st, t, ex2, c)
        BY DEF ToldOfCall
      <3>1. \A i \in 1..Len(t) : ~Is(t[i], c, {"onCallReleased"})
        BY <1>2 DEF Tracks, ToldOfCall
      <3>2. CASE ex BY <1>5, <1>6, <1>10, <3>1, <3>2 DEF ToldOfCall, Handled
      <3>3. CASE Is(m, c, Introduces) BY <1>6, <3>1, <3>3 DEF ToldOfCall, Handled
      <3>4. CASE ~ex /\ ~Is(m, c, Introduces)
        <4>1. PICK i \in 1..Len(d) : Is(d[i], c, Introduces)
          BY <3>4 DEF Tracks, ToldOfCall
        <4>2. i - 1 \in 1..Len(t) /\ Is(t[i - 1], c, Introduces)
          BY <1>3, <3>4, <4>1 DEF m
        <4> QED BY <3>1, <4>2 DEF ToldOfCall
      <3> QED BY <3>2, <3>3, <3>4
    <2>4. HoldsFindSession(t, ex2, c)
      <3> SUFFICES ASSUME NEW i \in 1..Len(t),
                          Is(t[i], c, {"onCallPaused", "onCallResumed"})
                   PROVE  ex2 \/ \E j \in 1..(i - 1) : Is(t[j], c, Introduces)
        BY DEF HoldsFindSession
      <3>1. CASE ex BY <1>5, <1>6, <1>10, <3>1 DEF Handled
      <3>2. CASE Is(m, c, Introduces) BY <1>6, <3>2 DEF Handled
      <3>3. CASE ~ex /\ ~Is(m, c, Introduces)
        <4>1. PICK j \in 1..i : Is(d[j], c, Introduces)
          BY <1>2, <3>3 DEF Tracks, HoldsFindSession
        <4>2. j \in 1..Len(d) /\ j # 1 BY <1>1, <3>3, <4>1 DEF m
        <4>3. j - 1 \in 1..(i - 1) /\ Is(t[j - 1], c, Introduces)
          BY <1>3, <4>1, <4>2
        <4> QED BY <4>3
      <3> QED BY <3>1, <3>2, <3>3
    <2> QED BY <1>1, <1>7, <1>8, <2>1, <2>2, <2>3, <2>4 DEF Tracks, t
  <1> QED BY <1>9, <1>10

-----------------------------------------------------------------------------
(* What is under way on a connection.                                      *)

Msgs == DownMsgs \cup CmdMsgs

\* The messages of a line that are not events stand for the commands a+1 to
\* s: none is missing, none is there twice, and they are in order.
InOrder(line, a, s) ==
    /\ \A i \in 1..Len(line) : ~IsEvent(line[i]) => line[i].n \in (a + 1)..s
    /\ \A k \in (a + 1)..s : \E i \in 1..Len(line) : ~IsEvent(line[i]) /\ line[i].n = k
    /\ \A i, j \in 1..Len(line) :
          i < j /\ ~IsEvent(line[i]) /\ ~IsEvent(line[j]) => line[i].n < line[j].n

\* StandsFor, position by position.
LEMMA StandsForEach ==
    ASSUME NEW line, NEW a, NEW s
    PROVE  StandsFor(line, a, s) <=> InOrder(line, a, s)
  <1> DEFINE pending == {i \in 1..Len(line) : ~IsEvent(line[i])}
             range   == (a + 1)..s
  <1> HIDE DEF range
  <1>1. {line[i].n : i \in pending} = range <=>
            /\ \A i \in 1..Len(line) : ~IsEvent(line[i]) => line[i].n \in range
            /\ \A k \in range : \E i \in 1..Len(line) : ~IsEvent(line[i]) /\ line[i].n = k
    OBVIOUS
  <1>2. (\A i, j \in pending : i < j => line[i].n < line[j].n) <=>
            \A i, j \in 1..Len(line) :
                i < j /\ ~IsEvent(line[i]) /\ ~IsEvent(line[j]) => line[i].n < line[j].n
    OBVIOUS
  <1> QED BY <1>1, <1>2, Zenon DEF StandsFor, InOrder, range

\* A line is made of three parts.
Parts(line, d, x, u) ==
    /\ Len(d) \in Nat /\ Len(x) \in Nat /\ Len(u) \in Nat
    /\ line \in Seq(Msgs)
    /\ Len(line) = Len(d) + Len(x) + Len(u)
    /\ \A i \in 1..Len(d) : line[i] = d[i]
    /\ \A i \in 1..Len(x) : line[Len(d) + i] = x[i]
    /\ \A i \in 1..Len(u) : line[Len(d) + Len(x) + i] = u[i]

\* The elements of a line.
LEMMA LineElements ==
    ASSUME NEW d \in Seq(Msgs), NEW x \in Seq(Msgs), NEW u \in Seq(Msgs)
    PROVE  Parts(d \o x \o u, d, x, u)
  <1>1. /\ Len(d) \in Nat /\ Len(x) \in Nat /\ Len(u) \in Nat OBVIOUS
  <1>2. /\ d \o x \in Seq(Msgs) /\ Len(d \o x) = Len(d) + Len(x)
        /\ \A i \in 1..Len(d) : (d \o x)[i] = d[i]
        /\ \A i \in 1..Len(x) : (d \o x)[Len(d) + i] = x[i]
    BY <1>1
  <1>3. ASSUME NEW y \in Seq(Msgs)
        PROVE  /\ y \o u \in Seq(Msgs) /\ Len(y \o u) = Len(y) + Len(u) /\ Len(y) \in Nat
               /\ \A i \in 1..Len(y) : (y \o u)[i] = y[i]
               /\ \A i \in 1..Len(u) : (y \o u)[Len(y) + i] = u[i]
    BY <1>1
  <1> DEFINE y == d \o x
  <1> HIDE DEF y
  <1>4. y \in Seq(Msgs) /\ Len(y) = Len(d) + Len(x) BY <1>2 DEF y
  <1>5. /\ y \o u \in Seq(Msgs) /\ Len(y \o u) = Len(d) + Len(x) + Len(u)
        /\ \A i \in 1..(Len(d) + Len(x)) : (y \o u)[i] = y[i]
        /\ \A i \in 1..Len(u) : (y \o u)[Len(d) + Len(x) + i] = u[i]
    BY <1>3, <1>4
  <1>6. \A i \in 1..Len(d) : (y \o u)[i] = d[i]
    <2>1. \A i \in 1..Len(d) : i \in 1..(Len(d) + Len(x)) BY <1>1
    <2> QED BY <1>2, <1>5, <2>1 DEF y
  <1>7. \A i \in 1..Len(x) : (y \o u)[Len(d) + i] = x[i]
    <2>1. \A i \in 1..Len(x) : Len(d) + i \in 1..(Len(d) + Len(x)) BY <1>1
    <2> QED BY <1>2, <1>5, <2>1 DEF y
  <1> QED BY <1>1, <1>5, <1>6, <1>7 DEF y, Parts

\* Messages with the same numbers.
LEMMA SameOrder ==
    ASSUME NEW line \in Seq(Msgs), NEW line2 \in Seq(Msgs), NEW a \in Nat, NEW s \in Nat,
           InOrder(line, a, s), Len(line2) = Len(line),
           \A i \in 1..Len(line) :
               \/ line2[i] = line[i]
               \/ ~IsEvent(line[i]) /\ ~IsEvent(line2[i]) /\ line2[i].n = line[i].n
    PROVE  InOrder(line2, a, s)
  <1>1. \A i \in 1..Len(line2) : ~IsEvent(line2[i]) => line2[i].n \in (a + 1)..s
    BY DEF InOrder
  <1>2. ASSUME NEW k \in (a + 1)..s
        PROVE  \E i \in 1..Len(line2) : ~IsEvent(line2[i]) /\ line2[i].n = k
    <2>1. PICK i \in 1..Len(line) : ~IsEvent(line[i]) /\ line[i].n = k BY DEF InOrder
    <2> QED BY <2>1
  <1>3. ASSUME NEW i \in 1..Len(line2), NEW j \in 1..Len(line2),
               i < j, ~IsEvent(line2[i]), ~IsEvent(line2[j])
        PROVE  line2[i].n < line2[j].n
    <2>1. line[i].n < line[j].n BY <1>3 DEF InOrder
    <2> QED BY <1>3, <2>1
  <1> QED BY <1>1, <1>2, <1>3 DEF InOrder

\* One more event, after the first k messages.
LEMMA EventAdded ==
    ASSUME NEW line \in Seq(Msgs), NEW line2 \in Seq(Msgs), NEW a \in Nat, NEW s \in Nat,
           NEW k \in 0..Len(line),
           InOrder(line, a, s), Len(line2) = Len(line) + 1, IsEvent(line2[k + 1]),
           \A i \in 1..k : line2[i] = line[i],
           \A i \in (k + 1)..Len(line) : line2[i + 1] = line[i]
    PROVE  InOrder(line2, a, s)
  <1>1. Len(line) \in Nat OBVIOUS
  <1>2. ASSUME NEW i \in 1..Len(line2)
        PROVE  \/ i \in 1..k /\ i \in 1..Len(line) /\ line2[i] = line[i]
               \/ i = k + 1
               \/ i - 1 \in (k + 1)..Len(line) /\ line2[i] = line[i - 1]
    <2>1. CASE i \in 1..k BY <1>1, <2>1
    <2>2. CASE i \notin 1..k /\ i # k + 1
      <3>1. i - 1 \in (k + 1)..Len(line) /\ i = (i - 1) + 1 BY <1>1, <2>2
      <3> QED BY <3>1
    <2> QED BY <2>1, <2>2
  <1>3. ASSUME NEW i \in 1..Len(line2), ~IsEvent(line2[i])
        PROVE  line2[i].n \in (a + 1)..s
    <2>1. CASE i \in 1..Len(line) /\ line2[i] = line[i] BY <1>3, <2>1 DEF InOrder
    <2>2. CASE i - 1 \in 1..Len(line) /\ line2[i] = line[i - 1] BY <1>3, <2>2 DEF InOrder
    <2> QED BY <1>1, <1>2, <1>3, <2>1, <2>2
  <1>4. ASSUME NEW m \in (a + 1)..s
        PROVE  \E i \in 1..Len(line2) : ~IsEvent(line2[i]) /\ line2[i].n = m
    <2>1. PICK i \in 1..Len(line) : ~IsEvent(line[i]) /\ line[i].n = m BY DEF InOrder
    <2>2. CASE i \in 1..k BY <1>1, <2>1, <2>2
    <2>3. CASE i \in (k + 1)..Len(line)
      <3>1. i + 1 \in 1..Len(line2) /\ line2[i + 1] = line[i] BY <1>1, <2>3
      <3> QED BY <2>1, <3>1
    <2> QED BY <1>1, <2>2, <2>3
  <1>5. ASSUME NEW i \in 1..Len(line2), NEW j \in 1..Len(line2),
               i < j, ~IsEvent(line2[i]), ~IsEvent(line2[j])
        PROVE  line2[i].n < line2[j].n
    <2>1. i # k + 1 /\ j # k + 1 BY <1>5
    <2>2. CASE i \in 1..k /\ j \in 1..k
      <3>1. /\ i \in 1..Len(line) /\ line2[i] = line[i]
            /\ j \in 1..Len(line) /\ line2[j] = line[j]
        BY <1>1, <2>2
      <3> QED BY <1>5, <3>1 DEF InOrder
    <2>3. CASE i \in 1..k /\ j \notin 1..k
      <3>1. i \in 1..Len(line) /\ line2[i] = line[i] BY <1>1, <2>3
      <3>2. j - 1 \in 1..Len(line) /\ line2[j] = line[j - 1] /\ i < j - 1
        BY <1>1, <1>2, <2>1, <2>3
      <3> QED BY <1>5, <3>1, <3>2 DEF InOrder
    <2>4. CASE i \notin 1..k
      <3>1. i - 1 \in 1..Len(line) /\ line2[i] = line[i - 1]
        BY <1>1, <1>2, <2>1, <2>4
      <3>2. j - 1 \in 1..Len(line) /\ line2[j] = line[j - 1] /\ i - 1 < j - 1
        BY <1>1, <1>2, <1>5, <2>1, <2>4
      <3> QED BY <1>5, <3>1, <3>2 DEF InOrder
    <2> QED BY <2>2, <2>3, <2>4
  <1> QED BY <1>3, <1>4, <1>5 DEF InOrder

\* The oldest message is taken: an event, or the result of command a+1.
LEMMA OldestTaken ==
    ASSUME NEW line \in Seq(Msgs), NEW line2 \in Seq(Msgs), NEW a \in Nat, NEW s \in Nat,
           InOrder(line, a, s), Len(line) = Len(line2) + 1,
           \A i \in 1..Len(line2) : line2[i] = line[i + 1]
    PROVE  /\ IsEvent(line[1]) => InOrder(line2, a, s)
           /\ ~IsEvent(line[1]) => InOrder(line2, a + 1, s) /\ a + 1 <= s
  <1>1. Len(line2) \in Nat /\ 1 \in 1..Len(line)
        /\ \A i \in 1..Len(line2) : i + 1 \in 1..Len(line) /\ i + 1 > 1
    OBVIOUS
  <1>2. \A i \in 1..Len(line) : i = 1 \/ (i - 1 \in 1..Len(line2) /\ line2[i - 1] = line[i])
    BY <1>1
  <1>3. ASSUME NEW i \in 1..Len(line2), NEW j \in 1..Len(line2),
               i < j, ~IsEvent(line2[i]), ~IsEvent(line2[j])
        PROVE  line2[i].n < line2[j].n
    <2>1. /\ i + 1 \in 1..Len(line) /\ line2[i] = line[i + 1]
          /\ j + 1 \in 1..Len(line) /\ line2[j] = line[j + 1]
          /\ i + 1 < j + 1
      BY <1>1, <1>3
    <2> QED BY <1>3, <2>1 DEF InOrder
  <1>4. CASE IsEvent(line[1])
    <2>1. \A i \in 1..Len(line2) : ~IsEvent(line2[i]) => line2[i].n \in (a + 1)..s
      BY <1>1 DEF InOrder
    <2>2. ASSUME NEW m \in (a + 1)..s
          PROVE  \E i \in 1..Len(line2) : ~IsEvent(line2[i]) /\ line2[i].n = m
      <3>1. PICK i \in 1..Len(line) : ~IsEvent(line[i]) /\ line[i].n = m BY DEF InOrder
      <3> QED BY <1>2, <1>4, <3>1
    <2> QED BY <1>3, <1>4, <2>1, <2>2 DEF InOrder
  <1>5. CASE ~IsEvent(line[1])
    <2>1. line[1].n \in (a + 1)..s BY <1>1, <1>5 DEF InOrder
    <2>2. a + 1 \in (a + 1)..s BY <2>1
    <2>3. PICK i \in 1..Len(line) : ~IsEvent(line[i]) /\ line[i].n = a + 1
      BY <2>2 DEF InOrder
    <2>4. line[1].n = a + 1
      <3>1. CASE i = 1 BY <2>3, <3>1
      <3>2. CASE i # 1
        <4>1. line[1].n < line[i].n BY <1>1, <1>5, <2>3, <3>2 DEF InOrder
        <4> QED BY <2>1, <2>3, <4>1
      <3> QED BY <3>1, <3>2
    <2>5. ASSUME NEW j \in 1..Len(line2), ~IsEvent(line2[j])
          PROVE  line2[j].n \in (a + 1 + 1)..s
      <3>1. ~IsEvent(line[j + 1]) /\ j + 1 \in 1..Len(line) /\ 1 < j + 1 BY <1>1, <2>5
      <3>2. line[j + 1].n \in (a + 1)..s /\ line[1].n < line[j + 1].n
        BY <1>1, <1>5, <3>1 DEF InOrder
      <3> QED BY <2>4, <3>2
    <2>6. ASSUME NEW m \in (a + 1 + 1)..s
          PROVE  \E j \in 1..Len(line2) : ~IsEvent(line2[j]) /\ line2[j].n = m
      <3>1. m \in (a + 1)..s /\ m # a + 1 OBVIOUS
      <3>2. PICK j \in 1..Len(line) : ~IsEvent(line[j]) /\ line[j].n = m
        BY <3>1 DEF InOrder
      <3>3. j # 1 BY <2>4, <3>1, <3>2
      <3> QED BY <1>2, <3>2, <3>3
    <2>7. InOrder(line2, a + 1, s) BY <1>3, <2>5, <2>6 DEF InOrder
    <2> QED BY <1>5, <2>2, <2>7
  <1> QED BY <1>4, <1>5

\* Commands s+1 to s+n are sent.
LEMMA CommandsSent ==
    ASSUME NEW line \in Seq(Msgs), NEW line2 \in Seq(Msgs), NEW a \in Nat, NEW s \in Nat,
           NEW n \in Nat, InOrder(line, a, s), a <= s, Len(line2) = Len(line) + n,
           \A i \in 1..Len(line) : line2[i] = line[i],
           \A i \in 1..n : ~IsEvent(line2[Len(line) + i]) /\ line2[Len(line) + i].n = s + i
    PROVE  InOrder(line2, a, s + n)
  <1>1. Len(line) \in Nat OBVIOUS
  <1>2. ASSUME NEW i \in 1..Len(line2)
        PROVE  \/ i \in 1..Len(line) /\ line2[i] = line[i]
               \/ /\ i - Len(line) \in 1..n /\ ~IsEvent(line2[i])
                  /\ line2[i].n = s + (i - Len(line))
    <2>1. CASE i \in 1..Len(line) BY <2>1
    <2>2. CASE i \notin 1..Len(line)
      <3>1. i - Len(line) \in 1..n /\ i = Len(line) + (i - Len(line)) BY <1>1, <2>2
      <3> QED BY <3>1
    <2> QED BY <2>1, <2>2
  <1>3. \A i \in 1..Len(line2) : ~IsEvent(line2[i]) => line2[i].n \in (a + 1)..(s + n)
    BY <1>1, <1>2 DEF InOrder
  <1>4. ASSUME NEW m \in (a + 1)..(s + n)
        PROVE  \E i \in 1..Len(line2) : ~IsEvent(line2[i]) /\ line2[i].n = m
    <2>1. CASE m <= s
      <3> m \in (a + 1)..s BY <2>1
      <3>1. PICK i \in 1..Len(line) : ~IsEvent(line[i]) /\ line[i].n = m
        BY DEF InOrder
      <3>2. i \in 1..Len(line2) BY <1>1
      <3> QED BY <3>1, <3>2
    <2>2. CASE m > s
      <3>1. m - s \in 1..n /\ Len(line) + (m - s) \in 1..Len(line2) BY <1>1, <2>2
      <3>2. ~IsEvent(line2[Len(line) + (m - s)]) /\ line2[Len(line) + (m - s)].n = s + (m - s)
        BY <3>1
      <3>3. s + (m - s) = m OBVIOUS
      <3> QED BY <3>1, <3>2, <3>3
    <2> QED BY <2>1, <2>2
  <1>5. ASSUME NEW i \in 1..Len(line2), NEW j \in 1..Len(line2),
               i < j, ~IsEvent(line2[i]), ~IsEvent(line2[j])
        PROVE  line2[i].n < line2[j].n
    <2>1. CASE i \in 1..Len(line) /\ j \in 1..Len(line) BY <1>5, <2>1 DEF InOrder
    <2>2. CASE i \in 1..Len(line) /\ j \notin 1..Len(line)
      <3>1. line2[i].n \in (a + 1)..s BY <1>5, <2>2 DEF InOrder
      <3>2. j - Len(line) \in 1..n /\ line2[j].n = s + (j - Len(line)) BY <1>2, <2>2
      <3> QED BY <1>1, <3>1, <3>2
    <2>3. CASE i \notin 1..Len(line)
      <3>1. j \notin 1..Len(line) BY <1>1, <1>5, <2>3
      <3>2. line2[i].n = s + (i - Len(line)) BY <1>2, <2>3
      <3>3. line2[j].n = s + (j - Len(line)) BY <1>2, <3>1
      <3> QED BY <1>1, <1>5, <3>2, <3>3
    <2> QED BY <2>1, <2>2, <2>3
  <1> QED BY <1>3, <1>4, <1>5 DEF InOrder

\* The service thread takes a command.
LEMMA LineTaken ==
    ASSUME NEW d \in Seq(Msgs), NEW u \in Seq(Msgs), u # <<>>, NEW a \in Nat, NEW s \in Nat,
           InOrder(d \o <<>> \o u, a, s)
    PROVE  InOrder(d \o <<Head(u)>> \o Tail(u), a, s)
  <1>1. Head(u) \in Msgs /\ Tail(u) \in Seq(Msgs) /\ Len(u) \in Nat \ {0}
        /\ Len(Tail(u)) = Len(u) - 1 /\ \A i \in 1..Len(Tail(u)) : Tail(u)[i] = u[i + 1]
    BY HeadTailProperties, EmptySeq, LenProperties
  <1>2. <<Head(u)>> \in Seq(Msgs) /\ <<>> \in Seq(Msgs) /\ Len(<<>>) = 0
        /\ Len(<<Head(u)>>) = 1 /\ <<Head(u)>>[1] = u[1] /\ Len(d) \in Nat
    BY <1>1
  <1> DEFINE line  == d \o <<>> \o u
             line2 == d \o <<Head(u)>> \o Tail(u)
  <1>a. Parts(line, d, <<>>, u) BY <1>1, <1>2, LineElements, Zenon
  <1>b. Parts(line2, d, <<Head(u)>>, Tail(u)) BY <1>1, <1>2, LineElements, Zenon
  <1> HIDE DEF line, line2
  <1>3. /\ line \in Seq(Msgs) /\ Len(line) = Len(d) + Len(u)
        /\ \A i \in 1..Len(d) : line[i] = d[i]
        /\ \A i \in 1..Len(u) : line[Len(d) + i] = u[i]
    BY <1>a, <1>2 DEF Parts
  <1>4. /\ line2 \in Seq(Msgs) /\ Len(line2) = Len(d) + 1 + Len(Tail(u))
        /\ \A i \in 1..Len(d) : line2[i] = d[i]
        /\ \A i \in 1..1 : line2[Len(d) + i] = u[i]
        /\ \A i \in 1..Len(Tail(u)) : line2[Len(d) + 1 + i] = Tail(u)[i]
    BY <1>b, <1>1, <1>2 DEF Parts
  <1>5. ASSUME NEW i \in 1..Len(line) PROVE line2[i] = line[i]
    <2>1. CASE i \in 1..Len(d) BY <1>3, <1>4, <2>1
    <2>2. CASE i = Len(d) + 1
      <3>1. line[Len(d) + 1] = u[1] BY <1>1, <1>3
      <3>2. line2[Len(d) + 1] = u[1] BY <1>4
      <3> QED BY <2>2, <3>1, <3>2
    <2>3. CASE i > Len(d) + 1
      <3> DEFINE k == i - (Len(d) + 1)
      <3>1. k \in 1..Len(Tail(u)) /\ i = Len(d) + 1 + k /\ k + 1 \in 1..Len(u)
            /\ i = Len(d) + (k + 1)
        BY <1>1, <1>2, <1>3, <2>3
      <3> HIDE DEF k
      <3>2. line2[i] = u[k + 1] BY <1>1, <1>4, <3>1
      <3>3. line[i] = u[k + 1] BY <1>3, <3>1
      <3> QED BY <3>2, <3>3
    <2> QED BY <1>2, <1>3, <2>1, <2>2, <2>3
  <1>6. Len(line2) = Len(line) BY <1>1, <1>2, <1>3, <1>4
  <1>7. InOrder(line, a, s) BY DEF line
  <1>8. InOrder(line2, a, s) BY <1>3, <1>4, <1>5, <1>6, <1>7, SameOrder
  <1> QED BY <1>8 DEF line2

\* The service thread answers the command in execution.
LEMMA LineAnswered ==
    ASSUME NEW d \in Seq(Msgs), NEW u \in Seq(Msgs), NEW m \in Msgs, NEW r \in Msgs,
           NEW a \in Nat, NEW s \in Nat,
           ~IsEvent(m), ~IsEvent(r), r.n = m.n, InOrder(d \o <<m>> \o u, a, s)
    PROVE  InOrder(Append(d, r) \o <<>> \o u, a, s)
  <1> DEFINE d2 == Append(d, r)
  <1>1. /\ d2 \in Seq(Msgs) /\ Len(d) \in Nat /\ Len(d2) = Len(d) + 1
        /\ d2[Len(d) + 1] = r /\ Len(u) \in Nat
        /\ \A i \in 1..Len(d) : d2[i] = d[i]
    OBVIOUS
  <1>2. <<m>> \in Seq(Msgs) /\ Len(<<m>>) = 1 /\ <<m>>[1] = m
        /\ <<>> \in Seq(Msgs) /\ Len(<<>>) = 0
    OBVIOUS
  <1> DEFINE line  == d \o <<m>> \o u
             line2 == d2 \o <<>> \o u
  <1>a. Parts(line, d, <<m>>, u) BY <1>1, <1>2, LineElements, Zenon
  <1>b. Parts(line2, d2, <<>>, u) BY <1>1, <1>2, LineElements, Zenon
  <1> HIDE DEF d2
  <1> HIDE DEF line, line2
  <1>3. /\ line \in Seq(Msgs) /\ Len(line) = Len(d) + 1 + Len(u)
        /\ \A i \in 1..Len(d) : line[i] = d[i]
        /\ \A i \in 1..1 : line[Len(d) + i] = m
        /\ \A i \in 1..Len(u) : line[Len(d) + 1 + i] = u[i]
    BY <1>a, <1>2 DEF Parts
  <1>4. /\ line2 \in Seq(Msgs) /\ Len(line2) = Len(d2) + Len(u)
        /\ \A i \in 1..Len(d2) : line2[i] = d2[i]
        /\ \A i \in 1..Len(u) : line2[Len(d2) + i] = u[i]
    BY <1>b, <1>1, <1>2 DEF Parts
  <1>5. ASSUME NEW i \in 1..Len(line)
        PROVE  \/ line2[i] = line[i]
               \/ ~IsEvent(line[i]) /\ ~IsEvent(line2[i]) /\ line2[i].n = line[i].n
    <2>1. CASE i \in 1..Len(d)
      <3>1. i \in 1..Len(d2) BY <1>1, <2>1
      <3> QED BY <1>1, <1>3, <1>4, <2>1, <3>1
    <2>2. CASE i = Len(d) + 1
      <3>1. line[Len(d) + 1] = m BY <1>3
      <3>2. line2[Len(d) + 1] = r BY <1>1, <1>4
      <3> QED BY <2>2, <3>1, <3>2
    <2>3. CASE i > Len(d) + 1
      <3> DEFINE k == i - (Len(d) + 1)
      <3>1. k \in 1..Len(u) /\ i = Len(d) + 1 + k BY <1>1, <1>3, <2>3
      <3> HIDE DEF k
      <3> QED BY <1>1, <1>3, <1>4, <3>1
    <2> QED BY <1>1, <1>3, <2>1, <2>2, <2>3
  <1>6. Len(line2) = Len(line) BY <1>1, <1>3, <1>4
  <1>7. InOrder(line, a, s) BY DEF line
  <1>8. InOrder(line2, a, s) BY <1>3, <1>4, <1>5, <1>6, <1>7, SameOrder
  <1> QED BY <1>8 DEF line2, d2

\* An event is sent to the page.
LEMMA LineEvent ==
    ASSUME NEW d \in Seq(Msgs), NEW x \in Seq(Msgs), NEW u \in Seq(Msgs), NEW e \in Msgs,
           NEW a \in Nat, NEW s \in Nat, IsEvent(e), InOrder(d \o x \o u, a, s)
    PROVE  InOrder(Append(d, e) \o x \o u, a, s)
  <1> DEFINE d2 == Append(d, e)
  <1>1. /\ d2 \in Seq(Msgs) /\ Len(d) \in Nat /\ Len(d2) = Len(d) + 1
        /\ d2[Len(d) + 1] = e /\ Len(u) \in Nat /\ Len(x) \in Nat
        /\ \A i \in 1..Len(d) : d2[i] = d[i]
    OBVIOUS
  <1> DEFINE line  == d \o x \o u
             line2 == d2 \o x \o u
  <1>a. Parts(line, d, x, u) BY <1>1, LineElements, Zenon
  <1>b. Parts(line2, d2, x, u) BY <1>1, LineElements, Zenon
  <1> HIDE DEF d2
  <1> HIDE DEF line, line2
  <1>3. /\ line \in Seq(Msgs) /\ Len(line) = Len(d) + Len(x) + Len(u)
        /\ \A i \in 1..Len(d) : line[i] = d[i]
        /\ \A i \in 1..Len(x) : line[Len(d) + i] = x[i]
        /\ \A i \in 1..Len(u) : line[Len(d) + Len(x) + i] = u[i]
    BY <1>a DEF Parts
  <1>4. /\ line2 \in Seq(Msgs) /\ Len(line2) = Len(d2) + Len(x) + Len(u)
        /\ \A i \in 1..Len(d2) : line2[i] = d2[i]
        /\ \A i \in 1..Len(x) : line2[Len(d2) + i] = x[i]
        /\ \A i \in 1..Len(u) : line2[Len(d2) + Len(x) + i] = u[i]
    BY <1>b DEF Parts
  <1>5. IsEvent(line2[Len(d) + 1]) BY <1>1, <1>4
  <1>6. ASSUME NEW i \in 1..Len(d) PROVE line2[i] = line[i]
    <2>1. i \in 1..Len(d2) BY <1>1
    <2> QED BY <1>1, <1>3, <1>4, <2>1
  <1>7. ASSUME NEW i \in (Len(d) + 1)..Len(line) PROVE line2[i + 1] = line[i]
    <2>1. CASE i <= Len(d) + Len(x)
      <3> DEFINE k == i - Len(d)
      <3>1. k \in 1..Len(x) /\ i = Len(d) + k /\ i + 1 = Len(d2) + k BY <1>1, <1>3, <2>1
      <3> HIDE DEF k
      <3> QED BY <1>3, <1>4, <3>1
    <2>2. CASE i > Len(d) + Len(x)
      <3> DEFINE k == i - (Len(d) + Len(x))
      <3>1. k \in 1..Len(u) /\ i = Len(d) + Len(x) + k /\ i + 1 = Len(d2) + Len(x) + k
        BY <1>1, <1>3, <2>2
      <3> HIDE DEF k
      <3> QED BY <1>3, <1>4, <3>1
    <2> QED BY <1>1, <1>3, <2>1, <2>2
  <1>8. Len(line2) = Len(line) + 1 /\ Len(d) \in 0..Len(line) BY <1>1, <1>3, <1>4
  <1>9. InOrder(line, a, s) BY DEF line
  <1>10. InOrder(line2, a, s) BY <1>3, <1>4, <1>5, <1>6, <1>7, <1>8, <1>9, EventAdded
  <1> QED BY <1>10 DEF line2, d2

\* The page handles its next message.
LEMMA LineHandled ==
    ASSUME NEW d \in Seq(Msgs), NEW x \in Seq(Msgs), NEW u \in Seq(Msgs), d # <<>>,
           NEW a \in Nat, NEW s \in Nat, InOrder(d \o x \o u, a, s)
    PROVE  /\ IsEvent(Head(d)) => InOrder(Tail(d) \o x \o u, a, s)
           /\ ~IsEvent(Head(d)) => InOrder(Tail(d) \o x \o u, a + 1, s) /\ a + 1 <= s
  <1> DEFINE d2 == Tail(d)
  <1>1. /\ d2 \in Seq(Msgs) /\ Len(d) \in Nat \ {0} /\ Len(d2) = Len(d) - 1
        /\ Head(d) = d[1] /\ \A i \in 1..Len(d2) : d2[i] = d[i + 1]
    BY HeadTailProperties, EmptySeq, LenProperties
  <1>2. Len(u) \in Nat /\ Len(x) \in Nat OBVIOUS
  <1> DEFINE line  == d \o x \o u
             line2 == d2 \o x \o u
  <1>a. Parts(line, d, x, u) BY <1>1, <1>2, LineElements, Zenon
  <1>b. Parts(line2, d2, x, u) BY <1>1, <1>2, LineElements, Zenon
  <1> HIDE DEF d2
  <1> HIDE DEF line, line2
  <1>3. /\ line \in Seq(Msgs) /\ Len(line) = Len(d) + Len(x) + Len(u)
        /\ \A i \in 1..Len(d) : line[i] = d[i]
        /\ \A i \in 1..Len(x) : line[Len(d) + i] = x[i]
        /\ \A i \in 1..Len(u) : line[Len(d) + Len(x) + i] = u[i]
    BY <1>a, <1>2 DEF Parts
  <1>4. /\ line2 \in Seq(Msgs) /\ Len(line2) = Len(d2) + Len(x) + Len(u)
        /\ \A i \in 1..Len(d2) : line2[i] = d2[i]
        /\ \A i \in 1..Len(x) : line2[Len(d2) + i] = x[i]
        /\ \A i \in 1..Len(u) : line2[Len(d2) + Len(x) + i] = u[i]
    BY <1>b, <1>1, <1>2 DEF Parts
  <1>5. line[1] = Head(d) BY <1>1, <1>3
  <1>6. ASSUME NEW i \in 1..Len(line2) PROVE line2[i] = line[i + 1]
    <2>1. CASE i <= Len(d2)
      <3>1. i \in 1..Len(d2) /\ i + 1 \in 1..Len(d) BY <1>1, <2>1
      <3> QED BY <1>1, <1>3, <1>4, <3>1
    <2>2. CASE i > Len(d2) /\ i <= Len(d2) + Len(x)
      <3> DEFINE k == i - Len(d2)
      <3>1. k \in 1..Len(x) /\ i = Len(d2) + k /\ i + 1 = Len(d) + k BY <1>1, <1>2, <2>2
      <3> HIDE DEF k
      <3> QED BY <1>3, <1>4, <3>1
    <2>3. CASE i > Len(d2) + Len(x)
      <3> DEFINE k == i - (Len(d2) + Len(x))
      <3>1. k \in 1..Len(u) /\ i = Len(d2) + Len(x) + k /\ i + 1 = Len(d) + Len(x) + k
        BY <1>1, <1>2, <1>4, <2>3
      <3> HIDE DEF k
      <3> QED BY <1>3, <1>4, <3>1
    <2> QED BY <1>1, <1>2, <1>4, <2>1, <2>2, <2>3
  <1>7. Len(line) = Len(line2) + 1 BY <1>1, <1>2, <1>3, <1>4
  <1>8. InOrder(line, a, s) BY DEF line
  <1>9. /\ IsEvent(line[1]) => InOrder(line2, a, s)
        /\ ~IsEvent(line[1]) => InOrder(line2, a + 1, s) /\ a + 1 <= s
    BY <1>3, <1>4, <1>6, <1>7, <1>8, OldestTaken
  <1> QED BY <1>5, <1>9 DEF line2, d2

\* The page sends commands.
LEMMA LineSent ==
    ASSUME NEW d \in Seq(Msgs), NEW x \in Seq(Msgs), NEW u \in Seq(Msgs), NEW v \in Seq(Msgs),
           NEW a \in Nat, NEW s \in Nat, a <= s, InOrder(d \o x \o u, a, s),
           \A i \in 1..Len(v) : ~IsEvent(v[i]) /\ v[i].n = s + i
    PROVE  InOrder(d \o x \o (u \o v), a, s + Len(v))
  <1> DEFINE u2 == u \o v
  <1>1. /\ u2 \in Seq(Msgs) /\ Len(u2) = Len(u) + Len(v)
        /\ Len(d) \in Nat /\ Len(x) \in Nat /\ Len(u) \in Nat /\ Len(v) \in Nat
        /\ \A i \in 1..Len(u) : u2[i] = u[i]
        /\ \A i \in 1..Len(v) : u2[Len(u) + i] = v[i]
    OBVIOUS
  <1> DEFINE line  == d \o x \o u
             line2 == d \o x \o u2
  <1>a. Parts(line, d, x, u) BY <1>1, LineElements, Zenon
  <1>b. Parts(line2, d, x, u2) BY <1>1, LineElements, Zenon
  <1> HIDE DEF u2
  <1> HIDE DEF line, line2
  <1>3. /\ line \in Seq(Msgs) /\ Len(line) = Len(d) + Len(x) + Len(u)
        /\ \A i \in 1..Len(d) : line[i] = d[i]
        /\ \A i \in 1..Len(x) : line[Len(d) + i] = x[i]
        /\ \A i \in 1..Len(u) : line[Len(d) + Len(x) + i] = u[i]
    BY <1>a DEF Parts
  <1>4. /\ line2 \in Seq(Msgs) /\ Len(line2) = Len(d) + Len(x) + Len(u2)
        /\ \A i \in 1..Len(d) : line2[i] = d[i]
        /\ \A i \in 1..Len(x) : line2[Len(d) + i] = x[i]
        /\ \A i \in 1..Len(u2) : line2[Len(d) + Len(x) + i] = u2[i]
    BY <1>b DEF Parts
  <1>5. ASSUME NEW i \in 1..Len(line) PROVE line2[i] = line[i]
    <2>1. CASE i <= Len(d) BY <1>1, <1>3, <1>4, <2>1
    <2>2. CASE i > Len(d) /\ i <= Len(d) + Len(x)
      <3> DEFINE k == i - Len(d)
      <3>1. k \in 1..Len(x) /\ i = Len(d) + k BY <1>1, <2>2
      <3> HIDE DEF k
      <3> QED BY <1>3, <1>4, <3>1
    <2>3. CASE i > Len(d) + Len(x)
      <3> DEFINE k == i - (Len(d) + Len(x))
      <3>1. k \in 1..Len(u) /\ k \in 1..Len(u2) /\ i = Len(d) + Len(x) + k
        BY <1>1, <1>3, <2>3
      <3> HIDE DEF k
      <3> QED BY <1>1, <1>3, <1>4, <3>1
    <2> QED BY <1>1, <1>3, <2>1, <2>2, <2>3
  <1>6. ASSUME NEW i \in 1..Len(v)
        PROVE  ~IsEvent(line2[Len(line) + i]) /\ line2[Len(line) + i].n = s + i
    <2>1. Len(u) + i \in 1..Len(u2) /\ Len(line) + i = Len(d) + Len(x) + (Len(u) + i)
      BY <1>1, <1>3
    <2>2. line2[Len(line) + i] = v[i] BY <1>1, <1>4, <2>1
    <2> QED BY <2>2
  <1>7. Len(line2) = Len(line) + Len(v) BY <1>1, <1>3, <1>4
  <1>8. InOrder(line, a, s) BY DEF line
  <1>9. InOrder(line2, a, s + Len(v))
    BY <1>1, <1>3, <1>4, <1>5, <1>6, <1>7, <1>8, CommandsSent
  <1> QED BY <1>9 DEF line2, u2

-----------------------------------------------------------------------------
(* The invariant.                                                          *)

\* A page that is not there yet has nothing, and the command in execution is
\* that of an open page.
PagesInv ==
    /\ \A p \in Pages : page[p] = "none" =>
          /\ up[p] = <<>> /\ down[p] = <<>> /\ sent[p] = 0 /\ answered[p] = 0
          /\ callid[p] = Null /\ thrown[p] = {} /\ p \notin whole
          /\ \A c \in CallIds : ~Exists(p, c)
    /\ \A p \in Pages : answered[p] <= sent[p]
    /\ srv # Null => page[srv.page] = "open"

\* On a page that was sent every event, each session fits its call and the
\* events to come.
SessionsInv ==
    \A p \in whole : page[p] = "open" =>
        \A c \in CallIds : Tracks(call[c], down[p], Exists(p, c), c)

\* The unanswered commands of each open page are under way, in order.
LinesInv == \A p \in OpenPages : InOrder(InTransit(p), answered[p], sent[p])

\* The inductive invariant.
ProtocolInv ==
    /\ TypeOK /\ PagesInv /\ LinesInv
    /\ SessionsInv /\ CurrentHasSession /\ NoSessionOnlyLate

-----------------------------------------------------------------------------
(* Commands are sent.                                                      *)

\* The command in execution is one message at most.
LEMMA ExecutingType ==
    ASSUME TypeOK, NEW p \in Pages
    PROVE  Executing(p) \in Seq(Msgs)
  <1>1. CASE srv # Null /\ srv.page = p
    <2>1. srv.msg \in Msgs BY <1>1 DEF TypeOK, Executions, Msgs
    <2> QED BY <1>1, <2>1 DEF Executing
  <1>2. CASE ~(srv # Null /\ srv.page = p) BY <1>2 DEF Executing
  <1> QED BY <1>1, <1>2

\* The queues hold messages.
LEMMA QueueTypes ==
    ASSUME TypeOK, NEW p \in Pages
    PROVE  /\ down[p] \in Seq(DownMsgs) /\ down[p] \in Seq(Msgs)
           /\ up[p] \in Seq(CmdMsgs) /\ up[p] \in Seq(Msgs)
           /\ sent[p] \in Nat /\ answered[p] \in Nat
  <1>1. down[p] \in Seq(DownMsgs) /\ up[p] \in Seq(CmdMsgs) BY DEF TypeOK, DownMsgs
  <1>2. sent[p] \in Nat /\ answered[p] \in Nat BY DEF TypeOK
  <1>3. ASSUME NEW S, NEW T, S \subseteq T, NEW q \in Seq(S) PROVE q \in Seq(T)
    BY <1>3, SeqDef
  <1>4. DownMsgs \subseteq Msgs /\ CmdMsgs \subseteq Msgs BY DEF Msgs
  <1>5. down[p] \in Seq(Msgs) BY <1>1, <1>3, <1>4
  <1>6. up[p] \in Seq(Msgs) BY <1>1, <1>3, <1>4
  <1> QED BY <1>1, <1>2, <1>5, <1>6

Named == Cmds \X (CallIds \cup {Null})

\* What DoSend puts on a line.
NewCmds(list, s) ==
    [i \in 1..Len(list) |-> [cmd |-> list[i][1], callid |-> list[i][2], n |-> s + i]]

\* The commands of one function of the library, numbered on.
LEMMA NewCmdsFacts ==
    ASSUME NEW list \in Seq(Named), NEW s \in Nat
    PROVE  /\ NewCmds(list, s) \in Seq(CmdMsgs)
           /\ Len(NewCmds(list, s)) = Len(list)
           /\ \A i \in 1..Len(list) : NewCmds(list, s)[i].n = s + i
  <1> DEFINE v == NewCmds(list, s)
  <1>1. Len(list) \in Nat OBVIOUS
  <1>2. ASSUME NEW i \in 1..Len(list)
        PROVE  [cmd |-> list[i][1], callid |-> list[i][2], n |-> s + i] \in CmdMsgs
    <2>1. list[i] \in Named BY <1>1
    <2>2. list[i][1] \in Cmds /\ list[i][2] \in CallIds \cup {Null} BY <2>1 DEF Named
    <2>3. s + i \in Nat BY <1>1
    <2> QED BY <2>2, <2>3 DEF CmdMsgs
  <1>3. v \in [1..Len(list) -> CmdMsgs] BY <1>2 DEF NewCmds
  <1>4. v \in Seq(CmdMsgs) /\ Len(v) = Len(list) BY <1>1, <1>3, FunctionIsSeq
  <1>5. \A i \in 1..Len(list) : v[i].n = s + i BY DEF NewCmds
  <1> QED BY <1>4, <1>5

\* Sending leaves the line in order, and the other pages alone.
LEMMA DoSendFacts ==
    ASSUME TypeOK, NEW p \in Pages, NEW list \in Seq(Named), DoSend(p, list)
    PROVE  /\ up' \in [Pages -> Seq(CmdMsgs)] /\ sent' \in [Pages -> Nat]
           /\ \A q \in Pages \ {p} : up'[q] = up[q] /\ sent'[q] = sent[q]
           /\ sent'[p] >= sent[p]
           /\ \A d \in Seq(Msgs), x \in Seq(Msgs), a \in Nat :
                 a <= sent[p] /\ InOrder(d \o x \o up[p], a, sent[p])
                 => InOrder(d \o x \o up'[p], a, sent'[p])
  <1> DEFINE v == NewCmds(list, sent[p])
  <1>1. /\ up[p] \in Seq(CmdMsgs) /\ up[p] \in Seq(Msgs) /\ sent[p] \in Nat BY QueueTypes
  <1>2. v \in Seq(CmdMsgs) /\ Len(v) = Len(list) /\ Len(list) \in Nat
        /\ \A i \in 1..Len(v) : v[i].n = sent[p] + i
    BY <1>1, NewCmdsFacts
  <1>3. /\ up' = [up EXCEPT ![p] = @ \o v]
        /\ sent' = [sent EXCEPT ![p] = @ + Len(list)]
    BY DEF DoSend, NewCmds
  <1> HIDE DEF v
  <1>4. up'[p] = up[p] \o v /\ sent'[p] = sent[p] + Len(v) BY <1>2, <1>3 DEF TypeOK
  <1>5. up[p] \o v \in Seq(CmdMsgs) BY <1>1, <1>2
  <1>6. up' \in [Pages -> Seq(CmdMsgs)] BY <1>3, <1>5 DEF TypeOK
  <1>7. sent' \in [Pages -> Nat] BY <1>2, <1>3 DEF TypeOK
  <1>8. \A q \in Pages \ {p} : up'[q] = up[q] /\ sent'[q] = sent[q] BY <1>3 DEF TypeOK
  <1>9. ASSUME NEW d \in Seq(Msgs), NEW x \in Seq(Msgs), NEW a \in Nat,
               a <= sent[p], InOrder(d \o x \o up[p], a, sent[p])
        PROVE  InOrder(d \o x \o up'[p], a, sent'[p])
    <2>1. \A i \in 1..Len(v) : v[i] \in CmdMsgs BY <1>2
    <2>2. \A i \in 1..Len(v) : ~IsEvent(v[i]) /\ v[i].n = sent[p] + i
      BY <1>2, <2>1, MessageKinds
    <2>3. v \in Seq(Msgs) BY <1>2, <2>1, SeqDef DEF Msgs
    <2>4. InOrder(d \o x \o (up[p] \o v), a, sent[p] + Len(v))
      BY <1>1, <1>9, <2>2, <2>3, LineSent
    <2> QED BY <1>4, <2>4
  <1> QED BY <1>1, <1>2, <1>4, <1>6, <1>7, <1>8, <1>9

\* Whether a page has a session is a truth value.
LEMMA ExistsBoolean ==
    ASSUME NEW p, NEW c
    PROVE  Exists(p, c) \in BOOLEAN /\ Exists(p, c)' \in BOOLEAN
  BY DEF Exists

\* A function of the library: commands are sent, and sessions are neither
\* made nor removed.
LEMMA UserStep ==
    ASSUME ProtocolInv, NEW p \in Pages, NEW list \in Seq(Named),
           UserCalls(p), DoSend(p, list),
           SessionS' \in [Pages -> [CallIds -> Statuses]],
           consults' \in [Pages -> Nat],
           \A q \in Pages : \A c \in CallIds : SessionS'[q][c] # "none" <=> SessionS[q][c] # "none"
    PROVE  ProtocolInv'
  <1> USE DEF ProtocolInv
  <1>1. /\ page[p] = "open" /\ cmds < MaxCmds /\ cmds' = cmds + 1
        /\ UNCHANGED <<page, down, cause, callid, srv, g_Instance, sdkVars, peer,
                       answered, dials, whole, thrown, crashed>>
    BY DEF UserCalls
  <1>2. /\ up' \in [Pages -> Seq(CmdMsgs)] /\ sent' \in [Pages -> Nat]
        /\ \A q \in Pages \ {p} : up'[q] = up[q] /\ sent'[q] = sent[q]
        /\ sent'[p] >= sent[p]
    BY DoSendFacts
  <1>3. \A q \in Pages, c \in CallIds : Exists(q, c)' = Exists(q, c) BY DEF Exists
  <1>4. TypeOK'
    <2>1. cmds' \in 0..MaxCmds BY <1>1, ProtocolAssumption DEF TypeOK
    <2> QED BY <1>1, <1>2, <2>1 DEF TypeOK, sdkVars
  <1>5. PagesInv'
    <2>1. ASSUME NEW q \in Pages, page'[q] = "none"
          PROVE  /\ up'[q] = <<>> /\ down'[q] = <<>> /\ sent'[q] = 0 /\ answered'[q] = 0
                 /\ callid'[q] = Null /\ thrown'[q] = {} /\ q \notin whole'
                 /\ \A c \in CallIds : ~Exists(q, c)'
      <3>1. q # p /\ page[q] = "none" BY <1>1, <2>1
      <3> QED BY <1>1, <1>2, <1>3, <3>1 DEF PagesInv
    <2>2. ASSUME NEW q \in Pages PROVE answered'[q] <= sent'[q]
      <3>1. answered'[q] = answered[q] /\ answered[q] <= sent[q] BY <1>1 DEF PagesInv
      <3>2. answered[q] \in Nat /\ sent[q] \in Nat /\ sent'[q] \in Nat
        BY <1>2, QueueTypes
      <3>3. CASE q = p BY <1>2, <3>1, <3>2, <3>3
      <3>4. CASE q # p BY <1>2, <3>1, <3>2, <3>4
      <3> QED BY <3>3, <3>4
    <2>3. srv' # Null => page'[srv'.page] = "open" BY <1>1 DEF PagesInv
    <2> QED BY <2>1, <2>2, <2>3 DEF PagesInv
  <1>6. LinesInv'
    <2> SUFFICES ASSUME NEW q \in Pages, page'[q] = "open"
                 PROVE  InOrder(InTransit(q), answered[q], sent[q])'
      BY DEF LinesInv, OpenPages
    <2>1. InOrder(down[q] \o Executing(q) \o up[q], answered[q], sent[q])
      BY <1>1 DEF LinesInv, OpenPages, InTransit
    <2>2. down'[q] = down[q] /\ Executing(q)' = Executing(q) /\ answered'[q] = answered[q]
      BY <1>1 DEF Executing
    <2>3. InOrder(down[q] \o Executing(q) \o up'[q], answered[q], sent'[q])
      <3>1. CASE q = p
        <4>1. down[p] \in Seq(Msgs) /\ Executing(p) \in Seq(Msgs) /\ answered[p] \in Nat
          BY QueueTypes, ExecutingType
        <4>2. answered[p] <= sent[p] BY DEF PagesInv
        <4> QED BY <2>1, <3>1, <4>1, <4>2, DoSendFacts
      <3>2. CASE q # p
        <4>1. up'[q] = up[q] /\ sent'[q] = sent[q] BY <1>2, <3>2
        <4> QED BY <2>1, <4>1
      <3> QED BY <3>1, <3>2
    <2> QED BY <2>2, <2>3 DEF InTransit
  <1>7. SessionsInv'
    <2> SUFFICES ASSUME NEW q \in whole', page'[q] = "open", NEW c \in CallIds
                 PROVE  Tracks(call[c], down[q], Exists(q, c), c)'
      BY DEF SessionsInv
    <2>1. q \in whole /\ q \in Pages /\ page[q] = "open" BY <1>1 DEF TypeOK
    <2>2. Tracks(call[c], down[q], Exists(q, c), c) BY <2>1 DEF SessionsInv
    <2>3. call'[c] = call[c] /\ down'[q] = down[q] BY <1>1 DEF sdkVars
    <2>4. Exists(q, c)' = Exists(q, c) BY <1>3, <2>1
    <2> QED BY <2>2, <2>3, <2>4
  <1>8. CurrentHasSession'
    <2> SUFFICES ASSUME NEW q \in whole', callid'[q] # Null
                 PROVE  Exists(q, callid[q])'
      BY DEF CurrentHasSession
    <2>1. q \in whole /\ q \in Pages /\ callid'[q] = callid[q] /\ callid[q] \in CallIds
      BY <1>1 DEF TypeOK
    <2>2. Exists(q, callid[q]) BY <2>1 DEF CurrentHasSession
    <2> QED BY <2>1, <2>2 DEF Exists
  <1>9. NoSessionOnlyLate' BY <1>1 DEF NoSessionOnlyLate
  <1> QED BY <1>4, <1>5, <1>6, <1>7, <1>8, <1>9

\* The lists of commands that the library sends.
LEMMA ListTypes ==
    ASSUME NEW c \in CallIds \cup {Null}, NEW d \in CallIds \cup {Null},
           NEW name \in Cmds, NEW name2 \in Cmds
    PROVE  /\ <<<<name, c>>>> \in Seq(Named)
           /\ <<<<name, c>>, <<name2, d>>>> \in Seq(Named)
           /\ \A p : IfExists(p, name, c) \o IfExists(p, name2, d) \in Seq(Named)
  <1>1. <<name, c>> \in Named /\ <<name2, d>> \in Named BY DEF Named
  <1>2. <<<<name, c>>>> \in Seq(Named) /\ <<<<name2, d>>>> \in Seq(Named)
        /\ <<>> \in Seq(Named)
    BY <1>1
  <1>3. <<<<name, c>>, <<name2, d>>>> \in Seq(Named) BY <1>1
  <1>4. ASSUME NEW p
        PROVE IfExists(p, name, c) \o IfExists(p, name2, d) \in Seq(Named)
    <2>1. IfExists(p, name, c) \in Seq(Named) BY <1>2 DEF IfExists
    <2>2. IfExists(p, name2, d) \in Seq(Named) BY <1>2 DEF IfExists
    <2> QED BY <2>1, <2>2
  <1> QED BY <1>2, <1>3, <1>4

\* Mark gives a status to sessions that are there.
LEMMA MarkFacts ==
    ASSUME TypeOK, NEW p \in Pages, NEW a, NEW b, NEW status \in Statuses \ {"none"},
           Mark(p, a, b, status)
    PROVE  /\ SessionS' \in [Pages -> [CallIds -> Statuses]]
           /\ \A q \in Pages : \A c \in CallIds :
                 SessionS'[q][c] # "none" <=> SessionS[q][c] # "none"
  <1> DEFINE new == [c \in CallIds |-> IF c \in {a, b} /\ Exists(p, c)
                                       THEN status ELSE SessionS[p][c]]
  <1>1. SessionS \in [Pages -> [CallIds -> Statuses]] BY DEF TypeOK
  <1>2. SessionS' = [SessionS EXCEPT ![p] = new] BY <1>1 DEF Mark
  <1>3. ASSUME NEW c \in CallIds
        PROVE  new[c] \in Statuses /\ (new[c] # "none" <=> SessionS[p][c] # "none")
    <2>1. SessionS[p][c] \in Statuses BY <1>1
    <2>2. CASE c \in {a, b} /\ Exists(p, c) BY <2>2 DEF Exists
    <2>3. CASE ~(c \in {a, b} /\ Exists(p, c)) BY <2>1, <2>3
    <2> QED BY <2>2, <2>3
  <1>4. new \in [CallIds -> Statuses] BY <1>3
  <1> HIDE DEF new
  <1> QED BY <1>1, <1>2, <1>3, <1>4

\* The library's functions keep the invariant.
LEMMA LibraryFunctions ==
    ASSUME ProtocolInv, NEW p \in Pages
    PROVE  /\ "makeCall" \in UserCmds /\ MakeCall(p) => ProtocolInv'
           /\ \A name \in UserCmds \ CallCmds : Plain(p, name) => ProtocolInv'
           /\ \A c \in Known(p) :
                 /\ \A name \in (UserCmds \cap CallCmds) \ {"makeCall"} :
                       OnCall(p, name, c) => ProtocolInv'
                 /\ ConsultationCall(p, c) => ProtocolInv'
                 /\ \A d \in Known(p) \ {c} :
                       /\ ReconnectCall(p, c, d) => ProtocolInv'
                       /\ AlternateCall(p, c, d) => ProtocolInv'
                       /\ TransferMeeting(p, c, d) => ProtocolInv'
  <1> DEFINE Ids == CallIds \cup {Null}
  <1>1. TypeOK BY DEF ProtocolInv
  <1>2. SessionS \in [Pages -> [CallIds -> Statuses]] /\ consults \in [Pages -> Nat]
    BY <1>1 DEF TypeOK
  <1>3. UserCmds \subseteq Cmds BY ProtocolAssumption DEF Cmds
  <1>4. {"makeCall", "pauseCall", "resumeCall", "releaseCall", "transferMeeting"} \subseteq Cmds
    BY DEF Cmds, CallCmds
  <1>5. Known(p) \subseteq Ids /\ Null \in Ids BY DEF Known
  <1>6. ASSUME NEW name \in Cmds, NEW c \in Ids, UserCalls(p), DoSend(p, <<<<name, c>>>>),
               UNCHANGED <<SessionS, consults>>
        PROVE  ProtocolInv'
    BY <1>2, <1>6, ListTypes, UserStep
  <1>7. "makeCall" \in UserCmds /\ MakeCall(p) => ProtocolInv'
    BY <1>4, <1>5, <1>6 DEF MakeCall
  <1>8. \A name \in UserCmds \ CallCmds : Plain(p, name) => ProtocolInv'
    BY <1>3, <1>5, <1>6 DEF Plain
  <1>9. ASSUME NEW c \in Known(p), NEW name \in (UserCmds \cap CallCmds) \ {"makeCall"},
               OnCall(p, name, c)
        PROVE  ProtocolInv'
    BY <1>3, <1>5, <1>6, <1>9 DEF OnCall
  <1>10. ASSUME NEW c \in Known(p), ConsultationCall(p, c) PROVE ProtocolInv'
    <2>1. /\ Exists(p, c) /\ UserCalls(p) /\ DoSend(p, <<<<"pauseCall", c>>>>)
          /\ SessionS' = [SessionS EXCEPT ![p][c] = "CONSULTATIONING"]
          /\ consults' = [consults EXCEPT ![p] = @ + 1]
      BY <1>10 DEF ConsultationCall
    <2>2. c \in CallIds /\ SessionS[p][c] # "none" BY <1>5, <2>1 DEF Exists
    <2>3. SessionS' \in [Pages -> [CallIds -> Statuses]] BY <1>2, <2>1, <2>2 DEF Statuses
    <2>4. ASSUME NEW q \in Pages, NEW e \in CallIds
          PROVE  SessionS'[q][e] # "none" <=> SessionS[q][e] # "none"
      BY <1>2, <2>1, <2>2
    <2>5. consults' \in [Pages -> Nat] BY <1>2, <2>1
    <2>6. <<<<"pauseCall", c>>>> \in Seq(Named) BY <1>4, <2>2, ListTypes
    <2> QED BY <2>1, <2>3, <2>4, <2>5, <2>6, UserStep
  <1>11. ASSUME NEW c \in Known(p), NEW d \in Known(p) \ {c}
         PROVE  /\ ReconnectCall(p, c, d) => ProtocolInv'
                /\ AlternateCall(p, c, d) => ProtocolInv'
                /\ TransferMeeting(p, c, d) => ProtocolInv'
    <2>1. c \in Ids /\ d \in Ids BY <1>5
    <2>2. ASSUME NEW list \in Seq(Named), NEW a, NEW b, NEW status \in Statuses \ {"none"},
                 UserCalls(p), DoSend(p, list), Mark(p, a, b, status), UNCHANGED consults
          PROVE  ProtocolInv'
      BY <1>1, <1>2, <2>2, MarkFacts, UserStep
    <2>3. /\ "RECONNECTING" \in Statuses \ {"none"} /\ "ALTERNATEING" \in Statuses \ {"none"}
          /\ "CONFERENCEING" \in Statuses \ {"none"}
      BY DEF Statuses
    <2>4. ReconnectCall(p, c, d) => ProtocolInv'
      BY <1>4, <2>1, <2>2, <2>3, ListTypes DEF ReconnectCall
    <2>5. AlternateCall(p, c, d) => ProtocolInv'
      BY <1>4, <2>1, <2>2, <2>3, ListTypes DEF AlternateCall
    <2>6. TransferMeeting(p, c, d) => ProtocolInv'
      <3> DEFINE e == IF c # Null THEN c ELSE d
      <3>1. e \in Ids BY <2>1
      <3>2. <<<<"transferMeeting", e>>>> \in Seq(Named) BY <1>4, <3>1, ListTypes
      <3> QED BY <2>2, <2>3, <3>2 DEF TransferMeeting
    <2> QED BY <2>4, <2>5, <2>6
  <1> QED BY <1>7, <1>8, <1>9, <1>10, <1>11

-----------------------------------------------------------------------------
(* Connections.                                                            *)

\* A page without messages knows nothing, rightly, if there is no call.
LEMMA TracksNothing ==
    ASSUME NEW st \in CallStates \ Live, NEW c
    PROVE  Tracks(st, <<>>, FALSE, c)
  <1>1. \A i \in 1..Len(<<>>) : FALSE OBVIOUS
  <1>2. st \in {"free", "ended"} BY DEF CallStates, Live
  <1> QED BY <1>1, <1>2 DEF Tracks, NotYetTold, ToldOfEnd, ToldOfCall,
                            HoldsFindSession, ReleaseIsLast

\* A page opens.
LEMMA ConnectStep ==
    ASSUME ProtocolInv, NEW p \in Pages, Connect(p)
    PROVE  ProtocolInv'
  <1> USE DEF ProtocolInv
  <1>1. /\ srv = Null /\ page[p] = "none" /\ page' = [page EXCEPT ![p] = "open"]
        /\ g_Instance' = TRUE
        /\ whole' = IF \E c \in CallIds : call[c] \in Live THEN whole ELSE whole \cup {p}
        /\ UNCHANGED <<up, down, SessionS, cause, callid, srv, call, asked, cmds, peer,
                       sent, answered, consults, dials, thrown, crashed>>
    BY DEF Connect, pageVars, sdkVars
  <1>2. page'[p] = "open" /\ \A q \in Pages \ {p} : page'[q] = page[q]
    BY <1>1 DEF TypeOK
  <1>3. TypeOK' BY <1>1 DEF TypeOK
  <1>4. /\ up[p] = <<>> /\ down[p] = <<>> /\ sent[p] = 0 /\ answered[p] = 0
        /\ callid[p] = Null /\ thrown[p] = {} /\ p \notin whole
        /\ \A c \in CallIds : ~Exists(p, c)
    BY <1>1 DEF PagesInv
  <1>5. PagesInv'
    <2>1. \A q \in Pages : page'[q] = "none" => q # p /\ page[q] = "none" BY <1>2
    <2> QED BY <1>1, <2>1 DEF PagesInv, Exists
  <1>6. LinesInv'
    <2> SUFFICES ASSUME NEW q \in Pages, page'[q] = "open"
                 PROVE  InOrder(InTransit(q), answered[q], sent[q])'
      BY DEF LinesInv, OpenPages
    <2>1. InTransit(q)' = InTransit(q) BY <1>1 DEF InTransit, Executing
    <2>2. CASE q = p
      <3>1. InTransit(p) = <<>> \o <<>> \o <<>> BY <1>1, <1>4 DEF InTransit, Executing
      <3>2. <<>> \in Seq(Msgs) /\ Len(<<>>) = 0 OBVIOUS
      <3>3. Len(InTransit(p)) = 0 BY <3>1, <3>2, LineElements DEF Parts
      <3>4. InOrder(InTransit(p), 0, 0) BY <3>3 DEF InOrder
      <3> QED BY <1>1, <1>4, <2>1, <2>2, <3>4
    <2>3. CASE q # p
      <3>1. page[q] = "open" BY <1>2, <2>3
      <3> QED BY <1>1, <2>1, <3>1 DEF LinesInv, OpenPages
    <2> QED BY <2>2, <2>3
  <1>7. SessionsInv'
    <2> SUFFICES ASSUME NEW q \in whole', page'[q] = "open", NEW c \in CallIds
                 PROVE  Tracks(call[c], down[q], Exists(q, c), c)'
      BY DEF SessionsInv
    <2>1. Exists(q, c)' = Exists(q, c) /\ call'[c] = call[c] /\ down'[q] = down[q]
      BY <1>1 DEF Exists
    <2>2. q \in Pages BY <1>3 DEF TypeOK
    <2>3. CASE q = p
      <3>1. call[c] \in CallStates \ Live BY <1>1, <1>4, <2>3 DEF TypeOK
      <3>2. Tracks(call[c], <<>>, FALSE, c) BY <3>1, TracksNothing
      <3>3. Exists(q, c) = FALSE BY <1>4, <2>3, ExistsBoolean
      <3> QED BY <1>4, <2>1, <2>3, <3>2, <3>3
    <2>4. CASE q # p
      <3>1. page[q] = "open" /\ q \in whole BY <1>1, <1>2, <2>2, <2>4
      <3> QED BY <2>1, <3>1 DEF SessionsInv
    <2> QED BY <2>3, <2>4
  <1>8. CurrentHasSession' /\ NoSessionOnlyLate'
    BY <1>1, <1>4 DEF CurrentHasSession, NoSessionOnlyLate, Exists
  <1> QED BY <1>3, <1>5, <1>6, <1>7, <1>8

\* A page is left; what is under way is lost.
LEMMA CloseStep ==
    ASSUME ProtocolInv, NEW p \in Pages, Close(p)
    PROVE  ProtocolInv'
  <1> USE DEF ProtocolInv
  <1>1. /\ srv = Null /\ page[p] = "open" /\ page' = [page EXCEPT ![p] = "closed"]
        /\ up' = [up EXCEPT ![p] = <<>>] /\ down' = [down EXCEPT ![p] = <<>>]
        /\ g_Instance' = FALSE
        /\ UNCHANGED <<SessionS, cause, callid, srv, call, asked, cmds, peer,
                       sent, answered, consults, dials, whole, thrown, crashed>>
    BY DEF Close, pageVars, sdkVars, histVars
  <1>2. /\ page'[p] = "closed"
        /\ \A q \in Pages \ {p} : /\ page'[q] = page[q]
                                   /\ up'[q] = up[q] /\ down'[q] = down[q]
    BY <1>1 DEF TypeOK
  <1>3. TypeOK'
    <2>1. <<>> \in Seq(CmdMsgs) /\ <<>> \in Seq(ReplyMsgs \cup EventMsgs) OBVIOUS
    <2>2. up' \in [Pages -> Seq(CmdMsgs)] BY <1>1, <2>1 DEF TypeOK
    <2>3. down' \in [Pages -> Seq(ReplyMsgs \cup EventMsgs)] BY <1>1, <2>1 DEF TypeOK
    <2>4. page' \in [Pages -> {"none", "open", "closed"}] BY <1>1 DEF TypeOK
    <2> QED BY <1>1, <2>2, <2>3, <2>4 DEF TypeOK
  <1>4. \A q \in Pages : page'[q] # "closed" => q # p BY <1>2
  <1>5. PagesInv'
    <2>1. \A q \in Pages : page'[q] = "none" => q # p /\ page[q] = "none" BY <1>2
    <2> QED BY <1>1, <1>2, <2>1 DEF PagesInv, Exists
  <1>6. LinesInv'
    <2> SUFFICES ASSUME NEW q \in Pages, page'[q] = "open"
                 PROVE  InOrder(InTransit(q), answered[q], sent[q])'
      BY DEF LinesInv, OpenPages
    <2>1. q # p /\ page[q] = "open" BY <1>2
    <2>2. InTransit(q)' = InTransit(q) BY <1>1, <1>2, <2>1 DEF InTransit, Executing
    <2> QED BY <1>1, <2>1, <2>2 DEF LinesInv, OpenPages
  <1>7. SessionsInv'
    <2> SUFFICES ASSUME NEW q \in whole', page'[q] = "open", NEW c \in CallIds
                 PROVE  Tracks(call[c], down[q], Exists(q, c), c)'
      BY DEF SessionsInv
    <2>1. q \in Pages /\ q \in whole BY <1>1 DEF TypeOK
    <2>2. q # p /\ page[q] = "open" BY <1>2, <2>1
    <2>3. Exists(q, c)' = Exists(q, c) /\ call'[c] = call[c] /\ down'[q] = down[q]
      BY <1>1, <1>2, <2>1, <2>2 DEF Exists
    <2> QED BY <2>1, <2>2, <2>3 DEF SessionsInv
  <1>8. CurrentHasSession' /\ NoSessionOnlyLate'
    BY <1>1 DEF CurrentHasSession, NoSessionOnlyLate, Exists
  <1> QED BY <1>3, <1>5, <1>6, <1>7, <1>8

-----------------------------------------------------------------------------
(* The service thread.                                                     *)

ReplyTo(m) == [cmdresult |-> m.cmd, param |-> m.cmd \in AnsweredWithParam, n |-> m.n]

\* A result is one.
LEMMA ReplyToType ==
    ASSUME NEW m \in CmdMsgs
    PROVE  ReplyTo(m) \in ReplyMsgs /\ ReplyTo(m).n = m.n
  <1>1. m.cmd \in Cmds /\ m.n \in Nat BY DEF CmdMsgs
  <1>2. (m.cmd \in AnsweredWithParam) \in BOOLEAN OBVIOUS
  <1> QED BY <1>1, <1>2 DEF ReplyTo, ReplyMsgs

\* Sending a result changes no view of a call, and the line only in that the
\* result stands for the command.
LEMMA ReplyFacts ==
    ASSUME TypeOK, SessionsInv, NEW p \in Pages, NEW m \in CmdMsgs, Reply(p, m)
    PROVE  /\ down' \in [Pages -> Seq(ReplyMsgs \cup EventMsgs)]
           /\ \A q \in Pages \ {p} : down'[q] = down[q]
           /\ \A q \in whole : page[q] = "open" =>
                 \A c \in CallIds : Tracks(call[c], down'[q], Exists(q, c), c)
           /\ \A u \in Seq(Msgs), a \in Nat, s \in Nat :
                 InOrder(down[p] \o <<m>> \o u, a, s) =>
                 InOrder(down'[p] \o <<>> \o u, a, s)
  <1> DEFINE r == ReplyTo(m)
  <1>1. r \in ReplyMsgs /\ r.n = m.n BY ReplyToType
  <1>2. ~IsEvent(r) /\ ~IsEvent(m) /\ r \in DownMsgs /\ r \in Msgs /\ m \in Msgs
    BY <1>1, MessageKinds DEF DownMsgs, Msgs
  <1>3. down' = [down EXCEPT ![p] = Append(@, r)] BY DEF Reply, ReplyTo
  <1> HIDE DEF r
  <1>4. /\ down'[p] = Append(down[p], r)
        /\ \A q \in Pages \ {p} : down'[q] = down[q]
    BY <1>3 DEF TypeOK
  <1>5. down[p] \in Seq(DownMsgs) /\ down[p] \in Seq(Msgs) BY QueueTypes
  <1>6. down' \in [Pages -> Seq(ReplyMsgs \cup EventMsgs)]
    <2>1. Append(down[p], r) \in Seq(DownMsgs) BY <1>2, <1>5
    <2> QED BY <1>3, <2>1 DEF TypeOK, DownMsgs
  <1>7. ASSUME NEW q \in whole, page[q] = "open", NEW c \in CallIds
        PROVE  Tracks(call[c], down'[q], Exists(q, c), c)
    <2>1. q \in Pages /\ Tracks(call[c], down[q], Exists(q, c), c)
      BY <1>7 DEF TypeOK, SessionsInv
    <2>2. CASE q = p
      <3>1. ~About(r, c) BY <1>2 DEF About
      <3>2. ASSUME NEW ex \in BOOLEAN, Tracks(call[c], down[p], ex, c)
            PROVE  Tracks(call[c], down'[p], ex, c)
        BY <1>2, <1>4, <1>5, <3>1, <3>2, TracksAppendOther
      <3> QED BY <2>1, <2>2, <3>2, ExistsBoolean, Zenon
    <2>3. CASE q # p BY <1>4, <2>1, <2>3
    <2> QED BY <2>2, <2>3
  <1>8. ASSUME NEW u \in Seq(Msgs), NEW a \in Nat, NEW s \in Nat,
               InOrder(down[p] \o <<m>> \o u, a, s)
        PROVE  InOrder(down'[p] \o <<>> \o u, a, s)
    <2>1. InOrder(Append(down[p], r) \o <<>> \o u, a, s)
      BY <1>1, <1>2, <1>5, <1>8, LineAnswered
    <2> QED BY <1>4, <2>1
  <1> QED BY <1>4, <1>6, <1>7, <1>8

\* What a step of the server or of the SDK has to keep; the pages' own state
\* it leaves alone.
LEMMA ServerFrame ==
    ASSUME ProtocolInv, TypeOK',
           UNCHANGED <<page, SessionS, callid, sent, answered, thrown>>,
           whole' \subseteq whole,
           srv' # Null => page[srv'.page] = "open",
           \A q \in Pages : page[q] = "none" => up'[q] = up[q] /\ down'[q] = down[q],
           \A q \in Pages : page[q] = "open" => InOrder(InTransit(q)', answered[q], sent[q]),
           \A q \in whole' : page[q] = "open" =>
               \A c \in CallIds : Tracks(call'[c], down'[q], Exists(q, c), c)
    PROVE  ProtocolInv'
  <1> USE DEF ProtocolInv
  <1>1. \A q, c : Exists(q, c)' = Exists(q, c) BY DEF Exists
  <1>2. PagesInv' BY <1>1 DEF PagesInv
  <1>3. LinesInv' BY DEF LinesInv, OpenPages
  <1>4. SessionsInv'
    <2> SUFFICES ASSUME NEW q \in whole', page'[q] = "open", NEW c \in CallIds
                 PROVE  Tracks(call[c], down[q], Exists(q, c), c)'
      BY DEF SessionsInv
    <2>1. Tracks(call'[c], down'[q], Exists(q, c), c) OBVIOUS
    <2>2. Exists(q, c)' = Exists(q, c) BY <1>1
    <2> QED BY <2>1, <2>2
  <1>5. CurrentHasSession' BY DEF CurrentHasSession, Exists
  <1>6. NoSessionOnlyLate' BY DEF NoSessionOnlyLate
  <1> QED BY <1>2, <1>3, <1>4, <1>5, <1>6

\* The thread takes the oldest command of a page.
LEMMA TakesFacts ==
    ASSUME ProtocolInv, NEW p \in Pages, Takes(p), up' = [up EXCEPT ![p] = Tail(@)]
    PROVE  /\ Head(up[p]) \in CmdMsgs /\ up' \in [Pages -> Seq(CmdMsgs)]
           /\ up'[p] \in Seq(Msgs)
           /\ \A q \in Pages \ {p} : up'[q] = up[q]
           /\ \A q \in Pages : Executing(q) = <<>>
           /\ InOrder(down[p] \o <<Head(up[p])>> \o up'[p], answered[p], sent[p])
  <1> USE DEF ProtocolInv
  <1>1. srv = Null /\ page[p] = "open" /\ up[p] # <<>> BY DEF Takes
  <1>2. up[p] \in Seq(CmdMsgs) /\ up[p] \in Seq(Msgs) /\ down[p] \in Seq(Msgs)
        /\ sent[p] \in Nat /\ answered[p] \in Nat
    BY QueueTypes
  <1>3. Head(up[p]) \in CmdMsgs /\ Tail(up[p]) \in Seq(CmdMsgs) /\ Tail(up[p]) \in Seq(Msgs)
    BY <1>1, <1>2, HeadTailProperties
  <1>4. up'[p] = Tail(up[p]) /\ \A q \in Pages \ {p} : up'[q] = up[q] BY DEF TypeOK
  <1>5. up' \in [Pages -> Seq(CmdMsgs)] BY <1>3 DEF TypeOK
  <1>6. \A q \in Pages : Executing(q) = <<>> BY <1>1 DEF Executing
  <1>7. InOrder(down[p] \o <<>> \o up[p], answered[p], sent[p])
    BY <1>1, <1>6 DEF LinesInv, OpenPages, InTransit
  <1>8. InOrder(down[p] \o <<Head(up[p])>> \o Tail(up[p]), answered[p], sent[p])
    BY <1>1, <1>2, <1>7, LineTaken
  <1> QED BY <1>3, <1>4, <1>5, <1>6, <1>8

\* A command that is executed in one step.
LEMMA OnMessageStep ==
    ASSUME ProtocolInv, NEW p \in Pages, OnMessage(p)
    PROVE  ProtocolInv'
  <1> USE DEF ProtocolInv
  <1> DEFINE m == Head(up[p])
  <1>1. /\ Takes(p) /\ Request(m) /\ Reply(p, m) /\ up' = [up EXCEPT ![p] = Tail(@)]
        /\ UNCHANGED <<page, SessionS, cause, callid, srv, g_Instance, call, cmds, peer,
                       sent, answered, consults, dials, whole, thrown, crashed>>
    BY DEF OnMessage, pageVars, histVars
  <1>2. /\ m \in CmdMsgs /\ up' \in [Pages -> Seq(CmdMsgs)] /\ up'[p] \in Seq(Msgs)
        /\ \A q \in Pages \ {p} : up'[q] = up[q]
        /\ \A q \in Pages : Executing(q) = <<>>
        /\ InOrder(down[p] \o <<m>> \o up'[p], answered[p], sent[p])
    BY <1>1, TakesFacts
  <1> HIDE DEF m
  <1>3. /\ down' \in [Pages -> Seq(ReplyMsgs \cup EventMsgs)]
        /\ \A q \in Pages \ {p} : down'[q] = down[q]
        /\ \A q \in whole : page[q] = "open" =>
              \A c \in CallIds : Tracks(call[c], down'[q], Exists(q, c), c)
        /\ \A u \in Seq(Msgs), a \in Nat, s \in Nat :
              InOrder(down[p] \o <<m>> \o u, a, s) => InOrder(down'[p] \o <<>> \o u, a, s)
    BY <1>1, <1>2, ReplyFacts
  <1>4. page[p] = "open" /\ srv = Null BY <1>1 DEF Takes
  <1>5. asked' \subseteq {"acceptCall", "pauseCall", "resumeCall"} \X CallIds
    <2>1. CASE UNCHANGED asked BY <2>1 DEF TypeOK
    <2>2. CASE \E r \in Requests : /\ m.cmd = r.cmd /\ m.callid \in CallIds
                                   /\ asked' = asked \cup {<<m.cmd, m.callid>>}
      <3>1. PICK r \in Requests : /\ m.cmd = r.cmd /\ m.callid \in CallIds
                                  /\ asked' = asked \cup {<<m.cmd, m.callid>>}
        BY <2>2
      <3>2. r.cmd \in {"acceptCall", "pauseCall", "resumeCall"} BY DEF Requests
      <3> QED BY <3>1, <3>2 DEF TypeOK
    <2> QED BY <1>1, <2>1, <2>2 DEF Request
  <1>6. TypeOK' BY <1>1, <1>2, <1>3, <1>5 DEF TypeOK
  <1>7. ASSUME NEW q \in Pages, page[q] = "open"
        PROVE  InOrder(InTransit(q)', answered[q], sent[q])
    <2>1. Executing(q)' = <<>> BY <1>1, <1>4 DEF Executing
    <2>2. InTransit(q)' = down'[q] \o <<>> \o up'[q] BY <2>1 DEF InTransit
    <2>3. CASE q = p
      <3>1. answered[p] \in Nat /\ sent[p] \in Nat BY QueueTypes
      <3> QED BY <1>2, <1>3, <2>2, <2>3, <3>1
    <2>4. CASE q # p
      <3>1. InOrder(down[q] \o <<>> \o up[q], answered[q], sent[q])
        BY <1>2, <1>7 DEF LinesInv, OpenPages, InTransit
      <3> QED BY <1>2, <1>3, <2>2, <2>4, <3>1
    <2> QED BY <2>3, <2>4
  <1>8. \A q \in Pages : page[q] = "none" => up'[q] = up[q] /\ down'[q] = down[q]
    BY <1>2, <1>3, <1>4
  <1> QED BY <1>1, <1>3, <1>4, <1>6, <1>7, <1>8, ServerFrame

\* A call that the SDK has not told of may be dialled.
LEMMA TracksDialled ==
    ASSUME NEW d, NEW ex, NEW c, Tracks("free", d, ex, c)
    PROVE  Tracks("calling", d, ex, c)
  BY DEF Tracks, NotYetTold, ToldOfEnd, ToldOfCall

\* makeCall and getCurrentCall: the command is in execution.
LEMMA OnMakeCallStep ==
    ASSUME ProtocolInv, NEW p \in Pages, OnMakeCall(p)
    PROVE  ProtocolInv'
  <1> USE DEF ProtocolInv
  <1> DEFINE m == Head(up[p])
  <1>1. /\ Takes(p) /\ up' = [up EXCEPT ![p] = Tail(@)]
        /\ srv' = [page |-> p, at |-> "check", msg |-> m]
        /\ \/ \E c \in CallIds : /\ call[c] = "free"
                                  /\ call' = [call EXCEPT ![c] = "calling"]
           \/ UNCHANGED call
        /\ UNCHANGED <<page, down, SessionS, cause, callid, g_Instance, asked, cmds, peer,
                       sent, answered, consults, dials, whole, thrown, crashed>>
    BY DEF OnMakeCall, pageVars, histVars
  <1>2. /\ m \in CmdMsgs /\ up' \in [Pages -> Seq(CmdMsgs)] /\ up'[p] \in Seq(Msgs)
        /\ \A q \in Pages \ {p} : up'[q] = up[q]
        /\ \A q \in Pages : Executing(q) = <<>>
        /\ InOrder(down[p] \o <<m>> \o up'[p], answered[p], sent[p])
    BY <1>1, TakesFacts
  <1> HIDE DEF m
  <1>3. page[p] = "open" BY <1>1 DEF Takes
  <1>4. \A c \in CallIds : call'[c] = call[c] \/ (call[c] = "free" /\ call'[c] = "calling")
    BY <1>1 DEF TypeOK
  <1>5. call' \in [CallIds -> CallStates] BY <1>1 DEF TypeOK, CallStates
  <1>6. srv' \in Executions /\ srv' # Null BY <1>1, <1>2, NullAssumption DEF Executions
  <1>7. TypeOK' BY <1>1, <1>2, <1>5, <1>6 DEF TypeOK
  <1>8. ASSUME NEW q \in Pages, page[q] = "open"
        PROVE  InOrder(InTransit(q)', answered[q], sent[q])
    <2>1. CASE q = p
      <3>1. Executing(p)' = <<m>> BY <1>1, <1>6 DEF Executing
      <3> QED BY <1>1, <1>2, <2>1, <3>1 DEF InTransit
    <2>2. CASE q # p
      <3>1. Executing(q)' = <<>> BY <1>1, <2>2 DEF Executing
      <3>2. InTransit(q)' = InTransit(q) BY <1>1, <1>2, <2>2, <3>1 DEF InTransit
      <3> QED BY <1>8, <3>2 DEF LinesInv, OpenPages
    <2> QED BY <2>1, <2>2
  <1>9. ASSUME NEW q \in whole, page[q] = "open", NEW c \in CallIds
        PROVE  Tracks(call'[c], down'[q], Exists(q, c), c)
    <2>1. Tracks(call[c], down[q], Exists(q, c), c) BY <1>9 DEF SessionsInv
    <2> QED BY <1>1, <1>4, <2>1, TracksDialled
  <1>10. \A q \in Pages : page[q] = "none" => up'[q] = up[q] /\ down'[q] = down[q]
    BY <1>1, <1>2, <1>3
  <1>11. srv'.page = p BY <1>1
  <1> QED BY <1>1, <1>3, <1>7, <1>8, <1>9, <1>10, <1>11, ServerFrame

\* The result of the command in execution is sent.
LEMMA FinishStep ==
    ASSUME ProtocolInv, srv # Null, srv' = Null, Reply(srv.page, srv.msg), crashed' = crashed,
           UNCHANGED <<page, up, pageVars, g_Instance, sdkVars, cmds, peer, histVars>>
    PROVE  ProtocolInv'
  <1> USE DEF ProtocolInv
  <1>1. PICK p \in Pages, m \in CmdMsgs : srv.page = p /\ srv.msg = m
    BY DEF TypeOK, Executions
  <1>2. UNCHANGED <<page, up, SessionS, cause, callid, g_Instance, call, asked, cmds, peer,
                    sent, answered, consults, dials, whole, thrown, crashed>>
    BY DEF pageVars, sdkVars, histVars
  <1>3. /\ down' \in [Pages -> Seq(ReplyMsgs \cup EventMsgs)]
        /\ \A q \in Pages \ {p} : down'[q] = down[q]
        /\ \A q \in whole : page[q] = "open" =>
              \A c \in CallIds : Tracks(call[c], down'[q], Exists(q, c), c)
        /\ \A u \in Seq(Msgs), a \in Nat, s \in Nat :
              InOrder(down[p] \o <<m>> \o u, a, s) => InOrder(down'[p] \o <<>> \o u, a, s)
    BY <1>1, ReplyFacts
  <1>4. page[p] = "open" BY <1>1 DEF PagesInv
  <1>5. TypeOK' BY <1>2, <1>3 DEF TypeOK
  <1>6. ASSUME NEW q \in Pages, page[q] = "open"
        PROVE  InOrder(InTransit(q)', answered[q], sent[q])
    <2>1. Executing(q)' = <<>> BY DEF Executing
    <2>2. InTransit(q)' = down'[q] \o <<>> \o up[q] BY <1>2, <2>1 DEF InTransit
    <2>3. InOrder(down[q] \o Executing(q) \o up[q], answered[q], sent[q])
      BY <1>6 DEF LinesInv, OpenPages, InTransit
    <2>4. CASE q = p
      <3>1. answered[p] \in Nat /\ sent[p] \in Nat /\ up[p] \in Seq(Msgs) BY QueueTypes
      <3>2. Executing(p) = <<m>> BY <1>1 DEF Executing
      <3> QED BY <1>3, <2>2, <2>3, <2>4, <3>1, <3>2
    <2>5. CASE q # p
      <3>1. Executing(q) = <<>> BY <1>1, <2>5 DEF Executing
      <3> QED BY <1>3, <2>2, <2>3, <2>5, <3>1
    <2> QED BY <2>4, <2>5
  <1>7. \A q \in Pages : page[q] = "none" => up'[q] = up[q] /\ down'[q] = down[q]
    BY <1>2, <1>3, <1>4
  <1> QED BY <1>2, <1>3, <1>5, <1>6, <1>7, ServerFrame

\* Nothing on the connections moves: the process crashes, or the result of
\* the first getCurrentCall is known.
LEMMA StillStep ==
    ASSUME ProtocolInv, srv # Null, srv' = srv \/ srv' = [srv EXCEPT !.at = "use"],
           crashed' \in BOOLEAN,
           UNCHANGED <<page, up, down, pageVars, g_Instance, sdkVars, cmds, peer, histVars>>
    PROVE  ProtocolInv'
  <1> USE DEF ProtocolInv
  <1>1. UNCHANGED <<page, up, down, SessionS, cause, callid, g_Instance, call, asked, cmds,
                    peer, sent, answered, consults, dials, whole, thrown>>
    BY DEF pageVars, sdkVars, histVars
  <1>2. srv' \in Executions /\ srv' # Null /\ srv'.page = srv.page /\ srv'.msg = srv.msg
    <2>1. srv \in Executions BY DEF TypeOK
    <2>2. CASE srv' = srv BY <2>1, <2>2
    <2>3. CASE srv' = [srv EXCEPT !.at = "use"]
      <3>1. srv' \in Executions /\ srv'.page = srv.page /\ srv'.msg = srv.msg
        BY <2>1, <2>3 DEF Executions
      <3> QED BY <3>1, NullAssumption
    <2> QED BY <2>2, <2>3
  <1>3. TypeOK' BY <1>1, <1>2 DEF TypeOK
  <1>4. \A q : Executing(q)' = Executing(q) BY <1>2 DEF Executing
  <1>5. \A q \in Pages : page[q] = "open" => InOrder(InTransit(q)', answered[q], sent[q])
    BY <1>1, <1>4 DEF LinesInv, OpenPages, InTransit
  <1>6. \A q \in whole' : page[q] = "open" =>
           \A c \in CallIds : Tracks(call'[c], down'[q], Exists(q, c), c)
    BY <1>1 DEF SessionsInv
  <1>7. srv' # Null => page[srv'.page] = "open" BY <1>2 DEF PagesInv
  <1> QED BY <1>1, <1>3, <1>5, <1>6, <1>7, ServerFrame

\* The service thread keeps the invariant.
LEMMA ServerStep ==
    ASSUME ProtocolInv, Server
    PROVE  ProtocolInv'
  <1>1. ASSUME NEW p \in Pages, OnMessage(p) PROVE ProtocolInv' BY <1>1, OnMessageStep
  <1>2. ASSUME NEW p \in Pages, OnMakeCall(p) PROVE ProtocolInv' BY <1>2, OnMakeCallStep
  <1>3. CASE CheckCurrentCall
    <2>1. srv # Null /\ UNCHANGED <<page, up, pageVars, g_Instance, sdkVars, cmds, peer,
                                    histVars, crashed>>
      BY <1>3 DEF CheckCurrentCall
    <2>2. crashed' \in BOOLEAN BY <2>1 DEF ProtocolInv, TypeOK
    <2>3. CASE srv' = [srv EXCEPT !.at = "use"] /\ UNCHANGED down
      BY <2>1, <2>2, <2>3, StillStep
    <2>4. CASE srv' = Null /\ Reply(srv.page, srv.msg) BY <2>1, <2>4, FinishStep
    <2> QED BY <1>3, <2>3, <2>4 DEF CheckCurrentCall
  <1>4. CASE UseCurrentCall
    <2>1. srv # Null /\ UNCHANGED <<page, up, pageVars, g_Instance, sdkVars, cmds, peer,
                                    histVars>>
      BY <1>4 DEF UseCurrentCall
    <2>2. CASE crashed' = TRUE /\ UNCHANGED <<srv, down>> BY <2>1, <2>2, StillStep
    <2>3. CASE srv' = Null /\ Reply(srv.page, srv.msg) /\ UNCHANGED crashed
      BY <2>1, <2>3, FinishStep
    <2> QED BY <1>4, <2>2, <2>3 DEF UseCurrentCall
  <1> QED BY <1>1, <1>2, <1>3, <1>4 DEF Server

-----------------------------------------------------------------------------
(* The SDK.                                                                *)

EventOf(e, c, ok) == [event |-> e, callid |-> c, ok |-> ok]

\* An event is about its call.
LEMMA EventOfFacts ==
    ASSUME NEW e \in Events, NEW c \in CallIds, NEW ok \in BOOLEAN
    PROVE  /\ EventOf(e, c, ok) \in EventMsgs
           /\ IsEvent(EventOf(e, c, ok))
           /\ \A d : About(EventOf(e, c, ok), d) => d = c
           /\ \A E : e \in E => Is(EventOf(e, c, ok), c, E)
  <1>1. EventOf(e, c, ok) \in EventMsgs BY DEF EventOf, EventMsgs
  <1>2. IsEvent(EventOf(e, c, ok)) BY <1>1, MessageKinds
  <1>3. EventOf(e, c, ok).event = e /\ EventOf(e, c, ok).callid = c BY DEF EventOf
  <1> QED BY <1>1, <1>2, <1>3 DEF About, Is

\* A callback of the SDK, with what it says of a call.
LEMMA BroadcastStep ==
    ASSUME ProtocolInv, NEW e \in Events, NEW c \in CallIds, NEW ok \in BOOLEAN,
           NEW st \in CallStates, SdkStep, Broadcast(e, c, ok),
           call' = [call EXCEPT ![c] = st],
           Sends(call[c], EventOf(e, c, ok), st, c),
           asked' \subseteq {"acceptCall", "pauseCall", "resumeCall"} \X CallIds,
           peer' \in 0..MaxPeer
    PROVE  ProtocolInv'
  <1> USE DEF ProtocolInv
  <1> DEFINE m == EventOf(e, c, ok)
  <1>1. UNCHANGED <<page, up, SessionS, cause, callid, srv, g_Instance, cmds, sent,
                    answered, consults, dials, thrown, crashed>>
    BY DEF SdkStep, pageVars
  <1>2. /\ m \in DownMsgs /\ m \in Msgs /\ IsEvent(m) /\ \A d : About(m, d) => d = c
    BY EventOfFacts DEF DownMsgs, Msgs
  <1>3. /\ call' \in [CallIds -> CallStates] /\ call'[c] = st
        /\ \A d \in CallIds \ {c} : call'[d] = call[d]
    BY DEF TypeOK
  <1>4. \A q \in Pages : Executing(q)' = Executing(q) BY <1>1 DEF Executing
  <1>5. CASE g_Instance
    <2>1. /\ down' = [p \in Pages |-> IF p \in OpenPages THEN Append(down[p], m)
                                                         ELSE down[p]]
          /\ UNCHANGED whole
      BY <1>5 DEF Broadcast, EventOf
    <2> HIDE DEF m
    <2>2. \A q \in Pages : /\ page[q] = "open" => down'[q] = Append(down[q], m)
                           /\ page[q] # "open" => down'[q] = down[q]
      BY <2>1 DEF OpenPages
    <2>3. down' \in [Pages -> Seq(ReplyMsgs \cup EventMsgs)]
      <3>1. ASSUME NEW q \in Pages PROVE down'[q] \in Seq(DownMsgs)
        <4>1. down[q] \in Seq(DownMsgs) BY QueueTypes
        <4> QED BY <1>2, <2>2, <4>1
      <3> QED BY <2>1, <3>1 DEF DownMsgs
    <2>4. TypeOK' BY <1>1, <1>3, <2>1, <2>3 DEF TypeOK
    <2>5. ASSUME NEW q \in Pages, page[q] = "open"
          PROVE  InOrder(InTransit(q)', answered[q], sent[q])
      <3>1. down[q] \in Seq(Msgs) /\ up[q] \in Seq(Msgs) /\ Executing(q) \in Seq(Msgs)
            /\ answered[q] \in Nat /\ sent[q] \in Nat
        BY QueueTypes, ExecutingType
      <3>2. InOrder(down[q] \o Executing(q) \o up[q], answered[q], sent[q])
        BY <2>5 DEF LinesInv, OpenPages, InTransit
      <3>3. InOrder(Append(down[q], m) \o Executing(q) \o up[q], answered[q], sent[q])
        BY <1>2, <3>1, <3>2, LineEvent
      <3> QED BY <1>1, <1>4, <2>2, <2>5, <3>3 DEF InTransit
    <2>6. ASSUME NEW q \in whole, page[q] = "open", NEW d \in CallIds
          PROVE  Tracks(call'[d], down'[q], Exists(q, d), d)
      <3>1. Tracks(call[d], down[q], Exists(q, d), d) BY <2>6 DEF SessionsInv
      <3>2. q \in Pages BY DEF TypeOK
      <3>3. down[q] \in Seq(DownMsgs) /\ down'[q] = Append(down[q], m)
        BY <2>2, <2>6, <3>2, QueueTypes
      <3>4. ASSUME NEW ex \in BOOLEAN, Tracks(call[d], down[q], ex, d)
            PROVE  Tracks(call'[d], down'[q], ex, d)
        <4>1. CASE d = c
          <5>1. Sends(call[c], m, st, c) BY DEF m
          <5>2. Tracks(st, Append(down[q], m), ex, c)
            BY <1>2, <3>3, <3>4, <4>1, <5>1, TracksAppend
          <5> QED BY <1>3, <3>3, <4>1, <5>2
        <4>2. CASE d # c
          <5>1. ~About(m, d) BY <1>2, <4>2
          <5>2. Tracks(call[d], Append(down[q], m), ex, d)
            BY <1>2, <3>3, <3>4, <5>1, TracksAppendOther
          <5> QED BY <1>3, <3>3, <4>2, <5>2
        <4> QED BY <4>1, <4>2
      <3> QED BY <3>1, <3>4, ExistsBoolean, Zenon
    <2>7. \A q \in Pages : page[q] = "none" => up'[q] = up[q] /\ down'[q] = down[q]
      BY <1>1, <2>2
    <2>8. srv' # Null => page[srv'.page] = "open" BY <1>1 DEF PagesInv
    <2> QED BY <1>1, <2>1, <2>4, <2>5, <2>6, <2>7, <2>8, ServerFrame
  <1>6. CASE ~g_Instance
    <2>1. whole' = whole \ OpenPages /\ UNCHANGED down BY <1>6 DEF Broadcast
    <2>2. TypeOK' BY <1>1, <1>3, <2>1 DEF TypeOK
    <2>3. \A q \in Pages : page[q] = "open" => InOrder(InTransit(q)', answered[q], sent[q])
      BY <1>1, <1>4, <2>1 DEF LinesInv, OpenPages, InTransit
    <2>4. \A q \in whole' : page[q] # "open" BY <2>1 DEF OpenPages, TypeOK
    <2>5. srv' # Null => page[srv'.page] = "open" BY <1>1 DEF PagesInv
    <2> QED BY <1>1, <2>1, <2>2, <2>3, <2>4, <2>5, ServerFrame
  <1> QED BY <1>5, <1>6

\* The SDK's moves keep the invariant.
LEMMA SdkSteps ==
    ASSUME ProtocolInv, NEW c \in CallIds, Sdk(c)
    PROVE  ProtocolInv'
  <1>1. /\ call \in [CallIds -> CallStates] /\ peer \in 0..MaxPeer
        /\ asked \subseteq {"acceptCall", "pauseCall", "resumeCall"} \X CallIds
    BY DEF ProtocolInv, TypeOK
  <1>2. ASSUME NEW e \in Introduces, NEW st \in {"incoming", "alerting", "talking"},
               SdkStep, Broadcast(e, c, TRUE), call[c] # "ended",
               call' = [call EXCEPT ![c] = st], asked' \subseteq asked, UNCHANGED peer
        PROVE  ProtocolInv'
    <2>1. e \in Events /\ st \in CallStates BY DEF Introduces, Events, CallStates
    <2>2. Is(EventOf(e, c, TRUE), c, Introduces) BY <2>1, EventOfFacts
    <2>3. Sends(call[c], EventOf(e, c, TRUE), st, c) BY <1>2, <2>2 DEF Sends
    <2> QED BY <1>1, <1>2, <2>1, <2>3, BroadcastStep
  <1>3. ASSUME NEW e \in {"onCallPaused", "onCallResumed"}, NEW ok \in BOOLEAN,
               NEW st \in {"talking", "held"}, SdkStep, Broadcast(e, c, ok),
               call[c] \in {"talking", "held"}, call' = [call EXCEPT ![c] = st],
               asked' \subseteq asked, peer' \in 0..MaxPeer
        PROVE  ProtocolInv'
    <2>1. e \in Events /\ st \in CallStates BY DEF Events, CallStates
    <2>2. Is(EventOf(e, c, ok), c, {"onCallPaused", "onCallResumed"})
      BY <2>1, EventOfFacts
    <2>3. Sends(call[c], EventOf(e, c, ok), st, c) BY <1>3, <2>2 DEF Sends
    <2> QED BY <1>1, <1>3, <2>1, <2>3, BroadcastStep
  <1>4. \A f : f \in {"talking", "held"} /\ call[c] = f => call = [call EXCEPT ![c] = f]
    BY <1>1
  <1>5. CASE Incoming(c) BY <1>2, <1>5 DEF Incoming, Introduces
  <1>6. CASE Alerting(c) BY <1>2, <1>6 DEF Alerting, Introduces
  <1>7. CASE Answered(c)
    <2>1. /\ SdkStep /\ call[c] # "ended" /\ call' = [call EXCEPT ![c] = "talking"]
          /\ asked' \subseteq asked /\ Broadcast("onCallAnswered", c, TRUE) /\ UNCHANGED peer
      BY <1>7 DEF Answered
    <2> QED BY <1>2, <2>1 DEF Introduces
  <1>8. CASE Released(c)
    <2>1. /\ SdkStep /\ call[c] \in Live /\ call' = [call EXCEPT ![c] = "ended"]
          /\ asked' \subseteq asked /\ Broadcast("onCallReleased", c, TRUE) /\ UNCHANGED peer
      BY <1>8 DEF Released
    <2>2. "onCallReleased" \in Events /\ "ended" \in CallStates BY DEF Events, CallStates
    <2>3. Is(EventOf("onCallReleased", c, TRUE), c, {"onCallReleased"})
      BY <2>2, EventOfFacts
    <2>4. Sends(call[c], EventOf("onCallReleased", c, TRUE), "ended", c)
      BY <2>1, <2>3 DEF Sends, Live
    <2> QED BY <1>1, <2>1, <2>2, <2>4, BroadcastStep
  <1>9. ASSUME NEW ok \in BOOLEAN, Paused(c, ok) PROVE ProtocolInv'
    <2>1. /\ SdkStep /\ call[c] = "talking" /\ asked' \subseteq asked
          /\ Broadcast("onCallPaused", c, ok) /\ UNCHANGED peer
          /\ call' = IF ok THEN [call EXCEPT ![c] = "held"] ELSE call
      BY <1>9 DEF Paused
    <2>2. \E st \in {"talking", "held"} : call' = [call EXCEPT ![c] = st]
      BY <1>4, <2>1
    <2> QED BY <1>1, <1>3, <2>1, <2>2
  <1>10. ASSUME NEW ok \in BOOLEAN, Resumed(c, ok) PROVE ProtocolInv'
    <2>1. /\ SdkStep /\ call[c] = "held" /\ asked' \subseteq asked
          /\ Broadcast("onCallResumed", c, ok) /\ UNCHANGED peer
          /\ call' = IF ok THEN [call EXCEPT ![c] = "talking"] ELSE call
      BY <1>10 DEF Resumed
    <2>2. \E st \in {"talking", "held"} : call' = [call EXCEPT ![c] = st]
      BY <1>4, <2>1
    <2> QED BY <1>1, <1>3, <2>1, <2>2
  <1>11. ASSUME NEW e \in {"onCallPaused", "onCallResumed"}, PeerHolds(c, e)
         PROVE  ProtocolInv'
    <2>1. /\ SdkStep /\ call[c] = "talking" /\ peer < MaxPeer /\ peer' = peer + 1
          /\ Broadcast(e, c, TRUE) /\ UNCHANGED <<call, asked>>
      BY <1>11 DEF PeerHolds, sdkVars
    <2>2. peer' \in 0..MaxPeer BY <1>1, <2>1, ProtocolAssumption
    <2>3. call' = [call EXCEPT ![c] = "talking"] BY <1>4, <2>1
    <2> QED BY <1>3, <2>1, <2>2, <2>3
  <1> QED BY <1>5, <1>6, <1>7, <1>8, <1>9, <1>10, <1>11 DEF Sdk

-----------------------------------------------------------------------------
(* The page's message handler.                                             *)

\* What a handler has to keep.
LEMMA PageFrame ==
    ASSUME ProtocolInv, NEW p \in Pages, Handles(p), TypeOK',
           \A q \in Pages \ {p} : /\ SessionS'[q] = SessionS[q] /\ callid'[q] = callid[q]
                                 /\ thrown'[q] = thrown[q] /\ up'[q] = up[q]
                                 /\ sent'[q] = sent[q] /\ answered'[q] = answered[q],
           \A c \in CallIds : Handled(Head(down[p]), Exists(p, c), Exists(p, c)', c),
           answered'[p] <= sent'[p],
           InOrder(InTransit(p)', answered'[p], sent'[p]),
           p \in whole /\ callid'[p] # Null => Exists(p, callid[p])',
           p \in whole => "noSession" \notin thrown'[p]
    PROVE  ProtocolInv'
  <1> USE DEF ProtocolInv
  <1>1. /\ page[p] = "open" /\ down[p] # <<>> /\ down' = [down EXCEPT ![p] = Tail(@)]
        /\ UNCHANGED <<page, srv, call, whole>>
    BY DEF Handles, sdkVars
  <1>2. down'[p] = Tail(down[p]) /\ \A q \in Pages \ {p} : down'[q] = down[q]
    BY <1>1 DEF TypeOK
  <1>3. \A q \in Pages \ {p} : \A c : Exists(q, c)' = Exists(q, c) BY DEF Exists
  <1>4. PagesInv'
    <2>1. \A q \in Pages : page'[q] = "none" => q # p /\ page[q] = "none" BY <1>1
    <2>2. ASSUME NEW q \in Pages PROVE answered'[q] <= sent'[q]
      <3>1. CASE q = p BY <3>1
      <3>2. CASE q # p BY <3>2 DEF PagesInv
      <3> QED BY <3>1, <3>2
    <2>3. srv' # Null => page'[srv'.page] = "open" BY <1>1 DEF PagesInv
    <2> QED BY <1>1, <1>2, <1>3, <2>1, <2>2, <2>3 DEF PagesInv
  <1>5. LinesInv'
    <2> SUFFICES ASSUME NEW q \in Pages, page'[q] = "open"
                 PROVE  InOrder(InTransit(q)', answered'[q], sent'[q])
      BY DEF LinesInv, OpenPages
    <2>1. CASE q = p BY <2>1
    <2>2. CASE q # p
      <3>1. InTransit(q)' = InTransit(q) BY <1>1, <1>2, <2>2 DEF InTransit, Executing
      <3> QED BY <1>1, <2>2, <3>1 DEF LinesInv, OpenPages
    <2> QED BY <2>1, <2>2
  <1>6. SessionsInv'
    <2> SUFFICES ASSUME NEW q \in whole', page'[q] = "open", NEW c \in CallIds
                 PROVE  Tracks(call'[c], down'[q], Exists(q, c)', c)
      BY DEF SessionsInv
    <2>1. q \in Pages /\ q \in whole /\ page[q] = "open" /\ call'[c] = call[c]
      BY <1>1 DEF TypeOK
    <2>2. Tracks(call[c], down[q], Exists(q, c), c) BY <2>1 DEF SessionsInv
    <2>3. CASE q = p
      <3>1. down[p] \in Seq(DownMsgs) BY QueueTypes
      <3>2. ASSUME NEW ex \in BOOLEAN, NEW ex2 \in BOOLEAN,
                   Tracks(call[c], down[p], ex, c), Handled(Head(down[p]), ex, ex2, c)
            PROVE  Tracks(call'[c], down'[p], ex2, c)
        BY <1>1, <1>2, <2>1, <3>1, <3>2, TracksTail
      <3> QED BY <2>2, <2>3, <3>2, ExistsBoolean, Zenon
    <2>4. CASE q # p
      <3>1. Exists(q, c)' = Exists(q, c) /\ down'[q] = down[q] BY <1>2, <1>3, <2>1, <2>4
      <3> QED BY <2>1, <2>2, <3>1
    <2> QED BY <2>3, <2>4
  <1>7. CurrentHasSession'
    <2> SUFFICES ASSUME NEW q \in whole, callid'[q] # Null
                 PROVE  Exists(q, callid[q])'
      BY <1>1 DEF CurrentHasSession
    <2>1. CASE q = p BY <2>1
    <2>2. CASE q # p
      <3>1. q \in Pages \ {p} BY <2>2 DEF TypeOK
      <3> QED BY <3>1 DEF CurrentHasSession, Exists
    <2> QED BY <2>1, <2>2
  <1>8. NoSessionOnlyLate'
    <2>1. ASSUME NEW q \in whole PROVE "noSession" \notin thrown'[q]
      <3>1. CASE q = p BY <3>1
      <3>2. CASE q # p
        <4>1. q \in Pages \ {p} BY <3>2 DEF TypeOK
        <4> QED BY <4>1 DEF NoSessionOnlyLate
      <3> QED BY <3>1, <3>2
    <2> QED BY <1>1, <2>1 DEF NoSessionOnlyLate
  <1> QED BY <1>4, <1>5, <1>6, <1>7, <1>8

\* The message at hand, and the line without it.
LEMMA HandlesFacts ==
    ASSUME ProtocolInv, NEW p \in Pages, Handles(p)
    PROVE  /\ Head(down[p]) \in DownMsgs
           /\ down' \in [Pages -> Seq(ReplyMsgs \cup EventMsgs)]
           /\ Tail(down[p]) \in Seq(Msgs) /\ Executing(p) \in Seq(Msgs)
           /\ InTransit(p)' = Tail(down[p]) \o Executing(p) \o up'[p]
           /\ IsEvent(Head(down[p])) =>
                 InOrder(Tail(down[p]) \o Executing(p) \o up[p], answered[p], sent[p])
           /\ ~IsEvent(Head(down[p])) =>
                 /\ InOrder(Tail(down[p]) \o Executing(p) \o up[p], answered[p] + 1, sent[p])
                 /\ answered[p] + 1 <= sent[p]
  <1> USE DEF ProtocolInv
  <1>1. /\ page[p] = "open" /\ down[p] # <<>> /\ down' = [down EXCEPT ![p] = Tail(@)]
        /\ UNCHANGED <<page, srv>>
    BY DEF Handles
  <1>2. /\ down[p] \in Seq(DownMsgs) /\ down[p] \in Seq(Msgs) /\ up[p] \in Seq(Msgs)
        /\ sent[p] \in Nat /\ answered[p] \in Nat /\ Executing(p) \in Seq(Msgs)
    BY QueueTypes, ExecutingType
  <1>3. Head(down[p]) \in DownMsgs /\ Tail(down[p]) \in Seq(DownMsgs)
        /\ Tail(down[p]) \in Seq(Msgs)
    BY <1>1, <1>2, HeadTailProperties
  <1>4. down' \in [Pages -> Seq(ReplyMsgs \cup EventMsgs)]
    BY <1>1, <1>3 DEF TypeOK, DownMsgs
  <1>5. InTransit(p)' = Tail(down[p]) \o Executing(p) \o up'[p]
    BY <1>1 DEF InTransit, Executing, TypeOK
  <1>6. InOrder(down[p] \o Executing(p) \o up[p], answered[p], sent[p])
    BY <1>1 DEF LinesInv, OpenPages, InTransit
  <1> QED BY <1>1, <1>2, <1>3, <1>4, <1>5, <1>6, LineHandled

\* An event at hand: it is about its call and of its kind, and a hold or a
\* retrieve finds a session on a page that was sent every event.
LEMMA EventAtHand ==
    ASSUME ProtocolInv, NEW p \in Pages, NEW e, HandlesEvent(p, e)
    PROVE  /\ Handles(p) /\ IsEvent(Head(down[p]))
           /\ Head(down[p]).callid \in CallIds
           /\ \A d : About(Head(down[p]), d) <=> d = Head(down[p]).callid
           /\ \A d, E : Is(Head(down[p]), d, E) <=> d = Head(down[p]).callid /\ e \in E
           /\ p \in whole /\ e \in {"onCallPaused", "onCallResumed"} =>
                 Exists(p, Head(down[p]).callid)
  <1> DEFINE m == Head(down[p])
             c == m.callid
  <1>1. Handles(p) /\ IsEvent(m) /\ m.event = e BY DEF HandlesEvent, Next1, IsEvent
  <1>2. m \in DownMsgs BY <1>1, HandlesFacts
  <1> HIDE DEF m
  <1>3. c \in CallIds BY <1>1, <1>2, MessageKinds DEF DownMsgs
  <1>4. \A d : About(m, d) <=> d = c BY <1>1 DEF About
  <1>5. \A d, E : Is(m, d, E) <=> d = c /\ e \in E BY <1>1, <1>4 DEF Is
  <1>6. ASSUME p \in whole, e \in {"onCallPaused", "onCallResumed"} PROVE Exists(p, c)
    <2>1. page[p] = "open" /\ down[p] # <<>> BY <1>1 DEF Handles
    <2>2. Tracks(call[c], down[p], Exists(p, c), c)
      BY <1>3, <1>6, <2>1 DEF ProtocolInv, SessionsInv
    <2>3. down[p] \in Seq(DownMsgs) BY QueueTypes DEF ProtocolInv
    <2>4. /\ About(m, c) /\ ~Is(m, c, Introduces) /\ ~Is(m, c, {"onCallReleased"})
          /\ Is(m, c, {"onCallPaused", "onCallResumed"})
      BY <1>4, <1>5, <1>6 DEF Introduces
    <2>5. ASSUME NEW ex \in BOOLEAN, Tracks(call[c], down[p], ex, c) PROVE ex
      <3>1. Handled(m, ex, ex, c) BY <2>4 DEF Handled
      <3> QED BY <2>1, <2>3, <2>4, <2>5, <3>1, TracksTail DEF m
    <2> QED BY <2>2, <2>5, ExistsBoolean, Zenon
  <1> QED BY <1>1, <1>3, <1>4, <1>5, <1>6 DEF m

\* A handler that sends nothing leaves the line without its event in order.
LEMMA QuietHandler ==
    ASSUME ProtocolInv, NEW p \in Pages, NEW e, HandlesEvent(p, e),
           UNCHANGED <<up, sent, answered>>
    PROVE  answered'[p] <= sent'[p] /\ InOrder(InTransit(p)', answered'[p], sent'[p])
  <1>1. Handles(p) /\ IsEvent(Head(down[p])) BY EventAtHand
  <1>2. answered[p] <= sent[p] BY DEF ProtocolInv, PagesInv
  <1> QED BY <1>1, <1>2, HandlesFacts

\* The events that make a session.
LEMMA IntroduceStep ==
    ASSUME ProtocolInv, NEW p \in Pages, NEW e \in Introduces, HandlesEvent(p, e),
           SessionS' = WithSession(p, Head(down[p]).callid),
           callid' = [callid EXCEPT ![p] = Head(down[p]).callid],
           cause' \in [Pages -> SUBSET CallIds],
           UNCHANGED <<up, sent, answered, dials, thrown>>
    PROVE  ProtocolInv'
  <1> DEFINE m == Head(down[p])
             c == m.callid
  <1>1. /\ Handles(p) /\ c \in CallIds
        /\ \A d : About(m, d) <=> d = c
        /\ \A d, E : Is(m, d, E) <=> d = c /\ e \in E
    BY EventAtHand
  <1>2. /\ down' \in [Pages -> Seq(ReplyMsgs \cup EventMsgs)]
        /\ UNCHANGED <<page, srv, g_Instance, call, asked, cmds, peer, consults, whole, crashed>>
    BY <1>1, HandlesFacts DEF Handles, sdkVars
  <1>3. answered'[p] <= sent'[p] /\ InOrder(InTransit(p)', answered'[p], sent'[p])
    BY QuietHandler
  <1> HIDE DEF m
  <1>4. SessionS \in [Pages -> [CallIds -> Statuses]] /\ callid \in [Pages -> CallIds \cup {Null}]
    BY DEF ProtocolInv, TypeOK
  <1>5. SessionS' = [SessionS EXCEPT ![p][c] = IF @ = "none" THEN "NULL" ELSE @]
    BY DEF WithSession, m
  <1>6. SessionS' \in [Pages -> [CallIds -> Statuses]]
    <2>1. (IF SessionS[p][c] = "none" THEN "NULL" ELSE SessionS[p][c]) \in Statuses
      BY <1>1, <1>4 DEF Statuses
    <2>2. PICK v \in Statuses : v = IF SessionS[p][c] = "none" THEN "NULL" ELSE SessionS[p][c]
      BY <2>1
    <2>3. SessionS' = [SessionS EXCEPT ![p] = [SessionS[p] EXCEPT ![c] = v]]
      BY <1>5, <2>2
    <2>4. [SessionS[p] EXCEPT ![c] = v] \in [CallIds -> Statuses]
      <3>1. SessionS[p] \in [CallIds -> Statuses] BY <1>4
      <3> QED BY <3>1
    <2> QED BY <1>4, <2>3, <2>4
  <1>7. callid' \in [Pages -> CallIds \cup {Null}] BY <1>1, <1>4 DEF m
  <1>8. TypeOK' BY <1>2, <1>6, <1>7 DEF ProtocolInv, TypeOK
  <1>9. \A q \in Pages \ {p} : SessionS'[q] = SessionS[q] /\ callid'[q] = callid[q]
    BY <1>4, <1>5
  <1>10. /\ SessionS'[p][c] # "none" /\ callid'[p] = c /\ c # Null
         /\ \A d \in CallIds \ {c} : SessionS'[p][d] = SessionS[p][d]
    BY <1>1, <1>4, <1>5, ProtocolAssumption DEF m
  <1>11. ASSUME NEW d \in CallIds PROVE Handled(m, Exists(p, d), Exists(p, d)', d)
    <2>1. CASE d = c
      <3>1. About(m, d) /\ ~Is(m, d, {"onCallPaused", "onCallResumed"})
            /\ ~Is(m, d, {"onCallReleased"})
        BY <1>1, <2>1 DEF Introduces
      <3>2. Exists(p, d)' = TRUE BY <1>10, <2>1 DEF Exists
      <3> QED BY <3>1, <3>2 DEF Handled
    <2>2. CASE d # c
      <3>1. \A E : ~About(m, d) /\ ~Is(m, d, E) BY <1>1, <2>2
      <3>2. Exists(p, d)' = Exists(p, d) BY <1>10, <2>2 DEF Exists
      <3> QED BY <3>1, <3>2 DEF Handled
    <2> QED BY <2>1, <2>2
  <1>12. Exists(p, callid[p])' BY <1>10 DEF Exists
  <1>13. p \in whole => "noSession" \notin thrown'[p] BY DEF ProtocolInv, NoSessionOnlyLate
  <1> QED BY <1>1, <1>3, <1>8, <1>9, <1>11, <1>12, <1>13, PageFrame DEF m

\* The release removes the session, and callid if it is the call's.
LEMMA ReleaseStep ==
    ASSUME ProtocolInv, NEW p \in Pages, OnCallReleased(p)
    PROVE  ProtocolInv'
  <1> DEFINE m == Head(down[p])
             c == m.callid
             e == "onCallReleased"
  <1>1. /\ HandlesEvent(p, e)
        /\ SessionS' = [SessionS EXCEPT ![p][c] = "none"]
        /\ cause' = [cause EXCEPT ![p] = @ \ {c}]
        /\ callid' = IF callid[p] = c THEN [callid EXCEPT ![p] = Null] ELSE callid
        /\ UNCHANGED <<up, sent, answered, dials, thrown>>
    BY DEF OnCallReleased, Next1
  <1>2. /\ Handles(p) /\ c \in CallIds
        /\ \A d : About(m, d) <=> d = c
        /\ \A d, E : Is(m, d, E) <=> d = c /\ e \in E
    BY <1>1, EventAtHand
  <1>3. /\ down' \in [Pages -> Seq(ReplyMsgs \cup EventMsgs)]
        /\ UNCHANGED <<page, srv, g_Instance, call, asked, cmds, peer, consults, whole, crashed>>
    BY <1>2, HandlesFacts DEF Handles, sdkVars
  <1>4. answered'[p] <= sent'[p] /\ InOrder(InTransit(p)', answered'[p], sent'[p])
    BY <1>1, QuietHandler
  <1> HIDE DEF m
  <1>5. /\ SessionS \in [Pages -> [CallIds -> Statuses]]
        /\ callid \in [Pages -> CallIds \cup {Null}] /\ cause \in [Pages -> SUBSET CallIds]
    BY DEF ProtocolInv, TypeOK
  <1>6. SessionS' \in [Pages -> [CallIds -> Statuses]] BY <1>1, <1>2, <1>5 DEF Statuses
  <1>7. callid' \in [Pages -> CallIds \cup {Null}] BY <1>1, <1>5
  <1>8. cause' \in [Pages -> SUBSET CallIds] BY <1>1, <1>5
  <1>9. TypeOK' BY <1>1, <1>3, <1>6, <1>7, <1>8 DEF ProtocolInv, TypeOK
  <1>10. \A q \in Pages \ {p} : SessionS'[q] = SessionS[q] /\ callid'[q] = callid[q]
    BY <1>1, <1>5
  <1>11. /\ SessionS'[p][c] = "none"
         /\ \A d \in CallIds \ {c} : SessionS'[p][d] = SessionS[p][d]
    BY <1>1, <1>2, <1>5
  <1>12. ASSUME NEW d \in CallIds PROVE Handled(m, Exists(p, d), Exists(p, d)', d)
    <2>1. CASE d = c
      <3>1. About(m, d) /\ ~Is(m, d, {"onCallPaused", "onCallResumed"})
            /\ ~Is(m, d, Introduces)
        BY <1>2, <2>1 DEF Introduces
      <3>2. Exists(p, d)' = FALSE BY <1>11, <2>1 DEF Exists
      <3> QED BY <3>1, <3>2 DEF Handled
    <2>2. CASE d # c
      <3>1. \A E : ~About(m, d) /\ ~Is(m, d, E) BY <1>2, <2>2
      <3>2. Exists(p, d)' = Exists(p, d) BY <1>11, <2>2 DEF Exists
      <3> QED BY <3>1, <3>2 DEF Handled
    <2> QED BY <2>1, <2>2
  <1>13. ASSUME p \in whole, callid'[p] # Null PROVE Exists(p, callid[p])'
    <2>1. callid[p] # c /\ callid'[p] = callid[p] /\ callid[p] \in CallIds
      BY <1>1, <1>5, <1>13
    <2>2. Exists(p, callid[p]) BY <1>13, <2>1 DEF ProtocolInv, CurrentHasSession
    <2> QED BY <1>11, <2>1, <2>2 DEF Exists
  <1>14. p \in whole => "noSession" \notin thrown'[p]
    BY <1>1 DEF ProtocolInv, NoSessionOnlyLate
  <1> QED BY <1>1, <1>2, <1>4, <1>9, <1>10, <1>12, <1>13, <1>14, PageFrame DEF m

\* A hold may dial the second number of a consultation.
LEMMA PauseStep ==
    ASSUME ProtocolInv, NEW p \in Pages, OnCallPaused(p)
    PROVE  ProtocolInv'
  <1> DEFINE m == Head(down[p])
             c == m.callid
             e == "onCallPaused"
             list == <<<<"setUserData", Null>>, <<"makeCall", Null>>>>
  <1>1. /\ HandlesEvent(p, e)
        /\ IF SessionS[p][c] = "none" THEN Throws(p, "noSession") ELSE UNCHANGED thrown
        /\ \/ DoSend(p, list) /\ dials' = [dials EXCEPT ![p] = @ + 1]
           \/ UNCHANGED <<up, sent, dials>>
        /\ UNCHANGED <<SessionS, cause, callid, answered>>
    BY DEF OnCallPaused, Next1, pageVars
  <1>2. /\ Handles(p) /\ c \in CallIds /\ IsEvent(m)
        /\ \A d, E : Is(m, d, E) <=> d = c /\ e \in E
        /\ p \in whole => Exists(p, c)
    BY <1>1, EventAtHand
  <1>3. /\ down' \in [Pages -> Seq(ReplyMsgs \cup EventMsgs)]
        /\ Tail(down[p]) \in Seq(Msgs) /\ Executing(p) \in Seq(Msgs)
        /\ InTransit(p)' = Tail(down[p]) \o Executing(p) \o up'[p]
        /\ InOrder(Tail(down[p]) \o Executing(p) \o up[p], answered[p], sent[p])
        /\ UNCHANGED <<page, srv, g_Instance, call, asked, cmds, peer, consults, whole, crashed>>
    BY <1>2, HandlesFacts DEF Handles, sdkVars
  <1> HIDE DEF m
  <1>4. TypeOK /\ answered[p] <= sent[p] /\ answered[p] \in Nat /\ sent[p] \in Nat
    BY QueueTypes DEF ProtocolInv, PagesInv
  <1>5. list \in Seq(Named)
    <2>1. "setUserData" \in Cmds /\ "makeCall" \in Cmds
      BY DEF Cmds, LibraryPlainCmds, CallCmds
    <2> QED BY <2>1, ListTypes
  <1> HIDE DEF list
  <1>6. /\ up' \in [Pages -> Seq(CmdMsgs)] /\ sent' \in [Pages -> Nat]
        /\ dials' \in [Pages -> Nat]
        /\ \A q \in Pages \ {p} : up'[q] = up[q] /\ sent'[q] = sent[q]
        /\ answered[p] <= sent'[p]
        /\ InOrder(Tail(down[p]) \o Executing(p) \o up'[p], answered[p], sent'[p])
    <2>1. CASE DoSend(p, list) /\ dials' = [dials EXCEPT ![p] = @ + 1]
      <3>1. /\ up' \in [Pages -> Seq(CmdMsgs)] /\ sent' \in [Pages -> Nat]
            /\ \A q \in Pages \ {p} : up'[q] = up[q] /\ sent'[q] = sent[q]
            /\ sent'[p] >= sent[p]
            /\ InOrder(Tail(down[p]) \o Executing(p) \o up'[p], answered[p], sent'[p])
        BY <1>3, <1>4, <1>5, <2>1, DoSendFacts
      <3>2. dials' \in [Pages -> Nat] BY <1>4, <2>1 DEF TypeOK
      <3>3. answered[p] <= sent'[p] BY <1>4, <3>1
      <3> QED BY <3>1, <3>2, <3>3
    <2>2. CASE UNCHANGED <<up, sent, dials>> BY <1>3, <1>4, <2>2 DEF TypeOK
    <2> QED BY <1>1, <2>1, <2>2
  <1>7. thrown' \in [Pages -> SUBSET {"noSession", "noParam"}]
        /\ \A q \in Pages \ {p} : thrown'[q] = thrown[q]
    <2>1. thrown \in [Pages -> SUBSET {"noSession", "noParam"}] BY <1>4 DEF TypeOK
    <2>2. CASE Throws(p, "noSession") BY <2>1, <2>2 DEF Throws
    <2>3. CASE UNCHANGED thrown BY <2>1, <2>3
    <2> QED BY <1>1, <2>2, <2>3
  <1>8. TypeOK' BY <1>1, <1>3, <1>4, <1>6, <1>7 DEF TypeOK
  <1>9. ASSUME NEW d \in CallIds PROVE Handled(m, Exists(p, d), Exists(p, d)', d)
    <2>1. Exists(p, d)' = Exists(p, d) BY <1>1 DEF Exists
    <2>2. ~Is(m, d, Introduces) /\ ~Is(m, d, {"onCallReleased"})
      BY <1>2 DEF Introduces
    <2> QED BY <2>1, <2>2 DEF Handled
  <1>10. p \in whole => "noSession" \notin thrown'[p]
    BY <1>1, <1>2 DEF ProtocolInv, NoSessionOnlyLate, Exists
  <1>11. p \in whole /\ callid'[p] # Null => Exists(p, callid[p])'
    BY <1>1 DEF ProtocolInv, CurrentHasSession, Exists
  <1>12. \A q \in Pages \ {p} : /\ SessionS'[q] = SessionS[q] /\ callid'[q] = callid[q]
                                /\ answered'[q] = answered[q]
    BY <1>1
  <1>13. answered'[p] = answered[p] BY <1>1
  <1> QED BY <1>2, <1>3, <1>6, <1>7, <1>8, <1>9, <1>10, <1>11, <1>12, <1>13, PageFrame DEF m

\* A retrieve makes its call the current one.
LEMMA ResumeStep ==
    ASSUME ProtocolInv, NEW p \in Pages, OnCallResumed(p)
    PROVE  ProtocolInv'
  <1> DEFINE m == Head(down[p])
             c == m.callid
             e == "onCallResumed"
  <1>1. /\ HandlesEvent(p, e)
        /\ callid' = [callid EXCEPT ![p] = c]
        /\ IF SessionS[p][c] = "none" THEN Throws(p, "noSession") ELSE UNCHANGED thrown
        /\ SessionS' = IF SessionS[p][c] = "RECONNECTING"
                       THEN [SessionS EXCEPT ![p][c] = "CONNECTED"] ELSE SessionS
        /\ UNCHANGED <<up, cause, sent, answered, dials>>
    BY DEF OnCallResumed, Next1
  <1>2. /\ Handles(p) /\ c \in CallIds
        /\ \A d, E : Is(m, d, E) <=> d = c /\ e \in E
        /\ p \in whole => Exists(p, c)
    BY <1>1, EventAtHand
  <1>3. /\ down' \in [Pages -> Seq(ReplyMsgs \cup EventMsgs)]
        /\ UNCHANGED <<page, srv, g_Instance, call, asked, cmds, peer, consults, whole, crashed>>
    BY <1>2, HandlesFacts DEF Handles, sdkVars
  <1>4. answered'[p] <= sent'[p] /\ InOrder(InTransit(p)', answered'[p], sent'[p])
    BY <1>1, QuietHandler
  <1> HIDE DEF m
  <1>5. /\ SessionS \in [Pages -> [CallIds -> Statuses]]
        /\ callid \in [Pages -> CallIds \cup {Null}]
        /\ thrown \in [Pages -> SUBSET {"noSession", "noParam"}]
    BY DEF ProtocolInv, TypeOK
  <1>6. /\ SessionS' \in [Pages -> [CallIds -> Statuses]]
        /\ \A q \in Pages \ {p} : SessionS'[q] = SessionS[q]
        /\ \A d \in CallIds : SessionS'[p][d] # "none" <=> SessionS[p][d] # "none"
    <2>1. CASE SessionS[p][c] = "RECONNECTING"
      <3>1. SessionS' = [SessionS EXCEPT ![p][c] = "CONNECTED"] BY <1>1, <2>1
      <3>2. SessionS' \in [Pages -> [CallIds -> Statuses]] BY <1>2, <1>5, <3>1 DEF Statuses
      <3>3. SessionS'[p][c] = "CONNECTED"
            /\ \A d \in CallIds \ {c} : SessionS'[p][d] = SessionS[p][d]
        BY <1>2, <1>5, <3>1
      <3> QED BY <1>5, <2>1, <3>1, <3>2, <3>3
    <2>2. CASE SessionS[p][c] # "RECONNECTING" BY <1>1, <1>5, <2>2
    <2> QED BY <2>1, <2>2
  <1>7. /\ callid' \in [Pages -> CallIds \cup {Null}] /\ callid'[p] = c
        /\ \A q \in Pages \ {p} : callid'[q] = callid[q]
    BY <1>1, <1>2, <1>5
  <1>8. /\ thrown' \in [Pages -> SUBSET {"noSession", "noParam"}]
        /\ \A q \in Pages \ {p} : thrown'[q] = thrown[q]
    BY <1>1, <1>5 DEF Throws
  <1>9. TypeOK' BY <1>1, <1>3, <1>6, <1>7, <1>8 DEF ProtocolInv, TypeOK
  <1>10. ASSUME NEW d \in CallIds PROVE Handled(m, Exists(p, d), Exists(p, d)', d)
    <2>1. Exists(p, d)' = Exists(p, d) BY <1>6 DEF Exists
    <2>2. ~Is(m, d, Introduces) /\ ~Is(m, d, {"onCallReleased"})
      BY <1>2 DEF Introduces
    <2> QED BY <2>1, <2>2 DEF Handled
  <1>11. p \in whole => "noSession" \notin thrown'[p]
    BY <1>1, <1>2 DEF ProtocolInv, NoSessionOnlyLate, Exists
  <1>12. p \in whole /\ callid'[p] # Null => Exists(p, callid[p])'
    BY <1>2, <1>6, <1>7 DEF Exists
  <1> QED BY <1>1, <1>2, <1>4, <1>6, <1>7, <1>8, <1>9, <1>10, <1>11, <1>12, PageFrame DEF m

\* A result.
LEMMA ResultStep ==
    ASSUME ProtocolInv, NEW p \in Pages, OnResult(p)
    PROVE  ProtocolInv'
  <1> DEFINE m == Head(down[p])
  <1>1. /\ Handles(p) /\ "cmdresult" \in DOMAIN m
        /\ answered' = [answered EXCEPT ![p] = @ + 1]
        /\ Throws(p, "noParam") \/ UNCHANGED thrown
        /\ UNCHANGED <<up, SessionS, cause, callid, sent, dials>>
    BY DEF OnResult, Next1, pageVars
  <1>2. m \in DownMsgs BY <1>1, HandlesFacts
  <1>3. ~IsEvent(m) BY <1>1, <1>2, MessageKinds DEF DownMsgs
  <1>4. /\ down' \in [Pages -> Seq(ReplyMsgs \cup EventMsgs)]
        /\ InTransit(p)' = Tail(down[p]) \o Executing(p) \o up'[p]
        /\ InOrder(Tail(down[p]) \o Executing(p) \o up[p], answered[p] + 1, sent[p])
        /\ answered[p] + 1 <= sent[p]
        /\ UNCHANGED <<page, srv, g_Instance, call, asked, cmds, peer, consults, whole, crashed>>
    BY <1>1, <1>3, HandlesFacts DEF Handles, sdkVars
  <1> HIDE DEF m
  <1>5. /\ answered \in [Pages -> Nat]
        /\ thrown \in [Pages -> SUBSET {"noSession", "noParam"}]
    BY DEF ProtocolInv, TypeOK
  <1>6. /\ answered' \in [Pages -> Nat] /\ answered'[p] = answered[p] + 1
        /\ \A q \in Pages \ {p} : answered'[q] = answered[q]
    BY <1>1, <1>5
  <1>7. /\ thrown' \in [Pages -> SUBSET {"noSession", "noParam"}]
        /\ \A q \in Pages \ {p} : thrown'[q] = thrown[q]
        /\ "noSession" \in thrown'[p] => "noSession" \in thrown[p]
    BY <1>1, <1>5 DEF Throws
  <1>8. TypeOK' BY <1>1, <1>4, <1>6, <1>7 DEF ProtocolInv, TypeOK
  <1>9. ASSUME NEW d \in CallIds PROVE Handled(m, Exists(p, d), Exists(p, d)', d)
    <2>1. Exists(p, d)' = Exists(p, d) BY <1>1 DEF Exists
    <2>2. \A E : ~Is(m, d, E) BY <1>3 DEF Is, About
    <2> QED BY <2>1, <2>2 DEF Handled
  <1>10. p \in whole => "noSession" \notin thrown'[p]
    BY <1>7 DEF ProtocolInv, NoSessionOnlyLate
  <1>11. p \in whole /\ callid'[p] # Null => Exists(p, callid[p])'
    BY <1>1 DEF ProtocolInv, CurrentHasSession, Exists
  <1>12. InOrder(InTransit(p)', answered'[p], sent'[p]) /\ answered'[p] <= sent'[p]
    BY <1>1, <1>4, <1>6
  <1> QED BY <1>1, <1>6, <1>7, <1>8, <1>9, <1>10, <1>11, <1>12, PageFrame DEF m

\* The message handler keeps the invariant.
LEMMA PageSteps ==
    ASSUME ProtocolInv, NEW p \in Pages, Page(p)
    PROVE  ProtocolInv'
  <1> DEFINE c == Head(down[p]).callid
  <1>1. /\ "onCallAlerting" \in Introduces /\ "onCallAnswered" \in Introduces
        /\ "onIncomingCallReceived" \in Introduces
    BY DEF Introduces
  <1>2. cause \in [Pages -> SUBSET CallIds] BY DEF ProtocolInv, TypeOK
  <1>3. CASE OnCallAlerting(p)
    <2>1. /\ HandlesEvent(p, "onCallAlerting") /\ SessionS' = WithSession(p, c)
          /\ cause' = IF Second(p, c) THEN [cause EXCEPT ![p] = @ \cup {c}] ELSE cause
          /\ callid' = [callid EXCEPT ![p] = c]
          /\ UNCHANGED <<up, sent, answered, dials, thrown>>
      BY <1>3 DEF OnCallAlerting, Next1
    <2>2. c \in CallIds BY <2>1, EventAtHand
    <2>3. cause' \in [Pages -> SUBSET CallIds] BY <1>2, <2>1, <2>2
    <2> QED BY <1>1, <2>1, <2>3, IntroduceStep
  <1>4. CASE OnCallAnswered(p)
    <2>1. /\ HandlesEvent(p, "onCallAnswered") /\ SessionS' = WithSession(p, c)
          /\ cause' = IF Second(p, c) THEN [cause EXCEPT ![p] = @ \cup {c}] ELSE cause
          /\ callid' = [callid EXCEPT ![p] = c]
          /\ UNCHANGED <<up, sent, answered, dials, thrown>>
      BY <1>4 DEF OnCallAnswered, Next1
    <2>2. c \in CallIds BY <2>1, EventAtHand
    <2>3. cause' \in [Pages -> SUBSET CallIds] BY <1>2, <2>1, <2>2
    <2> QED BY <1>1, <2>1, <2>3, IntroduceStep
  <1>5. CASE OnIncomingCallReceived(p)
    <2>1. /\ HandlesEvent(p, "onIncomingCallReceived") /\ SessionS' = WithSession(p, c)
          /\ callid' = [callid EXCEPT ![p] = c]
          /\ UNCHANGED <<up, cause, sent, answered, dials, thrown>>
      BY <1>5 DEF OnIncomingCallReceived, Next1
    <2> QED BY <1>1, <1>2, <2>1, IntroduceStep
  <1> QED BY <1>3, <1>4, <1>5, ResultStep, ReleaseStep, PauseStep, ResumeStep DEF Page

-----------------------------------------------------------------------------
(* The theorems.                                                           *)

\* Before the first page connects nothing is there.
LEMMA ProtocolInit == Init => ProtocolInv
  <1> SUFFICES ASSUME Init PROVE ProtocolInv OBVIOUS
  <1> USE DEF Init
  <1>1. <<>> \in Seq(CmdMsgs) /\ <<>> \in Seq(ReplyMsgs \cup EventMsgs) OBVIOUS
  <1>2. TypeOK
    <2>1. up \in [Pages -> Seq(CmdMsgs)] /\ down \in [Pages -> Seq(ReplyMsgs \cup EventMsgs)]
      BY <1>1
    <2>2. /\ SessionS \in [Pages -> [CallIds -> Statuses]]
          /\ call \in [CallIds -> CallStates]
      BY DEF Statuses, CallStates
    <2>3. cmds \in 0..MaxCmds /\ peer \in 0..MaxPeer BY ProtocolAssumption
    <2>4. /\ page \in [Pages -> {"none", "open", "closed"}]
          /\ cause \in [Pages -> SUBSET CallIds]
          /\ callid \in [Pages -> CallIds \cup {Null}]
          /\ thrown \in [Pages -> SUBSET {"noSession", "noParam"}]
      OBVIOUS
    <2> QED BY <2>1, <2>2, <2>3, <2>4 DEF TypeOK
  <1>3. PagesInv BY DEF PagesInv, Exists
  <1>4. LinesInv BY DEF LinesInv, OpenPages
  <1>5. SessionsInv /\ CurrentHasSession /\ NoSessionOnlyLate
    BY DEF SessionsInv, CurrentHasSession, NoSessionOnlyLate
  <1> QED BY <1>2, <1>3, <1>4, <1>5 DEF ProtocolInv

\* Every step keeps the invariant.
LEMMA ProtocolNext == ProtocolInv /\ [Next]_vars => ProtocolInv'
  <1> SUFFICES ASSUME ProtocolInv, [Next]_vars PROVE ProtocolInv' OBVIOUS
  <1>1. ASSUME NEW p \in Pages, User(p) PROVE ProtocolInv'
    BY <1>1, ConnectStep, CloseStep, LibraryFunctions DEF User
  <1>2. ASSUME NEW p \in Pages, Page(p) PROVE ProtocolInv' BY <1>2, PageSteps
  <1>3. ASSUME NEW c \in CallIds, Sdk(c) PROVE ProtocolInv' BY <1>3, SdkSteps
  <1>4. CASE Server BY <1>4, ServerStep
  <1>5. CASE UNCHANGED vars
    BY <1>5 DEF vars, pageVars, histVars, sdkVars, ProtocolInv, TypeOK, PagesInv, LinesInv,
                SessionsInv, CurrentHasSession, NoSessionOnlyLate, Exists, OpenPages,
                InTransit, Executing
  <1> QED BY <1>1, <1>2, <1>3, <1>4, <1>5 DEF Next, Quiet

\* The inductive invariant holds in every behaviour of the pages, the server
\* and the SDK.
THEOREM ProtocolInvariant == Spec => []ProtocolInv
  BY ProtocolInit, ProtocolNext, PTL DEF Spec

\* Type correctness of the conversation.
THEOREM ProtocolTypes == Spec => []TypeOK
  <1>1. ProtocolInv => TypeOK BY DEF ProtocolInv
  <1> QED BY <1>1, ProtocolInvariant, PTL

\* A page gets exactly one result for each command, in the order of its
\* commands, whatever events come between and however many pages there are.
THEOREM ResultsInOrder == Spec => []RepliesInOrder
  <1>1. ProtocolInv => RepliesInOrder
    BY StandsForEach DEF ProtocolInv, LinesInv, RepliesInOrder
  <1> QED BY <1>1, ProtocolInvariant, PTL

\* On a page that was sent every event, callid has a session at any moment.
THEOREM CurrentCallHasSession == Spec => []CurrentHasSession
  <1>1. ProtocolInv => CurrentHasSession BY DEF ProtocolInv
  <1> QED BY <1>1, ProtocolInvariant, PTL

\* No handler of such a page uses a session that is not there.
THEOREM HandlersFindSessions == Spec => []NoSessionOnlyLate
  <1>1. ProtocolInv => NoSessionOnlyLate BY DEF ProtocolInv
  <1> QED BY <1>1, ProtocolInvariant, PTL

\* Once it has handled the events about a call, such a page has a session
\* for it exactly if the call exists and the SDK has told of it.
THEOREM SessionsAreTracked == Spec => []SessionsTracked
  <1>1. ASSUME ProtocolInv, NEW p \in Pages, NEW c \in CallIds, Settled(p, c)
        PROVE  Exists(p, c) <=> call[c] \in Live \ {"calling"}
    <2>1. Tracks(call[c], down[p], Exists(p, c), c)
      BY <1>1 DEF Settled, ProtocolInv, SessionsInv
    <2>2. \A i \in 1..Len(down[p]) : ~About(down[p][i], c)
      BY <1>1 DEF Settled, About
    <2>3. \A i \in 1..Len(down[p]) : \A E : ~Is(down[p][i], c, E)
      BY <2>2 DEF Is
    <2>4. call[c] \in CallStates BY <1>1 DEF ProtocolInv, TypeOK
    <2>5. CASE call[c] \in {"free", "calling"}
      BY <2>1, <2>5 DEF Tracks, NotYetTold, Live
    <2>6. CASE call[c] = "ended" BY <2>1, <2>3, <2>6 DEF Tracks, ToldOfEnd, Live
    <2>7. CASE call[c] \in {"alerting", "incoming", "talking", "held"}
      BY <2>1, <2>3, <2>7 DEF Tracks, ToldOfCall, Live
    <2> QED BY <2>4, <2>5, <2>6, <2>7 DEF CallStates
  <1>2. ProtocolInv => SessionsTracked BY <1>1 DEF SessionsTracked
  <1> QED BY <1>2, ProtocolInvariant, PTL
=============================================================================
