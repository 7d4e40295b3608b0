---------------------------- MODULE CallProtocol ----------------------------
(***************************************************************************)
(* The conversation between browser pages (UCClient.js), the server's      *)
(* command dispatcher (UCClientWSclient::OnMessage) and the telephony SDK. *)
(*                                                                         *)
(* A page sends commands on its websocket; the service thread executes     *)
(* them one at a time and answers each on the same connection; the SDK's   *)
(* callbacks about calls are broadcast to every open page.  The page keeps *)
(* its own idea of the calls (SessionS, callid) from those events and      *)
(* drives two-step operations from them: a consultation puts the call on   *)
(* hold and dials the second number when onCallPaused arrives.             *)
(*                                                                         *)
(* A connection is a pair of FIFO queues.  UCServer shows that of the      *)
(* server's side; here a broadcast is one step.  The SDK is external.      *)
(***************************************************************************)
EXTENDS Naturals, Sequences, FiniteSets

CONSTANTS
    Pages,        \* page loads; a reloaded page is another member
    CallIds,      \* calls the SDK can make up in a behaviour
    Null,
    UserCmds,     \* commands the users of this instance send directly
    MaxCmds,      \* bound: library functions the users call
    MaxPeer       \* bound: holds and retrieves by the peers of calls

\* Commands whose branch of OnMessage fills cmdresult["param"], in the order
\* of the dispatcher.  The other branches (setSrtpEnabled, the device lists
\* and tests) and an unknown command send a result without it.
SetupResults == {"initialize", "unInitialize ", "connectToCCPServer",
                 "disConnectToCCP", "getCurrentCall", "setTraceFlag", "makeCall"}

CallResults == {"acceptCall", "pauseCall", "resumeCall", "releaseCall", "sendDTMF"}

TransferResults == {"setMute", "transferCall", "consultTransferCall",
                    "transferMeeting", "setUserData", "setSipTransportType"}

DeviceResults == {"setCodecEnabled", "getCodecEnabled", "getMicroPhoneInfo",
                  "selectMicroPhone", "getSpeakerInfo", "selectSpeaker",
                  "setAudioRecordStatus"}

VersionResults == {"getVersion", "version", "setRegConfig"}

AnsweredWithParam == UNION {SetupResults, CallResults, TransferResults,
                            DeviceResults, VersionResults}

\* Results whose case in wsonMessage reads event.param.return.
ReadsParam ==
    {"initialize", "unInitialize", "getVersion", "getMicroPhoneInfo",
     "selectMicroPhone", "getSpeakerInfo", "selectSpeaker", "setTraceFlag",
     "connectToCCPServer", "disConnectToCCP", "makeCall", "setUserData",
     "releaseCall", "acceptCall", "pauseCall", "resumeCall", "transferCall",
     "sendDTMF", "consultTransferCall", "transferMeeting",
     "setSipTransportType"}

\* The library's functions that only send their command, and the command
\* that the library has no function for.
LibraryPlainCmds ==
    {"setTraceFlag", "setSipTransportType", "setSrtpEnabled", "initialize",
     "unInitialize", "connectToCCPServer", "disConnectToCCP", "getVersion",
     "setUserData", "sendDTMF", "transferCall", "consultTransferCall",
     "getMicroPhoneInfo", "selectMicroPhone", "getSpeakerInfo",
     "selectSpeaker"} \cup {"getCurrentCall"}

CallCmds == {"makeCall", "acceptCall", "pauseCall", "resumeCall", "releaseCall"}

Cmds == LibraryPlainCmds \cup CallCmds \cup {"transferMeeting"}

ASSUME ProtocolAssumption ==
    /\ Null \notin Pages \cup CallIds
    /\ UserCmds \subseteq LibraryPlainCmds \cup CallCmds
    /\ MaxCmds \in Nat /\ MaxPeer \in Nat

-----------------------------------------------------------------------------
VARIABLES
    page,         \* each page's connection: none, open, closed
    up, down,     \* the two directions of each connection
    SessionS,     \* UCClient.SessionS: _status per call, "none" if no entry
    cause,        \* calls whose session has _cause Consultation
    callid,       \* UCClient.callid
    srv,          \* the command in execution on the service thread, or Null
    g_Instance,   \* whether SDK callbacks find an object to go to
    call,         \* the SDK's calls
    asked,        \* requests the SDK has accepted and not yet acted on
    cmds, peer,   \* counters for the bounds
    sent,         \* history: commands a page has sent
    answered,     \* history: results a page has got
    consults,     \* history: consultations a page has begun
    dials,        \* history: consultation calls a page has dialled
    whole,        \* history: pages that were sent every event of every call
    thrown,       \* history: exceptions in a page's message handler
    crashed       \* the process used a null callid

pageVars == <<SessionS, cause, callid>>
histVars == <<sent, answered, consults, dials, whole, thrown>>
sdkVars  == <<call, asked>>
vars == <<page, up, down, pageVars, srv, g_Instance, sdkVars, cmds, peer,
          histVars, crashed>>

Statuses == {"none", "NULL", "CONSULTATIONING", "RECONNECTING", "CONNECTED",
             "ALTERNATEING", "CONFERENCEING"}

CallStates == {"free", "calling", "alerting", "incoming", "talking", "held", "ended"}
Live == {"calling", "alerting", "incoming", "talking", "held"}

Events == {"onIncomingCallReceived", "onCallAlerting", "onCallAnswered",
           "onCallPaused", "onCallResumed", "onCallReleased"}

\* n numbers the commands of a page; ok is reason = 200, param is whether
\* the result has a param member.
CmdMsgs   == [cmd : Cmds, callid : CallIds \cup {Null}, n : Nat]
ReplyMsgs == [cmdresult : Cmds, param : BOOLEAN, n : Nat]
EventMsgs == [event : Events, callid : CallIds, ok : BOOLEAN]

\* A command in execution: its page, and how far the branch has got.
Executions == [page : Pages, at : {"check", "use"}, msg : CmdMsgs]

ASSUME NullAssumption == Null \notin Executions

TypeOK ==
    /\ page \in [Pages -> {"none", "open", "closed"}]
    /\ up \in [Pages -> Seq(CmdMsgs)]
    /\ down \in [Pages -> Seq(ReplyMsgs \cup EventMsgs)]
    /\ SessionS \in [Pages -> [CallIds -> Statuses]]
    /\ cause \in [Pages -> SUBSET CallIds]
    /\ callid \in [Pages -> CallIds \cup {Null}]
    /\ srv \in {Null} \cup Executions
    /\ g_Instance \in BOOLEAN
    /\ call \in [CallIds -> CallStates]
    /\ asked \subseteq {"acceptCall", "pauseCall", "resumeCall"} \X CallIds
    /\ cmds \in 0..MaxCmds /\ peer \in 0..MaxPeer
    /\ sent \in [Pages -> Nat] /\ answered \in [Pages -> Nat]
    /\ consults \in [Pages -> Nat] /\ dials \in [Pages -> Nat]
    /\ whole \subseteq Pages
    /\ thrown \in [Pages -> SUBSET {"noSession", "noParam"}]
    /\ crashed \in BOOLEAN

Init ==
    /\ page = [p \in Pages |-> "none"]
    /\ up = [p \in Pages |-> <<>>] /\ down = [p \in Pages |-> <<>>]
    /\ SessionS = [p \in Pages |-> [c \in CallIds |-> "none"]]
    /\ cause = [p \in Pages |-> {}]
    /\ callid = [p \in Pages |-> Null]
    /\ srv = Null /\ g_Instance = FALSE
    /\ call = [c \in CallIds |-> "free"] /\ asked = {}
    /\ cmds = 0 /\ peer = 0
    /\ sent = [p \in Pages |-> 0] /\ answered = [p \in Pages |-> 0]
    /\ consults = [p \in Pages |-> 0] /\ dials = [p \in Pages |-> 0]
    /\ whole = {} /\ thrown = [p \in Pages |-> {}]
    /\ crashed = FALSE

Exists(p, c) == c # Null /\ SessionS[p][c] # "none"

-----------------------------------------------------------------------------
(* Connections.                                                            *)

\* Connect, up to onopen.  The server's object becomes g_Instance.
Connect(p) ==
    /\ ~crashed /\ srv = Null /\ page[p] = "none"
    /\ page' = [page EXCEPT ![p] = "open"]
    /\ g_Instance' = TRUE
    /\ whole' = IF \E c \in CallIds : call[c] \in Live THEN whole ELSE whole \cup {p}
    /\ UNCHANGED <<up, down, pageVars, srv, sdkVars, cmds, peer, sent,
                   answered, consults, dials, thrown, crashed>>

\* The page is left.  Its object's destructor clears g_Instance for all.
Close(p) ==
    /\ ~crashed /\ srv = Null /\ page[p] = "open"
    /\ page' = [page EXCEPT ![p] = "closed"]
    /\ up' = [up EXCEPT ![p] = <<>>] /\ down' = [down EXCEPT ![p] = <<>>]
    /\ g_Instance' = FALSE
    /\ UNCHANGED <<pageVars, srv, sdkVars, cmds, peer, histVars, crashed>>

-----------------------------------------------------------------------------
(* The library's functions, called by the user of a page.                  *)

\* doSend for a sequence of commands, each <<name, callid>>.
DoSend(p, list) ==
    /\ up' = [up EXCEPT ![p] = @ \o
                 [i \in 1..Len(list) |->
                     [cmd |-> list[i][1], callid |-> list[i][2], n |-> sent[p] + i]]]
    /\ sent' = [sent EXCEPT ![p] = @ + Len(list)]

UserCalls(p) ==
    /\ ~crashed /\ page[p] = "open" /\ cmds < MaxCmds
    /\ cmds' = cmds + 1
    /\ UNCHANGED <<page, down, cause, callid, srv, g_Instance, sdkVars, peer,
                   answered, dials, whole, thrown, crashed>>

\* The functions that only send their command.
Plain(p, name) ==
    /\ UserCalls(p) /\ DoSend(p, <<<<name, Null>>>>)
    /\ UNCHANGED <<SessionS, consults>>

MakeCall(p) ==
    /\ UserCalls(p) /\ DoSend(p, <<<<"makeCall", Null>>>>)
    /\ UNCHANGED <<SessionS, consults>>

\* Mutant: the name of the command is misspelt.
OnCallTypo(p, name, c) ==
    /\ c = Null => name = "releaseCall"
    /\ UserCalls(p) /\ DoSend(p, <<<<"releasecall", c>>>>)
    /\ UNCHANGED <<SessionS, consults>>

\* acceptCall, pauseCall, resumeCall and releaseCall; the last one without a
\* callid stands for all calls.
OnCall(p, name, c) ==
    /\ c = Null => name = "releaseCall"
    /\ UserCalls(p) /\ DoSend(p, <<<<name, c>>>>)
    /\ UNCHANGED <<SessionS, consults>>

ConsultationCall(p, c) ==
    /\ Exists(p, c)
    /\ UserCalls(p) /\ DoSend(p, <<<<"pauseCall", c>>>>)
    /\ SessionS' = [SessionS EXCEPT ![p][c] = "CONSULTATIONING"]
    /\ consults' = [consults EXCEPT ![p] = @ + 1]

\* The statuses of two calls, where the page has a session for them.
Mark(p, a, b, status) ==
    SessionS' = [SessionS EXCEPT ![p] =
        [c \in CallIds |-> IF c \in {a, b} /\ Exists(p, c) THEN status ELSE @[c]]]

\* A command about a call, if the page has a session for it.
IfExists(p, name, c) == IF Exists(p, c) THEN <<<<name, c>>>> ELSE <<>>

ReconnectCall(p, activeCall, heldCall) ==
    /\ UserCalls(p)
    /\ Mark(p, activeCall, heldCall, "RECONNECTING")
    /\ DoSend(p, IfExists(p, "releaseCall", activeCall)
                    \o IfExists(p, "resumeCall", heldCall))
    /\ UNCHANGED consults

AlternateCall(p, activeCall, otherCall) ==
    /\ UserCalls(p)
    /\ Mark(p, activeCall, otherCall, "ALTERNATEING")
    /\ DoSend(p, IfExists(p, "pauseCall", activeCall)
                    \o IfExists(p, "resumeCall", otherCall))
    /\ UNCHANGED consults

TransferMeeting(p, otherCall, activeCall) ==
    /\ UserCalls(p)
    /\ Mark(p, activeCall, otherCall, "CONFERENCEING")
    /\ DoSend(p, <<<<"transferMeeting",
                     IF otherCall # Null THEN otherCall ELSE activeCall>>>>)
    /\ UNCHANGED consults

-----------------------------------------------------------------------------
(* UCClientWSclient::OnMessage, on the service thread.                     *)

Reply(p, m) ==
    down' = [down EXCEPT ![p] = Append(@,
        [cmdresult |-> m.cmd, param |-> m.cmd \in AnsweredWithParam, n |-> m.n])]

\* The requests the SDK acts on later, and the state of the call they need.
Requests == {[cmd |-> "acceptCall", from |-> "incoming"],
             [cmd |-> "pauseCall",  from |-> "talking"],
             [cmd |-> "resumeCall", from |-> "held"]}

Takes(p) == ~crashed /\ srv = Null /\ page[p] = "open" /\ up[p] # <<>>

\* What the SDK is asked to do; it may also refuse.
Request(m) ==
    \/ \E r \in Requests :
          /\ m.cmd = r.cmd /\ m.callid \in CallIds /\ call[m.callid] = r.from
          /\ asked' = asked \cup {<<m.cmd, m.callid>>}
    \/ UNCHANGED asked

\* Mutant: a request that the SDK accepts is left to its event to answer.
OnMessageSilent(p) ==
    /\ Takes(p)
    /\ LET m == Head(up[p]) IN
       /\ m.cmd \notin {"makeCall", "getCurrentCall"}
       /\ Request(m)
       /\ IF asked' = asked THEN Reply(p, m) ELSE UNCHANGED down
    /\ up' = [up EXCEPT ![p] = Tail(@)]
    /\ UNCHANGED <<page, pageVars, srv, g_Instance, call, cmds, peer, histVars, crashed>>

\* Every command but the two that ask for the current call: the SDK function
\* is called and the result is sent in one go.
OnMessage(p) ==
    /\ Takes(p)
    /\ LET m == Head(up[p]) IN
       /\ m.cmd \notin {"makeCall", "getCurrentCall"}
       /\ Request(m)
       /\ Reply(p, m)
    /\ up' = [up EXCEPT ![p] = Tail(@)]
    /\ UNCHANGED <<page, pageVars, srv, g_Instance, call, cmds, peer, histVars, crashed>>

\* makeCall and getCurrentCall read the current call twice: for the test ...
OnMakeCall(p) ==
    /\ Takes(p)
    /\ LET m == Head(up[p]) IN
       /\ m.cmd \in {"makeCall", "getCurrentCall"}
       /\ srv' = [page |-> p, at |-> "check", msg |-> m]
       /\ \/ /\ m.cmd = "makeCall"
             /\ \E c \in CallIds : /\ call[c] = "free"
                                   /\ call' = [call EXCEPT ![c] = "calling"]
          \/ UNCHANGED call
    /\ up' = [up EXCEPT ![p] = Tail(@)]
    /\ UNCHANGED <<page, down, pageVars, g_Instance, asked, cmds, peer, histVars, crashed>>

\* getCurrentCall of the SDK: a call, or null when there is none.
SomeCurrentCall == \E c \in CallIds : call[c] \in Live

\* Mutant: without a current call the command is not answered.
CheckCurrentCallSilent ==
    /\ ~crashed /\ srv # Null /\ srv.at = "check"
    /\ \/ SomeCurrentCall /\ srv' = [srv EXCEPT !.at = "use"]
       \/ ~SomeCurrentCall /\ srv' = Null
    /\ UNCHANGED <<page, up, down, pageVars, g_Instance, sdkVars, cmds, peer,
                   histVars, crashed>>

CheckCurrentCall ==
    /\ ~crashed /\ srv # Null /\ srv.at = "check"
    /\ \/ SomeCurrentCall /\ srv' = [srv EXCEPT !.at = "use"] /\ UNCHANGED down
       \/ ~SomeCurrentCall /\ srv' = Null /\ Reply(srv.page, srv.msg)
    /\ UNCHANGED <<page, up, pageVars, g_Instance, sdkVars, cmds, peer, histVars, crashed>>

\* ... and for the result, where a null goes into a Json::Value.
UseCurrentCall ==
    /\ ~crashed /\ srv # Null /\ srv.at = "use"
    /\ \/ SomeCurrentCall /\ srv' = Null /\ Reply(srv.page, srv.msg) /\ UNCHANGED crashed
       \/ ~SomeCurrentCall /\ crashed' = TRUE /\ UNCHANGED <<srv, down>>
    /\ UNCHANGED <<page, up, pageVars, g_Instance, sdkVars, cmds, peer, histVars>>

-----------------------------------------------------------------------------
(* The SDK: calls change state and the callback is broadcast.              *)

OpenPages == {p \in Pages : page[p] = "open"}

\* Mutant: an event overtakes what is already queued.
BroadcastFront(e, c, ok) ==
    /\ g_Instance
    /\ down' = [p \in Pages |->
                   IF p \in OpenPages
                   THEN <<[event |-> e, callid |-> c, ok |-> ok]>> \o down[p]
                   ELSE down[p]]
    /\ UNCHANGED whole

\* sonX and onX: every open page gets the event, or none if there is no
\* g_Instance.
Broadcast(e, c, ok) ==
    IF g_Instance
    THEN /\ down' = [p \in Pages |->
                        IF p \in OpenPages
                        THEN Append(down[p], [event |-> e, callid |-> c, ok |-> ok])
                        ELSE down[p]]
         /\ UNCHANGED whole
    ELSE whole' = whole \ OpenPages /\ UNCHANGED down

SdkStep == /\ ~crashed
           /\ UNCHANGED <<page, up, pageVars, srv, g_Instance, cmds, sent,
                          answered, consults, dials, thrown, crashed>>

Incoming(c) ==
    /\ SdkStep /\ call[c] = "free"
    /\ call' = [call EXCEPT ![c] = "incoming"]
    /\ Broadcast("onIncomingCallReceived", c, TRUE)
    /\ UNCHANGED <<asked, peer>>

Alerting(c) ==
    /\ SdkStep /\ call[c] = "calling"
    /\ call' = [call EXCEPT ![c] = "alerting"]
    /\ Broadcast("onCallAlerting", c, TRUE)
    /\ UNCHANGED <<asked, peer>>

\* The called party answers, also without ringing first, or acceptCall works.
Answered(c) ==
    /\ SdkStep
    /\ \/ call[c] \in {"calling", "alerting"}
       \/ call[c] = "incoming" /\ <<"acceptCall", c>> \in asked
    /\ call' = [call EXCEPT ![c] = "talking"]
    /\ asked' = asked \ {<<"acceptCall", c>>}
    /\ Broadcast("onCallAnswered", c, TRUE)
    /\ UNCHANGED peer

\* The outcome of pauseCall and resumeCall, good or bad.
Paused(c, ok) ==
    /\ SdkStep /\ call[c] = "talking" /\ <<"pauseCall", c>> \in asked
    /\ call' = IF ok THEN [call EXCEPT ![c] = "held"] ELSE call
    /\ asked' = asked \ {<<"pauseCall", c>>}
    /\ Broadcast("onCallPaused", c, ok)
    /\ UNCHANGED peer

Resumed(c, ok) ==
    /\ SdkStep /\ call[c] = "held" /\ <<"resumeCall", c>> \in asked
    /\ call' = IF ok THEN [call EXCEPT ![c] = "talking"] ELSE call
    /\ asked' = asked \ {<<"resumeCall", c>>}
    /\ Broadcast("onCallResumed", c, ok)
    /\ UNCHANGED peer

\* The peer holds or retrieves the call (type 1); our side stays as it is.
PeerHolds(c, e) ==
    /\ SdkStep /\ call[c] = "talking" /\ peer < MaxPeer
    /\ peer' = peer + 1
    /\ Broadcast(e, c, TRUE)
    /\ UNCHANGED sdkVars

\* The peer hangs up, releaseCall works, or the call is transferred away.
Released(c) ==
    /\ SdkStep /\ call[c] \in Live
    /\ call' = [call EXCEPT ![c] = "ended"]
    /\ asked' = {r \in asked : r[2] # c}
    /\ Broadcast("onCallReleased", c, TRUE)
    /\ UNCHANGED peer

-----------------------------------------------------------------------------
(* wsonMessage.  An exception ends the handler; the page goes on with the  *)
(* next message.                                                           *)

Next1(p) == Head(down[p])

\* The page handles its next message: cmdresult, or the event e.
Handles(p) ==
    /\ ~crashed /\ page[p] = "open" /\ down[p] # <<>>
    /\ down' = [down EXCEPT ![p] = Tail(@)]
    /\ UNCHANGED <<page, srv, g_Instance, sdkVars, cmds, peer, consults, whole, crashed>>

HandlesEvent(p, e) == Handles(p) /\ "event" \in DOMAIN Next1(p) /\ Next1(p).event = e

Throws(p, what) == thrown' = [thrown EXCEPT ![p] = @ \cup {what}]

OnResult(p) ==
    /\ Handles(p) /\ "cmdresult" \in DOMAIN Next1(p)
    /\ answered' = [answered EXCEPT ![p] = @ + 1]
    /\ IF Next1(p).cmdresult \in ReadsParam /\ ~Next1(p).param
       THEN Throws(p, "noParam") ELSE UNCHANGED thrown
    /\ UNCHANGED <<up, pageVars, sent, dials>>

\* SessionS[callid] = SessionS[callid] || {}
WithSession(p, c) ==
    [SessionS EXCEPT ![p][c] = IF @ = "none" THEN "NULL" ELSE @]

\* Another call is the page's current one.
Second(p, c) == callid[p] # Null /\ callid[p] # c

OnCallAlerting(p) ==
    /\ HandlesEvent(p, "onCallAlerting")
    /\ LET c == Next1(p).callid IN
       /\ SessionS' = WithSession(p, c)
       /\ cause' = IF Second(p, c) THEN [cause EXCEPT ![p] = @ \cup {c}] ELSE cause
       /\ callid' = [callid EXCEPT ![p] = c]
    /\ UNCHANGED <<up, sent, answered, dials, thrown>>

OnCallAnswered(p) ==
    /\ HandlesEvent(p, "onCallAnswered")
    /\ LET c == Next1(p).callid IN
       /\ SessionS' = WithSession(p, c)
       /\ cause' = IF Second(p, c) THEN [cause EXCEPT ![p] = @ \cup {c}] ELSE cause
       /\ callid' = [callid EXCEPT ![p] = c]
    /\ UNCHANGED <<up, sent, answered, dials, thrown>>

OnIncomingCallReceived(p) ==
    /\ HandlesEvent(p, "onIncomingCallReceived")
    /\ SessionS' = WithSession(p, Next1(p).callid)
    /\ callid' = [callid EXCEPT ![p] = Next1(p).callid]
    /\ UNCHANGED <<up, cause, sent, answered, dials, thrown>>

\* Mutant: the session stays.
OnCallReleasedKept(p) ==
    /\ HandlesEvent(p, "onCallReleased")
    /\ LET c == Next1(p).callid IN
       callid' = IF callid[p] = c THEN [callid EXCEPT ![p] = Null] ELSE callid
    /\ UNCHANGED <<up, SessionS, cause, sent, answered, dials, thrown>>

\* Mutant: callid stays.
OnCallReleasedCurrent(p) ==
    /\ HandlesEvent(p, "onCallReleased")
    /\ LET c == Next1(p).callid IN
       /\ SessionS' = [SessionS EXCEPT ![p][c] = "none"]
       /\ cause' = [cause EXCEPT ![p] = @ \ {c}]
    /\ UNCHANGED <<up, callid, sent, answered, dials, thrown>>

OnCallReleased(p) ==
    /\ HandlesEvent(p, "onCallReleased")
    /\ LET c == Next1(p).callid IN
       /\ SessionS' = [SessionS EXCEPT ![p][c] = "none"]
       /\ cause' = [cause EXCEPT ![p] = @ \ {c}]
       /\ callid' = IF callid[p] = c THEN [callid EXCEPT ![p] = Null] ELSE callid
    /\ UNCHANGED <<up, sent, answered, dials, thrown>>

\* In a consultation the second number is dialled now; neither the type nor
\* the reason of the event is looked at.
OnCallPaused(p) ==
    /\ HandlesEvent(p, "onCallPaused")
    /\ LET status == SessionS[p][Next1(p).callid] IN
       /\ IF status = "none" THEN Throws(p, "noSession") ELSE UNCHANGED thrown
       /\ IF status = "CONSULTATIONING"
          THEN /\ DoSend(p, <<<<"setUserData", Null>>, <<"makeCall", Null>>>>)
               /\ dials' = [dials EXCEPT ![p] = @ + 1]
          ELSE UNCHANGED <<up, sent, dials>>
    /\ UNCHANGED <<pageVars, answered>>

OnCallResumed(p) ==
    /\ HandlesEvent(p, "onCallResumed")
    /\ LET c == Next1(p).callid IN
       /\ callid' = [callid EXCEPT ![p] = c]
       /\ IF SessionS[p][c] = "none" THEN Throws(p, "noSession") ELSE UNCHANGED thrown
       /\ SessionS' = IF SessionS[p][c] = "RECONNECTING"
                      THEN [SessionS EXCEPT ![p][c] = "CONNECTED"] ELSE SessionS
    /\ UNCHANGED <<up, cause, sent, answered, dials>>

-----------------------------------------------------------------------------
\* The callids a user can name: those the page has told of, or none.
Known(p) == {c \in CallIds : Exists(p, c)} \cup {Null}

User(p) ==
    \/ Connect(p) \/ Close(p)
    \/ "makeCall" \in UserCmds /\ MakeCall(p)
    \/ \E name \in UserCmds \ CallCmds : Plain(p, name)
    \/ \E c \in Known(p) :
          \/ \E name \in (UserCmds \cap CallCmds) \ {"makeCall"} : OnCall(p, name, c)
          \/ ConsultationCall(p, c)
          \/ \E d \in Known(p) \ {c} : \/ ReconnectCall(p, c, d)
                                       \/ AlternateCall(p, c, d)
                                       \/ TransferMeeting(p, c, d)

Server == \/ \E p \in Pages : OnMessage(p) \/ OnMakeCall(p)
          \/ CheckCurrentCall \/ UseCurrentCall

Sdk(c) ==
    \/ Incoming(c) \/ Alerting(c) \/ Answered(c) \/ Released(c)
    \/ \E ok \in BOOLEAN : Paused(c, ok) \/ Resumed(c, ok)
    \/ \E e \in {"onCallPaused", "onCallResumed"} : PeerHolds(c, e)

Page(p) == \/ OnResult(p)
           \/ OnCallAlerting(p) \/ OnCallAnswered(p) \/ OnIncomingCallReceived(p)
           \/ OnCallReleased(p) \/ OnCallPaused(p) \/ OnCallResumed(p)

\* Everybody waits for a user or a peer, or the process has crashed.
Quiet == /\ \/ crashed
            \/ srv = Null /\ \A p \in OpenPages : up[p] = <<>> /\ down[p] = <<>>
         /\ UNCHANGED vars

Next == \/ \E p \in Pages : User(p) \/ Page(p)
        \/ \E c \in CallIds : Sdk(c)
        \/ Server
        \/ Quiet

Spec == Init /\ [][Next]_vars

\* The service thread and the pages' event loops keep running; nothing
\* obliges users or the SDK to act.
FairSpec == Spec /\ WF_vars(Server) /\ \A p \in Pages : WF_vars(Page(p))

-----------------------------------------------------------------------------
IsEvent(m) == "event" \in DOMAIN m

\* The page was sent every event, and has handled those about c.
Settled(p, c) ==
    /\ page[p] = "open" /\ p \in whole
    /\ \A i \in 1..Len(down[p]) : IsEvent(down[p][i]) => down[p][i].callid # c

\* A page that was sent every event and has handled them knows exactly the
\* calls that exist, whichever page made them: SessionS neither misses one
\* nor keeps one that has ended.
SessionsTracked ==
    \A p \in Pages, c \in CallIds : Settled(p, c) =>
        (Exists(p, c) <=> call[c] \in Live \ {"calling"})

\* On such a page UCClient.callid always has a session, at any moment, so
\* that the functions called with it find one.
CurrentHasSession ==
    \A p \in whole : callid[p] # Null => Exists(p, callid[p])

\* The handlers of onCallPaused and onCallResumed use the session without a
\* test; only a page that missed an event can find none and throw.
NoSessionOnlyLate == \A p \in whole : "noSession" \notin thrown[p]

\* What is under way on a page's connection, oldest first: results and
\* events, the command in execution, commands.
Executing(p) == IF srv # Null /\ srv.page = p THEN <<srv.msg>> ELSE <<>>
InTransit(p) == down[p] \o Executing(p) \o up[p]

\* But for the events, line stands for the commands a + 1 to z, each once and
\* in order.
StandsFor(line, a, z) ==
    LET pending == {i \in 1..Len(line) : ~IsEvent(line[i])}
    IN  /\ {line[i].n : i \in pending} = (a + 1)..z
        /\ \A i, j \in pending : i < j => line[i].n < line[j].n

\* Results carry no request id, so the page must get exactly one for each
\* command, in the order of the commands, whatever events come between: what
\* is under way stands for the commands it has no result of.
RepliesInOrder ==
    \A p \in OpenPages : StandsFor(InTransit(p), answered[p], sent[p])

\* Every command is answered in the end, unless the page closes first or the
\* process crashes.
AllAnswered ==
    \A p \in Pages :
        (sent[p] > answered[p])
            ~> (sent[p] = answered[p] \/ page[p] = "closed" \/ crashed)

\* wsonMessage has a case for the result of each command and reads its
\* param.return: the server must send one.
EveryResultReadable == \A p \in Pages : "noParam" \notin thrown[p]

\* pauseCall is documented as hold: one consultation dials once, and a later
\* hold of the same call does not dial again.
ConsultationDialsOnce == \A p \in Pages : dials[p] <= consults[p]
=============================================================================
