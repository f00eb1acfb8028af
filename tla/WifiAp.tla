------------------------------- MODULE WifiAp -------------------------------
(***************************************************************************)
(* The soft-AP tutorial                                                    *)
(* (src/app/Entry/03/03_Wifi_Ap/b03_03_Wifi_Ap.c): WifiAPTask sets up a    *)
(* hotspot and echoes UDP datagrams; the handlers of the Wi-Fi service     *)
(* count stations, the one for a new station in a task that it creates.    *)
(*                                                                         *)
(* The tasks share `error`, the tasks and the handlers g_apEnableSuccess,  *)
(* without a lock.  The menu can start the tutorial again while it runs.   *)
(***************************************************************************)
EXTENDS Integers, Sequences, FiniteSets

CONSTANTS
    ApTasks,      \* the WifiAPTasks, one for each launch
    JoinTasks,    \* HotspotStaJoinTasks that can run at the same time
    Stations,     \* the stations in range, each also a UDP client
    BufSize,      \* sizeof(recvBuf), 512
    MaxJoins      \* bound: stations that join, all together

NoTask == "none"

ASSUME ApAssumption ==
    MaxJoins \in Nat /\ BufSize \in Nat \ {0} /\ NoTask \notin ApTasks /\ IsFiniteSet(JoinTasks)

VARIABLES
    apPc, joinPc, counted,        \* the tasks, and the counter a join task has read
    error, g_apEnableSuccess,     \* the globals: a call succeeded; the stations
    handlerPc, handlerCounted,    \* the leave handler
    registered, active, dhcps,    \* the Wi-Fi service and the DHCP server
    joined, staEvents, joins,     \* stations, and what the handlers were not told yet
    bound,                        \* lwIP: the task that has port 8888
    port, recvBuf, peer,         \* datagrams at the port; locals of the task
    sent, got,                    \* what a client sent, and what came back
    apReliable,                   \* does not change: no call fails
    disturbed                     \* history: see CountsStations

countVars == <<joinPc, counted, g_apEnableSuccess, handlerPc, handlerCounted, joined, staEvents, joins>>
setupVars == <<registered, active, dhcps, bound, apReliable>>
echoVars == <<port, recvBuf, peer, sent, got>>
apVars == <<apPc, error, disturbed, countVars, setupVars, echoVars>>

NoReply == <<"none">>

\* What a client sends; 0 is the zero byte.  Nothing, a text with a zero, and texts
\* that just fit into the buffer with their zero, without it, or not at all.
Datagrams(c) ==
    {<<>>, <<c, "0", c>>} \cup {[k \in 1 .. n |-> c] : n \in BufSize - 1 .. BufSize + 1}

ApInit ==
    /\ apPc = [t \in ApTasks |-> "idle"]
    /\ joinPc = [j \in JoinTasks |-> "idle"] /\ counted = [j \in JoinTasks |-> 0]
    /\ error = TRUE /\ g_apEnableSuccess = 0
    /\ handlerPc = "idle" /\ handlerCounted = 0
    /\ registered = FALSE /\ active = FALSE /\ dhcps = FALSE
    /\ joined = {} /\ staEvents = <<>> /\ joins = 0
    /\ bound = NoTask
    /\ port = <<>> /\ recvBuf = [t \in ApTasks |-> <<>>] /\ peer = [t \in ApTasks |-> NoTask]
    /\ sent = [c \in Stations |-> NoReply] /\ got = [c \in Stations |-> NoReply]
    /\ apReliable \in BOOLEAN /\ disturbed = FALSE

MayFail == IF apReliable THEN {TRUE} ELSE BOOLEAN
GoAp(t, next) == apPc' = [apPc EXCEPT ![t] = next]

----------------------------------------------------------------------------
(* WifiAPTask *)

ApStart(t) ==
    /\ apPc[t] = "idle"
    /\ GoAp(t, "register")
    /\ UNCHANGED <<error, disturbed, countVars, setupVars, echoVars>>

\* A call whose result goes to the global.
CallInto(ok) ==
    /\ error' = ok
    /\ disturbed' = (disturbed \/ (~ok /\ \E j \in JoinTasks : joinPc[j] = "test"))

\* The test of the global, which the other tasks may have overwritten.
TestError(t, here, next) ==
    /\ apPc[t] = here
    /\ GoAp(t, IF error THEN next ELSE "returned")
    /\ UNCHANGED <<error, disturbed, countVars, setupVars, echoVars>>

Register(t) ==
    /\ apPc[t] = "register"
    /\ \E ok \in MayFail : CallInto(ok) /\ registered' = (registered \/ ok)
    /\ GoAp(t, "registered")
    /\ UNCHANGED <<countVars, active, dhcps, bound, apReliable, echoVars>>

SetHotspotConfig(t) ==
    /\ apPc[t] = "config"
    /\ \E ok \in MayFail : CallInto(ok)
    /\ GoAp(t, "configured")
    /\ UNCHANGED <<countVars, setupVars, echoVars>>

EnableHotspot(t) ==
    /\ apPc[t] = "enable"
    /\ \E ok \in MayFail : CallInto(ok) /\ active' = (active \/ ok)
    /\ GoAp(t, "enabled")
    /\ UNCHANGED <<countVars, registered, dhcps, bound, apReliable, echoVars>>

\* IsHotspotActive, ap0 and its address, and the DHCP server, which is stopped
\* first; without ap0 the task goes on without them.
StartDhcps(t) ==
    /\ apPc[t] = "dhcps"
    /\ \/ active /\ dhcps' = TRUE /\ GoAp(t, "socket")
       \/ ~apReliable /\ active /\ UNCHANGED dhcps /\ GoAp(t, "socket")
       \/ (~apReliable \/ ~active) /\ UNCHANGED dhcps /\ GoAp(t, "returned")
       \/ ~apReliable /\ dhcps' = FALSE /\ active /\ GoAp(t, "returned")
    /\ UNCHANGED <<error, disturbed, countVars, registered, active, bound, apReliable, echoVars>>

Socket(t) ==
    /\ apPc[t] = "socket"
    /\ \E ok \in MayFail : GoAp(t, IF ok THEN "bind" ELSE "returned")
    /\ UNCHANGED <<error, disturbed, countVars, setupVars, echoVars>>

\* Mutant of Bind: its result is not tested.
BindAnyway(t) ==
    /\ apPc[t] = "bind"
    /\ bound' = (IF bound = NoTask THEN t ELSE bound)
    /\ GoAp(t, "receive")
    /\ UNCHANGED <<error, disturbed, countVars, registered, active, dhcps, apReliable, echoVars>>

\* The port can be bound once; a socket that is not bound stays open.
Bind(t) ==
    /\ apPc[t] = "bind"
    /\ \/ bound = NoTask /\ bound' = t /\ GoAp(t, "receive")
       \/ (~apReliable \/ bound # NoTask) /\ UNCHANGED bound /\ GoAp(t, "returned")
    /\ UNCHANGED <<error, disturbed, countVars, registered, active, dhcps, apReliable, echoVars>>

\* What recvfrom takes of a datagram; the rest is lost.
Taken(text) == SubSeq(text, 1, IF Len(text) < BufSize THEN Len(text) ELSE BufSize)
Into(buf, text) == Taken(text) \o SubSeq(buf, Len(Taken(text)) + 1, Len(buf))

ServeFails(t) ==
    /\ ~apReliable
    /\ GoAp(t, "returned")
    /\ UNCHANGED <<recvBuf, peer>>

\* Mutant of the action that follows: an empty datagram ends the task.
ReceiveNotEmpty(t) ==
    /\ apPc[t] = "receive"
    /\ \/ /\ bound = t /\ port # <<>>
          /\ recvBuf' = [recvBuf EXCEPT ![t] = Into(@, sent[Head(port)])]
          /\ peer' = [peer EXCEPT ![t] = Head(port)]
          /\ port' = Tail(port)
          /\ GoAp(t, IF recvBuf'[t] = <<>> THEN "returned" ELSE "send")
       \/ ServeFails(t) /\ UNCHANGED port
    /\ UNCHANGED <<error, disturbed, countVars, setupVars, sent, got>>

\* recvfrom, which waits; its failure ends the task with the socket open.
Receive(t) ==
    /\ apPc[t] = "receive"
    /\ \/ /\ bound = t /\ port # <<>>
          /\ recvBuf' = [recvBuf EXCEPT ![t] = Into(@, sent[Head(port)])]
          /\ peer' = [peer EXCEPT ![t] = Head(port)]
          /\ port' = Tail(port)
          /\ GoAp(t, "send")
       \/ ServeFails(t) /\ UNCHANGED port
    /\ UNCHANGED <<error, disturbed, countVars, setupVars, sent, got>>

\* strlen: the text ends at its first zero byte.
Text(buf) ==
    LET zeros == {k \in 1 .. Len(buf) : buf[k] = "0"}
    IN  IF zeros = {} THEN buf ELSE SubSeq(buf, 1, (CHOOSE z \in zeros : \A y \in zeros : z <= y) - 1)

\* A buffer that is full of other bytes has no zero: strlen reads on, and what comes
\* back goes on with whatever lies behind the array.
Beyond(buf) == IF Len(Text(buf)) < BufSize THEN {<<>>} ELSE {<<>>, <<"stray">>}

\* Mutant of the action that follows: no memset.
SendToKeeps(t) ==
    /\ apPc[t] = "send"
    /\ \/ /\ \E past \in Beyond(recvBuf[t]) : got' = [got EXCEPT ![peer[t]] = Text(recvBuf[t]) \o past]
          /\ GoAp(t, "receive")
          /\ UNCHANGED <<recvBuf, peer>>
       \/ ServeFails(t) /\ UNCHANGED got
    /\ UNCHANGED <<error, disturbed, countVars, setupVars, port, sent>>

\* sendto, and the memset of the next round.
SendTo(t) ==
    /\ apPc[t] = "send"
    /\ \/ /\ \E past \in Beyond(recvBuf[t]) : got' = [got EXCEPT ![peer[t]] = Text(recvBuf[t]) \o past]
          /\ recvBuf' = [recvBuf EXCEPT ![t] = <<>>]
          /\ peer' = [peer EXCEPT ![t] = NoTask]
          /\ GoAp(t, "receive")
       \/ ServeFails(t) /\ UNCHANGED got
    /\ UNCHANGED <<error, disturbed, countVars, setupVars, port, sent>>

WifiAPTask(t) ==
    \/ Register(t) \/ TestError(t, "registered", "config")
    \/ SetHotspotConfig(t) \/ TestError(t, "configured", "enable")
    \/ EnableHotspot(t) \/ TestError(t, "enabled", "dhcps")
    \/ StartDhcps(t) \/ Socket(t) \/ Bind(t) \/ Receive(t) \/ SendTo(t)

\* A client, once it has an answer (or gave up), sends again.
ClientSends(c) ==
    /\ bound # NoTask
    /\ \A n \in 1 .. Len(port) : port[n] # c
    /\ \A t \in ApTasks : apPc[t] = "send" => peer[t] # c
    /\ \E d \in Datagrams(c) : sent' = [sent EXCEPT ![c] = d]
    /\ got' = [got EXCEPT ![c] = NoReply]
    /\ port' = Append(port, c)
    /\ UNCHANGED <<apPc, error, disturbed, countVars, setupVars, recvBuf, peer>>

----------------------------------------------------------------------------
(* The stations and their handlers *)

StationJoins(c) ==
    /\ active /\ c \notin joined /\ joins < MaxJoins
    /\ joined' = joined \cup {c} /\ joins' = joins + 1
    /\ staEvents' = IF registered THEN Append(staEvents, "join") ELSE staEvents
    /\ disturbed' = (disturbed \/ ~registered)
    /\ UNCHANGED <<apPc, error, joinPc, counted, g_apEnableSuccess, handlerPc, handlerCounted,
                   setupVars, echoVars>>

StationLeaves(c) ==
    /\ c \in joined
    /\ joined' = joined \ {c}
    /\ staEvents' = IF registered THEN Append(staEvents, "leave") ELSE staEvents
    /\ disturbed' = (disturbed \/ ~registered)
    /\ UNCHANGED <<apPc, error, joinPc, counted, g_apEnableSuccess, handlerPc, handlerCounted, joins,
                   setupVars, echoVars>>

HandlerIdle == handlerPc = "idle" /\ staEvents # <<>>

\* The task is created, or it is not and only a message says so.
OnHotspotStaJoinHandler ==
    /\ HandlerIdle /\ Head(staEvents) = "join"
    /\ staEvents' = Tail(staEvents)
    /\ \/ /\ \E j \in JoinTasks : joinPc[j] = "idle" /\ joinPc' = [joinPc EXCEPT ![j] = "list"]
          /\ UNCHANGED disturbed
       \/ /\ ~apReliable \/ \A j \in JoinTasks : joinPc[j] # "idle"
          /\ disturbed' = TRUE /\ UNCHANGED joinPc
    /\ UNCHANGED <<apPc, error, counted, g_apEnableSuccess, handlerPc, handlerCounted, joined, joins,
                   setupVars, echoVars>>

\* g_apEnableSuccess--, in two steps; without an info only a message.
OnHotspotStaLeaveHandler ==
    /\ HandlerIdle /\ Head(staEvents) = "leave"
    /\ staEvents' = Tail(staEvents)
    /\ \/ handlerPc' = "store" /\ handlerCounted' = g_apEnableSuccess /\ UNCHANGED disturbed
       \/ ~apReliable /\ disturbed' = TRUE /\ UNCHANGED <<handlerPc, handlerCounted>>
    /\ UNCHANGED <<apPc, error, joinPc, counted, g_apEnableSuccess, joined, joins, setupVars, echoVars>>

Overlaps(writers) == disturbed' = (disturbed \/ writers > 1)
Writers == Cardinality({j \in JoinTasks : joinPc[j] = "store"}) + (IF handlerPc = "store" THEN 1 ELSE 0)

\* Mutant of the action that follows: the counter does not go below zero.
LeaveStoredAboveZero ==
    /\ handlerPc = "store"
    /\ handlerPc' = "idle"
    /\ g_apEnableSuccess' = IF handlerCounted > 0 THEN handlerCounted - 1 ELSE 0
    /\ handlerCounted' = 0
    /\ Overlaps(Writers)
    /\ UNCHANGED <<apPc, error, joinPc, counted, joined, staEvents, joins, setupVars, echoVars>>

LeaveStored ==
    /\ handlerPc = "store"
    /\ handlerPc' = "idle"
    /\ g_apEnableSuccess' = handlerCounted - 1
    /\ handlerCounted' = 0
    /\ Overlaps(Writers)
    /\ UNCHANGED <<apPc, error, joinPc, counted, joined, staEvents, joins, setupVars, echoVars>>

GoJoin(j, next) == joinPc' = [joinPc EXCEPT ![j] = next]
JoinSame == UNCHANGED <<apPc, handlerPc, handlerCounted, joined, staEvents, joins, setupVars, echoVars>>

GetStationList(j) ==
    /\ joinPc[j] = "list"
    /\ GoJoin(j, "test")
    /\ \E ok \in MayFail : error' = ok /\ disturbed' = (disturbed \/ ~ok)
    /\ UNCHANGED <<counted, g_apEnableSuccess>> /\ JoinSame

TestList(j) ==
    /\ joinPc[j] = "test"
    /\ GoJoin(j, IF error THEN "load" ELSE "idle")
    /\ UNCHANGED <<error, disturbed, counted, g_apEnableSuccess>> /\ JoinSame

LoadCount(j) ==
    /\ joinPc[j] = "load"
    /\ GoJoin(j, "store")
    /\ counted' = [counted EXCEPT ![j] = g_apEnableSuccess]
    /\ UNCHANGED <<error, disturbed, g_apEnableSuccess>> /\ JoinSame

StoreCount(j) ==
    /\ joinPc[j] = "store"
    /\ GoJoin(j, "idle")
    /\ g_apEnableSuccess' = counted[j] + 1
    /\ counted' = [counted EXCEPT ![j] = 0]
    /\ Overlaps(Writers)
    /\ UNCHANGED error /\ JoinSame

\* Priority 24: it runs only while no WifiAPTask, priority 25, is between two calls.
HotspotStaJoinTask(j) ==
    /\ \A t \in ApTasks : apPc[t] \notin {"registered", "configured", "enabled"}
    /\ GetStationList(j) \/ TestList(j) \/ LoadCount(j) \/ StoreCount(j)

----------------------------------------------------------------------------
ApHandlers == OnHotspotStaJoinHandler \/ OnHotspotStaLeaveHandler \/ LeaveStored
ApTasksStep == \E t \in ApTasks : WifiAPTask(t)
JoinStep == \E j \in JoinTasks : HotspotStaJoinTask(j)
Clients == \E c \in Stations : ClientSends(c)
StationsMove == \E c \in Stations : StationJoins(c) \/ StationLeaves(c)

ApNext == (\E t \in ApTasks : ApStart(t)) \/ ApTasksStep \/ ApHandlers \/ JoinStep

(* When no task and no handler has anything left to do, the counter is the *)
(* number of stations, also when a station left before the task that       *)
(* counts it ran; unless (disturbed) an event came before the handlers     *)
(* were there, a task could not be created, GetStationList failed, a       *)
(* failing call of WifiAPTask wrote `error` under a join task, or two      *)
(* changes of the counter overlapped (b03_03_Wifi_Ap.c:200 and 241).       *)
CountsStations ==
    /\ staEvents = <<>> /\ handlerPc = "idle" /\ ~disturbed
    /\ \A j \in JoinTasks : joinPc[j] = "idle"
    => g_apEnableSuccess = Cardinality(joined)

(* Whatever a second launch does, at most one task serves the port, and    *)
(* it is the one that bound it (b03_03_Wifi_Ap.c:146).                     *)
OneServer == \A t \in ApTasks : apPc[t] \in {"receive", "send"} => bound = t

(* What a client gets back is its own last datagram up to its first zero   *)
(* byte, and nothing of an earlier, longer datagram of another client      *)
(* (b03_03_Wifi_Ap.c:161 to 170).  Only a text that leaves no room for its *)
(* terminating zero comes back otherwise: cut to the size of the buffer,   *)
(* and then whatever strlen finds behind it.                               *)
EchoIsOwn ==
    \A c \in Stations : got[c] # NoReply =>
        LET own == Text(sent[c])
        IN  IF Len(own) < BufSize
            THEN got[c] = own
            ELSE SubSeq(got[c], 1, BufSize) = SubSeq(own, 1, BufSize)

(* When no call fails, every datagram at the port is answered, an empty    *)
(* one too, also when the tutorial is started again meanwhile.             *)
EchoAnswered ==
    \A c \in Stations : (apReliable /\ \E n \in 1 .. Len(port) : port[n] = c) ~> got[c] # NoReply
=============================================================================
