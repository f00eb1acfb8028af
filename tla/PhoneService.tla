---------------------------- MODULE PhoneService ----------------------------
(***************************************************************************)
(* The phone app: the page (index.js), the ability it calls                *)
(* (ServiceAbility.java) and the ability's sockets and listener threads    *)
(* (BasicSocket.java).                                                     *)
(*                                                                         *)
(* The page is one thread; its calls are asynchronous, so that the user    *)
(* and the ability's events can act between a call and its reply.  The     *)
(* ability serves calls in order, in a thread of its own; each subscription *)
(* starts one more thread that reads the socket and calls the page back.   *)
(* BasicSocket objects and threads are numbered in the order they are made. *)
(***************************************************************************)
EXTENDS Integers, Sequences, FiniteSets

CONSTANTS
    MaxCreates,   \* bound: connections asked for
    MaxCalls      \* bound: calls in flight when the user acts

ASSUME PhoneAssumption == {MaxCreates, MaxCalls} \subseteq Nat \ {0}

VARIABLES
    startflag, client_statu, subscribe_statu, dialog,   \* the page
    patient,      \* does not change: the user waits for the answer before tapping again
    creates,      \* number of creatclient calls
    calls,        \* calls on their way to the ability
    inbox,        \* replies and events on their way to the page
    basicSocket, remoteObjectHandlers,   \* the ability: 0 is null; number of subscribers
    serving,      \* the call being served
    made, socket, out, conn,   \* the BasicSocket objects, their fields, their connection
    started, at, of,           \* the listener threads, where they stand, whose they are
    fault         \* an exception that nothing catches

page    == <<startflag, client_statu, subscribe_statu, dialog, creates, patient>>
fields  == <<made, socket, out, conn>>
ability == <<basicSocket, remoteObjectHandlers, serving>>
threads == <<started, at, of>>
vars == <<page, calls, inbox, ability, fields, threads, fault>>

Objects == 1 .. MaxCreates

Init ==
    /\ startflag = FALSE /\ client_statu = FALSE /\ subscribe_statu = FALSE
    /\ dialog = FALSE /\ creates = 0 /\ patient \in BOOLEAN
    /\ calls = <<>> /\ inbox = <<>>
    /\ basicSocket = 0 /\ remoteObjectHandlers = 0 /\ serving = "none"
    /\ made = 0 /\ started = 0
    /\ socket = [b \in Objects |-> "null"] /\ out = [b \in Objects |-> "null"]
    /\ conn = [b \in Objects |-> "none"]
    /\ at = [t \in Objects |-> "none"] /\ of = [t \in Objects |-> 0]
    /\ fault = "none"

Quiet == calls = <<>> /\ inbox = <<>> /\ serving = "none"

CallAbility(code) == calls' = Append(calls, code)
Reply(code, ok) == inbox' = Append(inbox, [from |-> code, ok |-> ok])

----------------------------------------------------------------------------
(* The user and the page *)

CanAct == Len(calls) + Len(inbox) < MaxCalls /\ fault = "none"

\* startdevice: unsubscribe, or the dialog that asks for the address.
Tap ==
    /\ CanAct /\ ~dialog /\ (patient => Quiet)
    /\ IF startflag
       THEN CallAbility("UNSUBSCRIBE") /\ UNCHANGED dialog
       ELSE dialog' = TRUE /\ UNCHANGED calls
    /\ UNCHANGED <<startflag, client_statu, subscribe_statu, creates, patient, inbox, ability, fields,
                   threads, fault>>

\* getIPAddress closes the dialog and calls creatclient; cancel only closes it.
Confirm ==
    /\ CanAct /\ dialog
    /\ dialog' = FALSE
    /\ \/ creates < MaxCreates /\ creates' = creates + 1 /\ CallAbility("CREAT")
       \/ UNCHANGED <<creates, calls>>
    /\ UNCHANGED <<startflag, client_statu, subscribe_statu, patient, inbox, ability, fields, threads, fault>>

\* sendCommand, which is refused unless both flags are set.
SendCommand ==
    /\ CanAct /\ client_statu /\ subscribe_statu
    /\ CallAbility("SEND")
    /\ UNCHANGED <<page, inbox, ability, fields, threads, fault>>

Received(code) == fault = "none" /\ inbox # <<>> /\ Head(inbox).from = code /\ inbox' = Tail(inbox)

\* The rest of creatclient, which goes on to subscribe.
Created ==
    /\ Received("CREAT")
    /\ client_statu' = Head(inbox).ok
    /\ startflag' = Head(inbox).ok
    /\ IF Head(inbox).ok THEN CallAbility("SUBSCRIBE") ELSE UNCHANGED calls
    /\ UNCHANGED <<subscribe_statu, dialog, creates, patient, ability, fields, threads, fault>>

\* The rest of subscribe.
Subscribed ==
    /\ Received("SUBSCRIBE")
    /\ subscribe_statu' = TRUE /\ startflag' = TRUE
    /\ UNCHANGED <<client_statu, dialog, creates, patient, calls, ability, fields, threads, fault>>

\* Mutant of Unsubscribed: the start flag is left set.
UnsubscribedStarted ==
    /\ Received("UNSUBSCRIBE")
    /\ subscribe_statu' = FALSE
    /\ UNCHANGED <<startflag, client_statu, dialog, creates, patient, calls, ability, fields, threads, fault>>

\* The rest of unsubscribe; client_statu keeps its value.
Unsubscribed ==
    /\ Received("UNSUBSCRIBE")
    /\ subscribe_statu' = FALSE /\ startflag' = FALSE
    /\ UNCHANGED <<client_statu, dialog, creates, patient, calls, ability, fields, threads, fault>>

\* The rest of sendCommand prints a failure.
Sent ==
    /\ Received("SEND")
    /\ UNCHANGED <<page, calls, ability, fields, threads, fault>>

\* The subscriber's callback for 'STOP' calls unsubscribe.
Stopped ==
    /\ Received("STOP")
    /\ CallAbility("UNSUBSCRIBE")
    /\ UNCHANGED <<page, ability, fields, threads, fault>>

Page == Created \/ Subscribed \/ Unsubscribed \/ Sent \/ Stopped

----------------------------------------------------------------------------
(* The ability *)

Serve(code) == fault = "none" /\ serving = "none" /\ calls # <<>> /\ Head(calls) = code

\* Iterations over remoteObjectHandlers fail once the set is changed.
Modified == [t \in Objects |-> IF at[t] \in {"iterReport", "iterStop"} THEN "modified" ELSE at[t]]

\* CREAT_CLIENT: a new BasicSocket replaces the old one, whatever its state; the
\* Stop() at the beginning of CreatStocketClient is that of the new object.
ServeCreate ==
    /\ Serve("CREAT")
    /\ calls' = Tail(calls)
    /\ made' = made + 1
    /\ basicSocket' = made'
    /\ socket' = [socket EXCEPT ![made'] = "set"]
    /\ serving' = "CREAT"
    /\ UNCHANGED <<page, inbox, remoteObjectHandlers, out, conn, threads, fault>>

\* socket.connect succeeds, or fails after at most 5 s.
Connect ==
    /\ serving = "CREAT" /\ fault = "none"
    /\ serving' = "none"
    /\ \/ /\ conn' = [conn EXCEPT ![basicSocket] = "open"]
          /\ out' = [out EXCEPT ![basicSocket] = "set"]
          /\ Reply("CREAT", TRUE)
       \/ Reply("CREAT", FALSE) /\ UNCHANGED <<conn, out>>
    /\ UNCHANGED <<page, calls, basicSocket, remoteObjectHandlers, made, socket, threads, fault>>

\* SEND_CLIENT: SendMessage catches the IOException of a connection that is gone or
\* of a closed writer, and the reply is SUCCESS; a null writer is not caught.
ServeSend ==
    /\ Serve("SEND")
    /\ calls' = Tail(calls)
    /\ IF out[basicSocket] = "null"
       THEN fault' = "null writer" /\ UNCHANGED inbox
       ELSE Reply("SEND", TRUE) /\ UNCHANGED fault
    /\ UNCHANGED <<page, ability, fields, threads>>

\* Mutant of ServeSubscribe: each subscription starts two threads.
ServeSubscribeTwice ==
    /\ Serve("SUBSCRIBE")
    /\ calls' = Tail(calls)
    /\ remoteObjectHandlers' = remoteObjectHandlers + 1
    /\ started' = started + 2
    /\ at' = [t \in Objects |-> IF t \in started + 1 .. started' THEN "sleep" ELSE Modified[t]]
    /\ of' = [t \in Objects |-> IF t \in started + 1 .. started' THEN basicSocket ELSE of[t]]
    /\ Reply("SUBSCRIBE", TRUE)
    /\ UNCHANGED <<page, basicSocket, serving, fields, fault>>

\* SUBSCRIBE_CLIENT: one more subscriber and one more listener thread.
ServeSubscribe ==
    /\ Serve("SUBSCRIBE")
    /\ calls' = Tail(calls)
    /\ remoteObjectHandlers' = remoteObjectHandlers + 1
    /\ started' = started + 1
    /\ at' = [Modified EXCEPT ![started'] = "sleep"]
    /\ of' = [of EXCEPT ![started'] = basicSocket]
    /\ Reply("SUBSCRIBE", TRUE)
    /\ UNCHANGED <<page, basicSocket, serving, fields, fault>>

\* UNSUBSCRIBE_CLIENT, first remoteObjectHandlers.clear().
ServeUnsubscribe ==
    /\ Serve("UNSUBSCRIBE")
    /\ calls' = Tail(calls)
    /\ remoteObjectHandlers' = 0
    /\ at' = Modified
    /\ serving' = "UNSUBSCRIBE"
    /\ UNCHANGED <<page, inbox, basicSocket, fields, started, of, fault>>

\* Mutant of Stop: the socket is dropped without being closed.
StopForgets ==
    /\ serving = "UNSUBSCRIBE" /\ fault = "none"
    /\ serving' = "none"
    /\ out' = [out EXCEPT ![basicSocket] = "null"]
    /\ socket' = [socket EXCEPT ![basicSocket] = "null"]
    /\ Reply("UNSUBSCRIBE", TRUE)
    /\ UNCHANGED <<page, calls, basicSocket, remoteObjectHandlers, made, conn, threads, fault>>

\* Then Stop().  The interrupt it sends wakes a listener from its sleep, which
\* catches it and goes on; it does not end a read.  A close that throws leaves the
\* fields that come after it as they are, and the reply is SUCCESS: out.close(),
\* when it cannot write what failed sends left in the buffer, or socket.close().
\* Of the Java library: closing the writer closes the connection even when it throws,
\* and closing a socket that is closed already does nothing.
Stop ==
    /\ serving = "UNSUBSCRIBE" /\ fault = "none"
    /\ serving' = "none"
    /\ conn' = [conn EXCEPT ![basicSocket] = IF @ = "none" THEN @ ELSE "closed"]
    /\ \/ /\ out' = [out EXCEPT ![basicSocket] = "null"]
          /\ \/ socket' = [socket EXCEPT ![basicSocket] = "null"]
             \/ out[basicSocket] = "null" /\ UNCHANGED socket
       \/ /\ conn[basicSocket] \in {"peerClosed", "reset"}
          /\ UNCHANGED <<out, socket>>
    /\ Reply("UNSUBSCRIBE", TRUE)
    /\ UNCHANGED <<page, calls, basicSocket, remoteObjectHandlers, made, threads, fault>>

Ability == ServeCreate \/ Connect \/ ServeSend \/ ServeSubscribe \/ ServeUnsubscribe \/ Stop

----------------------------------------------------------------------------
(* The listener threads *)

Goto(t, step) == at' = [at EXCEPT ![t] = step]

\* if (socket != null); without a socket the thread sleeps again.
TestSocket(t) ==
    /\ at[t] = "sleep" /\ socket[of[t]] # "null"
    /\ Goto(t, "getInput")
    /\ UNCHANGED <<inbox, fault>>

\* socket.getInputStream() reads the field again; it throws an IOException on a
\* socket that is not connected.
GetInputStream(t) ==
    /\ at[t] = "getInput"
    /\ IF socket[of[t]] = "null"
       THEN fault' = "null socket" /\ UNCHANGED at
       ELSE /\ Goto(t, IF conn[of[t]] \in {"none", "closed"} THEN "sleep" ELSE "read")
            /\ UNCHANGED fault
    /\ UNCHANGED inbox

\* Mutant of Read: the end of the stream ends the thread without a callback.
ReadSilent(t) ==
    /\ at[t] = "read"
    /\ \/ conn[of[t]] = "open" /\ Goto(t, "report")
       \/ conn[of[t]] = "peerClosed" /\ Goto(t, "ended")
       \/ conn[of[t]] \in {"reset", "closed"} /\ Goto(t, "sleep")
    /\ UNCHANGED <<inbox, fault>>

\* im.read: a report of the board, the end of the stream, or an IOException.
Read(t) ==
    /\ at[t] = "read"
    /\ \/ conn[of[t]] = "open" /\ Goto(t, "report")
       \/ conn[of[t]] = "peerClosed" /\ Goto(t, "stop")
       \/ conn[of[t]] \in {"reset", "closed"} /\ Goto(t, "sleep")
    /\ UNCHANGED <<inbox, fault>>

\* GetInput begins to iterate over the subscribers, if there are any.
Iterate(t) ==
    /\ \/ at[t] = "report" /\ Goto(t, IF remoteObjectHandlers = 0 THEN "sleep" ELSE "iterReport")
       \/ at[t] = "stop" /\ Goto(t, IF remoteObjectHandlers = 0 THEN "ended" ELSE "iterStop")
    /\ UNCHANGED <<inbox, fault>>

\* sendRequest to each of them (all in one step).  A report only changes what the
\* page shows.
SendRequest(t) ==
    \/ at[t] = "iterReport" /\ Goto(t, "sleep") /\ UNCHANGED <<inbox, fault>>
    \/ /\ at[t] = "iterStop"
       /\ Goto(t, "ended")
       /\ inbox' = inbox \o [n \in 1 .. remoteObjectHandlers |-> [from |-> "STOP", ok |-> TRUE]]
       /\ UNCHANGED fault
    \/ at[t] = "modified" /\ fault' = "concurrent modification" /\ UNCHANGED <<at, inbox>>

Listener(t) ==
    /\ fault = "none"
    /\ TestSocket(t) \/ GetInputStream(t) \/ Read(t) \/ Iterate(t) \/ SendRequest(t)
    /\ UNCHANGED <<page, calls, ability, fields, started, of>>

\* The board closes the connection, or it breaks.
PeerEnds(b) ==
    /\ conn[b] = "open" /\ fault = "none"
    /\ conn' = [conn EXCEPT ![b] = "peerClosed"] \/ conn' = [conn EXCEPT ![b] = "reset"]
    /\ UNCHANGED <<page, calls, inbox, ability, made, socket, out, threads, fault>>

----------------------------------------------------------------------------

Next ==
    \/ Tap \/ Confirm \/ SendCommand
    \/ Page
    \/ Ability
    \/ \E t \in Objects : Listener(t)
    \/ \E b \in Objects : PeerEnds(b)

Spec == Init /\ [][Next]_vars

\* The runtime runs the page's events, the ability's calls and each thread.
Fairness == WF_vars(Page) /\ WF_vars(Ability) /\ \A t \in Objects : WF_vars(Listener(t))
FairSpec == Spec /\ Fairness

----------------------------------------------------------------------------
(* Properties *)

Codes == {"CREAT", "SEND", "SUBSCRIBE", "UNSUBSCRIBE"}

\* The type of every variable.
TypeOK ==
    /\ {startflag, client_statu, subscribe_statu, dialog, patient} \subseteq BOOLEAN
    /\ creates \in 0 .. MaxCreates /\ made \in 0 .. creates /\ started \in 0 .. made
    /\ calls \in Seq(Codes) /\ inbox \in Seq([from : Codes \cup {"STOP"}, ok : BOOLEAN])
    /\ basicSocket \in 0 .. made /\ remoteObjectHandlers \in Nat
    /\ serving \in {"none", "CREAT", "UNSUBSCRIBE"}
    /\ socket \in [Objects -> {"null", "set"}] /\ out \in [Objects -> {"null", "set"}]
    /\ conn \in [Objects -> {"none", "open", "peerClosed", "reset", "closed"}]
    /\ at \in [Objects -> {"none", "sleep", "getInput", "read", "report", "stop", "iterReport",
                           "iterStop", "modified", "ended"}]
    /\ of \in [Objects -> 0 .. MaxCreates]
    /\ fault \in {"none", "null writer", "null socket", "concurrent modification"}

Held == {b \in Objects : conn[b] \in {"open", "peerClosed", "reset"}}

\* For a user who waits for each answer: once all calls are answered, the page
\* says it is started exactly when the ability holds a connection, which has a
\* writer, with one subscriber, whatever the board and the listeners did in
\* between, and although the closes of Stop (BasicSocket.java:71-78) may fail.
\* The writer alone says nothing: it stays set when its close throws.
FlagsMatchConnection ==
    patient /\ Quiet /\ fault = "none" =>
        /\ startflag <=> basicSocket \in Held
        /\ startflag => out[basicSocket] = "set"
        /\ startflag = subscribe_statu
        /\ remoteObjectHandlers = (IF startflag THEN 1 ELSE 0)

\* For that user, the ability never holds a connection it has no reference to,
\* so that the board, which serves one client, is not kept busy by a lost one.
HoldsOnlyCurrent == patient => Held \subseteq {basicSocket}

\* The comment at ServiceAbility.java:59: UNSUBSCRIBE_CLIENT closes the connection.
UnsubscribeCloses == [][serving = "UNSUBSCRIBE" /\ serving' = "none" => Held' = {}]_vars

\* When the board closes the connection that is in use, the page leaves its
\* started state, or the app ended with an exception.
PeerCloseNoticed ==
    \A b \in Objects :
        (patient /\ conn[b] = "peerClosed") ~> (fault # "none" \/ (conn[b] # "peerClosed" /\ ~startflag))
============================================================================
