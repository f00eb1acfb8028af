---------------------------- MODULE BoardServer ----------------------------
(***************************************************************************)
(* The TCP server of the smart-home board (src/app/Entry/05/01_Smart_Home).*)
(*                                                                         *)
(* Three LiteOS tasks share the globals sock_fd, new_fd, is_accepted and   *)
(* the device statuses, without any lock:                                  *)
(*   - the main task opens the listening socket and creates the others;    *)
(*   - deal_command_task accepts one client at a time and executes its     *)
(*     commands;                                                           *)
(*   - report_message_task sends the client a report every three seconds.  *)
(*                                                                         *)
(* An action runs from one access of shared state to the next; new_fd and  *)
(* is_accepted are read again wherever the code reads them again.  The     *)
(* socket layer (lwIP) and the clients are external: they are modelled by  *)
(* what the code relies on.                                                *)
(***************************************************************************)
EXTENDS Integers, Sequences, FiniteSets

CONSTANTS
    Conns,        \* the connections that phones ever open, each used once
    Free,         \* descriptor table entry: not in use
    Unbound,      \* descriptor table entry: a socket not (yet) listening
    Listener,     \* descriptor table entry: the listening socket
    NumFds,       \* size of lwIP's descriptor table
    Backlog,      \* TCP_BACKLOG, the argument of listen
    StreamCap,    \* bound: tokens of a connection not yet received
    MaxCmds,      \* bound: commands issued by all phones together
    MaxLaunches,  \* bound: launches of the tutorial from the button menu
    Faults        \* which calls may fail: "socket", "thread", "heap", "reset"

Fds   == 0 .. NumFds - 1
NoFd  == -1

Devices == {"Motor", "Light"}
Values  == {"ON", "OFF"}
Tokens  == Devices \cup Values

ASSUME ConnsAssumption ==
    /\ {Free, Unbound, Listener} \cap Conns = {}
    /\ Free # Unbound /\ Free # Listener /\ Unbound # Listener
ASSUME BoundsAssumption ==
    /\ NumFds \in Nat \ {0}
    /\ {Backlog, StreamCap, MaxCmds, MaxLaunches} \subseteq Nat
ASSUME FaultsAssumption == Faults \subseteq {"socket", "thread", "heap", "reset"}

VARIABLES
    mainPc,       \* where the main task stands
    launches,     \* times the tutorial was launched
    sock_fd,      \* global: the descriptor accept is called with
    new_fd,       \* global: the descriptor of the current client
    is_accepted,  \* global: 1 while deal_command_task serves a client
    dealPc,       \* where deal_command_task stands
    acceptFd,     \* the descriptor the pending accept was called with
    recvbuf,      \* the words strstr can find in recvbuf
    status,       \* globals motor_status and light_status
    repPc,        \* where report_message_task stands
    report,       \* the statuses copied into the report being built
    ioReady,      \* E53_IA1_IO_Init has made the device pins outputs
    level,        \* the level the device pins drive
    sock,         \* lwIP: the descriptor table
    backlog,      \* lwIP: connections waiting to be accepted
    stream,       \* lwIP: the tokens a connection has not delivered yet
    conn,         \* state of each connection as its client left it
    poked,        \* connections a report was sent on after the client left
    cmds,         \* number of commands issued
    issued,       \* history: the commands issued
    early,        \* history: devices last commanded before ioReady
    shown         \* the last report each phone received

\* Grouped by the task that writes them.
mainVars  == <<mainPc, launches, sock_fd>>
dealVars  == <<dealPc, acceptFd, new_fd, is_accepted, recvbuf, status, level, early>>
repVars   == <<repPc, report, ioReady>>
netVars   == <<sock, backlog, stream, conn, poked>>
phoneVars == <<cmds, issued, shown>>
vars == <<mainVars, dealVars, repVars, netVars, phoneVars>>

notMain  == <<dealVars, repVars, phoneVars>>
notDeal  == <<mainVars, repVars, phoneVars>>
notRep   == <<mainVars, dealVars>>
tasksVars == <<mainVars, dealVars, repVars>>
pins     == <<level, early>>
links    == <<backlog, stream, conn, poked>>

ConnStates == {"idle", "up", "fin", "gone", "rst", "done"}
NoReport   == [d \in Devices |-> "none"]
Reports    == [Devices -> Values \cup {"none"}]

Init ==
    /\ mainPc = "socket" /\ launches = 1
    /\ sock_fd = 0 /\ new_fd = 0 /\ is_accepted = 0
    /\ dealPc = "none" /\ acceptFd = NoFd /\ recvbuf = {}
    /\ status = [d \in Devices |-> "OFF"]
    /\ repPc = "none" /\ report = NoReport /\ ioReady = FALSE
    /\ level = [d \in Devices |-> "OFF"] /\ early = {}
    /\ sock = [fd \in Fds |-> Free]
    /\ backlog = <<>>
    /\ stream = [c \in Conns |-> <<>>]
    /\ conn = [c \in Conns |-> "idle"] /\ poked = {}
    /\ cmds = 0 /\ issued = {}
    /\ shown = [c \in Conns |-> NoReport]

----------------------------------------------------------------------------
(* The socket layer, as the tasks use it. *)

SockAt(fd) == IF fd \in Fds THEN sock[fd] ELSE Free

Listening == \E fd \in Fds : sock[fd] = Listener

\* close(fd): the entry is freed; closing a free entry or -1 does nothing.
Close(fd) ==
    LET c == SockAt(fd) IN
    /\ sock' = [f \in Fds |-> IF f = fd THEN Free ELSE sock[f]]
    /\ conn' = [k \in Conns |-> IF k = c THEN "done" ELSE conn[k]]
    /\ stream' = [k \in Conns |-> IF k = c THEN <<>> ELSE stream[k]]
    /\ poked' = poked \ {c}
    /\ UNCHANGED backlog

\* send and recv fail on a closed descriptor and on a reset connection.
Usable(fd) == SockAt(fd) \in Conns /\ conn[SockAt(fd)] # "rst"

----------------------------------------------------------------------------
(* The main task: c05_01_main_task after borad_init. *)

MainSocket ==
    /\ mainPc = "socket"
    /\ \/ \E fd \in Fds :
            /\ sock[fd] = Free
            /\ sock' = [sock EXCEPT ![fd] = Unbound]
            /\ sock_fd' = fd
            /\ mainPc' = "listen"
       \/ /\ "socket" \in Faults \/ \A fd \in Fds : sock[fd] # Free
          /\ sock_fd' = NoFd
          /\ mainPc' = "exited"
          /\ UNCHANGED sock
    /\ UNCHANGED <<notMain, launches, links>>

\* bind and listen; the port can be bound once.
MainListen ==
    /\ mainPc = "listen"
    /\ \/ /\ SockAt(sock_fd) = Unbound
          /\ ~Listening
          /\ sock' = [sock EXCEPT ![sock_fd] = Listener]
          /\ mainPc' = "spawnDeal"
       \/ /\ "socket" \in Faults \/ Listening
          /\ mainPc' = "exited"
          /\ UNCHANGED sock
    /\ UNCHANGED <<notMain, launches, sock_fd, links>>

MainSpawnDeal ==
    /\ mainPc = "spawnDeal"
    /\ mainPc' = "spawnReport"
    /\ dealPc' = "call" \/ ("thread" \in Faults /\ dealPc' = dealPc)
    /\ UNCHANGED <<launches, sock_fd, acceptFd, new_fd, is_accepted, recvbuf,
                   status, pins, repVars, netVars, phoneVars>>

MainSpawnReport ==
    /\ mainPc = "spawnReport"
    /\ mainPc' = "done"
    /\ repPc' = "init" \/ ("thread" \in Faults /\ repPc' = repPc)
    /\ UNCHANGED <<launches, sock_fd, dealVars, report, ioReady, netVars, phoneVars>>

\* Select_Task is back at its menu and F2 launches the tutorial again.
Relaunch ==
    /\ mainPc = "done"
    /\ launches < MaxLaunches
    /\ mainPc' = "socket"
    /\ launches' = launches + 1
    /\ UNCHANGED <<notMain, sock_fd, netVars>>

----------------------------------------------------------------------------
(* deal_command_task *)

CallAccept ==
    /\ dealPc = "call"
    /\ dealPc' = "accept"
    /\ acceptFd' = sock_fd
    /\ UNCHANGED <<notDeal, new_fd, is_accepted, recvbuf, status, pins, netVars>>

Accept ==
    /\ dealPc = "accept"
    /\ SockAt(acceptFd) = Listener
    /\ backlog # <<>>
    /\ \E fd \in Fds :
         /\ sock[fd] = Free
         /\ sock' = [sock EXCEPT ![fd] = Head(backlog)]
         /\ new_fd' = fd
    /\ backlog' = Tail(backlog)
    /\ dealPc' = "flag"
    /\ acceptFd' = NoFd
    /\ UNCHANGED <<notDeal, is_accepted, recvbuf, status, pins, stream, conn, poked>>

\* accept returns -1: the error is printed and the task goes on all the same.
\* A waiting connection for which there is no descriptor is dropped.
AcceptError ==
    /\ dealPc = "accept"
    /\ \/ /\ SockAt(acceptFd) # Listener
          /\ UNCHANGED <<backlog, conn, stream>>
       \/ /\ SockAt(acceptFd) = Listener
          /\ backlog # <<>>
          /\ "socket" \in Faults \/ \A fd \in Fds : sock[fd] # Free
          /\ conn' = [conn EXCEPT ![Head(backlog)] = "done"]
          /\ stream' = [stream EXCEPT ![Head(backlog)] = <<>>]
          /\ backlog' = Tail(backlog)
    /\ new_fd' = NoFd
    /\ dealPc' = "flag"
    /\ acceptFd' = NoFd
    /\ UNCHANGED <<notDeal, is_accepted, recvbuf, status, pins, sock, poked>>

\* Mutant of SetAccepted: the flag is given the descriptor.
StoreFdAsFlag ==
    /\ dealPc = "flag"
    /\ is_accepted' = new_fd
    /\ dealPc' = "recv"
    /\ UNCHANGED <<notDeal, acceptFd, new_fd, recvbuf, status, pins, netVars>>

\* Mutant of SetAccepted: the flag is never set.
ForgetFlag ==
    /\ dealPc = "flag"
    /\ dealPc' = "recv"
    /\ UNCHANGED <<notDeal, acceptFd, new_fd, is_accepted, recvbuf, status, pins, netVars>>

SetAccepted ==
    /\ dealPc = "flag"
    /\ is_accepted' = 1
    /\ dealPc' = "recv"
    /\ UNCHANGED <<notDeal, acceptFd, new_fd, recvbuf, status, pins, netVars>>

\* The device and value the strstr chain finds: Motor hides Light, ON hides OFF.
DeviceIn(buf) == IF "Motor" \in buf THEN "Motor" ELSE "Light"
ValueIn(buf)  == IF "ON" \in buf THEN "ON" ELSE "OFF"
IsCommand(buf) == buf \cap Devices # {} /\ buf \cap Values # {}

\* The first n tokens of the connection leave its stream.
Consume(c, n) == stream' = [stream EXCEPT ![c] = SubSeq(@, n + 1, Len(@))]

\* Mutant of Recv: the bzero is moved out of the loop, and each part is appended
\* to what earlier parts left.
RecvAppends ==
    LET c == SockAt(new_fd)
        Got(n) == recvbuf \cup {stream[c][i] : i \in 1 .. n} IN
    /\ dealPc = "recv"
    /\ c \in Conns
    /\ \E n \in 1 .. Len(stream[c]) :
         /\ Consume(c, n)
         /\ recvbuf' = Got(n)
         /\ dealPc' = IF IsCommand(Got(n)) THEN "set" ELSE "recv"
    /\ UNCHANGED <<notDeal, acceptFd, new_fd, is_accepted, status, pins,
                   sock, backlog, conn, poked>>

\* recv returns a part of what has arrived: the first n tokens, and, when the
\* part ends inside a token, the first half of it (neither half is a word).
\* recvbuf holds words only from a recognised command to the next bzero.
Recv ==
    LET c == SockAt(new_fd)
        Got(n) == {stream[c][i] : i \in 1 .. n} IN
    /\ dealPc = "recv"
    /\ c \in Conns
    /\ \E n \in 0 .. Len(stream[c]), torn \in {0, 1} :
         /\ 0 < n + torn /\ n + torn <= Len(stream[c])
         /\ Consume(c, n + torn)
         /\ \/ IsCommand(Got(n)) /\ recvbuf' = Got(n) /\ dealPc' = "set"
            \/ ~IsCommand(Got(n)) /\ UNCHANGED <<recvbuf, dealPc>>
    /\ UNCHANGED <<notDeal, acceptFd, new_fd, is_accepted, status, pins,
                   sock, backlog, conn, poked>>

\* The client has closed and everything it sent is read.
AtEof == SockAt(new_fd) \in Conns /\ conn[SockAt(new_fd)] = "fin" /\ stream[SockAt(new_fd)] = <<>>

\* recv returns 0: not an error for this code, which looks for commands in the
\* empty buffer and calls recv again.
RecvEof ==
    /\ dealPc = "recv" /\ AtEof
    /\ UNCHANGED vars

\* Mutant of RecvError: recv is given a timeout, which is an error too.
RecvTimeout ==
    /\ dealPc = "recv"
    /\ dealPc' = "close"
    /\ UNCHANGED <<notDeal, acceptFd, new_fd, is_accepted, recvbuf, status, pins, netVars>>

\* Mutant of RecvError: the error is printed and recv called again.
RetryRecv ==
    /\ dealPc = "recv" /\ ~Usable(new_fd)
    /\ UNCHANGED vars

RecvError ==
    /\ dealPc = "recv" /\ ~Usable(new_fd)
    /\ dealPc' = "close"
    /\ UNCHANGED <<notDeal, acceptFd, new_fd, is_accepted, recvbuf, status, pins, netVars>>

\* Some releases of lwIP answer a recv after the end of the stream with -1.
RecvAfterEof ==
    /\ dealPc = "recv" /\ AtEof
    /\ dealPc' = "close"
    /\ UNCHANGED <<notDeal, acceptFd, new_fd, is_accepted, recvbuf, status, pins, netVars>>

\* Motor_StatusSet / Light_StatusSet.  Before E53_IA1_IO_Init has run the pin
\* is not an output and the driver may drop the value.
SetPin ==
    LET d == DeviceIn(recvbuf)
        set == [level EXCEPT ![d] = ValueIn(recvbuf)] IN
    /\ dealPc = "set"
    /\ dealPc' = "status"
    /\ \/ ioReady /\ level' = set /\ early' = early \ {d}
       \/ ~ioReady /\ level' \in {level, set} /\ early' = early \cup {d}
    /\ UNCHANGED <<notDeal, acceptFd, new_fd, is_accepted, recvbuf, status, netVars>>

\* Mutant of SetStatus: both branches set motor_status.
SetMotorStatus ==
    /\ dealPc = "status"
    /\ status' = [status EXCEPT !["Motor"] = ValueIn(recvbuf)]
    /\ recvbuf' = {}
    /\ dealPc' = "recv"
    /\ UNCHANGED <<notDeal, acceptFd, new_fd, is_accepted, pins, netVars>>

\* motor_status / light_status, then the bzero at the head of the loop.
SetStatus ==
    /\ dealPc = "status"
    /\ status' = [status EXCEPT ![DeviceIn(recvbuf)] = ValueIn(recvbuf)]
    /\ recvbuf' = {}
    /\ dealPc' = "recv"
    /\ UNCHANGED <<notDeal, acceptFd, new_fd, is_accepted, pins, netVars>>

\* Mutant of CloseOnError: the descriptor is not closed.
ForgetClose ==
    /\ dealPc = "close"
    /\ dealPc' = "unflag"
    /\ UNCHANGED <<notDeal, acceptFd, new_fd, is_accepted, recvbuf, status, pins, netVars>>

\* Mutant of CloseOnError: the wrong descriptor is closed.
CloseListener ==
    /\ dealPc = "close"
    /\ Close(sock_fd)
    /\ dealPc' = "unflag"
    /\ UNCHANGED <<notDeal, acceptFd, new_fd, is_accepted, recvbuf, status, pins>>

CloseOnError ==
    /\ dealPc = "close"
    /\ Close(new_fd)
    /\ dealPc' = "unflag"
    /\ UNCHANGED <<notDeal, acceptFd, new_fd, is_accepted, recvbuf, status, pins>>

ClearAccepted ==
    /\ dealPc = "unflag"
    /\ is_accepted' = 0
    /\ dealPc' = "call"
    /\ UNCHANGED <<notDeal, acceptFd, new_fd, recvbuf, status, pins, netVars>>

----------------------------------------------------------------------------
(* report_message_task; the sensors are another module's concern. *)

RepInit ==
    /\ repPc = "init"
    /\ ioReady' = TRUE
    /\ repPc' = "check"
    /\ UNCHANGED <<notRep, report, netVars, phoneVars>>

\* is_accepted == 1 and a report structure could be allocated.
RepCheck ==
    /\ repPc = "check"
    /\ is_accepted = 1
    /\ repPc' = "motor"
    /\ UNCHANGED <<notRep, report, ioReady, netVars, phoneVars>>

\* Nobody is served, or malloc returned NULL: nothing until the next round.
RepIdle ==
    /\ repPc = "check"
    /\ is_accepted = 0 \/ "heap" \in Faults
    /\ UNCHANGED vars

RepReadMotor ==
    /\ repPc = "motor"
    /\ report' = [report EXCEPT !["Motor"] = status["Motor"]]
    /\ repPc' = "light"
    /\ UNCHANGED <<notRep, ioReady, netVars, phoneVars>>

\* Mutant of RepReadLight: light.value is copied from motor_status.
CopyMotorStatus ==
    /\ repPc = "light"
    /\ report' = [report EXCEPT !["Light"] = status["Motor"]]
    /\ repPc' = "send"
    /\ UNCHANGED <<notRep, ioReady, netVars, phoneVars>>

\* light_status is read and the message is built.  Without memory the message
\* is NULL: strlen(NULL) faults, or a text that is no report is sent.
RepReadLight ==
    /\ repPc = "light"
    /\ \/ /\ report' = [report EXCEPT !["Light"] = status["Light"]]
          /\ repPc' = "send"
       \/ /\ "heap" \in Faults
          /\ report' = NoReport
          /\ repPc' \in {"send", "fault"}
    /\ UNCHANGED <<notRep, ioReady, netVars, phoneVars>>

RepSend ==
    LET c == SockAt(new_fd) IN
    /\ repPc = "send"
    /\ report' = NoReport
    /\ \/ /\ ~Usable(new_fd)
          /\ repPc' = "close"
          /\ UNCHANGED <<shown, poked>>
       \/ /\ Usable(new_fd)
          /\ repPc' = "check"
          /\ shown' = IF conn[c] = "up" /\ report # NoReport
                      THEN [shown EXCEPT ![c] = report] ELSE shown
          /\ poked' = IF conn[c] \in {"fin", "gone"} THEN poked \cup {c} ELSE poked
    /\ UNCHANGED <<notRep, ioReady, sock, backlog, stream, conn, cmds, issued>>

\* new_fd is read again: it may name another client by now.
RepClose ==
    /\ repPc = "close"
    /\ Close(new_fd)
    /\ repPc' = "check"
    /\ UNCHANGED <<notRep, report, ioReady, phoneVars>>

----------------------------------------------------------------------------
(* The phones and the network. *)

Connect(c) ==
    /\ conn[c] = "idle"
    /\ Listening
    /\ Len(backlog) < Backlog
    /\ conn' = [conn EXCEPT ![c] = "up"]
    /\ backlog' = Append(backlog, c)
    /\ UNCHANGED <<tasksVars, sock, stream, poked, phoneVars>>

\* sendCommand: one line {"<device>":"<value>"} goes into the stream.
ClientSend(c, d, v) ==
    /\ conn[c] = "up"
    /\ cmds < MaxCmds
    /\ Len(stream[c]) + 2 <= StreamCap
    /\ stream' = [stream EXCEPT ![c] = @ \o <<d, v>>]
    /\ cmds' = cmds + 1
    /\ issued' = issued \cup {<<d, v>>}
    /\ UNCHANGED <<tasksVars, sock, backlog, conn, poked, shown>>

\* The client closes ("fin"), or vanishes without a word ("gone").
ClientLeave(c) ==
    /\ conn[c] = "up"
    /\ \E s \in {"fin", "gone"} : conn' = [conn EXCEPT ![c] = s]
    /\ UNCHANGED <<tasksVars, sock, backlog, stream, poked, phoneVars>>

\* A report to a client that has left is answered by a reset, or its
\* retransmissions time out.
ResetArrives(c) ==
    /\ c \in poked
    /\ conn[c] \in {"fin", "gone"}
    /\ conn' = [conn EXCEPT ![c] = "rst"]
    /\ poked' = poked \ {c}
    /\ UNCHANGED <<tasksVars, sock, backlog, stream, phoneVars>>

NetworkReset(c) ==
    /\ "reset" \in Faults
    /\ conn[c] = "up"
    /\ conn' = [conn EXCEPT ![c] = "rst"]
    /\ UNCHANGED <<tasksVars, sock, backlog, stream, poked, phoneVars>>

----------------------------------------------------------------------------

\* A fault of the report task stops the whole board.
Running == repPc # "fault"

Main == MainSocket \/ MainListen \/ MainSpawnDeal \/ MainSpawnReport

Deal == \/ CallAccept \/ Accept \/ AcceptError \/ SetAccepted
        \/ Recv \/ RecvError
        \/ SetPin \/ SetStatus \/ CloseOnError \/ ClearAccepted

\* What deal_command_task does at the end of a stream, which nothing obliges
\* lwIP to report as an error.
DealAtEof == RecvEof \/ RecvAfterEof

Report == \/ RepInit \/ RepCheck \/ RepIdle \/ RepReadMotor \/ RepReadLight
          \/ RepSend \/ RepClose

Phone(c) == \/ Connect(c) \/ ClientLeave(c) \/ ResetArrives(c) \/ NetworkReset(c)
            \/ \E d \in Devices, v \in Values : ClientSend(c, d, v)

Next ==
    \/ Running /\ Main
    \/ Running /\ Deal
    \/ Running /\ DealAtEof
    \/ Running /\ Report
    \/ Running /\ Relaunch
    \/ Running /\ \E c \in Conns : Phone(c)

Spec == Init /\ [][Next]_vars

\* The three tasks have the same priority and LiteOS shares the processor among
\* them round robin; a reset that is due arrives.
Fairness ==
    /\ WF_vars(Running /\ Main)
    /\ WF_vars(Running /\ Deal)
    /\ WF_vars(Running /\ Report)
    /\ \A c \in Conns : WF_vars(Running /\ ResetArrives(c))

FairSpec == Spec /\ Fairness

----------------------------------------------------------------------------
(* Properties. *)

MainPcs == {"socket", "listen", "spawnDeal", "spawnReport", "done", "exited"}
DealPcs == {"none", "call", "accept", "flag", "recv", "set", "status", "close", "unflag"}
RepPcs  == {"none", "init", "check", "motor", "light", "send", "close", "fault"}

\* The type of every variable.
TypeOK ==
    /\ mainPc \in MainPcs /\ launches \in Nat \ {0}
    /\ sock_fd \in Fds \cup {NoFd} /\ new_fd \in Fds \cup {NoFd}
    /\ is_accepted \in {0, 1}
    /\ dealPc \in DealPcs /\ acceptFd \in Fds \cup {NoFd}
    /\ recvbuf \in SUBSET Tokens
    /\ status \in [Devices -> Values]
    /\ repPc \in RepPcs /\ report \in Reports /\ ioReady \in BOOLEAN
    /\ level \in [Devices -> Values] /\ early \in SUBSET Devices
    /\ sock \in [Fds -> Conns \cup {Free, Unbound, Listener}]
    /\ backlog \in Seq(Conns)
    /\ stream \in [Conns -> Seq(Tokens)]
    /\ conn \in [Conns -> ConnStates] /\ poked \in SUBSET Conns
    /\ cmds \in Nat /\ issued \in SUBSET (Devices \X Values)
    /\ shown \in [Conns -> Reports]

\* The states in which deal_command_task holds the connection it accepted.
Serving == dealPc \in {"flag", "recv", "set", "status", "close"}

\* No descriptor leaks: although two tasks close new_fd, and one of them may
\* find it reused, the only open connection is the one new_fd names, and only
\* while deal_command_task serves it (lines 41-56 of deal_command.c, 77-81 of
\* report_message.c).
NoOrphanSocket ==
    \A fd \in Fds : sock[fd] \in Conns => Serving /\ fd = new_fd

\* Neither close(new_fd) ever hits the listening socket, although new_fd is 0,
\* a descriptor lwIP gives out, before the first accept, and although a second
\* launch may reuse a descriptor the report task closed.
ListenerKept ==
    (launches > 1 \/ mainPc \in {"spawnDeal", "spawnReport", "done"}) => Listening

\* motor_status and light_status differ from the pins only between the two
\* statements that set them, or when the command came before report_message_task
\* had made the pins outputs (which it never does if it was not created).
StatusTracksPin ==
    \A d \in Devices : status[d] # level[d] =>
        d \in early \/ (dealPc = "status" /\ DeviceIn(recvbuf) = d)

\* A client that is alive and was accepted is disconnected by the board only
\* at close(new_fd) of the report task, which can hit a connection accepted
\* after the failed send; the two closes of deal_command_task and of the report
\* task on one descriptor never hit it.  (A waiting connection may be dropped
\* when there is no descriptor for it.)
OnlyReportDropsHealthy ==
    [][\A c \in Conns : conn[c] = "up" /\ conn'[c] = "done" =>
          (repPc = "close" /\ SockAt(new_fd) = c) \/ c \in {backlog[i] : i \in DOMAIN backlog}]_vars

\* The comment at c05_01_app_main.c:47: the board listens on sock_fd.
SockFdListens == dealPc = "call" => SockAt(sock_fd) = Listener

\* The comment at c05_01_app_deal_command.c:50: devices are controlled according
\* to the commands received; a device is on only if some command said so.
SwitchedByCommand == \A d \in Devices : level[d] = "ON" => <<d, "ON">> \in issued

\* A client that left, without the end of its stream being an error for recv,
\* is released in the end, so that the next client can be accepted: a report
\* provokes the reset that makes recv or send fail.
DeadClientReleased ==
    \A c \in Conns :
        (\E fd \in Fds : sock[fd] = c) /\ conn[c] \in {"fin", "gone", "rst"}
            ~> conn[c] = "done"

\* If every client leaves in the end, every waiting client is accepted.
BacklogDrains ==
    <>[](\A c \in Conns : conn[c] # "up") => <>[](backlog = <<>>)

\* A client that stays connected is shown, in the end and for good, the levels
\* the pins have (of the devices not commanded before the pins were outputs).
EventuallyConsistent ==
    \A c \in Conns :
        <>[](SockAt(new_fd) = c /\ conn[c] = "up") =>
            <>[](\A d \in Devices \ early : shown[c][d] = level[d])
============================================================================
