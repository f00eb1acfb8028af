------------------------- MODULE BoardServerProofs -------------------------
(***************************************************************************)
(* Proofs about BoardServer, for any number of connections, descriptors,   *)
(* commands and launches, and any set of faults; and, at the end, that it  *)
(* implements DeviceControl.                                               *)
(***************************************************************************)
EXTENDS BoardImplements, SequenceTheorems, TLAPS

\* A number of tokens that is one or two: what a read of some of them leaves.
LEMMA OneOrTwo ==
    \A l \in {1, 2} : /\ \A i \in 1 .. l : l - i \in {0, 1}
                      /\ \A n \in 0 .. l : n # 0 /\ n # 1 => n = 2 /\ l = 2
    OBVIOUS

USE ConnsAssumption, BoundsAssumption, FaultsAssumption

\* A part of a stream is a stream of tokens.
LEMMA StreamPart ==
    ASSUME NEW s \in Seq(Tokens), NEW n \in Nat
    PROVE  SubSeq(s, n + 1, Len(s)) \in Seq(Tokens)
<1>1. Len(s) \in Nat /\ \A i \in n + 1 .. Len(s) : s[i] \in Tokens
    OBVIOUS
<1>2. QED
    BY <1>1, SubSeqProperties

\* close keeps the types of the socket layer.
LEMMA CloseType ==
    ASSUME TypeOK, NEW fd \in Fds \cup {NoFd}, Close(fd)
    PROVE  /\ sock' \in [Fds -> Conns \cup {Free, Unbound, Listener}]
           /\ backlog' \in Seq(Conns)
           /\ stream' \in [Conns -> Seq(Tokens)]
           /\ conn' \in [Conns -> ConnStates]
           /\ poked' \in SUBSET Conns
<1>1. <<>> \in Seq(Tokens)
    OBVIOUS
<1>2. QED
    BY <1>1 DEF TypeOK, Close, ConnStates

\* Every step of the main task keeps the types.
LEMMA MainType == TypeOK /\ (Main \/ Relaunch) => TypeOK'
<1> SUFFICES ASSUME TypeOK, Main \/ Relaunch PROVE TypeOK'
    OBVIOUS
<1> USE DEF TypeOK, notMain, dealVars, repVars, phoneVars, netVars, links, pins
<1>1. CASE MainSocket
    BY <1>1 DEF MainSocket, MainPcs
<1>2. CASE MainListen
    BY <1>2 DEF MainListen, MainPcs, SockAt
<1>3. CASE MainSpawnDeal
    BY <1>3 DEF MainSpawnDeal, MainPcs, DealPcs
<1>4. CASE MainSpawnReport
    BY <1>4 DEF MainSpawnReport, MainPcs, RepPcs
<1>5. CASE Relaunch
    BY <1>5 DEF Relaunch, MainPcs
<1>6. QED
    BY <1>1, <1>2, <1>3, <1>4, <1>5 DEF Main

\* Every step of deal_command_task keeps the types.
LEMMA DealType == TypeOK /\ (Deal \/ DealAtEof) => TypeOK'
<1> SUFFICES ASSUME TypeOK, Deal \/ DealAtEof PROVE TypeOK'
    OBVIOUS
<1>a. \A buf : DeviceIn(buf) \in Devices /\ ValueIn(buf) \in Values
    BY DEF DeviceIn, ValueIn, Devices, Values
<1> USE DEF notDeal, mainVars, repVars, phoneVars, netVars, links, pins
<1>1. CASE CallAccept
    BY <1>1 DEF TypeOK, CallAccept, DealPcs
<1>2. CASE Accept
    <2>1. Head(backlog) \in Conns /\ Tail(backlog) \in Seq(Conns)
        BY <1>2, HeadTailProperties DEF TypeOK, Accept
    <2>2. QED
        BY <1>2, <2>1 DEF TypeOK, Accept, DealPcs
<1>3. CASE AcceptError
    <2>1. CASE SockAt(acceptFd) # Listener
        BY <1>3, <2>1 DEF TypeOK, AcceptError, DealPcs
    <2>2. CASE SockAt(acceptFd) = Listener
        <3>1. Head(backlog) \in Conns /\ Tail(backlog) \in Seq(Conns)
            BY <1>3, <2>2, HeadTailProperties DEF TypeOK, AcceptError
        <3>2. <<>> \in Seq(Tokens)
            OBVIOUS
        <3>3. conn' \in [Conns -> ConnStates]
            BY <1>3, <2>2, <3>1 DEF TypeOK, AcceptError, ConnStates
        <3>4. stream' \in [Conns -> Seq(Tokens)]
            <4> DEFINE h == Head(backlog)
            <4>1. stream \in [Conns -> Seq(Tokens)] /\ h \in Conns
                BY <3>1 DEF TypeOK
            <4>2. stream' = [stream EXCEPT ![h] = <<>>]
                BY <1>3, <2>2 DEF AcceptError
            <4> HIDE DEF h
            <4>3. QED
                BY <4>1, <4>2, <3>2
        <3>5. backlog' \in Seq(Conns)
            BY <1>3, <2>2, <3>1 DEF AcceptError
        <3>6. /\ new_fd' = NoFd /\ dealPc' = "flag" /\ acceptFd' = NoFd
              /\ UNCHANGED <<notDeal, is_accepted, recvbuf, status, pins, sock, poked>>
            BY <1>3 DEF AcceptError
        <3>7. QED
            BY <3>3, <3>4, <3>5, <3>6 DEF TypeOK, DealPcs, NoFd
    <2>3. QED
        BY <2>1, <2>2
<1>4. CASE SetAccepted
    BY <1>4 DEF TypeOK, SetAccepted, DealPcs
<1>5. CASE Recv
    <2> DEFINE c == SockAt(new_fd)
    <2>1. c \in Conns /\ stream[c] \in Seq(Tokens)
        BY <1>5 DEF TypeOK, Recv
    <2>2. PICK n \in 0 .. Len(stream[c]), torn \in {0, 1} :
            /\ Consume(c, n + torn)
            /\ \/ /\ recvbuf' = {stream[c][i] : i \in 1 .. n}
                  /\ dealPc' = "set"
               \/ UNCHANGED <<recvbuf, dealPc>>
        BY <1>5 DEF Recv
    <2>3. SubSeq(stream[c], n + torn + 1, Len(stream[c])) \in Seq(Tokens)
        <3>1. n + torn \in Nat
            BY <2>1
        <3>2. QED
            BY <2>1, <3>1, StreamPart
    <2>4. stream' \in [Conns -> Seq(Tokens)]
        BY <2>1, <2>2, <2>3 DEF TypeOK, Consume
    <2>5. recvbuf' \in SUBSET Tokens
        <3>1. {stream[c][i] : i \in 1 .. n} \subseteq Tokens
            BY <2>1
        <3>2. QED
            BY <2>2, <3>1 DEF TypeOK
    <2>6. dealPc' \in DealPcs
        BY <2>2 DEF TypeOK, DealPcs
    <2>7. UNCHANGED <<notDeal, acceptFd, new_fd, is_accepted, status, pins,
                      sock, backlog, conn, poked>>
        BY <1>5 DEF Recv
    <2>8. QED
        BY <2>4, <2>5, <2>6, <2>7 DEF TypeOK
<1>6. CASE RecvError
    BY <1>6 DEF TypeOK, RecvError, DealPcs
<1>7. CASE SetPin
    <2>1. level' \in [Devices -> Values] /\ early' \in SUBSET Devices
        <3> DEFINE d == DeviceIn(recvbuf)
                   set == [level EXCEPT ![d] = ValueIn(recvbuf)]
        <3>1. level \in [Devices -> Values] /\ early \in SUBSET Devices
            BY DEF TypeOK
        <3>2. d \in Devices /\ ValueIn(recvbuf) \in Values
            BY <1>a
        <3>3. set \in [Devices -> Values]
            BY <3>1, <3>2
        <3>4. level' \in {level, set} /\ early' \in {early \ {d}, early \cup {d}}
            BY <1>7 DEF SetPin
        <3>5. QED
            BY <3>1, <3>2, <3>3, <3>4
    <2>2. /\ dealPc' = "status"
          /\ UNCHANGED <<notDeal, acceptFd, new_fd, is_accepted, recvbuf, status, netVars>>
        BY <1>7 DEF SetPin
    <2>3. QED
        BY <2>1, <2>2 DEF TypeOK, DealPcs
<1>8. CASE SetStatus
    BY <1>8, <1>a DEF TypeOK, SetStatus, DealPcs
<1>9. CASE CloseOnError
    <2>1. Close(new_fd) /\ new_fd \in Fds \cup {NoFd}
        BY <1>9 DEF CloseOnError, TypeOK
    <2>2. QED
        BY <1>9, <2>1, CloseType DEF TypeOK, CloseOnError, DealPcs
<1>10. CASE ClearAccepted
    BY <1>10 DEF TypeOK, ClearAccepted, DealPcs
<1>11. CASE RecvEof
    BY <1>11 DEF TypeOK, RecvEof, vars, dealVars
<1>12. CASE RecvAfterEof
    BY <1>12 DEF TypeOK, RecvAfterEof, DealPcs
<1>13. QED
    BY <1>1, <1>2, <1>3, <1>4, <1>5, <1>6, <1>7, <1>8, <1>9, <1>10, <1>11, <1>12
    DEF Deal, DealAtEof

\* Every step of report_message_task keeps the types.
LEMMA ReportType == TypeOK /\ Report => TypeOK'
<1> SUFFICES ASSUME TypeOK, Report PROVE TypeOK'
    OBVIOUS
<1>a. NoReport \in Reports
    BY DEF NoReport, Reports
<1> USE DEF notRep, mainVars, dealVars, phoneVars, netVars
<1>1. CASE RepInit
    BY <1>1 DEF TypeOK, RepInit, RepPcs
<1>2. CASE RepCheck
    BY <1>2 DEF TypeOK, RepCheck, RepPcs
<1>3. CASE RepIdle
    BY <1>3 DEF TypeOK, RepIdle, vars, repVars
<1>4. CASE RepReadMotor
    BY <1>4 DEF TypeOK, RepReadMotor, RepPcs, Reports, Devices
<1>5. CASE RepReadLight
    BY <1>5, <1>a DEF TypeOK, RepReadLight, RepPcs, Reports, Devices
<1>6. CASE RepSend
    <2>1. shown' \in [Conns -> Reports] /\ poked' \in SUBSET Conns
        <3> DEFINE c == SockAt(new_fd)
        <3>1. /\ report \in Reports /\ shown \in [Conns -> Reports]
              /\ poked \in SUBSET Conns
            BY DEF TypeOK
        <3>2. CASE ~Usable(new_fd)
            BY <1>6, <3>1, <3>2 DEF RepSend
        <3>3. CASE Usable(new_fd)
            <4>1. c \in Conns
                BY <3>3 DEF Usable
            <4>2. shown' = shown \/ shown' = [shown EXCEPT ![c] = report]
                BY <1>6, <3>3 DEF RepSend
            <4>3. poked' = poked \/ poked' = poked \cup {c}
                BY <1>6, <3>3 DEF RepSend
            <4>4. QED
                BY <3>1, <4>1, <4>2, <4>3
        <3>4. QED
            BY <3>2, <3>3
    <2>2. /\ report' = NoReport
          /\ repPc' \in {"close", "check"}
          /\ UNCHANGED <<notRep, ioReady, sock, backlog, stream, conn, cmds, issued>>
        BY <1>6 DEF RepSend
    <2>3. QED
        BY <1>a, <2>1, <2>2 DEF TypeOK, RepPcs
<1>7. CASE RepClose
    <2>1. Close(new_fd) /\ new_fd \in Fds \cup {NoFd}
        BY <1>7 DEF RepClose, TypeOK
    <2>2. QED
        BY <1>7, <2>1, CloseType DEF TypeOK, RepClose, RepPcs
<1>8. QED
    BY <1>1, <1>2, <1>3, <1>4, <1>5, <1>6, <1>7 DEF Report

\* Every step of a phone or of the network keeps the types.
LEMMA PhoneType == ASSUME TypeOK, NEW c \in Conns, Phone(c) PROVE TypeOK'
<1> USE DEF tasksVars, mainVars, dealVars, repVars, phoneVars
<1>1. CASE Connect(c)
    <2>1. Append(backlog, c) \in Seq(Conns)
        BY AppendProperties DEF TypeOK
    <2>2. QED
        BY <1>1, <2>1 DEF TypeOK, Connect, ConnStates
<1>2. CASE ClientLeave(c)
    BY <1>2 DEF TypeOK, ClientLeave, ConnStates
<1>3. CASE ResetArrives(c)
    BY <1>3 DEF TypeOK, ResetArrives, ConnStates
<1>4. CASE NetworkReset(c)
    BY <1>4 DEF TypeOK, NetworkReset, ConnStates
<1>5. ASSUME NEW d \in Devices, NEW v \in Values, ClientSend(c, d, v) PROVE TypeOK'
    <2>1. <<d, v>> \in Seq(Tokens) /\ stream[c] \in Seq(Tokens)
        BY DEF Tokens, TypeOK
    <2>2. stream[c] \o <<d, v>> \in Seq(Tokens)
        BY <2>1, ConcatProperties
    <2>3. QED
        BY <1>5, <2>2 DEF TypeOK, ClientSend
<1>6. QED
    BY <1>1, <1>2, <1>3, <1>4, <1>5 DEF Phone

\* The state of the board always has the types TypeOK gives.
THEOREM TypeCorrect == Spec => []TypeOK
<1>1. Init => TypeOK
    <2> SUFFICES ASSUME Init PROVE TypeOK
        OBVIOUS
    <2>1. <<>> \in Seq(Tokens) /\ <<>> \in Seq(Conns) /\ 0 \in Fds
        BY DEF Fds
    <2>2. /\ [d \in Devices |-> "OFF"] \in [Devices -> Values]
          /\ NoReport \in Reports
        BY DEF Values, NoReport, Reports
    <2>3. /\ sock \in [Fds -> Conns \cup {Free, Unbound, Listener}]
          /\ stream \in [Conns -> Seq(Tokens)]
          /\ conn \in [Conns -> ConnStates]
          /\ shown \in [Conns -> Reports]
        BY <2>1, <2>2 DEF Init, ConnStates
    <2>4. QED
        BY <2>1, <2>2, <2>3 DEF Init, TypeOK, MainPcs, DealPcs, RepPcs
<1>2. TypeOK /\ [Next]_vars => TypeOK'
    <2>1. CASE UNCHANGED vars
        BY <2>1 DEF TypeOK, vars, mainVars, dealVars, repVars, netVars, phoneVars
    <2>2. CASE Next
        BY <2>2, MainType, DealType, ReportType, PhoneType DEF Next
    <2>3. QED
        BY <2>1, <2>2
<1>3. QED
    BY <1>1, <1>2, PTL DEF Spec

----------------------------------------------------------------------------
(* The inductive invariant. *)

\* Before the first launch has created a task, the task does nothing.
StartOrder ==
    /\ launches = 1 /\ mainPc \in {"socket", "listen", "spawnDeal"} => dealPc = "none"
    /\ launches = 1 /\ mainPc # "done" => repPc = "none"
    /\ mainPc \in {"spawnDeal", "spawnReport"} => launches = 1
    /\ dealPc = "none" => is_accepted = 0

\* new_fd can name the listening socket only before the first accept, when no
\* task is on its way to send on new_fd or to close it.
ListenerSafe ==
    SockAt(new_fd) = Listener =>
        /\ dealPc \in {"none", "call", "accept"}
        /\ is_accepted = 0
        /\ repPc \in {"none", "init", "check"}

\* A connection the board knows has been opened by its client.
KnownOpened ==
    /\ \A fd \in Fds : sock[fd] \in Conns => conn[sock[fd]] # "idle"
    /\ \A i \in DOMAIN backlog : conn[backlog[i]] # "idle"

\* deal_command_task closes only a connection that its client left.
CloseCause ==
    dealPc = "close" /\ SockAt(new_fd) \in Conns => conn[SockAt(new_fd)] \notin {"idle", "up"}

\* Between the two assignments the pin already has its new level.
PinCause ==
    dealPc = "status" =>
        DeviceIn(recvbuf) \in early \/ level[DeviceIn(recvbuf)] = ValueIn(recvbuf)

SockInv == NoOrphanSocket /\ ListenerKept /\ StartOrder /\ ListenerSafe

\* What close(fd) does to the descriptor table.
LEMMA CloseSock ==
    ASSUME Close(new_fd), SockAt(new_fd) # Listener
    PROVE  /\ \A f \in Fds : sock'[f] = IF f = new_fd THEN Free ELSE sock[f]
           /\ Listening => Listening'
<1>1. \A f \in Fds : sock'[f] = IF f = new_fd THEN Free ELSE sock[f]
    BY DEF Close
<1>2. QED
    BY <1>1 DEF Listening, SockAt

\* SockInv depends on these variables only.
LEMMA SockFrame ==
    ASSUME SockInv, UNCHANGED <<mainPc, launches, sock, new_fd, is_accepted, dealPc, repPc>>
    PROVE  SockInv'
BY DEF SockInv, NoOrphanSocket, ListenerKept, StartOrder, ListenerSafe, Serving,
       Listening, SockAt

\* Every step of the main task keeps SockInv.
LEMMA MainSock == TypeOK /\ SockInv /\ (Main \/ Relaunch) => SockInv'
<1> SUFFICES ASSUME TypeOK, SockInv, Main \/ Relaunch PROVE SockInv'
    OBVIOUS
<1> USE DEF notMain, dealVars, repVars, phoneVars, netVars, links, pins,
            SockInv, NoOrphanSocket, ListenerKept, StartOrder, ListenerSafe, Serving,
            Listening, SockAt
<1>0. sock \in [Fds -> Conns \cup {Free, Unbound, Listener}] /\ launches \in Nat \ {0}
    BY DEF TypeOK
<1>1. CASE MainSocket
    <2>1. CASE UNCHANGED sock
        BY <1>0, <1>1, <2>1 DEF MainSocket
    <2>2. CASE \E fd \in Fds : sock[fd] = Free /\ sock' = [sock EXCEPT ![fd] = Unbound]
        <3>1. PICK fd \in Fds : sock[fd] = Free /\ sock' = [sock EXCEPT ![fd] = Unbound]
            BY <2>2
        <3>2. \A f \in Fds : sock'[f] = IF f = fd THEN Unbound ELSE sock[f]
            BY <1>0, <3>1
        <3>3. Listening => Listening'
            BY <3>1, <3>2
        <3>4. QED
            BY <1>0, <1>1, <3>1, <3>2, <3>3 DEF MainSocket
    <2>3. QED
        BY <1>1, <2>1, <2>2 DEF MainSocket
<1>2. CASE MainListen
    <2>1. CASE UNCHANGED sock
        BY <1>0, <1>2, <2>1 DEF MainListen
    <2>2. CASE /\ SockAt(sock_fd) = Unbound /\ ~Listening
               /\ sock' = [sock EXCEPT ![sock_fd] = Listener]
               /\ mainPc' = "spawnDeal"
        <3>1. sock_fd \in Fds /\ sock'[sock_fd] = Listener
            BY <1>0, <2>2
        <3>2. \A f \in Fds : sock'[f] \in Conns => sock[f] \in Conns
            BY <1>0, <2>2
        <3>3. launches = 1
            BY <1>0, <2>2
        <3>4. QED
            BY <1>2, <2>2, <3>1, <3>2, <3>3 DEF MainListen
    <2>3. QED
        BY <1>2, <2>1, <2>2 DEF MainListen
<1>3. CASE MainSpawnDeal
    BY <1>3 DEF MainSpawnDeal
<1>4. CASE MainSpawnReport
    BY <1>4 DEF MainSpawnReport
<1>5. CASE Relaunch
    BY <1>0, <1>5 DEF Relaunch
<1>6. QED
    BY <1>1, <1>2, <1>3, <1>4, <1>5 DEF Main

\* Every step of deal_command_task keeps SockInv.
LEMMA DealSock == TypeOK /\ SockInv /\ (Deal \/ DealAtEof) => SockInv'
<1> SUFFICES ASSUME TypeOK, SockInv, Deal \/ DealAtEof PROVE SockInv'
    OBVIOUS
<1> USE DEF notDeal, mainVars, repVars, phoneVars, netVars, links, pins,
            SockInv, NoOrphanSocket, ListenerKept, StartOrder, ListenerSafe, Serving,
            Listening, SockAt
<1>0. sock \in [Fds -> Conns \cup {Free, Unbound, Listener}]
    BY DEF TypeOK
<1>1. CASE CallAccept
    BY <1>1 DEF CallAccept
<1>2. CASE Accept
    <2>1. PICK fd \in Fds : /\ sock[fd] = Free
                            /\ sock' = [sock EXCEPT ![fd] = Head(backlog)]
                            /\ new_fd' = fd
        BY <1>2 DEF Accept
    <2>2. Head(backlog) \in Conns
        BY <1>2, HeadTailProperties DEF TypeOK, Accept
    <2>3. \A f \in Fds : sock'[f] = IF f = fd THEN Head(backlog) ELSE sock[f]
        BY <1>0, <2>1
    <2>4. Listening => Listening'
        BY <2>1, <2>3
    <2>5. QED
        BY <1>2, <2>1, <2>2, <2>3, <2>4 DEF Accept
<1>3. CASE AcceptError
    <2>1. new_fd' = NoFd /\ NoFd \notin Fds
        BY <1>3 DEF AcceptError, NoFd, Fds
    <2>2. QED
        BY <1>3, <2>1 DEF AcceptError
<1>4. CASE SetAccepted
    BY <1>4 DEF SetAccepted
<1>5. CASE Recv
    BY <1>5 DEF Recv
<1>6. CASE RecvError
    BY <1>6 DEF RecvError
<1>7. CASE SetPin
    BY <1>7 DEF SetPin
<1>8. CASE SetStatus
    BY <1>8 DEF SetStatus
<1>9. CASE CloseOnError
    <2>1. Close(new_fd) /\ SockAt(new_fd) # Listener
        BY <1>9 DEF CloseOnError
    <2>2. QED
        BY <1>0, <1>9, <2>1, CloseSock DEF CloseOnError
<1>10. CASE ClearAccepted
    BY <1>10 DEF ClearAccepted
<1>11. CASE RecvEof
    BY <1>11, SockFrame DEF RecvEof, vars, dealVars
<1>12. CASE RecvAfterEof
    BY <1>12 DEF RecvAfterEof
<1>13. QED
    BY <1>1, <1>2, <1>3, <1>4, <1>5, <1>6, <1>7, <1>8, <1>9, <1>10, <1>11, <1>12
    DEF Deal, DealAtEof

\* Every step of report_message_task keeps SockInv.
LEMMA ReportSock == TypeOK /\ SockInv /\ Report => SockInv'
<1> SUFFICES ASSUME TypeOK, SockInv, Report PROVE SockInv'
    OBVIOUS
<1> USE DEF notRep, mainVars, dealVars, phoneVars, netVars,
            SockInv, NoOrphanSocket, ListenerKept, StartOrder, ListenerSafe, Serving,
            Listening, SockAt
<1>1. CASE RepInit
    BY <1>1 DEF RepInit
<1>2. CASE RepCheck
    BY <1>2 DEF RepCheck
<1>3. CASE RepIdle
    BY <1>3, SockFrame DEF RepIdle, vars, repVars
<1>4. CASE RepReadMotor
    BY <1>4 DEF RepReadMotor
<1>5. CASE RepReadLight
    BY <1>5 DEF RepReadLight
<1>6. CASE RepSend
    BY <1>6 DEF RepSend
<1>7. CASE RepClose
    <2>1. Close(new_fd) /\ SockAt(new_fd) # Listener
        BY <1>7 DEF RepClose
    <2>2. QED
        BY <1>7, <2>1, CloseSock DEF RepClose
<1>8. QED
    BY <1>1, <1>2, <1>3, <1>4, <1>5, <1>6, <1>7 DEF Report

\* SockInv always holds.
LEMMA SockCorrect == Spec => []SockInv
<1>1. Init => SockInv
    <2> SUFFICES ASSUME Init PROVE SockInv
        OBVIOUS
    <2>1. \A fd \in Fds : sock[fd] = Free
        BY DEF Init
    <2>2. NoOrphanSocket /\ ListenerSafe
        BY <2>1 DEF NoOrphanSocket, ListenerSafe, SockAt
    <2>3. ListenerKept /\ StartOrder
        BY DEF Init, ListenerKept, StartOrder
    <2>4. QED
        BY <2>2, <2>3 DEF SockInv
<1>2. TypeOK /\ SockInv /\ [Next]_vars => SockInv'
    <2> SUFFICES ASSUME TypeOK, SockInv, [Next]_vars PROVE SockInv'
        OBVIOUS
    <2>1. CASE UNCHANGED vars
        BY <2>1, SockFrame DEF vars, mainVars, dealVars, repVars, netVars
    <2>2. ASSUME NEW c \in Conns, Phone(c) PROVE SockInv'
        <3>1. UNCHANGED tasksVars /\ UNCHANGED sock
            BY <2>2 DEF Phone, Connect, ClientSend, ClientLeave, ResetArrives, NetworkReset
        <3>2. QED
            BY <3>1, SockFrame DEF tasksVars, mainVars, dealVars, repVars
    <2>3. QED
        BY <2>1, <2>2, MainSock, DealSock, ReportSock DEF Next
<1>3. QED
    BY <1>1, <1>2, TypeCorrect, PTL DEF Spec

\* No interleaving of the tasks' closes, accepts, failures and relaunches leaks
\* the descriptor of a client.
THEOREM DescriptorsDoNotLeak == Spec => []NoOrphanSocket
BY SockCorrect, PTL DEF SockInv

\* Once it listens, the board never stops listening.
THEOREM ListenerSurvives == Spec => []ListenerKept
BY SockCorrect, PTL DEF SockInv

\* With one launch sock_fd names the listening socket from listen on, and
\* deal_command_task is not created before.
SockFdInv ==
    /\ launches = 1
    /\ mainPc \in {"spawnDeal", "spawnReport", "done"} => SockAt(sock_fd) = Listener
    /\ dealPc # "none" => mainPc \in {"spawnReport", "done"}

\* A step that leaves the main task alone and frees or gives out descriptors other
\* than the listening one keeps SockFdInv.
LEMMA SockFdFrame ==
    ASSUME SockFdInv, UNCHANGED mainVars, dealPc = "none" => dealPc' = "none",
           \A fd \in Fds : sock[fd] = Listener => sock'[fd] = Listener
    PROVE  SockFdInv'
BY DEF SockFdInv, SockAt, mainVars, Listening

\* If the tutorial is launched once, accept is always called on the listening
\* socket, as the comment at c05_01_app_main.c:47 has it: close(new_fd) of either
\* task never hits it, whatever descriptor numbers are given out.
THEOREM AcceptsOnListener ==
    ASSUME MaxLaunches = 1
    PROVE  Spec => []SockFdListens
<1>1. Init => SockFdInv
    BY DEF Init, SockFdInv
<1>2. TypeOK /\ SockInv /\ SockFdInv /\ [Next]_vars => SockFdInv'
    <2> SUFFICES ASSUME TypeOK, SockInv, SockFdInv, [Next]_vars PROVE SockFdInv'
        OBVIOUS
    <2>0. sock \in [Fds -> Conns \cup {Free, Unbound, Listener}]
        BY DEF TypeOK
    <2>a. ASSUME Close(new_fd), SockAt(new_fd) # Listener
          PROVE  \A fd \in Fds : sock[fd] = Listener => sock'[fd] = Listener
        BY <2>a DEF Close, SockAt
    <2>1. CASE MainSocket
        BY <2>1 DEF MainSocket, SockFdInv, notMain, dealVars
    <2>2. CASE MainListen
        BY <2>0, <2>2 DEF MainListen, SockFdInv, SockAt, notMain, dealVars
    <2>3. CASE MainSpawnDeal \/ MainSpawnReport
        BY <2>3 DEF MainSpawnDeal, MainSpawnReport, SockFdInv, SockAt, netVars, dealVars
    <2>4. CASE Relaunch
        BY <2>4 DEF Relaunch, SockFdInv
    <2>5. CASE Accept
        <3>1. \A fd \in Fds : sock[fd] = Listener => sock'[fd] = Listener
            BY <2>0, <2>5 DEF Accept
        <3>2. QED
            BY <2>5, <3>1, SockFdFrame DEF Accept, notDeal
    <2>6. CASE CloseOnError
        <3>1. dealPc = "close" /\ Close(new_fd) /\ UNCHANGED mainVars
            BY <2>6 DEF CloseOnError, notDeal
        <3>2. SockAt(new_fd) # Listener
            BY <3>1 DEF SockInv, ListenerSafe
        <3>3. QED
            BY <2>a, <3>1, <3>2, SockFdFrame
    <2>7. CASE RepClose
        <3>1. repPc = "close" /\ Close(new_fd) /\ UNCHANGED <<mainVars, dealPc>>
            BY <2>7 DEF RepClose, notRep, dealVars
        <3>2. SockAt(new_fd) # Listener
            BY <3>1 DEF SockInv, ListenerSafe
        <3>3. QED
            BY <2>a, <3>1, <3>2, SockFdFrame
    <2>8. CASE UNCHANGED <<mainVars, sock>> /\ (dealPc = "none" => dealPc' = "none")
        BY <2>8, SockFdFrame
    <2>9. CASE CallAccept \/ AcceptError \/ SetAccepted \/ Recv \/ RecvError \/ SetPin \/ SetStatus
               \/ ClearAccepted \/ RecvEof \/ RecvAfterEof
        BY <2>8, <2>9 DEF CallAccept, AcceptError, SetAccepted, Recv, RecvError, SetPin, SetStatus,
           ClearAccepted, RecvEof, RecvAfterEof, notDeal, netVars, vars
    <2>10. CASE RepInit \/ RepCheck \/ RepIdle \/ RepReadMotor \/ RepReadLight \/ RepSend
        BY <2>8, <2>10 DEF RepInit, RepCheck, RepIdle, RepReadMotor, RepReadLight, RepSend,
           notRep, dealVars, netVars, vars
    <2>11. ASSUME NEW c \in Conns, Phone(c) PROVE SockFdInv'
        BY <2>8, <2>11 DEF Phone, Connect, ClientSend, ClientLeave, ResetArrives, NetworkReset,
           tasksVars, dealVars
    <2>12. CASE UNCHANGED vars
        BY <2>8, <2>12 DEF vars, dealVars, netVars
    <2>13. QED
        BY <2>1, <2>2, <2>3, <2>4, <2>5, <2>6, <2>7, <2>9, <2>10, <2>11, <2>12
        DEF Next, Main, Deal, DealAtEof, Report
<1>3. SockFdInv => SockFdListens
    BY DEF SockFdInv, SockFdListens
<1>4. QED
    BY <1>1, <1>2, <1>3, TypeCorrect, SockCorrect, PTL DEF Spec

----------------------------------------------------------------------------
(* Who disconnects a client. *)

DropInv == KnownOpened /\ CloseCause

\* Steps that open nothing, queue nothing and do not start a close keep DropInv.
LEMMA DropKept ==
    ASSUME TypeOK, DropInv,
           \A f \in Fds : sock'[f] \in Conns => sock'[f] = sock[f],
           \A k \in Conns : /\ conn[k] # "idle" => conn'[k] # "idle"
                            /\ conn[k] \notin {"idle", "up"} => conn'[k] \notin {"idle", "up"},
           new_fd' = new_fd, backlog' = backlog,
           dealPc' = "close" => dealPc = "close"
    PROVE  DropInv'
<1>1. \A i \in DOMAIN backlog : backlog[i] \in Conns
    BY DEF TypeOK
<1>2. KnownOpened'
    BY <1>1 DEF DropInv, KnownOpened
<1>3. CloseCause'
    BY DEF DropInv, CloseCause, SockAt
<1>4. QED
    BY <1>2, <1>3 DEF DropInv

\* close satisfies the conditions of DropKept.
LEMMA CloseDrop ==
    ASSUME Close(new_fd)
    PROVE  /\ \A f \in Fds : sock'[f] \in Conns => sock'[f] = sock[f]
           /\ \A k \in Conns :
                /\ conn[k] # "idle" => conn'[k] # "idle"
                /\ conn[k] \notin {"idle", "up"} => conn'[k] \notin {"idle", "up"}
           /\ backlog' = backlog
BY DEF Close

\* Every step of the main task keeps DropInv.
LEMMA MainDrop == TypeOK /\ DropInv /\ (Main \/ Relaunch) => DropInv'
<1> SUFFICES ASSUME TypeOK, DropInv, Main \/ Relaunch PROVE DropInv'
    OBVIOUS
<1> USE DEF notMain, dealVars, netVars, links
<1>0. sock \in [Fds -> Conns \cup {Free, Unbound, Listener}]
    BY DEF TypeOK
<1>1. UNCHANGED <<new_fd, backlog, conn>> /\ dealPc' \in {dealPc, "call"}
    BY DEF Main, MainSocket, MainListen, MainSpawnDeal, MainSpawnReport, Relaunch
<1>2. UNCHANGED sock \/ \E fd \in Fds, e \in {Unbound, Listener} : sock' = [sock EXCEPT ![fd] = e]
    <2>1. SockAt(sock_fd) = Unbound => sock_fd \in Fds
        BY DEF SockAt
    <2>2. QED
        BY <2>1 DEF Main, MainSocket, MainListen, MainSpawnDeal, MainSpawnReport, Relaunch
<1>3. \A f \in Fds : sock'[f] \in Conns => sock'[f] = sock[f]
    BY <1>0, <1>2
<1>4. QED
    BY <1>1, <1>3, DropKept

\* Every step of deal_command_task keeps DropInv.
LEMMA DealDrop == TypeOK /\ SockInv /\ DropInv /\ (Deal \/ DealAtEof) => DropInv'
<1> SUFFICES ASSUME TypeOK, SockInv, DropInv, Deal \/ DealAtEof PROVE DropInv'
    OBVIOUS
<1> USE DEF netVars, links
<1>0. /\ sock \in [Fds -> Conns \cup {Free, Unbound, Listener}]
      /\ conn \in [Conns -> ConnStates] /\ backlog \in Seq(Conns)
    BY DEF TypeOK
<1>1. CASE Accept
    <2>1. /\ backlog # <<>> /\ backlog' = Tail(backlog)
          /\ conn' = conn /\ dealPc' = "flag"
          /\ \E fd \in Fds : sock' = [sock EXCEPT ![fd] = Head(backlog)]
        BY <1>1 DEF Accept
    <2>2. conn[Head(backlog)] # "idle"
        BY <1>0, <2>1 DEF DropInv, KnownOpened
    <2>3. \A i \in DOMAIN Tail(backlog) : i + 1 \in DOMAIN backlog /\ Tail(backlog)[i] = backlog[i + 1]
        BY <1>0, <2>1
    <2>4. KnownOpened'
        BY <1>0, <2>1, <2>2, <2>3 DEF DropInv, KnownOpened
    <2>5. CloseCause'
        BY <2>1 DEF CloseCause
    <2>6. QED
        BY <2>4, <2>5 DEF DropInv
<1>2. CASE AcceptError
    <2>1. /\ dealPc' = "flag" /\ sock' = sock
          /\ backlog' = backlog \/ (backlog # <<>> /\ backlog' = Tail(backlog))
          /\ conn' = conn \/ conn' = [conn EXCEPT ![Head(backlog)] = "done"]
        BY <1>2 DEF AcceptError
    <2>2. \A k \in Conns : conn[k] # "idle" => conn'[k] # "idle"
        BY <1>0, <2>1
    <2>3. backlog # <<>> =>
            \A i \in DOMAIN Tail(backlog) : i + 1 \in DOMAIN backlog /\ Tail(backlog)[i] = backlog[i + 1]
        BY <1>0
    <2>4. \A i \in DOMAIN backlog' : \E j \in DOMAIN backlog : backlog'[i] = backlog[j]
        BY <2>1, <2>3
    <2>5. \A j \in DOMAIN backlog : backlog[j] \in Conns
        BY <1>0
    <2>6. KnownOpened'
        BY <2>1, <2>2, <2>4, <2>5 DEF DropInv, KnownOpened
    <2>7. CloseCause'
        BY <2>1 DEF CloseCause
    <2>8. QED
        BY <2>6, <2>7 DEF DropInv
<1>3. CASE RecvError \/ RecvAfterEof
    <2>1. UNCHANGED <<sock, new_fd, conn, backlog>>
        BY <1>3 DEF RecvError, RecvAfterEof
    <2>2. SockAt(new_fd) \in Conns => conn[SockAt(new_fd)] \in {"rst", "fin"}
        BY <1>3 DEF RecvError, RecvAfterEof, Usable, AtEof
    <2>3. QED
        BY <2>1, <2>2 DEF DropInv, KnownOpened, CloseCause, SockAt
<1>4. CASE CloseOnError
    <2>1. Close(new_fd) /\ new_fd' = new_fd /\ dealPc' = "unflag"
        BY <1>4 DEF CloseOnError
    <2>2. QED
        BY <2>1, CloseDrop, DropKept
<1>5. CASE CallAccept \/ SetAccepted \/ Recv \/ SetPin \/ SetStatus \/ ClearAccepted \/ RecvEof
    <2>1. UNCHANGED <<sock, new_fd, conn, backlog>> /\ (dealPc' = "close" => dealPc = "close")
        BY <1>5 DEF CallAccept, SetAccepted, Recv, SetPin, SetStatus, ClearAccepted, RecvEof,
                    vars, dealVars
    <2>2. QED
        BY <2>1, DropKept
<1>6. QED
    BY <1>1, <1>2, <1>3, <1>4, <1>5 DEF Deal, DealAtEof

\* Every step of report_message_task keeps DropInv.
LEMMA ReportDrop == TypeOK /\ DropInv /\ Report => DropInv'
<1> SUFFICES ASSUME TypeOK, DropInv, Report PROVE DropInv'
    OBVIOUS
<1>1. UNCHANGED <<new_fd, dealPc>>
    BY DEF Report, RepInit, RepCheck, RepIdle, RepReadMotor, RepReadLight, RepSend, RepClose,
           notRep, dealVars, vars
<1>2. CASE RepClose
    BY <1>1, <1>2, CloseDrop, DropKept DEF RepClose
<1>3. CASE RepInit \/ RepCheck \/ RepIdle \/ RepReadMotor \/ RepReadLight \/ RepSend
    <2>1. UNCHANGED <<sock, conn, backlog>>
        BY <1>3 DEF RepInit, RepCheck, RepIdle, RepReadMotor, RepReadLight, RepSend, netVars, vars
    <2>2. QED
        BY <1>1, <2>1, DropKept
<1>4. QED
    BY <1>2, <1>3 DEF Report

\* Every step of a phone or of the network keeps DropInv.
LEMMA PhoneDrop == ASSUME TypeOK, DropInv, NEW c \in Conns, Phone(c) PROVE DropInv'
<1>0. conn \in [Conns -> ConnStates] /\ backlog \in Seq(Conns)
    BY DEF TypeOK
<1>1. UNCHANGED <<new_fd, dealPc, sock>>
    BY DEF Phone, Connect, ClientSend, ClientLeave, ResetArrives, NetworkReset, tasksVars, dealVars
<1>2. CASE Connect(c)
    <2>1. /\ conn[c] = "idle" /\ conn' = [conn EXCEPT ![c] = "up"]
          /\ backlog' = Append(backlog, c)
        BY <1>2 DEF Connect
    <2>2. \A k \in Conns : conn'[k] = IF k = c THEN "up" ELSE conn[k]
        BY <1>0, <2>1
    <2>3. \A i \in DOMAIN backlog' : backlog'[i] = c \/ (i \in DOMAIN backlog /\ backlog'[i] = backlog[i])
        BY <1>0, <2>1
    <2>4. \A i \in DOMAIN backlog : backlog[i] \in Conns
        BY <1>0
    <2>5. KnownOpened'
        BY <1>1, <2>2, <2>3, <2>4 DEF DropInv, KnownOpened
    <2>6. SockAt(new_fd) # c \/ c \notin Conns
        BY <2>1 DEF DropInv, KnownOpened, SockAt, CloseCause
    <2>7. CloseCause'
        BY <1>1, <2>2, <2>6 DEF DropInv, CloseCause, SockAt
    <2>8. QED
        BY <2>5, <2>7 DEF DropInv
<1>3. CASE ~Connect(c)
    <2>1. backlog' = backlog
        BY <1>3 DEF Phone, ClientSend, ClientLeave, ResetArrives, NetworkReset
    <2>2. conn' = conn \/ \E s \in {"fin", "gone", "rst"} : conn' = [conn EXCEPT ![c] = s]
        BY <1>3 DEF Phone, ClientSend, ClientLeave, ResetArrives, NetworkReset
    <2>3. \A k \in Conns : /\ conn[k] # "idle" => conn'[k] # "idle"
                           /\ conn[k] \notin {"idle", "up"} => conn'[k] \notin {"idle", "up"}
        BY <1>0, <2>2
    <2>4. QED
        BY <1>1, <2>1, <2>3, DropKept
<1>4. QED
    BY <1>2, <1>3

\* DropInv always holds.
LEMMA DropCorrect == Spec => []DropInv
<1>1. Init => DropInv
    <2> SUFFICES ASSUME Init PROVE DropInv
        OBVIOUS
    <2>1. /\ \A fd \in Fds : sock[fd] \notin Conns
          /\ backlog = <<>> /\ dealPc = "none"
        BY DEF Init
    <2>2. QED
        BY <2>1 DEF DropInv, KnownOpened, CloseCause
<1>2. TypeOK /\ SockInv /\ DropInv /\ [Next]_vars => DropInv'
    <2> SUFFICES ASSUME TypeOK, SockInv, DropInv, [Next]_vars PROVE DropInv'
        OBVIOUS
    <2>1. CASE UNCHANGED vars
        BY <2>1, DropKept DEF vars, dealVars, netVars
    <2>2. QED
        BY <2>1, MainDrop, DealDrop, ReportDrop, PhoneDrop DEF Next
<1>3. QED
    BY <1>1, <1>2, TypeCorrect, SockCorrect, PTL DEF Spec

\* Of the two tasks that close new_fd, only the report task ever disconnects a
\* client that is alive.
THEOREM DealNeverDropsHealthy == Spec => OnlyReportDropsHealthy
<1> DEFINE Drop == \A c \in Conns : conn[c] = "up" /\ conn'[c] = "done" =>
          (repPc = "close" /\ SockAt(new_fd) = c) \/ c \in {backlog[i] : i \in DOMAIN backlog}
<1>1. TypeOK /\ DropInv /\ [Next]_vars => Drop
    <2> SUFFICES ASSUME TypeOK, DropInv, [Next]_vars,
                        NEW c \in Conns, conn[c] = "up", conn'[c] = "done"
                 PROVE  (repPc = "close" /\ SockAt(new_fd) = c) \/ c \in {backlog[i] : i \in DOMAIN backlog}
        OBVIOUS
    <2>0. conn \in [Conns -> ConnStates] /\ backlog \in Seq(Conns)
        BY DEF TypeOK
    <2>1. CASE CloseOnError
        <3>1. SockAt(new_fd) = c /\ dealPc = "close"
            BY <2>1 DEF CloseOnError, Close
        <3>2. QED
            BY <3>1 DEF DropInv, CloseCause
    <2>2. CASE RepClose
        BY <2>2 DEF RepClose, Close
    <2>3. CASE AcceptError
        <3>1. backlog # <<>> /\ c = Head(backlog)
            BY <2>0, <2>3 DEF AcceptError
        <3>2. 1 \in DOMAIN backlog /\ c = backlog[1]
            BY <2>0, <3>1
        <3>3. QED
            BY <3>2
    <2>4. ASSUME NEW k \in Conns, Phone(k) PROVE FALSE
        <3>1. conn'[c] \in {conn[c], "up", "fin", "gone", "rst"}
            BY <2>0, <2>4 DEF Phone, Connect, ClientSend, ClientLeave, ResetArrives, NetworkReset
        <3>2. QED
            BY <3>1
    <2>5. CASE UNCHANGED conn
        BY <2>5
    <2>6. Next /\ ~CloseOnError /\ ~RepClose /\ ~AcceptError /\ (\A k \in Conns : ~Phone(k)) => UNCHANGED conn
        BY DEF Next, Main, MainSocket, MainListen, MainSpawnDeal, MainSpawnReport, Relaunch,
               Deal, CallAccept, Accept, SetAccepted, Recv, RecvError, SetPin, SetStatus,
               ClearAccepted, DealAtEof, RecvEof, RecvAfterEof,
               Report, RepInit, RepCheck, RepIdle, RepReadMotor, RepReadLight, RepSend,
               links, netVars, vars
    <2>7. UNCHANGED vars => UNCHANGED conn
        BY DEF vars, netVars
    <2>8. QED
        BY <2>1, <2>2, <2>3, <2>4, <2>5, <2>6, <2>7
<1>2. QED
    BY <1>1, TypeCorrect, DropCorrect, PTL DEF Spec, OnlyReportDropsHealthy

----------------------------------------------------------------------------
(* The pins and the statuses. *)

PinInv == StatusTracksPin /\ PinCause

\* The statuses follow the pins.
THEOREM StatusFollowsPin == Spec => []StatusTracksPin
<1>1. Init => PinInv
    BY DEF Init, PinInv, StatusTracksPin, PinCause
<1>2. TypeOK /\ SockInv /\ PinInv /\ [Next]_vars => PinInv'
    <2> SUFFICES ASSUME TypeOK, SockInv, PinInv, [Next]_vars PROVE PinInv'
        OBVIOUS
    <2>0. level \in [Devices -> Values] /\ status \in [Devices -> Values]
        BY DEF TypeOK
    <2>a. DeviceIn(recvbuf) \in Devices
        BY DEF DeviceIn, Devices
    <2>1. CASE SetPin
        <3> DEFINE d == DeviceIn(recvbuf)
        <3>1. /\ dealPc = "set" /\ dealPc' = "status"
              /\ status' = status /\ recvbuf' = recvbuf
              /\ \/ level' = [level EXCEPT ![d] = ValueIn(recvbuf)] /\ early' = early \ {d}
                 \/ /\ level' = level \/ level' = [level EXCEPT ![d] = ValueIn(recvbuf)]
                    /\ early' = early \cup {d}
            BY <2>1 DEF SetPin
        <3>2. \A e \in Devices : e # d => level'[e] = level[e] /\ (e \in early => e \in early')
            BY <2>0, <3>1
        <3>3. d \in early' \/ level'[d] = ValueIn(recvbuf)
            BY <2>0, <2>a, <3>1
        <3>4. QED
            BY <3>1, <3>2, <3>3 DEF PinInv, StatusTracksPin, PinCause
    <2>2. CASE SetStatus
        <3> DEFINE d == DeviceIn(recvbuf)
        <3>1. /\ dealPc = "status" /\ dealPc' = "recv"
              /\ status' = [status EXCEPT ![d] = ValueIn(recvbuf)]
              /\ level' = level /\ early' = early
            BY <2>2 DEF SetStatus, pins
        <3>2. \A e \in Devices : status'[e] = IF e = d THEN ValueIn(recvbuf) ELSE status[e]
            BY <2>0, <3>1
        <3>3. QED
            BY <2>a, <3>1, <3>2 DEF PinInv, StatusTracksPin, PinCause
    <2>3. CASE UNCHANGED <<level, status, early>> /\ dealPc # "status" /\ dealPc' # "status"
        BY <2>3 DEF PinInv, StatusTracksPin, PinCause
    <2>4. CASE UNCHANGED <<level, status, early, dealPc, recvbuf>>
        BY <2>4 DEF PinInv, StatusTracksPin, PinCause
    <2>5. CASE MainSpawnDeal
        <3>1. dealPc = "none" /\ dealPc' \in {"none", "call"}
            BY <2>5 DEF MainSpawnDeal, SockInv, StartOrder
        <3>2. UNCHANGED <<level, status, early>>
            BY <2>5 DEF MainSpawnDeal, pins
        <3>3. QED
            BY <2>3, <3>1, <3>2
    <2>6. CASE (Main /\ ~MainSpawnDeal) \/ Relaunch
        BY <2>4, <2>6 DEF Main, MainSocket, MainListen, MainSpawnReport, Relaunch, notMain, dealVars
    <2>7. CASE CallAccept \/ Accept \/ AcceptError \/ SetAccepted \/ RecvError \/ RecvAfterEof
               \/ CloseOnError \/ ClearAccepted \/ Recv
        BY <2>3, <2>7 DEF CallAccept, Accept, AcceptError, SetAccepted, RecvError, RecvAfterEof,
           CloseOnError, ClearAccepted, Recv, pins
    <2>8. CASE RecvEof \/ UNCHANGED vars
        BY <2>4, <2>8 DEF RecvEof, vars, dealVars
    <2>9. CASE Report
        BY <2>4, <2>9 DEF Report, RepInit, RepCheck, RepIdle, RepReadMotor, RepReadLight,
           RepSend, RepClose, notRep, dealVars, vars
    <2>10. ASSUME NEW c \in Conns, Phone(c) PROVE PinInv'
        BY <2>4, <2>10 DEF Phone, Connect, ClientSend, ClientLeave, ResetArrives, NetworkReset,
           tasksVars, dealVars
    <2>11. QED
        BY <2>1, <2>2, <2>5, <2>6, <2>7, <2>8, <2>9, <2>10 DEF Next, Main, Deal, DealAtEof
<1>3. QED
    BY <1>1, <1>2, TypeCorrect, SockCorrect, PTL DEF Spec, PinInv

----------------------------------------------------------------------------
(***************************************************************************)
(* The refinement of DeviceControl by BoardServer, step by step.  What a   *)
(* phone is assumed to do is only what BoardImplements says: it waits for  *)
(* the board to read a command before it sends another.                    *)
(***************************************************************************)

\* The mapping of BoardImplements.
Pending == [c \in Conns |-> PendingOf(c)]
Doing   == IF dealPc = "set" THEN <<DeviceIn(recvbuf), ValueIn(recvbuf)>> ELSE NoCommand

\* What is still to be received from a connection is a part of one command.
PartOfOne(s) == /\ Len(s) \in 0 .. 2
                /\ Len(s) = 2 => s[1] \in Devices /\ s[2] \in Values
OneCommandEach == \A c \in Conns : PartOfOne(stream[c])

----------------------------------------------------------------------------
(* The steps of DeviceControl, of the mapped variables. *)

LEMMA MappedIssue ==
    ASSUME NEW c \in Conns, NEW d \in Devices, NEW v \in Values,
           Pending' = [Pending EXCEPT ![c] = Append(@, <<d, v>>)], UNCHANGED <<level, Doing>>
    PROVE  Control!Next
<1>1. Control!Issue(c, d, v)
    BY DEF Control!Issue, Pending, Doing
<1>2. QED
    BY <1>1 DEF Control!Next

LEMMA MappedLose ==
    ASSUME NEW c \in Conns, Len(stream[c]) = 2,
           Pending' = [Pending EXCEPT ![c] = <<>>], UNCHANGED <<level, Doing>>
    PROVE  Control!Next
<1>1. Pending[c] = <<stream[c]>>
    BY DEF Pending, PendingOf
<1>2. Len(Pending[c]) = 1 /\ SubSeq(Pending[c], 2, 1) = <<>>
    BY <1>1
<1>3. \E n \in 1 .. Len(Pending[c]) :
         Pending' = [Pending EXCEPT ![c] = SubSeq(@, n + 1, Len(@))]
    <2>1. 1 \in 1 .. Len(Pending[c]) /\ SubSeq(Pending[c], 1 + 1, Len(Pending[c])) = <<>>
        BY <1>2
    <2>2. Pending' = [Pending EXCEPT ![c] = SubSeq(Pending[c], 1 + 1, Len(Pending[c]))]
        BY <2>1
    <2>3. QED
        BY <2>1, <2>2, Zenon
<1>4. Control!Lose(c)
    BY <1>3, Zenon DEF Control!Lose, Pending, Doing
<1>5. QED
    BY <1>4 DEF Control!Next

LEMMA MappedTake ==
    ASSUME NEW c \in Conns, Len(stream[c]) = 2, Doing = NoCommand, Doing' = stream[c],
           Pending' = [Pending EXCEPT ![c] = <<>>], UNCHANGED level
    PROVE  Control!Next
<1>1. Pending[c] = <<stream[c]>>
    BY DEF Pending, PendingOf
<1>2. Pending[c] # <<>> /\ Head(Pending[c]) = stream[c] /\ Tail(Pending[c]) = <<>>
    BY <1>1
<1>3. Pending' = [Pending EXCEPT ![c] = Tail(@)]
    BY <1>2
<1>4. Control!Take(c)
    BY <1>2, <1>3 DEF Control!Take, Pending, Doing
<1>5. QED
    BY <1>4 DEF Control!Next

----------------------------------------------------------------------------
(* Steps of BoardServer, by what they do to the streams. *)

\* Pending after one stream changed.
LEMMA PendingChanged ==
    ASSUME NEW k \in Conns, \A c \in Conns : c # k => stream'[c] = stream[c]
    PROVE  Pending' = [Pending EXCEPT ![k] = IF Len(stream'[k]) = 2 THEN <<stream'[k]>> ELSE <<>>]
BY DEF Pending, PendingOf

\* A step that leaves pins, commands and streams alone, or only empties a stream
\* or takes words out of it that make no command, loses a command or none.
LEMMA Shortened ==
    ASSUME TypeOK, OneCommandEach, NEW k \in Conns, Len(stream'[k]) \in {0, 1},
           \A c \in Conns : c # k => stream'[c] = stream[c],
           UNCHANGED <<level, Doing>>
    PROVE  OneCommandEach' /\ [Control!Next]_(Control!vars)
<1>1. OneCommandEach'
    <2>1. PartOfOne(stream'[k])
        BY DEF PartOfOne
    <2>2. QED
        BY <2>1 DEF OneCommandEach
<1>2. Pending' = [Pending EXCEPT ![k] = <<>>]
    BY PendingChanged
<1>3. CASE Len(stream[k]) = 2
    BY <1>1, <1>2, <1>3, MappedLose
<1>4. CASE Len(stream[k]) # 2
    <2>1. Pending[k] = <<>>
        BY <1>4 DEF Pending, PendingOf
    <2>2. Pending' = Pending
        BY <1>2, <2>1 DEF Pending
    <2>3. QED
        BY <1>1, <2>2 DEF Control!vars, Pending, Doing
<1>5. QED
    BY <1>3, <1>4

LEMMA Unchanged ==
    ASSUME OneCommandEach, UNCHANGED <<level, Doing, stream>>
    PROVE  OneCommandEach' /\ [Control!Next]_(Control!vars)
<1>1. OneCommandEach'
    BY Zenon DEF OneCommandEach
<1>2. Pending' = Pending
    BY DEF Pending, PendingOf
<1>3. UNCHANGED Control!vars
    BY <1>2, Zenon DEF Control!vars, Doing, Pending
<1>4. QED
    BY <1>1, <1>3

\* close: the words of the connection are lost with it.
LEMMA CloseStep ==
    ASSUME TypeOK, OneCommandEach, NEW fd \in Fds \cup {NoFd}, Close(fd), UNCHANGED <<level, Doing>>
    PROVE  OneCommandEach' /\ [Control!Next]_(Control!vars)
<1> DEFINE k == SockAt(fd)
<1>1. \A c \in Conns : stream'[c] = IF c = k THEN <<>> ELSE stream[c]
    BY DEF Close
<1>2. CASE k \in Conns
    <2>1. Len(stream'[k]) = 0
        BY <1>1, <1>2
    <2>2. QED
        BY <1>1, <1>2, <2>1, Shortened
<1>3. CASE k \notin Conns
    <2>1. stream' = stream
        BY <1>1, <1>3 DEF Close, TypeOK
    <2>2. QED
        BY <2>1, Unchanged
<1>4. QED
    BY <1>2, <1>3

\* What recv takes: both words of a command in one part, or words that are none.
LEMMA RecvPart ==
    ASSUME TypeOK, OneCommandEach, Recv
    PROVE  \E c \in Conns :
             /\ Len(stream'[c]) \in {0, 1}
             /\ \A k \in Conns : k # c => stream'[k] = stream[k]
             /\ UNCHANGED <<level, issued>>
             /\ \/ UNCHANGED Doing
                \/ Len(stream[c]) = 2 /\ Doing = NoCommand /\ Doing' = stream[c]
<1> DEFINE c == SockAt(new_fd)
           Got(n) == {stream[c][i] : i \in 1 .. n}
<1>1. /\ dealPc = "recv" /\ c \in Conns /\ UNCHANGED <<level, issued>>
      /\ stream \in [Conns -> Seq(Tokens)]
    BY DEF Recv, TypeOK, pins, notDeal, phoneVars
<1>2. PICK n \in 0 .. Len(stream[c]), torn \in {0, 1} :
         /\ 0 < n + torn /\ n + torn <= Len(stream[c])
         /\ stream' = [stream EXCEPT ![c] = SubSeq(@, n + torn + 1, Len(@))]
         /\ \/ IsCommand(Got(n)) /\ recvbuf' = Got(n) /\ dealPc' = "set"
            \/ ~IsCommand(Got(n)) /\ UNCHANGED <<recvbuf, dealPc>>
    BY DEF Recv, Consume
<1>3. Len(stream[c]) \in {1, 2}
    <2>1. Len(stream[c]) \in 0 .. 2
        BY <1>1 DEF OneCommandEach, PartOfOne
    <2>2. n + torn \in Nat /\ 0 < n + torn /\ n + torn <= Len(stream[c])
        BY <1>2, <2>1
    <2>3. QED
        BY <2>1, <2>2
<1>4. Len(stream'[c]) \in {0, 1}
    <2>1. n + torn + 1 \in Nat /\ n + torn \in 1 .. Len(stream[c])
        BY <1>2, <1>3
    <2>5. \A i \in 1 .. Len(stream[c]) : Len(stream[c]) - i \in {0, 1}
        BY <1>3, OneOrTwo, Zenon
    <2>2. Len(SubSeq(stream[c], n + torn + 1, Len(stream[c]))) = Len(stream[c]) - (n + torn)
        BY <1>1, <1>3, <2>1, SubSeqProperties
    <2>3. stream'[c] = SubSeq(stream[c], n + torn + 1, Len(stream[c]))
        BY <1>1, <1>2
    <2>4. QED
        BY <2>1, <2>2, <2>3, <2>5, Zenon
<1>5. \A k \in Conns : k # c => stream'[k] = stream[k]
    BY <1>1, <1>2
<1>6. CASE ~IsCommand(Got(n))
    <2>1. UNCHANGED Doing
        BY <1>2, <1>6 DEF Doing
    <2>2. QED
        BY <1>1, <1>4, <1>5, <2>1
<1>7. CASE IsCommand(Got(n))
    <2>1. n = 2 /\ Len(stream[c]) = 2
        <3>1. n # 0
            BY <1>7 DEF IsCommand
        <3>2. n # 1
            <4>1. CASE n = 1
                <5>1. Got(n) = {stream[c][1]}
                    BY <4>1
                <5>2. QED
                    BY <1>7, <5>1 DEF IsCommand, Devices, Values
            <4>2. QED
                BY <4>1
        <3>3. n \in 0 .. Len(stream[c])
            OBVIOUS
        <3>4. QED
            BY <1>3, <3>1, <3>2, <3>3, OneOrTwo, Zenon
    <2>2. stream[c][1] \in Devices /\ stream[c][2] \in Values
        BY <1>1, <2>1 DEF OneCommandEach, PartOfOne
    <2>3. Got(n) = {stream[c][1], stream[c][2]}
        BY <2>1
    <2>4. DeviceIn(Got(n)) = stream[c][1] /\ ValueIn(Got(n)) = stream[c][2]
        BY <2>2, <2>3 DEF DeviceIn, ValueIn, Devices, Values
    <2>5. <<stream[c][1], stream[c][2]>> = stream[c]
        BY <1>1, <2>1
    <2>6. recvbuf' = Got(n) /\ dealPc' = "set"
        BY <1>2, <1>7
    <2>7. Doing = NoCommand /\ Doing' = stream[c]
        BY <1>1, <2>4, <2>5, <2>6 DEF Doing
    <2>8. QED
        BY <1>1, <1>4, <1>5, <2>1, <2>7
<1>8. QED
    BY <1>6, <1>7

\* So recv takes up one command or loses at most one.
LEMMA RecvStep ==
    ASSUME TypeOK, OneCommandEach, Recv
    PROVE  OneCommandEach' /\ [Control!Next]_(Control!vars)
<1>1. PICK c \in Conns :
         /\ Len(stream'[c]) \in {0, 1}
         /\ \A k \in Conns : k # c => stream'[k] = stream[k]
         /\ UNCHANGED <<level, issued>>
         /\ \/ UNCHANGED Doing
            \/ Len(stream[c]) = 2 /\ Doing = NoCommand /\ Doing' = stream[c]
    BY RecvPart
<1>2. CASE UNCHANGED Doing
    BY <1>1, <1>2, Shortened
<1>3. CASE Len(stream[c]) = 2 /\ Doing = NoCommand /\ Doing' = stream[c]
    <2>1. Pending' = [Pending EXCEPT ![c] = <<>>]
        <3>1. Len(stream'[c]) # 2
            <4>1. 0 # 2 /\ 1 # 2
                OBVIOUS
            <4>2. QED
                BY <1>1, <4>1, Zenon
        <3>2. QED
            BY <1>1, <3>1, PendingChanged
    <2>2. OneCommandEach'
        <3>1. PartOfOne(stream'[c])
            BY <1>1 DEF PartOfOne
        <3>2. QED
            BY <1>1, <3>1 DEF OneCommandEach
    <2>3. QED
        BY <1>1, <1>3, <2>1, <2>2, MappedTake
<1>4. QED
    BY <1>1, <1>2, <1>3

\* Motor_StatusSet and Light_StatusSet execute the command that was received.
LEMMA SetPinStep ==
    ASSUME TypeOK, OneCommandEach, SetPin
    PROVE  OneCommandEach' /\ [Control!Next]_(Control!vars)
<1>1. /\ dealPc = "set" /\ dealPc' = "status" /\ stream' = stream
      /\ level' \in {level, [level EXCEPT ![DeviceIn(recvbuf)] = ValueIn(recvbuf)]}
    BY DEF SetPin, netVars
<1>2. Doing = <<DeviceIn(recvbuf), ValueIn(recvbuf)>> /\ Doing' = NoCommand
    BY <1>1 DEF Doing
<1>3. Doing # NoCommand /\ Doing[1] = DeviceIn(recvbuf) /\ Doing[2] = ValueIn(recvbuf)
    BY <1>2 DEF NoCommand
<1>4. Pending' = Pending
    BY <1>1 DEF Pending, PendingOf
<1>5. Doing # NoCommand /\ level' \in {level, [level EXCEPT ![Doing[1]] = Doing[2]]}
      /\ Doing' = NoCommand /\ Pending' = Pending
    BY <1>1, <1>2, <1>3, <1>4
<1>6. Control!Execute
    BY <1>5 DEF Control!Execute, Pending, Doing
<1>7. OneCommandEach'
    BY <1>1 DEF OneCommandEach
<1>8. QED
    BY <1>6, <1>7 DEF Control!Next

\* A phone sends a command: its stream was empty.
LEMMA SendStep ==
    ASSUME StreamCap = 2, TypeOK, OneCommandEach,
           NEW c \in Conns, NEW d \in Devices, NEW v \in Values, ClientSend(c, d, v)
    PROVE  OneCommandEach' /\ [Control!Next]_(Control!vars)
<1>1. /\ stream \in [Conns -> Seq(Tokens)] /\ Len(stream[c]) + 2 <= 2
      /\ stream' = [stream EXCEPT ![c] = @ \o <<d, v>>]
      /\ UNCHANGED <<level, dealPc, recvbuf>>
    BY DEF ClientSend, TypeOK, tasksVars, dealVars
<1>2. stream[c] = <<>>
    BY <1>1
<1>3. stream'[c] = <<d, v>> /\ \A k \in Conns : k # c => stream'[k] = stream[k]
    BY <1>1, <1>2
<1>4. OneCommandEach'
    <2>1. PartOfOne(stream'[c])
        BY <1>3 DEF PartOfOne
    <2>2. QED
        BY <1>3, <2>1 DEF OneCommandEach
<1>5. Pending[c] = <<>> /\ Pending' = [Pending EXCEPT ![c] = <<<<d, v>>>>]
    <2>1. Pending[c] = <<>>
        <3>1. Len(stream[c]) # 2
            BY <1>2
        <3>2. QED
            BY <3>1 DEF Pending, PendingOf
    <2>2. Len(stream'[c]) = 2
        BY <1>3
    <2>3. QED
        BY <1>3, <2>1, <2>2, PendingChanged
<1>6. Pending' = [Pending EXCEPT ![c] = Append(@, <<d, v>>)]
    BY <1>5
<1>7. UNCHANGED Doing
    BY <1>1 DEF Doing
<1>8. QED
    BY <1>1, <1>4, <1>6, <1>7, MappedIssue
----------------------------------------------------------------------------
(* The steps of each task and of the phones. *)

LEMMA MainControl ==
    ASSUME TypeOK, SockInv, OneCommandEach, Main \/ Relaunch
    PROVE  OneCommandEach' /\ [Control!Next]_(Control!vars)
<1>1. UNCHANGED <<level, stream, recvbuf>> /\ (dealPc' = dealPc \/ (MainSpawnDeal /\ dealPc' = "call"))
    BY DEF Main, MainSocket, MainListen, MainSpawnDeal, MainSpawnReport, Relaunch,
           notMain, dealVars, netVars, links, pins
<1>2. MainSpawnDeal => dealPc = "none"
    BY DEF MainSpawnDeal, SockInv, StartOrder
<1>3. UNCHANGED Doing
    BY <1>1, <1>2 DEF Doing
<1>4. QED
    BY <1>1, <1>3, Unchanged

LEMMA DealControl ==
    ASSUME TypeOK, OneCommandEach, Deal \/ DealAtEof
    PROVE  OneCommandEach' /\ [Control!Next]_(Control!vars)
<1>1. CASE CallAccept \/ Accept \/ SetAccepted \/ RecvError \/ RecvAfterEof \/ SetStatus \/ ClearAccepted
    <2>1. UNCHANGED <<level, stream>> /\ dealPc # "set" /\ dealPc' # "set"
        BY <1>1 DEF CallAccept, Accept, SetAccepted, RecvError, RecvAfterEof, SetStatus, ClearAccepted,
                    pins, netVars
    <2>2. QED
        BY <2>1, Unchanged DEF Doing
<1>2. CASE RecvEof
    BY <1>2, Unchanged DEF RecvEof, vars, dealVars, netVars, Doing
<1>3. CASE AcceptError
    <2>1. UNCHANGED level /\ dealPc # "set" /\ dealPc' # "set"
        BY <1>3 DEF AcceptError, pins
    <2>2. UNCHANGED Doing
        BY <2>1 DEF Doing
    <2>3. CASE UNCHANGED stream
        BY <2>1, <2>2, <2>3, Unchanged
    <2>4. CASE backlog # <<>> /\ stream' = [stream EXCEPT ![Head(backlog)] = <<>>]
        <3>1. Head(backlog) \in Conns
            BY <2>4, HeadTailProperties DEF TypeOK
        <3>2. Len(stream'[Head(backlog)]) = 0 /\ \A k \in Conns : k # Head(backlog) => stream'[k] = stream[k]
            BY <2>4, <3>1 DEF TypeOK
        <3>3. QED
            BY <2>1, <2>2, <3>1, <3>2, Shortened
    <2>5. QED
        BY <1>3, <2>3, <2>4 DEF AcceptError
<1>4. CASE CloseOnError
    <2>1. Close(new_fd) /\ UNCHANGED level /\ dealPc # "set" /\ dealPc' # "set"
        BY <1>4 DEF CloseOnError, pins
    <2>2. QED
        BY <2>1, CloseStep DEF Doing, TypeOK
<1>5. QED
    BY <1>1, <1>2, <1>3, <1>4, RecvStep, SetPinStep DEF Deal, DealAtEof

LEMMA ReportControl ==
    ASSUME TypeOK, OneCommandEach, Report
    PROVE  OneCommandEach' /\ [Control!Next]_(Control!vars)
<1>1. UNCHANGED <<level, Doing>>
    BY DEF Report, RepInit, RepCheck, RepIdle, RepReadMotor, RepReadLight, RepSend, RepClose,
           notRep, dealVars, vars, Doing
<1>2. CASE RepClose
    BY <1>1, <1>2, CloseStep DEF RepClose, TypeOK
<1>3. CASE RepInit \/ RepCheck \/ RepIdle \/ RepReadMotor \/ RepReadLight \/ RepSend
    <2>1. UNCHANGED stream
        BY <1>3 DEF RepInit, RepCheck, RepIdle, RepReadMotor, RepReadLight, RepSend, netVars, vars
    <2>2. QED
        BY <1>1, <2>1, Unchanged
<1>4. QED
    BY <1>2, <1>3 DEF Report

LEMMA PhoneControl ==
    ASSUME StreamCap = 2, TypeOK, OneCommandEach, NEW c \in Conns, Phone(c)
    PROVE  OneCommandEach' /\ [Control!Next]_(Control!vars)
<1>1. CASE Connect(c) \/ ClientLeave(c) \/ ResetArrives(c) \/ NetworkReset(c)
    <2>1. UNCHANGED <<level, dealPc, recvbuf, stream>>
        BY <1>1 DEF Connect, ClientLeave, ResetArrives, NetworkReset, tasksVars, dealVars
    <2>2. QED
        BY <2>1, Unchanged DEF Doing
<1>2. QED
    BY <1>1, SendStep DEF Phone

\* Every step keeps OneCommandEach and is a step of DeviceControl or none.
LEMMA ControlStep ==
    ASSUME StreamCap = 2, TypeOK, SockInv, OneCommandEach, [Next]_vars
    PROVE  OneCommandEach' /\ [Control!Next]_(Control!vars)
<1>1. UNCHANGED vars => OneCommandEach' /\ [Control!Next]_(Control!vars)
    BY Unchanged DEF vars, dealVars, netVars, Doing
<1>2. QED
    BY <1>1, MainControl, DealControl, ReportControl, PhoneControl DEF Next

\* A phone that waits for a command to be read before it sends the next controls
\* the devices as DeviceControl says: every change of a level executes a command
\* that was issued, no command is executed twice or mixed with another, and those
\* of a connection keep their order, whatever else happens to the board.
THEOREM BoardImplementsControl ==
    ASSUME StreamCap = 2
    PROVE  Spec => ImplementsDeviceControl
<1>1. Init => Control!Init /\ OneCommandEach
    <2> SUFFICES ASSUME Init PROVE Control!Init /\ OneCommandEach
        OBVIOUS
    <2>1. \A c \in Conns : Len(stream[c]) = 0
        BY DEF Init
    <2>2. dealPc = "none" /\ level = [d \in Devices |-> "OFF"]
        BY DEF Init
    <2>3. QED
        BY <2>1, <2>2 DEF Control!Init, OneCommandEach, PartOfOne, PendingOf
<1>2. TypeOK /\ SockInv /\ OneCommandEach /\ [Next]_vars
        => OneCommandEach' /\ [Control!Next]_(Control!vars)
    BY ControlStep
<1>3. QED
    BY <1>1, <1>2, TypeCorrect, SockCorrect, PTL DEF Spec, ImplementsDeviceControl, Control!Spec

----------------------------------------------------------------------------
(* What a device does, some phone asked for. *)

\* Where a command is before it switches a device: whole in a stream, or taken up.
CommandInv ==
    /\ SwitchedByCommand
    /\ \A c \in Conns : Len(stream[c]) = 2 => stream[c] \in issued
    /\ Doing # NoCommand => Doing \in issued

\* A step that takes up and issues no command, and leaves no stream with two words
\* that did not have them.
LEMMA CommandFrame ==
    ASSUME CommandInv, UNCHANGED <<level, issued, Doing>>,
           \A c \in Conns : stream'[c] = stream[c] \/ Len(stream'[c]) # 2
    PROVE  CommandInv'
<1>1. SwitchedByCommand'
    BY Zenon DEF CommandInv, SwitchedByCommand
<1>2. (\A c \in Conns : Len(stream[c]) = 2 => stream[c] \in issued)'
    BY Zenon DEF CommandInv
<1>3. (Doing # NoCommand => Doing \in issued)'
    BY Zenon DEF CommandInv, NoCommand
<1>4. QED
    BY <1>1, <1>2, <1>3, Zenon DEF CommandInv

\* close empties at most one stream.
LEMMA CloseStreams ==
    ASSUME NEW fd, Close(fd)
    PROVE  \A c \in Conns : stream'[c] = stream[c] \/ Len(stream'[c]) # 2
<1>1. \A c \in Conns : stream'[c] = IF c = SockAt(fd) THEN <<>> ELSE stream[c]
    BY DEF Close
<1>2. Len(<<>>) # 2
    OBVIOUS
<1>3. QED
    BY <1>1, <1>2

\* The steps of the main and the report task, and those of deal_command_task
\* that neither receive nor switch.
LEMMA QuietStep ==
    ASSUME TypeOK, SockInv, CommandInv,
           \/ Main \/ Relaunch \/ Report \/ DealAtEof
           \/ Deal /\ ~Recv /\ ~SetPin
    PROVE  CommandInv'
<1>1. CASE Main \/ Relaunch
    <2>1. UNCHANGED <<level, issued, stream, recvbuf>> /\ (dealPc' = dealPc \/ (MainSpawnDeal /\ dealPc' = "call"))
        BY <1>1 DEF Main, MainSocket, MainListen, MainSpawnDeal, MainSpawnReport, Relaunch,
               notMain, dealVars, netVars, phoneVars, links, pins
    <2>2. MainSpawnDeal => dealPc = "none"
        BY DEF MainSpawnDeal, SockInv, StartOrder
    <2>3. QED
        BY <2>1, <2>2, CommandFrame DEF Doing
<1>2. CASE Report
    <2>1. UNCHANGED <<level, issued, Doing>>
        BY <1>2 DEF Report, RepInit, RepCheck, RepIdle, RepReadMotor, RepReadLight, RepSend, RepClose,
               notRep, dealVars, phoneVars, vars, Doing
    <2>2. CASE RepClose
        BY <2>1, <2>2, CloseStreams, CommandFrame DEF RepClose
    <2>3. CASE UNCHANGED stream
        BY <2>1, <2>3, CommandFrame
    <2>4. QED
        BY <1>2, <2>2, <2>3 DEF Report, RepInit, RepCheck, RepIdle, RepReadMotor, RepReadLight,
               RepSend, netVars, vars
<1>3. CASE DealAtEof \/ (Deal /\ ~Recv /\ ~SetPin)
    <2>1. UNCHANGED <<level, issued>> /\ (UNCHANGED <<dealPc, recvbuf>> \/ (dealPc # "set" /\ dealPc' # "set"))
        BY <1>3 DEF Deal, DealAtEof, CallAccept, Accept, AcceptError, SetAccepted, RecvError,
               RecvEof, RecvAfterEof, SetStatus, CloseOnError, ClearAccepted,
               notDeal, dealVars, phoneVars, pins, vars
    <2>2. UNCHANGED Doing
        BY <2>1 DEF Doing
    <2>3. CASE CloseOnError
        BY <2>1, <2>2, <2>3, CloseStreams, CommandFrame DEF CloseOnError
    <2>4. CASE UNCHANGED stream
        BY <2>1, <2>2, <2>4, CommandFrame
    <2>5. CASE AcceptError
        <3>1. CASE stream' = [stream EXCEPT ![Head(backlog)] = <<>>]
            <4>1. \A c \in Conns : stream'[c] = stream[c] \/ stream'[c] = <<>>
                BY <3>1 DEF TypeOK
            <4>2. Len(<<>>) # 2
                OBVIOUS
            <4>3. QED
                BY <2>1, <2>2, <4>1, <4>2, CommandFrame
        <3>2. QED
            BY <2>4, <2>5, <3>1 DEF AcceptError
    <2>6. QED
        BY <1>3, <2>3, <2>4, <2>5 DEF Deal, DealAtEof, CallAccept, Accept, SetAccepted, RecvError,
               RecvEof, RecvAfterEof, SetStatus, ClearAccepted, netVars, vars
<1>4. QED
    BY <1>1, <1>2, <1>3

LEMMA RecvCommand ==
    ASSUME TypeOK, OneCommandEach, CommandInv, Recv
    PROVE  CommandInv'
<1>1. PICK c \in Conns :
         /\ Len(stream'[c]) \in {0, 1}
         /\ \A k \in Conns : k # c => stream'[k] = stream[k]
         /\ UNCHANGED <<level, issued>>
         /\ \/ UNCHANGED Doing
            \/ Len(stream[c]) = 2 /\ Doing = NoCommand /\ Doing' = stream[c]
    BY RecvPart
<1>2. \A k \in Conns : stream'[k] = stream[k] \/ Len(stream'[k]) # 2
    BY <1>1
<1>3. SwitchedByCommand'
    BY <1>1 DEF CommandInv, SwitchedByCommand
<1>4. (\A k \in Conns : Len(stream[k]) = 2 => stream[k] \in issued)'
    BY <1>1, <1>2, Zenon DEF CommandInv
<1>5. (Doing # NoCommand => Doing \in issued)'
    BY <1>1, Zenon DEF CommandInv, NoCommand
<1>6. QED
    BY <1>3, <1>4, <1>5, Zenon DEF CommandInv

LEMMA SetPinCommand ==
    ASSUME TypeOK, CommandInv, SetPin
    PROVE  CommandInv'
<1> DEFINE d == DeviceIn(recvbuf)
<1>1. /\ dealPc = "set" /\ dealPc' = "status" /\ UNCHANGED <<stream, issued>>
      /\ level' \in {level, [level EXCEPT ![d] = ValueIn(recvbuf)]}
    BY DEF SetPin, netVars, notDeal, phoneVars
<1>2. <<d, ValueIn(recvbuf)>> \in issued
    BY <1>1 DEF CommandInv, Doing, NoCommand
<1>3. \A e \in Devices : level'[e] = level[e] \/ (e = d /\ level'[e] = ValueIn(recvbuf))
    BY <1>1 DEF TypeOK
<1>4. SwitchedByCommand'
    BY <1>1, <1>2, <1>3 DEF CommandInv, SwitchedByCommand
<1>5. Doing' = NoCommand
    BY <1>1 DEF Doing
<1>6. QED
    BY <1>1, <1>4, <1>5 DEF CommandInv, NoCommand

LEMMA PhoneCommand ==
    ASSUME StreamCap = 2, TypeOK, CommandInv, NEW c \in Conns, Phone(c)
    PROVE  CommandInv'
<1>1. CASE Connect(c) \/ ClientLeave(c) \/ ResetArrives(c) \/ NetworkReset(c)
    <2>1. UNCHANGED <<level, issued, dealPc, recvbuf, stream>>
        BY <1>1 DEF Connect, ClientLeave, ResetArrives, NetworkReset, tasksVars, dealVars, phoneVars
    <2>2. QED
        BY <2>1, CommandFrame DEF Doing
<1>2. ASSUME NEW d \in Devices, NEW v \in Values, ClientSend(c, d, v) PROVE CommandInv'
    <2>1. /\ stream \in [Conns -> Seq(Tokens)] /\ Len(stream[c]) + 2 <= 2
          /\ stream' = [stream EXCEPT ![c] = @ \o <<d, v>>]
          /\ issued' = issued \cup {<<d, v>>}
          /\ UNCHANGED <<level, dealPc, recvbuf>>
        BY <1>2 DEF ClientSend, TypeOK, tasksVars, dealVars
    <2>2. stream[c] = <<>>
        BY <2>1
    <2>3. stream'[c] = <<d, v>> /\ \A k \in Conns : k # c => stream'[k] = stream[k]
        BY <2>1, <2>2
    <2>4. UNCHANGED Doing
        BY <2>1 DEF Doing
    <2>5. SwitchedByCommand'
        BY <2>1 DEF CommandInv, SwitchedByCommand
    <2>6. (\A k \in Conns : Len(stream[k]) = 2 => stream[k] \in issued)'
        BY <2>1, <2>3 DEF CommandInv
    <2>7. (Doing # NoCommand => Doing \in issued)'
        BY <2>1, <2>4, Zenon DEF CommandInv, NoCommand
    <2>8. QED
        BY <2>5, <2>6, <2>7, Zenon DEF CommandInv
<1>3. QED
    BY <1>1, <1>2 DEF Phone

\* A phone that waits for a command to be read before it sends the next never sees
\* a device on that no command switched on: the comment at
\* c05_01_app_deal_command.c:50 is then true, whatever parts recv returns.
THEOREM OnlyCommandsSwitch ==
    ASSUME StreamCap = 2
    PROVE  Spec => []SwitchedByCommand
<1>1. Init => OneCommandEach /\ CommandInv
    <2> SUFFICES ASSUME Init PROVE OneCommandEach /\ CommandInv
        OBVIOUS
    <2>1. \A c \in Conns : Len(stream[c]) = 0
        BY DEF Init
    <2>2. dealPc = "none" /\ level = [d \in Devices |-> "OFF"]
        BY DEF Init
    <2>3. Doing = NoCommand
        BY <2>2 DEF Doing
    <2>4. QED
        BY <2>1, <2>2, <2>3 DEF OneCommandEach, PartOfOne, CommandInv, SwitchedByCommand
<1>2. TypeOK /\ SockInv /\ OneCommandEach /\ CommandInv /\ [Next]_vars
        => OneCommandEach' /\ CommandInv'
    <2> SUFFICES ASSUME TypeOK, SockInv, OneCommandEach, CommandInv, [Next]_vars
                 PROVE  CommandInv'
        BY ControlStep
    <2>1. CASE UNCHANGED vars
        BY <2>1, CommandFrame DEF vars, dealVars, netVars, phoneVars, Doing
    <2>2. QED
        BY <2>1, QuietStep, RecvCommand, SetPinCommand, PhoneCommand DEF Next
<1>3. CommandInv => SwitchedByCommand
    BY DEF CommandInv
<1>4. QED
    BY <1>1, <1>2, <1>3, TypeCorrect, SockCorrect, PTL DEF Spec
============================================================================
