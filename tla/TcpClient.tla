------------------------------ MODULE TcpClient ------------------------------
(***************************************************************************)
(* The TCP client tutorial                                                 *)
(* (src/app/Entry/03/05_Tcp_Client/b03_05_Tcp_Client.c).  Each launch from *)
(* the menu creates a TCPClientTask; all of them use the global sock_fd.   *)
(* lwIP gives out the lowest descriptor that is free, to other tasks too.  *)
(***************************************************************************)
EXTENDS Integers, FiniteSets

CONSTANTS
    ClientTasks,  \* the TCPClientTasks, one for each launch
    NumFds        \* size of lwIP's descriptor table

NoOne == "none"
Other == "other"     \* any other task of the board

ASSUME ClientAssumption == NumFds \in Nat \ {0} /\ {NoOne, Other} \cap ClientTasks = {}

VARIABLES
    clientPc,         \* the tasks
    clientFd,         \* the global sock_fd
    recvFd,           \* the descriptor a task waits at in recv
    owner, link,      \* lwIP: who opened a descriptor, and its connection
    foreignClosed,    \* history: a task closed a descriptor of someone else
    reopened,         \* history: a descriptor was opened between the two closes of a task
    overlapped        \* history: a task was started before another one had ended

clientVars == <<clientPc, clientFd, recvFd, owner, link, foreignClosed, reopened, overlapped>>

Fds == 0 .. NumFds - 1

ClientInit ==
    /\ clientPc = [t \in ClientTasks |-> "idle"] /\ clientFd = 0
    /\ recvFd = [t \in ClientTasks |-> -1]
    /\ owner = [f \in Fds |-> NoOne]
    /\ link = [f \in Fds |-> "closed"]
    /\ foreignClosed = FALSE /\ reopened = FALSE /\ overlapped = FALSE

AtClose(t, step) == clientPc[t] = step
Between == \E t \in ClientTasks : AtClose(t, "closesocket")
Active(t) == clientPc[t] \notin {"idle", "ended"}
GoClient(t, next) == clientPc' = [clientPc EXCEPT ![t] = next]
History == <<foreignClosed, reopened, overlapped>>

\* socket(): the lowest free descriptor.
Opens(who, f) ==
    /\ owner[f] = NoOne /\ \A g \in Fds : owner[g] = NoOne => f <= g
    /\ owner' = [owner EXCEPT ![f] = who]
    /\ link' = [link EXCEPT ![f] = "none"]
    /\ reopened' = (reopened \/ Between)

----------------------------------------------------------------------------
(* TCPClientTask *)

ClientStart(t) ==
    /\ clientPc[t] = "idle"
    /\ GoClient(t, "wifi")
    /\ overlapped' = (overlapped \/ \E u \in ClientTasks : Active(u))
    /\ UNCHANGED <<clientFd, recvFd, owner, link, foreignClosed, reopened>>

\* WifiConnect returns, with 0 or -1, which nobody looks at (module WifiConnect).
Connected(t) ==
    /\ clientPc[t] = "wifi"
    /\ GoClient(t, "socket")
    /\ UNCHANGED <<clientFd, recvFd, owner, link, History>>

\* A failing socket() ends the task; the global is -1 from then on.
ClientSocket(t) ==
    /\ clientPc[t] = "socket"
    /\ \/ \E f \in Fds : Opens(t, f) /\ clientFd' = f /\ GoClient(t, "connect")
       \/ clientFd' = -1 /\ GoClient(t, "ended") /\ UNCHANGED <<owner, link, reopened>>
    /\ UNCHANGED <<recvFd, foreignClosed, overlapped>>

\* The result of connect is ignored.
ClientConnect(t) ==
    /\ clientPc[t] = "connect"
    /\ GoClient(t, "send")
    /\ \/ clientFd \in Fds /\ link[clientFd] = "none" /\ link' = [link EXCEPT ![clientFd] = "up"]
       \/ UNCHANGED link
    /\ UNCHANGED <<clientFd, recvFd, owner, History>>

\* A descriptor that can carry data; after the server's FIN, sending works and
\* is answered with a reset.
Alive(f) == f \in Fds /\ link[f] \in {"up", "data", "fin", "refusing"}

\* Mutant of Send: a failing send is tried again.
SendRetries(t) ==
    /\ clientPc[t] = "send"
    /\ Alive(clientFd)
    /\ GoClient(t, "recv")
    /\ link' = [link EXCEPT ![clientFd] = IF @ = "fin" THEN "refusing" ELSE @]
    /\ UNCHANGED <<clientFd, recvFd, owner, History>>

Send(t) ==
    /\ clientPc[t] = "send"
    /\ \/ /\ Alive(clientFd)
          /\ GoClient(t, "recv")
          /\ link' = [link EXCEPT ![clientFd] = IF @ = "fin" THEN "refusing" ELSE @]
       \/ ~Alive(clientFd) /\ GoClient(t, "disconnect") /\ UNCHANGED link
    /\ UNCHANGED <<clientFd, recvFd, owner, History>>

RecvCall(t) ==
    /\ clientPc[t] = "recv"
    /\ GoClient(t, "wait")
    /\ recvFd' = [recvFd EXCEPT ![t] = clientFd]
    /\ UNCHANGED <<clientFd, owner, link, History>>

\* recv waits for data; at the end of the stream it returns 0, and the loop goes on.
RecvReturn(t) ==
    /\ clientPc[t] = "wait"
    /\ LET f == recvFd[t] IN
       \/ /\ Alive(f) /\ link[f] # "up"
          /\ GoClient(t, "send")
          /\ link' = [link EXCEPT ![f] = IF @ = "data" THEN "up" ELSE @]
       \/ ~Alive(f) /\ GoClient(t, "disconnect") /\ UNCHANGED link
    /\ recvFd' = [recvFd EXCEPT ![t] = -1]
    /\ UNCHANGED <<clientFd, owner, History>>

\* close(sock_fd), whatever it stands for by now.
CloseFd(t, here, next) ==
    /\ clientPc[t] = here
    /\ GoClient(t, next)
    /\ IF clientFd \in Fds
       THEN /\ foreignClosed' = (foreignClosed \/ owner[clientFd] \notin {t, NoOne})
            /\ owner' = [owner EXCEPT ![clientFd] = NoOne]
            /\ link' = [link EXCEPT ![clientFd] = "closed"]
       ELSE UNCHANGED <<foreignClosed, owner, link>>
    /\ UNCHANGED <<clientFd, recvFd, reopened, overlapped>>

\* Mutant of Disconnect: only the goto of the second label is left.
DisconnectForgets(t) ==
    /\ clientPc[t] = "disconnect" /\ GoClient(t, "ended")
    /\ UNCHANGED <<clientFd, recvFd, owner, link, History>>

Disconnect(t) == CloseFd(t, "disconnect", "closesocket")

CloseAgain(t) == CloseFd(t, "closesocket", "ended")

TCPClientTask(t) ==
    \/ Connected(t) \/ ClientSocket(t) \/ ClientConnect(t) \/ Send(t)
    \/ RecvCall(t) \/ RecvReturn(t) \/ Disconnect(t) \/ CloseAgain(t)

----------------------------------------------------------------------------
(* The server, and the other tasks of the board *)

Server(f) ==
    /\ \/ link[f] = "up" /\ link' = [link EXCEPT ![f] = "data"]
       \/ link[f] = "up" /\ link' = [link EXCEPT ![f] = "fin"]
       \/ link[f] \in {"up", "data", "fin"} /\ link' = [link EXCEPT ![f] = "reset"]
    /\ UNCHANGED <<clientPc, clientFd, recvFd, owner, History>>

\* The answer to data that the server does not want any more.
Reset(f) ==
    /\ link[f] = "refusing"
    /\ link' = [link EXCEPT ![f] = "reset"]
    /\ UNCHANGED <<clientPc, clientFd, recvFd, owner, History>>

OtherOpens ==
    /\ \E f \in Fds : Opens(Other, f)
    /\ UNCHANGED <<clientPc, clientFd, recvFd, foreignClosed, overlapped>>

OtherCloses(f) ==
    /\ owner[f] = Other
    /\ owner' = [owner EXCEPT ![f] = NoOne]
    /\ link' = [link EXCEPT ![f] = "closed"]
    /\ UNCHANGED <<clientPc, clientFd, recvFd, History>>

ClientTasksStep == \E t \in ClientTasks : TCPClientTask(t)
Resets == \E f \in Fds : Reset(f)
Outside == OtherOpens \/ \E f \in Fds : Server(f) \/ OtherCloses(f)

ClientNext == (\E t \in ClientTasks : ClientStart(t)) \/ ClientTasksStep \/ Resets \/ Outside

(* As long as the launches do not overlap, a client closes a descriptor of *)
(* another task only if one was opened between its two closes, and leaves  *)
(* none of its own open (b03_05_Tcp_Client.c:86 and 90).  With two         *)
(* launches at a time neither holds: both use the global sock_fd.          *)
ClientCleansUp ==
    ~overlapped =>
        /\ foreignClosed => reopened
        /\ \A f \in Fds : owner[f] \in ClientTasks => Active(owner[f])

(* A client whose server closed the connection, reset it, or never took it *)
(* comes to its end, although recv's 0 and connect's failure are ignored,  *)
(* unless another launch overlaps, which may give it another connection    *)
(* (b03_05_Tcp_Client.c:62 to 80).                                         *)
ServerGone == ~Alive(clientFd) \/ link[clientFd] \in {"fin", "refusing"}
ClientEnds ==
    \A t \in ClientTasks :
        (clientPc[t] = "send" /\ ServerGone) ~> (clientPc[t] = "ended" \/ overlapped)
=============================================================================
