-------------------------- MODULE BoardImplements --------------------------
(* BoardServer implements DeviceControl when StreamCap = 2, that is, when a *)
(* phone sends a command only after the board has read the previous one.    *)
EXTENDS BoardServer

NoCommand == <<>>

\* The command a connection holds: both its words are still to be received.
PendingOf(c) == IF Len(stream[c]) = 2 THEN <<stream[c]>> ELSE <<>>

Control == INSTANCE DeviceControl WITH
    level   <- level,
    pending <- [c \in Conns |-> PendingOf(c)],
    doing   <- IF dealPc = "set" THEN <<DeviceIn(recvbuf), ValueIn(recvbuf)>>
               ELSE NoCommand

\* Devices change only by commands issued, each executed at most once and in
\* the order of its connection, whatever parts recv returns, however tasks
\* interleave and connections come and go (deal_command.c:47-97).
ImplementsDeviceControl == Control!Spec
============================================================================
