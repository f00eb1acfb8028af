--------------------------- MODULE DeviceControl ---------------------------
(***************************************************************************)
(* What a user of the smart-home board may count on when each phone waits  *)
(* for the board to read a command before it sends the next one: a device  *)
(* changes its level only by the execution of a command some phone issued, *)
(* each command is executed at most once, one at a time, and those of one  *)
(* connection in the order they were issued.  Commands may be lost.        *)
(***************************************************************************)
EXTENDS Naturals, Sequences

CONSTANTS Conns, Devices, Values, NoCommand

VARIABLES
    level,    \* the level of each device
    pending,  \* for each connection, the commands not taken up
    doing     \* the command being executed, or NoCommand

vars == <<level, pending, doing>>

Init ==
    /\ level = [d \in Devices |-> "OFF"]
    /\ pending = [c \in Conns |-> <<>>]
    /\ doing = NoCommand

Issue(c, d, v) ==
    /\ pending' = [pending EXCEPT ![c] = Append(@, <<d, v>>)]
    /\ UNCHANGED <<level, doing>>

\* The oldest n commands never reach the board in one piece, or the connection
\* is closed with commands in it.
Lose(c) ==
    /\ \E n \in 1 .. Len(pending[c]) :
         pending' = [pending EXCEPT ![c] = SubSeq(@, n + 1, Len(@))]
    /\ UNCHANGED <<level, doing>>

Take(c) ==
    /\ doing = NoCommand
    /\ pending[c] # <<>>
    /\ doing' = Head(pending[c])
    /\ pending' = [pending EXCEPT ![c] = Tail(@)]
    /\ UNCHANGED level

\* The pin may not be an output yet; then the command has no effect.
Execute ==
    /\ doing # NoCommand
    /\ level' \in {level, [level EXCEPT ![doing[1]] = doing[2]]}
    /\ doing' = NoCommand
    /\ UNCHANGED pending

Next ==
    \/ \E c \in Conns : \/ \E d \in Devices, v \in Values : Issue(c, d, v)
                        \/ Lose(c)
                        \/ Take(c)
    \/ Execute

Spec == Init /\ [][Next]_vars
============================================================================
