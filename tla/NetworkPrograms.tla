--------------------------- MODULE NetworkPrograms ---------------------------
(***************************************************************************)
(* Three programs at the end of a network connection, with their peers:    *)
(* the phone app, the soft AP with the datagrams of its clients (its       *)
(* stations are in Tutorials) and the TCP client.  They share no state:    *)
(* `program`, which does not change, says which one runs.                  *)
(***************************************************************************)
EXTENDS PhoneService, WifiAp, TcpClient

VARIABLE program

netVars == <<vars, apVars, clientVars, program>>

NetInit ==
    /\ program \in {"phone", "soft AP", "tcp client"}
    /\ Init /\ ApInit /\ ClientInit
    /\ program # "soft AP" => apReliable
    /\ program # "phone" => patient

NetNext ==
    \/ program = "phone" /\ Next /\ UNCHANGED <<apVars, clientVars, program>>
    \/ program = "soft AP" /\ (ApNext \/ Clients) /\ UNCHANGED <<vars, clientVars, program>>
    \/ program = "tcp client" /\ ClientNext /\ UNCHANGED <<vars, apVars, program>>

\* What PhoneService assumes; a task of the board that waits for nothing runs,
\* and a peer answers data that it refuses.
NetFairness ==
    /\ Fairness
    /\ WF_apVars(ApTasksStep)
    /\ \A t \in ClientTasks : WF_clientVars(TCPClientTask(t))
    /\ WF_clientVars(Resets)

NetSpec == NetInit /\ [][NetNext]_netVars /\ NetFairness
==============================================================================
