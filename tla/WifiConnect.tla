----------------------------- MODULE WifiConnect -----------------------------
(***************************************************************************)
(* The Wi-Fi station of the board, in three programs: the smart home       *)
(* (src/app/Entry/05/01_Smart_Home/wifi/wifi_connect.c), the TCP client    *)
(* (03/05_Tcp_Client/wifi_connect.c, which prints differently) and the     *)
(* station tutorial (03/04_Wifi_Sta_Connect, an earlier form).             *)
(*                                                                         *)
(* One task runs WifiConnect; the Wi-Fi service scans, connects and runs   *)
(* two handlers in a task of its own, in the order of its events.  Task    *)
(* and handlers share g_staScanSuccess, g_ConnectSuccess and ssid_count    *)
(* without a lock; every access of them is a step.  A wait polls its flag  *)
(* once a second, Timeout times.                                           *)
(***************************************************************************)
EXTENDS Integers, Sequences

CONSTANTS
    Timeout,     \* DEF_TIMEOUT in seconds
    Limit,       \* WIFI_SCAN_HOTSPOT_LIMIT
    MaxEvents,   \* bound: events of the service not yet handled
    MaxDrops,    \* bound: losses of the link
    MaxCalls     \* bound: calls of WifiConnect in the smart home

ASSUME WifiAssumption ==
    /\ {Timeout, Limit, MaxEvents} \subseteq Nat \ {0}
    /\ {MaxDrops, MaxCalls} \subseteq Nat

VARIABLES
    pc, i, timer, info,                            \* the task and its locals
    g_staScanSuccess, g_ConnectSuccess, ssid_count, g_lwip_netif,
    handler,     \* a scan handler between its two stores, or not
    registered,  \* RegisterWifiEvent succeeded
    scanning, connecting, results, link, events,   \* the Wi-Fi service
    reliable,    \* does not change: the hotspot is there and the service answers in time
    program,     \* does not change: which of the three programs runs
    drops, calls,                                  \* counters
    astray,      \* history: see EntriesAreReal
    unseen       \* history: the last change of the link was not told to the handler

task     == <<pc, i, timer, info, g_lwip_netif, calls>>
flags    == <<g_staScanSuccess, g_ConnectSuccess, ssid_count>>
service  == <<scanning, connecting, results, link, events, drops>>
handling == <<handler, registered, reliable, program>>
vars == <<task, flags, service, handling, astray, unseen>>

\* "home" is the ssid to connect to; malloc leaves the list unset.
Names == {"home", "other", "unset"}
Lists == UNION {[1 .. n -> {"home", "other"}] : n \in 0 .. Limit}

Unset == [k \in 0 .. Limit - 1 |-> "unset"]

ScanPending == scanning \/ handler = "counted" \/ \E n \in 1 .. Len(events) : events[n].type = "scan"
LinkPending == \E n \in 1 .. Len(events) : events[n].type = "link"

Init ==
    /\ pc = "idle" /\ i = 0 /\ timer = 0 /\ info = Unset
    /\ g_staScanSuccess = 0 /\ g_ConnectSuccess = 0 /\ ssid_count = 0 /\ g_lwip_netif = "NULL"
    /\ handler = "idle" /\ registered = FALSE
    /\ scanning = FALSE /\ connecting = FALSE /\ results = <<>> /\ link = FALSE /\ events = <<>>
    /\ drops = 0 /\ calls = 0 /\ reliable \in BOOLEAN
    /\ program \in {"smart home", "tcp client", "station"}
    /\ astray = FALSE /\ unseen = FALSE

----------------------------------------------------------------------------
(* The task *)

\* Nothing reads the loop's variables any more (the list itself is never freed).
Forget == i' = 0 /\ info' = Unset

\* WifiConnect up to its loop.  A failing RegisterWifiEvent is only printed; a
\* failing EnableWifi, IsWifiActive or malloc returns -1.
Call ==
    /\ pc \in {"idle", "failed", "done"}
    /\ calls < MaxCalls
    /\ calls' = calls + 1
    /\ \E ok \in {TRUE, reliable} : registered' = (registered \/ ok)
    /\ pc' \in {"resetCount"} \cup (IF reliable THEN {} ELSE {"failed"})
    /\ info' = Unset
    /\ astray' = FALSE
    /\ UNCHANGED <<i, timer, g_lwip_netif, flags, handler, reliable, program, service, unseen>>

ResetCount ==
    /\ pc = "resetCount"
    /\ ssid_count' = 0
    /\ pc' = "resetFlag"
    /\ UNCHANGED <<i, timer, info, g_lwip_netif, calls, g_staScanSuccess, g_ConnectSuccess,
                   service, handling, astray, unseen>>

ResetFlag ==
    /\ pc = "resetFlag"
    /\ g_staScanSuccess' = 0
    /\ pc' = "scan"
    /\ UNCHANGED <<i, timer, info, g_lwip_netif, calls, g_ConnectSuccess, ssid_count,
                   service, handling, astray, unseen>>

\* Scan() starts no second scan while one is under way.
Scan ==
    /\ pc = "scan"
    /\ astray' = (astray \/ ScanPending)
    /\ scanning' = TRUE
    /\ timer' = Timeout
    /\ pc' = "waitScan"
    /\ UNCHANGED <<i, info, g_lwip_netif, calls, flags, connecting, results, link, events, drops,
                   handling, unseen>>

\* What reliable means for a wait: all is answered before its last second.
InTime == reliable /\ timer = 2 => ~ScanPending /\ ~LinkPending /\ ~connecting

\* Mutant of PollScan: the list is fetched only when the wait times out.
PollScanNoList ==
    /\ pc = "waitScan" /\ InTime
    /\ timer' = timer - 1
    /\ pc' = CASE g_staScanSuccess = 1                   -> "test"
               [] g_staScanSuccess = 0 /\ timer' = 0     -> "list"
               [] OTHER                                  -> "waitScan"
    /\ UNCHANGED <<i, info, g_lwip_netif, calls, flags, service, handling, astray, unseen>>

\* Mutant of PollScan: the wait goes on until timer is negative.
PollScanTooLong ==
    /\ pc = "waitScan" /\ InTime
    /\ timer' = timer - 1
    /\ pc' = IF g_staScanSuccess = 1 \/ timer' < 0 THEN "list" ELSE "waitScan"
    /\ UNCHANGED <<i, info, g_lwip_netif, calls, flags, service, handling, astray, unseen>>

\* WaitSacnResult: a time-out is only printed.
PollScan ==
    /\ pc = "waitScan" /\ InTime
    /\ IF g_staScanSuccess = 1 \/ timer = 1
       THEN pc' = "list" /\ timer' = 0
       ELSE pc' = "waitScan" /\ timer' = timer - 1
    /\ UNCHANGED <<i, info, g_lwip_netif, calls, flags, service, handling, astray, unseen>>

\* GetScanInfoList gives the results of the last scan, and may fail: its result is
\* ignored, and size, which it sets, is not set again to the size of the list.
GetScanInfoList ==
    /\ pc = "list"
    /\ \/ /\ info' = [k \in 0 .. Limit - 1 |-> IF k < Len(results) THEN results[k + 1] ELSE info[k]]
          /\ UNCHANGED astray
       \/ ~reliable /\ astray' = TRUE /\ UNCHANGED info
    /\ pc' = "test"
    /\ UNCHANGED <<i, timer, g_lwip_netif, calls, flags, service, handling, unseen>>

TestScan ==
    /\ pc = "test"
    /\ pc' = IF g_staScanSuccess = 1 THEN "select" ELSE "resetCount"
    /\ i' = 0
    /\ UNCHANGED <<timer, info, g_lwip_netif, calls, flags, service, handling, astray, unseen>>

\* The head of the loop over the list, and strcmp.
Select ==
    /\ pc = "select"
    /\ IF i >= ssid_count
       THEN pc' = "dhcp" /\ Forget
       ELSE pc' = (IF info[i] = "home" THEN "connect" ELSE "endCheck") /\ UNCHANGED <<i, info>>
    /\ UNCHANGED <<timer, g_lwip_netif, calls, flags, service, handling, astray, unseen>>

\* AddDeviceConfig and ConnectTo, or a failure of one of them.
ConnectTo ==
    /\ pc = "connect"
    /\ \/ pc' = "waitConnect" /\ timer' = Timeout /\ connecting' = TRUE
       \/ ~reliable /\ pc' = "endCheck" /\ UNCHANGED <<timer, connecting>>
    /\ UNCHANGED <<i, info, g_lwip_netif, calls, flags, scanning, results, link, events, drops,
                   handling, astray, unseen>>

\* Mutant of PollConnect: the wait gives up a second too early.
PollConnectShort ==
    /\ pc = "waitConnect" /\ InTime
    /\ timer' = IF g_ConnectSuccess = 1 THEN 0 ELSE timer - 1
    /\ pc' = CASE timer <= 2                            -> "endCheck"
               [] timer > 2 /\ g_ConnectSuccess = 1     -> "connected"
               [] OTHER                                 -> "waitConnect"
    /\ UNCHANGED <<i, info, g_lwip_netif, calls, flags, service, handling, astray, unseen>>

\* WaitConnectResult: success in the last second leaves timer 0 and returns 0.
PollConnect ==
    /\ pc = "waitConnect" /\ InTime
    /\ timer' = IF g_ConnectSuccess = 1 THEN 0 ELSE timer - 1
    /\ pc' = CASE timer = 1                             -> "endCheck"
               [] timer > 1 /\ g_ConnectSuccess = 1     -> "connected"
               [] OTHER                                 -> "waitConnect"
    /\ UNCHANGED <<i, info, g_lwip_netif, calls, flags, service, handling, astray, unseen>>

FindNetif ==
    /\ pc = "connected"
    /\ g_lwip_netif' = "wlan0"
    /\ pc' = "dhcp" /\ Forget
    /\ UNCHANGED <<timer, calls, flags, service, handling, astray, unseen>>

\* Mutant of EndCheck: off by one, the loop falls through after the last entry.
EndCheckLate ==
    /\ pc = "endCheck"
    /\ IF i = ssid_count
       THEN pc' = "noWifi" /\ Forget
       ELSE pc' = "select" /\ i' = i + 1 /\ UNCHANGED info
    /\ UNCHANGED <<timer, g_lwip_netif, calls, flags, service, handling, astray, unseen>>

\* The last entry was tried: while (1) osDelay(100).
EndCheck ==
    /\ pc = "endCheck"
    /\ IF i = ssid_count - 1
       THEN pc' = "noWifi" /\ Forget
       ELSE pc' = "select" /\ i' = i + 1 /\ UNCHANGED info
    /\ UNCHANGED <<timer, g_lwip_netif, calls, flags, service, handling, astray, unseen>>

\* An address is bound once the link is up; without a netif it never is.
Dhcp ==
    /\ pc = "dhcp"
    /\ g_lwip_netif # "NULL" /\ link
    /\ pc' = "done"
    /\ UNCHANGED <<i, timer, info, g_lwip_netif, calls, flags, service, handling, astray, unseen>>

Task ==
    \/ ResetCount \/ ResetFlag \/ Scan \/ PollScan \/ GetScanInfoList \/ TestScan
    \/ Select \/ ConnectTo \/ PollConnect \/ FindNetif \/ EndCheck \/ Dhcp

----------------------------------------------------------------------------
(* The Wi-Fi service *)

\* Events reach a handler only if one is registered.
Tell(event) == events' = IF registered THEN Append(events, event) ELSE events
Untold == unseen' = ~registered

ScanDone ==
    /\ scanning /\ Len(events) < MaxEvents
    /\ \E list \in Lists :
        /\ reliable => \E n \in DOMAIN list : list[n] = "home"
        /\ results' = list
        /\ Tell([type |-> "scan", value |-> Len(list)])
    /\ scanning' = FALSE
    /\ astray' = (astray \/ pc # "waitScan")
    /\ UNCHANGED <<task, flags, connecting, link, drops, handling, unseen>>

\* The answer to ConnectTo.
LinkAnswer(up) ==
    /\ connecting /\ Len(events) < MaxEvents
    /\ connecting' = FALSE
    /\ link' = up
    /\ Tell([type |-> "link", value |-> up]) /\ Untold
    /\ UNCHANGED <<task, flags, scanning, results, drops, handling, astray>>

LinkDrop ==
    /\ link /\ drops < MaxDrops /\ Len(events) < MaxEvents
    /\ drops' = drops + 1
    /\ link' = FALSE
    /\ Tell([type |-> "link", value |-> FALSE]) /\ Untold
    /\ UNCHANGED <<task, flags, scanning, connecting, results, handling, astray>>

\* OnWifiScanStateChangedHandler: a scan that found nothing stores nothing.
ScanHandler ==
    /\ handler = "idle" /\ events # <<>> /\ Head(events).type = "scan"
    /\ IF Head(events).value > 0
       THEN ssid_count' = Head(events).value /\ handler' = "counted"
       ELSE UNCHANGED <<ssid_count, handler>>
    /\ events' = Tail(events)
    /\ astray' = (astray \/ pc # "waitScan")
    /\ UNCHANGED <<task, g_staScanSuccess, g_ConnectSuccess, scanning, connecting, results, link,
                   drops, registered, reliable, program, unseen>>

\* Its second store.
ScanHandlerEnd ==
    /\ handler = "counted"
    /\ g_staScanSuccess' = 1
    /\ handler' = "idle"
    /\ astray' = (astray \/ pc # "waitScan")
    /\ UNCHANGED <<task, g_ConnectSuccess, ssid_count, service, registered, reliable, program, unseen>>

\* Mutant of LinkHandler: the branch for the other states is missing.
LinkHandlerNoElse ==
    /\ handler = "idle" /\ events # <<>> /\ Head(events).type = "link"
    /\ events' = Tail(events)
    /\ g_ConnectSuccess' = IF Head(events).value THEN 1 ELSE g_ConnectSuccess
    /\ UNCHANGED <<task, g_staScanSuccess, ssid_count, scanning, connecting, results, link, drops,
                   handling, astray, unseen>>

\* OnWifiConnectionChangedHandler; without an info it only prints.
LinkHandler ==
    /\ handler = "idle" /\ events # <<>> /\ Head(events).type = "link"
    /\ events' = Tail(events)
    /\ \/ /\ g_ConnectSuccess' = IF Head(events).value THEN 1 ELSE 0
          /\ UNCHANGED unseen
       \/ /\ ~reliable
          /\ unseen' = TRUE /\ UNCHANGED g_ConnectSuccess
    /\ UNCHANGED <<task, g_staScanSuccess, ssid_count, scanning, connecting, results, link, drops,
                   handling, astray>>

\* That of the station tutorial does not look at info, and has no branch that
\* resets the flag.
StationLinkHandler ==
    /\ handler = "idle" /\ events # <<>> /\ Head(events).type = "link"
    /\ events' = Tail(events)
    /\ g_ConnectSuccess' = IF Head(events).value THEN 1 ELSE g_ConnectSuccess
    /\ UNCHANGED <<task, g_staScanSuccess, ssid_count, scanning, connecting, results, link, drops,
                   handling, astray, unseen>>

\* What each program registers.
SmartHomeHandlers == program = "smart home" /\ (ScanHandler \/ ScanHandlerEnd \/ LinkHandler)
TcpClientHandlers == program = "tcp client" /\ (ScanHandler \/ ScanHandlerEnd \/ LinkHandler)
StationHandlers   == program = "station" /\ (ScanHandler \/ ScanHandlerEnd \/ StationLinkHandler)

Handlers == SmartHomeHandlers \/ TcpClientHandlers \/ StationHandlers
LinkDown == ~reliable /\ (LinkAnswer(FALSE) \/ LinkDrop)

----------------------------------------------------------------------------

\* The three programs.  The menu can call the smart home's again; the tasks of
\* the other two call theirs once, and the station's loops for ever after it.
SmartHome   == program = "smart home" /\ (Call \/ Task)
TcpClient   == program = "tcp client" /\ ((calls = 0 /\ Call) \/ Task)
WifiSTATask == program = "station" /\ ((calls = 0 /\ Call) \/ Task)

Next == SmartHome \/ TcpClient \/ WifiSTATask \/ Handlers \/ ScanDone \/ LinkAnswer(TRUE) \/ LinkDown

Spec == Init /\ [][Next]_vars

\* Every poll sleeps a second; the service answers each request.
FairSpec == Spec /\ WF_vars(Task) /\ WF_vars(Handlers) /\ WF_vars(ScanDone) /\ WF_vars(LinkAnswer(TRUE))

----------------------------------------------------------------------------
(* Properties *)

\* The type of every variable.
TypeOK ==
    /\ pc \in {"idle", "resetCount", "resetFlag", "scan", "waitScan", "list", "test", "select",
               "connect", "waitConnect", "connected", "endCheck", "dhcp", "noWifi", "done", "failed"}
    /\ i \in 0 .. Limit /\ timer \in 0 .. Timeout /\ info \in [0 .. Limit - 1 -> Names]
    /\ g_staScanSuccess \in {0, 1} /\ g_ConnectSuccess \in {0, 1} /\ ssid_count \in 0 .. Limit
    /\ g_lwip_netif \in {"NULL", "wlan0"} /\ handler \in {"idle", "counted"}
    /\ {registered, scanning, connecting, link, astray, unseen, reliable} \subseteq BOOLEAN
    /\ results \in Lists
    /\ events \in Seq([type : {"scan"}, value : 0 .. Limit] \cup [type : {"link"}, value : BOOLEAN])
    /\ program \in {"smart home", "tcp client", "station"}
    /\ drops \in 0 .. MaxDrops /\ calls \in 0 .. MaxCalls

\* g_ConnectSuccess, which is never reset before ConnectTo, is wrong about the link
\* only while the handler has not run for the last change, or was not told of it.
\* So the stale flag of an earlier connection cannot make a new wait succeed
\* after that connection was reported lost.  The station tutorial never resets it.
FlagTracksLink ==
    ~LinkPending /\ ~unseen =>
        /\ link => g_ConnectSuccess = 1
        /\ program # "station" => (g_ConnectSuccess = 1 => link)

\* The loop over the list reads the entries of one scan, all of them and no other,
\* provided that (astray is FALSE) each scan of this call ended and was handled in
\* the wait that asked for it, and GetScanInfoList did not fail.
Selecting == pc \in {"select", "connect", "waitConnect", "endCheck"}
EntriesAreReal ==
    Selecting /\ ~astray =>
        /\ ssid_count = Len(results)
        /\ \A k \in 0 .. ssid_count - 1 : info[k] = results[k + 1]

\* After the loop over the list the station was connected to the hotspot asked for,
\* so that DHCP has an interface to run on, under the same condition.  Without it,
\* a handler that runs across the two resets, or lets the count shrink in the loop,
\* ends the loop with no connection, and DHCP polls a NULL interface for ever.
DhcpHasNetif == pc = "dhcp" /\ ~astray => g_lwip_netif # "NULL"

\* The message at wifi_connect.c:269: when the wait finds the flag set, it succeeded.
SuccessIsReturned ==
    [][pc = "waitConnect" /\ pc' # pc /\ g_ConnectSuccess = 1 => pc' = "connected"]_vars

\* With the hotspot in range and the service answering before the last second of
\* each wait, every call connects, a second one too, although g_ConnectSuccess and
\* g_lwip_netif still say what the first one left in them.
ConnectsInTime == (reliable /\ pc = "resetCount") ~> pc = "done"
============================================================================
