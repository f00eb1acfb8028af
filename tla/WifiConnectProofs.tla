-------------------------- MODULE WifiConnectProofs --------------------------
(***************************************************************************)
(* Proofs about WifiConnect, for each of the three programs and for any    *)
(* Timeout, Limit and bounds.                                              *)
(*                                                                         *)
(* TypeOK needs that a wait still has a second left and that the loop over *)
(* the list is inside it (LoopsInside).  FlagTracksLink needs to say what  *)
(* the handler will still be told (LastLinkTold).  EntriesAreReal and      *)
(* DhcpHasNetif need one invariant for both (ListInv), about the way of    *)
(* the results from the service to the loop.                               *)
(***************************************************************************)
EXTENDS WifiConnect, SequenceTheorems, TLAPS

Event == [type : {"scan"}, value : 0 .. Limit] \cup [type : {"link"}, value : BOOLEAN]

\* A wait has a second left; the entry being tried is in the list.
LoopsInside ==
    /\ pc \in {"waitScan", "waitConnect"} => timer >= 1
    /\ pc \in {"connect", "waitConnect", "endCheck"} => i < Limit

\* The last change of the link that is on its way to the handler is the last
\* there was, unless the handler was not told of that one.
LastLinkTold ==
    ~unseen =>
        \A n \in 1 .. Len(events) :
            /\ events[n].type = "link"
            /\ \A m \in 1 .. Len(events) : m > n => events[m].type # "link"
            => events[n].value = link

ScanEvents == {n \in 1 .. Len(events) : events[n].type = "scan"}

\* Where the answer to the scan of this call is: with the service, in an event, or
\* in the count; the count and the flag do not come from anything else.
AnswerOnItsWay ==
    /\ scanning => ScanEvents = {} /\ handler = "idle" /\ g_staScanSuccess = 0
    /\ \A n \in ScanEvents : events[n].value = Len(results)
    /\ handler = "counted" \/ g_staScanSuccess = 1 => ssid_count = Len(results) /\ ssid_count > 0

Listed == \A k \in 0 .. Len(results) - 1 : info[k] = results[k + 1]

ListInv ==
    ~astray =>
        /\ pc = "scan" => g_staScanSuccess = 0
        /\ pc \in {"waitScan", "list", "test"} => AnswerOnItsWay
        /\ pc = "test" => Listed
        /\ Selecting => ssid_count = Len(results) /\ Listed /\ i < ssid_count

WifiInv == TypeOK /\ LoopsInside /\ LastLinkTold /\ FlagTracksLink /\ ListInv /\ DhcpHasNetif

\* The constants, one by one.
LEMMA Constants ==
    /\ Timeout \in Nat /\ Timeout >= 1 /\ Limit \in Nat /\ Limit >= 1
    /\ MaxDrops \in Nat /\ MaxCalls \in Nat
  BY WifiAssumption

USE Constants

----------------------------------------------------------------------------
(* Lists and queues *)

\* A list of the service is a sequence of names, at most Limit of them.
LEMMA ListIsSequence ==
    ASSUME NEW list \in Lists
    PROVE  list \in Seq({"home", "other"}) /\ Len(list) \in 0 .. Limit
  <1>1. PICK n \in 0 .. Limit : list \in [1 .. n -> {"home", "other"}]  BY DEF Lists
  <1>2. list \in Seq({"home", "other"}) /\ Len(list) = n  BY <1>1
  <1> QED  BY <1>2

\* A queue of events before and after one was appended.
LEMMA EventAppended ==
    ASSUME events \in Seq(Event), NEW e \in Event, events' = Append(events, e)
    PROVE  /\ events' \in Seq(Event)
           /\ Len(events') = Len(events) + 1
           /\ \A n \in 1 .. Len(events) : events'[n] = events[n]
           /\ events'[Len(events) + 1] = e
  BY AppendProperties

\* The same before and after one was taken.
LEMMA EventTaken ==
    ASSUME events \in Seq(Event), events # <<>>, events' = Tail(events)
    PROVE  /\ events' \in Seq(Event)
           /\ Len(events) \in Nat /\ Len(events') = Len(events) - 1
           /\ \A n \in 1 .. Len(events') : events'[n] = events[n + 1]
           /\ Head(events) = events[1] /\ events[1] \in Event
  BY HeadTailProperties

----------------------------------------------------------------------------
(* Types *)

\* TypeOK in four parts, by who changes what.
PlaceType ==
    /\ pc \in {"idle", "resetCount", "resetFlag", "scan", "waitScan", "list", "test", "select",
               "connect", "waitConnect", "connected", "endCheck", "dhcp", "noWifi", "done", "failed"}
    /\ i \in 0 .. Limit /\ timer \in 0 .. Timeout /\ info \in [0 .. Limit - 1 -> Names]
    /\ g_lwip_netif \in {"NULL", "wlan0"} /\ calls \in 0 .. MaxCalls
FlagType ==
    /\ g_staScanSuccess \in {0, 1} /\ g_ConnectSuccess \in {0, 1} /\ ssid_count \in 0 .. Limit
    /\ handler \in {"idle", "counted"}
SwitchType ==
    /\ registered \in BOOLEAN /\ scanning \in BOOLEAN /\ connecting \in BOOLEAN /\ link \in BOOLEAN
    /\ astray \in BOOLEAN /\ unseen \in BOOLEAN /\ reliable \in BOOLEAN
    /\ program \in {"smart home", "tcp client", "station"}
QueueType == results \in Lists /\ events \in Seq(Event) /\ drops \in 0 .. MaxDrops

LEMMA TypeParts ==
    /\ TypeOK <=> PlaceType /\ FlagType /\ SwitchType /\ QueueType
    /\ PlaceType' /\ FlagType' /\ SwitchType' /\ QueueType' => TypeOK'
  BY DEF TypeOK, PlaceType, FlagType, SwitchType, QueueType, Event

\* The three ways out of a poll of the connection.
LEMMA ConnectPolled ==
    ASSUME PollConnect, timer \in Nat, timer >= 1
    PROVE  \/ timer = 1 /\ pc' = "endCheck"
           \/ timer > 1 /\ g_ConnectSuccess = 1 /\ pc' = "connected"
           \/ timer > 1 /\ g_ConnectSuccess # 1 /\ pc' = "waitConnect"
  <1>1. CASE timer = 1
    <2>1. ~(timer > 1)  BY <1>1
    <2> QED  BY <1>1, <2>1, Zenon DEF PollConnect
  <1>2. CASE timer # 1
    <2>1. timer > 1  BY <1>2
    <2> QED  BY <1>2, <2>1, Zenon DEF PollConnect
  <1> QED  BY <1>1, <1>2

LEMMA TaskTypes ==
    ASSUME TypeOK, LoopsInside, Call \/ Task
    PROVE  TypeOK'
  <1> USE DEF task, flags, service, handling
  <1>0. PlaceType /\ FlagType /\ SwitchType /\ QueueType  BY TypeParts
  <1>1. PlaceType'
    <2> USE DEF PlaceType
    <2>1. CASE Call  BY <1>0, <2>1 DEF Call, Unset, Names
    <2>2. CASE ResetCount \/ ResetFlag  BY <1>0, <2>2 DEF ResetCount, ResetFlag
    <2>3. CASE Scan  BY <1>0, <2>3 DEF Scan
    <2>4. CASE PollScan  BY <1>0, <2>4 DEF PollScan, LoopsInside
    <2>5. CASE GetScanInfoList
      <3>1. results \in Seq({"home", "other"})  BY <1>0, ListIsSequence DEF QueueType
      <3>2. \A k \in 0 .. Limit - 1 : k < Len(results) => results[k + 1] \in Names
        BY <3>1, ElementOfSeq DEF Names
      <3>3. info' \in [0 .. Limit - 1 -> Names]  BY <1>0, <2>5, <3>2 DEF GetScanInfoList
      <3> QED  BY <1>0, <2>5, <3>3 DEF GetScanInfoList
    <2>6. CASE TestScan  BY <1>0, <2>6 DEF TestScan
    <2>7. CASE Select  BY <1>0, <2>7 DEF Select, Forget, Unset, Names
    <2>8. CASE ConnectTo  BY <1>0, <2>8 DEF ConnectTo
    <2>9. CASE PollConnect
      <3>1. timer \in Nat /\ timer >= 1  BY <1>0, <2>9 DEF PollConnect, LoopsInside
      <3>2. pc' \in {"endCheck", "connected", "waitConnect"}  BY <2>9, <3>1, ConnectPolled
      <3>4. timer' \in {0, timer - 1}  BY <2>9 DEF PollConnect
      <3>3. UNCHANGED <<i, info, g_lwip_netif, calls>>  BY <2>9 DEF PollConnect
      <3> QED  BY <1>0, <3>1, <3>2, <3>3, <3>4
    <2>10. CASE FindNetif  BY <1>0, <2>10 DEF FindNetif, Forget, Unset, Names
    <2>11. CASE EndCheck  BY <1>0, <2>11 DEF EndCheck, LoopsInside, Forget, Unset, Names
    <2>12. CASE Dhcp  BY <1>0, <2>12 DEF Dhcp
    <2> QED  BY <2>1, <2>2, <2>3, <2>4, <2>5, <2>6, <2>7, <2>8, <2>9, <2>10, <2>11, <2>12 DEF Task
  <1>2. FlagType'
    BY <1>0 DEF FlagType, Task, Call, ResetCount, ResetFlag, Scan, PollScan, GetScanInfoList, TestScan,
                Select, ConnectTo, PollConnect, FindNetif, EndCheck, Dhcp
  <1>3. SwitchType'
    BY <1>0 DEF SwitchType, Task, Call, ResetCount, ResetFlag, Scan, PollScan, GetScanInfoList, TestScan,
                Select, ConnectTo, PollConnect, FindNetif, EndCheck, Dhcp
  <1>4. QueueType'
    BY <1>0 DEF QueueType, Task, Call, ResetCount, ResetFlag, Scan, PollScan, GetScanInfoList, TestScan,
                Select, ConnectTo, PollConnect, FindNetif, EndCheck, Dhcp
  <1> QED  BY <1>1, <1>2, <1>3, <1>4, TypeParts
\* What the service tells a handler, and the handlers.
Answers == ScanDone \/ LinkAnswer(TRUE) \/ LinkAnswer(FALSE) \/ LinkDrop
LinkHandlers == LinkHandler \/ (program = "station" /\ StationLinkHandler)

LEMMA NextParts == Next => Call \/ Task \/ Answers \/ ScanHandler \/ ScanHandlerEnd \/ LinkHandlers
  BY DEF Next, SmartHome, TcpClient, WifiSTATask, Handlers, SmartHomeHandlers, TcpClientHandlers,
         StationHandlers, LinkDown, Answers, LinkHandlers

LEMMA AnswerTypes ==
    ASSUME TypeOK, Answers
    PROVE  TypeOK'
  <1> USE DEF task, flags, handling, Untold
  <1>0. PlaceType /\ FlagType /\ SwitchType /\ QueueType  BY TypeParts
  <1>1. PlaceType' /\ FlagType'
    BY <1>0 DEF PlaceType, FlagType, Answers, ScanDone, LinkAnswer, LinkDrop
  <1>2. SwitchType'
    BY <1>0 DEF SwitchType, Answers, ScanDone, LinkAnswer, LinkDrop
  <1>3. QueueType'
    <2>1. CASE ScanDone
      <3>1. PICK list \in Lists : results' = list /\ Tell([type |-> "scan", value |-> Len(list)])
        BY <2>1 DEF ScanDone
      <3>2. [type |-> "scan", value |-> Len(list)] \in Event  BY ListIsSequence DEF Event
      <3>3. events' \in Seq(Event)  BY <1>0, <3>1, <3>2, EventAppended DEF QueueType, Tell
      <3> QED  BY <1>0, <2>1, <3>1, <3>3 DEF QueueType, ScanDone
    <2>2. ASSUME NEW up \in BOOLEAN, Tell([type |-> "link", value |-> up])
          PROVE  events' \in Seq(Event)
      <3>1. [type |-> "link", value |-> up] \in Event  BY DEF Event
      <3> QED  BY <1>0, <2>2, <3>1, EventAppended DEF QueueType, Tell
    <2>3. CASE LinkAnswer(TRUE) \/ LinkAnswer(FALSE)
      BY <1>0, <2>2, <2>3 DEF QueueType, LinkAnswer
    <2>4. CASE LinkDrop
      <3>1. events' \in Seq(Event)  BY <2>2, <2>4 DEF LinkDrop
      <3> QED  BY <1>0, <2>4, <3>1 DEF QueueType, LinkDrop
    <2> QED  BY <2>1, <2>3, <2>4 DEF Answers
  <1> QED  BY <1>1, <1>2, <1>3, TypeParts

LEMMA HandlerTypes ==
    ASSUME TypeOK, ScanHandler \/ ScanHandlerEnd \/ LinkHandlers
    PROVE  TypeOK'
  <1> USE DEF task, service, handling, LinkHandlers
  <1>0. PlaceType /\ FlagType /\ SwitchType /\ QueueType  BY TypeParts
  <1>1. PlaceType' /\ SwitchType'
    <2>1. PlaceType'
      BY <1>0 DEF PlaceType, ScanHandler, ScanHandlerEnd, LinkHandler, StationLinkHandler
    <2>2. UNCHANGED <<registered, reliable, program, scanning, connecting, link>>
      BY DEF ScanHandler, ScanHandlerEnd, LinkHandler, StationLinkHandler
    <2>3. astray' \in BOOLEAN /\ unseen' \in BOOLEAN
      <3>1. CASE ScanHandler \/ ScanHandlerEnd
        BY <1>0, <3>1 DEF SwitchType, ScanHandler, ScanHandlerEnd
      <3>2. CASE LinkHandlers  BY <1>0, <3>2 DEF SwitchType, LinkHandler, StationLinkHandler
      <3> QED  BY <3>1, <3>2
    <2>4. SwitchType'  BY <1>0, <2>2, <2>3 DEF SwitchType
    <2> QED  BY <2>1, <2>4
  <1>2. CASE ScanHandlerEnd
    BY <1>0, <1>1, <1>2, TypeParts DEF ScanHandlerEnd, FlagType, QueueType
  <1>3. CASE ScanHandler \/ LinkHandlers
    <2>1. events \in Seq(Event) /\ events # <<>> /\ events' = Tail(events)
      BY <1>0, <1>3 DEF QueueType, ScanHandler, LinkHandler, StationLinkHandler
    <2>2. events' \in Seq(Event) /\ Head(events) \in Event  BY <2>1, EventTaken
    <2>3. FlagType'
      <3>1. CASE ScanHandler
        <4>1. Head(events).value \in 0 .. Limit  BY <2>2, <3>1 DEF Event, ScanHandler
        <4> QED  BY <1>0, <3>1, <4>1 DEF FlagType, ScanHandler
      <3>2. CASE LinkHandlers  BY <1>0, <3>2 DEF FlagType, LinkHandler, StationLinkHandler
      <3> QED  BY <1>3, <3>1, <3>2
    <2>4. QueueType'
      BY <1>0, <1>3, <2>2 DEF QueueType, ScanHandler, LinkHandler, StationLinkHandler
    <2> QED  BY <1>1, <2>3, <2>4, TypeParts
  <1> QED  BY <1>2, <1>3

LEMMA LoopsStep ==
    ASSUME TypeOK, LoopsInside, [Next]_vars
    PROVE  LoopsInside'
  <1> USE DEF LoopsInside
  <1>0. PlaceType /\ FlagType  BY TypeParts
  <1>1. CASE UNCHANGED <<pc, timer, i>>  BY <1>1
  <1>2. CASE Call  BY <1>2 DEF Call
  <1>3. CASE ResetCount \/ ResetFlag \/ GetScanInfoList \/ TestScan \/ FindNetif \/ Dhcp
    BY <1>3 DEF ResetCount, ResetFlag, GetScanInfoList, TestScan, FindNetif, Dhcp
  <1>4. CASE Scan  BY <1>4 DEF Scan
  <1>5. CASE PollScan  BY <1>0, <1>5 DEF PollScan, PlaceType
  <1>6. CASE Select  BY <1>0, <1>6 DEF Select, PlaceType, FlagType
  <1>7. CASE ConnectTo  BY <1>7 DEF ConnectTo
  <1>8. CASE PollConnect
    BY <1>0, <1>8, ConnectPolled DEF PollConnect, PlaceType
  <1>9. CASE EndCheck  BY <1>9 DEF EndCheck
  <1>10. CASE Answers \/ ScanHandler \/ ScanHandlerEnd \/ LinkHandlers
    BY <1>1, <1>10 DEF Answers, LinkHandlers, ScanDone, LinkAnswer, LinkDrop, ScanHandler, ScanHandlerEnd,
                       LinkHandler, StationLinkHandler, task
  <1>11. UNCHANGED vars => UNCHANGED <<pc, timer, i>>  BY DEF vars, task
  <1> QED  BY <1>1, <1>2, <1>3, <1>4, <1>5, <1>6, <1>7, <1>8, <1>9, <1>10, <1>11, NextParts DEF Task
LEMMA TypesStep == TypeOK /\ LoopsInside /\ [Next]_vars => TypeOK' /\ LoopsInside'
  <1>1. TypeOK /\ UNCHANGED vars => TypeOK'
    BY DEF TypeOK, vars, task, flags, service, handling
  <1> QED  BY <1>1, TaskTypes, AnswerTypes, HandlerTypes, LoopsStep, NextParts

----------------------------------------------------------------------------
(* The link and g_ConnectSuccess *)

\* Taking the first event leaves what the later ones say.
LEMMA LastToldAfterTail ==
    ASSUME TypeOK, LastLinkTold, events # <<>>, events' = Tail(events), UNCHANGED link, unseen' \/ ~unseen
    PROVE  LastLinkTold'
  <1> SUFFICES ASSUME ~unseen',
                      NEW n \in 1 .. Len(events'), events'[n].type = "link",
                      \A m \in 1 .. Len(events') : m > n => events'[m].type # "link"
               PROVE  events'[n].value = link'
    BY DEF LastLinkTold
  <1>1. events \in Seq(Event)  BY TypeParts DEF QueueType
  <1>2. /\ Len(events) \in Nat /\ Len(events') = Len(events) - 1
        /\ \A m \in 1 .. Len(events') : events'[m] = events[m + 1]
    BY <1>1, EventTaken
  <1>3. ASSUME NEW m \in 1 .. Len(events), m > n + 1 PROVE events[m].type # "link"
    <2>1. m - 1 \in 1 .. Len(events') /\ m - 1 > n /\ events'[m - 1] = events[m]  BY <1>2, <1>3
    <2> QED  BY <2>1
  <1>4. n + 1 \in 1 .. Len(events) /\ events[n + 1] = events'[n]  BY <1>2
  <1>5. events[n + 1].value = link  BY <1>3, <1>4 DEF LastLinkTold
  <1> QED  BY <1>4, <1>5

\* An answer about the link is the last thing the handler will be told.
LEMMA LinkAnswered ==
    ASSUME TypeOK, NEW up \in BOOLEAN,
           Tell([type |-> "link", value |-> up]), Untold, link' = up
    PROVE  LastLinkTold' /\ (~unseen' => LinkPending')
  <1> SUFFICES ASSUME ~unseen' PROVE LastLinkTold' /\ LinkPending'
    BY DEF LastLinkTold
  <1> DEFINE e == [type |-> "link", value |-> up]
  <1>1. events \in Seq(Event) /\ e \in Event  BY TypeParts DEF QueueType, Event
  <1>2. events' = Append(events, e)  BY DEF Untold, Tell
  <1>3. /\ Len(events) \in Nat /\ Len(events') = Len(events) + 1
        /\ events'[Len(events) + 1] = e
    BY <1>1, <1>2, EventAppended
  <1>4. \A n \in 1 .. Len(events') :
            n # Len(events') => Len(events') > n /\ events'[Len(events')].type = "link"
    BY <1>3
  <1> QED  BY <1>3, <1>4 DEF LastLinkTold, LinkPending

\* The result of a scan goes behind what the handler will be told of the link.
LEMMA ScanAnswered ==
    ASSUME TypeOK, LastLinkTold, FlagTracksLink, ScanDone
    PROVE  LastLinkTold' /\ FlagTracksLink'
  <1>1. PICK list \in Lists : Tell([type |-> "scan", value |-> Len(list)])  BY DEF ScanDone
  <1> DEFINE e == [type |-> "scan", value |-> Len(list)]
  <1>2. events \in Seq(Event) /\ e \in Event  BY TypeParts, ListIsSequence DEF QueueType, Event
  <1>3. UNCHANGED <<g_ConnectSuccess, link, unseen, program>>
    BY DEF ScanDone, flags, handling
  <1>4. CASE events' = events  BY <1>3, <1>4 DEF LastLinkTold, FlagTracksLink, LinkPending
  <1>5. CASE events' = Append(events, e)
    <2>1. /\ Len(events) \in Nat /\ Len(events') = Len(events) + 1
          /\ \A n \in 1 .. Len(events) : events'[n] = events[n]
          /\ events'[Len(events) + 1].type = "scan"
      BY <1>2, <1>5, EventAppended
    <2>2. LinkPending' = LinkPending  BY <2>1 DEF LinkPending
    <2>3. FlagTracksLink'  BY <1>3, <2>2 DEF FlagTracksLink
    <2>4. LastLinkTold'  BY <1>3, <2>1 DEF LastLinkTold
    <2> QED  BY <2>3, <2>4
  <1> QED  BY <1>1, <1>4, <1>5 DEF Tell

\* A scan handler takes an event that says nothing about the link.
LEMMA ScanTaken ==
    ASSUME TypeOK, LastLinkTold, FlagTracksLink, ScanHandler
    PROVE  LastLinkTold' /\ FlagTracksLink'
  <1>1. events \in Seq(Event) /\ events # <<>> /\ events' = Tail(events)
    BY TypeParts DEF QueueType, ScanHandler
  <1>2. UNCHANGED <<g_ConnectSuccess, link, unseen, program>>  BY DEF ScanHandler
  <1>3. /\ Len(events) \in Nat /\ Len(events') = Len(events) - 1
        /\ \A n \in 1 .. Len(events') : events'[n] = events[n + 1]
        /\ events[1].type = "scan"
    BY <1>1, EventTaken DEF ScanHandler
  <1>4. LinkPending' = LinkPending
    <2>1. ASSUME NEW n \in 1 .. Len(events), events[n].type = "link" PROVE LinkPending'
      <3>1. n - 1 \in 1 .. Len(events') /\ events'[n - 1] = events[n]  BY <1>3, <2>1
      <3> QED  BY <2>1, <3>1 DEF LinkPending
    <2>2. ASSUME NEW n \in 1 .. Len(events'), events'[n].type = "link" PROVE LinkPending
      <3>1. n + 1 \in 1 .. Len(events) /\ events'[n] = events[n + 1]  BY <1>3
      <3> QED  BY <2>2, <3>1 DEF LinkPending
    <2> QED  BY <2>1, <2>2 DEF LinkPending
  <1>5. FlagTracksLink'  BY <1>2, <1>4 DEF FlagTracksLink
  <1>6. LastLinkTold'
    BY <1>1, <1>2, LastToldAfterTail
  <1> QED  BY <1>5, <1>6
\* The handler for the link takes an event: the flag now says what it said, and
\* that was the last change of the link if no other event says more.
LEMMA LinkTaken ==
    ASSUME TypeOK, LastLinkTold, FlagTracksLink, LinkHandlers
    PROVE  LastLinkTold' /\ FlagTracksLink'
  <1> USE DEF LinkHandlers
  <1>1. events \in Seq(Event) /\ events # <<>> /\ events' = Tail(events)
    BY TypeParts DEF QueueType, LinkHandler, StationLinkHandler
  <1>2. UNCHANGED <<link, program>> /\ (unseen' \/ ~unseen)
    <2>1. UNCHANGED <<link, program>>  BY DEF LinkHandler, StationLinkHandler, handling
    <2>2. unseen' = TRUE \/ unseen' = unseen  BY DEF LinkHandler, StationLinkHandler
    <2>3. unseen \in BOOLEAN  BY TypeParts DEF SwitchType
    <2> QED  BY <2>1, <2>2, <2>3
  <1>3. /\ Len(events) \in Nat /\ Len(events) >= 1 /\ Len(events') = Len(events) - 1
        /\ \A n \in 1 .. Len(events') : events'[n] = events[n + 1]
        /\ events[1].type = "link" /\ Head(events) = events[1]
    BY <1>1, EventTaken DEF LinkHandler, StationLinkHandler
  <1>4. ASSUME ~LinkPending', ~unseen'
        PROVE  /\ link' => g_ConnectSuccess' = 1
               /\ program' # "station" => (g_ConnectSuccess' = 1 => link')
    <2>1. \A m \in 1 .. Len(events) : m > 1 => events[m].type # "link"
      <3> SUFFICES ASSUME NEW m \in 1 .. Len(events), m > 1 PROVE events[m].type # "link"
        OBVIOUS
      <3>1. m - 1 \in 1 .. Len(events') /\ events'[m - 1] = events[m]  BY <1>3
      <3> QED  BY <1>4, <3>1 DEF LinkPending
    <2>2. ~unseen /\ 1 \in 1 .. Len(events)  BY <1>2, <1>3, <1>4
    <2>3. events[1].value = link  BY <1>3, <2>1, <2>2 DEF LastLinkTold
    <2>4. CASE LinkHandler
      <3>1. g_ConnectSuccess' = IF link THEN 1 ELSE 0  BY <1>3, <1>4, <2>3, <2>4 DEF LinkHandler
      <3> QED  BY <1>2, <3>1
    <2>5. CASE program = "station" /\ StationLinkHandler
      <3>1. g_ConnectSuccess' = IF link THEN 1 ELSE g_ConnectSuccess
        BY <1>3, <2>3, <2>5 DEF StationLinkHandler
      <3> QED  BY <1>2, <2>5, <3>1
    <2> QED  BY <2>4, <2>5
  <1>5. FlagTracksLink'  BY <1>4 DEF FlagTracksLink
  <1>6. LastLinkTold'  BY <1>1, <1>2, LastToldAfterTail
  <1> QED  BY <1>5, <1>6

LEMMA LinkStep == TypeOK /\ LastLinkTold /\ FlagTracksLink /\ [Next]_vars => LastLinkTold' /\ FlagTracksLink'
  <1> SUFFICES ASSUME TypeOK, LastLinkTold, FlagTracksLink, [Next]_vars
               PROVE  LastLinkTold' /\ FlagTracksLink'
    OBVIOUS
  <1>1. CASE UNCHANGED <<events, unseen, link, g_ConnectSuccess, program>>
    BY <1>1 DEF LastLinkTold, FlagTracksLink, LinkPending
  <1>2. CASE Call \/ Task
    BY <1>1, <1>2 DEF Task, Call, ResetCount, ResetFlag, Scan, PollScan, GetScanInfoList, TestScan, Select,
           ConnectTo, PollConnect, FindNetif, EndCheck, Dhcp, flags, service, handling
  <1>3. CASE ScanHandlerEnd  BY <1>1, <1>3 DEF ScanHandlerEnd, service
  <1>4. ASSUME NEW up \in BOOLEAN,
               Tell([type |-> "link", value |-> up]), Untold, link' = up
        PROVE  LastLinkTold' /\ FlagTracksLink'
    BY <1>4, LinkAnswered DEF FlagTracksLink
  <1>5. CASE LinkAnswer(TRUE) \/ LinkAnswer(FALSE)  BY <1>4, <1>5 DEF LinkAnswer
  <1>6. CASE LinkDrop
    <2>1. Tell([type |-> "link", value |-> FALSE]) /\ Untold /\ link' = FALSE  BY <1>6 DEF LinkDrop
    <2> QED  BY <1>4, <2>1
  <1>7. CASE UNCHANGED vars  BY <1>1, <1>7 DEF vars, flags, service, handling
  <1> QED  BY <1>2, <1>3, <1>5, <1>6, <1>7, ScanAnswered, ScanTaken, LinkTaken, NextParts DEF Answers

----------------------------------------------------------------------------
(* The list and the count *)

\* The scan events after one event was appended or taken.
LEMMA ScanEventsAppended ==
    ASSUME events \in Seq(Event), NEW e \in Event, events' = Append(events, e), NEW n \in ScanEvents'
    PROVE  \/ n \in ScanEvents /\ events'[n] = events[n]
           \/ events'[n] = e /\ e.type = "scan"
  BY EventAppended DEF ScanEvents

LEMMA ScanEventsTaken ==
    ASSUME events \in Seq(Event), events # <<>>, events' = Tail(events), NEW n \in ScanEvents'
    PROVE  n + 1 \in ScanEvents /\ events'[n] = events[n + 1]
  BY EventTaken DEF ScanEvents

\* Steps of the task on the way to the loop.
LEMMA ScanListStep ==
    ASSUME TypeOK, ListInv, Call \/ ResetCount \/ ResetFlag \/ Scan \/ PollScan \/ GetScanInfoList
    PROVE  ListInv' /\ DhcpHasNetif'
  <1> USE DEF Selecting
  <1>1. CASE Call  BY <1>1 DEF Call, ListInv, DhcpHasNetif
  <1>2. CASE ResetCount  BY <1>2 DEF ResetCount, ListInv, DhcpHasNetif
  <1>3. CASE ResetFlag  BY <1>3 DEF ResetFlag, ListInv, DhcpHasNetif
  <1>4. CASE Scan
    <2>1. pc' = "waitScan" /\ UNCHANGED <<events, handler, g_staScanSuccess>>
      BY <1>4 DEF Scan, flags, handling
    <2>2. ASSUME ~astray' PROVE AnswerOnItsWay'
      <3>1. ~astray /\ ~ScanPending  BY <1>4, <2>2 DEF Scan
      <3>2. g_staScanSuccess = 0  BY <1>4, <3>1 DEF Scan, ListInv
      <3>3. handler = "idle"  BY <3>1, TypeParts DEF ScanPending, FlagType
      <3>4. ScanEvents = {}  BY <3>1 DEF ScanPending, ScanEvents
      <3> QED  BY <2>1, <3>2, <3>3, <3>4 DEF AnswerOnItsWay, ScanEvents
    <2> QED  BY <2>1, <2>2 DEF ListInv, DhcpHasNetif
  <1>5. CASE PollScan
    <2>1. pc = "waitScan" /\ pc' \in {"list", "waitScan"}
          /\ UNCHANGED <<scanning, events, handler, g_staScanSuccess, results, ssid_count, astray>>
      BY <1>5 DEF PollScan, flags, service, handling
    <2> QED  BY <2>1 DEF ListInv, DhcpHasNetif, AnswerOnItsWay, ScanEvents
  <1>6. CASE GetScanInfoList
    <2>1. pc = "list" /\ pc' = "test"
          /\ UNCHANGED <<scanning, events, handler, g_staScanSuccess, results, ssid_count>>
      BY <1>6 DEF GetScanInfoList, flags, service, handling
    <2>2. ASSUME ~astray' PROVE ~astray /\ Listed'
      <3>1. /\ ~astray
            /\ info' = [k \in 0 .. Limit - 1 |-> IF k < Len(results) THEN results[k + 1] ELSE info[k]]
        BY <1>6, <2>2 DEF GetScanInfoList
      <3>2. Len(results) \in 0 .. Limit  BY TypeParts, ListIsSequence DEF QueueType
      <3> QED  BY <2>1, <3>1, <3>2 DEF Listed
    <2> QED  BY <2>1, <2>2 DEF ListInv, DhcpHasNetif, AnswerOnItsWay, ScanEvents
  <1> QED  BY <1>1, <1>2, <1>3, <1>4, <1>5, <1>6

\* Steps of the task in the loop and after it.
LEMMA LoopListStep ==
    ASSUME TypeOK, LoopsInside, ListInv, DhcpHasNetif,
           TestScan \/ Select \/ ConnectTo \/ PollConnect \/ FindNetif \/ EndCheck \/ Dhcp
    PROVE  ListInv' /\ DhcpHasNetif'
  <1> USE DEF Selecting
  <1>0. /\ UNCHANGED <<ssid_count, results, astray>>
        /\ i \in Nat /\ ssid_count \in Nat
    BY TypeParts DEF PlaceType, FlagType, TestScan, Select, ConnectTo, PollConnect, FindNetif, EndCheck, Dhcp,
                     flags, service
  <1>1. CASE TestScan
    <2>1. pc = "test" /\ pc' \in {"select", "resetCount"} /\ info' = info /\ i' = 0
          /\ (pc' = "select" => g_staScanSuccess = 1)
      BY <1>1 DEF TestScan
    <2> QED  BY <1>0, <2>1 DEF ListInv, DhcpHasNetif, AnswerOnItsWay, Listed
  <1>2. CASE Select
    <2>1. CASE i >= ssid_count
      <3>1. pc = "select" /\ pc' = "dhcp"  BY <1>2, <2>1 DEF Select
      <3>2. astray' = TRUE \/ ~(~astray)  BY <1>0, <2>1, <3>1 DEF ListInv
      <3> QED  BY <1>0, <3>1, <3>2 DEF ListInv, DhcpHasNetif
    <2>2. CASE ~(i >= ssid_count)
      <3>1. pc = "select" /\ pc' \in {"connect", "endCheck"} /\ UNCHANGED <<i, info>>
        BY <1>2, <2>2 DEF Select
      <3> QED  BY <1>0, <3>1 DEF ListInv, DhcpHasNetif, Listed
    <2> QED  BY <2>1, <2>2
  <1>3. CASE ConnectTo
    <2>1. pc = "connect" /\ pc' \in {"waitConnect", "endCheck"} /\ UNCHANGED <<i, info>>
      BY <1>3 DEF ConnectTo
    <2> QED  BY <1>0, <2>1 DEF ListInv, DhcpHasNetif, Listed
  <1>4. CASE PollConnect
    <2>1. timer \in Nat /\ timer >= 1  BY <1>4, TypeParts DEF PlaceType, LoopsInside, PollConnect
    <2>2. pc = "waitConnect" /\ pc' \in {"waitConnect", "connected", "endCheck"} /\ UNCHANGED <<i, info>>
      BY <1>4, <2>1, ConnectPolled DEF PollConnect
    <2> QED  BY <1>0, <2>2 DEF ListInv, DhcpHasNetif, Listed
  <1>5. CASE FindNetif  BY <1>5 DEF FindNetif, ListInv, DhcpHasNetif
  <1>6. CASE EndCheck
    <2>1. pc = "endCheck" /\ pc' \in {"noWifi", "select"}
          /\ (pc' = "select" => i # ssid_count - 1 /\ i' = i + 1 /\ info' = info)
      BY <1>6 DEF EndCheck
    <2> QED  BY <1>0, <2>1 DEF ListInv, DhcpHasNetif, Listed
  <1>7. CASE Dhcp  BY <1>7 DEF Dhcp, ListInv, DhcpHasNetif
  <1> QED  BY <1>1, <1>2, <1>3, <1>4, <1>5, <1>6, <1>7

\* The service answers: the answer to the scan goes from the service to an event.
LEMMA AnswerListStep ==
    ASSUME TypeOK, ListInv, DhcpHasNetif, Answers
    PROVE  ListInv' /\ DhcpHasNetif'
  <1> USE DEF Selecting
  <1>0. events \in Seq(Event)  BY TypeParts DEF QueueType
  <1>1. CASE ScanDone
    <2>1. /\ scanning /\ scanning' = FALSE
          /\ UNCHANGED <<pc, g_lwip_netif, handler, g_staScanSuccess>>
          /\ ~astray' => ~astray /\ pc = "waitScan"
      BY <1>1 DEF ScanDone, task, flags, handling
    <2>2. ASSUME ~astray' PROVE AnswerOnItsWay'
      <3>1. ScanEvents = {} /\ handler = "idle" /\ g_staScanSuccess = 0
        BY <2>1, <2>2 DEF ListInv, AnswerOnItsWay
      <3>2. PICK list \in Lists : results' = list /\ Tell([type |-> "scan", value |-> Len(list)])
        BY <1>1 DEF ScanDone
      <3>3. [type |-> "scan", value |-> Len(list)] \in Event  BY ListIsSequence DEF Event
      <3>4. \A n \in ScanEvents' : events'[n].value = Len(results')
        <4>1. CASE events' = events  BY <3>1, <4>1 DEF ScanEvents
        <4>2. CASE events' = Append(events, [type |-> "scan", value |-> Len(list)])
          <5>1. \A n \in ScanEvents' : events'[n] = [type |-> "scan", value |-> Len(list)]
            BY <1>0, <3>1, <3>3, <4>2, ScanEventsAppended
          <5> QED  BY <3>2, <5>1
        <4> QED  BY <3>2, <4>1, <4>2 DEF Tell
      <3> QED  BY <2>1, <3>1, <3>4 DEF AnswerOnItsWay
    <2> QED  BY <2>1, <2>2 DEF ListInv, DhcpHasNetif
  <1>2. CASE LinkAnswer(TRUE) \/ LinkAnswer(FALSE) \/ LinkDrop
    <2>1. /\ UNCHANGED <<pc, i, info, g_lwip_netif, scanning, handler, g_staScanSuccess, ssid_count, results, astray>>
          /\ \E up \in BOOLEAN : Tell([type |-> "link", value |-> up])
      BY <1>2 DEF LinkAnswer, LinkDrop, task, flags, handling
    <2>2. PICK up \in BOOLEAN : Tell([type |-> "link", value |-> up])  BY <2>1
    <2>3. [type |-> "link", value |-> up] \in Event  BY DEF Event
    <2>4. \A n \in ScanEvents' : n \in ScanEvents /\ events'[n] = events[n]
      <3>1. CASE events' = events  BY <3>1 DEF ScanEvents
      <3>2. CASE events' = Append(events, [type |-> "link", value |-> up])
        BY <1>0, <2>3, <3>2, ScanEventsAppended
      <3> QED  BY <2>2, <3>1, <3>2 DEF Tell
    <2>5. AnswerOnItsWay => AnswerOnItsWay'  BY <2>1, <2>4 DEF AnswerOnItsWay
    <2> QED  BY <2>1, <2>5 DEF ListInv, DhcpHasNetif, Listed
  <1> QED  BY <1>1, <1>2 DEF Answers

\* The handlers: the answer goes from an event to the count.
LEMMA HandlerListStep ==
    ASSUME TypeOK, ListInv, DhcpHasNetif, ScanHandler \/ ScanHandlerEnd \/ LinkHandlers
    PROVE  ListInv' /\ DhcpHasNetif'
  <1> USE DEF Selecting
  <1>0. events \in Seq(Event)  BY TypeParts DEF QueueType
  <1>1. CASE ScanHandlerEnd
    <2>1. /\ UNCHANGED <<pc, g_lwip_netif, scanning, events, results, ssid_count>>
          /\ handler = "counted" /\ handler' = "idle" /\ g_staScanSuccess' = 1
          /\ ~astray' => ~astray /\ pc = "waitScan"
      BY <1>1 DEF ScanHandlerEnd, task, service
    <2> QED  BY <2>1 DEF ListInv, DhcpHasNetif, AnswerOnItsWay, ScanEvents
  <1>2. CASE ScanHandler
    <2>1. /\ UNCHANGED <<pc, g_lwip_netif, scanning, results, g_staScanSuccess>>
          /\ events # <<>> /\ events' = Tail(events) /\ handler = "idle"
          /\ Head(events).type = "scan"
          /\ ~astray' => ~astray /\ pc = "waitScan"
      BY <1>2 DEF ScanHandler, task
    <2>2. ASSUME ~astray' PROVE AnswerOnItsWay'
      <3>1. AnswerOnItsWay  BY <2>1, <2>2 DEF ListInv
      <3>2. Head(events) = events[1] /\ Len(events) >= 1 /\ Len(events) \in Nat
        BY <1>0, <2>1, EventTaken
      <3>3. 1 \in ScanEvents  BY <2>1, <3>2 DEF ScanEvents
      <3>4. ~scanning /\ Head(events).value = Len(results)  BY <3>1, <3>2, <3>3 DEF AnswerOnItsWay
      <3>5. \A n \in ScanEvents' : events'[n].value = Len(results')
        BY <1>0, <2>1, <3>1, ScanEventsTaken DEF AnswerOnItsWay
      <3>6. handler' = "counted" \/ g_staScanSuccess' = 1 => ssid_count' = Len(results') /\ ssid_count' > 0
        <4>1. CASE Head(events).value > 0  BY <1>2, <2>1, <3>4, <4>1 DEF ScanHandler
        <4>2. CASE ~(Head(events).value > 0)
          BY <1>2, <2>1, <3>1, <4>2 DEF ScanHandler, AnswerOnItsWay
        <4> QED  BY <4>1, <4>2
      <3> QED  BY <2>1, <3>4, <3>5, <3>6 DEF AnswerOnItsWay
    <2> QED  BY <2>1, <2>2 DEF ListInv, DhcpHasNetif
  <1>3. CASE LinkHandlers
    <2>1. /\ UNCHANGED <<pc, i, info, g_lwip_netif, scanning, handler, g_staScanSuccess, ssid_count, results, astray>>
          /\ events # <<>> /\ events' = Tail(events)
      BY <1>3 DEF LinkHandlers, LinkHandler, StationLinkHandler, task, handling
    <2>2. \A n \in ScanEvents' : n + 1 \in ScanEvents /\ events'[n] = events[n + 1]
      BY <1>0, <2>1, ScanEventsTaken
    <2>3. AnswerOnItsWay => AnswerOnItsWay'  BY <2>1, <2>2 DEF AnswerOnItsWay
    <2> QED  BY <2>1, <2>3 DEF ListInv, DhcpHasNetif, Listed
  <1> QED  BY <1>1, <1>2, <1>3

LEMMA ListStep ==
    TypeOK /\ LoopsInside /\ ListInv /\ DhcpHasNetif /\ [Next]_vars => ListInv' /\ DhcpHasNetif'
  <1>1. ListInv /\ DhcpHasNetif /\ UNCHANGED vars => ListInv' /\ DhcpHasNetif'
    BY DEF ListInv, DhcpHasNetif, AnswerOnItsWay, ScanEvents, Listed, Selecting, vars, task, flags, service, handling
  <1> QED  BY <1>1, ScanListStep, LoopListStep, AnswerListStep, HandlerListStep, NextParts DEF Task

----------------------------------------------------------------------------
(* The theorems *)

LEMMA InitTypes == Init => TypeOK
  <1> SUFFICES ASSUME Init PROVE TypeOK
    OBVIOUS
  <1>1. PlaceType /\ FlagType /\ SwitchType
    <2>1. PlaceType
      <3>1. /\ pc = "idle" /\ i = 0 /\ timer = 0 /\ info = Unset /\ g_lwip_netif = "NULL" /\ calls = 0
        BY DEF Init
      <3>2. Unset \in [0 .. Limit - 1 -> Names]  BY DEF Unset, Names
      <3> QED  BY <3>1, <3>2 DEF PlaceType
    <2>2. FlagType
      <3>1. g_staScanSuccess = 0 /\ g_ConnectSuccess = 0 /\ ssid_count = 0 /\ handler = "idle"
        BY DEF Init
      <3> QED  BY <3>1 DEF FlagType
    <2>3. SwitchType  BY DEF Init, SwitchType
    <2> QED  BY <2>1, <2>2, <2>3
  <1>2. results \in Lists
    <2>1. <<>> \in [1 .. 0 -> {"home", "other"}]  BY SMT
    <2>2. 0 \in 0 .. Limit  OBVIOUS
    <2>3. results = <<>>  BY DEF Init
    <2> QED  BY <2>1, <2>2, <2>3 DEF Lists
  <1>3. QueueType
    <2>1. events = <<>> /\ drops = 0  BY DEF Init
    <2> QED  BY <1>2, <2>1 DEF QueueType
  <1> QED  BY <1>1, <1>3, TypeParts

\* WifiInv holds at first, and every step keeps it.
THEOREM WifiInvariant == Spec => []WifiInv
  <1>1. Init => WifiInv
    <2> SUFFICES ASSUME Init PROVE WifiInv
      OBVIOUS
    <2>1. pc = "idle" /\ events = <<>> /\ g_ConnectSuccess = 0 /\ ~link  BY DEF Init
    <2>2. LoopsInside /\ ListInv /\ DhcpHasNetif
      BY <2>1 DEF LoopsInside, ListInv, DhcpHasNetif, Selecting
    <2>3. LastLinkTold /\ FlagTracksLink  BY <2>1 DEF LastLinkTold, FlagTracksLink
    <2> QED  BY <2>2, <2>3, InitTypes DEF WifiInv
  <1>2. WifiInv /\ [Next]_vars => WifiInv'
    BY TypesStep, LinkStep, ListStep DEF WifiInv
  <1> QED  BY <1>1, <1>2, PTL DEF Spec

\* Every variable of WifiConnect, of its handlers and of the service keeps its type.
THEOREM TypesOfWifi == Spec => []TypeOK
  <1>1. WifiInv => TypeOK  BY DEF WifiInv
  <1> QED  BY <1>1, WifiInvariant, PTL

\* g_ConnectSuccess is wrong about the link only while the connection handler has
\* not run for its last change, or was not told of it.
THEOREM FlagFollowsLink == Spec => []FlagTracksLink
  <1>1. WifiInv => FlagTracksLink  BY DEF WifiInv
  <1> QED  BY <1>1, WifiInvariant, PTL

\* The loop over the list reads exactly the results of its own scan, if each scan
\* was handled in the wait that asked for it.
THEOREM LoopReadsOneScan == Spec => []EntriesAreReal
  <1>1. WifiInv => EntriesAreReal
    BY DEF WifiInv, ListInv, Listed, EntriesAreReal
  <1> QED  BY <1>1, WifiInvariant, PTL

\* WifiConnect leaves its loop for DHCP with the interface set, under the same condition.
THEOREM DhcpFindsNetif == Spec => []DhcpHasNetif
  <1>1. WifiInv => DhcpHasNetif  BY DEF WifiInv
  <1> QED  BY <1>1, WifiInvariant, PTL
============================================================================
