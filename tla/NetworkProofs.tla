---------------------------- MODULE NetworkProofs ----------------------------
(***************************************************************************)
(* Proofs about NetworkPrograms, for any number of connections, launches,  *)
(* clients, descriptors and calls in flight.                               *)
(*                                                                         *)
(* The phone app: there are no more listener threads than BasicSocket      *)
(* objects and no more of these than calls of creatclient, because of what *)
(* is counted on its way through the queues (CountInv).                    *)
(* FlagsMatchConnection speaks about the moments when nothing is on its    *)
(* way; what is true in between, for a user who waits, is PhaseInv.  The   *)
(* phone's part of a behaviour is one of PhoneService (PhoneInNetwork).    *)
(*                                                                         *)
(* The soft AP: which task serves, and whose datagram is in its buffer     *)
(* (ServerInv).  The TCP client: who owns which descriptor while launches  *)
(* do not overlap (ClientInv).                                             *)
(***************************************************************************)
EXTENDS NetworkPrograms, Queues, WellFoundedInduction, TLAPS

----------------------------------------------------------------------------
(* The phone app *)

Message == [from : Codes \cup {"STOP"}, ok : BOOLEAN]

ClientCreated == [from |-> "CREAT", ok |-> TRUE]

\* Each object comes from one call, and each thread from one object.
CountInv ==
    /\ made + Number(calls, "CREAT") <= creates
    /\ started + Number(calls, "SUBSCRIBE") + Number(inbox, ClientCreated)
         + (IF serving = "CREAT" THEN 1 ELSE 0) <= made

LEMMA Constants == MaxCreates \in Nat /\ MaxCreates >= 1 /\ MaxCalls \in Nat /\ MaxCalls >= 1
  BY PhoneAssumption

USE Constants

----------------------------------------------------------------------------
(* Types *)

\* TypeOK in five parts.
PageType == {startflag, client_statu, subscribe_statu, dialog, patient} \subseteq BOOLEAN
QueueType == calls \in Seq(Codes) /\ inbox \in Seq(Message)
RangeType ==
    /\ creates \in 0 .. MaxCreates /\ made \in 0 .. creates /\ started \in 0 .. made
    /\ basicSocket \in 0 .. made /\ remoteObjectHandlers \in Nat
    /\ serving \in {"none", "CREAT", "UNSUBSCRIBE"}
FieldType ==
    /\ socket \in [Objects -> {"null", "set"}] /\ out \in [Objects -> {"null", "set"}]
    /\ conn \in [Objects -> {"none", "open", "peerClosed", "reset", "closed"}]
ThreadType ==
    /\ at \in [Objects -> {"none", "sleep", "getInput", "read", "report", "stop", "iterReport",
                           "iterStop", "modified", "ended"}]
    /\ of \in [Objects -> 0 .. MaxCreates]
    /\ fault \in {"none", "null writer", "null socket", "concurrent modification"}

LEMMA TypeParts ==
    /\ TypeOK <=> PageType /\ QueueType /\ RangeType /\ FieldType /\ ThreadType
    /\ PageType' /\ QueueType' /\ RangeType' /\ FieldType' /\ ThreadType' => TypeOK'
  BY DEF TypeOK, PageType, QueueType, RangeType, FieldType, ThreadType, Message

\* What the user does.
User == Tap \/ Confirm \/ SendCommand

\* What a step does to the queues: it takes the head of one of them or not, and
\* appends to one of them or not.
LEMMA UserQueues ==
    ASSUME TypeOK, User
    PROVE  /\ UNCHANGED <<inbox, ability, fields, threads, fault>>
           /\ \/ UNCHANGED <<calls, creates>>
              \/ \E code \in {"SEND", "UNSUBSCRIBE"} : calls' = Append(calls, code) /\ UNCHANGED creates
              \/ calls' = Append(calls, "CREAT") /\ creates < MaxCreates /\ creates' = creates + 1
  BY DEF User, Tap, Confirm, SendCommand, CallAbility, page

LEMMA PageQueues ==
    ASSUME TypeOK, Page
    PROVE  /\ inbox # <<>> /\ inbox' = Tail(inbox)
           /\ UNCHANGED <<creates, ability, fields, threads, fault>>
           /\ IF Head(inbox) = ClientCreated THEN calls' = Append(calls, "SUBSCRIBE")
              ELSE calls' = calls \/ calls' = Append(calls, "UNSUBSCRIBE")
  <1>1. inbox # <<>> /\ inbox' = Tail(inbox)
    BY DEF Page, Created, Subscribed, Unsubscribed, Sent, Stopped, Received
  <1>2. Head(inbox) \in Message  BY <1>1, TypeParts, HeadTailProperties DEF QueueType
  <1>3. UNCHANGED <<creates, ability, fields, threads, fault>>
    BY DEF Page, Created, Subscribed, Unsubscribed, Sent, Stopped, Received, page
  <1>4. CASE Created
    <2>1. Head(inbox).from = "CREAT" /\ (Head(inbox).ok <=> Head(inbox) = ClientCreated)
      BY <1>2, <1>4 DEF Created, Received, Message, ClientCreated
    <2> QED  BY <1>1, <1>3, <1>4, <2>1 DEF Created, CallAbility
  <1>5. CASE Subscribed \/ Unsubscribed \/ Sent \/ Stopped
    <2>1. Head(inbox) # ClientCreated
      BY <1>5 DEF Subscribed, Unsubscribed, Sent, Stopped, Received, ClientCreated
    <2>2. calls' = calls \/ calls' = Append(calls, "UNSUBSCRIBE")
      BY <1>5 DEF Subscribed, Unsubscribed, Sent, Stopped, CallAbility
    <2> QED  BY <1>1, <1>3, <2>1, <2>2
  <1> QED  BY <1>4, <1>5 DEF Page

LEMMA UserTypes ==
    ASSUME TypeOK, CountInv, User
    PROVE  TypeOK' /\ CountInv'
  <1>0. PageType /\ QueueType /\ RangeType /\ FieldType /\ ThreadType  BY TypeParts
  <1>1. PageType'
    BY <1>0 DEF PageType, User, Tap, Confirm, SendCommand, page
  <1>2. UNCHANGED <<inbox, made, started, basicSocket, remoteObjectHandlers, serving>>
        /\ FieldType' /\ ThreadType'
    BY <1>0, UserQueues DEF ability, fields, threads, FieldType, ThreadType
  <1>3. Number(calls, "CREAT") \in Nat /\ Number(calls, "SUBSCRIBE") \in Nat
        /\ Number(inbox, ClientCreated) \in Nat
    BY <1>0, NumberType DEF QueueType
  <1>4. ASSUME NEW code \in Codes, calls' = Append(calls, code)
        PROVE  /\ calls' \in Seq(Codes)
               /\ \A x : Number(calls', x) = Number(calls, x) + (IF code = x THEN 1 ELSE 0)
    BY <1>0, <1>4, NumberAppended, AppendProperties DEF QueueType
  <1>5. CASE UNCHANGED <<calls, creates>>
    BY <1>0, <1>1, <1>2, <1>5, TypeParts DEF QueueType, RangeType, CountInv
  <1>6. CASE \E code \in {"SEND", "UNSUBSCRIBE"} : calls' = Append(calls, code) /\ UNCHANGED creates
    <2>1. PICK code \in {"SEND", "UNSUBSCRIBE"} : calls' = Append(calls, code) /\ UNCHANGED creates
      BY <1>6
    <2>2. calls' \in Seq(Codes) /\ UNCHANGED <<Number(calls, "CREAT"), Number(calls, "SUBSCRIBE")>>
      BY <1>3, <1>4, <2>1 DEF Codes
    <2> QED  BY <1>0, <1>1, <1>2, <2>1, <2>2, TypeParts DEF QueueType, RangeType, CountInv
  <1>7. CASE calls' = Append(calls, "CREAT") /\ creates < MaxCreates /\ creates' = creates + 1
    <2>1. /\ calls' \in Seq(Codes) /\ Number(calls', "SUBSCRIBE") = Number(calls, "SUBSCRIBE")
          /\ Number(calls', "CREAT") = Number(calls, "CREAT") + 1
      BY <1>3, <1>4, <1>7 DEF Codes
    <2>2. RangeType'  BY <1>0, <1>2, <1>7 DEF RangeType
    <2>3. CountInv'  BY <1>0, <1>2, <1>3, <1>7, <2>1 DEF RangeType, CountInv
    <2> QED  BY <1>0, <1>1, <1>2, <2>1, <2>2, <2>3, TypeParts DEF QueueType
  <1> QED  BY <1>5, <1>6, <1>7, UserQueues

LEMMA PageTypes ==
    ASSUME TypeOK, CountInv, Page
    PROVE  TypeOK' /\ CountInv'
  <1>0. PageType /\ QueueType /\ RangeType /\ FieldType /\ ThreadType  BY TypeParts
  <1>1. inbox # <<>> /\ inbox' = Tail(inbox)  BY PageQueues
  <1>2. Head(inbox) \in Message /\ inbox' \in Seq(Message)
    BY <1>0, <1>1, HeadTailProperties DEF QueueType
  <1>3. PageType'
    <2>1. Head(inbox).ok \in BOOLEAN  BY <1>2 DEF Message
    <2> QED  BY <1>0, <2>1 DEF PageType, Page, Created, Subscribed, Unsubscribed, Sent, Stopped, page
  <1>4. RangeType' /\ FieldType' /\ ThreadType'
    BY <1>0, PageQueues DEF ability, fields, threads, RangeType, FieldType, ThreadType
  <1>5. /\ Number(calls, "CREAT") \in Nat /\ Number(calls, "SUBSCRIBE") \in Nat
        /\ Number(inbox', ClientCreated) \in Nat
    BY <1>0, <1>2, NumberType DEF QueueType
  <1>6. Number(inbox, ClientCreated)
          = Number(inbox', ClientCreated) + (IF Head(inbox) = ClientCreated THEN 1 ELSE 0)
    BY <1>0, <1>1, NumberTaken DEF QueueType
  <1>7. ASSUME NEW code \in Codes, calls' = Append(calls, code)
        PROVE  /\ calls' \in Seq(Codes)
               /\ \A x : Number(calls', x) = Number(calls, x) + (IF code = x THEN 1 ELSE 0)
    BY <1>0, <1>7, NumberAppended, AppendProperties DEF QueueType
  <1>8. /\ calls' \in Seq(Codes) /\ Number(calls', "CREAT") = Number(calls, "CREAT")
        /\ Number(calls', "SUBSCRIBE")
             = Number(calls, "SUBSCRIBE") + (IF Head(inbox) = ClientCreated THEN 1 ELSE 0)
    <2>1. CASE calls' = calls /\ Head(inbox) # ClientCreated  BY <1>0, <1>5, <2>1 DEF QueueType
    <2>2. CASE calls' = Append(calls, "UNSUBSCRIBE") /\ Head(inbox) # ClientCreated
      BY <1>5, <1>7, <2>2 DEF Codes
    <2>3. CASE calls' = Append(calls, "SUBSCRIBE") /\ Head(inbox) = ClientCreated
      BY <1>5, <1>7, <2>3 DEF Codes
    <2> QED  BY <2>1, <2>2, <2>3, PageQueues
  <1>9. UNCHANGED <<creates, made, started, serving>>  BY PageQueues DEF ability, fields, threads
  <1>10. CountInv'
    <2>1. CASE Head(inbox) = ClientCreated
      BY <1>0, <1>5, <1>6, <1>8, <1>9, <2>1 DEF CountInv, RangeType
    <2>2. CASE Head(inbox) # ClientCreated
      BY <1>0, <1>5, <1>6, <1>8, <1>9, <2>2 DEF CountInv, RangeType
    <2> QED  BY <2>1, <2>2
  <1> QED  BY <1>2, <1>3, <1>4, <1>8, <1>10, TypeParts DEF QueueType

\* The ability takes a call, or replies, or both.
LEMMA AbilityTypes ==
    ASSUME TypeOK, CountInv, Ability
    PROVE  TypeOK' /\ CountInv'
  <1>0. PageType /\ QueueType /\ RangeType /\ FieldType /\ ThreadType  BY TypeParts
  <1>1. /\ Number(calls, "CREAT") \in Nat /\ Number(calls, "SUBSCRIBE") \in Nat
        /\ Number(inbox, ClientCreated) \in Nat
    BY <1>0, NumberType DEF QueueType
  <1>2. ASSUME NEW code, Serve(code), calls' = Tail(calls)
        PROVE  /\ calls' \in Seq(Codes) /\ Number(calls', "CREAT") \in Nat /\ Number(calls', "SUBSCRIBE") \in Nat
               /\ \A x : Number(calls, x) = Number(calls', x) + (IF code = x THEN 1 ELSE 0)
    <2>1. calls # <<>> /\ Head(calls) = code  BY <1>2 DEF Serve
    <2>2. calls' \in Seq(Codes)  BY <1>0, <1>2, <2>1, HeadTailProperties DEF QueueType
    <2> QED  BY <1>0, <1>2, <2>1, <2>2, NumberTaken, NumberType DEF QueueType
  <1>3. ASSUME NEW code \in Codes, NEW ok \in BOOLEAN, Reply(code, ok)
        PROVE  /\ inbox' \in Seq(Message)
               /\ Number(inbox', ClientCreated)
                    = Number(inbox, ClientCreated) + (IF code = "CREAT" /\ ok THEN 1 ELSE 0)
               /\ code # "CREAT" => Number(inbox', ClientCreated) = Number(inbox, ClientCreated)
    <2> DEFINE m == [from |-> code, ok |-> ok]
    <2>1. m \in Message /\ inbox' = Append(inbox, m)  BY <1>3 DEF Message, Reply
    <2>2. m = ClientCreated <=> code = "CREAT" /\ ok  BY DEF ClientCreated
    <2>3. inbox' \in Seq(Message)  BY <1>0, <2>1, AppendProperties DEF QueueType
    <2> HIDE DEF m
    <2>4. Number(inbox', ClientCreated) = Number(inbox, ClientCreated) + (IF m = ClientCreated THEN 1 ELSE 0)
      BY <1>0, <2>1, NumberAppended DEF QueueType
    <2> QED  BY <1>1, <2>2, <2>3, <2>4
  <1>4. PageType' /\ UNCHANGED creates
    BY <1>0 DEF PageType, Ability, ServeCreate, Connect, ServeSend, ServeSubscribe, ServeUnsubscribe, Stop, page
  <1>5. Modified \in [Objects -> {"none", "sleep", "getInput", "read", "report", "stop", "iterReport",
                                  "iterStop", "modified", "ended"}]
    BY <1>0 DEF ThreadType, Modified
  <1> USE DEF ability, fields, threads
  <1>6. FieldType' /\ ThreadType'
    <2>1. CASE ServeCreate  BY <1>0, <2>1 DEF ServeCreate, FieldType, ThreadType
    <2>2. CASE Connect  BY <1>0, <2>2 DEF Connect, FieldType, ThreadType
    <2>3. CASE ServeSend  BY <1>0, <2>3 DEF ServeSend, FieldType, ThreadType
    <2>4. CASE ServeSubscribe
      <3>1. basicSocket \in 0 .. MaxCreates  BY <1>0 DEF RangeType
      <3> QED  BY <1>0, <1>5, <2>4, <3>1 DEF ServeSubscribe, FieldType, ThreadType
    <2>5. CASE ServeUnsubscribe  BY <1>0, <1>5, <2>5 DEF ServeUnsubscribe, FieldType, ThreadType
    <2>6. CASE Stop
      <3>1. conn' \in [Objects -> {"none", "open", "peerClosed", "reset", "closed"}]
        BY <1>0, <2>6 DEF Stop, FieldType
      <3>2. socket' \in [Objects -> {"null", "set"}] /\ out' \in [Objects -> {"null", "set"}]
        BY <1>0, <2>6 DEF Stop, FieldType
      <3>3. UNCHANGED threads /\ UNCHANGED fault  BY <2>6 DEF Stop
      <3> QED  BY <1>0, <3>1, <3>2, <3>3 DEF FieldType, ThreadType
    <2> QED  BY <2>1, <2>2, <2>3, <2>4, <2>5, <2>6 DEF Ability
  <1>7. QueueType' /\ RangeType' /\ CountInv'
    <2>1. CASE ServeCreate
      <3>1. /\ serving = "none" /\ serving' = "CREAT" /\ made' = made + 1 /\ basicSocket' = made + 1
            /\ UNCHANGED <<inbox, started, remoteObjectHandlers>>
        BY <2>1 DEF ServeCreate, Serve
      <3>2. /\ calls' \in Seq(Codes) /\ Number(calls', "CREAT") \in Nat
            /\ Number(calls, "CREAT") = Number(calls', "CREAT") + 1
            /\ Number(calls, "SUBSCRIBE") = Number(calls', "SUBSCRIBE")
        BY <1>1, <1>2, <2>1 DEF ServeCreate
      <3> QED  BY <1>0, <1>1, <1>4, <3>1, <3>2 DEF QueueType, RangeType, CountInv
    <2>2. CASE Connect
      <3>1. /\ serving = "CREAT" /\ serving' = "none"
            /\ UNCHANGED <<calls, basicSocket, remoteObjectHandlers, made, started>>
            /\ \E ok \in BOOLEAN : Reply("CREAT", ok)
        BY <2>2 DEF Connect
      <3>2. PICK ok \in BOOLEAN : Reply("CREAT", ok)  BY <3>1
      <3>3. /\ inbox' \in Seq(Message)
            /\ Number(inbox', ClientCreated) \in {Number(inbox, ClientCreated), Number(inbox, ClientCreated) + 1}
        BY <1>1, <1>3, <3>2 DEF Codes
      <3> QED  BY <1>0, <1>1, <1>4, <3>1, <3>3 DEF QueueType, RangeType, CountInv
    <2>3. CASE ServeSend
      <3>1. UNCHANGED <<basicSocket, remoteObjectHandlers, made, started, serving>> /\ serving = "none"
        BY <2>3 DEF ServeSend, Serve
      <3>2. /\ calls' \in Seq(Codes) /\ Number(calls, "CREAT") = Number(calls', "CREAT")
            /\ Number(calls, "SUBSCRIBE") = Number(calls', "SUBSCRIBE")
        <4>1. Serve("SEND") /\ calls' = Tail(calls)  BY <2>3 DEF ServeSend
        <4> QED  BY <1>1, <1>2, <4>1
      <3>3. inbox' \in Seq(Message) /\ Number(inbox', ClientCreated) = Number(inbox, ClientCreated)
        <4>1. CASE UNCHANGED inbox  BY <1>0, <4>1 DEF QueueType
        <4>2. CASE Reply("SEND", TRUE)
          <5>1. "SEND" \in Codes  BY DEF Codes
          <5> QED  BY <1>3, <4>2, <5>1
        <4> QED  BY <2>3, <4>1, <4>2 DEF ServeSend
      <3> QED  BY <1>0, <1>1, <1>4, <3>1, <3>2, <3>3 DEF QueueType, RangeType, CountInv
    <2>4. CASE ServeSubscribe
      <3>1. /\ UNCHANGED <<basicSocket, made, serving>> /\ serving = "none"
            /\ started' = started + 1 /\ remoteObjectHandlers' = remoteObjectHandlers + 1
        BY <2>4 DEF ServeSubscribe, Serve
      <3>2. /\ calls' \in Seq(Codes) /\ Number(calls, "CREAT") = Number(calls', "CREAT")
            /\ Number(calls, "SUBSCRIBE") = Number(calls', "SUBSCRIBE") + 1
            /\ Number(calls', "SUBSCRIBE") \in Nat
        BY <1>1, <1>2, <2>4 DEF ServeSubscribe
      <3>3. inbox' \in Seq(Message) /\ Number(inbox', ClientCreated) = Number(inbox, ClientCreated)
        <4>1. Reply("SUBSCRIBE", TRUE) /\ "SUBSCRIBE" \in Codes  BY <2>4 DEF ServeSubscribe, Codes
        <4> QED  BY <1>3, <4>1
      <3> QED  BY <1>0, <1>1, <1>4, <3>1, <3>2, <3>3 DEF QueueType, RangeType, CountInv
    <2>5. CASE ServeUnsubscribe
      <3>1. /\ UNCHANGED <<inbox, basicSocket, made, started>> /\ remoteObjectHandlers' = 0
            /\ serving = "none" /\ serving' = "UNSUBSCRIBE"
        BY <2>5 DEF ServeUnsubscribe, Serve
      <3>2. /\ calls' \in Seq(Codes) /\ Number(calls, "CREAT") = Number(calls', "CREAT")
            /\ Number(calls, "SUBSCRIBE") = Number(calls', "SUBSCRIBE")
        BY <1>1, <1>2, <2>5 DEF ServeUnsubscribe
      <3> QED  BY <1>0, <1>1, <1>4, <3>1, <3>2 DEF QueueType, RangeType, CountInv
    <2>6. CASE Stop
      <3>1. /\ UNCHANGED <<calls, basicSocket, remoteObjectHandlers, made, started>>
            /\ serving = "UNSUBSCRIBE" /\ serving' = "none"
        BY <2>6 DEF Stop
      <3>2. inbox' \in Seq(Message) /\ Number(inbox', ClientCreated) = Number(inbox, ClientCreated)
        <4>1. Reply("UNSUBSCRIBE", TRUE) /\ "UNSUBSCRIBE" \in Codes  BY <2>6 DEF Stop, Codes
        <4> QED  BY <1>3, <4>1
      <3> QED  BY <1>0, <1>1, <1>4, <3>1, <3>2 DEF QueueType, RangeType, CountInv
    <2> QED  BY <2>1, <2>2, <2>3, <2>4, <2>5, <2>6 DEF Ability
  <1> QED  BY <1>4, <1>6, <1>7, TypeParts

\* What a listener puts into the inbox: callbacks of STOP, or nothing.
Stops(n) == [k \in 1 .. n |-> [from |-> "STOP", ok |-> TRUE]]

LEMMA ListenerEffect ==
    ASSUME TypeOK, NEW t \in Objects, Listener(t)
    PROVE  /\ UNCHANGED <<page, calls, ability, fields, started, of>>
           /\ inbox' = inbox \/ inbox' = inbox \o Stops(remoteObjectHandlers)
           /\ ThreadType'
  <1>0. PageType /\ QueueType /\ RangeType /\ FieldType /\ ThreadType  BY TypeParts
  <1>1. UNCHANGED <<page, calls, ability, fields, started, of>>  BY DEF Listener
  <1>2. CASE TestSocket(t)  BY <1>0, <1>1, <1>2 DEF TestSocket, Goto, ThreadType
  <1>3. CASE GetInputStream(t)  BY <1>0, <1>1, <1>3 DEF GetInputStream, Goto, ThreadType
  <1>4. CASE Read(t)  BY <1>0, <1>1, <1>4 DEF Read, Goto, ThreadType
  <1>5. CASE Iterate(t)  BY <1>0, <1>1, <1>5 DEF Iterate, Goto, ThreadType
  <1>6. CASE SendRequest(t)  BY <1>0, <1>1, <1>6 DEF SendRequest, Goto, ThreadType, Stops
  <1> QED  BY <1>2, <1>3, <1>4, <1>5, <1>6 DEF Listener

\* A queue before and after the callbacks of STOP.
LEMMA StopsAppended ==
    ASSUME NEW q \in Seq(Message), NEW n \in Nat
    PROVE  /\ q \o Stops(n) \in Seq(Message)
           /\ Len(q \o Stops(n)) = Len(q) + n /\ Len(q) \in Nat
           /\ \A k \in 1 .. Len(q) : (q \o Stops(n))[k] = q[k]
           /\ \A k \in Len(q) + 1 .. Len(q) + n : (q \o Stops(n))[k] = [from |-> "STOP", ok |-> TRUE]
           /\ Number(q \o Stops(n), ClientCreated) = Number(q, ClientCreated)
  <1>1. Stops(n) \in Seq(Message) /\ Len(Stops(n)) = n  BY DEF Stops, Message
  <1>2. /\ q \o Stops(n) \in Seq(Message) /\ Len(q \o Stops(n)) = Len(q) + n /\ Len(q) \in Nat
        /\ \A k \in 1 .. Len(q) + n :
              (q \o Stops(n))[k] = IF k <= Len(q) THEN q[k] ELSE Stops(n)[k - Len(q)]
    <2>1. /\ q \o Stops(n) \in Seq(Message) /\ Len(q \o Stops(n)) = Len(q) + Len(Stops(n))
          /\ \A k \in 1 .. Len(q) + Len(Stops(n)) :
                (q \o Stops(n))[k] = IF k <= Len(q) THEN q[k] ELSE Stops(n)[k - Len(q)]
      BY <1>1, ConcatProperties, Zenon
    <2> QED  BY <1>1, <2>1
  <1>3. \A k \in 1 .. Len(q) : (q \o Stops(n))[k] = q[k]  BY <1>2
  <1>4. \A k \in Len(q) + 1 .. Len(q) + n : (q \o Stops(n))[k] = [from |-> "STOP", ok |-> TRUE]
    <2> SUFFICES ASSUME NEW k \in Len(q) + 1 .. Len(q) + n
                 PROVE  (q \o Stops(n))[k] = [from |-> "STOP", ok |-> TRUE]
      OBVIOUS
    <2>1. k \in 1 .. Len(q) + n /\ ~(k <= Len(q)) /\ k - Len(q) \in 1 .. n  BY <1>2
    <2>2. (q \o Stops(n))[k] = Stops(n)[k - Len(q)]  BY <1>2, <2>1
    <2> QED  BY <2>1, <2>2 DEF Stops
  <1>5. [from |-> "STOP", ok |-> TRUE] # ClientCreated  BY DEF ClientCreated
  <1>6. Places(q \o Stops(n), ClientCreated) = Places(q, ClientCreated)
    <2>1. \A k \in 1 .. Len(q) + n : (q \o Stops(n))[k] = ClientCreated => k \in 1 .. Len(q)
      BY <1>2, <1>4, <1>5
    <2> QED  BY <1>2, <1>3, <2>1 DEF Places
  <1> QED  BY <1>2, <1>3, <1>4, <1>6 DEF Number

LEMMA ListenerTypes ==
    ASSUME TypeOK, CountInv, NEW t \in Objects, Listener(t)
    PROVE  TypeOK' /\ CountInv'
  <1>0. PageType /\ QueueType /\ RangeType /\ FieldType /\ ThreadType  BY TypeParts
  <1>1. /\ UNCHANGED <<page, calls, ability, fields, started, of>> /\ ThreadType'
        /\ inbox' = inbox \/ inbox' = inbox \o Stops(remoteObjectHandlers)
    BY ListenerEffect
  <1>2. inbox' \in Seq(Message) /\ Number(inbox', ClientCreated) = Number(inbox, ClientCreated)
    BY <1>0, <1>1, StopsAppended DEF QueueType, RangeType
  <1>3. PageType' /\ QueueType' /\ RangeType' /\ FieldType' /\ CountInv'
    BY <1>0, <1>1, <1>2 DEF page, ability, fields, PageType, QueueType, RangeType, FieldType, CountInv
  <1> QED  BY <1>1, <1>3, TypeParts

LEMMA TypesStep == TypeOK /\ CountInv /\ [Next]_vars => TypeOK' /\ CountInv'
  <1>1. ASSUME TypeOK, CountInv, NEW b \in Objects, PeerEnds(b) PROVE TypeOK' /\ CountInv'
    <2>1. PageType /\ QueueType /\ RangeType /\ FieldType /\ ThreadType  BY <1>1, TypeParts
    <2>2. FieldType'  BY <1>1, <2>1 DEF PeerEnds, FieldType
    <2>3. UNCHANGED <<page, calls, inbox, ability, made, threads, fault>>  BY <1>1 DEF PeerEnds
    <2>4. PageType' /\ QueueType' /\ RangeType' /\ ThreadType' /\ CountInv'
      BY <1>1, <2>1, <2>3 DEF page, ability, threads, PageType, QueueType, RangeType, ThreadType, CountInv
    <2> QED  BY <2>2, <2>4, TypeParts
  <1>2. ASSUME TypeOK, CountInv, UNCHANGED vars PROVE TypeOK' /\ CountInv'
    BY <1>2 DEF vars, page, ability, fields, threads, TypeOK, CountInv
  <1> QED  BY <1>1, <1>2, UserTypes, PageTypes, AbilityTypes, ListenerTypes DEF Next, User

----------------------------------------------------------------------------
(* What is on its way when the user waits for each answer *)

\* The ability has no connection; after a close that threw it may still have a
\* writer, which is why these are about the connection.
Away == basicSocket \notin Held
Writable == basicSocket \in Held /\ out[basicSocket] = "set"

\* The call for a new connection is on its way, served, or answered, and nothing else.
Creating ==
    /\ ~startflag /\ ~subscribe_statu /\ ~dialog /\ remoteObjectHandlers = 0
    /\ \/ calls = <<"CREAT">> /\ inbox = <<>> /\ serving = "none" /\ Away
       \/ calls = <<>> /\ inbox = <<>> /\ serving = "CREAT" /\ basicSocket # 0 /\ Away
       \/ /\ calls = <<>> /\ serving = "none" /\ Len(inbox) = 1 /\ inbox[1].from = "CREAT"
          /\ IF inbox[1].ok THEN Writable ELSE Away

\* The connection is there, and the page subscribes to it.
Subscribing ==
    /\ startflag /\ ~subscribe_statu /\ ~dialog /\ serving = "none" /\ Writable
    /\ \/ calls = <<"SUBSCRIBE">> /\ inbox = <<>> /\ remoteObjectHandlers = 0
       \/ /\ calls = <<>> /\ remoteObjectHandlers = 1
          /\ inbox # <<>> /\ inbox[1].from = "SUBSCRIBE"
          /\ \A n \in 2 .. Len(inbox) : inbox[n].from = "STOP"

Undone == \E n \in 1 .. Len(inbox) : inbox[n].from = "UNSUBSCRIBE"

LateCalls   == {"SEND", "UNSUBSCRIBE"}
LateMessage == [from : {"SEND", "UNSUBSCRIBE", "STOP"}, ok : BOOLEAN]

\* Commands, and any number of unsubscriptions, are on their way, or nothing is.
Settled ==
    /\ startflag <=> subscribe_statu
    /\ serving # "CREAT"
    /\ calls \in Seq(LateCalls) /\ inbox \in Seq(LateMessage)
    /\ dialog => ~startflag /\ Quiet
    /\ ~startflag \/ Undone => remoteObjectHandlers = 0 /\ Away
    /\ startflag /\ ~Undone => Writable
    /\ startflag /\ ~Undone /\ serving # "UNSUBSCRIBE" => remoteObjectHandlers = 1
    /\ serving = "UNSUBSCRIBE" => remoteObjectHandlers = 0

PhaseInv == patient /\ fault = "none" => Creating \/ Subscribing \/ Settled

\* An object that was not made yet has no connection and no writer.
NotMade == \A b \in Objects : b > made => out[b] = "null" /\ conn[b] = "none"

\* The ability can write to any connection that is held.
HeldInv == patient => \A b \in Held : b = basicSocket /\ out[b] = "set"

PhoneInv == TypeOK /\ CountInv /\ PhaseInv /\ NotMade /\ HeldInv

\* The inbox after a message was added or taken.
LEMMA InboxAdded ==
    ASSUME TypeOK, NEW m \in Message, inbox' = Append(inbox, m)
    PROVE  Undone' <=> Undone \/ m.from = "UNSUBSCRIBE"
  <1>1. inbox \in Seq(Message)  BY TypeParts DEF QueueType
  <1>2. /\ Len(inbox) \in Nat /\ Len(inbox') = Len(inbox) + 1
        /\ \A n \in 1 .. Len(inbox) : inbox'[n] = inbox[n]
        /\ inbox'[Len(inbox) + 1] = m
    BY <1>1, AppendProperties
  <1>3. ASSUME Undone PROVE Undone'
    <2>1. PICK n \in 1 .. Len(inbox) : inbox[n].from = "UNSUBSCRIBE"  BY <1>3 DEF Undone
    <2>2. n \in 1 .. Len(inbox') /\ inbox'[n].from = "UNSUBSCRIBE"  BY <1>2, <2>1
    <2> QED  BY <2>2 DEF Undone
  <1>4. ASSUME m.from = "UNSUBSCRIBE" PROVE Undone'
    <2>1. Len(inbox) + 1 \in 1 .. Len(inbox')  BY <1>2
    <2> QED  BY <1>2, <1>4, <2>1 DEF Undone
  <1>5. ASSUME Undone' PROVE Undone \/ m.from = "UNSUBSCRIBE"
    <2>1. PICK n \in 1 .. Len(inbox') : inbox'[n].from = "UNSUBSCRIBE"  BY <1>5 DEF Undone
    <2>2. n = Len(inbox) + 1 \/ (n \in 1 .. Len(inbox) /\ inbox'[n] = inbox[n])  BY <1>2
    <2> QED  BY <1>2, <2>1, <2>2 DEF Undone
  <1> QED  BY <1>3, <1>4, <1>5

LEMMA InboxTaken ==
    ASSUME TypeOK, inbox # <<>>, inbox' = Tail(inbox)
    PROVE  /\ Undone <=> Undone' \/ Head(inbox).from = "UNSUBSCRIBE"
           /\ Head(inbox) = inbox[1] /\ Head(inbox) \in Message
           /\ Len(inbox) \in Nat /\ Len(inbox') = Len(inbox) - 1
           /\ \A n \in 1 .. Len(inbox') : inbox'[n] = inbox[n + 1]
  <1>1. inbox \in Seq(Message)  BY TypeParts DEF QueueType
  <1>2. /\ Len(inbox) \in Nat /\ Len(inbox) >= 1 /\ Len(inbox') = Len(inbox) - 1
        /\ \A n \in 1 .. Len(inbox') : inbox'[n] = inbox[n + 1]
        /\ Head(inbox) = inbox[1] /\ Head(inbox) \in Message
    BY <1>1, HeadTailProperties
  <1>3. ASSUME Undone' PROVE Undone
    <2>1. PICK n \in 1 .. Len(inbox') : inbox'[n].from = "UNSUBSCRIBE"  BY <1>3 DEF Undone
    <2>2. n + 1 \in 1 .. Len(inbox) /\ inbox[n + 1].from = "UNSUBSCRIBE"  BY <1>2, <2>1
    <2> QED  BY <2>2 DEF Undone
  <1>4. ASSUME Head(inbox).from = "UNSUBSCRIBE" PROVE Undone
    <2>1. 1 \in 1 .. Len(inbox)  BY <1>2
    <2> QED  BY <1>2, <1>4, <2>1 DEF Undone
  <1>5. ASSUME Undone PROVE Undone' \/ Head(inbox).from = "UNSUBSCRIBE"
    <2>1. PICK n \in 1 .. Len(inbox) : inbox[n].from = "UNSUBSCRIBE"  BY <1>5 DEF Undone
    <2>2. n = 1 \/ (n - 1 \in 1 .. Len(inbox') /\ inbox'[n - 1] = inbox[n])  BY <1>2
    <2> QED  BY <1>2, <2>1, <2>2 DEF Undone
  <1> QED  BY <1>2, <1>3, <1>4, <1>5

\* The user, who waits for each answer.
LEMMA UserPhase ==
    ASSUME TypeOK, PhaseInv, User
    PROVE  PhaseInv'
  <1> SUFFICES ASSUME patient, fault = "none"
               PROVE  (Creating \/ Subscribing \/ Settled)'
    BY UserQueues DEF PhaseInv, User, Tap, Confirm, SendCommand, page
  <1>0. Creating \/ Subscribing \/ Settled  BY DEF PhaseInv
  <1>1. /\ UNCHANGED <<inbox, basicSocket, remoteObjectHandlers, serving, out, conn, startflag, subscribe_statu>>
        /\ calls \in Seq(Codes)
    BY UserQueues, TypeParts DEF ability, fields, QueueType, User, Tap, Confirm, SendCommand, page
  <1>2. UNCHANGED <<Away, Writable, Undone>>  BY <1>1 DEF Away, Writable, Held, Undone
  <1>3. CASE Tap
    <2>1. Quiet /\ ~dialog  BY <1>3 DEF Tap
    <2>2. Settled  BY <1>0, <2>1 DEF Creating, Subscribing, Quiet
    <2>3. CASE startflag
      <3>1. calls' = <<"UNSUBSCRIBE">> /\ dialog' = dialog  BY <1>3, <2>1, <2>3 DEF Tap, CallAbility, Quiet
      <3>2. calls' \in Seq(LateCalls)  BY <3>1 DEF LateCalls
      <3> QED  BY <1>1, <1>2, <2>1, <2>2, <3>1, <3>2 DEF Settled
    <2>4. CASE ~startflag
      <3>1. calls' = calls  BY <1>3, <2>4 DEF Tap
      <3>2. Quiet'  BY <1>1, <2>1, <3>1 DEF Quiet
      <3> QED  BY <1>1, <1>2, <2>2, <2>4, <3>1, <3>2 DEF Settled
    <2> QED  BY <2>3, <2>4
  <1>4. CASE Confirm
    <2>1. dialog /\ dialog' = FALSE  BY <1>4 DEF Confirm
    <2>2. Settled /\ Quiet /\ ~startflag  BY <1>0, <2>1 DEF Creating, Subscribing, Settled
    <2>3. CASE UNCHANGED calls  BY <1>1, <1>2, <2>1, <2>2, <2>3 DEF Settled
    <2>4. CASE calls' = Append(calls, "CREAT")
      <3>1. calls' = <<"CREAT">>  BY <2>2, <2>4 DEF Quiet
      <3>2. inbox' = <<>> /\ serving' = "none" /\ remoteObjectHandlers' = 0 /\ Away' /\ ~dialog'
        BY <1>1, <1>2, <2>1, <2>2 DEF Settled, Quiet
      <3>3. ~startflag' /\ ~subscribe_statu'  BY <1>1, <2>2 DEF Settled
      <3> QED  BY <3>1, <3>2, <3>3 DEF Creating
    <2> QED  BY <1>4, <2>3, <2>4 DEF Confirm, CallAbility
  <1>5. CASE SendCommand
    <2>1. subscribe_statu /\ calls' = Append(calls, "SEND") /\ dialog' = dialog
      BY <1>5 DEF SendCommand, CallAbility, page
    <2>2. Settled  BY <1>0, <2>1 DEF Creating, Subscribing
    <2>3. ~dialog  BY <2>1, <2>2 DEF Settled
    <2>4. calls' \in Seq(LateCalls)  BY <2>1, <2>2, AppendProperties DEF Settled, LateCalls
    <2> QED  BY <1>1, <1>2, <2>1, <2>2, <2>3, <2>4 DEF Settled
  <1> QED  BY <1>3, <1>4, <1>5 DEF User

\* A reply or an event reaches the page.
LEMMA PagePhase ==
    ASSUME TypeOK, PhaseInv, Page
    PROVE  PhaseInv'
  <1> SUFFICES ASSUME patient, fault = "none"
               PROVE  (Creating \/ Subscribing \/ Settled)'
    BY PageQueues DEF PhaseInv, Page, Created, Subscribed, Unsubscribed, Sent, Stopped, page
  <1>0. Creating \/ Subscribing \/ Settled  BY DEF PhaseInv
  <1>1. /\ UNCHANGED <<basicSocket, remoteObjectHandlers, serving, out, conn, dialog>>
        /\ inbox # <<>> /\ inbox' = Tail(inbox) /\ inbox' \in Seq(Message)
    <2>1. UNCHANGED dialog
      BY DEF Page, Created, Subscribed, Unsubscribed, Sent, Stopped, page
    <2>2. inbox \in Seq(Message)  BY TypeParts DEF QueueType
    <2> QED  BY <2>1, <2>2, PageQueues, HeadTailProperties DEF ability, fields
  <1>2. UNCHANGED <<Away, Writable>>  BY <1>1 DEF Away, Writable, Held
  <1>3. /\ Undone <=> Undone' \/ Head(inbox).from = "UNSUBSCRIBE"
        /\ Head(inbox) = inbox[1] /\ Head(inbox) \in Message
        /\ Len(inbox) \in Nat /\ Len(inbox') = Len(inbox) - 1
        /\ \A n \in 1 .. Len(inbox') : inbox'[n] = inbox[n + 1]
    BY <1>1, InboxTaken
  <1>4. ASSUME Settled
        PROVE  /\ Head(inbox) \in LateMessage /\ inbox' \in Seq(LateMessage) /\ ~dialog
    <2>1. Head(inbox) \in LateMessage /\ inbox' \in Seq(LateMessage)
      BY <1>1, <1>4, HeadTailProperties DEF Settled
    <2> QED  BY <1>1, <1>4, <2>1 DEF Settled, Quiet
  <1>5. CASE Created
    <2>1. inbox[1].from = "CREAT"  BY <1>3, <1>5 DEF Created, Received
    <2>2. Creating
      <3>1. ~Subscribing  BY <1>1, <2>1 DEF Subscribing
      <3>2. ~Settled  BY <1>3, <1>4, <2>1 DEF LateMessage
      <3> QED  BY <1>0, <3>1, <3>2
    <2>3. /\ calls = <<>> /\ serving = "none" /\ Len(inbox) = 1 /\ ~dialog /\ ~subscribe_statu
          /\ remoteObjectHandlers = 0 /\ IF inbox[1].ok THEN Writable ELSE Away
      BY <1>1, <2>2 DEF Creating
    <2>4. inbox' = <<>>  BY <1>1, <1>3, <2>3
    <2>5. CASE inbox[1].ok
      <3>1. calls' = <<"SUBSCRIBE">> /\ startflag' = TRUE /\ subscribe_statu' = subscribe_statu
        BY <1>3, <1>5, <2>3, <2>5 DEF Created, CallAbility
      <3> QED  BY <1>1, <1>2, <2>3, <2>4, <2>5, <3>1 DEF Subscribing
    <2>6. CASE ~inbox[1].ok
      <3>1. inbox[1].ok = FALSE  BY <1>3, <2>6 DEF Message
      <3>2. calls' = <<>> /\ startflag' = FALSE /\ subscribe_statu' = subscribe_statu
        BY <1>3, <1>5, <2>3, <3>1 DEF Created
      <3>3. ~Undone' /\ inbox' \in Seq(LateMessage) /\ calls' \in Seq(LateCalls)  BY <2>4, <3>2 DEF Undone
      <3> QED  BY <1>1, <1>2, <2>3, <2>6, <3>2, <3>3 DEF Settled
    <2> QED  BY <2>5, <2>6
  <1>6. CASE Subscribed
    <2>1. inbox[1].from = "SUBSCRIBE" /\ UNCHANGED calls /\ startflag' = TRUE /\ subscribe_statu' = TRUE
      BY <1>3, <1>6 DEF Subscribed, Received
    <2>2. Subscribing
      <3>1. ~Creating  BY <1>1, <2>1 DEF Creating
      <3>2. ~Settled  BY <1>3, <1>4, <2>1 DEF LateMessage
      <3> QED  BY <1>0, <3>1, <3>2
    <2>3. /\ calls = <<>> /\ serving = "none" /\ ~dialog /\ Writable /\ remoteObjectHandlers = 1
          /\ \A n \in 2 .. Len(inbox) : inbox[n].from = "STOP"
      BY <1>1, <2>2 DEF Subscribing
    <2>4. \A n \in 1 .. Len(inbox') : inbox'[n].from = "STOP" /\ inbox'[n] \in Message
      <3>1. ASSUME NEW n \in 1 .. Len(inbox') PROVE inbox'[n].from = "STOP" /\ inbox'[n] \in Message
        <4>1. n + 1 \in 2 .. Len(inbox) /\ inbox'[n] = inbox[n + 1]  BY <1>3
        <4>2. inbox'[n] \in Message  BY <1>1, ElementOfSeq
        <4> QED  BY <2>3, <4>1, <4>2
      <3> QED  BY <3>1
    <2>5. \A n \in 1 .. Len(inbox') : inbox'[n] \in LateMessage  BY <2>4 DEF Message, LateMessage
    <2>6. inbox' \in Seq(LateMessage)
      <3>1. Len(inbox') \in Nat /\ inbox' \in [1 .. Len(inbox') -> Message]  BY <1>1, LenProperties
      <3>2. inbox' \in [1 .. Len(inbox') -> LateMessage]  BY <2>5, <3>1
      <3> QED  BY <3>1, <3>2, SeqDef
    <2>7. ~Undone' /\ calls' \in Seq(LateCalls)  BY <2>1, <2>3, <2>4 DEF Undone
    <2> QED  BY <1>1, <1>2, <2>1, <2>3, <2>6, <2>7 DEF Settled
  <1>7. CASE Unsubscribed \/ Sent \/ Stopped
    <2>1. inbox[1].from \in {"UNSUBSCRIBE", "SEND", "STOP"}
      BY <1>3, <1>7 DEF Unsubscribed, Sent, Stopped, Received
    <2>2. Settled  BY <1>0, <1>1, <2>1 DEF Creating, Subscribing
    <2>3. inbox' \in Seq(LateMessage) /\ ~dialog'  BY <1>1, <1>4, <2>2
    <2>4. CASE Unsubscribed
      <3>1. Undone /\ UNCHANGED calls /\ startflag' = FALSE /\ subscribe_statu' = FALSE
        BY <1>3, <2>4 DEF Unsubscribed, Received
      <3> QED  BY <1>1, <1>2, <2>2, <2>3, <3>1 DEF Settled
    <2>5. CASE Sent \/ Stopped
      <3>1. (Undone <=> Undone') /\ UNCHANGED <<startflag, subscribe_statu>>
        BY <1>3, <2>5 DEF Sent, Stopped, Received, page
      <3>2. calls' = calls \/ calls' = Append(calls, "UNSUBSCRIBE")
        BY <2>5 DEF Sent, Stopped, CallAbility
      <3>3. calls' \in Seq(LateCalls)  BY <2>2, <3>2, AppendProperties DEF Settled, LateCalls
      <3> QED  BY <1>1, <1>2, <2>2, <2>3, <3>1, <3>3 DEF Settled
    <2> QED  BY <1>7, <2>4, <2>5
  <1> QED  BY <1>5, <1>6, <1>7 DEF Page

\* The ability takes up a call, or answers it.
LEMMA AbilityPhase ==
    ASSUME TypeOK, CountInv, NotMade, PhaseInv, Ability
    PROVE  PhaseInv'
  <1> SUFFICES ASSUME patient, fault = "none", fault' = "none"
               PROVE  (Creating \/ Subscribing \/ Settled)'
    BY DEF PhaseInv, Ability, ServeCreate, Connect, ServeSend, Serve, ServeSubscribe, ServeUnsubscribe, Stop, page
  <1>0. Creating \/ Subscribing \/ Settled  BY DEF PhaseInv
  <1>1. /\ UNCHANGED <<startflag, subscribe_statu, dialog>>
        /\ PageType /\ QueueType /\ RangeType /\ FieldType /\ ThreadType
    BY TypeParts DEF Ability, ServeCreate, Connect, ServeSend, ServeSubscribe, ServeUnsubscribe, Stop, page
  <1>2. ASSUME NEW code, Serve(code), calls' = Tail(calls)
        PROVE  /\ calls # <<>> /\ Head(calls) = code /\ serving = "none"
               /\ Settled => code \in LateCalls /\ calls' \in Seq(LateCalls) /\ ~dialog
    <2>1. calls # <<>> /\ Head(calls) = code /\ serving = "none"  BY <1>2 DEF Serve
    <2> QED  BY <1>2, <2>1, HeadTailProperties DEF Settled, Quiet
  <1>3. ASSUME NEW code \in LateCalls, Reply(code, TRUE), inbox \in Seq(LateMessage)
        PROVE  inbox' \in Seq(LateMessage) /\ (Undone' <=> Undone \/ code = "UNSUBSCRIBE")
    <2> DEFINE m == [from |-> code, ok |-> TRUE]
    <2>1. m \in LateMessage /\ m \in Message /\ m.from = code
      BY DEF LateCalls, LateMessage, Message, Codes
    <2>2. inbox' = Append(inbox, m)  BY <1>3 DEF Reply
    <2> HIDE DEF m
    <2> QED  BY <1>3, <2>1, <2>2, AppendProperties, InboxAdded
  <1>4. CASE ServeCreate
    <2>1. calls # <<>> /\ Head(calls) = "CREAT" /\ serving = "none" /\ calls' = Tail(calls)
      BY <1>2, <1>4 DEF ServeCreate
    <2>2. Creating /\ calls = <<"CREAT">> /\ inbox = <<>>
      <3>1. ~Settled  BY <1>2, <1>4 DEF ServeCreate, LateCalls
      <3>2. ~Subscribing  BY <2>1 DEF Subscribing
      <3> QED  BY <1>0, <2>1, <3>1, <3>2 DEF Creating
    <2>3. made + 1 \in Objects
      <3>1. Number(calls, "CREAT") = Number(Tail(calls), "CREAT") + 1 /\ Number(Tail(calls), "CREAT") \in Nat
        <4>1. Tail(calls) \in Seq(Codes)  BY <1>1, <2>1, HeadTailProperties DEF QueueType
        <4> QED  BY <1>1, <2>1, <4>1, NumberTaken, NumberType DEF QueueType
      <3> QED  BY <1>1, <3>1 DEF RangeType, CountInv, Objects
    <2>4. made + 1 \notin Held
      <3>1. conn[made + 1] = "none"  BY <1>1, <2>3 DEF NotMade, RangeType
      <3> QED  BY <3>1 DEF Held
    <2>5. /\ basicSocket' = made + 1 /\ conn' = conn /\ serving' = "CREAT"
          /\ UNCHANGED <<inbox, remoteObjectHandlers>>
      BY <1>4 DEF ServeCreate
    <2>6. calls' = <<>> /\ basicSocket' # 0 /\ Away'
      <3>1. Held' = Held  BY <2>5 DEF Held
      <3>2. Away'  BY <2>4, <2>5, <3>1 DEF Away
      <3> QED  BY <1>1, <2>1, <2>2, <2>5, <3>2 DEF RangeType
    <2> QED  BY <1>1, <2>2, <2>5, <2>6 DEF Creating
  <1>5. CASE Connect
    <2>1. serving = "CREAT" /\ serving' = "none" /\ UNCHANGED <<calls, basicSocket, remoteObjectHandlers>>
      BY <1>5 DEF Connect, ability
    <2>2. /\ calls = <<>> /\ inbox = <<>> /\ basicSocket # 0 /\ Away
          /\ ~startflag /\ ~subscribe_statu /\ ~dialog /\ remoteObjectHandlers = 0
      BY <1>0, <2>1 DEF Creating, Subscribing, Settled
    <2>3. basicSocket \in Objects  BY <1>1, <2>2 DEF RangeType, Objects
    <2>4. CASE /\ Reply("CREAT", TRUE)
               /\ out' = [out EXCEPT ![basicSocket] = "set"] /\ conn' = [conn EXCEPT ![basicSocket] = "open"]
      <3>1. inbox' = <<[from |-> "CREAT", ok |-> TRUE]>>  BY <2>2, <2>4 DEF Reply
      <3>2. Writable'
        <4>1. out'[basicSocket] = "set" /\ conn'[basicSocket] = "open"  BY <1>1, <2>3, <2>4 DEF FieldType
        <4> QED  BY <2>1, <2>3, <4>1 DEF Writable, Held
      <3>3. Len(inbox') = 1 /\ inbox'[1].from = "CREAT" /\ inbox'[1].ok  BY <3>1
      <3> QED  BY <1>1, <2>1, <2>2, <3>2, <3>3 DEF Creating
    <2>5. CASE Reply("CREAT", FALSE) /\ UNCHANGED conn
      <3>1. inbox' = <<[from |-> "CREAT", ok |-> FALSE]>>  BY <2>2, <2>5 DEF Reply
      <3>2. Away'  BY <2>1, <2>2, <2>5 DEF Away, Held
      <3>3. Len(inbox') = 1 /\ inbox'[1].from = "CREAT" /\ ~inbox'[1].ok  BY <3>1
      <3> QED  BY <1>1, <2>1, <2>2, <3>2, <3>3 DEF Creating
    <2> QED  BY <1>5, <2>4, <2>5 DEF Connect
  <1>6. CASE ServeSend
    <2>1. Serve("SEND") /\ calls' = Tail(calls) /\ UNCHANGED <<ability, fields>>
      BY <1>6 DEF ServeSend
    <2>2. calls # <<>> /\ Head(calls) = "SEND" /\ serving = "none"  BY <1>2, <2>1
    <2>3. Settled  BY <1>0, <2>2 DEF Creating, Subscribing
    <2>4. calls' \in Seq(LateCalls) /\ ~dialog  BY <1>2, <2>1, <2>3
    <2>5. Reply("SEND", TRUE)  BY <1>6 DEF ServeSend
    <2>6. inbox' \in Seq(LateMessage) /\ (Undone' <=> Undone)
      BY <1>3, <2>3, <2>5 DEF Settled, LateCalls
    <2>7. UNCHANGED <<serving, remoteObjectHandlers, Away, Writable>>
      BY <2>1 DEF ability, fields, Away, Writable, Held
    <2> QED  BY <1>1, <2>3, <2>4, <2>6, <2>7 DEF Settled
  <1>7. CASE ServeSubscribe
    <2>1. calls # <<>> /\ Head(calls) = "SUBSCRIBE" /\ serving = "none" /\ calls' = Tail(calls)
      BY <1>2, <1>7 DEF ServeSubscribe
    <2>2. Subscribing /\ calls = <<"SUBSCRIBE">> /\ inbox = <<>> /\ remoteObjectHandlers = 0
      <3>1. ~Settled  BY <1>2, <1>7 DEF ServeSubscribe, LateCalls
      <3>2. ~Creating  BY <2>1 DEF Creating
      <3> QED  BY <1>0, <2>1, <3>1, <3>2 DEF Subscribing
    <2>3. /\ remoteObjectHandlers' = 1 /\ Reply("SUBSCRIBE", TRUE)
          /\ UNCHANGED <<basicSocket, serving, out, conn>>
      <3>1. remoteObjectHandlers' = 1
        <4>1. remoteObjectHandlers' = remoteObjectHandlers + 1  BY <1>7 DEF ServeSubscribe
        <4> QED  BY <2>2, <4>1
      <3>2. Reply("SUBSCRIBE", TRUE)  BY <1>7 DEF ServeSubscribe
      <3>3. UNCHANGED <<basicSocket, serving, fields>>  BY <1>7 DEF ServeSubscribe
      <3> QED  BY <3>1, <3>2, <3>3, Zenon DEF fields
    <2>4. calls' = <<>> /\ inbox' = <<[from |-> "SUBSCRIBE", ok |-> TRUE]>>
      BY <2>1, <2>2, <2>3 DEF Reply
    <2>5. inbox' # <<>> /\ inbox'[1].from = "SUBSCRIBE" /\ \A n \in 2 .. Len(inbox') : inbox'[n].from = "STOP"
      BY <2>4
    <2>6. Writable'  BY <2>2, <2>3 DEF Subscribing, Writable, Held
    <2> QED  BY <1>1, <2>2, <2>3, <2>4, <2>5, <2>6 DEF Subscribing
  <1>8. CASE ServeUnsubscribe
    <2>1. Serve("UNSUBSCRIBE") /\ calls' = Tail(calls)
          /\ remoteObjectHandlers' = 0 /\ serving' = "UNSUBSCRIBE"
          /\ UNCHANGED <<inbox, basicSocket, fields>>
      BY <1>8 DEF ServeUnsubscribe
    <2>2. calls # <<>> /\ Head(calls) = "UNSUBSCRIBE" /\ serving = "none"  BY <1>2, <2>1
    <2>3. Settled  BY <1>0, <2>2 DEF Creating, Subscribing
    <2>4. calls' \in Seq(LateCalls) /\ ~dialog  BY <1>2, <2>1, <2>3
    <2>5. UNCHANGED <<Undone, Away, Writable>>  BY <2>1 DEF fields, Undone, Away, Writable, Held
    <2> QED  BY <1>1, <2>1, <2>3, <2>4, <2>5 DEF Settled
  <1>9. CASE Stop
    <2>1. /\ serving = "UNSUBSCRIBE" /\ serving' = "none" /\ Reply("UNSUBSCRIBE", TRUE)
          /\ UNCHANGED <<calls, basicSocket, remoteObjectHandlers>>
          /\ conn' = [conn EXCEPT ![basicSocket] = IF @ = "none" THEN @ ELSE "closed"]
      BY <1>9 DEF Stop
    <2>2. Settled  BY <1>0, <2>1 DEF Creating, Subscribing
    <2>3. Away'
      <3>1. basicSocket \in Objects => conn'[basicSocket] \in {"none", "closed"}  BY <1>1, <2>1 DEF FieldType
      <3> QED  BY <2>1, <3>1 DEF Away, Held
    <2>4. inbox' \in Seq(LateMessage) /\ Undone'  BY <1>3, <2>1, <2>2 DEF Settled, LateCalls
    <2>5. ~dialog  BY <2>1, <2>2 DEF Settled, Quiet
    <2> QED  BY <1>1, <2>1, <2>2, <2>3, <2>4, <2>5 DEF Settled
  <1> QED  BY <1>4, <1>5, <1>6, <1>7, <1>8, <1>9 DEF Ability

\* The callbacks of STOP come after everything else, and only to a subscriber.
LEMMA StopsPhase ==
    ASSUME TypeOK, inbox' = inbox \o Stops(remoteObjectHandlers)
    PROVE  /\ Undone' <=> Undone
           /\ remoteObjectHandlers = 0 => inbox' = inbox
           /\ inbox \in Seq(LateMessage) => inbox' \in Seq(LateMessage)
           /\ Len(inbox) \in Nat /\ Len(inbox') = Len(inbox) + remoteObjectHandlers
           /\ \A n \in 1 .. Len(inbox) : inbox'[n] = inbox[n]
           /\ \A n \in Len(inbox) + 1 .. Len(inbox') : inbox'[n].from = "STOP"
  <1>0. inbox \in Seq(Message) /\ remoteObjectHandlers \in Nat  BY TypeParts DEF QueueType, RangeType
  <1>1. /\ inbox' \in Seq(Message)
        /\ Len(inbox) \in Nat /\ Len(inbox') = Len(inbox) + remoteObjectHandlers
        /\ \A n \in 1 .. Len(inbox) : inbox'[n] = inbox[n]
        /\ \A n \in Len(inbox) + 1 .. Len(inbox') : inbox'[n] = [from |-> "STOP", ok |-> TRUE]
    <2> DEFINE h == remoteObjectHandlers
    <2>1. /\ inbox \o Stops(h) \in Seq(Message)
          /\ Len(inbox \o Stops(h)) = Len(inbox) + h /\ Len(inbox) \in Nat
          /\ \A k \in 1 .. Len(inbox) : (inbox \o Stops(h))[k] = inbox[k]
          /\ \A k \in Len(inbox) + 1 .. Len(inbox) + h :
                (inbox \o Stops(h))[k] = [from |-> "STOP", ok |-> TRUE]
      BY <1>0, StopsAppended, Zenon
    <2> QED  BY <2>1
  <1>2. \A n \in Len(inbox) + 1 .. Len(inbox') : inbox'[n].from = "STOP"  BY <1>1
  <1>3. remoteObjectHandlers = 0 => inbox' = inbox
    <2> SUFFICES ASSUME remoteObjectHandlers = 0 PROVE inbox' = inbox  OBVIOUS
    <2>1. Len(inbox') = Len(inbox)  BY <1>0, <1>1
    <2> QED  BY <1>0, <1>1, <2>1, SeqEqual
  <1>4. inbox \in Seq(LateMessage) => inbox' \in Seq(LateMessage)
    <2>1. Stops(remoteObjectHandlers) \in Seq(LateMessage)  BY <1>0 DEF Stops, LateMessage
    <2> QED  BY <2>1, ConcatProperties, Zenon
  <1>5. ASSUME Undone PROVE Undone'
    <2>1. PICK n \in 1 .. Len(inbox) : inbox[n].from = "UNSUBSCRIBE"  BY <1>5 DEF Undone
    <2>2. n \in 1 .. Len(inbox') /\ inbox'[n].from = "UNSUBSCRIBE"  BY <1>0, <1>1, <2>1
    <2> QED  BY <2>2 DEF Undone
  <1>6. ASSUME Undone' PROVE Undone
    <2>1. PICK n \in 1 .. Len(inbox') : inbox'[n].from = "UNSUBSCRIBE"  BY <1>6 DEF Undone
    <2>2. n \in 1 .. Len(inbox)
      <3>1. n \notin Len(inbox) + 1 .. Len(inbox')  BY <1>2, <2>1
      <3> QED  BY <1>0, <1>1, <2>1, <3>1
    <2> QED  BY <1>1, <2>1, <2>2 DEF Undone
  <1> QED  BY <1>1, <1>2, <1>3, <1>4, <1>5, <1>6

\* A step of a listener: it may call the subscribers back, and leaves the rest.
LEMMA ListenerPhase ==
    ASSUME TypeOK, PhaseInv, NEW t \in Objects, Listener(t)
    PROVE  PhaseInv'
  <1>1. /\ fault = "none" /\ UNCHANGED <<page, calls, ability, fields>>
        /\ inbox' = inbox \/ inbox' = inbox \o Stops(remoteObjectHandlers)
    BY ListenerEffect DEF Listener
  <1>2. /\ UNCHANGED <<startflag, subscribe_statu, dialog, patient, calls, serving>>
        /\ UNCHANGED <<basicSocket, remoteObjectHandlers, out, conn>>
    BY <1>1 DEF page, ability, fields
  <1> SUFFICES ASSUME patient
               PROVE  (Creating \/ Subscribing \/ Settled)'
    BY <1>2 DEF PhaseInv
  <1>0. Creating \/ Subscribing \/ Settled  BY <1>1 DEF PhaseInv
  <1>3. UNCHANGED <<Away, Writable>>  BY <1>2 DEF Away, Writable, Held
  <1>4. CASE inbox' = inbox
    <2>1. UNCHANGED <<Undone, Quiet>>  BY <1>2, <1>4 DEF Undone, Quiet
    <2> QED  BY <1>0, <1>2, <1>3, <1>4, <2>1 DEF Creating, Subscribing, Settled
  <1>5. CASE inbox' = inbox \o Stops(remoteObjectHandlers)
    <2>0. /\ Undone' <=> Undone
          /\ remoteObjectHandlers = 0 => inbox' = inbox
          /\ inbox \in Seq(LateMessage) => inbox' \in Seq(LateMessage)
          /\ Len(inbox) \in Nat /\ Len(inbox') = Len(inbox) + remoteObjectHandlers
          /\ \A n \in 1 .. Len(inbox) : inbox'[n] = inbox[n]
          /\ \A n \in Len(inbox) + 1 .. Len(inbox') : inbox'[n].from = "STOP"
      BY <1>5, StopsPhase
    <2>1. CASE Creating
      <3>1. inbox' = inbox  BY <2>0, <2>1 DEF Creating
      <3> QED  BY <1>4, <3>1
    <2>2. CASE Subscribing
      <3>1. CASE remoteObjectHandlers = 0
        <4>1. inbox' = inbox  BY <2>0, <3>1
        <4> QED  BY <1>4, <4>1
      <3>2. CASE remoteObjectHandlers # 0
        <4>1. /\ calls = <<>> /\ remoteObjectHandlers = 1 /\ inbox # <<>>
              /\ inbox[1].from = "SUBSCRIBE" /\ \A n \in 2 .. Len(inbox) : inbox[n].from = "STOP"
          BY <2>2, <3>2 DEF Subscribing
        <4>2. Len(inbox) >= 1
          <5>1. inbox \in Seq(Message)  BY TypeParts DEF QueueType
          <5> QED  BY <4>1, <5>1
        <4>3. \A n \in 2 .. Len(inbox') : inbox'[n].from = "STOP"
          <5> SUFFICES ASSUME NEW n \in 2 .. Len(inbox') PROVE inbox'[n].from = "STOP"  OBVIOUS
          <5>1. CASE n <= Len(inbox)
            <6>1. n \in 1 .. Len(inbox) /\ n \in 2 .. Len(inbox)  BY <2>0, <5>1
            <6> QED  BY <2>0, <4>1, <6>1
          <5>2. CASE n > Len(inbox)
            <6>1. n \in Len(inbox) + 1 .. Len(inbox')  BY <2>0, <5>2
            <6> QED  BY <2>0, <6>1
          <5> QED  BY <2>0, <5>1, <5>2
        <4>4. inbox' # <<>> /\ inbox'[1].from = "SUBSCRIBE"
          <5>1. 1 \in 1 .. Len(inbox) /\ Len(inbox') # 0  BY <2>0, <4>1, <4>2
          <5>2. inbox'[1] = inbox[1]  BY <2>0, <5>1
          <5>3. inbox' # <<>>  BY <5>1
          <5> QED  BY <4>1, <5>2, <5>3
        <4>5. /\ startflag' /\ ~subscribe_statu' /\ ~dialog' /\ serving' = "none" /\ Writable'
              /\ calls' = <<>> /\ remoteObjectHandlers' = 1
          BY <1>2, <1>3, <2>2, <4>1 DEF Subscribing
        <4> QED  BY <4>3, <4>4, <4>5 DEF Subscribing
      <3> QED  BY <3>1, <3>2
    <2>3. CASE Settled
      <3>1. dialog => inbox' = inbox  BY <2>0, <2>3 DEF Settled
      <3> QED  BY <1>2, <1>3, <2>0, <2>3, <3>1 DEF Settled, Quiet
    <2> QED  BY <1>0, <2>1, <2>2, <2>3
  <1> QED  BY <1>1, <1>4, <1>5

\* A connection whose peer has gone is held until the app closes it.
LEMMA PeerHeld ==
    ASSUME TypeOK, NEW b \in Objects, PeerEnds(b)
    PROVE  Held' = Held
  <1>1. conn \in [Objects -> {"none", "open", "peerClosed", "reset", "closed"}]  BY TypeParts DEF FieldType
  <1>2. /\ conn[b] = "open" /\ conn'[b] \in {"peerClosed", "reset"}
        /\ \A c \in Objects : c # b => conn'[c] = conn[c]
    BY <1>1 DEF PeerEnds
  <1> QED  BY <1>2 DEF Held

LEMMA PhaseStep == TypeOK /\ CountInv /\ NotMade /\ PhaseInv /\ [Next]_vars => PhaseInv'
  <1>1. ASSUME TypeOK, PhaseInv, NEW b \in Objects, PeerEnds(b) PROVE PhaseInv'
    <2>1. UNCHANGED <<page, calls, inbox, ability, out, fault, Held>>  BY <1>1, PeerHeld DEF PeerEnds
    <2> QED  BY <1>1, <2>1 DEF page, ability, PhaseInv, Creating, Subscribing, Settled, Away, Writable, Undone, Quiet
  <1>2. ASSUME PhaseInv, UNCHANGED vars PROVE PhaseInv'
    <2>1. UNCHANGED <<page, calls, inbox, ability, out, fault, Held>>  BY <1>2 DEF vars, fields, Held
    <2> QED  BY <1>2, <2>1 DEF page, ability, PhaseInv, Creating, Subscribing, Settled, Away, Writable, Undone, Quiet
  <1> QED  BY <1>1, <1>2, UserPhase, PagePhase, AbilityPhase, ListenerPhase DEF Next, User

----------------------------------------------------------------------------
(* The connections *)

\* Only these steps change the fields of the objects.
LEMMA FieldsStep ==
    ASSUME TypeOK, [Next]_vars,
           ~ServeCreate, ~Connect, ~Stop, \A b \in Objects : ~PeerEnds(b)
    PROVE  UNCHANGED <<fields, basicSocket, patient>>
  <1>1. CASE User  BY <1>1, UserQueues DEF ability, User, Tap, Confirm, SendCommand, page
  <1>2. CASE Page  BY <1>2, PageQueues DEF ability, Page, Created, Subscribed, Unsubscribed, Sent, Stopped, page
  <1>3. CASE Ability  BY <1>3 DEF Ability, ServeSend, ServeSubscribe, ServeUnsubscribe, ability, page
  <1>4. ASSUME NEW t \in Objects, Listener(t) PROVE UNCHANGED <<fields, basicSocket, patient>>
    BY <1>4, ListenerEffect DEF ability, page
  <1>5. CASE UNCHANGED vars  BY <1>5 DEF vars, ability, page
  <1> QED  BY <1>1, <1>2, <1>3, <1>4, <1>5 DEF Next, User

LEMMA NotMadeStep == TypeOK /\ NotMade /\ [Next]_vars => NotMade'
  <1> SUFFICES ASSUME TypeOK, NotMade, [Next]_vars PROVE NotMade'  OBVIOUS
  <1>0. RangeType /\ FieldType  BY TypeParts
  <1>1. CASE ServeCreate
    <2>1. made' = made + 1 /\ UNCHANGED <<out, conn>>  BY <1>1 DEF ServeCreate
    <2> QED  BY <1>0, <2>1 DEF NotMade, RangeType, Objects
  <1>2. CASE Connect
    <2>1. UNCHANGED made  BY <1>2 DEF Connect
    <2>2. ASSUME NEW b \in Objects, b > made PROVE out'[b] = out[b] /\ conn'[b] = conn[b]
      <3>1. b # basicSocket  BY <1>0, <2>2 DEF RangeType, Objects
      <3> QED  BY <1>0, <1>2, <3>1 DEF Connect, FieldType
    <2> QED  BY <2>1, <2>2 DEF NotMade
  <1>3. CASE Stop
    <2>1. UNCHANGED made  BY <1>3 DEF Stop
    <2>2. ASSUME NEW b \in Objects, b > made PROVE out'[b] = out[b] /\ conn'[b] = conn[b]
      <3>1. b # basicSocket  BY <1>0, <2>2 DEF RangeType, Objects
      <3> QED  BY <1>0, <1>3, <3>1 DEF Stop, FieldType
    <2> QED  BY <2>1, <2>2 DEF NotMade
  <1>4. ASSUME NEW b \in Objects, PeerEnds(b) PROVE NotMade'
    <2>1. conn[b] = "open" /\ UNCHANGED <<made, out>> /\ \A c \in Objects : c # b => conn'[c] = conn[c]
      BY <1>0, <1>4 DEF PeerEnds, FieldType
    <2>2. ~(b > made)  BY <2>1 DEF NotMade
    <2> QED  BY <2>1, <2>2 DEF NotMade
  <1>5. CASE UNCHANGED fields  BY <1>5 DEF fields, NotMade
  <1> QED  BY <1>1, <1>2, <1>3, <1>4, <1>5, FieldsStep

\* Stop closes the one connection that is held.
LEMMA StopCloses ==
    ASSUME TypeOK, HeldInv, patient, Stop
    PROVE  Held' = {}
  <1>0. RangeType /\ FieldType  BY TypeParts
  <1>1. conn' = [conn EXCEPT ![basicSocket] = IF @ = "none" THEN @ ELSE "closed"]
    BY DEF Stop
  <1>2. ASSUME NEW b \in Objects PROVE b \notin Held'
    <2>1. CASE b = basicSocket  BY <1>0, <1>1, <2>1 DEF Held, FieldType
    <2>2. CASE b # basicSocket
      <3>1. conn'[b] = conn[b] /\ b \notin Held  BY <1>0, <1>1, <2>2 DEF FieldType, HeldInv
      <3> QED  BY <3>1 DEF Held
    <2> QED  BY <2>1, <2>2
  <1> QED  BY <1>2 DEF Held

\* While a new connection is made, the old one is closed.
LEMMA HeldStep == TypeOK /\ PhaseInv /\ HeldInv /\ [Next]_vars => HeldInv'
  <1> SUFFICES ASSUME TypeOK, PhaseInv, HeldInv, [Next]_vars, patient'
               PROVE  \A b \in Held' : b = basicSocket' /\ out'[b] = "set"
    BY DEF HeldInv
  <1>0. RangeType /\ FieldType  BY TypeParts
  <1>1. ASSUME patient, Away PROVE Held = {}
    BY <1>1 DEF HeldInv, Away
  <1>2. CASE ServeCreate
    <2>1. UNCHANGED <<patient, conn>> /\ fault = "none" /\ Head(calls) = "CREAT" /\ calls # <<>>
      BY <1>2 DEF ServeCreate, Serve, page
    <2>2. Away
      <3>1. ~Subscribing  BY <2>1 DEF Subscribing
      <3>2. ASSUME Settled PROVE FALSE
        <4>1. Head(calls) \in LateCalls  BY <2>1, <3>2, HeadTailProperties DEF Settled
        <4> QED  BY <2>1, <4>1 DEF LateCalls
      <3> QED  BY <2>1, <3>1, <3>2 DEF PhaseInv, Creating
    <2>3. Held' = {}  BY <1>1, <2>1, <2>2 DEF Held
    <2> QED  BY <2>3
  <1>3. CASE Connect
    <2>1. UNCHANGED <<patient, basicSocket>> /\ fault = "none" /\ serving = "CREAT"
      BY <1>3 DEF Connect, page
    <2>2. Away /\ basicSocket # 0  BY <2>1 DEF PhaseInv, Creating, Subscribing, Settled
    <2>3. Held = {} /\ basicSocket \in Objects  BY <1>0, <1>1, <2>1, <2>2 DEF RangeType, Objects
    <2>4. CASE UNCHANGED <<conn, out>>  BY <2>3, <2>4 DEF Held
    <2>5. CASE conn' = [conn EXCEPT ![basicSocket] = "open"] /\ out' = [out EXCEPT ![basicSocket] = "set"]
      <3>1. out'[basicSocket] = "set" /\ \A c \in Objects : c # basicSocket => conn'[c] = conn[c]
        BY <1>0, <2>3, <2>5 DEF FieldType
      <3> QED  BY <2>1, <2>3, <3>1 DEF Held
    <2> QED  BY <1>3, <2>4, <2>5 DEF Connect
  <1>4. CASE Stop
    <2>1. UNCHANGED patient  BY <1>4 DEF Stop, page
    <2> QED  BY <1>4, <2>1, StopCloses
  <1>5. ASSUME NEW b \in Objects, PeerEnds(b) PROVE \A c \in Held' : c = basicSocket' /\ out'[c] = "set"
    <2>1. /\ conn[b] = "open" /\ UNCHANGED <<patient, basicSocket, out>>
          /\ \A c \in Objects : c # b => conn'[c] = conn[c]
      BY <1>0, <1>5 DEF PeerEnds, FieldType, page, ability
    <2>2. Held' \subseteq Held  BY <2>1 DEF Held
    <2> QED  BY <2>1, <2>2 DEF HeldInv
  <1>6. CASE UNCHANGED <<fields, basicSocket, patient>>  BY <1>6 DEF fields, Held, HeldInv
  <1> QED  BY <1>2, <1>3, <1>4, <1>5, <1>6, FieldsStep

----------------------------------------------------------------------------

LEMMA PhoneInit == Init => PhoneInv
  <1> SUFFICES ASSUME Init PROVE PhoneInv  OBVIOUS
  <1>1. /\ ~startflag /\ ~client_statu /\ ~subscribe_statu /\ ~dialog /\ creates = 0 /\ patient \in BOOLEAN
        /\ {startflag, client_statu, subscribe_statu, dialog} \subseteq BOOLEAN
        /\ calls = <<>> /\ inbox = <<>> /\ basicSocket = 0 /\ remoteObjectHandlers = 0 /\ serving = "none"
        /\ made = 0 /\ started = 0
        /\ socket = [b \in Objects |-> "null"] /\ out = [b \in Objects |-> "null"]
        /\ conn = [b \in Objects |-> "none"]
        /\ at = [t \in Objects |-> "none"] /\ of = [t \in Objects |-> 0] /\ fault = "none"
    BY DEF Init
  <1>2. PageType /\ RangeType /\ FieldType /\ ThreadType
    BY <1>1 DEF PageType, RangeType, FieldType, ThreadType
  <1>3. QueueType  BY <1>1, EmptySeq DEF QueueType
  <1>4. CountInv  BY <1>1, EmptyQueue DEF CountInv
  <1>5. Settled  BY <1>1, EmptySeq DEF Settled, Undone, Away, Held, Quiet
  <1>6. NotMade /\ HeldInv  BY <1>1 DEF NotMade, HeldInv, Held
  <1> QED  BY <1>2, <1>3, <1>4, <1>5, <1>6, TypeParts DEF PhoneInv, PhaseInv

\* All of PhoneInv, of any number of connections and calls: what is on its way
\* between the page and the ability, and which connection is held meanwhile.
THEOREM PhoneInvariant == Spec => []PhoneInv
  <1>1. PhoneInv /\ [Next]_vars => PhoneInv'
    BY TypesStep, PhaseStep, NotMadeStep, HeldStep DEF PhoneInv
  <1> QED  BY PhoneInit, <1>1, PTL DEF Spec

\* The type of every variable; there are no more listener threads than BasicSocket
\* objects, and no more objects than calls of creatclient.
THEOREM TypesOfPhone == Spec => []TypeOK
  <1>1. PhoneInv => TypeOK  BY DEF PhoneInv
  <1> QED  BY PhoneInvariant, <1>1, PTL

\* For a user who waits for each answer, once all calls are answered: the page
\* says it is started exactly when the ability holds a connection, which has a
\* writer, with one subscriber; also after closes of Stop that failed.
THEOREM FlagsAreTrue == Spec => []FlagsMatchConnection
  <1>1. PhoneInv => FlagsMatchConnection
    <2> SUFFICES ASSUME PhoneInv, patient, Quiet, fault = "none"
                 PROVE  /\ startflag <=> basicSocket \in Held
                        /\ startflag => out[basicSocket] = "set"
                        /\ startflag = subscribe_statu
                        /\ remoteObjectHandlers = (IF startflag THEN 1 ELSE 0)
      BY DEF FlagsMatchConnection
    <2>1. Settled /\ ~Undone
      BY DEF PhoneInv, PhaseInv, Creating, Subscribing, Quiet, Undone
    <2>2. startflag \in BOOLEAN /\ subscribe_statu \in BOOLEAN  BY TypeParts DEF PhoneInv, PageType
    <2>3. CASE startflag
      <3>1. Writable /\ remoteObjectHandlers = 1  BY <2>1, <2>3 DEF Settled, Quiet
      <3>2. startflag = TRUE /\ subscribe_statu = TRUE  BY <2>1, <2>2, <2>3 DEF Settled
      <3> QED  BY <3>1, <3>2 DEF Writable
    <2>4. CASE ~startflag
      <3>1. Away /\ remoteObjectHandlers = 0  BY <2>1, <2>4 DEF Settled
      <3>2. startflag = FALSE /\ subscribe_statu = FALSE  BY <2>1, <2>2, <2>4 DEF Settled
      <3>3. basicSocket \notin Held  BY <3>1 DEF Away
      <3> QED  BY <2>4, <3>1, <3>2, <3>3
    <2> QED  BY <2>3, <2>4
  <1> QED  BY PhoneInvariant, <1>1, PTL

\* For that user, the ability holds no connection but the one it refers to, so
\* that no lost one keeps the board's server busy.
THEOREM NoLostConnection == Spec => []HoldsOnlyCurrent
  <1>1. PhoneInv => HoldsOnlyCurrent  BY DEF PhoneInv, HeldInv, HoldsOnlyCurrent
  <1> QED  BY PhoneInvariant, <1>1, PTL

\* For that user the comment at ServiceAbility.java:59 is true: when an
\* UNSUBSCRIBE_CLIENT is served, no connection is left.
PatientUnsubscribeCloses ==
    [][patient /\ serving = "UNSUBSCRIBE" /\ serving' = "none" => Held' = {}]_vars

\* What phone_second_connect refutes of any user holds of one who waits for each
\* answer: whatever the listeners and the board do meanwhile, Stop closes what is held.
THEOREM UnsubscribeClosesForPatient == Spec => PatientUnsubscribeCloses
  <1>1. PhoneInv /\ [Next]_vars
        => [patient /\ serving = "UNSUBSCRIBE" /\ serving' = "none" => Held' = {}]_vars
    <2> SUFFICES ASSUME PhoneInv, Next, patient, serving = "UNSUBSCRIBE", serving' = "none"
                 PROVE  Held' = {}
      OBVIOUS
    <2>1. Stop
      BY DEF Next, Tap, Confirm, SendCommand, Page, Ability, ServeCreate, Connect, ServeSend,
             ServeSubscribe, ServeUnsubscribe, Serve, Created, Subscribed, Unsubscribed, Sent,
             Stopped, Listener, PeerEnds, ability
    <2> QED  BY <2>1, StopCloses DEF PhoneInv
  <1> QED  BY PhoneInvariant, <1>1, PTL DEF Spec, PatientUnsubscribeCloses


----------------------------------------------------------------------------
(* The soft AP *)

Letters == Stations \cup {"0", "none"}

ApArrays ==
    /\ DOMAIN apPc = ApTasks /\ DOMAIN recvBuf = ApTasks /\ DOMAIN peer = ApTasks
    /\ DOMAIN got = Stations
    /\ sent \in [Stations -> Seq(Letters)]
    /\ port \in Seq(Stations)

\* Who has a datagram at the port.
AtPort(c) == \E n \in 1 .. Len(port) : port[n] = c
OneEach == \A m, n \in 1 .. Len(port) : port[m] = port[n] => m = n

\* What the buffer of a task holds: nothing, or as much of the datagram it is to answer
\* as fits, whose client has no other one on its way.
BufferIsOwn(t) ==
    /\ apPc[t] \notin {"send", "returned"} => recvBuf[t] = <<>>
    /\ apPc[t] = "send" => peer[t] \in Stations /\ ~AtPort(peer[t]) /\ recvBuf[t] = Taken(sent[peer[t]])

ServerInv == ApArrays /\ OneServer /\ OneEach /\ (\A t \in ApTasks : BufferIsOwn(t)) /\ EchoIsOwn

ApRuns == ApNext \/ Clients

LEMMA NoTaskIsNone == \A t \in ApTasks : t # NoTask
  BY ApAssumption

LEMMA ServerInit == ApInit => ServerInv
  <1> SUFFICES ASSUME ApInit PROVE ServerInv  OBVIOUS
  <1>1. /\ apPc = [t \in ApTasks |-> "idle"] /\ recvBuf = [t \in ApTasks |-> <<>>]
        /\ peer = [t \in ApTasks |-> NoTask] /\ port = <<>>
        /\ sent = [c \in Stations |-> NoReply] /\ got = [c \in Stations |-> NoReply]
    BY DEF ApInit
  <1>2. NoReply \in Seq(Letters)  BY DEF NoReply, Letters
  <1>3. ApArrays  BY <1>1, <1>2, EmptySeq DEF ApArrays
  <1> QED  BY <1>1, <1>3 DEF ServerInv, OneServer, OneEach, BufferIsOwn, EchoIsOwn

\* Every step but these leaves the datagrams and the port alone, and neither enters
\* nor leaves the loop of the server.
LEMMA ApElsewhere ==
    ASSUME ApArrays, [ApRuns]_apVars,
           \A t \in ApTasks : ~Bind(t) /\ ~Receive(t) /\ ~SendTo(t),
           \A c \in Stations : ~ClientSends(c)
    PROVE  /\ UNCHANGED <<bound, echoVars>> /\ DOMAIN apPc' = ApTasks
           /\ \A u \in ApTasks :
                 \/ apPc'[u] = apPc[u]
                 \/ apPc[u] \notin {"receive", "send", "returned"} /\ apPc'[u] \notin {"receive", "send"}
  <1> DEFINE Same == UNCHANGED <<bound, echoVars>>
             Goes(t) == /\ apPc[t] \notin {"receive", "send", "returned"}
                        /\ \E next \in {"register", "registered", "config", "configured", "enable", "enabled",
                                        "dhcps", "socket", "bind", "returned"} : GoAp(t, next)
  <1>1. ASSUME NEW t \in ApTasks, Goes(t), Same
        PROVE  /\ UNCHANGED <<bound, echoVars>> /\ DOMAIN apPc' = ApTasks
               /\ \A u \in ApTasks :
                     \/ apPc'[u] = apPc[u]
                     \/ apPc[u] \notin {"receive", "send", "returned"} /\ apPc'[u] \notin {"receive", "send"}
    BY <1>1 DEF ApArrays, GoAp
  <1>2. ASSUME NEW t \in ApTasks, ApStart(t) PROVE Goes(t) /\ Same
    BY <1>2 DEF ApStart, setupVars
  <1>3. ASSUME NEW t \in ApTasks, WifiAPTask(t) PROVE Goes(t) /\ Same
    <2>1. CASE Register(t)  BY <2>1 DEF Register
    <2>2. CASE TestError(t, "registered", "config")  BY <2>2 DEF TestError, setupVars
    <2>3. CASE SetHotspotConfig(t)  BY <2>3 DEF SetHotspotConfig, setupVars
    <2>4. CASE TestError(t, "configured", "enable")  BY <2>4 DEF TestError, setupVars
    <2>5. CASE EnableHotspot(t)  BY <2>5 DEF EnableHotspot
    <2>6. CASE TestError(t, "enabled", "dhcps")  BY <2>6 DEF TestError, setupVars
    <2>7. CASE StartDhcps(t)  BY <2>7 DEF StartDhcps
    <2>8. CASE Socket(t)  BY <2>8 DEF Socket, setupVars
    <2> QED  BY <1>3, <2>1, <2>2, <2>3, <2>4, <2>5, <2>6, <2>7, <2>8 DEF WifiAPTask
  <1>4. CASE ApHandlers
    <2>1. Same /\ UNCHANGED apPc
      BY <1>4 DEF ApHandlers, OnHotspotStaJoinHandler, OnHotspotStaLeaveHandler, LeaveStored, setupVars
    <2> QED  BY <2>1 DEF ApArrays
  <1>5. CASE JoinStep
    <2>1. Same /\ UNCHANGED apPc
      BY <1>5 DEF JoinStep, HotspotStaJoinTask, GetStationList, TestList, LoadCount, StoreCount, JoinSame, setupVars
    <2> QED  BY <2>1 DEF ApArrays
  <1>6. CASE UNCHANGED apVars  BY <1>6 DEF apVars, setupVars, ApArrays
  <1> QED  BY <1>1, <1>2, <1>3, <1>4, <1>5, <1>6 DEF ApRuns, ApNext, ApTasksStep, Clients

\* What recvfrom takes of a datagram is its beginning, all of it if it fits.
LEMMA TakenOf ==
    ASSUME NEW S, NEW text \in Seq(S)
    PROVE  /\ Taken(text) \in Seq(S)
           /\ Len(Taken(text)) = (IF Len(text) < BufSize THEN Len(text) ELSE BufSize)
           /\ \A k \in 1 .. Len(Taken(text)) : Taken(text)[k] = text[k]
           /\ Len(text) < BufSize => Taken(text) = text
  <1> DEFINE n == IF Len(text) < BufSize THEN Len(text) ELSE BufSize
  <1>1. Len(text) \in Nat /\ BufSize \in Nat /\ BufSize >= 1 /\ n \in 0 .. Len(text)  BY ApAssumption
  <1>2. /\ SubSeq(text, 1, n) \in Seq(S) /\ Len(SubSeq(text, 1, n)) = n
        /\ \A k \in 1 .. n : SubSeq(text, 1, n)[k] = text[k]
    BY <1>1
  <1>3. Taken(text) = SubSeq(text, 1, n)  BY DEF Taken
  <1>4. Len(text) < BufSize => Taken(text) = text  BY <1>1, <1>2, <1>3, SeqEqual
  <1> QED  BY <1>2, <1>3, <1>4

\* recvfrom into a buffer that is clear leaves just that in it.
LEMMA IntoClear == ASSUME NEW S, NEW text \in Seq(S) PROVE Into(<<>>, text) = Taken(text)
  <1>1. Taken(text) \in Seq(S) /\ Len(Taken(text)) \in Nat  BY TakenOf
  <1>2. SubSeq(<<>>, Len(Taken(text)) + 1, 0) = <<>>  BY <1>1
  <1> QED  BY <1>1, <1>2, ConcatEmptySeq DEF Into

LEMMA BindServer == ASSUME ServerInv, NEW t \in ApTasks, Bind(t) PROVE ServerInv'
  <1>0. ApArrays /\ OneServer /\ OneEach /\ (\A u \in ApTasks : BufferIsOwn(u)) /\ EchoIsOwn
    BY DEF ServerInv
  <1>1. apPc[t] = "bind" /\ UNCHANGED <<port, recvBuf, peer, sent, got>>
    BY DEF Bind, echoVars
  <1>2. DOMAIN apPc' = ApTasks /\ \A u \in ApTasks \ {t} : apPc'[u] = apPc[u]
    BY <1>0 DEF Bind, GoAp, ApArrays
  <1>3. \/ bound = NoTask /\ bound' = t /\ apPc'[t] = "receive"
        \/ bound' = bound /\ apPc'[t] = "returned"
    BY <1>0 DEF Bind, GoAp, ApArrays
  <1>4. OneServer'  BY <1>0, <1>2, <1>3, NoTaskIsNone DEF OneServer
  <1>5. \A u \in ApTasks : BufferIsOwn(u)'
    BY <1>0, <1>1, <1>2, <1>3 DEF BufferIsOwn, AtPort
  <1> QED  BY <1>0, <1>1, <1>2, <1>4, <1>5 DEF ServerInv, ApArrays, OneEach, EchoIsOwn

\* A failing call ends the task.
LEMMA FailsServer ==
    ASSUME ServerInv, NEW t \in ApTasks, apPc[t] \in {"receive", "send"}, ServeFails(t),
           UNCHANGED <<port, sent, got, bound>>
    PROVE  ServerInv'
  <1>0. ApArrays /\ OneServer /\ OneEach /\ (\A u \in ApTasks : BufferIsOwn(u)) /\ EchoIsOwn
    BY DEF ServerInv
  <1>1. /\ UNCHANGED <<port, recvBuf, peer, sent, got, bound>> /\ apPc'[t] = "returned"
        /\ DOMAIN apPc' = ApTasks /\ \A u \in ApTasks \ {t} : apPc'[u] = apPc[u]
    BY <1>0 DEF ServeFails, GoAp, ApArrays
  <1>2. \A u \in ApTasks : BufferIsOwn(u)'  BY <1>0, <1>1 DEF BufferIsOwn, AtPort
  <1> QED  BY <1>0, <1>1, <1>2 DEF ServerInv, ApArrays, OneServer, OneEach, EchoIsOwn

LEMMA ReceiveServer == ASSUME ServerInv, NEW t \in ApTasks, Receive(t) PROVE ServerInv'
  <1>0. ApArrays /\ OneServer /\ OneEach /\ (\A u \in ApTasks : BufferIsOwn(u)) /\ EchoIsOwn
    BY DEF ServerInv
  <1>1. apPc[t] = "receive" /\ UNCHANGED <<sent, got, bound>>  BY DEF Receive, setupVars
  <1>2. CASE ServeFails(t) /\ UNCHANGED port  BY <1>1, <1>2, FailsServer
  <1>3. CASE /\ port # <<>> /\ port' = Tail(port)
             /\ recvBuf' = [recvBuf EXCEPT ![t] = Into(@, sent[Head(port)])]
             /\ peer' = [peer EXCEPT ![t] = Head(port)]
             /\ GoAp(t, "send")
    <2>1. /\ port' \in Seq(Stations) /\ Head(port) \in Stations /\ Head(port) = port[1]
          /\ Len(port) \in Nat /\ Len(port) >= 1 /\ Len(port') = Len(port) - 1
          /\ \A n \in 1 .. Len(port') : port'[n] = port[n + 1]
      BY <1>0, <1>3, HeadTailProperties DEF ApArrays
    <2>2. OneEach' /\ \A c : AtPort(c)' => AtPort(c)
      <3>1. \A n \in 1 .. Len(port') : n + 1 \in 1 .. Len(port)  BY <2>1
      <3>2. ASSUME NEW m \in 1 .. Len(port'), NEW n \in 1 .. Len(port'), port'[m] = port'[n] PROVE m = n
        <4>1. m + 1 = n + 1  BY <1>0, <2>1, <3>1, <3>2 DEF OneEach
        <4> QED  BY <4>1
      <3> QED  BY <2>1, <3>1, <3>2 DEF OneEach, AtPort
    <2>3. \A c : c = Head(port) => ~AtPort(c)'
      <3> SUFFICES ASSUME NEW n \in 1 .. Len(port'), port'[n] = Head(port) PROVE FALSE  BY DEF AtPort
      <3>1. n + 1 \in 1 .. Len(port) /\ 1 \in 1 .. Len(port) /\ port[n + 1] = port[1]  BY <2>1
      <3>2. n + 1 = 1  BY <1>0, <3>1 DEF OneEach
      <3> QED  BY <2>1, <3>2
    <2>4. recvBuf[t] = <<>> /\ sent[Head(port)] \in Seq(Letters)
      BY <1>0, <1>1, <2>1 DEF BufferIsOwn, ApArrays
    <2>5. Into(recvBuf[t], sent[Head(port)]) = Taken(sent[Head(port)])  BY <2>4, IntoClear
    <2>6. /\ DOMAIN apPc' = ApTasks /\ DOMAIN recvBuf' = ApTasks /\ DOMAIN peer' = ApTasks
          /\ apPc'[t] = "send" /\ peer'[t] = Head(port) /\ recvBuf'[t] = Taken(sent[Head(port)])
          /\ \A u \in ApTasks \ {t} : apPc'[u] = apPc[u] /\ recvBuf'[u] = recvBuf[u] /\ peer'[u] = peer[u]
      BY <1>0, <1>3, <2>5 DEF ApArrays, GoAp
    <2>7. \A u \in ApTasks : BufferIsOwn(u)'
      <3>1. BufferIsOwn(t)'  BY <1>1, <2>1, <2>3, <2>6 DEF BufferIsOwn
      <3>2. \A u \in ApTasks \ {t} : BufferIsOwn(u)'  BY <1>0, <1>1, <2>2, <2>6 DEF BufferIsOwn
      <3> QED  BY <3>1, <3>2
    <2>8. ApArrays' /\ OneServer' /\ EchoIsOwn'
      BY <1>0, <1>1, <2>1, <2>6 DEF ApArrays, OneServer, EchoIsOwn
    <2> QED  BY <2>2, <2>7, <2>8 DEF ServerInv
  <1> QED  BY <1>2, <1>3 DEF Receive

\* strlen: a text without a zero byte is all of it; otherwise it ends before the first.
LEMMA TextWhole ==
    ASSUME NEW S, NEW text \in Seq(S), \A k \in 1 .. Len(text) : text[k] # "0"
    PROVE  Text(text) = text
  <1>1. {k \in 1 .. Len(text) : text[k] = "0"} = {}  OBVIOUS
  <1> QED  BY <1>1 DEF Text

LEMMA TextEnds ==
    ASSUME NEW S, NEW text \in Seq(S), NEW z \in 1 .. Len(text), text[z] = "0",
           \A k \in 1 .. z - 1 : text[k] # "0"
    PROVE  Text(text) = SubSeq(text, 1, z - 1)
  <1> DEFINE zeros == {k \in 1 .. Len(text) : text[k] = "0"}
             first == CHOOSE x \in zeros : \A y \in zeros : x <= y
  <1>1. z \in zeros /\ \A y \in zeros : z <= y  OBVIOUS
  <1>2. \A x \in zeros : (\A y \in zeros : x <= y) => x = z  BY <1>1
  <1>3. first = z
    <2> HIDE DEF zeros
    <2> QED  BY <1>1, <1>2
  <1>4. Text(text) = SubSeq(text, 1, first - 1)  BY <1>1 DEF Text
  <1> QED  BY <1>3, <1>4

\* Every text has no zero byte or a first one.
LEMMA FirstZero ==
    ASSUME NEW S, NEW text \in Seq(S)
    PROVE  \/ \A k \in 1 .. Len(text) : text[k] # "0"
           \/ \E z \in 1 .. Len(text) : text[z] = "0" /\ \A k \in 1 .. z - 1 : text[k] # "0"
  <1> DEFINE zeros == {k \in 1 .. Len(text) : text[k] = "0"}
  <1>1. SUFFICES ASSUME zeros # {}
                 PROVE  \E z \in 1 .. Len(text) : text[z] = "0" /\ \A k \in 1 .. z - 1 : text[k] # "0"
    OBVIOUS
  <1>2. zeros \subseteq Nat  OBVIOUS
  <1>3. PICK z \in zeros : \A y \in zeros : ~ (<<y, z>> \in OpToRel(<, Nat))
    <2> HIDE DEF zeros
    <2> QED  BY <1>1, <1>2, NatLessThanWellFounded, WFMin
  <1>4. \A y \in zeros : ~ (y < z)  BY <1>2, <1>3 DEF OpToRel
  <1> QED  BY <1>4

\* What sendto sends back of the text that the buffer took in.
LEMMA Echoed ==
    ASSUME NEW S, NEW text \in Seq(S), NEW past \in Beyond(Taken(text))
    PROVE  LET own == Text(text)
               back == Text(Taken(text)) \o past
           IN  IF Len(own) < BufSize THEN back = own ELSE SubSeq(back, 1, BufSize) = SubSeq(own, 1, BufSize)
  <1>0. BufSize \in Nat /\ BufSize >= 1 /\ Len(text) \in Nat  BY ApAssumption
  <1>1. /\ Taken(text) \in Seq(S)
        /\ Len(Taken(text)) = (IF Len(text) < BufSize THEN Len(text) ELSE BufSize)
        /\ \A k \in 1 .. Len(Taken(text)) : Taken(text)[k] = text[k]
        /\ Len(text) < BufSize => Taken(text) = text
    BY TakenOf
  <1>2. ASSUME NEW z \in 1 .. Len(Taken(text)), text[z] = "0", \A k \in 1 .. z - 1 : text[k] # "0"
        PROVE  Text(Taken(text)) \o past = Text(text) /\ Len(Text(text)) < BufSize
    <2>1. z \in 1 .. Len(text) /\ z <= BufSize  BY <1>0, <1>1, <1>2
    <2>2. Text(text) = SubSeq(text, 1, z - 1)  BY <1>2, <2>1, TextEnds
    <2>3. Taken(text)[z] = "0" /\ \A k \in 1 .. z - 1 : Taken(text)[k] # "0"  BY <1>0, <1>1, <1>2
    <2>4. Text(Taken(text)) = SubSeq(Taken(text), 1, z - 1)  BY <1>1, <2>3, TextEnds
    <2>5. /\ SubSeq(text, 1, z - 1) \in Seq(S) /\ Len(SubSeq(text, 1, z - 1)) = z - 1
          /\ \A k \in 1 .. z - 1 : SubSeq(text, 1, z - 1)[k] = text[k]
      BY <2>1
    <2>6. /\ SubSeq(Taken(text), 1, z - 1) \in Seq(S) /\ Len(SubSeq(Taken(text), 1, z - 1)) = z - 1
          /\ \A k \in 1 .. z - 1 : SubSeq(Taken(text), 1, z - 1)[k] = Taken(text)[k]
      BY <1>1
    <2>7. SubSeq(Taken(text), 1, z - 1) = SubSeq(text, 1, z - 1)  BY <1>1, <2>5, <2>6, SeqEqual
    <2>8. Len(Text(Taken(text))) < BufSize  BY <1>0, <2>1, <2>4, <2>6
    <2>9. past = <<>>  BY <2>8 DEF Beyond
    <2> QED  BY <1>0, <2>1, <2>2, <2>4, <2>5, <2>7, <2>9, ConcatEmptySeq
  <1>3. ASSUME \A k \in 1 .. Len(text) : text[k] # "0"
        PROVE  Text(text) = text
    BY <1>3, TextWhole
  <1>4. ASSUME \A k \in 1 .. Len(Taken(text)) : text[k] # "0", Len(text) >= BufSize
        PROVE  /\ SubSeq(Text(Taken(text)) \o past, 1, BufSize) = SubSeq(Text(text), 1, BufSize)
               /\ ~(Len(Text(text)) < BufSize)
    <2>1. Len(Taken(text)) = BufSize /\ \A k \in 1 .. BufSize : Taken(text)[k] = text[k] /\ text[k] # "0"
      BY <1>0, <1>1, <1>4
    <2>2. Text(Taken(text)) = Taken(text)  BY <1>1, <2>1, TextWhole
    <2>3. /\ Len(Text(text)) \in Nat /\ Len(Text(text)) >= BufSize
          /\ \A k \in 1 .. BufSize : Text(text)[k] = text[k]
          /\ Text(text) \in Seq(S)
      <3>1. CASE \A k \in 1 .. Len(text) : text[k] # "0"  BY <1>0, <1>3, <1>4, <3>1
      <3>2. ASSUME NEW z \in 1 .. Len(text), text[z] = "0", \A k \in 1 .. z - 1 : text[k] # "0"
            PROVE  /\ Len(Text(text)) \in Nat /\ Len(Text(text)) >= BufSize
                   /\ \A k \in 1 .. BufSize : Text(text)[k] = text[k]
                   /\ Text(text) \in Seq(S)
        <4>1. Text(text) = SubSeq(text, 1, z - 1)  BY <3>2, TextEnds
        <4>2. z - 1 >= BufSize  BY <1>0, <2>1, <3>2
        <4>3. /\ SubSeq(text, 1, z - 1) \in Seq(S) /\ Len(SubSeq(text, 1, z - 1)) = z - 1
              /\ \A k \in 1 .. z - 1 : SubSeq(text, 1, z - 1)[k] = text[k]
          BY <1>0
        <4> QED  BY <1>0, <4>1, <4>2, <4>3
      <3> QED  BY <3>1, <3>2, FirstZero
    <2>4. past \in Seq({"stray"})
      <3>1. past = <<>> \/ past = <<"stray">>  BY DEF Beyond
      <3>2. <<>> \in Seq({"stray"}) /\ <<"stray">> \in Seq({"stray"})  OBVIOUS
      <3> QED  BY <3>1, <3>2, Zenon
    <2> DEFINE T == S \cup {"stray"}
               back == Taken(text) \o past
    <2>5. Taken(text) \in Seq(T) /\ past \in Seq(T) /\ Text(text) \in Seq(T)
      BY <1>1, <2>3, <2>4, SeqMonotonic
    <2>6. /\ back \in Seq(T) /\ Len(back) \in Nat /\ Len(back) >= BufSize
          /\ \A k \in 1 .. BufSize : back[k] = Taken(text)[k]
      <3> HIDE DEF T
      <3> QED  BY <1>0, <2>1, <2>5
    <2> HIDE DEF T, back
    <2>7. /\ SubSeq(back, 1, BufSize) \in Seq(T) /\ Len(SubSeq(back, 1, BufSize)) = BufSize
          /\ \A k \in 1 .. BufSize : SubSeq(back, 1, BufSize)[k] = back[k]
      BY <1>0, <2>6
    <2>8. /\ SubSeq(Text(text), 1, BufSize) \in Seq(T) /\ Len(SubSeq(Text(text), 1, BufSize)) = BufSize
          /\ \A k \in 1 .. BufSize : SubSeq(Text(text), 1, BufSize)[k] = Text(text)[k]
      BY <1>0, <2>3, <2>5
    <2>9. \A k \in 1 .. BufSize : SubSeq(back, 1, BufSize)[k] = SubSeq(Text(text), 1, BufSize)[k]
      BY <2>1, <2>3, <2>6, <2>7, <2>8
    <2>10. SubSeq(back, 1, BufSize) = SubSeq(Text(text), 1, BufSize)  BY <2>7, <2>8, <2>9, SeqEqual
    <2>11. ~(Len(Text(text)) < BufSize)  BY <1>0, <2>3
    <2> QED  BY <2>2, <2>10, <2>11 DEF back
  <1>5. CASE \E z \in 1 .. Len(Taken(text)) : text[z] = "0" /\ \A k \in 1 .. z - 1 : text[k] # "0"
    BY <1>2, <1>5
  <1>6. CASE \A k \in 1 .. Len(Taken(text)) : text[k] # "0"
    <2>1. CASE Len(text) >= BufSize  BY <1>4, <1>6, <2>1, Zenon
    <2>2. CASE Len(text) < BufSize
      <3>1. Taken(text) = text /\ Text(text) = text  BY <1>1, <1>3, <1>6, <2>2
      <3>2. past = <<>>  BY <2>2, <3>1 DEF Beyond
      <3> QED  BY <2>2, <3>1, <3>2, ConcatEmptySeq
    <2>3. Len(text) >= BufSize \/ Len(text) < BufSize  BY <1>0
    <2> QED  BY <2>1, <2>2, <2>3, Zenon
  <1>7. \/ \A k \in 1 .. Len(Taken(text)) : text[k] # "0"
        \/ \E z \in 1 .. Len(Taken(text)) : text[z] = "0" /\ \A k \in 1 .. z - 1 : text[k] # "0"
    <2>1. \/ \A k \in 1 .. Len(Taken(text)) : Taken(text)[k] # "0"
          \/ \E z \in 1 .. Len(Taken(text)) : Taken(text)[z] = "0" /\ \A k \in 1 .. z - 1 : Taken(text)[k] # "0"
      BY <1>1, FirstZero
    <2>2. CASE \A k \in 1 .. Len(Taken(text)) : Taken(text)[k] # "0"  BY <1>1, <2>2
    <2>3. ASSUME NEW z \in 1 .. Len(Taken(text)), Taken(text)[z] = "0", \A k \in 1 .. z - 1 : Taken(text)[k] # "0"
          PROVE  text[z] = "0" /\ \A k \in 1 .. z - 1 : text[k] # "0"
      <3>1. Len(Taken(text)) \in Nat /\ \A k \in 1 .. z - 1 : k \in 1 .. Len(Taken(text))  BY <1>1
      <3> QED  BY <1>1, <2>3, <3>1
    <2> QED  BY <2>1, <2>2, <2>3
  <1> QED  BY <1>5, <1>6, <1>7

LEMMA SendServer == ASSUME ServerInv, NEW t \in ApTasks, SendTo(t) PROVE ServerInv'
  <1>0. ApArrays /\ OneServer /\ OneEach /\ (\A u \in ApTasks : BufferIsOwn(u)) /\ EchoIsOwn
    BY DEF ServerInv
  <1>1. apPc[t] = "send" /\ UNCHANGED <<port, sent, bound>>  BY DEF SendTo, setupVars
  <1>2. CASE ServeFails(t) /\ UNCHANGED got  BY <1>1, <1>2, FailsServer
  <1>3. CASE /\ \E past \in Beyond(recvBuf[t]) : got' = [got EXCEPT ![peer[t]] = Text(recvBuf[t]) \o past]
             /\ recvBuf' = [recvBuf EXCEPT ![t] = <<>>]
             /\ peer' = [peer EXCEPT ![t] = NoTask]
             /\ GoAp(t, "receive")
    <2>1. /\ peer[t] \in Stations /\ recvBuf[t] = Taken(sent[peer[t]])
          /\ sent[peer[t]] \in Seq(Letters)
      BY <1>0, <1>1 DEF BufferIsOwn, ApArrays
    <2> DEFINE own == Text(sent[peer[t]])
    <2>2. /\ DOMAIN got' = Stations
          /\ IF Len(own) < BufSize
             THEN got'[peer[t]] = own
             ELSE SubSeq(got'[peer[t]], 1, BufSize) = SubSeq(own, 1, BufSize)
          /\ \A c \in Stations \ {peer[t]} : got'[c] = got[c]
      <3>1. PICK past \in Beyond(recvBuf[t]) : got' = [got EXCEPT ![peer[t]] = Text(recvBuf[t]) \o past]
        BY <1>3
      <3>2. /\ DOMAIN got' = Stations /\ got'[peer[t]] = Text(Taken(sent[peer[t]])) \o past
            /\ \A c \in Stations \ {peer[t]} : got'[c] = got[c]
        BY <1>0, <2>1, <3>1 DEF ApArrays
      <3>3. past \in Beyond(Taken(sent[peer[t]]))  BY <2>1, <3>1
      <3> QED  BY <2>1, <3>2, <3>3, Echoed
    <2>3. /\ DOMAIN apPc' = ApTasks /\ DOMAIN recvBuf' = ApTasks /\ DOMAIN peer' = ApTasks
          /\ apPc'[t] = "receive" /\ recvBuf'[t] = <<>>
          /\ \A u \in ApTasks \ {t} : apPc'[u] = apPc[u] /\ recvBuf'[u] = recvBuf[u] /\ peer'[u] = peer[u]
      BY <1>0, <1>3 DEF ApArrays, GoAp
    <2>4. \A u \in ApTasks : BufferIsOwn(u)'  BY <1>0, <1>1, <2>3 DEF BufferIsOwn, AtPort
    <2>5. EchoIsOwn'  BY <1>0, <1>1, <2>2 DEF EchoIsOwn
    <2> QED  BY <1>0, <1>1, <2>2, <2>3, <2>4, <2>5 DEF ServerInv, ApArrays, OneServer, OneEach
  <1> QED  BY <1>2, <1>3 DEF SendTo

\* A client that sends has no datagram at the port or in a buffer.
LEMMA ClientServer == ASSUME ServerInv, NEW c \in Stations, ClientSends(c) PROVE ServerInv'
  <1>0. ApArrays /\ OneServer /\ OneEach /\ (\A u \in ApTasks : BufferIsOwn(u)) /\ EchoIsOwn
    BY DEF ServerInv
  <1>1. /\ UNCHANGED <<apPc, recvBuf, peer, bound>> /\ ~AtPort(c)
        /\ \A t \in ApTasks : apPc[t] = "send" => peer[t] # c
    BY DEF ClientSends, AtPort, setupVars
  <1>2. PICK d \in Datagrams(c) : sent' = [sent EXCEPT ![c] = d]  BY DEF ClientSends
  <1>3. d \in Seq(Letters)
    <2>1. c \in Letters /\ "0" \in Letters  BY DEF Letters
    <2>2. <<>> \in Seq(Letters) /\ <<c, "0", c>> \in Seq(Letters)  BY <2>1
    <2>3. ASSUME NEW n \in BufSize - 1 .. BufSize + 1 PROVE [k \in 1 .. n |-> c] \in Seq(Letters)
      <3>1. n \in Nat  BY ApAssumption
      <3> QED  BY <2>1, <3>1
    <2> QED  BY <2>2, <2>3 DEF Datagrams
  <1>4. /\ sent' \in [Stations -> Seq(Letters)] /\ DOMAIN got' = Stations /\ got'[c] = NoReply
        /\ \A b \in Stations \ {c} : sent'[b] = sent[b] /\ got'[b] = got[b]
    BY <1>0, <1>2, <1>3 DEF ClientSends, ApArrays
  <1>5. /\ port' \in Seq(Stations) /\ Len(port) \in Nat /\ Len(port') = Len(port) + 1
        /\ \A n \in 1 .. Len(port) : port'[n] = port[n]
        /\ port'[Len(port) + 1] = c
    <2>1. port' = Append(port, c)  BY DEF ClientSends
    <2> QED  BY <1>0, <2>1, AppendProperties DEF ApArrays
  <1>6. \A b : AtPort(b)' => AtPort(b) \/ b = c
    <2> SUFFICES ASSUME NEW n \in 1 .. Len(port') PROVE (n \in 1 .. Len(port) /\ port'[n] = port[n]) \/ port'[n] = c
      BY DEF AtPort
    <2>1. n \in 1 .. Len(port) \/ n = Len(port) + 1  BY <1>5
    <2> QED  BY <1>5, <2>1
  <1>7. OneEach'
    <2> SUFFICES ASSUME NEW m \in 1 .. Len(port'), NEW n \in 1 .. Len(port'), port'[m] = port'[n] PROVE m = n
      BY DEF OneEach
    <2>1. \A k \in 1 .. Len(port) : port'[k] = port[k] /\ port[k] # c  BY <1>1, <1>5 DEF AtPort
    <2>2. \A k \in 1 .. Len(port') : k \in 1 .. Len(port) \/ (k = Len(port) + 1 /\ port'[k] = c)  BY <1>5
    <2> QED  BY <1>0, <2>1, <2>2 DEF OneEach
  <1>8. \A u \in ApTasks : BufferIsOwn(u)'  BY <1>0, <1>1, <1>4, <1>6 DEF BufferIsOwn
  <1>9. EchoIsOwn'  BY <1>0, <1>4 DEF EchoIsOwn
  <1>10. ApArrays' /\ OneServer'  BY <1>0, <1>1, <1>4, <1>5 DEF ApArrays, OneServer
  <1> QED  BY <1>7, <1>8, <1>9, <1>10 DEF ServerInv

LEMMA ServerStep == ServerInv /\ [ApRuns]_apVars => ServerInv'
  <1> SUFFICES ASSUME ServerInv, [ApRuns]_apVars,
                      \A t \in ApTasks : ~Bind(t) /\ ~Receive(t) /\ ~SendTo(t),
                      \A c \in Stations : ~ClientSends(c)
               PROVE  ServerInv'
    BY BindServer, ReceiveServer, SendServer, ClientServer
  <1>0. ApArrays /\ OneServer /\ OneEach /\ (\A u \in ApTasks : BufferIsOwn(u)) /\ EchoIsOwn
    BY DEF ServerInv
  <1>1. /\ UNCHANGED <<bound, port, recvBuf, peer, sent, got>> /\ DOMAIN apPc' = ApTasks
        /\ \A u \in ApTasks :
              \/ apPc'[u] = apPc[u]
              \/ apPc[u] \notin {"receive", "send", "returned"} /\ apPc'[u] \notin {"receive", "send"}
    BY <1>0, ApElsewhere DEF echoVars
  <1>2. OneServer'  BY <1>0, <1>1 DEF OneServer
  <1>3. \A u \in ApTasks : BufferIsOwn(u)'  BY <1>0, <1>1 DEF BufferIsOwn, AtPort
  <1> QED  BY <1>0, <1>1, <1>2, <1>3 DEF ServerInv, ApArrays, OneEach, EchoIsOwn

----------------------------------------------------------------------------
(* The TCP client *)

ClientArrays ==
    /\ DOMAIN clientPc = ClientTasks
    /\ owner \in [Fds -> ClientTasks \cup {NoOne, Other}]
    /\ {foreignClosed, reopened, overlapped} \subseteq BOOLEAN

HasFd(t) == clientPc[t] \in {"connect", "send", "recv", "wait", "disconnect"}

\* Only one client is there, and owns what sock_fd says, from socket() to its first
\* close; what has that descriptor at its second close was opened in between.
OneClient == \A t, u \in ClientTasks : Active(t) /\ Active(u) => t = u
OwnsOne == \A f \in Fds : owner[f] \in ClientTasks => HasFd(owner[f]) /\ f = clientFd
ClosesOwn ==
    \A t \in ClientTasks :
       /\ HasFd(t) => clientFd \in Fds /\ owner[clientFd] = t
       /\ clientPc[t] = "closesocket" => clientFd \in Fds /\ (owner[clientFd] = NoOne \/ reopened)
Excused == foreignClosed => reopened

ClientInv == ClientArrays /\ (~overlapped => OneClient /\ OwnsOne /\ ClosesOwn /\ Excused)

LEMMA Names == \A t \in ClientTasks : t # NoOne /\ t # Other
  BY ClientAssumption

LEMMA ClientInvInit == ClientInit => ClientInv
  BY Names DEF ClientInit, ClientInv, ClientArrays, OneClient, OwnsOne, ClosesOwn, Excused, Active, HasFd

\* A task goes on to a step after which it still has its descriptor, or still has none.
LEMMA ClientGoes ==
    ASSUME ClientInv, NEW t \in ClientTasks, NEW next, GoClient(t, next),
           UNCHANGED <<clientFd, owner, History>>,
           \/ HasFd(t) /\ next \in {"connect", "send", "recv", "wait", "disconnect"}
           \/ clientPc[t] = "wifi" /\ next = "socket"
    PROVE  ClientInv'
  <1>1. /\ DOMAIN clientPc' = ClientTasks /\ clientPc'[t] = next
        /\ \A u \in ClientTasks \ {t} : clientPc'[u] = clientPc[u]
    BY DEF ClientInv, ClientArrays, GoClient
  <1>2. UNCHANGED <<clientFd, owner, foreignClosed, reopened, overlapped>>  BY DEF History
  <1>3. \A u \in ClientTasks : Active(u)' => Active(u)  BY <1>1 DEF Active, HasFd
  <1>4. \A u \in ClientTasks : HasFd(u)' <=> HasFd(u)  BY <1>1 DEF HasFd
  <1>5. \A u \in ClientTasks : clientPc'[u] = "closesocket" => clientPc[u] = "closesocket"
    BY <1>1 DEF HasFd
  <1>6. OneClient => OneClient'  BY <1>3 DEF OneClient
  <1>7. OwnsOne => OwnsOne'  BY <1>2, <1>4 DEF OwnsOne
  <1>8. ClosesOwn => ClosesOwn'  BY <1>2, <1>4, <1>5 DEF ClosesOwn
  <1> QED  BY <1>1, <1>2, <1>6, <1>7, <1>8 DEF ClientInv, ClientArrays, Excused

LEMMA ClientStarts == ASSUME ClientInv, NEW t \in ClientTasks, ClientStart(t) PROVE ClientInv'
  <1>1. /\ clientPc[t] = "idle" /\ DOMAIN clientPc' = ClientTasks /\ clientPc'[t] = "wifi"
        /\ \A u \in ClientTasks \ {t} : clientPc'[u] = clientPc[u]
        /\ UNCHANGED <<clientFd, owner, foreignClosed, reopened>>
        /\ overlapped' = (overlapped \/ \E u \in ClientTasks : Active(u))
    BY DEF ClientInv, ClientArrays, ClientStart, GoClient
  <1>2. ClientArrays'  BY <1>1 DEF ClientInv, ClientArrays
  <1>3. ASSUME ~overlapped' PROVE OneClient' /\ OwnsOne' /\ ClosesOwn' /\ Excused'
    <2>1. OneClient /\ OwnsOne /\ ClosesOwn /\ Excused /\ \A u \in ClientTasks : ~Active(u)
      BY <1>1, <1>3 DEF ClientInv
    <2>2. \A u \in ClientTasks : HasFd(u)' <=> HasFd(u)  BY <1>1 DEF HasFd
    <2>3. OneClient'  BY <1>1, <2>1 DEF OneClient, Active
    <2> QED  BY <1>1, <2>1, <2>2, <2>3 DEF OwnsOne, ClosesOwn, Excused
  <1> QED  BY <1>2, <1>3 DEF ClientInv

LEMMA ClientOpens == ASSUME ClientInv, NEW t \in ClientTasks, ClientSocket(t) PROVE ClientInv'
  <1>1. /\ clientPc[t] = "socket" /\ DOMAIN clientPc' = ClientTasks
        /\ \A u \in ClientTasks \ {t} : clientPc'[u] = clientPc[u]
        /\ UNCHANGED <<foreignClosed, overlapped>>
    BY DEF ClientInv, ClientArrays, ClientSocket, GoClient
  <1>2. ASSUME NEW f \in Fds, Opens(t, f), clientFd' = f, GoClient(t, "connect") PROVE ClientInv'
    <2>1. /\ clientPc'[t] = "connect" /\ owner[f] = NoOne
          /\ owner' \in [Fds -> ClientTasks \cup {NoOne, Other}] /\ owner'[f] = t
          /\ \A g \in Fds \ {f} : owner'[g] = owner[g]
          /\ reopened' = (reopened \/ Between)
      BY <1>2 DEF ClientInv, ClientArrays, GoClient, Opens
    <2>2. ClientArrays'  BY <1>1, <2>1 DEF ClientInv, ClientArrays
    <2>3. ASSUME ~overlapped PROVE OneClient' /\ OwnsOne' /\ ClosesOwn' /\ Excused'
      <3>1. OneClient /\ OwnsOne /\ ClosesOwn /\ Excused  BY <2>3 DEF ClientInv
      <3>2. \A u \in ClientTasks \ {t} : ~Active(u)  BY <1>1, <3>1 DEF OneClient, Active
      <3>3. \A u \in ClientTasks \ {t} : ~Active(u)' /\ ~HasFd(u) /\ ~HasFd(u)' /\ clientPc'[u] # "closesocket"
        BY <1>1, <3>2 DEF Active, HasFd
      <3>4. ~HasFd(t) /\ HasFd(t)'  BY <1>1, <2>1 DEF HasFd
      <3>5. \A g \in Fds : owner[g] \notin ClientTasks  BY <3>1, <3>3, <3>4 DEF OwnsOne
      <3>6. OneClient'  BY <3>3 DEF OneClient
      <3>7. OwnsOne'  BY <1>2, <2>1, <3>4, <3>5 DEF OwnsOne
      <3>8. ClosesOwn'  BY <1>2, <2>1, <3>3 DEF ClosesOwn
      <3> QED  BY <1>1, <2>1, <3>1, <3>6, <3>7, <3>8 DEF Excused
    <2> QED  BY <1>1, <2>2, <2>3 DEF ClientInv
  <1>3. CASE clientFd' = -1 /\ GoClient(t, "ended") /\ UNCHANGED <<owner, link, reopened>>
    <2>1. clientPc'[t] = "ended"  BY <1>3 DEF ClientInv, ClientArrays, GoClient
    <2>2. ClientArrays'  BY <1>1, <1>3 DEF ClientInv, ClientArrays
    <2>3. ASSUME ~overlapped PROVE OneClient' /\ OwnsOne' /\ ClosesOwn' /\ Excused'
      <3>1. OneClient /\ OwnsOne /\ ClosesOwn /\ Excused  BY <2>3 DEF ClientInv
      <3>2. \A u \in ClientTasks \ {t} : ~Active(u)  BY <1>1, <3>1 DEF OneClient, Active
      <3>3. \A u \in ClientTasks : ~Active(u)' /\ ~HasFd(u) /\ ~HasFd(u)' /\ clientPc'[u] # "closesocket"
        BY <1>1, <2>1, <3>2 DEF Active, HasFd
      <3>4. \A g \in Fds : owner[g] \notin ClientTasks  BY <3>1, <3>3 DEF OwnsOne
      <3> QED  BY <1>1, <1>3, <3>1, <3>3, <3>4 DEF OneClient, OwnsOne, ClosesOwn, Excused
    <2> QED  BY <1>1, <2>2, <2>3 DEF ClientInv
  <1> QED  BY <1>2, <1>3 DEF ClientSocket

LEMMA ClientCloses ==
    ASSUME ClientInv, NEW t \in ClientTasks, Disconnect(t) \/ CloseAgain(t)
    PROVE  ClientInv'
  <1>1. PICK here \in {"disconnect", "closesocket"} :
           CloseFd(t, here, IF here = "disconnect" THEN "closesocket" ELSE "ended")
    BY DEF Disconnect, CloseAgain
  <1>2. /\ clientPc[t] = here /\ DOMAIN clientPc' = ClientTasks
        /\ clientPc'[t] = IF here = "disconnect" THEN "closesocket" ELSE "ended"
        /\ \A u \in ClientTasks \ {t} : clientPc'[u] = clientPc[u]
        /\ UNCHANGED <<clientFd, reopened, overlapped>>
    BY <1>1 DEF ClientInv, ClientArrays, CloseFd, GoClient
  <1>3. ClientArrays'
    <2>1. CASE clientFd \in Fds  BY <1>1, <1>2, <2>1 DEF ClientInv, ClientArrays, CloseFd
    <2>2. CASE clientFd \notin Fds  BY <1>1, <1>2, <2>2 DEF ClientInv, ClientArrays, CloseFd
    <2> QED  BY <2>1, <2>2
  <1>4. ASSUME ~overlapped PROVE OneClient' /\ OwnsOne' /\ ClosesOwn' /\ Excused'
    <2>1. OneClient /\ OwnsOne /\ ClosesOwn /\ Excused  BY <1>4 DEF ClientInv
    <2>2. \A u \in ClientTasks \ {t} : ~Active(u)  BY <1>2, <2>1 DEF OneClient, Active
    <2>3. \A u \in ClientTasks \ {t} : ~Active(u)' /\ ~HasFd(u) /\ ~HasFd(u)' /\ clientPc'[u] # "closesocket"
      BY <1>2, <2>2 DEF Active, HasFd
    <2>4. clientFd \in Fds /\ (owner[clientFd] = t \/ owner[clientFd] = NoOne \/ reopened)
      BY <1>2, <2>1 DEF ClosesOwn, HasFd
    <2>5. /\ owner'[clientFd] = NoOne /\ \A f \in Fds \ {clientFd} : owner'[f] = owner[f]
          /\ foreignClosed' = (foreignClosed \/ owner[clientFd] \notin {t, NoOne})
      BY <1>1, <2>4 DEF CloseFd, ClientInv, ClientArrays
    <2>6. \A f \in Fds : owner'[f] \notin ClientTasks  BY <2>1, <2>5, Names DEF OwnsOne
    <2>7. OneClient'  BY <2>3 DEF OneClient
    <2>8. OwnsOne'  BY <2>6 DEF OwnsOne
    <2>9. ClosesOwn'  BY <1>2, <2>3, <2>4, <2>5 DEF ClosesOwn, HasFd
    <2>10. Excused'  BY <1>2, <2>1, <2>4, <2>5 DEF Excused
    <2> QED  BY <2>7, <2>8, <2>9, <2>10
  <1> QED  BY <1>2, <1>3, <1>4 DEF ClientInv

\* Another task opens or closes a descriptor.
LEMMA ClientOutside ==
    ASSUME ClientInv, Outside
    PROVE  ClientInv'
  <1>1. ASSUME NEW f \in Fds, Opens(Other, f), UNCHANGED <<clientPc, clientFd, recvFd, foreignClosed, overlapped>>
        PROVE  ClientInv'
    <2>1. /\ owner[f] = NoOne /\ owner'[f] = Other /\ \A g \in Fds \ {f} : owner'[g] = owner[g]
          /\ owner' \in [Fds -> ClientTasks \cup {NoOne, Other}]
          /\ reopened' = (reopened \/ Between)
      BY <1>1 DEF ClientInv, ClientArrays, Opens
    <2>2. ClientArrays'  BY <1>1, <2>1 DEF ClientInv, ClientArrays
    <2>3. ASSUME ~overlapped PROVE OneClient' /\ OwnsOne' /\ ClosesOwn' /\ Excused'
      <3>1. OneClient /\ OwnsOne /\ ClosesOwn /\ Excused  BY <2>3 DEF ClientInv
      <3>2. OneClient' /\ \A u \in ClientTasks : HasFd(u)' <=> HasFd(u)
        BY <1>1, <3>1 DEF OneClient, Active, HasFd
      <3>3. OwnsOne'  BY <1>1, <2>1, <3>1, <3>2, Names DEF OwnsOne
      <3>4. ClosesOwn'
        <4>1. ASSUME NEW u \in ClientTasks, HasFd(u)' PROVE clientFd' \in Fds /\ owner'[clientFd'] = u
          BY <1>1, <2>1, <3>1, <3>2, <4>1, Names DEF ClosesOwn
        <4>2. ASSUME NEW u \in ClientTasks, clientPc'[u] = "closesocket" PROVE clientFd' \in Fds /\ reopened'
          BY <1>1, <2>1, <3>1, <4>2 DEF ClosesOwn, Between, AtClose
        <4> QED  BY <4>1, <4>2 DEF ClosesOwn
      <3> QED  BY <1>1, <2>1, <3>1, <3>2, <3>3, <3>4 DEF Excused
    <2> QED  BY <1>1, <2>2, <2>3 DEF ClientInv
  <1>2. ASSUME NEW f \in Fds, OtherCloses(f) PROVE ClientInv'
    <2>1. /\ owner[f] = Other /\ owner'[f] = NoOne /\ \A g \in Fds \ {f} : owner'[g] = owner[g]
          /\ owner' \in [Fds -> ClientTasks \cup {NoOne, Other}]
          /\ UNCHANGED <<clientPc, clientFd, foreignClosed, reopened, overlapped>>
      BY <1>2 DEF ClientInv, ClientArrays, OtherCloses, History
    <2>2. ClientArrays'  BY <2>1 DEF ClientInv, ClientArrays
    <2>3. ASSUME ~overlapped PROVE OneClient' /\ OwnsOne' /\ ClosesOwn' /\ Excused'
      <3>1. OneClient /\ OwnsOne /\ ClosesOwn /\ Excused  BY <2>3 DEF ClientInv
      <3>2. OneClient' /\ \A u \in ClientTasks : HasFd(u)' <=> HasFd(u)
        BY <2>1, <3>1 DEF OneClient, Active, HasFd
      <3>3. OwnsOne'  BY <2>1, <3>1, <3>2, Names DEF OwnsOne
      <3>4. ClosesOwn'  BY <2>1, <3>1, <3>2, Names DEF ClosesOwn
      <3> QED  BY <2>1, <3>1, <3>2, <3>3, <3>4 DEF Excused
    <2> QED  BY <2>1, <2>2, <2>3 DEF ClientInv
  <1>3. ASSUME NEW f \in Fds, Server(f) PROVE ClientInv'
    BY <1>3 DEF Server, History, ClientInv, ClientArrays, OneClient, OwnsOne, ClosesOwn, Excused, Active, HasFd
  <1> QED  BY <1>1, <1>2, <1>3 DEF Outside, OtherOpens

LEMMA ClientStep == ClientInv /\ [ClientNext]_clientVars => ClientInv'
  <1> SUFFICES ASSUME ClientInv, [ClientNext]_clientVars PROVE ClientInv'  OBVIOUS
  <1>1. ASSUME NEW t \in ClientTasks, TCPClientTask(t) PROVE ClientInv'
    <2>1. CASE Connected(t)  BY <2>1, ClientGoes DEF Connected
    <2>2. CASE ClientConnect(t)  BY <2>2, ClientGoes DEF ClientConnect, HasFd
    <2>3. CASE Send(t)
      <3>1. clientPc[t] = "send" /\ UNCHANGED <<clientFd, owner, History>>  BY <2>3 DEF Send
      <3>2. GoClient(t, "recv") \/ GoClient(t, "disconnect")  BY <2>3 DEF Send
      <3> QED  BY <3>1, <3>2, ClientGoes DEF HasFd
    <2>4. CASE RecvCall(t)  BY <2>4, ClientGoes DEF RecvCall, HasFd
    <2>5. CASE RecvReturn(t)
      <3>1. clientPc[t] = "wait" /\ UNCHANGED <<clientFd, owner, History>>  BY <2>5 DEF RecvReturn
      <3>2. GoClient(t, "send") \/ GoClient(t, "disconnect")  BY <2>5 DEF RecvReturn
      <3> QED  BY <3>1, <3>2, ClientGoes DEF HasFd
    <2> QED  BY <1>1, <2>1, <2>2, <2>3, <2>4, <2>5, ClientOpens, ClientCloses DEF TCPClientTask
  <1>2. CASE Resets
    BY <1>2 DEF Resets, Reset, History, ClientInv, ClientArrays, OneClient, OwnsOne, ClosesOwn, Excused, Active, HasFd
  <1>3. CASE UNCHANGED clientVars
    BY <1>3 DEF clientVars, ClientInv, ClientArrays, OneClient, OwnsOne, ClosesOwn, Excused, Active, HasFd
  <1> QED  BY <1>1, <1>2, <1>3, ClientStarts, ClientOutside DEF ClientNext, ClientTasksStep

----------------------------------------------------------------------------
(* The programs together *)

LEMMA NetParts ==
    [NetNext]_netVars => [Next]_vars /\ [ApRuns]_apVars /\ [ClientNext]_clientVars
  BY DEF NetNext, netVars, ApRuns

\* The phone's part of a behaviour is one of PhoneService: what is proved there of
\* the flags and of the connections holds here.
THEOREM PhoneInNetwork == NetSpec => Spec
  <1>1. NetInit => Init  BY DEF NetInit
  <1> QED  BY <1>1, NetParts, PTL DEF NetSpec, Spec

\* Whatever a second launch of the soft AP does, at most one task serves the port,
\* and it is the one that bound it.
THEOREM SoftApServer == NetSpec => []OneServer
  <1>1. NetInit => ServerInv  BY ServerInit DEF NetInit
  <1>2. ServerInv => OneServer  BY DEF ServerInv
  <1> QED  BY <1>1, <1>2, ServerStep, NetParts, PTL DEF NetSpec

\* What a client of the soft AP gets back is its own last datagram up to its first
\* zero byte, and nothing of another client's, for any number of clients and tasks;
\* of a text that fills the buffer or more, its first BufSize bytes come first.
THEOREM SoftApEcho == NetSpec => []EchoIsOwn
  <1>1. NetInit => ServerInv  BY ServerInit DEF NetInit
  <1>2. ServerInv => EchoIsOwn  BY DEF ServerInv
  <1> QED  BY <1>1, <1>2, ServerStep, NetParts, PTL DEF NetSpec

\* As long as launches do not overlap, the TCP client closes no descriptor of another
\* task unless one was opened between its two closes, and leaves none open.
THEOREM TcpClientCloses == NetSpec => []ClientCleansUp
  <1>1. NetInit => ClientInv  BY ClientInvInit DEF NetInit
  <1>2. ClientInv => ClientCleansUp
    BY DEF ClientInv, ClientArrays, ClientCleansUp, OwnsOne, Excused, HasFd, Active
  <1> QED  BY <1>1, <1>2, ClientStep, NetParts, PTL DEF NetSpec
=============================================================================
