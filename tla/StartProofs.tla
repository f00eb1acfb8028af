----------------------------- MODULE StartProofs -----------------------------
(***************************************************************************)
(* Proofs about SmartHomeStart: the heap of the two tasks that build texts *)
(* at the same time, and the start of the board.                           *)
(***************************************************************************)
EXTENDS SmartHomeStart, NdefTagProofs, SequenceTheorems, TLAPS

FrameType == [fn : DOMAIN Body, do : {"create", "add", "exit"}, at : Nat, tree : SUBSET Nodes]

\* The functions a task's text is made by, and what the text may lack.
Functions == [report |-> {"profile_package_propertyreport", "JsonCreateServices", "JsonCreateService", "JsonCreateKvLst"},
              config |-> {"profile_package_property", "JsonCreateProperties", "JsonCreateProperty",
                          "JsonCreateCommands", "JsonCreateCommand"}]
Optional == [report |-> {"key"}, config |-> {"service", "ipAddress", "port"}]

MemberOf(p, m) ==
    /\ m.kind = "child" => m.name \in Functions[p]
    /\ m.kind = "unchecked" => m.name \in Optional[p]
    /\ m.kind = "kv" => "key" \in Optional[p]

LEMMA TwoPackagers == Packagers = {"report", "config"} /\ DOMAIN Functions = Packagers /\ DOMAIN Optional = Packagers
  BY DEF Packagers, Entry, Functions, Optional

LEMMA EntryPoints == \A p \in Packagers : Entry[p] \in Functions[p]
  BY TwoPackagers DEF Entry, Functions

LEMMA FunctionsExist == \A p \in Packagers : Functions[p] \subseteq DOMAIN Body
  BY TwoPackagers DEF Functions, Body

\* Every function calls only functions of the same text, and creates unchecked only
\* what that text may lack.
LEMMA Members ==
    ASSUME NEW p \in Packagers, NEW f \in Functions[p], NEW n \in Nat \ {0}, n <= Len(Body[f])
    PROVE  MemberOf(p, Body[f][n])
  <1> USE PackageAssumption DEF MemberOf, Functions, Optional, Checked, Unchecked, Child
  <1>1. CASE f = "JsonCreateKvLst"
    <2>1. p = "report" /\ Body[f] = [k \in 1 .. NKv |-> JsonCreateKv]
      BY <1>1, TwoPackagers DEF Body, JsonCreateKvLst, Repeat
    <2>2. Body[f][n] = JsonCreateKv  BY <2>1
    <2> QED  BY <2>1, <2>2 DEF JsonCreateKv
  <1>2. CASE f = "JsonCreateService"
    BY <1>2, TwoPackagers DEF Body, JsonCreateService
  <1>3. CASE f = "JsonCreateServices"
    BY <1>3, TwoPackagers DEF Body, JsonCreateServices
  <1>4. CASE f = "JsonCreateProperty"
    BY <1>4, TwoPackagers DEF Body, JsonCreateProperty
  <1>5. CASE f = "JsonCreateProperties"
    <2>1. p = "config" /\ Body[f] = [k \in 1 .. NProperties |-> Child("JsonCreateProperty")]
      BY <1>5, TwoPackagers DEF Body, JsonCreateProperties, Repeat
    <2>2. Body[f][n] = Child("JsonCreateProperty")  BY <2>1
    <2> QED  BY <2>1, <2>2
  <1>6. CASE f = "JsonCreateCommand"
    BY <1>6, TwoPackagers DEF Body, JsonCreateCommand
  <1>7. CASE f = "JsonCreateCommands"
    <2>1. p = "config" /\ Body[f] = [k \in 1 .. NCommands |-> Child("JsonCreateCommand")]
      BY <1>7, TwoPackagers DEF Body, JsonCreateCommands, Repeat
    <2>2. Body[f][n] = Child("JsonCreateCommand")  BY <2>1
    <2> QED  BY <2>1, <2>2
  <1>8. CASE f = "profile_package_propertyreport"
    BY <1>8, TwoPackagers DEF Body, profile_package_propertyreport
  <1>9. CASE f = "profile_package_property"
    BY <1>9, TwoPackagers DEF Body, profile_package_property
  <1> QED  BY <1>1, <1>2, <1>3, <1>4, <1>5, <1>6, <1>7, <1>8, <1>9, TwoPackagers

----------------------------------------------------------------------------
(* Steps on the stack *)

Stacks == stack \in [Packagers -> Seq(FrameType)]

LEMMA StackFacts ==
    ASSUME Stacks, NEW p \in Packagers
    PROVE  /\ stack[p] \in Seq(FrameType) /\ Depth(p) \in Nat
           /\ \A i \in 1 .. Depth(p) : stack[p][i] \in FrameType
           /\ Depth(p) > 0 => Top(p) \in FrameType
           /\ Depth(p) > 1 => Caller(p) \in FrameType
  <1>1. stack[p] \in Seq(FrameType)  BY DEF Stacks
  <1>2. Depth(p) \in Nat /\ \A i \in 1 .. Depth(p) : stack[p][i] \in FrameType
    BY <1>1, ElementOfSeq, LenProperties DEF Depth
  <1> QED  BY <1>1, <1>2 DEF Top, Caller

LEMMA TopSet ==
    ASSUME Stacks, NEW p \in Packagers, NEW frame \in FrameType, Depth(p) > 0, SetTop(p, frame)
    PROVE  /\ Stacks' /\ Depth(p)' = Depth(p) /\ \A q \in Packagers \ {p} : stack'[q] = stack[q]
           /\ \A i \in 1 .. Depth(p) : stack'[p][i] = IF i = Depth(p) THEN frame ELSE stack[p][i]
  <1> DEFINE new == [stack[p] EXCEPT ![Depth(p)] = frame]
  <1>1. stack[p] \in Seq(FrameType) /\ Depth(p) \in 1 .. Len(stack[p])  BY StackFacts DEF Depth
  <1>2. stack' = [stack EXCEPT ![p] = new]  BY DEF SetTop
  <1>3. /\ new \in Seq(FrameType) /\ Len(new) = Len(stack[p])
        /\ \A i \in 1 .. Len(stack[p]) : new[i] = IF i = Depth(p) THEN frame ELSE stack[p][i]
    BY <1>1, ExceptSeq
  <1> HIDE DEF new
  <1>4. stack'[p] = new /\ \A q \in Packagers \ {p} : stack'[q] = stack[q]  BY <1>2 DEF Stacks
  <1>5. Stacks'  BY <1>2, <1>3 DEF Stacks
  <1> QED  BY <1>3, <1>4, <1>5 DEF Depth

LEMMA CallerSet ==
    ASSUME Stacks, NEW p \in Packagers, NEW frame \in FrameType, Depth(p) > 1, SetCaller(p, frame)
    PROVE  /\ Stacks' /\ Depth(p)' = Depth(p) - 1 /\ \A q \in Packagers \ {p} : stack'[q] = stack[q]
           /\ \A i \in 1 .. Depth(p) - 1 :
                 stack'[p][i] = IF i = Depth(p) - 1 THEN frame ELSE stack[p][i]
  <1> DEFINE low == SubSeq(stack[p], 1, Depth(p) - 2)
             new == Append(low, frame)
  <1>1. /\ stack[p] \in Seq(FrameType) /\ Depth(p) \in Nat
        /\ \A i \in 1 .. Depth(p) - 2 : stack[p][i] \in FrameType
    BY StackFacts
  <1>2. stack' = [stack EXCEPT ![p] = new]  BY DEF SetCaller
  <1>3. /\ low \in Seq(FrameType) /\ Len(low) = Depth(p) - 2
        /\ \A i \in 1 .. Depth(p) - 2 : low[i] = stack[p][i]
    <2>1. /\ low \in Seq(FrameType)
          /\ Len(low) = IF 1 <= Depth(p) - 2 THEN (Depth(p) - 2) - 1 + 1 ELSE 0
          /\ \A i \in 1 .. (Depth(p) - 2) - 1 + 1 : low[i] = stack[p][1 + i - 1]
      BY <1>1, SubSeqProperties
    <2> QED  BY <1>1, <2>1
  <1> HIDE DEF low
  <1>4. /\ new \in Seq(FrameType) /\ Len(new) = Depth(p) - 1
        /\ \A i \in 1 .. Depth(p) - 2 : new[i] = low[i]
        /\ new[Depth(p) - 1] = frame
    BY <1>1, <1>3, AppendProperties
  <1> HIDE DEF new
  <1>5. stack'[p] = new /\ \A q \in Packagers \ {p} : stack'[q] = stack[q]  BY <1>2 DEF Stacks
  <1>6. Stacks'  BY <1>2, <1>4 DEF Stacks
  <1> QED  BY <1>1, <1>3, <1>4, <1>5, <1>6 DEF Depth

LEMMA Cleared ==
    ASSUME Stacks, NEW p \in Packagers, stack' = [stack EXCEPT ![p] = <<>>]
    PROVE  Stacks' /\ Depth(p)' = 0 /\ \A q \in Packagers \ {p} : stack'[q] = stack[q]
  <1>1. <<>> \in Seq(FrameType)  OBVIOUS
  <1> QED  BY <1>1 DEF Stacks, Depth

LEMMA Pushed ==
    ASSUME Stacks, NEW p \in Packagers, NEW frame \in FrameType, stack' = [stack EXCEPT ![p] = Append(@, frame)]
    PROVE  /\ Stacks' /\ Depth(p)' = Depth(p) + 1 /\ \A q \in Packagers \ {p} : stack'[q] = stack[q]
           /\ \A i \in 1 .. Depth(p) : stack'[p][i] = stack[p][i]
           /\ stack'[p][Depth(p) + 1] = frame
  <1>1. stack[p] \in Seq(FrameType) /\ Depth(p) \in Nat  BY StackFacts
  <1> DEFINE new == Append(stack[p], frame)
  <1>2. /\ new \in Seq(FrameType) /\ Len(new) = Depth(p) + 1 /\ new[Depth(p) + 1] = frame
        /\ \A i \in 1 .. Depth(p) : new[i] = stack[p][i]
    BY <1>1, AppendProperties DEF Depth
  <1>3. stack' = [stack EXCEPT ![p] = new]  OBVIOUS
  <1> HIDE DEF new
  <1>4. stack'[p] = new /\ \A q \in Packagers \ {p} : stack'[q] = stack[q]  BY <1>3 DEF Stacks
  <1>5. Stacks'  BY <1>2, <1>3 DEF Stacks
  <1> QED  BY <1>2, <1>4, <1>5 DEF Depth

LEMMA Begun ==
    ASSUME Stacks, NEW p \in Packagers, NEW frame \in FrameType, stack' = [stack EXCEPT ![p] = <<frame>>]
    PROVE  /\ Stacks' /\ Depth(p)' = 1 /\ \A q \in Packagers \ {p} : stack'[q] = stack[q]
           /\ stack'[p][1] = frame
  <1>1. <<frame>> \in Seq(FrameType) /\ Len(<<frame>>) = 1 /\ <<frame>>[1] = frame  OBVIOUS
  <1> QED  BY <1>1 DEF Stacks, Depth

----------------------------------------------------------------------------
(* The heap *)

PackageTypes ==
    /\ heap \subseteq Nodes /\ texts \subseteq Nodes /\ strays \subseteq Nodes /\ Stacks
    /\ ret \in [Packagers -> {"none", "NULL", "text"}] /\ DOMAIN missing = Packagers

FrameOK(p, frame) ==
    /\ frame.fn \in Functions[p] /\ frame.at >= 1
    /\ frame.do = "create" => frame.tree = {}

FramesOK ==
    \A p \in Packagers : /\ \A i \in 1 .. Depth(p) : FrameOK(p, stack[p][i])
                         /\ \A i \in 1 .. Depth(p) - 1 : stack[p][i].do = "add"
                         /\ Depth(p) > 0 => ret[p] = "none"

\* What is missing is optional, or a function is about to give up.
Exiting(p) == \E i \in 1 .. Depth(p) : stack[p][i].do = "exit"
Lacks ==
    \A p \in Packagers : (Depth(p) > 0 /\ ~Exiting(p)) \/ ret[p] = "text" => missing[p] \subseteq Optional[p]

\* Every node has one owner.
Owns(p, i, n) == p \in Packagers /\ i \in 1 .. Depth(p) /\ n \in stack[p][i].tree
Accounts ==
    /\ \A n : n \in heap <=> n \in texts \/ n \in strays \/ \E p \in Packagers : \E i \in Nat : Owns(p, i, n)
    /\ \A n : n \in texts => n \notin strays
    /\ \A n : \A p \in Packagers : \A i \in Nat : Owns(p, i, n) => n \notin texts /\ n \notin strays
    /\ \A n : \A p, q \in Packagers : \A i, j \in Nat : Owns(p, i, n) /\ Owns(q, j, n) => p = q /\ i = j

PackageInv == PackageTypes /\ FramesOK /\ Lacks /\ Accounts

LEMMA PackageInitially == PackageInit => PackageInv
  <1> SUFFICES ASSUME PackageInit PROVE PackageInv  OBVIOUS
  <1>1. \A p \in Packagers : stack[p] = <<>> /\ Depth(p) = 0 /\ ret[p] = "none"  BY DEF PackageInit, Depth
  <1>2. Stacks
    <2>1. <<>> \in Seq(FrameType)  OBVIOUS
    <2> QED  BY <2>1 DEF PackageInit, Stacks
  <1>3. PackageTypes  BY <1>2 DEF PackageInit, PackageTypes
  <1>4. FramesOK /\ Lacks  BY <1>1 DEF FramesOK, Lacks
  <1>5. heap = {} /\ texts = {} /\ strays = {}  BY DEF PackageInit
  <1>6. \A p \in Packagers : \A i \in Nat : \A n : ~Owns(p, i, n)  BY <1>1 DEF Owns
  <1>7. Accounts  BY <1>5, <1>6 DEF Accounts
  <1> QED  BY <1>3, <1>4, <1>7 DEF PackageInv

\* A node that is allocated is new.
LEMMA FreshNode ==
    ASSUME NEW p \in Packagers, Free(p) # {}
    PROVE  Fresh(p) \in Nodes \ heap
  BY DEF Free, Fresh, Nodes

\* What a step needs to know of the frame it is about.
LEMMA TopFacts ==
    ASSUME PackageInv, NEW p \in Packagers, Depth(p) > 0
    PROVE  /\ Depth(p) \in Nat \ {0} /\ Top(p) \in FrameType /\ FrameOK(p, Top(p)) /\ Stacks
           /\ Top(p) = stack[p][Depth(p)] /\ Top(p).tree \subseteq heap /\ ret[p] = "none"
           /\ Top(p).do = "exit" => Exiting(p)
           /\ HasMember(p) => MemberOf(p, Member(p))
  <1>1. Stacks  BY DEF PackageInv, PackageTypes
  <1>2. Depth(p) \in Nat \ {0} /\ Top(p) \in FrameType  BY <1>1, StackFacts
  <1>3. Top(p) = stack[p][Depth(p)]  BY DEF Top
  <1>4. FrameOK(p, Top(p)) /\ ret[p] = "none"  BY <1>2, <1>3 DEF PackageInv, FramesOK
  <1>5. Top(p).tree \subseteq heap
    <2>1. \A n \in Top(p).tree : Owns(p, Depth(p), n)  BY <1>2, <1>3 DEF Owns
    <2> QED  BY <1>2, <2>1 DEF PackageInv, Accounts
  <1>6. Top(p).do = "exit" => Exiting(p)  BY <1>2, <1>3 DEF Exiting
  <1>7. HasMember(p) => MemberOf(p, Member(p))
    <2>1. Top(p).at \in Nat \ {0} /\ Top(p).fn \in Functions[p]  BY <1>2, <1>4 DEF FrameType, FrameOK
    <2> QED  BY <2>1, Members DEF HasMember, Member
  <1> QED  BY <1>1, <1>2, <1>3, <1>4, <1>5, <1>6, <1>7

\* The ways in which the owners change: new nodes, the tree of a function that goes to
\* its caller, and one that is deleted, perhaps after a text was printed.
Grows(p, d, fresh, lost) ==
    /\ p \in Packagers /\ d \in Nat /\ fresh \cap heap = {} /\ lost \subseteq fresh
    /\ heap' = heap \cup fresh /\ strays' = strays \cup lost /\ texts' = texts
    /\ \A q \in Packagers : \A i \in Nat : \A n :
          Owns(q, i, n)' <=> Owns(q, i, n) \/ (q = p /\ i = d /\ n \in fresh \ lost)

Merges(p, d) ==
    /\ p \in Packagers /\ d \in Nat \ {0, 1} /\ UNCHANGED <<heap, texts, strays>>
    /\ \A q \in Packagers : \A i \in Nat : \A n :
          Owns(q, i, n)' <=> \/ Owns(q, i, n) /\ ~(q = p /\ i = d)
                             \/ q = p /\ i = d - 1 /\ Owns(p, d, n)

Deletes(p, d, printed) ==
    /\ p \in Packagers /\ d \in Nat /\ printed \cap heap = {}
    /\ \A n : n \in heap' <=> (n \in heap /\ ~Owns(p, d, n)) \/ n \in printed
    /\ texts' = texts \cup printed /\ strays' = strays
    /\ \A q \in Packagers : \A i \in Nat : \A n : Owns(q, i, n)' <=> Owns(q, i, n) /\ ~(q = p /\ i = d)

LEMMA Grown ==
    ASSUME Accounts, NEW p, NEW d, NEW fresh, NEW lost, Grows(p, d, fresh, lost)
    PROVE  Accounts'
  <1> USE DEF Grows
  <1>1. \A n : n \in heap' <=> n \in texts' \/ n \in strays' \/ \E q \in Packagers : \E i \in Nat : Owns(q, i, n)'
    BY DEF Accounts
  <1>2. \A n : n \in texts' => n \notin strays'  BY DEF Accounts
  <1>3. \A n : \A q \in Packagers : \A i \in Nat : Owns(q, i, n)' => n \notin texts' /\ n \notin strays'
    BY DEF Accounts
  <1>4. \A n : \A q, r \in Packagers : \A i, j \in Nat : Owns(q, i, n)' /\ Owns(r, j, n)' => q = r /\ i = j
    BY DEF Accounts
  <1> QED  BY <1>1, <1>2, <1>3, <1>4 DEF Accounts

LEMMA Merged ==
    ASSUME Accounts, NEW p, NEW d, Merges(p, d)
    PROVE  Accounts'
  <1> USE DEF Merges
  <1>1. \A n : n \in heap' <=> n \in texts' \/ n \in strays' \/ \E q \in Packagers : \E i \in Nat : Owns(q, i, n)'
    BY DEF Accounts
  <1>2. \A n : n \in texts' => n \notin strays'  BY DEF Accounts
  <1>3. \A n : \A q \in Packagers : \A i \in Nat : Owns(q, i, n)' => n \notin texts' /\ n \notin strays'
    BY DEF Accounts
  <1>4. \A n : \A q, r \in Packagers : \A i, j \in Nat : Owns(q, i, n)' /\ Owns(r, j, n)' => q = r /\ i = j
    BY DEF Accounts
  <1> QED  BY <1>1, <1>2, <1>3, <1>4 DEF Accounts

LEMMA Deleted ==
    ASSUME Accounts, NEW p, NEW d, NEW printed, Deletes(p, d, printed)
    PROVE  Accounts'
  <1> USE DEF Deletes
  <1>1. \A n : n \in heap' <=> n \in texts' \/ n \in strays' \/ \E q \in Packagers : \E i \in Nat : Owns(q, i, n)'
    BY DEF Accounts
  <1>2. \A n : n \in texts' => n \notin strays'  BY DEF Accounts
  <1>3. \A n : \A q \in Packagers : \A i \in Nat : Owns(q, i, n)' => n \notin texts' /\ n \notin strays'
    BY DEF Accounts
  <1>4. \A n : \A q, r \in Packagers : \A i, j \in Nat : Owns(q, i, n)' /\ Owns(r, j, n)' => q = r /\ i = j
    BY DEF Accounts
  <1> QED  BY <1>1, <1>2, <1>3, <1>4 DEF Accounts

\* A step that replaces the top frame by one that has at most one more, new, node.
Replaces(p, frame, fresh, lost) ==
    /\ frame \in FrameType /\ FrameOK(p, frame) /\ SetTop(p, frame)
    /\ fresh \subseteq Nodes \ heap /\ heap' = heap \cup fresh
    /\ lost \subseteq fresh /\ strays' = strays \cup lost
    /\ frame.tree = Top(p).tree \cup (fresh \ lost)
    /\ ret' = ret /\ texts' = texts /\ DOMAIN missing' = Packagers
    /\ \A q \in Packagers \ {p} : missing'[q] = missing[q]
    /\ \/ frame.do = "exit"
       \/ Top(p).do # "exit" /\ (missing[p] \subseteq Optional[p] => missing'[p] \subseteq Optional[p])

LEMMA TopReplaced ==
    ASSUME PackageInv, NEW p \in Packagers, Depth(p) > 0,
           NEW frame, NEW fresh, NEW lost, Replaces(p, frame, fresh, lost)
    PROVE  PackageInv'
  <1> USE DEF Replaces
  <1>1. /\ Depth(p) \in Nat \ {0} /\ Stacks /\ Top(p) = stack[p][Depth(p)] /\ Top(p).tree \subseteq heap
        /\ ret[p] = "none"
    BY TopFacts
  <1>2. /\ Stacks' /\ Depth(p)' = Depth(p) /\ \A q \in Packagers \ {p} : stack'[q] = stack[q]
        /\ \A i \in 1 .. Depth(p) : stack'[p][i] = IF i = Depth(p) THEN frame ELSE stack[p][i]
    BY <1>1, TopSet
  <1>3. \A q \in Packagers : Depth(q)' = Depth(q)  BY <1>2 DEF Depth
  <1>4. PackageTypes'  BY <1>2 DEF PackageInv, PackageTypes
  <1>5. FramesOK'
    <2>1. \A i \in 1 .. Depth(p) : FrameOK(p, stack'[p][i])  BY <1>1, <1>2 DEF PackageInv, FramesOK
    <2>2. \A i \in 1 .. Depth(p) - 1 : stack'[p][i] = stack[p][i]  BY <1>1, <1>2
    <2> QED  BY <1>2, <1>3, <2>1, <2>2 DEF PackageInv, FramesOK
  <1>6. Lacks'
    <2>1. ASSUME NEW q \in Packagers, (Depth(q)' > 0 /\ ~Exiting(q)') \/ ret'[q] = "text"
          PROVE  missing'[q] \subseteq Optional[q]
      <3>1. CASE q # p
        <4>1. Exiting(q)' = Exiting(q)  BY <1>2, <1>3, <3>1 DEF Exiting
        <4> QED  BY <1>3, <2>1, <3>1, <4>1 DEF PackageInv, Lacks
      <3>2. CASE q = p
        <4>1. ~Exiting(p)'  BY <1>1, <2>1, <3>2
        <4>2. frame.do # "exit" /\ Top(p).do # "exit"  BY <1>1, <1>2, <1>3, <4>1 DEF Exiting
        <4>3. ~Exiting(p)  BY <1>1, <1>2, <1>3, <4>1, <4>2 DEF Exiting
        <4> QED  BY <3>2, <4>2, <4>3 DEF PackageInv, Lacks
      <3> QED  BY <3>1, <3>2
    <2> QED  BY <2>1 DEF Lacks
  <1>7. Accounts'
    <2>1. \A q \in Packagers : \A i \in Nat : \A n :
             Owns(q, i, n)' <=> Owns(q, i, n) \/ (q = p /\ i = Depth(p) /\ n \in fresh \ lost)
      <3>1. ASSUME NEW i \in Nat, NEW n
            PROVE  Owns(p, i, n)' <=> Owns(p, i, n) \/ (i = Depth(p) /\ n \in fresh \ lost)
        BY <1>1, <1>2 DEF Owns
      <3>2. \A q \in Packagers \ {p} : \A i \in Nat : \A n : Owns(q, i, n)' <=> Owns(q, i, n)
        BY <1>2, <1>3 DEF Owns
      <3> QED  BY <3>1, <3>2
    <2>2. Grows(p, Depth(p), fresh, lost)  BY <1>1, <2>1 DEF Grows
    <2> QED  BY <2>2, Grown DEF PackageInv
  <1> QED  BY <1>4, <1>5, <1>6, <1>7 DEF PackageInv

\* A step that gives the caller the tree of the function that returns, or deletes it.
LEMMA TopPopped ==
    ASSUME PackageInv, NEW p \in Packagers, Depth(p) > 1,
           NEW frame \in FrameType, FrameOK(p, frame), SetCaller(p, frame),
           UNCHANGED <<ret, missing, texts, strays>>,
           \/ /\ UNCHANGED heap /\ frame.tree = Caller(p).tree \cup Top(p).tree
              /\ Top(p).do # "exit" /\ (Caller(p).do = "exit" => frame.do = "exit")
           \/ heap' = heap \ Top(p).tree /\ frame.tree = Caller(p).tree /\ frame.do = "exit"
    PROVE  PackageInv'
  <1> DEFINE d == Depth(p)
  <1>1. d \in Nat \ {0, 1} /\ Stacks /\ Top(p) = stack[p][d] /\ Caller(p) = stack[p][d - 1] /\ ret[p] = "none"
    <2>1. Depth(p) \in Nat  BY StackFacts DEF PackageInv, PackageTypes
    <2>2. Depth(p) > 0  BY <2>1
    <2> QED  BY <2>1, <2>2, TopFacts DEF Caller
  <1>2. /\ Stacks' /\ Depth(p)' = d - 1 /\ \A q \in Packagers \ {p} : stack'[q] = stack[q]
        /\ \A i \in 1 .. d - 1 : stack'[p][i] = IF i = d - 1 THEN frame ELSE stack[p][i]
    BY <1>1, CallerSet
  <1>3. \A q \in Packagers \ {p} : Depth(q)' = Depth(q)  BY <1>2 DEF Depth
  <1> HIDE DEF d
  <1>4. PackageTypes'  BY <1>2 DEF PackageInv, PackageTypes
  <1>5. FramesOK'
    <2>1. ASSUME NEW i \in 1 .. d - 1 PROVE FrameOK(p, stack'[p][i])
      BY <1>1, <1>2, <2>1 DEF PackageInv, FramesOK, d
    <2>2. \A i \in 1 .. (d - 1) - 1 : stack'[p][i].do = "add"
      BY <1>1, <1>2 DEF PackageInv, FramesOK, d
    <2>3. ret'[p] = "none"  BY <1>1
    <2>4. \A q \in Packagers \ {p} : /\ \A i \in 1 .. Depth(q)' : FrameOK(q, stack'[q][i])
                                     /\ \A i \in 1 .. Depth(q)' - 1 : stack'[q][i].do = "add"
                                     /\ Depth(q)' > 0 => ret'[q] = "none"
      BY <1>2, <1>3 DEF PackageInv, FramesOK
    <2> QED  BY <1>2, <2>1, <2>2, <2>3, <2>4 DEF FramesOK
  <1>6. Lacks'
    <2>1. ASSUME NEW q \in Packagers, (Depth(q)' > 0 /\ ~Exiting(q)') \/ ret'[q] = "text"
          PROVE  missing'[q] \subseteq Optional[q]
      <3>1. CASE q # p
        <4>1. Exiting(q)' = Exiting(q)  BY <1>2, <1>3, <3>1 DEF Exiting
        <4> QED  BY <1>3, <2>1, <3>1, <4>1 DEF PackageInv, Lacks
      <3>2. CASE q = p
        <4>1. ~Exiting(p)'  BY <1>1, <2>1, <3>2
        <4>2. \A i \in 1 .. d - 1 : stack'[p][i].do # "exit"  BY <1>2, <4>1 DEF Exiting
        <4>3. frame.do # "exit" /\ Top(p).do # "exit" /\ Caller(p).do # "exit"  BY <1>1, <1>2, <4>2
        <4>4. ~Exiting(p)  BY <1>1, <1>2, <4>2, <4>3 DEF Exiting, d
        <4> QED  BY <1>1, <3>2, <4>4 DEF PackageInv, Lacks, d
      <3> QED  BY <3>1, <3>2
    <2> QED  BY <2>1 DEF Lacks
  <1>7. Accounts'
    <2>1. \A q \in Packagers \ {p} : \A i \in Nat : \A n : Owns(q, i, n)' <=> Owns(q, i, n)
      BY <1>2, <1>3 DEF Owns
    <2>2. \A n : Owns(p, d, n) <=> n \in Top(p).tree  BY <1>1 DEF Owns, d
    <2>3. \A n : Owns(p, d - 1, n) <=> n \in Caller(p).tree  BY <1>1 DEF Owns, d
    <2>4. \A i \in Nat : \A n : Owns(p, i, n)' <=> /\ i \in 1 .. d - 1
                                                   /\ IF i = d - 1 THEN n \in frame.tree ELSE Owns(p, i, n)
      BY <1>1, <1>2 DEF Owns, d
    <2>5. \A i \in Nat : \A n : Owns(p, i, n) => i \in 1 .. d  BY DEF Owns, d
    <2>6. CASE UNCHANGED heap /\ frame.tree = Caller(p).tree \cup Top(p).tree
      <3>1. \A i \in Nat : \A n :
               Owns(p, i, n)' <=> (Owns(p, i, n) /\ i # d) \/ (i = d - 1 /\ Owns(p, d, n))
        BY <1>1, <2>2, <2>3, <2>4, <2>5, <2>6
      <3>2. Merges(p, d)  BY <1>1, <2>1, <2>6, <3>1 DEF Merges
      <3> QED  BY <3>2, Merged DEF PackageInv
    <2>7. CASE heap' = heap \ Top(p).tree /\ frame.tree = Caller(p).tree
      <3>1. \A i \in Nat : \A n : Owns(p, i, n)' <=> Owns(p, i, n) /\ i # d
        BY <1>1, <2>3, <2>4, <2>5, <2>7
      <3>2. Deletes(p, d, {})  BY <1>1, <2>1, <2>2, <2>7, <3>1 DEF Deletes
      <3> QED  BY <3>2, Deleted DEF PackageInv
    <2> QED  BY <2>6, <2>7
  <1> QED  BY <1>4, <1>5, <1>6, <1>7 DEF PackageInv

\* A step with which the outermost function returns: a text, or NULL.
LEMMA LastPopped ==
    ASSUME PackageInv, NEW p \in Packagers, Depth(p) = 1, stack' = [stack EXCEPT ![p] = <<>>],
           NEW printed \in SUBSET Nodes, printed \cap heap = {}, texts' = texts \cup printed,
           heap' = (heap \ Top(p).tree) \cup printed, UNCHANGED <<missing, strays>>,
           \/ ret' = [ret EXCEPT ![p] = "NULL"]
           \/ ret' = [ret EXCEPT ![p] = "text"] /\ Top(p).do # "exit"
    PROVE  PackageInv'
  <1>1. Stacks /\ Top(p) = stack[p][1]  BY TopFacts
  <1>2. Stacks' /\ Depth(p)' = 0 /\ \A q \in Packagers \ {p} : stack'[q] = stack[q]  BY <1>1, Cleared
  <1>3. \A q \in Packagers \ {p} : Depth(q)' = Depth(q) /\ ret'[q] = ret[q]
    BY <1>2 DEF PackageInv, PackageTypes, Depth
  <1>4. PackageTypes'  BY <1>2 DEF PackageInv, PackageTypes
  <1>5. FramesOK'  BY <1>2, <1>3 DEF PackageInv, FramesOK
  <1>6. Lacks'
    <2>1. ASSUME NEW q \in Packagers, (Depth(q)' > 0 /\ ~Exiting(q)') \/ ret'[q] = "text"
          PROVE  missing'[q] \subseteq Optional[q]
      <3>1. CASE q # p
        <4>1. Exiting(q)' = Exiting(q)  BY <1>2, <1>3, <3>1 DEF Exiting
        <4> QED  BY <1>3, <2>1, <3>1, <4>1 DEF PackageInv, Lacks
      <3>2. CASE q = p
        <4>1. Top(p).do # "exit"  BY <1>2, <2>1, <3>2 DEF PackageInv, PackageTypes
        <4>2. ~Exiting(p)  BY <1>1, <4>1 DEF Exiting
        <4> QED  BY <3>2, <4>2 DEF PackageInv, Lacks
      <3> QED  BY <3>1, <3>2
    <2> QED  BY <2>1 DEF Lacks
  <1>7. Accounts'
    <2>1. \A q \in Packagers \ {p} : \A i \in Nat : \A n : Owns(q, i, n)' <=> Owns(q, i, n)
      BY <1>2, <1>3 DEF Owns
    <2>2. \A i \in Nat : \A n : ~Owns(p, i, n)' /\ (Owns(p, i, n) => i = 1)  BY <1>2 DEF Owns
    <2>3. \A n : Owns(p, 1, n) <=> n \in Top(p).tree  BY <1>1 DEF Owns
    <2>4. Deletes(p, 1, printed)  BY <2>1, <2>2, <2>3 DEF Deletes
    <2> QED  BY <2>4, Deleted DEF PackageInv
  <1> QED  BY <1>4, <1>5, <1>6, <1>7 DEF PackageInv

----------------------------------------------------------------------------
(* The steps of the functions *)

LEMMA PackageStarts == ASSUME PackageInv, NEW p \in Packagers, Package(p) PROVE PackageInv'
  <1> DEFINE frame == Frame(Entry[p])
  <1>1. frame \in FrameType /\ FrameOK(p, frame) /\ frame.do = "create" /\ frame.tree = {}
    <2>1. Entry[p] \in Functions[p] /\ Entry[p] \in DOMAIN Body  BY EntryPoints, FunctionsExist
    <2> QED  BY <2>1 DEF Frame, FrameType, FrameOK
  <1>2. /\ Stacks /\ Depth(p) = 0 /\ ret[p] = "none" /\ stack' = [stack EXCEPT ![p] = <<frame>>]
        /\ missing' = [missing EXCEPT ![p] = {}] /\ UNCHANGED <<heap, ret, texts, strays>>
    BY DEF Package, PackageInv, PackageTypes
  <1> HIDE DEF frame
  <1>3. /\ Stacks' /\ Depth(p)' = 1 /\ \A q \in Packagers \ {p} : stack'[q] = stack[q]
        /\ stack'[p][1] = frame
    BY <1>1, <1>2, Begun
  <1>4. \A q \in Packagers \ {p} : Depth(q)' = Depth(q) /\ missing'[q] = missing[q]
    BY <1>2, <1>3 DEF PackageInv, PackageTypes, Depth
  <1>5. PackageTypes'  BY <1>2, <1>3 DEF PackageInv, PackageTypes
  <1>6. FramesOK'  BY <1>1, <1>2, <1>3, <1>4 DEF PackageInv, FramesOK
  <1>7. Lacks'
    <2>1. missing'[p] = {}  BY <1>2 DEF PackageInv, PackageTypes
    <2>2. \A q \in Packagers \ {p} : Exiting(q)' = Exiting(q)  BY <1>3, <1>4 DEF Exiting
    <2> QED  BY <1>2, <1>4, <2>1, <2>2 DEF PackageInv, Lacks
  <1>8. Accounts'
    <2>1. \A q \in Packagers \ {p} : \A i \in Nat : \A n : Owns(q, i, n)' <=> Owns(q, i, n)
      BY <1>3, <1>4 DEF Owns
    <2>2. \A i \in Nat : \A n : ~Owns(p, i, n)' /\ ~Owns(p, i, n)  BY <1>1, <1>2, <1>3 DEF Owns
    <2>3. Grows(p, 1, {}, {})  BY <1>2, <2>1, <2>2 DEF Grows
    <2> QED  BY <2>3, Grown DEF PackageInv
  <1> QED  BY <1>5, <1>6, <1>7, <1>8 DEF PackageInv

LEMMA TextTaken == ASSUME PackageInv, NEW p \in Packagers, TakeText(p) PROVE PackageInv'
  <1>1. /\ ret[p] # "none" /\ ret' = [ret EXCEPT ![p] = "none"] /\ UNCHANGED <<heap, stack, missing, texts, strays>>
    BY DEF TakeText
  <1>2. \A q \in Packagers : Depth(q)' = Depth(q) /\ Exiting(q)' = Exiting(q)  BY <1>1 DEF Depth, Exiting
  <1>3. PackageTypes'  BY <1>1 DEF PackageInv, PackageTypes, Stacks
  <1>4. ret'[p] = "none" /\ \A q \in Packagers \ {p} : ret'[q] = ret[q]
    BY <1>1 DEF PackageInv, PackageTypes
  <1>5. FramesOK' /\ Lacks'  BY <1>1, <1>2, <1>4 DEF PackageInv, FramesOK, Lacks
  <1>6. Accounts'
    <2>1. \A q \in Packagers : \A i \in Nat : \A n : Owns(q, i, n)' <=> Owns(q, i, n)  BY <1>1, <1>2 DEF Owns
    <2>2. Grows(p, 0, {}, {})  BY <1>1, <2>1 DEF Grows
    <2> QED  BY <2>2, Grown DEF PackageInv
  <1> QED  BY <1>3, <1>5, <1>6 DEF PackageInv

LEMMA PackageSame == ASSUME PackageInv, UNCHANGED packageVars PROVE PackageInv'
  BY DEF packageVars, PackageInv, PackageTypes, Stacks, FramesOK, Lacks, Accounts, Owns, Depth, Exiting

LEMMA PackageOff ==
    ASSUME heap' = {}, texts' = {}, strays' = {}, stack' = [p \in Packagers |-> <<>>],
           ret' = [p \in Packagers |-> "none"], missing' = [p \in Packagers |-> {}]
    PROVE  PackageInv'
  <1>1. PackageInit'  BY DEF PackageInit
  <1> QED  BY <1>1, PackageInitially, PTL

LEMMA CreateNodeInv == ASSUME PackageInv, NEW p \in Packagers, CreateNode(p) PROVE PackageInv'
  <1>1. /\ Depth(p) > 0 /\ Top(p).do = "create" /\ Top(p) \in FrameType /\ FrameOK(p, Top(p)) /\ Top(p).tree = {}
        /\ UNCHANGED <<ret, texts, strays>>
    BY TopFacts DEF CreateNode, Goes, FrameOK
  <1>2. CASE /\ Free(p) # {} /\ heap' = heap \cup {Fresh(p)} /\ UNCHANGED missing
             /\ SetTop(p, [Top(p) EXCEPT !.do = "add", !.tree = {Fresh(p)}])
    <2> DEFINE frame == [Top(p) EXCEPT !.do = "add", !.tree = {Fresh(p)}]
    <2>1. Fresh(p) \in Nodes \ heap  BY <1>2, FreshNode
    <2>2. frame \in FrameType /\ FrameOK(p, frame) /\ frame.tree = Top(p).tree \cup ({Fresh(p)} \ {})
      BY <1>1, <2>1 DEF FrameType, FrameOK
    <2>3. SetTop(p, frame)  BY <1>2
    <2> HIDE DEF frame
    <2>4. DOMAIN missing' = Packagers  BY <1>2 DEF PackageInv, PackageTypes
    <2>5. Replaces(p, frame, {Fresh(p)}, {})  BY <1>1, <1>2, <2>1, <2>2, <2>3, <2>4 DEF Replaces
    <2> QED  BY <1>1, <2>5, TopReplaced
  <1>3. CASE /\ SetTop(p, [Top(p) EXCEPT !.do = "exit"]) /\ Misses(p, Top(p).fn) /\ UNCHANGED heap
    <2> DEFINE frame == [Top(p) EXCEPT !.do = "exit"]
    <2>1. frame \in FrameType /\ FrameOK(p, frame) /\ frame.tree = Top(p).tree \cup ({} \ {}) /\ frame.do = "exit"
      BY <1>1 DEF FrameType, FrameOK
    <2>2. SetTop(p, frame)  BY <1>3
    <2>3. DOMAIN missing' = Packagers /\ \A q \in Packagers \ {p} : missing'[q] = missing[q]
      BY <1>3 DEF Misses, PackageInv, PackageTypes
    <2> HIDE DEF frame
    <2>4. Replaces(p, frame, {}, {})  BY <1>1, <1>3, <2>1, <2>2, <2>3 DEF Replaces
    <2> QED  BY <1>1, <2>4, TopReplaced
  <1> QED  BY <1>2, <1>3 DEF CreateNode

\* A frame of a function that got a node goes on to its next member.
Advanced(old, more) == [old EXCEPT !.at = old.at + 1, !.tree = old.tree \cup more]

LEMMA NextMember ==
    ASSUME NEW p \in Packagers, NEW old \in FrameType, FrameOK(p, old), old.do = "add",
           NEW more \in SUBSET Nodes
    PROVE  /\ Advanced(old, more) \in FrameType /\ FrameOK(p, Advanced(old, more))
           /\ Advanced(old, more).do = "add" /\ Advanced(old, more).tree = old.tree \cup more
  <1> DEFINE count == old.at + 1
             tree == old.tree \cup more
             new == [old EXCEPT !.at = count, !.tree = tree]
  <1>1. /\ old.fn \in DOMAIN Body /\ old.at \in Nat /\ old.tree \in SUBSET Nodes
        /\ old.fn \in Functions[p] /\ old.at >= 1
    BY DEF FrameType, FrameOK
  <1>2. count \in Nat /\ count >= 1 /\ tree \in SUBSET Nodes  BY <1>1
  <1>3. Advanced(old, more) = new  BY DEF Advanced
  <1> HIDE DEF count, tree
  <1>4. new \in FrameType  BY <1>2 DEF FrameType
  <1>5. new.fn = old.fn /\ new.do = old.do /\ new.at = count /\ new.tree = tree  BY DEF FrameType
  <1> HIDE DEF new
  <1> QED  BY <1>1, <1>2, <1>3, <1>4, <1>5 DEF FrameOK, tree

LEMMA MissesOne ==
    ASSUME PackageInv, NEW p \in Packagers, NEW name, Misses(p, name)
    PROVE  /\ DOMAIN missing' = Packagers /\ \A q \in Packagers \ {p} : missing'[q] = missing[q]
           /\ missing'[p] = missing[p] \cup {name}
  BY DEF Misses, PackageInv, PackageTypes

LEMMA AddLeafInv == ASSUME PackageInv, NEW p \in Packagers, AddLeaf(p) PROVE PackageInv'
  <1>1. /\ Depth(p) > 0 /\ Top(p).do = "add" /\ Top(p) \in FrameType /\ FrameOK(p, Top(p))
        /\ MemberOf(p, Member(p))
    BY TopFacts DEF AddLeaf, AddsMember, Goes
  <1>2. Fresh(p) \in Nodes \ heap /\ heap' = heap \cup {Fresh(p)} /\ ret' = ret /\ texts' = texts
    BY FreshNode DEF AddLeaf
  <1>4. CASE /\ SetTop(p, [Top(p) EXCEPT !.at = @ + 1, !.tree = @ \cup {Fresh(p)}])
             /\ UNCHANGED <<missing, strays>>
    <2> DEFINE frame == Advanced(Top(p), {Fresh(p)})
    <2>0. {Fresh(p)} \in SUBSET Nodes  BY <1>2
    <2>1. /\ frame \in FrameType /\ FrameOK(p, frame) /\ frame.do = "add"
          /\ frame.tree = Top(p).tree \cup {Fresh(p)}
      BY <1>1, <2>0, NextMember
    <2>2. SetTop(p, frame)  BY <1>4 DEF Advanced
    <2> HIDE DEF frame
    <2>3. DOMAIN missing' = Packagers  BY <1>4 DEF PackageInv, PackageTypes
    <2>4. Replaces(p, frame, {Fresh(p)}, {})  BY <1>1, <1>2, <1>4, <2>1, <2>2, <2>3 DEF Replaces
    <2> QED  BY <1>1, <2>4, TopReplaced
  <1>5. CASE /\ Member(p).kind = "kv" /\ strays' = strays \cup {Fresh(p)}
             /\ SetTop(p, [Top(p) EXCEPT !.at = @ + 1]) /\ Misses(p, "key")
    <2> DEFINE frame == [Top(p) EXCEPT !.at = @ + 1]
    <2>1. frame \in FrameType /\ FrameOK(p, frame) /\ frame.do = "add" /\ frame.tree = Top(p).tree
      BY <1>1 DEF FrameType, FrameOK
    <2>2. SetTop(p, frame)  BY <1>5
    <2> HIDE DEF frame
    <2>3. "key" \in Optional[p]  BY <1>1, <1>5 DEF MemberOf
    <2>4. /\ DOMAIN missing' = Packagers /\ \A q \in Packagers \ {p} : missing'[q] = missing[q]
          /\ missing'[p] = missing[p] \cup {"key"}
      BY <1>5, MissesOne
    <2>5. Replaces(p, frame, {Fresh(p)}, {Fresh(p)})
      BY <1>1, <1>2, <1>5, <2>1, <2>2, <2>3, <2>4 DEF Replaces
    <2> QED  BY <1>1, <2>5, TopReplaced
  <1> QED  BY <1>4, <1>5 DEF AddLeaf

LEMMA LeafFailsInv == ASSUME PackageInv, NEW p \in Packagers, LeafFails(p) PROVE PackageInv'
  <1>1. /\ Depth(p) > 0 /\ Top(p).do = "add" /\ Top(p) \in FrameType /\ FrameOK(p, Top(p))
        /\ MemberOf(p, Member(p))
    BY TopFacts DEF LeafFails, AddsMember, Goes
  <1>2. /\ heap' = heap /\ ret' = ret /\ texts' = texts /\ strays' = strays
        /\ DOMAIN missing' = Packagers /\ \A q \in Packagers \ {p} : missing'[q] = missing[q]
        /\ missing'[p] = missing[p] \cup {Member(p).name}
    BY MissesOne DEF LeafFails
  <1>3. CASE Member(p).kind = "unchecked"
    <2> DEFINE frame == [Top(p) EXCEPT !.at = @ + 1]
    <2>1. frame \in FrameType /\ FrameOK(p, frame) /\ frame.do = "add" /\ frame.tree = Top(p).tree
      BY <1>1 DEF FrameType, FrameOK
    <2>2. SetTop(p, frame)  BY <1>3 DEF LeafFails
    <2> HIDE DEF frame
    <2>3. Member(p).name \in Optional[p]  BY <1>1, <1>3 DEF MemberOf
    <2>4. Replaces(p, frame, {}, {})  BY <1>1, <1>2, <2>1, <2>2, <2>3 DEF Replaces
    <2> QED  BY <1>1, <2>4, TopReplaced
  <1>4. CASE Member(p).kind # "unchecked"
    <2> DEFINE frame == [Top(p) EXCEPT !.do = "exit"]
    <2>1. frame \in FrameType /\ FrameOK(p, frame) /\ frame.do = "exit" /\ frame.tree = Top(p).tree
      BY <1>1 DEF FrameType, FrameOK
    <2>2. SetTop(p, frame)  BY <1>4 DEF LeafFails
    <2> HIDE DEF frame
    <2>3. Replaces(p, frame, {}, {})  BY <1>1, <1>2, <2>1, <2>2 DEF Replaces
    <2> QED  BY <1>1, <2>3, TopReplaced
  <1> QED  BY <1>3, <1>4

LEMMA ReturnTreeInv == ASSUME PackageInv, NEW p \in Packagers, ReturnTree(p) PROVE PackageInv'
  <1>0. Depth(p) \in Nat /\ Depth(p) > 1 /\ Stacks  BY StackFacts DEF ReturnTree, PackageInv, PackageTypes
  <1>1. Depth(p) > 0 /\ Top(p).do = "add" /\ Top(p) \in FrameType
    BY <1>0, TopFacts DEF ReturnTree, Finished, Goes
  <1>2. Caller(p) \in FrameType /\ FrameOK(p, Caller(p)) /\ Caller(p).do = "add"
    BY <1>0, StackFacts DEF PackageInv, FramesOK, Caller
  <1> DEFINE frame == Advanced(Caller(p), Top(p).tree)
  <1>3. /\ frame \in FrameType /\ FrameOK(p, frame) /\ frame.do = "add"
        /\ frame.tree = Caller(p).tree \cup Top(p).tree
    <2>1. Top(p).tree \in SUBSET Nodes  BY <1>1 DEF FrameType
    <2> QED  BY <1>2, <2>1, NextMember
  <1>4. SetCaller(p, frame) /\ UNCHANGED <<heap, ret, missing, texts, strays>>  BY DEF ReturnTree, Advanced
  <1> HIDE DEF frame
  <1> QED  BY <1>0, <1>1, <1>2, <1>3, <1>4, TopPopped

LEMMA CallChildInv == ASSUME PackageInv, NEW p \in Packagers, CallChild(p) PROVE PackageInv'
  <1>1. /\ Depth(p) \in Nat \ {0} /\ Top(p).do = "add" /\ MemberOf(p, Member(p)) /\ Member(p).kind = "child"
        /\ Top(p) = stack[p][Depth(p)] /\ Stacks /\ ret[p] = "none"
    BY TopFacts DEF CallChild, AddsMember, Goes
  <1> DEFINE frame == Frame(Member(p).name)
  <1>2. /\ frame \in FrameType /\ FrameOK(p, frame) /\ frame.do = "create" /\ frame.tree = {}
        /\ stack' = [stack EXCEPT ![p] = Append(@, frame)]
    <2>1. Member(p).name \in Functions[p] /\ Member(p).name \in DOMAIN Body
      BY <1>1, FunctionsExist DEF MemberOf
    <2> QED  BY <2>1 DEF Frame, FrameType, FrameOK, CallChild
  <1> HIDE DEF frame
  <1>3. /\ Stacks' /\ Depth(p)' = Depth(p) + 1 /\ \A q \in Packagers \ {p} : stack'[q] = stack[q]
        /\ \A i \in 1 .. Depth(p) : stack'[p][i] = stack[p][i]
        /\ stack'[p][Depth(p) + 1] = frame
    BY <1>1, <1>2, Pushed
  <1>4. UNCHANGED <<heap, ret, missing, texts, strays>>  BY DEF CallChild
  <1>5. \A q \in Packagers \ {p} : Depth(q)' = Depth(q)  BY <1>3 DEF Depth
  <1>6. PackageTypes'  BY <1>3, <1>4 DEF PackageInv, PackageTypes
  <1>7. FramesOK'
    <2>1. \A i \in 1 .. Depth(p) + 1 : FrameOK(p, stack'[p][i])
      BY <1>1, <1>2, <1>3 DEF PackageInv, FramesOK
    <2>2. \A i \in 1 .. Depth(p) : stack'[p][i].do = "add"
      BY <1>1, <1>3 DEF PackageInv, FramesOK
    <2> QED  BY <1>1, <1>3, <1>4, <1>5, <2>1, <2>2 DEF PackageInv, FramesOK
  <1>8. Lacks'
    <2>1. \A q \in Packagers \ {p} : Exiting(q)' = Exiting(q)  BY <1>3, <1>5 DEF Exiting
    <2>2. Exiting(p) => Exiting(p)'  BY <1>1, <1>3 DEF Exiting
    <2> QED  BY <1>1, <1>3, <1>4, <1>5, <2>1, <2>2 DEF PackageInv, Lacks
  <1>9. Accounts'
    <2>1. \A q \in Packagers \ {p} : \A i \in Nat : \A n : Owns(q, i, n)' <=> Owns(q, i, n)
      BY <1>3, <1>5 DEF Owns
    <2>2. ASSUME NEW i \in Nat, NEW n PROVE Owns(p, i, n)' <=> Owns(p, i, n)
      <3>1. CASE i \in 1 .. Depth(p)  BY <1>1, <1>3, <3>1 DEF Owns
      <3>2. CASE i = Depth(p) + 1  BY <1>1, <1>2, <1>3, <3>2 DEF Owns
      <3>3. CASE i \notin 1 .. Depth(p) + 1  BY <1>1, <1>3, <3>3 DEF Owns
      <3> QED  BY <1>1, <3>1, <3>2, <3>3
    <2>3. Grows(p, 1, {}, {})  BY <1>4, <2>1, <2>2 DEF Grows
    <2> QED  BY <2>3, Grown DEF PackageInv
  <1> QED  BY <1>6, <1>7, <1>8, <1>9 DEF PackageInv

LEMMA ExitMemInv == ASSUME PackageInv, NEW p \in Packagers, ExitMem(p) PROVE PackageInv'
  <1>1. /\ Depth(p) \in Nat \ {0} /\ Top(p).do = "exit" /\ Stacks
        /\ heap' = heap \ Top(p).tree /\ UNCHANGED <<missing, texts, strays>>
    BY TopFacts DEF ExitMem, Goes
  <1>2. CASE Depth(p) > 1
    <2>1. Caller(p) \in FrameType /\ FrameOK(p, Caller(p)) /\ Caller(p).do = "add"
      BY <1>1, <1>2, StackFacts DEF PackageInv, FramesOK, Caller
    <2> DEFINE frame == [Caller(p) EXCEPT !.do = "exit"]
    <2>2. frame \in FrameType /\ FrameOK(p, frame) /\ frame.do = "exit" /\ frame.tree = Caller(p).tree
      BY <2>1 DEF FrameType, FrameOK
    <2>3. SetCaller(p, frame) /\ UNCHANGED ret  BY <1>2 DEF ExitMem
    <2> HIDE DEF frame
    <2> QED  BY <1>1, <1>2, <2>2, <2>3, TopPopped
  <1>3. CASE ~(Depth(p) > 1)
    <2>1. Depth(p) = 1 /\ stack' = [stack EXCEPT ![p] = <<>>] /\ ret' = [ret EXCEPT ![p] = "NULL"]
      BY <1>1, <1>3 DEF ExitMem
    <2> DEFINE none == {}
    <2>2. /\ none \in SUBSET Nodes /\ none \cap heap = {} /\ texts' = texts \cup none
          /\ heap' = (heap \ Top(p).tree) \cup none
      BY <1>1
    <2> HIDE DEF none
    <2> QED  BY <1>1, <2>1, <2>2, LastPopped
  <1> QED  BY <1>2, <1>3

LEMMA PrintTextInv == ASSUME PackageInv, NEW p \in Packagers, PrintText(p) PROVE PackageInv'
  <1>1. Depth(p) = 1 /\ Top(p).do = "add" /\ stack' = [stack EXCEPT ![p] = <<>>] /\ UNCHANGED <<missing, strays>>
    BY DEF PrintText, Finished, Goes
  <1>2. CASE /\ Free(p) # {} /\ heap' = (heap \ Top(p).tree) \cup {Fresh(p)}
             /\ texts' = texts \cup {Fresh(p)} /\ ret' = [ret EXCEPT ![p] = "text"]
    <2>1. {Fresh(p)} \in SUBSET Nodes /\ {Fresh(p)} \cap heap = {}  BY <1>2, FreshNode
    <2> QED  BY <1>1, <1>2, <2>1, LastPopped
  <1>3. CASE heap' = heap \ Top(p).tree /\ ret' = [ret EXCEPT ![p] = "NULL"] /\ UNCHANGED texts
    <2> DEFINE none == {}
    <2>1. /\ none \in SUBSET Nodes /\ none \cap heap = {} /\ texts' = texts \cup none
          /\ heap' = (heap \ Top(p).tree) \cup none
      BY <1>3
    <2> HIDE DEF none
    <2> QED  BY <1>1, <1>3, <2>1, LastPopped
  <1> QED  BY <1>1, <1>2, <1>3 DEF PrintText

LEMMA PackageStepInv == ASSUME PackageInv, NEW p \in Packagers, PackageStep(p) PROVE PackageInv'
  BY CreateNodeInv, AddLeafInv, LeafFailsInv, CallChildInv, ReturnTreeInv, ExitMemInv, PrintTextInv
  DEF PackageStep

\* A step of one task's function leaves the other task's alone.
LEMMA StepLocal ==
    ASSUME PackageInv, NEW p \in Packagers, PackageStep(p)
    PROVE  /\ Depth(p) > 0 /\ DOMAIN ret' = Packagers
           /\ \A q \in Packagers \ {p} : /\ stack'[q] = stack[q] /\ ret'[q] = ret[q] /\ missing'[q] = missing[q]
  <1>0. Stacks /\ DOMAIN ret = Packagers /\ DOMAIN missing = Packagers /\ Depth(p) \in Nat
    BY StackFacts DEF PackageInv, PackageTypes
  <1>1. Depth(p) > 0
    BY <1>0 DEF PackageStep, CreateNode, AddLeaf, LeafFails, CallChild, ReturnTree, ExitMem, PrintText,
                Goes, AddsMember, Finished
  <1>2. DOMAIN ret' = Packagers /\ \A q \in Packagers \ {p} : ret'[q] = ret[q]
    BY <1>0 DEF PackageStep, CreateNode, AddLeaf, LeafFails, CallChild, ReturnTree, ExitMem, PrintText
  <1>3. \A q \in Packagers \ {p} : missing'[q] = missing[q]
    BY <1>0 DEF PackageStep, CreateNode, AddLeaf, LeafFails, CallChild, ReturnTree, ExitMem, PrintText, Misses
  <1>4. \A q \in Packagers \ {p} : stack'[q] = stack[q]
    <2>1. \E new : stack' = [stack EXCEPT ![p] = new]
      BY DEF PackageStep, CreateNode, AddLeaf, LeafFails, CallChild, ReturnTree, ExitMem, PrintText,
             SetTop, SetCaller
    <2> QED  BY <1>0, <2>1 DEF Stacks
  <1> QED  BY <1>1, <1>2, <1>3, <1>4

\* Whatever else happens, the functions keep their invariant.
LEMMA PackageNext == ASSUME PackageInv, [Next]_vars PROVE PackageInv'
  <1>1. CASE UNCHANGED packageVars  BY <1>1, PackageSame
  <1>2. CASE GetLocalWifiIp  BY <1>2, TwoPackagers, PackageStarts DEF GetLocalWifiIp
  <1>3. CASE BuildReport  BY <1>3, TwoPackagers, PackageStarts DEF BuildReport
  <1>4. CASE Config_Property  BY <1>4, TwoPackagers, TextTaken DEF Config_Property
  <1>5. CASE SendReport  BY <1>5, TwoPackagers, TextTaken DEF SendReport
  <1>6. CASE PowerLoss  BY <1>6, PackageOff DEF PowerLoss
  <1>7. ASSUME NEW p \in Packagers, PackagerStep(p) PROVE PackageInv'
    BY <1>7, PackageStepInv DEF PackagerStep
  <1>8. Call \/ set_macaddr \/ BadAddress \/ StoreStep \/ UNCHANGED vars => UNCHANGED packageVars
    BY DEF Call, set_macaddr, BadAddress, StoreStep, vars
  <1> QED  BY <1>1, <1>2, <1>3, <1>4, <1>5, <1>6, <1>7, <1>8 DEF Next

THEOREM PackageInvariant == Spec => []PackageInv
  <1>1. Init => PackageInv  BY PackageInitially DEF Init
  <1> QED  BY <1>1, PackageNext, PTL DEF Spec

LEMMA OwnersAreFrames ==
    /\ \A p, i, n : Owns(p, i, n) <=> <<p, i>> \in Frames /\ n \in Tree(<<p, i>>)
    /\ \A f \in Frames : f = <<f[1], f[2]>> /\ f[1] \in Packagers /\ f[2] \in 1 .. Depth(f[1])
  <1>1. \A p, i : <<p, i>> \in Frames <=> p \in Packagers /\ i \in 1 .. Depth(p)  BY DEF Frames
  <1>2. \A p, i : Tree(<<p, i>>) = stack[p][i].tree  BY DEF Tree
  <1>3. \A p, i, n : Owns(p, i, n) <=> <<p, i>> \in Frames /\ n \in Tree(<<p, i>>)  BY <1>1, <1>2 DEF Owns
  <1>4. \A f \in Frames : f = <<f[1], f[2]>> /\ f[1] \in Packagers /\ f[2] \in 1 .. Depth(f[1])  BY DEF Frames
  <1> QED  BY <1>3, <1>4

LEMMA HeapIsAccounted == PackageInv => HeapAccounted
  <1> SUFFICES ASSUME PackageInv PROVE HeapAccounted  OBVIOUS
  <1>0. \A p \in Packagers : Depth(p) \in Nat  BY StackFacts DEF PackageInv, PackageTypes
  <1>1. \A f \in Frames : \A n \in Tree(f) : Owns(f[1], f[2], n) /\ f[1] \in Packagers /\ f[2] \in Nat
    BY <1>0, OwnersAreFrames
  <1>2. ASSUME NEW Owned, Owned = UNION {Tree(f) : f \in Frames}
        PROVE  heap = Owned \cup texts \cup strays
    <2>0. \A n : n \in Owned <=> \E f \in Frames : n \in Tree(f)  BY <1>2
    <2>1. ASSUME NEW n \in heap PROVE n \in Owned \cup texts \cup strays
      <3>1. n \in texts \/ n \in strays \/ \E p \in Packagers : \E i \in Nat : Owns(p, i, n)
        BY <2>1 DEF PackageInv, Accounts
      <3>2. (\E p \in Packagers : \E i \in Nat : Owns(p, i, n)) => n \in Owned
        BY <2>0, OwnersAreFrames
      <3> QED  BY <3>1, <3>2
    <2>2. ASSUME NEW n \in Owned \cup texts \cup strays PROVE n \in heap
      <3>1. n \in Owned => n \in heap
        BY <1>1, <2>0 DEF PackageInv, Accounts
      <3> QED  BY <2>2, <3>1 DEF PackageInv, Accounts
    <2> QED  BY <2>1, <2>2
  <1>3. texts \cap strays = {}  BY DEF PackageInv, Accounts
  <1>4. ASSUME NEW f \in Frames PROVE Tree(f) \cap (texts \cup strays) = {}
    BY <1>1, <1>4 DEF PackageInv, Accounts
  <1>5. ASSUME NEW f \in Frames, NEW g \in Frames \ {f}, NEW n \in Tree(f), n \in Tree(g) PROVE FALSE
    <2>1. f[1] = g[1] /\ f[2] = g[2]  BY <1>1, <1>5 DEF PackageInv, Accounts
    <2> QED  BY <1>5, <2>1, OwnersAreFrames
  <1>6. \A f \in Frames : \A g \in Frames \ {f} : Tree(f) \cap Tree(g) = {}  BY <1>5
  <1>7. \A f \in Frames : Tree(f) \cap (texts \cup strays) = {}  BY <1>4
  <1>8. heap = (UNION {Tree(f) : f \in Frames}) \cup texts \cup strays  BY <1>2, Zenon
  <1>9. \A f \in Frames : /\ Tree(f) \cap (texts \cup strays) = {}
                          /\ \A g \in Frames \ {f} : Tree(f) \cap Tree(g) = {}
    BY <1>6, <1>7
  <1> QED  BY <1>3, <1>8, <1>9 DEF HeapAccounted

\* Whatever fails, however deep, and whatever the other task does: no node is freed
\* twice or is left without an owner.
THEOREM HeapHasOwners == Spec => []HeapAccounted
  BY PackageInvariant, HeapIsAccounted, PTL

\* A text that is returned lacks at most what the code does not check.
THEOREM TextsLackOptional == Spec => []MissingOnlyOptional
  <1>1. PackageInv => MissingOnlyOptional
    BY TwoPackagers DEF PackageInv, Lacks, MissingOnlyOptional, Optional
  <1> QED  BY PackageInvariant, <1>1, PTL

----------------------------------------------------------------------------
(* The start of the board *)

StartTypes ==
    /\ pc \in {"off", "mac", "wifi", "packaging", "storing", "serving", "fault"}
    /\ mac \in {"other", "serial"} /\ ip \in IpLengths \cup {NoAddress}
    /\ trouble \subseteq {"i2c", "mac", "netif", "memory"} /\ launches \in Nat

\* The text of this start.
Text == [pos |-> "first", type |-> RTD_TEXT, len |-> TextLength, id |-> launches]

LEMMA TextIsRecord == StartTypes => Text \in Records /\ LaidOut(Text)
  <1> SUFFICES ASSUME StartTypes PROVE Text \in Records /\ LaidOut(Text)  OBVIOUS
  <1>1. ip \in 0 .. 15 /\ (ip = 0 \/ ip \in 7 .. 15)  BY StartAssumption DEF StartTypes, NoAddress
  <1>2. TextBase \in Nat  BY StartAssumption
  <1> DEFINE a == IF "service" \in missing["config"] THEN 25 ELSE 0
             b == IF "ipAddress" \in missing["config"] THEN 15 + ip ELSE 0
             c == IF "port" \in missing["config"] THEN 14 ELSE 0
  <1>3. a \in 0 .. 25 /\ (b = 0 \/ b = 15 + ip) /\ c \in 0 .. 14  OBVIOUS
  <1>4. TextLength = TextBase + ip - a - b - c  BY DEF TextLength
  <1> HIDE DEF a, b, c
  <1>5. TextLength \in (TextBase - 54) .. (TextBase + 15)  BY <1>1, <1>2, <1>3, <1>4
  <1>6. TextLength \in 0 .. UINT16_MAX /\ TextLength # 248  BY <1>5, StartAssumption
  <1>7. launches \in Nat  BY DEF StartTypes
  <1> HIDE DEF Text
  <1>8. Text \in Records  BY <1>6, <1>7 DEF Text, Records
  <1>9. Text.type = RTD_TEXT /\ Text.len = TextLength  BY DEF Text
  <1> QED  BY <1>6, <1>8, <1>9 DEF LaidOut

\* The tag is written by one call at a time, of the text of this start; a fault of the
\* report task may leave it unfinished.
TagPart ==
    /\ TagInv /\ TagNumbers
    /\ call.pc # "idle" => pc \in {"storing", "fault"} /\ call.req.pos = "first"
    /\ pc = "storing" => call.pc # "idle" /\ call.req = Text
    /\ pc = "serving" /\ "i2c" \notin trouble => stored.req = Text
    /\ pc \in {"wifi", "packaging", "storing", "serving"} /\ "mac" \notin trouble => mac = "serial"

\* What stops the firmware, and that a failed allocation or a missing interface is
\* remembered until then.
FaultPart ==
    /\ \A p \in Packagers : ret[p] = "NULL" => "memory" \in trouble
    /\ pc = "packaging" /\ ip = NoAddress => "netif" \in trouble
    /\ Depth("config") > 0 \/ ret["config"] # "none" => pc \in {"packaging", "fault"}
    /\ pc = "fault" => trouble \cap {"memory", "netif"} # {}

StartInv == PackageInv /\ StartTypes /\ TagPart /\ FaultPart

LEMMA StartInitially == Init => StartInv
  <1> SUFFICES ASSUME Init PROVE StartInv  OBVIOUS
  <1>1. PackageInv /\ TagInv /\ TagNumbers  BY PackageInitially, TagInitially, TagNumbersInitially DEF Init
  <1>2. StartTypes  BY DEF Init, StartTypes
  <1>3. call.pc = "idle" /\ pc = "off"  BY DEF Init, TagInit, Idle
  <1>4. TagPart  BY <1>1, <1>3 DEF TagPart
  <1>5. FaultPart  BY <1>3, TwoPackagers DEF FaultPart, Init, PackageInit, Depth
  <1> QED  BY <1>1, <1>2, <1>4, <1>5 DEF StartInv

LEMMA TypesNext == StartTypes /\ [Next]_vars => StartTypes'
  <1> SUFFICES ASSUME StartTypes, [Next]_vars PROVE StartTypes'  OBVIOUS
  <1> USE DEF StartTypes
  <1>1. CASE Call  BY <1>1 DEF Call
  <1>2. CASE set_macaddr  BY <1>2 DEF set_macaddr
  <1>3. CASE GetLocalWifiIp  BY <1>3 DEF GetLocalWifiIp
  <1>4. CASE BadAddress  BY <1>4 DEF BadAddress
  <1>5. CASE Config_Property  BY <1>5 DEF Config_Property
  <1>6. CASE StoreStep  BY <1>6 DEF StoreStep
  <1>7. CASE BuildReport  BY <1>7 DEF BuildReport
  <1>8. CASE SendReport  BY <1>8 DEF SendReport
  <1>9. CASE PowerLoss  BY <1>9 DEF PowerLoss
  <1>10. ASSUME NEW p \in Packagers, PackagerStep(p) PROVE StartTypes'  BY <1>10 DEF PackagerStep
  <1>11. CASE UNCHANGED vars  BY <1>11 DEF vars, startVars
  <1> QED  BY <1>1, <1>2, <1>3, <1>4, <1>5, <1>6, <1>7, <1>8, <1>9, <1>10, <1>11 DEF Next

LEMMA SameText ==
    ASSUME ip' = ip, launches' = launches, missing'["config"] = missing["config"]
    PROVE  Text' = Text
  BY DEF Text, TextLength

\* A transfer of a first record: the call goes on, or it returns.
LEMMA FirstGoesOn ==
    ASSUME TagInv, TagStep, call.pc # "idle", call.req.pos = "first"
    PROVE  \/ call'.pc # "idle" /\ call'.req = call.req
           \/ call'.pc = "idle" /\ (stored' = Nothing \/ stored'.req = call.req)
  <1>1. PICK ok \in BOOLEAN : WriteFirstPage(ok) \/ WriteNextPage(ok)
    <2>1. call.pc \in {"firstPage", "nextPage"}  BY DEF TagInv
    <2> QED  BY <2>1 DEF TagStep, ReadEnd, ReadHeader, RewriteRead, RewriteWrite, ReadLast, SplitWrite
  <1>2. /\ CallOK(call) /\ CallOK(Note(call, ok)) /\ Note(call, ok).req = call.req
        /\ Note(call, ok).page = call.page
    BY Noted DEF TagInv
  <1>3. ASSUME Return(Note(call, ok), Written(ok))
        PROVE  call'.pc = "idle" /\ (stored' = Nothing \/ stored'.req = call.req)
    BY <1>2, <1>3 DEF Return, Idle
  <1>4. ASSUME NEW o, CallOK(o), o.req = call.req, NEW page, call' = [o EXCEPT !.pc = "nextPage", !.page = page]
        PROVE  call'.pc # "idle" /\ call'.req = call.req
    BY <1>4 DEF CallOK, Fields
  <1>5. ASSUME NEW page, NEW added, call.pc = "nextPage", call' = [call EXCEPT !.page = page, !.added = added]
        PROVE  call'.pc # "idle" /\ call'.req = call.req
    BY <1>2, <1>5 DEF CallOK, Fields
  <1>6. CASE WriteFirstPage(ok)
    <2>1. \/ Return(Note(call, ok), Written(ok))
          \/ call' = [Note(call, ok) EXCEPT !.pc = "nextPage", !.page = Note(call, ok).page + 1]
      BY <1>6 DEF WriteFirstPage
    <2> QED  BY <1>2, <1>3, <1>4, <2>1
  <1>7. CASE WriteNextPage(ok)
    <2>1. call.pc = "nextPage"  BY <1>7 DEF WriteNextPage
    <2>2. \/ Return(Note(call, ok), Written(ok))
          \/ call' = [call EXCEPT !.page = call.page + 1, !.added = call.added + PageSize]
      BY <1>7 DEF WriteNextPage
    <2> QED  BY <1>3, <1>5, <2>1, <2>2
  <1> QED  BY <1>1, <1>6, <1>7

LEMMA TagNext == StartInv /\ [Next]_vars => TagPart'
  <1> SUFFICES ASSUME StartInv, [Next]_vars PROVE TagPart'  OBVIOUS
  <1>0. PackageInv /\ StartTypes /\ TagPart /\ FaultPart  BY DEF StartInv
  <1>1. ASSUME UNCHANGED tagVars
        PROVE  /\ TagInv' /\ TagNumbers' /\ call' = call /\ stored' = stored
    BY <1>0, <1>1, TagSame, TagNumbersSame DEF TagPart, tagVars
  <1>2. CASE Call  BY <1>0, <1>1, <1>2 DEF Call, TagPart
  <1>3. CASE set_macaddr  BY <1>0, <1>1, <1>3 DEF set_macaddr, TagPart
  <1>4. CASE GetLocalWifiIp  BY <1>0, <1>1, <1>4 DEF GetLocalWifiIp, TagPart
  <1>5. CASE BadAddress
    <2>1. pc = "packaging"  BY <1>0, <1>5 DEF BadAddress, AtAddress, AddsMember, Goes, FaultPart
    <2> QED  BY <1>0, <1>1, <1>5, <2>1 DEF BadAddress, TagPart
  <1>6. CASE Config_Property
    <2>1. pc = "packaging" /\ call.pc = "idle"  BY <1>0, <1>6 DEF Config_Property, TagPart
    <2>2. CASE ret["config"] = "NULL"
      <3>1. pc' = "fault" /\ UNCHANGED tagVars  BY <1>6, <2>2 DEF Config_Property
      <3> QED  BY <1>0, <1>1, <2>1, <3>1 DEF TagPart
    <2>3. CASE ret["config"] # "NULL"
      <3>1. /\ pc' = "storing" /\ Store(Text) /\ UNCHANGED <<mac, ip, launches, trouble>>
            /\ missing' = missing
        BY <1>6, <2>3 DEF Config_Property, TakeText, Text
      <3>2. Text \in Records /\ Text' = Text /\ Text.pos = "first"
        BY <1>0, <3>1, TextIsRecord, SameText DEF Text
      <3>3. TagInv' /\ TagNumbers'  BY <1>0, <3>1, <3>2, StoreInv, StoreNumbers DEF TagPart
      <3>4. call'.pc = "firstPage" /\ call'.req = Text
        <4> HIDE DEF Text
        <4> DEFINE o == [Idle EXCEPT !.req = Text]
                   added == PageSize - firstRecord(Text).ptr
        <4>1. call' = [o EXCEPT !.pc = "firstPage", !.added = added]
          BY <3>1, <3>2 DEF Store, StartPayload
        <4>2. CallOK(o) /\ o.req = Text  BY DEF Idle, CallOK, Fields
        <4> HIDE DEF o, added
        <4> QED  BY <4>1, <4>2 DEF CallOK, Fields
      <3> QED  BY <1>0, <2>1, <3>1, <3>2, <3>3, <3>4 DEF TagPart
    <2> QED  BY <2>2, <2>3
  <1>7. CASE StoreStep
    <2>1. /\ pc = "storing" /\ TagStep /\ UNCHANGED <<missing, mac, ip, launches>>
          /\ trouble' = IF stored' = Nothing /\ (call'.pc = "idle" \/ ~call'.clean)
                        THEN trouble \cup {"i2c"} ELSE trouble
          /\ IF call'.pc = "idle" THEN pc' = "serving" ELSE pc' = pc
      BY <1>7 DEF StoreStep, packageVars
    <2>2. call.pc # "idle" /\ call.req = Text /\ call.req.pos = "first"  BY <1>0, <2>1 DEF TagPart
    <2>3. TagInv' /\ TagNumbers'  BY <1>0, <2>1, TagStepInv, TagStepNumbers DEF TagPart
    <2>4. Text' = Text  BY <2>1, SameText
    <2>5. \/ call'.pc # "idle" /\ call'.req = Text
          \/ call'.pc = "idle" /\ (stored' = Nothing \/ stored'.req = Text)
      BY <1>0, <2>1, <2>2, FirstGoesOn DEF TagPart
    <2>6. Text.pos = "first"  BY DEF Text
    <2> HIDE DEF Text
    <2> QED  BY <1>0, <2>1, <2>3, <2>4, <2>5, <2>6 DEF TagPart
  <1>8. CASE BuildReport
    <2>1. UNCHANGED tagVars /\ UNCHANGED <<pc, mac, ip, launches, trouble>> /\ missing'["config"] = missing["config"]
      BY <1>0, <1>8, TwoPackagers DEF BuildReport, Package, PackageInv, PackageTypes
    <2>2. Text' = Text  BY <2>1, SameText
    <2> QED  BY <1>0, <1>1, <2>1, <2>2 DEF TagPart
  <1>9. CASE SendReport
    <2>1. /\ UNCHANGED tagVars /\ UNCHANGED <<mac, ip, launches, trouble>> /\ missing' = missing
          /\ pc' \in {"fault", pc}
      BY <1>9 DEF SendReport, TakeText
    <2>2. Text' = Text  BY <2>1, SameText
    <2> QED  BY <1>0, <1>1, <2>1, <2>2 DEF TagPart
  <1>10. CASE PowerLoss
    <2>1. TagPowerLoss /\ pc' = "off"  BY <1>10 DEF PowerLoss
    <2>2. TagInv' /\ TagNumbers'  BY <1>0, <2>1, TagPowerLossInv, TagPowerLossNumbers DEF TagPart
    <2>3. call'.pc = "idle"  BY <2>1 DEF TagPowerLoss, Idle
    <2> QED  BY <2>1, <2>2, <2>3 DEF TagPart
  <1>11. ASSUME NEW p \in Packagers, PackagerStep(p) PROVE TagPart'
    <2>1. /\ UNCHANGED tagVars /\ UNCHANGED <<pc, mac, ip, launches>>
          /\ trouble' = trouble \/ trouble' = trouble \cup {"memory"}
      BY <1>11 DEF PackagerStep
    <2>2. pc \in {"storing", "serving"} => missing'["config"] = missing["config"]
      <3>1. /\ Depth(p) > 0 /\ \A q \in Packagers \ {p} : missing'[q] = missing[q]
        BY <1>0, <1>11, StepLocal DEF PackagerStep
      <3> QED  BY <1>0, <3>1, TwoPackagers DEF FaultPart
    <2>3. pc \in {"storing", "serving"} => Text' = Text  BY <2>1, <2>2, SameText
    <2> HIDE DEF Text
    <2> QED  BY <1>0, <1>1, <2>1, <2>3 DEF TagPart
  <1>12. CASE UNCHANGED vars
    <2>1. UNCHANGED tagVars /\ UNCHANGED <<pc, mac, ip, launches, trouble, missing>>
      BY <1>12 DEF vars, startVars, packageVars
    <2>2. Text' = Text  BY <2>1, SameText
    <2> QED  BY <1>0, <1>1, <2>1, <2>2 DEF TagPart
  <1> QED
    BY <1>2, <1>3, <1>4, <1>5, <1>6, <1>7, <1>8, <1>9, <1>10, <1>11, <1>12 DEF Next

LEMMA SameFaults ==
    ASSUME FaultPart, UNCHANGED packageVars, UNCHANGED <<pc, ip>>, trouble \subseteq trouble'
    PROVE  FaultPart'
  BY DEF FaultPart, packageVars, Depth

LEMMA FaultNext == StartInv /\ [Next]_vars => FaultPart'
  <1> SUFFICES ASSUME StartInv, [Next]_vars PROVE FaultPart'  OBVIOUS
  <1>0. PackageInv /\ StartTypes /\ TagPart /\ FaultPart  BY DEF StartInv
  <1>1. /\ stack \in [Packagers -> Seq(FrameType)] /\ ret \in [Packagers -> {"none", "NULL", "text"}]
    BY <1>0 DEF PackageInv, PackageTypes, Stacks
  <1>2. CASE Call  BY <1>0, <1>2, TwoPackagers DEF Call, FaultPart, packageVars, Depth
  <1>3. CASE set_macaddr
    BY <1>0, <1>3, TwoPackagers DEF set_macaddr, FaultPart, packageVars, Depth
  <1>4. CASE GetLocalWifiIp
    <2>1. pc' = "packaging" /\ ret' = ret /\ (ip' = NoAddress => "netif" \in trouble') /\ trouble \subseteq trouble'
      <3>1. 0 \notin IpLengths  BY StartAssumption
      <3> QED  BY <1>4, <3>1 DEF GetLocalWifiIp, Package, NoAddress
    <2> QED  BY <1>0, <2>1 DEF FaultPart
  <1>5. CASE BadAddress
    <2>1. /\ Depth("config") > 0 /\ pc # "fault" /\ ip = NoAddress /\ pc' = "fault" /\ trouble' = trouble
          /\ UNCHANGED packageVars
      BY <1>5 DEF BadAddress, AtAddress, AddsMember, Goes
    <2>2. "netif" \in trouble  BY <1>0, <2>1 DEF FaultPart
    <2> QED  BY <1>0, <2>1, <2>2 DEF FaultPart, packageVars, Depth
  <1>6. CASE Config_Property
    <2>1. /\ pc = "packaging" /\ ret["config"] # "none" /\ ret' = [ret EXCEPT !["config"] = "none"]
          /\ stack' = stack /\ trouble' = trouble /\ ip' = ip
          /\ pc' \in {"fault", "storing"} /\ (pc' = "fault" => ret["config"] = "NULL")
      BY <1>6 DEF Config_Property, TakeText
    <2>2. Depth("config") = 0
      <3>1. Depth("config") \in Nat /\ (Depth("config") > 0 => ret["config"] = "none")
        BY <1>0, TwoPackagers, StackFacts DEF PackageInv, PackageTypes, FramesOK
      <3> QED  BY <2>1, <3>1
    <2>3. Depth("config")' = 0  BY <2>1, <2>2 DEF Depth
    <2>4. ret'["config"] = "none" /\ \A p \in Packagers : ret'[p] = "NULL" => ret[p] = "NULL"
      BY <1>1, <2>1, TwoPackagers
    <2> QED  BY <1>0, <2>1, <2>3, <2>4, TwoPackagers DEF FaultPart
  <1>7. CASE StoreStep
    <2>1. /\ pc = "storing" /\ UNCHANGED packageVars /\ ip' = ip /\ trouble \subseteq trouble'
          /\ pc' \in {"storing", "serving"}
      BY <1>7 DEF StoreStep
    <2> QED  BY <1>0, <2>1 DEF FaultPart, packageVars, Depth
  <1>8. CASE BuildReport
    <2>1. /\ stack'["config"] = stack["config"] /\ ret' = ret /\ UNCHANGED <<pc, ip, trouble>>
      BY <1>1, <1>8, TwoPackagers DEF BuildReport, Package
    <2> QED  BY <1>0, <2>1 DEF FaultPart, Depth
  <1>9. CASE SendReport
    <2>1. /\ ret' = [ret EXCEPT !["report"] = "none"] /\ stack' = stack /\ UNCHANGED <<ip, trouble>>
          /\ pc # "fault" /\ pc' = IF ret["report"] = "NULL" THEN "fault" ELSE pc
      BY <1>9 DEF SendReport, TakeText
    <2>2. ret'["config"] = ret["config"] /\ \A p \in Packagers : ret'[p] = "NULL" => ret[p] = "NULL"
      BY <1>1, <2>1, TwoPackagers
    <2> QED  BY <1>0, <2>1, <2>2, TwoPackagers DEF FaultPart, Depth
  <1>10. CASE PowerLoss
    BY <1>10, TwoPackagers DEF PowerLoss, FaultPart, Depth
  <1>11. ASSUME NEW p \in Packagers, PackagerStep(p) PROVE FaultPart'
    <2>1. /\ UNCHANGED <<pc, ip>> /\ pc # "fault"
          /\ trouble' = IF Lost(p) THEN trouble \cup {"memory"} ELSE trouble
      BY <1>11 DEF PackagerStep
    <2>2. /\ Depth(p) > 0
          /\ \A q \in Packagers \ {p} : stack'[q] = stack[q] /\ ret'[q] = ret[q]
      BY <1>0, <1>11, StepLocal DEF PackagerStep
    <2>3. \A q \in Packagers : ret'[q] = "NULL" => "memory" \in trouble'
      BY <1>0, <2>1, <2>2 DEF FaultPart, Lost
    <2>4. Depth("config")' > 0 \/ ret'["config"] # "none" => pc = "packaging"
      <3>1. CASE p = "config"  BY <1>0, <2>1, <2>2, <3>1 DEF FaultPart
      <3>2. CASE p # "config"
        <4>1. Depth("config")' = Depth("config") /\ ret'["config"] = ret["config"]
          BY <2>2, <3>2, TwoPackagers DEF Depth
        <4> QED  BY <1>0, <2>1, <4>1 DEF FaultPart
      <3> QED  BY <3>1, <3>2
    <2> QED  BY <1>0, <2>1, <2>3, <2>4 DEF FaultPart
  <1>12. CASE UNCHANGED vars  BY <1>0, <1>12, SameFaults DEF vars, startVars
  <1> QED
    BY <1>2, <1>3, <1>4, <1>5, <1>6, <1>7, <1>8, <1>9, <1>10, <1>11, <1>12 DEF Next

THEOREM StartInvariant == Spec => []StartInv
  <1>1. StartInv /\ [Next]_vars => StartInv'
    BY PackageNext, TypesNext, TagNext, FaultNext DEF StartInv
  <1> QED  BY StartInitially, <1>1, PTL DEF Spec

\* The type of every variable, those of the tag and of the functions included.
THEOREM TypesOfStart == Spec => []StartTypeOK
  <1>1. StartInv => StartTypeOK
    <2> SUFFICES ASSUME StartInv PROVE StartTypeOK  OBVIOUS
    <2>1. PackageTypeOK  BY DEF StartInv, PackageInv, PackageTypes, PackageTypeOK, Stacks, FrameType
    <2>2. TagTypeOK  BY TagTyped DEF StartInv, TagPart
    <2> QED  BY <2>1, <2>2 DEF StartInv, StartTypes, StartTypeOK
  <1> QED  BY StartInvariant, <1>1, PTL

\* A start without a failed transfer ends with the chip's address in use and this
\* start's text readable on the tag, whatever was there; a fault needs a failed
\* allocation or a missing interface.
THEOREM StartIsClean == Spec => []CleanStart
  <1>1. StartInv => CleanStart
    <2> SUFFICES ASSUME StartInv PROVE CleanStart  OBVIOUS
    <2>0. StartTypes /\ TagPart /\ FaultPart  BY DEF StartInv
    <2>1. ASSUME pc = "serving", trouble \cap {"i2c", "mac"} = {}
          PROVE  mac = "serial" /\ FirstRecord = Content(Text)
      <3>1. mac = "serial" /\ stored.req = Text /\ call.pc = "idle"  BY <2>0, <2>1 DEF TagPart
      <3>2. Text \in Records /\ LaidOut(Text)  BY <2>0, TextIsRecord
      <3>3. Text.pos = "first"  BY DEF Text
      <3>4. ReadsBack  BY <2>0, TagReadsBack DEF TagPart
      <3> HIDE DEF Text
      <3> QED  BY <3>1, <3>2, <3>3, <3>4 DEF ReadsBack
    <2>2. pc = "fault" => trouble \cap {"memory", "netif"} # {}  BY <2>0 DEF FaultPart
    <2> QED  BY <2>1, <2>2 DEF CleanStart, Text
  <1> QED  BY StartInvariant, <1>1, PTL
=============================================================================
