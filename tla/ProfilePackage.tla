--------------------------- MODULE ProfilePackage ---------------------------
(***************************************************************************)
(* The texts the board sends and stores                                    *)
(* (src/app/Entry/05/01_Smart_Home/profile_package/profile_package.c).     *)
(*                                                                         *)
(* Each function builds a cJSON node, adds members to it, one after        *)
(* another, and returns it; a member is a leaf or the tree another         *)
(* function returns.  Any allocation may fail, and the functions then      *)
(* jump to EXIT_MEM: delete their own tree, return NULL.  A function is    *)
(* its list of members here, the actions interpret the lists.  Two tasks   *)
(* build texts at the same time on one heap: report_message_task and,      *)
(* while the board is started again, the main task (Config_Property).      *)
(***************************************************************************)
EXTENDS Naturals, Sequences, FiniteSets

CONSTANTS
    NKv, NProperties, NCommands,   \* lengths of the callers' lists
    PoolSize                       \* bound: nodes a task may have in the heap

ASSUME PackageAssumption == {NKv, NProperties, NCommands, PoolSize} \subseteq Nat

VARIABLES
    heap,      \* the nodes that are allocated
    stack,     \* for each task the functions it is in, each with its tree
    ret,       \* what the outermost function returned, until its caller takes it
    missing,   \* the members that the text being built does not have
    texts,     \* the printed texts; no caller frees one
    strays     \* nodes cJSON could not add, because their key could not be copied

packageVars == <<heap, stack, ret, missing, texts, strays>>

----------------------------------------------------------------------------
(* The functions, as lists of members.  A failed "checked" leaf or kv ends *)
(* the function; a failed "unchecked" one is passed to cJSON as NULL,      *)
(* which adds nothing.                                                     *)

Checked(name)   == [kind |-> "checked", name |-> name]
Unchecked(name) == [kind |-> "unchecked", name |-> name]
Child(function) == [kind |-> "child", name |-> function]
Repeat(n, member) == [k \in 1 .. n |-> member]

\* Mutants of the definitions that follow.
JsonCreatePropertyUnchecked == <<Checked("name"), Unchecked("propertyName"), Checked("unit")>>

JsonCreateKv == [kind |-> "kv", name |-> "kv"]
JsonCreateKvLst == Repeat(NKv, JsonCreateKv)
JsonCreateService == <<Checked("service_id"), Child("JsonCreateKvLst")>>
JsonCreateServices == <<Child("JsonCreateService")>>
JsonCreateProperty == <<Checked("name"), Checked("propertyName"), Checked("unit")>>
JsonCreateProperties == Repeat(NProperties, Child("JsonCreateProperty"))
JsonCreateCommand == <<Checked("name"), Checked("paraName"), Checked("type")>>
JsonCreateCommands == Repeat(NCommands, Child("JsonCreateCommand"))
profile_package_propertyreport == <<Child("JsonCreateServices")>>
profile_package_property ==
    <<Unchecked("service"), Child("JsonCreateProperties"), Child("JsonCreateCommands"),
      Unchecked("ipAddress"), Unchecked("port")>>

Body == [JsonCreateKvLst      |-> JsonCreateKvLst,
         JsonCreateService    |-> JsonCreateService,
         JsonCreateServices   |-> JsonCreateServices,
         JsonCreateProperty   |-> JsonCreateProperty,
         JsonCreateProperties |-> JsonCreateProperties,
         JsonCreateCommand    |-> JsonCreateCommand,
         JsonCreateCommands   |-> JsonCreateCommands,
         profile_package_propertyreport |-> profile_package_propertyreport,
         profile_package_property       |-> profile_package_property]

Entry == [report |-> "profile_package_propertyreport", config |-> "profile_package_property"]
Packagers == DOMAIN Entry

----------------------------------------------------------------------------
(* Nodes are named by the task that allocated them. *)

Nodes == Packagers \X (1 .. PoolSize)
Free(p)  == {n \in 1 .. PoolSize : <<p, n>> \notin heap}
Fresh(p) == <<p, CHOOSE n \in Free(p) : TRUE>>

Depth(p) == Len(stack[p])
Top(p)   == stack[p][Depth(p)]
Goes(p, what)   == Depth(p) > 0 /\ Top(p).do = what
HasMember(p)    == Top(p).at <= Len(Body[Top(p).fn])
Member(p)       == Body[Top(p).fn][Top(p).at]
AddsMember(p)   == Goes(p, "add") /\ HasMember(p)
Finished(p)     == Goes(p, "add") /\ ~HasMember(p)
Frame(function) == [fn |-> function, do |-> "create", at |-> 1, tree |-> {}]

SetTop(p, frame)   == stack' = [stack EXCEPT ![p][Depth(p)] = frame]
SetCaller(p, frame) ==
    stack' = [stack EXCEPT ![p] = Append(SubSeq(@, 1, Depth(p) - 2), frame)]
Caller(p) == stack[p][Depth(p) - 1]
Misses(p, name) == missing' = [missing EXCEPT ![p] = @ \cup {name}]

PackageInit ==
    /\ heap = {} /\ texts = {} /\ strays = {}
    /\ stack = [p \in Packagers |-> <<>>]
    /\ ret = [p \in Packagers |-> "none"]
    /\ missing = [p \in Packagers |-> {}]

\* The caller calls the outermost function, and later takes its result.
Package(p) ==
    /\ Depth(p) = 0 /\ ret[p] = "none"
    /\ stack' = [stack EXCEPT ![p] = <<Frame(Entry[p])>>]
    /\ missing' = [missing EXCEPT ![p] = {}]
    /\ UNCHANGED <<heap, ret, texts, strays>>

TakeText(p) ==
    /\ ret[p] # "none"
    /\ ret' = [ret EXCEPT ![p] = "none"]
    /\ UNCHANGED <<heap, stack, missing, texts, strays>>

\* cJSON_CreateObject, cJSON_CreateArray
CreateNode(p) ==
    /\ Goes(p, "create")
    /\ \/ /\ Free(p) # {}
          /\ heap' = heap \cup {Fresh(p)}
          /\ SetTop(p, [Top(p) EXCEPT !.do = "add", !.tree = {Fresh(p)}])
          /\ UNCHANGED missing
       \/ /\ SetTop(p, [Top(p) EXCEPT !.do = "exit"])
          /\ Misses(p, Top(p).fn)
          /\ UNCHANGED heap
    /\ UNCHANGED <<ret, texts, strays>>

\* cJSON_CreateString or JsonCreateKv, and cJSON_AddItemToObject(CS)
AddLeaf(p) ==
    /\ AddsMember(p) /\ Member(p).kind # "child" /\ Free(p) # {}
    /\ heap' = heap \cup {Fresh(p)}
    /\ \/ /\ SetTop(p, [Top(p) EXCEPT !.at = @ + 1, !.tree = @ \cup {Fresh(p)}])
          /\ UNCHANGED <<missing, strays>>
       \/ /\ Member(p).kind = "kv"      \* its key is copied, and that may fail
          /\ strays' = strays \cup {Fresh(p)}
          /\ SetTop(p, [Top(p) EXCEPT !.at = @ + 1])
          /\ Misses(p, "key")
    /\ UNCHANGED <<ret, texts>>

LeafFails(p) ==
    /\ AddsMember(p) /\ Member(p).kind # "child"
    /\ IF Member(p).kind = "unchecked"
       THEN SetTop(p, [Top(p) EXCEPT !.at = @ + 1])
       ELSE SetTop(p, [Top(p) EXCEPT !.do = "exit"])
    /\ Misses(p, Member(p).name)
    /\ UNCHANGED <<heap, ret, texts, strays>>

CallChild(p) ==
    /\ AddsMember(p) /\ Member(p).kind = "child"
    /\ stack' = [stack EXCEPT ![p] = Append(@, Frame(Member(p).name))]
    /\ UNCHANGED <<heap, ret, missing, texts, strays>>

\* The caller adds the tree; its key is a constant, so nothing is copied.
ReturnTree(p) ==
    /\ Finished(p) /\ Depth(p) > 1
    /\ SetCaller(p, [Caller(p) EXCEPT !.at = @ + 1, !.tree = @ \cup Top(p).tree])
    /\ UNCHANGED <<heap, ret, missing, texts, strays>>

\* Mutants of ExitMem.
ExitMemLeaks(p) ==
    /\ Goes(p, "exit")
    /\ IF Depth(p) > 1
       THEN /\ SetCaller(p, [Caller(p) EXCEPT !.do = "exit"])
            /\ UNCHANGED <<heap, ret>>
       ELSE /\ heap' = heap \ Top(p).tree
            /\ stack' = [stack EXCEPT ![p] = <<>>]
            /\ ret' = [ret EXCEPT ![p] = "NULL"]
    /\ UNCHANGED <<missing, texts, strays>>

\* EXIT_MEM: the function deletes its tree; the caller sees NULL.
ExitMem(p) ==
    /\ Goes(p, "exit")
    /\ heap' = heap \ Top(p).tree
    /\ IF Depth(p) > 1
       THEN /\ SetCaller(p, [Caller(p) EXCEPT !.do = "exit"])
            /\ UNCHANGED ret
       ELSE /\ stack' = [stack EXCEPT ![p] = <<>>]
            /\ ret' = [ret EXCEPT ![p] = "NULL"]
    /\ UNCHANGED <<missing, texts, strays>>

\* cJSON_PrintUnformatted allocates the text before the tree is deleted.
PrintText(p) ==
    /\ Finished(p) /\ Depth(p) = 1
    /\ \/ /\ Free(p) # {}
          /\ heap' = (heap \ Top(p).tree) \cup {Fresh(p)}
          /\ texts' = texts \cup {Fresh(p)}
          /\ ret' = [ret EXCEPT ![p] = "text"]
       \/ /\ heap' = heap \ Top(p).tree
          /\ ret' = [ret EXCEPT ![p] = "NULL"]
          /\ UNCHANGED texts
    /\ stack' = [stack EXCEPT ![p] = <<>>]
    /\ UNCHANGED <<missing, strays>>

PackageStep(p) ==
    \/ CreateNode(p) \/ AddLeaf(p) \/ LeafFails(p) \/ CallChild(p)
    \/ ReturnTree(p) \/ ExitMem(p) \/ PrintText(p)

----------------------------------------------------------------------------
Frames == UNION {{p} \X (1 .. Depth(p)) : p \in Packagers}
Tree(f) == stack[f[1]][f[2]].tree

PackageTypeOK ==
    /\ heap \subseteq Nodes /\ texts \subseteq Nodes /\ strays \subseteq Nodes
    /\ stack \in [Packagers -> Seq([fn : DOMAIN Body, do : {"create", "add", "exit"},
                                    at : Nat, tree : SUBSET Nodes])]
    /\ ret \in [Packagers -> {"none", "NULL", "text"}]
    /\ DOMAIN missing = Packagers

(* Every node of the heap has exactly one owner: one function's tree, the  *)
(* texts or the nodes cJSON lost.  So no jump to EXIT_MEM, however deep    *)
(* and whatever the other task does, frees a node twice, leaves one        *)
(* without an owner, or lets a caller free what the callee freed; and when *)
(* both tasks are outside, only texts and lost nodes are left.             *)
HeapAccounted ==
    /\ heap = (UNION {Tree(f) : f \in Frames}) \cup texts \cup strays
    /\ texts \cap strays = {}
    /\ \A f \in Frames : /\ Tree(f) \cap (texts \cup strays) = {}
                         /\ \A g \in Frames \ {f} : Tree(f) \cap Tree(g) = {}

(* A text that is returned lacks at most what the code does not check: a   *)
(* kv whose key was not copied, or one of the three strings that           *)
(* profile_package_property creates unchecked.  No other failure, in any   *)
(* function, gets past its caller.                                         *)
MissingOnlyOptional ==
    /\ ret["report"] = "text" => missing["report"] \subseteq {"key"}
    /\ ret["config"] = "text" => missing["config"] \subseteq {"service", "ipAddress", "port"}
=============================================================================
