--------------------------- MODULE TutorialsProofs ---------------------------
(***************************************************************************)
(* Proofs about Tutorials: the two flash tutorials, for any number of      *)
(* tasks, handles and characters; the soft AP's count of its stations, for *)
(* any number of stations, launches and join tasks; and the sensor board,  *)
(* for any words and any bursts that an 8-bit checksum can find.           *)
(***************************************************************************)
EXTENDS Tutorials, NdefTagProofs, Queues

----------------------------------------------------------------------------
(* The key-value tutorial *)

KvPrinted ==
    /\ kvPrinted["ssid"] \in {"", "ssid"}
    /\ kvPrinted["pwd"] = "pwd" \/ (kvPrinted["pwd"] \in {"", "ssid"} /\ kv["pwd"] = "none")

\* A key holds its own value or none; what the buffer holds at each step of a run
\* in which no call for a stored key failed.
KvInv ==
    /\ kv \in [Keys -> {"none", "ssid", "pwd"}] /\ \A k \in Keys : kv[k] \in {"none", k}
    /\ DOMAIN kvPrinted = Keys /\ kvSound \in BOOLEAN
    /\ kvSound /\ kvPc = "get ssid" => kvBuf = ""
    /\ kvSound /\ kvPc = "get pwd" => kvBuf \in {"", "ssid"} /\ kvPrinted["ssid"] \in {"", "ssid"}
    /\ kvSound /\ kvPc \in {"set ssid", "set pwd"} => KvPrinted

LEMMA KvInvInit == KvInit => KvInv
  BY DEF KvInit, KvInv, Keys

LEMMA KvStep == KvInv /\ [KvNext \/ KvPowerLoss]_kvVars => KvInv'
  <1> SUFFICES ASSUME KvInv, [KvNext \/ KvPowerLoss]_kvVars PROVE KvInv'  OBVIOUS
  <1>1. CASE KvStart  BY <1>1 DEF KvStart, KvInv
  <1>0. "ssid" \in Keys /\ "pwd" \in Keys  BY DEF Keys
  <1>2. CASE Get("ssid", "get ssid", "get pwd")
    <2>1. kvPc = "get ssid" /\ kvPc' = "get pwd" /\ UNCHANGED kv  BY <1>2 DEF Get
    <2>2. DOMAIN kvPrinted' = Keys /\ kvPrinted'["ssid"] = kvBuf'  BY <1>0, <1>2 DEF Get, KvInv
    <2>3. kvSound' \in BOOLEAN /\ (kvSound' => kvBuf' \in {"", "ssid"})
      <3>1. CASE kv["ssid"] # "none" /\ kvBuf' = kv["ssid"] /\ UNCHANGED kvSound
        BY <1>0, <3>1 DEF KvInv
      <3>2. CASE UNCHANGED kvBuf /\ kvSound' = (kvSound /\ kv["ssid"] = "none")
        BY <2>1, <3>2 DEF KvInv
      <3> QED  BY <1>2, <3>1, <3>2 DEF Get
    <2> QED  BY <2>1, <2>2, <2>3 DEF KvInv
  <1>3. CASE Get("pwd", "get pwd", "set ssid")
    <2>1. kvPc = "get pwd" /\ kvPc' = "set ssid" /\ UNCHANGED kv  BY <1>3 DEF Get
    <2>2. /\ DOMAIN kvPrinted' = Keys /\ kvPrinted'["pwd"] = kvBuf'
          /\ kvPrinted'["ssid"] = kvPrinted["ssid"]
      BY <1>0, <1>3 DEF Get, KvInv
    <2>3. kvSound' \in BOOLEAN /\ (kvSound' => KvPrinted')
      <3>1. CASE kv["pwd"] # "none" /\ kvBuf' = kv["pwd"] /\ UNCHANGED kvSound
        BY <1>0, <2>1, <2>2, <3>1 DEF KvInv, KvPrinted
      <3>2. CASE UNCHANGED kvBuf /\ kvSound' = (kvSound /\ kv["pwd"] = "none")
        BY <2>1, <2>2, <3>2 DEF KvInv, KvPrinted
      <3> QED  BY <1>3, <3>1, <3>2 DEF Get
    <2> QED  BY <2>1, <2>2, <2>3 DEF KvInv
  <1>4. CASE SetValue("ssid", "ssid", "set ssid", "set pwd")  BY <1>4 DEF SetValue, KvInv, KvPrinted, Keys
  <1>5. CASE SetValue("pwd", "pwd", "set pwd", "idle")  BY <1>5 DEF SetValue, KvInv, Keys
  <1>6. CASE KvPowerLoss  BY <1>6 DEF KvPowerLoss, KvInv
  <1>7. CASE UNCHANGED kvVars  BY <1>7 DEF kvVars, KvInv, KvPrinted
  <1> QED  BY <1>1, <1>2, <1>3, <1>4, <1>5, <1>6, <1>7 DEF KvNext, Kv_Store_Task

----------------------------------------------------------------------------
(* The file tutorial *)

\* Every handle that is open is held by a task, or leaked from one that failed; a
\* task about to open a file holds none.
HandlesKept ==
    /\ {h \in Handles : Open_(h)} \subseteq leaked \cup {hold[t] : t \in FileTasks}
    /\ \A t \in FileTasks : filePc[t] \in {"idle", "open", "reopen", "delete"} => hold[t] = BadHandle

Undisturbed(t) == alone[t] /\ ~callFailed[t]
Rewound(t) == Open_(hold[t]) /\ pos[hold[t]] = 0

\* What a task that is alone, and none of whose calls failed, has read and written.
Progress(t) ==
    /\ filePc[t] \in {"open", "read1", "write", "close", "reopen", "read2"} => fileBuf[t] = <<>>
    /\ filePc[t] \in {"read1", "write"} => file = <<>> /\ Rewound(t)
    /\ filePc[t] \in {"close", "reopen", "read2"} => file = wifi_config
    /\ filePc[t] = "read2" => Rewound(t)
    /\ filePc[t] \in {"seek", "read3", "close2", "delete"} => second[t] = wifi_config
    /\ filePc[t] = "idle" => second[t] \in {<<>>, wifi_config}

FileArrays ==
    /\ DOMAIN filePc = FileTasks /\ DOMAIN hold = FileTasks /\ DOMAIN fileBuf = FileTasks
    /\ DOMAIN second = FileTasks /\ DOMAIN callFailed = FileTasks /\ DOMAIN alone = FileTasks
    /\ DOMAIN pos = Handles

FileInv ==
    /\ FileArrays /\ HandlesKept
    /\ \A t, u \in FileTasks : alone[t] /\ Running(t) /\ Running(u) => t = u
    /\ \A t \in FileTasks : Undisturbed(t) => Progress(t)

LEMMA FileInvInit == FileInit => FileInv
  BY DEF FileInit, FileInv, FileArrays, HandlesKept, Open_, Undisturbed, Progress, Running

\* A step of a task changes what belongs to it, the file and the handles.
Others(t) ==
    /\ FileArrays' /\ UNCHANGED alone
    /\ \A u \in FileTasks \ {t} :
          /\ filePc'[u] = filePc[u] /\ hold'[u] = hold[u] /\ second'[u] = second[u]
          /\ callFailed'[u] = callFailed[u]

LEMMA FailsOthers == ASSUME FileInv, NEW t \in FileTasks, Fails(t) PROVE Others(t)
  BY DEF FileInv, FileArrays, Fails, Goto, Others

LEMMA OpenOthers ==
    ASSUME FileInv, NEW t \in FileTasks, NEW here, NEW next, NEW exists, NEW content,
           OpenAt(t, here, next, exists, content)
    PROVE  Others(t)
  <1>1. /\ DOMAIN filePc' = FileTasks /\ DOMAIN hold' = FileTasks /\ DOMAIN callFailed' = FileTasks
        /\ \A u \in FileTasks \ {t} : filePc'[u] = filePc[u] /\ hold'[u] = hold[u] /\ callFailed'[u] = callFailed[u]
        /\ UNCHANGED <<fileBuf, second, alone>> /\ DOMAIN pos' = Handles
    BY DEF FileInv, FileArrays, OpenAt, Goto
  <1> QED  BY <1>1 DEF FileInv, FileArrays, Others

LEMMA ReadOthers ==
    ASSUME FileInv, NEW t \in FileTasks, NEW here, NEW next, ReadAt(t, here, next)
    PROVE  Others(t)
  <1>1. CASE Fails(t)  BY <1>1, FailsOthers
  <1>2. CASE ~Fails(t)
    <2>1. /\ DOMAIN filePc' = FileTasks /\ DOMAIN second' = FileTasks /\ DOMAIN fileBuf' = FileTasks
          /\ \A u \in FileTasks \ {t} : filePc'[u] = filePc[u] /\ second'[u] = second[u]
          /\ UNCHANGED <<hold, callFailed, alone>> /\ DOMAIN pos' = Handles
      BY <1>2 DEF FileInv, FileArrays, ReadAt, Goto
    <2> QED  BY <2>1 DEF FileInv, FileArrays, Others
  <1> QED  BY <1>1, <1>2

LEMMA CloseOthers ==
    ASSUME FileInv, NEW t \in FileTasks, NEW here, NEW next, Close(t, here, next)
    PROVE  Others(t)
  <1>1. CASE Fails(t)  BY <1>1, FailsOthers
  <1>2. CASE ~Fails(t)
    <2>1. /\ DOMAIN filePc' = FileTasks /\ DOMAIN hold' = FileTasks
          /\ \A u \in FileTasks \ {t} : filePc'[u] = filePc[u] /\ hold'[u] = hold[u]
          /\ UNCHANGED <<second, fileBuf, callFailed, alone>> /\ DOMAIN pos' = Handles
      BY <1>2 DEF FileInv, FileArrays, Close, Goto
    <2> QED  BY <2>1 DEF FileInv, FileArrays, Others
  <1> QED  BY <1>1, <1>2

LEMMA PlainOthers ==
    ASSUME FileInv, NEW t \in FileTasks, Write(t) \/ Seek(t) \/ Delete(t)
    PROVE  Others(t)
  <1>1. CASE Fails(t)  BY <1>1, FailsOthers
  <1>2. CASE ~Fails(t)
    <2>1. /\ DOMAIN filePc' = FileTasks /\ \A u \in FileTasks \ {t} : filePc'[u] = filePc[u]
          /\ UNCHANGED <<hold, second, fileBuf, callFailed, alone>> /\ DOMAIN pos' = Handles
      BY <1>2 DEF FileInv, FileArrays, Write, Seek, Delete, Goto
    <2> QED  BY <2>1 DEF FileInv, FileArrays, Others
  <1> QED  BY <1>1, <1>2

\* So the other tasks keep what they have, and what remains to be shown of a step is
\* about the task that takes it.
LEMMA StepOf ==
    ASSUME FileInv, NEW t \in FileTasks, Running(t), Others(t), HandlesKept',
           Undisturbed(t)' => Progress(t)'
    PROVE  FileInv'
  <1>1. \A u \in FileTasks : Running(u)' => Running(u)  BY DEF Others, Running
  <1>2. \A u, v \in FileTasks : alone'[u] /\ Running(u)' /\ Running(v)' => u = v
    BY <1>1 DEF FileInv, Others
  <1>3. ASSUME NEW u \in FileTasks, Undisturbed(u)' PROVE Progress(u)'
    <2>1. CASE u = t  BY <1>3, <2>1
    <2>2. CASE u # t
      <3>1. Undisturbed(u)  BY <1>3, <2>2 DEF Others, Undisturbed
      <3>2. ~Running(u)  BY <2>2, <3>1 DEF FileInv, Undisturbed
      <3>3. second[u] \in {<<>>, wifi_config}  BY <3>1, <3>2 DEF FileInv, Progress, Running
      <3> QED  BY <2>2, <3>2, <3>3 DEF Others, Progress, Running
    <2> QED  BY <2>1, <2>2
  <1> QED  BY <1>2, <1>3 DEF FileInv, Others, Running

\* What fails is excused, and what it held is leaked.
LEMMA FailsFile == ASSUME FileInv, NEW t \in FileTasks, Running(t), Fails(t) PROVE FileInv'
  <1>1. Others(t)  BY FailsOthers
  <1>2. /\ filePc'[t] = "idle" /\ hold'[t] = BadHandle /\ callFailed'[t] = TRUE /\ UNCHANGED pos
        /\ leaked' = (leaked \cup {hold[t]}) \ {BadHandle}
    BY DEF FileInv, FileArrays, Fails, Goto
  <1>3. \A h \in Handles : h # BadHandle  BY DEF Handles, BadHandle
  <1>4. \A h \in Handles : Open_(h)' <=> Open_(h)  BY <1>2 DEF Open_
  <1>5. HandlesKept'
    <2>1. ASSUME NEW h \in Handles, Open_(h)' PROVE h \in leaked' \/ \E u \in FileTasks : h = hold'[u]
      <3>1. h \in leaked \/ \E u \in FileTasks : h = hold[u]
        BY <1>4, <2>1 DEF FileInv, HandlesKept
      <3> QED  BY <1>1, <1>2, <1>3, <3>1 DEF Others
    <2>2. \A u \in FileTasks : filePc'[u] \in {"idle", "open", "reopen", "delete"} => hold'[u] = BadHandle
      BY <1>1, <1>2 DEF FileInv, HandlesKept, Others
    <2> QED  BY <2>1, <2>2 DEF HandlesKept, Handles
  <1>6. ~Undisturbed(t)'  BY <1>2 DEF Undisturbed
  <1> QED  BY <1>1, <1>5, <1>6, StepOf

LEMMA TheFile == wifi_config \in Seq(Nat) /\ Len(wifi_config) = FileLength /\ FileLength \in Nat
                 /\ wifi_config # Absent /\ <<>> # Absent /\ wifi_config # <<>>
  <1>1. wifi_config \in Seq(Nat) /\ Len(wifi_config) = FileLength /\ FileLength \in Nat /\ FileLength > 5
    BY FlashAssumption DEF wifi_config
  <1>2. Len(Absent) = 1 /\ Absent \in Seq(Int)  BY DEF Absent
  <1>3. Len(<<>>) = 0  OBVIOUS
  <1>4. FileLength # 1 /\ FileLength # 0  BY <1>1
  <1>5. wifi_config # Absent /\ <<>> # Absent /\ wifi_config # <<>>
    <2>1. Len(wifi_config) # Len(Absent)  BY <1>1, <1>2, <1>4
    <2>2. Len(wifi_config) # Len(<<>>)  BY <1>1, <1>3, <1>4
    <2>3. Len(Absent) # Len(<<>>)  BY <1>2, <1>3
    <2> QED  BY <2>1, <2>2, <2>3, Zenon
  <1> QED  BY <1>1, <1>5

LEMMA NoHandle == \A h \in Handles : h # BadHandle
  BY DEF Handles, BadHandle

\* A file that is opened gets a handle that is free, at the beginning.
LEMMA OpenFile ==
    ASSUME FileInv, NEW t \in FileTasks, NEW here \in {"open", "reopen"}, NEW next \in {"read1", "read2"},
           NEW exists, NEW content, OpenAt(t, here, next, exists, content)
    PROVE  /\ Others(t) /\ HandlesKept' /\ filePc'[t] = next /\ UNCHANGED <<fileBuf, second>>
           /\ ~callFailed'[t] => Rewound(t)' /\ exists /\ file' = content /\ UNCHANGED callFailed
  <1>1. Others(t)  BY OpenOthers
  <1>2. filePc[t] = here /\ filePc'[t] = next /\ UNCHANGED <<fileBuf, second, leaked>>
    BY DEF FileInv, FileArrays, OpenAt, Goto
  <1>3. hold[t] = BadHandle  BY <1>2 DEF FileInv, HandlesKept
  <1>4. ASSUME NEW h \in Free_, hold' = [hold EXCEPT ![t] = h], pos' = [pos EXCEPT ![h] = 0]
        PROVE  HandlesKept' /\ Rewound(t)'
    <2>1. /\ h \in Handles /\ hold'[t] = h /\ pos'[h] = 0 /\ \A g \in Handles \ {h} : pos'[g] = pos[g]
      BY <1>4 DEF Free_, FileInv, FileArrays
    <2>2. Rewound(t)'  BY <2>1 DEF Rewound, Open_, Handles, Closed_
    <2>3. ASSUME NEW g \in Handles, Open_(g)' PROVE g \in leaked' \/ \E u \in FileTasks : g = hold'[u]
      <3>1. CASE g = h  BY <2>1, <3>1
      <3>2. CASE g # h
        <4>1. Open_(g)  BY <2>1, <2>3, <3>2 DEF Open_, Handles
        <4>2. g \in leaked \/ \E u \in FileTasks : g = hold[u]  BY <4>1 DEF FileInv, HandlesKept
        <4> QED  BY <1>1, <1>2, <1>3, <4>2, NoHandle DEF Others
      <3> QED  BY <3>1, <3>2
    <2>4. \A u \in FileTasks : filePc'[u] \in {"idle", "open", "reopen", "delete"} => hold'[u] = BadHandle
      BY <1>1, <1>2 DEF FileInv, HandlesKept, Others
    <2> QED  BY <2>2, <2>3, <2>4 DEF HandlesKept, Handles
  <1>5. ASSUME hold' = [hold EXCEPT ![t] = BadHandle], UNCHANGED pos
        PROVE  HandlesKept'
    <2>1. \A u \in FileTasks : hold'[u] = hold[u]  BY <1>3, <1>5 DEF FileInv, FileArrays
    <2>2. \A h \in Handles : Open_(h)' <=> Open_(h)  BY <1>5 DEF Open_
    <2>3. \A u \in FileTasks : filePc'[u] \in {"idle", "open", "reopen", "delete"} => hold'[u] = BadHandle
      BY <1>1, <1>2, <2>1 DEF FileInv, HandlesKept, Others
    <2> QED  BY <1>2, <2>1, <2>2, <2>3 DEF FileInv, HandlesKept, Handles
  <1>6. CASE \E h \in Free_ : /\ exists
                              /\ hold' = [hold EXCEPT ![t] = h]
                              /\ pos' = [pos EXCEPT ![h] = 0]
                              /\ file' = content
                              /\ UNCHANGED callFailed
    BY <1>1, <1>2, <1>4, <1>6
  <1>7. CASE /\ hold' = [hold EXCEPT ![t] = BadHandle]
             /\ callFailed' = [callFailed EXCEPT ![t] = TRUE]
             /\ UNCHANGED <<file, pos>>
    <2>1. callFailed'[t] = TRUE  BY <1>7 DEF FileInv, FileArrays
    <2> QED  BY <1>1, <1>2, <1>5, <1>7, <2>1
  <1>8. \/ \E h \in Free_ : /\ exists
                            /\ hold' = [hold EXCEPT ![t] = h]
                            /\ pos' = [pos EXCEPT ![h] = 0]
                            /\ file' = content
                            /\ UNCHANGED callFailed
        \/ /\ hold' = [hold EXCEPT ![t] = BadHandle]
           /\ callFailed' = [callFailed EXCEPT ![t] = TRUE]
           /\ UNCHANGED <<file, pos>>
    BY DEF OpenAt
  <1> QED  BY <1>6, <1>7, <1>8

LEMMA FirstOpen == ASSUME FileInv, NEW t \in FileTasks, OpenAt(t, "open", "read1", TRUE, <<>>) PROVE FileInv'
  <1>1. /\ Others(t) /\ HandlesKept' /\ filePc'[t] = "read1" /\ UNCHANGED <<fileBuf, second>>
        /\ ~callFailed'[t] => Rewound(t)' /\ file' = <<>> /\ UNCHANGED callFailed
    BY OpenFile
  <1>2. filePc[t] = "open" /\ Running(t)  BY DEF OpenAt, Running
  <1>3. Undisturbed(t)' => Progress(t)'
    BY <1>1, <1>2 DEF FileInv, Undisturbed, Progress, Others
  <1> QED  BY <1>1, <1>2, <1>3, StepOf

LEMMA SecondOpen == ASSUME FileInv, NEW t \in FileTasks, OpenAt(t, "reopen", "read2", file # Absent, file) PROVE FileInv'
  <1>1. /\ Others(t) /\ HandlesKept' /\ filePc'[t] = "read2" /\ UNCHANGED <<fileBuf, second>>
        /\ ~callFailed'[t] => Rewound(t)' /\ file' = file /\ UNCHANGED callFailed
    BY OpenFile
  <1>2. filePc[t] = "reopen" /\ Running(t)  BY DEF OpenAt, Running
  <1>3. Undisturbed(t)' => Progress(t)'
    BY <1>1, <1>2 DEF FileInv, Undisturbed, Progress, Others
  <1> QED  BY <1>1, <1>2, <1>3, StepOf

\* A step that moves a handle but opens and closes none.
LEMMA SameHandles ==
    ASSUME FileInv, NEW t \in FileTasks, Others(t), UNCHANGED <<hold, leaked>>,
           \A h \in Handles : Open_(h)' => Open_(h),
           filePc'[t] \in {"idle", "open", "reopen", "delete"} => hold[t] = BadHandle
    PROVE  HandlesKept'
  BY DEF FileInv, HandlesKept, Others, Handles

LEMMA ReadFile ==
    ASSUME FileInv, NEW t \in FileTasks,
           NEW here \in {"read1", "read2", "read3"}, NEW next \in {"write", "seek", "close2"},
           ReadAt(t, here, next), ~Fails(t)
    PROVE  /\ Others(t) /\ HandlesKept' /\ filePc[t] = here /\ filePc'[t] = next
           /\ UNCHANGED <<file, hold, callFailed, alone>>
           /\ fileBuf'[t] = ReadOver(fileBuf[t], Rest(t))
           /\ second'[t] = IF here = "read2" THEN fileBuf'[t] ELSE second[t]
           /\ pos'[hold[t]] = IF pos[hold[t]] > Len(file) THEN pos[hold[t]] ELSE Len(file)
           /\ Open_(hold[t])
  <1>1. Others(t)  BY ReadOthers
  <1>2. /\ filePc[t] = here /\ filePc'[t] = next /\ UNCHANGED <<file, hold, callFailed, leaked, alone>>
        /\ fileBuf'[t] = ReadOver(fileBuf[t], Rest(t)) /\ Open_(hold[t])
    BY DEF ReadAt, Goto, FileInv, FileArrays, Readable
  <1>3. second'[t] = IF here = "read2" THEN fileBuf'[t] ELSE second[t]
    BY DEF ReadAt, FileInv, FileArrays
  <1>4. hold[t] \in Handles  BY <1>2 DEF Open_
  <1>5. /\ pos'[hold[t]] = IF pos[hold[t]] > Len(file) THEN pos[hold[t]] ELSE Len(file)
        /\ \A h \in Handles \ {hold[t]} : pos'[h] = pos[h]
    BY <1>4 DEF ReadAt, FileInv, FileArrays
  <1>6. \A h \in Handles : Open_(h)' => Open_(h)  BY <1>2, <1>5 DEF Open_, Handles
  <1>7. HandlesKept'  BY <1>1, <1>2, <1>6, SameHandles
  <1> QED  BY <1>1, <1>2, <1>3, <1>5, <1>7

\* A read into a buffer that is clear gives the rest of the file.
LEMMA ReadClear == ASSUME NEW S, NEW text \in Seq(S) PROVE ReadOver(<<>>, text) = text
  <1>1. Len(text) \in Nat  OBVIOUS
  <1>2. SubSeq(<<>>, Len(text) + 1, 0) = <<>>  BY <1>1
  <1> QED  BY <1>2, ConcatEmptySeq DEF ReadOver

LEMMA FirstRead == ASSUME FileInv, NEW t \in FileTasks, ReadAt(t, "read1", "write") PROVE FileInv'
  <1>0. Running(t)  BY DEF ReadAt, Running
  <1>1. CASE Fails(t)  BY <1>0, <1>1, FailsFile
  <1>2. CASE ~Fails(t)
    <2>1. /\ Others(t) /\ HandlesKept' /\ filePc[t] = "read1" /\ filePc'[t] = "write"
          /\ UNCHANGED <<file, hold, callFailed, alone>>
          /\ fileBuf'[t] = ReadOver(fileBuf[t], Rest(t))
          /\ pos'[hold[t]] = IF pos[hold[t]] > Len(file) THEN pos[hold[t]] ELSE Len(file)
      BY <1>2, ReadFile
    <2>2. ASSUME Undisturbed(t)' PROVE Progress(t)'
      <3>1. file = <<>> /\ Rewound(t) /\ fileBuf[t] = <<>>
        BY <2>1, <2>2 DEF FileInv, Undisturbed, Progress
      <3>2. Rest(t) = <<>>  BY <3>1 DEF Rest, Rewound
      <3>3. fileBuf'[t] = <<>>
        <4>1. <<>> \in Seq(Nat)  OBVIOUS
        <4> QED  BY <2>1, <3>1, <3>2, <4>1, ReadClear
      <3>4. pos'[hold[t]] = 0  BY <2>1, <3>1 DEF Rewound
      <3>5. Rewound(t)'  BY <2>1, <3>1, <3>4 DEF Rewound, Open_, Handles, Closed_
      <3> QED  BY <2>1, <3>1, <3>3, <3>5 DEF Progress
    <2> QED  BY <1>0, <2>1, <2>2, StepOf
  <1> QED  BY <1>1, <1>2

LEMMA SecondRead == ASSUME FileInv, NEW t \in FileTasks, ReadAt(t, "read2", "seek") PROVE FileInv'
  <1>0. Running(t)  BY DEF ReadAt, Running
  <1>1. CASE Fails(t)  BY <1>0, <1>1, FailsFile
  <1>2. CASE ~Fails(t)
    <2>1. /\ Others(t) /\ HandlesKept' /\ filePc[t] = "read2" /\ filePc'[t] = "seek"
          /\ UNCHANGED <<file, hold, callFailed, alone>>
          /\ fileBuf'[t] = ReadOver(fileBuf[t], Rest(t)) /\ second'[t] = fileBuf'[t]
      BY <1>2, ReadFile
    <2>2. ASSUME Undisturbed(t)' PROVE Progress(t)'
      <3>1. file = wifi_config /\ Rewound(t) /\ fileBuf[t] = <<>>
        BY <2>1, <2>2 DEF FileInv, Undisturbed, Progress
      <3>2. Rest(t) = SubSeq(wifi_config, 1, Len(wifi_config))  BY <3>1 DEF Rest, Rewound
      <3>3. Rest(t) = wifi_config  BY <3>2, TheFile, SubSeqFull
      <3>4. second'[t] = wifi_config  BY <2>1, <3>1, <3>3, TheFile, ReadClear
      <3> QED  BY <2>1, <3>4 DEF Progress
    <2> QED  BY <1>0, <2>1, <2>2, StepOf
  <1> QED  BY <1>1, <1>2

LEMMA ThirdRead == ASSUME FileInv, NEW t \in FileTasks, ReadAt(t, "read3", "close2") PROVE FileInv'
  <1>0. Running(t)  BY DEF ReadAt, Running
  <1>1. CASE Fails(t)  BY <1>0, <1>1, FailsFile
  <1>2. CASE ~Fails(t)
    <2>1. /\ Others(t) /\ HandlesKept' /\ filePc[t] = "read3" /\ filePc'[t] = "close2"
          /\ UNCHANGED <<callFailed, alone>> /\ second'[t] = second[t]
      BY <1>2, ReadFile
    <2>2. Undisturbed(t)' => Progress(t)'  BY <2>1 DEF FileInv, Undisturbed, Progress
    <2> QED  BY <1>0, <2>1, <2>2, StepOf
  <1> QED  BY <1>1, <1>2

LEMMA WriteStep == ASSUME FileInv, NEW t \in FileTasks, Write(t) PROVE FileInv'
  <1>0. Running(t)  BY DEF Write, Running
  <1>1. CASE Fails(t)  BY <1>0, <1>1, FailsFile
  <1>2. CASE ~Fails(t)
    <2>1. /\ Others(t) /\ filePc[t] = "write" /\ filePc'[t] = "close"
          /\ UNCHANGED <<hold, leaked, fileBuf, callFailed, alone>> /\ Open_(hold[t])
          /\ file' = SubSeq(file, 1, pos[hold[t]]) \o wifi_config
          /\ \A h \in Handles \ {hold[t]} : pos'[h] = pos[h]
      BY <1>2, PlainOthers DEF Write, Goto, FileInv, FileArrays, Readable
    <2>2. \A h \in Handles : Open_(h)' => Open_(h)  BY <2>1 DEF Open_, Handles
    <2>3. HandlesKept'  BY <2>1, <2>2, SameHandles
    <2>4. ASSUME Undisturbed(t)' PROVE Progress(t)'
      <3>1. file = <<>> /\ Rewound(t) /\ fileBuf[t] = <<>>
        BY <2>1, <2>4 DEF FileInv, Undisturbed, Progress
      <3>2. SubSeq(file, 1, pos[hold[t]]) = <<>>  BY <3>1 DEF Rewound
      <3>3. file' = wifi_config  BY <2>1, <3>2, TheFile, ConcatEmptySeq
      <3> QED  BY <2>1, <3>1, <3>3 DEF Progress
    <2> QED  BY <1>0, <2>1, <2>3, <2>4, StepOf
  <1> QED  BY <1>1, <1>2

LEMMA SeekStep == ASSUME FileInv, NEW t \in FileTasks, Seek(t) PROVE FileInv'
  <1>0. Running(t)  BY DEF Seek, Running
  <1>1. CASE Fails(t)  BY <1>0, <1>1, FailsFile
  <1>2. CASE ~Fails(t)
    <2>1. /\ Others(t) /\ filePc[t] = "seek" /\ filePc'[t] = "read3"
          /\ UNCHANGED <<hold, leaked, second, callFailed, alone>> /\ Open_(hold[t])
          /\ \A h \in Handles \ {hold[t]} : pos'[h] = pos[h]
      BY <1>2, PlainOthers DEF Seek, Goto, FileInv, FileArrays
    <2>2. \A h \in Handles : Open_(h)' => Open_(h)  BY <2>1 DEF Open_, Handles
    <2>3. HandlesKept'  BY <2>1, <2>2, SameHandles
    <2>4. Undisturbed(t)' => Progress(t)'  BY <2>1 DEF FileInv, Undisturbed, Progress
    <2> QED  BY <1>0, <2>1, <2>3, <2>4, StepOf
  <1> QED  BY <1>1, <1>2

LEMMA DeleteStep == ASSUME FileInv, NEW t \in FileTasks, Delete(t) PROVE FileInv'
  <1>0. Running(t)  BY DEF Delete, Running
  <1>1. CASE Fails(t)  BY <1>0, <1>1, FailsFile
  <1>2. CASE ~Fails(t)
    <2>1. /\ Others(t) /\ filePc[t] = "delete" /\ filePc'[t] = "idle"
          /\ UNCHANGED <<pos, hold, leaked, second, callFailed, alone>>
      BY <1>2, PlainOthers DEF Delete, Goto, FileInv, FileArrays
    <2>2. \A h \in Handles : Open_(h)' => Open_(h)  BY <2>1 DEF Open_
    <2>3. hold[t] = BadHandle  BY <2>1 DEF FileInv, HandlesKept
    <2>4. HandlesKept'  BY <2>1, <2>2, <2>3, SameHandles
    <2>5. Undisturbed(t)' => Progress(t)'  BY <2>1 DEF FileInv, Undisturbed, Progress
    <2> QED  BY <1>0, <2>1, <2>4, <2>5, StepOf
  <1> QED  BY <1>1, <1>2

LEMMA CloseStep ==
    ASSUME FileInv, NEW t \in FileTasks, Close(t, "close", "reopen") \/ Close(t, "close2", "delete")
    PROVE  FileInv'
  <1>0. Running(t)  BY DEF Close, Running
  <1>1. CASE Fails(t)  BY <1>0, <1>1, FailsFile
  <1>2. CASE ~Fails(t)
    <2>1. /\ Others(t) /\ UNCHANGED <<file, fileBuf, second, callFailed, leaked, alone>>
          /\ hold'[t] = BadHandle /\ hold[t] \in Handles
          /\ \/ filePc[t] = "close" /\ filePc'[t] = "reopen"
             \/ filePc[t] = "close2" /\ filePc'[t] = "delete"
      BY <1>2, CloseOthers DEF Close, Goto, FileInv, FileArrays, Open_
    <2>2. pos'[hold[t]] = Closed_ /\ \A h \in Handles \ {hold[t]} : pos'[h] = pos[h]
      BY <1>2, <2>1 DEF Close, FileInv, FileArrays
    <2>3. \A h \in Handles : Open_(h)' => Open_(h) /\ h # hold[t]  BY <2>2 DEF Open_, Handles
    <2>4. HandlesKept'
      <3>1. ASSUME NEW h \in Handles, Open_(h)' PROVE h \in leaked' \/ \E u \in FileTasks : h = hold'[u]
        <4>1. h # hold[t] /\ (h \in leaked \/ \E u \in FileTasks : h = hold[u])
          BY <2>3, <3>1 DEF FileInv, HandlesKept
        <4> QED  BY <2>1, <4>1 DEF Others
      <3>2. \A u \in FileTasks : filePc'[u] \in {"idle", "open", "reopen", "delete"} => hold'[u] = BadHandle
        BY <2>1 DEF FileInv, HandlesKept, Others
      <3> QED  BY <3>1, <3>2 DEF HandlesKept, Handles
    <2>5. Undisturbed(t)' => Progress(t)'  BY <2>1 DEF FileInv, Undisturbed, Progress
    <2> QED  BY <1>0, <2>1, <2>4, <2>5, StepOf
  <1> QED  BY <1>1, <1>2

LEMMA StartStep == ASSUME FileInv, NEW t \in FileTasks, FileStart(t) PROVE FileInv'
  <1>1. /\ FileArrays' /\ UNCHANGED <<file, pos, hold, leaked>>
        /\ ~Running(t) /\ filePc[t] = "idle" /\ filePc'[t] = "open" /\ fileBuf'[t] = <<>>
        /\ \A u \in FileTasks \ {t} :
              /\ filePc'[u] = filePc[u] /\ second'[u] = second[u] /\ callFailed'[u] = callFailed[u]
              /\ alone'[u] => alone[u] /\ ~Running(u)
        /\ alone'[t] => \A v \in FileTasks : ~Running(v)
    BY DEF FileInv, FileArrays, FileStart, Goto, Running
  <1>2. HandlesKept'
    <2>1. \A h \in Handles : Open_(h)' <=> Open_(h)  BY <1>1 DEF Open_
    <2> QED  BY <1>1, <2>1 DEF FileInv, HandlesKept, Handles
  <1>3. \A u, v \in FileTasks : alone'[u] /\ Running(u)' /\ Running(v)' => u = v
    BY <1>1 DEF FileInv, Running
  <1>4. ASSUME NEW u \in FileTasks, Undisturbed(u)' PROVE Progress(u)'
    <2>1. CASE u = t  BY <1>1, <2>1 DEF Progress
    <2>2. CASE u # t  BY <1>1, <1>4, <2>2 DEF FileInv, Undisturbed, Progress, Running
    <2> QED  BY <2>1, <2>2
  <1> QED  BY <1>1, <1>2, <1>3, <1>4 DEF FileInv

\* The power goes: no task, no handle, and the file as it is.
LEMMA PowerStep == ASSUME FileInv, FilePowerLoss PROVE FileInv'
  BY DEF FileInv, FileArrays, HandlesKept, FilePowerLoss, Undisturbed, Progress, Running, Open_

LEMMA FileStep == FileInv /\ [FileNext \/ FilePowerLoss]_fileVars => FileInv'
  <1>1. ASSUME FileInv, UNCHANGED fileVars PROVE FileInv'
    BY <1>1 DEF fileVars, FileInv, FileArrays, HandlesKept, Undisturbed, Progress, Running, Open_, Handles, Rewound
  <1> QED
    BY <1>1, StartStep, PowerStep, FirstOpen, FirstRead, WriteStep, CloseStep, SecondOpen, SecondRead,
       SeekStep, ThirdRead, DeleteStep DEF FileNext, Utils_File_Task

----------------------------------------------------------------------------
(* The soft AP's count *)

Busy == {j \in JoinTasks : joinPc[j] # "idle"}
Storing == {j \in JoinTasks : joinPc[j] = "store"}
Leaving == IF handlerPc = "store" THEN 1 ELSE 0

\* The counter, and what the events, tasks and handler on their way will make of it.
Told == g_apEnableSuccess + Number(staEvents, "join") - Number(staEvents, "leave") + Cardinality(Busy) - Leaving

CountTypes ==
    /\ g_apEnableSuccess \in Int /\ handlerCounted \in Int /\ counted \in [JoinTasks -> Int]
    /\ DOMAIN joinPc = JoinTasks /\ handlerPc \in {"idle", "store"}
    /\ staEvents \in Seq({"join", "leave"}) /\ IsFiniteSet(joined) /\ disturbed \in BOOLEAN

\* Whoever is about to store has read the counter as it still is.
Fresh ==
    /\ \A j \in JoinTasks : joinPc[j] = "store" => counted[j] = g_apEnableSuccess
    /\ handlerPc = "store" => handlerCounted = g_apEnableSuccess

CountInv ==
    /\ CountTypes
    /\ ~disturbed => /\ Told = Cardinality(joined) /\ Fresh
                     /\ \A j \in JoinTasks : joinPc[j] = "test" => error

LEMMA CountInit == ApInit => CountInv
  <1> SUFFICES ASSUME ApInit PROVE CountInv  OBVIOUS
  <1>1. Busy = {}  BY DEF Busy, ApInit
  <1>2. Cardinality(Busy) = 0 /\ Cardinality(joined) = 0 /\ IsFiniteSet(joined)
    BY <1>1, FS_EmptySet DEF ApInit
  <1>3. Number(staEvents, "join") = 0 /\ Number(staEvents, "leave") = 0  BY EmptyQueue DEF ApInit
  <1>4. Told = Cardinality(joined)  BY <1>2, <1>3 DEF Told, Leaving, ApInit
  <1>5. <<>> \in Seq({"join", "leave"})  OBVIOUS
  <1>6. CountTypes
    <2>1. /\ g_apEnableSuccess = 0 /\ handlerCounted = 0 /\ counted = [j \in JoinTasks |-> 0]
          /\ joinPc = [j \in JoinTasks |-> "idle"] /\ handlerPc = "idle" /\ staEvents = <<>> /\ disturbed = FALSE
      BY DEF ApInit
    <2>2. staEvents \in Seq({"join", "leave"})  BY <1>5, <2>1, Zenon
    <2>3. g_apEnableSuccess \in Int /\ handlerCounted \in Int /\ counted \in [JoinTasks -> Int]
      BY <2>1
    <2>4. DOMAIN joinPc = JoinTasks  BY <2>1
    <2>5. handlerPc \in {"idle", "store"} /\ disturbed \in BOOLEAN  BY <2>1, Zenon
    <2> QED  BY <1>2, <2>2, <2>3, <2>4, <2>5 DEF CountTypes
  <1> QED  BY <1>4, <1>6 DEF CountInv, Fresh, ApInit

LEMMA CountNumbers ==
    ASSUME CountTypes
    PROVE  /\ IsFiniteSet(Busy) /\ Cardinality(Busy) \in Nat /\ IsFiniteSet(Storing) /\ Cardinality(Storing) \in Nat
           /\ Number(staEvents, "join") \in Nat /\ Number(staEvents, "leave") \in Nat
           /\ Cardinality(joined) \in Nat /\ Leaving \in {0, 1}
  <1>1. Busy \in SUBSET JoinTasks /\ Storing \in SUBSET JoinTasks  BY DEF Busy, Storing
  <1>2. /\ IsFiniteSet(Busy) /\ Cardinality(Busy) \in Nat
        /\ IsFiniteSet(Storing) /\ Cardinality(Storing) \in Nat
    BY <1>1, ApAssumption, FS_Subset, FS_CardinalityType
  <1>3. Number(staEvents, "join") \in Nat /\ Number(staEvents, "leave") \in Nat
    BY NumberType DEF CountTypes
  <1> QED  BY <1>2, <1>3, FS_CardinalityType DEF CountTypes, Leaving

\* Steps of WifiAPTask and of the clients leave the count alone.
LEMMA CountSame ==
    ASSUME CountInv, UNCHANGED countVars, UNCHANGED <<error, disturbed>> \/ \E ok \in BOOLEAN : CallInto(ok)
    PROVE  CountInv'
  <1>1. CountTypes' /\ Told' = Told /\ Cardinality(joined)' = Cardinality(joined)
    BY DEF CountInv, CountTypes, countVars, Told, Busy, Leaving, CallInto
  <1>2. ~disturbed' => ~disturbed  BY DEF CallInto
  <1>3. ~disturbed' => Fresh'  BY <1>2 DEF CountInv, countVars, Fresh
  <1>4. ASSUME ~disturbed', NEW j \in JoinTasks, joinPc'[j] = "test" PROVE error'
    <2>1. joinPc[j] = "test" /\ ~disturbed /\ error  BY <1>2, <1>4 DEF CountInv, countVars
    <2>2. CASE UNCHANGED <<error, disturbed>>  BY <2>1, <2>2
    <2>3. CASE \E ok \in BOOLEAN : CallInto(ok)
      <3>1. PICK ok \in BOOLEAN : CallInto(ok)  BY <2>3
      <3>2. ok = TRUE  BY <1>4, <2>1, <3>1 DEF CallInto
      <3>3. error' = TRUE  BY <3>1, <3>2 DEF CallInto
      <3> QED  BY <3>3
    <2> QED  BY <2>2, <2>3
  <1> QED  BY <1>1, <1>2, <1>3, <1>4 DEF CountInv

LEMMA ApStartCount == ASSUME CountInv, NEW t \in ApTasks, ApStart(t) \/ WifiAPTask(t) PROVE CountInv'
  <1>1. UNCHANGED countVars /\ (UNCHANGED <<error, disturbed>> \/ \E ok \in BOOLEAN : CallInto(ok))
    <2>0. MayFail \subseteq BOOLEAN  BY DEF MayFail
    <2>1. CASE ApStart(t)  BY <2>1 DEF ApStart
    <2>2. CASE Register(t)  BY <2>0, <2>2 DEF Register
    <2>3. CASE SetHotspotConfig(t)  BY <2>0, <2>3 DEF SetHotspotConfig
    <2>4. CASE EnableHotspot(t)  BY <2>0, <2>4 DEF EnableHotspot
    <2>5. CASE TestError(t, "registered", "config") \/ TestError(t, "configured", "enable")
               \/ TestError(t, "enabled", "dhcps")
      BY <2>5 DEF TestError
    <2>6. CASE StartDhcps(t) \/ Socket(t) \/ Bind(t)  BY <2>6 DEF StartDhcps, Socket, Bind
    <2>7. CASE Receive(t) \/ SendTo(t)  BY <2>7 DEF Receive, SendTo
    <2> QED  BY <2>1, <2>2, <2>3, <2>4, <2>5, <2>6, <2>7 DEF WifiAPTask
  <1> QED  BY <1>1, CountSame

LEMMA ApIdleCount == ASSUME CountInv, UNCHANGED apVars PROVE CountInv'
  BY CountSame DEF apVars

\* A station comes: one more, and one more event.
LEMMA JoinsCount == ASSUME CountInv, NEW c \in Stations, StationJoins(c) PROVE CountInv'
  <1>0. CountTypes  BY DEF CountInv
  <1>1. /\ c \notin joined /\ joined' = joined \cup {c} /\ disturbed' \in BOOLEAN
        /\ ~disturbed' => ~disturbed /\ staEvents' = Append(staEvents, "join")
        /\ staEvents' \in {staEvents, Append(staEvents, "join")}
        /\ UNCHANGED <<error, joinPc, counted, g_apEnableSuccess, handlerPc, handlerCounted>>
    BY <1>0 DEF StationJoins, CountTypes
  <1>2. IsFiniteSet(joined') /\ Cardinality(joined') = Cardinality(joined) + 1
    BY <1>0, <1>1, FS_AddElement DEF CountTypes
  <1>3. staEvents' \in Seq({"join", "leave"})
    <2>1. Append(staEvents, "join") \in Seq({"join", "leave"})  BY <1>0, AppendProperties DEF CountTypes
    <2> QED  BY <1>0, <1>1, <2>1 DEF CountTypes
  <1>4. CountTypes'  BY <1>0, <1>1, <1>2, <1>3 DEF CountTypes
  <1>5. ASSUME ~disturbed' PROVE Told' = Cardinality(joined')
    <2>0. /\ Number(Append(staEvents, "join"), "join") = Number(staEvents, "join") + 1
          /\ Number(Append(staEvents, "join"), "leave") = Number(staEvents, "leave") + 0
      BY <1>0, NumberAppended DEF CountTypes
    <2>1. /\ Number(staEvents', "join") = Number(staEvents, "join") + 1
          /\ Number(staEvents', "leave") = Number(staEvents, "leave")
      <3>1. staEvents' = Append(staEvents, "join")  BY <1>1, <1>5
      <3>2. Number(staEvents, "join") \in Nat /\ Number(staEvents, "leave") \in Nat  BY <1>0, CountNumbers
      <3> QED  BY <2>0, <3>1, <3>2
    <2>2. Busy' = Busy /\ Leaving' = Leaving  BY <1>1 DEF Busy, Leaving
    <2>3. Told = Cardinality(joined)  BY <1>1, <1>5 DEF CountInv
    <2>4. /\ g_apEnableSuccess \in Int /\ Number(staEvents, "join") \in Nat /\ Number(staEvents, "leave") \in Nat
          /\ Cardinality(Busy) \in Nat /\ Leaving \in Int /\ Cardinality(joined) \in Nat
      BY <1>0, CountNumbers DEF CountTypes
    <2>5. \A g, j, l, b, v, n \in Int : g + j - l + b - v = n => g + (j + 1) - l + b - v = n + 1
      OBVIOUS
    <2>6. g_apEnableSuccess + Number(staEvents, "join") - Number(staEvents, "leave") + Cardinality(Busy) - Leaving
            = Cardinality(joined)
      BY <2>3 DEF Told
    <2>7. g_apEnableSuccess + (Number(staEvents, "join") + 1) - Number(staEvents, "leave") + Cardinality(Busy) - Leaving
            = Cardinality(joined) + 1
      BY <2>4, <2>5, <2>6
    <2>8. Told' = g_apEnableSuccess + (Number(staEvents, "join") + 1) - Number(staEvents, "leave")
                    + Cardinality(Busy) - Leaving
      BY <1>1, <2>1, <2>2 DEF Told
    <2> QED  BY <1>2, <2>7, <2>8
  <1> QED  BY <1>1, <1>4, <1>5 DEF CountInv, Fresh

LEMMA LeavesCount == ASSUME CountInv, NEW c \in Stations, StationLeaves(c) PROVE CountInv'
  <1>0. CountTypes  BY DEF CountInv
  <1>1. /\ c \in joined /\ joined' = joined \ {c} /\ disturbed' \in BOOLEAN
        /\ ~disturbed' => ~disturbed /\ staEvents' = Append(staEvents, "leave")
        /\ staEvents' \in {staEvents, Append(staEvents, "leave")}
        /\ UNCHANGED <<error, joinPc, counted, g_apEnableSuccess, handlerPc, handlerCounted>>
    BY <1>0 DEF StationLeaves, CountTypes
  <1>2. IsFiniteSet(joined') /\ Cardinality(joined') = Cardinality(joined) - 1
    BY <1>0, <1>1, FS_RemoveElement DEF CountTypes
  <1>3. staEvents' \in Seq({"join", "leave"})
    <2>1. Append(staEvents, "leave") \in Seq({"join", "leave"})  BY <1>0, AppendProperties DEF CountTypes
    <2> QED  BY <1>0, <1>1, <2>1 DEF CountTypes
  <1>4. CountTypes'  BY <1>0, <1>1, <1>2, <1>3 DEF CountTypes
  <1>5. ASSUME ~disturbed' PROVE Told' = Cardinality(joined')
    <2>0. /\ Number(Append(staEvents, "leave"), "leave") = Number(staEvents, "leave") + 1
          /\ Number(Append(staEvents, "leave"), "join") = Number(staEvents, "join") + 0
      BY <1>0, NumberAppended DEF CountTypes
    <2>1. /\ Number(staEvents', "leave") = Number(staEvents, "leave") + 1
          /\ Number(staEvents', "join") = Number(staEvents, "join")
      <3>1. staEvents' = Append(staEvents, "leave")  BY <1>1, <1>5
      <3>2. Number(staEvents, "join") \in Nat /\ Number(staEvents, "leave") \in Nat  BY <1>0, CountNumbers
      <3> QED  BY <2>0, <3>1, <3>2
    <2>2. Busy' = Busy /\ Leaving' = Leaving  BY <1>1 DEF Busy, Leaving
    <2>3. Told = Cardinality(joined)  BY <1>1, <1>5 DEF CountInv
    <2>4. /\ g_apEnableSuccess \in Int /\ Number(staEvents, "join") \in Nat /\ Number(staEvents, "leave") \in Nat
          /\ Cardinality(Busy) \in Nat /\ Leaving \in Int /\ Cardinality(joined) \in Nat
      BY <1>0, CountNumbers DEF CountTypes
    <2>5. \A g, j, l, b, v, n \in Int : g + j - l + b - v = n => g + j - (l + 1) + b - v = n - 1
      OBVIOUS
    <2>6. g_apEnableSuccess + Number(staEvents, "join") - Number(staEvents, "leave") + Cardinality(Busy) - Leaving
            = Cardinality(joined)
      BY <2>3 DEF Told
    <2>7. g_apEnableSuccess + Number(staEvents, "join") - (Number(staEvents, "leave") + 1) + Cardinality(Busy) - Leaving
            = Cardinality(joined) - 1
      BY <2>4, <2>5, <2>6
    <2>8. Told' = g_apEnableSuccess + Number(staEvents, "join") - (Number(staEvents, "leave") + 1)
                    + Cardinality(Busy) - Leaving
      BY <1>1, <2>1, <2>2 DEF Told
    <2> QED  BY <1>2, <2>7, <2>8
  <1> QED  BY <1>1, <1>4, <1>5 DEF CountInv, Fresh

\* The first event is taken.
LEMMA EventTaken ==
    ASSUME CountTypes, staEvents # <<>>, staEvents' = Tail(staEvents)
    PROVE  /\ staEvents' \in Seq({"join", "leave"})
           /\ \A x : Number(staEvents, x) = Number(staEvents', x) + (IF Head(staEvents) = x THEN 1 ELSE 0)
           /\ \A x : Number(staEvents', x) \in Nat
  <1>1. staEvents' \in Seq({"join", "leave"})  BY HeadTailProperties DEF CountTypes
  <1>2. \A x : Number(staEvents, x) = Number(Tail(staEvents), x) + (IF Head(staEvents) = x THEN 1 ELSE 0)
    BY NumberTaken DEF CountTypes
  <1> QED  BY <1>1, <1>2, NumberType

LEMMA JoinHandled == ASSUME CountInv, OnHotspotStaJoinHandler PROVE CountInv'
  <1>0. CountTypes  BY DEF CountInv
  <1>1. /\ staEvents # <<>> /\ staEvents' = Tail(staEvents) /\ Head(staEvents) = "join"
        /\ UNCHANGED <<error, counted, g_apEnableSuccess, handlerPc, handlerCounted, joined>>
    BY DEF OnHotspotStaJoinHandler, HandlerIdle
  <1>2. CASE disturbed' = TRUE /\ UNCHANGED joinPc
    BY <1>0, <1>1, <1>2, EventTaken DEF CountInv, CountTypes
  <1>3. CASE (\E j \in JoinTasks : joinPc[j] = "idle" /\ joinPc' = [joinPc EXCEPT ![j] = "list"]) /\ UNCHANGED disturbed
    <2>1. PICK j \in JoinTasks : joinPc[j] = "idle" /\ joinPc' = [joinPc EXCEPT ![j] = "list"]  BY <1>3
    <2>2. /\ DOMAIN joinPc' = JoinTasks /\ joinPc'[j] = "list"
          /\ \A k \in JoinTasks \ {j} : joinPc'[k] = joinPc[k]
      BY <1>0, <2>1 DEF CountTypes
    <2>3. Busy' = Busy \cup {j} /\ j \notin Busy  BY <2>1, <2>2 DEF Busy
    <2>4. Cardinality(Busy') = Cardinality(Busy) + 1  BY <1>0, <2>3, CountNumbers, FS_AddElement
    <2>5. CountTypes'  BY <1>0, <1>1, <1>3, <2>2, EventTaken DEF CountTypes
    <2>6. ASSUME ~disturbed' PROVE Told' = Cardinality(joined')
      <3>1. Told = Cardinality(joined)  BY <1>3, <2>6 DEF CountInv
      <3>2. /\ Number(staEvents, "join") = Number(staEvents', "join") + 1
            /\ Number(staEvents, "leave") = Number(staEvents', "leave")
            /\ Number(staEvents', "join") \in Nat /\ Number(staEvents', "leave") \in Nat
        BY <1>0, <1>1, EventTaken
      <3>3. Leaving' = Leaving  BY <1>1 DEF Leaving
      <3>4. g_apEnableSuccess' = g_apEnableSuccess /\ joined' = joined  BY <1>1
      <3>5. Cardinality(Busy) \in Nat /\ Leaving \in {0, 1} /\ g_apEnableSuccess \in Int
        BY <1>0, CountNumbers DEF CountTypes
      <3>6. Told' = Told  BY <2>4, <3>2, <3>3, <3>4, <3>5 DEF Told
      <3> QED  BY <3>1, <3>4, <3>6
    <2> QED  BY <1>1, <1>3, <2>1, <2>2, <2>5, <2>6 DEF CountInv, Fresh
  <1> QED  BY <1>2, <1>3 DEF OnHotspotStaJoinHandler

LEMMA LeaveHandled == ASSUME CountInv, OnHotspotStaLeaveHandler PROVE CountInv'
  <1>0. CountTypes  BY DEF CountInv
  <1>1. /\ staEvents # <<>> /\ staEvents' = Tail(staEvents) /\ Head(staEvents) = "leave" /\ handlerPc = "idle"
        /\ UNCHANGED <<error, joinPc, counted, g_apEnableSuccess, joined>>
    BY DEF OnHotspotStaLeaveHandler, HandlerIdle
  <1>2. CASE disturbed' = TRUE /\ UNCHANGED <<handlerPc, handlerCounted>>
    BY <1>0, <1>1, <1>2, EventTaken DEF CountInv, CountTypes
  <1>3. CASE handlerPc' = "store" /\ handlerCounted' = g_apEnableSuccess /\ UNCHANGED disturbed
    <2>1. CountTypes'  BY <1>0, <1>1, <1>3, EventTaken DEF CountTypes
    <2>2. Busy' = Busy /\ Leaving = 0 /\ Leaving' = 1  BY <1>1, <1>3 DEF Busy, Leaving
    <2>3. ASSUME ~disturbed' PROVE Told' = Cardinality(joined')
      <3>1. Told = Cardinality(joined)  BY <1>3, <2>3 DEF CountInv
      <3>2. /\ Number(staEvents, "leave") = Number(staEvents', "leave") + 1
            /\ Number(staEvents, "join") = Number(staEvents', "join")
            /\ Number(staEvents', "join") \in Nat /\ Number(staEvents', "leave") \in Nat
        BY <1>0, <1>1, EventTaken
      <3> QED  BY <1>0, <1>1, <2>2, <3>1, <3>2, CountNumbers DEF Told, CountTypes
    <2> QED  BY <1>1, <1>3, <2>1, <2>3 DEF CountInv, Fresh
  <1> QED  BY <1>2, <1>3 DEF OnHotspotStaLeaveHandler

\* If the step that stores does not count as disturbed, nobody else is about to.
LEMMA OneWriter ==
    ASSUME CountTypes, Overlaps(Writers)
    PROVE  /\ disturbed' \in BOOLEAN /\ (~disturbed' => ~disturbed)
           /\ ~disturbed' /\ handlerPc = "store" => Storing = {}
           /\ ~disturbed' => \A i, j \in Storing : i = j /\ handlerPc # "store"
  <1>1. Writers = Cardinality(Storing) + Leaving /\ Cardinality(Storing) \in Nat /\ IsFiniteSet(Storing)
    BY CountNumbers DEF Writers, Storing, Leaving
  <1>2. disturbed' \in BOOLEAN /\ (~disturbed' => ~disturbed /\ ~(Writers > 1))  BY DEF Overlaps
  <1>3. ASSUME ~disturbed' PROVE Cardinality(Storing) + Leaving <= 1
    BY <1>1, <1>2, <1>3, CountNumbers
  <1>4. ASSUME ~disturbed', handlerPc = "store" PROVE Storing = {}
    <2>1. Cardinality(Storing) = 0  BY <1>1, <1>3, <1>4 DEF Leaving
    <2> QED  BY <1>1, <2>1, FS_EmptySet
  <1>5. ASSUME ~disturbed', NEW i \in Storing, NEW j \in Storing PROVE i = j /\ handlerPc # "store"
    <2>1. handlerPc # "store"  BY <1>4, <1>5
    <2>2. Cardinality(Storing \ {i}) = Cardinality(Storing) - 1  BY <1>1, FS_RemoveElement
    <2>3. IsFiniteSet(Storing \ {i}) /\ Cardinality(Storing \ {i}) \in Nat
      BY <1>1, FS_RemoveElement, FS_CardinalityType
    <2>4. Cardinality(Storing \ {i}) = 0  BY <1>1, <1>3, <1>5, <2>2, <2>3, CountNumbers
    <2>5. Storing \ {i} = {}  BY <2>3, <2>4, FS_EmptySet
    <2> QED  BY <2>1, <2>5
  <1> QED  BY <1>2, <1>4, <1>5

LEMMA LeaveCounted == ASSUME CountInv, LeaveStored PROVE CountInv'
  <1>0. CountTypes  BY DEF CountInv
  <1>1. /\ handlerPc = "store" /\ handlerPc' = "idle" /\ g_apEnableSuccess' = handlerCounted - 1
        /\ handlerCounted' = 0 /\ Overlaps(Writers)
        /\ UNCHANGED <<error, joinPc, counted, joined, staEvents>>
    BY DEF LeaveStored
  <1>2. CountTypes'  BY <1>0, <1>1, OneWriter DEF CountTypes
  <1>3. Busy' = Busy /\ Leaving = 1 /\ Leaving' = 0  BY <1>1 DEF Busy, Leaving
  <1>4. ASSUME ~disturbed' PROVE Told' = Cardinality(joined') /\ Fresh'
    <2>1. ~disturbed /\ Storing = {}  BY <1>0, <1>1, <1>4, OneWriter
    <2>2. Told = Cardinality(joined) /\ handlerCounted = g_apEnableSuccess
      BY <1>1, <2>1 DEF CountInv, Fresh
    <2>3. Told' = Cardinality(joined')
      BY <1>0, <1>1, <1>3, <2>2, CountNumbers DEF Told, CountTypes
    <2>4. Fresh'  BY <1>1, <2>1 DEF Fresh, Storing
    <2> QED  BY <2>3, <2>4
  <1> QED  BY <1>0, <1>1, <1>2, <1>4, OneWriter DEF CountInv

\* A join task goes on, and stays busy or becomes idle.
LEMMA BusyMoves ==
    ASSUME CountTypes, NEW j \in JoinTasks, NEW next, joinPc[j] # "idle", GoJoin(j, next)
    PROVE  /\ DOMAIN joinPc' = JoinTasks /\ joinPc'[j] = next
           /\ \A k \in JoinTasks \ {j} : joinPc'[k] = joinPc[k]
           /\ next # "idle" => Busy' = Busy
           /\ next = "idle" => Cardinality(Busy') = Cardinality(Busy) - 1
  <1>1. /\ DOMAIN joinPc' = JoinTasks /\ joinPc'[j] = next
        /\ \A k \in JoinTasks \ {j} : joinPc'[k] = joinPc[k]
    BY DEF GoJoin, CountTypes
  <1>2. next # "idle" => Busy' = Busy  BY <1>1 DEF Busy
  <1>3. j \in Busy /\ (next = "idle" => Busy' = Busy \ {j})  BY <1>1 DEF Busy
  <1> QED  BY <1>1, <1>2, <1>3, CountNumbers, FS_RemoveElement

LEMMA ListCount == ASSUME CountInv, NEW j \in JoinTasks, GetStationList(j) PROVE CountInv'
  <1>0. CountTypes  BY DEF CountInv
  <1>1. /\ joinPc[j] = "list" /\ GoJoin(j, "test") /\ JoinSame
        /\ disturbed' \in BOOLEAN /\ (~disturbed' => ~disturbed /\ error' = TRUE)
        /\ UNCHANGED <<counted, g_apEnableSuccess>>
    <2>1. PICK ok \in MayFail : error' = ok /\ disturbed' = (disturbed \/ ~ok)  BY DEF GetStationList
    <2>2. ok \in BOOLEAN  BY DEF MayFail
    <2> QED  BY <2>1, <2>2 DEF GetStationList
  <1>2. /\ DOMAIN joinPc' = JoinTasks /\ Busy' = Busy /\ joinPc'[j] = "test"
        /\ \A k \in JoinTasks \ {j} : joinPc'[k] = joinPc[k]
    BY <1>0, <1>1, BusyMoves
  <1>3. CountTypes' /\ Told' = Told /\ Cardinality(joined') = Cardinality(joined)
    BY <1>0, <1>1, <1>2 DEF CountTypes, JoinSame, Told, Leaving
  <1>4. ~disturbed' => Fresh'  BY <1>1, <1>2 DEF CountInv, Fresh, JoinSame
  <1> QED  BY <1>1, <1>3, <1>4 DEF CountInv

LEMMA TestCount == ASSUME CountInv, NEW j \in JoinTasks, TestList(j) PROVE CountInv'
  <1>0. CountTypes  BY DEF CountInv
  <1>1. /\ joinPc[j] = "test" /\ GoJoin(j, IF error THEN "load" ELSE "idle") /\ JoinSame
        /\ UNCHANGED <<error, disturbed, counted, g_apEnableSuccess>>
    BY DEF TestList
  <1>2. /\ DOMAIN joinPc' = JoinTasks /\ joinPc'[j] \in {"load", "idle"} /\ (error => Busy' = Busy)
        /\ \A k \in JoinTasks \ {j} : joinPc'[k] = joinPc[k]
    BY <1>0, <1>1, BusyMoves
  <1>3. CountTypes' /\ (error => Told' = Told) /\ Cardinality(joined') = Cardinality(joined)
    BY <1>0, <1>1, <1>2 DEF CountTypes, JoinSame, Told, Leaving
  <1>4. ~disturbed' => ~disturbed /\ error  BY <1>1 DEF CountInv
  <1>5. ~disturbed' => Fresh'  BY <1>1, <1>2 DEF CountInv, Fresh, JoinSame
  <1> QED  BY <1>1, <1>3, <1>4, <1>5 DEF CountInv

LEMMA LoadedCount == ASSUME CountInv, NEW j \in JoinTasks, LoadCount(j) PROVE CountInv'
  <1>0. CountTypes  BY DEF CountInv
  <1>1. /\ joinPc[j] = "load" /\ GoJoin(j, "store") /\ JoinSame
        /\ counted' = [counted EXCEPT ![j] = g_apEnableSuccess]
        /\ UNCHANGED <<error, disturbed, g_apEnableSuccess>>
    BY DEF LoadCount
  <1>2. /\ DOMAIN joinPc' = JoinTasks /\ Busy' = Busy /\ joinPc'[j] = "store"
        /\ \A k \in JoinTasks \ {j} : joinPc'[k] = joinPc[k]
    BY <1>0, <1>1, BusyMoves
  <1>3. CountTypes' /\ Told' = Told /\ Cardinality(joined') = Cardinality(joined)
    BY <1>0, <1>1, <1>2 DEF CountTypes, JoinSame, Told, Leaving
  <1>4. counted'[j] = g_apEnableSuccess /\ \A k \in JoinTasks \ {j} : counted'[k] = counted[k]
    BY <1>0, <1>1 DEF CountTypes
  <1>5. ~disturbed' => Fresh'  BY <1>1, <1>2, <1>4 DEF CountInv, Fresh, JoinSame
  <1> QED  BY <1>1, <1>2, <1>3, <1>5 DEF CountInv

LEMMA StoredCount == ASSUME CountInv, NEW j \in JoinTasks, StoreCount(j) PROVE CountInv'
  <1>0. CountTypes  BY DEF CountInv
  <1>1. /\ joinPc[j] = "store" /\ GoJoin(j, "idle") /\ JoinSame
        /\ g_apEnableSuccess' = counted[j] + 1 /\ counted' = [counted EXCEPT ![j] = 0]
        /\ Overlaps(Writers) /\ UNCHANGED error
    BY DEF StoreCount
  <1>2. /\ DOMAIN joinPc' = JoinTasks /\ joinPc'[j] = "idle" /\ Cardinality(Busy') = Cardinality(Busy) - 1
        /\ \A k \in JoinTasks \ {j} : joinPc'[k] = joinPc[k]
    BY <1>0, <1>1, BusyMoves
  <1>3. CountTypes'
    <2>1. disturbed' \in BOOLEAN  BY <1>0, <1>1, OneWriter
    <2> QED  BY <1>0, <1>1, <1>2, <2>1 DEF CountTypes, JoinSame
  <1>4. ASSUME ~disturbed' PROVE Told' = Cardinality(joined') /\ Fresh'
    <2>0. /\ ~disturbed /\ (handlerPc = "store" => Storing = {})
          /\ \A i, k \in Storing : i = k /\ handlerPc # "store"
      <3>1. Overlaps(Writers)  BY <1>1
      <3> QED  BY <1>0, <1>4, <3>1, OneWriter
    <2>1. j \in Storing  BY <1>1 DEF Storing
    <2>2. handlerPc # "store" /\ \A i \in Storing : i = j  BY <2>0, <2>1
    <2>3. Told = Cardinality(joined) /\ counted[j] = g_apEnableSuccess
      BY <1>1, <2>0 DEF CountInv, Fresh
    <2>4. Told' = Cardinality(joined')
      <3>1. /\ g_apEnableSuccess \in Int /\ Number(staEvents, "join") \in Nat
            /\ Number(staEvents, "leave") \in Nat /\ Cardinality(Busy) \in Nat /\ Leaving \in Int
        BY <1>0, CountNumbers DEF CountTypes
      <3>2. \A g, m, l, b, v \in Int : (g + 1) + m - l + (b - 1) - v = g + m - l + b - v  OBVIOUS
      <3>3. /\ Told' = (g_apEnableSuccess + 1) + Number(staEvents, "join") - Number(staEvents, "leave")
                          + (Cardinality(Busy) - 1) - Leaving
            /\ Cardinality(joined') = Cardinality(joined)
        <4>1. /\ g_apEnableSuccess' = g_apEnableSuccess + 1 /\ staEvents' = staEvents
              /\ handlerPc' = handlerPc /\ joined' = joined
          BY <1>1, <2>3 DEF JoinSame
        <4> QED  BY <1>2, <4>1 DEF Told, Leaving
      <3>4. Told' = Told  BY <3>1, <3>2, <3>3 DEF Told
      <3> QED  BY <2>3, <3>3, <3>4
    <2>5. Fresh'  BY <1>1, <1>2, <2>2 DEF Fresh, Storing, JoinSame
    <2> QED  BY <2>4, <2>5
  <1>5. ~disturbed' => ~disturbed  BY <1>0, <1>1, OneWriter
  <1> QED  BY <1>1, <1>2, <1>3, <1>4, <1>5 DEF CountInv

LEMMA CountStep == CountInv /\ [ApNext \/ StationsMove]_apVars => CountInv'
  <1> SUFFICES ASSUME CountInv, [ApNext \/ StationsMove]_apVars PROVE CountInv'  OBVIOUS
  <1>1. CASE (\E t \in ApTasks : ApStart(t)) \/ ApTasksStep  BY <1>1, ApStartCount DEF ApTasksStep
  <1>2. CASE ApHandlers  BY <1>2, JoinHandled, LeaveHandled, LeaveCounted DEF ApHandlers
  <1>3. CASE JoinStep
    BY <1>3, ListCount, TestCount, LoadedCount, StoredCount DEF JoinStep, HotspotStaJoinTask
  <1>4. CASE StationsMove  BY <1>4, JoinsCount, LeavesCount DEF StationsMove
  <1>5. CASE UNCHANGED apVars  BY <1>5, ApIdleCount
  <1> QED  BY <1>1, <1>2, <1>3, <1>4, <1>5 DEF ApNext

\* When everybody has come to rest, nothing is on its way.
LEMMA CountAtRest == CountInv => CountsStations
  <1> SUFFICES ASSUME CountInv, staEvents = <<>>, handlerPc = "idle", ~disturbed,
                      \A j \in JoinTasks : joinPc[j] = "idle"
               PROVE  g_apEnableSuccess = Cardinality(joined)
    BY DEF CountsStations
  <1>1. Busy = {}  BY DEF Busy
  <1>2. Cardinality(Busy) = 0  BY <1>1, FS_EmptySet
  <1>3. Number(staEvents, "join") = 0 /\ Number(staEvents, "leave") = 0  BY EmptyQueue
  <1> QED  BY <1>2, <1>3 DEF CountInv, CountTypes, Told, Leaving

----------------------------------------------------------------------------
(* The sensor board *)

\* Parities add up under Xor, so that the remainder of a message is, bit by bit, linear
\* in it (Syndrome below); a set of positions in a frame is 24 conditions, three OddBytes.
Differ(a, b) == ~(a <=> b)
Odd(S) == Cardinality(S) % 2 = 1

LEMMA OddEmpty == ~Odd({})
  BY FS_EmptySet DEF Odd

\* One element more changes the parity.
LEMMA OddStep ==
    ASSUME NEW S \in SUBSET Int, NEW k \in Nat, NEW l \in Int, l = k - 1
    PROVE  Odd(S \cap 0 .. k) <=> Differ(Odd(S \cap 0 .. l), k \in S)
  <1> DEFINE T == S \cap 0 .. l
  <1>1. IsFiniteSet(T) /\ Cardinality(T) \in Nat
    <2>1. IsFiniteSet(0 .. l)  BY FS_Interval
    <2> QED  BY <2>1, FS_Subset, FS_CardinalityType
  <1>2. CASE k \in S
    <2>1. S \cap 0 .. k = T \cup {k} /\ k \notin T  BY <1>2
    <2>2. Cardinality(T \cup {k}) = Cardinality(T) + 1  BY <1>1, <2>1, FS_AddElement
    <2>3. \A n \in Nat : (n + 1) % 2 = 1 <=> ~(n % 2 = 1)  OBVIOUS
    <2> HIDE DEF T
    <2> QED  BY <1>1, <1>2, <2>1, <2>2, <2>3 DEF Odd, Differ, T
  <1>3. CASE k \notin S
    <2>1. S \cap 0 .. k = T  BY <1>3
    <2> QED  BY <1>3, <2>1 DEF Differ
  <1> QED  BY <1>2, <1>3

\* The parity of the eight positions from k on.
OddByte(S, k) ==
    Differ(Differ(Differ(k \in S, k + 1 \in S), Differ(k + 2 \in S, k + 3 \in S)),
           Differ(Differ(k + 4 \in S, k + 5 \in S), Differ(k + 6 \in S, k + 7 \in S)))

LEMMA OddBytes ==
    ASSUME NEW S \in SUBSET Int, NEW k \in Nat
    PROVE  Odd(S \cap 0 .. k + 7) <=> Differ(Odd(S \cap 0 .. k - 1), OddByte(S, k))
  <1>0. Odd(S \cap 0 .. k) <=> Differ(Odd(S \cap 0 .. k - 1), k \in S)  BY OddStep
  <1>1. Odd(S \cap 0 .. k + 1) <=> Differ(Odd(S \cap 0 .. k), k + 1 \in S)  BY OddStep
  <1>2. Odd(S \cap 0 .. k + 2) <=> Differ(Odd(S \cap 0 .. k + 1), k + 2 \in S)  BY OddStep
  <1>3. Odd(S \cap 0 .. k + 3) <=> Differ(Odd(S \cap 0 .. k + 2), k + 3 \in S)  BY OddStep
  <1>4. Odd(S \cap 0 .. k + 4) <=> Differ(Odd(S \cap 0 .. k + 3), k + 4 \in S)  BY OddStep
  <1>5. Odd(S \cap 0 .. k + 5) <=> Differ(Odd(S \cap 0 .. k + 4), k + 5 \in S)  BY OddStep
  <1>6. Odd(S \cap 0 .. k + 6) <=> Differ(Odd(S \cap 0 .. k + 5), k + 6 \in S)  BY OddStep
  <1>7. Odd(S \cap 0 .. k + 7) <=> Differ(Odd(S \cap 0 .. k + 6), k + 7 \in S)  BY OddStep
  <1> QED  BY <1>0, <1>1, <1>2, <1>3, <1>4, <1>5, <1>6, <1>7 DEF Differ, OddByte

LEMMA OddFrame ==
    ASSUME NEW S \in SUBSET (0 .. 23)
    PROVE  Odd(S) <=> Differ(Differ(OddByte(S, 0), OddByte(S, 8)), OddByte(S, 16))
  <1>1. S \cap 0 .. 0 - 1 = {} /\ S \cap 0 .. 16 + 7 = S
    <2>1. 0 .. 0 - 1 = {} /\ 16 + 7 = 23  OBVIOUS
    <2> QED  BY <2>1
  <1>2. ~Odd(S \cap 0 .. 0 - 1)  BY <1>1, OddEmpty
  <1>3. Odd(S \cap 0 .. 0 + 7) <=> Differ(Odd(S \cap 0 .. 0 - 1), OddByte(S, 0))  BY OddBytes
  <1>4. Odd(S \cap 0 .. 8 + 7) <=> Differ(Odd(S \cap 0 .. 8 - 1), OddByte(S, 8))  BY OddBytes
  <1>5. Odd(S \cap 0 .. 16 + 7) <=> Differ(Odd(S \cap 0 .. 16 - 1), OddByte(S, 16))  BY OddBytes
  <1>6. 0 + 7 = 8 - 1 /\ 8 + 7 = 16 - 1  OBVIOUS
  <1> QED  BY <1>1, <1>2, <1>3, <1>4, <1>5, <1>6 DEF Differ

LEMMA OddXor ==
    ASSUME NEW A \in SUBSET (0 .. 23), NEW B \in SUBSET (0 .. 23)
    PROVE  Odd(Xor(A, B)) <=> Differ(Odd(A), Odd(B))
  <1> DEFINE C == Xor(A, B)
  <1>1. C \in SUBSET (0 .. 23) /\ \A k \in Int : k \in C <=> Differ(k \in A, k \in B)
    BY DEF Xor, Differ
  <1>2. Odd(C) <=> Differ(Differ(OddByte(C, 0), OddByte(C, 8)), OddByte(C, 16))  BY <1>1, OddFrame
  <1> HIDE DEF C
  <1>3. ASSUME NEW k \in Int
        PROVE  OddByte(C, k) <=> Differ(OddByte(A, k), OddByte(B, k))
    <2>0. k \in C <=> Differ(k \in A, k \in B)  BY <1>1
    <2>1. k + 1 \in C <=> Differ(k + 1 \in A, k + 1 \in B)  BY <1>1
    <2>2. k + 2 \in C <=> Differ(k + 2 \in A, k + 2 \in B)  BY <1>1
    <2>3. k + 3 \in C <=> Differ(k + 3 \in A, k + 3 \in B)  BY <1>1
    <2>4. k + 4 \in C <=> Differ(k + 4 \in A, k + 4 \in B)  BY <1>1
    <2>5. k + 5 \in C <=> Differ(k + 5 \in A, k + 5 \in B)  BY <1>1
    <2>6. k + 6 \in C <=> Differ(k + 6 \in A, k + 6 \in B)  BY <1>1
    <2>7. k + 7 \in C <=> Differ(k + 7 \in A, k + 7 \in B)  BY <1>1
    <2> QED  BY <2>0, <2>1, <2>2, <2>3, <2>4, <2>5, <2>6, <2>7 DEF OddByte, Differ
  <1>4. /\ OddByte(C, 0) <=> Differ(OddByte(A, 0), OddByte(B, 0))
        /\ OddByte(C, 8) <=> Differ(OddByte(A, 8), OddByte(B, 8))
        /\ OddByte(C, 16) <=> Differ(OddByte(A, 16), OddByte(B, 16))
    BY <1>3
  <1> QED  BY <1>2, <1>4, OddFrame DEF Differ, C

\* The definition of Remainder, as a property of a function, and its one solution.
Divides(f) ==
    f = [k \in 0 .. 23 |-> IF k < 8 THEN {k}
                           ELSE LET r == Left(f[k - 1]) IN IF 8 \in r THEN Xor(r, POLYNOMIAL) ELSE r]
Table ==
    [k \in 0 .. 23 |->
        CASE k < 8 -> {k}
          [] k = 8 -> {0, 4, 5} [] k = 9 -> {1, 5, 6}
          [] k = 10 -> {2, 6, 7} [] k = 11 -> {0, 3, 4, 5, 7}
          [] k = 12 -> {0, 1, 6} [] k = 13 -> {1, 2, 7}
          [] k = 14 -> {0, 2, 3, 4, 5} [] k = 15 -> {1, 3, 4, 5, 6}
          [] k = 16 -> {2, 4, 5, 6, 7} [] k = 17 -> {0, 3, 4, 6, 7}
          [] k = 18 -> {0, 1, 7} [] k = 19 -> {0, 1, 2, 4, 5}
          [] k = 20 -> {1, 2, 3, 5, 6} [] k = 21 -> {2, 3, 4, 6, 7}
          [] k = 22 -> {0, 3, 7} [] k = 23 -> {0, 1, 5}]

\* A remainder times two.
Doubled(s) == LET r == Left(s) IN IF 8 \in r THEN Xor(r, POLYNOMIAL) ELSE r

LEMMA TableDoubles == \A k \in 8 .. 23 : Table[k] = Doubled(Table[k - 1])
  <1>8. Table[8] = Doubled(Table[8 - 1])
    <2>1. Table[8 - 1] = {7} /\ Table[8] = {0, 4, 5}  BY DEF Table
    <2>2. Left({7}) = {8}  BY DEF Left
    <2> QED  BY <2>1, <2>2 DEF Doubled, Xor, POLYNOMIAL
  <1>9. Table[9] = Doubled(Table[9 - 1])
    <2>1. Table[9 - 1] = {0, 4, 5} /\ Table[9] = {1, 5, 6}  BY DEF Table
    <2>2. Left({0, 4, 5}) = {1, 5, 6}  BY DEF Left
    <2> QED  BY <2>1, <2>2 DEF Doubled, Xor, POLYNOMIAL
  <1>10. Table[10] = Doubled(Table[10 - 1])
    <2>1. Table[10 - 1] = {1, 5, 6} /\ Table[10] = {2, 6, 7}  BY DEF Table
    <2>2. Left({1, 5, 6}) = {2, 6, 7}  BY DEF Left
    <2> QED  BY <2>1, <2>2 DEF Doubled, Xor, POLYNOMIAL
  <1>11. Table[11] = Doubled(Table[11 - 1])
    <2>1. Table[11 - 1] = {2, 6, 7} /\ Table[11] = {0, 3, 4, 5, 7}  BY DEF Table
    <2>2. Left({2, 6, 7}) = {3, 7, 8}  BY DEF Left
    <2> QED  BY <2>1, <2>2 DEF Doubled, Xor, POLYNOMIAL
  <1>12. Table[12] = Doubled(Table[12 - 1])
    <2>1. Table[12 - 1] = {0, 3, 4, 5, 7} /\ Table[12] = {0, 1, 6}  BY DEF Table
    <2>2. Left({0, 3, 4, 5, 7}) = {1, 4, 5, 6, 8}  BY DEF Left
    <2> QED  BY <2>1, <2>2 DEF Doubled, Xor, POLYNOMIAL
  <1>13. Table[13] = Doubled(Table[13 - 1])
    <2>1. Table[13 - 1] = {0, 1, 6} /\ Table[13] = {1, 2, 7}  BY DEF Table
    <2>2. Left({0, 1, 6}) = {1, 2, 7}  BY DEF Left
    <2> QED  BY <2>1, <2>2 DEF Doubled, Xor, POLYNOMIAL
  <1>14. Table[14] = Doubled(Table[14 - 1])
    <2>1. Table[14 - 1] = {1, 2, 7} /\ Table[14] = {0, 2, 3, 4, 5}  BY DEF Table
    <2>2. Left({1, 2, 7}) = {2, 3, 8}  BY DEF Left
    <2> QED  BY <2>1, <2>2 DEF Doubled, Xor, POLYNOMIAL
  <1>15. Table[15] = Doubled(Table[15 - 1])
    <2>1. Table[15 - 1] = {0, 2, 3, 4, 5} /\ Table[15] = {1, 3, 4, 5, 6}  BY DEF Table
    <2>2. Left({0, 2, 3, 4, 5}) = {1, 3, 4, 5, 6}  BY DEF Left
    <2> QED  BY <2>1, <2>2 DEF Doubled, Xor, POLYNOMIAL
  <1>16. Table[16] = Doubled(Table[16 - 1])
    <2>1. Table[16 - 1] = {1, 3, 4, 5, 6} /\ Table[16] = {2, 4, 5, 6, 7}  BY DEF Table
    <2>2. Left({1, 3, 4, 5, 6}) = {2, 4, 5, 6, 7}  BY DEF Left
    <2> QED  BY <2>1, <2>2 DEF Doubled, Xor, POLYNOMIAL
  <1>17. Table[17] = Doubled(Table[17 - 1])
    <2>1. Table[17 - 1] = {2, 4, 5, 6, 7} /\ Table[17] = {0, 3, 4, 6, 7}  BY DEF Table
    <2>2. Left({2, 4, 5, 6, 7}) = {3, 5, 6, 7, 8}  BY DEF Left
    <2> QED  BY <2>1, <2>2 DEF Doubled, Xor, POLYNOMIAL
  <1>18. Table[18] = Doubled(Table[18 - 1])
    <2>1. Table[18 - 1] = {0, 3, 4, 6, 7} /\ Table[18] = {0, 1, 7}  BY DEF Table
    <2>2. Left({0, 3, 4, 6, 7}) = {1, 4, 5, 7, 8}  BY DEF Left
    <2> QED  BY <2>1, <2>2 DEF Doubled, Xor, POLYNOMIAL
  <1>19. Table[19] = Doubled(Table[19 - 1])
    <2>1. Table[19 - 1] = {0, 1, 7} /\ Table[19] = {0, 1, 2, 4, 5}  BY DEF Table
    <2>2. Left({0, 1, 7}) = {1, 2, 8}  BY DEF Left
    <2> QED  BY <2>1, <2>2 DEF Doubled, Xor, POLYNOMIAL
  <1>20. Table[20] = Doubled(Table[20 - 1])
    <2>1. Table[20 - 1] = {0, 1, 2, 4, 5} /\ Table[20] = {1, 2, 3, 5, 6}  BY DEF Table
    <2>2. Left({0, 1, 2, 4, 5}) = {1, 2, 3, 5, 6}  BY DEF Left
    <2> QED  BY <2>1, <2>2 DEF Doubled, Xor, POLYNOMIAL
  <1>21. Table[21] = Doubled(Table[21 - 1])
    <2>1. Table[21 - 1] = {1, 2, 3, 5, 6} /\ Table[21] = {2, 3, 4, 6, 7}  BY DEF Table
    <2>2. Left({1, 2, 3, 5, 6}) = {2, 3, 4, 6, 7}  BY DEF Left
    <2> QED  BY <2>1, <2>2 DEF Doubled, Xor, POLYNOMIAL
  <1>22. Table[22] = Doubled(Table[22 - 1])
    <2>1. Table[22 - 1] = {2, 3, 4, 6, 7} /\ Table[22] = {0, 3, 7}  BY DEF Table
    <2>2. Left({2, 3, 4, 6, 7}) = {3, 4, 5, 7, 8}  BY DEF Left
    <2> QED  BY <2>1, <2>2 DEF Doubled, Xor, POLYNOMIAL
  <1>23. Table[23] = Doubled(Table[23 - 1])
    <2>1. Table[23 - 1] = {0, 3, 7} /\ Table[23] = {0, 1, 5}  BY DEF Table
    <2>2. Left({0, 3, 7}) = {1, 4, 8}  BY DEF Left
    <2> QED  BY <2>1, <2>2 DEF Doubled, Xor, POLYNOMIAL
  <1> QED  BY <1>8, <1>9, <1>10, <1>11, <1>12, <1>13, <1>14, <1>15, <1>16, <1>17, <1>18, <1>19, <1>20,
              <1>21, <1>22, <1>23

LEMMA RemainderIsTable == Remainder = Table
  <1>1. Divides(Table)
    <2>1. \A k \in 0 .. 23 : k < 8 => Table[k] = {k}  BY DEF Table
    <2>2. ASSUME NEW k \in 0 .. 23
          PROVE  Table[k] = IF k < 8 THEN {k} ELSE Doubled(Table[k - 1])
      <3>1. CASE k < 8  BY <2>1, <3>1
      <3>2. CASE k \in 8 .. 23 /\ ~(k < 8)  BY <3>2, TableDoubles
      <3> QED  BY <3>1, <3>2
    <2>3. DOMAIN Table = 0 .. 23 /\ Table = [k \in 0 .. 23 |-> Table[k]]  BY DEF Table
    <2> QED  BY <2>2, <2>3 DEF Divides, Doubled
  <1>2. Remainder = CHOOSE f : Divides(f)  BY DEF Remainder, Divides
  <1>3. Divides(Remainder)  BY <1>1, <1>2
  <1>4. \A k \in 0 .. 23 : Remainder[k] = IF k < 8 THEN {k} ELSE Doubled(Remainder[k - 1])
    BY <1>3 DEF Divides, Doubled
  <1>5. \A k \in 0 .. 23 : k < 8 => Remainder[k] = Table[k]
    <2>1. \A k \in 0 .. 23 : k < 8 => Table[k] = {k}  BY DEF Table
    <2> QED  BY <1>4, <2>1
  <1>8. Remainder[8] = Table[8]  BY <1>5, <1>4, TableDoubles
  <1>9. Remainder[9] = Table[9]  BY <1>8, <1>4, TableDoubles
  <1>10. Remainder[10] = Table[10]  BY <1>9, <1>4, TableDoubles
  <1>11. Remainder[11] = Table[11]  BY <1>10, <1>4, TableDoubles
  <1>12. Remainder[12] = Table[12]  BY <1>11, <1>4, TableDoubles
  <1>13. Remainder[13] = Table[13]  BY <1>12, <1>4, TableDoubles
  <1>14. Remainder[14] = Table[14]  BY <1>13, <1>4, TableDoubles
  <1>15. Remainder[15] = Table[15]  BY <1>14, <1>4, TableDoubles
  <1>16. Remainder[16] = Table[16]  BY <1>15, <1>4, TableDoubles
  <1>17. Remainder[17] = Table[17]  BY <1>16, <1>4, TableDoubles
  <1>18. Remainder[18] = Table[18]  BY <1>17, <1>4, TableDoubles
  <1>19. Remainder[19] = Table[19]  BY <1>18, <1>4, TableDoubles
  <1>20. Remainder[20] = Table[20]  BY <1>19, <1>4, TableDoubles
  <1>21. Remainder[21] = Table[21]  BY <1>20, <1>4, TableDoubles
  <1>22. Remainder[22] = Table[22]  BY <1>21, <1>4, TableDoubles
  <1>23. Remainder[23] = Table[23]  BY <1>22, <1>4, TableDoubles
  <1>24. \A k \in 0 .. 23 : Remainder[k] = Table[k]
    BY <1>5, <1>8, <1>9, <1>10, <1>11, <1>12, <1>13, <1>14, <1>15, <1>16, <1>17, <1>18, <1>19, <1>20,
       <1>21, <1>22, <1>23
  <1>25. DOMAIN Remainder = 0 .. 23 /\ DOMAIN Table = 0 .. 23  BY <1>3 DEF Divides, Table
  <1>26. Remainder = [k \in 0 .. 23 |-> Remainder[k]] /\ Table = [k \in 0 .. 23 |-> Table[k]]
    BY <1>3 DEF Divides, Table
  <1> QED  BY <1>24, <1>26

\* The bits that bit j of the syndrome sums up.
Taps(j) == {k \in 0 .. 23 : j \in Remainder[k]}

LEMMA TapTable ==
    /\ Taps(0) = {0, 8, 11, 12, 14, 17, 18, 19, 22, 23}
    /\ Taps(1) = {1, 9, 12, 13, 15, 18, 19, 20, 23}
    /\ Taps(2) = {2, 10, 13, 14, 16, 19, 20, 21}
    /\ Taps(3) = {3, 11, 14, 15, 17, 20, 21, 22}
    /\ Taps(4) = {4, 8, 11, 14, 15, 16, 17, 19, 21}
    /\ Taps(5) = {5, 8, 9, 11, 14, 15, 16, 19, 20, 23}
    /\ Taps(6) = {6, 9, 10, 12, 15, 16, 17, 20, 21}
    /\ Taps(7) = {7, 10, 11, 13, 16, 17, 18, 21, 22}
  <1>1. \A k \in 0 .. 23 : k < 8 => Remainder[k] = {k}  BY RemainderIsTable DEF Table
  <1>2. /\ Remainder[8] = {0, 4, 5} /\ Remainder[9] = {1, 5, 6}
        /\ Remainder[10] = {2, 6, 7} /\ Remainder[11] = {0, 3, 4, 5, 7}
    BY RemainderIsTable DEF Table
  <1>3. /\ Remainder[12] = {0, 1, 6} /\ Remainder[13] = {1, 2, 7}
        /\ Remainder[14] = {0, 2, 3, 4, 5} /\ Remainder[15] = {1, 3, 4, 5, 6}
    BY RemainderIsTable DEF Table
  <1>4. /\ Remainder[16] = {2, 4, 5, 6, 7} /\ Remainder[17] = {0, 3, 4, 6, 7}
        /\ Remainder[18] = {0, 1, 7} /\ Remainder[19] = {0, 1, 2, 4, 5}
    BY RemainderIsTable DEF Table
  <1>5. /\ Remainder[20] = {1, 2, 3, 5, 6} /\ Remainder[21] = {2, 3, 4, 6, 7}
        /\ Remainder[22] = {0, 3, 7} /\ Remainder[23] = {0, 1, 5}
    BY RemainderIsTable DEF Table
  <1>10. Taps(0) = {0, 8, 11, 12, 14, 17, 18, 19, 22, 23}  BY <1>1, <1>2, <1>3, <1>4, <1>5 DEF Taps
  <1>11. Taps(1) = {1, 9, 12, 13, 15, 18, 19, 20, 23}  BY <1>1, <1>2, <1>3, <1>4, <1>5 DEF Taps
  <1>12. Taps(2) = {2, 10, 13, 14, 16, 19, 20, 21}  BY <1>1, <1>2, <1>3, <1>4, <1>5 DEF Taps
  <1>13. Taps(3) = {3, 11, 14, 15, 17, 20, 21, 22}  BY <1>1, <1>2, <1>3, <1>4, <1>5 DEF Taps
  <1>14. Taps(4) = {4, 8, 11, 14, 15, 16, 17, 19, 21}  BY <1>1, <1>2, <1>3, <1>4, <1>5 DEF Taps
  <1>15. Taps(5) = {5, 8, 9, 11, 14, 15, 16, 19, 20, 23}  BY <1>1, <1>2, <1>3, <1>4, <1>5 DEF Taps
  <1>16. Taps(6) = {6, 9, 10, 12, 15, 16, 17, 20, 21}  BY <1>1, <1>2, <1>3, <1>4, <1>5 DEF Taps
  <1>17. Taps(7) = {7, 10, 11, 13, 16, 17, 18, 21, 22}  BY <1>1, <1>2, <1>3, <1>4, <1>5 DEF Taps
  <1> QED  BY <1>10, <1>11, <1>12, <1>13, <1>14, <1>15, <1>16, <1>17

Uint8 == SUBSET (0 .. 7)

\* The bits after one step of the division, and after eight.
LEMMA CrcBitBits ==
    ASSUME NEW c \in Uint8
    PROVE  /\ CrcBit(c) \in Uint8
           /\ 0 \in CrcBit(c) <=> 7 \in c
           /\ 1 \in CrcBit(c) <=> 0 \in c
           /\ 2 \in CrcBit(c) <=> 1 \in c
           /\ 3 \in CrcBit(c) <=> 2 \in c
           /\ 4 \in CrcBit(c) <=> Differ(3 \in c, 7 \in c)
           /\ 5 \in CrcBit(c) <=> Differ(4 \in c, 7 \in c)
           /\ 6 \in CrcBit(c) <=> 5 \in c
           /\ 7 \in CrcBit(c) <=> 6 \in c
  <1>1. \A b \in 0 .. 7 : b \in CrcBit(c) <=> IF 7 \in c THEN b \in Xor(Left(c),
     POLYNOMIAL) ELSE b \in Left(c)
    BY DEF CrcBit
  <1>2. CrcBit(c) \in Uint8  BY DEF CrcBit, Uint8
  <1>3. \A b \in 0 .. 7 : b \in Left(c) <=> b - 1 \in c  BY DEF Left, Uint8
  <1>4. \A b \in 0 .. 7 : b \in Xor(Left(c), POLYNOMIAL) <=> Differ(b - 1 \in c, b \in {0, 4, 5})
    BY <1>3 DEF Xor, POLYNOMIAL, Differ
  <1>5. \A b \in 0 .. 7 : b \in CrcBit(c) <=> IF b \in {0, 4, 5} THEN Differ(b - 1 \in c,
     7 \in c) ELSE b - 1 \in c
    BY <1>1, <1>3, <1>4 DEF Differ
  <1>6. -1 \notin c  BY DEF Uint8
  <1> QED  BY <1>2, <1>5, <1>6 DEF Differ

\* The remainder of the bits x of a byte, moved up by eight.
ByteSyndrome(c, x) ==
    /\ 0 \in c <=> Differ(Differ(0 \in x, 3 \in x), Differ(4 \in x, 6 \in x))
    /\ 1 \in c <=> Differ(Differ(1 \in x, 4 \in x), Differ(5 \in x, 7 \in x))
    /\ 2 \in c <=> Differ(Differ(2 \in x, 5 \in x), 6 \in x)
    /\ 3 \in c <=> Differ(Differ(3 \in x, 6 \in x), 7 \in x)
    /\ 4 \in c <=> Differ(Differ(0 \in x, 3 \in x), Differ(6 \in x, 7 \in x))
    /\ 5 \in c <=> Differ(Differ(Differ(0 \in x, 1 \in x), 3 \in x), Differ(6 \in x, 7 \in x))
    /\ 6 \in c <=> Differ(Differ(1 \in x, 2 \in x), Differ(4 \in x, 7 \in x))
    /\ 7 \in c <=> Differ(Differ(2 \in x, 3 \in x), 5 \in x)

LEMMA CrcByteBits ==
    ASSUME NEW crc \in Uint8, NEW byte \in Uint8
    PROVE  CrcByte(crc, byte) \in Uint8 /\ ByteSyndrome(CrcByte(crc, byte), Xor(crc, byte))
  <1> DEFINE x0 == Xor(crc, byte)
             x1 == CrcBit(x0)
             x2 == CrcBit(x1)
             x3 == CrcBit(x2)
             x4 == CrcBit(x3)
             x5 == CrcBit(x4)
             x6 == CrcBit(x5)
             x7 == CrcBit(x6)
             x8 == CrcBit(x7)
  <1>x. x0 \in Uint8  BY DEF Xor, Uint8
  <1>c. CrcByte(crc, byte) = x8  BY DEF CrcByte
  <1> HIDE DEF x0
  <1>1. x1 \in Uint8 /\ x2 \in Uint8 /\ x3 \in Uint8 /\ x4 \in Uint8 /\ x5 \in Uint8
        /\ x6 \in Uint8 /\ x7 \in Uint8 /\ x8 \in Uint8
    BY <1>x, CrcBitBits
  <1> QED  BY <1>x, <1>1, <1>c, CrcBitBits DEF x0, Differ, ByteSyndrome

\* Bit j of the syndrome of a message: of its remainder, by the data sheet.
Syndrome(S, j) == Odd(S \cap Taps(j))

LEMMA SyndromeBits ==
    ASSUME NEW S \in SUBSET (0 .. 23), NEW j \in 0 .. 7
    PROVE  LET T == S \cap Taps(j)
           IN  Syndrome(S, j) <=> Differ(Differ(OddByte(T, 0), OddByte(T, 8)), OddByte(T, 16))
  <1>1. S \cap Taps(j) \in SUBSET (0 .. 23)  OBVIOUS
  <1> QED  BY <1>1, OddFrame DEF Syndrome

\* The driver's loop finds a checksum wrong exactly when the message, its first byte
\* inverted, has a syndrome.
LEMMA CheckCrcIsSyndrome ==
    ASSUME NEW F \in SUBSET (0 .. 23)
    PROVE  SHT3x_CheckCrc(F) <=> \E j \in 0 .. 7 : Syndrome(Xor(F, 16 .. 23), j)
  <1> DEFINE G  == Xor(F, 16 .. 23)
             x  == Xor(0 .. 7, Byte(F, 2))
             c1 == CrcByte(0 .. 7, Byte(F, 2))
             y  == Xor(c1, Byte(F, 1))
             c2 == CrcByte(c1, Byte(F, 1))
  <1>1. Byte(F, 0) \in Uint8 /\ Byte(F, 1) \in Uint8 /\ Byte(F, 2) \in Uint8 /\ 0 .. 7 \in Uint8
    BY DEF Byte, Uint8
  <1>2. c1 \in Uint8 /\ c2 \in Uint8  BY <1>1, CrcByteBits
  <1>3. G \in SUBSET (0 .. 23)  BY DEF Xor
  <1>4. /\ \A j \in 0 .. 7 : j \in x <=> j + 16 \in G
        /\ \A j \in 0 .. 7 : j \in y <=> Differ(j \in c1, j + 8 \in G)
        /\ \A j \in 0 .. 7 : j \in F <=> j \in G
    BY <1>2 DEF Xor, Byte, Differ
  <1>5. /\ (0 \in x <=> 16 \in G)  /\ (1 \in x <=> 17 \in G)
        /\ (2 \in x <=> 18 \in G)  /\ (3 \in x <=> 19 \in G)
        /\ (4 \in x <=> 20 \in G)  /\ (5 \in x <=> 21 \in G)
        /\ (6 \in x <=> 22 \in G)  /\ (7 \in x <=> 23 \in G)
    BY <1>4
  <1>6. /\ (0 \in y <=> Differ(0 \in c1, 8 \in G))  /\ (1 \in y <=> Differ(1 \in c1, 9 \in G))
        /\ (2 \in y <=> Differ(2 \in c1, 10 \in G))  /\ (3 \in y <=> Differ(3 \in c1, 11 \in G))
        /\ (4 \in y <=> Differ(4 \in c1, 12 \in G))  /\ (5 \in y <=> Differ(5 \in c1, 13 \in G))
        /\ (6 \in y <=> Differ(6 \in c1, 14 \in G))  /\ (7 \in y <=> Differ(7 \in c1, 15 \in G))
    BY <1>4
  <1>7. SHT3x_CheckCrc(F) <=> \E j \in 0 .. 7 : Differ(j \in c2, j \in F)
    <2>1. SHT3x_CheckCrc(F) <=> c2 # Byte(F, 0)  BY DEF SHT3x_CheckCrc
    <2>2. \A j \in 0 .. 7 : j \in Byte(F, 0) <=> j \in F  BY DEF Byte
    <2>3. c2 = Byte(F, 0) <=> \A j \in 0 .. 7 : j \in c2 <=> j \in Byte(F, 0)  BY <1>1, <1>2 DEF Uint8
    <2> QED  BY <2>1, <2>2, <2>3 DEF Differ
  <1>8. ByteSyndrome(c1, x) /\ ByteSyndrome(c2, y)
    BY <1>1, <1>2, CrcByteBits
  <1> HIDE DEF G, x, c1, y, c2
  <1>10. Differ(0 \in c2, 0 \in F) <=> Syndrome(G, 0)
    BY <1>3, <1>4, <1>5, <1>6, <1>8, TapTable, SyndromeBits DEF Differ, OddByte, ByteSyndrome
  <1>11. Differ(1 \in c2, 1 \in F) <=> Syndrome(G, 1)
    BY <1>3, <1>4, <1>5, <1>6, <1>8, TapTable, SyndromeBits DEF Differ, OddByte, ByteSyndrome
  <1>12. Differ(2 \in c2, 2 \in F) <=> Syndrome(G, 2)
    BY <1>3, <1>4, <1>5, <1>6, <1>8, TapTable, SyndromeBits DEF Differ, OddByte, ByteSyndrome
  <1>13. Differ(3 \in c2, 3 \in F) <=> Syndrome(G, 3)
    BY <1>3, <1>4, <1>5, <1>6, <1>8, TapTable, SyndromeBits DEF Differ, OddByte, ByteSyndrome
  <1>14. Differ(4 \in c2, 4 \in F) <=> Syndrome(G, 4)
    BY <1>3, <1>4, <1>5, <1>6, <1>8, TapTable, SyndromeBits DEF Differ, OddByte, ByteSyndrome
  <1>15. Differ(5 \in c2, 5 \in F) <=> Syndrome(G, 5)
    BY <1>3, <1>4, <1>5, <1>6, <1>8, TapTable, SyndromeBits DEF Differ, OddByte, ByteSyndrome
  <1>16. Differ(6 \in c2, 6 \in F) <=> Syndrome(G, 6)
    BY <1>3, <1>4, <1>5, <1>6, <1>8, TapTable, SyndromeBits DEF Differ, OddByte, ByteSyndrome
  <1>17. Differ(7 \in c2, 7 \in F) <=> Syndrome(G, 7)
    BY <1>3, <1>4, <1>5, <1>6, <1>8, TapTable, SyndromeBits DEF Differ, OddByte, ByteSyndrome
  <1>20. \A j \in 0 .. 7 : Differ(j \in c2, j \in F) <=> Syndrome(G, j)
    BY <1>10, <1>11, <1>12, <1>13, <1>14, <1>15, <1>16, <1>17
  <1> QED  BY <1>7, <1>20 DEF G

LEMMA SyndromeXor ==
    ASSUME NEW A \in SUBSET (0 .. 23), NEW B \in SUBSET (0 .. 23), NEW j \in 0 .. 7
    PROVE  Syndrome(Xor(A, B), j) <=> Differ(Syndrome(A, j), Syndrome(B, j))
  <1>1. Xor(A, B) \cap Taps(j) = Xor(A \cap Taps(j), B \cap Taps(j))  BY DEF Xor
  <1>2. A \cap Taps(j) \in SUBSET (0 .. 23) /\ B \cap Taps(j) \in SUBSET (0 .. 23)  OBVIOUS
  <1> QED  BY <1>1, <1>2, OddXor DEF Syndrome

\* The parts of a frame as the chip sends it.
WordBits(n) == {b + 8 : b \in Bits(n)}
Checksum(n) == {b \in 0 .. 7 : Odd({k \in Xor(WordBits(n), 16 .. 23) : b \in Remainder[k]})}

LEMMA FrameParts ==
    ASSUME NEW n
    PROVE  /\ Frame16(n) = WordBits(n) \cup Checksum(n)
           /\ WordBits(n) \in SUBSET (8 .. 23) /\ Checksum(n) \in SUBSET (0 .. 7)
           /\ \A b \in 0 .. 15 : b + 8 \in WordBits(n) <=> b \in Bits(n)
  <1>1. Frame16(n) = WordBits(n) \cup Checksum(n)  BY Zenon DEF Frame16, WordBits, Checksum, Odd
  <1>2. Bits(n) \in SUBSET (0 .. 15)  BY Zenon DEF Bits
  <1>3. WordBits(n) \in SUBSET (8 .. 23)  BY <1>2 DEF WordBits
  <1>4. Checksum(n) \in SUBSET (0 .. 7)  BY Zenon DEF Checksum
  <1>5. \A b \in 0 .. 15 : b + 8 \in WordBits(n) <=> b \in Bits(n)  BY <1>2 DEF WordBits
  <1> QED  BY <1>1, <1>3, <1>4, <1>5

\* A frame as the chip sends it has no syndrome.
LEMMA FrameSyndrome ==
    ASSUME NEW n
    PROVE  /\ Frame16(n) \in SUBSET (0 .. 23)
           /\ \A j \in 0 .. 7 : ~Syndrome(Xor(Frame16(n), 16 .. 23), j)
  <1> DEFINE C == Checksum(n)
             M == Xor(WordBits(n), 16 .. 23)
  <1>1. M \in SUBSET (8 .. 23) /\ C \in SUBSET (0 .. 7)  BY FrameParts DEF Xor
  <1>2. M \in SUBSET (0 .. 23) /\ C \in SUBSET (0 .. 23)  BY <1>1
  <1>3. Xor(Frame16(n), 16 .. 23) = Xor(M, C)  BY FrameParts DEF Xor
  <1>4. ASSUME NEW j \in 0 .. 7  PROVE j \in C <=> Syndrome(M, j)
    <2>1. {k \in M : j \in Remainder[k]} = M \cap Taps(j)  BY <1>2 DEF Taps
    <2> QED  BY <2>1 DEF Syndrome, Checksum
  <1>5. ASSUME NEW j \in 0 .. 7  PROVE Syndrome(C, j) <=> j \in C
    <2>1. \A k \in 0 .. 7 : Remainder[k] = {k}  BY RemainderIsTable DEF Table
    <2>2. C \cap Taps(j) = C \cap {j}  BY <1>1, <2>1 DEF Taps
    <2>3. Odd({j})
      <3>1. Cardinality({j}) = 1  BY FS_Singleton
      <3> QED  BY <3>1 DEF Odd
    <2>4. CASE j \in C
      <3>1. C \cap {j} = {j}  BY <2>4
      <3> QED  BY <2>2, <2>3, <2>4, <3>1 DEF Syndrome
    <2>5. CASE j \notin C
      <3>1. C \cap {j} = {}  BY <2>5
      <3> QED  BY <2>2, <2>5, <3>1, OddEmpty DEF Syndrome
    <2> QED  BY <2>4, <2>5
  <1>6. \A j \in 0 .. 7 : ~Syndrome(Xor(Frame16(n), 16 .. 23), j)
    BY <1>2, <1>3, <1>4, <1>5, SyndromeXor DEF Differ
  <1>7. Frame16(n) \in SUBSET (0 .. 23)  BY FrameParts
  <1> QED  BY <1>6, <1>7

\* An error of one to eight bits in a row has a syndrome, wherever it starts.
LEMMA WindowSyndrome ==
    ASSUME NEW e, e # {}, NEW p \in 0 .. 16, e \subseteq p .. p + 7
    PROVE  \E j \in 0 .. 7 : Syndrome(e, j)
  <1> SUFFICES ASSUME \A j \in 0 .. 7 : ~Syndrome(e, j) PROVE FALSE  OBVIOUS
  <1>a. e \in SUBSET (0 .. 23)  OBVIOUS
  <1>b. \A k \in 0 .. 23 : k \in e => k \in p .. p + 7  OBVIOUS
  <1>c. \E k \in 0 .. 23 : k \in e  BY <1>a
  <1>0. p # 0  BY <1>a, <1>b, <1>c, TapTable, SyndromeBits DEF OddByte, Differ
  <1>1. p # 1  BY <1>a, <1>b, <1>c, TapTable, SyndromeBits DEF OddByte, Differ
  <1>2. p # 2  BY <1>a, <1>b, <1>c, TapTable, SyndromeBits DEF OddByte, Differ
  <1>3. p # 3  BY <1>a, <1>b, <1>c, TapTable, SyndromeBits DEF OddByte, Differ
  <1>4. p # 4  BY <1>a, <1>b, <1>c, TapTable, SyndromeBits DEF OddByte, Differ
  <1>5. p # 5  BY <1>a, <1>b, <1>c, TapTable, SyndromeBits DEF OddByte, Differ
  <1>6. p # 6  BY <1>a, <1>b, <1>c, TapTable, SyndromeBits DEF OddByte, Differ
  <1>7. p # 7  BY <1>a, <1>b, <1>c, TapTable, SyndromeBits DEF OddByte, Differ
  <1>8. p # 8  BY <1>a, <1>b, <1>c, TapTable, SyndromeBits DEF OddByte, Differ
  <1>9. p # 9  BY <1>a, <1>b, <1>c, TapTable, SyndromeBits DEF OddByte, Differ
  <1>10. p # 10  BY <1>a, <1>b, <1>c, TapTable, SyndromeBits DEF OddByte, Differ
  <1>11. p # 11  BY <1>a, <1>b, <1>c, TapTable, SyndromeBits DEF OddByte, Differ
  <1>12. p # 12  BY <1>a, <1>b, <1>c, TapTable, SyndromeBits DEF OddByte, Differ
  <1>13. p # 13  BY <1>a, <1>b, <1>c, TapTable, SyndromeBits DEF OddByte, Differ
  <1>14. p # 14  BY <1>a, <1>b, <1>c, TapTable, SyndromeBits DEF OddByte, Differ
  <1>15. p # 15  BY <1>a, <1>b, <1>c, TapTable, SyndromeBits DEF OddByte, Differ
  <1>16. p # 16  BY <1>a, <1>b, <1>c, TapTable, SyndromeBits DEF OddByte, Differ
  <1> QED  BY <1>0, <1>1, <1>2, <1>3, <1>4, <1>5, <1>6, <1>7, <1>8, <1>9, <1>10, <1>11, <1>12, <1>13,
              <1>14, <1>15, <1>16

LEMMA BurstSyndrome ==
    ASSUME NEW e \in Bursts
    PROVE  e \in SUBSET (0 .. 23) /\ \E j \in 0 .. 7 : Syndrome(e, j)
  <1>1. MaxBurst \in 1 .. 8  BY SensorAssumption
  <1>2. PICK p \in 0 .. 24 - MaxBurst : e \subseteq p .. p + MaxBurst - 1  BY DEF Bursts
  <1>3. PICK q \in 0 .. 16 : q <= p /\ p + MaxBurst - 1 <= q + 7
    <2>1. CASE p <= 16  BY <1>1, <2>1
    <2>2. CASE p > 16
      <3>1. 16 \in 0 .. 16 /\ 16 <= p /\ p + MaxBurst - 1 <= 16 + 7  BY <1>1, <2>2
      <3> QED  BY <3>1
    <2> QED  BY <1>2, <2>1, <2>2
  <1>4. e # {}  BY DEF Bursts
  <1>5. e \subseteq q .. q + 7 /\ e \in SUBSET (0 .. 23)  BY <1>1, <1>2, <1>3
  <1> QED  BY <1>4, <1>5, WindowSyndrome

\* The lowest bit of a number, and the rest.
LEMMA BitSplits ==
    ASSUME NEW n \in Nat, NEW d \in Nat \ {0}
    PROVE  /\ n \div d \in Nat /\ (n \div d) % 2 \in {0, 1}
           /\ n \div d = 2 * (n \div (2 * d)) + ((n \div d) % 2)
  <1>1. n \div d \in Nat  BY SMTT(30)
  <1>2. n \div (2 * d) = (n \div d) \div 2  BY SMTT(60)
  <1>3. ASSUME NEW m \in Nat PROVE (m % 2 = 0 \/ m % 2 = 1) /\ m = 2 * (m \div 2) + (m % 2)  BY SMT
  <1> QED  BY <1>1, <1>2, <1>3

\* Bit b of n; a byte of a number's bits is that number.
BitOf(n, b) == (n \div (2 ^ b)) % 2 = 1

LEMMA ByteValue ==
    ASSUME NEW n \in Nat, NEW byte, \A b \in 0 .. 7 : b \in byte <=> BitOf(n, b)
    PROVE  n = 256 * (n \div 256) + Value(byte)
  <1>0. /\ n \div 1 \in Nat /\ n \div 1 = 2 * (n \div 2) + ((n \div 1) % 2)
        /\ (n \div 1) % 2 \in {0, 1} /\ 0 \in byte <=> (n \div 1) % 2 = 1
    <2>1. 2 ^ 0 = 1 /\ 2 * 1 = 2  OBVIOUS
    <2> QED  BY <2>1, BitSplits DEF BitOf
  <1>1. /\ n \div 2 \in Nat /\ n \div 2 = 2 * (n \div 4) + ((n \div 2) % 2)
        /\ (n \div 2) % 2 \in {0, 1} /\ 1 \in byte <=> (n \div 2) % 2 = 1
    <2>1. 2 ^ 1 = 2 /\ 2 * 2 = 4  OBVIOUS
    <2> QED  BY <2>1, BitSplits DEF BitOf
  <1>2. /\ n \div 4 \in Nat /\ n \div 4 = 2 * (n \div 8) + ((n \div 4) % 2)
        /\ (n \div 4) % 2 \in {0, 1} /\ 2 \in byte <=> (n \div 4) % 2 = 1
    <2>1. 2 ^ 2 = 4 /\ 2 * 4 = 8  OBVIOUS
    <2> QED  BY <2>1, BitSplits DEF BitOf
  <1>3. /\ n \div 8 \in Nat /\ n \div 8 = 2 * (n \div 16) + ((n \div 8) % 2)
        /\ (n \div 8) % 2 \in {0, 1} /\ 3 \in byte <=> (n \div 8) % 2 = 1
    <2>1. 2 ^ 3 = 8 /\ 2 * 8 = 16  OBVIOUS
    <2> QED  BY <2>1, BitSplits DEF BitOf
  <1>4. /\ n \div 16 \in Nat /\ n \div 16 = 2 * (n \div 32) + ((n \div 16) % 2)
        /\ (n \div 16) % 2 \in {0, 1} /\ 4 \in byte <=> (n \div 16) % 2 = 1
    <2>1. 2 ^ 4 = 16 /\ 2 * 16 = 32  OBVIOUS
    <2> QED  BY <2>1, BitSplits DEF BitOf
  <1>5. /\ n \div 32 \in Nat /\ n \div 32 = 2 * (n \div 64) + ((n \div 32) % 2)
        /\ (n \div 32) % 2 \in {0, 1} /\ 5 \in byte <=> (n \div 32) % 2 = 1
    <2>1. 2 ^ 5 = 32 /\ 2 * 32 = 64  OBVIOUS
    <2> QED  BY <2>1, BitSplits DEF BitOf
  <1>6. /\ n \div 64 \in Nat /\ n \div 64 = 2 * (n \div 128) + ((n \div 64) % 2)
        /\ (n \div 64) % 2 \in {0, 1} /\ 6 \in byte <=> (n \div 64) % 2 = 1
    <2>1. 2 ^ 6 = 64 /\ 2 * 64 = 128  OBVIOUS
    <2> QED  BY <2>1, BitSplits DEF BitOf
  <1>7. /\ n \div 128 \in Nat /\ n \div 128 = 2 * (n \div 256) + ((n \div 128) % 2)
        /\ (n \div 128) % 2 \in {0, 1} /\ 7 \in byte <=> (n \div 128) % 2 = 1
    <2>1. 2 ^ 7 = 128 /\ 2 * 128 = 256  OBVIOUS
    <2> QED  BY <2>1, BitSplits DEF BitOf
  <1> DEFINE bit(b) == IF b \in byte THEN 2 ^ b ELSE 0
  <1>8. Value(byte) = bit(0) + bit(1) + bit(2) + bit(3) + bit(4) + bit(5) + bit(6) + bit(7)  BY DEF Value
  <1>9. /\ bit(0) = 1 * ((n \div 1) % 2)
        /\ bit(1) = 2 * ((n \div 2) % 2)
        /\ bit(2) = 4 * ((n \div 4) % 2)
        /\ bit(3) = 8 * ((n \div 8) % 2)
        /\ bit(4) = 16 * ((n \div 16) % 2)
        /\ bit(5) = 32 * ((n \div 32) % 2)
        /\ bit(6) = 64 * ((n \div 64) % 2)
        /\ bit(7) = 128 * ((n \div 128) % 2)
    BY <1>0, <1>1, <1>2, <1>3, <1>4, <1>5, <1>6, <1>7
  <1>10. n \div 1 = n  OBVIOUS
  <1> QED  BY <1>0, <1>1, <1>2, <1>3, <1>4, <1>5, <1>6, <1>7, <1>8, <1>9, <1>10

LEMMA HighByteBits ==
    ASSUME NEW n \in Nat, NEW b \in 0 .. 7
    PROVE  BitOf(n, b + 8) <=> BitOf(n \div 256, b)
  <1> DEFINE d == 2 ^ b
  <1>1. d \in Nat \ {0} /\ 2 ^ (b + 8) = 256 * d
    <2>0. CASE b = 0
      <3>1. 2 ^ 0 = 1 /\ 0 + 8 = 8 /\ 2 ^ 8 = 256 /\ 256 * 1 = 256  BY SMT
      <3> QED  BY <2>0, <3>1
    <2>1. CASE b = 1
      <3>1. 2 ^ 1 = 2 /\ 1 + 8 = 9 /\ 2 ^ 9 = 512 /\ 256 * 2 = 512  BY SMT
      <3> QED  BY <2>1, <3>1
    <2>2. CASE b = 2
      <3>1. 2 ^ 2 = 4 /\ 2 + 8 = 10 /\ 2 ^ 10 = 1024 /\ 256 * 4 = 1024  BY SMT
      <3> QED  BY <2>2, <3>1
    <2>3. CASE b = 3
      <3>1. 2 ^ 3 = 8 /\ 3 + 8 = 11 /\ 2 ^ 11 = 2048 /\ 256 * 8 = 2048  BY SMT
      <3> QED  BY <2>3, <3>1
    <2>4. CASE b = 4
      <3>1. 2 ^ 4 = 16 /\ 4 + 8 = 12 /\ 2 ^ 12 = 4096 /\ 256 * 16 = 4096  BY SMT
      <3> QED  BY <2>4, <3>1
    <2>5. CASE b = 5
      <3>1. 2 ^ 5 = 32 /\ 5 + 8 = 13 /\ 2 ^ 13 = 8192 /\ 256 * 32 = 8192  BY SMT
      <3> QED  BY <2>5, <3>1
    <2>6. CASE b = 6
      <3>1. 2 ^ 6 = 64 /\ 6 + 8 = 14 /\ 2 ^ 14 = 16384 /\ 256 * 64 = 16384  BY SMT
      <3> QED  BY <2>6, <3>1
    <2>7. CASE b = 7
      <3>1. 2 ^ 7 = 128 /\ 7 + 8 = 15 /\ 2 ^ 15 = 32768 /\ 256 * 128 = 32768  BY SMT
      <3> QED  BY <2>7, <3>1
    <2> QED  BY <2>0, <2>1, <2>2, <2>3, <2>4, <2>5, <2>6, <2>7
  <1> HIDE DEF d
  <1>2. n \div (256 * d) = (n \div 256) \div d  BY <1>1, SMTT(60)
  <1> QED  BY <1>1, <1>2 DEF BitOf, d

LEMMA FrameBits == ASSUME NEW n PROVE \A b \in 0 .. 15 : b + 8 \in Frame16(n) <=> BitOf(n, b)
  <1>1. \A b \in 0 .. 15 : b \in Bits(n) <=> BitOf(n, b)  BY Zenon DEF Bits, BitOf
  <1>2. \A b \in 0 .. 15 : b + 8 \in Frame16(n) <=> b \in Bits(n)  BY FrameParts
  <1> QED  BY <1>1, <1>2

LEMMA FrameBytes ==
    ASSUME NEW n \in Nat
    PROVE  /\ n = 256 * (n \div 256) + Value(Byte(Frame16(n), 1))
           /\ n \div 256 = 256 * ((n \div 256) \div 256) + Value(Byte(Frame16(n), 2))
  <1>1. \A b \in 0 .. 7 : b \in Byte(Frame16(n), 1) <=> BitOf(n, b)
    <2>1. \A b \in 0 .. 7 : b \in Byte(Frame16(n), 1) <=> b + 8 \in Frame16(n)  BY DEF Byte
    <2>2. \A b \in 0 .. 7 : b \in 0 .. 15  OBVIOUS
    <2> QED  BY <2>1, <2>2, FrameBits
  <1>2. \A b \in 0 .. 7 : b \in Byte(Frame16(n), 2) <=> BitOf(n \div 256, b)
    <2>1. \A b \in 0 .. 7 : b \in Byte(Frame16(n), 2) <=> (b + 8) + 8 \in Frame16(n)  BY DEF Byte
    <2>2. \A b \in 0 .. 7 : b + 8 \in 0 .. 15  OBVIOUS
    <2> QED  BY <2>1, <2>2, FrameBits, HighByteBits
  <1>3. n \div 256 \in Nat  OBVIOUS
  <1> QED  BY <1>1, <1>2, <1>3, ByteValue

\* The two bytes of a frame are the word.
LEMMA FrameWord == ASSUME NEW n \in Nat, (n \div 256) \div 256 = 0  PROVE Word(Frame16(n)) = n
  <1> DEFINE high == Value(Byte(Frame16(n), 2))
             low  == Value(Byte(Frame16(n), 1))
  <1>1. n = 256 * (n \div 256) + low /\ n \div 256 = 256 * 0 + high  BY FrameBytes
  <1>2. Word(Frame16(n)) = 256 * high + low  BY DEF Word
  <1>3. high \in Int /\ low \in Int /\ n \div 256 \in Nat  BY DEF Value
  <1> HIDE DEF high, low
  <1> QED  BY <1>1, <1>2, <1>3

\* What the driver makes of a frame: the word if it is as sent, nothing if a burst of
\* up to eight bits is in it.
LEMMA ChecksumDetects ==
    ASSUME NEW n \in Words
    PROVE  /\ Received(Frame16(n)) = n
           /\ \A e \in Bursts : Received(Xor(Frame16(n), e)) = Unset
  <1> DEFINE F == Frame16(n)
  <1>1. F \in SUBSET (0 .. 23) /\ \A j \in 0 .. 7 : ~Syndrome(Xor(F, 16 .. 23), j)  BY FrameSyndrome
  <1>2. Received(F) = n
    <2>1. ~SHT3x_CheckCrc(F)  BY <1>1, CheckCrcIsSyndrome
    <2>2. n \in Nat /\ (n \div 256) \div 256 = 0
      <3>0. n \in uint16_t  BY SensorAssumption
      <3>1. n \in Nat /\ n <= 65535  BY <3>0, SMT DEF uint16_t
      <3>2. n \div 256 \in Nat /\ n \div 256 < 256  BY <3>1, SMT
      <3>3. \A m \in Nat : m < 256 => m \div 256 = 0  BY SMT
      <3> QED  BY <3>1, <3>2, <3>3
    <2>3. Word(F) = n  BY <2>2, FrameWord
    <2> QED  BY <2>1, <2>3 DEF Received
  <1> HIDE DEF F
  <1>3. ASSUME NEW e \in Bursts  PROVE Received(Xor(F, e)) = Unset
    <2> DEFINE D == Xor(F, e)
               G == Xor(F, 16 .. 23)
    <2>1. PICK j \in 0 .. 7 : e \in SUBSET (0 .. 23) /\ Syndrome(e, j)  BY BurstSyndrome
    <2>2. Xor(D, 16 .. 23) = Xor(G, e)  BY DEF Xor
    <2>3. D \in SUBSET (0 .. 23) /\ G \in SUBSET (0 .. 23)  BY <1>1, <2>1 DEF Xor
    <2>4. Syndrome(Xor(G, e), j)  BY <1>1, <2>1, <2>3, SyndromeXor DEF Differ
    <2>5. SHT3x_CheckCrc(D)  BY <2>2, <2>3, <2>4, CheckCrcIsSyndrome
    <2> QED  BY <2>5 DEF Received
  <1> QED  BY <1>2, <1>3 DEF F

LEMMA ReceivedWords ==
    ASSUME NEW n \in Words
    PROVE  Intact[n] = n /\ Damaged[n] \subseteq {Unset}
  <1>1. Intact[n] = n  BY ChecksumDetects DEF Intact
  <1>2. Damaged[n] = {Received(Xor(Frame16(n), e)) : e \in Bursts}  BY DEF Damaged
  <1> QED  BY <1>1, <1>2, ChecksumDetects

\* Besides the two properties, only the shape of the variables.
SensorInv ==
    /\ data \in [Lux : Int, Temperature : Int, Humidity : Int]
    /\ chip \in [Temperature : Int, Humidity : Int, intact : BOOLEAN]
    /\ measured \in [Temperature : SUBSET Words, Humidity : SUBSET Words]
    /\ readFailed \in BOOLEAN
    /\ OnlyMeasured /\ FreshWhenIntact

LEMMA SensorInitially == SensorInit => SensorInv
  <1> SUFFICES ASSUME SensorInit PROVE SensorInv  OBVIOUS
  <1>1. Unset \in Int  BY DEF Unset
  <1>2. data \in [Lux : Int, Temperature : Int, Humidity : Int]  BY <1>1 DEF SensorInit
  <1>3. chip \in [Temperature : Int, Humidity : Int, intact : BOOLEAN]  BY DEF SensorInit
  <1>4. measured \in [Temperature : SUBSET Words, Humidity : SUBSET Words]  BY DEF SensorInit
  <1>5. OnlyMeasured /\ FreshWhenIntact  BY DEF SensorInit, OnlyMeasured, FreshWhenIntact
  <1> QED  BY <1>2, <1>3, <1>4, <1>5 DEF SensorInit, SensorInv

LEMMA WordsAreInt == \A n \in Words : n \in Int /\ n # Unset
  <1> TAKE n \in Words
  <1>1. n \in uint16_t  BY SensorAssumption
  <1> QED  BY <1>1, SMT DEF uint16_t, Unset

LEMMA ReceivedIsInt == \A f : Received(f) \in Int
  <1>1. \A byte : Value(byte) \in Int  BY SMT DEF Value
  <1>2. \A f : Word(f) \in Int  BY <1>1, SMT DEF Word
  <1> QED  BY <1>2 DEF Received, Unset

\* A transfer from the chip: nothing but a measured word gets into the data, and both
\* words of an intact one do.
LEMMA TransferStep ==
    ASSUME SensorInv, sensorPc' = "shown", ReadSHT30,
           shown' = [Temperature |-> Shown(data'.Temperature, SHT3x_CalcTemperatureC(data'.Temperature)),
                     Humidity |-> Shown(data'.Humidity, SHT3x_CalcRH(data'.Humidity))]
    PROVE  SensorInv'
  <1>1. PICK t, h \in Words, x, y \in Words \cup {Unset} :
             /\ x \in {Unset, t} /\ y \in {Unset, h} /\ Take(x, y) /\ UNCHANGED readFailed
             /\ chip'.Temperature = t /\ chip'.Humidity = h
             /\ chip' \in [Temperature : Int, Humidity : Int, intact : BOOLEAN]
             /\ chip'.intact => x = t /\ y = h
             /\ measured' = [Temperature |-> measured.Temperature \cup {t},
                             Humidity |-> measured.Humidity \cup {h}]
    <2>1. PICK t, h \in Words :
             /\ \/ Take(Intact[t], Intact[h]) /\ chip' = [Temperature |-> t, Humidity |-> h, intact |-> TRUE]
                \/ /\ \E x \in Damaged[t] \cup {Intact[t]}, y \in Damaged[h] \cup {Intact[h]} : Take(x, y)
                   /\ chip' = [Temperature |-> t, Humidity |-> h, intact |-> FALSE]
             /\ measured' = [Temperature |-> measured.Temperature \cup {t},
                             Humidity |-> measured.Humidity \cup {h}]
             /\ UNCHANGED readFailed
      BY DEF ReadSHT30
    <2>2. /\ Intact[t] = t /\ Damaged[t] \subseteq {Unset}
          /\ Intact[h] = h /\ Damaged[h] \subseteq {Unset}
      BY ReceivedWords
    <2>3. t \in Int /\ h \in Int  BY WordsAreInt
    <2>4. CASE Take(t, h) /\ chip' = [Temperature |-> t, Humidity |-> h, intact |-> TRUE]
      BY <2>1, <2>3, <2>4
    <2>5. CASE /\ \E x \in Damaged[t] \cup {Intact[t]}, y \in Damaged[h] \cup {Intact[h]} : Take(x, y)
               /\ chip' = [Temperature |-> t, Humidity |-> h, intact |-> FALSE]
      <3>1. PICK x \in {Unset, t}, y \in {Unset, h} : Take(x, y)  BY <2>2, <2>5
      <3> QED  BY <2>1, <2>3, <2>5, <3>1
    <2> QED  BY <2>1, <2>2, <2>4, <2>5
  <1>2. t \in Int /\ t # Unset /\ h \in Int /\ h # Unset  BY WordsAreInt
  <1>3. /\ data' \in [Lux : Int, Temperature : Int, Humidity : Int]
        /\ data'.Temperature = IF x = Unset THEN data.Temperature ELSE x
        /\ data'.Humidity = IF y = Unset THEN data.Humidity ELSE y
    BY <1>1, <1>2 DEF SensorInv, Take
  <1>4. measured' \in [Temperature : SUBSET Words, Humidity : SUBSET Words]  BY <1>1 DEF SensorInv
  <1>5. OnlyMeasured'  BY <1>1, <1>2, <1>3 DEF SensorInv, OnlyMeasured
  <1>6. FreshWhenIntact'
    <2> SUFFICES ASSUME chip'.intact
                 PROVE  /\ shown'.Temperature = SHT3x_CalcTemperatureC(chip'.Temperature)
                        /\ shown'.Humidity = SHT3x_CalcRH(chip'.Humidity)
      BY DEF FreshWhenIntact
    <2>1. data'.Temperature = t /\ data'.Humidity = h  BY <1>1, <1>2, <1>3
    <2> QED  BY <1>1, <1>2, <2>1 DEF Shown
  <1> QED  BY <1>1, <1>3, <1>4, <1>5, <1>6 DEF SensorInv

LEMMA FailedStep == ASSUME SensorInv, ReadFails PROVE SensorInv'
  <1>1. PICK t, h \in Int : Take(t, h)  BY ReceivedIsInt DEF ReadFails, Leftover
  <1>2. /\ readFailed' = TRUE /\ UNCHANGED measured
        /\ chip' \in [Temperature : Int, Humidity : Int, intact : BOOLEAN] /\ ~chip'.intact
    BY DEF ReadFails, SensorInv
  <1>3. data' \in [Lux : Int, Temperature : Int, Humidity : Int]  BY <1>1 DEF Take, SensorInv
  <1>4. OnlyMeasured' /\ FreshWhenIntact'  BY <1>2 DEF OnlyMeasured, FreshWhenIntact
  <1> QED  BY <1>2, <1>3, <1>4 DEF SensorInv

LEMMA SensorStep == SensorInv /\ [SensorNext]_sensorVars => SensorInv'
  <1> SUFFICES ASSUME SensorInv, [SensorNext]_sensorVars PROVE SensorInv'  OBVIOUS
  <1>1. CASE E53_IA1_Init  BY <1>1 DEF E53_IA1_Init, SensorInv, OnlyMeasured, FreshWhenIntact
  <1>2. CASE ReadLux
    <2>1. \A n \in Words \cup {0} : (n * 10) \div 12 \in Int  BY WordsAreInt
    <2>2. /\ data' \in [Lux : Int, Temperature : Int, Humidity : Int]
          /\ data'.Temperature = data.Temperature /\ data'.Humidity = data.Humidity
      BY <1>2, <2>1 DEF ReadLux, SensorInv
    <2> QED  BY <1>2, <2>2 DEF ReadLux, SensorInv, OnlyMeasured, FreshWhenIntact
  <1>3. ASSUME NEW copy, Read(copy)  PROVE SensorInv'
    BY <1>3, TransferStep, FailedStep DEF Read
  <1>4. CASE SensorLoop  BY <1>4 DEF SensorLoop, SensorInv, OnlyMeasured, FreshWhenIntact
  <1>5. CASE UNCHANGED sensorVars
    BY <1>5 DEF sensorVars, SensorInv, OnlyMeasured, FreshWhenIntact
  <1> QED  BY <1>1, <1>2, <1>3, <1>4, <1>5 DEF SensorNext, E53_IA1_Read_Data, IC2_Read_Data

----------------------------------------------------------------------------
(* The theorems *)

\* Each step of the whole is a step of every tutorial, or leaves it alone.
LEMMA EachStep ==
    [Next]_vars => /\ [KvNext \/ KvPowerLoss]_kvVars /\ [FileNext \/ FilePowerLoss]_fileVars
                   /\ [ApNext \/ StationsMove]_apVars /\ [SensorNext]_sensorVars
  <1> SUFFICES ASSUME [Next]_vars
               PROVE  /\ [KvNext \/ KvPowerLoss]_kvVars /\ [FileNext \/ FilePowerLoss]_fileVars
                      /\ [ApNext \/ StationsMove]_apVars /\ [SensorNext]_sensorVars
    OBVIOUS
  <1>1. CASE Tag  BY <1>1 DEF Tag, flashVars
  <1>2. CASE Sensor  BY <1>2 DEF Sensor, flashVars
  <1>3. CASE KeyValue  BY <1>3 DEF KeyValue
  <1>4. CASE File  BY <1>4 DEF File
  <1>5. CASE SoftAp  BY <1>5 DEF SoftAp, flashVars
  <1>6. CASE UNCHANGED vars  BY <1>6 DEF vars, flashVars
  <1> QED  BY <1>1, <1>2, <1>3, <1>4, <1>5, <1>6 DEF Next

\* The values the key-value tutorial reads are the ones it stored before the power
\* was lost, and a key that was never stored leaves the buffer as it was.
THEOREM KeysSurvive == Spec => []KvSurvives
  <1>1. Init => KvInv  BY KvInvInit DEF Init, FlashInit
  <1>2. KvInv /\ [Next]_vars => KvInv'  BY KvStep, EachStep
  <1>3. KvInv => KvSurvives  BY DEF KvInv, KvPrinted, KvSurvives
  <1> QED  BY <1>1, <1>2, <1>3, PTL DEF Spec

\* A run of the file tutorial that is alone and has no call fail reads back the text
\* it wrote; a handle that is open is held by a task, or was leaked by one that failed.
THEOREM FileReadsBack == Spec => []FileRunIsClean
  <1>1. Init => FileInv  BY FileInvInit DEF Init, FlashInit
  <1>2. FileInv /\ [Next]_vars => FileInv'  BY FileStep, EachStep
  <1>3. FileInv => FileRunIsClean
    BY DEF FileInv, HandlesKept, Undisturbed, Progress, Running, FileRunIsClean
  <1> QED  BY <1>1, <1>2, <1>3, PTL DEF Spec

\* The soft AP counts its stations, whatever joins and leaves come while tasks and
\* handlers run, as long as nothing that its comment excuses has happened.
THEOREM SoftApCounts == Spec => []CountsStations
  <1>1. Init => CountInv  BY CountInit DEF Init
  <1>2. CountInv /\ [Next]_vars => CountInv'  BY CountStep, EachStep
  <1> QED  BY <1>1, <1>2, CountAtRest, PTL DEF Spec

\* Whatever word the chip measures: its frame is accepted and decoded as that word, and
\* with a burst of errors of up to eight bits in it, wherever it starts, it is refused.
THEOREM DriverChecksFrames ==
    \A n \in Words : /\ Received(Frame16(n)) = n
                     /\ \A e \in Bursts : Received(Xor(Frame16(n), e)) = Unset
  BY ChecksumDetects

\* The data of the sensor tasks are words measured for that quantity, or none, for all
\* words and any bursts of up to eight bits, as long as no transfer failed.
THEOREM KeepsOnlyMeasured == Spec => []OnlyMeasured
  <1>1. Init => SensorInv  BY SensorInitially DEF Init
  <1>2. SensorInv /\ [Next]_vars => SensorInv'  BY SensorStep, EachStep
  <1>3. SensorInv => OnlyMeasured  BY DEF SensorInv
  <1> QED  BY <1>1, <1>2, <1>3, PTL DEF Spec

\* After an intact transfer the values shown are those of the words just measured.
THEOREM ShowsFreshWords == Spec => []FreshWhenIntact
  <1>1. Init => SensorInv  BY SensorInitially DEF Init
  <1>2. SensorInv /\ [Next]_vars => SensorInv'  BY SensorStep, EachStep
  <1>3. SensorInv => FreshWhenIntact  BY DEF SensorInv
  <1> QED  BY <1>1, <1>2, <1>3, PTL DEF Spec

\* A step of the whole is a step of the tag's library, for one of the records that
\* are stored, or leaves the tag alone.
LEMMA TagSteps == TagInv /\ [Next]_vars => TagInv'
  <1> SUFFICES ASSUME TagInv, [Next]_vars PROVE TagInv'  OBVIOUS
  <1>1. CASE Tag
    <2>1. CASE TagStep  BY <2>1, TagStepInv
    <2>2. CASE TagPowerLoss  BY <2>2, TagPowerLossInv
    <2>3. CASE \E r \in OldRecords \cup NewRecords : Store(r)
      BY <2>3, RecordsAssumption, StoreInv
    <2> QED  BY <1>1, <2>1, <2>2, <2>3 DEF Tag
  <1>2. CASE UNCHANGED tagVars  BY <1>2, TagSame
  <1>3. CASE Sensor \/ KeyValue \/ File \/ SoftAp \/ UNCHANGED vars
    BY <1>2, <1>3 DEF Sensor, KeyValue, File, SoftAp, vars
  <1> QED  BY <1>1, <1>3 DEF Next

\* A phone reads the record that was stored, whatever was on the tag before, if none
\* of the transfers of the store failed: for every tag of at most 255 pages, every
\* record of a length for which the layout is right, and any number of pages.
THEOREM TagReadsBackRecord == Spec => []ReadsBack
  <1>1. Init => TagInv  BY TagInitially DEF Init
  <1> QED  BY <1>1, TagSteps, TagReadsBack, PTL DEF Spec

\* The first record survives the records that are added behind it, whatever is stored
\* and whatever transfers fail, if it is of the short form and the length of all fits.
THEOREM TagFirstSurvives == Spec => []FirstRecordSurvives
  <1>1. Init => LibraryInv  BY LibraryInitially DEF Init
  <1>2. LibraryInv /\ [Next]_vars => LibraryInv'
    <2> SUFFICES ASSUME LibraryInv, [Next]_vars PROVE LibraryInv'  OBVIOUS
    <2>1. CASE Tag
      <3>1. CASE TagStep  BY <3>1, TagStepAdds
      <3>2. CASE TagPowerLoss  BY <3>2, TagPowerLossAdds
      <3>3. CASE \E r \in OldRecords \cup NewRecords : Store(r)
        BY <3>3, RecordsAssumption, TagStoreAdds
      <3> QED  BY <2>1, <3>1, <3>2, <3>3 DEF Tag
    <2>2. CASE UNCHANGED tagVars  BY <2>2, TagSameAdds
    <2> QED  BY <2>1, <2>2 DEF Next, Sensor, KeyValue, File, SoftAp, vars
  <1> QED  BY <1>1, <1>2, StoredSurvives, PTL DEF Spec
=============================================================================
