----------------------------- MODULE FlashStore -----------------------------
(***************************************************************************)
(* The two tutorials that keep something in flash: Kv_Store_Task           *)
(* (src/app/Entry/03/01_Kv_Store) and Utils_File_Task (03/02_Utils_File).  *)
(*                                                                         *)
(* The menu can start each of them again, also while it runs, so that two  *)
(* Utils_File_Tasks work on one file.  Every call of the storage library   *)
(* may fail.  The power may go at any time; keys and files stay (calls of  *)
(* the library are atomic: external).                                      *)
(***************************************************************************)
EXTENDS Integers, Sequences, FiniteSets

CONSTANTS
    FileTasks,    \* Utils_File_Tasks that can run at the same time
    FileLength,   \* length of wifi_config
    MaxHandles    \* open files the library allows

ASSUME FlashAssumption == FileLength \in Nat \ (0 .. 5) /\ MaxHandles \in Nat \ {0}

VARIABLES
    kvPc, kv, kvBuf, kvPrinted, kvSound,
    filePc, file, pos, hold, fileBuf, second,
    callFailed,   \* history: a call failed in the run of the task
    leaked,       \* history: handles that were open when their task ended at a failing call
    alone         \* history: no other task ran during the run of the task

kvVars == <<kvPc, kv, kvBuf, kvPrinted, kvSound>>
fileVars == <<filePc, file, pos, hold, fileBuf, second, callFailed, leaked, alone>>
flashVars == <<kvVars, fileVars>>

----------------------------------------------------------------------------
(* Kv_Store_Task.  A value is named by its key. *)

Keys == {"ssid", "pwd"}

KvInit ==
    /\ kvPc = "idle" /\ kvBuf = "" /\ kvSound = TRUE
    /\ kv = [k \in Keys |-> "none"]
    /\ kvPrinted = [k \in Keys |-> ""]

KvStart ==
    /\ kvPc = "idle"
    /\ kvPc' = "get ssid" /\ kvBuf' = "" /\ kvSound' = TRUE
    /\ UNCHANGED <<kv, kvPrinted>>

\* A failing UtilsGetValue is reported, and the buffer is printed all the same.
Get(key, here, next) ==
    /\ kvPc = here
    /\ kvPc' = next
    /\ \/ kv[key] # "none" /\ kvBuf' = kv[key] /\ UNCHANGED kvSound
       \/ UNCHANGED kvBuf /\ kvSound' = (kvSound /\ kv[key] = "none")
    /\ kvPrinted' = [kvPrinted EXCEPT ![key] = kvBuf']
    /\ UNCHANGED kv

\* The result of UtilsSetValue is ignored.
SetValue(key, value, here, next) ==
    /\ kvPc = here
    /\ kvPc' = next
    /\ \/ kv' = [kv EXCEPT ![key] = value]
       \/ UNCHANGED kv
    /\ UNCHANGED <<kvBuf, kvPrinted, kvSound>>

\* Mutants of the definition that follows.
Kv_Store_TaskSwapped ==
    \/ Get("ssid", "get ssid", "get pwd") \/ Get("pwd", "get pwd", "set ssid")
    \/ SetValue("ssid", "pwd", "set ssid", "set pwd") \/ SetValue("pwd", "ssid", "set pwd", "idle")

Kv_Store_Task ==
    \/ Get("ssid", "get ssid", "get pwd") \/ Get("pwd", "get pwd", "set ssid")
    \/ SetValue("ssid", "ssid", "set ssid", "set pwd") \/ SetValue("pwd", "pwd", "set pwd", "idle")

----------------------------------------------------------------------------
(* Utils_File_Task.  A file is a sequence of characters, or absent.  A     *)
(* handle that is open has a position in the file.                         *)

Absent == <<-1>>
wifi_config == [k \in 1 .. FileLength |-> k]
Handles == 1 .. MaxHandles
Closed_ == -1
Open_(h) == h \in Handles /\ pos[h] # Closed_
Free_ == {h \in Handles : ~Open_(h)}
BadHandle == 0

FileInit ==
    /\ filePc = [t \in FileTasks |-> "idle"]
    /\ file = Absent
    /\ pos = [h \in Handles |-> Closed_]
    /\ hold = [t \in FileTasks |-> BadHandle]
    /\ fileBuf = [t \in FileTasks |-> <<>>]
    /\ second = [t \in FileTasks |-> <<>>]
    /\ callFailed = [t \in FileTasks |-> FALSE]
    /\ leaked = {}
    /\ alone = [t \in FileTasks |-> TRUE]

Running(t) == filePc[t] # "idle"
Goto(t, next) == filePc' = [filePc EXCEPT ![t] = next]

FileStart(t) ==
    /\ ~Running(t)
    /\ Goto(t, "open")
    /\ fileBuf' = [fileBuf EXCEPT ![t] = <<>>]
    /\ second' = [second EXCEPT ![t] = <<>>]
    /\ callFailed' = [callFailed EXCEPT ![t] = FALSE]
    /\ alone' = [u \in FileTasks |->
                    IF u = t THEN \A v \in FileTasks : ~Running(v) ELSE alone[u] /\ ~Running(u)]
    /\ UNCHANGED <<file, pos, hold, leaked>>

\* A call that fails ends the task; what it had open stays open.
Fails(t) ==
    /\ Goto(t, "idle")
    /\ hold' = [hold EXCEPT ![t] = BadHandle]
    /\ callFailed' = [callFailed EXCEPT ![t] = TRUE]
    /\ leaked' = (leaked \cup {hold[t]}) \ {BadHandle}
    /\ UNCHANGED <<file, pos, fileBuf, second, alone>>

\* fd is unsigned, so that the test fd < 0 is never true: after a failed
\* open the task goes on with a handle that is none.
OpenAt(t, here, next, exists, content) ==
    /\ filePc[t] = here
    /\ Goto(t, next)
    /\ \/ \E h \in Free_ :
              /\ \A g \in Free_ : h <= g
              /\ exists
              /\ hold' = [hold EXCEPT ![t] = h]
              /\ pos' = [pos EXCEPT ![h] = 0]
              /\ file' = content
              /\ UNCHANGED callFailed
       \/ /\ hold' = [hold EXCEPT ![t] = BadHandle]
          /\ callFailed' = [callFailed EXCEPT ![t] = TRUE]
          /\ UNCHANGED <<file, pos>>
    /\ UNCHANGED <<fileBuf, second, leaked, alone>>

Readable(t) == Open_(hold[t]) /\ file # Absent
Rest(t) == SubSeq(file, pos[hold[t]] + 1, Len(file))
ReadOver(buf, text) == text \o SubSeq(buf, Len(text) + 1, Len(buf))

ReadAt(t, here, next) ==
    /\ filePc[t] = here
    /\ \/ /\ Readable(t)
          /\ Goto(t, next)
          /\ fileBuf' = [fileBuf EXCEPT ![t] = ReadOver(@, Rest(t))]
          /\ second' = IF here = "read2" THEN [second EXCEPT ![t] = fileBuf'[t]] ELSE second
          /\ pos' = [pos EXCEPT ![hold[t]] = IF @ > Len(file) THEN @ ELSE Len(file)]
          /\ UNCHANGED <<file, hold, callFailed, leaked, alone>>
       \/ Fails(t)

Write(t) ==
    /\ filePc[t] = "write"
    /\ \/ /\ Readable(t) /\ pos[hold[t]] <= Len(file)
          /\ Goto(t, "close")
          /\ file' = SubSeq(file, 1, pos[hold[t]]) \o wifi_config
          /\ pos' = [pos EXCEPT ![hold[t]] = @ + FileLength]
          /\ UNCHANGED <<hold, fileBuf, second, callFailed, leaked, alone>>
       \/ Fails(t)

\* Mutants of the action that follows.
CloseNot(t, here, next) ==
    /\ filePc[t] = here
    /\ \/ /\ Open_(hold[t])
          /\ Goto(t, next)
          /\ hold' = [hold EXCEPT ![t] = BadHandle]
          /\ UNCHANGED <<file, pos, fileBuf, second, callFailed, leaked, alone>>
       \/ Fails(t)

Close(t, here, next) ==
    /\ filePc[t] = here
    /\ \/ /\ Open_(hold[t])
          /\ Goto(t, next)
          /\ pos' = [pos EXCEPT ![hold[t]] = Closed_]
          /\ hold' = [hold EXCEPT ![t] = BadHandle]
          /\ UNCHANGED <<file, fileBuf, second, callFailed, leaked, alone>>
       \/ Fails(t)

Seek(t) ==
    /\ filePc[t] = "seek"
    /\ \/ /\ Open_(hold[t])
          /\ Goto(t, "read3")
          /\ pos' = [pos EXCEPT ![hold[t]] = 5]
          /\ UNCHANGED <<file, hold, fileBuf, second, callFailed, leaked, alone>>
       \/ Fails(t)

Delete(t) ==
    /\ filePc[t] = "delete"
    /\ \/ /\ file # Absent
          /\ Goto(t, "idle")
          /\ file' = Absent
          /\ UNCHANGED <<pos, hold, fileBuf, second, callFailed, leaked, alone>>
       \/ Fails(t)

Utils_File_Task(t) ==
    \/ OpenAt(t, "open", "read1", TRUE, <<>>)         \* O_CREAT_FS | O_TRUNC_FS
    \/ ReadAt(t, "read1", "write")
    \/ Write(t)
    \/ Close(t, "close", "reopen")
    \/ OpenAt(t, "reopen", "read2", file # Absent, file)
    \/ ReadAt(t, "read2", "seek")
    \/ Seek(t)
    \/ ReadAt(t, "read3", "close2")
    \/ Close(t, "close2", "delete")
    \/ Delete(t)

----------------------------------------------------------------------------
FlashInit == KvInit /\ FileInit

KvNext == KvStart \/ Kv_Store_Task
FileNext == \E t \in FileTasks : FileStart(t) \/ Utils_File_Task(t)

\* The power goes; keys and files stay (external).
KvPowerLoss == kvPc' = "idle" /\ kvBuf' = "" /\ kvSound' = FALSE /\ UNCHANGED <<kv, kvPrinted>>
FilePowerLoss ==
    /\ filePc' = [t \in FileTasks |-> "idle"]
    /\ pos' = [h \in Handles |-> Closed_]
    /\ hold' = [t \in FileTasks |-> BadHandle]
    /\ callFailed' = [t \in FileTasks |-> FALSE]
    /\ second' = [t \in FileTasks |-> <<>>]
    /\ leaked' = {}
    /\ UNCHANGED <<file, fileBuf, alone>>

(* What a run prints for a key is that key's value or, if the key is not   *)
(* there yet, what the buffer held before; provided no call for a key that *)
(* is there failed.  So the values survive runs that were cut off at any   *)
(* place and ignored failures of UtilsSetValue; and the value of ssid is   *)
(* printed for pwd only while pwd was never stored                         *)
(* (b03_01_Kv_Store.c:37 to 52).                                           *)
KvSurvives ==
    kvSound /\ kvPc \in {"set ssid", "set pwd"} =>
        /\ kvPrinted["ssid"] \in {"", "ssid"}
        /\ kvPrinted["pwd"] = "pwd" \/ (kvPrinted["pwd"] \in {"", "ssid"} /\ kv["pwd"] = "none")

(* A run of Utils_File_Task that was alone and none of whose calls failed  *)
(* has read back what it wrote, whatever an earlier run or a power loss    *)
(* left in the file.  Handles leak only from runs in which a call failed,  *)
(* also when two tasks close and open at the same time                     *)
(* (b03_02_Utils_File.c:35 to 98).                                         *)
FileRunIsClean ==
    /\ \A t \in FileTasks : ~Running(t) /\ second[t] # <<>> /\ alone[t] /\ ~callFailed[t]
           => second[t] = wifi_config
    /\ {h \in Handles : Open_(h)} \subseteq leaked \cup {hold[t] : t \in FileTasks}
=============================================================================
