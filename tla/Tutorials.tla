------------------------------ MODULE Tutorials ------------------------------
(***************************************************************************)
(* Programs that the button menu starts and that share no state: the       *)
(* library for NFC tags under a caller that stores any records, the sensor *)
(* board, the two flash tutorials, and the soft AP with its stations (its  *)
(* datagrams are in NetworkPrograms).  `chosen`, which does not change,    *)
(* says which one runs.                                                    *)
(***************************************************************************)
EXTENDS NdefTag, SensorRead, FlashStore, WifiAp

CONSTANTS
    OldRecords,   \* what is stored on the tag first ...
    NewRecords    \* ... and then

ASSUME RecordsAssumption == OldRecords \cup NewRecords \subseteq Records

VARIABLES
    chosen,       \* the tutorial that runs
    stores,       \* records stored so far
    losses        \* times the power was lost

Tutorial == {"tag", "sensor", "key-value", "file", "soft AP"}

others == <<chosen, stores, losses>>
vars == <<tagVars, sensorVars, flashVars, apVars, others>>

Init ==
    /\ chosen \in Tutorial /\ stores = 0 /\ losses = 0
    /\ TagInit /\ SensorInit /\ FlashInit /\ ApInit
    /\ chosen # "sensor" => board = "ic2"
    /\ apReliable = (chosen # "soft AP")

\* The library stores one record after the other; the power may go once.
Tag ==
    /\ chosen = "tag"
    /\ \/ TagStep /\ UNCHANGED <<stores, losses>>
       \/ /\ stores = 0 /\ stores' = 1 /\ UNCHANGED losses
          /\ \E r \in OldRecords : Store(r)
       \/ /\ stores = 1 /\ stores' = 2 /\ UNCHANGED losses
          /\ \E r \in NewRecords : Store(r)
       \/ losses = 0 /\ call.pc # "idle" /\ losses' = 1 /\ TagPowerLoss /\ UNCHANGED stores
    /\ UNCHANGED <<chosen, sensorVars, flashVars, apVars>>

Sensor == chosen = "sensor" /\ SensorNext /\ UNCHANGED <<tagVars, flashVars, apVars, others>>

KeyValue ==
    /\ chosen = "key-value"
    /\ KvNext \/ KvPowerLoss
    /\ UNCHANGED <<tagVars, sensorVars, fileVars, apVars, others>>

File ==
    /\ chosen = "file"
    /\ FileNext \/ FilePowerLoss
    /\ UNCHANGED <<tagVars, sensorVars, kvVars, apVars, others>>

SoftAp ==
    /\ chosen = "soft AP"
    /\ ApNext \/ StationsMove
    /\ UNCHANGED <<tagVars, sensorVars, flashVars, others>>

Next == Tag \/ Sensor \/ KeyValue \/ File \/ SoftAp

Spec == Init /\ [][Next]_vars
=============================================================================
