--------------------------- MODULE SmartHomeStart ---------------------------
(***************************************************************************)
(* The start of the smart-home tutorial                                    *)
(* (src/app/Entry/05/01_Smart_Home: borad_init of c05_01_app_main.c,       *)
(* c05_01_config_property.c, deal_report_msg of                            *)
(* c05_01_app_report_message.c), composed of ProfilePackage and NdefTag.   *)
(*                                                                         *)
(* The main task reads the tag's serial number for the MAC address,        *)
(* connects, builds the text that describes the board and writes it to     *)
(* the tag.  The menu can start it again, with the report task of the      *)
(* first start still building texts on the same heap; and the power may    *)
(* go at any time, after which only the tag remembers anything.            *)
(***************************************************************************)
EXTENDS ProfilePackage, NdefTag

CONSTANTS
    TextBase,     \* length of the complete text without the address, 368 in the code
    IpLengths,    \* lengths of the board's address as text
    MaxLaunches, MaxReports, MaxPowerLosses   \* bounds

ASSUME StartAssumption ==
    /\ IpLengths \subseteq 7 .. 15
    /\ {TextBase, MaxLaunches, MaxReports, MaxPowerLosses} \subseteq Nat
    \* No text of the board has the length that storeText lays out wrongly.
    /\ (TextBase - 54) .. (TextBase + 15) \subseteq (0 .. UINT16_MAX) \ {248}

VARIABLES
    pc,          \* of the main task
    mac,         \* where the MAC address in use comes from
    ip,          \* the address Config_Property got: its length, or NoAddress
    reporter,    \* report_message_task exists
    launches, reports, losses,
    trouble      \* history: what has failed since the main task was called,
                 \* for "memory" since the power came

startVars == <<pc, mac, ip, reporter, launches, reports, losses, trouble>>
vars == <<packageVars, tagVars, startVars>>

NoAddress == 0   \* -1, or what was in the register: no string

\* The length of the text, by what is missing.
TextLength ==
    TextBase + ip - (IF "service" \in missing["config"] THEN 25 ELSE 0)
             - (IF "ipAddress" \in missing["config"] THEN 15 + ip ELSE 0)
             - (IF "port" \in missing["config"] THEN 14 ELSE 0)

Init ==
    /\ PackageInit /\ TagInit
    /\ pc = "off" /\ mac = "other" /\ ip = NoAddress /\ reporter = FALSE
    /\ launches = 0 /\ reports = 0 /\ losses = 0 /\ trouble = {}

Call ==
    /\ pc \in {"off", "serving"} /\ launches < MaxLaunches
    /\ launches' = launches + 1
    /\ pc' = "mac"
    /\ trouble' = trouble \cap {"memory"}
    /\ UNCHANGED <<packageVars, tagVars, mac, ip, reporter, reports, losses>>

\* The address is the chip's serial number; "other" if that cannot be read,
\* which leaves a buffer nobody set, or if the driver refuses the address.
set_macaddr ==
    /\ pc = "mac"
    /\ \/ mac' = "serial" /\ UNCHANGED trouble
       \/ mac' = "other" /\ trouble' = trouble \cup {"mac"}
    /\ pc' = "wifi"
    /\ UNCHANGED <<packageVars, tagVars, ip, reporter, launches, reports, losses>>

\* Mutant of the action that follows: the error code takes the address's place.
GetLocalWifiIpError ==
    /\ pc = "wifi"
    /\ \/ ip' \in IpLengths /\ UNCHANGED trouble
       \/ ip' = 1 /\ trouble' = trouble \cup {"netif"}
    /\ Package("config")
    /\ pc' = "packaging"
    /\ UNCHANGED <<tagVars, mac, reporter, launches, reports, losses>>

\* The result of WifiConnect is ignored; GetLocalWifiIp is what notices.
GetLocalWifiIp ==
    /\ pc = "wifi"
    /\ \/ ip' \in IpLengths /\ UNCHANGED trouble
       \/ ip' = NoAddress /\ trouble' = trouble \cup {"netif"}
    /\ Package("config")
    /\ pc' = "packaging"
    /\ UNCHANGED <<tagVars, mac, reporter, launches, reports, losses>>

\* A step inside profile_package.c.  cJSON reads the string it is given.
AtAddress(p) == AddsMember(p) /\ Member(p).name = "ipAddress"
Lost(p) == missing'[p] # missing[p] \/ (ret'[p] = "NULL" /\ ret[p] # "NULL")

PackagerStep(p) ==
    /\ pc # "fault"
    /\ ~(AtAddress(p) /\ ip = NoAddress)
    /\ PackageStep(p)
    /\ trouble' = IF Lost(p) THEN trouble \cup {"memory"} ELSE trouble
    /\ UNCHANGED <<tagVars, pc, mac, ip, reporter, launches, reports, losses>>

BadAddress ==
    /\ pc # "fault" /\ AtAddress("config") /\ ip = NoAddress
    /\ pc' = "fault"
    /\ UNCHANGED <<packageVars, tagVars, mac, ip, reporter, launches, reports, losses, trouble>>

\* Mutants of the action that follows.
Config_PropertyStoresOld ==
    /\ pc = "packaging" /\ TakeText("config")
    /\ IF ret["config"] = "NULL"
       THEN pc' = "fault" /\ UNCHANGED tagVars
       ELSE pc' = "storing" /\ Store([pos |-> "first", type |-> RTD_TEXT, len |-> TextLength, id |-> 1])
    /\ UNCHANGED <<mac, ip, reporter, launches, reports, losses, trouble>>

\* storeText(NDEFFirstPos, msg): strlen(msg) comes first, also of NULL.
Config_Property ==
    /\ pc = "packaging" /\ TakeText("config")
    /\ IF ret["config"] = "NULL"
       THEN pc' = "fault" /\ UNCHANGED tagVars
       ELSE pc' = "storing" /\ Store([pos |-> "first", type |-> RTD_TEXT, len |-> TextLength, id |-> launches])
    /\ UNCHANGED <<mac, ip, reporter, launches, reports, losses, trouble>>

\* A transfer of storeText; when it returns, whatever it returns, the server
\* and the report task are started.
StoreStep ==
    /\ pc = "storing" /\ TagStep
    /\ trouble' = IF stored' = Nothing /\ (call'.pc = "idle" \/ ~call'.clean) THEN trouble \cup {"i2c"} ELSE trouble
    /\ IF call'.pc = "idle" THEN pc' = "serving" /\ reporter' = TRUE ELSE UNCHANGED <<pc, reporter>>
    /\ UNCHANGED <<packageVars, mac, ip, launches, reports, losses>>

\* deal_report_msg
BuildReport ==
    /\ reporter /\ pc # "fault" /\ reports < MaxReports
    /\ Package("report")
    /\ reports' = reports + 1
    /\ UNCHANGED <<tagVars, pc, mac, ip, reporter, launches, losses, trouble>>

SendReport ==
    /\ pc # "fault" /\ TakeText("report")
    /\ pc' = IF ret["report"] = "NULL" THEN "fault" ELSE pc
    /\ UNCHANGED <<tagVars, mac, ip, reporter, launches, reports, losses, trouble>>

PowerLoss ==
    /\ pc # "off" /\ losses < MaxPowerLosses
    /\ losses' = losses + 1
    /\ heap' = {} /\ texts' = {} /\ strays' = {}
    /\ stack' = [p \in Packagers |-> <<>>]
    /\ ret' = [p \in Packagers |-> "none"]
    /\ missing' = [p \in Packagers |-> {}]
    /\ TagPowerLoss
    /\ pc' = "off" /\ mac' = "other" /\ ip' = NoAddress /\ reporter' = FALSE /\ trouble' = {}
    /\ UNCHANGED <<launches, reports>>

Next ==
    \/ Call \/ set_macaddr \/ GetLocalWifiIp \/ BadAddress \/ Config_Property \/ StoreStep
    \/ BuildReport \/ SendReport \/ PowerLoss
    \/ \E p \in Packagers : PackagerStep(p)

Spec == Init /\ [][Next]_vars

StartTypeOK ==
    /\ PackageTypeOK /\ TagTypeOK
    /\ pc \in {"off", "mac", "wifi", "packaging", "storing", "serving", "fault"}
    /\ mac \in {"other", "serial"}
    /\ ip \in IpLengths \cup {NoAddress}
    /\ trouble \subseteq {"i2c", "mac", "netif", "memory"}

(* A start in which no transfer failed and the MAC address was accepted    *)
(* ends with the chip's own address in use and with the text of this start *)
(* on the tag, whatever an earlier start or a power loss in the middle of  *)
(* one left there, and also if a member of the text had to be left out.    *)
(* The firmware ends in a fault only after an allocation failed, the       *)
(* report task's included, or the interface was missing: errors of the     *)
(* chips alone never stop it (c05_01_app_main.c:93).                       *)
CleanStart ==
    /\ pc = "serving" /\ trouble \cap {"i2c", "mac"} = {} =>
           /\ mac = "serial"
           /\ FirstRecord = Content([pos |-> "first", type |-> RTD_TEXT, len |-> TextLength, id |-> launches])
    /\ pc = "fault" => trouble \cap {"memory", "netif"} # {}
=============================================================================
