# The smart-home board and its phone app in TLA+

This directory holds TLA+ models of the programs in this repository, TLC
configurations that check them on small instances, and TLAPS proofs of their
most important properties. The repository has two programs: the firmware of a
BearPi board (Hi3861, LiteOS-M) under `app/Entry`, and a HarmonyOS phone app
under `smart_home`.

## 1. Inventory

| Component | Source | State it keeps | Operations | What is hard | What makes it correct |
|---|---|---|---|---|---|
| Board TCP server | `05/01_Smart_Home/c05_01_app_main.c`, `..._deal_command.c`, `..._report_message.c` | `sock_fd`, `new_fd`, `is_accepted`, `motor_status`, `light_status`, `recvbuf`; lwIP descriptors | create the listening socket, start two tasks, accept/recv/execute/close, build and send a report every 3 s | two tasks share globals without a lock; both close `new_fd`; the end of a stream is not an error; TCP has no message boundaries | no descriptor leaks, the listener survives, dead clients are released, statuses match pins, only issued commands are executed |
| Button menu | `ModuleSelect.c` | `g_BtnState`, `selectNumber`, `selectModule`, `selectMax` | two interrupt handlers, `Show_Gui`, `Select_Task` | an interrupt between the read and the reset of `g_BtnState`; delays during which presses overwrite each other | the marker stays inside its page; a confirmed press acts on what is shown |
| Wi-Fi station | `05/.../wifi/wifi_connect.c` (copies in `03/04`, `03/05`) | `g_staScanSuccess`, `g_ConnectSuccess`, `ssid_count`, `g_lwip_netif` | scan, wait, select, connect, wait, DHCP; two callbacks | callbacks run while the task waits; flags are polled once a second for 15 s | a result is used only if it is the result of the current request |
| NFC tag | `05/.../nfc` (NT3H, ndef, rtd) | the tag's memory, `nfcPageBuffer` | read and write a page, store a first record, add one, update the header | a record spans pages and any transfer may fail; three places compute lengths, some of them bytes | what was stored without an error is what a phone reads |
| Start-up | `c05_01_app_main.c`, `c05_01_config_property.c` | the MAC address, the board's address, the text on the tag | set the address, connect, describe the board, store the text | results are ignored; the power may go between two pages; the menu starts it again | a start without errors leaves its own text on the tag; errors of the chips never stop it |
| Report text | `05/.../profile_package` | cJSON trees, the heap | build the tree, print, free | every allocation may fail; ownership moves between trees; the text is never freed by the caller | nothing freed twice or leaked by the builders |
| Sensor | `05/.../sensor/E53_IA1.c` (copy in `02/04_IC2`) | I2C devices, last data | init, read, CRC, conversion, pin set | results of I2C are ignored; a CRC error keeps the old value | only values whose CRC was right are reported |
| Phone app | `smart_home/.../ServiceAbility.java`, `BasicSocket.java`, `index.js` | `basicSocket`, `socket`, `out`, `thread`, `remoteObjectHandlers`, the page's flags | create, send, subscribe, unsubscribe, listener thread | a new socket replaces one that was not stopped; the listener thread races `Stop` | one connection at most; nothing is sent after Stop |
| LED tutorials | `02/01` to `02/03` | GPIO_2, `led_state` | a lamp, a PWM loop, a light sensor | they share a pin with each other and the buttons with the menu | the lamp obeys the last press |
| Soft AP | `03/03` | `error`, `g_apEnableSuccess`, the receive buffer | set up a hotspot, echo datagrams, count stations | a task and two callbacks share two globals; it may be launched twice | stations are counted, each datagram is answered with what it said, by one task |
| TCP client | `03/05` | `sock_fd` | connect, send, receive, close twice | results are ignored; other tasks open and close descriptors meanwhile | it closes what it opened and ends when the server goes |
| Files, key-value store | `03/01`, `03/02` | a file and its handles, two keys | open, read, write, seek, close, delete; get and set | every call may fail and failures are ignored or end the task; cut runs | what was written is read back, handles do not leak |
| UART | `02/06` | none | write and read the serial port | nothing | - |

How they interact: the menu task starts a tutorial by calling it; the smart-home
tutorial connects to Wi-Fi, writes the NFC tag and opens the TCP server, then
returns to the menu, which can start it again. The phone app connects to the
server, sends one line per command and receives reports. All firmware tasks
share globals; lwIP, LiteOS, the sensor and NFC chips and the HarmonyOS runtime
are external.

## 2. Modules

| Module | Models | Extends | Checked in |
|---|---|---|---|
| `BoardServer` | the TCP server | | `server_*`, `coalesced_commands`, `second_launch` |
| `DeviceControl`, `BoardImplements` | what the server promises; the refinement mapping | `BoardServer` | `server_implements` |
| `ModuleSelect` | the menu and the LED tutorials | | `menu` |
| `WifiConnect` | the station, in the three programs that have one | | `wifi`, `wifi_late_success` |
| `PhoneService` | the phone app | | `network`, `phone_second_connect` |
| `WifiAp`, `TcpClient` | two tutorials | | `network`, `tutorials` |
| `NetworkPrograms` | one of phone app, soft AP and TCP client, with its peers | the three | `network` |
| `NdefTag` | the tag and its library | | `tutorials`, `startup` |
| `ProfilePackage` | who owns the nodes of the heap | | `startup` |
| `SmartHomeStart` | the start of the smart home | `ProfilePackage`, `NdefTag` | `startup` |
| `SensorRead`, `FlashStore` | the sensor board; two tutorials | | `tutorials` |
| `Tutorials` | one of tag library, sensor, two flash tutorials, soft AP | the four | `tutorials` |
| `Queues` | lemmas about sequences used as queues, no code | | |
| `BoardServerProofs` | theorems about the server and the refinement | `BoardImplements` | |
| `ModuleSelectProofs`, `WifiConnectProofs` | theorems | the module each is named after | |
| `NetworkProofs` | theorems about `PhoneService`, `WifiAp`, `TcpClient` | `NetworkPrograms` | |
| `NdefTagProofs` | lemmas about the tag and its library | `NdefTag` | |
| `StartProofs` | theorems about `ProfilePackage` and `SmartHomeStart` | both, `NdefTagProofs` | |
| `TutorialsProofs` | theorems about `NdefTag`, `SensorRead`, `FlashStore`, `WifiAp` | `Tutorials`, `NdefTagProofs` | |

`SmartHomeStart` composes parts that interact: two tasks on one heap, a text that
goes to the tag, a tag that survives what the heap does not. `NetworkPrograms` and
`Tutorials` put programs side by side that share no state; a variable that never
changes says which one runs, so that each is explored on its own.

`PhoneService` and `BoardServer` are not joined. Each has an environment that connects, sends and
ends connections whenever a socket lets it, meant to allow all that the other does; that it
does is not proved. A joint model with streams of reports would be needed for the one hazard without a
property (section 13).

## 3. BoardServer

The main task's program counter is `mainPc`, `deal_command_task`'s is `dealPc`,
`report_message_task`'s is `repPc`. One action runs from one access of shared
state to the next, so that the places where the code reads `new_fd` twice
(`report_message.c` lines 77 and 80) or sets two things in two statements
(`deal_command.c` lines 65-66) are places where the tasks interleave.

| Action | Code |
|---|---|
| `MainSocket`, `MainListen` | `creat_tcp_server`: `socket`; `bind` and `listen`. A failure ends the task (`exit(1)`) |
| `MainSpawnDeal`, `MainSpawnReport` | the two `osThreadNew`; a failure is only printed |
| `Relaunch` | the menu calls `c05_01_main_task` again |
| `CallAccept`, `Accept`, `AcceptError`, `SetAccepted` | `accept(sock_fd)` reads `sock_fd` when it is called; its result, an error too, goes to `new_fd`; then `is_accepted = 1` |
| `Recv`, `RecvEof`, `RecvError`, `RecvAfterEof` | `recv`: a part of the stream, 0, -1. `RecvAfterEof` covers the releases of lwIP that answer -1 to the second `recv` after the end of the stream |
| `SetPin`, `SetStatus` | `Motor_StatusSet`/`Light_StatusSet`, then the status variable |
| `CloseOnError`, `ClearAccepted` | `close(new_fd)`, then `is_accepted = 0` |
| `RepInit` ... `RepClose` | `E53_IA1_Init`, the test of `is_accepted` and `malloc`, the two status reads, the building of the text, `send(new_fd)`, `close(new_fd)` |
| `Connect`, `ClientSend`, `ClientLeave`, `ResetArrives`, `NetworkReset` | the phones and the network |

Data is abstracted as follows. A connection is used once. A command is two
tokens, a device and a value; `Recv` takes any number of tokens, and may cut the
next one in half, in which case neither half is found by `strstr`. `recvbuf` is
the set of the words in it, kept from a recognised command to the next `bzero`.
Sensor values are not in the reports.

External behaviour assumed: descriptors are given out in any order (lwIP takes the
lowest free one); a port can be bound once; closing a descriptor makes the `recv`
blocked on it return -1; a send to a client that left is answered by a reset or
times out; before a pin is an output a value written to it may be dropped.

### Properties

* `NoOrphanSocket`: the only open client descriptor is the one `new_fd` names,
  while it is served.
* `ListenerKept`: once it listens, the board never closes the listening socket.
* `OnlyReportDropsHealthy`: a live accepted client is disconnected by the board only in
  `RepClose`. This is the honest bound on a race in the code: after a failed
  `send` the report task reads `new_fd` again, and by then it may name the next
  client. What the property excludes is that the other close, or the double close of one
  descriptor, hits a live client as well.
* `StatusTracksPin`: statuses and pins differ only between the two assignments, or
  for a device whose last command came before the pins were outputs.
* `SwitchedByCommand`, `SockFdListens`: what two comments of the code say. Both are wrong in
  general, as two runs show; both are proved (section 12) of the use the code seems to have in mind: a phone
  that waits for its command to be read, and a tutorial that is launched once.
* `DeadClientReleased`, `BacklogDrains`, `EventuallyConsistent`: liveness.
* `ImplementsDeviceControl`: refinement of `DeviceControl` (devices change only by
  executing issued commands, in the order of their connection, at most once).

### Fairness

Weak fairness of each task: both created tasks have priority 24, the priority of
the menu task that runs the main task, and LiteOS-M shares the processor round
robin among equal priorities. Weak fairness of `ResetArrives`: TCP answers or
gives up. No fairness for the phones, for failures, or for `RecvAfterEof`: that
lwIP ever reports the end of a stream as an error is not relied on.

### Runs

| Run | Instance | Shows |
|---|---|---|
| `server_safety` | 2 clients, 3 descriptors, 1 command, 2 launches, all calls may fail | `TypeOK`, `NoOrphanSocket`, `ListenerKept`, `OnlyReportDropsHealthy` |
| `server_liveness` | 2 clients, 2 descriptors, 1 command, no failures | the three liveness properties |
| `server_implements` | 2 clients, 2 commands, streams of 2 tokens; threads, heap and connections may fail | the refinement and `StatusTracksPin` |
| `coalesced_commands` (violation) | 1 client, streams of 4 tokens | two commands in one `recv` become a third one |
| `second_launch` (violation) | 1 client, 2 launches | `sock_fd` no longer names the listening socket |

The bounds are enough for what they are to show: two clients give a served one and a
waiting one, which the close race needs; three descriptors let the next client
get the same or a different descriptor than the one just closed, two let them
run out; four tokens hold two commands that coalesce; a second launch is the
first that finds the port bound. In runs with failures tasks may end or the board may fault,
so deadlock is not checked there; in the others it is.

A client that stays connected for ever keeps all others waiting; that is how the
server is written and no property says otherwise.

## 4. ModuleSelect

The menu task, the interrupt handlers and the tutorials `LED_Lights`,
`LED_Breathe` and `LED_Induction`, which all drive GPIO_2.

| Action | Code |
|---|---|
| `Press` | `F1_Pressed`, `F2_Pressed`, of the menu or, once registered, of `LED_Lights` |
| `Start`, `ReadButton`, `NextLine`, `OpenPage`, `StartTutorial`, `Delay` | `Select_Task`: the first `Show_Gui`, the `switch`, its cases, its delays (case F2 falls through, hence two) |
| `SmartHomeReturns` | `c05_01_main_task`, called in `Select_Task`, returns; nothing obliges it to |
| `Register`, `ReadLedState`, `SetLamp` | `LedTask` |
| `PwmInit` | `PWMTask`: GPIO_2 becomes the output of PWM2; the loop then changes only the duty cycle |
| `AdcWake`, `AdcRead` | `adc_light_demo`. A failing read changes nothing and has no delay |

The page texts are abstracted to the marked line. `selectNumber = ++selectNumber % selectMax`
is modelled as the compilers of the SDK translate it. `adc_light_demo` has
priority 25, all other tasks 24: while it is ready, none of them steps. The loop of
`PWMTask` and the other tutorials change no state the module has.

* `MarkerOnPage`, `ConfirmsWhatIsMarked`: the line number belongs to the page shown, for any timing of the presses.
* `NoPhantomPress`: reading and resetting `g_BtnState` in two steps loses presses but answers none twice.
* `PressConsumed`: liveness, with the two ways in which the menu can hang named in the property.
* `LampObeys`: liveness, for the pin as several `LedTask`s drive it.

| Run | Instance | Shows |
|---|---|---|
| `menu` | 2 tasks, 7 presses | the type invariant and the five properties |

Seven presses are enough to open a page and go round it, to start two tutorials
one after the other, or to start two `LedTask`s and switch the lamp twice.

Two facts that no property states, because they are one line of code each: the
menu offers `05 OLED_Show` and has no case for it (`HasCase`), and `LedTask` never sets the
function of GPIO_2, so that after `LED_Breathe` its output value has no effect (`pinFunc`;
the reason for the condition `OnlyLedTasks` in `LampObeys`).

Fairness: strong for the tasks of priority 24, which run in the 100 ticks `adc_light_demo`
sleeps; none for `AdcRead`, because nothing obliges `hi_adc_read` to succeed.

## 5. WifiConnect

One caller and the Wi-Fi service, in three programs: the smart home, whose call the menu can repeat,
the TCP client, and the station tutorial, which never goes on from its connection. Each access of `g_staScanSuccess`,
`g_ConnectSuccess` and `ssid_count` is a step; the scan handler's two stores are two
steps, because nothing in the code says which task has the higher priority.

| Action | Code |
|---|---|
| `Call` | `WifiConnect` up to its loop: `WiFiInit`, `EnableWifi`, `IsWifiActive`, `malloc` |
| `ResetCount`, `ResetFlag`, `Scan`, `PollScan`, `GetScanInfoList`, `TestScan` | the `do` loop, lines 85-99, with `WaitSacnResult` |
| `Select`, `ConnectTo`, `PollConnect`, `FindNetif`, `EndCheck` | the `for` loop, lines 109-139, with `WaitConnectResult` |
| `Dhcp` | lines 141-166 |
| `ScanHandler`, `ScanHandlerEnd`, `LinkHandler` | the two handlers |
| `StationLinkHandler` | the handler of `03/04`, which has no branch that resets `g_ConnectSuccess` |
| `ScanDone`, `LinkAnswer`, `LinkDrop` | the Wi-Fi service (external) |

A list is a sequence of names, `home` or `other`; entries never written are
`unset`. Assumed of the service: events are handled in order, by one task; `Scan()` during a scan starts
no other; `netifapi_netif_find` finds `wlan0`.

* `FlagTracksLink`: `g_ConnectSuccess` is never reset by the task, and still a wait cannot
  succeed on an earlier connection whose loss was reported. In the station tutorial it is never reset at all;
  there the flag only covers the link.
* `EntriesAreReal`: the loop reads one scan's entries, all of them and no other, provided each
  scan was answered and handled in its wait (the history `astray`); the code does not keep it otherwise.
* `DhcpHasNetif`: under the same condition the loop over the list ends in a connection or in the
  hang after its last entry, never without an interface. Without the condition it does: a scan
  handler that runs across the two resets leaves the flag set and the count 0, the loop does
  not run, and DHCP polls a NULL interface for ever.
* `ConnectsInTime`: liveness when `reliable`, which is chosen in the initial state: the hotspot is in every list, no call fails and the service
  answers before the last second of each wait. In the last second it would fail: see `wifi_late_success`.

| Run | Instance | Shows |
|---|---|---|
| `wifi` | waits of 2 s, lists of up to 2, 2 pending events, 2 calls, 1 lost link | the type invariant and the four properties |
| `wifi_late_success` (violation) | 1 call | success returned as failure |

Two seconds give a wait that goes on and one that ends; two entries give a loop that goes
round; the second call meets what the first left in the globals. The task may hang
(`while (1) osDelay`, or DHCP without a link), so deadlock is not checked.

## 6. PhoneService

The page is one thread whose calls are asynchronous: what follows an `await` is an
action of its own that takes the reply from `inbox`. The ability serves `calls` in
order. Each subscription starts a listener thread. `BasicSocket` objects and threads are numbered.

| Action | Code |
|---|---|
| `Tap`, `Confirm`, `SendCommand` | `startdevice`, `getIPAddress`/`cancel`, `sendCommand` up to its `await` |
| `Created`, `Subscribed`, `Unsubscribed`, `Sent`, `Stopped` | the continuations in `index.js`, and the subscriber's callback for `STOP` |
| `ServeCreate`, `Connect` | `CREAT_CLIENT`: the new `BasicSocket`; the end of `socket.connect` |
| `ServeSend`, `ServeSubscribe` | `SEND_CLIENT`, `SUBSCRIBE_CLIENT` |
| `ServeUnsubscribe`, `Stop` | `UNSUBSCRIBE_CLIENT`: `clear()`, then `BasicSocket.Stop` |
| `TestSocket`, `GetInputStream`, `Read`, `Iterate`, `SendRequest` | the listener thread; `socket` is read twice, and the iteration over `remoteObjectHandlers` fails if the set changed |
| `PeerEnds` | the board closes the connection, or it breaks (external) |

An exception that nothing catches (a null writer, a null socket, a concurrent
modification) ends the app: `fault` is set and nothing moves any more. These races are in the code; the
properties allow for them and say what holds until then.

`Stop` swallows the `IOException` of a close. `out.close()` throws when it cannot write what failed sends left in the buffer, so only
on a connection the peer has ended; `socket.close()` may throw when there was no writer to close. The fields that come after it keep
their values and the reply is `SUCCESS` all the same. Of the Java library we assume that closing the writer closes the connection even when
it throws, and that closing a socket that is closed already does nothing. So
after `Stop` nothing is held, but a writer may be left, to which a late `SEND_CLIENT` fails with a caught exception and the
reply `SUCCESS`; the properties therefore speak about connections (`Held`).

* `FlagsMatchConnection`: when all calls are answered, the flags of the page (`startflag`, `subscribe_statu`), the
  connection the ability holds and its subscribers agree, and a connection has its writer. For a `patient` user, who waits for the answer before
  tapping again; `patient` is chosen in the initial state.
* `HoldsOnlyCurrent`: for that user no connection is lost. The board serves one client, so a
  lost connection would keep it from all others.
* `PeerCloseNoticed`: liveness; a connection the board closed ends the page's started state.
* `UnsubscribeCloses` (violated by an impatient user): see the finding.

| Run | Instance | Shows |
|---|---|---|
| `network` (the phone's part) | 2 connections, 2 calls in flight when the user acts | the type invariant and the first three properties |
| `phone_second_connect` (violation) | 2 connections | the second connect loses the first connection |

Two connections are what it takes for a listener of the first to meet the second.
Fairness: the page's events, the ability and each listener run; the user and the
board do as they like. After the user stops, or after a fault, nothing moves: deadlock is not checked.

## 7. NdefTag

One step is one I2C transfer with the computation around it; each may fail. `call` is the
call in progress with its locals and its place in the code.

| Action | Code |
|---|---|
| `Store` | `storeText`, `storeUrihttp`, and for a first record `firstRecord` up to its first transfer |
| `WriteFirstPage`, `WriteNextPage` | `writeUserPayload`, lines 161 and 162-198 |
| `ReadEnd` | `NT3HwriteRecord`: where the records end |
| `ReadHeader`, `RewriteRead`, `RewriteWrite`, `ReadLast`, `SplitWrite` | `addRecord`, with the two transfers of `NT3HWriteHeaderNfc` |
| `TagPowerLoss` | the page buffer and the call are gone, the tag is not (external) |

Bytes are numbers; a byte of a payload is a number over 255 that names its record and place, so that
reading back compares identities. `FirstRecord` is what a phone reads: an independent
definition from the format of the tag (external). The layouts are the code's, with their limits.

* `ReadsBack`: a first record stored without an error is what a phone reads, whatever was there before.
  `LaidOut` names the lengths for which the code's layouts disagree: a text of 248 bytes, a URI of
  249, 250 or over 254. The smart home's text is longer than those.
* `FirstRecordSurvives`: adding a record leaves a short first record readable.

No property says that an *added* record can be read: it is not. `ndef.c:219` adds the size of the header
structure plus one to the length of the message, and the added record starts two bytes behind the
byte that ended the old message (which the comment at `ndef.c:221` says it overwrites), so that no reader finds it at the
end of the first record. Nor does one say that a failing write is reported: the result of the first page's
write (line 161) is overwritten by that of the next (line 189). Nobody calls the library with another
position than the first, so both are facts about the library, not about the smart home.

## 8. ProfilePackage and SmartHomeStart

A function of `profile_package.c` is the list of members it adds (`Body`); the actions interpret the lists.

| Action | Code |
|---|---|
| `CreateNode`, `AddLeaf`, `LeafFails`, `CallChild`, `ReturnTree`, `ExitMem` | the head of each function, its leaves, its calls, its `return` and `EXIT_MEM` |
| `PrintText` | `cJSON_PrintUnformatted` and `cJSON_Delete` of the outermost function |
| `Call`, `set_macaddr`, `GetLocalWifiIp`, `Config_Property`, `StoreStep` | the main task, from `main_task` to the end of `storeText` |
| `BadAddress` | `cJSON_CreateString` reads what `GetLocalWifiIp` returned in place of an address |
| `BuildReport`, `SendReport` | `deal_report_msg` in the report task |
| `PowerLoss` | everything but the tag is as at the start |

* `HeapAccounted`: every allocated node has one owner: one function's tree, the texts, or the
  nodes that cJSON could not add (their key could not be copied). So no path through `EXIT_MEM` frees twice or leaks.
  The texts do pile up: neither caller frees one.
* `MissingOnlyOptional`: a text that is returned lacks only what the code does not check.
* `CleanStart`: a start without errors of the chips serves with the chip's address and its own text
  on the tag, after any earlier start or power loss; the firmware faults only when an allocation failed
  or the interface was missing. (`strlen(NULL)` of a text that could not be built is such a fault, in both callers;
  `GetLocalWifiIp` returns -1, or nothing at all, where a string is expected.)

| Run | Instance | Shows |
|---|---|---|
| `startup` | 2 starts, 1 report, 1 power loss, a tag of 5 pages, texts of 54 bytes and an address of 8 | the type invariant and the three properties |

The text is shorter than the code's 368 bytes (less what a failed allocation leaves out, plus the address), for which the long
layouts are used; those lengths are in the run `tutorials`. It still takes several pages, so that a power loss leaves a torn record under the next one. Two starts and a report task are
two builders at a time. Where a task waits for nothing more the system stops: deadlock is not checked.

## 9. SensorRead

Words, bytes and frames are sets of bit positions. `Frame16` is what the chip sends, with the checksum defined as
a remainder of polynomials, independently of the code's loop; a transfer arrives intact, with any flipped
bits within `MaxBurst` successive ones, or fails, and the code does not look at its result.
`E53_IA1_Read_Data` and `IC2_Read_Data` are the two copies.

* `OnlyMeasured`: without a failed transfer, each value is unset or one the chip measured.
* `FreshWhenIntact`: after an intact transfer the values shown are the ones just measured.

Bursts of up to 8 bits are what a checksum of 8 bits can find: with 9 the polynomial itself is an error that goes unnoticed. A failed transfer leaves what the stack
holds in the buffer: the values then mean nothing, and a failing light read shows as 0. The bus
is not shared with the tag here.

## 10. FlashStore, WifiAp, TcpClient

`FlashStore`: one action per call of the storage library, each of which may fail; the power may go at any time; two
`Utils_File_Task`s may run. `uint32_t fd < 0` is never true, so that after a failed open the task goes on with a bad handle (`OpenAt`).

* `KvSurvives`: what is printed for a key is its value, or a value of the other key only while the key was never stored.
* `FileRunIsClean`: an undisturbed run reads back what it wrote; handles leak only from runs in which a call failed. (The third
  read's output ends in five stale bytes of the second: the buffer is not cleared. No property is about that.)

`WifiAp`: the calls of `WifiAPTask` store into the global `error` in one step and test it in the next; the join and leave
handlers run in the Wi-Fi service, and the former creates `HotspotStaJoinTask`. `g_apEnableSuccess++` and `--` are two steps each.

* `CountsStations`: the counter is the number of stations when all is quiet, unless one of the named disturbances happened (`disturbed`);
  two overlapping changes are one, and the code does not prevent them.
* `OneServer`, `EchoAnswered`: a second launch never serves the port as well; when no call fails every datagram is answered.
  (A socket whose `bind` failed stays open: not in a property.)
* `EchoIsOwn`: a client gets its own datagram back, up to its first zero byte, if that text is shorter than `recvBuf` (`BufSize`, 512 in the
  code). `recvfrom` cuts a longer datagram (`Taken`), and a full buffer has no terminating zero: `strlen` then reads on past the array, and what
  comes back is the first `BufSize` bytes of the text followed by whatever lies behind them (`Beyond`: nothing, or stray bytes; that
  the overrun could stop the board is not modelled). The property claims no more of such texts.

`TcpClient`: the tasks' calls on the global `sock_fd`, a server that sends, closes or resets, and other tasks that open and close descriptors.

* `ClientCleansUp`: a client that is alone leaves no descriptor open, and closes another's only if it was
  opened between its two `close` calls (lines 86 and 90). With overlapping launches neither holds.
* `ClientEnds`: liveness; a client whose server has gone ends, though `recv`'s 0 and `connect`'s failure are ignored.

## 11. Runs of the composed modules

| Run | Instance | Shows |
|---|---|---|
| `tutorials` | tag: two records one after the other, text and URI, lengths around every limit of the layouts, one power loss; sensor: two words, all errors within 8 bits; files: 2 tasks, 2 handles; soft AP: 2 launches, 2 stations that join twice in all | the seven properties of sections 7, 9 and 10 it lists |
| `network` | phone: 2 connections; soft AP: 2 launches, 2 UDP clients, a buffer of 3 bytes; TCP client: 2 launches, 2 descriptors | the type invariant of the phone, and the eight properties of sections 6 and 10 it lists |

Three bytes (`BufSize`) are enough for a datagram that is empty, shorter than the buffer, fills it or is longer, and for one with a zero inside.

Fairness in `network`: the phone's as in section 6; a task of the board that is not waiting runs; a peer answers data it
refuses with a reset. None for the clients, stations, servers and other tasks. The programs stop when their users do: deadlock is not checked.

## 12. Proofs

Every safety invariant and action property a passing run checks is also a theorem. The runs show them on small instances; the theorems, for all
constants that satisfy the assumptions of the modules. Each rests on an inductive invariant:
the property says too little of the states it excludes, and what has to be added is the reason why the code is right.

`BoardServerProofs`: one lemma per task and invariant, one step per action.

* `SockInv` = `NoOrphanSocket`, `ListenerKept`, `StartOrder` (a task does nothing before it is
  created) and `ListenerSafe`. The last is why the listener survives: `new_fd` starts
  as 0, which may be the listener's descriptor, but in that case no task is past the test that
  leads to a `send` or `close`.
* `DropInv` = `KnownOpened` and `CloseCause`: when `deal_command_task` is about
  to close, its client has left, and no step makes a left client live.
* `PinInv` = `StatusTracksPin` and `PinCause`: between the two assignments the
  pin already has the value the status is about to get.
* `BoardImplementsControl`, the refinement, for any number of clients, commands and descriptors but streams of two tokens
  (`StreamCap = 2`, the case `coalesced_commands` does not reach). Then a stream holds at most one command
  (`OneCommandEach`), and each step of the board is one step of `DeviceControl` (a command
  issued, begun, done or lost) or none.
* `OnlyCommandsSwitch`, for the same streams: `CommandInv` follows a command from the stream to the buffer to the pin,
  and it is in `issued` in all three places; `RecvPart` says that `recv` takes up both words of one command or none.
* `AcceptsOnListener`, for one launch (`MaxLaunches = 1`, what `second_launch` does not assume): `SockFdInv`, that `sock_fd` names the
  listener from `listen` on. With `ListenerSafe`, no `close(new_fd)` can hit the same number.

`ModuleSelectProofs`, for any number of tasks and presses: the invariant is the conjunction of the
three properties' state predicates, where `NoPhantomPress` is strengthened to `PressUnanswered`: a
press that is still stored has not been answered either.

`WifiConnectProofs`, for each of the three programs: `WifiInv` adds to the properties

* `LoopsInside`: a wait has a second left, the loop over the list is inside it;
* `LastLinkTold`: the last change of the link that is in the queue is the last there was;
* `ListInv`: where the answer to the scan of this call is. With the service, in an
  event, or in the count and the flag: nothing else sets these while `astray` is false.

`NetworkProofs`:

* The phone: `CountInv` (each object comes from one call and each thread from one object, so that the bounds
  on both are never met by another way), `PhaseInv` (for a patient user the app is creating, subscribing or settled, and in
  each of these the queues hold only certain calls and answers), `NotMade` and `HeldInv` (a held
  connection is the one the ability refers to, and has a writer). Whether the ability has a connection (`Away`, `Writable`) is asked of
  `Held` and not of the writer, which a failed close leaves set. For this user `UnsubscribeClosesForPatient` is the
  comment that `phone_second_connect` refutes of others. `PhoneInNetwork` carries the theorems from
  `PhoneService` to the run's specification.
* The soft AP: `ServerInv`; a task that has bound the port is the only one, and its buffer holds what fits of the
  datagram of the client it is about to answer. `Echoed` says what is sent back of it, for texts of any length and buffers of any size
  (`FirstZero`, that a text has no zero or a first one, is from the well-foundedness of the numbers).
* The TCP client: `ClientInv`; as long as launches do not overlap there is one client, `sock_fd` is its descriptor, and a
  second `close` of it meets another's only if one was opened in between.

`NdefTagProofs` and `TutorialsProofs`:

* The tag: `TagInv`. What a clean call has written up to a page is laid out there (`Laid`), page by page, until the
  record is `Complete`; a separate lemma shows that `FirstRecord` reads a complete record back. `TagNumbers` says that lengths and
  pages stay in range, for the type of the whole.
* Adding a record: `AddInv` follows a clean call from place to place (`Stage`): what it read is the first page as it
  is, the header it writes differs by the end mark, and from then on the record is `Kept`, which only looks below `end + 2`,
  while all that is written differs from the tag from `end + 4` on (`EndPlace`). It needs `SafeInv`: the code takes
  a page with 208 at byte 2 for an erased tag and then writes over it, so no page may look like that to the code and hold a
  record for a phone (`Safe`). None that the code writes does, whole or half written: the rewritten header has no end
  mark, which 208 has; a long length puts 208 there only before a header that ends the message, and with a length
  beyond the tag; and text has neither byte of the pattern.
* The key-value tutorial: `KvInv`; a key holds its own value or none, and in each step of a sound run the buffer
  holds what was read last.
* The files: `FileInv`; one line per place of the task (`Progress`) for the one that is alone, and
  `HandlesKept` for all: every open handle is held by a running task or was left by one whose call failed.
* The sensor: the invariant `SensorInv` is the two properties and the shape of the variables; the work is in
  `ChecksumDetects`, for every word. `Syndrome` is the remainder of a message by the data sheet, bit by bit the parity of some of its
  positions (`TapTable`, from the recursive `Remainder`), and so linear under `Xor` (`SyndromeXor`). The code's sixteen
  steps compute it (`CrcByteBits`, `CheckCrcIsSyndrome`); a frame as sent has none (`FrameSyndrome`), an error within eight
  bits always has one (`WindowSyndrome`, one step per place). `FrameWord` puts the number together again from its bits.
* The count of stations: `CountInv`; the counter, plus the joins that are queued or in a task, minus the leaves that are queued or
  in the handler, is the number of stations (`Told`), and whoever is about to store has read the counter as it still is (`Fresh`).

`StartProofs`, for any lists, heap, texts and number of starts:

* `PackageInv`: `FramesOK` (the stack of each builder holds only functions of its own text), `Lacks` (what
  is missing is optional, or a function is on its way to `EXIT_MEM`) and `Accounts` (every allocated node is in one frame's tree,
  a text or a stray, and in no two of them, across both tasks).
* `StartInv` adds `TagPart` (the tag is written by one call, of this start's text; `TagInv` says what it has written) and
  `FaultPart` (a failed allocation or a missing interface is remembered from the moment it happens to the fault).

Assumptions beyond types and bounds above 0: the tag has at most 255 pages, since a block address is a byte; what is
stored has a length a `uint16_t` holds; task names differ from the value that stands for none; `JoinTasks` is
finite; and no text of the board has 248 bytes, the length at which `storeText` and `firstRecord` disagree
(the code's texts have over 300). TLC evaluates each of them in the runs.

Only model-checked: liveness (`DeadClientReleased`, `BacklogDrains`, `EventuallyConsistent`, `PressConsumed`, `LampObeys`,
`ConnectsInTime`, `PeerCloseNoticed`, `EchoAnswered`, `ClientEnds`), which is out of the prover's reach.

## 13. Not modelled

The UART tutorial: one task that writes and reads the serial port, with no state of the program
involved. Wording of the console output, the pins' electrical set-up (`hardware_init`, `E53_IA1_IO_Init`) and
cJSON, lwIP, LiteOS and the HarmonyOS runtime themselves; the last four are described by what the
code relies on. Of the server: the overrun of `strstr` past a completely filled `recvbuf`; of the
TCP client: that of the `printf` of what it received. Of
the reports: what their strings say, and how a stream cuts them on their way to the page, which parses each read
as one report (`index.js:111`; the one hazard without a property). Of the I2C bus: that the
tag's transfers and the report task's reads may meet on it, since the library that serialises them is external. Of the tag: the functions
without a caller (`NT3HEraseAllTag`, `NT3HReadSram`, the register reads).
