# A TLA+ model of vehicle-sim

vehicle-sim reads live data from a car through an ELM327 adapter over Bluetooth
LE (or from a built-in demo simulator), translates OBD2 answers and CAN frames
into vehicle signals, and shows them in a command line program and an iOS app.
This directory holds TLA+ modules that model its concurrent core, the TLC
configurations that check them, and TLAPS proofs.

Paths below are relative to the repository. `cpp` stands for
`src/ble/BLEManagerBase.cpp`, `h` for `include/vehicle-sim/ble/BLEManagerBase.h`,
`iOS.mm` for `src/ble/platform/BLEManageriOS.mm`, `Wrapper.mm` for
`vehicle-sim-ios/VehicleSim/VehicleSimWrapper.mm`.

## 1. Inventory

| Component | State | Operations | Interacts with | What is hard | What makes it correct |
|---|---|---|---|---|---|
| **BLEManagerBase** (`cpp`, `h`) | `connected_`, `polling_active_`, `polling_thread_`, the prompt gate (`prompt_mutex_`, `prompt_cv_`, `prompt_ready_`, `prompt_buffer_`), `can_mode_`, discovered devices, callbacks, detector | initializeELM327, initializeCANMonitor, start/stopOBD2Polling, start/stopCANMonitor, waitForPrompt, notifyPrompt, invokeDataCallback, setConnectionState, device list | called by the client thread; runs its own polling thread; called by the BLE queue; sends through the platform class | three threads on one condition variable; deadlines against late answers; lines cut by the radio; state left by a lost link | the thread handle is never overwritten; a stop returns; commands are paced by the prompt; nothing is read that was not sent |
| **BLEManageriOS / BLEManagerMacOS** (`src/ble/platform/*.mm`) | `connected_peripheral_`, the characteristic pointers, a `connected_` of its own that hides the one of the base class | scan, connect, disconnect, send, waitForCharacteristics; CoreBluetooth delegate callbacks | CoreBluetooth's serial queue against the client thread | asynchronous connection reported as made; pointers written outside the mutex; two flags in two writes; stale pointers | no lost wakeup; no forgotten link; every wait ends |
| **VehicleSimWrapper** and view model (`Wrapper.mm`, Swift) | `_mutex`, `_protocol`, `_isConnected`, `_isDemoMode`, signal values | connectToDevice, disconnect, startDemo, stopDemo, switchVehicleType | drives the two classes above one request at a time | requests that fail half way; a switch of vehicle under a running session | mode and protocol match; nothing is released under the polling thread; demo has no link; every request returns |
| **BLEManager facade** (`src/ble/BLEManager.cpp`) | the manager it owns | forwards | BLEManagerBase | - | as below it |
| **Command line program** (`src/main.cpp`, `src/cli/`) | `g_running`; the locals of `runConnect`: `dataReceived`, `lastActivity`, `noDataCount` | parseArgs, loading, simulate, scan, connect | BLEManager facade, DBC translation; its callback runs on the BLE queue | the callback works on `runConnect`'s locals; Ctrl+C and losses at any point | it warns of silence only when there is silence; it ends; the session's parts agree |
| **OBD2Transport, TeslaBLETransport** (`src/ble/`) | `connected_`, receive buffer, notification callback, three mutexes | connect, disconnect, readData, send, subscribe, unsubscribe, processIncomingData | BLEPlatform interface; "thread-safe" by contract | mutexes locked twice and in different orders, callbacks under locks; packets behind noise, corruption and losses | no deadlock; every answer or packet forwarded once, in order |
| **TeslaSignalParser** (`src/domain/`) | byte buffer | feedData, clearBuffer | fed with packets or with notifications | no header to resynchronise on | frames are found however the stream is cut |
| **EventDispatcher** (`src/domain/`) | consumer list, next token | registerConsumer, unregisterConsumer, dispatch, clear | consumers, which may call it back | callbacks outside the lock, on a copy of the list | a signal goes once to whoever was registered when it was dispatched |
| **VehicleDetector** (`src/domain/`) | frame history (50), counts per CAN identifier, OBD2 evidence, VIN and fuel type | observeFrame, feedVINResponse, feedFuelTypeResponse, getResult, reset | one behind invokeDataCallback, one in OBD2Protocol | evidence of two makes, misread frames, answers in any order | a named make is not exchanged for another |
| **OBD2Protocol** (`src/boundary/`) | its detector | initialize, detectVehicle, processIncomingData | detector | every answer with bytes counts as a part of the VIN | as VehicleDetector |
| **ELM327Transport** (`src/boundary/`) | none | command building, response and CAN frame parsing | used by all of the above | parts of lines, banners and errors | what is parsed is what was printed |
| **DBC translation** (`src/domain/DBC*.cpp`, VehicleSignalFactory) | parse result, translator, protocol, vehicle, accumulated frames | loadVehicle, loadVehicleWithContent, processFrame | data callback, wrapper | a load that fails; two callers in one translation | the reports describe the translator in use; the newest frame wins |
| **DBC file parser** (`src/domain/DBCFileParser.cpp`) | current message, definitions, value tables | parseFile, parseString | DBC translation | lines that are skipped, exceptions | a signal belongs to the message above it |
| **OBD2 and CAN translators, CANDecoder** (`src/domain/`) | last known values | translate | DBC translation, client | state accumulated over frames; bit extraction | each frame changes only its own signals, to their value |
| **CANSignalDecoderBase, VehicleConfig registry, VehicleSimulator, formatters, configuration files, time, mock** | tables, demo dynamics, text | - | - | none | unit tests suffice |

`PROJECT.json` lists the same components with their status, and under `hazards`
what a test of this code would hardly reach, each at its line and with the
properties that watch it.

## 2. What is modelled, and how

### PromptGate

The `'>'` gate of BLEManagerBase: one flag under one mutex, one condition
variable. `BeginWait` is the head of `waitForPrompt` (lock, clear the flag,
block), `WaitSucceeds`, `WaitAgain` and `WaitTimesOut` are the ways out of
`wait_for`; `SetReady` and `NotifyOne` are the two halves of `notifyPrompt`, for
`notify_one` runs after the mutex has been released, and it wakes any one of the
blocked waiters. `ScanNotification` is the scan of `invokeDataCallback`:
of a notification only the number of `'>'` matters, and of `prompt_buffer_` only
how many are left in it (the first is consumed, the others stay, and the buffer
is trimmed to `PromptBufferMax` of them).

### BLEManagerBase

Instantiates the gate for two waiters (client and polling thread) and two
notifiers (client and BLE queue). `op` is where the client thread is inside an
operation, `poll` where the polling thread is ("none": `polling_thread_` is not
joinable), `ble` where the BLE queue is in a handler, `queue` the notifications
it has still to deliver. `owed` counts the commands the adapter has not answered.

* `InitializeELM327 / SendInitCommand / EnterInitWait / FinishInitWait` are
  `initializeELM327` and `sendPromptDrivenSequence`, one command at a time; a
  timeout only logs, so the sequence goes on either way.
* `InitializeCANMonitor / SendCANCommand` pace by sleeping; the pause after the last
  command is followed by `EnterCANMode` (`can_mode_ = true`), and what the adapter
  prints during it is scanned for prompts as before.
* `StartOBD2Polling` has the early return on `polling_active_`; assigning to a
  joinable `std::thread` sets `terminated`, as the standard says.
* `StopOBD2Polling / StopSetReady / StopNotifyOne / Join` are the four steps of
  `stopOBD2Polling`.
* `PollSetup, PollCycle, PollNext, PollQuery, PollEnterWait, PollFinishWait,
  PollPause` are the polling thread: the sleep, the `while` test, the test in the
  `for` loop, the query, the wait, the pause.
* `ReceiveNotification / BleNotifyOne` are the BLE queue; `AdapterAnswers` is the
  adapter; `SetConnectionState` is called by the platform class, and in this
  module alone it may change the flag at any time.

### BLEPlatform

`connect`, `disconnect`, `waitForCharacteristics` on the client thread (`call`)
and the delegate callbacks on the queue (`ble`, `queue`). Both `connected_` flags
are there, each written in its own step. `link`, `discovering` and the scheduling
of callbacks stand for CoreBluetooth and the radio and are external: a pending
connection may fail, an established one may be lost (`LinkCanFail`), the
characteristics are reported in one callback or in two.

The client may go to a second device. `ConnectOther` overwrites
`connected_peripheral_` and leaves the connection it stood for as it is: `other` is
what CoreBluetooth keeps of the device before, whose callbacks come through the same
queue (`OtherDevice`), for no handler asks which device a callback is about.
`takes_turns`, chosen at the beginning, says of the client whether it goes to another
device only when it has disconnected and the loss of the first was reported.
`NoForgottenLink` is about such a client, the other properties about any.

A Bluetooth power-off
clears the same two flags as `didDisconnectPeripheral` and is the same event
here. The iOS class is modelled; the macOS class has the same handlers, and runs
`onCharacteristicDiscovered` once more when a subscription is confirmed, which
writes the same pointers again.

### VehicleSession

`VehicleSimWrapper` on top of both (`Base == INSTANCE BLEManagerBase`,
`Platform == INSTANCE BLEPlatform`; `connected`, `ble` and `queue` are shared). The
wrapper disconnects before it connects; the session has one adapter, and the platform's
`other` device stays away.
The wrapper holds `_mutex` for the whole of a request, so one request runs at a
time: `app` is its next step and `goal` the request. Teardown before a new
connection and before the demo stops both modes, `disconnect()` stops only the
one `_protocol` names. A configuration that does not load and a device that is
not found end the request at once; characteristics that do not come end it after
a `disconnect()`. `initializeELM327` and `initializeCANMonitor` always return
true in the source, so their error branch cannot be taken and is absent.
`ByPlatform` empties `owed` when the link is down: what a lost adapter owed
never arrives.

### Transport and AnswerDelivery

`Transport` is OBD2Transport at the level of its three mutexes (state, buffer,
callback). `at[t]` is where a thread is inside a call, `ble` where the platform's
thread is in `processIncomingData`; that thread has an `at` as well, for the
subscriber's callback runs on it and may call the transport. A section under one
mutex is one step; where a section takes a second mutex there is a location in
between, and `HoldsState`, `HoldsBuffer` and `HoldsCallback` read the owner of a
mutex off the locations. A mutex is not recursive: its owner blocks on it too.

* `Connect`, `Disconnect / ClearBuffer / ClearCallback`, `IsConnectedOrSend`,
  `ReadData`, `SubscribeToNotifications` and `Unsubscribe` are the calls. `ReadData`
  with bytes in the buffer goes on to `readExtract`, which waits for the mutex it
  holds.
* `ReceiveData`, `Insert`, `EnterExtract`, `CutResponse` or `NoPromptYet`,
  `ForwardResponse` and `CallbackReturns` are `processIncomingData`: the chunk is
  appended under the buffer mutex, which is released and taken again for the loop
  of `extractCleanResponses`; that one cuts at each prompt, removes the trailing
  carriage returns, and calls the callback with both mutexes held.

Bytes are tokens: a prompt, a carriage return, or a piece of text. The adapter
sends the fixed `Stream`, cut into chunks of any of the `ChunkSizes`.

`mute` is a history variable: it becomes true when `unsubscribe` or a `disconnect` that
had a connection to end returns and nobody is inside `subscribeToNotifications`, and false
when somebody calls that. A `disconnect` that finds `connected_` false
returns early and clears nothing; for `mute` it is no call.

`AnswerDelivery` is what such a transport promises its subscriber: the stream is
cut at the prompts, and each answer goes whole, once and in order to whoever is
subscribed when its turn comes. It has no buffer, mutex or chunk. `DeliversAnswers`
says that the transport implements it, with `taken` as the tokens sent but in
neither chunk, buffer nor the response being forwarded. It is stated for runs
without `disconnect`: bytes received but not yet appended when a disconnect clears
the buffer become part of the next response.

### EventDispatcher and SignalFanout

Threads register, unregister, clear and dispatch. What the code does under
`consumersMutex_` is one step; `dispatch` copies the list under it and calls the
consumers without it. `calls[t]` is the stack of a thread's dispatches: a callback
that dispatches pushes another frame, and a callback may also register, unregister
(itself or others) or clear. A frame holds what is left of its copy; entries that
were inactive in the copy and empty functions are passed over.

`SignalFanout` is the promise without list, copies and threads: publishing a signal
owes it to the members of that moment, and serving takes one pair off what is owed.
`FansOut` is the refinement, with `Owed` computed from all frames of all threads.

### TeslaBLETransport, TeslaSignalParser and TeslaPipeline

`TeslaBLETransport` is the packet reassembly (its calls and locks are those of
module Transport), `TeslaSignalParser` the frame parser, and `TeslaPipeline` the two
connected as MVP_VERIFICATION.md describes, or the parser fed with notifications
directly, as its tests do. The scanner sends the pieces of a conversation (packets,
packets with a wrong checksum, noise), the radio cuts them into notifications of any
of the `ChunkSizes`, and the link may go in the middle of a piece.

`processing` is where the platform's thread is in `processIncomingData`: about to insert
the data (`ProcessIncomingData`, `Insert`), between the two sections under the buffer's
mutex, or inside the loop. A step is one round of a loop: `ExtractPacket` and `CutFrame`
take one packet or frame out of the buffer, `FinishExtracting` and `FinishFeeding` are the
ways out. The buffer's mutex, or the parser's, is held from the first round to the last
(`processing = "scan"`, `feeding`). `disconnect()` is two steps, `ClearReceiveBuffer` under
that mutex and `ClearCallback`; the first may come whenever the loop does not hold the
mutex, also between the arrival of data and their insertion. `straddled` records that this
has happened, `cut` the pieces of which a loss took a part, on the way or in the buffer.

### ELM327Transport, VehicleDetector, DataPath and Program

`ELM327Transport` holds the two parsers as operators on the text of a notification,
character by character, because what a cut line is read as is the question.
`VehicleDetector` holds the methods of the detector as operators on a record;
`stateMutex_` makes each one step.

`DataPath` is the half of `invokeDataCallback` behind the prompt scan: `Parse` reads
`can_mode_` (a second time), parses and drops what means nothing, `Observe` shows the
bytes to the detector, then the client's callback runs. The adapter prints a line of
`Lines`; it comes in one notification or, cut at one of the `Cuts`, in two. Meanwhile
the client thread changes the mode. A notification carries, beside what either parser
makes of it, what the line means (`means`) and whether it is a whole line that was
printed when the program was ready for it (`due`).

`Program` is `main.cpp` on top of it, through the facade: `pc` is where the main
thread is, one action per statement that another thread could come between.
`CheckData` tests `dataReceived`; what follows, the reset (`ClearData`) or the count and
the warning (`WarnOfNoData`), is a step of its own, because the callback may set the flag
between them. `quiet` counts the half seconds since `lastActivity`, `silent` those
since the callback really ran, and `tested` is `silent` as it was at the test.
`PollingEnds` is the polling thread that sees the loss of the link. `Callback` after `runConnect` has returned may end the
process, for the variables it refers to are gone. With the client "detect" the main
thread is the client that the header of OBD2Protocol shows.

### CANDecoder, DBCFileParser, SignalTranslators and DBCTranslationService

`CANDecoder` extracts and scales bits, `DBCFileParser` folds the parser's state over
lines (a line is a record of what its text gives), `SignalTranslators` has the five
translators as records with their last values or accumulated frames, and
`DBCTranslationService` loads and translates. A DBC-driven translation is two steps,
`StoreFrame` and `BuildSignal`, as the code releases the mutex between them; the
order in which an `unordered_map` is walked through is any. Physical values are in
thousandths, cut where the code has floating point. A load replaces `parseResult`, which
the translator in use refers to, whether it then succeeds or not; `content` is the file
that the translator in use was made from.

## 3. Runs

| Run | What it shows |
|---|---|
| `manager` | BLEManagerBase under the most general client. The handle of the polling thread is never overwritten while joinable (`NeverTerminates`), `polling_active_` says whether there is a thread to join (`HandleMatchesFlag`), `stopOBD2Polling` returns whatever the adapter does (`StopReturns`), and after a loss for good the polling thread ends by itself (`OrphanExits`). |
| `platform` | BLEPlatform with two devices and links that may fail at any time. No wakeup is lost to the pointers written outside the mutex (`NoLostCharacteristic`), the wait ends (`WaitEnds`), and when the client takes turns the program knows of every link it holds (`NoForgottenLink`). |
| `session_steady` | The session while the link holds and the adapter answers within the prompt timeout. Commands are sent one at a time (`Paced`), no prompt is missed by a blocked thread although the flag is up (`NoLostWakeup`), an established session is in the mode of its protocol (`ModeMatches`), the peripheral changes only after the polling thread has ended (`ReleasedAfterPolling`), an OBD2 connection polls (`PollingStarts`), the demo has no link (`DemoHasNoLink`). |
| `session_lossy` | The session with a failing link, a silent adapter and vehicle switches. `NeverTerminates`, `HandleMatchesFlag` and `NoForgottenLink` hold for the composition, and every request returns (`RequestsReturn`). |
| `transport_delivery` | Two application threads that connect, read, subscribe and unsubscribe, and a callback that sends. The lock-level transport implements `AnswerDelivery` (`DeliversAnswers`). |
| `transport_calls` | Two application threads with every call but `readData` and `isConnected`, over a link that may go and come back, and a callback that makes no calls. When `unsubscribe`, or a `disconnect` that had a connection to end, has returned, the callback neither runs nor starts until somebody subscribes, whatever chunks are still on their way (`Silence`); no token is delivered twice or out of order (`NoRepeat`); every call returns and every chunk is processed (`NothingHangs`). |
| `dispatch` | Two threads that register, unregister, clear and dispatch, from their own code and from inside callbacks. The dispatcher implements `SignalFanout` (`FansOut`), and every dispatch ends when its callbacks return (`DispatchEnds`). |
| `tesla` | Packets, corrupted packets and noise, cut into notifications in every way, with two losses of the link at any moment. As long as no disconnect falls between the arrival of data and their insertion, each good packet that no loss hit is delivered whole, in order and once; corruption and losses cost no other packet, and noise only such whose first header byte was the last byte of a notification (`LossIsLocal`). The parser behind the transport stays in step with it (`StaysAligned`); fed with notifications it finds every valid frame, as long as there is no noise (`FindsFrames`). |
| `program` | The command line program with every kind of options, over an adapter that prints frames, answers, banners and errors, cut or whole. A whole line that is printed after the initialisation is read in the mode it was printed for, and reaches detector and callback as printed (`DeliveredAsPrinted`), a detector does not exchange a make it has named (`DetectionStable`), a warning comes only when there was real silence as the loop tested the flag (`WarnsOnSilence`), and after Ctrl+C or a loss the program ends (`Ends`). |
| `translation` | The service loaded and reloaded with files good and bad, and every translator, under two callers. What the service reports describes the translator in use (`ReportsAgree`), which has the newest frame of each message it was fed with and no others (`TypeOK`); each field of a signal is in the range that VehicleSignal keeps and is the value that the newest frame having it gives, computed by whole-byte arithmetic instead of bit by bit; with a DBC file that lists a signal in two messages, the newest frame of either (`LatestWins`). |

Two runs expect a violation: each refutes what a comment of the code says, and
`PROJECT.json` quotes it under `findings`.

| Run | The behaviour |
|---|---|
| `session_polling` | After a loss `polling_active_` is still set (`cpp:134`), and the next OBD2 connection starts no thread. |
| `dbc_owner` | A `BO_` line with an identifier beyond 16 bits is skipped, and its signals are filed under the message before (`src/domain/DBCFileParser.cpp:256`). |

The code also behaves in the following ways, which no run of the project expects. Where
TLC finds one when a run is changed, the change is named.

In the session:

* A `'>'` handled between `send()` and `waitForPrompt` is erased (`cpp:191`); the
  thread waits out its timeout.
* With an adapter slower than the prompt timeout the sequence of `initializeELM327`
  sends its next command although the one before is unanswered (`cpp:66`), and the late
  prompt then ends the wait of that one: the sequence stays one command ahead.
  (`session_steady` with `OnTime = FALSE`: `Paced` fails.)
* After the loss of a CAN session `can_mode_` is still set (`cpp:300`), and the next
  OBD2 session does not look for prompts. (`LinkCanFail = TRUE`: `ModeMatches` fails.)
* `disconnect()` stops the mode that `_protocol` names (`Wrapper.mm:321`). When
  `switchVehicleType` has changed it, the polling thread goes on while the peripheral is
  cleared. (`session_steady` with "switch" among the `Requests`: `ReleasedAfterPolling`
  fails.) Also, it replaces the translator while the BLE queue may be inside it
  (`Wrapper.mm:425`).
* `connect()` to a second device overwrites `connected_peripheral_` without cancelling the
  connection it stands for (`iOS.mm:311`): after `disconnect()` the first device is
  still connected, `isConnected()` is false and no callback is pending; and a late
  `didDisconnect` of one clears the flags of the other. (`platform` without `takes_turns`
  in `NoForgottenLink`.)
* After a loss the characteristic pointers are still set (`iOS.mm:399`), and
  `waitForCharacteristics` says yes (`iOS.mm:500`) for a pending connection.
* `connect()` and `didFailToConnect` may interleave between their two writes
  (`iOS.mm:318`) and leave the two `connected_` flags different.

In the transports and parsers:

* `readData` with bytes in the buffer locks `buffer_mutex_` twice
  (`src/ble/OBD2Transport.cpp:64`, `:107`). (`transport_calls` with "readData" among the
  `Calls`: `NothingHangs` fails.)
* A callback that sends waits for `state_mutex_`, whose owner, in `disconnect`, waits for
  the buffer mutex the callback runs under (`:140`, `:42`). (`transport_calls` with "send"
  among the `CallbackCalls`: `NothingHangs` fails.)
* `disconnect` returns early when `connected_` is false (`:34`), and clears nothing. A
  subscription made since the disconnect before stays in force, and a chunk that is still
  on its way reaches it after the second disconnect has returned.
* Bytes that the platform's thread received before `disconnect` cleared the buffer
  are appended afterwards (`:43`), and begin the first response of the next connection:
  half an answer of the one is glued to an answer of the other.
* It is the same in TeslaBLETransport (`src/ble/TeslaBLETransport.cpp:103`), where the
  comment at line 41 says "Clear receive buffer on disconnect". What was appended is read as
  the beginning of a packet and takes packets of the next connection along: after AA 55
  from the old connection the third byte, a length, is AA of the new one, and what 174 bytes
  hold is discarded for its checksum. (`tesla` without `~straddled` in `LossIsLocal`.)
* `OBD2Transport::connected_` stays set when the link goes by itself, so the next
  `connect` returns true without asking the platform (`:23`).
* A first header byte at the end of a notification, behind noise, is dropped with the
  noise (`src/ble/TeslaBLETransport.cpp:158`).
* TeslaSignalParser calls its callback under `m_mutex`
  (`src/domain/TeslaSignalParser.cpp:73`): a callback that feeds or clears it blocks.

In the command line program, the detector and the dispatcher:

* A line that comes in two notifications is parsed twice (`cpp:320`), although the comment
  at `cpp:298` knows that BLE notifications may fragment a response. The rest of
  "118 00 11 22 ...", cut after its first character, is read as a frame with the identifier
  018; that of "603 100 01 ...", cut inside its second number, as one with the identifier 0.
  Nobody sent either. `DeliveredAsPrinted` is about whole lines for that reason.
* `disconnect()` does not wait for the BLE queue, so that a callback under way when
  `runConnect` returns uses variables that are gone (`src/main.cpp:127`).
* The callback may run between the test of `dataReceived` and the warning
  (`src/main.cpp:227`, `:231`): the warning is then printed although data have just come.
* The hint about the drive mode comes after about seven seconds, not after the
  fifteen of its comment (`src/main.cpp:34`): after the first warning the counter goes
  on every half second.
* The banner "ELM327 v1.5" holds hex digits, is read as bytes and counts as evidence
  for OBD2; an answer of ten bytes counts as a CAN frame
  (`src/domain/VehicleDetector.cpp:27`).
* A fuel type answer is taken for a part of the VIN (`src/boundary/OBD2Protocol.cpp:22`).
* Consumers that unregister stay in the list, inactive, until `clear`
  (`src/domain/EventDispatcher.cpp:41`).

In the translation:

* A load that fails has already replaced `parseResult_`
  (`src/domain/DBCTranslationService.cpp:38`): the translator in use refers to it and
  from then on reports zeroes, although `DBCSignalTranslator.h:24` promises its
  accumulated state. (`translation` with `ParseFile(content # <<>>, content)` for
  `parseResult` in `LatestWins`, which is what the translator was made with.)
* When two messages of a DBC file list the same signal, the order of an `unordered_map`
  decides whose value is reported, be it the older one
  (`src/domain/DBCSignalTranslator.cpp:23`).
* A range `[0|0]`, which DBC files use for "no range", makes every value 0
  (`src/domain/DBCSignalMapper.cpp:25`).
* A pressed pedal sets the brake to at least 50 %, and on a Tesla nothing lowers it
  again (`src/domain/CANTranslatorBase.cpp:64`); `LatestWins` sets that field apart.
* A signed signal of length 0 shifts by a negative number (`src/domain/CANDecoder.cpp:62`).

The properties of the steady run are false where its assumptions are. Section 4 says
which of them needs which. `NoLostWakeup` needs one waiter at a time: with both
threads blocked, `notify_one` may wake either. The steady session never has two, for
the client initialises only when no polling thread runs.

Each property has a mutant in `PROJECT.json`: a faulty variant of one mapped
definition, written beside it in the module ("Faulty variant: ..."), under which
the property fails. The variants are used by nothing else.

### Bounds

* `NumInit`, `NumCanInit`, `NumPids` are 7, 5 and 6 in the code. Two or three are
  enough to have a first, a middle and a last command, and the theorems hold for
  every number.
* `Notifications` are the numbers of `'>'` one notification may hold: 0 is a
  fragment, 2 a coalesced pair. An adapter that answers on time answers each
  command by itself, hence {0, 1} in the steady run.
* `PromptBufferMax` is 256 in the code and reachable only with that many
  unanswered prompts; 0 and 1 make the trimming happen.
* `AdapterBuffer` (commands the adapter keeps unanswered) and `MaxQueue`
  (callbacks scheduled ahead) bound the environment. In the steady run they are
  never reached by what the program sends; in the other runs a full buffer drops
  the command, which a silent adapter makes possible anyway.
* `platform`: two devices, which `connect` may exchange again and again, and three
  scheduled callbacks: enough for a loss of each device and a connection behind them.
* `OnTime = TRUE` lets a wait time out only when nothing that could still end it
  is under way; `FALSE` lets it time out at any moment.
* `LongStream` has an answer, one without content, one of two texts and the
  beginning of a fourth; `ShortStream` two texts, an empty answer and another. With
  chunks of one, several and nearly all tokens they are cut inside an answer,
  between answers and across several. Three calls per thread (`MaxCalls`) suffice
  to connect, subscribe and undo either while the other thread does the same.
* `Requests` are the requests a run makes. The steady run leaves out vehicle
  switches, the lossy run the demo, whose teardown is that of `connect`.
* `dispatch`: three consumers, the second with an empty function, three signals and
  two nested dispatches, so that the innermost callback can unregister the consumers
  before, at and behind itself in either frame; the theorems hold for any number.
* `tesla`: `Conversations` put corruption, noise and a payload that looks like half a
  header before, between and behind packets; `ChunkSizes` from one byte to more than a
  packet cut them everywhere; until losses have hit two pieces (`MaxLosses`) the
  link may go again, so that there is a connection behind two of them.
* `program`: `MaxFrameHistory` is 2 for 50 and `NoDataWarning` 1 for 5, with `Quiet`
  the half seconds that are counted beyond it; both are passed in every kind of
  session. `Cuts` cut a line inside its identifier and at the 20 bytes of a BLE
  notification. Two lines make evidence of one kind or two, three answers a VIN that is
  continued. The theorems hold for every value.
* `translation`: two callers and three frames (`MaxFed`) let a second frame of either
  caller come between the two halves of a translation; two loads make a success
  followed by a failure and the reverse. Signals have at most 16 bits, for TLC's
  integers end at 31.

### Fairness

Weak fairness on the client thread's own steps, on the polling thread and on the
BLE queue: they are threads the operating system schedules, and each of their
waits and sleeps has a deadline. Nothing is assumed of the user, the adapter and
the radio. There is no fairness on `Rewait`, a woken waiter that finds the flag
down: it blocks again and its deadline is that of the wait it belongs to.

In `Transport` each thread inside a call and the platform's thread inside
`processIncomingData` are weakly fair, and the callback returns when it makes no
calls. No mutex is fair: a thread may be overtaken, but every thread makes finitely
many calls, so that overtaking ends. Nothing makes the application call or the
adapter send.

In `EventDispatcher` a thread inside `dispatch` is weakly fair, its callbacks' return
included; no thread need ever register or dispatch. In `Program` the main thread and
the BLE queue are weakly fair; Ctrl+C, the adapter and the link do what they like.

`CHECK_DEADLOCK FALSE` stands where the system may stop: the program has ended, the
bounded calls of the transport are made, the conversation is over, or the bound on
loads and frames is reached.

## 4. Proofs

`BLEManagerBaseProofs` proves, from `CountsAssumption` alone (the constants are
numbers, at least one command and PID):

* `TypeCorrect`: `Spec => []TypeOK`. `GateTypes` treats every step of the gate
  once, and the actions cite it.
* `StartIsSafe`: `Spec => []NeverTerminates`, and `FlagTellsHandle`:
  `Spec => []HandleMatchesFlag`. Neither is inductive. `NeverTerminates` needs to
  know that a cleared flag means a free handle, which is `HandleMatchesFlag`;
  that one is broken inside `stopOBD2Polling`, between clearing the flag and
  joining, so it is stated outside it, and `FlagClearedWhileStopping` carries the
  missing half over the join. `HandleInv` is the conjunction of the three.

`BLEPlatformProofs` proves for every `MaxQueue`, with or without failing links:

* `PlatformTypeCorrect`: `Spec => []TypeOK`.
* `NoCharacteristicIsLost`: `Spec => []NoLostCharacteristic`, inductive by itself.
* `NoLinkIsForgotten`: `Spec => []NoForgottenLink`. The invariant is
  `takes_turns => LinkInv`: nothing is left of the other device (`OneDevice`), a
  link that is not down belongs to `connected_peripheral_`, and a link that is up
  is announced, either because `isConnected()` is true and no loss is pending, or
  because a `didConnect` is pending behind every pending loss. Three lemmas say
  what taking the head of the queue and appending to it do to "no loss after j".
  That the client takes turns is needed: without it the second device of section 3 is
  a counterexample.

`VehicleSessionProofs` is about the composition, from `SessionAssumption` (the
manager's `CountsAssumption`):

* `SessionNeverTerminates` and `SessionFlagTellsHandle` carry the handle invariant
  over, as `HandleSafe`. The wrapper and the platform class leave the handle alone, and
  the manager's operations preserve it from whatever state the wrapper starts them in;
  the invariant says nothing of the link, so no assumption on it is needed.
* `SessionTypeCorrect`: `Spec => []TypeOK`. The type invariant is split by owner
  (manager, shared, platform class, wrapper, `owed`), so that each step is treated
  with what it can disturb; the queue now carries the callbacks of both.
* `SessionForgetsNoLink`: `Spec => []NoForgottenLink`. `LinkInv` again, over a queue
  with notifications in it, which neither announce nor lose a link.

Its second part is about the session of `session_steady`, for every number of commands
and PIDs, every bound on buffers and queue, every choice of requests but those named
here. The hypotheses are on constants:

* `Steady`: discovery and the adapter answer before the program gives up on them, and
  an established link does not go by itself. Attempts to connect may still fail, and
  callbacks may be handled arbitrarily late, also those of a connection that is over.
* `NoSwitch`: the vehicle type is not switched during a connection.
* `OneByOne`: a notification completes at most one answer.

| Theorem | Property | Assumes |
|---|---|---|
| `SessionDemoHasNoLink` | `DemoHasNoLink` | `Steady` |
| `SessionLosesNoWakeup` | `NoLostWakeup` | `Steady`, `NoSwitch` |
| `SessionModeMatches` | `ModeMatches` | `Steady`, `NoSwitch` |
| `SessionReleasesAfterPolling` | `ReleasedAfterPolling` | `Steady`, `NoSwitch` |
| `SessionPollingStarts` | `PollingStarts` | `Steady`, `NoSwitch` |
| `SessionIsPaced` | `Paced` | `Steady`, `NoSwitch`, `OneByOne` |

None of these properties is inductive, and none can be strengthened by itself: whether
a gate is open depends on what the adapter owes, that on whether the link is new, and
that on callbacks of the link before. The invariant has three layers:

* `Life` says where a connection is. `Phases` reads the state of the link off the
  wrapper's step and the platform call; `Fresh` says that nothing of an earlier
  connection but its end is left: no `didConnect` behind a discovered characteristic,
  no characteristic reported twice. It rests on `LinkInv` and on nothing about the
  manager, so that `DemoHasNoLink` follows from it with vehicle switches allowed.
* `InPlace` says what the manager's threads may do meanwhile: a polling thread exists
  only in an established OBD2 session or while it is being stopped, `can_mode_` is set
  only between `start` and `drop`, and the client waits at the gate only inside
  `initializeELM327`. So there is one waiter at a time and `NoLostWakeup` becomes
  inductive. `Ready` is `Life`, `HandleSafe` and `InPlace`.
* `Exchange` says what the adapter owes: notifications of an earlier connection are
  ahead of the `didConnect` of the new one (`StaleFirst`), while somebody talks at most
  one command is open and its prompt is in the last notification (`OneAnswer`), and a
  thread that is about to send, or whose gate is open, has its answer (`Answered`).
  `Orderly` is `Ready` and `Exchange`.

Each layer was an invariant of the steady instance in TLC before its proof was begun.
The hypotheses are needed. With the constants of `session_steady` and one hypothesis
dropped, TLC finds counterexamples:

| Dropped | Violated |
|---|---|
| an adapter in time | `ModeMatches`, `DemoHasNoLink`, `Paced` |
| a link that holds | `NoLostWakeup`, `ModeMatches`, `Paced`, `ReleasedAfterPolling`, `PollingStarts` |
| `NoSwitch` | `NoLostWakeup`, `ModeMatches`, `Paced`, `ReleasedAfterPolling`, `PollingStarts` |
| `OneByOne` | `Paced` |

The last one is the coalesced pair of prompts of `cpp:302`: the second stays in
`prompt_buffer_` and opens the next gate too early. A loss also falsifies
`DemoHasNoLink`, on longer queues than that instance has: a `didDisconnect` of the link
before clears the flags of the new one.

`TransportProofs` proves for every number of threads, every
stream, every chunking and every choice of calls, from `TransportAssumption`:

* `TransportTypeCorrect`: `Spec => []TypeOK`. That no response is empty or ends in a
  carriage return needs `ResponseCut`: what has been cut holds no prompt, and has
  text when it is to be forwarded.
* `CallbackIsSilenced`: `Spec => []Silence`. `RunsWhileSet` (the callback runs only while it is set) and
  `MuteMeansCleared` (where the callers may count on silence nothing is set and no
  subscription is under way) make it inductive. A callback that runs holds
  `callback_mutex_`, so that neither call returns before it has ended.
* `TransportNeverRepeats`: `Spec => []NoRepeat`, for a stream whose texts are
  `Numbered`, over links that are lost, disconnected and made again. The invariant is
  `OrderInv`: delivered answers, response, buffer, chunk and what the adapter has still
  to send are each in order, and each is ahead of all that come after it. They need not
  be adjacent, for a loss or a cleared buffer leaves a gap. It holds in the whole run
  `transport_calls`.
* `TransportDelivers`: `NoDisconnect` implies `Spec => DeliversAnswers`. The invariant
  is `InOrder` (response, buffer and chunk, joined, are the stream from `taken` to
  `sent`) with `Undisturbed` (nobody is inside `disconnect`, and bytes have been sent
  only since `connected_` is set). `CutResponse` of an answer without text and
  `ForwardResponse` map to `Take`, the calls that set or clear the callback to
  `Subscribe`, everything else to a stutter. Without `NoDisconnect` the theorem would
  be false, as said above.

`EventDispatcherProofs` proves for every number of threads, consumers, signals and
nested dispatches, from `DispatcherAssumption`:

* `TypesAndTokens`: `Spec => []TypeOK`, and with it that a token names at most one
  entry of the list.
* `FansOutHolds`: `Spec => FansOut`. The invariant `Inv` adds to the types that the
  entries left in a frame have distinct tokens below `nextToken` (`FramesOK`), that a
  signal has one frame (`OneFrame`), and that a pair which has been heard is no longer
  owed (`HeardOnce`). `Dispatch` maps to `Publish`, `CallConsumer` to `Serve` or, for an
  entry that is inactive in the copy, to a stutter, and the list's steps to
  `Register`, `Leave` and `LeaveAll`, for they change no copy.

`ProgramProofs` proves for every set of lines, every cutting, every command line and
every bound, from `ProgramAssumption`, `LinesAssumption` and `DetectorAssumption`:

* `NoEarlyWarning`: `Spec => WarnsOnSilence`. `ClocksOK` is the invariant: while the
  flag is down `quiet` is not ahead of `silent`, it is 0 when the flag is about to
  be cleared, and not ahead of `tested` when the loop is about to count and to warn. It is
  the order of the two assignments that makes it true: a callback that comes between test
  and reset loses its flag, not its time. One that comes between test and warning is too
  late to stop it; the silence meant is that at the test.
* `NamedMakeStays`: `Spec => DetectionStable`. `DetectorsOK`: the detector behind the
  callback never has a VIN, the one of OBD2Protocol sees only answers. The makes seen
  only grow, a single one is kept or becomes a conflict; a VIN keeps its first three
  characters.
* `PartsAgree`: `Spec => []TypeOK`, by `SessionOK`, what holds before, in and after
  the loop.
* `LinesAreDelivered`: `WholeLinesRead => (Spec => []DeliveredAsPrinted)`. The hypothesis
  is about the two parsers as functions: a whole line reads as printed in the mode it is
  printed for. The property is about the running program: the line is parsed in whatever
  mode `can_mode_` gives when its turn comes, which is read again for the parsing, and
  the main thread connects, initialises and stops meanwhile. `PathInv` says that the mode
  is that of the vehicle from the end of the initialisation to the end of the loop (by
  `SessionOK`), that nothing is `due` before, and that what is due reads as printed in that
  mode (`Due`), before the parsing and behind it. Lines that are cut have no such theorem:
  section 3 says what becomes of them.

`DBCTranslationServiceProofs` proves for every registry, file and number of callers:

* `ReportsAreTrue`: `Spec => []ReportsAgree`. `TranslatorOK` (a translator is a record,
  and one that the service made is of the kinds it makes) lets the translating steps,
  which change the translator, leave its kind and vehicle alone.
* `FramesAreItsOwn`: `Spec => []TypeOK`. The part that is not a mere type is that the
  translator in use has a frame of exactly the messages it was fed with, and of each the
  newest (`KeepsNewest`), whichever threads brought them and whoever was between its two
  halves; `TypeInv` adds that what has been fed is a sequence. It is the half of
  `LatestWins` that is about state; the other half is arithmetic on bits.

`TeslaPipelineProofs` proves for every conversation, every way to cut it into
notifications and every number of losses, from `PipelineAssumption` (a conversation is
bytes and the increasing numbers of those that end a piece):

* `OnlyAFragmentStays`: `Spec => []TypeOK`, noise included. Between two notifications
  the transport's buffer has less than four bytes or begins with a header and is shorter
  than its packet (`NoiseGoes`), so that it is bounded by the longest packet.
* `ParserStaysAligned`: `Spec => []StaysAligned`, noise included. `AlignInv`: all packets
  given to the subscriber are valid, and the parser's buffer is empty or, while it is
  feeding, is the last of them as a whole. What the transport checks (length byte plus
  four, sum of all bytes but the last) is what makes it one frame of the parser; a
  packet of more than eight data bytes is cut out and gives no signal.
* `LossesStayLocal`: `Spec => [](NoNoise => LossIsLocal)`, and `PartialFramesAreFound`:
  `Spec => []FindsFrames`. Both rest on `Holds`: there is a `k` such that a buffer is what
  has come since the end of piece `k`, and no piece after `k` was hit by a loss. For the
  parser it is its own buffer (`FrameInv`), for the transport the one with the data behind
  it that are about to be inserted (`Pending`), as long as no disconnect has come between
  the two (`~straddled`, `DeliverInv`). `NextPiece` says that a complete packet at the
  front of such a buffer is piece `k + 1`, right checksum or wrong, and that cutting it out
  leaves a buffer of `k + 1`; `Settled` that an incomplete one means that piece `k + 1` has
  not come as a whole; `LossCuts` that the pieces a loss hits are those from `k + 1` to the
  one where sending stopped, behind which the scanner goes on. `EnumerateOneMore` adds the
  packet or the signal at the end of what has been delivered.

`NoNoise` is needed: noise may itself hold a header or hide one, and what the packets
behind it then become depends on its bytes. With noise `LossIsLocal` is a property of the
conversations of the run, checked by TLC; its stated exception is one such case.

Only model-checked, and why:

* The liveness properties: fairness and ENABLED are out of the prover's reach.
* `WholeLinesRead`, the hypothesis of `LinesAreDelivered`, and `LatestWins`: they are
  about what parsers and folds compute for every input. That takes induction over lines,
  frames and sets of signals, which the provers cannot instantiate.
* `LossIsLocal` where there is noise, as said above.

## 5. Not modelled

* Scanning, the list of discovered devices and its callback, `waitForBluetoothReady`.
  Whether `connect` finds its device is a choice in the models. `BLEPlatform` tells two
  devices apart; the session, whose wrapper disconnects before it connects, has one.
* Destruction of the manager, the wrapper and the transports. A wrapper that goes
  away after a loss destroys a joinable thread (`Wrapper.mm:182`); `PROJECT.json` lists
  this under the hazards.
* The assignment of `data_callback_` (`cpp:47`) under a running BLE queue: a data race
  on a `std::function`, without outcomes to enumerate.
* CANSignalDecoderBase, from which no class of the program derives; the VehicleConfig
  registry, a static table that is a constant here; the mock.
* VehicleSimulator (floating-point dynamics), formatters, configuration files, time
  and printed text.
* `feedFuelTypeResponse`, which no answer reaches through OBD2Protocol, and `reset()` and
  `getSupportedCANIds` of the translators, which the program does not call. The CAN
  translators have no mutex and are modelled for one caller at a time.
* The SwiftUI views and the wrapper's signal getters.
* Real time: a deadline may pass at any moment, or, with `OnTime`, only when nothing is
  under way; the 500 ms and 50 ms pauses have no length, but for the half seconds of
  `runConnect`. An early (spurious) wakeup re-tests the predicate and changes nothing.

## 6. Plan

Done: the modules of section 2, in the order in which they stand there, and the proofs
of section 4. What is left:

1. Proofs: what of the steady session survives a loss, once the flags that a loss
   leaves behind are told apart from those of the new link; which noise `LossIsLocal`
   tolerates; the lemmas of the translation that need no induction.
2. The discovered-device list with its mutex and callback, and object destruction.
3. The data path inside the session, with `switchVehicleType` replacing the translator
   under the BLE queue.

The runs are kept to a dozen: a new question takes the place of one that is answered
elsewhere.
