---------------------------- MODULE VehicleSession ----------------------------
(***************************************************************************)
(* VehicleSimWrapper (iOS) on top of the BLE manager: what the user's      *)
(* connect, disconnect, demo and vehicle-switch requests do to             *)
(* BLEManagerBase and BLEManageriOS, while the polling thread, the BLE     *)
(* queue, the radio and the adapter run.                                   *)
(*                                                                         *)
(* The wrapper holds _mutex for the whole of a request, so that requests   *)
(* run one at a time on one client thread.  `app` is the next thing the    *)
(* request does; it does it when the manager operation before has          *)
(* returned (op and call are "idle").  Bound: the user has one adapter,    *)
(* and the platform's other device stays away.                             *)
(***************************************************************************)
EXTENDS Naturals, Sequences

CONSTANTS
    NumInit, NumCanInit, NumPids, Notifications, PromptBufferMax,
    AdapterBuffer, MaxQueue, OnTime, LinkCanFail,
    Requests   \* the requests the user makes

ASSUME RequestsAssumption ==
    Requests \subseteq {"connect", "disconnect", "startDemo", "stopDemo", "switch"}

VARIABLES
    prompt_ready, waiting, notifying, prompt_buffer,
    connected, polling_active, poll, pid, can_mode, op, cmd, ble, queue, owed,
    terminated,
    peripheral, characteristics, platform_connected, call, link, discovering,
    app,           \* what the wrapper does next
    goal,          \* the request it is serving
    protocol,      \* _protocol
    is_connected,  \* _isConnected
    is_demo        \* _isDemoMode

Base == INSTANCE BLEManagerBase
Platform == INSTANCE BLEPlatform WITH
    other <- [link |-> "down", discovering |-> {}],
    takes_turns <- TRUE

ASSUME SessionAssumption == Base!CountsAssumption

managerOwn == <<prompt_ready, waiting, notifying, prompt_buffer,
                polling_active, poll, pid, can_mode, op, cmd, terminated>>
platformOwn == <<peripheral, characteristics, platform_connected, call, link, discovering>>
wrapper == <<app, goal, protocol, is_connected, is_demo>>
vars == <<managerOwn, platformOwn, connected, ble, queue, owed, wrapper>>

Protocols == {"OBD2", "CAN"}

Steps == {"idle", "stopPolling", "stopCAN", "drop", "dropped", "load", "open",
          "discover", "initialize", "start"}
Goals == {"none", "connect", "abandon", "disconnect", "demo"}

-----------------------------------------------------------------------------
(* A manager operation, a platform operation, and both returned.           *)
ByManager(A) == A /\ UNCHANGED platformOwn
ByPlatform(A) ==
    /\ A
    /\ owed' = IF link' = "up" THEN owed ELSE 0  \* a lost link loses the answers
    /\ UNCHANGED managerOwn
Returned == op = "idle" /\ call = "idle"

Does(step) == app = step /\ Returned
Then(next) == app' = next /\ UNCHANGED <<goal, protocol, is_connected, is_demo>>

-----------------------------------------------------------------------------
(* connectToDevice: leave demo mode and end the connection there is.       *)
ConnectToDevice ==
    /\ Does("idle")
    /\ goal' = "connect"
    /\ is_demo' = FALSE
    /\ app' = IF platform_connected THEN "stopPolling" ELSE "load"
    /\ UNCHANGED <<managerOwn, platformOwn, connected, ble, queue, owed, protocol, is_connected>>

(* disconnect(): the mode to stop is the one _protocol names now.          *)
RequestDisconnect ==
    /\ Does("idle")
    /\ IF platform_connected
       THEN /\ goal' = "disconnect"
            /\ app' = IF protocol = "CAN" THEN "stopCAN" ELSE "stopPolling"
            /\ UNCHANGED is_connected
       ELSE is_connected' = FALSE /\ UNCHANGED <<goal, app>>
    /\ UNCHANGED <<managerOwn, platformOwn, connected, ble, queue, owed, protocol, is_demo>>

(* Faulty variant: startDemo does not end the connection there is.         *)
StartDemoOverLink ==
    /\ Does("idle")
    /\ is_connected' = FALSE /\ is_demo' = TRUE
    /\ UNCHANGED <<managerOwn, platformOwn, connected, ble, queue, owed, app, goal, protocol>>

StartDemo ==
    /\ Does("idle")
    /\ IF platform_connected
       THEN goal' = "demo" /\ app' = "stopPolling" /\ UNCHANGED <<is_connected, is_demo>>
       ELSE is_connected' = FALSE /\ is_demo' = TRUE /\ UNCHANGED <<goal, app>>
    /\ UNCHANGED <<managerOwn, platformOwn, connected, ble, queue, owed, protocol>>

StopDemo ==
    /\ Does("idle")
    /\ is_demo' = FALSE
    /\ UNCHANGED <<managerOwn, platformOwn, connected, ble, queue, owed,
                   app, goal, protocol, is_connected>>

(* switchVehicleType changes the protocol, but not the adapter's mode nor  *)
(* the polling.                                                            *)
SwitchVehicleType(p) ==
    /\ Does("idle")
    /\ is_connected
    /\ protocol' = p
    /\ UNCHANGED <<managerOwn, platformOwn, connected, ble, queue, owed,
                   app, goal, is_connected, is_demo>>

UserRequest ==
    \/ "connect" \in Requests /\ ConnectToDevice
    \/ "disconnect" \in Requests /\ RequestDisconnect
    \/ "startDemo" \in Requests /\ StartDemo
    \/ "stopDemo" \in Requests /\ StopDemo
    \/ "switch" \in Requests /\ \E p \in Protocols : SwitchVehicleType(p)

-----------------------------------------------------------------------------
(* Ending a connection.  connectToDevice and startDemo stop both modes;    *)
(* disconnect() only one.                                                  *)
StopPolling ==
    /\ Does("stopPolling")
    /\ ByManager(Base!StopOBD2Polling)
    /\ Then(IF goal = "disconnect" THEN "drop" ELSE "stopCAN")

StopCAN ==
    /\ Does("stopCAN")
    /\ ByManager(Base!StopCANMonitor)
    /\ Then("drop")

Drop ==
    /\ Does("drop")
    /\ ByPlatform(Platform!Disconnect)
    /\ Then("dropped")

(* ... and what the request does once the link is gone.                    *)
Dropped ==
    /\ Does("dropped")
    /\ \/ /\ goal = "connect"
          /\ app' = "load"
          /\ UNCHANGED <<goal, is_connected, is_demo>>
       \/ /\ goal # "connect"
          /\ app' = "idle" /\ goal' = "none"
          /\ is_connected' = FALSE
          /\ is_demo' = (is_demo \/ goal = "demo")
    /\ UNCHANGED <<managerOwn, platformOwn, connected, ble, queue, owed, protocol>>

-----------------------------------------------------------------------------
(* The request fails and connectToDevice returns NO.                       *)
Fails == app' = "idle" /\ goal' = "none" /\ UNCHANGED <<protocol, is_connected, is_demo>>

(* The vehicle type of the request gives the protocol; its configuration   *)
(* may be unknown.                                                         *)
Load ==
    /\ Does("load")
    /\ protocol' \in Protocols
    /\ \/ app' = "open" /\ UNCHANGED goal
       \/ app' = "idle" /\ goal' = "none"
    /\ UNCHANGED <<managerOwn, platformOwn, connected, ble, queue, owed, is_connected, is_demo>>

Open ==
    /\ Does("open")
    /\ ByPlatform(Platform!Connect \/ Platform!ConnectUnknown)
    /\ UNCHANGED wrapper

NotFound ==
    /\ app = "open"
    /\ ByPlatform(Platform!TakeResult("notFound"))
    /\ Fails

Opened ==
    /\ app = "open"
    /\ ByPlatform(Platform!TakeResult("opened"))
    /\ app' = "discover"
    /\ is_connected' = TRUE
    /\ UNCHANGED <<goal, protocol, is_demo>>

Discover ==
    /\ Does("discover")
    /\ ByPlatform(Platform!WaitForCharacteristics)
    /\ UNCHANGED wrapper

Discovered ==
    /\ app = "discover"
    /\ ByPlatform(Platform!TakeResult("found"))
    /\ Then("initialize")

NotDiscovered ==
    /\ app = "discover"
    /\ ByPlatform(Platform!TakeResult("missing"))
    /\ app' = "drop" /\ goal' = "abandon"
    /\ UNCHANGED <<protocol, is_connected, is_demo>>

Initialize ==
    /\ Does("initialize")
    /\ ByManager(IF protocol = "CAN" THEN Base!InitializeCANMonitor ELSE Base!InitializeELM327)
    /\ Then("start")

(* Faulty variant: the two protocols are started the wrong way round.      *)
StartTheOther ==
    /\ Does("start")
    /\ ByManager(IF protocol = "OBD2" THEN Base!StartCANMonitor ELSE Base!StartOBD2Polling)
    /\ app' = "idle" /\ goal' = "none"
    /\ UNCHANGED <<protocol, is_connected, is_demo>>

(* The last step of connectToDevice, which returns YES.                    *)
Start ==
    /\ Does("start")
    /\ ByManager(IF protocol = "CAN" THEN Base!StartCANMonitor ELSE Base!StartOBD2Polling)
    /\ app' = "idle" /\ goal' = "none"
    /\ UNCHANGED <<protocol, is_connected, is_demo>>

RequestStep ==
    \/ StopPolling \/ StopCAN \/ Drop \/ Dropped \/ Load
    \/ Open \/ NotFound \/ Opened \/ Discover \/ Discovered \/ NotDiscovered
    \/ Initialize \/ Start

-----------------------------------------------------------------------------
(* The steps of the manager and of the platform class by themselves.       *)
ManagerClientStep == ByManager(Base!ClientStep(Platform!CanSend)) /\ UNCHANGED wrapper
PlatformClientStep == ByPlatform(Platform!ClientStep) /\ UNCHANGED wrapper
PollingThread == ByManager(Base!PollStep(Platform!CanSend)) /\ UNCHANGED wrapper
Rewait == ByManager(Base!Rewait) /\ UNCHANGED wrapper
BleQueue ==
    /\ \/ ByManager(Base!ReceiveNotification \/ Base!BleNotifyOne)
       \/ ByPlatform(Platform!BleStep)
    /\ UNCHANGED wrapper
Radio == ByPlatform(Platform!RadioStep) /\ UNCHANGED wrapper
Adapter ==
    /\ link = "up"
    /\ \E k \in Notifications : ByManager(Base!AdapterAnswers(k))
    /\ UNCHANGED wrapper

Init ==
    /\ Base!Init
    /\ Platform!Init
    /\ app = "idle" /\ goal = "none" /\ protocol = "OBD2"
    /\ is_connected = FALSE /\ is_demo = FALSE

Next ==
    \/ UserRequest \/ RequestStep
    \/ ManagerClientStep \/ PlatformClientStep
    \/ PollingThread \/ Rewait \/ BleQueue
    \/ Radio \/ Adapter

(* The threads of the program run; the user, the radio and the adapter     *)
(* owe nothing.                                                            *)
Fairness ==
    /\ WF_vars(RequestStep \/ ManagerClientStep \/ PlatformClientStep)
    /\ WF_vars(PollingThread)
    /\ WF_vars(BleQueue)

Spec == Init /\ [][Next]_vars

FairSpec == Spec /\ Fairness

-----------------------------------------------------------------------------
TypeOK ==
    /\ Base!Gate!GateTypeOK
    /\ connected \in BOOLEAN /\ platform_connected \in BOOLEAN
    /\ polling_active \in BOOLEAN /\ poll \in Base!PollStates /\ pid \in 1 .. NumPids
    /\ can_mode \in BOOLEAN
    /\ op \in Base!Ops /\ call \in Platform!Calls
    /\ cmd \in Nat \ {0}
    /\ ble \in {"idle", "wake", "setUp", "setDown", "notifyAll"}
    /\ queue \in Seq(Platform!Events \cup [kind : {"data"}, prompts : Nat])
    /\ owed \in 0 .. AdapterBuffer
    /\ terminated \in BOOLEAN
    /\ peripheral \in BOOLEAN
    /\ characteristics \subseteq Platform!Properties
    /\ discovering \subseteq Platform!Properties
    /\ link \in Platform!Links
    /\ app \in Steps /\ goal \in Goals
    /\ protocol \in Protocols
    /\ is_connected \in BOOLEAN /\ is_demo \in BOOLEAN

NeverTerminates == Base!NeverTerminates
HandleMatchesFlag == Base!HandleMatchesFlag
NoLostWakeup == Base!Gate!NoLostWakeup
NoForgottenLink == app = "idle" => Platform!NoForgottenLink

(* A command that is paced by the prompt: one of initializeELM327, or a    *)
(* PID query of the polling thread.                                        *)
PromptDrivenSend ==
    \/ op = "initSend" /\ op' = "initGate"
    \/ poll = "query" /\ poll' = "gate"

Unanswered == owed > 0 \/ \E i \in 1 .. Len(queue) : queue[i].kind = "data"

(* "Each AT command must complete (ELM327 sends '>' prompt) before sending *)
(* the next": a prompt-driven command is sent only when the adapter has    *)
(* answered every command before and the program has seen the answers.     *)
Paced == [][PromptDrivenSend => ~Unanswered]_vars

(* The polling thread calls send(), which uses connected_peripheral_ and   *)
(* the characteristic pointers: the client thread replaces or clears them  *)
(* only when that thread has ended.                                        *)
ReleasedAfterPolling ==
    [][peripheral' # peripheral => poll \in {"none", "exited"}]_vars

Established == app = "idle" /\ is_connected /\ platform_connected

(* An established session reads what the adapter sends the way the         *)
(* protocol of the vehicle says.                                           *)
ModeMatches == Established => (can_mode <=> protocol = "CAN")

(* connectToDevice ends an OBD2 connection set-up with a polling thread    *)
(* that runs.                                                              *)
PollingStarts ==
    [][Start /\ protocol = "OBD2" => poll' \notin {"none", "exited"}]_vars

(* The demo simulator runs only while there is no BLE link.                *)
DemoHasNoLink == app = "idle" /\ is_demo => link = "down"

(* Every request returns to the user interface, whatever the adapter and   *)
(* the radio do: nothing waits for an event that need not come.            *)
RequestsReturn == (app # "idle") ~> (app = "idle")
=============================================================================
