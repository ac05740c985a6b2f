---------------------------- MODULE BLEManagerBase ----------------------------
(***************************************************************************)
(* BLEManagerBase: the command sequences, the OBD2 polling thread and the  *)
(* CAN monitor mode, with the threads that run them:                       *)
(*   - the client thread, which calls the manager's operations one at a    *)
(*     time (the iOS wrapper holds its mutex around them; the command line *)
(*     has a single thread).  `op` is the operation in progress;           *)
(*   - the polling thread that startOBD2Polling creates;                   *)
(*   - the serial BLE dispatch queue, which delivers notifications;        *)
(*   - the ELM327 adapter, outside the program.                            *)
(* The platform classes decide whether a send() reaches the adapter and    *)
(* when connected_ changes: here both may happen at any time.              *)
(***************************************************************************)
EXTENDS Naturals, Sequences

CONSTANTS
    NumInit,        \* commands of buildInitSequence
    NumCanInit,     \* commands of buildCANMonitorInitSequence
    NumPids,        \* PIDs of a polling cycle
    Notifications,  \* numbers of '>' one BLE notification may hold
    PromptBufferMax, \* how many '>' fit in prompt_buffer_
    AdapterBuffer,  \* bound: commands the adapter keeps unanswered
    MaxQueue,       \* bound: events waiting in the BLE queue
    OnTime          \* TRUE: the adapter answers within the prompt timeout

ASSUME CountsAssumption ==
    /\ NumInit \in Nat \ {0}
    /\ NumCanInit \in Nat \ {0}
    /\ NumPids \in Nat \ {0}
    /\ AdapterBuffer \in Nat
    /\ MaxQueue \in Nat
    /\ PromptBufferMax \in Nat
    /\ Notifications \subseteq Nat
    /\ OnTime \in BOOLEAN

VARIABLES
    prompt_ready, waiting, notifying, prompt_buffer,  \* the prompt gate
    connected,       \* BLEManagerBase::connected_
    polling_active,  \* polling_active_
    poll,            \* where polling_thread_ is; "none": not joinable
    pid,             \* index of the PID the polling thread is at
    can_mode,        \* can_mode_
    op,              \* where the client thread is inside the manager
    cmd,             \* index of the command of an initialisation sequence
    ble,             \* where the BLE queue is in its current handler
    queue,           \* events the BLE queue has still to deliver
    owed,            \* commands the adapter has not answered yet
    terminated       \* std::terminate has been called

gate == <<prompt_ready, waiting, notifying, prompt_buffer>>
adapter == <<owed, queue>>
polling == <<polling_active, poll, pid>>
vars == <<gate, connected, polling, can_mode, op, cmd, ble, adapter, terminated>>

Client == "client"
Poller == "poller"
BleQueue == "ble"

Gate == INSTANCE PromptGate
            WITH Waiters <- {Client, Poller}, Notifiers <- {Client, BleQueue}

Ops == {"idle", "initSend", "initGate", "initWait", "canSend", "canMode",
        "stopSet", "stopWake", "join", "stopCanSend"}
PollStates == {"none", "setup", "cycle", "next", "query", "gate", "wait",
               "pause", "exited"}

(* A notification that holds k prompts, as an event of the BLE queue.      *)
Data(k) == [kind |-> "data", prompts |-> k]

-----------------------------------------------------------------------------
(* send() through the platform class: `up` says whether the bytes reach    *)
(* the adapter, which drops what its buffer cannot hold.                   *)
Send(up) ==
    /\ owed' = IF up /\ owed < AdapterBuffer THEN owed + 1 ELSE owed
    /\ UNCHANGED queue

(* The adapter and the BLE stack have nothing left that could still open   *)
(* the gate.                                                               *)
Silent ==
    /\ owed = 0
    /\ \A i \in 1 .. Len(queue) : queue[i].kind # "data"
    /\ notifying = {}

(* waitForPrompt returns: woken with the flag up, or at its deadline,      *)
(* which an adapter that answers on time never lets pass.                  *)
WaitReturns(t) ==
    \/ Gate!WaitSucceeds(t)
    \/ (OnTime => Silent) /\ Gate!WaitTimesOut(t)

-----------------------------------------------------------------------------
(* Client thread: initializeELM327 runs sendPromptDrivenSequence.          *)
InitializeELM327 ==
    /\ op = "idle"
    /\ op' = "initSend"
    /\ cmd' = 1
    /\ UNCHANGED <<gate, connected, polling, can_mode, ble, adapter, terminated>>

SendInitCommand(up) ==
    /\ op = "initSend"
    /\ Send(up)
    /\ op' = "initGate"
    /\ UNCHANGED <<gate, connected, polling, can_mode, cmd, ble, terminated>>

EnterInitWait ==
    /\ op = "initGate"
    /\ Gate!BeginWait(Client)
    /\ op' = "initWait"
    /\ UNCHANGED <<connected, polling, can_mode, cmd, ble, adapter, terminated>>

(* Whatever the result of the wait, the sequence goes on.                  *)
FinishInitWait ==
    /\ op = "initWait"
    /\ WaitReturns(Client)
    /\ \/ cmd < NumInit /\ cmd' = cmd + 1 /\ op' = "initSend"
       \/ cmd = NumInit /\ op' = "idle" /\ UNCHANGED cmd
    /\ UNCHANGED <<connected, polling, can_mode, ble, adapter, terminated>>

(* Client thread: initializeCANMonitor paces its commands with sleeps and  *)
(* enters CAN mode after the sleep that follows the last one.              *)
InitializeCANMonitor ==
    /\ op = "idle"
    /\ op' = "canSend"
    /\ cmd' = 1
    /\ UNCHANGED <<gate, connected, polling, can_mode, ble, adapter, terminated>>

SendCANCommand(up) ==
    /\ op = "canSend"
    /\ Send(up)
    /\ \/ /\ cmd < NumCanInit
          /\ cmd' = cmd + 1
          /\ UNCHANGED op
       \/ /\ cmd = NumCanInit
          /\ op' = "canMode"
          /\ UNCHANGED cmd
    /\ UNCHANGED <<gate, connected, polling, can_mode, ble, terminated>>

EnterCANMode ==
    /\ op = "canMode"
    /\ can_mode' = TRUE
    /\ op' = "idle"
    /\ UNCHANGED <<gate, connected, polling, cmd, ble, adapter, terminated>>

(* Faulty variant: startOBD2Polling without its early return.              *)
StartAgain ==
    /\ op = "idle"
    /\ polling_active' = TRUE
    /\ poll' = "setup"
    /\ terminated' = (terminated \/ poll # "none")
    /\ UNCHANGED <<gate, connected, pid, can_mode, op, cmd, ble, adapter>>

(* startOBD2Polling returns at once when polling_active_ is set.           *)
(* Assigning to polling_thread_ while it is joinable calls std::terminate. *)
StartOBD2Polling ==
    /\ op = "idle"
    /\ IF polling_active
       THEN UNCHANGED <<polling, terminated>>
       ELSE /\ polling_active' = TRUE
            /\ poll' = "setup"
            /\ terminated' = (terminated \/ poll # "none")
            /\ UNCHANGED pid
    /\ UNCHANGED <<gate, connected, can_mode, op, cmd, ble, adapter>>

(* stopOBD2Polling: clear the flag, notifyPrompt, join.                    *)
StopOBD2Polling ==
    /\ op = "idle"
    /\ polling_active' = FALSE
    /\ op' = "stopSet"
    /\ UNCHANGED <<gate, connected, poll, pid, can_mode, cmd, ble, adapter, terminated>>

StopSetReady ==
    /\ op = "stopSet"
    /\ Gate!SetReady(Client)
    /\ op' = "stopWake"
    /\ UNCHANGED <<prompt_buffer, connected, polling, can_mode, cmd, ble, adapter, terminated>>

StopNotifyOne ==
    /\ op = "stopWake"
    /\ Gate!NotifyOne(Client)
    /\ op' = "join"
    /\ UNCHANGED <<connected, polling, can_mode, cmd, ble, adapter, terminated>>

(* Faulty variant: stopOBD2Polling returns without joining the thread.     *)
StopWithoutJoin ==
    /\ op = "join"
    /\ op' = "idle"
    /\ UNCHANGED <<gate, connected, polling, can_mode, cmd, ble, adapter, terminated>>

Join ==
    /\ op = "join"
    /\ poll \in {"none", "exited"}
    /\ poll' = "none"
    /\ op' = "idle"
    /\ UNCHANGED <<gate, connected, polling_active, pid, can_mode, cmd, ble, adapter, terminated>>

StartCANMonitor ==
    /\ op = "idle"
    /\ can_mode' = TRUE
    /\ UNCHANGED <<gate, connected, polling, op, cmd, ble, adapter, terminated>>

(* Faulty variant: stopCANMonitor sends its command but stays in CAN mode. *)
StopKeepsCANMode ==
    /\ op = "idle"
    /\ op' = "stopCanSend"
    /\ UNCHANGED <<gate, connected, polling, can_mode, cmd, ble, adapter, terminated>>

(* stopCANMonitor leaves CAN mode and sends one more command.              *)
StopCANMonitor ==
    /\ op = "idle"
    /\ can_mode' = FALSE
    /\ op' = "stopCanSend"
    /\ UNCHANGED <<gate, connected, polling, cmd, ble, adapter, terminated>>

StopCANSend(up) ==
    /\ op = "stopCanSend"
    /\ Send(up)
    /\ op' = "idle"
    /\ UNCHANGED <<gate, connected, polling, can_mode, cmd, ble, terminated>>

(* What the client thread does by itself inside an operation.              *)
ClientStep(up) ==
    \/ SendInitCommand(up) \/ EnterInitWait \/ FinishInitWait
    \/ SendCANCommand(up) \/ EnterCANMode
    \/ StopSetReady \/ StopNotifyOne \/ Join
    \/ StopCANSend(up)

ClientCalls ==
    \/ InitializeELM327 \/ InitializeCANMonitor
    \/ StartOBD2Polling \/ StopOBD2Polling
    \/ StartCANMonitor \/ StopCANMonitor

-----------------------------------------------------------------------------
(* The polling thread.                                                     *)
PollGoes(from, to) ==
    /\ poll = from
    /\ poll' = to
    /\ UNCHANGED <<connected, polling_active, can_mode, op, cmd, ble, terminated>>

(* Faulty variants: the loop tests only one of the two flags.              *)
PollWhileConnected == connected
PollUntilStopped == polling_active

KeepPolling == polling_active /\ connected

(* POST_CONNECT_SETUP_DELAY_MS.                                            *)
PollSetup ==
    /\ PollGoes("setup", "cycle")
    /\ UNCHANGED <<gate, pid, adapter>>

(* Faulty variant: the polling thread that gives up says so in             *)
(* polling_active_, although nobody has joined it.                         *)
PollCycleClearsFlag ==
    /\ poll = "cycle"
    /\ IF KeepPolling
       THEN poll' = "next" /\ pid' = 1 /\ UNCHANGED polling_active
       ELSE poll' = "exited" /\ polling_active' = FALSE /\ UNCHANGED pid
    /\ UNCHANGED <<gate, connected, can_mode, op, cmd, ble, adapter, terminated>>

(* The condition of the while loop.                                        *)
PollCycle ==
    /\ \/ KeepPolling /\ PollGoes("cycle", "next") /\ pid' = 1
       \/ ~KeepPolling /\ PollGoes("cycle", "exited") /\ UNCHANGED pid
    /\ UNCHANGED <<gate, adapter>>

(* The test at the head of the for loop.                                   *)
PollNext ==
    /\ PollGoes("next", IF KeepPolling THEN "query" ELSE "pause")
    /\ UNCHANGED <<gate, pid, adapter>>

PollQuery(up) ==
    /\ PollGoes("query", "gate")
    /\ Send(up)
    /\ UNCHANGED <<gate, pid>>

PollEnterWait ==
    /\ PollGoes("gate", "wait")
    /\ Gate!BeginWait(Poller)
    /\ UNCHANGED <<pid, adapter>>

(* Faulty variant: one PID too many.                                       *)
PollPastTheEnd ==
    /\ WaitReturns(Poller)
    /\ \/ pid <= NumPids /\ PollGoes("wait", "next") /\ pid' = pid + 1
       \/ pid > NumPids /\ PollGoes("wait", "pause") /\ UNCHANGED pid
    /\ UNCHANGED adapter

PollFinishWait ==
    /\ WaitReturns(Poller)
    /\ \/ pid < NumPids /\ PollGoes("wait", "next") /\ pid' = pid + 1
       \/ pid = NumPids /\ PollGoes("wait", "pause") /\ UNCHANGED pid
    /\ UNCHANGED adapter

(* The sleep of polling_interval_ms_ between two cycles.                   *)
PollPause ==
    /\ PollGoes("pause", "cycle")
    /\ UNCHANGED <<gate, pid, adapter>>

PollStep(up) ==
    \/ PollSetup \/ PollCycle \/ PollNext \/ PollQuery(up)
    \/ PollEnterWait \/ PollFinishWait \/ PollPause

(* A waiter that was woken in vain.                                        *)
Rewait ==
    /\ \E t \in {Client, Poller} : Gate!WaitAgain(t)
    /\ UNCHANGED <<connected, polling, can_mode, op, cmd, ble, adapter, terminated>>

-----------------------------------------------------------------------------
(* The BLE queue delivers a notification: in CAN mode it is not searched   *)
(* for prompts.                                                            *)
ReceiveNotification ==
    /\ ble = "idle"
    /\ queue # <<>>
    /\ Head(queue).kind = "data"
    /\ queue' = Tail(queue)
    /\ IF can_mode
       THEN UNCHANGED gate
       ELSE Gate!ScanNotification(BleQueue, Head(queue).prompts)
    /\ ble' = IF BleQueue \in notifying' THEN "wake" ELSE "idle"
    /\ UNCHANGED <<connected, polling, can_mode, op, cmd, owed, terminated>>

BleNotifyOne ==
    /\ ble = "wake"
    /\ Gate!NotifyOne(BleQueue)
    /\ ble' = "idle"
    /\ UNCHANGED <<connected, polling, can_mode, op, cmd, adapter, terminated>>

(* The adapter sends a notification that completes k of its commands; with *)
(* k = 0 it is a fragment of an answer.                                    *)
AdapterAnswers(k) ==
    /\ owed > 0
    /\ k <= owed
    /\ Len(queue) < MaxQueue
    /\ owed' = owed - k
    /\ queue' = Append(queue, Data(k))
    /\ UNCHANGED <<gate, connected, polling, can_mode, op, cmd, ble, terminated>>

(* setConnectionState, on whichever thread the platform class calls it.    *)
SetConnectionState(b) ==
    /\ connected' = b
    /\ UNCHANGED <<gate, polling, can_mode, op, cmd, terminated>>

ConnectionChanges ==
    /\ \E b \in BOOLEAN : SetConnectionState(b)
    /\ UNCHANGED <<ble, adapter>>

-----------------------------------------------------------------------------
Init ==
    /\ Gate!GateInit
    /\ connected = FALSE
    /\ polling_active = FALSE /\ poll = "none" /\ pid = 1
    /\ can_mode = FALSE
    /\ op = "idle" /\ cmd = 1
    /\ ble = "idle" /\ queue = <<>>
    /\ owed = 0
    /\ terminated = FALSE

Next ==
    \/ ClientCalls
    \/ \E up \in BOOLEAN : ClientStep(up) \/ PollStep(up)
    \/ Rewait
    \/ ReceiveNotification \/ BleNotifyOne
    \/ \E k \in Notifications : AdapterAnswers(k)
    \/ ConnectionChanges

(* The threads are scheduled by the operating system and every sleep and   *)
(* every wait of theirs has a deadline.  Nothing makes the client call an  *)
(* operation, the adapter answer or the connection change.                 *)
Fairness ==
    /\ WF_vars(\E up \in BOOLEAN : ClientStep(up))
    /\ WF_vars(\E up \in BOOLEAN : PollStep(up))
    /\ WF_vars(BleNotifyOne)

Spec == Init /\ [][Next]_vars

FairSpec == Spec /\ Fairness

-----------------------------------------------------------------------------
TypeOK ==
    /\ Gate!GateTypeOK
    /\ connected \in BOOLEAN
    /\ polling_active \in BOOLEAN
    /\ poll \in PollStates
    /\ pid \in 1 .. NumPids
    /\ can_mode \in BOOLEAN
    /\ op \in Ops
    /\ cmd \in Nat \ {0}
    /\ ble \in {"idle", "wake"}
    /\ queue \in Seq([kind : {"data"}, prompts : Nat])
    /\ owed \in Nat
    /\ terminated \in BOOLEAN

(* startOBD2Polling never replaces a std::thread that is still joinable:   *)
(* the early return on polling_active_ and the join in stopOBD2Polling     *)
(* together keep the handle free whenever a thread may be created.         *)
NeverTerminates == ~terminated

Stopping == op \in {"stopSet", "stopWake", "join"}

(* Outside stopOBD2Polling the handle is joinable exactly while            *)
(* polling_active_ is set: no polling thread is left behind by a stop, and *)
(* no start is taken for "already polling" without a thread to join.       *)
HandleMatchesFlag == ~Stopping => (polling_active <=> poll # "none")

(* The flag stays cleared until stopOBD2Polling has joined the thread.     *)
FlagClearedWhileStopping == Stopping => ~polling_active

(* The inductive invariant behind NeverTerminates.                         *)
HandleInv == NeverTerminates /\ HandleMatchesFlag /\ FlagClearedWhileStopping

(* stopOBD2Polling returns, whatever the adapter and the link do: the      *)
(* polling thread gives up its wait and sees the cleared flag.             *)
StopReturns == (op = "stopSet") ~> (op = "idle")

(* Once the connection is gone for good the polling thread ends by itself, *)
(* without a stopOBD2Polling.                                              *)
OrphanExits ==
    <>[](~connected) => []<>(poll \in {"none", "exited"})
=============================================================================
