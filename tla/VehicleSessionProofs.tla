-------------------------- MODULE VehicleSessionProofs --------------------------
(***************************************************************************)
(* Proofs about VehicleSession, for every vehicle, adapter, radio and      *)
(* order of requests: the polling thread's handle stays safe in the        *)
(* composition, with the platform class's flags deciding what the wrapper  *)
(* stops and what it skips; and, where the link is steady, what each       *)
(* established session can count on.                                       *)
(***************************************************************************)
EXTENDS VehicleSession, SequenceTheorems, TLAPS

(* The manager's handle invariant, over the session's variables.           *)
HandleSafe ==
    /\ ~terminated
    /\ op \notin {"stopSet", "stopWake", "join"} => (polling_active <=> poll # "none")
    /\ op \in {"stopSet", "stopWake", "join"} => ~polling_active

LEMMA HandleSafeGives ==
    HandleSafe => NeverTerminates /\ HandleMatchesFlag
  BY DEF HandleSafe, NeverTerminates, HandleMatchesFlag, Base!NeverTerminates,
         Base!HandleMatchesFlag, Base!Stopping

LEMMA HandleSafeStutter ==
    ASSUME HandleSafe, UNCHANGED <<polling_active, poll, op, terminated>>
    PROVE  HandleSafe'
  BY DEF HandleSafe

(* The operations of the manager that the wrapper starts.                  *)
LEMMA HandleSafeCalls ==
    ASSUME HandleSafe,
           \/ Base!InitializeELM327 \/ Base!InitializeCANMonitor
           \/ Base!StartOBD2Polling \/ Base!StopOBD2Polling
           \/ Base!StartCANMonitor \/ Base!StopCANMonitor
    PROVE  HandleSafe'
  <1> USE DEF HandleSafe, Base!polling
  <1>1. CASE Base!InitializeELM327 BY <1>1 DEF Base!InitializeELM327
  <1>2. CASE Base!InitializeCANMonitor BY <1>2 DEF Base!InitializeCANMonitor
  <1>3. CASE Base!StartOBD2Polling BY <1>3 DEF Base!StartOBD2Polling
  <1>4. CASE Base!StopOBD2Polling BY <1>4 DEF Base!StopOBD2Polling
  <1>5. CASE Base!StartCANMonitor BY <1>5 DEF Base!StartCANMonitor
  <1>6. CASE Base!StopCANMonitor BY <1>6 DEF Base!StopCANMonitor
  <1> QED
    BY <1>1, <1>2, <1>3, <1>4, <1>5, <1>6

(* What the client thread does by itself inside them.                      *)
LEMMA HandleSafeClient ==
    ASSUME HandleSafe, NEW up, Base!ClientStep(up)
    PROVE  HandleSafe'
  <1> USE DEF HandleSafe, Base!polling
  <1>1. CASE Base!SendInitCommand(up) BY <1>1 DEF Base!SendInitCommand
  <1>2. CASE Base!EnterInitWait BY <1>2 DEF Base!EnterInitWait
  <1>3. CASE Base!FinishInitWait BY <1>3 DEF Base!FinishInitWait
  <1>4. CASE Base!SendCANCommand(up) BY <1>4 DEF Base!SendCANCommand
  <1>5. CASE Base!StopSetReady BY <1>5 DEF Base!StopSetReady
  <1>6. CASE Base!StopNotifyOne BY <1>6 DEF Base!StopNotifyOne
  <1>7. CASE Base!Join BY <1>7 DEF Base!Join
  <1>8. CASE Base!StopCANSend(up) BY <1>8 DEF Base!StopCANSend
  <1>9. CASE Base!EnterCANMode BY <1>9 DEF Base!EnterCANMode
  <1> QED
    BY <1>1, <1>2, <1>3, <1>4, <1>5, <1>6, <1>7, <1>8, <1>9 DEF Base!ClientStep

(* The polling thread stays joinable until it is joined.                   *)
LEMMA HandleSafePoller ==
    ASSUME HandleSafe, NEW up, Base!PollStep(up)
    PROVE  HandleSafe'
  <1>1. PICK from, to \in Base!PollStates \ {"none"} : Base!PollGoes(from, to)
    BY DEF Base!PollStep, Base!PollSetup, Base!PollCycle, Base!PollNext, Base!PollQuery,
           Base!PollEnterWait, Base!PollFinishWait, Base!PollPause, Base!PollStates
  <1> QED
    BY <1>1 DEF HandleSafe, Base!PollGoes

LEMMA HandleSafeRequest ==
    ASSUME HandleSafe, UserRequest \/ RequestStep
    PROVE  HandleSafe'
  <1> USE DEF managerOwn, ByPlatform, ByManager
  <1>1. CASE UserRequest
    BY <1>1, HandleSafeStutter
       DEF UserRequest, ConnectToDevice, RequestDisconnect, StartDemo, StopDemo, SwitchVehicleType
  <1>2. CASE StopPolling BY <1>2, HandleSafeCalls DEF StopPolling
  <1>3. CASE StopCAN BY <1>3, HandleSafeCalls DEF StopCAN
  <1>4. CASE Initialize BY <1>4, HandleSafeCalls DEF Initialize
  <1>5. CASE Start BY <1>5, HandleSafeCalls DEF Start
  <1>6. CASE Drop \/ Dropped \/ Load
    BY <1>6, HandleSafeStutter DEF Drop, Dropped, Load
  <1>7. CASE Open \/ NotFound \/ Opened \/ Discover \/ Discovered \/ NotDiscovered
    BY <1>7, HandleSafeStutter
       DEF Open, NotFound, Opened, Discover, Discovered, NotDiscovered
  <1> QED
    BY <1>1, <1>2, <1>3, <1>4, <1>5, <1>6, <1>7 DEF RequestStep

LEMMA HandleSafeStep == HandleSafe /\ [Next]_vars => HandleSafe'
  <1> SUFFICES ASSUME HandleSafe, [Next]_vars PROVE HandleSafe'
    OBVIOUS
  <1> USE DEF managerOwn, ByPlatform, ByManager
  <1>1. CASE UserRequest \/ RequestStep BY <1>1, HandleSafeRequest
  <1>2. CASE ManagerClientStep BY <1>2, HandleSafeClient DEF ManagerClientStep
  <1>3. CASE PlatformClientStep BY <1>3, HandleSafeStutter DEF PlatformClientStep
  <1>4. CASE PollingThread BY <1>4, HandleSafePoller DEF PollingThread
  <1>5. CASE Rewait BY <1>5, HandleSafeStutter DEF Rewait, Base!Rewait, Base!polling
  <1>6. CASE BleQueue
    BY <1>6, HandleSafeStutter
       DEF BleQueue, Base!ReceiveNotification, Base!BleNotifyOne, Base!polling
  <1>7. CASE Radio BY <1>7, HandleSafeStutter DEF Radio
  <1>8. CASE Adapter
    BY <1>8, HandleSafeStutter DEF Adapter, Base!AdapterAnswers, Base!polling
  <1>9. CASE UNCHANGED vars BY <1>9, HandleSafeStutter DEF vars
  <1> QED
    BY <1>1, <1>2, <1>3, <1>4, <1>5, <1>6, <1>7, <1>8, <1>9 DEF Next

LEMMA HandleSafeAlways == Spec => []HandleSafe
  <1>1. Init => HandleSafe
    BY DEF Init, Base!Init, HandleSafe
  <1> QED
    BY <1>1, HandleSafeStep, PTL DEF Spec

(* No order of requests, losses and answers makes the session assign to a  *)
(* joinable polling_thread_: a stop that the wrapper skips after a loss    *)
(* costs it the next polling, never the process.                           *)
THEOREM SessionNeverTerminates == Spec => []NeverTerminates
  <1>1. HandleSafe => NeverTerminates
    BY HandleSafeGives
  <1> QED
    BY <1>1, HandleSafeAlways, PTL

(* In the session, too, polling_active_ says whether there is a polling    *)
(* thread to join.                                                         *)
THEOREM SessionFlagTellsHandle == Spec => []HandleMatchesFlag
  <1>1. HandleSafe => HandleMatchesFlag
    BY HandleSafeGives
  <1> QED
    BY <1>1, HandleSafeAlways, PTL

-----------------------------------------------------------------------------
(* Type correctness: the manager's variables, those that it shares with    *)
(* the platform class, the platform class's and the wrapper's.             *)
Event == Platform!Events \cup [kind : {"data"}, prompts : Nat]

ManagerTypes ==
    /\ Base!Gate!GateTypeOK
    /\ polling_active \in BOOLEAN /\ poll \in Base!PollStates /\ pid \in 1 .. NumPids
    /\ can_mode \in BOOLEAN /\ terminated \in BOOLEAN
    /\ op \in Base!Ops /\ cmd \in Nat \ {0}

SharedTypes ==
    /\ connected \in BOOLEAN
    /\ ble \in {"idle", "wake", "setUp", "setDown", "notifyAll"}
    /\ queue \in Seq(Event)

PlatformTypes ==
    /\ peripheral \in BOOLEAN /\ platform_connected \in BOOLEAN
    /\ characteristics \subseteq Platform!Properties
    /\ discovering \subseteq Platform!Properties
    /\ call \in Platform!Calls /\ link \in Platform!Links

WrapperTypes ==
    /\ app \in Steps /\ goal \in Goals /\ protocol \in Protocols
    /\ is_connected \in BOOLEAN /\ is_demo \in BOOLEAN

OwedOK == owed \in 0 .. AdapterBuffer

LEMMA TypeParts ==
    /\ TypeOK <=> ManagerTypes /\ SharedTypes /\ PlatformTypes /\ WrapperTypes /\ OwedOK
    /\ TypeOK' <=> ManagerTypes' /\ SharedTypes' /\ PlatformTypes' /\ WrapperTypes' /\ OwedOK'
  BY Zenon DEF TypeOK, ManagerTypes, SharedTypes, PlatformTypes, WrapperTypes, OwedOK, Event

LEMMA Counts ==
    /\ NumInit \in Nat \ {0} /\ NumCanInit \in Nat \ {0} /\ NumPids \in Nat \ {0}
    /\ AdapterBuffer \in Nat /\ PromptBufferMax \in Nat /\ Notifications \subseteq Nat
  BY SessionAssumption DEF Base!CountsAssumption

(* The gate's steps.                                                       *)
LEMMA SessionGateTypes ==
    ASSUME Base!Gate!GateTypeOK,
           \/ \E t \in {Base!Client, Base!Poller} :
                  Base!Gate!BeginWait(t) \/ Base!Gate!WaitAgain(t) \/ Base!WaitReturns(t)
           \/ \E n \in {Base!Client, Base!BleQueue} : Base!Gate!NotifyOne(n)
           \/ Base!Gate!SetReady(Base!Client) /\ UNCHANGED prompt_buffer
           \/ \E k \in Nat : Base!Gate!ScanNotification(Base!BleQueue, k)
           \/ UNCHANGED Base!gate
    PROVE  Base!Gate!GateTypeOK'
  <1> USE Counts DEF Base!Gate!GateTypeOK, Base!Gate!WaitStates, Base!gate, Base!Gate!gateVars
  <1>1. ASSUME NEW t \in {Base!Client, Base!Poller}, Base!Gate!BeginWait(t)
        PROVE  Base!Gate!GateTypeOK'
    BY <1>1 DEF Base!Gate!BeginWait
  <1>2. ASSUME NEW t \in {Base!Client, Base!Poller}, Base!Gate!WaitAgain(t)
        PROVE  Base!Gate!GateTypeOK'
    BY <1>2 DEF Base!Gate!WaitAgain
  <1>3. ASSUME NEW t \in {Base!Client, Base!Poller}, Base!WaitReturns(t)
        PROVE  Base!Gate!GateTypeOK'
    BY <1>3 DEF Base!WaitReturns, Base!Gate!WaitSucceeds, Base!Gate!WaitTimesOut
  <1>4. ASSUME NEW n \in {Base!Client, Base!BleQueue}, Base!Gate!NotifyOne(n)
        PROVE  Base!Gate!GateTypeOK'
    BY <1>4 DEF Base!Gate!NotifyOne
  <1>5. CASE Base!Gate!SetReady(Base!Client) /\ UNCHANGED prompt_buffer
    BY <1>5 DEF Base!Gate!SetReady
  <1>6. ASSUME NEW k \in Nat, Base!Gate!ScanNotification(Base!BleQueue, k)
        PROVE  Base!Gate!GateTypeOK'
    <2>1. CASE UNCHANGED Base!Gate!gateVars
      BY <2>1
    <2>2. CASE ~ UNCHANGED Base!Gate!gateVars
      <3>1. prompt_buffer' \in 0 .. PromptBufferMax
        BY <1>6, <2>2 DEF Base!Gate!ScanNotification
      <3>2. Base!Gate!SetReady(Base!BleQueue)
        BY <1>6, <2>2 DEF Base!Gate!ScanNotification
      <3> QED
        BY <3>1, <3>2 DEF Base!Gate!SetReady
    <2> QED
      BY <2>1, <2>2
  <1>7. CASE UNCHANGED Base!gate
    BY <1>7
  <1> QED
    BY <1>1, <1>2, <1>3, <1>4, <1>5, <1>6, <1>7

LEMMA SessionSend ==
    ASSUME OwedOK, NEW up, Base!Send(up)
    PROVE  OwedOK' /\ UNCHANGED queue
  BY Counts DEF OwedOK, Base!Send

(* The operations of the manager that the wrapper starts.                  *)
LEMMA ManagerCallTypes ==
    ASSUME ManagerTypes, SharedTypes, OwedOK,
           \/ Base!InitializeELM327 \/ Base!InitializeCANMonitor
           \/ Base!StartOBD2Polling \/ Base!StopOBD2Polling
           \/ Base!StartCANMonitor \/ Base!StopCANMonitor
    PROVE  ManagerTypes' /\ SharedTypes' /\ OwedOK'
  <1> USE SessionGateTypes
          DEF ManagerTypes, SharedTypes, OwedOK, Base!Ops, Base!PollStates, Base!polling,
              Base!adapter
  <1>1. CASE Base!InitializeELM327 BY <1>1 DEF Base!InitializeELM327
  <1>2. CASE Base!InitializeCANMonitor BY <1>2 DEF Base!InitializeCANMonitor
  <1>3. CASE Base!StartOBD2Polling BY <1>3 DEF Base!StartOBD2Polling
  <1>4. CASE Base!StopOBD2Polling BY <1>4 DEF Base!StopOBD2Polling
  <1>5. CASE Base!StartCANMonitor BY <1>5 DEF Base!StartCANMonitor
  <1>6. CASE Base!StopCANMonitor BY <1>6 DEF Base!StopCANMonitor
  <1> QED
    BY <1>1, <1>2, <1>3, <1>4, <1>5, <1>6

(* What the client thread does by itself inside them.                      *)
LEMMA ManagerClientTypes ==
    ASSUME ManagerTypes, SharedTypes, OwedOK, NEW up, Base!ClientStep(up)
    PROVE  ManagerTypes' /\ SharedTypes' /\ OwedOK'
  <1> USE SessionGateTypes, SessionSend, Counts
          DEF ManagerTypes, SharedTypes, Base!Ops, Base!PollStates, Base!polling, Base!adapter
  <1>1. CASE Base!SendInitCommand(up) BY <1>1 DEF Base!SendInitCommand
  <1>2. CASE Base!EnterInitWait BY <1>2 DEF Base!EnterInitWait, OwedOK
  <1>3. CASE Base!FinishInitWait BY <1>3 DEF Base!FinishInitWait, OwedOK
  <1>4. CASE Base!SendCANCommand(up)
    <2>1. OwedOK' /\ UNCHANGED queue
      BY <1>4 DEF Base!SendCANCommand
    <2>2. Base!Gate!GateTypeOK'
      BY <1>4 DEF Base!SendCANCommand
    <2>3. cmd' \in Nat \ {0} /\ op' \in Base!Ops
      BY <1>4 DEF Base!SendCANCommand
    <2> QED
      BY <1>4, <2>1, <2>2, <2>3 DEF Base!SendCANCommand
  <1>5. CASE Base!StopSetReady BY <1>5 DEF Base!StopSetReady, OwedOK
  <1>6. CASE Base!StopNotifyOne BY <1>6 DEF Base!StopNotifyOne, OwedOK
  <1>7. CASE Base!Join BY <1>7 DEF Base!Join, OwedOK
  <1>8. CASE Base!StopCANSend(up) BY <1>8 DEF Base!StopCANSend
  <1>9. CASE Base!EnterCANMode BY <1>9 DEF Base!EnterCANMode, OwedOK
  <1> QED
    BY <1>1, <1>2, <1>3, <1>4, <1>5, <1>6, <1>7, <1>8, <1>9 DEF Base!ClientStep

LEMMA PollerTypes ==
    ASSUME ManagerTypes, SharedTypes, OwedOK, NEW up, Base!PollStep(up)
    PROVE  ManagerTypes' /\ SharedTypes' /\ OwedOK'
  <1> USE SessionGateTypes, SessionSend, Counts
          DEF ManagerTypes, SharedTypes, Base!PollStates, Base!adapter, Base!PollGoes
  <1>1. CASE Base!PollSetup BY <1>1 DEF Base!PollSetup, OwedOK
  <1>2. CASE Base!PollCycle BY <1>2 DEF Base!PollCycle, OwedOK
  <1>3. CASE Base!PollNext BY <1>3 DEF Base!PollNext, OwedOK
  <1>4. CASE Base!PollQuery(up) BY <1>4 DEF Base!PollQuery
  <1>5. CASE Base!PollEnterWait BY <1>5 DEF Base!PollEnterWait, OwedOK
  <1>6. CASE Base!PollFinishWait BY <1>6 DEF Base!PollFinishWait, OwedOK
  <1>7. CASE Base!PollPause BY <1>7 DEF Base!PollPause, OwedOK
  <1> QED
    BY <1>1, <1>2, <1>3, <1>4, <1>5, <1>6, <1>7 DEF Base!PollStep

(* What the steps do to the callbacks: nothing, take the head, or append.  *)
LEMMA SessionQueue ==
    ASSUME queue \in Seq(Event),
           \/ UNCHANGED queue
           \/ queue # <<>> /\ queue' = Tail(queue)
           \/ \E event \in Event : queue' = Append(queue, event)
    PROVE  queue' \in Seq(Event)
  <1>1. CASE UNCHANGED queue
    BY <1>1
  <1>2. CASE queue # <<>> /\ queue' = Tail(queue)
    BY <1>2, HeadTailProperties
  <1>3. ASSUME NEW event \in Event, queue' = Append(queue, event)
        PROVE  queue' \in Seq(Event)
    BY <1>3, AppendProperties
  <1> QED
    BY <1>1, <1>2, <1>3

LEMMA SessionEvents ==
    /\ Platform!StateEvent("connected") \in Event
    /\ Platform!StateEvent("lost") \in Event
    /\ \A props \in SUBSET Platform!Properties : Platform!CharacteristicEvent(props) \in Event
    /\ \A k \in Nat : Base!Data(k) \in Event
  BY DEF Platform!StateEvent, Platform!CharacteristicEvent, Platform!Events, Base!Data, Event

(* The manager's notifications, and the adapter that causes them.          *)
LEMMA NotificationTypes ==
    ASSUME ManagerTypes, SharedTypes, OwedOK,
           \/ Base!Rewait
           \/ Base!ReceiveNotification \/ Base!BleNotifyOne
           \/ \E k \in Notifications : Base!AdapterAnswers(k)
    PROVE  ManagerTypes' /\ SharedTypes' /\ OwedOK'
  <1>1. CASE Base!Rewait
    BY <1>1, SessionGateTypes
       DEF Base!Rewait, ManagerTypes, SharedTypes, OwedOK, Base!polling, Base!adapter
  <1>2. CASE Base!ReceiveNotification
    <2>1. Head(queue) \in Event /\ Head(queue).kind = "data"
      BY <1>2, HeadTailProperties DEF Base!ReceiveNotification, SharedTypes
    <2>2. Head(queue).prompts \in Nat
      BY <2>1 DEF Event, Platform!Events
    <2>3. Base!Gate!GateTypeOK'
      BY <1>2, <2>2, SessionGateTypes DEF Base!ReceiveNotification, ManagerTypes
    <2>4. queue' \in Seq(Event)
      BY <1>2, SessionQueue DEF Base!ReceiveNotification, SharedTypes
    <2> QED
      BY <1>2, <2>3, <2>4
         DEF Base!ReceiveNotification, ManagerTypes, SharedTypes, OwedOK, Base!polling
  <1>3. CASE Base!BleNotifyOne
    BY <1>3, SessionGateTypes
       DEF Base!BleNotifyOne, ManagerTypes, SharedTypes, OwedOK, Base!polling, Base!adapter
  <1>4. ASSUME NEW k \in Notifications, Base!AdapterAnswers(k)
        PROVE  ManagerTypes' /\ SharedTypes' /\ OwedOK'
    <2>1. k \in Nat
      BY Counts
    <2>2. queue' \in Seq(Event)
      BY <1>4, <2>1, SessionQueue, SessionEvents DEF Base!AdapterAnswers, SharedTypes
    <2>3. OwedOK'
      BY <1>4, <2>1, Counts DEF Base!AdapterAnswers, OwedOK
    <2>4. ManagerTypes'
      BY <1>4, SessionGateTypes DEF Base!AdapterAnswers, ManagerTypes, Base!polling
    <2> QED
      BY <1>4, <2>2, <2>3, <2>4 DEF Base!AdapterAnswers, SharedTypes
  <1> QED
    BY <1>1, <1>2, <1>3, <1>4

-----------------------------------------------------------------------------
(* The platform class's own steps.                                         *)
PlatformCall ==
    \/ Platform!Connect \/ Platform!ConnectUnknown
    \/ Platform!Disconnect \/ Platform!WaitForCharacteristics
    \/ \E result \in {"opened", "notFound", "found", "missing"} : Platform!TakeResult(result)

PlatformStep ==
    PlatformCall \/ Platform!ClientStep \/ Platform!BleStep \/ Platform!RadioStep

LEMMA PlatformStepTypes ==
    ASSUME SharedTypes, PlatformTypes, PlatformStep
    PROVE  SharedTypes' /\ PlatformTypes'
  <1> USE SessionQueue, SessionEvents
          DEF SharedTypes, PlatformTypes, Platform!Calls, Platform!Links, Platform!Schedule,
              Platform!Runs
  <1>1. CASE Platform!Connect BY <1>1 DEF Platform!Connect, Platform!AskToConnect
  <1>2. CASE Platform!Disconnect BY <1>2 DEF Platform!Disconnect, Platform!Properties
  <1>3. CASE Platform!WaitForCharacteristics BY <1>3 DEF Platform!WaitForCharacteristics
  <1>4. ASSUME NEW result \in {"opened", "notFound", "found", "missing"},
               Platform!TakeResult(result)
        PROVE  SharedTypes' /\ PlatformTypes'
    BY <1>4 DEF Platform!TakeResult
  <1>5. CASE Platform!ConnectSetsBase BY <1>5 DEF Platform!ConnectSetsBase
  <1>6. CASE Platform!DisconnectSetsBase BY <1>6 DEF Platform!DisconnectSetsBase
  <1>7. CASE Platform!CheckCharacteristics BY <1>7 DEF Platform!CheckCharacteristics
  <1>8. CASE Platform!WaitDeadline BY <1>8 DEF Platform!WaitDeadline
  <1>9. CASE Platform!DidConnect BY <1>9 DEF Platform!DidConnect, Platform!Properties
  <1>10. CASE Platform!DidLose BY <1>10 DEF Platform!DidLose
  <1>11. CASE Platform!SetsBase BY <1>11 DEF Platform!SetsBase, Platform!own
  <1>12. CASE Platform!DidDiscoverCharacteristic
    <2>1. Head(queue) \in Event /\ Head(queue).kind = "characteristic"
      BY <1>12, HeadTailProperties DEF Platform!DidDiscoverCharacteristic
    <2>2. Head(queue).props \subseteq Platform!Properties
      BY <2>1 DEF Event, Platform!Events
    <2> QED
      BY <1>12, <2>2 DEF Platform!DidDiscoverCharacteristic
  <1>13. CASE Platform!NotifyAll BY <1>13 DEF Platform!NotifyAll
  <1>14. CASE Platform!LinkComesUp BY <1>14 DEF Platform!LinkComesUp
  <1>15. CASE Platform!LinkGoesDown BY <1>15 DEF Platform!LinkGoesDown, Platform!Properties
  <1>16. CASE Platform!ReportCharacteristic
    <2>1. PICK props \in SUBSET Platform!Properties :
              /\ discovering' = discovering \ props
              /\ queue' = Append(queue, Platform!CharacteristicEvent(props))
      BY <1>16 DEF Platform!ReportCharacteristic
    <2> QED
      BY <1>16, <2>1 DEF Platform!ReportCharacteristic
  <1>17. CASE Platform!ConnectUnknown BY <1>17 DEF Platform!ConnectUnknown
  <1>18. CASE Platform!ConnectSetsPlatform BY <1>18 DEF Platform!ConnectSetsPlatform
  <1> QED
    BY <1>1, <1>2, <1>3, <1>4, <1>5, <1>6, <1>7, <1>8, <1>9, <1>10, <1>11, <1>12, <1>13,
       <1>14, <1>15, <1>16, <1>17, <1>18
       DEF PlatformStep, PlatformCall, Platform!ClientStep, Platform!BleStep, Platform!RadioStep

(* A platform step, as the session takes it.                               *)
LEMMA ByPlatformTypes ==
    ASSUME TypeOK, ByPlatform(PlatformStep)
    PROVE  ManagerTypes' /\ SharedTypes' /\ PlatformTypes' /\ OwedOK'
  <1>1. SharedTypes' /\ PlatformTypes'
    BY TypeParts, PlatformStepTypes DEF ByPlatform
  <1>2. ManagerTypes'
    BY TypeParts, SessionGateTypes DEF ByPlatform, managerOwn, ManagerTypes, Base!gate
  <1>3. OwedOK'
    BY TypeParts, Counts DEF ByPlatform, OwedOK
  <1> QED
    BY <1>1, <1>2, <1>3

LEMMA UserRequestTypes ==
    ASSUME TypeOK, UserRequest
    PROVE  TypeOK'
  <1>1. ManagerTypes' /\ SharedTypes' /\ PlatformTypes' /\ OwedOK'
    <2>1. UNCHANGED <<managerOwn, platformOwn, connected, ble, queue, owed>>
      BY DEF UserRequest, ConnectToDevice, RequestDisconnect, StartDemo, StopDemo,
             SwitchVehicleType
    <2> QED
      BY <2>1, TypeParts, SessionGateTypes
         DEF managerOwn, platformOwn, ManagerTypes, SharedTypes, PlatformTypes, OwedOK, Base!gate
  <1>2. WrapperTypes'
    BY TypeParts
       DEF WrapperTypes, Steps, Goals, UserRequest, ConnectToDevice, RequestDisconnect,
           StartDemo, StopDemo, SwitchVehicleType
  <1> QED
    BY <1>1, <1>2, TypeParts

LEMMA RequestStepTypes ==
    ASSUME TypeOK, RequestStep
    PROVE  TypeOK'
  <1>1. WrapperTypes'
    <2> USE TypeParts DEF WrapperTypes, Steps, Goals, Then, Fails, Protocols
    <2>1. CASE StopPolling BY <2>1 DEF StopPolling
    <2>2. CASE StopCAN BY <2>2 DEF StopCAN
    <2>3. CASE Drop BY <2>3 DEF Drop
    <2>4. CASE Dropped BY <2>4 DEF Dropped
    <2>5. CASE Load BY <2>5 DEF Load
    <2>6. CASE Open BY <2>6 DEF Open, wrapper
    <2>7. CASE NotFound BY <2>7 DEF NotFound
    <2>8. CASE Opened BY <2>8 DEF Opened
    <2>9. CASE Discover BY <2>9 DEF Discover, wrapper
    <2>10. CASE Discovered BY <2>10 DEF Discovered
    <2>11. CASE NotDiscovered BY <2>11 DEF NotDiscovered
    <2>12. CASE Initialize BY <2>12 DEF Initialize
    <2>13. CASE Start BY <2>13 DEF Start
    <2> QED
      BY <2>1, <2>2, <2>3, <2>4, <2>5, <2>6, <2>7, <2>8, <2>9, <2>10, <2>11, <2>12, <2>13
         DEF RequestStep
  <1>2. ManagerTypes' /\ SharedTypes' /\ PlatformTypes' /\ OwedOK'
    <2>1. CASE StopPolling \/ StopCAN \/ Initialize \/ Start
      <3>1. ManagerTypes' /\ SharedTypes' /\ OwedOK'
        BY <2>1, TypeParts, ManagerCallTypes DEF StopPolling, StopCAN, Initialize, Start, ByManager
      <3>2. PlatformTypes'
        BY <2>1, TypeParts
           DEF StopPolling, StopCAN, Initialize, Start, ByManager, platformOwn, PlatformTypes
      <3> QED
        BY <3>1, <3>2
    <2>2. CASE Drop \/ Open \/ NotFound \/ Opened \/ Discover \/ Discovered \/ NotDiscovered
      <3>1. ByPlatform(PlatformStep)
        BY <2>2 DEF Drop, Open, NotFound, Opened, Discover, Discovered, NotDiscovered,
                    ByPlatform, PlatformStep, PlatformCall
      <3> QED
        BY <3>1, ByPlatformTypes
    <2>3. CASE Dropped \/ Load
      <3>1. UNCHANGED <<managerOwn, platformOwn, connected, ble, queue, owed>>
        BY <2>3 DEF Dropped, Load
      <3> QED
        BY <3>1, TypeParts, SessionGateTypes
           DEF managerOwn, platformOwn, ManagerTypes, SharedTypes, PlatformTypes, OwedOK, Base!gate
    <2> QED
      BY <2>1, <2>2, <2>3 DEF RequestStep
  <1> QED
    BY <1>1, <1>2, TypeParts

LEMMA SessionTypesStep == TypeOK /\ [Next]_vars => TypeOK'
  <1> SUFFICES ASSUME TypeOK, [Next]_vars PROVE TypeOK'
    OBVIOUS
  <1>1. CASE UserRequest BY <1>1, UserRequestTypes
  <1>2. CASE RequestStep BY <1>2, RequestStepTypes
  <1>3. CASE UNCHANGED vars
    BY <1>3, TypeParts, SessionGateTypes
       DEF vars, managerOwn, platformOwn, wrapper, ManagerTypes, SharedTypes, PlatformTypes,
           WrapperTypes, OwedOK, Base!gate
  <1>4. ASSUME UNCHANGED wrapper,
               \/ UNCHANGED platformOwn /\ ManagerTypes' /\ SharedTypes' /\ OwedOK'
               \/ ByPlatform(PlatformStep)
        PROVE  TypeOK'
    <2>1. WrapperTypes'
      BY <1>4, TypeParts DEF wrapper, WrapperTypes
    <2>2. CASE UNCHANGED platformOwn /\ ManagerTypes' /\ SharedTypes' /\ OwedOK'
      BY <2>1, <2>2, TypeParts DEF platformOwn, PlatformTypes
    <2>3. CASE ByPlatform(PlatformStep)
      BY <2>1, <2>3, TypeParts, ByPlatformTypes
    <2> QED
      BY <1>4, <2>2, <2>3
  <1> USE TypeParts DEF ByManager
  <1>5. CASE ManagerClientStep BY <1>4, <1>5, ManagerClientTypes DEF ManagerClientStep
  <1>6. CASE PlatformClientStep
    BY <1>4, <1>6 DEF PlatformClientStep, ByPlatform, PlatformStep
  <1>7. CASE PollingThread BY <1>4, <1>7, PollerTypes DEF PollingThread
  <1>8. CASE Rewait BY <1>4, <1>8, NotificationTypes DEF Rewait
  <1>9. CASE BleQueue
    <2>1. CASE ByManager(Base!ReceiveNotification \/ Base!BleNotifyOne)
      BY <1>4, <1>9, <2>1, NotificationTypes DEF BleQueue
    <2>2. CASE ByPlatform(Platform!BleStep)
      BY <1>4, <1>9, <2>2 DEF BleQueue, ByPlatform, PlatformStep
    <2> QED
      BY <1>9, <2>1, <2>2 DEF BleQueue
  <1>10. CASE Radio BY <1>4, <1>10 DEF Radio, ByPlatform, PlatformStep
  <1>11. CASE Adapter BY <1>4, <1>11, NotificationTypes DEF Adapter
  <1> QED
    BY <1>1, <1>2, <1>3, <1>5, <1>6, <1>7, <1>8, <1>9, <1>10, <1>11 DEF Next

LEMMA SessionInitTypes == Init => TypeOK
  <1> SUFFICES ASSUME Init PROVE TypeOK
    OBVIOUS
  <1> USE DEF Init
  <1>1. Base!Gate!GateTypeOK
    <2>1. prompt_buffer \in 0 .. PromptBufferMax
      BY Counts DEF Base!Init, Base!Gate!GateInit
    <2>2. prompt_ready \in BOOLEAN /\ notifying \subseteq {Base!Client, Base!BleQueue}
      BY DEF Base!Init, Base!Gate!GateInit
    <2>3. waiting \in [{Base!Client, Base!Poller} -> Base!Gate!WaitStates]
      BY DEF Base!Init, Base!Gate!GateInit, Base!Gate!WaitStates
    <2> QED
      BY <2>1, <2>2, <2>3 DEF Base!Gate!GateTypeOK
  <1>2. ManagerTypes /\ OwedOK
    <2>1. pid \in 1 .. NumPids /\ cmd \in Nat \ {0} /\ OwedOK
      BY Counts DEF Base!Init, OwedOK
    <2> QED
      BY <1>1, <2>1 DEF Base!Init, ManagerTypes, Base!PollStates, Base!Ops
  <1>3. SharedTypes /\ PlatformTypes
    BY EmptySeq DEF Platform!Init, SharedTypes, PlatformTypes, Platform!Calls, Platform!Links
  <1>4. WrapperTypes
    BY DEF WrapperTypes, Steps, Goals, Protocols
  <1> QED
    BY <1>2, <1>3, <1>4, TypeParts

(* Manager, platform class and wrapper share variables, yet whatever the   *)
(* user, the radio and the adapter do, each keeps the type its own code    *)
(* gives it.                                                               *)
THEOREM SessionTypeCorrect == Spec => []TypeOK
  BY SessionInitTypes, SessionTypesStep, PTL DEF Spec

-----------------------------------------------------------------------------
(* The link.  Beside the delegate's callbacks the queue now holds the      *)
(* adapter's notifications, which neither report a connection nor a loss.  *)
LinkInv == TypeOK /\ Platform!LinkIsHeld /\ Platform!LinkIsAnnounced

LEMMA SessionNoLossInTail ==
    ASSUME queue \in Seq(Event), queue # <<>>, queue' = Tail(queue),
           NEW j \in Nat, Platform!NoLossAfter(j + 1)
    PROVE  Platform!NoLossAfter(j)'
  <1>1. /\ Len(queue') = Len(queue) - 1
        /\ \A i \in 1 .. Len(queue') : queue'[i] = queue[i + 1]
    BY HeadTailProperties
  <1>2. Len(queue) \in Nat
    BY LenProperties
  <1> QED
    BY <1>1, <1>2 DEF Platform!NoLossAfter

(* A didConnect that is scheduled comes after every loss.                  *)
LEMMA SessionConnectedAppended ==
    ASSUME queue \in Seq(Event), Platform!Schedule(Platform!StateEvent("connected"))
    PROVE  Platform!LinkIsAnnounced'
  <1>1. /\ Len(queue') = Len(queue) + 1
        /\ queue'[Len(queue) + 1] = Platform!StateEvent("connected")
    BY AppendProperties, SessionEvents DEF Platform!Schedule
  <1>2. Len(queue) \in Nat
    BY LenProperties
  <1> QED
    BY <1>1, <1>2 DEF Platform!LinkIsAnnounced, Platform!NoLossAfter, Platform!StateEvent

(* A characteristic or a notification is scheduled.                        *)
LEMMA SessionAnnouncedAppended ==
    ASSUME queue \in Seq(Event), NEW event \in Event, event.kind # "lost",
           queue' = Append(queue, event), UNCHANGED <<link, platform_connected>>,
           Platform!LinkIsAnnounced
    PROVE  Platform!LinkIsAnnounced'
  <1>1. /\ Len(queue') = Len(queue) + 1
        /\ \A i \in 1 .. Len(queue) : queue'[i] = queue[i]
        /\ queue'[Len(queue) + 1] = event
    BY AppendProperties
  <1>2. Len(queue) \in Nat
    BY LenProperties
  <1>3. \A j \in Nat : Platform!NoLossAfter(j) => Platform!NoLossAfter(j)'
    BY <1>1, <1>2 DEF Platform!NoLossAfter
  <1> QED
    BY <1>1, <1>2, <1>3 DEF Platform!LinkIsAnnounced

(* A callback starts, whose kind says what becomes of isConnected().       *)
LEMMA SessionStaysAnnounced ==
    ASSUME TypeOK, Platform!LinkIsAnnounced, queue # <<>>, queue' = Tail(queue), link' = link,
           \/ Head(queue).kind \in {"characteristic", "data"} /\ UNCHANGED platform_connected
           \/ Head(queue).kind = "connected" /\ platform_connected' = TRUE
           \/ Head(queue).kind = "lost" /\ platform_connected' = FALSE
    PROVE  Platform!LinkIsAnnounced'
  <1> SUFFICES ASSUME link = "up" PROVE Platform!LinkIsAnnounced'
    BY DEF Platform!LinkIsAnnounced
  <1>1. queue \in Seq(Event) /\ Len(queue) \in Nat /\ Len(queue) > 0
    BY TypeParts, LenProperties, EmptySeq DEF SharedTypes
  <1>2. /\ Len(queue') = Len(queue) - 1
        /\ \A i \in 1 .. Len(queue') : queue'[i] = queue[i + 1]
        /\ Head(queue) = queue[1]
    BY <1>1, HeadTailProperties
  <1>3. CASE platform_connected /\ Platform!NoLossAfter(0)
    <2>1. Platform!NoLossAfter(1)
      BY <1>3, <1>1 DEF Platform!NoLossAfter
    <2>2. Platform!NoLossAfter(0)'
      BY <2>1, <1>1, SessionNoLossInTail
    <2>3. Head(queue).kind # "lost"
      BY <1>3, <1>1, <1>2 DEF Platform!NoLossAfter
    <2> QED
      BY <1>3, <2>2, <2>3 DEF Platform!LinkIsAnnounced
  <1>4. ASSUME NEW j \in 1 .. Len(queue), queue[j].kind = "connected", Platform!NoLossAfter(j)
        PROVE  Platform!LinkIsAnnounced'
    <2>1. Platform!NoLossAfter(j - 1)'
      BY <1>1, <1>4, SessionNoLossInTail
    <2>2. CASE j = 1
      BY <2>1, <2>2, <1>2, <1>4 DEF Platform!LinkIsAnnounced
    <2>3. CASE j > 1
      <3>1. j - 1 \in 1 .. Len(queue') /\ queue'[j - 1].kind = "connected"
        BY <1>1, <1>2, <1>4, <2>3
      <3> QED
        BY <3>1, <2>1 DEF Platform!LinkIsAnnounced
    <2> QED
      BY <2>2, <2>3, <1>1
  <1> QED
    BY <1>3, <1>4 DEF Platform!LinkIsAnnounced

LEMMA SessionAnnouncedStutter ==
    ASSUME Platform!LinkIsAnnounced, UNCHANGED <<queue, link>>,
           platform_connected => platform_connected'
    PROVE  Platform!LinkIsAnnounced'
  BY DEF Platform!LinkIsAnnounced, Platform!NoLossAfter

(* What the platform class and the radio do to the link.                   *)
LEMMA SessionLinkPlatform ==
    ASSUME LinkInv, PlatformStep
    PROVE  Platform!LinkIsHeld' /\ Platform!LinkIsAnnounced'
  <1> USE DEF LinkInv, Platform!LinkIsHeld
  <1>0. queue \in Seq(Event) /\ discovering \subseteq Platform!Properties
    BY TypeParts DEF SharedTypes, PlatformTypes
  <1>1. CASE Platform!Connect
    <2>1. CASE Platform!Schedule(Platform!StateEvent("connected")) /\ peripheral'
      BY <2>1, <1>0, SessionConnectedAppended
    <2>2. CASE link' = "connecting" /\ peripheral'
      BY <2>2 DEF Platform!LinkIsAnnounced
    <2>3. CASE UNCHANGED <<queue, link>> /\ (platform_connected => platform_connected')
               /\ (peripheral => peripheral')
      BY <2>3, SessionAnnouncedStutter
    <2> QED
      BY <1>1, <2>1, <2>2, <2>3 DEF Platform!Connect, Platform!AskToConnect
  <1>14. CASE Platform!ConnectUnknown
    BY <1>14, SessionAnnouncedStutter DEF Platform!ConnectUnknown
  <1>2. CASE Platform!Disconnect
    BY <1>2 DEF Platform!Disconnect, Platform!LinkIsAnnounced
  <1>3. CASE Platform!WaitForCharacteristics
    BY <1>3, SessionAnnouncedStutter DEF Platform!WaitForCharacteristics
  <1>4. ASSUME NEW result \in {"opened", "notFound", "found", "missing"},
               Platform!TakeResult(result)
        PROVE  Platform!LinkIsHeld' /\ Platform!LinkIsAnnounced'
    BY <1>4, SessionAnnouncedStutter DEF Platform!TakeResult
  <1>5. CASE Platform!ClientStep
    BY <1>5, SessionAnnouncedStutter
       DEF Platform!ClientStep, Platform!ConnectSetsPlatform, Platform!ConnectSetsBase,
           Platform!DisconnectSetsBase, Platform!CheckCharacteristics, Platform!WaitDeadline
  <1>6. CASE Platform!DidConnect
    BY <1>6, SessionStaysAnnounced DEF Platform!DidConnect, Platform!Runs
  <1>7. CASE Platform!DidLose
    BY <1>7, SessionStaysAnnounced DEF Platform!DidLose, Platform!Runs
  <1>8. CASE Platform!DidDiscoverCharacteristic
    BY <1>8, SessionStaysAnnounced DEF Platform!DidDiscoverCharacteristic, Platform!Runs
  <1>9. CASE Platform!SetsBase
    BY <1>9, SessionAnnouncedStutter DEF Platform!SetsBase, Platform!own
  <1>10. CASE Platform!NotifyAll
    BY <1>10, SessionAnnouncedStutter DEF Platform!NotifyAll
  <1>11. CASE Platform!LinkComesUp
    BY <1>11, <1>0, SessionConnectedAppended DEF Platform!LinkComesUp
  <1>12. CASE Platform!LinkGoesDown
    BY <1>12 DEF Platform!LinkGoesDown, Platform!LinkIsAnnounced
  <1>13. CASE Platform!ReportCharacteristic
    <2>1. PICK props \in SUBSET Platform!Properties :
              queue' = Append(queue, Platform!CharacteristicEvent(props))
      BY <1>13, <1>0 DEF Platform!ReportCharacteristic, Platform!Schedule
    <2> DEFINE event == Platform!CharacteristicEvent(props)
    <2>2. event \in Event /\ event.kind # "lost"
      BY SessionEvents DEF Platform!CharacteristicEvent
    <2> QED
      BY <1>0, <1>13, <2>1, <2>2, SessionAnnouncedAppended DEF Platform!ReportCharacteristic
  <1> QED
    BY <1>1, <1>2, <1>3, <1>4, <1>5, <1>6, <1>7, <1>8, <1>9, <1>10, <1>11, <1>12, <1>13, <1>14
       DEF PlatformStep, PlatformCall, Platform!BleStep, Platform!RadioStep

(* The manager and the wrapper leave the link alone; notifications come    *)
(* and go.                                                                 *)
LEMMA SessionLinkNotifications ==
    ASSUME LinkInv, UNCHANGED platformOwn,
           \/ UNCHANGED queue
           \/ Base!ReceiveNotification
           \/ \E k \in Notifications : Base!AdapterAnswers(k)
    PROVE  Platform!LinkIsHeld' /\ Platform!LinkIsAnnounced'
  <1> USE DEF LinkInv, platformOwn
  <1>1. Platform!LinkIsHeld'
    BY DEF Platform!LinkIsHeld
  <1>2. CASE UNCHANGED queue
    BY <1>1, <1>2, SessionAnnouncedStutter
  <1>3. CASE Base!ReceiveNotification
    BY <1>1, <1>3, SessionStaysAnnounced DEF Base!ReceiveNotification
  <1>4. ASSUME NEW k \in Notifications, Base!AdapterAnswers(k)
        PROVE  Platform!LinkIsAnnounced'
    <2> DEFINE event == Base!Data(k)
    <2>1. event \in Event /\ event.kind # "lost"
      BY SessionEvents, Counts DEF Base!Data
    <2>2. queue \in Seq(Event)
      BY TypeParts DEF SharedTypes
    <2> QED
      BY <1>4, <2>1, <2>2, SessionAnnouncedAppended DEF Base!AdapterAnswers
  <1> QED
    BY <1>1, <1>2, <1>3, <1>4

LEMMA ManagerKeepsQueue ==
    ASSUME NEW up,
           \/ Base!InitializeELM327 \/ Base!InitializeCANMonitor
           \/ Base!StartOBD2Polling \/ Base!StopOBD2Polling
           \/ Base!StartCANMonitor \/ Base!StopCANMonitor
           \/ Base!ClientStep(up) \/ Base!PollStep(up)
           \/ Base!Rewait \/ Base!BleNotifyOne
    PROVE  UNCHANGED queue
  <1>1. CASE \/ Base!InitializeELM327 \/ Base!InitializeCANMonitor
             \/ Base!StartOBD2Polling \/ Base!StopOBD2Polling
             \/ Base!StartCANMonitor \/ Base!StopCANMonitor
    BY <1>1 DEF Base!InitializeELM327, Base!InitializeCANMonitor, Base!StartOBD2Polling,
                Base!StopOBD2Polling, Base!StartCANMonitor, Base!StopCANMonitor, Base!adapter
  <1>2. CASE Base!ClientStep(up)
    BY <1>2 DEF Base!ClientStep, Base!SendInitCommand, Base!EnterInitWait, Base!FinishInitWait,
                Base!SendCANCommand, Base!EnterCANMode, Base!StopSetReady, Base!StopNotifyOne,
                Base!Join,
                Base!StopCANSend, Base!Send, Base!adapter
  <1>3. CASE Base!PollStep(up)
    BY <1>3 DEF Base!PollStep, Base!PollSetup, Base!PollCycle, Base!PollNext, Base!PollQuery,
                Base!PollEnterWait, Base!PollFinishWait, Base!PollPause, Base!Send, Base!adapter
  <1>4. CASE Base!Rewait \/ Base!BleNotifyOne
    BY <1>4 DEF Base!Rewait, Base!BleNotifyOne, Base!adapter
  <1> QED
    BY <1>1, <1>2, <1>3, <1>4

LEMMA SessionLinkStep == LinkInv /\ [Next]_vars => LinkInv'
  <1> SUFFICES ASSUME LinkInv, [Next]_vars PROVE LinkInv'
    OBVIOUS
  <1>0. TypeOK'
    BY SessionTypesStep DEF LinkInv
  <1>1. ASSUME ByPlatform(PlatformStep) PROVE LinkInv'
    BY <1>0, <1>1, SessionLinkPlatform DEF ByPlatform, LinkInv
  <1>2. ASSUME UNCHANGED <<platformOwn, queue>> PROVE LinkInv'
    BY <1>0, <1>2, SessionLinkNotifications DEF LinkInv
  <1> USE ManagerKeepsQueue DEF ByManager
  <1>3. CASE UserRequest
    BY <1>2, <1>3
       DEF UserRequest, ConnectToDevice, RequestDisconnect, StartDemo, StopDemo, SwitchVehicleType
  <1>4. CASE StopPolling \/ StopCAN \/ Initialize \/ Start
    BY <1>2, <1>4 DEF StopPolling, StopCAN, Initialize, Start
  <1>5. CASE Dropped \/ Load
    BY <1>2, <1>5 DEF Dropped, Load
  <1>6. CASE \/ Drop \/ Open \/ NotFound \/ Opened \/ Discover \/ Discovered \/ NotDiscovered
             \/ PlatformClientStep \/ Radio
    BY <1>1, <1>6
       DEF Drop, Open, NotFound, Opened, Discover, Discovered, NotDiscovered,
           PlatformClientStep, Radio, ByPlatform, PlatformStep, PlatformCall
  <1>7. CASE ManagerClientStep \/ PollingThread \/ Rewait
    BY <1>2, <1>7 DEF ManagerClientStep, PollingThread, Rewait
  <1>8. CASE BleQueue
    <2>1. CASE ByManager(Base!ReceiveNotification)
      BY <1>0, <2>1, SessionLinkNotifications DEF LinkInv
    <2>2. CASE ByManager(Base!BleNotifyOne)
      BY <1>2, <2>2
    <2>3. CASE ByPlatform(Platform!BleStep)
      BY <1>1, <2>3 DEF ByPlatform, PlatformStep
    <2> QED
      BY <1>8, <2>1, <2>2, <2>3 DEF BleQueue
  <1>9. CASE Adapter
    BY <1>0, <1>9, SessionLinkNotifications DEF Adapter, LinkInv
  <1>10. CASE UNCHANGED vars
    BY <1>2, <1>10 DEF vars
  <1> QED
    BY <1>3, <1>4, <1>5, <1>6, <1>7, <1>8, <1>9, <1>10 DEF Next, RequestStep

(* Between two requests of the user, with all handlers at rest, an adapter *)
(* that is still connected is one the program knows of: no order of failed *)
(* connections, losses and cancelled attempts leaves a link that nobody    *)
(* will end.                                                               *)
THEOREM SessionForgetsNoLink == Spec => []NoForgottenLink
  <1>1. Init => LinkInv
    BY SessionInitTypes
       DEF Init, Platform!Init, LinkInv, Platform!LinkIsHeld, Platform!LinkIsAnnounced
  <1>2. LinkInv => NoForgottenLink
    BY DEF LinkInv, Platform!LinkIsAnnounced, NoForgottenLink, Platform!NoForgottenLink
  <1> QED
    BY <1>1, <1>2, SessionLinkStep, PTL DEF Spec

-----------------------------------------------------------------------------
(* The session where the link is steady: discovery and the adapter answer  *)
(* in time and an established link does not go by itself.  The user still  *)
(* connects, disconnects and starts demos in any order, a connection       *)
(* attempt may fail, and callbacks may be handled late.                    *)
(*                                                                         *)
(* The proofs have three layers, each inductive on top of those before:    *)
(* where a connection is in its life (Life), what the manager's threads    *)
(* may do meanwhile (InPlace), and what the adapter owes (Exchange).       *)

Steady == OnTime /\ ~LinkCanFail

NoneIn(kind) == \A i \in 1 .. Len(queue) : queue[i].kind # kind

-----------------------------------------------------------------------------
(* The life of a connection, as the wrapper's step and the platform call   *)
(* tell it: there is none, it is given up, or it is ready for use.         *)
Closed ==
    \/ app \in {"dropped", "load"}
    \/ app = "open" /\ call \in {"idle", "notFound"}
    \/ app = "idle" /\ ~platform_connected

Abandoned == call = "missing" \/ (app = "drop" /\ goal = "abandon")

Usable ==
    \/ app \in {"initialize", "start", "stopPolling", "stopCAN"}
    \/ app = "drop" /\ goal # "abandon"
    \/ app = "idle" /\ platform_connected
    \/ call = "found"

CallsInPlace ==
    /\ call \in {"open", "openBase", "opened", "notFound"} => app = "open"
    /\ call \in {"checkCharacteristics", "blocked", "found", "missing"} => app = "discover"
    /\ call = "dropBase" => app = "dropped"
    /\ goal = "abandon" => app \in {"drop", "dropped"}

Phases ==
    /\ Closed => link = "down" /\ ~platform_connected
    /\ Abandoned => link = "down"
    /\ Usable => link = "up" /\ Platform!AllFound

(* Nothing of an earlier connection is left but its end: a property that   *)
(* is found, or still to be found or reported, is one of this link, and it *)
(* is in one place only.                                                   *)
NoTrace ==
    link # "up" => /\ NoneIn("connected") /\ NoneIn("characteristic")
                   /\ characteristics = {} /\ discovering = {} /\ ble # "setUp"

ConnectedFirst ==
    \A i \in 1 .. Len(queue) : queue[i].kind = "connected" =>
        /\ characteristics = {} /\ discovering = {} /\ ble # "setUp"
        /\ NoneIn("characteristic")
        /\ \A j \in 1 .. Len(queue) : queue[j].kind = "connected" => j = i

ReportedOnce ==
    \A i \in 1 .. Len(queue) : queue[i].kind = "characteristic" =>
        /\ queue[i].props # {}
        /\ queue[i].props \cap (characteristics \cup discovering) = {}
        /\ \A j \in 1 .. Len(queue) : queue[j].kind = "characteristic" /\ j # i =>
              queue[i].props \cap queue[j].props = {}

Fresh ==
    /\ NoTrace /\ ConnectedFirst /\ ReportedOnce
    /\ characteristics \cap discovering = {}
    /\ ble \in {"setUp", "setDown"} => characteristics = {}

Life == LinkInv /\ CallsInPlace /\ Phases /\ Fresh

-----------------------------------------------------------------------------
LEMMA TailElements ==
    ASSUME queue \in Seq(Event), queue # <<>>, queue' = Tail(queue)
    PROVE  /\ Len(queue) \in Nat \ {0} /\ Len(queue') = Len(queue) - 1
           /\ \A i \in 1 .. Len(queue') : i + 1 \in 1 .. Len(queue) /\ queue'[i] = queue[i + 1]
           /\ 1 \in 1 .. Len(queue) /\ Head(queue) = queue[1] /\ queue[1] \in Event
  BY HeadTailProperties, LenProperties, EmptySeq

LEMMA AppendElements ==
    ASSUME queue \in Seq(Event), NEW event \in Event, queue' = Append(queue, event)
    PROVE  /\ Len(queue) \in Nat /\ Len(queue') = Len(queue) + 1
           /\ \A i \in 1 .. Len(queue) : i \in 1 .. Len(queue') /\ queue'[i] = queue[i]
           /\ \A i \in 1 .. Len(queue') : i \in 1 .. Len(queue) \/ i = Len(queue) + 1
           /\ queue'[Len(queue) + 1] = event
  BY AppendProperties, LenProperties

LEMMA EventProps ==
    ASSUME TypeOK
    PROVE  /\ queue \in Seq(Event)
           /\ \A i \in 1 .. Len(queue) : queue[i] \in Event
           /\ \A i \in 1 .. Len(queue) :
                 queue[i].kind = "characteristic" => queue[i].props \subseteq Platform!Properties
  <1>1. queue \in Seq(Event)
    BY TypeParts DEF SharedTypes
  <1>2. \A i \in 1 .. Len(queue) : queue[i] \in Event
    BY <1>1, LenProperties
  <1> QED
    BY <1>1, <1>2 DEF Event, Platform!Events

(* A usable connection has been announced, and nothing but notifications   *)
(* is left to be handled.                                                  *)
LEMMA UsableIsAnnounced ==
    ASSUME Life, link = "up", Platform!AllFound
    PROVE  /\ platform_connected /\ ble \notin {"setUp", "setDown"} /\ discovering = {}
           /\ NoneIn("connected") /\ NoneIn("lost") /\ NoneIn("characteristic")
  <1> USE DEF Life, LinkInv
  <1>1. characteristics # {} /\ discovering = {}
    BY TypeParts DEF Platform!AllFound, Platform!Properties, Fresh, PlatformTypes
  <1>2. NoneIn("connected") /\ ble \notin {"setUp", "setDown"}
    BY <1>1 DEF Fresh, ConnectedFirst, NoneIn
  <1>3. platform_connected /\ Platform!NoLossAfter(0)
    BY <1>2 DEF Platform!LinkIsAnnounced, NoneIn
  <1>4. NoneIn("lost")
    BY <1>3 DEF Platform!NoLossAfter, NoneIn
  <1>5. NoneIn("characteristic")
    BY EventProps DEF Fresh, ReportedOnce, NoneIn, Platform!AllFound
  <1> QED
    BY <1>1, <1>2, <1>3, <1>4, <1>5

-----------------------------------------------------------------------------
(* Fresh: nothing happens to the connection, ...                           *)
LEMMA FreshStutter ==
    ASSUME Fresh, UNCHANGED <<queue, link, characteristics, discovering>>,
           ble' \in {"setUp", "setDown"} => ble' = ble
    PROVE  Fresh'
  BY DEF Fresh, NoTrace, ConnectedFirst, ReportedOnce, NoneIn

(* ... a callback or a notification starts, ...                            *)
LEMMA FreshNotification ==
    ASSUME Fresh, TypeOK, queue # <<>>, queue' = Tail(queue), Head(queue).kind = "data",
           UNCHANGED <<link, characteristics, discovering>>, ble' \notin {"setUp", "setDown"}
    PROVE  Fresh'
  <1> USE DEF Fresh
  <1>1. queue \in Seq(Event)
    BY EventProps
  <1>2. /\ Len(queue) \in Nat \ {0} /\ Len(queue') = Len(queue) - 1
        /\ \A i \in 1 .. Len(queue') : i + 1 \in 1 .. Len(queue) /\ queue'[i] = queue[i + 1]
    BY <1>1, TailElements
  <1>3. NoTrace'
    BY <1>2 DEF NoTrace, NoneIn
  <1>4. ConnectedFirst'
    BY <1>2 DEF ConnectedFirst, NoneIn
  <1>5. ReportedOnce'
    BY <1>2 DEF ReportedOnce
  <1> QED
    BY <1>3, <1>4, <1>5

LEMMA FreshConnected ==
    ASSUME Life, Platform!DidConnect
    PROVE  Fresh'
  <1> USE DEF Life, LinkInv, Fresh, Platform!DidConnect, Platform!Runs
  <1>1. queue \in Seq(Event)
    BY EventProps
  <1>2. /\ Len(queue) \in Nat \ {0} /\ Len(queue') = Len(queue) - 1
        /\ \A i \in 1 .. Len(queue') : i + 1 \in 1 .. Len(queue) /\ queue'[i] = queue[i + 1]
        /\ 1 \in 1 .. Len(queue) /\ queue[1].kind = "connected"
    BY <1>1, TailElements
  <1>3. link = "up" /\ characteristics = {} /\ NoneIn("characteristic")
    BY <1>2 DEF NoTrace, ConnectedFirst, NoneIn
  <1>4. NoneIn("connected")' /\ NoneIn("characteristic")'
    <2>1. \A i \in 1 .. Len(queue') : i + 1 # 1
      BY <1>2
    <2> QED
      BY <1>2, <1>3, <2>1 DEF ConnectedFirst, NoneIn
  <1>5. ConnectedFirst' /\ ReportedOnce'
    BY <1>4 DEF ConnectedFirst, ReportedOnce, NoneIn
  <1> QED
    BY <1>3, <1>5 DEF NoTrace

LEMMA FreshLost ==
    ASSUME Life, Platform!DidLose
    PROVE  Fresh'
  <1> USE DEF Life, LinkInv, Fresh, Platform!DidLose, Platform!Runs
  <1>1. queue \in Seq(Event)
    BY EventProps
  <1>2. /\ Len(queue) \in Nat \ {0} /\ Len(queue') = Len(queue) - 1
        /\ \A i \in 1 .. Len(queue') : i + 1 \in 1 .. Len(queue) /\ queue'[i] = queue[i + 1]
        /\ 1 \in 1 .. Len(queue) /\ queue[1].kind = "lost"
    BY <1>1, TailElements
  <1>3. characteristics = {}
    <2>1. CASE link = "up"
      <3>1. ~ Platform!NoLossAfter(0)
        BY <1>2 DEF Platform!NoLossAfter
      <3>2. PICK j \in 1 .. Len(queue) : queue[j].kind = "connected"
        BY <2>1, <3>1 DEF Platform!LinkIsAnnounced
      <3> QED
        BY <3>2 DEF ConnectedFirst
    <2>2. CASE link # "up"
      BY <2>2 DEF NoTrace
    <2> QED
      BY <2>1, <2>2
  <1>4. NoTrace'
    BY <1>2 DEF NoTrace, NoneIn
  <1>5. ConnectedFirst'
    BY <1>2 DEF ConnectedFirst, NoneIn
  <1>6. ReportedOnce'
    BY <1>2 DEF ReportedOnce
  <1> QED
    BY <1>3, <1>4, <1>5, <1>6

LEMMA FreshDiscovered ==
    ASSUME Life, Platform!DidDiscoverCharacteristic
    PROVE  Fresh'
  <1> USE DEF Life, LinkInv, Fresh, Platform!DidDiscoverCharacteristic, Platform!Runs
  <1>1. queue \in Seq(Event)
    BY EventProps
  <1>2. /\ Len(queue) \in Nat \ {0} /\ Len(queue') = Len(queue) - 1
        /\ \A i \in 1 .. Len(queue') : i + 1 \in 1 .. Len(queue) /\ queue'[i] = queue[i + 1]
        /\ 1 \in 1 .. Len(queue) /\ queue[1].kind = "characteristic"
        /\ characteristics' = characteristics \cup queue[1].props
    BY <1>1, TailElements
  <1>3. link = "up" /\ NoneIn("connected")
    BY <1>2 DEF NoTrace, ConnectedFirst, NoneIn
  <1>4. NoneIn("connected")'
    BY <1>2, <1>3 DEF NoneIn
  <1>5. queue[1].props \cap discovering = {}
    BY <1>2 DEF ReportedOnce
  <1>6. ReportedOnce'
    <2> SUFFICES ASSUME NEW i \in 1 .. Len(queue'), queue'[i].kind = "characteristic"
                 PROVE  /\ queue'[i].props # {}
                        /\ queue'[i].props \cap (characteristics' \cup discovering') = {}
                        /\ \A j \in 1 .. Len(queue') :
                              queue'[j].kind = "characteristic" /\ j # i =>
                                  queue'[i].props \cap queue'[j].props = {}
      BY DEF ReportedOnce
    <2>1. i + 1 \in 1 .. Len(queue) /\ i + 1 # 1 /\ queue'[i] = queue[i + 1]
      BY <1>2
    <2>2. /\ queue[i + 1].props # {}
          /\ queue[i + 1].props \cap (characteristics \cup discovering) = {}
          /\ \A j \in 1 .. Len(queue) : queue[j].kind = "characteristic" /\ j # i + 1 =>
                queue[i + 1].props \cap queue[j].props = {}
      BY <2>1 DEF ReportedOnce
    <2>3. queue[i + 1].props \cap queue[1].props = {}
      BY <1>2, <2>1, <2>2
    <2>4. \A j \in 1 .. Len(queue') : j + 1 \in 1 .. Len(queue) /\ (j # i => j + 1 # i + 1)
      BY <1>2
    <2> QED
      BY <1>2, <2>1, <2>2, <2>3, <2>4
  <1> QED
    BY <1>2, <1>3, <1>4, <1>5, <1>6 DEF NoTrace, ConnectedFirst, NoneIn

(* ... or one is scheduled.                                                *)
LEMMA FreshData ==
    ASSUME Fresh, TypeOK, NEW k \in Nat,
           queue' = Append(queue, Base!Data(k)),
           UNCHANGED <<link, characteristics, discovering, ble>>
    PROVE  Fresh'
  <1> USE DEF Fresh
  <1>1. queue \in Seq(Event) /\ Base!Data(k) \in Event
    BY EventProps, SessionEvents
  <1>2. /\ Len(queue) \in Nat /\ Len(queue') = Len(queue) + 1
        /\ \A i \in 1 .. Len(queue) : i \in 1 .. Len(queue') /\ queue'[i] = queue[i]
        /\ \A i \in 1 .. Len(queue') : i \in 1 .. Len(queue) \/ i = Len(queue) + 1
        /\ queue'[Len(queue) + 1].kind = "data"
    BY <1>1, AppendElements DEF Base!Data
  <1>3. /\ NoneIn("connected") => NoneIn("connected")'
        /\ NoneIn("characteristic") => NoneIn("characteristic")'
    BY <1>2 DEF NoneIn
  <1>4. \A i \in 1 .. Len(queue') : queue'[i].kind # "data" =>
            i \in 1 .. Len(queue) /\ queue'[i] = queue[i]
    BY <1>2
  <1>5. NoTrace'
    BY <1>3 DEF NoTrace
  <1>6. ConnectedFirst'
    BY <1>3, <1>4 DEF ConnectedFirst
  <1>7. ReportedOnce'
    BY <1>4 DEF ReportedOnce
  <1> QED
    BY <1>5, <1>6, <1>7

(* The end of the connection is scheduled, ...                             *)
LEMMA FreshEnds ==
    ASSUME Fresh, TypeOK, NoneIn("connected"), NoneIn("characteristic"), ble # "setUp",
           \/ UNCHANGED queue
           \/ Platform!Schedule(Platform!StateEvent("lost")),
           characteristics' = {}, discovering' = {}, ble' = ble
    PROVE  Fresh'
  <1>1. NoneIn("connected")' /\ NoneIn("characteristic")'
    <2>1. CASE UNCHANGED queue
      BY <2>1 DEF NoneIn
    <2>2. CASE Platform!Schedule(Platform!StateEvent("lost"))
      <3> DEFINE event == Platform!StateEvent("lost")
      <3>1. queue \in Seq(Event) /\ event \in Event /\ queue' = Append(queue, event)
        BY <2>2, EventProps, SessionEvents DEF Platform!Schedule
      <3>2. event.kind = "lost"
        BY DEF Platform!StateEvent
      <3> HIDE DEF event
      <3>3. /\ \A i \in 1 .. Len(queue) : queue'[i] = queue[i]
            /\ \A i \in 1 .. Len(queue') : i \in 1 .. Len(queue) \/ i = Len(queue) + 1
            /\ queue'[Len(queue) + 1] = event
        BY <3>1, AppendElements
      <3> QED
        BY <3>2, <3>3 DEF NoneIn
    <2> QED
      BY <2>1, <2>2
  <1> QED
    BY <1>1 DEF Fresh, NoTrace, ConnectedFirst, ReportedOnce, NoneIn

(* ... its beginning, ...                                                  *)
LEMMA FreshBegins ==
    ASSUME Fresh, TypeOK, link = "connecting", link' = "up",
           Platform!Schedule(Platform!StateEvent("connected")),
           UNCHANGED <<characteristics, discovering, ble>>
    PROVE  Fresh'
  <1> DEFINE event == Platform!StateEvent("connected")
  <1>1. queue \in Seq(Event) /\ event \in Event /\ queue' = Append(queue, event)
    BY EventProps, SessionEvents DEF Platform!Schedule
  <1>2. event.kind = "connected"
    BY DEF Platform!StateEvent
  <1> HIDE DEF event
  <1>3. /\ \A i \in 1 .. Len(queue) : queue'[i] = queue[i]
        /\ \A i \in 1 .. Len(queue') : i \in 1 .. Len(queue) \/ i = Len(queue) + 1
        /\ queue'[Len(queue) + 1] = event
    BY <1>1, AppendElements
  <1>4. /\ NoneIn("connected") /\ NoneIn("characteristic")
        /\ characteristics = {} /\ discovering = {} /\ ble # "setUp"
    BY DEF Fresh, NoTrace
  <1>5. NoneIn("characteristic")'
    BY <1>2, <1>3, <1>4 DEF NoneIn
  <1>6. \A j \in 1 .. Len(queue') : queue'[j].kind = "connected" => j = Len(queue) + 1
    BY <1>3, <1>4 DEF NoneIn
  <1>7. ConnectedFirst'
    BY <1>4, <1>5, <1>6 DEF ConnectedFirst
  <1> QED
    BY <1>4, <1>5, <1>7 DEF Fresh, NoTrace, ReportedOnce, NoneIn

(* ... or a property of it.                                                *)
LEMMA FreshReported ==
    ASSUME Fresh, TypeOK, Platform!ReportCharacteristic
    PROVE  Fresh'
  <1> USE DEF Fresh
  <1>1. PICK props \in (SUBSET discovering) \ {{}} :
            /\ discovering' = discovering \ props
            /\ queue' = Append(queue, Platform!CharacteristicEvent(props))
    BY DEF Platform!ReportCharacteristic, Platform!Schedule
  <1>2. link = "up" /\ UNCHANGED <<link, characteristics, ble>>
    BY DEF Platform!ReportCharacteristic
  <1> DEFINE event == Platform!CharacteristicEvent(props)
  <1>3. queue \in Seq(Event) /\ event \in Event
    BY EventProps, SessionEvents, TypeParts DEF PlatformTypes
  <1>4. event.kind = "characteristic" /\ event.props = props
    BY DEF Platform!CharacteristicEvent
  <1>5. queue' = Append(queue, event)
    BY <1>1
  <1> HIDE DEF event
  <1>6. /\ Len(queue) \in Nat /\ Len(queue') = Len(queue) + 1
        /\ \A i \in 1 .. Len(queue) : queue'[i] = queue[i]
        /\ \A i \in 1 .. Len(queue') : i \in 1 .. Len(queue) \/ i = Len(queue) + 1
        /\ queue'[Len(queue) + 1] = event
    BY <1>3, <1>5, AppendElements
  <1>7. discovering # {} /\ props # {} /\ props \subseteq discovering
    BY <1>1
  <1>8. NoneIn("connected")
    BY <1>7 DEF ConnectedFirst, NoneIn
  <1>9. NoneIn("connected")'
    BY <1>4, <1>6, <1>8 DEF NoneIn
  <1>10. ReportedOnce'
    <2> SUFFICES ASSUME NEW i \in 1 .. Len(queue'), queue'[i].kind = "characteristic"
                 PROVE  /\ queue'[i].props # {}
                        /\ queue'[i].props \cap (characteristics' \cup discovering') = {}
                        /\ \A j \in 1 .. Len(queue') :
                              queue'[j].kind = "characteristic" /\ j # i =>
                                  queue'[i].props \cap queue'[j].props = {}
      BY DEF ReportedOnce
    <2>1. CASE i \in 1 .. Len(queue)
      <3>1. /\ queue[i].props # {} /\ queue[i].props \cap (characteristics \cup discovering) = {}
            /\ \A j \in 1 .. Len(queue) : queue[j].kind = "characteristic" /\ j # i =>
                  queue[i].props \cap queue[j].props = {}
        BY <1>6, <2>1 DEF ReportedOnce
      <3>2. queue[i].props \cap props = {}
        BY <1>7, <3>1
      <3>3. \A j \in 1 .. Len(queue') : queue'[j].kind = "characteristic" /\ j # i =>
                queue[i].props \cap queue'[j].props = {}
        BY <1>4, <1>6, <3>1, <3>2
      <3> QED
        BY <1>1, <1>2, <1>6, <2>1, <3>1, <3>3
    <2>2. CASE i = Len(queue) + 1
      <3>1. queue'[i].props = props
        BY <1>4, <1>6, <2>2
      <3>2. \A j \in 1 .. Len(queue) : queue[j].kind = "characteristic" =>
                props \cap queue[j].props = {}
        BY <1>7 DEF ReportedOnce
      <3>3. \A j \in 1 .. Len(queue') : j # i => j \in 1 .. Len(queue) /\ queue'[j] = queue[j]
        BY <1>6, <2>2
      <3> QED
        BY <1>1, <1>2, <1>7, <3>1, <3>2, <3>3
    <2> QED
      BY <1>6, <2>1, <2>2
  <1> QED
    BY <1>1, <1>2, <1>9, <1>10 DEF NoTrace, ConnectedFirst, NoneIn

-----------------------------------------------------------------------------
(* Life: the wrapper's steps that are not the platform class's.            *)
LEMMA LifeParts ==
    ASSUME Life
    PROVE  /\ CallsInPlace /\ Phases /\ Fresh /\ LinkInv /\ TypeOK /\ Platform!LinkIsHeld
           /\ app \in Steps /\ goal \in Goals /\ call \in Platform!Calls
           /\ link \in Platform!Links /\ platform_connected \in BOOLEAN
           /\ Usable => platform_connected
  BY TypeParts, UsableIsAnnounced
     DEF Life, LinkInv, PlatformTypes, WrapperTypes, Phases

LEMMA LifeWrapper ==
    ASSUME Life, UNCHANGED platformOwn,
           UserRequest \/ StopPolling \/ StopCAN \/ Dropped \/ Load \/ Initialize \/ Start
    PROVE  CallsInPlace' /\ Phases'
  <1> USE LifeParts
      DEF CallsInPlace, Phases, Closed, Abandoned, Usable, platformOwn, Does, Returned, Then,
          Platform!AllFound
  <1>1. CASE UserRequest
    BY <1>1 DEF UserRequest, ConnectToDevice, RequestDisconnect, StartDemo, StopDemo,
                SwitchVehicleType
  <1>2. CASE StopPolling BY <1>2 DEF StopPolling
  <1>3. CASE StopCAN BY <1>3 DEF StopCAN
  <1>4. CASE Dropped BY <1>4 DEF Dropped
  <1>5. CASE Load BY <1>5 DEF Load
  <1>6. CASE Initialize BY <1>6 DEF Initialize
  <1>7. CASE Start BY <1>7 DEF Start
  <1> QED
    BY <1>1, <1>2, <1>3, <1>4, <1>5, <1>6, <1>7

(* The wrapper's steps that are: it connects only what is not connected.   *)
LEMMA LifeRequest ==
    ASSUME Life,
           \/ Drop \/ Open \/ NotFound \/ Opened \/ Discover \/ Discovered \/ NotDiscovered
    PROVE  CallsInPlace' /\ Phases' /\ Fresh'
  <1> USE LifeParts
      DEF CallsInPlace, Phases, Closed, Abandoned, Usable, Does, Returned, Then, Fails,
          Platform!AllFound, ByPlatform, wrapper
  <1>1. CASE Drop
    <2>1. Platform!Disconnect
      BY <1>1 DEF Drop
    <2>2. NoneIn("connected") /\ NoneIn("characteristic") /\ ble # "setUp"
      <3>1. CASE goal = "abandon"
        BY <1>1, <3>1 DEF Drop, Fresh, NoTrace
      <3>2. CASE goal # "abandon"
        BY <1>1, <3>2, UsableIsAnnounced DEF Drop
      <3> QED
        BY <3>1, <3>2
    <2>3. discovering' = {}
      BY <2>1 DEF Platform!Disconnect, Platform!LinkIsHeld, Fresh, NoTrace
    <2>4. Fresh'
      BY <2>1, <2>2, <2>3, FreshEnds DEF Platform!Disconnect
    <2>5. link' = "down" /\ platform_connected' = FALSE /\ call' = "dropBase"
      BY <2>1 DEF Platform!Disconnect, Platform!LinkIsHeld
    <2> QED
      BY <1>1, <2>4, <2>5 DEF Drop
  <1>2. CASE Open
    <2>0. link = "down" /\ ~platform_connected
      BY <1>2 DEF Open
    <2>1. CASE Platform!Connect
      <3>1. /\ UNCHANGED <<queue, characteristics, discovering, ble, platform_connected>>
            /\ link' = "connecting" /\ call' = "open"
        BY <2>0, <2>1 DEF Platform!Connect, Platform!AskToConnect
      <3>2. Fresh'
        BY <2>0, <3>1 DEF Fresh, NoTrace, ConnectedFirst, ReportedOnce, NoneIn
      <3> QED
        BY <1>2, <2>0, <3>1, <3>2 DEF Open
    <2>2. CASE Platform!ConnectUnknown
      <3>1. /\ UNCHANGED <<queue, link, characteristics, discovering, ble, platform_connected>>
            /\ call' = "notFound"
        BY <2>2 DEF Platform!ConnectUnknown
      <3> QED
        BY <1>2, <2>0, <3>1, FreshStutter DEF Open
    <2> QED
      BY <1>2, <2>1, <2>2 DEF Open
  <1>3. CASE NotFound \/ Opened \/ Discovered \/ NotDiscovered
    <2>1. UNCHANGED <<queue, link, characteristics, discovering, ble, platform_connected>>
      BY <1>3 DEF NotFound, Opened, Discovered, NotDiscovered, Platform!TakeResult
    <2>2. Fresh'
      BY <2>1, FreshStutter
    <2> QED
      BY <1>3, <2>1, <2>2 DEF NotFound, Opened, Discovered, NotDiscovered, Platform!TakeResult
  <1>4. CASE Discover
    <2>1. UNCHANGED <<queue, link, characteristics, discovering, ble, platform_connected>>
      BY <1>4 DEF Discover, Platform!WaitForCharacteristics
    <2>2. Fresh'
      BY <2>1, FreshStutter
    <2> QED
      BY <1>4, <2>1, <2>2 DEF Discover, Platform!WaitForCharacteristics
  <1> QED
    BY <1>1, <1>2, <1>3, <1>4

(* The callbacks: each is run in the phase that its connection is in.      *)
LEMMA LifeCallbacks ==
    ASSUME Life, Platform!BleStep, UNCHANGED wrapper
    PROVE  CallsInPlace' /\ Phases' /\ Fresh'
  <1> USE LifeParts
      DEF CallsInPlace, Phases, Closed, Abandoned, Usable, Platform!AllFound, wrapper
  <1>0. queue \in Seq(Event)
    BY EventProps
  <1>1. ASSUME NEW kind, Platform!Runs({kind})
        PROVE  1 \in 1 .. Len(queue) /\ queue[1].kind = kind /\ ~ NoneIn(kind)
    BY <1>0, <1>1, TailElements DEF Platform!Runs, NoneIn
  <1>2. CASE Platform!DidConnect
    <2>1. link = "up" /\ characteristics = {} /\ UNCHANGED <<link, characteristics, call>>
      BY <1>1, <1>2 DEF Platform!DidConnect, Fresh, NoTrace, ConnectedFirst
    <2>2. ~Closed /\ ~Abandoned /\ ~Usable
      BY <2>1 DEF Platform!Properties
    <2> QED
      BY <1>2, <2>1, <2>2, FreshConnected
  <1>3. CASE Platform!DidLose
    <2>1. ~Usable
      BY <1>1, <1>3, UsableIsAnnounced DEF Platform!DidLose
    <2>2. UNCHANGED <<link, characteristics, call>> /\ platform_connected' = FALSE
      BY <1>3 DEF Platform!DidLose
    <2> QED
      BY <1>3, <2>1, <2>2, FreshLost
  <1>4. CASE Platform!DidDiscoverCharacteristic
    <2>1. link = "up" /\ ~Usable
      BY <1>1, <1>4, UsableIsAnnounced DEF Platform!DidDiscoverCharacteristic, Fresh, NoTrace
    <2>2. UNCHANGED <<link, call, platform_connected>>
      BY <1>4 DEF Platform!DidDiscoverCharacteristic
    <2> QED
      BY <1>4, <2>1, <2>2, FreshDiscovered
  <1>5. CASE Platform!SetsBase \/ Platform!NotifyAll
    <2>1. UNCHANGED <<queue, link, characteristics, discovering, platform_connected>>
      BY <1>5 DEF Platform!SetsBase, Platform!NotifyAll, Platform!own
    <2>2. Fresh'
      BY <1>5, <2>1, FreshStutter DEF Platform!SetsBase, Platform!NotifyAll
    <2> QED
      BY <1>5, <2>1, <2>2 DEF Platform!SetsBase, Platform!NotifyAll, Platform!own
  <1> QED
    BY <1>2, <1>3, <1>4, <1>5 DEF Platform!BleStep

(* The calls and the radio: on a steady link a wait that passes its        *)
(* deadline waits for a link that never came up.                           *)
LEMMA LifeCalls ==
    ASSUME Life, Steady, Platform!ClientStep \/ Platform!RadioStep, UNCHANGED wrapper
    PROVE  CallsInPlace' /\ Phases' /\ Fresh'
  <1> USE LifeParts
      DEF CallsInPlace, Phases, Closed, Abandoned, Usable, Platform!AllFound, wrapper, Steady
  <1>1. CASE Platform!ClientStep
    <2>1. /\ UNCHANGED <<queue, link, characteristics, discovering, ble>>
          /\ call # "open" => UNCHANGED platform_connected
      BY <1>1 DEF Platform!ClientStep, Platform!ConnectSetsPlatform, Platform!ConnectSetsBase,
                  Platform!DisconnectSetsBase, Platform!CheckCharacteristics,
                  Platform!WaitDeadline
    <2>2. Fresh'
      BY <2>1, FreshStutter
    <2>3. Platform!AllFound => link = "up"
      BY DEF Platform!Properties, Fresh, NoTrace
    <2>4. CASE Platform!ConnectSetsPlatform \/ Platform!ConnectSetsBase
      BY <2>1, <2>2, <2>4 DEF Platform!ConnectSetsPlatform, Platform!ConnectSetsBase
    <2>5. CASE Platform!DisconnectSetsBase BY <2>1, <2>2, <2>5 DEF Platform!DisconnectSetsBase
    <2>6. CASE Platform!CheckCharacteristics
      BY <2>1, <2>2, <2>3, <2>6 DEF Platform!CheckCharacteristics
    <2>7. CASE Platform!WaitDeadline
      BY <2>1, <2>2, <2>3, <2>7 DEF Platform!WaitDeadline, Platform!Hopeless
    <2> QED
      BY <1>1, <2>4, <2>5, <2>6, <2>7 DEF Platform!ClientStep
  <1>2. CASE Platform!LinkComesUp
    <2>1. Fresh'
      BY <1>2, FreshBegins DEF Platform!LinkComesUp
    <2> QED
      BY <1>2, <2>1 DEF Platform!LinkComesUp
  <1>3. CASE Platform!LinkGoesDown
    <2>1. link = "connecting" /\ characteristics = {}
      BY <1>3 DEF Platform!LinkGoesDown, Fresh, NoTrace
    <2>2. Fresh'
      BY <1>3, <2>1, FreshEnds DEF Platform!LinkGoesDown, Fresh, NoTrace
    <2> QED
      BY <1>3, <2>1, <2>2 DEF Platform!LinkGoesDown
  <1>4. CASE Platform!ReportCharacteristic
    BY <1>4, FreshReported DEF Platform!ReportCharacteristic
  <1> QED
    BY <1>1, <1>2, <1>3, <1>4 DEF Platform!RadioStep

LEMMA LifeStep == Steady /\ Life /\ [Next]_vars => Life'
  <1> SUFFICES ASSUME Steady, Life, [Next]_vars
               PROVE  CallsInPlace' /\ Phases' /\ Fresh'
    BY SessionLinkStep DEF Life
  <1> USE LifeParts, ManagerKeepsQueue
  <1>1. ASSUME UNCHANGED <<platformOwn, queue>>, ble' \in {"setUp", "setDown"} => ble' = ble
        PROVE  Fresh'
    BY <1>1, FreshStutter DEF platformOwn
  <1>2. ASSUME UNCHANGED <<platformOwn, wrapper>>
        PROVE  CallsInPlace' /\ Phases'
    BY <1>2 DEF CallsInPlace, Phases, Closed, Abandoned, Usable, Platform!AllFound,
                platformOwn, wrapper
  <1>3. CASE UserRequest \/ Dropped \/ Load
    <2>1. UNCHANGED <<platformOwn, queue, ble>>
      BY <1>3 DEF UserRequest, ConnectToDevice, RequestDisconnect, StartDemo, StopDemo,
                  SwitchVehicleType, Dropped, Load
    <2> QED
      BY <1>1, <1>3, <2>1, LifeWrapper
  <1>4. CASE StopPolling \/ StopCAN \/ Initialize \/ Start
    <2>1. UNCHANGED <<platformOwn, queue, ble>>
      BY <1>4 DEF StopPolling, StopCAN, Initialize, Start, ByManager, Base!InitializeELM327,
                  Base!InitializeCANMonitor, Base!StartOBD2Polling, Base!StopOBD2Polling,
                  Base!StartCANMonitor, Base!StopCANMonitor, Base!adapter
    <2> QED
      BY <1>1, <1>4, <2>1, LifeWrapper
  <1>5. CASE Drop \/ Open \/ NotFound \/ Opened \/ Discover \/ Discovered \/ NotDiscovered
    BY <1>5, LifeRequest
  <1>6. CASE ManagerClientStep \/ PollingThread \/ Rewait
    <2>1. UNCHANGED <<platformOwn, wrapper, queue>>
      BY <1>6 DEF ManagerClientStep, PollingThread, Rewait, ByManager
    <2>2. UNCHANGED ble
      BY <1>6 DEF ManagerClientStep, PollingThread, Rewait, ByManager, Base!Rewait,
                  Base!ClientStep, Base!SendInitCommand, Base!EnterInitWait,
                  Base!FinishInitWait, Base!SendCANCommand, Base!EnterCANMode, Base!StopSetReady,
                  Base!StopNotifyOne, Base!Join, Base!StopCANSend, Base!PollStep,
                  Base!PollSetup, Base!PollCycle, Base!PollNext, Base!PollQuery,
                  Base!PollEnterWait, Base!PollFinishWait, Base!PollPause, Base!PollGoes
    <2> QED
      BY <1>1, <1>2, <2>1, <2>2
  <1>7. CASE PlatformClientStep \/ Radio
    BY <1>7, LifeCalls DEF PlatformClientStep, Radio, ByPlatform
  <1>8. CASE BleQueue
    <2>1. CASE ByManager(Base!ReceiveNotification)
      <3>1. Fresh'
        BY <2>1, FreshNotification DEF ByManager, platformOwn, Base!ReceiveNotification
      <3> QED
        BY <1>2, <1>8, <2>1, <3>1 DEF ByManager, BleQueue
    <2>2. CASE ByManager(Base!BleNotifyOne)
      BY <1>1, <1>2, <1>8, <2>2 DEF ByManager, BleQueue, Base!BleNotifyOne
    <2>3. CASE ByPlatform(Platform!BleStep)
      BY <1>8, <2>3, LifeCallbacks DEF ByPlatform, BleQueue
    <2> QED
      BY <1>8, <2>1, <2>2, <2>3 DEF BleQueue, ByManager
  <1>9. CASE Adapter
    <2>1. PICK k \in Notifications : Base!AdapterAnswers(k)
      BY <1>9 DEF Adapter, ByManager
    <2>2. Fresh'
      BY <1>9, <2>1, FreshData, Counts DEF Adapter, ByManager, platformOwn, Base!AdapterAnswers
    <2> QED
      BY <1>2, <1>9, <2>2 DEF Adapter, ByManager
  <1>10. CASE UNCHANGED vars
    BY <1>1, <1>2, <1>10 DEF vars
  <1> QED
    BY <1>3, <1>4, <1>5, <1>6, <1>7, <1>8, <1>9, <1>10 DEF Next, RequestStep

LEMMA LifeInit == Init => Life
  <1> SUFFICES ASSUME Init PROVE Life
    OBVIOUS
  <1>1. LinkInv
    BY SessionInitTypes
       DEF Init, Platform!Init, LinkInv, Platform!LinkIsHeld, Platform!LinkIsAnnounced
  <1>2. CallsInPlace /\ Phases
    BY DEF Init, Platform!Init, CallsInPlace, Phases, Closed, Abandoned, Usable
  <1>3. Fresh
    BY DEF Init, Platform!Init, Fresh, NoTrace, ConnectedFirst, ReportedOnce, NoneIn
  <1> QED
    BY <1>1, <1>2, <1>3 DEF Life

LEMMA LifeAlways ==
    ASSUME Steady
    PROVE  Spec => []Life
  BY LifeInit, LifeStep, PTL DEF Spec

-----------------------------------------------------------------------------
(* A demo is over before a connection is asked for, and a connection is    *)
(* over before a demo starts.                                              *)
DemoInPlace == is_demo => app = "idle" /\ ~platform_connected

(* Between two requests isConnected() says what the link is.               *)
LEMMA IdleTellsLink ==
    ASSUME Life, app = "idle"
    PROVE  /\ platform_connected => link = "up"
           /\ ~platform_connected => link = "down"
  BY DEF Life, Phases, Closed, Usable

LEMMA IdleStaysIdle ==
    ASSUME Life, Life', Platform!ClientStep \/ Platform!BleStep \/ Platform!RadioStep,
           UNCHANGED wrapper, app = "idle"
    PROVE  UNCHANGED platform_connected
  <1>0. platform_connected \in BOOLEAN /\ platform_connected' \in BOOLEAN
    BY TypeParts DEF Life, LinkInv, PlatformTypes
  <1>1. CASE UNCHANGED link
    BY <1>0, <1>1 DEF Life, Phases, Closed, Usable, wrapper
  <1>2. CASE link' # link
    BY <1>2
       DEF Platform!ClientStep, Platform!ConnectSetsPlatform, Platform!ConnectSetsBase,
           Platform!DisconnectSetsBase, Platform!CheckCharacteristics, Platform!WaitDeadline,
           Platform!BleStep,
           Platform!DidConnect, Platform!DidLose, Platform!SetsBase,
           Platform!DidDiscoverCharacteristic, Platform!NotifyAll, Platform!RadioStep,
           Platform!LinkComesUp, Platform!LinkGoesDown, Platform!ReportCharacteristic,
           Platform!own
  <1> QED
    BY <1>1, <1>2

(* What a step of a thread other than the client's wrapper does to the     *)
(* wrapper's view: nothing.                                                *)
Inside ==
    \/ ManagerClientStep \/ PlatformClientStep \/ PollingThread \/ Rewait
    \/ BleQueue \/ Radio \/ Adapter

LEMMA InsideKeepsIdle ==
    ASSUME Life, Life', Inside
    PROVE  UNCHANGED wrapper /\ (app = "idle" => UNCHANGED platform_connected)
  <1>1. UNCHANGED wrapper
    BY DEF Inside, ManagerClientStep, PlatformClientStep, PollingThread, Rewait, BleQueue,
           Radio, Adapter
  <1>2. CASE UNCHANGED platformOwn
    BY <1>1, <1>2 DEF platformOwn
  <1>3. CASE Platform!ClientStep \/ Platform!BleStep \/ Platform!RadioStep
    BY <1>1, <1>3, IdleStaysIdle
  <1>4. CASE BleQueue
    BY <1>1, <1>2, <1>3, <1>4 DEF BleQueue, ByManager, ByPlatform
  <1> QED
    BY <1>1, <1>2, <1>3, <1>4
       DEF Inside, ManagerClientStep, PlatformClientStep, PollingThread, Rewait, Radio, Adapter,
           ByManager, ByPlatform

LEMMA DemoStep == Steady /\ Life /\ DemoInPlace /\ [Next]_vars => DemoInPlace'
  <1> SUFFICES ASSUME Steady, Life, DemoInPlace, [Next]_vars PROVE DemoInPlace'
    OBVIOUS
  <1>0. Life'
    BY LifeStep
  <1> USE DEF DemoInPlace
  <1>1. CASE UserRequest
    BY <1>1 DEF UserRequest, ConnectToDevice, RequestDisconnect, StartDemo, StopDemo,
                SwitchVehicleType, platformOwn, Does
  <1>2. CASE Dropped
    BY <1>2, LifeParts
       DEF Dropped, Does, Returned, Phases, Closed, platformOwn
  <1>3. CASE RequestStep /\ ~Dropped
    <2>1. app # "idle" /\ is_demo' = is_demo
      BY <1>3 DEF RequestStep, StopPolling, StopCAN, Drop, Load, Open, NotFound, Opened,
                  Discover, Discovered, NotDiscovered, Initialize, Start, Does, Then, Fails,
                  wrapper
    <2> QED
      BY <2>1
  <1>4. CASE Inside
    BY <1>0, <1>4, InsideKeepsIdle DEF wrapper
  <1>5. CASE UNCHANGED vars
    BY <1>5 DEF vars, wrapper, platformOwn
  <1> QED
    BY <1>1, <1>2, <1>3, <1>4, <1>5 DEF Next, RequestStep, Inside

(* On a steady link the demo simulator never runs beside a BLE link,       *)
(* whichever requests the user makes in whichever order: startDemo and     *)
(* connectToDevice decide by isConnected(), and isConnected() tells the    *)
(* truth whenever they ask it.                                             *)
THEOREM SessionDemoHasNoLink ==
    ASSUME Steady
    PROVE  Spec => []DemoHasNoLink
  <1>1. Init => DemoInPlace
    BY DEF Init, DemoInPlace
  <1>2. Life /\ DemoInPlace => DemoHasNoLink
    BY IdleTellsLink DEF DemoInPlace, DemoHasNoLink
  <1> QED
    BY <1>1, <1>2, LifeAlways, DemoStep, PTL DEF Spec

-----------------------------------------------------------------------------
(* Where the manager's threads may be while the wrapper is at each of its  *)
(* steps, for a vehicle whose type is not switched under a connection.     *)
NoSwitch == "switch" \notin Requests

Stopping == op \in {"stopSet", "stopWake", "join"}
Initializing == op \in {"initSend", "initGate", "initWait"}

OpsInPlace ==
    /\ Stopping => app \in {"stopCAN", "drop"}
    /\ op = "stopCanSend" => app = "drop"
    /\ Initializing => app = "start" /\ protocol = "OBD2"
    /\ op \in {"canSend", "canMode"} => app = "start" /\ protocol = "CAN"

PollerInPlace ==
    poll # "none" => /\ protocol = "OBD2"
                     /\ \/ app = "idle" /\ platform_connected
                        \/ app = "stopPolling"
                        \/ Stopping

ModeInPlace ==
    /\ app \in {"drop", "dropped", "load", "open", "discover", "initialize"} => ~can_mode
    /\ app = "idle" /\ ~platform_connected => ~can_mode
    /\ (app = "idle" /\ platform_connected) \/ app = "stopPolling" =>
           (can_mode <=> protocol = "CAN")
    /\ app = "start" => (can_mode => protocol = "CAN")
    /\ app = "stopPolling" /\ goal = "disconnect" => protocol = "OBD2"

(* The two waiters of the gate are never there at the same time.           *)
WaitsInPlace ==
    /\ waiting[Base!Client] # "no" => op = "initWait"
    /\ waiting[Base!Poller] # "no" => poll = "wait"

InPlace == OpsInPlace /\ PollerInPlace /\ ModeInPlace /\ WaitsInPlace /\ NoLostWakeup

(* Life and InPlace together, with what they rest on.                      *)
Ready == Life /\ HandleSafe /\ InPlace

LEMMA ReadyParts ==
    ASSUME Ready
    PROVE  /\ CallsInPlace /\ Phases /\ TypeOK
           /\ HandleSafe /\ OpsInPlace /\ PollerInPlace /\ ModeInPlace /\ WaitsInPlace
           /\ app \in Steps /\ goal \in Goals /\ protocol \in Protocols
           /\ op \in Base!Ops /\ poll \in Base!PollStates /\ call \in Platform!Calls
           /\ can_mode \in BOOLEAN /\ platform_connected \in BOOLEAN
           /\ polling_active \in BOOLEAN /\ prompt_ready \in BOOLEAN
           /\ waiting \in [{Base!Client, Base!Poller} -> Base!Gate!WaitStates]
           /\ Usable => platform_connected
  BY LifeParts, TypeParts
     DEF Ready, InPlace, ManagerTypes, PlatformTypes, WrapperTypes, Base!Gate!GateTypeOK

LEMMA GateStutter ==
    ASSUME WaitsInPlace, NoLostWakeup, UNCHANGED Base!gate,
           op = "initWait" => op' = op, poll = "wait" => poll' = poll
    PROVE  WaitsInPlace' /\ NoLostWakeup'
  BY DEF WaitsInPlace, NoLostWakeup, Base!Gate!NoLostWakeup, Base!gate

(* The wrapper's steps: a request starts the manager's operations one at a *)
(* time and only in their places.                                          *)
LEMMA InPlaceRequest ==
    ASSUME NoSwitch, Ready, Life', UserRequest \/ RequestStep
    PROVE  InPlace'
  <1> USE ReadyParts
      DEF OpsInPlace, PollerInPlace, ModeInPlace, Stopping, Initializing, Does, Returned, Then,
          Fails, ByManager, ByPlatform, managerOwn, Protocols
  <1>0. ASSUME UNCHANGED Base!gate, op = "initWait" => op' = op, poll = "wait" => poll' = poll
        PROVE  WaitsInPlace' /\ NoLostWakeup'
    BY <1>0, GateStutter DEF Ready, InPlace
  <1>1. CASE UserRequest
    <2>1. UNCHANGED <<managerOwn, platformOwn>> /\ protocol' = protocol
      BY <1>1 DEF NoSwitch, UserRequest, ConnectToDevice, RequestDisconnect, StartDemo, StopDemo
    <2>2. WaitsInPlace' /\ NoLostWakeup'
      BY <1>0, <2>1 DEF Base!gate
    <2>3. OpsInPlace' /\ PollerInPlace' /\ ModeInPlace'
      BY <1>1, <2>1 DEF NoSwitch, UserRequest, ConnectToDevice, RequestDisconnect, StartDemo,
                        StopDemo, platformOwn
    <2> QED
      BY <2>2, <2>3 DEF InPlace
  <1>2. CASE StopPolling
    <2>1. WaitsInPlace' /\ NoLostWakeup'
      BY <1>0, <1>2 DEF StopPolling, Base!StopOBD2Polling
    <2>2. OpsInPlace' /\ PollerInPlace' /\ ModeInPlace'
      BY <1>2 DEF StopPolling, Base!StopOBD2Polling, platformOwn
    <2> QED
      BY <2>1, <2>2 DEF InPlace
  <1>3. CASE StopCAN
    <2>1. WaitsInPlace' /\ NoLostWakeup'
      BY <1>0, <1>3 DEF StopCAN, Base!StopCANMonitor, Base!polling
    <2>2. OpsInPlace' /\ PollerInPlace' /\ ModeInPlace'
      BY <1>3 DEF StopCAN, Base!StopCANMonitor, platformOwn, Base!polling
    <2> QED
      BY <2>1, <2>2 DEF InPlace
  <1>4. CASE Drop \/ Open \/ NotFound \/ Opened \/ Discover \/ Discovered \/ NotDiscovered
    <2>1. UNCHANGED managerOwn /\ protocol' = protocol
      BY <1>4 DEF Drop, Open, NotFound, Opened, Discover, Discovered, NotDiscovered, wrapper
    <2>2. WaitsInPlace' /\ NoLostWakeup'
      BY <1>0, <2>1 DEF Base!gate
    <2>3. OpsInPlace' /\ PollerInPlace' /\ ModeInPlace'
      <3>1. app' = "idle" => ~platform_connected'
        BY <1>4 DEF Drop, Open, NotFound, Opened, Discover, Discovered, NotDiscovered, wrapper,
                    Platform!TakeResult, Phases, Closed
      <3> QED
        BY <1>4, <2>1, <3>1
           DEF Drop, Open, NotFound, Opened, Discover, Discovered, NotDiscovered, wrapper
    <2> QED
      BY <2>2, <2>3 DEF InPlace
  <1>5. CASE Dropped \/ Load
    <2>1. UNCHANGED <<managerOwn, platformOwn>>
      BY <1>5 DEF Dropped, Load
    <2>2. WaitsInPlace' /\ NoLostWakeup'
      BY <1>0, <2>1 DEF Base!gate
    <2>3. OpsInPlace' /\ PollerInPlace' /\ ModeInPlace'
      BY <1>5, <2>1 DEF Dropped, Load, platformOwn, Phases, Closed
    <2> QED
      BY <2>2, <2>3 DEF InPlace
  <1>6. CASE Initialize
    <2>1. WaitsInPlace' /\ NoLostWakeup'
      BY <1>0, <1>6 DEF Initialize, Base!InitializeCANMonitor, Base!InitializeELM327, Base!polling
    <2>2. OpsInPlace' /\ PollerInPlace' /\ ModeInPlace'
      BY <1>6 DEF Initialize, Base!InitializeCANMonitor, Base!InitializeELM327, platformOwn,
                  Base!polling
    <2> QED
      BY <2>1, <2>2 DEF InPlace
  <1>7. CASE Start
    <2>1. poll = "none" /\ platform_connected
      BY <1>7 DEF Start, Usable
    <2>2. WaitsInPlace' /\ NoLostWakeup'
      BY <1>0, <1>7, <2>1 DEF Start, Base!StartCANMonitor, Base!StartOBD2Polling, Base!polling
    <2>3. OpsInPlace' /\ PollerInPlace' /\ ModeInPlace'
      BY <1>7, <2>1 DEF Start, Base!StartCANMonitor, Base!StartOBD2Polling, platformOwn,
                        Base!polling
    <2> QED
      BY <2>2, <2>3 DEF InPlace
  <1> QED
    BY <1>1, <1>2, <1>3, <1>4, <1>5, <1>6, <1>7 DEF RequestStep

(* The client thread inside them: only one thread waits at the gate, so    *)
(* that notify_one cannot wake the wrong one.                              *)
LEMMA OneWaits ==
    ASSUME Ready, waiting[Base!Client] # "no"
    PROVE  waiting[Base!Poller] = "no"
  BY ReadyParts
     DEF WaitsInPlace, OpsInPlace, PollerInPlace, Stopping, Initializing, Base!Client, Base!Poller

LEMMA NotifyInPlace ==
    ASSUME Ready, NEW n, Base!Gate!NotifyOne(n), op # "initWait" \/ op' = op, poll' = poll
    PROVE  WaitsInPlace' /\ NoLostWakeup'
  <1> USE ReadyParts DEF WaitsInPlace, NoLostWakeup, Base!Gate!NoLostWakeup
  <1>1. prompt_ready' = prompt_ready
    BY DEF Base!Gate!NotifyOne
  <1>2. ASSUME NEW t \in {Base!Client, Base!Poller}, waiting[t] = "blocked",
               waiting' = [waiting EXCEPT ![t] = "woken"]
        PROVE  /\ \A u \in {Base!Client, Base!Poller} : waiting'[u] # "blocked"
               /\ \A u \in {Base!Client, Base!Poller} :
                     waiting'[u] # "no" => waiting[u] # "no"
    <2>1. \A u \in {Base!Client, Base!Poller} : u # t => waiting[u] = "no"
      BY <1>2, OneWaits
    <2> QED
      BY <1>2, <2>1
  <1>3. CASE \A t \in {Base!Client, Base!Poller} : waiting[t] # "blocked"
    BY <1>3 DEF Base!Gate!NotifyOne
  <1> QED
    BY <1>1, <1>2, <1>3 DEF Base!Gate!NotifyOne

LEMMA InPlaceClient ==
    ASSUME Ready, NEW up, Base!ClientStep(up), UNCHANGED <<platformOwn, wrapper>>
    PROVE  InPlace'
  <1> USE ReadyParts
      DEF OpsInPlace, PollerInPlace, ModeInPlace, Stopping, Initializing, platformOwn, wrapper
  <1>0. ASSUME UNCHANGED Base!gate, op = "initWait" => op' = op, poll = "wait" => poll' = poll
        PROVE  WaitsInPlace' /\ NoLostWakeup'
    BY <1>0, GateStutter DEF Ready, InPlace
  <1>1. CASE \/ Base!SendInitCommand(up) \/ Base!SendCANCommand(up) \/ Base!EnterCANMode
             \/ Base!StopCANSend(up) \/ Base!Join
    <2>1. WaitsInPlace' /\ NoLostWakeup'
      BY <1>0, <1>1
         DEF Base!SendInitCommand, Base!SendCANCommand, Base!EnterCANMode, Base!StopCANSend,
             Base!Join, Base!polling
    <2>2. OpsInPlace' /\ PollerInPlace' /\ ModeInPlace'
      BY <1>1
         DEF Base!SendInitCommand, Base!SendCANCommand, Base!EnterCANMode, Base!StopCANSend,
             Base!Join, Base!polling
    <2> QED
      BY <2>1, <2>2 DEF InPlace
  <1>2. CASE Base!EnterInitWait
    <2>1. ~prompt_ready'
      BY <1>2 DEF Base!EnterInitWait, Base!Gate!BeginWait
    <2>2. waiting[Base!Poller] = "no"
      BY <1>2 DEF Base!EnterInitWait, WaitsInPlace
    <2>3. waiting'[Base!Poller] = "no"
      BY <1>2, <2>2 DEF Base!EnterInitWait, Base!Gate!BeginWait, Base!Client, Base!Poller
    <2> QED
      BY <1>2, <2>1, <2>3
         DEF InPlace, WaitsInPlace, NoLostWakeup, Base!Gate!NoLostWakeup, Base!EnterInitWait,
             Base!polling
  <1>3. CASE Base!FinishInitWait
    <2>1. /\ waiting' = [waiting EXCEPT ![Base!Client] = "no"]
          /\ UNCHANGED <<prompt_ready, notifying>>
      BY <1>3 DEF Base!FinishInitWait, Base!WaitReturns, Base!Gate!WaitSucceeds,
                  Base!Gate!WaitTimesOut
    <2>2. WaitsInPlace' /\ NoLostWakeup'
      BY <1>3, <2>1 DEF Base!FinishInitWait, WaitsInPlace, NoLostWakeup,
                        Base!Gate!NoLostWakeup, Base!polling, Ready, InPlace
    <2>3. OpsInPlace' /\ PollerInPlace' /\ ModeInPlace'
      BY <1>3 DEF Base!FinishInitWait, Base!polling
    <2> QED
      BY <2>2, <2>3 DEF InPlace
  <1>4. CASE Base!StopSetReady
    <2>1. WaitsInPlace' /\ NoLostWakeup'
      BY <1>4 DEF Base!StopSetReady, Base!Gate!SetReady, WaitsInPlace, NoLostWakeup,
                  Base!Gate!NoLostWakeup, Base!polling
    <2>2. OpsInPlace' /\ PollerInPlace' /\ ModeInPlace'
      BY <1>4 DEF Base!StopSetReady, Base!polling
    <2> QED
      BY <2>1, <2>2 DEF InPlace
  <1>5. CASE Base!StopNotifyOne
    <2>1. WaitsInPlace' /\ NoLostWakeup'
      BY <1>5, NotifyInPlace DEF Base!StopNotifyOne, Base!polling
    <2>2. OpsInPlace' /\ PollerInPlace' /\ ModeInPlace'
      BY <1>5 DEF Base!StopNotifyOne, Base!polling
    <2> QED
      BY <2>1, <2>2 DEF InPlace
  <1> QED
    BY <1>1, <1>2, <1>3, <1>4, <1>5 DEF Base!ClientStep

(* What the polling thread does away from the gate.                        *)
PollsOutsideGate(up) ==
    Base!PollSetup \/ Base!PollCycle \/ Base!PollNext \/ Base!PollQuery(up) \/ Base!PollPause

(* The polling thread is there only while there is a place for it.         *)
LEMMA InPlacePoller ==
    ASSUME Ready, NEW up, Base!PollStep(up), UNCHANGED <<platformOwn, wrapper>>
    PROVE  InPlace'
  <1> USE ReadyParts
  <1>1. PICK from, to \in Base!PollStates \ {"none"} : Base!PollGoes(from, to)
    BY DEF Base!PollStep, Base!PollSetup, Base!PollCycle, Base!PollNext, Base!PollQuery,
           Base!PollEnterWait, Base!PollFinishWait, Base!PollPause, Base!PollStates
  <1>2. OpsInPlace' /\ PollerInPlace' /\ ModeInPlace'
    BY <1>1 DEF Base!PollGoes, OpsInPlace, PollerInPlace, ModeInPlace, Stopping, Initializing,
                platformOwn, wrapper
  <1>3. CASE Base!PollEnterWait
    BY <1>1, <1>2, <1>3
       DEF InPlace, WaitsInPlace, NoLostWakeup, Base!Gate!NoLostWakeup, Base!PollEnterWait,
           Base!Gate!BeginWait, Base!PollGoes, Base!Client, Base!Poller
  <1>4. CASE Base!PollFinishWait
    <2>1. /\ waiting' = [waiting EXCEPT ![Base!Poller] = "no"]
          /\ UNCHANGED <<prompt_ready, notifying>>
      BY <1>4 DEF Base!PollFinishWait, Base!WaitReturns, Base!Gate!WaitSucceeds,
                  Base!Gate!WaitTimesOut
    <2> QED
      BY <1>1, <1>2, <2>1
         DEF Ready, InPlace, WaitsInPlace, NoLostWakeup, Base!Gate!NoLostWakeup, Base!PollGoes
  <1>5. CASE PollsOutsideGate(up)
    <2>1. UNCHANGED <<Base!gate, op>> /\ poll # "wait"
      BY <1>5 DEF PollsOutsideGate, Base!PollSetup, Base!PollCycle, Base!PollNext,
                  Base!PollQuery, Base!PollPause, Base!PollGoes
    <2> QED
      BY <1>2, <2>1, GateStutter DEF Ready, InPlace
  <1> QED
    BY <1>3, <1>4, <1>5 DEF Base!PollStep, PollsOutsideGate

(* The BLE queue and a waiter that was woken in vain.                      *)
LEMMA InPlaceNotification ==
    ASSUME Ready, Base!Rewait \/ Base!ReceiveNotification \/ Base!BleNotifyOne,
           UNCHANGED <<platformOwn, wrapper>>
    PROVE  InPlace'
  <1> USE ReadyParts
  <1>1. UNCHANGED <<op, poll, can_mode>>
    BY DEF Base!Rewait, Base!ReceiveNotification, Base!BleNotifyOne, Base!polling
  <1>2. OpsInPlace' /\ PollerInPlace' /\ ModeInPlace'
    BY <1>1 DEF OpsInPlace, PollerInPlace, ModeInPlace, Stopping, Initializing,
                platformOwn, wrapper
  <1>3. CASE Base!Rewait
    <2>1. PICK t \in {Base!Client, Base!Poller} : Base!Gate!WaitAgain(t)
      BY <1>3 DEF Base!Rewait
    <2> QED
      BY <1>1, <1>2, <2>1
         DEF Base!Gate!WaitAgain, InPlace, WaitsInPlace, NoLostWakeup, Base!Gate!NoLostWakeup
  <1>4. CASE Base!ReceiveNotification
    <2>1. UNCHANGED Base!gate \/ Base!Gate!SetReady(Base!BleQueue)
      BY <1>4 DEF Base!ReceiveNotification, Base!Gate!ScanNotification, Base!gate,
                  Base!Gate!gateVars
    <2>2. CASE UNCHANGED Base!gate
      BY <1>1, <1>2, <2>2, GateStutter DEF Ready, InPlace
    <2>3. CASE Base!Gate!SetReady(Base!BleQueue)
      BY <1>1, <1>2, <2>3
         DEF Base!Gate!SetReady, InPlace, WaitsInPlace, NoLostWakeup, Base!Gate!NoLostWakeup
    <2> QED
      BY <2>1, <2>2, <2>3
  <1>5. CASE Base!BleNotifyOne
    BY <1>1, <1>2, <1>5, NotifyInPlace DEF Base!BleNotifyOne, InPlace
  <1> QED
    BY <1>3, <1>4, <1>5

(* What leaves the manager alone.                                          *)
LEMMA InPlaceStutter ==
    ASSUME Ready, UNCHANGED <<managerOwn, wrapper>>,
           app = "idle" => UNCHANGED platform_connected
    PROVE  InPlace'
  <1>1. WaitsInPlace' /\ NoLostWakeup'
    BY GateStutter DEF Ready, InPlace, managerOwn, Base!gate
  <1>2. OpsInPlace' /\ PollerInPlace' /\ ModeInPlace'
    BY ReadyParts DEF OpsInPlace, PollerInPlace, ModeInPlace, Stopping, Initializing,
                      managerOwn, wrapper
  <1> QED
    BY <1>1, <1>2 DEF InPlace

LEMMA ReadyStep == Steady /\ NoSwitch /\ Ready /\ [Next]_vars => Ready'
  <1> SUFFICES ASSUME Steady, NoSwitch, Ready, [Next]_vars PROVE InPlace'
    BY LifeStep, HandleSafeStep DEF Ready
  <1>0. Life /\ Life'
    BY LifeStep DEF Ready
  <1>1. CASE UserRequest \/ RequestStep BY <1>0, <1>1, InPlaceRequest
  <1>2. CASE ManagerClientStep
    BY <1>2, InPlaceClient DEF ManagerClientStep, ByManager
  <1>3. CASE PlatformClientStep \/ Radio
    BY <1>0, <1>3, InsideKeepsIdle, InPlaceStutter
       DEF PlatformClientStep, Radio, ByPlatform, Inside
  <1>4. CASE PollingThread BY <1>4, InPlacePoller DEF PollingThread, ByManager
  <1>5. CASE Rewait BY <1>5, InPlaceNotification DEF Rewait, ByManager
  <1>6. CASE BleQueue
    <2>1. UNCHANGED wrapper /\ (app = "idle" => UNCHANGED platform_connected)
      BY <1>0, <1>6, InsideKeepsIdle DEF Inside
    <2>2. CASE ByManager(Base!ReceiveNotification \/ Base!BleNotifyOne)
      BY <2>1, <2>2, InPlaceNotification DEF ByManager
    <2>3. CASE ByPlatform(Platform!BleStep)
      BY <2>1, <2>3, InPlaceStutter DEF ByPlatform
    <2> QED
      BY <1>6, <2>2, <2>3 DEF BleQueue
  <1>7. CASE Adapter
    BY <1>7, InPlaceStutter
       DEF Adapter, ByManager, Base!AdapterAnswers, Base!gate, Base!polling, managerOwn,
           platformOwn
  <1>8. CASE UNCHANGED vars
    BY <1>8, InPlaceStutter DEF vars, platformOwn
  <1> QED
    BY <1>1, <1>2, <1>3, <1>4, <1>5, <1>6, <1>7, <1>8 DEF Next

LEMMA ReadyInit == Init => Ready
  <1> SUFFICES ASSUME Init PROVE Ready
    OBVIOUS
  <1>1. HandleSafe
    BY DEF Init, Base!Init, HandleSafe
  <1>2. OpsInPlace /\ PollerInPlace /\ ModeInPlace
    BY DEF Init, Base!Init, OpsInPlace, PollerInPlace, ModeInPlace, Stopping, Initializing
  <1>3. WaitsInPlace /\ NoLostWakeup
    BY DEF Init, Base!Init, Base!Gate!GateInit, WaitsInPlace, NoLostWakeup,
           Base!Gate!NoLostWakeup
  <1> QED
    BY <1>1, <1>2, <1>3, LifeInit DEF Ready, InPlace

LEMMA ReadyAlways ==
    ASSUME Steady, NoSwitch
    PROVE  Spec => []Ready
  BY ReadyInit, ReadyStep, PTL DEF Spec

(* On a steady link no prompt is left to the timeout: the notify_one that  *)
(* follows each prompt reaches the one thread that waits for it, although  *)
(* initializeELM327, the polling thread, stopOBD2Polling and the BLE queue *)
(* share one condition variable.                                           *)
THEOREM SessionLosesNoWakeup ==
    ASSUME Steady, NoSwitch
    PROVE  Spec => []NoLostWakeup
  <1>1. Ready => NoLostWakeup
    BY DEF Ready, InPlace
  <1> QED
    BY <1>1, ReadyAlways, PTL

(* On a steady link an established session reads what the adapter sends    *)
(* the way the protocol of its vehicle says, whatever connections, demos   *)
(* and failures came before.                                               *)
THEOREM SessionModeMatches ==
    ASSUME Steady, NoSwitch
    PROVE  Spec => []ModeMatches
  <1>1. Ready => ModeMatches
    BY ReadyParts DEF ModeInPlace, ModeMatches, Established
  <1> QED
    BY <1>1, ReadyAlways, PTL

(* The platform class replaces or clears the peripheral only while no      *)
(* polling thread uses it.                                                 *)
THEOREM SessionReleasesAfterPolling ==
    ASSUME Steady, NoSwitch
    PROVE  Spec => ReleasedAfterPolling
  <1>1. Ready /\ [Next]_vars => (peripheral' # peripheral => poll \in {"none", "exited"})
    <2> SUFFICES ASSUME Ready, [Next]_vars, peripheral' # peripheral
                 PROVE  poll = "none"
      OBVIOUS
    <2>1. Drop \/ Open
      BY DEF Next, UserRequest, ConnectToDevice, RequestDisconnect, StartDemo, StopDemo,
             SwitchVehicleType, RequestStep, StopPolling, StopCAN, Dropped, Load, NotFound,
             Opened, Discover, Discovered, NotDiscovered, Initialize, Start, ManagerClientStep,
             PlatformClientStep, PollingThread, Rewait, BleQueue, Radio, Adapter, ByManager,
             ByPlatform, vars, platformOwn, Platform!TakeResult, Platform!WaitForCharacteristics,
             Platform!ClientStep, Platform!ConnectSetsPlatform, Platform!ConnectSetsBase,
             Platform!DisconnectSetsBase,
             Platform!CheckCharacteristics, Platform!WaitDeadline, Platform!BleStep,
             Platform!DidConnect, Platform!DidLose, Platform!SetsBase,
             Platform!DidDiscoverCharacteristic, Platform!NotifyAll, Platform!RadioStep,
             Platform!LinkComesUp, Platform!LinkGoesDown, Platform!ReportCharacteristic,
             Platform!own
    <2> QED
      BY <2>1, ReadyParts DEF Drop, Open, Does, Returned, PollerInPlace, Stopping
  <1> QED
    BY <1>1, ReadyAlways, PTL DEF Spec, ReleasedAfterPolling

(* A connection that is made for an OBD2 vehicle is polled: no stop that   *)
(* an earlier disconnect() or a failed connection skipped leaves a flag    *)
(* that startOBD2Polling takes for "already polling".                      *)
THEOREM SessionPollingStarts ==
    ASSUME Steady, NoSwitch
    PROVE  Spec => PollingStarts
  <1>1. Ready /\ [Next]_vars =>
            (Start /\ protocol = "OBD2" => poll' \notin {"none", "exited"})
    <2> SUFFICES ASSUME Ready, Start, protocol = "OBD2" PROVE poll' = "setup"
      OBVIOUS
    <2>1. poll = "none" /\ op = "idle"
      BY ReadyParts DEF Start, Does, Returned, PollerInPlace, Stopping
    <2>2. ~polling_active
      BY <2>1, ReadyParts DEF HandleSafe
    <2> QED
      BY <2>2 DEF Start, ByManager, Base!StartOBD2Polling
  <1> QED
    BY <1>1, ReadyAlways, PTL DEF Spec, PollingStarts

-----------------------------------------------------------------------------
(* What the adapter owes, and what of its answers is still to be handled,  *)
(* where no notification completes two answers.                            *)
OneByOne == Notifications \subseteq {0, 1}

Quiet == owed = 0 /\ NoneIn("data")

Conversing == Initializing \/ poll \notin {"none", "exited"}

Establishing == app \in {"dropped", "load", "open", "discover", "initialize"}

IsData(i) == queue[i].kind = "data"

OnePrompt ==
    /\ prompt_buffer = 0
    /\ \A i \in 1 .. Len(queue) : IsData(i) => queue[i].prompts \in {0, 1}

(* Until its didConnect is handled, what is still to be handled are        *)
(* notifications of an earlier connection; then there are none.            *)
StaleFirst ==
    /\ link # "up" => owed = 0
    /\ Establishing =>
          /\ owed = 0
          /\ link = "up" => \A i \in 1 .. Len(queue) : IsData(i) =>
                \E j \in 1 .. Len(queue) : i < j /\ queue[j].kind = "connected"

(* At most one command is open, and its '>' is in the last notification.   *)
OneAnswer ==
    Conversing =>
        /\ owed \in {0, 1}
        /\ \A i \in 1 .. Len(queue) : IsData(i) /\ owed = 1 => queue[i].prompts = 0
        /\ \A i, j \in 1 .. Len(queue) :
              IsData(i) /\ IsData(j) /\ i < j => queue[i].prompts = 0

(* A thread that is about to send, or whose gate is open, has its answer.  *)
Answered ==
    /\ app = "start" /\ protocol = "OBD2" /\ op \in {"idle", "initSend"} => Quiet
    /\ op = "initWait" /\ prompt_ready => Quiet
    /\ poll = "query" => Quiet
    /\ poll \in {"setup", "cycle", "next", "pause"} /\ polling_active => Quiet
    /\ poll = "wait" /\ prompt_ready /\ polling_active => Quiet

Exchange == OnePrompt /\ StaleFirst /\ OneAnswer /\ Answered

Orderly == Ready /\ Exchange

LEMMA OrderlyParts ==
    ASSUME Orderly
    PROVE  /\ Ready /\ Life /\ OnePrompt /\ StaleFirst /\ OneAnswer /\ Answered
           /\ OpsInPlace /\ PollerInPlace /\ HandleSafe
           /\ queue \in Seq(Event) /\ owed \in Nat
           /\ protocol \in Protocols /\ op \in Base!Ops /\ poll \in Base!PollStates
           /\ polling_active \in BOOLEAN /\ prompt_ready \in BOOLEAN
           /\ Usable => link = "up" /\ NoneIn("connected")
  <1>1. owed \in Nat /\ queue \in Seq(Event)
    BY ReadyParts, TypeParts, Counts DEF Orderly, OwedOK, SharedTypes
  <1>2. Usable => link = "up" /\ NoneIn("connected")
    BY UsableIsAnnounced DEF Orderly, Ready, Life, Phases
  <1> QED
    BY <1>1, <1>2, ReadyParts DEF Orderly, Exchange, Ready

(* Nothing is open once a connection is ready for use.                     *)
LEMMA InitializeIsQuiet ==
    ASSUME Orderly, app = "initialize"
    PROVE  Quiet
  BY OrderlyParts DEF Usable, StaleFirst, Establishing, Quiet, NoneIn, IsData

-----------------------------------------------------------------------------
(* A step that adds no notification.                                       *)
KeepsNotifications ==
    /\ \A i \in 1 .. Len(queue') : queue'[i].kind = "data" =>
          \E k \in 1 .. Len(queue) : queue[k] = queue'[i]
    /\ \A i, j \in 1 .. Len(queue') :
          queue'[i].kind = "data" /\ queue'[j].kind = "data" /\ i < j =>
              \E k, l \in 1 .. Len(queue) :
                  k < l /\ queue[k] = queue'[i] /\ queue[l] = queue'[j]

LEMMA NotificationsKept ==
    ASSUME queue \in Seq(Event),
           \/ UNCHANGED queue
           \/ queue # <<>> /\ queue' = Tail(queue)
           \/ \E event \in Event : event.kind # "data" /\ queue' = Append(queue, event)
    PROVE  KeepsNotifications
  <1> USE DEF KeepsNotifications
  <1>1. CASE UNCHANGED queue
    BY <1>1
  <1>2. CASE queue # <<>> /\ queue' = Tail(queue)
    <2>1. /\ Len(queue) \in Nat \ {0} /\ Len(queue') = Len(queue) - 1
          /\ \A i \in 1 .. Len(queue') : i + 1 \in 1 .. Len(queue) /\ queue'[i] = queue[i + 1]
      BY <1>2, TailElements
    <2>2. \A i, j \in 1 .. Len(queue') : i < j => i + 1 < j + 1
      BY <2>1
    <2> QED
      BY <2>1, <2>2
  <1>3. ASSUME NEW event \in Event, event.kind # "data", queue' = Append(queue, event)
        PROVE  KeepsNotifications
    <2>1. /\ \A i \in 1 .. Len(queue) : queue'[i] = queue[i]
          /\ \A i \in 1 .. Len(queue') : i \in 1 .. Len(queue) \/ i = Len(queue) + 1
          /\ queue'[Len(queue) + 1] = event
      BY <1>3, AppendElements
    <2>2. \A i \in 1 .. Len(queue') : queue'[i].kind = "data" =>
              i \in 1 .. Len(queue) /\ queue'[i] = queue[i]
      BY <1>3, <2>1
    <2> QED
      BY <2>2
  <1> QED
    BY <1>1, <1>2, <1>3

LEMMA ExchangeKept ==
    ASSUME Orderly, KeepsNotifications, owed' = owed \/ owed' = 0,
           UNCHANGED <<prompt_ready, prompt_buffer, op, poll, polling_active>>,
           app' = "start" /\ protocol' = "OBD2" => app = "start" /\ protocol = "OBD2"
    PROVE  OnePrompt' /\ OneAnswer' /\ Answered'
  <1>1. Quiet => Quiet'
    BY DEF Quiet, NoneIn, KeepsNotifications
  <1>2. OnePrompt'
    BY OrderlyParts DEF OnePrompt, IsData, KeepsNotifications
  <1>3. OneAnswer'
    <2> SUFFICES ASSUME Conversing'
                 PROVE  /\ owed' \in {0, 1}
                        /\ \A i \in 1 .. Len(queue') :
                              queue'[i].kind = "data" /\ owed' = 1 => queue'[i].prompts = 0
                        /\ \A i, j \in 1 .. Len(queue') :
                              queue'[i].kind = "data" /\ queue'[j].kind = "data" /\ i < j =>
                                  queue'[i].prompts = 0
      BY DEF OneAnswer, IsData
    <2>1. Conversing
      BY DEF Conversing, Initializing
    <2>2. /\ owed \in {0, 1}
          /\ \A i \in 1 .. Len(queue) : queue[i].kind = "data" /\ owed = 1 => queue[i].prompts = 0
          /\ \A i, j \in 1 .. Len(queue) :
                queue[i].kind = "data" /\ queue[j].kind = "data" /\ i < j => queue[i].prompts = 0
      BY <2>1, OrderlyParts DEF OneAnswer, IsData
    <2>3. owed' \in {0, 1} /\ (owed' = 1 => owed = 1)
      BY <2>2
    <2>4. \A i \in 1 .. Len(queue') :
              queue'[i].kind = "data" /\ owed' = 1 => queue'[i].prompts = 0
      BY <2>2, <2>3 DEF KeepsNotifications
    <2>5. ASSUME NEW i \in 1 .. Len(queue'), NEW j \in 1 .. Len(queue'),
                 queue'[i].kind = "data", queue'[j].kind = "data", i < j
          PROVE  queue'[i].prompts = 0
      <3>1. PICK k, l \in 1 .. Len(queue) :
                k < l /\ queue[k] = queue'[i] /\ queue[l] = queue'[j]
        BY <2>5 DEF KeepsNotifications
      <3> QED
        BY <2>2, <2>5, <3>1
    <2> QED
      BY <2>3, <2>4, <2>5
  <1>4. Answered'
    BY <1>1, OrderlyParts DEF Answered
  <1> QED
    BY <1>2, <1>3, <1>4

(* StaleFirst where a callback starts, and where one is scheduled.         *)
LEMMA StaleTail ==
    ASSUME StaleFirst, queue \in Seq(Event), queue # <<>>, queue' = Tail(queue),
           UNCHANGED <<link, app>>, owed' = owed \/ owed' = 0
    PROVE  StaleFirst'
  <1>1. /\ Len(queue) \in Nat \ {0} /\ Len(queue') = Len(queue) - 1
        /\ \A i \in 1 .. Len(queue') : i + 1 \in 1 .. Len(queue) /\ queue'[i] = queue[i + 1]
    BY TailElements
  <1>2. ASSUME NEW i \in 1 .. Len(queue'), NEW j \in 1 .. Len(queue), i + 1 < j
        PROVE  j - 1 \in 1 .. Len(queue') /\ i < j - 1 /\ queue'[j - 1] = queue[j]
    BY <1>1, <1>2
  <1>3. ASSUME Establishing, link = "up", NEW i \in 1 .. Len(queue'), queue'[i].kind = "data"
        PROVE  \E j \in 1 .. Len(queue') : i < j /\ queue'[j].kind = "connected"
    <2>1. PICK j \in 1 .. Len(queue) : i + 1 < j /\ queue[j].kind = "connected"
      BY <1>1, <1>3 DEF StaleFirst, IsData
    <2> QED
      BY <1>2, <2>1
  <1> QED
    BY <1>3 DEF StaleFirst, Establishing, IsData

LEMMA StaleAppend ==
    ASSUME StaleFirst, queue \in Seq(Event), NEW event \in Event, event.kind # "data",
           queue' = Append(queue, event), UNCHANGED <<link, app>>, owed' = owed \/ owed' = 0
    PROVE  StaleFirst'
  <1>1. /\ \A i \in 1 .. Len(queue) : i \in 1 .. Len(queue') /\ queue'[i] = queue[i]
        /\ \A i \in 1 .. Len(queue') : i \in 1 .. Len(queue) \/ i = Len(queue) + 1
        /\ queue'[Len(queue) + 1] = event
    BY AppendElements
  <1>2. \A i \in 1 .. Len(queue') : queue'[i].kind = "data" =>
            i \in 1 .. Len(queue) /\ queue'[i] = queue[i]
    BY <1>1
  <1> QED
    BY <1>1, <1>2 DEF StaleFirst, Establishing, IsData

(* ... a connection begins, or is not there.                               *)
LEMMA StaleBegins ==
    ASSUME StaleFirst, queue \in Seq(Event), NEW event \in Event, event.kind = "connected",
           queue' = Append(queue, event), owed' = 0
    PROVE  StaleFirst'
  <1>1. /\ Len(queue) \in Nat /\ Len(queue') = Len(queue) + 1
        /\ \A i \in 1 .. Len(queue') : i \in 1 .. Len(queue) \/ i = Len(queue) + 1
        /\ queue'[Len(queue) + 1] = event
    BY AppendElements
  <1>2. ASSUME NEW i \in 1 .. Len(queue'), queue'[i].kind = "data"
        PROVE  i < Len(queue) + 1 /\ Len(queue) + 1 \in 1 .. Len(queue')
    BY <1>1, <1>2
  <1> QED
    BY <1>1, <1>2 DEF StaleFirst, IsData

LEMMA StaleDown ==
    ASSUME link' # "up", owed' = 0
    PROVE  StaleFirst'
  BY DEF StaleFirst

(* The wrapper's steps: commands are open only between them.               *)
LEMMA ExchangeRequest ==
    ASSUME Orderly, UserRequest \/ RequestStep
    PROVE  Exchange'
  <1> USE OrderlyParts
  <1>1. CASE UserRequest \/ Dropped \/ Load
    <2>1. UNCHANGED <<managerOwn, platformOwn, queue, owed>>
      BY <1>1 DEF UserRequest, ConnectToDevice, RequestDisconnect, StartDemo, StopDemo,
                  SwitchVehicleType, Dropped, Load
    <2>2. app' # "start"
      BY <1>1 DEF UserRequest, ConnectToDevice, RequestDisconnect, StartDemo, StopDemo,
                  SwitchVehicleType, Dropped, Load, Does
    <2>3. OnePrompt' /\ OneAnswer' /\ Answered'
      BY <2>1, <2>2, ExchangeKept, NotificationsKept DEF managerOwn
    <2>4. Establishing' => Establishing \/ link # "up"
      BY <1>1, LifeParts
         DEF UserRequest, ConnectToDevice, RequestDisconnect, StartDemo, StopDemo,
             SwitchVehicleType, Dropped, Load, Does, Establishing, Phases, Closed
    <2>5. StaleFirst'
      BY <2>1, <2>4 DEF StaleFirst, IsData, platformOwn
    <2> QED
      BY <2>3, <2>5 DEF Exchange
  <1>2. CASE StopPolling \/ StopCAN \/ Initialize \/ Start
    <2>1. UNCHANGED <<queue, owed, link, prompt_ready, prompt_buffer>>
      BY <1>2 DEF StopPolling, StopCAN, Initialize, Start, ByManager, platformOwn,
                  Base!StopOBD2Polling, Base!StopCANMonitor, Base!InitializeCANMonitor,
                  Base!InitializeELM327, Base!StartCANMonitor, Base!StartOBD2Polling,
                  Base!gate, Base!adapter
    <2>2. ~Establishing'
      BY <1>2 DEF StopPolling, StopCAN, Initialize, Start, Then, Establishing
    <2>3. OnePrompt' /\ StaleFirst' /\ (Quiet => Quiet')
      BY <2>1, <2>2 DEF OnePrompt, StaleFirst, Quiet, IsData, NoneIn
    <2>4. CASE StopPolling \/ StopCAN
      <3>1. /\ app' # "start" /\ op' \in {"stopSet", "stopCanSend"} /\ poll' = poll
            /\ polling_active' => polling_active
        BY <2>4 DEF StopPolling, StopCAN, ByManager, Then, Base!StopOBD2Polling,
                    Base!StopCANMonitor, Base!polling
      <3>2. OneAnswer'
        BY <2>1, <3>1 DEF OneAnswer, Conversing, Initializing, IsData
      <3>3. Answered'
        BY <2>1, <2>3, <3>1 DEF Answered
      <3> QED
        BY <2>3, <3>2, <3>3 DEF Exchange
    <2>5. CASE Initialize
      <3>1. Quiet'
        BY <2>3, <2>5, InitializeIsQuiet DEF Initialize, Does
      <3>2. OneAnswer' /\ Answered'
        BY <3>1 DEF OneAnswer, Answered, Quiet, NoneIn, IsData
      <3> QED
        BY <2>3, <3>2 DEF Exchange
    <2>6. CASE Start /\ protocol = "OBD2"
      <3>1. Quiet'
        BY <2>3, <2>6 DEF Start, Does, Returned, Answered
      <3>2. OneAnswer' /\ Answered'
        BY <3>1 DEF OneAnswer, Answered, Quiet, NoneIn, IsData
      <3> QED
        BY <2>3, <3>2 DEF Exchange
    <2>7. CASE Start /\ protocol = "CAN"
      <3>1. app' # "start" /\ UNCHANGED <<op, poll, polling_active>>
        BY <2>7 DEF Start, ByManager, Base!StartCANMonitor, Base!polling
      <3>2. OnePrompt' /\ OneAnswer' /\ Answered'
        BY <2>1, <3>1, ExchangeKept, NotificationsKept
      <3> QED
        BY <2>3, <3>2 DEF Exchange
    <2> QED
      BY <1>2, <2>4, <2>5, <2>6, <2>7 DEF Protocols
  <1>3. CASE Drop \/ Open \/ NotFound \/ Opened \/ Discover \/ Discovered \/ NotDiscovered
    <2>1. UNCHANGED managerOwn /\ owed' = (IF link' = "up" THEN owed ELSE 0) /\ app' # "start"
      BY <1>3 DEF Drop, Open, NotFound, Opened, Discover, Discovered, NotDiscovered, wrapper,
                  ByPlatform, Does, Then, Fails
    <2>2. CASE Drop
      <3>1. \/ UNCHANGED queue
            \/ queue' = Append(queue, Platform!StateEvent("lost"))
        BY <2>2 DEF Drop, ByPlatform, Platform!Disconnect, Platform!Schedule
      <3>2. Platform!StateEvent("lost") \in Event /\ Platform!StateEvent("lost").kind # "data"
        BY SessionEvents DEF Platform!StateEvent
      <3>3. KeepsNotifications
        BY <3>1, <3>2, NotificationsKept
      <3>4. link' # "up"
        BY <2>2, LifeParts DEF Drop, ByPlatform, Platform!Disconnect, Platform!LinkIsHeld
      <3> QED
        BY <2>1, <3>3, <3>4, ExchangeKept, StaleDown DEF managerOwn, Exchange
    <2>3. CASE Open
      <3>1. link' # "up" /\ UNCHANGED queue
        BY <2>3, LifeParts
           DEF Open, ByPlatform, Platform!Connect, Platform!AskToConnect,
               Platform!ConnectUnknown, Does, Returned, Phases, Closed
      <3> QED
        BY <2>1, <3>1, NotificationsKept, ExchangeKept, StaleDown DEF managerOwn, Exchange
    <2>4. CASE NotFound \/ Opened \/ Discover \/ Discovered \/ NotDiscovered
      <3>1. UNCHANGED <<queue, link>>
        BY <2>4 DEF NotFound, Opened, Discover, Discovered, NotDiscovered, ByPlatform,
                    Platform!TakeResult, Platform!WaitForCharacteristics
      <3>2. Establishing' => Establishing
        BY <2>4 DEF NotFound, Opened, Discover, Discovered, NotDiscovered, Establishing,
                    Does, Then, Fails, wrapper
      <3>3. StaleFirst'
        BY <2>1, <3>1, <3>2 DEF StaleFirst, IsData
      <3> QED
        BY <2>1, <3>1, <3>3, NotificationsKept, ExchangeKept DEF managerOwn, Exchange
    <2> QED
      BY <1>3, <2>2, <2>3, <2>4
  <1> QED
    BY <1>1, <1>2, <1>3 DEF RequestStep

(* The platform class and the radio: they add no notification.             *)
LEMMA ExchangePlatform ==
    ASSUME Orderly, ByPlatform(Platform!ClientStep \/ Platform!BleStep \/ Platform!RadioStep),
           UNCHANGED wrapper
    PROVE  Exchange'
  <1> USE OrderlyParts
  <1>1. /\ UNCHANGED <<prompt_ready, prompt_buffer, op, poll, polling_active, app, protocol>>
        /\ owed' = (IF link' = "up" THEN owed ELSE 0)
    BY DEF ByPlatform, managerOwn, wrapper
  <1>2. ASSUME KeepsNotifications, StaleFirst'
        PROVE  Exchange'
    BY <1>1, <1>2, ExchangeKept DEF Exchange
  <1>3. CASE Platform!ClientStep \/ Platform!SetsBase \/ Platform!NotifyAll
    <2>1. UNCHANGED <<queue, link>>
      BY <1>3 DEF Platform!ClientStep, Platform!ConnectSetsPlatform, Platform!ConnectSetsBase,
                  Platform!DisconnectSetsBase,
                  Platform!CheckCharacteristics, Platform!WaitDeadline, Platform!SetsBase,
                  Platform!NotifyAll, Platform!own
    <2>2. StaleFirst'
      BY <1>1, <2>1 DEF StaleFirst, IsData, Establishing
    <2> QED
      BY <1>2, <2>1, <2>2, NotificationsKept
  <1>4. CASE Platform!DidConnect \/ Platform!DidLose \/ Platform!DidDiscoverCharacteristic
    <2>1. queue # <<>> /\ queue' = Tail(queue) /\ UNCHANGED link
      BY <1>4 DEF Platform!DidConnect, Platform!DidLose, Platform!DidDiscoverCharacteristic,
                  Platform!Runs
    <2> QED
      BY <1>1, <1>2, <2>1, NotificationsKept, StaleTail
  <1>5. CASE Platform!LinkComesUp \/ Platform!LinkGoesDown
    <2> DEFINE event(kind) == Platform!StateEvent(kind)
    <2>1. PICK kind \in {"connected", "lost"} :
              /\ queue' = Append(queue, event(kind))
              /\ IF kind = "connected" THEN link # "up" /\ link' = "up" ELSE link' # "up"
      BY <1>5 DEF Platform!LinkComesUp, Platform!LinkGoesDown, Platform!Schedule
    <2>2. event(kind) \in Event /\ event(kind).kind = kind
      BY SessionEvents DEF Platform!StateEvent
    <2>3. KeepsNotifications
      BY <2>1, <2>2, NotificationsKept
    <2>4. CASE kind = "connected"
      <3>1. owed' = 0
        BY <1>1, <2>1, <2>4 DEF StaleFirst
      <3>2. StaleFirst'
        BY <2>1, <2>2, <2>4, <3>1, StaleBegins
      <3> QED
        BY <1>2, <2>3, <3>2
    <2>5. CASE kind = "lost"
      BY <1>1, <1>2, <2>1, <2>3, <2>5, StaleDown
    <2> QED
      BY <2>4, <2>5
  <1>6. CASE Platform!ReportCharacteristic
    <2>1. PICK props \in SUBSET Platform!Properties :
              queue' = Append(queue, Platform!CharacteristicEvent(props))
      BY <1>6, LifeParts, TypeParts
         DEF Platform!ReportCharacteristic, Platform!Schedule, PlatformTypes
    <2> DEFINE event == Platform!CharacteristicEvent(props)
    <2>2. event \in Event /\ event.kind # "data" /\ UNCHANGED link
      BY <1>6, SessionEvents DEF Platform!CharacteristicEvent, Platform!ReportCharacteristic
    <2>3. KeepsNotifications
      BY <2>1, <2>2, NotificationsKept
    <2>4. StaleFirst'
      BY <1>1, <2>1, <2>2, StaleAppend
    <2> QED
      BY <1>2, <2>3, <2>4
  <1> QED
    BY <1>3, <1>4, <1>5, <1>6 DEF ByPlatform, Platform!BleStep, Platform!RadioStep

-----------------------------------------------------------------------------
(* The client thread and the polling thread: an adapter that answers on    *)
(* time lets no wait pass its deadline, so that a wait that returns has    *)
(* its answer.                                                             *)
LEMMA StaleSend ==
    ASSUME StaleFirst, Base!Send(Platform!CanSend), UNCHANGED <<platformOwn, wrapper>>,
           ~Establishing
    PROVE  StaleFirst'
  BY DEF StaleFirst, Base!Send, Platform!CanSend, Establishing, platformOwn, wrapper

LEMMA QuietSend ==
    ASSUME Quiet, NEW up, Base!Send(up)
    PROVE  OneAnswer'
  BY DEF Quiet, NoneIn, Base!Send, OneAnswer, IsData

LEMMA StaleStutter ==
    ASSUME StaleFirst, UNCHANGED <<platformOwn, wrapper, queue, owed>>
    PROVE  StaleFirst'
  BY DEF StaleFirst, IsData, Establishing, platformOwn, wrapper

LEMMA WaitHasItsPrompt ==
    ASSUME Steady, NEW t, Base!WaitReturns(t), ~Quiet
    PROVE  prompt_ready
  BY DEF Steady, Base!WaitReturns, Base!Silent, Base!Gate!WaitSucceeds, Quiet, NoneIn

LEMMA ExchangeClient ==
    ASSUME Steady, Orderly, Base!ClientStep(Platform!CanSend),
           UNCHANGED <<platformOwn, wrapper>>
    PROVE  Exchange'
  <1> USE OrderlyParts DEF wrapper
  <1>1. CASE Base!SendInitCommand(Platform!CanSend)
    <2>1. Quiet /\ poll = "none" /\ ~Establishing
      BY <1>1 DEF Base!SendInitCommand, OpsInPlace, PollerInPlace, Initializing, Stopping,
                  Answered, Establishing
    <2>2. StaleFirst' /\ OneAnswer'
      BY <1>1, <2>1, StaleSend, QuietSend DEF Base!SendInitCommand
    <2>3. OnePrompt'
      BY <1>1 DEF Base!SendInitCommand, Base!Send, Base!gate, OnePrompt, IsData
    <2>4. Answered'
      BY <1>1, <2>1 DEF Base!SendInitCommand, Answered, Base!polling
    <2> QED
      BY <2>2, <2>3, <2>4 DEF Exchange
  <1>2. CASE Base!EnterInitWait
    <2>1. poll = "none" /\ UNCHANGED <<queue, owed, prompt_buffer, poll>> /\ ~prompt_ready'
      BY <1>2 DEF Base!EnterInitWait, OpsInPlace, PollerInPlace, Initializing, Stopping,
                  Base!Gate!BeginWait, Base!adapter, Base!polling
    <2>2. OnePrompt' /\ OneAnswer' /\ Answered'
      BY <1>2, <2>1 DEF Base!EnterInitWait, OnePrompt, OneAnswer, Answered, IsData, Conversing,
                        Initializing
    <2> QED
      BY <2>1, <2>2, StaleStutter DEF Exchange
  <1>3. CASE Base!FinishInitWait
    <2>1. Quiet
      BY <1>3, WaitHasItsPrompt DEF Base!FinishInitWait, Answered
    <2>2. UNCHANGED <<queue, owed, prompt_buffer>>
      BY <1>3 DEF Base!FinishInitWait, Base!WaitReturns, Base!Gate!WaitSucceeds,
                  Base!Gate!WaitTimesOut, Base!adapter
    <2>3. OnePrompt' /\ OneAnswer' /\ Answered'
      BY <2>1, <2>2 DEF OnePrompt, OneAnswer, Answered, Quiet, NoneIn, IsData
    <2> QED
      BY <2>2, <2>3, StaleStutter DEF Exchange
  <1>4. CASE \/ Base!SendCANCommand(Platform!CanSend) \/ Base!EnterCANMode
             \/ Base!StopCANSend(Platform!CanSend)
    <2>1. /\ poll = "none" /\ ~Establishing /\ ~(app = "start" /\ protocol = "OBD2")
      BY <1>4 DEF Base!SendCANCommand, Base!EnterCANMode, Base!StopCANSend, OpsInPlace,
                  PollerInPlace, Stopping,
                  Establishing
    <2>2. /\ Base!Send(Platform!CanSend) \/ UNCHANGED <<queue, owed>>
          /\ op' \in {"canSend", "canMode", "idle"} /\ poll' = poll
          /\ UNCHANGED <<queue, prompt_buffer>>
      BY <1>4 DEF Base!SendCANCommand, Base!EnterCANMode, Base!StopCANSend, Base!Send,
                  Base!gate, Base!adapter, Base!polling
    <2>3. OnePrompt' /\ OneAnswer' /\ Answered'
      BY <2>1, <2>2 DEF OnePrompt, OneAnswer, Answered, IsData, Conversing, Initializing
    <2> QED
      BY <2>1, <2>2, <2>3, StaleSend, StaleStutter DEF Exchange
  <1>5. CASE Base!StopSetReady \/ Base!StopNotifyOne \/ Base!Join
    <2>1. /\ app # "start" /\ ~polling_active /\ UNCHANGED <<queue, owed, prompt_buffer>>
          /\ op' \in {"stopWake", "join", "idle"} /\ polling_active' = polling_active
          /\ poll' \in {poll, "none"}
      BY <1>5 DEF Base!StopSetReady, Base!StopNotifyOne, Base!Join, OpsInPlace, Stopping,
                  HandleSafe, Base!Gate!NotifyOne, Base!gate, Base!adapter, Base!polling
    <2>2. OnePrompt' /\ OneAnswer' /\ Answered'
      BY <2>1 DEF OnePrompt, OneAnswer, Answered, IsData, Conversing, Initializing, Quiet, NoneIn
    <2> QED
      BY <2>1, <2>2, StaleStutter DEF Exchange
  <1> QED
    BY <1>1, <1>2, <1>3, <1>4, <1>5 DEF Base!ClientStep

LEMMA ExchangePoller ==
    ASSUME Steady, Orderly, Base!PollStep(Platform!CanSend),
           UNCHANGED <<platformOwn, wrapper>>
    PROVE  Exchange'
  <1> USE OrderlyParts DEF wrapper
  <1>1. PICK from, to \in Base!PollStates \ {"none"} : Base!PollGoes(from, to)
    BY DEF Base!PollStep, Base!PollSetup, Base!PollCycle, Base!PollNext, Base!PollQuery,
           Base!PollEnterWait, Base!PollFinishWait, Base!PollPause, Base!PollStates
  <1>2. /\ app # "start" /\ ~Initializing /\ ~Establishing
        /\ UNCHANGED <<op, polling_active>>
    BY <1>1 DEF Base!PollGoes, PollerInPlace, OpsInPlace, Initializing, Stopping, Establishing
  <1>3. CASE Base!PollQuery(Platform!CanSend)
    <2>1. Quiet /\ Base!Send(Platform!CanSend) /\ poll' = "gate"
          /\ UNCHANGED <<queue, prompt_buffer>>
      BY <1>3 DEF Base!PollQuery, Base!PollGoes, Base!Send, Base!gate, Answered
    <2>2. OnePrompt' /\ OneAnswer' /\ Answered'
      BY <1>2, <2>1, QuietSend DEF OnePrompt, Answered, IsData, Initializing
    <2> QED
      BY <1>2, <2>1, <2>2, StaleSend DEF Exchange
  <1>4. CASE Base!PollEnterWait
    <2>1. /\ UNCHANGED <<queue, owed, prompt_buffer>> /\ ~prompt_ready'
          /\ poll = "gate" /\ poll' = "wait"
      BY <1>4 DEF Base!PollEnterWait, Base!PollGoes, Base!Gate!BeginWait, Base!adapter
    <2>2. OnePrompt' /\ OneAnswer' /\ Answered'
      BY <1>2, <2>1 DEF OnePrompt, OneAnswer, Answered, IsData, Conversing, Initializing
    <2> QED
      BY <2>1, <2>2, StaleStutter DEF Exchange
  <1>5. CASE Base!PollFinishWait
    <2>1. /\ UNCHANGED <<queue, owed, prompt_buffer>>
          /\ poll = "wait" /\ poll' \in {"next", "pause"}
      BY <1>5 DEF Base!PollFinishWait, Base!WaitReturns, Base!Gate!WaitSucceeds,
                  Base!Gate!WaitTimesOut, Base!PollGoes, Base!adapter
    <2>2. polling_active => Quiet
      BY <1>5, <2>1, WaitHasItsPrompt DEF Base!PollFinishWait, Answered
    <2>3. OnePrompt' /\ OneAnswer' /\ Answered'
      BY <1>2, <2>1, <2>2 DEF OnePrompt, OneAnswer, Answered, IsData, Conversing, Initializing,
                              Quiet, NoneIn
    <2> QED
      BY <2>1, <2>3, StaleStutter DEF Exchange
  <1>6. CASE Base!PollSetup \/ Base!PollCycle \/ Base!PollNext \/ Base!PollPause
    <2>1. /\ UNCHANGED <<queue, owed, prompt_buffer, prompt_ready>>
          /\ poll \in {"setup", "cycle", "next", "pause"}
          /\ poll' \in {"cycle", "next", "query", "pause", "exited"}
          /\ poll' = "query" => polling_active
      BY <1>6 DEF Base!PollSetup, Base!PollCycle, Base!PollNext, Base!PollPause, Base!PollGoes,
                  Base!KeepPolling, Base!gate, Base!adapter
    <2>2. OnePrompt' /\ OneAnswer' /\ Answered'
      BY <1>2, <2>1 DEF OnePrompt, OneAnswer, Answered, IsData, Conversing, Initializing,
                        Quiet, NoneIn
    <2> QED
      BY <2>1, <2>2, StaleStutter DEF Exchange
  <1> QED
    BY <1>3, <1>4, <1>5, <1>6 DEF Base!PollStep

-----------------------------------------------------------------------------
(* The notifications: one that completes an answer is the last there is.   *)
LEMMA ExchangeReceive ==
    ASSUME Orderly, Base!ReceiveNotification, UNCHANGED <<platformOwn, wrapper>>
    PROVE  Exchange'
  <1> USE OrderlyParts
  <1>1. /\ queue # <<>> /\ queue' = Tail(queue) /\ UNCHANGED <<op, poll, polling_active, owed>>
        /\ UNCHANGED <<link, app, protocol>>
    BY DEF Base!ReceiveNotification, Base!polling, platformOwn, wrapper
  <1>2. /\ Len(queue) \in Nat \ {0} /\ Len(queue') = Len(queue) - 1
        /\ \A i \in 1 .. Len(queue') : i + 1 \in 1 .. Len(queue) /\ queue'[i] = queue[i + 1]
        /\ 1 \in 1 .. Len(queue) /\ Head(queue) = queue[1] /\ queue[1].kind = "data"
    BY <1>1, TailElements DEF Base!ReceiveNotification
  <1>3. StaleFirst'
    BY <1>1, StaleTail
  <1>4. KeepsNotifications
    BY <1>1, NotificationsKept
  <1>5. prompt_buffer = 0 /\ queue[1].prompts \in {0, 1} /\ PromptBufferMax \in Nat
    BY <1>2, Counts DEF OnePrompt, IsData
  <1>6. CASE UNCHANGED Base!gate
    BY <1>1, <1>3, <1>4, <1>6, ExchangeKept DEF Base!gate, Exchange
  <1>7. CASE ~ UNCHANGED Base!gate
    <2>1. ~can_mode /\ Base!Gate!ScanNotification(Base!BleQueue, queue[1].prompts)
      BY <1>2, <1>7 DEF Base!ReceiveNotification
    <2>2. queue[1].prompts = 1 /\ prompt_buffer' = 0
      BY <1>5, <1>7, <2>1 DEF Base!Gate!ScanNotification, Base!gate, Base!Gate!gateVars
    <2>3. OnePrompt'
      BY <1>4, <2>2 DEF OnePrompt, IsData, KeepsNotifications
    <2>4. ~Quiet
      BY <1>2 DEF Quiet, NoneIn
    <2>5. CASE Conversing
      <3>1. owed = 0
        BY <1>2, <2>2, <2>5 DEF OneAnswer, IsData
      <3>2. \A j \in 1 .. Len(queue) : 1 < j => queue[j].kind # "data"
        BY <1>2, <2>2, <2>5 DEF OneAnswer, IsData
      <3>3. \A i \in 1 .. Len(queue') : 1 < i + 1
        BY <1>2
      <3>4. Quiet'
        BY <1>1, <1>2, <3>1, <3>2, <3>3 DEF Quiet, NoneIn
      <3>5. OneAnswer' /\ Answered'
        BY <3>4 DEF OneAnswer, Answered, IsData, Quiet, NoneIn
      <3> QED
        BY <1>3, <2>3, <3>5 DEF Exchange
    <2>6. CASE ~Conversing
      <3>1. OneAnswer' /\ Answered'
        BY <1>1, <2>4, <2>6 DEF OneAnswer, Answered, Conversing, Initializing
      <3> QED
        BY <1>3, <2>3, <3>1 DEF Exchange
    <2> QED
      BY <2>5, <2>6
  <1> QED
    BY <1>6, <1>7

LEMMA ExchangeAdapter ==
    ASSUME OneByOne, Orderly, link = "up", NEW k \in Notifications, Base!AdapterAnswers(k),
           UNCHANGED <<platformOwn, wrapper>>
    PROVE  Exchange'
  <1> USE OrderlyParts
  <1>1. /\ k \in {0, 1} /\ owed > 0 /\ k <= owed /\ owed' = owed - k
        /\ queue' = Append(queue, Base!Data(k)) /\ UNCHANGED <<link, app, protocol>>
        /\ UNCHANGED <<prompt_ready, prompt_buffer, op, poll, polling_active>>
    BY DEF OneByOne, Base!AdapterAnswers, Base!gate, Base!polling, platformOwn, wrapper
  <1>2. Base!Data(k) \in Event /\ Base!Data(k).kind = "data" /\ Base!Data(k).prompts = k
    BY <1>1, SessionEvents DEF Base!Data
  <1>3. /\ Len(queue) \in Nat
        /\ \A i \in 1 .. Len(queue) : i \in 1 .. Len(queue') /\ queue'[i] = queue[i]
        /\ \A i \in 1 .. Len(queue') : i \in 1 .. Len(queue) \/ i = Len(queue) + 1
        /\ queue'[Len(queue) + 1].kind = "data" /\ queue'[Len(queue) + 1].prompts = k
    BY <1>1, <1>2, AppendElements
  <1>4. ~Quiet
    BY <1>1 DEF Quiet
  <1>5. OnePrompt'
    BY <1>1, <1>3 DEF OnePrompt, IsData
  <1>6. StaleFirst'
    BY <1>1 DEF StaleFirst, Establishing
  <1>7. OneAnswer'
    <2> SUFFICES ASSUME Conversing'
                 PROVE  /\ owed' \in {0, 1}
                        /\ \A i \in 1 .. Len(queue') :
                              queue'[i].kind = "data" /\ owed' = 1 => queue'[i].prompts = 0
                        /\ \A i, j \in 1 .. Len(queue') :
                              queue'[i].kind = "data" /\ queue'[j].kind = "data" /\ i < j =>
                                  queue'[i].prompts = 0
      BY DEF OneAnswer, IsData
    <2>1. Conversing
      BY <1>1 DEF Conversing, Initializing
    <2>2. owed = 1 /\ owed' = 1 - k
      BY <1>1, <2>1 DEF OneAnswer
    <2>3. \A i \in 1 .. Len(queue) : queue[i].kind = "data" => queue[i].prompts = 0
      BY <2>1, <2>2 DEF OneAnswer, IsData
    <2>4. \A i, j \in 1 .. Len(queue') : i < j => i \in 1 .. Len(queue)
      BY <1>3
    <2> QED
      BY <1>1, <1>3, <2>2, <2>3, <2>4
  <1>8. Answered'
    BY <1>1, <1>4 DEF Answered
  <1> QED
    BY <1>5, <1>6, <1>7, <1>8 DEF Exchange

LEMMA OrderlyStep == Steady /\ NoSwitch /\ OneByOne /\ Orderly /\ [Next]_vars => Orderly'
  <1> SUFFICES ASSUME Steady, NoSwitch, OneByOne, Orderly, [Next]_vars PROVE Exchange'
    BY ReadyStep DEF Orderly
  <1>1. CASE UserRequest \/ RequestStep BY <1>1, ExchangeRequest
  <1>2. CASE ManagerClientStep
    BY <1>2, ExchangeClient DEF ManagerClientStep, ByManager
  <1>3. CASE PlatformClientStep \/ Radio
    BY <1>3, ExchangePlatform DEF PlatformClientStep, Radio, ByPlatform
  <1>4. CASE PollingThread BY <1>4, ExchangePoller DEF PollingThread, ByManager
  <1>5. ASSUME UNCHANGED <<platformOwn, wrapper, queue, owed, prompt_ready, prompt_buffer, op,
                           poll, polling_active>>
        PROVE  Exchange'
    <2>1. StaleFirst'
      BY <1>5, OrderlyParts, StaleStutter
    <2>2. OnePrompt' /\ OneAnswer' /\ Answered'
      BY <1>5, OrderlyParts, ExchangeKept, NotificationsKept DEF wrapper
    <2> QED
      BY <2>1, <2>2 DEF Exchange
  <1>6. CASE Rewait
    BY <1>5, <1>6 DEF Rewait, ByManager, Base!Rewait, Base!Gate!WaitAgain, Base!polling,
                      Base!adapter
  <1>7. CASE BleQueue
    <2>1. UNCHANGED wrapper
      BY <1>7 DEF BleQueue
    <2>2. CASE ByManager(Base!ReceiveNotification)
      BY <2>1, <2>2, ExchangeReceive DEF ByManager
    <2>3. CASE ByManager(Base!BleNotifyOne)
      BY <1>5, <2>1, <2>3 DEF ByManager, Base!BleNotifyOne, Base!Gate!NotifyOne, Base!polling,
                              Base!adapter
    <2>4. CASE ByPlatform(Platform!BleStep)
      BY <2>1, <2>4, ExchangePlatform DEF ByPlatform
    <2> QED
      BY <1>7, <2>2, <2>3, <2>4 DEF BleQueue, ByManager
  <1>8. CASE Adapter
    BY <1>8, ExchangeAdapter DEF Adapter, ByManager
  <1>9. CASE UNCHANGED vars
    BY <1>5, <1>9 DEF vars, managerOwn
  <1> QED
    BY <1>1, <1>2, <1>3, <1>4, <1>6, <1>7, <1>8, <1>9 DEF Next

LEMMA OrderlyInit == Init => Orderly
  <1> SUFFICES ASSUME Init PROVE Exchange
    BY ReadyInit DEF Orderly
  <1> QED
    BY DEF Init, Base!Init, Base!Gate!GateInit, Platform!Init, Exchange, OnePrompt, StaleFirst,
           OneAnswer, Answered, Establishing, IsData, Quiet, NoneIn

(* On a steady link every command of initializeELM327 and every PID query  *)
(* goes out only when the adapter has answered all that came before and    *)
(* the program has seen the answers: also the first one after a connection *)
(* that was ended in the middle of an exchange.                            *)
THEOREM SessionIsPaced ==
    ASSUME Steady, NoSwitch, OneByOne
    PROVE  Spec => Paced
  <1>1. Orderly /\ [Next]_vars => (PromptDrivenSend => ~Unanswered)
    <2> SUFFICES ASSUME Orderly, PromptDrivenSend PROVE Quiet
      BY OrderlyParts DEF Quiet, NoneIn, Unanswered
    <2> QED
      BY OrderlyParts DEF PromptDrivenSend, Answered, OpsInPlace, Initializing
  <1> QED
    BY <1>1, OrderlyInit, OrderlyStep, PTL DEF Spec, Paced
=============================================================================
