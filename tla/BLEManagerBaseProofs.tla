------------------------- MODULE BLEManagerBaseProofs -------------------------
(***************************************************************************)
(* Proofs about BLEManagerBase, for every number of commands and PIDs and  *)
(* every adapter: the type invariant, and that the polling thread's handle *)
(* is never overwritten while it is joinable.                              *)
(***************************************************************************)
EXTENDS BLEManagerBase, SequenceTheorems, TLAPS

-----------------------------------------------------------------------------
(* Type correctness.  The gate's steps, then the queue's, then the rest.   *)
LEMMA GateTypes ==
    ASSUME TypeOK,
           \/ \E t \in {Client, Poller} :
                  Gate!BeginWait(t) \/ Gate!WaitAgain(t) \/ WaitReturns(t)
           \/ \E n \in {Client, BleQueue} : Gate!NotifyOne(n)
           \/ Gate!SetReady(Client) /\ UNCHANGED prompt_buffer
           \/ \E k \in Nat : Gate!ScanNotification(BleQueue, k)
           \/ UNCHANGED gate
    PROVE  Gate!GateTypeOK'
  <1> USE CountsAssumption
          DEF TypeOK, Gate!GateTypeOK, Gate!WaitStates, gate, Gate!gateVars
  <1>1. ASSUME NEW t \in {Client, Poller}, Gate!BeginWait(t) PROVE Gate!GateTypeOK'
    BY <1>1 DEF Gate!BeginWait
  <1>2. ASSUME NEW t \in {Client, Poller}, Gate!WaitAgain(t) PROVE Gate!GateTypeOK'
    BY <1>2 DEF Gate!WaitAgain
  <1>3. ASSUME NEW t \in {Client, Poller}, WaitReturns(t) PROVE Gate!GateTypeOK'
    BY <1>3 DEF WaitReturns, Gate!WaitSucceeds, Gate!WaitTimesOut
  <1>4. ASSUME NEW n \in {Client, BleQueue}, Gate!NotifyOne(n) PROVE Gate!GateTypeOK'
    BY <1>4 DEF Gate!NotifyOne
  <1>5. CASE Gate!SetReady(Client) /\ UNCHANGED prompt_buffer
    BY <1>5 DEF Gate!SetReady
  <1>6. ASSUME NEW k \in Nat, Gate!ScanNotification(BleQueue, k) PROVE Gate!GateTypeOK'
    <2>1. CASE UNCHANGED Gate!gateVars
      BY <2>1
    <2>2. CASE ~ UNCHANGED Gate!gateVars
      <3>1. prompt_buffer' \in 0 .. PromptBufferMax
        BY <1>6, <2>2 DEF Gate!ScanNotification, CountsAssumption
      <3>2. Gate!SetReady(BleQueue)
        BY <1>6, <2>2 DEF Gate!ScanNotification
      <3> QED
        BY <3>1, <3>2 DEF Gate!SetReady
    <2> QED
      BY <2>1, <2>2
  <1>7. CASE UNCHANGED gate
    BY <1>7
  <1> QED
    BY <1>1, <1>2, <1>3, <1>4, <1>5, <1>6, <1>7

LEMMA SendTypes ==
    ASSUME TypeOK, NEW up \in BOOLEAN, Send(up)
    PROVE  owed' \in Nat /\ UNCHANGED queue
  BY DEF TypeOK, Send

LEMMA TypesClient ==
    ASSUME TypeOK, NEW up \in BOOLEAN, ClientCalls \/ ClientStep(up)
    PROVE  TypeOK'
  <1> USE CountsAssumption, GateTypes, SendTypes
          DEF TypeOK, Ops, PollStates, polling, adapter
  <1>1. CASE InitializeELM327 BY <1>1 DEF InitializeELM327
  <1>2. CASE InitializeCANMonitor BY <1>2 DEF InitializeCANMonitor
  <1>3. CASE StartOBD2Polling BY <1>3 DEF StartOBD2Polling
  <1>4. CASE StopOBD2Polling BY <1>4 DEF StopOBD2Polling
  <1>5. CASE StartCANMonitor BY <1>5 DEF StartCANMonitor
  <1>6. CASE StopCANMonitor BY <1>6 DEF StopCANMonitor
  <1>7. CASE SendInitCommand(up) BY <1>7 DEF SendInitCommand
  <1>8. CASE EnterInitWait BY <1>8 DEF EnterInitWait
  <1>9. CASE FinishInitWait BY <1>9 DEF FinishInitWait
  <1>10. CASE SendCANCommand(up)
    <2>1. owed' \in Nat /\ UNCHANGED queue
      BY <1>10 DEF SendCANCommand
    <2>2. Gate!GateTypeOK'
      BY <1>10 DEF SendCANCommand
    <2>3. cmd' \in Nat \ {0} /\ op' \in Ops
      BY <1>10 DEF SendCANCommand
    <2> QED
      BY <1>10, <2>1, <2>2, <2>3 DEF SendCANCommand
  <1>11. CASE StopSetReady BY <1>11 DEF StopSetReady
  <1>12. CASE StopNotifyOne BY <1>12 DEF StopNotifyOne
  <1>13. CASE Join BY <1>13 DEF Join
  <1>14. CASE StopCANSend(up) BY <1>14 DEF StopCANSend
  <1>15. CASE EnterCANMode BY <1>15 DEF EnterCANMode
  <1> QED
    BY <1>1, <1>2, <1>3, <1>4, <1>5, <1>6, <1>7, <1>8, <1>9, <1>10, <1>11, <1>12,
       <1>13, <1>14, <1>15 DEF ClientCalls, ClientStep

LEMMA TypesPoller ==
    ASSUME TypeOK, NEW up \in BOOLEAN, PollStep(up)
    PROVE  TypeOK'
  <1> USE CountsAssumption, GateTypes, SendTypes
          DEF TypeOK, PollStates, polling, adapter, PollGoes
  <1>1. CASE PollSetup BY <1>1 DEF PollSetup
  <1>2. CASE PollCycle BY <1>2 DEF PollCycle
  <1>3. CASE PollNext BY <1>3 DEF PollNext
  <1>4. CASE PollQuery(up) BY <1>4 DEF PollQuery
  <1>5. CASE PollEnterWait BY <1>5 DEF PollEnterWait
  <1>6. CASE PollFinishWait BY <1>6 DEF PollFinishWait
  <1>7. CASE PollPause BY <1>7 DEF PollPause
  <1> QED
    BY <1>1, <1>2, <1>3, <1>4, <1>5, <1>6, <1>7 DEF PollStep

LEMMA TypesQueue ==
    ASSUME TypeOK,
           \/ Rewait \/ ReceiveNotification \/ BleNotifyOne \/ ConnectionChanges
           \/ \E k \in Notifications : AdapterAnswers(k)
    PROVE  TypeOK'
  <1> DEFINE Event == [kind : {"data"}, prompts : Nat]
  <1> USE CountsAssumption, GateTypes DEF TypeOK, polling, adapter
  <1>1. CASE Rewait BY <1>1 DEF Rewait
  <1>2. CASE ReceiveNotification
    <2>1. Head(queue) \in Event /\ Tail(queue) \in Seq(Event)
      BY <1>2, HeadTailProperties DEF ReceiveNotification
    <2>2. Gate!GateTypeOK'
      BY <1>2, <2>1 DEF ReceiveNotification
    <2> QED
      BY <1>2, <2>1, <2>2 DEF ReceiveNotification
  <1>3. CASE BleNotifyOne BY <1>3 DEF BleNotifyOne
  <1>4. CASE ConnectionChanges BY <1>4 DEF ConnectionChanges, SetConnectionState
  <1>5. ASSUME NEW k \in Notifications, AdapterAnswers(k) PROVE TypeOK'
    <2>1. queue' \in Seq(Event)
      BY <1>5, AppendProperties DEF AdapterAnswers, Data
    <2>2. owed' \in Nat
      BY <1>5 DEF AdapterAnswers
    <2> QED
      BY <1>5, <2>1, <2>2 DEF AdapterAnswers
  <1> QED
    BY <1>1, <1>2, <1>3, <1>4, <1>5

(* Every variable keeps its type, for every adapter and every client.      *)
THEOREM TypeCorrect == Spec => []TypeOK
  <1>1. ASSUME Init PROVE TypeOK
    <2>1. prompt_ready \in BOOLEAN /\ connected \in BOOLEAN /\ polling_active \in BOOLEAN
          /\ can_mode \in BOOLEAN /\ terminated \in BOOLEAN
      BY <1>1, Zenon DEF Init, Gate!GateInit
    <2>2. prompt_buffer \in 0 .. PromptBufferMax /\ pid \in 1 .. NumPids
          /\ cmd \in Nat \ {0} /\ owed \in Nat
      BY <1>1, CountsAssumption DEF Init, Gate!GateInit, CountsAssumption
    <2>3. waiting \in [{Client, Poller} -> Gate!WaitStates] /\ notifying = {}
      BY <1>1 DEF Init, Gate!GateInit, Gate!WaitStates
    <2>4. queue \in Seq([kind : {"data"}, prompts : Nat])
      BY <1>1, EmptySeq DEF Init
    <2>5. poll \in PollStates /\ op \in Ops /\ ble \in {"idle", "wake"}
      BY <1>1 DEF Init, PollStates, Ops
    <2> QED
      BY <2>1, <2>2, <2>3, <2>4, <2>5, Zenon DEF TypeOK, Gate!GateTypeOK
  <1>2. TypeOK /\ [Next]_vars => TypeOK'
    <2> SUFFICES ASSUME TypeOK, [Next]_vars PROVE TypeOK'
      OBVIOUS
    <2>1. CASE Next
      BY <2>1, TypesClient, TypesPoller, TypesQueue DEF Next
    <2>2. CASE UNCHANGED vars
      BY <2>2, GateTypes DEF vars, TypeOK, polling, adapter
    <2> QED
      BY <2>1, <2>2
  <1> QED
    BY <1>1, <1>2, PTL DEF Spec

-----------------------------------------------------------------------------
(* The handle invariant constrains only these variables.                   *)
LEMMA HandleInvStutter ==
    ASSUME HandleInv, UNCHANGED <<polling_active, poll, op, terminated>>
    PROVE  HandleInv'
  BY DEF HandleInv, NeverTerminates, HandleMatchesFlag, FlagClearedWhileStopping, Stopping

LEMMA HandleInvClient ==
    ASSUME HandleInv, NEW up \in BOOLEAN, ClientCalls \/ ClientStep(up)
    PROVE  HandleInv'
  <1> USE DEF HandleInv, NeverTerminates, HandleMatchesFlag, FlagClearedWhileStopping,
              Stopping, polling
  <1>1. CASE InitializeELM327 BY <1>1 DEF InitializeELM327
  <1>2. CASE InitializeCANMonitor BY <1>2 DEF InitializeCANMonitor
  <1>3. CASE StartOBD2Polling BY <1>3 DEF StartOBD2Polling
  <1>4. CASE StopOBD2Polling BY <1>4 DEF StopOBD2Polling
  <1>5. CASE StartCANMonitor BY <1>5 DEF StartCANMonitor
  <1>6. CASE StopCANMonitor BY <1>6 DEF StopCANMonitor
  <1>7. CASE SendInitCommand(up) BY <1>7 DEF SendInitCommand
  <1>8. CASE EnterInitWait BY <1>8 DEF EnterInitWait
  <1>9. CASE FinishInitWait BY <1>9 DEF FinishInitWait
  <1>10. CASE SendCANCommand(up) BY <1>10 DEF SendCANCommand
  <1>11. CASE StopSetReady BY <1>11 DEF StopSetReady
  <1>12. CASE StopNotifyOne BY <1>12 DEF StopNotifyOne
  <1>13. CASE Join BY <1>13 DEF Join
  <1>14. CASE StopCANSend(up) BY <1>14 DEF StopCANSend
  <1>15. CASE EnterCANMode BY <1>15 DEF EnterCANMode
  <1> QED
    BY <1>1, <1>2, <1>3, <1>4, <1>5, <1>6, <1>7, <1>8, <1>9, <1>10, <1>11, <1>12,
       <1>13, <1>14, <1>15 DEF ClientCalls, ClientStep

(* The polling thread never makes itself unjoinable, and it never touches  *)
(* the flag.                                                               *)
LEMMA HandleInvPoller ==
    ASSUME HandleInv, NEW up \in BOOLEAN, PollStep(up)
    PROVE  HandleInv'
  <1>1. PICK from, to \in PollStates \ {"none"} : PollGoes(from, to)
    BY DEF PollStep, PollSetup, PollCycle, PollNext, PollQuery, PollEnterWait,
           PollFinishWait, PollPause, PollStates
  <1> QED
    BY <1>1 DEF HandleInv, NeverTerminates, HandleMatchesFlag, FlagClearedWhileStopping,
                Stopping, PollGoes

LEMMA HandleInvStep == HandleInv /\ [Next]_vars => HandleInv'
  <1> SUFFICES ASSUME HandleInv, [Next]_vars PROVE HandleInv'
    OBVIOUS
  <1>1. ASSUME NEW up \in BOOLEAN, ClientCalls \/ ClientStep(up) PROVE HandleInv'
    BY <1>1, HandleInvClient
  <1>2. ASSUME NEW up \in BOOLEAN, PollStep(up) PROVE HandleInv'
    BY <1>2, HandleInvPoller
  <1>3. CASE Rewait
    BY <1>3, HandleInvStutter DEF Rewait, polling
  <1>4. CASE ReceiveNotification
    BY <1>4, HandleInvStutter DEF ReceiveNotification, polling
  <1>5. CASE BleNotifyOne
    BY <1>5, HandleInvStutter DEF BleNotifyOne, polling
  <1>6. ASSUME NEW k \in Notifications, AdapterAnswers(k) PROVE HandleInv'
    BY <1>6, HandleInvStutter DEF AdapterAnswers, polling
  <1>7. CASE ConnectionChanges
    BY <1>7, HandleInvStutter DEF ConnectionChanges, SetConnectionState, polling
  <1>8. CASE UNCHANGED vars
    BY <1>8, HandleInvStutter DEF vars, polling
  <1> QED
    BY <1>1, <1>2, <1>3, <1>4, <1>5, <1>6, <1>7, <1>8 DEF Next

LEMMA HandleInvariant == Spec => []HandleInv
  <1>1. Init => HandleInv
    BY DEF Init, HandleInv, NeverTerminates, HandleMatchesFlag,
           FlagClearedWhileStopping, Stopping
  <1> QED
    BY <1>1, HandleInvStep, PTL DEF Spec

(* startOBD2Polling never assigns to a joinable std::thread, whatever the  *)
(* client calls and however the connection, the adapter and the polling    *)
(* thread behave.                                                          *)
THEOREM StartIsSafe == Spec => []NeverTerminates
  <1>1. HandleInv => NeverTerminates
    BY DEF HandleInv
  <1> QED
    BY <1>1, HandleInvariant, PTL

(* Outside stopOBD2Polling, polling_active_ says whether there is a        *)
(* polling thread to join.                                                 *)
THEOREM FlagTellsHandle == Spec => []HandleMatchesFlag
  <1>1. HandleInv => HandleMatchesFlag
    BY DEF HandleInv
  <1> QED
    BY <1>1, HandleInvariant, PTL
=============================================================================
