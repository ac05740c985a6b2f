--------------------------- MODULE BLEPlatformProofs ---------------------------
(***************************************************************************)
(* Proofs about BLEPlatform, for every bound on the callbacks that are     *)
(* scheduled ahead and whether or not an established link can fail: the    *)
(* type invariant, that no wakeup of waitForCharacteristics is lost, and   *)
(* that no link is forgotten when the client takes turns.                  *)
(***************************************************************************)
EXTENDS BLEPlatform, SequenceTheorems, TLAPS

-----------------------------------------------------------------------------
(* What the steps do to the queue: nothing, take the head, or append.      *)
LEMMA QueueTypes ==
    ASSUME queue \in Seq(Events),
           \/ UNCHANGED queue
           \/ queue # <<>> /\ queue' = Tail(queue)
           \/ \E event \in Events : Schedule(event)
    PROVE  queue' \in Seq(Events)
  <1>1. CASE UNCHANGED queue
    BY <1>1
  <1>2. CASE queue # <<>> /\ queue' = Tail(queue)
    BY <1>2, HeadTailProperties
  <1>3. ASSUME NEW event \in Events, Schedule(event) PROVE queue' \in Seq(Events)
    BY <1>3, AppendProperties DEF Schedule
  <1> QED
    BY <1>1, <1>2, <1>3

LEMMA EventTypes ==
    /\ StateEvent("connected") \in Events
    /\ StateEvent("lost") \in Events
    /\ \A props \in SUBSET Properties : CharacteristicEvent(props) \in Events
  BY DEF StateEvent, CharacteristicEvent, Events

LEMMA TypesClient ==
    ASSUME TypeOK, ClientCalls \/ ClientStep
    PROVE  TypeOK'
  <1> USE QueueTypes, EventTypes DEF TypeOK, Calls, Links, Properties
  <1>1. CASE Connect BY <1>1 DEF Connect, AskToConnect
  <1>9. CASE ConnectOther
    <2>1. /\ peripheral' = TRUE /\ call' = "open" /\ link' \in {"up", "connecting"}
          /\ UNCHANGED <<characteristics, platform_connected, connected, ble>>
          /\ UNCHANGED queue \/ Schedule(StateEvent("connected"))
      BY <1>9 DEF ConnectOther, AskToConnect
    <2>2. discovering' \in SUBSET Properties /\ other' \in [link : Links, discovering : SUBSET Properties]
      BY <1>9 DEF ConnectOther
    <2> QED
      BY <2>1, <2>2
  <1>10. CASE ConnectUnknown BY <1>10 DEF ConnectUnknown
  <1>11. CASE ConnectSetsPlatform BY <1>11 DEF ConnectSetsPlatform
  <1>2. CASE Disconnect BY <1>2 DEF Disconnect
  <1>3. CASE WaitForCharacteristics BY <1>3 DEF WaitForCharacteristics
  <1>4. ASSUME NEW result \in {"opened", "notFound", "found", "missing"}, TakeResult(result)
        PROVE  TypeOK'
    BY <1>4 DEF TakeResult
  <1>5. CASE ConnectSetsBase BY <1>5 DEF ConnectSetsBase
  <1>6. CASE DisconnectSetsBase BY <1>6 DEF DisconnectSetsBase
  <1>7. CASE CheckCharacteristics BY <1>7 DEF CheckCharacteristics
  <1>8. CASE WaitDeadline BY <1>8 DEF WaitDeadline
  <1> QED
    BY <1>1, <1>2, <1>3, <1>4, <1>5, <1>6, <1>7, <1>8, <1>9, <1>10, <1>11
       DEF ClientCalls, ClientStep

LEMMA TypesQueue ==
    ASSUME TypeOK, BleStep \/ RadioStep \/ OtherDevice
    PROVE  TypeOK'
  <1> USE QueueTypes, EventTypes DEF TypeOK, Links, Runs
  <1>1. CASE DidConnect BY <1>1 DEF DidConnect
  <1>2. CASE DidLose BY <1>2 DEF DidLose
  <1>3. CASE SetsBase BY <1>3 DEF SetsBase, own
  <1>4. CASE DidDiscoverCharacteristic
    <2>1. Head(queue) \in Events /\ Head(queue).kind = "characteristic"
      BY <1>4, HeadTailProperties DEF DidDiscoverCharacteristic
    <2>2. Head(queue).props \subseteq Properties
      BY <2>1 DEF Events
    <2> QED
      BY <1>4, <2>2 DEF DidDiscoverCharacteristic
  <1>5. CASE NotifyAll BY <1>5 DEF NotifyAll, Calls
  <1>6. CASE LinkComesUp BY <1>6 DEF LinkComesUp
  <1>7. CASE LinkGoesDown BY <1>7 DEF LinkGoesDown
  <1>8. CASE ReportCharacteristic BY <1>8 DEF ReportCharacteristic
  <1>9. CASE OtherDevice
    <2>1. UNCHANGED <<peripheral, characteristics, platform_connected, connected, call, ble,
                      link, discovering>>
      BY <1>9 DEF OtherDevice
    <2>2. queue' \in Seq(Events)
      BY <1>9 DEF OtherDevice, OtherComesUp, OtherGoesDown, OtherReports
    <2>3. other' \in [link : Links, discovering : SUBSET Properties]
      BY <1>9 DEF OtherDevice, OtherComesUp, OtherGoesDown, OtherReports, NoDevice
    <2> QED
      BY <2>1, <2>2, <2>3
  <1> QED
    BY <1>1, <1>2, <1>3, <1>4, <1>5, <1>6, <1>7, <1>8, <1>9 DEF BleStep, RadioStep

LEMMA TypesStep == TypeOK /\ [Next]_<<vars, takes_turns>> => TypeOK'
  <1> SUFFICES ASSUME TypeOK, [Next]_<<vars, takes_turns>> PROVE TypeOK'
    OBVIOUS
  <1>1. CASE Next
    BY <1>1, TypesClient, TypesQueue DEF Next
  <1>2. CASE UNCHANGED vars
    BY <1>2 DEF vars, own, TypeOK
  <1> QED
    BY <1>1, <1>2

LEMMA InitTypes == Init => TypeOK
  <1>1. NoDevice \in [link : Links, discovering : SUBSET Properties]
    BY DEF NoDevice, Links
  <1> QED
    BY <1>1, EmptySeq DEF Init, TypeOK, Calls, Links

(* Every variable keeps its type, whatever the radio does.                 *)
THEOREM PlatformTypeCorrect == Spec => []TypeOK
  BY InitTypes, TypesStep, PTL DEF Spec

-----------------------------------------------------------------------------
(* waitForCharacteristics is never left blocked with both pointers set:    *)
(* the pointers are written without the mutex, but the notification that   *)
(* follows them takes it.                                                  *)
THEOREM NoCharacteristicIsLost == Spec => []NoLostCharacteristic
  <1>1. Init => NoLostCharacteristic
    BY DEF Init, NoLostCharacteristic
  <1>2. NoLostCharacteristic /\ [Next]_<<vars, takes_turns>> => NoLostCharacteristic'
    <2> SUFFICES ASSUME NoLostCharacteristic, [Next]_<<vars, takes_turns>> PROVE NoLostCharacteristic'
      OBVIOUS
    <2> USE DEF NoLostCharacteristic, AllFound
    <2>1. CASE ClientCalls
      BY <2>1 DEF ClientCalls, Connect, ConnectOther, ConnectUnknown, AskToConnect, Disconnect,
                  WaitForCharacteristics, TakeResult
    <2>2. CASE ClientStep
      BY <2>2 DEF ClientStep, ConnectSetsPlatform, ConnectSetsBase, DisconnectSetsBase, CheckCharacteristics,
                  WaitDeadline
    <2>3. CASE BleStep
      BY <2>3 DEF BleStep, DidConnect, DidLose, SetsBase, DidDiscoverCharacteristic,
                  NotifyAll, Runs, own
    <2>4. CASE RadioStep
      BY <2>4 DEF RadioStep, LinkComesUp, LinkGoesDown, ReportCharacteristic
    <2>5. CASE OtherDevice \/ UNCHANGED vars
      BY <2>5 DEF OtherDevice, vars, own
    <2> QED
      BY <2>1, <2>2, <2>3, <2>4, <2>5 DEF Next
  <1> QED
    BY <1>1, <1>2, PTL DEF Spec

-----------------------------------------------------------------------------
(* A loss that is not in the queue is not in what is left of it, nor does  *)
(* an event of another kind put one there.                                 *)
LEMMA NoLossInTail ==
    ASSUME queue \in Seq(Events), queue # <<>>, queue' = Tail(queue),
           NEW j \in Nat, NoLossAfter(j + 1)
    PROVE  NoLossAfter(j)'
  <1>1. /\ Len(queue') = Len(queue) - 1
        /\ \A i \in 1 .. Len(queue') : queue'[i] = queue[i + 1]
    BY HeadTailProperties
  <1>2. Len(queue) \in Nat
    BY LenProperties
  <1> QED
    BY <1>1, <1>2 DEF NoLossAfter

LEMMA NoLossAppended ==
    ASSUME queue \in Seq(Events), NEW event \in Events, event.kind # "lost",
           Schedule(event), NEW j \in Nat, NoLossAfter(j)
    PROVE  NoLossAfter(j)'
  <1>1. /\ Len(queue') = Len(queue) + 1
        /\ \A i \in 1 .. Len(queue) : queue'[i] = queue[i]
        /\ queue'[Len(queue) + 1] = event
    BY AppendProperties DEF Schedule
  <1>2. Len(queue) \in Nat
    BY LenProperties
  <1> QED
    BY <1>1, <1>2 DEF NoLossAfter

(* A didConnect that is scheduled comes after every loss.                  *)
LEMMA ConnectedAppended ==
    ASSUME queue \in Seq(Events), Schedule(StateEvent("connected"))
    PROVE  LinkIsAnnounced'
  <1>1. /\ Len(queue') = Len(queue) + 1
        /\ queue'[Len(queue) + 1] = StateEvent("connected")
    BY AppendProperties, EventTypes DEF Schedule
  <1>2. Len(queue) \in Nat
    BY LenProperties
  <1> QED
    BY <1>1, <1>2 DEF LinkIsAnnounced, NoLossAfter, StateEvent

(* A callback other than didConnect and didDisconnect starts.              *)
LEMMA StaysAnnounced ==
    ASSUME TypeOK, LinkIsAnnounced, queue # <<>>, queue' = Tail(queue), link' = link,
           \/ Head(queue).kind = "characteristic" /\ UNCHANGED platform_connected
           \/ Head(queue).kind = "connected" /\ platform_connected' = TRUE
           \/ Head(queue).kind = "lost" /\ platform_connected' = FALSE
    PROVE  LinkIsAnnounced'
  <1> SUFFICES ASSUME link = "up" PROVE LinkIsAnnounced'
    BY DEF LinkIsAnnounced
  <1>1. queue \in Seq(Events) /\ Len(queue) \in Nat /\ Len(queue) > 0
    BY LenProperties, EmptySeq DEF TypeOK
  <1>2. /\ Len(queue') = Len(queue) - 1
        /\ \A i \in 1 .. Len(queue') : queue'[i] = queue[i + 1]
        /\ Head(queue) = queue[1]
    BY <1>1, HeadTailProperties
  <1>3. CASE platform_connected /\ NoLossAfter(0)
    <2>1. NoLossAfter(1)
      BY <1>3, <1>1 DEF NoLossAfter
    <2>2. NoLossAfter(0)'
      BY <2>1, <1>1, NoLossInTail
    <2>3. Head(queue).kind # "lost"
      BY <1>3, <1>1, <1>2 DEF NoLossAfter
    <2> QED
      BY <1>3, <2>2, <2>3 DEF LinkIsAnnounced
  <1>4. ASSUME NEW j \in 1 .. Len(queue), queue[j].kind = "connected", NoLossAfter(j)
        PROVE  LinkIsAnnounced'
    <2>1. NoLossAfter(j - 1)'
      BY <1>1, <1>4, NoLossInTail
    <2>2. CASE j = 1
      BY <2>1, <2>2, <1>2, <1>4 DEF LinkIsAnnounced
    <2>3. CASE j > 1
      <3>1. j - 1 \in 1 .. Len(queue') /\ queue'[j - 1].kind = "connected"
        BY <1>1, <1>2, <1>4, <2>3
      <3> QED
        BY <3>1, <2>1 DEF LinkIsAnnounced
    <2> QED
      BY <2>2, <2>3, <1>1
  <1> QED
    BY <1>3, <1>4 DEF LinkIsAnnounced

(* Nothing the invariant reads changes, or isConnected() becomes true.     *)
LEMMA AnnouncedStutter ==
    ASSUME LinkIsAnnounced, UNCHANGED <<queue, link>>, platform_connected => platform_connected'
    PROVE  LinkIsAnnounced'
  BY DEF LinkIsAnnounced, NoLossAfter

(* With one device at a time there is never another one.                   *)
LEMMA OneDeviceStep ==
    ASSUME takes_turns, LinkInv, [Next]_<<vars, takes_turns>>
    PROVE  OneDevice'
  <1> USE DEF LinkInv, LinkIsHeld, OneDevice, NoDevice
  <1>1. CASE ClientCalls
    BY <1>1 DEF ClientCalls, Connect, ConnectOther, ConnectUnknown, AskToConnect, Disconnect,
                WaitForCharacteristics, TakeResult
  <1>2. CASE ClientStep
    BY <1>2 DEF ClientStep, ConnectSetsPlatform, ConnectSetsBase, DisconnectSetsBase,
                CheckCharacteristics, WaitDeadline
  <1>3. CASE BleStep
    BY <1>3 DEF BleStep, DidConnect, DidLose, SetsBase, DidDiscoverCharacteristic, NotifyAll, own
  <1>4. CASE RadioStep
    BY <1>4 DEF RadioStep, LinkComesUp, LinkGoesDown, ReportCharacteristic
  <1>5. CASE OtherDevice
    BY <1>5 DEF OtherDevice, OtherComesUp, OtherGoesDown, OtherReports
  <1>6. CASE UNCHANGED vars
    BY <1>6 DEF vars, own
  <1> QED
    BY <1>1, <1>2, <1>3, <1>4, <1>5, <1>6 DEF Next

LEMMA LinkInvClient ==
    ASSUME takes_turns, LinkInv, ClientCalls \/ ClientStep
    PROVE  LinkIsHeld' /\ LinkIsAnnounced'
  <1> USE DEF LinkInv, LinkIsHeld
  <1>1. CASE Connect \/ ConnectOther
    <2>1. CASE Schedule(StateEvent("connected")) /\ peripheral'
      BY <2>1, ConnectedAppended DEF TypeOK
    <2>2. CASE link' = "connecting" /\ peripheral'
      BY <2>2 DEF LinkIsAnnounced
    <2>3. CASE UNCHANGED <<queue, link>> /\ (platform_connected => platform_connected')
               /\ (peripheral => peripheral')
      BY <2>3, AnnouncedStutter
    <2> QED
      BY <1>1, <2>1, <2>2, <2>3 DEF Connect, ConnectOther, AskToConnect, OneDevice, NoDevice
  <1>2. CASE Disconnect
    BY <1>2 DEF Disconnect, LinkIsAnnounced
  <1>3. CASE WaitForCharacteristics \/ ConnectUnknown
    BY <1>3, AnnouncedStutter DEF WaitForCharacteristics, ConnectUnknown
  <1>4. ASSUME NEW result \in {"opened", "notFound", "found", "missing"}, TakeResult(result)
        PROVE  LinkIsHeld' /\ LinkIsAnnounced'
    BY <1>4, AnnouncedStutter DEF TakeResult
  <1>5. CASE ClientStep
    BY <1>5, AnnouncedStutter
       DEF ClientStep, ConnectSetsPlatform, ConnectSetsBase, DisconnectSetsBase,
           CheckCharacteristics, WaitDeadline
  <1> QED
    BY <1>1, <1>2, <1>3, <1>4, <1>5 DEF ClientCalls

LEMMA LinkInvQueue ==
    ASSUME LinkInv, BleStep \/ RadioStep
    PROVE  LinkIsHeld' /\ LinkIsAnnounced'
  <1> USE DEF LinkInv, LinkIsHeld
  <1>1. CASE DidConnect BY <1>1, StaysAnnounced DEF DidConnect, Runs
  <1>2. CASE DidLose BY <1>2, StaysAnnounced DEF DidLose, Runs
  <1>3. CASE DidDiscoverCharacteristic
    BY <1>3, StaysAnnounced DEF DidDiscoverCharacteristic, Runs
  <1>4. CASE SetsBase BY <1>4, AnnouncedStutter DEF SetsBase, own
  <1>5. CASE NotifyAll BY <1>5, AnnouncedStutter DEF NotifyAll
  <1>6. CASE LinkComesUp BY <1>6, ConnectedAppended DEF LinkComesUp, TypeOK
  <1>7. CASE LinkGoesDown BY <1>7 DEF LinkGoesDown, LinkIsAnnounced
  <1>8. CASE ReportCharacteristic
    <2>1. PICK props \in SUBSET Properties : Schedule(CharacteristicEvent(props))
      BY <1>8 DEF ReportCharacteristic, TypeOK
    <2> DEFINE event == CharacteristicEvent(props)
    <2>2. event \in Events /\ event.kind = "characteristic"
      BY EventTypes DEF CharacteristicEvent
    <2>3. queue \in Seq(Events) /\ Len(queue) \in Nat
      BY LenProperties DEF TypeOK
    <2>4. \A j \in Nat : NoLossAfter(j) => NoLossAfter(j)'
      BY <2>1, <2>2, <2>3, NoLossAppended
    <2>5. Len(queue') = Len(queue) + 1 /\ \A i \in 1 .. Len(queue) : queue'[i] = queue[i]
      BY <2>1, <2>2, <2>3, AppendProperties DEF Schedule
    <2>6. LinkIsAnnounced'
      BY <1>8, <2>3, <2>4, <2>5 DEF ReportCharacteristic, LinkIsAnnounced
    <2> QED
      BY <1>8, <2>6 DEF ReportCharacteristic
  <1> QED
    BY <1>1, <1>2, <1>3, <1>4, <1>5, <1>6, <1>7, <1>8 DEF BleStep, RadioStep

(* When isConnected() is false and nothing is under way, no device is      *)
(* connected, or the callback that tells so is on its way: a client that   *)
(* goes to another device only when it has disconnected from the one       *)
(* before, and has been told of that loss, never keeps a link that it does *)
(* not know of (BLEManageriOS.mm:277-347, 399-413).                        *)
THEOREM NoLinkIsForgotten == Spec => []NoForgottenLink
  <1> DEFINE Inv == TypeOK /\ (takes_turns => LinkInv)
  <1>1. Init => Inv
    BY InitTypes DEF Init, LinkInv, LinkIsHeld, LinkIsAnnounced, OneDevice
  <1>2. Inv /\ [Next]_<<vars, takes_turns>> => Inv'
    <2> SUFFICES ASSUME LinkInv, takes_turns, [Next]_<<vars, takes_turns>> PROVE LinkInv'
      BY TypesStep DEF Next
    <2>1. TypeOK' /\ OneDevice'
      BY TypesStep, OneDeviceStep DEF LinkInv
    <2>2. ~OtherDevice
      BY DEF LinkInv, OneDevice, NoDevice, OtherDevice, OtherComesUp, OtherGoesDown, OtherReports
    <2>3. CASE Next
      BY <2>1, <2>2, <2>3, LinkInvClient, LinkInvQueue DEF Next, LinkInv
    <2>4. CASE UNCHANGED vars
      BY <2>1, <2>4, AnnouncedStutter DEF vars, own, LinkInv, LinkIsHeld
    <2> QED
      BY <2>3, <2>4
  <1>3. Inv => NoForgottenLink
    BY DEF LinkInv, LinkIsAnnounced, OneDevice, NoDevice, NoForgottenLink
  <1> QED
    BY <1>1, <1>2, <1>3, PTL DEF Spec
=============================================================================
