----------------------------- MODULE BLEPlatform -----------------------------
(***************************************************************************)
(* BLEManageriOS (BLEManagerMacOS has the same handlers): connect,         *)
(* disconnect and waitForCharacteristics on the client thread, and the     *)
(* CoreBluetooth delegate callbacks, which a serial dispatch queue runs    *)
(* one at a time.                                                          *)
(*                                                                         *)
(* The class declares its own connected_, which hides the one of           *)
(* BLEManagerBase: both are atomic and every change writes one after the   *)
(* other.  The characteristic pointers are written outside                 *)
(* characteristics_mutex_; only the notification of the waiter takes it.   *)
(*                                                                         *)
(* CoreBluetooth and the radio are outside the program: `link` is what     *)
(* they know of the device that was passed to connect() last, `other` what *)
(* they know of one that was passed to it before, and `queue` the          *)
(* callbacks they have scheduled.  No callback asks which device it is     *)
(* about.  Bound: two devices, which connect() may exchange again and      *)
(* again.                                                                  *)
(***************************************************************************)
EXTENDS Naturals, Sequences

CONSTANTS
    LinkCanFail,  \* TRUE: an established link may be lost
    MaxQueue,     \* bound: events CoreBluetooth schedules ahead
    OnTime        \* TRUE: discovery finishes before the 10 s deadline

VARIABLES
    peripheral,          \* connected_peripheral_ is set
    characteristics,     \* which of the two pointers are set
    platform_connected,  \* BLEManageriOS::connected_
    connected,           \* BLEManagerBase::connected_
    call,                \* where the client thread is inside the platform
    ble,                 \* where the BLE queue is in its current handler
    queue,               \* callbacks the BLE queue has still to run
    link,                \* external: the link CoreBluetooth maintains
    discovering,         \* external: what the discovery has still to report
    other,               \* external: link and discovery of the other device
    takes_turns          \* external, constant: does the client go to another device only
                         \* when it has disconnected and the loss was reported?

own == <<peripheral, characteristics, platform_connected, call, link, discovering, other>>
vars == <<own, connected, ble, queue>>

Properties == {"write", "notify"}

Calls == {"idle", "open", "openBase", "opened", "notFound", "dropBase",
          "checkCharacteristics", "blocked", "found", "missing"}
Links == {"down", "connecting", "up"}

NoDevice == [link |-> "down", discovering |-> {}]

StateEvent(kind) == [kind |-> kind]
CharacteristicEvent(props) == [kind |-> "characteristic", props |-> props]

Schedule(event) == queue' = Append(queue, event)

(* Bound: the radio waits when MaxQueue callbacks are pending, and a       *)
(* confirmation that the client asks for again and again is not repeated   *)
(* beyond that.  The end of a link that was up is always reported.         *)
Room == Len(queue) < MaxQueue

(* send() reaches the adapter: both pointers it tests are set, and the     *)
(* peripheral really is connected.                                         *)
CanSend == peripheral /\ "write" \in characteristics /\ link = "up"

AllFound == characteristics = Properties

-----------------------------------------------------------------------------
(* connect(): an unknown device is refused; otherwise CoreBluetooth is     *)
(* asked to connect.  A peripheral that is already connected is confirmed  *)
(* by another didConnect.                                                  *)
AskToConnect(nowUp) ==
    /\ call = "idle"
    /\ call' = "open"
    /\ peripheral' = TRUE
    /\ IF nowUp
       THEN link' = "up" /\ IF Room THEN Schedule(StateEvent("connected")) ELSE UNCHANGED queue
       ELSE link' = "connecting" /\ UNCHANGED queue
    /\ UNCHANGED <<characteristics, platform_connected, connected, ble>>

Connect ==
    /\ AskToConnect(link = "up")
    /\ UNCHANGED <<discovering, other>>

ConnectUnknown ==
    /\ call = "idle"
    /\ call' = "notFound"
    /\ UNCHANGED <<peripheral, characteristics, platform_connected, connected, ble,
                   queue, link, discovering, other>>

LossPending == \E i \in 1 .. Len(queue) : queue[i].kind = "lost"

(* connect() to the other device: connected_peripheral_ is overwritten,    *)
(* and nobody cancels the connection that it stood for.                    *)
ConnectOther ==
    /\ takes_turns => ~peripheral /\ ~LossPending
    /\ AskToConnect(other.link = "up")
    /\ discovering' = other.discovering
    /\ other' = [link |-> link, discovering |-> discovering]

(* ... and the connection is reported as made.                             *)
ConnectSetsPlatform ==
    /\ call = "open"
    /\ platform_connected' = TRUE
    /\ call' = "openBase"
    /\ UNCHANGED <<peripheral, characteristics, connected, ble, queue, link, discovering, other>>

ConnectSetsBase ==
    /\ call = "openBase"
    /\ connected' = TRUE
    /\ call' = "opened"
    /\ UNCHANGED <<peripheral, characteristics, platform_connected, ble, queue, link, discovering, other>>

(* Faulty variant: disconnect() drops its reference without cancelling.    *)
ForgetPeripheral ==
    /\ call = "idle"
    /\ peripheral' = FALSE
    /\ characteristics' = {}
    /\ platform_connected' = FALSE
    /\ call' = "dropBase"
    /\ UNCHANGED <<connected, ble, queue, link, discovering, other>>

(* disconnect(): a connected link is cancelled, and didDisconnect follows; *)
(* for a pending connection CoreBluetooth may or may not report it.        *)
Disconnect ==
    /\ call = "idle"
    /\ peripheral' = FALSE
    /\ characteristics' = {}
    /\ platform_connected' = FALSE
    /\ call' = "dropBase"
    /\ IF peripheral
       THEN link' = "down" /\ discovering' = {}
       ELSE UNCHANGED <<link, discovering>>
    /\ \/ peripheral /\ link = "up" /\ Schedule(StateEvent("lost"))
       \/ peripheral /\ link = "connecting" /\ Room /\ Schedule(StateEvent("lost"))
       \/ ~(peripheral /\ link = "up") /\ UNCHANGED queue
    /\ UNCHANGED <<connected, ble, other>>

DisconnectSetsBase ==
    /\ call = "dropBase"
    /\ connected' = FALSE
    /\ call' = "idle"
    /\ UNCHANGED <<peripheral, characteristics, platform_connected, ble, queue, link, discovering, other>>

(* waitForCharacteristics(): under the mutex, test and block until notified. *)
WaitForCharacteristics ==
    /\ call = "idle"
    /\ call' = "checkCharacteristics"
    /\ UNCHANGED <<peripheral, characteristics, platform_connected, connected, ble, queue, link, discovering, other>>

CheckCharacteristics ==
    /\ call = "checkCharacteristics"
    /\ call' = IF AllFound THEN "found" ELSE "blocked"
    /\ UNCHANGED <<peripheral, characteristics, platform_connected, connected, ble, queue, link, discovering, other>>

(* No callback that could still complete the discovery is to be expected.  *)
Hopeless == link = "down" /\ queue = <<>> /\ ble = "idle"

(* Faulty variant: wait without a deadline.                                *)
WaitForever ==
    /\ call = "blocked"
    /\ AllFound
    /\ call' = "found"
    /\ UNCHANGED <<peripheral, characteristics, platform_connected, connected, ble, queue, link, discovering, other>>

WaitDeadline ==
    /\ call = "blocked"
    /\ OnTime => Hopeless
    /\ call' = IF AllFound THEN "found" ELSE "missing"
    /\ UNCHANGED <<peripheral, characteristics, platform_connected, connected, ble, queue, link, discovering, other>>

(* The caller takes the result of connect or waitForCharacteristics.       *)
TakeResult(result) ==
    /\ call = result
    /\ call' = "idle"
    /\ UNCHANGED <<peripheral, characteristics, platform_connected, connected, ble, queue, link, discovering, other>>

ClientStep ==
    ConnectSetsPlatform \/ ConnectSetsBase \/ DisconnectSetsBase \/ CheckCharacteristics \/ WaitDeadline

-----------------------------------------------------------------------------
(* The BLE queue starts the next callback, of one of the given kinds.      *)
Runs(kinds) ==
    /\ ble = "idle"
    /\ queue # <<>>
    /\ Head(queue).kind \in kinds
    /\ queue' = Tail(queue)

(* didConnectPeripheral: ask for the services, then                        *)
(* onConnectionStateChanged(true), which writes both flags.  Of two        *)
(* devices that are both connected, either may be the one that is asked.   *)
DidConnect ==
    /\ Runs({"connected"})
    /\ discovering' = IF link = "up" THEN Properties ELSE {}
    /\ other' = IF other.link = "up" THEN [other EXCEPT !.discovering = Properties] ELSE other
    /\ platform_connected' = TRUE
    /\ ble' = "setUp"
    /\ UNCHANGED <<peripheral, characteristics, connected, call, link>>

(* didDisconnectPeripheral, didFailToConnectPeripheral and the power-off   *)
(* of Bluetooth: both flags are cleared, the pointers stay.                *)
DidLose ==
    /\ Runs({"lost"})
    /\ platform_connected' = FALSE
    /\ ble' = "setDown"
    /\ UNCHANGED <<peripheral, characteristics, connected, call, link, discovering, other>>

SetsBase ==
    /\ ble \in {"setUp", "setDown"}
    /\ connected' = (ble = "setUp")
    /\ ble' = "idle"
    /\ UNCHANGED <<own, queue>>

(* Faulty variant: a characteristic that can only be read is kept too.     *)
KeepAnyCharacteristic ==
    /\ Runs({"characteristic"})
    /\ characteristics' = characteristics \cup Head(queue).props \cup {"read"}
    /\ ble' = "notifyAll"
    /\ UNCHANGED <<peripheral, platform_connected, connected, call, link, discovering, other>>

(* onCharacteristicDiscovered: write the pointers ...                      *)
DidDiscoverCharacteristic ==
    /\ Runs({"characteristic"})
    /\ characteristics' = characteristics \cup Head(queue).props
    /\ ble' = "notifyAll"
    /\ UNCHANGED <<peripheral, platform_connected, connected, call, link, discovering, other>>

(* Faulty variant: nobody is notified of the pointers.                     *)
NotifyNobody ==
    /\ ble = "notifyAll"
    /\ ble' = "idle"
    /\ UNCHANGED <<own, connected, queue>>

(* ... and notify_all under the mutex.                                     *)
NotifyAll ==
    /\ ble = "notifyAll"
    /\ call' = IF call = "blocked" THEN "checkCharacteristics" ELSE call
    /\ ble' = "idle"
    /\ UNCHANGED <<peripheral, characteristics, platform_connected, connected, queue, link, discovering, other>>

BleStep ==
    DidConnect \/ DidLose \/ SetsBase \/ DidDiscoverCharacteristic \/ NotifyAll

-----------------------------------------------------------------------------
(* CoreBluetooth and the radio.                                            *)
LinkComesUp ==
    /\ Room
    /\ link = "connecting"
    /\ link' = "up"
    /\ Schedule(StateEvent("connected"))
    /\ UNCHANGED <<peripheral, characteristics, platform_connected, connected, call, ble,
                   discovering, other>>

LinkGoesDown ==
    /\ Room
    /\ \/ link = "connecting"
       \/ link = "up" /\ LinkCanFail
    /\ link' = "down"
    /\ discovering' = {}
    /\ Schedule(StateEvent("lost"))
    /\ UNCHANGED <<peripheral, characteristics, platform_connected, connected, call, ble, other>>

ReportCharacteristic ==
    /\ Room
    /\ link = "up"
    /\ \E props \in (SUBSET discovering) \ {{}} :
          /\ discovering' = discovering \ props
          /\ Schedule(CharacteristicEvent(props))
    /\ UNCHANGED <<peripheral, characteristics, platform_connected, connected, call, ble, link, other>>

RadioStep == LinkComesUp \/ LinkGoesDown \/ ReportCharacteristic

(* The same three for the device that connect() has replaced.              *)
OtherComesUp ==
    /\ other.link = "connecting"
    /\ other' = [other EXCEPT !.link = "up"]
    /\ Schedule(StateEvent("connected"))

OtherGoesDown ==
    /\ \/ other.link = "connecting"
       \/ other.link = "up" /\ LinkCanFail
    /\ other' = NoDevice
    /\ Schedule(StateEvent("lost"))

OtherReports ==
    /\ other.link = "up"
    /\ \E props \in (SUBSET other.discovering) \ {{}} :
          /\ other' = [other EXCEPT !.discovering = @ \ props]
          /\ Schedule(CharacteristicEvent(props))

OtherDevice ==
    /\ Room
    /\ OtherComesUp \/ OtherGoesDown \/ OtherReports
    /\ UNCHANGED <<peripheral, characteristics, platform_connected, connected, call, ble,
                   link, discovering>>

-----------------------------------------------------------------------------
Init ==
    /\ peripheral = FALSE
    /\ characteristics = {}
    /\ platform_connected = FALSE
    /\ connected = FALSE
    /\ call = "idle"
    /\ ble = "idle"
    /\ queue = <<>>
    /\ link = "down"
    /\ discovering = {}
    /\ other = NoDevice
    /\ takes_turns \in BOOLEAN

ClientCalls ==
    \/ Connect \/ ConnectOther \/ ConnectUnknown \/ Disconnect \/ WaitForCharacteristics
    \/ \E result \in {"opened", "notFound", "found", "missing"} : TakeResult(result)

Next ==
    /\ ClientCalls \/ ClientStep \/ BleStep \/ RadioStep \/ OtherDevice
    /\ UNCHANGED takes_turns

(* The operating system schedules the client thread, which waits with a    *)
(* deadline, and the dispatch queue.  The radio promises nothing.          *)
Fairness == WF_vars(ClientStep) /\ WF_vars(BleStep)

Spec == Init /\ [][Next]_<<vars, takes_turns>>

FairSpec == Spec /\ Fairness

-----------------------------------------------------------------------------
Events ==
    [kind : {"connected", "lost"}]
        \cup [kind : {"characteristic"}, props : SUBSET Properties]

TypeOK ==
    /\ peripheral \in BOOLEAN
    /\ characteristics \subseteq Properties
    /\ platform_connected \in BOOLEAN
    /\ connected \in BOOLEAN
    /\ call \in Calls
    /\ ble \in {"idle", "setUp", "setDown", "notifyAll"}
    /\ queue \in Seq(Events)
    /\ link \in Links
    /\ discovering \subseteq Properties
    /\ other \in [link : Links, discovering : SUBSET Properties]

(* A client that is blocked in waitForCharacteristics although both        *)
(* pointers are set is about to be notified: the pointers are written      *)
(* outside the mutex, yet no wakeup is lost to that.                       *)
NoLostCharacteristic ==
    call = "blocked" /\ AllFound => ble = "notifyAll"

(* Nobody keeps a link that the program does not know of: when no handler  *)
(* and no call is under way and isConnected() is false, neither device is  *)
(* connected, or the callback that tells so is on its way.  The client has *)
(* to take turns for that: connect() to another device gives up the        *)
(* connection there is, and no callback tells the devices apart            *)
(* (BLEManageriOS.mm:311, 79-103).                                         *)
NoForgottenLink ==
    /\ takes_turns
    /\ call = "idle" /\ ble = "idle" /\ ~platform_connected
    /\ "up" \in {link, other.link}
    => \E i \in 1 .. Len(queue) : queue[i].kind = "connected"

(* The inductive invariant behind NoForgottenLink.  A link that is up      *)
(* belongs to connected_peripheral_, and isConnected() is true with no     *)
(* loss still to be handled, or will be made so by a didConnect that comes *)
(* after every loss still to be handled.                                   *)
LinkIsHeld == link # "down" => peripheral

OneDevice == other = NoDevice /\ (link = "down" => discovering = {})

NoLossAfter(j) == \A i \in 1 .. Len(queue) : i > j => queue[i].kind # "lost"

LinkIsAnnounced ==
    link = "up" =>
        \/ platform_connected /\ NoLossAfter(0)
        \/ \E j \in 1 .. Len(queue) : queue[j].kind = "connected" /\ NoLossAfter(j)

LinkInv == TypeOK /\ LinkIsHeld /\ OneDevice /\ LinkIsAnnounced

(* A wait for the characteristics ends, found or not.                      *)
WaitEnds == (call = "checkCharacteristics") ~> (call \in {"found", "missing"})
=============================================================================
