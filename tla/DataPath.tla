------------------------------- MODULE DataPath --------------------------------
(***************************************************************************)
(* What a notification goes through on the BLE queue:                      *)
(* BLEManagerBase::invokeDataCallback reads can_mode_, parses the text,    *)
(* shows the bytes to the vehicle detector and calls the client, while the *)
(* client's thread changes the mode.  An adapter's line may come in two    *)
(* notifications, cut anywhere, and each is parsed by itself.  The prompt  *)
(* scan is module PromptGate's.  OBD2Protocol has a detector of its own.   *)
(***************************************************************************)
EXTENDS Integers, Sequences, FiniteSets, ELM327Transport, VehicleDetector

CONSTANTS
    Lines,      \* what the adapter may print: its text, the bytes it means, and when
    Cuts,       \* where a line may be cut into two notifications, if it is
    MaxLines,   \* bound on the lines printed
    MaxAnswers  \* bound on the answers that the client passes on

\* What a printed line adds to a VIN is a sequence of characters.
ASSUME LinesAssumption == \A line \in Lines : VINPart(ParseOBD2Response(line.text)) \in Seq(Int)

VARIABLES
    can_mode,         \* can_mode_
    data_callback,    \* is data_callback_ set?
    connected,        \* connected_, and the link itself
    notification,     \* the one on the BLE queue, and how far it has come
    rest,             \* the part of the line that has not come yet
    printed,          \* lines printed, or passed on, so far
    detector,         \* vehicle_detector_
    obd2_detector     \* obd2_protocol_'s detector_

pathVars == <<can_mode, data_callback, connected, notification, rest, printed,
              detector, obd2_detector>>

Idle == [step |-> "idle", means |-> <<>>, due |-> FALSE, bytes |-> <<>>]

\* A notification, with what it reads as in either mode; due is TRUE when it is a whole
\* line that was printed while the program was ready for it.
Notify(text, means, due) ==
    [step |-> "parse", means |-> means, due |-> due,
     can |-> ParseCANFrame(text), obd2 |-> ParseOBD2Response(text)]

PathInit ==
    /\ can_mode = FALSE
    /\ data_callback = FALSE
    /\ connected = FALSE
    /\ notification = Idle
    /\ rest = Idle
    /\ printed = 0
    /\ detector = Blank
    /\ obd2_detector = Blank

\* The adapter prints a line, whose first k characters come as a notification.
PrintLine(line, k, ready) ==
    /\ connected
    /\ notification = Idle
    /\ rest = Idle
    /\ printed < MaxLines
    /\ notification' = Notify(SubSeq(line.text, 1, k), line.means, ready /\ k = Len(line.text))
    /\ rest' = IF k = Len(line.text) THEN Idle
               ELSE Notify(From(line.text, k + 1), line.means, FALSE)
    /\ printed' = printed + 1
    /\ UNCHANGED <<can_mode, data_callback, connected, detector, obd2_detector>>

\* The rest of a line comes as a second notification, unless the link has gone.
NotifyRest ==
    /\ notification = Idle
    /\ rest # Idle
    /\ notification' = IF connected THEN rest ELSE Idle
    /\ rest' = Idle
    /\ UNCHANGED <<can_mode, data_callback, connected, printed, detector, obd2_detector>>

\* What the notification on the queue is about to be read as.
Read == IF can_mode THEN notification.can ELSE notification.obd2

Parse ==
    /\ notification.step = "parse"
    /\ notification' = IF data_callback /\ Read # <<>>
                       THEN [step |-> "observe", means |-> notification.means,
                             due |-> notification.due, bytes |-> Read]
                       ELSE Idle
    /\ UNCHANGED <<can_mode, data_callback, connected, rest, printed, detector, obd2_detector>>

Observe ==
    /\ notification.step = "observe"
    /\ detector' = ObserveFrame(detector, notification.bytes)
    /\ notification' = [notification EXCEPT !.step = "callback"]
    /\ UNCHANGED <<can_mode, data_callback, connected, rest, printed, obd2_detector>>

CallbackReturns ==
    /\ notification.step = "callback"
    /\ notification' = Idle
    /\ UNCHANGED <<can_mode, data_callback, connected, rest, printed, detector, obd2_detector>>

LoseLink ==
    /\ connected
    /\ connected' = FALSE
    /\ UNCHANGED <<can_mode, data_callback, notification, rest, printed, detector, obd2_detector>>

SetCANMode(on) ==
    /\ can_mode' = on
    /\ UNCHANGED <<data_callback, connected, notification, rest, printed, detector, obd2_detector>>

SetConnected(on) ==
    /\ connected' = on
    /\ UNCHANGED <<can_mode, data_callback, notification, rest, printed, detector, obd2_detector>>

OnDataReceived ==
    /\ data_callback' = TRUE
    /\ UNCHANGED <<can_mode, connected, notification, rest, printed, detector, obd2_detector>>

\* initializeOBD2WithDetection, after the command sequence; the VIN query is sent.
DetectVehicle ==
    /\ obd2_detector' = Blank
    /\ UNCHANGED <<can_mode, data_callback, connected, notification, rest, printed, detector>>

(* The client hands the text of an answer to processOBD2Data.  Every       *)
(* answer with bytes is taken for a VIN answer, so that the detector never *)
(* sees one about the fuel type.                                           *)
ProcessIncomingData(text) ==
    /\ printed < MaxAnswers
    /\ printed' = printed + 1
    /\ LET bytes == ParseOBD2Response(text) IN
       obd2_detector' = IF bytes = <<>> THEN obd2_detector
                        ELSE FeedVINResponse(obd2_detector, bytes)
    /\ UNCHANGED <<can_mode, data_callback, connected, notification, rest, detector>>

-----------------------------------------------------------------------------
Makes == {"Tesla", "Audi", "Volkswagen", "BMW", "MercedesBenz"}

(* Once a detector has named a make it names no other one: more evidence   *)
(* can only confirm the make or contradict it, and a VIN that has been     *)
(* read is not read differently later (VehicleDetector.cpp:67 and :202).   *)
Holds(before, after) ==
    GetResult(before).make \in Makes =>
        GetResult(after).make \in {GetResult(before).make, "Unknown"}
=============================================================================
