-------------------------------- MODULE Program --------------------------------
(***************************************************************************)
(* The command line program (src/main.cpp, src/cli/CliOptions.cpp) on the  *)
(* data path of the manager, through the BLEManager facade.  Its main      *)
(* thread parses the options, loads a vehicle and runs one mode; the       *)
(* callback that runConnect registers runs on the BLE queue and uses       *)
(* runConnect's local variables.  Ctrl+C clears g_running at any time.     *)
(* With the client "detect" the program is the one that the header of      *)
(* OBD2Protocol shows: it initialises, detects, and passes answers on.     *)
(***************************************************************************)
EXTENDS DataPath

CONSTANTS
    CommandLines,   \* the options that the program may be started with
    NoDataWarning,  \* NO_DATA_WARNING_S
    Quiet           \* bound on the half seconds counted

ASSUME ProgramAssumption ==
    /\ NoDataWarning \in Nat
    /\ Quiet \in Nat

VARIABLES
    opts,           \* CliOptions
    dbcFile,        \* can the DBC file of the vehicle be read?
    pc,             \* where the main thread is
    running,        \* g_running
    polling,        \* is the polling thread running?
    protocol,       \* of the vehicle, and of its translator
    dataReceived,   \* dataReceived
    quiet,          \* half seconds since lastActivity
    noDataCount,    \* noDataCount
    silent,         \* half seconds since the callback last ran
    tested,         \* silent, as it was when the loop last tested dataReceived
    exit            \* exit code of the process

mainVars == <<opts, dbcFile, pc, running, polling, protocol, dataReceived, quiet,
              noDataCount, silent, tested, exit>>
vars == <<mainVars, pathVars>>

Running == -1
Crashed == 2
Supported == {"tesla_model3", "audi_mlb_evo", "generic"}

Init ==
    /\ PathInit
    /\ opts \in CommandLines
    /\ dbcFile \in BOOLEAN
    /\ pc = "parse"
    /\ running = TRUE
    /\ polling = FALSE
    /\ protocol = "none"
    /\ dataReceived = FALSE
    /\ quiet = 0
    /\ noDataCount = 0
    /\ silent = 0
    /\ tested = 0
    /\ exit = Running

GoTo(from, to) ==
    /\ exit = Running
    /\ pc = from
    /\ pc' = to

Keep == UNCHANGED <<opts, dbcFile, running, polling, protocol, dataReceived, quiet,
                    noDataCount, silent, tested, exit>>

Exit(from, code) ==
    /\ GoTo(from, "exit")
    /\ exit' = code
    /\ UNCHANGED <<opts, dbcFile, running, polling, protocol, dataReceived, quiet,
                   noDataCount, silent, tested, pathVars>>

\* What the validation of the parsed options refuses.
Refused ==
    /\ ~opts.help
    /\ \/ opts.connect /\ opts.vehicle = ""
       \/ opts.vehicle \notin Supported \cup {""}

ParseArgs ==
    \/ Refused /\ Exit("parse", 1)
    \/ ~Refused /\ (opts.help \/ opts.list) /\ Exit("parse", 0)
    \/ ~Refused /\ ~opts.help /\ ~opts.list /\ GoTo("parse", "load") /\ Keep /\ UNCHANGED pathVars

\* The vehicles that main reads over CAN need their DBC file, whatever the mode.
LoadVehicle ==
    LET wanted == IF opts.vehicle \in {"tesla_model3", "audi_mlb_evo"} THEN "CAN" ELSE "OBD2" IN
    \/ wanted = "CAN" /\ ~dbcFile /\ Exit("load", 1)
    \/ /\ wanted = "CAN" => dbcFile
       /\ GoTo("load", IF opts.simulate THEN "simulate" ELSE IF opts.scan THEN "scan"
                       ELSE IF opts.connect THEN "connect" ELSE "usage")
       /\ protocol' = wanted
       /\ UNCHANGED <<opts, dbcFile, running, polling, dataReceived, quiet, noDataCount,
                      silent, tested, exit, pathVars>>

\* runSimulation updates the simulator until Ctrl+C; runScan waits its ten seconds out.
RunSimulation == ~running /\ Exit("simulate", 0)
RunScan == \E found \in BOOLEAN : Exit("scan", IF found THEN 0 ELSE 1)
Usage == Exit("usage", 0)

Register == GoTo("connect", "connecting") /\ Keep /\ OnDataReceived

Connect ==
    \/ GoTo("connecting", "await") /\ Keep /\ SetConnected(TRUE)
    \/ GoTo("connecting", "failed") /\ Keep /\ UNCHANGED pathVars

WaitForCharacteristics ==
    \/ GoTo("await", "init") /\ Keep /\ UNCHANGED pathVars
    \/ GoTo("await", "failed") /\ Keep /\ SetConnected(FALSE)

\* Faulty variant: the initialisation leaves the mode to startCANMonitor.
InitializeLate ==
    \/ opts.client = "detect" /\ GoTo("init", "detecting") /\ Keep /\ DetectVehicle
    \/ opts.client = "cli" /\ GoTo("init", "start") /\ Keep /\ UNCHANGED pathVars

\* The command sequence ends, with or without the adapter's prompts; it never fails.
Initialize ==
    \/ opts.client = "detect" /\ GoTo("init", "detecting") /\ Keep /\ DetectVehicle
    \/ /\ opts.client = "cli" /\ GoTo("init", "start") /\ Keep
       /\ IF protocol = "CAN" THEN SetCANMode(TRUE) ELSE UNCHANGED pathVars

\* The client of OBD2Protocol passes answers on, until it is stopped.
PassAnswerOn(line) ==
    /\ GoTo("detecting", "detecting") /\ Keep
    /\ ProcessIncomingData(line.text)
StopDetecting == ~running /\ GoTo("detecting", "disconnect") /\ Keep /\ UNCHANGED pathVars

Start ==
    /\ GoTo("start", "loop")
    /\ polling' = (protocol = "OBD2")
    /\ quiet' = 0
    /\ IF protocol = "CAN" THEN SetCANMode(TRUE) ELSE UNCHANGED pathVars
    /\ UNCHANGED <<opts, dbcFile, running, protocol, dataReceived, noDataCount,
                   silent, tested, exit>>

Cap(n) == IF n > Quiet THEN Quiet ELSE n

\* Faulty variant: the loop is left by Ctrl+C alone.
LoopOn ==
    \/ ~running /\ GoTo("loop", "stop") /\ Keep /\ UNCHANGED pathVars
    \/ /\ running
       /\ GoTo("loop", "data")
       /\ quiet' = Cap(quiet + 1)
       /\ silent' = Cap(silent + 1)
       /\ UNCHANGED <<opts, dbcFile, running, polling, protocol, dataReceived, noDataCount,
                      tested, exit, pathVars>>

\* The head of the loop: half a second passes.
Loop ==
    \/ ~running /\ GoTo("loop", "stop") /\ Keep /\ UNCHANGED pathVars
    \/ /\ running
       /\ GoTo("loop", "look")
       /\ quiet' = Cap(quiet + 1)
       /\ silent' = Cap(silent + 1)
       /\ UNCHANGED <<opts, dbcFile, running, polling, protocol, dataReceived, noDataCount,
                      tested, exit, pathVars>>

\* The detection is printed, which reads the detector only.
CheckLink == GoTo("look", IF connected THEN "data" ELSE "stop") /\ Keep /\ UNCHANGED pathVars

\* Faulty variant: lastActivity is not brought up to date.
CheckDataOnly ==
    \/ dataReceived /\ GoTo("data", "clear") /\ Keep /\ UNCHANGED pathVars
    \/ /\ ~dataReceived
       /\ GoTo("data", "warn")
       /\ tested' = silent
       /\ UNCHANGED <<opts, dbcFile, running, polling, protocol, dataReceived, quiet,
                      noDataCount, silent, exit, pathVars>>

\* The time that has passed is taken, and the flag tested.
CheckData ==
    \/ /\ dataReceived
       /\ GoTo("data", "clear")
       /\ quiet' = 0
       /\ UNCHANGED <<opts, dbcFile, running, polling, protocol, dataReceived, noDataCount,
                      silent, tested, exit, pathVars>>
    \/ /\ ~dataReceived
       /\ GoTo("data", "warn")
       /\ tested' = silent
       /\ UNCHANGED <<opts, dbcFile, running, polling, protocol, dataReceived, quiet,
                      noDataCount, silent, exit, pathVars>>

\* Seconds are cut, so that the warning comes after six; it is printed once, the hint at the third.
WarnOfNoData ==
    /\ GoTo("warn", "loop")
    /\ noDataCount' = IF quiet \div 2 > NoDataWarning /\ noDataCount < 3
                      THEN noDataCount + 1 ELSE noDataCount
    /\ tested' = 0
    /\ UNCHANGED <<opts, dbcFile, running, polling, protocol, dataReceived, quiet,
                   silent, exit, pathVars>>

ClearData ==
    /\ GoTo("clear", "loop")
    /\ dataReceived' = FALSE
    /\ noDataCount' = 0
    /\ UNCHANGED <<opts, dbcFile, running, polling, protocol, quiet, silent, tested, exit,
                   pathVars>>

Stop ==
    /\ GoTo("stop", "disconnect")
    /\ polling' = FALSE
    /\ IF protocol = "CAN" THEN SetCANMode(FALSE) ELSE UNCHANGED pathVars
    /\ UNCHANGED <<opts, dbcFile, running, protocol, dataReceived, quiet, noDataCount,
                   silent, tested, exit>>

Disconnect == GoTo("disconnect", "done") /\ Keep /\ SetConnected(FALSE)

\* runConnect has returned; main destroys the manager and then the service.
Return == Exit("done", 0) \/ Exit("failed", 1)

Main ==
    \/ ParseArgs \/ LoadVehicle \/ RunSimulation \/ RunScan \/ Usage
    \/ Register \/ Connect \/ WaitForCharacteristics \/ Initialize \/ StopDetecting
    \/ Start \/ Loop \/ CheckLink \/ CheckData \/ ClearData \/ WarnOfNoData
    \/ Stop \/ Disconnect \/ Return

-----------------------------------------------------------------------------
(* The callback, in one step: the flag, the printed bytes, processFrame.   *)
(* disconnect() does not wait for the BLE queue: a callback that runs once *)
(* runConnect has returned uses variables that are gone, which may go well *)
(* or end the process.                                                     *)
InFrame == pc \notin {"done", "failed"}

Callback ==
    /\ CallbackReturns
    /\ \/ /\ InFrame
          /\ dataReceived' = TRUE
          /\ silent' = 0
          /\ UNCHANGED exit
       \/ /\ ~InFrame
          /\ exit' \in {Running, Crashed}
          /\ UNCHANGED <<dataReceived, silent>>
    /\ UNCHANGED <<opts, dbcFile, pc, running, polling, protocol, quiet, noDataCount,
                   tested>>

\* The polling thread sees that the link has gone.
PollingEnds ==
    /\ exit = Running
    /\ polling /\ ~connected
    /\ polling' = FALSE
    /\ UNCHANGED <<opts, dbcFile, pc, running, protocol, dataReceived, quiet, noDataCount,
                   silent, tested, exit, pathVars>>

\* What the adapter prints: answers to commands, then frames or answers to queries.
Prints(line) ==
    \/ line.phase = "init" /\ pc = "init"
    \/ line.phase = "CAN" /\ protocol = "CAN" /\ pc # "await"
    \/ line.phase = "OBD2" /\ polling

BleQueue ==
    /\ exit = Running
    /\ \/ Parse /\ UNCHANGED mainVars
       \/ Observe /\ UNCHANGED mainVars
       \/ Callback
       \/ NotifyRest /\ UNCHANGED mainVars

\* From the end of the initialisation until runConnect stops the mode.
Initialized == {"start", "loop", "look", "data", "clear", "warn", "stop"}

Adapter ==
    /\ exit = Running
    /\ UNCHANGED mainVars
    /\ \/ \E line \in Lines :
          /\ Prints(line)
          /\ \E k \in Cuts \cup {Len(line.text)} :
                k <= Len(line.text) /\ PrintLine(line, k, pc \in Initialized)
       \/ LoseLink

Client == \E line \in Lines : line.phase \in {"init", "VIN"} /\ PassAnswerOn(line)

SignalHandler ==
    /\ running /\ exit = Running
    /\ running' = FALSE
    /\ UNCHANGED <<opts, dbcFile, pc, polling, protocol, dataReceived, quiet, noDataCount,
                   silent, tested, exit, pathVars>>

Next == Main \/ BleQueue \/ PollingEnds \/ Adapter \/ Client \/ SignalHandler

(* The main thread and the BLE queue run on; the adapter, the link and the *)
(* user need not do anything.                                              *)
Spec == Init /\ [][Next]_vars /\ WF_vars(Main) /\ WF_vars(BleQueue)

-----------------------------------------------------------------------------
(* The session's parts agree: CAN mode, the polling thread and the         *)
(* translator are those of the vehicle while the loop runs and the link    *)
(* holds, an initialised CAN adapter is read as one, and nothing runs on   *)
(* once runConnect has returned (main.cpp:164-250).                        *)
TypeOK ==
    /\ exit \in {Running, 0, 1, Crashed}
    /\ quiet \in 0..Quiet /\ silent \in 0..Quiet /\ tested \in 0..Quiet
    /\ noDataCount \in 0..3
    /\ Len(obd2_detector.vin) <= VINLength
    /\ Len(detector.frameHistory) <= MaxFrameHistory
    /\ pc \in Initialized =>
          /\ can_mode = (protocol = "CAN")
          /\ polling => protocol = "OBD2"
          /\ pc # "start" /\ connected /\ protocol = "OBD2" => polling
    /\ pc = "done" => ~can_mode /\ ~polling /\ ~connected

(* A whole line that the adapter prints after the initialisation has       *)
(* returned is read in the mode that it was printed for, and reaches the   *)
(* detector and the client as printed, unless runConnect stops the mode    *)
(* first (BLEManagerBase.cpp:204-230, :310-334).                           *)
DeliveredAsPrinted ==
    pc \in Initialized /\ notification.due =>
        /\ notification.step = "parse" => data_callback /\ Read = notification.means
        /\ notification.step # "parse" => notification.bytes = notification.means

(* A make that a detector has named is not exchanged for another one.      *)
DetectionStable ==
    [][/\ detector' # detector => Holds(detector, detector')
       /\ obd2_detector' \notin {obd2_detector, Blank} => Holds(obd2_detector, obd2_detector')]_vars

(* The warnings about missing data are printed only when the callback had  *)
(* not run for five seconds as the loop tested its flag, although the      *)
(* callback sets the flag between the test and what follows it: the reset, *)
(* or the warning (main.cpp:224-240).                                      *)
WarnsOnSilence == [][noDataCount' > noDataCount => tested >= 2 * NoDataWarning]_vars

(* After Ctrl+C, or when the link is lost during the loop, the program     *)
(* ends (main.cpp:186-250).                                                *)
Ends ==
    (~running \/ (pc \in {"loop", "look", "data", "clear", "warn"} /\ ~connected)) ~> (exit # Running)
=============================================================================
