----------------------------- MODULE ProgramProofs -----------------------------
(***************************************************************************)
(* Proofs about Program for any lines, cuts, command lines and bounds.     *)
(***************************************************************************)
EXTENDS Program, FiniteSetTheorems, SequenceTheorems, TLAPS

\* The two clocks of the loop: as long as no callback has run since the loop last
\* looked, lastActivity is not older than the silence; and so it was when the loop that
\* is about to warn tested the flag, whatever callback has run since.
ClocksOK ==
    /\ quiet \in 0..Quiet /\ silent \in 0..Quiet /\ noDataCount \in 0..3
    /\ tested \in 0..Quiet
    /\ dataReceived \in BOOLEAN
    /\ dataReceived = FALSE => quiet <= silent
    /\ pc = "clear" => quiet = 0
    /\ pc = "warn" => quiet <= tested

\* Of the steps of the main thread these five move the clocks; every other step
\* leaves them alone and goes neither to "clear" nor to "warn".
LEMMA ClockSteps ==
    ASSUME ClocksOK, [Next]_vars
    PROVE  \/ Start \/ Loop \/ CheckData \/ ClearData \/ WarnOfNoData \/ Callback
           \/ /\ UNCHANGED <<quiet, silent, tested, noDataCount, dataReceived>>
              /\ pc' \in {"clear", "warn"} => pc' = pc
  <1>1. CASE Main
    <2>1. CASE ParseArgs
      BY <2>1 DEF ParseArgs, Exit, GoTo, Keep
    <2>2. CASE LoadVehicle
      BY <2>2 DEF LoadVehicle, Exit, GoTo
    <2>3. CASE RunSimulation \/ RunScan \/ Usage \/ Return
      BY <2>3 DEF RunSimulation, RunScan, Usage, Return, Exit, GoTo
    <2>4. CASE Register \/ Connect \/ WaitForCharacteristics \/ Disconnect
      BY <2>4 DEF Register, Connect, WaitForCharacteristics, Disconnect, GoTo, Keep
    <2>5. CASE Initialize \/ StopDetecting
      BY <2>5 DEF Initialize, StopDetecting, GoTo, Keep
    <2>6. CASE CheckLink \/ Stop
      BY <2>6 DEF CheckLink, Stop, GoTo, Keep
    <2> QED
      BY <1>1, <2>1, <2>2, <2>3, <2>4, <2>5, <2>6 DEF Main
  <1>2. CASE BleQueue
    BY <1>2 DEF BleQueue, mainVars
  <1>3. CASE Adapter \/ UNCHANGED vars
    BY <1>3 DEF Adapter, mainVars, vars
  <1>4. CASE Client
    BY <1>4 DEF Client, PassAnswerOn, GoTo, Keep
  <1>5. CASE SignalHandler \/ PollingEnds
    BY <1>5 DEF SignalHandler, PollingEnds
  <1> QED
    BY <1>1, <1>2, <1>3, <1>4, <1>5 DEF Next

LEMMA ClocksNext == ClocksOK /\ [Next]_vars => ClocksOK'
  <1> SUFFICES ASSUME ClocksOK, [Next]_vars
               PROVE  ClocksOK'
    OBVIOUS
  <1> USE ProgramAssumption
  <1>1. CASE Start
    BY <1>1 DEF Start, GoTo, ClocksOK
  <1>2. CASE Loop
    BY <1>2 DEF Loop, GoTo, Keep, Cap, ClocksOK
  <1>3. CASE CheckData
    BY <1>3 DEF CheckData, GoTo, ClocksOK
  <1>4. CASE ClearData
    <2>1. dataReceived' \in BOOLEAN
      BY <1>4, Zenon DEF ClearData
    <2>2. quiet' <= silent'
      BY <1>4 DEF ClearData, GoTo, ClocksOK
    <2>3. /\ quiet' \in 0..Quiet /\ silent' \in 0..Quiet /\ noDataCount' \in 0..3
          /\ tested' \in 0..Quiet /\ pc' \notin {"clear", "warn"}
      BY <1>4 DEF ClearData, GoTo, ClocksOK
    <2> QED
      BY <2>1, <2>2, <2>3, Zenon DEF ClocksOK
  <1>5. CASE Callback
    <2>1. dataReceived' \in BOOLEAN /\ (dataReceived' = FALSE => dataReceived = FALSE /\ silent' = silent)
      BY <1>5, Zenon DEF Callback, ClocksOK
    <2>2. /\ quiet' = quiet /\ noDataCount' = noDataCount /\ pc' = pc /\ tested' = tested
          /\ silent' \in {0, silent}
      BY <1>5, Zenon DEF Callback
    <2> QED
      BY <2>1, <2>2 DEF ClocksOK
  <1>6. CASE WarnOfNoData
    BY <1>6 DEF WarnOfNoData, GoTo, ClocksOK
  <1>7. CASE /\ UNCHANGED <<quiet, silent, tested, noDataCount, dataReceived>>
             /\ pc' \in {"clear", "warn"} => pc' = pc
    BY <1>7 DEF ClocksOK
  <1> QED
    BY <1>1, <1>2, <1>3, <1>4, <1>5, <1>6, <1>7, ClockSteps

LEMMA ClocksHold == Spec => []ClocksOK
  <1>1. ASSUME Init PROVE ClocksOK
    <2>1. dataReceived \in BOOLEAN
      BY <1>1, Zenon DEF Init
    <2>2. quiet = 0 /\ silent = 0 /\ tested = 0 /\ noDataCount = 0 /\ pc = "parse"
      BY <1>1, Zenon DEF Init
    <2> QED
      BY <2>1, <2>2, ProgramAssumption DEF ClocksOK
  <1> QED
    BY <1>1, ClocksNext, PTL DEF Spec

\* WarnsOnSilence for every threshold, bound and behaviour of the adapter.
THEOREM NoEarlyWarning == Spec => WarnsOnSilence
  <1>1. ASSUME ClocksOK, [Next]_vars, noDataCount' > noDataCount
        PROVE  tested >= 2 * NoDataWarning
    <2>1. CASE Start \/ Loop \/ CheckData \/ ClearData \/ Callback
      <3>1. noDataCount' \in {0, noDataCount}
        BY <2>1, Zenon DEF Start, Loop, Keep, CheckData, ClearData, Callback
      <3> QED
        BY <1>1, <3>1 DEF ClocksOK
    <2>2. CASE WarnOfNoData
      BY <1>1, <2>2, ProgramAssumption DEF WarnOfNoData, GoTo, ClocksOK
    <2>3. CASE UNCHANGED noDataCount
      BY <1>1, <2>3 DEF ClocksOK
    <2> QED
      BY <1>1, <2>1, <2>2, <2>3, ClockSteps
  <1>2. ClocksOK /\ [Next]_vars => [noDataCount' > noDataCount => tested >= 2 * NoDataWarning]_vars
    BY <1>1
  <1> QED
    BY <1>2, ClocksHold, PTL DEF Spec, WarnsOnSilence

-----------------------------------------------------------------------------
(* The detectors.                                                          *)

\* A detector is a record, and its history is bounded.
IsDetector(d) ==
    /\ d = [canIdCounts |-> d.canIdCounts, obd2ResponseCount |-> d.obd2ResponseCount,
            vin |-> d.vin, isElectric |-> d.isElectric, frameHistory |-> d.frameHistory]
    /\ \E S : d.frameHistory \in Seq(S)
    /\ Len(d.frameHistory) <= MaxFrameHistory

LEMMA HistoryOK ==
    ASSUME NEW d, IsDetector(d), NEW frame
    PROVE  /\ IsDetector(AddFrame(d, frame))
           /\ AddFrame(d, frame).canIdCounts = d.canIdCounts
           /\ AddFrame(d, frame).vin = d.vin
  <1> DEFINE all == Append(d.frameHistory, frame)
             kept == IF Len(all) > MaxFrameHistory THEN Tail(all) ELSE all
  <1>1. PICK S : d.frameHistory \in Seq(S)
    BY DEF IsDetector
  <1>2. d.frameHistory \in Seq(S \cup {frame})
    BY <1>1
  <1>3. all \in Seq(S \cup {frame}) /\ Len(all) = Len(d.frameHistory) + 1
    BY <1>2
  <1>4. kept \in Seq(S \cup {frame}) /\ Len(kept) <= MaxFrameHistory
    BY <1>1, <1>3, DetectorAssumption DEF IsDetector
  <1>5. AddFrame(d, frame) = [d EXCEPT !.frameHistory = kept]
    BY DEF AddFrame
  <1> HIDE DEF kept
  <1> QED
    BY <1>4, <1>5 DEF IsDetector

LEMMA Grows ==
    ASSUME NEW d, IsDetector(d), NEW id
    PROVE  /\ IsDetector(FeedCANFrame(d, id))
           /\ DOMAIN d.canIdCounts \subseteq DOMAIN FeedCANFrame(d, id).canIdCounts
           /\ FeedCANFrame(d, id).vin = d.vin
  BY DEF FeedCANFrame, IsDetector

LEMMA MakeOf ==
    ASSUME NEW d
    PROVE  GetResult(d).make = IF Len(d.vin) >= 3 THEN DecodeWMI(d.vin) ELSE DetermineSuggestion(d)
  BY DEF GetResult

LEMMA MakesFinite == ASSUME NEW d PROVE IsFiniteSet(SeenMakes(d))
  <1>1. SeenMakes(d) \subseteq {"Tesla", "Audi"}
    BY DEF SeenMakes, Registry
  <1>2. IsFiniteSet({"Tesla"}) /\ {"Tesla", "Audi"} = {"Tesla"} \cup {"Audi"}
    BY FS_Singleton
  <1> QED
    BY <1>1, <1>2, FS_AddElement, FS_Subset

LEMMA OneMake ==
    ASSUME NEW d, DetermineSuggestion(d) \in Makes
    PROVE  SeenMakes(d) = {DetermineSuggestion(d)}
  <1>1. SeenMakes(d) # {}
    BY FS_EmptySet DEF DetermineSuggestion, Makes
  <1>2. Cardinality(SeenMakes(d)) = 1
    BY <1>1 DEF DetermineSuggestion, Makes
  <1>3. PICK m : SeenMakes(d) = {m}
    BY <1>2, MakesFinite, FS_Singleton
  <1>4. DetermineSuggestion(d) = CHOOSE make \in SeenMakes(d) : TRUE
    BY <1>1, <1>2 DEF DetermineSuggestion
  <1> QED
    BY <1>3, <1>4, Zenon

LEMMA MoreEvidence ==
    ASSUME NEW d, NEW e, SeenMakes(d) \subseteq SeenMakes(e), DetermineSuggestion(d) \in Makes
    PROVE  DetermineSuggestion(e) \in {DetermineSuggestion(d), "Unknown"}
  <1>1. CASE Cardinality(SeenMakes(e)) = 1
    <2>1. PICK make : SeenMakes(e) = {make}
      BY <1>1, MakesFinite, FS_Singleton
    <2>2. make = DetermineSuggestion(d)
      BY <2>1, OneMake
    <2>3. DetermineSuggestion(e) = CHOOSE m \in SeenMakes(e) : TRUE
      BY <1>1, <2>1 DEF DetermineSuggestion
    <2> QED
      BY <2>1, <2>2, <2>3, Zenon
  <1>2. CASE Cardinality(SeenMakes(e)) # 1
    BY <1>2, OneMake DEF DetermineSuggestion
  <1> QED
    BY <1>1, <1>2

LEMMA WMIOfThree ==
    ASSUME NEW v \in Seq(Int), NEW w \in Seq(Int), Len(v) >= 3, Len(w) >= 3,
           \A i \in 1..3 : v[i] = w[i]
    PROVE  DecodeWMI(v) = DecodeWMI(w)
  <1>1. [i \in 1..3 |-> Upper(v[i])] = [i \in 1..3 |-> Upper(w[i])]
    OBVIOUS
  <1> QED
    BY <1>1, Zenon DEF DecodeWMI

\* What is true of the detector of the program that shows the frames to it.
PassiveOK(d) == IsDetector(d) /\ d.vin = <<>>

LEMMA ObserveStep ==
    ASSUME NEW d, PassiveOK(d), NEW frame
    PROVE  PassiveOK(ObserveFrame(d, frame)) /\ Holds(d, ObserveFrame(d, frame))
  <1> DEFINE a == AddFrame(d, frame)
             e == ObserveFrame(d, frame)
             id == frame[1] + 256 * frame[2]
  <1>1. IsDetector(a) /\ a.canIdCounts = d.canIdCounts /\ a.vin = <<>>
    BY HistoryOK DEF PassiveOK
  <1>2. PassiveOK(e) /\ DOMAIN d.canIdCounts \subseteq DOMAIN e.canIdCounts
    <2>1. CASE e = FeedCANFrame(a, id)
      BY <1>1, <2>1, Grows DEF PassiveOK
    <2>2. CASE e = [a EXCEPT !.obd2ResponseCount = @ + 1]
      BY <1>1, <2>2 DEF PassiveOK, IsDetector
    <2>3. CASE e = a
      BY <1>1, <2>3 DEF PassiveOK
    <2> QED
      BY <2>1, <2>2, <2>3, Zenon DEF ObserveFrame
  <1>3. SeenMakes(d) \subseteq SeenMakes(e)
    BY <1>2, Zenon DEF SeenMakes
  <1>4. GetResult(d).make = DetermineSuggestion(d) /\ GetResult(e).make = DetermineSuggestion(e)
    BY <1>2, MakeOf DEF PassiveOK
  <1> QED
    BY <1>2, <1>3, <1>4, MoreEvidence, Zenon DEF Holds

\* What is true of the detector of OBD2Protocol, which sees answers only.
VINOnlyOK(d) ==
    /\ IsDetector(d)
    /\ d.canIdCounts = <<>>
    /\ d.vin \in Seq(Int) /\ Len(d.vin) <= VINLength

LEMMA BlankOK == VINOnlyOK(Blank) /\ PassiveOK(Blank)
  BY DetectorAssumption DEF VINOnlyOK, PassiveOK, IsDetector, Blank, VINLength

LEMMA VINStep ==
    ASSUME NEW d, VINOnlyOK(d), NEW response, VINPart(response) \in Seq(Int)
    PROVE  /\ VINOnlyOK(FeedVINResponse(d, response))
           /\ Holds(d, FeedVINResponse(d, response))
  <1> DEFINE a == AddFrame(d, response)
             all == d.vin \o VINPart(response)
             n == IF Len(all) > VINLength THEN VINLength ELSE Len(all)
             vin == SubSeq(all, 1, n)
             e == FeedVINResponse(d, response)
  <1>1. IsDetector(a) /\ a.canIdCounts = <<>> /\ a.vin = d.vin
    BY HistoryOK DEF VINOnlyOK
  <1>2. e = [a EXCEPT !.vin = vin]
    BY DEF FeedVINResponse
  <1>3. all \in Seq(Int) /\ Len(all) >= Len(d.vin) /\ \A i \in 1..Len(d.vin) : all[i] = d.vin[i]
    BY DEF VINOnlyOK
  <1>4. /\ vin \in Seq(Int) /\ Len(vin) <= VINLength /\ Len(vin) >= Len(d.vin)
        /\ \A i \in 1..Len(d.vin) : vin[i] = d.vin[i]
    <2> HIDE DEF all
    <2>1. n \in 0..Len(all) /\ n <= VINLength /\ n >= Len(d.vin)
      BY <1>3 DEF VINOnlyOK, VINLength
    <2> HIDE DEF n
    <2>2. vin \in Seq(Int) /\ Len(vin) = n /\ \A i \in 1..n : vin[i] = all[i]
      BY <1>3, <2>1
    <2> HIDE DEF vin
    <2>3. VINLength \in Nat /\ Len(d.vin) \in Nat
      BY DEF VINOnlyOK, VINLength
    <2> QED
      BY <1>3, <2>1, <2>2, <2>3
  <1> HIDE DEF vin, a
  <1>5. VINOnlyOK(e) /\ e.vin = vin
    BY <1>1, <1>2, <1>4 DEF VINOnlyOK, IsDetector
  <1>6. CASE Len(d.vin) >= 3
    <2>1. DecodeWMI(d.vin) = DecodeWMI(e.vin)
      <3>1. \A i \in 1..3 : d.vin[i] = vin[i]
        BY <1>4, <1>6 DEF VINOnlyOK
      <3>2. Len(vin) >= 3
        BY <1>4, <1>6 DEF VINOnlyOK
      <3> QED
        BY <1>4, <1>5, <1>6, <3>1, <3>2, WMIOfThree DEF VINOnlyOK
    <2>2. Len(e.vin) >= 3
      BY <1>4, <1>5, <1>6 DEF VINOnlyOK
    <2> QED
      BY <1>5, <1>6, <2>1, <2>2, MakeOf DEF Holds
  <1>7. CASE ~(Len(d.vin) >= 3)
    <2>1. SeenMakes(d) = {}
      BY DEF SeenMakes, VINOnlyOK
    <2>2. DetermineSuggestion(d) \notin Makes
      BY <2>1, OneMake
    <2> QED
      BY <1>5, <1>7, <2>2, MakeOf DEF Holds
  <1> QED
    BY <1>6, <1>7

DetectorsOK == PassiveOK(detector) /\ VINOnlyOK(obd2_detector)

\* Who changes the detectors: the callback shows a frame to the one, the client
\* starts the other and passes answers to it.
LEMMA DetectorSteps ==
    ASSUME [Next]_vars
    PROVE  /\ \/ detector' = detector
              \/ detector' = ObserveFrame(detector, notification.bytes)
           /\ \/ obd2_detector' \in {obd2_detector, Blank}
              \/ \E line \in Lines :
                    obd2_detector' = FeedVINResponse(obd2_detector, ParseOBD2Response(line.text))
  <1>1. CASE Main
    <2>1. CASE ParseArgs \/ LoadVehicle \/ RunSimulation \/ RunScan \/ Usage \/ Return
      BY <2>1 DEF ParseArgs, LoadVehicle, RunSimulation, RunScan, Usage, Return, Exit, pathVars
    <2>2. CASE Register \/ Connect \/ WaitForCharacteristics \/ Disconnect
      BY <2>2 DEF Register, Connect, WaitForCharacteristics, Disconnect, OnDataReceived,
                  SetConnected, pathVars
    <2>3. CASE Initialize \/ StopDetecting
      BY <2>3 DEF Initialize, StopDetecting, DetectVehicle, SetCANMode, pathVars
    <2>4. CASE Start \/ Loop \/ CheckLink
      BY <2>4 DEF Start, Loop, CheckLink, SetCANMode, pathVars
    <2>5. CASE CheckData \/ ClearData \/ WarnOfNoData \/ Stop
      BY <2>5 DEF CheckData, ClearData, WarnOfNoData, Stop, SetCANMode, pathVars
    <2> QED
      BY <1>1, <2>1, <2>2, <2>3, <2>4, <2>5, Zenon DEF Main
  <1>2. CASE BleQueue
    BY <1>2 DEF BleQueue, Parse, Observe, Callback, CallbackReturns, NotifyRest
  <1>3. CASE Adapter \/ UNCHANGED vars
    BY <1>3 DEF Adapter, PrintLine, LoseLink, vars, pathVars
  <1>4. CASE Client
    BY <1>4 DEF Client, PassAnswerOn, ProcessIncomingData
  <1>5. CASE SignalHandler \/ PollingEnds
    BY <1>5 DEF SignalHandler, PollingEnds, pathVars
  <1> QED
    BY <1>1, <1>2, <1>3, <1>4, <1>5, Zenon DEF Next

LEMMA DetectorsNext ==
    ASSUME DetectorsOK, [Next]_vars
    PROVE  /\ DetectorsOK'
           /\ detector' # detector => Holds(detector, detector')
           /\ obd2_detector' \notin {obd2_detector, Blank} => Holds(obd2_detector, obd2_detector')
  <1>1. PassiveOK(detector') /\ (detector' # detector => Holds(detector, detector'))
    BY DetectorSteps, ObserveStep, Zenon DEF DetectorsOK
  <1>2. CASE obd2_detector' \in {obd2_detector, Blank}
    BY <1>1, <1>2, BlankOK, Zenon DEF DetectorsOK
  <1>3. ASSUME NEW line \in Lines,
               obd2_detector' = FeedVINResponse(obd2_detector, ParseOBD2Response(line.text))
        PROVE  VINOnlyOK(obd2_detector') /\ Holds(obd2_detector, obd2_detector')
    BY <1>3, LinesAssumption, VINStep, Zenon DEF DetectorsOK
  <1> QED
    BY <1>1, <1>2, <1>3, DetectorSteps, Zenon DEF DetectorsOK

\* DetectionStable for every adapter, every line, and every way to cut and misread it.
THEOREM NamedMakeStays == Spec => DetectionStable
  <1>1. Init => DetectorsOK
    BY BlankOK, Zenon DEF Init, PathInit, DetectorsOK
  <1>2. DetectorsOK /\ [Next]_vars =>
          [/\ detector' # detector => Holds(detector, detector')
           /\ obd2_detector' \notin {obd2_detector, Blank} => Holds(obd2_detector, obd2_detector')]_vars
    BY DetectorsNext, Zenon
  <1>3. DetectorsOK /\ [Next]_vars => DetectorsOK'
    BY DetectorsNext, Zenon
  <1> QED
    BY <1>1, <1>2, <1>3, PTL DEF Spec, DetectionStable

-----------------------------------------------------------------------------
(* The parts of a session agree.                                           *)

\* Before CAN mode and the polling thread are started, and after they are stopped.
Unstarted == {"parse", "load", "simulate", "scan", "usage", "connect", "connecting", "await",
              "init", "detecting", "failed", "disconnect", "done"}
InLoop == {"loop", "look", "data", "clear", "warn", "stop"}

SessionOK ==
    /\ exit \in {Running, 0, 1, Crashed}
    /\ pc \in Unstarted \cup InLoop \cup {"start", "exit"}
    /\ pc \in Unstarted => can_mode = FALSE /\ polling = FALSE
    /\ pc \in InLoop \cup {"start"} => can_mode = (protocol = "CAN")
    /\ pc = "start" => polling = FALSE
    /\ pc \in InLoop => /\ polling \in BOOLEAN
                        /\ polling = TRUE => protocol = "OBD2"
                        /\ connected = TRUE /\ protocol = "OBD2" => polling = TRUE
    /\ pc \in {"connecting", "await", "init"} \cup InLoop \cup {"start"} => data_callback = TRUE
    /\ connected \in BOOLEAN
    /\ pc = "done" => connected = FALSE

LEMMA SessionInit == Init => SessionOK
  BY DEF Init, PathInit, SessionOK, Unstarted, InLoop

LEMMA SessionNext == SessionOK /\ [Next]_vars => SessionOK'
  <1> SUFFICES ASSUME SessionOK, [Next]_vars
               PROVE  SessionOK'
    OBVIOUS
  <1>1. CASE Main
    <2>1. CASE ParseArgs
      BY <2>1 DEF ParseArgs, Exit, GoTo, Keep, pathVars, SessionOK, Unstarted, InLoop
    <2>2. CASE LoadVehicle
      BY <2>2 DEF LoadVehicle, Exit, GoTo, pathVars, SessionOK, Unstarted, InLoop
    <2>3. CASE RunSimulation \/ RunScan \/ Usage \/ Return
      BY <2>3 DEF RunSimulation, RunScan, Usage, Return, Exit, GoTo, pathVars, SessionOK,
                  Unstarted, InLoop
    <2>4. CASE Register
      BY <2>4 DEF Register, OnDataReceived, GoTo, Keep, SessionOK, Unstarted, InLoop
    <2>5. CASE Connect \/ WaitForCharacteristics
      BY <2>5 DEF Connect, WaitForCharacteristics, SetConnected, GoTo, Keep, pathVars, SessionOK,
                  Unstarted, InLoop
    <2>6. CASE Initialize
      BY <2>6 DEF Initialize, DetectVehicle, SetCANMode, GoTo, Keep, pathVars, SessionOK,
                  Unstarted, InLoop
    <2>7. CASE StopDetecting \/ CheckLink
      BY <2>7 DEF StopDetecting, CheckLink, GoTo, Keep, pathVars, SessionOK, Unstarted, InLoop
    <2>8. CASE Start
      BY <2>8 DEF Start, SetCANMode, GoTo, pathVars, SessionOK, Unstarted, InLoop
    <2>9. CASE Loop \/ CheckData \/ ClearData \/ WarnOfNoData
      BY <2>9 DEF Loop, CheckData, ClearData, WarnOfNoData, GoTo, Keep, pathVars, SessionOK,
                  Unstarted, InLoop
    <2>10. CASE Stop
      BY <2>10 DEF Stop, SetCANMode, GoTo, pathVars, SessionOK, Unstarted, InLoop
    <2>11. CASE Disconnect
      BY <2>11 DEF Disconnect, SetConnected, GoTo, Keep, SessionOK, Unstarted, InLoop
    <2> QED
      BY <1>1, <2>1, <2>2, <2>3, <2>4, <2>5, <2>6, <2>7, <2>8, <2>9, <2>10, <2>11, Zenon DEF Main
  <1>2. CASE BleQueue
    <2>1. /\ UNCHANGED <<can_mode, data_callback, connected, pc, polling, protocol>>
          /\ exit' \in {exit, Running, Crashed}
      BY <1>2, Zenon DEF BleQueue, Parse, Observe, Callback, CallbackReturns, NotifyRest, mainVars
    <2> QED
      BY <2>1 DEF SessionOK
  <1>3. CASE Adapter
    <2>1. /\ UNCHANGED <<can_mode, data_callback, pc, polling, protocol, exit>>
          /\ connected' \in {connected, FALSE}
      BY <1>3, Zenon DEF Adapter, PrintLine, LoseLink, mainVars
    <2> QED
      BY <2>1, Zenon DEF SessionOK
  <1>4. CASE Client
    BY <1>4 DEF Client, PassAnswerOn, ProcessIncomingData, GoTo, Keep, SessionOK
  <1>5. CASE SignalHandler \/ UNCHANGED vars
    BY <1>5 DEF SignalHandler, pathVars, mainVars, vars, SessionOK
  <1>6. CASE PollingEnds
    BY <1>6 DEF PollingEnds, pathVars, SessionOK, Unstarted, InLoop
  <1> QED
    BY <1>1, <1>2, <1>3, <1>4, <1>5, <1>6, Zenon DEF Next

LEMMA WhilePolling ==
    ASSUME SessionOK, pc \in Initialized
    PROVE  /\ can_mode = (protocol = "CAN") /\ data_callback
           /\ polling => protocol = "OBD2"
           /\ pc # "start" /\ connected /\ protocol = "OBD2" => polling
  <1>1. can_mode = (protocol = "CAN") /\ data_callback = TRUE /\ connected \in BOOLEAN
    BY Zenon DEF SessionOK, InLoop, Initialized
  <1>2. CASE pc = "start"
    <2>1. polling = FALSE
      BY <1>2, Zenon DEF SessionOK
    <2> QED
      BY <1>1, <1>2, <2>1, Zenon
  <1>3. CASE pc \in InLoop
    <2>1. /\ polling \in BOOLEAN
          /\ polling = TRUE => protocol = "OBD2"
          /\ connected = TRUE /\ protocol = "OBD2" => polling = TRUE
      BY <1>3 DEF SessionOK
    <2>2. polling => polling = TRUE
      BY <2>1
    <2>3. connected => connected = TRUE
      BY <1>1
    <2> QED
      BY <1>1, <2>1, <2>2, <2>3, Zenon
  <1> QED
    BY <1>2, <1>3 DEF Initialized, InLoop

\* TypeOK for every adapter, command line and bound: the mode, the polling thread and
\* the link of a session are those of its vehicle, and nothing outlives runConnect.
THEOREM PartsAgree == Spec => []TypeOK
  <1>1. Init => SessionOK
    BY SessionInit
  <1>2. Init => DetectorsOK
    BY BlankOK, Zenon DEF Init, PathInit, DetectorsOK
  <1>3. DetectorsOK /\ [Next]_vars => DetectorsOK'
    BY DetectorsNext, Zenon
  <1>4. ClocksOK /\ DetectorsOK /\ SessionOK => TypeOK
    <2> SUFFICES ASSUME ClocksOK, DetectorsOK, SessionOK
                 PROVE  TypeOK
      OBVIOUS
    <2>1. Len(detector.frameHistory) <= MaxFrameHistory /\ Len(obd2_detector.vin) <= VINLength
      BY Zenon DEF DetectorsOK, PassiveOK, VINOnlyOK, IsDetector
    <2>2. /\ quiet \in 0..Quiet /\ silent \in 0..Quiet /\ tested \in 0..Quiet
          /\ noDataCount \in 0..3
      BY Zenon DEF ClocksOK
    <2>3. ASSUME pc \in Initialized
          PROVE  /\ can_mode = (protocol = "CAN")
                 /\ polling => protocol = "OBD2"
                 /\ pc # "start" /\ connected /\ protocol = "OBD2" => polling
      BY <2>3, WhilePolling, Zenon
    <2>4. ASSUME pc = "done"
          PROVE  ~can_mode /\ ~polling /\ ~connected
      BY <2>4, Zenon DEF SessionOK, Unstarted
    <2> QED
      BY <2>1, <2>2, <2>3, <2>4, Zenon DEF TypeOK, SessionOK
  <1> QED
    BY <1>1, <1>2, <1>3, <1>4, ClocksHold, SessionNext, PTL DEF Spec

-----------------------------------------------------------------------------
(* What a notification tells the client.                                   *)

\* What the parsers owe to the data path: the notification that a whole line comes in
\* reads as printed, in the mode that it is printed in.
WholeLinesRead ==
    \A line \in Lines :
        LET text == SubSeq(line.text, 1, Len(line.text)) IN
        /\ line.phase = "CAN" => ParseCANFrame(text) = line.means
        /\ line.phase = "OBD2" => ParseOBD2Response(text) = line.means

Shape(n) ==
    \/ n = Idle
    \/ n = [step |-> "parse", means |-> n.means, due |-> n.due, can |-> n.can, obd2 |-> n.obd2]
    \/ /\ n = [step |-> n.step, means |-> n.means, due |-> n.due, bytes |-> n.bytes]
       /\ n.step \in {"observe", "callback"}

\* A notification that is due reads as printed in the mode of the vehicle.
Due(n) ==
    n.due = TRUE => IF n.step = "parse"
                    THEN (IF protocol = "CAN" THEN n.can ELSE n.obd2) = n.means
                    ELSE n.bytes = n.means

Early == {"parse", "load", "connect", "connecting", "await", "init"}

PathInv ==
    /\ Shape(notification) /\ Shape(rest)
    /\ notification.due \in BOOLEAN /\ rest.due = FALSE
    /\ pc \in Early => notification.due = FALSE
    /\ pc \in Initialized => Due(notification)

LEMMA Shapes ==
    ASSUME NEW n, Shape(n)
    PROVE  /\ n.step = "parse" =>
                 n = [step |-> "parse", means |-> n.means, due |-> n.due, can |-> n.can,
                      obd2 |-> n.obd2]
           /\ n.step \in {"observe", "callback"} =>
                 n = [step |-> n.step, means |-> n.means, due |-> n.due, bytes |-> n.bytes]
  <1>1. Idle.step = "idle"
    BY DEF Idle
  <1>2. ASSUME n = [step |-> "parse", means |-> n.means, due |-> n.due, can |-> n.can,
                    obd2 |-> n.obd2]
        PROVE  n.step = "parse"
    BY <1>2
  <1> QED
    BY <1>1, <1>2, Zenon DEF Shape

\* A run that has come to the loop has come through the initialisation, and knows its
\* protocol since the options were parsed.
LEMMA Stages ==
    ASSUME [Next]_vars
    PROVE  /\ pc' \in Initialized => pc \in Initialized \cup {"init"} /\ protocol' = protocol
           /\ pc' \in Early => pc \in Early
  <1> USE DEF Initialized, Early
  <1>1. CASE Main
    <2>1. CASE ParseArgs \/ LoadVehicle \/ RunSimulation \/ RunScan \/ Usage \/ Return
      BY <2>1 DEF ParseArgs, LoadVehicle, RunSimulation, RunScan, Usage, Return, Exit, GoTo
    <2>2. CASE Register \/ Connect \/ WaitForCharacteristics \/ Disconnect
      BY <2>2 DEF Register, Connect, WaitForCharacteristics, Disconnect, GoTo, Keep
    <2>3. CASE Initialize \/ StopDetecting
      BY <2>3 DEF Initialize, StopDetecting, GoTo, Keep
    <2>4. CASE Start \/ Loop \/ CheckLink
      BY <2>4 DEF Start, Loop, CheckLink, GoTo, Keep
    <2>5. CASE CheckData \/ ClearData \/ WarnOfNoData \/ Stop
      BY <2>5 DEF CheckData, ClearData, WarnOfNoData, Stop, GoTo
    <2> QED
      BY <1>1, <2>1, <2>2, <2>3, <2>4, <2>5, Zenon DEF Main
  <1>2. CASE BleQueue \/ Adapter \/ UNCHANGED vars
    <2>1. UNCHANGED <<pc, protocol>>
      BY <1>2 DEF BleQueue, Adapter, Callback, mainVars, vars
    <2> QED
      BY <2>1
  <1>3. CASE Client
    BY <1>3 DEF Client, PassAnswerOn, GoTo, Keep
  <1>4. CASE SignalHandler \/ PollingEnds
    BY <1>4 DEF SignalHandler, PollingEnds
  <1> QED
    BY <1>1, <1>2, <1>3, <1>4, Zenon DEF Next

\* Who handles the notification and the rest of a line: four steps of the BLE queue,
\* and the adapter that prints.  The main thread never does.
LEMMA PathSteps ==
    ASSUME [Next]_vars
    PROVE  \/ /\ UNCHANGED <<pc, protocol>>
              /\ \/ Parse \/ Observe \/ CallbackReturns \/ NotifyRest
                 \/ \E line \in Lines : \E k \in Cuts \cup {Len(line.text)} :
                       Prints(line) /\ PrintLine(line, k, pc \in Initialized)
           \/ UNCHANGED <<notification, rest>>
  <1>1. CASE Main
    <2>1. CASE ParseArgs \/ LoadVehicle \/ RunSimulation \/ RunScan \/ Usage \/ Return
      BY <2>1 DEF ParseArgs, LoadVehicle, RunSimulation, RunScan, Usage, Return, Exit, pathVars
    <2>2. CASE Register \/ Connect \/ WaitForCharacteristics \/ Disconnect
      BY <2>2 DEF Register, Connect, WaitForCharacteristics, Disconnect, OnDataReceived,
                  SetConnected, pathVars
    <2>3. CASE Initialize \/ StopDetecting
      BY <2>3 DEF Initialize, StopDetecting, DetectVehicle, SetCANMode, pathVars
    <2>4. CASE Start \/ Loop \/ CheckLink
      BY <2>4 DEF Start, Loop, CheckLink, SetCANMode, pathVars
    <2>5. CASE CheckData \/ ClearData \/ WarnOfNoData \/ Stop
      BY <2>5 DEF CheckData, ClearData, WarnOfNoData, Stop, SetCANMode, pathVars
    <2> QED
      BY <1>1, <2>1, <2>2, <2>3, <2>4, <2>5, Zenon DEF Main
  <1>2. CASE BleQueue
    <2>1. UNCHANGED <<pc, protocol>>
      BY <1>2 DEF BleQueue, Callback, mainVars
    <2> QED
      BY <1>2, <2>1, Zenon DEF BleQueue, Callback
  <1>3. CASE Adapter
    <2>1. UNCHANGED <<pc, protocol>>
      BY <1>3 DEF Adapter, mainVars
    <2> QED
      BY <1>3, <2>1, Zenon DEF Adapter, LoseLink
  <1>4. CASE Client
    BY <1>4 DEF Client, PassAnswerOn, ProcessIncomingData
  <1>5. CASE SignalHandler \/ PollingEnds \/ UNCHANGED vars
    BY <1>5 DEF SignalHandler, PollingEnds, vars, pathVars
  <1> QED
    BY <1>1, <1>2, <1>3, <1>4, <1>5, Zenon DEF Next

LEMMA IdleOK == Shape(Idle) /\ Idle.due = FALSE
  BY DEF Shape, Idle

LEMMA NotifyOK ==
    ASSUME NEW text, NEW means, NEW due \in BOOLEAN
    PROVE  /\ Shape(Notify(text, means, due))
           /\ Notify(text, means, due).step = "parse"
           /\ Notify(text, means, due).due = due
           /\ Notify(text, means, due).means = means
           /\ Notify(text, means, due).can = ParseCANFrame(text)
           /\ Notify(text, means, due).obd2 = ParseOBD2Response(text)
  BY DEF Notify, Shape

LEMMA PathNext ==
    ASSUME WholeLinesRead, SessionOK, PathInv, [Next]_vars
    PROVE  PathInv'
  <1> USE DEF PathInv
  <1>1. ASSUME Parse, UNCHANGED <<pc, protocol>>
        PROVE  PathInv'
    <2> DEFINE n == [step |-> "observe", means |-> notification.means,
                     due |-> notification.due, bytes |-> Read]
    <2>1. rest' = rest /\ notification' \in {n, Idle} /\ notification.step = "parse"
      BY <1>1, Zenon DEF Parse
    <2>2. /\ n = [step |-> n.step, means |-> n.means, due |-> n.due, bytes |-> n.bytes]
          /\ n.step = "observe" /\ n.due = notification.due /\ n.bytes = Read
          /\ n.means = notification.means
      OBVIOUS
    <2> HIDE DEF n
    <2>3. Shape(n)
      BY <2>2, Zenon DEF Shape
    <2>4. pc \in Initialized /\ n.due = TRUE => n.bytes = n.means
      <3>1. pc \in Initialized => can_mode = (protocol = "CAN")
        BY WhilePolling, Zenon
      <3> QED
        BY <2>1, <2>2, <3>1, Zenon DEF Due, Read
    <2>6. CASE notification' = n
      <3>1. (pc \in Initialized => Due(notification))'
        <4>1. /\ notification'.step # "parse" /\ notification'.due = n.due
              /\ notification'.bytes = n.bytes /\ notification'.means = n.means
          BY <2>2, <2>6
        <4> QED
          BY <1>1, <2>4, <4>1, Zenon DEF Due
      <3> QED
        BY <1>1, <2>1, <2>2, <2>3, <2>6, <3>1, Zenon
    <2>7. CASE notification' = Idle
      BY <1>1, <2>1, <2>7, IdleOK DEF Due
    <2> QED
      BY <2>1, <2>6, <2>7
  <1>2. ASSUME Observe, UNCHANGED <<pc, protocol>>
        PROVE  PathInv'
    <2> DEFINE n == [notification EXCEPT !.step = "callback"]
    <2>1. rest' = rest /\ notification' = n /\ notification.step = "observe"
      BY <1>2, Zenon DEF Observe
    <2>2. notification = [step |-> notification.step, means |-> notification.means,
                          due |-> notification.due, bytes |-> notification.bytes]
      BY <2>1, Shapes, Zenon
    <2>3. /\ n = [step |-> n.step, means |-> n.means, due |-> n.due, bytes |-> n.bytes]
          /\ n.step = "callback" /\ n.due = notification.due /\ n.bytes = notification.bytes
          /\ n.means = notification.means
      BY <2>2
    <2> HIDE DEF n
    <2>4. Shape(n)
      BY <2>3, Zenon DEF Shape
    <2>5. (pc \in Initialized => Due(notification))'
      BY <1>2, <2>1, <2>3 DEF Due
    <2> QED
      BY <1>2, <2>1, <2>3, <2>4, <2>5, Zenon
  <1>3. ASSUME CallbackReturns, UNCHANGED <<pc, protocol>>
        PROVE  PathInv'
    BY <1>3, IdleOK DEF CallbackReturns, Due
  <1>4. ASSUME NotifyRest, UNCHANGED <<pc, protocol>>
        PROVE  PathInv'
    <2>1. notification' \in {rest, Idle} /\ rest' = Idle
      BY <1>4, Zenon DEF NotifyRest
    <2> QED
      BY <1>4, <2>1, IdleOK DEF Due
  <1>5. ASSUME NEW line \in Lines, NEW k \in Cuts \cup {Len(line.text)},
               Prints(line), PrintLine(line, k, pc \in Initialized), UNCHANGED <<pc, protocol>>
        PROVE  PathInv'
    <2> DEFINE head == SubSeq(line.text, 1, k)
               tail == From(line.text, k + 1)
               due == pc \in Initialized /\ k = Len(line.text)
               n == Notify(head, line.means, due)
               m == Notify(tail, line.means, FALSE)
    <2>1. notification' = n /\ rest' \in {Idle, m}
      BY <1>5, Zenon DEF PrintLine
    <2>2. due \in BOOLEAN /\ FALSE \in BOOLEAN
      OBVIOUS
    <2>3. ASSUME due = TRUE
          PROVE  (IF protocol = "CAN" THEN n.can ELSE n.obd2) = n.means
      <3>1. line.phase \in {"CAN", "OBD2"} /\ (line.phase = "CAN") = (protocol = "CAN")
        <4>1. pc \in Initialized /\ pc # "init"
          BY <2>3 DEF Initialized
        <4>2. polling => protocol = "OBD2"
          BY <4>1, WhilePolling, Zenon
        <4> QED
          BY <1>5, <4>1, <4>2 DEF Prints
      <3>2. head = SubSeq(line.text, 1, Len(line.text))
        BY <2>3
      <3>3. /\ line.phase = "CAN" => ParseCANFrame(head) = line.means
            /\ line.phase = "OBD2" => ParseOBD2Response(head) = line.means
        BY <3>2, Zenon DEF WholeLinesRead
      <3> HIDE DEF head, due
      <3> QED
        BY <2>2, <3>1, <3>3, NotifyOK
    <2>4. pc \in Early => due = FALSE
      BY DEF Early, Initialized
    <2> HIDE DEF head, tail, due
    <2>5. Shape(n) /\ Shape(m) /\ n.due = due /\ m.due = FALSE /\ n.step = "parse"
      BY <2>2, NotifyOK
    <2> HIDE DEF n, m
    <2>6. Due(notification)'
      BY <1>5, <2>1, <2>3, <2>5 DEF Due
    <2>7. Shape(rest') /\ rest'.due = FALSE
      BY <2>1, <2>5, IdleOK
    <2>8. Shape(notification') /\ notification'.due \in BOOLEAN
      BY <2>1, <2>2, <2>5
    <2>9. pc' \in Early => notification'.due = FALSE
      BY <1>5, <2>1, <2>4, <2>5
    <2> QED
      BY <2>6, <2>7, <2>8, <2>9, Zenon
  <1>6. CASE UNCHANGED <<notification, rest>>
    <2>1. pc' \in Initialized => Due(notification)
      <3>1. pc \in Initialized \/ (pc = "init" /\ "init" \in Early) \/ pc' \notin Initialized
        BY Stages DEF Early
      <3> QED
        BY <3>1, Zenon DEF Due
    <2>2. pc' \in Initialized => Due(notification)'
      BY <1>6, <2>1, Stages DEF Due
    <2> QED
      BY <1>6, <2>2, Stages
  <1> QED
    BY <1>1, <1>2, <1>3, <1>4, <1>5, <1>6, PathSteps

\* DeliveredAsPrinted for every adapter, cut, command line and bound.
THEOREM LinesAreDelivered == WholeLinesRead => (Spec => []DeliveredAsPrinted)
  <1> SUFFICES ASSUME WholeLinesRead
               PROVE  Spec => []DeliveredAsPrinted
    OBVIOUS
  <1>1. Init => SessionOK /\ PathInv
    <2> SUFFICES ASSUME Init
                 PROVE  SessionOK /\ PathInv
      OBVIOUS
    <2>1. SessionOK
      BY SessionInit
    <2>2. notification = Idle /\ rest = Idle /\ pc = "parse"
      BY Zenon DEF Init, PathInit
    <2>3. PathInv
      BY <2>2, IdleOK DEF PathInv, Initialized
    <2> QED
      BY <2>1, <2>3
  <1>2. SessionOK /\ PathInv /\ [Next]_vars => PathInv'
    BY PathNext, Zenon
  <1>3. SessionOK /\ PathInv => DeliveredAsPrinted
    <2> SUFFICES ASSUME SessionOK, PathInv, pc \in Initialized, notification.due
                 PROVE  /\ notification.step = "parse" =>
                              data_callback /\ Read = notification.means
                        /\ notification.step # "parse" => notification.bytes = notification.means
      BY Zenon DEF DeliveredAsPrinted
    <2>1. data_callback /\ can_mode = (protocol = "CAN")
      BY WhilePolling, Zenon
    <2>2. Due(notification) /\ notification.due = TRUE
      BY DEF PathInv
    <2> QED
      BY <2>1, <2>2, Zenon DEF Due, Read
  <1> QED
    BY <1>1, <1>2, <1>3, SessionNext, PTL DEF Spec
=============================================================================
