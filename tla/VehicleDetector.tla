---------------------------- MODULE VehicleDetector ----------------------------
(***************************************************************************)
(* VehicleDetector (src/domain/VehicleDetector.cpp), as operators on the   *)
(* state of one detector.  Every method holds stateMutex_ throughout, so   *)
(* each is one step of whoever calls it.  Times and the printed summary    *)
(* are left out.                                                           *)
(***************************************************************************)
EXTENDS Integers, Sequences, FiniteSets

LOCAL INSTANCE TLC
LOCAL Sets == INSTANCE FiniteSetsExt

CONSTANT MaxFrameHistory      \* MAX_FRAME_HISTORY

ASSUME DetectorAssumption == MaxFrameHistory \in Nat \ {0}

Registry == [id \in {256, 264, 280, 297} |-> IF id = 256 THEN "Audi" ELSE "Tesla"]

\* A new detector, and what reset() makes of any.
Blank == [canIdCounts |-> <<>>, obd2ResponseCount |-> 0, vin |-> <<>>,
          isElectric |-> "unknown", frameHistory |-> <<>>]

CountOf(d, id) == IF id \in DOMAIN d.canIdCounts THEN d.canIdCounts[id] ELSE 0

AddFrame(d, frame) ==
    LET all == Append(d.frameHistory, frame)
    IN [d EXCEPT !.frameHistory = IF Len(all) > MaxFrameHistory THEN Tail(all) ELSE all]

FeedCANFrame(d, id) ==
    [d EXCEPT !.canIdCounts = [i \in {id} \cup DOMAIN d.canIdCounts |->
                                  CountOf(d, i) + IF i = id THEN 1 ELSE 0]]

ObserveFrame(d, frame) ==
    LET e == AddFrame(d, frame) IN
    IF Len(frame) = 10 THEN FeedCANFrame(e, frame[1] + 256 * frame[2])
    ELSE IF Len(frame) \in 2..9 THEN [e EXCEPT !.obd2ResponseCount = @ + 1]
    ELSE e

SeenIds(d, make) == {id \in DOMAIN d.canIdCounts \cap DOMAIN Registry : Registry[id] = make}
SeenMakes(d) == {Registry[id] : id \in DOMAIN d.canIdCounts \cap DOMAIN Registry}
TotalFrames(d, ids) == Sets!MapThenSumSet(LAMBDA id : CountOf(d, id), ids)

CalculateConfidence(make, unique, total) ==
    CASE make = "Tesla" -> Sets!Min({unique, 3})
      [] make = "Audi" -> IF total >= 5 THEN 3 ELSE IF total >= 2 THEN 2 ELSE 1
      [] make = "Generic" -> IF total >= 3 THEN 2 ELSE 1

\* Faulty variant: conflicting evidence suggests one of the makes.
SuggestAnyMake(d) ==
    IF SeenMakes(d) = {} THEN IF d.obd2ResponseCount > 0 THEN "Generic" ELSE "Unknown"
    ELSE IF "Audi" \in SeenMakes(d) THEN "Audi" ELSE "Tesla"

DetermineSuggestion(d) ==
    CASE SeenMakes(d) = {} -> IF d.obd2ResponseCount > 0 THEN "Generic" ELSE "Unknown"
      [] Cardinality(SeenMakes(d)) = 1 -> CHOOSE make \in SeenMakes(d) : TRUE
      [] OTHER -> "Unknown"

Upper(c) == IF c \in 97..122 THEN c - 32 ELSE c
IsAlnum(c) == c \in (48..57) \cup (65..90)

\* The letters of the manufacturer codes are their character codes.
WMI == (<<53, 89, 74>> :> "Tesla") @@ (<<55, 83, 65>> :> "Tesla") @@
       (<<87, 65, 85>> :> "Audi") @@ (<<87, 85, 65>> :> "Audi") @@
       (<<87, 65, 49>> :> "Audi") @@ (<<84, 82, 85>> :> "Audi") @@
       (<<87, 86, 87>> :> "Volkswagen") @@ (<<87, 86, 49>> :> "Volkswagen") @@
       (<<87, 86, 50>> :> "Volkswagen") @@ (<<87, 86, 48>> :> "Volkswagen") @@
       (<<87, 66, 65>> :> "BMW") @@ (<<87, 66, 83>> :> "BMW") @@ (<<87, 66, 88>> :> "BMW") @@
       (<<87, 68, 66>> :> "MercedesBenz") @@ (<<87, 68, 67>> :> "MercedesBenz")

DecodeWMI(vin) ==
    LET code == [i \in 1..3 |-> Upper(vin[i])] IN
    IF code \in DOMAIN WMI THEN WMI[code]
    ELSE IF /\ \A i \in 1..3 : IsAlnum(code[i])
            /\ code[1] \in (49..53) \cup (65..72) \cup (74..90)
         THEN "Generic" ELSE "Unknown"

MakeToConfigId(make, electric) ==
    CASE make = "Tesla" -> "tesla_model3"
      [] make \in {"Audi", "Volkswagen"} /\ electric -> "audi_mlb_evo"
      [] OTHER -> "generic"

\* A VIN outweighs the frames, but gives no confidence.
GetResult(d) ==
    LET make == DetermineSuggestion(d)
        result == [make |-> "Unknown", vehicle |-> "", confidence |-> 0,
                   frameCount |-> TotalFrames(d, DOMAIN d.canIdCounts) + d.obd2ResponseCount]
    IN IF Len(d.vin) >= 3
       THEN [result EXCEPT !.make = DecodeWMI(d.vin),
                           !.vehicle = MakeToConfigId(DecodeWMI(d.vin), d.isElectric = "yes")]
       ELSE IF make = "Unknown" THEN result
       ELSE [result EXCEPT
                !.make = make,
                !.vehicle = MakeToConfigId(make, TRUE),
                !.confidence = IF make = "Generic"
                               THEN CalculateConfidence(make, 0, d.obd2ResponseCount)
                               ELSE CalculateConfidence(make, Cardinality(SeenIds(d, make)),
                                                        TotalFrames(d, SeenIds(d, make)))]

VINLength == 17

\* What an answer adds to the VIN, whose padding is dropped.
VINPart(response) ==
    LET body == IF Len(response) >= 8 /\ SubSeq(response, 1, 2) = <<73, 2>>
                THEN SubSeq(response, 4, Len(response)) ELSE response
    IN SelectSeq(body, LAMBDA c : c # 0)

(* Returns true for every answer: what does not begin as a VIN answer is   *)
(* taken for the continuation of one.                                      *)
FeedVINResponse(d, response) ==
    LET vin == d.vin \o VINPart(response)
    IN [AddFrame(d, response) EXCEPT
           !.vin = SubSeq(vin, 1, IF Len(vin) > VINLength THEN VINLength ELSE Len(vin))]
=============================================================================
