------------------------- MODULE DBCTranslationService -------------------------
(***************************************************************************)
(* A translation service (src/domain/DBCTranslationService.cpp) that is    *)
(* loaded again and again, and the translators behind it, called by        *)
(* several threads; or a translator that the client makes itself.  The     *)
(* translator that a DBC file drives stores a frame under its mutex,       *)
(* releases it, and takes it again to copy all frames for the factory; it  *)
(* keeps a reference to the service's parse result.  The client does not   *)
(* load while it translates.                                               *)
(***************************************************************************)
EXTENDS SignalTranslators, DBCFileParser, FiniteSets

LOCAL INSTANCE SequencesExt
LOCAL INSTANCE Functions

CONSTANTS
    Callers,       \* threads that translate
    Vehicles,      \* identifiers that the client asks for
    Registry,      \* registry_: the signal mappings of the registered vehicles
    Contents,      \* what a DBC file may hold: sequences of lines
    Raw,           \* what the client may hand over, for each kind of translator
    MaxFed,        \* bound on what the translator takes
    MaxLoads       \* bound on the loads

ASSUME ServiceAssumption == MaxFed \in Nat

VARIABLES
    parseResult,   \* parseResult_
    translator,    \* translator_, or the one that the client made
    protocol,      \* protocol_
    vehicleId,     \* vehicleId_
    loaded,        \* loaded_
    calls,         \* what each thread has stored and not built yet
    signal,        \* what the last translation returned
    fed,           \* what the translator has taken, oldest first
    content,       \* the file that the translator in use was made from
    loads          \* loads so far

vars == <<parseResult, translator, protocol, vehicleId, loaded, calls, signal, fed,
          content, loads>>

NoSignal == <<>>          \* std::nullopt
None == Translator("none", "")
Own == {Create(type) : type \in {"tesla", "audi", "other"}}
       \cup {Translator(kind, "own") : kind \in {"audi_mlb", "tesla_can"}}

\* The registered vehicles are configured for CAN.
WantsCAN(id, p) == p = "CAN" \/ (id \in DOMAIN Registry /\ p # "OBD2")

Init ==
    /\ translator \in {None} \cup Own
    /\ parseResult = NoSignals
    /\ protocol = "Simulation"
    /\ vehicleId = ""
    /\ loaded = FALSE
    /\ calls = [c \in Callers |-> <<>>]
    /\ signal = NoSignal
    /\ fed = <<>>
    /\ content = <<>>
    /\ loads = 0

Quiescent == \A c \in Callers : calls[c] = <<>>
IsService == translator.vehicle # "own"

\* Faulty variant: the translator goes on with the frames of the one before.
LoadedKeepingFrames(id, kind, p) ==
    /\ translator' = [Translator(kind, id) EXCEPT !.frames = translator.frames]
    /\ protocol' = p
    /\ vehicleId' = id
    /\ loaded' = TRUE
    /\ fed' = <<>>
    /\ signal' = NoSignal

Loaded(id, kind, p) ==
    /\ translator' = Translator(kind, id)
    /\ protocol' = p
    /\ vehicleId' = id
    /\ loaded' = TRUE
    /\ fed' = <<>>
    /\ signal' = NoSignal

\* Faulty variant: the reports are written before the result of the parser is looked at.
LoadCANEarly(id, text) ==
    /\ id \in DOMAIN Registry
    /\ parseResult' = ParseFile(text # <<>>, text)
    /\ protocol' = "CAN" /\ vehicleId' = id /\ loaded' = TRUE
    /\ IF parseResult' = NoSignals THEN UNCHANGED <<translator, fed, signal, content>>
       ELSE /\ translator' = Translator("dbc", id)
            /\ content' = text /\ fed' = <<>> /\ signal' = NoSignal

(* The parse result is exchanged before it is looked at, so that a load    *)
(* that fails leaves the translator in use without definitions.            *)
LoadCAN(id, text) ==
    /\ id \in DOMAIN Registry
    /\ parseResult' = ParseFile(text # <<>>, text)
    /\ IF parseResult' = NoSignals
       THEN UNCHANGED <<translator, protocol, vehicleId, loaded, fed, signal, content>>
       ELSE Loaded(id, "dbc", "CAN") /\ content' = text

\* A load over CAN of a vehicle that is not registered.
LoadUnknown(id) ==
    /\ id \notin DOMAIN Registry
    /\ UNCHANGED <<parseResult, content, translator, protocol, vehicleId, loaded, fed, signal>>

LoadVehicle(id, p, text) ==
    /\ IsService
    /\ Quiescent
    /\ loads < MaxLoads
    /\ loads' = loads + 1
    /\ UNCHANGED calls
    /\ \/ WantsCAN(id, p) /\ LoadCAN(id, text)
       \/ WantsCAN(id, p) /\ LoadUnknown(id)
       \/ ~WantsCAN(id, p) /\ Loaded(id, "obd2", "OBD2") /\ UNCHANGED <<parseResult, content>>

Refused(raw) == translator.kind # "none" => ~Accepts(translator, raw)

ProcessRefused(raw) ==
    /\ Refused(raw)
    /\ signal' = NoSignal
    /\ UNCHANGED <<parseResult, translator, protocol, vehicleId, loaded, calls, fed, content, loads>>

ProcessFrame(raw) ==
    /\ ~Refused(raw)
    /\ translator.kind # "dbc"
    /\ Len(fed) < MaxFed
    /\ fed' = Append(fed, raw)
    /\ translator' = Translate(translator, raw)
    /\ signal' = <<VehicleSignal(translator'.last)>>
    /\ UNCHANGED <<parseResult, protocol, vehicleId, loaded, calls, content, loads>>

\* Translating with a DBC file takes the mutex twice.
StoreFrame(c, raw) ==
    /\ ~Refused(raw)
    /\ translator.kind = "dbc"
    /\ calls[c] = <<>>
    /\ Len(fed) < MaxFed
    /\ fed' = Append(fed, raw)
    /\ translator' = Accumulate(translator, raw)
    /\ calls' = [calls EXCEPT ![c] = raw]
    /\ UNCHANGED <<parseResult, protocol, vehicleId, loaded, signal, content, loads>>

\* The orders in which an unordered_map may be walked through.
Orders(ids) == {order \in [ids -> 1..Cardinality(ids)] : \A a, b \in ids : order[a] = order[b] => a = b}

BuildSignal(c) ==
    /\ calls[c] # <<>>
    /\ \E order \in Orders(DOMAIN translator.frames) :
          signal' = <<Build(Registry[translator.vehicle], translator.frames, parseResult, order)>>
    /\ calls' = [calls EXCEPT ![c] = <<>>]
    /\ UNCHANGED <<parseResult, translator, protocol, vehicleId, loaded, fed, content, loads>>

Next ==
    \/ \E id \in Vehicles, p \in {"CAN", "OBD2", "Simulation"}, text \in Contents :
          LoadVehicle(id, p, text)
    \/ \E raw \in Raw[translator.kind] : ProcessRefused(raw) \/ ProcessFrame(raw)
    \/ \E c \in Callers : BuildSignal(c) \/ \E raw \in Raw[translator.kind] : StoreFrame(c, raw)

Spec == Init /\ [][Next]_vars

-----------------------------------------------------------------------------
\* Each frame that the translator keeps is the newest of its message, whoever brought it.
KeepsNewest ==
    \A id \in DOMAIN translator.frames : \E i \in DOMAIN fed :
        /\ ExtractCANId(fed[i]) = id
        /\ \A j \in DOMAIN fed : j > i => ExtractCANId(fed[j]) # id
        /\ translator.frames[id] = CANData(fed[i])

(* What the state holds: the translator has the newest frame of each       *)
(* message it was fed with and nothing of an earlier vehicle, and only the *)
(* one that a DBC file drives is ever inside a translation                 *)
(* (DBCTranslationService.cpp:42, DBCSignalTranslator.cpp:38).             *)
TypeOK ==
    /\ protocol \in {"Simulation", "CAN", "OBD2"}
    /\ Len(fed) <= MaxFed
    /\ DOMAIN translator.frames = IF translator.kind = "dbc"
                                  THEN {ExtractCANId(fed[i]) : i \in DOMAIN fed} ELSE {}
    /\ KeepsNewest
    /\ ~Quiescent => translator.kind = "dbc"

(* What the service says of itself is true of the translator in use,       *)
(* whatever loads succeeded or failed before: the vehicle, the protocol    *)
(* and whether there is one (DBCTranslationService.cpp:34-55).             *)
ReportsAgree ==
    IsService =>
        /\ loaded = (translator.kind # "none")
        /\ loaded => translator.vehicle = vehicleId
        /\ protocol = CASE translator.kind = "none" -> "Simulation"
                        [] translator.kind = "dbc" -> "CAN"
                        [] translator.kind = "obd2" -> "OBD2"
        /\ translator.kind = "dbc" => vehicleId \in DOMAIN Registry

\* Three bytes of a frame as a number, lowest or highest first.
ThreeBytes(data, from, order) ==
    LET byte(i) == IF i \in DOMAIN data THEN data[i] ELSE 0
    IN IF order = "Intel" THEN byte(from) + 256 * byte(from + 1) + 65536 * byte(from + 2)
       ELSE 65536 * byte(from) + 256 * byte(from + 1) + byte(from + 2)

\* The value of a definition in a frame, by arithmetic on whole bytes.
Reading(data, d) ==
    LET skipped == d.startBit % 8
        word == ThreeBytes(data, d.startBit \div 8 + 1, d.byteOrder)
        low == IF d.byteOrder = "Intel" THEN skipped ELSE 24 - skipped - d.bitLength
        raw == (word \div 2 ^ low) % 2 ^ d.bitLength
        half == 2 ^ (d.bitLength - 1)
        value == IF d.isSigned THEN ((raw + half) % (2 * half)) - half ELSE raw
    IN Clamp(Physical(value, d.scale, d.offset), d.min, d.max)

\* The index of the last element of fed in a set of messages, or 0.
LastFed(is) == IF is = {} THEN 0 ELSE CHOOSE i \in is : \A j \in is : j <= i

\* What definitions make of the newest frame of each message that has the field.
NewestFrames(definitions, f) ==
    LET mapped == Registry[translator.vehicle]
        Here(id) == {d \in ToSet(definitions[id]) : /\ d.name \in DOMAIN mapped
                                                    /\ mapped[d.name] = f
                                                    /\ d.startBit + d.bitLength <= 64}
        Fed(id) == {i \in DOMAIN fed : ExtractCANId(fed[i]) = id}
    IN UNION {{Clamp(Reading(CANData(fed[LastFed(Fed(id))]), d), Bounds[f][1], Bounds[f][2]) :
                  d \in Here(id)} : id \in {n \in DOMAIN definitions : Fed(n) # {}}}

\* A field that no frame has is 0.
OrZero(values) == IF values = {} THEN {0} ELSE values

\* The fields that an answer, a packet or a frame carries.
Carries(raw) ==
    CASE translator.kind = "tesla" -> {"throttlePercent", "speedKmh", "accelerationG", "brakePercent"}
      [] translator.kind \in {"obd2", "audi"} ->
            IF raw[2] \in {17, 90, 92, 254} THEN {"throttlePercent"}
            ELSE IF raw[2] \in {13, 253} THEN {"speedKmh"}
            ELSE IF raw[2] \in {4, 252} THEN {"accelerationG"}
            ELSE IF raw[2] = 164 THEN {"brakePercent"} ELSE {}
      [] OTHER ->
            CASE ExtractCANId(raw) = 256 -> {"speedKmh"}
              [] ExtractCANId(raw) = 257 -> {"accelerationG"}
              [] ExtractCANId(raw) = 280 -> {"throttlePercent"}
              [] ExtractCANId(raw) = 297 -> {"steeringAngleDeg"}
              [] OTHER -> {}

\* What the newest carrier of a field gives by itself.
NewestValue(f) ==
    LET i == LastFed({n \in DOMAIN fed : f \in Carries(fed[n])})
    IN IF i = 0 THEN 0
       ELSE VehicleSignal(Translate(Translator(translator.kind, ""), fed[i]).last)[f]

Reported ==
    /\ signal' # NoSignal
    /\ IF translator.kind = "dbc" THEN fed' = fed /\ calls' # calls ELSE fed' # fed

(* Whatever came in between and whoever brought it, a field of a report    *)
(* comes from what the translator took newest since it was made: for the   *)
(* translators that keep values, from the newest answer, packet or frame   *)
(* that has the field; for one that a DBC file drives, from the newest     *)
(* frame of some message that lists the signal.  If two messages list it,  *)
(* the order of an unordered_map chooses between them, and the other may   *)
(* have been heard later.  A DBC translator is exempted that a later,      *)
(* failed load has left without definitions: it reports zeroes, although   *)
(* DBCSignalTranslator.h:24-25 promises the accumulated state, for the     *)
(* service exchanges the definitions before it knows that the load         *)
(* succeeds (DBCTranslationService.cpp:38).  The brake of the CAN          *)
(* translators is set apart, as a pedal never releases it: it is within    *)
(* the range that VehicleSignal gives a field, as the others are           *)
(* (DBCSignalTranslator.cpp:23, VehicleSignalFactory.cpp:15,               *)
(* OBD2SignalTranslatorBase.cpp:32, CANTranslatorBase.cpp:28,              *)
(* VehicleSignal.cpp:21).                                                  *)
LatestWins ==
    [][Reported =>
        \A f \in Fields :
            /\ signal'[1][f] \in Bounds[f][1]..Bounds[f][2]
            /\ IF translator.kind = "dbc"
               THEN parseResult # NoSignals =>
                        signal'[1][f] \in OrZero(NewestFrames(parseResult, f))
               ELSE (translator.kind \in {"audi_mlb", "tesla_can"} => f # "brakePercent")
                       => signal'[1][f] = NewestValue(f)']_vars

(* A signal belongs to the message that the file lists it under:           *)
(* DBCParser.h:18 says "Map of CAN ID to vector of signal definitions for  *)
(* that message".                                                          *)
SignalsBelongToMessage ==
    \A id \in DOMAIN parseResult : \A d \in ToSet(parseResult[id]) :
        \E i \in DOMAIN content, j \in DOMAIN content :
            /\ i < j
            /\ content[i].kind = "BO" /\ content[i].id = id
            /\ content[j].kind = "SG" /\ content[j].definition.name = d.name
            /\ \A k \in (i + 1)..(j - 1) : content[k].kind # "BO"
=============================================================================
