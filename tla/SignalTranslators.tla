--------------------------- MODULE SignalTranslators ---------------------------
(***************************************************************************)
(* The translators (ISignalTranslator): from the bytes of an answer or a   *)
(* frame to a VehicleSignal.  A translator is a record: its kind, its      *)
(* last-known values and, for the translator that a DBC file drives, its   *)
(* vehicle and the frames it has accumulated.  Times are left out.         *)
(***************************************************************************)
EXTENDS Integers, Sequences, CANDecoder

LOCAL INSTANCE SequencesExt
LOCAL INSTANCE Functions

Fields == {"throttlePercent", "speedKmh", "accelerationG", "brakePercent", "steeringAngleDeg",
           "motorRpm", "motorHvVoltage", "motorHvCurrent", "motorPower", "regenPower",
           "motorTorqueNm"}

\* The ranges of VehicleSignal, in thousandths.
Bounds ==
    [f \in {"throttlePercent", "brakePercent"} |-> <<0, 100000>>] @@
    ("speedKmh" :> <<0, 300000>>) @@ ("accelerationG" :> <<-5000, 5000>>) @@
    ("steeringAngleDeg" :> <<-819200, 819200>>) @@ ("motorRpm" :> <<0, 20000000>>) @@
    ("motorHvVoltage" :> <<0, 1000000>>) @@ ("motorHvCurrent" :> <<0, 50000>>) @@
    ("motorPower" :> <<0, 20000000>>) @@ ("regenPower" :> <<0, 12700000>>) @@
    ("motorTorqueNm" :> <<-7500000, 7500000>>)

VehicleSignal(values) == [f \in Fields |-> Clamp(values[f], Bounds[f][1], Bounds[f][2])]

NoFrames == <<>>
Translator(kind, vehicle) ==
    [kind |-> kind, vehicle |-> vehicle, last |-> [f \in Fields |-> 0], frames |-> NoFrames]

\* SignalTranslatorFactory::create
Create(vehicleType) ==
    Translator(IF vehicleType \in {"tesla", "audi"} THEN vehicleType ELSE "obd2", "own")

ExtractCANId(frame) == IF Len(frame) < 2 THEN 0 ELSE frame[1] + 256 * frame[2]
CANData(frame) == SubSeq(frame, 3, 10)

-----------------------------------------------------------------------------
(* OBD2: mode, PID and data bytes.  What an unknown PID gives is dropped.  *)
IsValidAnswer(answer) == Len(answer) >= 3 /\ answer[1] \in 64..79

BytePercent(byte) == (byte * 100000) \div 255
Word(data) == IF Len(data) < 2 THEN 0 ELSE data[1] + 256 * data[2]

ExtractPIDValue(kind, pid, data) ==
    CASE kind = "audi" /\ pid = 253 -> 1000 * Word(data)
      [] kind = "audi" /\ pid = 252 -> 100 * Word(data)
      [] pid \in {17, 4, 47, 90} -> BytePercent(data[1])
      [] pid = 5 -> 1000 * (data[1] - 40)
      [] pid = 12 /\ Len(data) >= 2 -> 250 * (256 * data[1] + data[2])
      [] OTHER -> 1000 * data[1]

UpdateSignalField(kind, pid, value, last) ==
    CASE pid \in {17, 90, 92} -> [last EXCEPT !.throttlePercent = value]
      [] pid = 13 -> [last EXCEPT !.speedKmh = value]
      [] pid = 4 -> [last EXCEPT !.accelerationG = (2 * value) \div 100 - 1000]
      [] pid = 164 -> [last EXCEPT !.brakePercent = value]
      [] kind = "audi" /\ pid = 254 -> [last EXCEPT !.throttlePercent = value]
      [] kind = "audi" /\ pid = 253 -> [last EXCEPT !.speedKmh = value]
      [] kind = "audi" /\ pid = 252 -> [last EXCEPT !.accelerationG = value]
      [] OTHER -> last

-----------------------------------------------------------------------------
(* CAN frames, with the identifiers and bits of the headers.               *)
KnownCANIds(kind) == IF kind = "audi_mlb" THEN {256, 257, 259, 262, 280, 297} ELSE {280, 297}

\* A pressed pedal counts for at least half the brake; a released one for nothing.
DecodeDISystem(data, last) ==
    [last EXCEPT
        !.throttlePercent = ExtractSignal(data, 32, 8, <<2, 5>>, 0)[1],
        !.brakePercent = IF ExtractSignal(data, 17, 2, <<1, 1>>, 0)[1] > 0 /\ @ < 50000
                         THEN 50000 ELSE @]

DecodeFrame(canId, data, last) ==
    CASE canId = 256 -> [last EXCEPT !.speedKmh = ExtractSignal(data, 32, 16, <<1, 100>>, 0)[1]]
      [] canId = 257 ->
            [last EXCEPT !.accelerationG =
                (100 * ExtractSignal(data, 24, 10, <<1, 32>>, -16000)[1]) \div 981]
      [] canId = 262 ->
            [last EXCEPT !.brakePercent =
                Clamp(ExtractSignal(data, 16, 10, <<3, 10>>, -30000)[1] \div 2, 0, 100000)]
      [] canId = 280 -> DecodeDISystem(data, last)
      [] canId = 297 ->
            [last EXCEPT !.steeringAngleDeg = ExtractSignal(data, 16, 14, <<1, 10>>, -819200)[1]]
      [] OTHER -> last

\* Tesla's packet: AA 55, length, throttle, speed (two bytes), acceleration, brake, checksum.
Checksum(packet) == FoldLeft(LAMBDA sum, byte : (sum + byte) % 256, 0, Front(packet))
IsValidPacket(packet) ==
    /\ Len(packet) >= 9
    /\ packet[1] = 170 /\ packet[2] = 85
    /\ Len(packet) = 4 + packet[3]
    /\ Checksum(packet) = packet[Len(packet)]

TranslatePacket(packet, last) ==
    [last EXCEPT !.throttlePercent = 1000 * packet[4],
                 !.speedKmh = 1000 * (packet[5] + 256 * packet[6]),
                 !.accelerationG = 100 * ToSigned(packet[7], 8),
                 !.brakePercent = 1000 * packet[8]]

\* isValidPacket of each kind.
Accepts(t, raw) ==
    CASE t.kind \in {"obd2", "audi"} -> IsValidAnswer(raw)
      [] t.kind \in {"audi_mlb", "tesla_can"} ->
            Len(raw) >= 10 /\ ExtractCANId(raw) \in KnownCANIds(t.kind)
      [] t.kind = "tesla" -> IsValidPacket(raw)
      [] t.kind = "dbc" -> Len(raw) >= 10

\* translate, of the translators that keep values.
Translate(t, raw) ==
    [t EXCEPT !.last =
        CASE t.kind \in {"obd2", "audi"} ->
                UpdateSignalField(t.kind, raw[2],
                    ExtractPIDValue(t.kind, raw[2], SubSeq(raw, 3, Len(raw))), @)
          [] t.kind \in {"audi_mlb", "tesla_can"} -> DecodeFrame(ExtractCANId(raw), CANData(raw), @)
          [] t.kind = "tesla" -> TranslatePacket(raw, @)]

\* Faulty variant: a frame takes the place of all others.
AccumulateOnly(t, raw) == [t EXCEPT !.frames = ExtractCANId(raw) :> CANData(raw)]

\* The first half of DBCSignalTranslator's translate.
Accumulate(t, raw) ==
    [t EXCEPT !.frames = [id \in DOMAIN t.frames \cup {ExtractCANId(raw)} |->
                             IF id = ExtractCANId(raw) THEN CANData(raw) ELSE t.frames[id]]]

(* VehicleSignalFactory::build: each mapped signal comes from the first    *)
(* frame that has it, in the order of an unordered_map.                    *)
Build(mappings, frames, signalsByCanId, order) ==
    LET Has(name) == {id \in DOMAIN frames :
                         MapNamedSignal(frames[id], id, name, signalsByCanId) # <<>>}
        First(name) == CHOOSE id \in Has(name) : \A other \in Has(name) : order[id] <= order[other]
        Name(f) == CHOOSE name \in DOMAIN mappings : mappings[name] = f
    IN VehicleSignal([f \in Fields |->
           IF f \notin {mappings[name] : name \in DOMAIN mappings} \/ Has(Name(f)) = {} THEN 0
           ELSE MapNamedSignal(frames[First(Name(f))], First(Name(f)), Name(f), signalsByCanId)[1]])
=============================================================================
