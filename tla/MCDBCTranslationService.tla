------------------------ MODULE MCDBCTranslationService ------------------------
EXTENDS DBCTranslationService, TLC

CONSTANTS c1, c2

MCRegistry ==
    "tesla_model3" :> ("DIR_axleSpeed" :> "motorRpm" @@ "DIR_torqueActual" :> "motorTorqueNm" @@
                       "DI_accelPedalPos" :> "throttlePercent" @@
                       "SteeringAngle129" :> "steeringAngleDeg") @@
    "audi_mlb_evo" :> ("ESP_v_Signal" :> "speedKmh" @@ "ESP_Laengsbeschl" :> "accelerationG" @@
                       "ESP_Bremsdruck" :> "brakePercent")

BO(id) == [kind |-> "BO", id |-> id]
SG(name, start, length, order, signed, scale, offset, min, max) ==
    [kind |-> "SG", form |-> "good",
     definition |-> [name |-> name, startBit |-> start, bitLength |-> length, byteOrder |-> order,
                     isSigned |-> signed, scale |-> scale, offset |-> offset, min |-> min,
                     max |-> max, valueTable |-> <<>>]]
Spoilt(form) == [SG("DIR_axleSpeed", 0, 1, "Intel", FALSE, <<1, 1>>, 0, 0, 0) EXCEPT !.form = form]
VAL(id, name) == [kind |-> "VAL", id |-> id, name |-> name, values |-> <<"SNA">>]

AxleSpeed == SG("DIR_axleSpeed", 40, 16, "Intel", TRUE, <<1, 10>>, 0, -2750000, 2750000)
Torque == SG("DIR_torqueActual", 27, 13, "Intel", TRUE, <<2, 1>>, 0, -7500000, 7500000)
Pedal == SG("DI_accelPedalPos", 32, 8, "Intel", FALSE, <<2, 5>>, 0, 0, 100000)
Speed == SG("ESP_v_Signal", 32, 16, "Motorola", FALSE, <<1, 100>>, 0, 0, 655320)
Brake == SG("ESP_Bremsdruck", 16, 10, "Intel", FALSE, <<3, 10>>, -30000, -30000, 276600)

Tesla == <<[kind |-> "other"], Spoilt("malformed"), BO(264), AxleSpeed, Torque, BO(280), Pedal,
           VAL(264, "DIR_axleSpeed"), VAL(99999, "DIR_axleSpeed")>>
Twice == <<BO(264), AxleSpeed, BO(280), AxleSpeed, Spoilt("malformed")>>
Audi == <<BO(0), Spoilt("good"), BO(256), Speed, BO(262), Brake>>
Bad == <<BO(264), AxleSpeed, Spoilt("throws"), Torque>>
MCContents == {<<>>, Tesla, Twice, Audi, Bad}

\* A file with an extended identifier, as DBC files write them.
Extended == <<BO(264), AxleSpeed, BO(999999), Torque>>
MCExtended == {<<>>, Bad, Audi, Twice, Extended}

Frame(id, a, b) == <<id % 256, id \div 256, 16, 32, a, 129, a, b, 255, 1>>
CANRaw == {Frame(264, 200, 13), Frame(264, 7, 240), Frame(280, 66, 4), Frame(280, 64, 200),
           <<8, 1, 0>>}
MCRaw ==
    "none" :> {<<65, 13, 80>>} @@
    "dbc" :> CANRaw \cup {Frame(256, 3, 90), Frame(262, 201, 2)} @@
    "obd2" :> {<<65, 13, 80>>, <<65, 17, 128>>, <<65, 92, 9>>, <<66, 4, 51>>, <<65, 164, 120>>,
               <<65, 12, 7, 8>>, <<65, 5, 60>>, <<127, 1, 18>>} @@
    "audi" :> {<<65, 253, 44, 1>>, <<65, 252, 30, 0>>, <<65, 254, 90>>, <<65, 17, 128>>, <<65, 253, 1>>} @@
    "audi_mlb" :> {Frame(256, 3, 90), Frame(257, 16, 130), Frame(262, 201, 2), Frame(280, 66, 4),
                   Frame(259, 1, 1), Frame(264, 1, 1)} @@
    "tesla_can" :> {Frame(280, 66, 4), Frame(297, 9, 9), Frame(256, 1, 1)} @@
    "tesla" :> {<<170, 85, 5, 50, 44, 1, 246, 20, 109>>, <<170, 85, 5, 9, 1, 0, 3, 0, 17>>,
                <<170, 85, 5, 9, 1, 0, 3, 0, 18>>}
=============================================================================
