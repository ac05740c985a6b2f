------------------------------- MODULE MCProgram -------------------------------
EXTENDS Program

Line(text, means, phase) == [text |-> text, means |-> means, phase |-> phase]

MCLines == {
    Line("ELM327 V1.5\r\r>", <<>>, "init"),
    Line("OK\r>", <<>>, "init"),
    Line("118 00 11 22 33 44 55 66 77\r", <<24, 1, 0, 17, 34, 51, 68, 85, 102, 119>>, "CAN"),
    Line("603 100 01 02 03 04 05 06 07 08\r", <<0, 1, 1, 2, 3, 4, 5, 6, 7, 8>>, "CAN"),
    Line("SEARCHING...\r410D50\r\r>", <<65, 13, 80>>, "OBD2"),
    Line("41 11 80 \r\r>", <<65, 17, 128>>, "OBD2"),
    Line("NO DATA\r\r>", <<>>, "OBD2"),
    Line("014: 49 02 01 35 59 4A 33 53\r", <<73, 2, 1, 53, 89, 74, 51, 83>>, "VIN"),
    Line("015: 4C 32 44 00 58 4D 48\r", <<76, 50, 68, 0, 88, 77, 72>>, "VIN"),
    Line("41 51 08\r\r>", <<65, 81, 8>>, "VIN") }

Plain == [help |-> FALSE, list |-> FALSE, scan |-> FALSE, simulate |-> FALSE,
          connect |-> FALSE, vehicle |-> "", client |-> "cli"]

MCCommandLines == {
    Plain, [Plain EXCEPT !.help = TRUE], [Plain EXCEPT !.list = TRUE],
    [Plain EXCEPT !.scan = TRUE], [Plain EXCEPT !.simulate = TRUE, !.vehicle = "audi_mlb_evo"],
    [Plain EXCEPT !.connect = TRUE], [Plain EXCEPT !.connect = TRUE, !.vehicle = "other"],
    [Plain EXCEPT !.connect = TRUE, !.vehicle = "tesla_model3"],
    [Plain EXCEPT !.connect = TRUE, !.vehicle = "generic"],
    [Plain EXCEPT !.connect = TRUE, !.vehicle = "generic", !.client = "detect"] }
=============================================================================
