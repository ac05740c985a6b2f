CONSTANTS
    MaxFrameHistory = 2
    Lines <- MCLines
    MaxLines = 2
    MaxAnswers = 3
    Cuts = {5, 20}
    CommandLines <- MCCommandLines
    NoDataWarning = 1
    Quiet = 4
SPECIFICATION Spec
CHECK_DEADLOCK FALSE
INVARIANTS TypeOK DeliveredAsPrinted
PROPERTIES DetectionStable WarnsOnSilence Ends
