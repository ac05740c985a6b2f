SPECIFICATION FairSpec
CONSTANTS
    LinkCanFail = TRUE
    MaxQueue = 3
    OnTime = FALSE
INVARIANTS
    TypeOK
    NoLostCharacteristic
    NoForgottenLink
PROPERTIES
    WaitEnds
