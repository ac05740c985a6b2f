CONSTANTS
    c1 = c1
    c2 = c2
    Callers = {c1, c2}
    Vehicles = {"tesla_model3", "audi_mlb_evo", "generic"}
    Registry <- MCRegistry
    Contents <- MCContents
    Raw <- MCRaw
    MaxFed = 3
    MaxLoads = 2
SPECIFICATION Spec
CHECK_DEADLOCK FALSE
INVARIANTS TypeOK ReportsAgree
PROPERTY LatestWins
