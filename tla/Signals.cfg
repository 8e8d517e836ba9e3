SPECIFICATION FairSpec
CONSTANTS
    Dose = 3
    MaxBallast = 2
    MaxDebt = 1
    MaxRuns = 2
    SplitRMW = TRUE
    Clients = {"poll", "wait"}
INVARIANTS
    TypeOK
    DebtIsRequested
PROPERTIES
    DoSignalsObeysMask
    HaltDroppedOnlyByRace
    HaltAnswered
    CollectionHappens
