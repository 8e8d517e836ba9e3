SPECIFICATION Spec
CONSTANTS
    Dose = 3
    MaxBallast = 2
    MaxDebt = 1
    MaxRuns = 2
    SplitRMW = FALSE
    Clients = {"wait"}
INVARIANT
    HaltOnlyWhenInterruptible
