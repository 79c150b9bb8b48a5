SPECIFICATION Spec
CONSTANTS
    short = short
    long = long
    Images = {short, long}
    Confirming = {short, long}
    Hanging = {short, long}
    Units <- MCUnits
    NSec = 2
    Blank = Blank
    Torn = Torn
    None = None
    Faults = {"midop", "qspi"}
    MaxMishaps = 2
    Careful = FALSE
INVARIANTS PendingMeansComplete TrialGuarded ConfirmedWorks LabelsDescribeFlash
CHECK_DEADLOCK FALSE
