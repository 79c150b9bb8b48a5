SPECIFICATION FairSpec
CONSTANTS
    short = short
    long = long
    Images = {short, long}
    Confirming = {short, long}
    Hanging = {short, long}
    Units <- MCUnits
    NSec = 2
    Blank = Blank
    Torn = Torn
    None = None
    Faults = {"midop", "erase", "program", "qspi"}
    MaxMishaps = 2
    Careful = TRUE
INVARIANTS TypeOK GoodCopyExists RestoredExactly RollbackRestoresWorking
PROPERTY HungTrialRecovers
CHECK_DEADLOCK FALSE
