SPECIFICATION Spec
CONSTANTS
    short = short
    long = long
    Images = {short, long}
    Confirming = {short, long}
    Hanging = {short, long}
    Units <- MCUnits
    NSec = 2
    Blank = Blank
    Torn = Torn
    None = None
    Faults = {}
    MaxMishaps = 0
    Careful = FALSE
INVARIANT RollbackRestoresWorking
CHECK_DEADLOCK FALSE
