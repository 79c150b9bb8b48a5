SPECIFICATION Spec
CONSTANTS
    short = short
    long = long
    Images = {short, long}
    Confirming = {short, long}
    Hanging = {short, long}
    Units <- MCUnits
    NSec = 2
    Blank = Blank
    Torn = Torn
    None = None
    Faults = {"midop"}
    MaxMishaps = 1
    Careful = TRUE
INVARIANT IncompleteGuarded
CHECK_DEADLOCK FALSE
