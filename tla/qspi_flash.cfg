SPECIFICATION Spec
CONSTANTS
    Blocks = 2
    Cells = 3
    BlockOf <- MCBlockOf
    Attempts = 2
    EraseReset = 2
    WriteReset = 2
INVARIANTS TypeOK StagedIsWhole BackupIsWhole 
PROPERTY JobEnds
