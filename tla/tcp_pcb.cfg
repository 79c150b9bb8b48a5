SPECIFICATION Spec
CONSTANTS
    Pcbs = {p1, p2}
    None = None
    SynMaxRtx = 1
    MaxRtx = 1
    FinWait = 1
    TwoMsl = 1
INVARIANTS TypeOK AllocSucceeds HandleIsLive TimerRuns
PROPERTIES ImplementsContract BlocksComeBack
