SPECIFICATION Spec
CONSTANTS
    reass = reass
    arp = arp
    lwip_cyclic_timers <- MCCyclic
    Tcp = tcp
    Interval <- MCInterval
    Second = 2
    Period = 7
    Word = 16
    Patience = 4
    MaxAway = 4
    MaxInside = 1
INVARIANTS TypeOK ArmedOnce NotEarly NeverAhead
 
