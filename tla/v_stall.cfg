SPECIFICATION PollingSpec
CONSTANTS
    reass = reass
    arp = arp
    lwip_cyclic_timers <- MCCyclic
    Tcp = tcp
    Interval <- MCInterval
    Second = 2
    Period = 7
    Word = 16
    Patience = 4
    MaxAway = 6
    MaxInside = 0
PROPERTY TimersRun
