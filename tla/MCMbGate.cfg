CONSTANTS
    b1 = b1  b2 = b2  n1 = n1  n2 = n2
    Blend = {b1, b2}
    Names = {n1, n2}
    Known = {n1}
    Interval = 2
    MaxWait = 2
    MaxFaults = 1
    Low = Low
    Nobody = Nobody
    NoName = NoName
SPECIFICATION FairSpec
INVARIANTS TypeOK WaitingExact PermitExact BlendOvertakenOnce
PROPERTIES BlendServed LowCallEnds
