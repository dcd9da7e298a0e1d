SPECIFICATION FairSpec
CONSTANTS
    Coordinators = {c1, c2}
    Nobody = Nobody
    Dead = Dead
    Ttl = 1
    Base = 1
    MaxDelay = 1
    MaxFailures = 2
    MaxLag = 2
    MaxCrashes = 1
INVARIANTS TypeOK LeaseExcludes
PROPERTIES LeaseIsKept TaskKeepsRunning
