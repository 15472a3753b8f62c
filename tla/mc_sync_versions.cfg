SPECIFICATION FairSpec
CONSTANTS
    Instances = {i1, i2}
    Requests = {r1, r2}
    MaxFaults = 0
PROPERTIES
    VersionsConverge
