SPECIFICATION Spec
CONSTANTS
    Instances = {i1, i2}
    Requests = {r1, r2}
    MaxFaults = 2
INVARIANTS
    TypeOK
    
    CachesRight

    
    
