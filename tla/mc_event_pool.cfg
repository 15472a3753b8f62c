\* One instance with two events that share a single worker, one retry, and two crashes,
\* shutdowns or failed transactions.  One webhook sends Retry-After, one payload cannot
\* be transformed.
SPECIFICATION FairSpec
CONSTANTS
    i1 = i1  i2 = i2  s1 = s1  s2 = s2  t1 = t1  t2 = t2
    e1 = e1  e2 = e2  g1 = g1  g2 = g2
    Instances = {i1}
    Sources   = {s1}
    Triggers  = {t1}
    Events    = {e1, e2}
    Gens      = {g1}
    SourceOf  <- OneTrigger
    TriggerOf <- TwoEvents
    NumRetries = 1
    BatchSize = 1
    HttpPoolSize = 1
    GracefulPolls = 1
    Untransformable = {e2}
    Throttled = {e1}
    TriesCap = 3
    MaxFaults = 2
    MaxOps = 0
    MaxDisturbances = 2
CHECK_DEADLOCK FALSE
INVARIANTS TypeOK CapacityConserved
PROPERTIES ShutdownCompletes 
