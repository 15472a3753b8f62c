\* A cron event and a one-off event whose webhook may send Retry-After, on one instance,
\* and two crashes, shutdowns, failed transactions or commands.
SPECIFICATION FairSpec
CONSTANTS
    i1 = i1  i2 = i2  t1 = t1  e1 = e1  e2 = e2
    Instances = {i1}
    Triggers = {t1}
    OneOffs = {e1, e2}
    Gens = {1}
    MaxTime = 1
    Upcoming = 1
    NumRetries = 1
    GracefulPolls = 1
    Unresolvable = {}
    Untransformable = {e2}
    Throttled = {e1}
    TriesCap = 2
    MaxFaults = 2
\* Every event final and no budget left: nothing needs to happen.
CHECK_DEADLOCK FALSE
PROPERTY EveryEventSettles
