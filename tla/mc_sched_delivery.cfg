\* Two instances generate and deliver the events of a cron trigger, with one retry, and
\* one crash, shutdown, failed transaction, command or one-off event.
SPECIFICATION Spec
CONSTANTS
    i1 = i1  i2 = i2  t1 = t1  e1 = e1  e2 = e2
    Instances = {i1, i2}
    Triggers = {t1}
    OneOffs = {e1}
    Gens = {1, 2}
    MaxTime = 1
    Upcoming = 1
    NumRetries = 1
    GracefulPolls = 1
    Unresolvable = {}
    Untransformable = {}
    Throttled = {e1}
    TriesCap = 2
    MaxFaults = 1
SYMMETRY Symmetry
\* Every event final and no budget left: nothing needs to happen.
CHECK_DEADLOCK FALSE
INVARIANTS TypeOK ExclusiveUnlessDoubted TriesBounded
           OneEventUnlessOverdue
PROPERTIES FinalUnlessDoubted ImplementsQueue
