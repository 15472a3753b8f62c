\* Two instances, two actions and an id of one of them (with the other one defined,
\* rows are fetched also when theirs is dropped), and any three different ones of
\* a crash, a shutdown, a failed transaction and a command.
SPECIFICATION FairSpec
CONSTANTS
    i1 = i1  i2 = i2  a1 = a1  a2 = a2  d1 = d1
    Instances = {i1, i2}
    Actions   = {a1, a2}
    Ids       = {d1}
    ActionOf  <- OneId
    FetchLimit = 1
    GracefulPolls = 1
    MaxCrashes = 1
    MaxShutdowns = 1
    MaxFailures = 1
    MaxOps = 1
    MaxDisturbances = 3
\* Every id settled, nothing left to disturb.
CHECK_DEADLOCK FALSE
INVARIANTS TypeOK ExclusiveUnlessPutBack OneResponseUnlessPutBack 
PROPERTIES  ImplementsResponses
