\* Three subscribers of one poller, two from the beginning and one ahead of them, two rows,
\* and up to two subscribers that leave or queries that fail (one at most).
SPECIFICATION FairSpec
CONSTANTS
    s1 = s1  s2 = s2  s3 = s3
    Subs = {s1, s2, s3}
    StartOf <- Starts
    BatchSize = 1
    MaxRows = 2
    MaxErrors = 1
    MaxDisturbances = 2
CHECK_DEADLOCK FALSE
INVARIANTS TypeOK InOrderUnlessSplit LocatedUnlessMergedOrMoving
PROPERTIES NeverComesBack EveryRowArrives
