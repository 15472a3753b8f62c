\* One subscriber leaves.
SPECIFICATION Spec
CONSTANTS
    s1 = s1  s2 = s2  s3 = s3
    Subs = {s1, s2, s3}
    StartOf <- Starts
    BatchSize = 1
    MaxRows = 2
    MaxErrors = 0
    MaxDisturbances = 1
CHECK_DEADLOCK FALSE
INVARIANT RemovedAreGone
