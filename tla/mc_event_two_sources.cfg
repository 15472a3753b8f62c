\* Two sources with one event each, no retries and no faults: the map of locked
\* events loses the events of the first source.
SPECIFICATION Spec
CONSTANTS
    i1 = i1  i2 = i2  s1 = s1  s2 = s2  t1 = t1  t2 = t2
    e1 = e1  e2 = e2  g1 = g1  g2 = g2
    Instances = {i1}
    Sources   = {s1, s2}
    Triggers  = {t1, t2}
    Events    = {e1, e2}
    Gens      = {g1}
    SourceOf  <- TwoTriggers
    TriggerOf <- EventEach
    NumRetries = 0
    BatchSize = 1
    HttpPoolSize = 1
    GracefulPolls = 1
    Untransformable = {}
    Throttled = {}
    TriesCap = 3
    MaxFaults = 0
    MaxOps = 0
    MaxDisturbances = 0
CHECK_DEADLOCK FALSE
INVARIANT InFlightEventsTracked
