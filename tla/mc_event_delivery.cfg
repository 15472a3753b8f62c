\* Two instances compete for one event with one retry: crash, shutdown, failed
\* transactions, redelivery, a dropped trigger and expired locks, interleaved.
SPECIFICATION Spec
CONSTANTS
    i1 = i1  i2 = i2  s1 = s1  s2 = s2  t1 = t1  t2 = t2
    e1 = e1  e2 = e2  g1 = g1  g2 = g2
    Instances = {i1, i2}
    Sources   = {s1}
    Triggers  = {t1}
    Events    = {e1}
    Gens      = {g1}
    SourceOf  <- OneTrigger
    TriggerOf <- OneEvent
    NumRetries = 1
    BatchSize = 1
    HttpPoolSize = 1
    GracefulPolls = 1
    Untransformable = {}
    Throttled = {}
    TriesCap = 3
    MaxFaults = 2
    MaxOps = 2
    MaxDisturbances = 2
SYMMETRY Symmetry
\* Every event settled and no budget left: nothing needs to happen.
CHECK_DEADLOCK FALSE
INVARIANTS ExclusiveUnlessDoubted OutcomesRight RetriesRight
PROPERTY ImplementsQueue
