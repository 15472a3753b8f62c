\* Two connections that use the same operation id, an action whose log changes twice.
SPECIFICATION FairSpec
CONSTANTS
    Conns = {c1, c2}
    OpIds = {o1}
    Subs <- MCSubs
    None = None
    MaxLevel = 2
    MaxDisturbances = 1
    MaxStarts = 2
INVARIANTS TypeOK OwnedUnlessMeddled
PROPERTIES DrainedAfterShutdown 
CHECK_DEADLOCK FALSE
