\* Two subscribers of one cohort and one of another cohort of the same poller, a new
\* poller object beside one that is being stopped, and one of each disturbance.
SPECIFICATION FairSpec
CONSTANTS
    s1 = s1  s2 = s2  s3 = s3  k1 = k1  c1 = c1  c2 = c2
    Subs = {s1, s2, s3}
    PollerKeys = {k1}
    CohortKeys = {c1, c2}
    PollerOf <- OnePoller
    CohortOf <- TwoCohorts
    Pollers = {p1, p2}
    Nobody = Nobody
    Values = {v1, v2}
    MaxChanges = 1
    MaxErrors = 1
    MaxDeaths = 1
    MaxDisturbances = 2
\* Everybody gone: the system rests.
CHECK_DEADLOCK FALSE
INVARIANTS TypeOK NothingOutlived
PROPERTIES EverySubscriberCurrent ImplementsRegistry
