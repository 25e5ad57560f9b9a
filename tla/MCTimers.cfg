\* Two slots, two clients, deadlines that fall together and apart.
CONSTANTS
    Clients = {c1, c2}
    NoClient = NoClient
    Limit = 2
    Delays = {0, 2}
    Forgets = TRUE
    MaxTime = 2
    Horizon = 4
CHECK_DEADLOCK FALSE
SPECIFICATION FairSpec
INVARIANTS PoolPartition HandlesOwned SleepsUntilNearest NeverEarly
PROPERTIES FiredInDeadlineOrder PeriodKept ArmedEventuallyFires
