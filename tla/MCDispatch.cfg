SPECIFICATION Spec
CONSTANTS
    Order <- MCOrder
    Target <- MCTarget
    Period <- MCPeriod
    Timer = Timer
    Manual = Manual
    Day = 6
    Interval = 2
    Slack = 2
    Zone = 1
    Limit = 1
INVARIANTS
    EveryInTime
PROPERTIES
    AtOncePerDay
    EverySpaced
    AtRunsDaily
    LimitStops
