SPECIFICATION DrainedSpec
CONSTANTS
    GateTime = 1
    Poll = 1
    FirstPoll = 1
    MaxStart <- MCUnlimited
    MaxLifetime = 3
    Grace = 1
    RetryMax = 2
    EventCap = 2
    SignalCap = 1
    Signals <- MCStop
    Monitored = FALSE
    OneShot = FALSE
PROPERTIES LifetimeEnforced
