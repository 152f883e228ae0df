SPECIFICATION Spec
CONSTANTS
    GateTime = 1
    Poll = 2
    FirstPoll = 1
    MaxStart <- MCUnlimited
    MaxLifetime <- MCUnlimited
    Grace = 1
    RetryMax = 2
    EventCap = 2
    SignalCap = 1
    Signals <- MCStop
    Monitored = TRUE
    OneShot = TRUE
PROPERTIES OneShotFailsLoudly
