SPECIFICATION Spec
CONSTANTS
    GateTime = 1
    Poll = 2
    FirstPoll = 1
    MaxStart = 2
    MaxLifetime = 2
    Grace = 0
    RetryMax = 2
    EventCap = 2
    SignalCap = 1
    Signals <- MCWindowsStop
    Monitored = TRUE
    OneShot = TRUE
PROPERTIES ContractSpec
