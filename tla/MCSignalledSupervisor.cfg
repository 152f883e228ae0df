\* -f -M 0: no gate, no backoff, no probes.
SPECIFICATION FairJointSpec
CONSTANTS
    GateTime = 0
    Poll = 1
    FirstPoll = 1
    MaxStart = 1
    MaxLifetime <- MCUnlimited
    Grace = 1
    RetryMax = 2
    EventCap = 1
    SignalCap = 1
    Signals <- MCSignals
    Monitored = FALSE
    OneShot = FALSE
    RaiseMax = 2
INVARIANTS UngatedNeverGivesUp
PROPERTIES OneHandlingPerRaise StopHonoured
