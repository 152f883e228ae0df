SPECIFICATION DrainedSpec
CONSTANTS
    GateTime = 2
    Poll = 3
    FirstPoll = 1
    MaxStart = 2
    MaxLifetime = 4
    Grace = 1
    RetryMax = 3
    EventCap = 1
    SignalCap = 1
    Signals <- MCAllSignals
    Monitored = TRUE
    OneShot = FALSE
INVARIANTS TypeOK NoOrphan ChildToWaitFor RetryBudget IInv
PROPERTIES RetryDiscipline ProbeNotEarly LastWord NeverSpins SpawnSpacing ContractSpec ChildReplaced ProbesGoOn LifetimeEnforced StopTakesEffect
