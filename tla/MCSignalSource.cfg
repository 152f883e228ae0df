SPECIFICATION FairSpec
CONSTANTS
    Kinds = {term, usr1, hup}
    ChannelCap = 1
    RaiseMax = 2
INVARIANTS TypeOK NoLostSignal NoPhantomSignal
PROPERTIES SignalsDelivered
