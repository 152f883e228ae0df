------------------------ MODULE MCSignalledSupervisor ------------------------
(* An instance of the supervisor with its signals small enough for TLC. *)
EXTENDS SignalledSupervisor

MCUnlimited == Unlimited
MCSignals == {"Terminate", "UserDefined1"}

=============================================================================
