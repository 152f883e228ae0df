---------------------------- MODULE MCSupervisor ----------------------------
(* Instances of the supervisor loop small enough for TLC. *)
EXTENDS SupervisorInvariant

\* An option that is off, and sets of signals for the configurations.
MCUnlimited == Unlimited
MCAllSignals == {"Terminate", "UserDefined1", "Hangup"}
MCStop == {"Terminate"}
MCWindowsStop == {"Interrupt", "CtrlBreak"}

=============================================================================
