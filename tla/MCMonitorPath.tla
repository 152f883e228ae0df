---------------------------- MODULE MCMonitorPath ---------------------------
(* Instances of the monitor's path small enough for TLC. *)
EXTENDS MonitorPath

\* A ring on fixed ports, one on ports of the system's choice, an echo mode.
MCModes ==
    {[port |-> 1, echo |-> NoEcho], [port |-> 0, echo |-> NoEcho], [port |-> 1, echo |-> 2]}

\* The classic -M <port>.
MCRing == {[port |-> 1, echo |-> NoEcho]}

=============================================================================
