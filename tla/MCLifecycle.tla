----------------------------- MODULE MCLifecycle -----------------------------
(* Instances of the life cycle small enough for TLC. *)
EXTENDS Lifecycle, TLC

CONSTANTS p1, p2, p3

\* A ring on ports 1 and 2, an echo mode on 2, and a ring on 2, the last port,
\* with no room for its far end.
MCModePorts == p1 :> "ring" @@ p2 :> "echo" @@ p3 :> "ring"
MCPortPorts == p1 :> 1 @@ p2 :> 2 @@ p3 :> 2

\* Two rings on the same ports.
MCModeSame == [p \in Procs |-> "ring"]
MCPortSame == [p \in Procs |-> 1]

=============================================================================
