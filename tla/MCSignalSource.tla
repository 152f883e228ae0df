--------------------------- MODULE MCSignalSource ---------------------------
(* An instance of the signal source small enough for TLC. *)
EXTENDS SignalSource

=============================================================================
