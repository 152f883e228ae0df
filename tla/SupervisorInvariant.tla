------------------------- MODULE SupervisorInvariant -------------------------
(***************************************************************************)
(* The inductive invariant behind the safety properties of Supervisor: what*)
(* is true of the child, of the event stream, of the retry counter and of  *)
(* the clocks at each place the task can stand at.                         *)
(***************************************************************************)
EXTENDS Supervisor

\* The consumer believes that the child is up.
ToldUp == last \in {"ChildSpawned", "ChildRespawned"}

\* The event that tells why a child is terminated.
Reason(why) ==
    CASE why = "probe" -> "ProbeTimeout"
      [] why = "lifetime" -> "MaxLifetimeReached"
      [] OTHER -> why

\* The one event e is still to be told, after what holds in before; or it has
\* been told.
Telling(e, before) ==
    \/ outbox = <<e>> /\ before
    \/ outbox = <<>> /\ last = e

\* Where the task stands determines whether there is a child, what is left to
\* tell of it and what was told last.
PlaceInv ==
    /\ pc = "spawn" => child = "none" /\ outbox = <<>> /\ last = "none"
    /\ pc = "arm" =>
         /\ child # "none"
         /\ \/ outbox = <<"ChildSpawned">> /\ last = "none"
            \/ /\ outbox = <<"ChildSpawned", "ChildRespawned">>
               /\ last \in {"ChildExited"} \cup RespawnSignals
            \/ outbox = <<"ChildRespawned">> /\ last = "ChildSpawned"
            \/ outbox = <<>> /\ ToldUp
    /\ pc \in {"check", "select", "probe"} =>
         child # "none" /\ outbox = <<>> /\ ToldUp
    /\ pc = "exited" => Exited /\ Telling("ChildExited", ToldUp)
    /\ pc = "signal" =>
         child # "none" /\ cause \in SignalKind /\ Telling(cause, ToldUp)
    /\ pc = "terminate" =>
         child # "none" /\ cause # "none" /\ Telling(Reason(cause), ToldUp)
    /\ pc = "grace" =>
         child # "none" /\ cause # "none" /\ outbox = <<>> /\ last = Reason(cause)
    /\ pc = "probe_exited" =>
         child = "none" /\ Telling("ChildExited", last = "ProbeTimeout")
    /\ pc = "backoff" => child = "none" /\ outbox = <<>> /\ last = "ChildExited"
    /\ pc = "respawn" =>
         /\ child = "none" /\ outbox = <<>>
         /\ last \in {"ChildExited"} \cup RespawnSignals
    /\ pc = "exhausted" =>
         child = "none" /\ Telling("MaxStartReached", last = "ChildExited")
    /\ pc = "done" => child = "none" /\ outbox = <<>>
    /\ pc = "done" <=> result # "none"

\* The failures counted so far, and the number reported when they are too many.
BudgetInv ==
    /\ MaxStart # Unlimited /\ pc \notin {"exhausted", "done"}
         => retry = 0 \/ retry < MaxStart
    /\ pc = "exhausted" =>
         ~OneShot /\ retry = IF MaxStart = 0 THEN 1 ELSE MaxStart
    /\ result = "maxstart" =>
         attempts = IF OneShot THEN 1 ELSE IF MaxStart = 0 THEN 1 ELSE MaxStart

\* The child has not run for longer than since it was spawned; the lifetime it
\* is judged by lies in between; the backoff ends GateTime after the spawn.
ClockInv ==
    /\ ran <= age
    /\ pc = "exited" => ran <= lifetime /\ lifetime <= age
    /\ pc = "backoff" => age + timer >= GateTime
    /\ pc = "respawn" /\ last = "ChildExited" => age = GateTime

\* What is left of the interval is the child's own; once its first probe has been due
\* it is old enough for all that follow.
ProbeInv ==
    /\ pc \in {"check", "select"} /\ Monitored =>
         age + nextProbe >= Least(FirstPoll, GateTime)
    /\ pc = "probe" => age >= Least(FirstPoll, GateTime)

IInv == TypeOK /\ NoOrphan /\ PlaceInv /\ BudgetInv /\ ClockInv /\ ProbeInv

=============================================================================
