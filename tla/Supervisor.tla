----------------------------- MODULE Supervisor -----------------------------
(***************************************************************************)
(* The supervisor loop of rusty-autossh (src/src/supervisor.rs): one task  *)
(* that keeps one ssh child alive, and every await point at which the rest *)
(* of the world can move while the task waits.                             *)
(*                                                                         *)
(* Control.  pc names the await point (or the straight-line block between  *)
(* two of them) the task stands at.  The events a handler still has to     *)
(* send before it goes on are in outbox: sending to the consumer's bounded *)
(* channel is an await of its own, and blocks while the channel is full.   *)
(*                                                                         *)
(* Time.  Tick advances every clock by one unit, and only while the task   *)
(* waits (Waiting): a ready task runs within microseconds, the timers of   *)
(* the program count seconds.  Each clock saturates at the one threshold   *)
(* it is compared with, so the state space is finite.                      *)
(*                                                                         *)
(* Environment.  The child exits when it likes, with success or failure;   *)
(* signals arrive when they like; a probe is answered, refused or left to  *)
(* time out; spawning fails or not; the consumer drains events, stops      *)
(* draining them, or drops its receiver.                                   *)
(***************************************************************************)
EXTENDS Integers, Sequences

CONSTANTS
    GateTime,     \* clock.gate_time: backoff, and the lifetime of a good run
    Poll,         \* clock.poll: interval and timeout of a probe
    FirstPoll,    \* clock.first_poll: delay of the first probe of a child
    MaxStart,     \* clock.max_start, or Unlimited
    MaxLifetime,  \* clock.max_lifetime, or Unlimited
    Grace,        \* SIGTERM to SIGKILL; 0 is the Windows TerminateProcess
    RetryMax,     \* u32::MAX, where saturating_add stops
    EventCap,     \* capacity of the consumer's event channel
    SignalCap,    \* capacity of the signal channel
    Signals,      \* the kinds of signal that can arrive
    Monitored,    \* MonitorMode::Active: a ProbeLoop is bound
    OneShot       \* the -1 flag

Unlimited == -1

\* Signals that end the supervisor, and signals that replace its child.
StopSignals == {"Terminate", "Interrupt", "CtrlBreak"}
RespawnSignals == {"UserDefined1", "Hangup"}
SignalKind == StopSignals \cup RespawnSignals

ASSUME ConstantsAssumption ==
    /\ GateTime \in Nat
    /\ Poll \in Nat
    /\ FirstPoll \in Nat
    /\ Grace \in Nat
    /\ MaxStart \in Nat \cup {Unlimited}
    /\ MaxLifetime \in Nat \cup {Unlimited}
    /\ RetryMax \in Nat \ {0}
    /\ MaxStart <= RetryMax
    /\ EventCap \in Nat \ {0}
    /\ SignalCap \in Nat \ {0}
    /\ Signals \subseteq SignalKind
    /\ Monitored \in BOOLEAN
    /\ OneShot \in BOOLEAN

\* SupervisorEvent; the kind of a signal stands for SignalReceived(kind).
Event == {"ChildSpawned", "ChildExited", "ChildRespawned", "ProbeTimeout",
          "MaxStartReached", "MaxLifetimeReached"} \cup SignalKind

\* Why the child is being terminated.
Cause == {"none", "lifetime", "probe"} \cup SignalKind

Label == {"spawn", "arm", "check", "select", "probe", "exited", "signal",
          "terminate", "grace", "probe_exited", "backoff", "respawn",
          "exhausted", "done"}

VARIABLES
    pc,         \* where the task stands
    cause,      \* what the termination in progress is for
    child,      \* the ssh process behind self.child
    retry,      \* self.retry_count
    age,        \* child_spawn_instant.elapsed(), up to GateTime
    lifetime,   \* the lifetime select_one_tick returned with ChildExited
    up,         \* lifetime_start.elapsed(), up to MaxLifetime
    timer,      \* what is left of the timeout or sleep being awaited
    nextProbe,  \* time left until next_probe_at, or Off
    outbox,     \* events the current handler has yet to send
    queued,     \* events in the consumer's channel
    consumer,   \* listening: event_tx is set and its receiver is alive
    signalq,    \* the signal channel
    result,     \* what run() returned
    attempts    \* the attempts of Err(MaxStartReached)

\* History variables: they record what happened and guard no action.
VARIABLES
    ran,        \* how long the latest child ran before it died, up to GateTime
    last,       \* the latest event sent
    orphans     \* 1 once an ssh process was let go of while it was running

controlVars == <<pc, cause, outbox, result, attempts>>
childVars == <<child, age, ran, orphans>>
clockVars == <<up, timer, nextProbe, lifetime>>
channelVars == <<queued, consumer, last, signalq>>
vars == <<controlVars, childVars, clockVars, channelVars, retry>>

-----------------------------------------------------------------------------
Off == -1

Least(m, n) == IF m <= n THEN m ELSE n
Less1(n) == IF n > 0 THEN n - 1 ELSE n
Horizon == IF MaxLifetime = Unlimited THEN 0 ELSE MaxLifetime

Alive == child = "running"
Exited == child \in {"ok", "fail"}
At(label) == pc = label /\ outbox = <<>>

\* The consumer's channel has room, or nobody is listening; and the mistake of
\* taking the channel to be unbounded.
UnboundedRoom == TRUE
HasRoom == consumer = "absent" \/ queued < EventCap

\* The timers of the probe and of the grace run out; and the mistakes of a probe
\* without a timeout and of a grace without a SIGKILL.
Never == FALSE
ProbeTimedOut == timer = 0
GraceOver == timer = 0

ProbeDue == Monitored /\ nextProbe = 0
Deadline == MaxLifetime # Unlimited /\ up >= MaxLifetime

\* The task is parked: nothing it awaits has happened yet.
Waiting ==
    \/ outbox # <<>> /\ ~HasRoom
    \/ At("select") /\ Alive /\ ~ProbeDue /\ signalq = <<>>
    \/ At("probe") /\ timer > 0
    \/ At("grace") /\ Alive /\ timer > 0
    \/ At("backoff") /\ timer > 0

-----------------------------------------------------------------------------
Init ==
    /\ pc = "spawn" /\ cause = "none" /\ outbox = <<>>
    /\ result = "none" /\ attempts = 0
    /\ child = "none" /\ age = 0 /\ ran = 0 /\ orphans = 0
    /\ up = 0 /\ timer = 0 /\ nextProbe = Off /\ lifetime = 0
    /\ queued = 0 /\ consumer \in {"listening", "absent"} /\ last = "none" /\ signalq = <<>>
    /\ retry = 0

\* The task goes on to label once it has sent events.
Move(label, events, why) ==
    /\ pc' = label
    /\ outbox' = events
    /\ cause' = why
    /\ UNCHANGED <<result, attempts>>

Return(outcome, n) ==
    /\ pc' = "done"
    /\ outbox' = <<>>
    /\ cause' = "none"
    /\ result' = outcome
    /\ attempts' = n

\* The Supervisor is dropped, with the handle of whatever child it still holds;
\* a child is not killed on drop.
DropChild ==
    /\ child' = "none"
    /\ orphans' = IF Alive THEN 1 ELSE orphans
    /\ UNCHANGED <<age, ran>>

\* emit(): one send waits for room and ignores an absent or closed receiver.
Emit ==
    /\ outbox # <<>>
    /\ HasRoom
    /\ outbox' = Tail(outbox)
    /\ last' = Head(outbox)
    /\ queued' = IF consumer = "listening" THEN queued + 1 ELSE queued
    /\ UNCHANGED <<pc, cause, result, attempts, consumer, signalq, retry,
                   childVars, clockVars>>

-----------------------------------------------------------------------------
(* Spawning *)

\* spawn_child: the new handle replaces the old one, whose process would go on.
SpawnChild(events) ==
    /\ child' = "running"
    /\ age' = 0
    /\ ran' = 0
    /\ orphans' = IF Alive THEN 1 ELSE orphans
    /\ Move("arm", events, "none")
    /\ UNCHANGED <<clockVars, channelVars, retry>>

FirstSpawn == At("spawn") /\ SpawnChild(<<"ChildSpawned">>)

\* After the backoff or for a signal.
Respawn == At("respawn") /\ SpawnChild(<<"ChildSpawned", "ChildRespawned">>)

SpawnFails ==
    /\ At("spawn") \/ At("respawn")
    /\ Return("io", 0)
    /\ DropChild
    /\ UNCHANGED <<clockVars, channelVars, retry>>

\* next_probe_at for a new child; and the mistakes of not setting it, and of setting it
\* for the first child only.
KeptProbe == nextProbe
ArmedOnce == IF Monitored /\ nextProbe = Off THEN FirstPoll ELSE nextProbe
FirstProbe == IF Monitored THEN FirstPoll ELSE Off

ArmProbe ==
    /\ At("arm")
    /\ nextProbe' = FirstProbe
    /\ Move("check", <<>>, cause)
    /\ UNCHANGED <<up, timer, lifetime, childVars, channelVars, retry>>

-----------------------------------------------------------------------------
(* The top of the loop, and the biased select *)

LifetimeReached ==
    /\ At("check")
    /\ Deadline
    /\ Move("terminate", <<"MaxLifetimeReached">>, "lifetime")
    /\ UNCHANGED <<childVars, clockVars, channelVars, retry>>

EnterSelect ==
    /\ At("check")
    /\ ~Deadline
    /\ Move("select", <<>>, cause)
    /\ UNCHANGED <<childVars, clockVars, channelVars, retry>>

\* What the consumer is told of a natural exit; and the mistake of not telling.
NothingTold == <<>>
ExitTold == <<"ChildExited">>

\* First branch.
SelectChild ==
    /\ At("select")
    /\ Exited
    /\ lifetime' = age
    /\ Move("exited", ExitTold, cause)
    /\ UNCHANGED <<up, timer, nextProbe, childVars, channelVars, retry>>

\* Second branch: the probe is awaited in the branch body, where neither the
\* child nor the signals are looked at.
SelectProbe ==
    /\ At("select")
    /\ Alive
    /\ ProbeDue
    /\ timer' = Poll
    /\ Move("probe", <<>>, cause)
    /\ UNCHANGED <<up, nextProbe, lifetime, childVars, channelVars, retry>>

\* What is left in the channel; and the mistake of not taking what is received.
Unread == signalq
Received == Tail(signalq)

\* Third branch.
SelectSignal ==
    /\ At("select")
    /\ Alive
    /\ ~ProbeDue
    /\ signalq # <<>>
    /\ signalq' = Received
    /\ Move("signal", <<Head(signalq)>>, Head(signalq))
    /\ UNCHANGED <<queued, consumer, last, childVars, clockVars, retry>>

\* recv() yields None: every sender of the signal channel is gone, which reads as
\* a Terminate.
SendersGone ==
    /\ At("select")
    /\ Alive
    /\ ~ProbeDue
    /\ signalq = <<>>
    /\ Move("signal", <<"Terminate">>, "Terminate")
    /\ UNCHANGED <<childVars, clockVars, channelVars, retry>>

-----------------------------------------------------------------------------
(* Probing *)

ProbeEnds(label, events, why) ==
    /\ At("probe")
    /\ nextProbe' = Poll
    /\ timer' = 0
    /\ Move(label, events, why)
    /\ UNCHANGED <<up, lifetime, childVars, channelVars, retry>>

ProbeOk == ProbeEnds("check", <<>>, cause)

\* ProbeError::Io, at any moment, and ProbeError::Timeout.
ProbeIoError == timer > 0 /\ ProbeEnds("terminate", <<"ProbeTimeout">>, "probe")
ProbeElapsed == ProbeTimedOut /\ ProbeEnds("terminate", <<"ProbeTimeout">>, "probe")

-----------------------------------------------------------------------------
(* Signals, and terminate_child *)

\* Where a handler goes first; and the mistake of not terminating the child.
RespawnAtOnce == "respawn"
TerminateFirst == "terminate"

HandleSignal ==
    /\ At("signal")
    /\ retry' = IF cause = "Hangup" THEN 0 ELSE retry
    /\ Move(TerminateFirst, <<>>, cause)
    /\ UNCHANGED <<childVars, clockVars, channelVars>>

SendSigterm ==
    /\ At("terminate")
    /\ timer' = Grace
    /\ Move("grace", <<>>, cause)
    /\ UNCHANGED <<up, nextProbe, lifetime, childVars, channelVars, retry>>

\* The child went by itself, or its grace is over and it is killed.
Reap ==
    /\ At("grace")
    /\ Exited \/ GraceOver
    /\ child' = "none"
    /\ timer' = 0
    /\ UNCHANGED <<age, ran, orphans, up, nextProbe, lifetime, channelVars, retry>>

ReapForProbe == cause = "probe" /\ Reap /\ Move("probe_exited", <<"ChildExited">>, "none")

\* Where SIGUSR1 and SIGHUP go next; and the mistake of not spawning.
NoSpawn == "arm"
SpawnNext == "respawn"

ReapForRespawn == cause \in RespawnSignals /\ Reap /\ Move(SpawnNext, <<>>, "none")

ReapAndReturn == cause \in StopSignals \cup {"lifetime"} /\ Reap /\ Return("ok", 0)

-----------------------------------------------------------------------------
(* The respawn decision: handle_child_exit *)

\* The counter after a failure; and the mistake of not consulting the gate.
UngatedCount(life) == Least(retry + 1, RetryMax)
Count(life) == IF life >= GateTime THEN 0 ELSE Least(retry + 1, RetryMax)

RetryAfter(status, life) ==
    IF status = "fail" THEN IF OneShot THEN retry ELSE Count(life)
                       ELSE IF Monitored THEN 0 ELSE retry

\* The cap; and the mistake of allowing one retry too many.
OverCap(n) == n > MaxStart
AtCap(n) == n >= MaxStart

CapReached(status, life) ==
    /\ status = "fail" /\ ~OneShot
    /\ life < GateTime
    /\ MaxStart # Unlimited
    /\ AtCap(RetryAfter(status, life))

\* How long to sleep before the respawn; and the mistake of not sleeping.
NoBackoff == 0
Backoff == GateTime

\* RespawnDecision::Respawn and Exit(MaxStartReached), in the arms that run()
\* repeats for its two ways of losing a child.
Decide(status, life) ==
    /\ retry' = RetryAfter(status, life)
    /\ lifetime' = 0
    /\ DropChild
    /\ UNCHANGED <<up, nextProbe, channelVars>>

StartBackoff(status, life) ==
    /\ IF status = "fail" THEN ~OneShot /\ ~CapReached(status, life) ELSE Monitored
    /\ timer' = Backoff
    /\ Move("backoff", <<>>, cause)
    /\ Decide(status, life)

GiveUp(status, life) ==
    /\ CapReached(status, life)
    /\ Move("exhausted", <<"MaxStartReached">>, cause)
    /\ UNCHANGED timer
    /\ Decide(status, life)

\* The child was seen to exit by itself.
NaturalRespawn == At("exited") /\ StartBackoff(child, lifetime)
NaturalGiveUp == At("exited") /\ GiveUp(child, lifetime)

\* The attempts a one-shot failure reports, which does not touch the counter.
OneShotAttempts == 1

\* Exit(Ok) and Exit(OneShotFailed): run() returns with its child, after a clean exit if
\* there is no monitor, after a failure under -1.
NaturalEnd ==
    /\ At("exited")
    /\ Exited
    /\ IF child = "ok" THEN ~Monitored /\ Return("ok", 0)
                       ELSE OneShot /\ Return("maxstart", OneShotAttempts)
    /\ UNCHANGED timer
    /\ Decide(child, lifetime)

\* The child was terminated for a failed probe: always judged a failure, with
\* the time since its spawn, the grace included, as its lifetime.
ProbeRespawn == At("probe_exited") /\ StartBackoff("fail", age)
ProbeGiveUp == At("probe_exited") /\ GiveUp("fail", age)

\* The arm Exit(_) => return Ok(()).
ProbeOneShot ==
    /\ At("probe_exited")
    /\ OneShot
    /\ Return("ok", 0)
    /\ UNCHANGED timer
    /\ Decide("fail", age)

Exhausted ==
    /\ At("exhausted")
    /\ Return("maxstart", retry)
    /\ DropChild
    /\ UNCHANGED <<clockVars, channelVars, retry>>

BackoffOver ==
    /\ At("backoff")
    /\ timer = 0
    /\ Move("respawn", <<>>, cause)
    /\ UNCHANGED <<childVars, clockVars, channelVars, retry>>

-----------------------------------------------------------------------------
(* The environment *)

ChildExits ==
    /\ Alive
    /\ child' \in {"ok", "fail"}
    /\ UNCHANGED <<age, ran, orphans, controlVars, clockVars, channelVars, retry>>

SignalArrives(k) ==
    /\ pc # "done"
    /\ Len(signalq) < SignalCap
    /\ signalq' = Append(signalq, k)
    /\ UNCHANGED <<queued, consumer, last, controlVars, childVars, clockVars, retry>>

Drain ==
    /\ consumer = "listening" /\ queued > 0
    /\ queued' = queued - 1
    /\ UNCHANGED <<consumer, last, signalq, controlVars, childVars, clockVars, retry>>

DropReceiver ==
    /\ consumer = "listening"
    /\ consumer' = "absent"
    /\ queued' = 0
    /\ UNCHANGED <<last, signalq, controlVars, childVars, clockVars, retry>>

Tick ==
    /\ Waiting
    /\ age' = Least(age + 1, GateTime)
    /\ ran' = IF Alive THEN Least(ran + 1, GateTime) ELSE ran
    /\ up' = Least(up + 1, Horizon)
    /\ timer' = Less1(timer)
    /\ nextProbe' = Less1(nextProbe)
    /\ UNCHANGED <<lifetime, child, orphans, controlVars, channelVars, retry>>

\* run() has returned.
Finished == pc = "done" /\ UNCHANGED vars

-----------------------------------------------------------------------------
\* Steps the task takes by itself, as soon as it is polled.
Step ==
    \/ Emit
    \/ FirstSpawn \/ Respawn \/ SpawnFails \/ ArmProbe
    \/ LifetimeReached \/ EnterSelect
    \/ SelectChild \/ SelectProbe \/ SelectSignal
    \/ ProbeElapsed
    \/ HandleSignal
    \/ SendSigterm \/ ReapForProbe \/ ReapForRespawn \/ ReapAndReturn
    \/ NaturalRespawn \/ NaturalGiveUp \/ NaturalEnd
    \/ ProbeRespawn \/ ProbeGiveUp \/ ProbeOneShot
    \/ Exhausted \/ BackoffOver

Environment ==
    \/ ProbeOk \/ ProbeIoError
    \/ ChildExits
    \/ SendersGone
    \/ \E k \in Signals : SignalArrives(k)
    \/ Drain \/ DropReceiver

Next == Step \/ Environment \/ Tick \/ Finished

Spec == Init /\ [][Next]_vars

-----------------------------------------------------------------------------
(* Type correctness *)

TypeOK ==
    /\ pc \in Label
    /\ cause \in Cause
    /\ child \in {"none", "running", "ok", "fail"}
    /\ retry \in 0..RetryMax
    /\ age \in 0..GateTime
    /\ lifetime \in 0..GateTime
    /\ up \in 0..Horizon
    /\ timer \in Nat
    /\ nextProbe \in Nat \cup {Off}
    /\ outbox \in Seq(Event)
    /\ queued \in 0..EventCap
    /\ consumer \in {"listening", "absent"}
    /\ signalq \in Seq(SignalKind)
    /\ Len(signalq) <= SignalCap
    /\ result \in {"none", "ok", "maxstart", "io"}
    /\ attempts \in 0..RetryMax
    /\ ran \in 0..GateTime
    /\ last \in Event \cup {"none"}
    /\ orphans \in {0, 1}

-----------------------------------------------------------------------------
(* Safety *)

\* The single-child invariant: no path overwrites the handle of a running ssh,
\* and none returns from run() while its ssh runs.
NoOrphan == orphans = 0

\* select_one_tick and terminate_child always find a child in the handle, so
\* Internal("supervisor entered select with no live child") and the None that
\* makes the probe-timeout arm loop again are never returned.
ChildToWaitFor == pc \in {"select", "probe", "terminate", "grace"} => child # "none"

\* With -f the gate is 0: no failure counts, and the supervisor never gives up,
\* whatever MaxStart says.
UngatedNeverGivesUp == GateTime = 0 /\ ~OneShot => retry = 0 /\ result # "maxstart"

\* The retry budget: while the supervisor goes on, fewer than MaxStart failures
\* are on the counter, and it gives up exactly at the cap, with the attempts the
\* error and the event report.  A one-shot supervisor gives up at the first.
RetryBudget ==
    /\ MaxStart # Unlimited /\ pc \notin {"exhausted", "done"}
          => retry = 0 \/ retry < MaxStart
    /\ result = "maxstart"
          => attempts = IF OneShot THEN 1 ELSE IF MaxStart = 0 THEN 1 ELSE MaxStart

\* handle_child_exit and handle_hup_signal are the only writers of the counter:
\* it goes up by one for a dead child that really ran for less than GateTime,
\* and it goes down, to zero, only for SIGHUP, a clean exit or a child that was
\* spawned GateTime ago.  SIGUSR1 leaves it alone.
RetryDiscipline ==
    [][ retry' # retry =>
          \/ retry' = retry + 1 /\ ~Alive /\ ran < GateTime
          \/ retry' = 0 /\ (cause = "Hangup" \/ child = "ok" \/ age = GateTime) ]_vars

\* The backoff: unless a signal asks for it, a child is not respawned sooner
\* than GateTime after the previous spawn.
SpawnSpacing ==
    [][ pc = "respawn" /\ child' = "running" /\ last = "ChildExited"
          => age = GateTime ]_vars

\* next_probe_at is the child's own: whatever was left of the interval of the child
\* before it, of a grace and of a backoff, no child is probed sooner than FirstPoll after
\* its spawn (as far as age tells, up to GateTime).
ProbeNotEarly ==
    [][ pc = "select" /\ pc' = "probe" => age >= Least(FirstPoll, GateTime) ]_vars

\* How far the task is from a place where it has to wait for a child, a signal,
\* the answer to a probe or time: more for a child that is dead, or that will be.
Ending == cause \in StopSignals \cup {"lifetime"}
Distance ==
    CASE pc = "done" -> 0
      [] pc = "exhausted" -> 1
      [] pc = "grace" -> IF Ending \/ (Alive /\ timer > 0) THEN 1 ELSE 10
      [] pc = "terminate" -> IF Ending \/ (Alive /\ Grace > 0) THEN 2 ELSE 11
      [] pc = "probe" -> IF timer > 0 \/ (Alive /\ Grace > 0) THEN 3 ELSE 12
      [] pc = "select" -> IF Alive THEN 4 ELSE 10
      [] pc = "check" -> IF Alive THEN 5 ELSE 11
      [] pc = "arm" -> IF Alive THEN 6 ELSE 12
      [] pc \in {"spawn", "respawn"} -> 7
      [] pc = "backoff" -> 8
      [] pc \in {"exited", "probe_exited"} -> 9
      [] pc = "signal" -> 13

\* Every signal that is queued may send it around once more.
Rank == 30 * Len(signalq) + 3 * Distance + Len(outbox)

\* The loop never spins: by itself it always comes closer to waiting for something,
\* so between two events of its environment it takes no more than Rank steps.
\* Only a probe that times out at once and a child that is killed at once could
\* send it around for nothing.
NeverSpins == [][ Step /\ (Poll > 0 \/ Grace > 0) => Rank' < Rank ]_vars

\* What is still to be told of a launch.
Owed(events) ==
    {"ChildSpawned", "ChildRespawned"} \cap {events[i] : i \in DOMAIN events}

Contract ==
    INSTANCE SupervisorContract WITH ssh <- child, owed <- Owed(outbox), outcome <- result

\* The loop implements the contract an operator and a consumer rely on.
ContractSpec == Contract!Spec

\* What follows from that: after the reason to stop nothing is told and nothing is
\* launched; events come in order; every launch is told; the outcome was told.
LastWord == Contract!LastWord
Grammar == Contract!Grammar
LaunchesTold == Contract!LaunchesTold
OutcomeTold == Contract!OutcomeTold

-----------------------------------------------------------------------------
(* Liveness *)

\* The runtime polls a ready task and time passes; a ready signal branch is
\* polled within microseconds of the select, so a child that lives to be waited
\* for cannot forever exit just before it.
Fairness == WF_vars(Step) /\ WF_vars(Tick) /\ SF_vars(SelectSignal)

FairSpec == Spec /\ Fairness

\* The consumer, if there is one, keeps receiving.
DrainedSpec == FairSpec /\ WF_vars(Drain)

\* A dead child is noticed, and replaced unless the supervisor ends: across a
\* probe in flight, a grace, a backoff and a full event channel.
ChildReplaced == Exited ~> (Alive \/ pc = "done")

\* Nor is any child left unprobed: one that lives on is probed again and again,
\* whichever child it is and whatever became of the ones before it.
ProbesGoOn == Monitored => []<>(pc = "probe" \/ ~Alive \/ pc = "done")

\* A stop signal ends the supervisor whatever is queued before it and whatever
\* the child makes of its SIGTERM, unless every child from some time on exits
\* before it is first waited for: the select is biased towards such exits.
StopTakesEffect ==
    (<>[](pc # "arm") \/ []<>(At("select") /\ Alive))
      => ((\E i \in DOMAIN signalq : signalq[i] \in StopSignals) ~> pc = "done")

\* AUTOSSH_MAXLIFETIME ends the supervisor.
LifetimeEnforced == Deadline ~> pc = "done"

-----------------------------------------------------------------------------
(* A statement of the comments that the code does not keep *)

\* supervisor.rs:61, the -1 flag: "first failure exits non-zero".
OneShotFailsLoudly ==
    [][ OneShot /\ At("probe_exited") /\ pc' = "done" => result' = "maxstart" ]_vars

=============================================================================
