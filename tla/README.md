# rusty-autossh in TLA+

A TLA+ model of [rusty-autossh](../src/README.md), the program that keeps an
`ssh` process alive, with the TLC configurations that check it and proofs for
the TLA+ proof system. Paths below are relative to the repository root
(`src/src/supervisor.rs` is `supervisor.rs`).

To check everything here: `tlasany M.tla` parses, `tlc -config X.cfg M`
model-checks (each `.cfg` is named after its MC module), `tlapm M.tla` proves
(the eight `...Proofs` modules).

## 1. The system

### Components

| Component | State it keeps | Operations |
|---|---|---|
| Supervisor loop (`supervisor.rs`) | the child, the retry counter, spawn and start instants, the next probe | `run`, `select_one_tick`, `spawn_child`, `terminate_child`, `handle_child_exit`, the signal handlers, `emit`, `check_lifetime` |
| Monitor (`monitor.rs`) | one or two TCP listeners and their accept queues | `bind`, `probe` |
| Spawner (`spawner.rs`) | none | `resolve_ssh_path`, `inject_monitor_forwards`, `spawn_ssh` |
| Signal source (`signals.rs`) | one task per signal, a channel of 16 events | `spawn_signal_source`, `spawn_one` |
| Pidfile guard (`pidfile.rs`) | a file shared with other processes | `write_pid`, `drop` |
| Builder and `SshSupervisor::run` (`lib.rs`) | the configuration | the setters, `build`, `run`: everything before the loop |
| CLI dispatch (`main.rs`) | none | `run_default`, `run_strict`, `parse_monitor_value`, exit codes |
| Daemonizer (`daemonizer.rs`) | none | `daemonize_unix`, `detach_windows` |
| Poll clock (`clock.rs`) | none | `resolve_from_env`, `resolve_from_env_and_flags` |
| Mode resolution (`mode.rs`) | none | `resolve` |
| Strict argv parser (`strict.rs`) | an index, what was read so far | `parse_argv` |
| CLI flags and argument splitting (`cli.rs`) | none | the `Cli` that clap derives, `split_autossh_args` |
| Logging, errors (`logging.rs`, `error.rs`) | one "has warned" flag | `init_logfile`, `fallback_to_stderr` |

### How they interact

`main.rs` resolves the mode, parses the command line, merges it with the
environment into a `PollClock`, daemonizes for `-f`, builds an `SshSupervisor`
and blocks on its `run()` in a current-thread tokio runtime. `run()` resolves
ssh, binds the monitor, writes the pidfile, spawns the signal forwarders and
enters `Supervisor::run`. From there one task does everything: it waits in a
biased `select!` for the child, for the time of the next probe and for a signal,
and handles what comes, sending `SupervisorEvent`s into a consumer's bounded
channel as it goes. The forwarders are the only other tasks. Other processes
share the file system (pidfile), the ports, and the right to send signals.

### What is hard about it

- **Awaits inside handlers.** The select is only one of the places where the
  task waits. `emit` waits for the consumer, a probe for up to `poll`, a
  termination for up to 10 s, the backoff for `gate_time`; in each of them the
  child can die, signals can pile up, the deadline can pass, and only some of
  that is looked at afterwards.
- **The retry counter** depends on how long a run lasted, which is measured at
  different moments on different paths, and is written by three handlers.
- **One child, always.** Every path through spawn, failure, probe timeout and
  signal has to reap before it spawns or returns.
- **Signals** are coalesced by the platform, forwarded by tasks that start late,
  and queue behind each other.
- **Two command lines.** One program reads two dialects, chosen by tokens of the
  line itself, with a hand-written scanner for one, clap for the other and a helper
  that splits lines on its own; numbers come from three places in four widths, with
  sentinels.
- **Startup and shutdown** acquire and release ports, pidfile, handlers and a
  child in an order other processes can see, and can be cut at any point.

### What makes it correct

Per component: the loop never loses or doubles its child, spends its retry
budget exactly, tells the consumer a story that matches what happened, and ends
when it is told to; the signal source loses and invents nothing; the life cycle
leaves nothing behind, and holds its ports for as long as its ssh. The poll
clock: flags over environment over defaults, in range, and a cap that is never
exceeded. A probe: it succeeds
when, and only when, the tunnel carries data both ways (the run
`sound_tunnel` shows a sound tunnel whose probe fails). The parsers: each
argument belongs to either the wrapper or to ssh, in both modes the same.

## 2. The modules

| Module | Models | EXTENDS / INSTANCE |
|---|---|---|
| `Supervisor` | the loop, its child, timers, channels and consumer | INSTANCE `SupervisorContract` |
| `SupervisorContract` | what `run()` promises an operator and a consumer | |
| `ContractProofs` | what follows from that promise | EXTENDS `SupervisorContract` |
| `SupervisorInvariant` | the inductive invariant of the loop | EXTENDS `Supervisor` |
| `SupervisorProofs` | theorems | EXTENDS `SupervisorInvariant`, INSTANCE `ContractProofs` |
| `MCSupervisor` | instances for TLC | EXTENDS `SupervisorInvariant` |
| `SignalledSupervisor` | the loop and the source of its signals, composed | EXTENDS `Supervisor`, INSTANCE `SignalSource` |
| `SignalledSupervisorProofs` | it implements both; theorems | EXTENDS it and `SupervisorProofs`, INSTANCE `SignalSourceProofs` |
| `MCSignalledSupervisor` | an instance | EXTENDS `SignalledSupervisor` |
| `SignalSource` | forwarders, channel, receiver | |
| `SignalSourceProofs` | its inductive invariant and theorems | EXTENDS `SignalSource` |
| `MCSignalSource` | instances | EXTENDS `SignalSource` |
| `Lifecycle` | several processes from start to exit, with pidfile, ports and signals | |
| `LifecycleProofs` | its inductive invariant and theorems | EXTENDS `Lifecycle` |
| `MCLifecycle` | instances | EXTENDS `Lifecycle` |
| `MonitorPath` | the listeners' accept queues, ssh's forwards, a probe's two halves | |
| `MonitorPathProofs` | its inductive invariant and theorems | EXTENDS `MonitorPath` |
| `MCMonitorPath` | instances | EXTENDS `MonitorPath` |
| `Configuration` | mode, scanners, poll clock, builder: from a command line or a library caller to the settings of `run()` | |
| `ConfigurationProofs` | its inductive invariant and theorems | EXTENDS `Configuration` |
| `ScannerProofs` | the scanners against the helper, for lines of every length; the scans end | EXTENDS `ConfigurationProofs` |
| `MCConfiguration` | instances | EXTENDS `Configuration` |

### Supervisor

`pc` names the place where the task stands: an await point or the straight-line
code between two of them.

| `pc` | code |
|---|---|
| `spawn`, `respawn` | `spawn_child` (`supervisor.rs:164-173`), the first and the later ones |
| `arm` | the events of a spawn, then `next_probe_at` (288-292, 325-329) |
| `check` | the top of the loop: `check_lifetime` (294-303) |
| `select` | the biased select (451-497) |
| `probe` | `monitor.probe(..).await` inside its branch (476) |
| `exited`, `backoff` | the `ChildExited` arm (315-343) |
| `signal` | the `Signal` arm (379-413) |
| `terminate`, `grace` | `terminate_child` (178-214) |
| `probe_exited` | the `ProbeTimeout` arm after its termination (345-377) |
| `exhausted` | `MaxStartReached` |
| `done` | `run()` has returned `result` |

`cause` says what a termination is for, `outbox` holds the events the current
handler still has to send. Sending one is a step of its own (`Emit`), possible
only when the consumer's channel has room or the consumer has dropped its
receiver: this is how the model blocks where the code awaits. `child` is the ssh
process behind the handle (`none`, `running`, or exited and unreaped), `age` and
`lifetime` the instants the code measures, `ran` what the child's run really
lasted (no guard reads it), `orphans` whether a running ssh was ever dropped.

The environment lets the child exit at any moment, signals arrive, probes end in
any way, spawns fail, the consumer drain or disappear. `Tick` advances all
clocks, and only while the task waits.

`SupervisorContract` has four variables (the ssh process, the last event told,
the set of events still to be told of a launch, the outcome) and no timers, channels
or program counter. `Supervisor` implements it under the mapping `ssh <- child`,
`owed <- Owed(outbox)`, `outcome <- result`; runs check the refinement and
`SupervisorProofs` proves it. Four things that an operator or a consumer can rely on
are stated of the contract, and so of everything that implements it: `LastWord`,
`Grammar`, `LaunchesTold`, `OutcomeTold`.

### SignalSource

One forwarder per kind: `spawned` until the runtime first polls it, then
`listening` (or `failed`), `sending` while `tx.send` waits, `ended` when the
receiver is gone. `pending` is the platform's single notification, `waiters` the
FIFO queue of the channel's semaphore, `channel` its contents. The raises of a
kind are numbered and the number travels with the event, so that "the
supervisor has been told of this raise" can be said; the numbers are history,
no guard reads them.

### SignalledSupervisor

In `Supervisor` any signal may appear in `signalq` at any time. Here it is put there
by a forwarder: `signalq` and `SignalSource`'s `channel` are two views of the one
channel, and the steps that touch it are steps of both modules. The loop enters the
select (`Enter`), leaves it by the signal branch (`TakeSignal`), by another
(`OtherBranch`) or because every sender has gone (`NoneLeft`); the end of `run()`
drops the receiver (`Leave`); anywhere else the source goes on without it (`GoOn`). A
signal without a handler kills the process, and its ssh runs on. This is where the
whole way of a signal is: from the raise, through a forwarder that may not have been
polled yet, a notification, a full channel and a loop busy with a grace or an event,
to what the loop does about it.

### Configuration

A token of the command line is a record: its form (short, glued as in `-M2`, cluster
as in `-f1`, long, separator, bare dash, `completions`, word, not UTF-8), the option it
names, its numbers. An optional thing is a set of at most one element. `Resolve` is
`mode::resolve`; then one of two scanners goes from token to token (`i`) and decides
where the arguments for ssh begin (`rest`):

| | code |
|---|---|
| `Passthrough` to `Rejected` | one action per branch of `strict::parse_argv` |
| `ClapFlag` to `ClapVersion` | what clap makes of `cli::Cli`: declared options, conflicts, the trailing positional with hyphens allowed |
| `Completions` | the subcommand |
| `PrintVersion`, `RefuseMonitor`, `Settle` | the rest of `run_default` and `run_strict`: `parse_monitor_value`, the clock (`FromEnv`, `FromEnvAndFlags`), what the builder is told (`Told`) |
| `Build` | `build()` and the clock `run()` makes of it |
| `BuildOwn` | a library caller, with any setters called or not |

clap itself is external, modelled from the attributes in `cli.rs` and the tests on
them. The widths of the integers are constants (`U16`, `U32`, `I64`, `U64`); `as u32`
keeps the low bits (`Wrapped`). `split_autossh_args`, which no caller in the program
uses, is the reference that both scanners are compared with.

### Lifecycle

Every process runs through the stages of `run_default`/`run_strict` and
`SshSupervisor::run`: detaching, resolving ssh, binding one or two listeners,
writing the pidfile, installing the signal source, spawning ssh, running,
stopping, unwinding (listeners closed), unlinking (pidfile removed), exited. The
fields of `Supervisor` are dropped in the order of their declaration
(`supervisor.rs:33-66`), which is why closing and unlinking are two steps in this
order. `armed` becomes 1 when the forwarders have been polled, which the
current-thread runtime of `main.rs:414` does only when the supervisor first
waits. `shell` is what the process's caller was told; for `-f` that is the exit
code 0 of the foreground process. The whole loop is one stage here, ending with
its ssh reaped; that it does is `NoOrphan` of `Supervisor`.

### MonitorPath

`ProbeLoop::probe` has two halves that run at once in a ring: the `writer`
(`connect`, `write`, `done`) and the `reader` (`accept`, `read`, `done`); in echo
mode the reader starts when the writer is done, on the same connection. `stream`
and `sock` are the sockets they hold, `left` the time to the timeout. All
connections ever made are numbered in `conns` in the order of their making;
`queue` has those that wait to be accepted. `heard` is the probe that accepted a
connection, `answered` how many probes returned `Ok`, `sound` whether ssh and its
-R were up all through the latest probe; no guard reads these three.

Where a connection ends is computed from the ports and forwards that the code
asks for (`Forwards` is `inject_monitor_forwards`): a local port that the supervisor
listens on ends there (`Own`), any other goes by ssh's -L to the server and, if it
arrives at the port of the -R, back (`AtHome`, `AtServer`). A connect needs room in
the accept queue it ends in. Others may connect to the listeners, locally or by the
-R, send a payload or not, and close. `Supervisor` abstracts all of this to a probe
that ends in any of its three ways.

## 3. What is checked

### Runs that pass

| Run | Instance | Distinct states | Shows |
|---|---|---|---|
| `monitored` | probing, deadline 4, cap 2, three signals | 55 396 | the child, the counter and its cap, and the event stream with probes in flight, graces and the deadline; the inductive invariant; the contract and its last word; a loop that never spins; when probes come; replacement, the lifetime, a stop |
| `oneshot` | `-1` on Windows: no grace, Ctrl+C and Ctrl+Break | 5 727 | the contract on the paths of a one-shot run: its end at the first failure, the kill without a grace, an event channel of two |
| `daemon_signals` | `SignalledSupervisor` as `-f -M 0`: no gate, cap 1; SIGTERM and SIGUSR1 raised twice, channels of 1 | 36 814 | a cap that is never reached; one handling per raise; a caught SIGTERM ends the run; a clean exit ends it too, which it does only with `-M 0` |
| `signals` | three kinds raised twice, channel of 1 | 18 750 | nothing lost, nothing invented, everything delivered |
| `monitor_path` | two rings, one of them on port 0, and an echo mode; queues of two, three probes | 404 907 | what a probe can hear, and how often; every probe returns |
| `configuration` | every line of up to two tokens, of three of the interesting ones, and longer ones; both modes; 15 environments, 384 library callers | 61 837 | scanners, their boundary, the clock, the builder |
| `lifecycle` | two rings and an echo mode that contend for ports; one a daemon, one at the end of the port range | 34 481 | ports, pidfile and ssh at every exit, and what the caller was told; every start settles, every handled SIGTERM ends |

The properties, by what could go wrong:

- **The child.** `NoOrphan`: no path overwrites or abandons a running ssh.
  `ChildToWaitFor`: the "no live child" internal error cannot happen.
  `ContractSpec`: launches, kills, events and outcome follow the contract.
  `LastWord`: once a stop signal, the end of the lifetime or the cap was told,
  nothing is told and no ssh is launched, whatever is queued (`supervisor.rs:294-343`,
  `379-413`).
- **The counter.** `RetryBudget`: gives up at the cap, neither before nor after
  (checked where the cap is reached, `monitored`; under `-1` nothing is counted).
  `RetryDiscipline`: which deaths count and which reset. `SpawnSpacing`: a
  respawn nobody asked for comes no sooner than `gate_time` after the last spawn.
  `UngatedNeverGivesUp`: with the gate of `-f` the cap is never reached, whatever it is
  and however ssh fails. No document says so; it is what an operator should know.
- **When probes come.** `next_probe_at` outlives the child it was computed for, and four
  places have to set it again. `ProbeNotEarly`: no child is probed before its own first
  interval is over. `ProbesGoOn`: no child that lives on is left unprobed.
- **Progress.** `ChildReplaced`, `StopTakesEffect`, `LifetimeEnforced`. `NeverSpins`:
  the loop takes no step of its own that does not bring it nearer to waiting for
  something (`Rank` counts what is queued and how far `pc` is from the next wait), so
  that it never burns the processor between two events of its environment. The premise
  `Poll > 0 \/ Grace > 0` is there because a poll of 0 on Windows (no grace) is the one
  setting under which a probe can time out, and its child be killed and replaced, in no
  time at all.
- **Signals.** `NoLostSignal`, `NoPhantomSignal`, `SignalsDelivered`. From the raise to
  the loop: `OneHandlingPerRaise` (one SIGUSR1 never respawns two
  children), `StopHonoured` (a SIGTERM that is caught ends the run, behind whatever is
  queued and whatever the loop is doing).
- **Life cycle.** `OwnPorts`, `PidfileTruthful`, `NothingLeft`, `StartSettles`,
  `SigtermEnds`. `CallerTold`: the caller of a process that it has not detached learns
  nothing before the end, 0 only of a regular end that has left nothing behind, and of
  every failure that it is one. What the caller of `-f` learns is a run of its own
  (`daemon_told_early`, below).
- **Probes.** `AnswersBounded`: no more probes are answered, in the life of a
  supervisor, than its `listener_in` has room for connections nobody accepts.
  `HeardOnce`: only a ring's probe is ever answered, by a connection that it accepted
  itself, that no other probe has had and that another program made: no probe ever hears
  its own payload, and with an echo port none is answered.
  `ProbeReturns`.
- **Configuration.** `Divided`: from where ssh's arguments begin, each is passed on once
  and in place, and none sets an option of the wrapper (the mode is no option here, see
  below); an option that is set stands before them. `ScannersAgree`: the two scanners and
  the helper put the boundary in the same place, so that the mode, which an argument for ssh can change, moves nothing
  across it; tokens on which they are known to differ are named (`Odd`).
  `FirstPollFollows`: the first poll is the poll interval unless it is set (strict mode
  and the library). `CapKept`: a cap asked for is never exceeded by the cut to 32
  bits, and is kept if it fits. `Settled`: every line is dealt with.

### Runs that find a counterexample

Each checks one statement of the repository's comments, documents or tests that
the code does not keep. They are the "findings" of `PROJECT.json`, with quotes.

| Run | Statement | What the code does |
|---|---|---|
| `oneshot_probe` | first failure exits non-zero under `-1` | a failed probe of the first child returns `Ok` |
| `lifetime_idle` | the supervisor ends after `AUTOSSH_MAXLIFETIME` | not while an unmonitored child stays up |
| `sound_tunnel` | the payload is forwarded through ssh to `listener_out` and read back | it ends in the supervisor's own `listener_in`; the probe of a sound tunnel times out |
| `sigterm_orphans_ssh` | handlers are installed before the first spawn | they are after it; a SIGTERM in between orphans ssh |
| `daemon_told_early` | `-f` binds the ports and writes the pidfile before it detaches | it detaches first: the caller is told 0 by a process that holds nothing yet, and whose daemon may still fail to get any of it |

More differences show in the models without a run of their own.

- The comment at `supervisor.rs:140` says that the lifetime wins over
  `MaxStartReached`; a child that fails at the cap while the deadline passes in the
  select ends the run with the latter (`LifetimeReached` is reached only from
  `check`).
- `supervisor.rs:123` counts a "short-lifetime exit"; a child that dies early while
  a probe is in flight is judged by the time its exit is seen (`SelectChild` sets
  `lifetime`, `ran` is what it really lasted) and resets the counter.
- `supervisor.rs:151` calls events best-effort; `Emit` waits for room all the same,
  so a consumer that keeps its receiver and stops receiving leaves a SIGTERM
  unserved. The runs with liveness assume that it receives (`DrainedSpec`).
- `lib.rs:531` has the forwards reflect the ports the system chose for port 0. They
  do for `port_in`; the -R leads to `port_in` + 1, which is not `port_out`
  (`Bindings`, `Forwards`).
- A client of `listener_out` that closes without a full payload ends the probe with
  an I/O error (`ReadFails`), for which the supervisor terminates its ssh.
- `tests/supervisor.rs:16` has a `ChildExited` before the `ChildSpawned` of a
  replacement; the respawns for SIGUSR1 and SIGHUP (`supervisor.rs:234`) tell of none
  (`ReapForRespawn`).
- `lib.rs:384` and `pidfile.rs:37` resolve contention for a pidfile by overwriting it. The
  older process, when it ends, removes the newer one's file (`Exit`,
  `pidfile.rs:65`).
- `clock.rs:22` derives the first poll from the poll interval. `--poll` is applied after
  that (`clock.rs:164`), so that the first poll stays the environment's or the default
  (`FromEnvAndFlags`).
- `AUTOSSH_MAXSTART` and `--max-start` are cut to 32 bits: 2^32 becomes 0, with which the
  first failure ends the run (`Cap`).
- In strict mode `-f1` is `-f` (`LetterFlag`), in default mode `-f` and `-1`; `-M2000` is an
  option in strict mode and an argument for ssh in default mode; a bare `-` or a token
  that is not UTF-8 is passed to ssh in strict mode without ending the options
  (`BareDash`, `NotUtf8`). Strict mode rejects an option of ssh that comes first, as `-L`.
- Of `--strict` and `--no-strict` the last one wins (`mode.rs:7`), and so `Resolve` decides.
  When that is `--no-strict`, the whole line goes to clap, where the two are declared to
  conflict (`cli.rs:105`): a well-formed `--strict --no-strict host` exits 2 (`Conflict`,
  `ClapRefuses`). The test on it (`tests/compat_strict.rs:117`) has `--help` in its line,
  which clap answers first.
- The scan for the toggles goes past `--` (`ToggleAt`): in `rusty-autossh -- host
  --strict` the word is passed to ssh and chooses the mode all the same, where
  `COMPATIBILITY.md:128-132` has the tokens after `--` "passed without further parsing
  even if they would otherwise collide with rusty-autossh long flags".
- `README.md:97` lists `AUTOSSH_PORT`; nothing reads it (`Env` has no such field).
  `--debug` and `--log-level` are parsed and then not used (`Told`).

### Bounds

- `GateTime`, `Poll`, `FirstPoll`, `Grace`, `MaxLifetime` are 1 to 4 ticks, the gate
  0 in `daemon_signals`, where -f sets it so, and the grace 0 on Windows. The loop only compares them with elapsed time and with each other; the runs have a
  probe shorter and longer than the gate, a grace within the gate, and a deadline
  that falls into each wait.
- `MaxStart = 2` has a failure before the cap, one at it, and a reset between.
  `RetryMax` (`u32::MAX`) is just above it, so saturation is reached.
- The event channel holds 1 (2 in `oneshot`) and the signal channel 1 or 2: full
  channels are the interesting case, and occur.
- `RaiseMax = 2` gives a raise taken, held or queued and one behind it; a third
  coalesces with the second. Three kinds for one slot make two wait in order.
- Two or three processes: one that holds, one that contends, one that comes after.
  A process that is started again is another process, as its pid is.
  `PortMax = 2` puts the third ring at the end of the range.
- Accept queues of two fill up under three probes and the connections of others
  (`MaxConns = 3` stops these when three connections have been made); two in a queue
  are in an order. `Poll = 1` lets an answer come before, at and after the last
  moment. `Ephemeral = {2, 4}` with `PortMax = 4` has a `port_in` whose successor is
  free, and one that saturates.
- `configuration` has integers of 4, 4, 8 and 16 values for 16, 32, 64 signed and 64
  bits: 3 is the last value of the narrow ones, 4 and 5 are cut to 0 and 1, 99 fits
  nowhere. Lines of three tokens have an option, its value or none, and what follows;
  the tokens that can end the options or not come at each of the three places. The
  scanners keep no state but the index, the options and whether ssh's arguments have
  begun.
- `daemon_signals` has a kind that stops and one that respawns; a third makes the product
  too large for a run, and three kinds with one slot are in `signals`.

No run uses symmetry: the ones that could also check liveness.

### Fairness

- `WF(Step)`, `WF(Tick)`: the runtime polls a ready task, and time passes. A
  probe, the grace, the backoff therefore end.
- `SF(SelectSignal)`: the signal branch comes last in the biased select. A child
  that exits between the select's start and the poll of that branch wins against
  it, and could do so for ever only by dying within microseconds of every spawn.
  `StopTakesEffect` states this premise.
- `WF(Drain)` only in `DrainedSpec`: the consumer, if there is one, keeps
  receiving.
- `MonitorPath`: `WF(RoundTrip)`, the steps of a probe and the time that passes in
  it. Nothing is assumed of ssh, of its server or of others.
- `SignalSource`: the runtime polls ready forwarders; `SF(Receive)` as above. The
  signals themselves are not fair.
- `SignalledSupervisor`: the loop, the forwarders and time as in the two modules;
  `SF(TakeSignal)` as above, which is also the premise of `StopHonoured`; the consumer
  receives. Raises are not fair.
- `Configuration`: the process runs on (`WF(Step)`).
- `Lifecycle`: a process's own steps. Nothing is assumed of signals, of other
  processes, or of the loop ending by itself.

## 4. What is proved

For every value of the constants, under the assumptions named `...Assumption` in
the modules (capacities and `u32::MAX` positive, the cap within `u32`, ports in
range; no bound on the number of kinds or processes).

**Supervisor.** `TypeCorrect`; `InductiveInvariant` (`IInv`); `SingleChild`
(`NoOrphan`); `AlwaysAChild`; the retry budget and discipline, the spacing of
spawns, and `Supervisor` implements `SupervisorContract`. None of the properties
is inductive by itself: that no child is overwritten at a spawn depends on every
path to it having reaped, and that events and outcome match depends on what each
handler has already said. `IInv` therefore says for every `pc` whether there is a
child, what is left in `outbox` and what was told last (`PlaceInv`), how far the
counter can be (`BudgetInv`) and how the clocks relate (`ClockInv`:
`ran <= lifetime <= age`, and the backoff's timer completes the gate; `ProbeInv`: a
child's age and what is left of the interval to its probe make up the first interval).
The run `monitored` checks `IInv` itself. `OwnInterval` (`ProbeNotEarly`) follows from
the last part. The refinement's step lemma has one case per
action, using `PlaceInv` to see which contract action it is. `NoCapWithoutGate`
(`UngatedNeverGivesUp`) follows from the part of `IInv` on the counter.
`LoopNeverSpins` (`NeverSpins`): a step of the loop either takes a signal off the queue
or leaves the queue alone and brings `pc` nearer to a wait (`Nearer`, one case per
action); what a handler puts in the outbox weighs less than the step that puts it there
(`RankStep`).

**SupervisorContract.** Its own invariant (`Promised`: what was told last and what is
owed say in which states ssh can be) gives `OutcomeAnnounced`, `NothingAfter`, `InOrder`
and `NoSilentLaunch`. Through the refinement they become `TrueOutcome` (`OutcomeTold`),
`StopIsFinal` (`LastWord`), `EventOrder` (`Grammar`) and `EveryLaunchTold`
(`LaunchesTold`) of `Supervisor`, without another look at its actions: this is what the
abstract specification is for.

**SignalledSupervisor.** `RefinesSupervisor`: `JointSpec => Spec`, with `Supervisor`'s own
variables for the mapping, so that every theorem on `Supervisor` holds with the real
source of signals too; `StillSingleChild` and `StillKeepsContract` spell some out.
`RefinesSource`: it implements `SignalSource` as well. `HandledOnce`
(`OneHandlingPerRaise`): the two views of the channel stay one, which is the glue of the
composition (the lemma `SharedChannel`), and by `NoPhantomSignal` of `SignalSource` the
head of the channel is news.

**SignalSource.** `TypeCorrect`, `SignalsKept` (`NoLostSignal`), `SignalsAreNews`
(`NoPhantomSignal`). The strengthening: a kind in the semaphore's queue is there
once and is sending (`QueueOfSenders`); nothing ends while the receiver lives
(`NoneEndsEarly`); what is told is older than what is in the channel, that older
than what is held, that older than a pending notification (`FreshNews`).
`NoLostSignal` needs `NoPhantomSignal`: told numbers only go up.

**Lifecycle.** `TypeCorrect`, `PortsOwned` (`OwnPorts`), `PidfileNeverStale`
(`PidfileTruthful`), `ExitIsClean` (`NothingLeft`), `CallerKnows` (`CallerTold`). The
strengthening says in which stages a process listens, and on what (`PortsHeld`), that no
two listen on one port (`PortsDisjoint`), in which stages it has an ssh (`SshWithin`),
and what its caller has been told in each, detached or not (`CallerSoFar`). `NoWayBack`: no process goes
back to a stage that it has left, so that it ends or waits after at most 13 steps
(`Ahead`).

**MonitorPath.** `TypeCorrect`, `AnswersRunOut` (`AnswersBounded`), `AnswersHeardOnce`
(`HeardOnce`), for every set of modes, any choice of ports, backlog and poll interval.
The key lemma is `ProbeStaysAtHome`: the connection of a probe ends in the supervisor's
own `listener_in`, whatever ssh does. From it follows the budget: a probe that has
connected, and each one answered, is a connection in that queue. That a connection is
heard once needs that the queue of `listener_out` holds only unheard ones, none of them
twice (`OutQueue`). That no probe hears itself needs one more part: what arrives at the
`listener_out` is from others, and nothing arrives at the echo service (`Strangers`).
`ProbeBounded`: a probe takes at most `Poll + 7` steps, ticks included (`ToReturn`).

**Configuration.** `TypeCorrect`, `ArgumentsDivided` (`Divided`), `FirstPollKept`
(`FirstPollFollows`), `CapNeverExceeded` (`CapKept`), for all command lines, environments
and library callers, and for integers of any width; `ScannersDivideAlike`
(`ScannersAgree`) and `ScansEnd`, in `ScannerProofs`. The strengthening of `TypeOK` and
`Divided` says what holds in which phase (`Phases`), that a number clap has accepted is in
range (`Accepted`), and that settings are what `Build` makes of what was told, and that
of the options and an environment (`Made`). There is one lemma per group of actions.
`ScannersAgree` compares the scanners with a helper that is a recursive function of the
line. That this function exists, and that its value is carried along unchanged by every
step of a scan, needs an induction over the tokens. The library's induction theorems take
a predicate, which the provers here cannot instantiate; `Least` and `Induction` are the
same facts about a set of numbers, from the well-foundedness of `<` on `Nat`
(`WFMin`, `NatLessThanWellFounded`). `ScansEnd`: every step of the program lowers a
number (`ToGo`), at first the number of tokens plus three. With it the one liveness
property of `Configuration`, `Settled`, needs only that the process runs on.

**Only model-checked.** The liveness properties (`ChildReplaced`, `ProbesGoOn`, `StopTakesEffect`,
`LifetimeEnforced`, `SignalsDelivered`, `StopHonoured`, `StartSettles`, `SigtermEnds`,
`ProbeReturns`, `Settled`): TLAPS does not reason about `ENABLED`, hence not about
fairness. Every safety property that a passing run checks is also a theorem, and so is
the part of these that is not about fairness: a number that everything a process does by
itself lowers, and that its environment does not raise (`LoopNeverSpins`, where a signal
that arrives adds to it, `ProbeBounded`, `NoWayBack`, `ScansEnd`).

## 5. What is abstracted, and what is not modelled

- Time is discrete and passes only while the task waits; a stopped or very slow
  supervisor process is not modelled. `Poll = 0` is allowed by the assumptions
  but no run uses it.
- The biased select is strict priority among the branches ready when it is
  polled. tokio rounds a sleep up to the millisecond (`supervisor.rs:429`, 465), so that
  in the last fraction before `next_probe_at` a signal may still come first; the model
  has the probe first as soon as it is due.
- In `Supervisor` a probe ends in any of the code's outcomes, even after the child
  has died; `MonitorPath` has the sockets behind it, with a poll as its
  only clock. The two are not composed.
- `MonitorPath`: payloads have no content, since the code compares none; bytes arrive
  in one piece. A relay by ssh takes no time. Within a tick everything that is ready
  happens. ssh is assumed not to take a port the supervisor listens on.
- I/O errors of `wait()` are not modelled; a closed signal channel reads as a
  Terminate (`SendersGone`).
- Time has no end: `Instant::now() + poll` (`supervisor.rs:289`, 479, 483) panics for
  an interval the platform's clock cannot hold, which is not modelled. Such a panic, like
  an error of `wait()`, leaves the ssh that has just been spawned: these are exceptions to
  `NothingLeft` of `Lifecycle`, where the end of the loop has reaped its ssh.
- `Configuration`: texts are model values or numbers; diagnostics are left out, and so is
  the message of the builder, which nothing reads. clap's `--help`, abbreviations and
  clusters other than `-f1` are not in the token set, nor is a glued `-M` whose next letters
  are options themselves: clap reads `-M1` as `-M` with a value, `-M2` as an argument for
  ssh. Lists of ports are read by
  splitting at colons, which is the token's sequence of numbers.
- A `run()` future that a library caller drops midway, which leaks its ssh, is
  outside the modelled program.
- `Lifecycle`: one pidfile path, no working directory (a relative path changes its
  meaning under `-f`); the pid a daemon gets differs from its caller's, here both
  are one process. The logfile appears only as the failure it can be under `-f`.
- Not modelled: logging, shell completions, the feature lint, packaging, test
  doubles: they have no state the rest depends on.

## 6. Plan

1. `Supervisor` with its contract, invariant and proofs. *(done)*
2. `SignalSource` with proofs. *(done)*
3. `Lifecycle` with proofs. *(done)*
4. `MonitorPath` with proofs. *(done)*
5. `Configuration` with proofs: poll clock, mode, both scanners and the builder. *(done)*
6. `SignalledSupervisor`, the composition of `Supervisor` with `SignalSource`. *(done)*
7. Left: `Supervisor` with `MonitorPath`, whose verdicts are then its probe outcomes.
   Every outcome that the loop is checked with can come from `MonitorPath`, and the two
   share nothing else, so this would narrow behaviours, not add any.
8. Left: the working directory in `Lifecycle`, for relative paths under `-f`.
