------------------------------ MODULE Lifecycle ------------------------------
(***************************************************************************)
(* The life of a rusty-autossh process around its supervisor loop          *)
(* (run_default in src/src/main.rs, SshSupervisor::run in src/src/lib.rs,  *)
(* src/src/pidfile.rs, ProbeLoop::bind in src/src/monitor.rs), for several *)
(* processes started with the same pidfile and with monitor ports that may *)
(* overlap: the order in which a process acquires what it needs, what      *)
(* another process sees in between, how an error or a signal unwinds it,   *)
(* and what it leaves behind.                                              *)
(*                                                                         *)
(* The supervisor loop itself is the module Supervisor; here it is one     *)
(* stage that ends, with its ssh reaped, in one of the loop's results.     *)
(***************************************************************************)
EXTENDS Integers, FiniteSets

CONSTANTS
    Procs,       \* the processes; one that is started again is another one
    Background,  \* those started with -f
    Mode,        \* per process: "none", "echo" or "ring", its MonitorMode
    PortIn,      \* per process: the port of its -M
    PortMax,     \* u16::MAX
    Nobody       \* no process

\* saturating_add; and the mistake of adding past the range of a port.
Added(n) == n + 1
Saturated(n) == IF n = PortMax THEN PortMax ELSE n + 1

PortOut(p) == Saturated(PortIn[p])

ASSUME LifecycleAssumption ==
    /\ Nobody \notin Procs
    /\ Background \subseteq Procs
    /\ PortMax \in Nat \ {0}
    /\ Mode \in [Procs -> {"none", "echo", "ring"}]
    /\ PortIn \in [Procs -> 1..PortMax]

VARIABLES
    stage,    \* per process: how far it is
    result,   \* per process: what run() returned, or the signal it died of
    shell,    \* per process: what its caller was told, "nothing" until then
    bound,    \* per process: the ports it listens on
    armed,    \* per process: 1 once SIGTERM has its handler
    guard,    \* per process: 1 while it has a PidfileGuard
    ssh,      \* per process: none, running, or orphan once the process is dead
    pidfile   \* whose pid the pidfile names, Nobody when it is absent

vars == <<stage, result, shell, bound, armed, guard, ssh, pidfile>>

Live(p) == stage[p] \notin {"off", "exited", "dead"}

Monitored(p) == Mode[p] # "none"

\* The ports it listens on: both ends of a ring, or the near end alone.
Listens(p) == IF Mode[p] = "ring" THEN {PortIn[p], PortOut(p)} ELSE {PortIn[p]}

Init ==
    /\ stage = [p \in Procs |-> "off"]
    /\ result = [p \in Procs |-> "none"]
    /\ shell = [p \in Procs |-> "nothing"]
    /\ bound = [p \in Procs |-> {}]
    /\ armed = [p \in Procs |-> 0]
    /\ guard = [p \in Procs |-> 0]
    /\ ssh = [p \in Procs |-> "none"]
    /\ pidfile = Nobody

-----------------------------------------------------------------------------
(* Moving on, and giving up *)

Goto(p, s) == stage' = [stage EXCEPT ![p] = s]

Unwind(p, r) ==
    /\ Goto(p, "unwinding")
    /\ result' = [result EXCEPT ![p] = r]

\* map_error and map_strict_error; and the mistake of taking the end of the budget for
\* a regular end.
Lenient(r) ==
    CASE r \in {"ok", "max_start"} -> "0"
      [] r = "ssh_not_found" -> "1"
      [] OTHER -> "2"
ExitCode(r) ==
    CASE r = "ok" -> "0"
      [] r \in {"ssh_not_found", "max_start"} -> "1"
      [] OTHER -> "2"

\* The caller is told once: a daemon's exit code reaches nobody.
Told(p, code) == IF shell[p] = "nothing" THEN code ELSE shell[p]

-----------------------------------------------------------------------------
(* Starting up *)

Start(p) ==
    /\ stage[p] = "off"
    /\ Goto(p, IF p \in Background THEN "detaching" ELSE "resolving")
    /\ UNCHANGED <<result, shell, bound, armed, guard, ssh, pidfile>>

\* perform_daemonize_default: the foreground process exits 0, the daemon goes on.
Detach(p) ==
    /\ stage[p] = "detaching"
    /\ Goto(p, "resolving")
    /\ shell' = [shell EXCEPT ![p] = "0"]
    /\ UNCHANGED <<result, bound, armed, guard, ssh, pidfile>>

\* It cannot open the logfile, or cannot fork.
DetachFails(p) ==
    /\ stage[p] = "detaching"
    /\ \E r \in {"logfile", "daemonize"} : Unwind(p, r)
    /\ UNCHANGED <<shell, bound, armed, guard, ssh, pidfile>>

Resolve(p) ==
    /\ stage[p] = "resolving"
    /\ Goto(p, IF Monitored(p) THEN "binding" ELSE "writing")
    /\ UNCHANGED <<result, shell, bound, armed, guard, ssh, pidfile>>

ResolveFails(p) ==
    /\ stage[p] = "resolving"
    /\ Unwind(p, "ssh_not_found")
    /\ UNCHANGED <<shell, bound, armed, guard, ssh, pidfile>>

\* A port nobody listens on; and the mistake of sharing it.
Shared(n) == TRUE
Free(n) == \A q \in Procs : n \notin bound[q]

\* What becomes of a bind that finds its port taken; and the mistake of waiting
\* for the port.
Waiting(n) == FALSE
Refused(n) == ~Free(n)

\* The listener_in, then the listener_out of the ring.
Bind(p) ==
    /\ stage[p] = "binding"
    /\ Free(PortIn[p])
    /\ bound' = [bound EXCEPT ![p] = @ \union {PortIn[p]}]
    /\ Goto(p, IF Mode[p] = "ring" THEN "binding_out" ELSE "writing")
    /\ UNCHANGED <<result, shell, armed, guard, ssh, pidfile>>

BindOut(p) ==
    /\ stage[p] = "binding_out"
    /\ Free(PortOut(p))
    /\ bound' = [bound EXCEPT ![p] = @ \union {PortOut(p)}]
    /\ Goto(p, "writing")
    /\ UNCHANGED <<result, shell, armed, guard, ssh, pidfile>>

BindFails(p) ==
    /\ \/ stage[p] = "binding" /\ Refused(PortIn[p])
       \/ stage[p] = "binding_out" /\ Refused(PortOut(p))
    /\ Unwind(p, "bind")
    /\ UNCHANGED <<shell, bound, armed, guard, ssh, pidfile>>

\* write_pid replaces whatever the pidfile names.
WritePid(p) ==
    /\ stage[p] = "writing"
    /\ pidfile' = p
    /\ guard' = [guard EXCEPT ![p] = 1]
    /\ Goto(p, "installing")
    /\ UNCHANGED <<result, shell, bound, armed, ssh>>

WriteFails(p) ==
    /\ stage[p] = "writing"
    /\ Unwind(p, "pidfile")
    /\ UNCHANGED <<shell, bound, armed, guard, ssh, pidfile>>

\* spawn_signal_source only spawns the forwarders.
Install(p) ==
    /\ stage[p] = "installing"
    /\ Goto(p, "spawning")
    /\ UNCHANGED <<result, shell, bound, armed, guard, ssh, pidfile>>

SpawnSsh(p) ==
    /\ stage[p] = "spawning"
    /\ ssh' = [ssh EXCEPT ![p] = "running"]
    /\ Goto(p, "running")
    /\ UNCHANGED <<result, shell, bound, armed, guard, pidfile>>

SpawnFails(p) ==
    /\ stage[p] = "spawning"
    /\ Unwind(p, "spawn")
    /\ UNCHANGED <<shell, bound, armed, guard, ssh, pidfile>>

\* The current-thread runtime polls the forwarders, which install their
\* handlers, when the supervisor first waits in its select.
Arm(p) ==
    /\ stage[p] = "running"
    /\ armed[p] = 0
    /\ armed' = [armed EXCEPT ![p] = 1]
    /\ UNCHANGED <<stage, result, shell, bound, guard, ssh, pidfile>>

-----------------------------------------------------------------------------
(* Ending *)

\* What the loop leaves of its ssh; and the mistake of leaving it behind.
Abandoned == "running"
Reaped == "none"

\* The loop ends by itself: it has been told to, or has given up.
Finish(p) ==
    /\ stage[p] = "running"
    /\ \E r \in {"ok", "max_start", "io"} : Unwind(p, r)
    /\ ssh' = [ssh EXCEPT ![p] = Reaped]
    /\ UNCHANGED <<shell, bound, armed, guard, pidfile>>

\* handle_term_int_signal, once ssh has died of its SIGTERM or SIGKILL.
Terminated(p) ==
    /\ stage[p] = "stopping"
    /\ Unwind(p, "ok")
    /\ ssh' = [ssh EXCEPT ![p] = Reaped]
    /\ UNCHANGED <<shell, bound, armed, guard, pidfile>>

\* The fields of the Supervisor are dropped in their order: the monitor, which
\* closes its listeners, before the pidfile_guard.
CloseListeners(p) ==
    /\ stage[p] = "unwinding"
    /\ bound' = [bound EXCEPT ![p] = {}]
    /\ Goto(p, "unlinking")
    /\ UNCHANGED <<result, shell, armed, guard, ssh, pidfile>>

\* What PidfileGuard::drop leaves of the pidfile, which it does not read; and
\* the mistake of a guard that does nothing.
Kept(p) == pidfile
Removed(p) == IF guard[p] = 1 THEN Nobody ELSE pidfile

Exit(p) ==
    /\ stage[p] = "unlinking"
    /\ pidfile' = Removed(p)
    /\ guard' = [guard EXCEPT ![p] = 0]
    /\ Goto(p, "exited")
    /\ shell' = [shell EXCEPT ![p] = Told(p, ExitCode(result[p]))]
    /\ UNCHANGED <<result, bound, armed, ssh>>

-----------------------------------------------------------------------------
(* Signals from outside, and an ssh that outlives its supervisor *)

\* The kernel closes the listeners; ssh is in a process group of its own.
Die(p, signal) ==
    /\ Goto(p, "dead")
    /\ result' = [result EXCEPT ![p] = signal]
    /\ shell' = [shell EXCEPT ![p] = Told(p, "signal")]
    /\ bound' = [bound EXCEPT ![p] = {}]
    /\ guard' = [guard EXCEPT ![p] = 0]
    /\ ssh' = [ssh EXCEPT ![p] = IF @ = "running" THEN "orphan" ELSE @]
    /\ UNCHANGED <<armed, pidfile>>

Sigkill(p) ==
    /\ Live(p)
    /\ Die(p, "sigkill")

\* The handler forwards the signal, and the loop terminates its ssh.
SigtermHandled(p) ==
    /\ stage[p] = "running"
    /\ armed[p] = 1
    /\ Goto(p, "stopping")
    /\ UNCHANGED <<result, shell, bound, armed, guard, ssh, pidfile>>

\* Without its handler the signal ends the process where it stands.
SigtermDefault(p) ==
    /\ Live(p)
    /\ armed[p] = 0
    /\ Die(p, "sigterm")

OrphanEnds(p) ==
    /\ ssh[p] = "orphan"
    /\ ssh' = [ssh EXCEPT ![p] = "none"]
    /\ UNCHANGED <<stage, result, shell, bound, armed, guard, pidfile>>

-----------------------------------------------------------------------------
StartUp(p) ==
    \/ Detach(p) \/ DetachFails(p) \/ Resolve(p) \/ ResolveFails(p)
    \/ Bind(p) \/ BindOut(p) \/ BindFails(p)
    \/ WritePid(p) \/ WriteFails(p) \/ Install(p)
    \/ SpawnSsh(p) \/ SpawnFails(p) \/ Arm(p)

WindDown(p) == Terminated(p) \/ CloseListeners(p) \/ Exit(p)

Outside(p) == Sigkill(p) \/ SigtermHandled(p) \/ SigtermDefault(p) \/ OrphanEnds(p)

\* Every process has come to its end.
AllEnded ==
    /\ \A p \in Procs : stage[p] \in {"exited", "dead"}
    /\ UNCHANGED vars

Next ==
    \/ \E p \in Procs : Start(p) \/ StartUp(p) \/ Finish(p) \/ WindDown(p) \/ Outside(p)
    \/ AllEnded

Spec == Init /\ [][Next]_vars

-----------------------------------------------------------------------------
(* Type correctness *)

Stage == {"off", "detaching", "resolving", "binding", "binding_out", "writing",
          "installing", "spawning", "running", "stopping", "unwinding", "unlinking",
          "exited", "dead"}

Result == {"none", "ok", "ssh_not_found", "max_start", "bind", "pidfile", "logfile",
           "daemonize", "spawn", "io", "sigterm", "sigkill"}

TypeOK ==
    /\ stage \in [Procs -> Stage]
    /\ result \in [Procs -> Result]
    /\ shell \in [Procs -> {"nothing", "0", "1", "2", "signal"}]
    /\ bound \in [Procs -> SUBSET (1..PortMax)]
    /\ armed \in [Procs -> {0, 1}]
    /\ guard \in [Procs -> {0, 1}]
    /\ ssh \in [Procs -> {"none", "running", "orphan"}]
    /\ pidfile \in Procs \union {Nobody}

-----------------------------------------------------------------------------
(* Safety *)

\* A supervised ssh has the ports its forwards name to itself among these
\* processes, from its spawn to its end: no two instances ever probe through
\* each other's tunnels, not even while one winds down as the other starts.
OwnPorts ==
    \A p \in Procs :
        ssh[p] = "running" /\ Monitored(p) =>
            /\ Listens(p) \subseteq bound[p]
            /\ \A q \in Procs \ {p} : Listens(p) \intersect bound[q] = {}

\* The pidfile names a process that is alive and will remove it, or one that
\* was killed: no error path and no clean end leaves a stale pidfile.
PidfileTruthful ==
    \A p \in Procs :
        pidfile = p => (Live(p) /\ guard[p] = 1) \/ stage[p] = "dead"

\* Whatever the result with which a process exits, its ssh has been reaped and its
\* ports are free by then: only one that was killed leaves an ssh behind.
NothingLeft ==
    \A p \in Procs :
        /\ stage[p] = "exited" => ssh[p] = "none" /\ bound[p] = {}
        /\ ssh[p] = "orphan" => result[p] \in {"sigterm", "sigkill"}

\* The caller that has to do with the process itself, not with one that it has detached.
Detached(p) ==
    /\ p \in Background
    /\ stage[p] \notin {"off", "detaching"}
    /\ result[p] \notin {"logfile", "daemonize"}

\* It is told nothing before the end, 0 only of a run that ended as it should and has
\* left nothing to anybody, neither ssh nor port nor pidfile, and of each failure that
\* it is one.
CallerTold ==
    \A p \in Procs : ~Detached(p) =>
        /\ Live(p) => shell[p] = "nothing"
        /\ shell[p] = "0" =>
              result[p] = "ok" /\ ssh[p] = "none" /\ bound[p] = {} /\ pidfile # p
        /\ stage[p] = "exited" /\ result[p] # "ok" => shell[p] \in {"1", "2"}

\* What the documentation says of -f: the ports are bound and the pidfile is written
\* before the process detaches and its caller is told 0.
ReadyWhenDetached ==
    [][ \A p \in Procs :
           stage[p] = "detaching" /\ shell'[p] = "0" =>
               guard[p] = 1 /\ (Monitored(p) => Listens(p) \subseteq bound[p]) ]_vars

\* What the documentation says of SIGTERM: it is forwarded before the first ssh
\* is spawned, so that it never orphans one.
SigtermTakesSshAlong ==
    \A p \in Procs : ssh[p] = "orphan" => result[p] # "sigterm"

-----------------------------------------------------------------------------
(* Liveness *)

\* A process that has been started goes on, and ssh dies of the SIGKILL it gets
\* after its grace period.  Nothing makes a loop end, and nothing is assumed of
\* signals.
Fairness == \A p \in Procs : WF_vars(StartUp(p)) /\ WF_vars(WindDown(p))

FairSpec == Spec /\ Fairness

\* Whatever other processes hold, a start comes to a supervisor that can be
\* signalled, or to an end the caller is told of.
StartSettles ==
    \A p \in Procs :
        stage[p] \in {"detaching", "resolving"} ~>
            \/ stage[p] = "running" /\ armed[p] = 1
            \/ stage[p] \in {"exited", "dead"} /\ shell[p] # "nothing"

\* A SIGTERM that is handled ends the process, and with it its ssh and its
\* pidfile.
SigtermEnds ==
    \A p \in Procs :
        stage[p] = "stopping" ~>
            \/ stage[p] = "dead"
            \/ stage[p] = "exited" /\ ssh[p] = "none" /\ pidfile # p

=============================================================================
