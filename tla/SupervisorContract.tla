------------------------- MODULE SupervisorContract -------------------------
(***************************************************************************)
(* What SshSupervisor::run promises an operator who watches the ssh        *)
(* process and a consumer who reads the event stream, without the timers,  *)
(* the channels and the control of the loop that implements it.            *)
(*                                                                         *)
(*   - There is at most one ssh process: one is launched only when the     *)
(*     previous one has been reaped, and none is left behind at the end.   *)
(*   - A launch is told of, once, before anything else is told or done.    *)
(*   - A running ssh is killed only after the consumer was told why.       *)
(*   - The event stream follows a grammar, tied to the state of ssh.       *)
(*   - The outcome of run() matches the last thing the consumer was told.  *)
(***************************************************************************)

VARIABLES
    ssh,       \* the one ssh process: none, running, or exited unreaped
    last,      \* the last event told
    owed,      \* the events the consumer has yet to hear of the launch
    outcome    \* of run()

contractVars == <<ssh, last, owed, outcome>>

\* The kinds of signal, and what is told last of all.
StopKinds == {"Terminate", "Interrupt", "CtrlBreak"}
RespawnKinds == {"UserDefined1", "Hangup"}
Final == StopKinds \cup {"MaxLifetimeReached", "MaxStartReached"}
Reasons == {"ProbeTimeout", "MaxLifetimeReached"} \cup StopKinds \cup RespawnKinds

\* The consumer believes that a child is up, that it must be replaced, or that
\* a running child is to be killed.
ToldUp == last \in {"ChildSpawned", "ChildRespawned"}
ToldToLaunch == last \in {"none", "ChildExited"} \cup RespawnKinds
ToldToKill == last \in Reasons

Dead == ssh \in {"ok", "fail"}

Init ==
    /\ ssh = "none"
    /\ last = "none"
    /\ owed = {}
    /\ outcome = "none"

\* A child is launched in the place of none.
Launch ==
    /\ outcome = "none"
    /\ ssh = "none"
    /\ ToldToLaunch
    /\ ssh' = "running"
    /\ owed' = {"ChildSpawned"} \cup (IF last = "none" THEN {} ELSE {"ChildRespawned"})
    /\ UNCHANGED <<last, outcome>>

Die ==
    /\ ssh = "running"
    /\ ssh' \in {"ok", "fail"}
    /\ UNCHANGED <<last, owed, outcome>>

\* A dead child is collected once its exit was told; any child is killed and
\* collected once the reason for killing it was told.
Collect ==
    /\ outcome = "none"
    /\ owed = {}
    /\ \/ Dead /\ last = "ChildExited"
       \/ ssh # "none" /\ ToldToKill
    /\ ssh' = "none"
    /\ UNCHANGED <<last, owed, outcome>>

Tell(e) ==
    /\ outcome = "none"
    /\ last' = e
    /\ UNCHANGED <<ssh, outcome>>

TellSpawned ==
    /\ "ChildSpawned" \in owed
    /\ owed' = owed \ {"ChildSpawned"}
    /\ Tell("ChildSpawned")

TellRespawned ==
    /\ owed = {"ChildRespawned"}
    /\ owed' = {}
    /\ Tell("ChildRespawned")

\* A natural exit is told of an unreaped child, the exit after a failed probe
\* of one that has been reaped.
TellExited ==
    /\ owed = {}
    /\ \/ ToldUp /\ Dead
       \/ last = "ProbeTimeout" /\ ssh = "none"
    /\ Tell("ChildExited")
    /\ UNCHANGED owed

\* A probe failed, a signal came or the lifetime is over.
TellReason ==
    /\ owed = {}
    /\ ToldUp
    /\ ssh # "none"
    /\ \E e \in Reasons : Tell(e)
    /\ UNCHANGED owed

TellExhausted ==
    /\ last = "ChildExited"
    /\ ssh = "none"
    /\ Tell("MaxStartReached")
    /\ UNCHANGED owed

\* run() returns, and no ssh process outlives it.  A child that failed unasked
\* never ends it with success.
Stop ==
    /\ outcome = "none"
    /\ owed = {}
    /\ \/ /\ outcome' = "ok"
          /\ \/ last \in StopKinds \cup {"MaxLifetimeReached"}
             \/ last = "ChildExited" /\ ssh \in {"none", "ok"}
       \/ /\ outcome' = "maxstart"
          /\ \/ last = "MaxStartReached" /\ ssh = "none"
             \/ last = "ChildExited" /\ ssh = "fail"
       \/ /\ outcome' = "io"
          /\ ToldToLaunch /\ ssh = "none"
    /\ ssh' = "none"
    /\ UNCHANGED <<last, owed>>

Next ==
    \/ Launch \/ Die \/ Collect
    \/ TellSpawned \/ TellRespawned \/ TellExited \/ TellReason \/ TellExhausted
    \/ Stop

Spec == Init /\ [][Next]_contractVars

-----------------------------------------------------------------------------
(* What an operator and a consumer can rely on *)

TypeOK ==
    /\ ssh \in {"none", "running", "ok", "fail"}
    /\ last \in {"none", "ChildSpawned", "ChildRespawned", "ChildExited"}
                 \cup Reasons \cup Final
    /\ owed \subseteq {"ChildSpawned", "ChildRespawned"}
    /\ outcome \in {"none", "ok", "maxstart", "io"}

\* Once a stop signal, the end of the lifetime or the cap was told, nothing more is
\* told and no ssh is launched, whatever is queued or goes wrong on the way out.
LastWord ==
    [][ (last \in Final)
          => last' = last /\ (ssh' = "running" => ssh = "running") ]_contractVars

\* The events that may follow an event.
Followers(e) ==
    CASE e = "none" -> {"ChildSpawned"}
      [] e = "ChildSpawned" -> {"ChildRespawned", "ChildExited"} \cup Reasons
      [] e = "ChildRespawned" -> {"ChildExited"} \cup Reasons
      [] e = "ChildExited" -> {"ChildSpawned", "MaxStartReached"}
      [] e = "ProbeTimeout" -> {"ChildExited"}
      [] e \in RespawnKinds -> {"ChildSpawned"}
      [] e \in Final -> {}

\* The event stream is a word of this grammar.
Grammar == [][ last' # last => last' \in Followers(last) ]_contractVars

\* No launch is kept from the consumer: until it has been told, the child is not
\* collected, run() does not return, and nothing else is told.
LaunchesTold ==
    [][ ("ChildSpawned" \in owed) =>
          /\ ssh' # "none" /\ outcome' = "none"
          /\ last' \in {last, "ChildSpawned"} ]_contractVars

\* The outcome of run() is one that the last event announced, and no ssh is left.
OutcomeTold ==
    /\ outcome = "ok" => last \in StopKinds \cup {"MaxLifetimeReached", "ChildExited"}
    /\ outcome = "maxstart" => last \in {"MaxStartReached", "ChildExited"}
    /\ outcome = "io" => ToldToLaunch
    /\ outcome # "none" => ssh = "none" /\ owed = {}

=============================================================================
