------------------------- MODULE SignalledSupervisor -------------------------
(***************************************************************************)
(* The supervisor loop together with the source of its signals: Supervisor *)
(* lets any signal appear in its queue at any time, here each is sent by a *)
(* forwarder of SignalSource.                                              *)
(*                                                                         *)
(* The two share the signal channel: signalq is what the loop sees of it,  *)
(* channel is the same events with the raises they stand for.  A forwarder *)
(* that sends fills both; the branches of the select are steps of both,    *)
(* and so is the return of run(), which drops the receiver.  A signal that *)
(* comes before its handler is installed ends the process, not its ssh.    *)
(***************************************************************************)
EXTENDS Supervisor

CONSTANT RaiseMax  \* bound: how often one kind is raised

ASSUME RaiseAssumption == RaiseMax \in Nat

\* The state of SignalSource.
VARIABLES forwarder, pending, held, waiters, channel, receiver, raised, told

sourceVars == <<forwarder, pending, held, waiters, channel, receiver, raised, told>>
jointVars == <<vars, sourceVars>>

Source == INSTANCE SignalSource WITH Kinds <- Signals, ChannelCap <- SignalCap

JointInit == Init /\ Source!Init

-----------------------------------------------------------------------------
(* The select, seen from both sides *)

Enter == EnterSelect /\ Source!Await
OtherBranch == (SelectChild \/ SelectProbe) /\ Source!Leave
NoneLeft == SendersGone /\ Source!SendersGone

TakeSignal == SelectSignal /\ Source!Receive

Elsewhere ==
    \/ Emit
    \/ FirstSpawn \/ Respawn \/ SpawnFails \/ ArmProbe
    \/ LifetimeReached
    \/ ProbeElapsed
    \/ HandleSignal
    \/ SendSigterm \/ ReapForProbe \/ ReapForRespawn \/ ReapAndReturn
    \/ NaturalRespawn \/ NaturalGiveUp \/ NaturalEnd
    \/ ProbeRespawn \/ ProbeGiveUp \/ ProbeOneShot
    \/ Exhausted \/ BackoffOver

GoOn == Elsewhere /\ pc' # "done" /\ UNCHANGED sourceVars

\* The receiver is dropped, unless it has seen its senders go.
LetGo == IF receiver = "dropped" THEN UNCHANGED sourceVars ELSE Source!DropReceiver
Leave == Elsewhere /\ pc' = "done" /\ LetGo

Loop == Source!Alive /\ (Enter \/ OtherBranch \/ TakeSignal \/ GoOn \/ Leave)

-----------------------------------------------------------------------------
(* The forwarders, and the rest of the world *)

Forward(k) ==
    \/ (Source!Register(k) \/ Source!Take(k) \/ Source!SendFails(k)) /\ UNCHANGED vars
    \/ Source!Send(k) /\ SignalArrives(k)

System(k) == (Source!Notify(k) \/ Source!Kill(k)) /\ UNCHANGED vars

\* An ssh goes on without its supervisor.
World ==
    \/ Source!Alive /\ (ProbeOk \/ ProbeIoError \/ Drain \/ DropReceiver) /\ UNCHANGED sourceVars
    \/ ChildExits /\ UNCHANGED sourceVars

Time == Source!Alive /\ Tick /\ UNCHANGED sourceVars

\* run() has returned, or the process is gone.
Ended == (pc = "done" \/ ~Source!Alive) /\ UNCHANGED jointVars

-----------------------------------------------------------------------------
JointNext ==
    \/ Loop
    \/ Source!Alive /\ NoneLeft
    \/ \E k \in Signals : Forward(k) \/ System(k)
    \/ World \/ Time \/ Ended

JointSpec == JointInit /\ [][JointNext]_jointVars

\* As in the two modules: the runtime polls what is ready, time passes, the
\* consumer receives, and no child forever exits just before it is waited for.
JointFairness ==
    /\ WF_jointVars(Loop)
    /\ WF_jointVars(Time)
    /\ SF_jointVars(Source!Alive /\ TakeSignal)
    /\ WF_jointVars(Source!Alive /\ Drain /\ UNCHANGED sourceVars)
    /\ \A k \in Signals : WF_jointVars(Forward(k))

FairJointSpec == JointSpec /\ JointFairness

-----------------------------------------------------------------------------
(* Properties *)

AllFailed == \A k \in Signals : forwarder[k] \in {"failed", "ended"}

\* One raise, one handling: the loop acts on a signal only for raises it has not
\* acted on before, so no SIGUSR1 respawns two children; without a raise it acts
\* only when there is no forwarder at all.
OneHandlingPerRaise ==
    [][ pc = "select" /\ pc' = "signal" =>
          \/ told[cause'] < told'[cause'] /\ told'[cause'] <= raised[cause']
          \/ cause' = "Terminate" /\ AllFailed ]_jointVars

\* A stop signal that is caught ends the run, behind whatever else is queued for
\* the loop and whatever the loop is doing; unless a signal that is not caught
\* ends the process first, or every child exits before it is first waited for.
StopHonoured ==
    (<>[](pc # "arm") \/ []<>(At("select") /\ Alive))
      => \A k \in StopSignals \cap Signals :
             raised[k] > 0 ~> (pc = "done" \/ receiver = "killed")

=============================================================================
