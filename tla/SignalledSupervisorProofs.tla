---------------------- MODULE SignalledSupervisorProofs ----------------------
(***************************************************************************)
(* Proofs about the supervisor with its signals.  The joint behaviours are *)
(* behaviours of each of the two, so what is proved of them by themselves  *)
(* holds here; what relates them rests on the one channel they share.      *)
(***************************************************************************)
EXTENDS SignalledSupervisor, SupervisorProofs

\* SignalSource with what is proved of it.
Proved == INSTANCE SignalSourceProofs WITH Kinds <- Signals, ChannelCap <- SignalCap

Running == Source!Running

\* The glue of the two modules, on which what follows rests: the event queue of the
\* loop is the channel of the source without the raises, and the receiver is awaited
\* just where the loop selects.
OneChannel ==
    Running =>
        /\ Len(signalq) = Len(channel)
        /\ \A i \in DOMAIN channel : signalq[i] = channel[i].kind
        /\ receiver = "polling" <=> pc = "select"

-----------------------------------------------------------------------------
(* The two components *)

LEMMA JointIsSupervisor == [JointNext]_jointVars => [Next]_vars
<1> SUFFICES ASSUME [JointNext]_jointVars PROVE [Next]_vars
  OBVIOUS
<1>1. CASE Loop
  BY <1>1 DEF Loop, Enter, OtherBranch, TakeSignal, GoOn, Leave, Elsewhere, Next, Step
<1>2. CASE NoneLeft
  BY <1>2 DEF NoneLeft, Next, Environment
<1>3. ASSUME NEW k \in Signals, Forward(k) \/ System(k) PROVE [Next]_vars
  BY <1>3 DEF Forward, System, Next, Environment
<1>4. CASE World \/ Time
  BY <1>4 DEF World, Time, Next, Environment
<1>5. CASE UNCHANGED jointVars
  BY <1>5 DEF jointVars
<1> QED
  BY <1>1, <1>2, <1>3, <1>4, <1>5 DEF JointNext, Ended

LEMMA JointIsSource == [JointNext]_jointVars => [Proved!Next]_(Proved!vars)
<1> SUFFICES ASSUME [JointNext]_jointVars PROVE [Proved!Next]_(Proved!vars)
  OBVIOUS
<1>1. UNCHANGED sourceVars => UNCHANGED Proved!vars
  BY DEF sourceVars, Proved!vars
<1>2. CASE Loop
  <2>1. CASE Enter
    BY <2>1 DEF Enter, Source!Await, Proved!Await, Proved!Next, Proved!Select
  <2>2. CASE OtherBranch
    BY <2>2 DEF OtherBranch, Source!Leave, Proved!Leave, Proved!Next, Proved!Select
  <2>3. CASE TakeSignal
    BY <2>3
    DEF TakeSignal, Source!Receive, Proved!Receive, Proved!Next, Proved!Select
  <2>4. CASE GoOn
    BY <1>1, <2>4 DEF GoOn
  <2>5. CASE Leave
    BY <1>1, <2>5
    DEF Leave, LetGo, Source!DropReceiver, Proved!DropReceiver, Proved!Next, Proved!Select
  <2> QED
    BY <1>2, <2>1, <2>2, <2>3, <2>4, <2>5 DEF Loop
<1>3. CASE NoneLeft
  BY <1>3 DEF NoneLeft, Source!SendersGone, Proved!SendersGone, Proved!Next, Proved!Select
<1>4. ASSUME NEW k \in Signals, Forward(k) PROVE Proved!Next
  <2>1. \/ Proved!Register(k) \/ Proved!Take(k) \/ Proved!Send(k) \/ Proved!SendFails(k)
    BY <1>4
    DEF Forward,
        Source!Register, Proved!Register, Source!Alive, Proved!Alive,
        Source!Take, Proved!Take, Source!Running, Proved!Running,
        Source!Taken, Proved!Taken,
        Source!Send, Proved!Send, Source!Room, Proved!Room,
        Source!Loop, Proved!Loop, Source!Since, Proved!Since,
        Source!SendFails, Proved!SendFails
  <2> QED
    BY <2>1 DEF Proved!Next, Proved!Forward
<1>5. ASSUME NEW k \in Signals, System(k) PROVE Proved!Next
  <2>1. Proved!Notify(k) \/ Proved!Kill(k)
    BY <1>5
    DEF System, Source!Notify, Proved!Notify, Source!Kill, Proved!Kill,
        Source!Alive, Proved!Alive
  <2> QED
    BY <2>1 DEF Proved!Next, Proved!System
<1>6. CASE World \/ Time
  BY <1>1, <1>6 DEF World, Time
<1>7. CASE UNCHANGED jointVars
  BY <1>1, <1>7 DEF jointVars
<1> QED
  BY <1>2, <1>3, <1>4, <1>5, <1>6, <1>7 DEF JointNext, Ended

\* The supervisor with its signals is a supervisor: every theorem about Spec
\* holds of it.
THEOREM RefinesSupervisor == JointSpec => Spec
<1>1. JointInit => Init
  BY DEF JointInit
<1> QED
  BY <1>1, JointIsSupervisor, PTL DEF JointSpec, Spec

\* Nor does the loop do to the source of its signals what SignalSource would not.
THEOREM RefinesSource == JointSpec => Proved!Spec
<1>1. JointInit => Proved!Init
  BY DEF JointInit, Source!Init, Proved!Init
<1> QED
  BY <1>1, JointIsSource, PTL DEF JointSpec, Proved!Spec

LEMMA SourceInvariant == JointSpec => []Proved!IInv
<1>1. Proved!SourceAssumption
  BY ConstantsAssumption, RaiseAssumption
  DEF ConstantsAssumption, RaiseAssumption, Proved!SourceAssumption
<1> QED
  BY <1>1, RefinesSource, Proved!InductiveInvariant, PTL

-----------------------------------------------------------------------------
(* The channel they share *)

\* The steps outside of the select neither enter nor leave it.
LEMMA OutsideSelect ==
    ASSUME \/ Elsewhere \/ ProbeOk \/ ProbeIoError \/ ChildExits
           \/ Drain \/ DropReceiver \/ Tick
    PROVE  /\ UNCHANGED signalq
           /\ pc' = "select" <=> pc = "select"
           /\ ~(pc = "select" /\ pc' = "signal")
<1> USE DEF Move, Return, At, Decide, controlVars, clockVars, channelVars
<1>1. CASE Emit \/ SpawnFails \/ ArmProbe \/ LifetimeReached \/ HandleSignal \/ SendSigterm
  BY <1>1 DEF Emit, SpawnFails, ArmProbe, LifetimeReached, HandleSignal, SendSigterm,
     TerminateFirst
<1>2. CASE FirstSpawn \/ Respawn
  BY <1>2 DEF FirstSpawn, Respawn, SpawnChild
<1>3. CASE ProbeElapsed \/ ProbeOk \/ ProbeIoError
  BY <1>3 DEF ProbeElapsed, ProbeOk, ProbeIoError, ProbeEnds
<1>4. CASE ReapForProbe \/ ReapForRespawn \/ ReapAndReturn
  <2>1. At("grace") /\ UNCHANGED signalq
    BY <1>4 DEF ReapForProbe, ReapForRespawn, ReapAndReturn, Reap
  <2>2. pc' \in {"probe_exited", "respawn", "done"}
    BY <1>4 DEF ReapForProbe, ReapForRespawn, ReapAndReturn, SpawnNext
  <2> QED
    BY <2>1, <2>2
<1>5. CASE NaturalRespawn \/ ProbeRespawn \/ NaturalGiveUp \/ ProbeGiveUp
  BY <1>5 DEF NaturalRespawn, ProbeRespawn, NaturalGiveUp, ProbeGiveUp, StartBackoff, GiveUp
<1>6. CASE NaturalEnd \/ ProbeOneShot
  BY <1>6 DEF NaturalEnd, ProbeOneShot
<1>7. CASE Exhausted \/ BackoffOver
  BY <1>7 DEF Exhausted, BackoffOver
<1>8. CASE ChildExits \/ Drain \/ DropReceiver \/ Tick
  BY <1>8 DEF ChildExits, Drain, DropReceiver, Tick
<1> QED
  BY <1>1, <1>2, <1>3, <1>4, <1>5, <1>6, <1>7, <1>8 DEF Elsewhere

LEMMA ChannelStep ==
    ASSUME TypeOK, Proved!TypeOK, OneChannel, [JointNext]_jointVars
    PROVE  OneChannel'
<1> USE DEF OneChannel, Running, Source!Running
<1> SUFFICES ASSUME Running'
             PROVE  /\ Len(signalq') = Len(channel')
                    /\ \A i \in DOMAIN channel' : signalq'[i] = channel'[i].kind
                    /\ receiver' = "polling" <=> pc' = "select"
  OBVIOUS
<1>0. signalq \in Seq(SignalKind) /\ channel \in Seq(Proved!SignalEvent)
  BY DEF TypeOK, Proved!TypeOK
<1>1. CASE Enter
  BY <1>1 DEF Enter, EnterSelect, Move, channelVars, Source!Await
<1>2. CASE OtherBranch
  BY <1>2 DEF OtherBranch, SelectChild, SelectProbe, Move, channelVars, Source!Leave
<1>3. CASE TakeSignal
  <2>1. /\ Running /\ channel # <<>> /\ signalq # <<>>
        /\ signalq' = Tail(signalq) /\ channel' = Tail(channel)
        /\ receiver' = "busy" /\ pc' = "signal"
    BY <1>3 DEF TakeSignal, SelectSignal, Received, Source!Receive, Move
  <2>2. /\ Len(Tail(signalq)) = Len(Tail(channel))
        /\ \A i \in DOMAIN Tail(channel) :
               /\ i + 1 \in DOMAIN channel
               /\ Tail(channel)[i] = channel[i + 1] /\ Tail(signalq)[i] = signalq[i + 1]
    BY <1>0, <2>1
  <2> QED
    BY <2>1, <2>2
<1>4. CASE NoneLeft
  BY <1>4 DEF NoneLeft, Source!SendersGone
<1>5. CASE GoOn
  <2>1. UNCHANGED <<channel, receiver>>
    BY <1>5 DEF GoOn, sourceVars
  <2> QED
    BY <1>5, <2>1, OutsideSelect DEF GoOn
<1>6. CASE Leave
  <2>1. receiver' = "dropped"
    BY <1>6 DEF Leave, LetGo, sourceVars, Source!DropReceiver
  <2> QED
    BY <2>1
<1>7. ASSUME NEW k \in Signals, UNCHANGED vars,
             Source!Register(k) \/ Source!Take(k) \/ Source!SendFails(k)
      PROVE  OneChannel'
  <2>1. UNCHANGED <<signalq, pc>>
    BY <1>7 DEF vars, controlVars, channelVars
  <2>2. UNCHANGED <<channel, receiver>>
    BY <1>7 DEF Source!Register, Source!Take, Source!SendFails
  <2> QED
    BY <2>1, <2>2
<1>8. ASSUME NEW k \in Signals, Source!Send(k), SignalArrives(k) PROVE OneChannel'
  <2> DEFINE e == [kind |-> k, raise |-> held[k]]
  <2>1. /\ Running /\ UNCHANGED <<receiver, pc>>
        /\ signalq' = Append(signalq, k) /\ channel' = Append(channel, e)
    BY <1>8 DEF Source!Send, SignalArrives, controlVars
  <2>2. k \in SignalKind /\ e \in Proved!SignalEvent
    BY <1>8, ConstantsAssumption DEF ConstantsAssumption, Proved!SignalEvent, Proved!TypeOK
  <2>3. /\ Len(Append(signalq, k)) = Len(Append(channel, e))
        /\ \A i \in DOMAIN Append(channel, e) :
               \/ /\ i \in DOMAIN channel
                  /\ Append(channel, e)[i] = channel[i] /\ Append(signalq, k)[i] = signalq[i]
               \/ Append(channel, e)[i] = e /\ Append(signalq, k)[i] = k
    BY <1>0, <2>1, <2>2
  <2> QED
    BY <2>1, <2>3
<1>9. ASSUME NEW k \in Signals, System(k) PROVE OneChannel'
  BY <1>9 DEF System, Source!Notify, Source!Kill, vars, controlVars, channelVars
<1>10. CASE World \/ Time
  <2>1. UNCHANGED <<channel, receiver>>
    BY <1>10 DEF World, Time, sourceVars
  <2> QED
    BY <1>10, <2>1, OutsideSelect DEF World, Time
<1>11. CASE UNCHANGED jointVars
  BY <1>11 DEF jointVars, sourceVars, vars, controlVars, channelVars
<1>12. ASSUME NEW k \in Signals, Forward(k) PROVE OneChannel'
  BY <1>7, <1>8, <1>12 DEF Forward
<1> QED
  BY <1>1, <1>2, <1>3, <1>4, <1>5, <1>6, <1>9, <1>10, <1>11, <1>12
  DEF JointNext, Loop, Ended

LEMMA SharedChannel == JointSpec => []OneChannel
<1>1. JointInit => OneChannel
  BY DEF JointInit, Init, Source!Init, OneChannel
<1>2. Proved!IInv => Proved!TypeOK
  BY DEF Proved!IInv
<1> QED
  BY <1>1, <1>2, ChannelStep, TypeCorrect, RefinesSupervisor, SourceInvariant, PTL
  DEF JointSpec

-----------------------------------------------------------------------------
(* One raise, one handling *)

LEMMA HandlingStep ==
    ASSUME Proved!IInv, OneChannel, [JointNext]_jointVars, pc = "select", pc' = "signal"
    PROVE  \/ told[cause'] < told'[cause'] /\ told'[cause'] <= raised[cause']
           \/ cause' = "Terminate" /\ AllFailed
<1>1. CASE TakeSignal
  <2> DEFINE k == channel[1].kind
  <2>1. /\ Running /\ channel # <<>> /\ cause' = Head(signalq)
        /\ told' = [told EXCEPT ![Head(channel).kind] = Head(channel).raise]
    BY <1>1 DEF TakeSignal, SelectSignal, Received, Source!Receive, Move, Running,
       Source!Running
  <2>2. channel \in Seq(Proved!SignalEvent) /\ told \in [Signals -> 0..RaiseMax]
    BY DEF Proved!IInv, Proved!TypeOK
  <2>9. 1 \in DOMAIN channel /\ Head(channel) = channel[1]
        /\ channel[1] \in Proved!SignalEvent
    BY <2>1, <2>2
  <2>3. 1 \in DOMAIN channel /\ Head(channel) = channel[1]
        /\ k \in Signals /\ channel[1].raise \in 0..RaiseMax
    BY <2>9 DEF Proved!SignalEvent
  <2>4. cause' = k
    BY <2>1, <2>2, <2>3 DEF OneChannel
  <2>5. told'[k] = channel[1].raise
    BY <2>1, <2>2, <2>3
  <2>6. told[k] < channel[1].raise
    BY <2>3 DEF Proved!IInv, Proved!NoPhantomSignal
  <2>7. channel[1].raise < raised[k] + 1
    BY <2>3 DEF Proved!IInv, Proved!FreshNews, Proved!OlderThan
  <2>8. raised[k] \in 0..RaiseMax
    BY <2>3 DEF Proved!IInv, Proved!TypeOK
  <2> QED
    BY <2>3, <2>4, <2>5, <2>6, <2>7, <2>8, RaiseAssumption DEF RaiseAssumption
<1>2. CASE NoneLeft
  BY <1>2 DEF NoneLeft, SendersGone, Move, Source!SendersGone, AllFailed
<1>3. CASE Enter \/ OtherBranch
  BY <1>3 DEF Enter, OtherBranch, EnterSelect, SelectChild, SelectProbe, Move, At
<1>4. CASE GoOn \/ Leave \/ World \/ Time
  BY <1>4, OutsideSelect DEF GoOn, Leave, World, Time
<1>5. ASSUME NEW k \in Signals, Forward(k) \/ System(k) PROVE UNCHANGED pc
  BY <1>5 DEF Forward, System, SignalArrives, vars, controlVars
<1>6. CASE UNCHANGED jointVars
  BY <1>6 DEF jointVars, vars, controlVars
<1> QED
  BY <1>1, <1>2, <1>3, <1>4, <1>5, <1>6 DEF JointNext, Loop, Ended

\* The loop acts on every raise at most once, and on nothing else.
THEOREM HandledOnce == JointSpec => OneHandlingPerRaise
<1>1. Proved!IInv /\ OneChannel /\ [JointNext]_jointVars
        => [ pc = "select" /\ pc' = "signal" =>
               \/ told[cause'] < told'[cause'] /\ told'[cause'] <= raised[cause']
               \/ cause' = "Terminate" /\ AllFailed ]_jointVars
  BY HandlingStep
<1> QED
  BY <1>1, SharedChannel, SourceInvariant, PTL DEF JointSpec, OneHandlingPerRaise

\* The signals change nothing about the ssh processes: none is left behind.
THEOREM StillSingleChild == JointSpec => []NoOrphan
  BY RefinesSupervisor, SingleChild, PTL

\* Whichever signals are sent and however they interleave with the loop, the contract
\* is kept, and after the signal that stops it nothing is told or launched.
THEOREM StillKeepsContract == JointSpec => ContractSpec /\ LastWord
  BY RefinesSupervisor, ImplementsContract, StopIsFinal, PTL

=============================================================================
