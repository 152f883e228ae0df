-------------------------- MODULE SupervisorProofs --------------------------
(***************************************************************************)
(* Proofs about the supervisor loop, for every value of its constants.     *)
(***************************************************************************)
EXTENDS SupervisorInvariant, TLAPS

USE DEF Unlimited, Off, StopSignals, RespawnSignals, SignalKind, Event, Cause, Label

-----------------------------------------------------------------------------
(* Type correctness *)

LEMMA HorizonType == Horizon \in Nat
  BY ConstantsAssumption DEF Horizon, ConstantsAssumption

\* Taking the first event off an outbox leaves an outbox.
LEMMA OutboxTail ==
    ASSUME NEW box \in Seq(Event), box # <<>>
    PROVE  Head(box) \in Event /\ Tail(box) \in Seq(Event)
  OBVIOUS

\* The same for the signal channel, and what appending to it does.
LEMMA QueueTail ==
    ASSUME NEW q \in Seq(SignalKind), q # <<>>
    PROVE  /\ Head(q) \in SignalKind
           /\ Tail(q) \in Seq(SignalKind)
           /\ Len(Tail(q)) <= Len(q)
  OBVIOUS

LEMMA QueueAppend ==
    ASSUME NEW q \in Seq(SignalKind), NEW k \in SignalKind
    PROVE  Append(q, k) \in Seq(SignalKind) /\ Len(Append(q, k)) = Len(q) + 1
  OBVIOUS

LEMMA CountType ==
    ASSUME TypeOK, NEW status, NEW life \in 0..GateTime
    PROVE  RetryAfter(status, life) \in 0..RetryMax
  BY ConstantsAssumption
  DEF RetryAfter, Count, Least, TypeOK, ConstantsAssumption

\* The two cases in which run() returns with its child.
CleanExit ==
    /\ At("exited") /\ child = "ok" /\ ~Monitored
    /\ Return("ok", 0)
    /\ UNCHANGED timer
    /\ Decide("ok", lifetime)

OneShotFailed ==
    /\ At("exited") /\ child = "fail" /\ OneShot
    /\ Return("maxstart", OneShotAttempts)
    /\ UNCHANGED timer
    /\ Decide("fail", lifetime)

LEMMA EndCases == NaturalEnd => CleanExit \/ OneShotFailed
<1>1. CASE child = "ok"
  BY <1>1 DEF NaturalEnd, CleanExit
<1>2. CASE child = "fail"
  BY <1>2 DEF NaturalEnd, OneShotFailed
<1> QED
  BY <1>1, <1>2 DEF NaturalEnd, Exited

LEMMA TypeAtStart == Init => TypeOK
  BY ConstantsAssumption, HorizonType DEF Init, TypeOK, ConstantsAssumption

LEMMA TypeStep == TypeOK /\ [Next]_vars => TypeOK'
<1> USE ConstantsAssumption, HorizonType DEF ConstantsAssumption
<1> SUFFICES ASSUME TypeOK, [Next]_vars PROVE TypeOK'
  OBVIOUS
<1> USE DEF TypeOK, Move, Return, DropChild, At, Alive, Exited
<1> USE DEF controlVars, childVars, clockVars, channelVars
<1>1. CASE Emit
  BY <1>1, OutboxTail DEF Emit, HasRoom
<1>2. CASE FirstSpawn
  BY <1>2 DEF FirstSpawn, SpawnChild
<1>3. CASE Respawn
  BY <1>3 DEF Respawn, SpawnChild
<1>4. CASE SpawnFails
  BY <1>4 DEF SpawnFails
<1>5. CASE ArmProbe
  BY <1>5 DEF ArmProbe, FirstProbe
<1>6. CASE LifetimeReached
  BY <1>6 DEF LifetimeReached
<1>7. CASE EnterSelect
  BY <1>7 DEF EnterSelect
<1>8. CASE SelectChild
  BY <1>8 DEF SelectChild, ExitTold
<1>9. CASE SelectProbe
  BY <1>9 DEF SelectProbe
<1>10. CASE SelectSignal
  BY <1>10, QueueTail DEF SelectSignal, Received
<1>11. CASE ProbeOk
  BY <1>11 DEF ProbeOk, ProbeEnds
<1>30. CASE ProbeElapsed
  BY <1>30 DEF ProbeElapsed, ProbeEnds
<1>31. CASE ProbeIoError
  BY <1>31 DEF ProbeIoError, ProbeEnds
<1>12. CASE HandleSignal
  BY <1>12 DEF HandleSignal, TerminateFirst
<1>13. CASE SendSigterm
  BY <1>13 DEF SendSigterm
<1>14. CASE ReapForProbe
  BY <1>14 DEF ReapForProbe, Reap
<1>15. CASE ReapForRespawn
  BY <1>15 DEF ReapForRespawn, Reap, SpawnNext
<1>16. CASE ReapAndReturn
  BY <1>16 DEF ReapAndReturn, Reap
<1>17. ASSUME NEW status, NEW life \in 0..GateTime,
              StartBackoff(status, life) \/ GiveUp(status, life)
       PROVE  TypeOK'
  <2>1. RetryAfter(status, life) \in 0..RetryMax
    BY CountType
  <2>2. CASE StartBackoff(status, life)
    BY <2>1, <2>2 DEF StartBackoff, Decide, Backoff
  <2>3. CASE GiveUp(status, life)
    BY <2>1, <2>3 DEF GiveUp, Decide
  <2> QED
    BY <1>17, <2>2, <2>3
<1>25. CASE NaturalRespawn \/ ProbeRespawn \/ NaturalGiveUp \/ ProbeGiveUp
  BY <1>25, <1>17 DEF NaturalRespawn, ProbeRespawn, NaturalGiveUp, ProbeGiveUp
<1>26. CASE CleanExit
  <2>1. RetryAfter("ok", lifetime) \in 0..RetryMax
    BY CountType
  <2> QED
    BY <1>26, <2>1 DEF CleanExit, Decide
<1>27. CASE OneShotFailed
  <2>1. RetryAfter("fail", lifetime) \in 0..RetryMax
    BY CountType
  <2> QED
    BY <1>27, <2>1 DEF OneShotFailed, Decide, OneShotAttempts
<1>28. CASE ProbeOneShot
  <2>1. RetryAfter("fail", age) \in 0..RetryMax
    BY CountType
  <2> QED
    BY <1>28, <2>1 DEF ProbeOneShot, Decide
<1>18. CASE Exhausted
  BY <1>18 DEF Exhausted
<1>19. CASE BackoffOver
  BY <1>19 DEF BackoffOver
<1>20. CASE ChildExits
  BY <1>20 DEF ChildExits
<1>21. ASSUME NEW k \in Signals, SignalArrives(k) PROVE TypeOK'
  BY <1>21, QueueAppend DEF SignalArrives
<1>22. CASE Drain
  BY <1>22 DEF Drain
<1>29. CASE DropReceiver
  BY <1>29 DEF DropReceiver
<1>23. CASE Tick
  BY <1>23 DEF Tick, Least, Less1
<1>32. CASE SendersGone
  BY <1>32 DEF SendersGone
<1>24. CASE UNCHANGED vars
  BY <1>24 DEF vars
<1> QED
  BY <1>1, <1>2, <1>3, <1>4, <1>5, <1>6, <1>7, <1>8, <1>9, <1>10, <1>11,
     <1>12, <1>13, <1>14, <1>15, <1>16, <1>17, <1>18, <1>19, <1>20, <1>21,
     <1>22, <1>23, <1>24, <1>25, <1>26, <1>27, <1>28, <1>29, <1>30, <1>31,
     <1>32, EndCases
  DEF Next, Step, Environment, Finished

\* Every variable keeps its type.
THEOREM TypeCorrect == Spec => []TypeOK
<1> QED
  BY TypeAtStart, TypeStep, PTL DEF Spec

-----------------------------------------------------------------------------
(* The inductive invariant *)

\* Sending the events of an outbox one at a time.
LEMMA SendOne ==
    ASSUME NEW e
    PROVE  Head(<<e>>) = e /\ Tail(<<e>>) = <<>>
  OBVIOUS

LEMMA SendTwo ==
    ASSUME NEW e, NEW f
    PROVE  Head(<<e, f>>) = e /\ Tail(<<e, f>>) = <<f>>
  OBVIOUS

LEMMA PlaceStep == IInv /\ [Next]_vars => NoOrphan' /\ PlaceInv'
<1> SUFFICES ASSUME IInv, [Next]_vars PROVE NoOrphan' /\ PlaceInv'
  OBVIOUS
<1> USE DEF IInv, TypeOK, NoOrphan, PlaceInv, ToldUp, Telling, Reason
<1> USE DEF Move, Return, DropChild, At, Alive, Exited
<1> USE DEF controlVars, childVars, clockVars, channelVars
<1>1. CASE Emit
  <2>1. /\ outbox # <<>> /\ last' = Head(outbox) /\ outbox' = Tail(outbox)
        /\ UNCHANGED <<pc, cause, child, result, orphans>>
    BY <1>1 DEF Emit
  <2>2. CASE pc = "arm"
    <3>1. CASE outbox = <<"ChildSpawned", "ChildRespawned">>
      BY <2>1, <2>2, <3>1, SendTwo
    <3>2. CASE outbox = <<"ChildSpawned">>
      BY <2>1, <2>2, <3>2, SendOne
    <3>3. CASE outbox = <<"ChildRespawned">>
      BY <2>1, <2>2, <3>3, SendOne
    <3> QED
      BY <2>1, <2>2, <3>1, <3>2, <3>3
  <2>3. ASSUME NEW e, outbox = <<e>> PROVE last' = e /\ outbox' = <<>>
    BY <2>1, <2>3, SendOne
  <2>4. CASE pc \in {"exited", "probe_exited", "exhausted"}
    BY <2>1, <2>3, <2>4
  <2>5. CASE pc = "signal"
    BY <2>1, <2>3, <2>5
  <2>6. CASE pc = "terminate"
    <3>1. outbox = <<Reason(cause)>>
      BY <2>1, <2>6
    <3>2. last' = Reason(cause) /\ outbox' = <<>> /\ Reason(cause)' = Reason(cause)
      BY <2>1, <2>3, <3>1
    <3> QED
      BY <2>1, <2>6, <3>2
  <2> QED
    BY <2>1, <2>2, <2>4, <2>5, <2>6
<1>2. CASE FirstSpawn
  BY <1>2 DEF FirstSpawn, SpawnChild
<1>3. CASE Respawn
  BY <1>3 DEF Respawn, SpawnChild
<1>4. CASE SpawnFails
  BY <1>4 DEF SpawnFails
<1>5. CASE ArmProbe
  BY <1>5 DEF ArmProbe
<1>6. CASE LifetimeReached
  BY <1>6 DEF LifetimeReached
<1>7. CASE EnterSelect
  BY <1>7 DEF EnterSelect
<1>8. CASE SelectChild
  BY <1>8 DEF SelectChild, ExitTold
<1>9. CASE SelectProbe
  BY <1>9 DEF SelectProbe
<1>10. CASE SelectSignal
  BY <1>10, QueueTail DEF SelectSignal, Received
<1>11. CASE ProbeOk
  BY <1>11 DEF ProbeOk, ProbeEnds
<1>12. CASE ProbeElapsed
  BY <1>12 DEF ProbeElapsed, ProbeEnds
<1>13. CASE ProbeIoError
  BY <1>13 DEF ProbeIoError, ProbeEnds
<1>14. CASE HandleSignal
  BY <1>14 DEF HandleSignal, TerminateFirst
<1>15. CASE SendSigterm
  BY <1>15 DEF SendSigterm
<1>16. CASE ReapForProbe
  BY <1>16 DEF ReapForProbe, Reap
<1>17. CASE ReapForRespawn
  BY <1>17 DEF ReapForRespawn, Reap, SpawnNext
<1>18. CASE ReapAndReturn
  BY <1>18 DEF ReapAndReturn, Reap
<1>19. CASE NaturalRespawn
  BY <1>19 DEF NaturalRespawn, StartBackoff, Decide
<1>20. CASE ProbeRespawn
  BY <1>20 DEF ProbeRespawn, StartBackoff, Decide
<1>21. CASE NaturalGiveUp
  BY <1>21 DEF NaturalGiveUp, GiveUp, Decide
<1>22. CASE ProbeGiveUp
  BY <1>22 DEF ProbeGiveUp, GiveUp, Decide
<1>23. CASE CleanExit
  BY <1>23 DEF CleanExit, Decide
<1>24. CASE OneShotFailed
  BY <1>24 DEF OneShotFailed, Decide
<1>25. CASE ProbeOneShot
  BY <1>25 DEF ProbeOneShot, Decide
<1>26. CASE Exhausted
  BY <1>26 DEF Exhausted
<1>27. CASE BackoffOver
  BY <1>27 DEF BackoffOver
<1>28. CASE ChildExits
  BY <1>28 DEF ChildExits
<1>29. ASSUME NEW k \in Signals, SignalArrives(k) PROVE NoOrphan' /\ PlaceInv'
  BY <1>29 DEF SignalArrives
<1>30. CASE Drain
  BY <1>30 DEF Drain
<1>31. CASE DropReceiver
  BY <1>31 DEF DropReceiver
<1>32. CASE Tick
  BY <1>32 DEF Tick
<1>33. CASE UNCHANGED vars
  BY <1>33 DEF vars
<1>34. CASE SendersGone
  BY <1>34 DEF SendersGone
<1> QED
  BY <1>1, <1>2, <1>3, <1>4, <1>5, <1>6, <1>7, <1>8, <1>9, <1>10, <1>11,
     <1>12, <1>13, <1>14, <1>15, <1>16, <1>17, <1>18, <1>19, <1>20, <1>21,
     <1>22, <1>23, <1>24, <1>25, <1>26, <1>27, <1>28, <1>29, <1>30, <1>31,
     <1>32, <1>33, <1>34, EndCases
  DEF Next, Step, Environment, Finished

\* What a step that neither judges a child nor serves a signal leaves alone.
LEMMA BudgetKept ==
    ASSUME IInv,
           \/ Emit \/ FirstSpawn \/ Respawn \/ ArmProbe \/ LifetimeReached
           \/ EnterSelect \/ SelectChild \/ SelectProbe \/ SelectSignal \/ SendersGone
           \/ ProbeOk \/ ProbeElapsed \/ ProbeIoError
           \/ SendSigterm \/ ReapForProbe \/ ReapForRespawn \/ BackoffOver
           \/ ChildExits \/ (\E k \in Signals : SignalArrives(k))
           \/ Drain \/ DropReceiver \/ Tick \/ UNCHANGED vars
    PROVE  /\ UNCHANGED <<retry, result, attempts>>
           /\ pc' = "exhausted" <=> pc = "exhausted"
           /\ pc' = "done" <=> pc = "done"
<1> USE DEF Move, At, controlVars, childVars, clockVars, channelVars, vars
<1> USE DEF IInv, TypeOK
<1>1. CASE Emit \/ ArmProbe \/ LifetimeReached \/ EnterSelect
  BY <1>1 DEF Emit, ArmProbe, LifetimeReached, EnterSelect
<1>2. CASE FirstSpawn \/ Respawn
  BY <1>2 DEF FirstSpawn, Respawn, SpawnChild
<1>3. CASE SelectChild \/ SelectProbe \/ SelectSignal \/ SendersGone
  BY <1>3 DEF SelectChild, SelectProbe, SelectSignal, SendersGone
<1>4. CASE ProbeOk \/ ProbeElapsed \/ ProbeIoError
  BY <1>4 DEF ProbeOk, ProbeElapsed, ProbeIoError, ProbeEnds
<1>5. CASE SendSigterm \/ ReapForProbe \/ ReapForRespawn \/ BackoffOver
  BY <1>5 DEF SendSigterm, ReapForProbe, ReapForRespawn, Reap, SpawnNext, BackoffOver
<1>6. CASE ChildExits \/ (\E k \in Signals : SignalArrives(k)) \/ Drain \/ DropReceiver
  BY <1>6 DEF ChildExits, SignalArrives, Drain, DropReceiver
<1>7. CASE Tick \/ UNCHANGED vars
  BY <1>7 DEF Tick
<1> QED
  BY <1>1, <1>2, <1>3, <1>4, <1>5, <1>6, <1>7

LEMMA BudgetStep == IInv /\ [Next]_vars => BudgetInv'
<1> SUFFICES ASSUME IInv, [Next]_vars PROVE BudgetInv'
  OBVIOUS
<1> USE ConstantsAssumption DEF ConstantsAssumption, IInv, TypeOK, BudgetInv
<1> USE DEF Move, Return, At, controlVars, childVars, clockVars, channelVars, vars
<1>1. CASE \/ Emit \/ FirstSpawn \/ Respawn \/ ArmProbe \/ LifetimeReached
           \/ EnterSelect \/ SelectChild \/ SelectProbe \/ SelectSignal \/ SendersGone
           \/ ProbeOk \/ ProbeElapsed \/ ProbeIoError
           \/ SendSigterm \/ ReapForProbe \/ ReapForRespawn \/ BackoffOver
           \/ ChildExits \/ (\E k \in Signals : SignalArrives(k))
           \/ Drain \/ DropReceiver \/ Tick \/ UNCHANGED vars
  BY <1>1, BudgetKept
<1>2. CASE SpawnFails \/ ReapAndReturn
  BY <1>2 DEF SpawnFails, ReapAndReturn, Reap
<1>3. CASE HandleSignal
  BY <1>3 DEF HandleSignal, TerminateFirst, PlaceInv
<1>4. ASSUME NEW status, NEW life \in 0..GateTime, pc \notin {"exhausted", "done"},
             StartBackoff(status, life)
      PROVE  BudgetInv'
  BY <1>4
  DEF StartBackoff, Decide, RetryAfter, Count, CapReached, AtCap, Least, PlaceInv
<1>5. ASSUME NEW status, NEW life \in 0..GateTime, pc \notin {"exhausted", "done"},
             GiveUp(status, life)
      PROVE  BudgetInv'
  BY <1>5
  DEF GiveUp, Decide, RetryAfter, Count, CapReached, AtCap, Least, PlaceInv
<1>6. CASE NaturalRespawn \/ ProbeRespawn
  BY <1>4, <1>6 DEF NaturalRespawn, ProbeRespawn
<1>7. CASE NaturalGiveUp \/ ProbeGiveUp
  BY <1>5, <1>7 DEF NaturalGiveUp, ProbeGiveUp
<1>8. CASE CleanExit \/ ProbeOneShot
  BY <1>8 DEF CleanExit, ProbeOneShot
<1>9. CASE OneShotFailed
  BY <1>9 DEF OneShotFailed, OneShotAttempts
<1>10. CASE Exhausted
  BY <1>10 DEF Exhausted
<1> QED
  BY <1>1, <1>2, <1>3, <1>6, <1>7, <1>8, <1>9, <1>10, EndCases
  DEF Next, Step, Environment, Finished

LEMMA ClockStep == IInv /\ [Next]_vars => ClockInv'
<1> SUFFICES ASSUME IInv, [Next]_vars PROVE ClockInv'
  OBVIOUS
<1> USE ConstantsAssumption DEF ConstantsAssumption, IInv, TypeOK, ClockInv
<1> USE DEF Move, Return, DropChild, At, Alive, Exited
<1> USE DEF controlVars, childVars, clockVars, channelVars, vars
<1>1. CASE Emit
  BY <1>1 DEF Emit, PlaceInv
<1>2. CASE FirstSpawn \/ Respawn
  BY <1>2 DEF FirstSpawn, Respawn, SpawnChild
<1>3. CASE SpawnFails \/ ArmProbe \/ LifetimeReached \/ EnterSelect
  BY <1>3 DEF SpawnFails, ArmProbe, LifetimeReached, EnterSelect
<1>4. CASE SelectChild \/ SelectProbe \/ SelectSignal \/ SendersGone
  <2>1. CASE SelectChild
    BY <2>1 DEF SelectChild
  <2>2. CASE SelectProbe
    BY <2>2 DEF SelectProbe
  <2>3. CASE SelectSignal
    BY <2>3 DEF SelectSignal, Received
  <2>4. CASE SendersGone
    BY <2>4 DEF SendersGone
  <2> QED
    BY <1>4, <2>1, <2>2, <2>3, <2>4
<1>5. CASE ProbeOk \/ ProbeElapsed \/ ProbeIoError
  BY <1>5 DEF ProbeOk, ProbeElapsed, ProbeIoError, ProbeEnds
<1>6. CASE HandleSignal \/ SendSigterm
  BY <1>6 DEF HandleSignal, TerminateFirst, SendSigterm
<1>7. CASE ReapForProbe
  BY <1>7 DEF ReapForProbe, Reap
<1>8. CASE ReapForRespawn
  <2>1. last \in RespawnSignals
    BY <1>8 DEF ReapForRespawn, Reap, PlaceInv, Reason
  <2> QED
    BY <1>8, <2>1 DEF ReapForRespawn, Reap, SpawnNext
<1>9. CASE ReapAndReturn
  BY <1>9 DEF ReapAndReturn, Reap
<1>10. ASSUME NEW status, NEW life, StartBackoff(status, life) PROVE ClockInv'
  BY <1>10 DEF StartBackoff, Decide, Backoff
<1>11. ASSUME NEW status, NEW life, GiveUp(status, life) PROVE ClockInv'
  BY <1>11 DEF GiveUp, Decide
<1>12. CASE NaturalRespawn \/ ProbeRespawn \/ NaturalGiveUp \/ ProbeGiveUp
  BY <1>10, <1>11, <1>12 DEF NaturalRespawn, ProbeRespawn, NaturalGiveUp, ProbeGiveUp
<1>13. CASE NaturalEnd \/ ProbeOneShot
  BY <1>13 DEF NaturalEnd, ProbeOneShot, Decide
<1>14. CASE Exhausted
  BY <1>14 DEF Exhausted
<1>15. CASE BackoffOver
  BY <1>15 DEF BackoffOver
<1>16. CASE ChildExits \/ (\E k \in Signals : SignalArrives(k)) \/ Drain \/ DropReceiver
  BY <1>16 DEF ChildExits, SignalArrives, Drain, DropReceiver, PlaceInv
<1>17. CASE Tick
  BY <1>17 DEF Tick, Least, Less1, Waiting, PlaceInv
<1>18. CASE UNCHANGED vars
  BY <1>18
<1> QED
  BY <1>1, <1>2, <1>3, <1>4, <1>5, <1>6, <1>7, <1>8, <1>9, <1>12, <1>13,
     <1>14, <1>15, <1>16, <1>17, <1>18
  DEF Next, Step, Environment, Finished

LEMMA ProbeStep == IInv /\ [Next]_vars => ProbeInv'
<1> SUFFICES ASSUME IInv, [Next]_vars PROVE ProbeInv'
  OBVIOUS
<1> USE ConstantsAssumption DEF ConstantsAssumption, IInv, TypeOK, ProbeInv, Least
<1> USE DEF Move, Return, DropChild, At, Alive, Exited
<1> USE DEF controlVars, childVars, clockVars, channelVars, vars
<1>1. CASE Emit
  BY <1>1 DEF Emit
<1>2. CASE FirstSpawn \/ Respawn \/ SpawnFails
  BY <1>2 DEF FirstSpawn, Respawn, SpawnChild, SpawnFails
<1>3. CASE ArmProbe
  BY <1>3 DEF ArmProbe, FirstProbe
<1>4. CASE LifetimeReached \/ EnterSelect
  BY <1>4 DEF LifetimeReached, EnterSelect
<1>5. CASE SelectChild
  BY <1>5 DEF SelectChild
<1>6. CASE SelectProbe
  BY <1>6 DEF SelectProbe, ProbeDue
<1>7. CASE SelectSignal \/ SendersGone
  BY <1>7 DEF SelectSignal, SendersGone
<1>8. CASE ProbeOk \/ ProbeElapsed \/ ProbeIoError
  BY <1>8 DEF ProbeOk, ProbeElapsed, ProbeIoError, ProbeEnds
<1>9. CASE HandleSignal \/ SendSigterm
  BY <1>9 DEF HandleSignal, TerminateFirst, SendSigterm
<1>10. CASE ReapForProbe \/ ReapForRespawn \/ ReapAndReturn
  BY <1>10 DEF ReapForProbe, ReapForRespawn, ReapAndReturn, Reap, SpawnNext
<1>11. ASSUME NEW status, NEW life, StartBackoff(status, life) \/ GiveUp(status, life)
       PROVE  ProbeInv'
  BY <1>11 DEF StartBackoff, GiveUp
<1>12. CASE NaturalRespawn \/ ProbeRespawn \/ NaturalGiveUp \/ ProbeGiveUp
  BY <1>11, <1>12 DEF NaturalRespawn, ProbeRespawn, NaturalGiveUp, ProbeGiveUp
<1>13. CASE NaturalEnd \/ ProbeOneShot
  BY <1>13 DEF NaturalEnd, ProbeOneShot
<1>14. CASE Exhausted \/ BackoffOver
  BY <1>14 DEF Exhausted, BackoffOver
<1>15. CASE ChildExits \/ (\E k \in Signals : SignalArrives(k)) \/ Drain \/ DropReceiver
  BY <1>15 DEF ChildExits, SignalArrives, Drain, DropReceiver
<1>16. CASE Tick
  <2>1. pc # "check" /\ (pc = "select" => ~ProbeDue)
    BY <1>16 DEF Tick, Waiting, PlaceInv
  <2> QED
    BY <1>16, <2>1 DEF Tick, Less1, ProbeDue
<1>17. CASE UNCHANGED vars
  BY <1>17
<1> QED
  BY <1>1, <1>2, <1>3, <1>4, <1>5, <1>6, <1>7, <1>8, <1>9, <1>10, <1>12, <1>13,
     <1>14, <1>15, <1>16, <1>17
  DEF Next, Step, Environment, Finished

\* The inductive invariant holds in every reachable state.
THEOREM InductiveInvariant == Spec => []IInv
<1>1. Init => IInv
  BY TypeAtStart, ConstantsAssumption
  DEF Init, IInv, NoOrphan, PlaceInv, BudgetInv, ClockInv, ProbeInv, ConstantsAssumption
<1>2. IInv /\ [Next]_vars => IInv'
  BY TypeStep, PlaceStep, BudgetStep, ClockStep, ProbeStep DEF IInv
<1> QED
  BY <1>1, <1>2, PTL DEF Spec

-----------------------------------------------------------------------------
(* Safety properties *)

\* No ssh process is ever let go of while it runs.
THEOREM SingleChild == Spec => []NoOrphan
  BY InductiveInvariant, PTL DEF IInv

\* The select and terminate_child always find a child.
THEOREM AlwaysAChild == Spec => []ChildToWaitFor
<1>1. IInv => ChildToWaitFor
  BY DEF IInv, PlaceInv, ChildToWaitFor
<1> QED
  BY <1>1, InductiveInvariant, PTL

\* The supervisor goes on below the cap and gives up at it.
THEOREM Budget == Spec => []RetryBudget
<1>1. IInv => RetryBudget
  BY DEF IInv, BudgetInv, RetryBudget
<1> QED
  BY <1>1, InductiveInvariant, PTL

\* Without a gate no failure is ever counted.
Ungated ==
    GateTime = 0 /\ ~OneShot => retry = 0 /\ pc # "exhausted" /\ result # "maxstart"

LEMMA UngatedStep == IInv /\ Ungated /\ [Next]_vars => Ungated'
<1> SUFFICES ASSUME IInv, Ungated, [Next]_vars, GateTime = 0, ~OneShot
             PROVE  retry' = 0 /\ pc' # "exhausted" /\ result' # "maxstart"
  BY DEF Ungated
<1> USE DEF Ungated, IInv, TypeOK
<1> USE DEF Move, Return, At, controlVars, childVars, clockVars, channelVars, vars
<1>1. CASE \/ Emit \/ FirstSpawn \/ Respawn \/ ArmProbe \/ LifetimeReached
           \/ EnterSelect \/ SelectChild \/ SelectProbe \/ SelectSignal \/ SendersGone
           \/ ProbeOk \/ ProbeElapsed \/ ProbeIoError
           \/ SendSigterm \/ ReapForProbe \/ ReapForRespawn \/ BackoffOver
           \/ ChildExits \/ (\E k \in Signals : SignalArrives(k))
           \/ Drain \/ DropReceiver \/ Tick \/ UNCHANGED vars
  BY <1>1, BudgetKept
<1>2. CASE SpawnFails \/ ReapAndReturn \/ HandleSignal
  BY <1>2 DEF SpawnFails, ReapAndReturn, Reap, HandleSignal, TerminateFirst
<1>3. ASSUME NEW status, NEW life \in 0..GateTime
      PROVE  RetryAfter(status, life) = 0 /\ ~GiveUp(status, life)
  BY <1>3 DEF RetryAfter, Count, GiveUp, CapReached
<1>4. CASE NaturalRespawn \/ ProbeRespawn
  BY <1>3, <1>4 DEF NaturalRespawn, ProbeRespawn, StartBackoff, Decide
<1>5. CASE NaturalGiveUp \/ ProbeGiveUp
  BY <1>3, <1>5 DEF NaturalGiveUp, ProbeGiveUp
<1>6. CASE NaturalEnd \/ ProbeOneShot
  BY <1>3, <1>6 DEF NaturalEnd, ProbeOneShot, Decide
<1>7. CASE Exhausted
  BY <1>7 DEF Exhausted
<1> QED
  BY <1>1, <1>2, <1>4, <1>5, <1>6, <1>7 DEF Next, Step, Environment, Finished

\* With -f, MaxStart is never reached.
THEOREM NoCapWithoutGate == Spec => []UngatedNeverGivesUp
<1>1. Init => Ungated
  BY DEF Init, Ungated
<1>2. Ungated => UngatedNeverGivesUp
  BY DEF Ungated, UngatedNeverGivesUp
<1> QED
  BY <1>1, <1>2, UngatedStep, InductiveInvariant, PTL DEF Spec

\* Unless a signal asks for it, two spawns are GateTime apart.
THEOREM Spacing == Spec => SpawnSpacing
<1>1. IInv => (pc = "respawn" /\ child' = "running" /\ last = "ChildExited"
                 => age = GateTime)
  BY DEF IInv, ClockInv
<1> QED
  BY <1>1, InductiveInvariant, PTL DEF Spec, SpawnSpacing

\* No child is probed before its own first interval is over, whatever was left of the
\* interval of the child before it (supervisor.rs:325, 389, 410).
THEOREM OwnInterval == Spec => ProbeNotEarly
<1>1. IInv /\ [Next]_vars
        => (pc = "select" /\ pc' = "probe" => age >= Least(FirstPoll, GateTime))
  <2> SUFFICES ASSUME IInv, [Next]_vars, pc = "select", pc' = "probe"
               PROVE  age >= Least(FirstPoll, GateTime)
    OBVIOUS
  <2> USE DEF Move, Return, At, controlVars, vars
  <2>1. ~(Tick \/ Emit \/ ChildExits \/ (\E k \in Signals : SignalArrives(k))
            \/ Drain \/ DropReceiver \/ Finished \/ UNCHANGED vars)
    BY DEF Tick, Emit, ChildExits, SignalArrives, Drain, DropReceiver, Finished
  <2>2. ~(FirstSpawn \/ Respawn \/ SpawnFails \/ ArmProbe \/ LifetimeReached \/ EnterSelect
            \/ ProbeOk \/ ProbeElapsed \/ ProbeIoError \/ HandleSignal \/ SendSigterm)
    BY DEF FirstSpawn, Respawn, SpawnChild, SpawnFails, ArmProbe, LifetimeReached,
       EnterSelect, ProbeOk, ProbeElapsed, ProbeIoError, ProbeEnds, HandleSignal, SendSigterm
  <2>3. ~(ReapForProbe \/ ReapForRespawn \/ ReapAndReturn)
    BY DEF ReapForProbe, ReapForRespawn, ReapAndReturn, Reap
  <2>4. ~(NaturalRespawn \/ ProbeRespawn \/ NaturalGiveUp \/ ProbeGiveUp \/ NaturalEnd
            \/ ProbeOneShot \/ Exhausted \/ BackoffOver)
    BY DEF NaturalRespawn, ProbeRespawn, NaturalGiveUp, ProbeGiveUp, NaturalEnd,
       ProbeOneShot, Exhausted, BackoffOver
  <2>5. ~(SelectChild \/ SelectSignal \/ SendersGone)
    BY DEF SelectChild, SelectSignal, SendersGone
  <2>6. SelectProbe
    BY <2>1, <2>2, <2>3, <2>4, <2>5 DEF Next, Step, Environment
  <2> QED
    BY <2>6, ConstantsAssumption
    DEF SelectProbe, ProbeDue, IInv, TypeOK, ProbeInv, Least, ConstantsAssumption
<1> QED
  BY <1>1, InductiveInvariant, PTL DEF Spec, ProbeNotEarly

\* The counter moves only for the reasons the decision matrix gives.
LEMMA DisciplineStep ==
    ASSUME IInv, [Next]_vars, retry' # retry
    PROVE  \/ retry' = retry + 1 /\ ~Alive /\ ran < GateTime
           \/ retry' = 0 /\ (cause = "Hangup" \/ child = "ok" \/ age = GateTime)
<1> USE ConstantsAssumption DEF ConstantsAssumption
<1> DEFINE Justified ==
      \/ retry' = retry + 1 /\ ~Alive /\ ran < GateTime
      \/ retry' = 0 /\ (cause = "Hangup" \/ child = "ok" \/ age = GateTime)
<1>1. CASE \/ Emit \/ FirstSpawn \/ Respawn \/ ArmProbe \/ LifetimeReached
           \/ EnterSelect \/ SelectChild \/ SelectProbe \/ SelectSignal \/ SendersGone
           \/ ProbeOk \/ ProbeElapsed \/ ProbeIoError
           \/ SendSigterm \/ ReapForProbe \/ ReapForRespawn \/ BackoffOver
           \/ ChildExits \/ (\E k \in Signals : SignalArrives(k))
           \/ Drain \/ DropReceiver \/ Tick \/ UNCHANGED vars
  BY <1>1, BudgetKept
<1>2. CASE SpawnFails \/ ReapAndReturn \/ Exhausted
  BY <1>2 DEF SpawnFails, ReapAndReturn, Reap, Exhausted
<1>3. CASE HandleSignal
  BY <1>3 DEF HandleSignal
<1>4. ASSUME At("exited"), Decide(child, lifetime) PROVE Justified
  BY <1>4
  DEF Decide, RetryAfter, Count, Least, At, Alive, Exited, IInv, TypeOK, PlaceInv,
      ClockInv
<1>5. ASSUME At("probe_exited"), Decide("fail", age) PROVE Justified
  BY <1>5
  DEF Decide, RetryAfter, Count, Least, At, Alive, IInv, TypeOK, PlaceInv, ClockInv
<1>6. CASE NaturalRespawn \/ NaturalGiveUp \/ NaturalEnd
  BY <1>4, <1>6 DEF NaturalRespawn, NaturalGiveUp, NaturalEnd, StartBackoff, GiveUp
<1>7. CASE ProbeRespawn \/ ProbeGiveUp \/ ProbeOneShot
  BY <1>5, <1>7 DEF ProbeRespawn, ProbeGiveUp, ProbeOneShot, StartBackoff, GiveUp
<1> QED
  BY <1>1, <1>2, <1>3, <1>6, <1>7 DEF Next, Step, Environment, Finished

THEOREM Discipline == Spec => RetryDiscipline
<1>1. IInv /\ [Next]_vars =>
        [ retry' # retry =>
            \/ retry' = retry + 1 /\ ~Alive /\ ran < GateTime
            \/ retry' = 0 /\ (cause = "Hangup" \/ child = "ok" \/ age = GateTime) ]_vars
  BY DisciplineStep
<1> QED
  BY <1>1, InductiveInvariant, PTL DEF Spec, RetryDiscipline

-----------------------------------------------------------------------------
(* The loop implements its contract *)

\* What is owed to the consumer for each outbox the loop fills.
LEMMA OwedNothing == Owed(<<>>) = {}
  BY DEF Owed

LEMMA OwedOne ==
    ASSUME NEW e
    PROVE  Owed(<<e>>) = {"ChildSpawned", "ChildRespawned"} \cap {e}
<1>1. DOMAIN <<e>> = {1} /\ <<e>>[1] = e
  OBVIOUS
<1> QED
  BY <1>1 DEF Owed

LEMMA OwedTwo ==
    Owed(<<"ChildSpawned", "ChildRespawned">>) = {"ChildSpawned", "ChildRespawned"}
<1> DEFINE box == <<"ChildSpawned", "ChildRespawned">>
<1>1. DOMAIN box = {1, 2} /\ box[1] = "ChildSpawned" /\ box[2] = "ChildRespawned"
  OBVIOUS
<1>2. {box[i] : i \in DOMAIN box} = {"ChildSpawned", "ChildRespawned"}
  BY <1>1
<1> QED
  BY <1>2 DEF Owed

\* Nothing is owed but for a spawn.
LEMMA OwedAfterSpawn == IInv /\ pc # "arm" => Owed(outbox) = {}
<1> SUFFICES ASSUME IInv, pc # "arm" PROVE Owed(outbox) = {}
  OBVIOUS
<1>1. \/ outbox = <<>>
      \/ outbox \in {<<"ChildExited">>, <<"MaxStartReached">>}
      \/ cause # "none" /\ outbox = <<cause>> /\ cause \in SignalKind
      \/ cause # "none" /\ outbox = <<Reason(cause)>>
  BY DEF IInv, TypeOK, PlaceInv, Telling
<1>2. Reason(cause) \notin {"ChildSpawned", "ChildRespawned"}
  BY DEF IInv, TypeOK, Reason
<1> QED
  BY <1>1, <1>2, OwedNothing, OwedOne

\* A step that keeps the child, the latest event, the outcome and what is owed
\* does not show; the others are steps of the contract.
LEMMA ContractEmit ==
    ASSUME IInv, Emit
    PROVE  Contract!Next
<1>1. /\ outbox # <<>> /\ last' = Head(outbox) /\ outbox' = Tail(outbox)
      /\ UNCHANGED <<pc, cause, child, result>>
  BY DEF Emit, childVars
<1>2. pc # "done" /\ result = "none"
  BY <1>1 DEF IInv, PlaceInv
<1>3. ASSUME NEW e, outbox = <<e>> PROVE last' = e /\ outbox' = <<>>
  BY <1>1, <1>3, SendOne
<1>4. CASE pc = "arm"
  <2>1. CASE outbox = <<"ChildSpawned", "ChildRespawned">>
    <3>1. last' = "ChildSpawned" /\ outbox' = <<"ChildRespawned">>
      BY <1>1, <2>1, SendTwo
    <3>2. /\ Owed(outbox) = {"ChildSpawned", "ChildRespawned"}
          /\ Owed(outbox') = {"ChildRespawned"}
      BY <2>1, <3>1, OwedTwo, OwedOne
    <3>3. Contract!TellSpawned
      BY <1>1, <1>2, <1>4, <2>1, <3>1, <3>2
      DEF Contract!TellSpawned, Contract!Tell
    <3> QED
      BY <3>3 DEF Contract!Next
  <2>2. CASE outbox = <<"ChildSpawned">>
    <3>1. last' = "ChildSpawned" /\ outbox' = <<>>
      BY <1>3, <2>2
    <3>2. Owed(outbox) = {"ChildSpawned"} /\ Owed(outbox') = {}
      BY <2>2, <3>1, OwedNothing, OwedOne
    <3>3. Contract!TellSpawned
      BY <1>1, <1>2, <1>4, <2>2, <3>1, <3>2
      DEF Contract!TellSpawned, Contract!Tell
    <3> QED
      BY <3>3 DEF Contract!Next
  <2>3. CASE outbox = <<"ChildRespawned">>
    <3>1. last' = "ChildRespawned" /\ outbox' = <<>>
      BY <1>3, <2>3
    <3>2. Owed(outbox) = {"ChildRespawned"} /\ Owed(outbox') = {}
      BY <2>3, <3>1, OwedNothing, OwedOne
    <3>3. Contract!TellRespawned
      BY <1>1, <1>2, <1>4, <2>3, <3>1, <3>2
      DEF Contract!TellRespawned, Contract!Tell
    <3> QED
      BY <3>3 DEF Contract!Next
  <2> QED
    BY <1>1, <1>4, <2>1, <2>2, <2>3 DEF IInv, PlaceInv
<1>5. ASSUME pc # "arm"
      PROVE  /\ \E e : outbox = <<e>>
             /\ Owed(outbox) = {} /\ Owed(outbox') = {}
  <2>1. \E e : outbox = <<e>>
    BY <1>1, <1>5 DEF IInv, TypeOK, PlaceInv, Telling
  <2> QED
    BY <1>3, <1>5, <2>1, OwedAfterSpawn, OwedNothing
<1>6. CASE pc \in {"exited", "probe_exited"}
  <2>1. last' = "ChildExited" /\ outbox = <<"ChildExited">>
    BY <1>1, <1>3, <1>6 DEF IInv, PlaceInv, Telling
  <2>2. Contract!TellExited
    BY <1>1, <1>2, <1>5, <1>6, <2>1
    DEF Contract!TellExited, Contract!Tell, Contract!ToldUp, Contract!Dead,
        IInv, PlaceInv, Telling, ToldUp, Exited
  <2> QED
    BY <2>2 DEF Contract!Next
<1>7. CASE pc \in {"signal", "terminate"}
  <2>1. /\ last' \in {"ProbeTimeout", "MaxLifetimeReached"} \cup SignalKind
        /\ child # "none" /\ ToldUp
    BY <1>1, <1>3, <1>7 DEF IInv, TypeOK, PlaceInv, Telling, Reason
  <2>2. Contract!TellReason
    BY <1>1, <1>2, <1>5, <1>7, <2>1
    DEF Contract!TellReason, Contract!Tell, Contract!ToldUp, ToldUp, Contract!Reasons,
        Contract!StopKinds, Contract!RespawnKinds
  <2> QED
    BY <2>2 DEF Contract!Next
<1>8. CASE pc = "exhausted"
  <2>1. /\ last' = "MaxStartReached" /\ child = "none" /\ last = "ChildExited"
    BY <1>1, <1>3, <1>8 DEF IInv, PlaceInv, Telling
  <2>2. Contract!TellExhausted
    BY <1>1, <1>2, <1>5, <1>8, <2>1 DEF Contract!TellExhausted, Contract!Tell
  <2> QED
    BY <2>2 DEF Contract!Next
<1> QED
  BY <1>1, <1>4, <1>6, <1>7, <1>8 DEF IInv, TypeOK, PlaceInv

LEMMA ContractStep ==
    IInv /\ [Next]_vars => [Contract!Next]_(Contract!contractVars)
<1> SUFFICES ASSUME IInv, [Next]_vars
             PROVE  Contract!Next \/ UNCHANGED Contract!contractVars
  OBVIOUS
<1> USE DEF Move, Return, DropChild, At, Alive, Exited
<1> USE DEF controlVars, childVars, clockVars, channelVars, vars
<1> USE DEF IInv, PlaceInv, ToldUp, Telling, Reason
<1>1. CASE Emit
  BY <1>1, ContractEmit
<1>2. CASE FirstSpawn
  <2>1. Owed(outbox) = {} /\ Owed(outbox') = {"ChildSpawned"}
    BY <1>2, OwedAfterSpawn, OwedOne DEF FirstSpawn, SpawnChild
  <2>2. Contract!Launch
    BY <1>2, <2>1
    DEF FirstSpawn, SpawnChild, Contract!Launch, Contract!ToldToLaunch
  <2> QED
    BY <2>2 DEF Contract!Next
<1>3. CASE Respawn
  <2>1. Owed(outbox) = {} /\ Owed(outbox') = {"ChildSpawned", "ChildRespawned"}
    BY <1>3, OwedAfterSpawn, OwedTwo DEF Respawn, SpawnChild
  <2>2. Contract!Launch
    BY <1>3, <2>1
    DEF Respawn, SpawnChild, Contract!Launch, Contract!ToldToLaunch,
        Contract!RespawnKinds
  <2> QED
    BY <2>2 DEF Contract!Next
\* The returns of run().
<1>4. ASSUME pc # "arm", pc # "done", outbox = <<>>, outbox' = <<>>,
             UNCHANGED last, child' = "none"
      PROVE  /\ Owed(outbox) = {} /\ Owed(outbox') = {}
             /\ result = "none"
  BY <1>4, OwedNothing
<1>5. CASE SpawnFails
  <2>1. Contract!Stop
    BY <1>4, <1>5
    DEF SpawnFails, Contract!Stop, Contract!ToldToLaunch, Contract!RespawnKinds
  <2> QED
    BY <2>1 DEF Contract!Next
<1>6. CASE ReapAndReturn
  <2>1. Contract!Stop
    BY <1>4, <1>6 DEF ReapAndReturn, Reap, Contract!Stop, Contract!StopKinds
  <2> QED
    BY <2>1 DEF Contract!Next
<1>7. CASE CleanExit
  <2>1. Contract!Stop
    BY <1>4, <1>7 DEF CleanExit, Decide, Contract!Stop
  <2> QED
    BY <2>1 DEF Contract!Next
<1>8. CASE OneShotFailed
  <2>1. Contract!Stop
    BY <1>4, <1>8 DEF OneShotFailed, Decide, Contract!Stop
  <2> QED
    BY <2>1 DEF Contract!Next
<1>9. CASE ProbeOneShot
  <2>1. Contract!Stop
    BY <1>4, <1>9 DEF ProbeOneShot, Decide, Contract!Stop
  <2> QED
    BY <2>1 DEF Contract!Next
<1>10. CASE Exhausted
  <2>1. Contract!Stop
    BY <1>4, <1>10 DEF Exhausted, Contract!Stop
  <2> QED
    BY <2>1 DEF Contract!Next
\* A child is collected.
<1>11. CASE ReapForProbe
  <2>1. Owed(outbox) = {} /\ Owed(outbox') = {}
    BY <1>11, OwedNothing, OwedOne DEF ReapForProbe, Reap
  <2>2. Contract!Collect
    BY <1>11, <2>1 DEF ReapForProbe, Reap, Contract!Collect, Contract!ToldToKill,
        Contract!Reasons
  <2> QED
    BY <2>2 DEF Contract!Next
<1>12. CASE ReapForRespawn
  <2>1. Owed(outbox) = {} /\ Owed(outbox') = {}
    BY <1>12, OwedNothing DEF ReapForRespawn, Reap
  <2>2. Contract!Collect
    BY <1>12, <2>1
    DEF ReapForRespawn, Reap, Contract!Collect, Contract!ToldToKill,
        Contract!Reasons, Contract!RespawnKinds
  <2> QED
    BY <2>2 DEF Contract!Next
<1>13. CASE NaturalRespawn \/ NaturalGiveUp
  <2>1. Owed(outbox) = {} /\ Owed(outbox') = {}
    BY <1>13, OwedNothing, OwedOne
    DEF NaturalRespawn, NaturalGiveUp, StartBackoff, GiveUp
  <2>2. Contract!Collect
    BY <1>13, <2>1
    DEF NaturalRespawn, NaturalGiveUp, StartBackoff, GiveUp, Decide,
        Contract!Collect, Contract!Dead
  <2> QED
    BY <2>2 DEF Contract!Next
\* The child of a failed probe has been collected before.
<1>14. CASE ProbeRespawn \/ ProbeGiveUp
  <2>1. Owed(outbox) = {} /\ Owed(outbox') = {}
    BY <1>14, OwedNothing, OwedOne
    DEF ProbeRespawn, ProbeGiveUp, StartBackoff, GiveUp
  <2> QED
    BY <1>14, <2>1
    DEF ProbeRespawn, ProbeGiveUp, StartBackoff, GiveUp, Decide, Contract!contractVars
<1>15. CASE ChildExits
  <2>1. Contract!Die
    BY <1>15 DEF ChildExits, Contract!Die
  <2> QED
    BY <2>1 DEF Contract!Next
\* The other steps do not show.
<1>16. ASSUME UNCHANGED <<child, last, result>>, Owed(outbox') = Owed(outbox)
       PROVE  UNCHANGED Contract!contractVars
  BY <1>16 DEF Contract!contractVars
<1>17. CASE ArmProbe \/ EnterSelect \/ SelectProbe \/ ProbeOk \/ HandleSignal
            \/ SendSigterm \/ BackoffOver
  BY <1>16, <1>17
  DEF ArmProbe, EnterSelect, SelectProbe, ProbeOk, ProbeEnds, HandleSignal,
      SendSigterm, BackoffOver
<1>18. CASE LifetimeReached \/ SelectChild \/ ProbeElapsed \/ ProbeIoError
  <2>1. Owed(outbox') = {} /\ Owed(outbox) = {}
    BY <1>18, OwedNothing, OwedOne
    DEF LifetimeReached, SelectChild, ExitTold, ProbeElapsed, ProbeIoError, ProbeEnds
  <2> QED
    BY <1>16, <1>18, <2>1
    DEF LifetimeReached, SelectChild, ProbeElapsed, ProbeIoError, ProbeEnds
<1>19. CASE SelectSignal
  <2>1. Head(signalq) \in SignalKind
    BY <1>19, QueueTail DEF SelectSignal, Received, TypeOK
  <2>2. Owed(outbox') = {} /\ Owed(outbox) = {}
    BY <1>19, <2>1, OwedNothing, OwedOne DEF SelectSignal, Received
  <2> QED
    BY <1>16, <1>19, <2>2 DEF SelectSignal, Received
<1>22. CASE SendersGone
  <2>1. Owed(outbox') = {} /\ Owed(outbox) = {}
    BY <1>22, OwedNothing, OwedOne DEF SendersGone
  <2> QED
    BY <1>16, <1>22, <2>1 DEF SendersGone
<1>20. CASE (\E k \in Signals : SignalArrives(k)) \/ Drain \/ DropReceiver \/ Tick
  BY <1>16, <1>20 DEF SignalArrives, Drain, DropReceiver, Tick
<1>21. CASE UNCHANGED vars
  BY <1>16, <1>21
<1> QED
  BY <1>1, <1>2, <1>3, <1>5, <1>6, <1>7, <1>8, <1>9, <1>10, <1>11, <1>12,
     <1>13, <1>14, <1>15, <1>17, <1>18, <1>19, <1>20, <1>21, <1>22, EndCases
  DEF Next, Step, Environment, Finished

\* What run() promises, for every value of the constants.
THEOREM ImplementsContract == Spec => ContractSpec
<1>1. Init => Contract!Init
  BY OwedNothing DEF Init, Contract!Init
<1> QED
  BY <1>1, ContractStep, InductiveInvariant, PTL DEF Spec, ContractSpec, Contract!Spec

\* What is proved of the contract.
Promise ==
    INSTANCE ContractProofs WITH ssh <- child, owed <- Owed(outbox), outcome <- result

LEMMA KeepsPromise == Spec => Promise!Spec
<1>1. Contract!Init => Promise!Init
  BY DEF Contract!Init, Promise!Init
<1>2. [Contract!Next]_(Contract!contractVars) => [Promise!Next]_(Promise!contractVars)
  BY DEF Contract!Next, Contract!Launch, Contract!Die, Contract!Collect,
         Contract!TellSpawned, Contract!TellRespawned, Contract!TellExited,
         Contract!TellReason, Contract!TellExhausted, Contract!Stop, Contract!Tell,
         Contract!ToldToLaunch, Contract!ToldToKill, Contract!ToldUp, Contract!Dead,
         Contract!Reasons, Contract!StopKinds, Contract!RespawnKinds,
         Contract!contractVars,
         Promise!Next, Promise!Launch, Promise!Die, Promise!Collect,
         Promise!TellSpawned, Promise!TellRespawned, Promise!TellExited,
         Promise!TellReason, Promise!TellExhausted, Promise!Stop, Promise!Tell,
         Promise!ToldToLaunch, Promise!ToldToKill, Promise!ToldUp, Promise!Dead,
         Promise!Reasons, Promise!StopKinds, Promise!RespawnKinds,
         Promise!contractVars
<1> QED
  BY <1>1, <1>2, ImplementsContract, PTL DEF ContractSpec, Contract!Spec, Promise!Spec

\* Once a stop signal, the end of the lifetime or the cap was told, the loop tells
\* nothing more and spawns nothing more (supervisor.rs:219-330).
THEOREM StopIsFinal == Spec => LastWord
<1>1. Promise!LastWord => LastWord
  BY PTL
  DEF LastWord, Contract!LastWord, Promise!LastWord, Contract!Final, Promise!Final,
      Contract!StopKinds, Promise!StopKinds, Contract!contractVars, Promise!contractVars
<1> QED
  BY <1>1, KeepsPromise, Promise!NothingAfter, PTL

\* A consumer hears the events of the loop in the order of the grammar.
THEOREM EventOrder == Spec => Grammar
<1>1. Promise!Grammar => Grammar
  BY PTL
  DEF Grammar, Contract!Grammar, Promise!Grammar, Contract!Followers, Promise!Followers,
      Contract!Reasons, Promise!Reasons, Contract!Final, Promise!Final,
      Contract!StopKinds, Promise!StopKinds, Contract!RespawnKinds, Promise!RespawnKinds,
      Contract!contractVars, Promise!contractVars
<1> QED
  BY <1>1, KeepsPromise, Promise!InOrder, PTL

\* The loop neither reaps a child nor returns before the spawn of it was told, even
\* while the consumer's channel is full (supervisor.rs emit, spawn_child).
THEOREM EveryLaunchTold == Spec => LaunchesTold
<1>1. Promise!LaunchesTold => LaunchesTold
  BY PTL
  DEF LaunchesTold, Contract!LaunchesTold, Promise!LaunchesTold,
      Contract!contractVars, Promise!contractVars
<1> QED
  BY <1>1, KeepsPromise, Promise!NoSilentLaunch, PTL

\* What run() returns was told before, and no ssh is left when it returns.
THEOREM TrueOutcome == Spec => []OutcomeTold
<1>1. Promise!OutcomeTold => OutcomeTold
  BY DEF OutcomeTold, Contract!OutcomeTold, Promise!OutcomeTold,
         Contract!StopKinds, Promise!StopKinds, Contract!ToldToLaunch,
         Promise!ToldToLaunch, Contract!RespawnKinds, Promise!RespawnKinds
<1> QED
  BY <1>1, KeepsPromise, Promise!OutcomeAnnounced, PTL

-----------------------------------------------------------------------------
(* The loop never spins *)

\* The distance from each place: one fact for one arm of Distance, so that a step
\* of the loop is a comparison of two of them.
Measured ==
    /\ pc \in Label => Distance \in 0..13
    /\ pc = "done" => Distance = 0
    /\ pc = "exhausted" => Distance = 1
    /\ pc = "grace" => Distance = IF Ending \/ (Alive /\ timer > 0) THEN 1 ELSE 10
    /\ pc = "terminate" => Distance = IF Ending \/ (Alive /\ Grace > 0) THEN 2 ELSE 11
    /\ pc = "probe" => Distance = IF timer > 0 \/ (Alive /\ Grace > 0) THEN 3 ELSE 12
    /\ pc = "select" => Distance = IF Alive THEN 4 ELSE 10
    /\ pc = "check" => Distance = IF Alive THEN 5 ELSE 11
    /\ pc = "arm" => Distance = IF Alive THEN 6 ELSE 12
    /\ pc \in {"spawn", "respawn"} => Distance = 7
    /\ pc = "backoff" => Distance = 8
    /\ pc \in {"exited", "probe_exited"} => Distance = 9
    /\ pc = "signal" => Distance = 13

LEMMA DistanceMeasured == Measured
<1>1. pc = "done" => Distance = 0
  BY DEF Distance
<1>2. pc = "exhausted" => Distance = 1
  BY DEF Distance
<1>3. pc = "grace" => Distance = IF Ending \/ (Alive /\ timer > 0) THEN 1 ELSE 10
  BY DEF Distance
<1>4. pc = "terminate" => Distance = IF Ending \/ (Alive /\ Grace > 0) THEN 2 ELSE 11
  BY DEF Distance
<1>5. pc = "probe" => Distance = IF timer > 0 \/ (Alive /\ Grace > 0) THEN 3 ELSE 12
  BY DEF Distance
<1>6. pc = "select" => Distance = IF Alive THEN 4 ELSE 10
  BY DEF Distance
<1>7. pc = "check" => Distance = IF Alive THEN 5 ELSE 11
  BY DEF Distance
<1>8. pc = "arm" => Distance = IF Alive THEN 6 ELSE 12
  BY DEF Distance
<1>9. pc \in {"spawn", "respawn"} => Distance = 7
  BY DEF Distance
<1>10. pc = "backoff" => Distance = 8
  BY DEF Distance
<1>11. pc \in {"exited", "probe_exited"} => Distance = 9
  BY DEF Distance
<1>12. pc = "signal" => Distance = 13
  BY DEF Distance
<1>13. pc \in Label => Distance \in 0..13
  BY <1>1, <1>2, <1>3, <1>4, <1>5, <1>6, <1>7, <1>8, <1>9, <1>10, <1>11, <1>12
<1> QED
  BY <1>1, <1>2, <1>3, <1>4, <1>5, <1>6, <1>7, <1>8, <1>9, <1>10, <1>11, <1>12, <1>13
  DEF Measured

LEMMA DistanceMeasuredNext == Measured'
  BY DistanceMeasured, PTL

\* A step towards a place where the task waits outweighs the events it leaves to
\* be sent, and a signal taken outweighs the way it sends the task.
LEMMA Weights ==
    ASSUME NEW q \in Nat, NEW d \in 0..13, NEW b \in Nat,
           NEW q2 \in Nat, NEW d2 \in 0..13, NEW b2 \in 0..2,
           (q2 = q /\ d2 < d) \/ (q2 = q - 1 /\ d = 4 /\ b2 = 1)
    PROVE  30 * q2 + 3 * d2 + b2 < 30 * q + 3 * d + b
  OBVIOUS

LEMMA Nearer ==
    ASSUME TypeOK, TypeOK', signalq' = signalq, Len(outbox') \in 0..2,
           Distance' < Distance
    PROVE  Rank' < Rank
<1>1. Distance \in 0..13 /\ Distance' \in 0..13
  BY DistanceMeasured, DistanceMeasuredNext DEF Measured, TypeOK
<1>2. Len(signalq) \in Nat /\ Len(outbox) \in Nat
  <2>1. signalq \in Seq(SignalKind) /\ outbox \in Seq(Event)
    BY DEF TypeOK
  <2> QED
    BY <2>1
<1>3. Len(signalq') = Len(signalq)
  OBVIOUS
<1> QED
  BY <1>1, <1>2, <1>3, Weights DEF Rank

LEMMA TailLen ==
    ASSUME NEW S, NEW q \in Seq(S), q # <<>>
    PROVE  Len(q) \in Nat /\ Len(Tail(q)) \in Nat /\ Len(Tail(q)) = Len(q) - 1
  OBVIOUS

\* Every other step of the loop leaves the signals alone, leaves at most two events
\* to be sent, and brings the task nearer.
LEMMA Approach ==
    ASSUME TypeOK, PlaceInv, Step, ~Emit, ~SelectSignal, Poll > 0 \/ Grace > 0
    PROVE  signalq' = signalq /\ Len(outbox') \in 0..2 /\ Distance' < Distance
<1> USE DistanceMeasured, DistanceMeasuredNext, ConstantsAssumption
    DEF Measured, ConstantsAssumption
<1> USE DEF At, Alive, Exited, Ending, childVars, clockVars, channelVars
<1>1. CASE FirstSpawn
  BY <1>1 DEF FirstSpawn, SpawnChild, Move
<1>2. CASE Respawn
  BY <1>2 DEF Respawn, SpawnChild, Move
<1>3. CASE SpawnFails
  BY <1>3 DEF SpawnFails, Return
<1>4. CASE ArmProbe
  BY <1>4 DEF ArmProbe, Move
<1>5. CASE LifetimeReached
  BY <1>5 DEF LifetimeReached, Move
<1>6. CASE EnterSelect
  BY <1>6 DEF EnterSelect, Move
<1>7. CASE SelectChild
  BY <1>7 DEF SelectChild, Move, ExitTold
<1>8. CASE SelectProbe
  BY <1>8 DEF SelectProbe, Move
<1>9. CASE ProbeElapsed
  BY <1>9 DEF ProbeElapsed, ProbeEnds, ProbeTimedOut, Move
<1>10. CASE HandleSignal
  BY <1>10 DEF HandleSignal, TerminateFirst, Move
<1>11. CASE SendSigterm
  BY <1>11 DEF SendSigterm, Move
<1>12. CASE ReapForProbe
  BY <1>12 DEF ReapForProbe, Reap, GraceOver, Move
<1>13. CASE ReapForRespawn
  BY <1>13 DEF ReapForRespawn, Reap, GraceOver, SpawnNext, Move
<1>14. CASE ReapAndReturn
  BY <1>14 DEF ReapAndReturn, Reap, Return
<1>15. CASE NaturalRespawn
  BY <1>15 DEF NaturalRespawn, StartBackoff, Move, Decide
<1>16. CASE NaturalGiveUp
  BY <1>16 DEF NaturalGiveUp, GiveUp, Move, Decide
<1>17. CASE CleanExit
  BY <1>17 DEF CleanExit, Return, Decide
<1>18. CASE OneShotFailed
  BY <1>18 DEF OneShotFailed, Return, Decide
<1>19. CASE ProbeRespawn
  BY <1>19 DEF ProbeRespawn, StartBackoff, Move, Decide
<1>20. CASE ProbeGiveUp
  BY <1>20 DEF ProbeGiveUp, GiveUp, Move, Decide
<1>21. CASE ProbeOneShot
  BY <1>21 DEF ProbeOneShot, Return, Decide
<1>22. CASE Exhausted
  BY <1>22 DEF Exhausted, Return
<1>23. CASE BackoffOver
  BY <1>23 DEF BackoffOver, Move
<1> QED
  BY <1>1, <1>2, <1>3, <1>4, <1>5, <1>6, <1>7, <1>8, <1>9, <1>10, <1>11, <1>12, <1>13, <1>14, <1>15, <1>16, <1>17, <1>18, <1>19, <1>20, <1>21, <1>22, <1>23, EndCases DEF Step

LEMMA RankStep ==
    ASSUME TypeOK, TypeOK', PlaceInv, Step, Poll > 0 \/ Grace > 0
    PROVE  Rank' < Rank
<1>1. CASE Emit
  <2>1. Distance' = Distance
    BY <1>1 DEF Emit, Distance, Ending, Alive, childVars, clockVars
  <2>2. signalq' = signalq /\ outbox # <<>> /\ outbox' = Tail(outbox)
    BY <1>1 DEF Emit
  <2>3. Len(outbox) \in Nat /\ Len(outbox') = Len(outbox) - 1
    BY <2>2, TailLen DEF TypeOK
  <2>4. Distance \in 0..13 /\ Len(signalq) \in Nat
    BY DistanceMeasured DEF Measured, TypeOK
  <2> QED
    BY <2>1, <2>2, <2>3, <2>4 DEF Rank
<1>2. CASE SelectSignal
  <2>1. signalq # <<>> /\ signalq' = Tail(signalq) /\ Len(outbox') = 1
    BY <1>2 DEF SelectSignal, Received, Move
  <2>2. Len(signalq) \in Nat /\ Len(signalq') \in Nat /\ Len(signalq') = Len(signalq) - 1
    BY <2>1, TailLen DEF TypeOK
  <2>3. Distance = 4
    BY <1>2, DistanceMeasured DEF SelectSignal, At, Measured
  <2>4. Distance' \in 0..13 /\ Len(outbox) \in Nat
    BY DistanceMeasuredNext DEF Measured, TypeOK
  <2> QED
    BY <2>1, <2>2, <2>3, <2>4, Weights DEF Rank
<1> QED
  BY <1>1, <1>2, Approach, Nearer

\* Between two events of its environment the loop of run() takes no more than Rank
\* steps: it goes to wait, whatever the constants, unless both the time for a probe
\* and the grace are zero (supervisor.rs:219-330).
THEOREM LoopNeverSpins == Spec => NeverSpins
<1>1. IInv /\ IInv' /\ [Next]_vars => [Step /\ (Poll > 0 \/ Grace > 0) => Rank' < Rank]_vars
  BY RankStep DEF IInv
<1> QED
  BY <1>1, InductiveInvariant, PTL DEF Spec, NeverSpins

=============================================================================
