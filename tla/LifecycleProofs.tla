-------------------------- MODULE LifecycleProofs --------------------------
(***************************************************************************)
(* Proofs about the life cycle, for any number of processes and any modes  *)
(* and ports they are given.                                               *)
(***************************************************************************)
EXTENDS Lifecycle, TLAPS

-----------------------------------------------------------------------------
(* The invariant *)

\* A process listens only between its first bind and the drop of its monitor,
\* and from its second bind on, on every port of its mode.
PortsHeld ==
    \A p \in Procs :
        /\ bound[p] # {} =>
              stage[p] \in {"binding_out", "writing", "installing", "spawning",
                            "running", "stopping", "unwinding"}
        /\ stage[p] = "binding_out" =>
              Mode[p] = "ring" /\ PortIn[p] \in bound[p]
        /\ stage[p] \in {"writing", "installing", "spawning", "running", "stopping"}
              /\ Monitored(p) => Listens(p) \subseteq bound[p]

PortsDisjoint ==
    \A p, q \in Procs : p # q => bound[p] \intersect bound[q] = {}

\* ssh runs in two stages, and is orphaned only by a signal.
SshWithin ==
    \A p \in Procs :
        /\ ssh[p] = "running" => stage[p] \in {"running", "stopping"}
        /\ ssh[p] = "orphan" => stage[p] = "dead" /\ result[p] \in {"sigterm", "sigkill"}

\* What the caller was told so far, for each way in which a process can stand.
CallerSoFar ==
    \A p \in Procs :
        /\ stage[p] \notin {"unwinding", "unlinking", "exited", "dead"} => result[p] = "none"
        /\ stage[p] = "off" => shell[p] = "nothing"
        /\ stage[p] = "detaching" => p \in Background
        /\ Live(p) => shell[p] = IF Detached(p) THEN "0" ELSE "nothing"
        /\ stage[p] = "exited" =>
              shell[p] = IF Detached(p) THEN "0" ELSE ExitCode(result[p])
        /\ stage[p] = "dead" =>
              result[p] \in {"sigterm", "sigkill"} /\ (p \notin Background => shell[p] = "signal")
        /\ p \in Background /\ (bound[p] # {} \/ guard[p] = 1 \/ ssh[p] # "none")
              => shell[p] = "0"

IInv == TypeOK /\ PortsHeld /\ PortsDisjoint /\ SshWithin /\ PidfileTruthful /\ CallerSoFar

-----------------------------------------------------------------------------
(* Type correctness *)

LEMMA PortOutType == \A p \in Procs : PortOut(p) \in 1..PortMax
  BY LifecycleAssumption DEF LifecycleAssumption, PortOut, Saturated

LEMMA ListensType ==
    ASSUME NEW p \in Procs
    PROVE  PortIn[p] \in Listens(p) /\ (Mode[p] = "ring" => PortOut(p) \in Listens(p))
  BY DEF Listens

LEMMA ExitCodeType == \A r : ExitCode(r) \in {"0", "1", "2"}
  BY DEF ExitCode

LEMMA ToldType ==
    ASSUME TypeOK, NEW p \in Procs, NEW c \in {"0", "1", "2", "signal"}
    PROVE  Told(p, c) \in {"nothing", "0", "1", "2", "signal"}
  BY DEF Told, TypeOK

LEMMA TypeAtStart == Init => TypeOK
  BY DEF Init, TypeOK, Stage, Result

LEMMA TypeAction ==
    ASSUME TypeOK, NEW p \in Procs,
           Start(p) \/ StartUp(p) \/ Finish(p) \/ WindDown(p) \/ Outside(p)
    PROVE  TypeOK'
<1> USE LifecycleAssumption DEF LifecycleAssumption, TypeOK, Stage, Result, Goto
<1>1. CASE Start(p)
  BY <1>1 DEF Start
<1>2. CASE Detach(p)
  BY <1>2 DEF Detach
<1>3. CASE DetachFails(p)
  BY <1>3 DEF DetachFails, Unwind
<1>4. CASE Resolve(p)
  BY <1>4 DEF Resolve
<1>5. CASE ResolveFails(p)
  BY <1>5 DEF ResolveFails, Unwind
<1>6. CASE Bind(p)
  BY <1>6 DEF Bind, Free
<1>7. CASE BindOut(p)
  BY <1>7, PortOutType DEF BindOut, Free
<1>8. CASE BindFails(p)
  BY <1>8 DEF BindFails, Unwind, Refused, Free
<1>9. CASE WritePid(p)
  BY <1>9 DEF WritePid
<1>10. CASE WriteFails(p)
  BY <1>10 DEF WriteFails, Unwind
<1>11. CASE Install(p)
  BY <1>11 DEF Install
<1>12. CASE SpawnSsh(p)
  BY <1>12 DEF SpawnSsh
<1>13. CASE SpawnFails(p)
  BY <1>13 DEF SpawnFails, Unwind
<1>14. CASE Arm(p)
  BY <1>14 DEF Arm
<1>15. CASE Finish(p)
  BY <1>15 DEF Finish, Unwind, Reaped
<1>16. CASE Terminated(p)
  BY <1>16 DEF Terminated, Unwind, Reaped
<1>17. CASE CloseListeners(p)
  BY <1>17 DEF CloseListeners
<1>18. CASE Exit(p)
  BY <1>18, ToldType, ExitCodeType DEF Exit, Removed
<1>19. CASE Sigkill(p)
  BY <1>19, ToldType DEF Sigkill, Die
<1>20. CASE SigtermHandled(p)
  BY <1>20 DEF SigtermHandled
<1>21. CASE SigtermDefault(p)
  BY <1>21, ToldType DEF SigtermDefault, Die
<1>22. CASE OrphanEnds(p)
  BY <1>22 DEF OrphanEnds
<1>23. QED
  BY <1>1, <1>2, <1>3, <1>4, <1>5, <1>6, <1>7, <1>8, <1>9, <1>10, <1>11, <1>12, <1>13, <1>14, <1>15, <1>16, <1>17, <1>18, <1>19, <1>20, <1>21, <1>22
  DEF StartUp, WindDown, Outside

LEMMA TypeStep == TypeOK /\ [Next]_vars => TypeOK'
<1>1. ASSUME TypeOK, UNCHANGED vars PROVE TypeOK'
  BY <1>1 DEF vars, TypeOK
<1>2. QED
  BY <1>1, TypeAction DEF Next, AllEnded

\* Ports stay in range, so that no bind is ever tried on a port that wrapped.
THEOREM TypeCorrect == Spec => []TypeOK
<1>1. QED
  BY TypeAtStart, TypeStep, PTL DEF Spec

-----------------------------------------------------------------------------
(* Ports *)

LEMMA PortsAction ==
    ASSUME TypeOK, PortsHeld, PortsDisjoint, NEW p \in Procs,
           Start(p) \/ StartUp(p) \/ Finish(p) \/ WindDown(p) \/ Outside(p)
    PROVE  PortsHeld' /\ PortsDisjoint'
<1> USE DEF TypeOK, PortsHeld, PortsDisjoint, Goto, Listens, Monitored
<1>1. CASE Start(p)
  BY <1>1 DEF Start
<1>2. CASE Detach(p)
  BY <1>2 DEF Detach
<1>3. CASE DetachFails(p)
  BY <1>3 DEF DetachFails, Unwind
<1>4. CASE Resolve(p)
  BY <1>4 DEF Resolve
<1>5. CASE ResolveFails(p)
  BY <1>5 DEF ResolveFails, Unwind
<1>6. CASE Bind(p)
  BY <1>6 DEF Bind, Free
<1>7. CASE BindOut(p)
  BY <1>7 DEF BindOut, Free
<1>8. CASE BindFails(p)
  BY <1>8 DEF BindFails, Unwind, Refused, Free
<1>9. CASE WritePid(p)
  BY <1>9 DEF WritePid
<1>10. CASE WriteFails(p)
  BY <1>10 DEF WriteFails, Unwind
<1>11. CASE Install(p)
  BY <1>11 DEF Install
<1>12. CASE SpawnSsh(p)
  BY <1>12 DEF SpawnSsh
<1>13. CASE SpawnFails(p)
  BY <1>13 DEF SpawnFails, Unwind
<1>14. CASE Arm(p)
  BY <1>14 DEF Arm
<1>15. CASE Finish(p)
  BY <1>15 DEF Finish, Unwind, Reaped
<1>16. CASE Terminated(p)
  BY <1>16 DEF Terminated, Unwind, Reaped
<1>17. CASE CloseListeners(p)
  BY <1>17 DEF CloseListeners
<1>18. CASE Exit(p)
  BY <1>18 DEF Exit, Removed
<1>19. CASE Sigkill(p)
  BY <1>19 DEF Sigkill, Die
<1>20. CASE SigtermHandled(p)
  BY <1>20 DEF SigtermHandled
<1>21. CASE SigtermDefault(p)
  BY <1>21 DEF SigtermDefault, Die
<1>22. CASE OrphanEnds(p)
  BY <1>22 DEF OrphanEnds
<1>23. QED
  BY <1>1, <1>2, <1>3, <1>4, <1>5, <1>6, <1>7, <1>8, <1>9, <1>10, <1>11, <1>12, <1>13, <1>14, <1>15, <1>16, <1>17, <1>18, <1>19, <1>20, <1>21, <1>22
  DEF StartUp, WindDown, Outside

-----------------------------------------------------------------------------
(* ssh and the pidfile *)

LEMMA SshAction ==
    ASSUME TypeOK, SshWithin, NEW p \in Procs,
           Start(p) \/ StartUp(p) \/ Finish(p) \/ WindDown(p) \/ Outside(p)
    PROVE  SshWithin'
<1> USE DEF TypeOK, SshWithin, Goto
<1>1. CASE Start(p)
  BY <1>1 DEF Start
<1>2. CASE Detach(p)
  BY <1>2 DEF Detach
<1>3. CASE DetachFails(p)
  BY <1>3 DEF DetachFails, Unwind
<1>4. CASE Resolve(p)
  BY <1>4 DEF Resolve
<1>5. CASE ResolveFails(p)
  BY <1>5 DEF ResolveFails, Unwind
<1>6. CASE Bind(p)
  BY <1>6 DEF Bind, Free
<1>7. CASE BindOut(p)
  BY <1>7 DEF BindOut, Free
<1>8. CASE BindFails(p)
  BY <1>8 DEF BindFails, Unwind, Refused, Free
<1>9. CASE WritePid(p)
  BY <1>9 DEF WritePid
<1>10. CASE WriteFails(p)
  BY <1>10 DEF WriteFails, Unwind
<1>11. CASE Install(p)
  BY <1>11 DEF Install
<1>12. CASE SpawnSsh(p)
  BY <1>12 DEF SpawnSsh
<1>13. CASE SpawnFails(p)
  BY <1>13 DEF SpawnFails, Unwind
<1>14. CASE Arm(p)
  BY <1>14 DEF Arm
<1>15. CASE Finish(p)
  BY <1>15 DEF Finish, Unwind, Reaped
<1>16. CASE Terminated(p)
  BY <1>16 DEF Terminated, Unwind, Reaped
<1>17. CASE CloseListeners(p)
  BY <1>17 DEF CloseListeners
<1>18. CASE Exit(p)
  BY <1>18 DEF Exit, Removed
<1>19. CASE Sigkill(p)
  BY <1>19 DEF Sigkill, Die, Live
<1>20. CASE SigtermHandled(p)
  BY <1>20 DEF SigtermHandled
<1>21. CASE SigtermDefault(p)
  BY <1>21 DEF SigtermDefault, Die, Live
<1>22. CASE OrphanEnds(p)
  BY <1>22 DEF OrphanEnds
<1>23. QED
  BY <1>1, <1>2, <1>3, <1>4, <1>5, <1>6, <1>7, <1>8, <1>9, <1>10, <1>11, <1>12, <1>13, <1>14, <1>15, <1>16, <1>17, <1>18, <1>19, <1>20, <1>21, <1>22
  DEF StartUp, WindDown, Outside

LEMMA PidfileAction ==
    ASSUME TypeOK, PidfileTruthful, NEW p \in Procs,
           Start(p) \/ StartUp(p) \/ Finish(p) \/ WindDown(p) \/ Outside(p)
    PROVE  PidfileTruthful'
<1> USE LifecycleAssumption DEF LifecycleAssumption, TypeOK, PidfileTruthful, Live, Goto
<1>1. CASE Start(p)
  BY <1>1 DEF Start
<1>2. CASE Detach(p)
  BY <1>2 DEF Detach
<1>3. CASE DetachFails(p)
  BY <1>3 DEF DetachFails, Unwind
<1>4. CASE Resolve(p)
  BY <1>4 DEF Resolve
<1>5. CASE ResolveFails(p)
  BY <1>5 DEF ResolveFails, Unwind
<1>6. CASE Bind(p)
  BY <1>6 DEF Bind, Free
<1>7. CASE BindOut(p)
  BY <1>7 DEF BindOut, Free
<1>8. CASE BindFails(p)
  BY <1>8 DEF BindFails, Unwind, Refused, Free
<1>9. CASE WritePid(p)
  BY <1>9 DEF WritePid
<1>10. CASE WriteFails(p)
  BY <1>10 DEF WriteFails, Unwind
<1>11. CASE Install(p)
  BY <1>11 DEF Install
<1>12. CASE SpawnSsh(p)
  BY <1>12 DEF SpawnSsh
<1>13. CASE SpawnFails(p)
  BY <1>13 DEF SpawnFails, Unwind
<1>14. CASE Arm(p)
  BY <1>14 DEF Arm
<1>15. CASE Finish(p)
  BY <1>15 DEF Finish, Unwind, Reaped
<1>16. CASE Terminated(p)
  BY <1>16 DEF Terminated, Unwind, Reaped
<1>17. CASE CloseListeners(p)
  BY <1>17 DEF CloseListeners
<1>18. CASE Exit(p)
  BY <1>18 DEF Exit, Removed
<1>19. CASE Sigkill(p)
  BY <1>19 DEF Sigkill, Die
<1>20. CASE SigtermHandled(p)
  BY <1>20 DEF SigtermHandled
<1>21. CASE SigtermDefault(p)
  BY <1>21 DEF SigtermDefault, Die
<1>22. CASE OrphanEnds(p)
  BY <1>22 DEF OrphanEnds
<1>23. QED
  BY <1>1, <1>2, <1>3, <1>4, <1>5, <1>6, <1>7, <1>8, <1>9, <1>10, <1>11, <1>12, <1>13, <1>14, <1>15, <1>16, <1>17, <1>18, <1>19, <1>20, <1>21, <1>22
  DEF StartUp, WindDown, Outside

-----------------------------------------------------------------------------
(* What the caller was told *)

LEMMA CallerAction ==
    ASSUME TypeOK, CallerSoFar, NEW p \in Procs,
           Start(p) \/ StartUp(p) \/ Finish(p) \/ WindDown(p) \/ Outside(p)
    PROVE  CallerSoFar'
<1> USE LifecycleAssumption DEF LifecycleAssumption, TypeOK, CallerSoFar, Live, Detached, Goto
<1>1. CASE Start(p)
  BY <1>1 DEF Start
<1>2. CASE Detach(p)
  BY <1>2 DEF Detach
<1>3. CASE DetachFails(p)
  BY <1>3 DEF DetachFails, Unwind
<1>4. CASE Resolve(p)
  BY <1>4 DEF Resolve
<1>5. CASE ResolveFails(p)
  BY <1>5 DEF ResolveFails, Unwind
<1>6. CASE Bind(p)
  BY <1>6 DEF Bind, Free
<1>7. CASE BindOut(p)
  BY <1>7 DEF BindOut, Free
<1>8. CASE BindFails(p)
  BY <1>8 DEF BindFails, Unwind, Refused, Free
<1>9. CASE WritePid(p)
  BY <1>9 DEF WritePid
<1>10. CASE WriteFails(p)
  BY <1>10 DEF WriteFails, Unwind
<1>11. CASE Install(p)
  BY <1>11 DEF Install
<1>12. CASE SpawnSsh(p)
  BY <1>12 DEF SpawnSsh
<1>13. CASE SpawnFails(p)
  BY <1>13 DEF SpawnFails, Unwind
<1>14. CASE Arm(p)
  BY <1>14 DEF Arm
<1>15. CASE Finish(p)
  BY <1>15 DEF Finish, Unwind, Reaped
<1>16. CASE Terminated(p)
  BY <1>16 DEF Terminated, Unwind, Reaped
<1>17. CASE CloseListeners(p)
  BY <1>17 DEF CloseListeners
<1>18. CASE Exit(p)
  BY <1>18 DEF Exit, Removed, Told
<1>19. CASE Sigkill(p)
  BY <1>19 DEF Sigkill, Die, Told
<1>20. CASE SigtermHandled(p)
  BY <1>20 DEF SigtermHandled
<1>21. CASE SigtermDefault(p)
  BY <1>21 DEF SigtermDefault, Die, Told
<1>22. CASE OrphanEnds(p)
  BY <1>22 DEF OrphanEnds
<1>23. QED
  BY <1>1, <1>2, <1>3, <1>4, <1>5, <1>6, <1>7, <1>8, <1>9, <1>10, <1>11, <1>12, <1>13, <1>14, <1>15, <1>16, <1>17, <1>18, <1>19, <1>20, <1>21, <1>22
  DEF StartUp, WindDown, Outside

-----------------------------------------------------------------------------
(* The theorems *)

THEOREM InductiveInvariant == Spec => []IInv
<1>1. Init => IInv
  <2>1. Init => TypeOK
    BY TypeAtStart
  <2>2. Init => PortsHeld /\ PortsDisjoint /\ SshWithin /\ PidfileTruthful
              /\ CallerSoFar
    BY LifecycleAssumption
    DEF LifecycleAssumption, Init, PortsHeld, PortsDisjoint, SshWithin, PidfileTruthful,
        CallerSoFar, Live
  <2>3. QED
    BY <2>1, <2>2 DEF IInv
<1>2. IInv /\ [Next]_vars => IInv'
  <2>1. ASSUME IInv, UNCHANGED vars PROVE IInv'
    BY <2>1 DEF vars, IInv, TypeOK, PortsHeld, PortsDisjoint, SshWithin, PidfileTruthful, Live,
        CallerSoFar, Detached
  <2>2. ASSUME IInv, NEW p \in Procs,
               Start(p) \/ StartUp(p) \/ Finish(p) \/ WindDown(p) \/ Outside(p)
        PROVE  IInv'
    BY <2>2, TypeAction, PortsAction, SshAction, PidfileAction, CallerAction DEF IInv
  <2>3. QED
    BY <2>1, <2>2 DEF Next, AllEnded
<1>3. QED
  BY <1>1, <1>2, PTL DEF Spec

\* However many instances start, bind, fail and end at once, an ssh under
\* supervision shares none of its monitor ports.
THEOREM PortsOwned == Spec => []OwnPorts
<1>1. IInv => OwnPorts
  BY DEF IInv, PortsHeld, PortsDisjoint, SshWithin, OwnPorts
<1>2. QED
  BY <1>1, InductiveInvariant, PTL

\* Every path through run_default and run that is not a kill removes the pidfile
\* it wrote.
THEOREM PidfileNeverStale == Spec => []PidfileTruthful
<1>1. IInv => PidfileTruthful
  BY DEF IInv
<1>2. QED
  BY <1>1, InductiveInvariant, PTL

\* No exit leaves an ssh or a listener behind, whatever it exits for.
THEOREM ExitIsClean == Spec => []NothingLeft
<1>1. IInv => NothingLeft
  BY DEF IInv, PortsHeld, SshWithin, NothingLeft, TypeOK
<1>2. QED
  BY <1>1, InductiveInvariant, PTL

\* The caller of a process that it has not detached with -f is told nothing before
\* the end, 0 only when nothing of a regular run is left, and of every failure that it
\* is one (main.rs:138-190).
THEOREM CallerKnows == Spec => []CallerTold
<1>1. ASSUME IInv, NEW p \in Procs, shell[p] = "0", ~Detached(p)
      PROVE  result[p] = "ok" /\ ssh[p] = "none" /\ bound[p] = {} /\ pidfile # p
  <2> USE <1>1 DEF IInv, CallerSoFar, TypeOK, Stage, Live, Detached
  <2>1. stage[p] = "exited"
    OBVIOUS
  <2>2. ExitCode(result[p]) = "0"
    BY <2>1
  <2>3. result[p] = "ok"
    BY <2>2 DEF ExitCode
  <2> QED
    BY <2>1, <2>3 DEF PortsHeld, SshWithin, PidfileTruthful
<1>2. ASSUME IInv, NEW p \in Procs, stage[p] = "exited", result[p] # "ok", ~Detached(p)
      PROVE  shell[p] \in {"1", "2"}
  <2>1. shell[p] = ExitCode(result[p])
    BY <1>2 DEF IInv, CallerSoFar
  <2>2. CASE result[p] \in {"ssh_not_found", "max_start"}
    BY <1>2, <2>1, <2>2 DEF ExitCode
  <2>3. CASE result[p] \notin {"ok", "ssh_not_found", "max_start"}
    BY <2>1, <2>3 DEF ExitCode
  <2> QED
    BY <1>2, <2>2, <2>3
<1>3. ASSUME IInv, NEW p \in Procs, Live(p), ~Detached(p)
      PROVE  shell[p] = "nothing"
  BY <1>3 DEF IInv, CallerSoFar
<1>4. IInv => CallerTold
  BY <1>1, <1>2, <1>3 DEF CallerTold
<1> QED
  BY <1>4, InductiveInvariant, PTL

-----------------------------------------------------------------------------
(* No way back *)

\* The steps that lie ahead of a process at most.
Ahead(p) ==
    CASE stage[p] \in {"exited", "dead"} -> 0
      [] stage[p] = "unlinking" -> 1
      [] stage[p] = "unwinding" -> 2
      [] stage[p] = "stopping" -> 3
      [] stage[p] = "running" -> 5 - armed[p]
      [] stage[p] = "spawning" -> 6
      [] stage[p] = "installing" -> 7
      [] stage[p] = "writing" -> 8
      [] stage[p] = "binding_out" -> 9
      [] stage[p] = "binding" -> 10
      [] stage[p] = "resolving" -> 11
      [] stage[p] = "detaching" -> 12
      [] stage[p] = "off" -> 13

LEMMA Forward ==
    ASSUME TypeOK, NEW p \in Procs, Start(p) \/ StartUp(p) \/ Finish(p) \/ WindDown(p)
    PROVE  /\ \A q \in Procs \ {p} : Ahead(q)' = Ahead(q)
           /\ Ahead(p)' < Ahead(p)
<1>1. stage \in [Procs -> Stage] /\ armed \in [Procs -> {0, 1}]
  BY DEF TypeOK
<1> USE <1>1 DEF Goto, Stage, Ahead
<1>2. CASE Start(p)
  BY <1>2 DEF Start
<1>3. ASSUME NEW r, Unwind(p, r), armed' = armed,
             stage[p] \notin {"exited", "dead", "unlinking", "unwinding"}
      PROVE  /\ \A q \in Procs \ {p} : Ahead(q)' = Ahead(q)
             /\ Ahead(p)' < Ahead(p)
  BY <1>3 DEF Unwind
<1>4. CASE Detach(p) \/ Resolve(p)
  BY <1>4 DEF Detach, Resolve
<1>5. CASE Bind(p) \/ BindOut(p)
  BY <1>5 DEF Bind, BindOut
<1>6. CASE WritePid(p) \/ Install(p) \/ SpawnSsh(p)
  BY <1>6 DEF WritePid, Install, SpawnSsh
<1>7. CASE Arm(p)
  BY <1>7 DEF Arm
<1>8. CASE DetachFails(p) \/ ResolveFails(p) \/ BindFails(p) \/ WriteFails(p) \/ SpawnFails(p)
  BY <1>3, <1>8 DEF DetachFails, ResolveFails, BindFails, WriteFails, SpawnFails
<1>9. CASE Finish(p) \/ Terminated(p)
  BY <1>3, <1>9 DEF Finish, Terminated
<1>10. CASE CloseListeners(p) \/ Exit(p)
  BY <1>10 DEF CloseListeners, Exit
<1> QED
  BY <1>2, <1>4, <1>5, <1>6, <1>7, <1>8, <1>9, <1>10 DEF StartUp, WindDown

\* A signal only shortens the way.
LEMMA Shortened ==
    ASSUME TypeOK, NEW p \in Procs, Outside(p)
    PROVE  /\ \A q \in Procs \ {p} : Ahead(q)' = Ahead(q)
           /\ Ahead(p)' <= Ahead(p)
<1>1. stage \in [Procs -> Stage] /\ armed \in [Procs -> {0, 1}]
  BY DEF TypeOK
<1> USE <1>1 DEF Goto, Stage, Ahead
<1>2. CASE Sigkill(p) \/ SigtermDefault(p)
  BY <1>2 DEF Sigkill, SigtermDefault, Die
<1>3. CASE SigtermHandled(p)
  BY <1>3 DEF SigtermHandled
<1>4. CASE OrphanEnds(p)
  BY <1>4 DEF OrphanEnds
<1> QED
  BY <1>2, <1>3, <1>4 DEF Outside

\* A process never goes back to a stage it has left, whatever the others do and
\* whatever it is sent: from its start to its end it takes at most 13 steps, so that
\* it cannot try for ever to get its ports, its pidfile or its ssh
\* (lib.rs:475-579, main.rs:138-156).
THEOREM NoWayBack ==
    Spec => [][ \A p \in Procs :
                   /\ Ahead(p) \in 0..13
                   /\ Ahead(p)' <= Ahead(p)
                   /\ StartUp(p) \/ WindDown(p) => Ahead(p)' < Ahead(p) ]_vars
<1> DEFINE A == \A p \in Procs :
                   /\ Ahead(p) \in 0..13
                   /\ Ahead(p)' <= Ahead(p)
                   /\ StartUp(p) \/ WindDown(p) => Ahead(p)' < Ahead(p)
<1>1. IInv /\ [Next]_vars => [A]_vars
  <2> SUFFICES ASSUME IInv, Next, NEW p \in Procs, vars' # vars
               PROVE  /\ Ahead(p) \in 0..13
                      /\ Ahead(p)' <= Ahead(p)
                      /\ StartUp(p) \/ WindDown(p) => Ahead(p)' < Ahead(p)
    BY Zenon
  <2>1. TypeOK
    BY DEF IInv
  <2>2. Ahead(p) \in 0..13
    BY <2>1 DEF TypeOK, Stage, Ahead
  <2>3. PICK q \in Procs : Start(q) \/ StartUp(q) \/ Finish(q) \/ WindDown(q) \/ Outside(q)
    BY DEF Next, AllEnded
  <2>4. Ahead(p)' <= Ahead(p)
    <3>1. CASE Outside(q)
      BY <2>1, <2>2, <3>1, Shortened
    <3>2. CASE Start(q) \/ StartUp(q) \/ Finish(q) \/ WindDown(q)
      <4>1. p # q => Ahead(p)' = Ahead(p)
        BY <2>1, <3>2, Forward
      <4>2. p = q => Ahead(p)' < Ahead(p)
        BY <2>1, <3>2, Forward
      <4>3. Ahead(p)' \in Int
        <5>1. TypeOK'
          BY <2>1, <2>3, TypeAction
        <5> QED
          BY <5>1 DEF TypeOK, Stage, Ahead
      <4> QED
        BY <2>2, <4>1, <4>2, <4>3
    <3> QED
      BY <2>3, <3>1, <3>2
  <2>5. StartUp(p) \/ WindDown(p) => Ahead(p)' < Ahead(p)
    BY <2>1, Forward
  <2> QED
    BY <2>2, <2>4, <2>5
<1> QED
  BY <1>1, InductiveInvariant, PTL DEF Spec

=============================================================================
