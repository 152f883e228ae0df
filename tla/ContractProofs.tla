--------------------------- MODULE ContractProofs ---------------------------
(***************************************************************************)
(* What follows from the contract alone, and so holds of everything that   *)
(* implements it.                                                          *)
(***************************************************************************)
EXTENDS SupervisorContract, TLAPS

\* What a launch leaves to be told, and what an outcome needs to have been told.
Owing ==
    /\ owed # {} => ssh # "none" /\ outcome = "none"
    /\ "ChildSpawned" \in owed => ToldToLaunch
    /\ owed = {"ChildRespawned"} => last = "ChildSpawned"
    /\ owed = {"ChildSpawned"} => last = "none"
    /\ last = "none" => owed \subseteq {"ChildSpawned"}
    /\ ssh # "none" /\ owed = {} => last # "none"

Promised == TypeOK /\ Owing /\ OutcomeTold

LEMMA PromisedStep == Promised /\ [Next]_contractVars => Promised'
<1> SUFFICES ASSUME Promised, [Next]_contractVars PROVE Promised'
  OBVIOUS
<1> USE DEF Promised, TypeOK, Owing, OutcomeTold, Reasons, Final, StopKinds,
            RespawnKinds, ToldToLaunch
<1>1. CASE Launch
  BY <1>1 DEF Launch
<1>2. CASE Die
  BY <1>2 DEF Die
<1>3. CASE Collect
  BY <1>3 DEF Collect
<1>4. CASE TellSpawned
  BY <1>4 DEF TellSpawned, Tell
<1>5. CASE TellRespawned
  BY <1>5 DEF TellRespawned, Tell
<1>6. CASE TellExited
  BY <1>6 DEF TellExited, Tell, ToldUp, Dead
<1>7. CASE TellReason
  BY <1>7 DEF TellReason, Tell, ToldUp
<1>8. CASE TellExhausted
  BY <1>8 DEF TellExhausted, Tell
<1>9. CASE Stop
  BY <1>9 DEF Stop
<1>10. CASE UNCHANGED contractVars
  BY <1>10 DEF contractVars
<1> QED
  BY <1>1, <1>2, <1>3, <1>4, <1>5, <1>6, <1>7, <1>8, <1>9, <1>10 DEF Next

\* Every state of the contract is one of its types, what is owed belongs to an ssh
\* that is there, and an outcome was announced (supervisor.rs run).
THEOREM PromiseKept == Spec => []Promised
<1>1. Init => Promised
  BY DEF Init, Promised, TypeOK, Owing, OutcomeTold
<1> QED
  BY <1>1, PromisedStep, PTL DEF Spec

\* run() never succeeds, fails or reports the cap without having told so, and
\* leaves no ssh behind (supervisor.rs:300-400).
THEOREM OutcomeAnnounced == Spec => []OutcomeTold
<1>1. Promised => OutcomeTold
  BY DEF Promised
<1> QED
  BY <1>1, PromiseKept, PTL

\* A stop signal, the end of the lifetime and the cap are told last, and no ssh is
\* launched after them (supervisor.rs:219-330).
THEOREM NothingAfter == Spec => LastWord
<1>1. ASSUME Promised, [Next]_contractVars, last \in Final
      PROVE  last' = last /\ (ssh' = "running" => ssh = "running")
  <2>1. ~ToldToLaunch /\ ~ToldUp /\ last # "ChildExited" /\ last # "ProbeTimeout"
    BY <1>1 DEF Final, StopKinds, RespawnKinds, ToldToLaunch, ToldUp
  <2>2. owed = {}
    BY <1>1, <2>1 DEF Promised, TypeOK, Owing, ToldUp
  <2> QED
    BY <1>1, <2>1, <2>2
    DEF Next, Launch, Die, Collect, TellSpawned, TellRespawned, TellExited, TellReason,
        TellExhausted, Stop, contractVars
<1>2. Promised /\ [Next]_contractVars =>
        [ (last \in Final)
            => last' = last /\ (ssh' = "running" => ssh = "running") ]_contractVars
  BY <1>1
<1> QED
  BY <1>2, PromiseKept, PTL DEF Spec, LastWord

\* The events come in the order of the grammar, for every consumer.
THEOREM InOrder == Spec => Grammar
<1>1. ASSUME Promised, [Next]_contractVars, last' # last
      PROVE  last' \in Followers(last)
  <2> USE DEF Promised, TypeOK, Owing, Reasons, Final, StopKinds, RespawnKinds,
              Followers, Tell
  <2>1. CASE TellSpawned
    BY <1>1, <2>1 DEF TellSpawned, ToldToLaunch
  <2>2. CASE TellRespawned
    BY <1>1, <2>2 DEF TellRespawned
  <2>3. CASE TellExited
    BY <1>1, <2>3 DEF TellExited, ToldUp
  <2>4. CASE TellReason
    BY <1>1, <2>4 DEF TellReason, ToldUp
  <2>5. CASE TellExhausted
    BY <1>1, <2>5 DEF TellExhausted
  <2>6. CASE Launch \/ Die \/ Collect \/ Stop \/ UNCHANGED contractVars
    BY <1>1, <2>6 DEF Launch, Die, Collect, Stop, contractVars
  <2> QED
    BY <1>1, <2>1, <2>2, <2>3, <2>4, <2>5, <2>6 DEF Next
<1>2. Promised /\ [Next]_contractVars =>
        [ last' # last => last' \in Followers(last) ]_contractVars
  BY <1>1
<1> QED
  BY <1>2, PromiseKept, PTL DEF Spec, Grammar

\* No ssh is collected, and run() does not return, before its launch was told.
THEOREM NoSilentLaunch == Spec => LaunchesTold
<1>1. ASSUME Promised, [Next]_contractVars, "ChildSpawned" \in owed
      PROVE  /\ ssh' # "none" /\ outcome' = "none"
             /\ last' \in {last, "ChildSpawned"}
  BY <1>1
  DEF Promised, Owing, Next, Launch, Die, Collect, TellSpawned, TellRespawned,
      TellExited, TellReason, TellExhausted, Tell, Stop, contractVars
<1>2. Promised /\ [Next]_contractVars =>
        [ ("ChildSpawned" \in owed) =>
            /\ ssh' # "none" /\ outcome' = "none"
            /\ last' \in {last, "ChildSpawned"} ]_contractVars
  BY <1>1
<1> QED
  BY <1>2, PromiseKept, PTL DEF Spec, LaunchesTold

=============================================================================
