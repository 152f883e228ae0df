-------------------------- MODULE MonitorPathProofs -------------------------
(***************************************************************************)
(* Proofs about the monitor's path, for every set of modes, every backlog, *)
(* every poll interval and every number of probes and connections.         *)
(***************************************************************************)
EXTENDS MonitorPath, SequenceTheorems, TLAPS

-----------------------------------------------------------------------------
(* The invariant *)

\* How far the two halves of a probe are, and the sockets they hold.
Halves ==
    /\ reader # "off" => writer # "off"
    /\ reader = "accept" => Ring
    /\ sock # 0 <=> Ring /\ reader \in {"read", "done"}
    /\ writer = "write" => stream # 0
    /\ writer # "off" => asked > 0
    /\ sock # 0 => conns[sock].heard = asked

\* A probe that has connected counts against the listener_in like one that was
\* answered.
Connected == IF writer \in {"write", "done"} THEN 1 ELSE 0

Budget ==
    /\ answered + Connected <= Len(queue["in"])
    /\ writer # "off" => answered < asked

\* The queue of the listener_out holds what has arrived there and has not been
\* accepted, in the order of its arrival.
OutQueue ==
    /\ \A i \in DOMAIN queue["out"] : conns[queue["out"][i]].heard = 0
    /\ \A i, j \in DOMAIN queue["out"] : i < j => queue["out"][i] < queue["out"][j]

\* The reader has what it reads from the listener_out, and only a ring's is ever done.
Listened ==
    /\ sock # 0 => conns[sock].at = "out"
    /\ reader = "done" => Ring

\* What comes in at the listener_out is from others, and nothing comes to the echo
\* service of the server: what a probe sends it sends to its supervisor.
Strangers ==
    /\ \A c \in DOMAIN conns : conns[c].at = "out" => conns[c].from # "probe"
    /\ \A i \in DOMAIN queue["out"] : conns[queue["out"][i]].at = "out"
    /\ queue["echo"] = <<>>
    /\ Listened

IInv == TypeOK /\ Halves /\ Budget /\ OutQueue /\ Strangers

-----------------------------------------------------------------------------
(* Where the writer's connection goes *)

\* The supervisor is itself the end of the connection its probe makes: neither
\* half of the tunnel is on the way.
LEMMA ProbeStaysAtHome ==
    ASSUME TypeOK
    PROVE  AtHome(Goal) = {"in"}
<1> USE PathAssumption DEF PathAssumption
<1>1. mode.echo = NoEcho => ports.port_in # ports.port_out
  BY DEF TypeOK, Bindings
<1>2. Own(ports.port_in) = {"in"}
  BY <1>1 DEF Own, Ring
<1> QED
  BY <1>2 DEF AtHome, Goal

-----------------------------------------------------------------------------
(* What a step does to the connections and the queues *)

\* It leaves the queues alone, and of the connections changes no more than
\* whether they have sent and whether they are open.
SameConns(cs) ==
    /\ cs \in Seq(Conn)
    /\ Len(cs) = Len(conns)
    /\ \A c \in DOMAIN conns :
           /\ cs[c].at = conns[c].at
           /\ cs[c].from = conns[c].from
           /\ cs[c].heard = conns[c].heard

Steady == SameConns(conns') /\ queue' = queue

LEMMA ShutFacts ==
    ASSUME NEW cs \in Seq(Conn), NEW S
    PROVE  /\ Shut(cs, S) \in Seq(Conn) /\ Len(Shut(cs, S)) = Len(cs)
           /\ \A c \in DOMAIN cs :
                  /\ Shut(cs, S)[c].at = cs[c].at
                  /\ Shut(cs, S)[c].from = cs[c].from
                  /\ Shut(cs, S)[c].heard = cs[c].heard
<1>1. DOMAIN cs = 1..Len(cs) /\ Len(cs) \in Nat /\ \A c \in 1..Len(cs) : cs[c] \in Conn
  BY LenProperties
<1>2. \A c \in 1..Len(cs) : [cs[c] EXCEPT !.open = FALSE] \in Conn
  BY <1>1 DEF Conn
<1>3. Shut(cs, S) \in [1..Len(cs) -> Conn]
  BY <1>1, <1>2 DEF Shut
<1>4. Shut(cs, S) \in Seq(Conn) /\ Len(Shut(cs, S)) = Len(cs)
  BY <1>1, <1>3
<1>5. \A c \in DOMAIN cs :
          /\ Shut(cs, S)[c].at = cs[c].at
          /\ Shut(cs, S)[c].from = cs[c].from
          /\ Shut(cs, S)[c].heard = cs[c].heard
  BY <1>1 DEF Shut, Conn
<1> QED
  BY <1>4, <1>5

LEMMA SentFacts ==
    ASSUME TypeOK, NEW c \in DOMAIN conns
    PROVE  SameConns(Sent(c))
<1>1. DOMAIN conns = 1..Len(conns) /\ Len(conns) \in Nat /\ conns \in Seq(Conn)
      /\ \A d \in 1..Len(conns) : conns[d] \in Conn
  BY LenProperties DEF TypeOK
<1>2. [conns[c] EXCEPT !.sent = TRUE] \in Conn
  BY <1>1 DEF Conn
<1>3. Sent(c) = [conns EXCEPT ![c] = [conns[c] EXCEPT !.sent = TRUE]]
  BY <1>1 DEF Sent
<1>4. /\ Sent(c) \in Seq(Conn) /\ Len(Sent(c)) = Len(conns)
      /\ \A d \in 1..Len(conns) :
             Sent(c)[d] = IF d = c THEN [conns[c] EXCEPT !.sent = TRUE] ELSE conns[d]
  BY <1>1, <1>2, <1>3, ExceptSeq
<1>5. /\ [conns[c] EXCEPT !.sent = TRUE].at = conns[c].at
      /\ [conns[c] EXCEPT !.sent = TRUE].from = conns[c].from
      /\ [conns[c] EXCEPT !.sent = TRUE].heard = conns[c].heard
  BY <1>1 DEF Conn
<1> QED
  BY <1>1, <1>4, <1>5 DEF SameConns

LEMMA ReturnFacts ==
    ASSUME TypeOK, NEW v, Return(v)
    PROVE  Steady
  BY ShutFacts DEF Return, Steady, SameConns, TypeOK

LEMMA WriteFacts ==
    ASSUME TypeOK, Halves, Write
    PROVE  Steady
<1>1. stream \in DOMAIN conns /\ SameConns(Sent(stream))
  BY SentFacts DEF TypeOK, Halves, Write
<1>2. SameConns(Shut(Sent(stream), {stream}))
  <2>1. /\ Shut(Sent(stream), {stream}) \in Seq(Conn)
        /\ Len(Shut(Sent(stream), {stream})) = Len(Sent(stream))
        /\ \A c \in DOMAIN Sent(stream) :
               /\ Shut(Sent(stream), {stream})[c].at = Sent(stream)[c].at
               /\ Shut(Sent(stream), {stream})[c].from = Sent(stream)[c].from
               /\ Shut(Sent(stream), {stream})[c].heard = Sent(stream)[c].heard
    BY <1>1, ShutFacts DEF SameConns
  <2>2. DOMAIN Sent(stream) = DOMAIN conns
    BY <1>1, LenProperties DEF SameConns, TypeOK
  <2> QED
    BY <1>1, <2>1, <2>2 DEF SameConns
<1> QED
  BY <1>1, <1>2 DEF Write, Steady

\* What an arrival does.
LEMMA ArriveFacts ==
    ASSUME TypeOK, NEW l \in {"in", "out", "echo"}, NEW from \in {"probe", "local", "server"},
           Arrive(l, from)
    PROVE  /\ conns' \in Seq(Conn) /\ Len(conns') = Len(conns) + 1
           /\ \A c \in DOMAIN conns : c \in DOMAIN conns' /\ conns'[c] = conns[c]
           /\ conns'[NewConn].at = l /\ conns'[NewConn].heard = 0
           /\ conns'[NewConn].from = from
           /\ \A c \in DOMAIN conns' : c \in DOMAIN conns \/ c = NewConn
           /\ NewConn \in DOMAIN conns' /\ NewConn \in Nat /\ NewConn # 0
           /\ queue' = [queue EXCEPT ![l] = Append(@, NewConn)]
           /\ queue' \in [{"in", "out", "echo"} -> Seq(Nat)]
           /\ Len(queue[l]) < Backlog
<1> DEFINE new == Connection(l, from)
<1>1. conns \in Seq(Conn) /\ Len(conns) \in Nat /\ DOMAIN conns = 1..Len(conns)
  BY LenProperties DEF TypeOK
<1>2. new \in Conn /\ new.at = l /\ new.heard = 0 /\ new.from = from
  BY PathAssumption DEF Connection, Conn, PathAssumption
<1>3. /\ conns' = Append(conns, new)
      /\ queue' = [queue EXCEPT ![l] = Append(@, NewConn)]
      /\ Len(queue[l]) < Backlog
  BY DEF Arrive, Behind, Room
<1> HIDE DEF new
<1>4. /\ conns' \in Seq(Conn) /\ Len(conns') = Len(conns) + 1
      /\ DOMAIN conns' = 1..(Len(conns) + 1)
      /\ \A c \in 1..Len(conns) : conns'[c] = conns[c]
      /\ conns'[Len(conns) + 1] = new
  BY <1>1, <1>2, <1>3
<1>5. queue[l] \in Seq(Nat) /\ NewConn \in Nat
  BY <1>1 DEF TypeOK, NewConn
<1>6. queue' \in [{"in", "out", "echo"} -> Seq(Nat)]
  BY <1>3, <1>5 DEF TypeOK
<1> QED
  BY <1>1, <1>2, <1>3, <1>4, <1>5, <1>6 DEF NewConn

\* What an accept does.
LEMMA AcceptFacts ==
    ASSUME TypeOK, Halves, Accept
    PROVE  /\ conns' \in Seq(Conn) /\ Len(conns') = Len(conns)
           /\ \A c \in DOMAIN conns :
                  /\ conns'[c].at = conns[c].at
                  /\ conns'[c].from = conns[c].from
                  /\ conns'[c].heard = IF c = queue["out"][1] THEN asked ELSE conns[c].heard
           /\ 1 \in DOMAIN queue["out"] /\ queue["out"][1] \in DOMAIN conns
           /\ sock' = queue["out"][1]
           /\ asked > 0
           /\ queue' \in [{"in", "out", "echo"} -> Seq(Nat)]
           /\ \A l \in {"in", "echo"} : queue'[l] = queue[l]
           /\ Len(queue'["out"]) = Len(queue["out"]) - 1
           /\ \A i \in DOMAIN queue'["out"] :
                  i + 1 \in DOMAIN queue["out"] /\ queue'["out"][i] = queue["out"][i + 1]
           /\ \A i \in DOMAIN queue["out"] :
                  i # 1 => i - 1 \in DOMAIN queue'["out"]
                           /\ queue'["out"][i - 1] = queue["out"][i]
<1> DEFINE q == queue["out"]
<1>1. q \in Seq(Nat) /\ q # <<>>
  BY DEF Accept, TypeOK
<1>2. /\ Head(q) = q[1] /\ 1 \in DOMAIN q
      /\ Tail(q) \in Seq(Nat) /\ Len(Tail(q)) = Len(q) - 1
      /\ \A i \in DOMAIN Tail(q) : i + 1 \in DOMAIN q /\ Tail(q)[i] = q[i + 1]
      /\ \A i \in DOMAIN q : i # 1 => i - 1 \in DOMAIN Tail(q) /\ Tail(q)[i - 1] = q[i]
  BY <1>1
<1>3. q[1] \in DOMAIN conns
  BY <1>2 DEF TypeOK
<1>4. /\ conns \in Seq(Conn) /\ Len(conns) \in Nat /\ DOMAIN conns = 1..Len(conns)
      /\ \A c \in 1..Len(conns) : conns[c] \in Conn
  BY LenProperties DEF TypeOK
<1>5. asked \in 0..MaxProbes /\ asked > 0
  BY DEF TypeOK, Halves, Accept
<1>6. queue' = [queue EXCEPT !["out"] = Tail(q)] /\ queue' \in [{"in", "out", "echo"} -> Seq(Nat)]
      /\ queue'["out"] = Tail(q) /\ \A l \in {"in", "echo"} : queue'[l] = queue[l]
  BY <1>2 DEF Accept, Taken, TypeOK
<1> DEFINE e == [conns[q[1]] EXCEPT !.heard = asked]
<1>7. e \in Conn /\ e.at = conns[q[1]].at /\ e.from = conns[q[1]].from /\ e.heard = asked
  <2>1. ASSUME NEW r \in Conn, NEW n \in 0..MaxProbes
        PROVE  LET x == [r EXCEPT !.heard = n]
               IN  x \in Conn /\ x.at = r.at /\ x.from = r.from /\ x.heard = n
    BY DEF Conn
  <2> QED
    BY <1>3, <1>4, <1>5, <2>1
<1>8. conns' = [conns EXCEPT ![q[1]] = e] /\ sock' = q[1]
  BY <1>2 DEF Accept
<1> HIDE DEF e
<1>9. /\ conns' \in Seq(Conn) /\ Len(conns') = Len(conns)
      /\ \A c \in 1..Len(conns) : conns'[c] = IF c = q[1] THEN e ELSE conns[c]
  BY <1>3, <1>4, <1>7, <1>8, ExceptSeq
<1> QED
  BY <1>2, <1>3, <1>4, <1>5, <1>6, <1>7, <1>8, <1>9

-----------------------------------------------------------------------------
(* Type correctness *)

LEMMA StartFacts == Init => IInv
<1> SUFFICES ASSUME Init PROVE IInv
  OBVIOUS
<1> USE PathAssumption DEF PathAssumption, Init
<1>1. TypeOK
  <2>1. conns \in Seq(Conn) /\ queue \in [{"in", "out", "echo"} -> Seq(Nat)]
    OBVIOUS
  <2>2. \A l \in DOMAIN queue : Len(queue[l]) = 0 /\ DOMAIN queue[l] = {}
    OBVIOUS
  <2>3. /\ mode \in Modes /\ ports \in Bindings(mode)
        /\ asked = 0 /\ left = 0 /\ answered = 0 /\ stream = 0 /\ sock = 0
        /\ ssh = "down" /\ writer = "off" /\ reader = "off" /\ verdict = "none" /\ sound = FALSE
    OBVIOUS
  <2>4. 0 \in 0..MaxProbes /\ 0 \in 0..Poll /\ 0 \in 0..0 /\ Backlog >= 0
    OBVIOUS
  <2> HIDE DEF Init
  <2> QED
    BY <2>1, <2>2, <2>3, <2>4 DEF TypeOK
<1>2. Halves /\ Budget /\ OutQueue /\ Strangers
  BY DEF Halves, Budget, Connected, OutQueue, Strangers, Listened
<1> QED
  BY <1>1, <1>2 DEF IInv

\* Every step is of one of three kinds.
LEMMA StepKinds ==
    ASSUME TypeOK, Halves, [Next]_vars
    PROVE  \/ Steady
           \/ \E l \in {"in", "out", "echo"}, from \in {"probe", "local", "server"} :
                  Arrive(l, from) /\ l # "echo" /\ (from = "probe" => l = "in")
           \/ Accept
<1>1. CASE UNCHANGED vars
  BY <1>1 DEF vars, Steady, SameConns, TypeOK
<1>2. CASE Probe \/ Read \/ Tick \/ SshUp
  BY <1>2 DEF Probe, Read, Tick, SshUp, Steady, SameConns, TypeOK
<1>3. CASE ConnectFails \/ ReadFails \/ Joined \/ Timeout
  BY <1>3, ReturnFacts DEF ConnectFails, ReadFails, Joined, Timeout
<1>4. CASE Write
  BY <1>4, WriteFacts
<1>5. CASE Connect
  BY <1>5, ProbeStaysAtHome DEF Connect
<1>6. CASE SshDown
  BY <1>6, ShutFacts DEF SshDown, Steady, SameConns, TypeOK
<1>7. CASE Visit
  <2>1. Own(ports.port_in) \union Own(ports.port_out) \subseteq {"in", "out"}
    BY DEF Own
  <2>2. AtServer(ports.port_in) \ {"echo"} \subseteq {"in", "out"}
    BY DEF AtServer, Own
  <2> QED
    BY <1>7, <2>1, <2>2 DEF Visit
<1>8. ASSUME NEW c \in DOMAIN conns, Send(c) PROVE Steady
  BY <1>8, SentFacts DEF Send, Steady
<1>9. ASSUME NEW c \in DOMAIN conns, Hangup(c) PROVE Steady
  BY <1>9, ShutFacts DEF Hangup, Steady, SameConns, TypeOK
<1> QED
  BY <1>1, <1>2, <1>3, <1>4, <1>5, <1>6, <1>7, <1>8, <1>9
  DEF Next, RoundTrip, Others

LEMMA DataStep ==
    ASSUME TypeOK, Halves, [Next]_vars
    PROVE  /\ conns' \in Seq(Conn)
           /\ queue' \in [{"in", "out", "echo"} -> Seq(Nat)]
           /\ \A l \in DOMAIN queue' :
                  /\ Len(queue'[l]) <= Backlog
                  /\ \A i \in DOMAIN queue'[l] : queue'[l][i] \in DOMAIN conns'
           /\ DOMAIN conns \subseteq DOMAIN conns'
<1> USE PathAssumption DEF PathAssumption
<1>0. DOMAIN conns = 1..Len(conns) /\ Len(conns) \in Nat
  BY LenProperties DEF TypeOK
<1>1. CASE Steady
  <2>1. DOMAIN conns' = DOMAIN conns
    BY <1>0, <1>1, LenProperties DEF Steady, SameConns
  <2> QED
    BY <1>1, <2>1 DEF Steady, SameConns, TypeOK
<1>2. ASSUME NEW l \in {"in", "out", "echo"}, NEW from \in {"probe", "local", "server"},
             Arrive(l, from)
      PROVE  /\ conns' \in Seq(Conn) /\ queue' \in [{"in", "out", "echo"} -> Seq(Nat)]
             /\ \A k \in DOMAIN queue' :
                    /\ Len(queue'[k]) <= Backlog
                    /\ \A i \in DOMAIN queue'[k] : queue'[k][i] \in DOMAIN conns'
             /\ DOMAIN conns \subseteq DOMAIN conns'
  <2>1. /\ conns' \in Seq(Conn) /\ queue' \in [{"in", "out", "echo"} -> Seq(Nat)]
        /\ DOMAIN conns \subseteq DOMAIN conns' /\ NewConn \in DOMAIN conns'
        /\ NewConn \in Nat
        /\ queue' = [queue EXCEPT ![l] = Append(@, NewConn)] /\ Len(queue[l]) < Backlog
    BY <1>2, ArriveFacts
  <2>2. ASSUME NEW k \in {"in", "out", "echo"}
        PROVE  /\ Len(queue'[k]) <= Backlog
               /\ \A i \in DOMAIN queue'[k] : queue'[k][i] \in DOMAIN conns'
    <3>1. CASE k = l
      <4>1. queue[l] \in Seq(Nat) /\ queue'[k] = Append(queue[l], NewConn)
        BY <2>1, <3>1 DEF TypeOK
      <4>2. /\ Len(queue'[k]) = Len(queue[l]) + 1
            /\ \A i \in DOMAIN queue'[k] :
                   \/ i \in DOMAIN queue[l] /\ queue'[k][i] = queue[l][i]
                   \/ queue'[k][i] = NewConn
        BY <2>1, <4>1
      <4>3. Len(queue[l]) \in Nat
        BY <4>1
      <4>4. Len(queue'[k]) <= Backlog
        BY <2>1, <4>2, <4>3
      <4>5. \A i \in DOMAIN queue[l] : queue[l][i] \in DOMAIN conns'
        BY <2>1 DEF TypeOK
      <4> QED
        BY <2>1, <4>2, <4>4, <4>5
    <3>2. CASE k # l
      BY <2>1, <3>2 DEF TypeOK
    <3> QED
      BY <3>1, <3>2
  <2> QED
    BY <2>1, <2>2
<1>3. CASE Accept
  <2>1. DOMAIN conns' = DOMAIN conns
    BY <1>0, <1>3, AcceptFacts, LenProperties
  <2>2. \A l \in {"in", "echo"} :
            Len(queue'[l]) <= Backlog /\ \A i \in DOMAIN queue'[l] : queue'[l][i] \in DOMAIN conns'
    BY <1>3, <2>1, AcceptFacts DEF TypeOK
  <2>3. /\ Len(queue'["out"]) <= Backlog
        /\ \A i \in DOMAIN queue'["out"] : queue'["out"][i] \in DOMAIN conns'
    BY <1>3, <2>1, AcceptFacts DEF TypeOK
  <2> QED
    BY <1>3, <2>1, <2>2, <2>3, AcceptFacts
<1> QED
  BY <1>1, <1>2, <1>3, StepKinds

LEMMA TypeStep ==
    ASSUME TypeOK, Halves, Budget, [Next]_vars
    PROVE  TypeOK'
<1> USE PathAssumption DEF PathAssumption
<1> SUFFICES /\ ports' \in Bindings(mode)
             /\ mode' = mode
             /\ ssh' \in {"down", "up", "granted"}
             /\ asked' \in 0..MaxProbes
             /\ writer' \in {"off", "connect", "write", "done"}
             /\ reader' \in {"off", "accept", "read", "done"}
             /\ stream' \in {0} \union DOMAIN conns'
             /\ sock' \in {0} \union DOMAIN conns'
             /\ left' \in 0..Poll
             /\ verdict' \in {"none", "ok", "io", "timeout"}
             /\ answered' \in 0..asked'
             /\ sound' \in BOOLEAN
  BY DataStep DEF TypeOK
<1>0. DOMAIN conns \subseteq DOMAIN conns'
  BY DataStep
<1> USE DEF TypeOK, pathVars, probeVars
<1>1. CASE UNCHANGED vars
  BY <1>0, <1>1 DEF vars
<1>2. CASE Probe
  BY <1>0, <1>2 DEF Probe, Probing
<1>3. CASE Connect
  <2>1. NewConn \in DOMAIN conns'
    BY <1>3, ProbeStaysAtHome, ArriveFacts DEF Connect
  <2> QED
    BY <1>0, <1>3, <2>1 DEF Connect
<1>4. CASE Write
  BY <1>0, <1>4 DEF Write
<1>5. CASE Accept
  BY <1>0, <1>5, AcceptFacts DEF Accept
<1>6. CASE Read
  BY <1>0, <1>6 DEF Read
<1>12. CASE Tick
  <2>1. left' \in 0..Poll
    BY <1>12 DEF Tick
  <2>2. UNCHANGED <<pathVars, ssh, asked, writer, reader, stream, sock, verdict, answered, sound>>
    BY <1>12 DEF Tick
  <2> QED
    BY <1>0, <2>1, <2>2
<1>7. ASSUME NEW v \in {"ok", "io", "timeout"}, Return(v), writer # "off"
      PROVE  /\ ports' = ports /\ mode' = mode /\ ssh' = ssh /\ asked' = asked
             /\ writer' = "off" /\ reader' = "off" /\ stream' = 0 /\ sock' = 0 /\ left' = 0
             /\ verdict' = v /\ answered' \in 0..asked /\ sound' = sound
  BY <1>7 DEF Return, Budget
<1>8. CASE ConnectFails \/ ReadFails \/ Joined \/ Timeout
  BY <1>7, <1>8 DEF ConnectFails, ReadFails, Joined, Timeout, Probing, Halves
<1>9. CASE SshUp \/ SshDown
  BY <1>0, <1>9 DEF SshUp, SshDown
<1>10. CASE Visit
  <2>1. UNCHANGED <<pathVars, ssh, probeVars, sound>>
    BY <1>10 DEF Visit
  <2> QED
    BY <1>0, <2>1
<1>11. CASE \E c \in DOMAIN conns : Send(c) \/ Hangup(c)
  <2>1. UNCHANGED <<pathVars, ssh, probeVars, sound>>
    BY <1>11 DEF Send, Hangup
  <2> QED
    BY <1>0, <2>1
<1> QED
  BY <1>1, <1>2, <1>3, <1>4, <1>5, <1>6, <1>8, <1>9, <1>10, <1>11, <1>12
  DEF Next, RoundTrip, Others

-----------------------------------------------------------------------------
(* The connections that were heard *)

LEMMA HeardStep ==
    ASSUME TypeOK, Halves, OutQueue, [Next]_vars
    PROVE  \A c \in DOMAIN conns :
               /\ conns'[c].at = conns[c].at
               /\ conns[c].heard # 0 => conns'[c].heard = conns[c].heard
<1>1. CASE Steady
  BY <1>1 DEF Steady, SameConns
<1>2. ASSUME NEW l \in {"in", "out", "echo"}, NEW from \in {"probe", "local", "server"},
             Arrive(l, from)
      PROVE  \A c \in DOMAIN conns : conns'[c] = conns[c]
  BY <1>2, ArriveFacts
<1>3. CASE Accept
  BY <1>3, AcceptFacts DEF OutQueue
<1> QED
  BY <1>1, <1>2, <1>3, StepKinds

LEMMA HalvesStep ==
    ASSUME TypeOK, Halves, OutQueue, [Next]_vars
    PROVE  Halves'
<1> USE DEF Halves, pathVars, probeVars
<1>1. \A c \in DOMAIN conns : conns[c].heard # 0 => conns'[c].heard = conns[c].heard
  BY HeardStep
<1>2. sock # 0 => sock \in DOMAIN conns
  BY DEF TypeOK
<1>3. asked \in Nat /\ (writer # "off" => asked # 0)
  BY PathAssumption DEF TypeOK, PathAssumption
<1>4. ASSUME UNCHANGED <<mode, asked, writer, reader, stream, sock>> PROVE Halves'
  BY <1>1, <1>2, <1>3, <1>4 DEF Ring
<1>5. CASE UNCHANGED vars
  BY <1>4, <1>5 DEF vars
<1>6. CASE Probe
  BY <1>3, <1>6 DEF Probe, Probing, Ring
<1>7. CASE Connect
  <2>1. stream' # 0
    BY <1>7, ProbeStaysAtHome, ArriveFacts DEF Connect
  <2> QED
    BY <1>1, <1>2, <1>3, <1>7, <2>1 DEF Connect, Ring
<1>8. CASE Write
  BY <1>1, <1>2, <1>3, <1>8 DEF Write, Ring
<1>9. CASE Accept
  <2>1. sock' \in DOMAIN conns /\ conns'[sock'].heard = asked
    BY <1>9, AcceptFacts
  <2>2. sock' # 0
    BY <2>1, LenProperties DEF TypeOK
  <2> QED
    BY <1>3, <1>9, <2>1, <2>2 DEF Accept, Ring
<1>10. CASE Read
  BY <1>10 DEF Read, Ring
<1>11. ASSUME NEW v, Return(v) PROVE Halves'
  BY <1>11 DEF Return
<1>12. CASE ConnectFails \/ ReadFails \/ Joined \/ Timeout
  BY <1>11, <1>12 DEF ConnectFails, ReadFails, Joined, Timeout
<1>13. CASE Tick \/ SshUp \/ SshDown \/ Visit
  BY <1>4, <1>13 DEF Tick, SshUp, SshDown, Visit
<1>14. CASE \E c \in DOMAIN conns : Send(c) \/ Hangup(c)
  BY <1>4, <1>14 DEF Send, Hangup
<1> QED
  BY <1>5, <1>6, <1>7, <1>8, <1>9, <1>10, <1>12, <1>13, <1>14
  DEF Next, RoundTrip, Others

LEMMA BudgetStep ==
    ASSUME TypeOK, Halves, Budget, [Next]_vars
    PROVE  Budget'
<1> USE DEF Budget, Connected, pathVars, probeVars
<1>1. Len(queue["in"]) \in Nat /\ answered \in Nat /\ asked \in Nat
  BY PathAssumption DEF TypeOK, PathAssumption
<1>2. ASSUME NEW l \in {"in", "out", "echo"}, NEW from \in {"probe", "local", "server"},
             Arrive(l, from)
      PROVE  Len(queue'["in"]) = Len(queue["in"]) + IF l = "in" THEN 1 ELSE 0
  <2>1. queue' = [queue EXCEPT ![l] = Append(@, NewConn)] /\ NewConn \in Nat
    BY <1>2, ArriveFacts
  <2> QED
    BY <1>1, <2>1 DEF TypeOK
<1>3. Len(queue'["in"]) \in Nat /\ Len(queue'["in"]) >= Len(queue["in"])
  <2>1. CASE Steady
    BY <1>1, <2>1 DEF Steady
  <2>2. CASE Accept
    BY <1>1, <2>2, AcceptFacts
  <2>3. CASE \E l \in {"in", "out", "echo"}, from \in {"probe", "local", "server"} : Arrive(l, from)
    BY <1>1, <1>2, <2>3
  <2> QED
    BY <2>1, <2>2, <2>3, StepKinds
<1>4. ASSUME UNCHANGED <<asked, writer, answered>> PROVE Budget'
  BY <1>1, <1>3, <1>4
<1>5. CASE UNCHANGED vars
  BY <1>4, <1>5 DEF vars
<1>6. CASE Probe
  BY <1>1, <1>3, <1>6 DEF Probe, Probing, TypeOK
<1>7. CASE Connect
  <2>1. Arrive("in", "probe")
    BY <1>7, ProbeStaysAtHome DEF Connect
  <2>2. Len(queue'["in"]) = Len(queue["in"]) + 1
    BY <1>2, <2>1
  <2> QED
    BY <1>1, <1>7, <2>2 DEF Connect
<1>8. CASE Write
  BY <1>1, <1>3, <1>8 DEF Write
<1>9. CASE Accept \/ Read \/ Tick \/ SshUp \/ SshDown \/ Visit
  BY <1>4, <1>9 DEF Accept, Read, Tick, SshUp, SshDown, Visit
<1>10. CASE ConnectFails \/ ReadFails \/ Timeout
  BY <1>1, <1>3, <1>10 DEF ConnectFails, ReadFails, Timeout, Return
<1>11. CASE Joined
  BY <1>1, <1>3, <1>11 DEF Joined, Return
<1>12. CASE \E c \in DOMAIN conns : Send(c) \/ Hangup(c)
  BY <1>4, <1>12 DEF Send, Hangup
<1> QED
  BY <1>5, <1>6, <1>7, <1>8, <1>9, <1>10, <1>11, <1>12
  DEF Next, RoundTrip, Others

LEMMA OutQueueStep ==
    ASSUME TypeOK, Halves, OutQueue, [Next]_vars
    PROVE  OutQueue'
<1>1. /\ DOMAIN conns = 1..Len(conns) /\ Len(conns) \in Nat
      /\ \A i \in DOMAIN queue["out"] : queue["out"][i] \in DOMAIN conns
      /\ queue["out"] \in Seq(Nat)
  BY LenProperties DEF TypeOK
<1>2. CASE Steady
  <2>1. DOMAIN conns' = DOMAIN conns
    BY <1>1, <1>2, LenProperties DEF Steady, SameConns
  <2> QED
    BY <1>1, <1>2, <2>1 DEF Steady, SameConns, OutQueue
<1>3. ASSUME NEW l \in {"in", "out", "echo"}, NEW from \in {"probe", "local", "server"},
             Arrive(l, from)
      PROVE  OutQueue'
  <2>0. \A c \in DOMAIN conns : c < NewConn
    BY <1>1 DEF NewConn
  <2>1. /\ \A c \in DOMAIN conns : c \in DOMAIN conns' /\ conns'[c] = conns[c]
        /\ conns'[NewConn].at = l /\ conns'[NewConn].heard = 0
        /\ \A c \in DOMAIN conns' : c \in DOMAIN conns \/ c = NewConn
        /\ NewConn \in Nat
        /\ queue' = [queue EXCEPT ![l] = Append(@, NewConn)]
    BY <1>3, ArriveFacts
  <2>3. CASE l # "out"
    <3>1. queue'["out"] = queue["out"]
      BY <2>1, <2>3 DEF TypeOK
    <3> QED
      BY <1>1, <2>1, <2>3, <3>1 DEF OutQueue
  <2>4. CASE l = "out"
    <3>1. queue'["out"] = Append(queue["out"], NewConn)
      BY <2>1, <2>4 DEF TypeOK
    <3>2. /\ \A i \in DOMAIN queue["out"] :
                 i \in DOMAIN queue'["out"] /\ queue'["out"][i] = queue["out"][i]
                 /\ i < Len(queue["out"]) + 1
          /\ Len(queue["out"]) + 1 \in DOMAIN queue'["out"]
          /\ queue'["out"][Len(queue["out"]) + 1] = NewConn
          /\ \A i \in DOMAIN queue'["out"] : i \in DOMAIN queue["out"] \/ i = Len(queue["out"]) + 1
      BY <1>1, <2>1, <3>1
    <3>3. \A i \in DOMAIN queue'["out"] : conns'[queue'["out"][i]].heard = 0
      BY <1>1, <2>1, <3>2 DEF OutQueue
    <3>4. \A i, j \in DOMAIN queue'["out"] : i < j => queue'["out"][i] < queue'["out"][j]
      <4> SUFFICES ASSUME NEW i \in DOMAIN queue'["out"], NEW j \in DOMAIN queue'["out"], i < j
                   PROVE  queue'["out"][i] < queue'["out"][j]
        OBVIOUS
      <4>1. i \in DOMAIN queue["out"]
        BY <1>1, <3>1
      <4>2. CASE j \in DOMAIN queue["out"]
        BY <3>2, <4>1, <4>2 DEF OutQueue
      <4>3. CASE j \notin DOMAIN queue["out"]
        BY <1>1, <2>0, <2>1, <3>2, <4>1, <4>3
      <4> QED
        BY <4>2, <4>3
    <3> QED
      BY <3>3, <3>4 DEF OutQueue
  <2> QED
    BY <2>3, <2>4
<1>4. CASE Accept
  <2> DEFINE q == queue["out"]
             r == queue'["out"]
  <2>1. /\ \A c \in DOMAIN conns :
               /\ conns'[c].at = conns[c].at
               /\ conns'[c].heard = IF c = q[1] THEN asked ELSE conns[c].heard
        /\ 1 \in DOMAIN q /\ q[1] \in DOMAIN conns /\ asked > 0
        /\ \A i \in DOMAIN r : i + 1 \in DOMAIN q /\ r[i] = q[i + 1]
        /\ \A i \in DOMAIN q : i # 1 => i - 1 \in DOMAIN r /\ r[i - 1] = q[i]
        /\ Len(conns') = Len(conns) /\ conns' \in Seq(Conn)
        /\ r \in Seq(Nat)
    BY <1>4, AcceptFacts
  <2>2. DOMAIN conns' = DOMAIN conns
    BY <1>1, <2>1, LenProperties
  <2>3. /\ \A i, j \in DOMAIN q : i < j => q[i] < q[j]
        /\ \A i \in DOMAIN q : conns[q[i]].heard = 0
    BY DEF OutQueue
  <2>4. \A i \in DOMAIN q : i \in Nat /\ i >= 1 /\ q[i] \in Nat /\ (i # 1 => q[1] < q[i])
    <3> TAKE i \in DOMAIN q
    <3>1. i \in Nat /\ i >= 1 /\ q[i] \in Nat
      BY <1>1
    <3>2. i # 1 => 1 < i
      BY <3>1
    <3> QED
      BY <2>1, <2>3, <3>1, <3>2
  <2>5. \A i \in DOMAIN r : i \in Nat /\ i + 1 # 1
    BY <2>1
  <2> HIDE DEF q, r
  <2>6. \A i \in DOMAIN r : conns'[r[i]].heard = 0
    <3> TAKE i \in DOMAIN r
    <3>1. i + 1 \in DOMAIN q /\ r[i] = q[i + 1] /\ q[1] < q[i + 1] /\ q[1] \in Nat
      BY <2>1, <2>4, <2>5
    <3>2. q[i + 1] \in DOMAIN conns /\ q[i + 1] # q[1]
      BY <1>1, <2>4, <3>1 DEF q
    <3>3. conns'[q[i + 1]].heard = conns[q[i + 1]].heard
      BY <2>1, <3>2
    <3> QED
      BY <2>3, <3>1, <3>3
  <2>7. \A i, j \in DOMAIN r : i < j => r[i] < r[j]
    <3> TAKE i, j \in DOMAIN r
    <3>1. i < j => i + 1 < j + 1
      BY <2>5
    <3> QED
      BY <2>1, <2>3, <3>1
  <2> QED
    BY <2>6, <2>7 DEF OutQueue, r
<1> QED
  BY <1>2, <1>3, <1>4, StepKinds

-----------------------------------------------------------------------------
(* Whose connections are heard *)

LEMMA StrangersData ==
    ASSUME TypeOK, Halves, Strangers, [Next]_vars
    PROVE  /\ \A c \in DOMAIN conns' : conns'[c].at = "out" => conns'[c].from # "probe"
           /\ \A i \in DOMAIN queue'["out"] : conns'[queue'["out"][i]].at = "out"
           /\ queue'["echo"] = <<>>
<1> USE DEF Strangers, Listened
<1>1. /\ DOMAIN conns = 1..Len(conns) /\ Len(conns) \in Nat
      /\ \A i \in DOMAIN queue["out"] : queue["out"][i] \in DOMAIN conns
      /\ queue["out"] \in Seq(Nat)
  BY LenProperties DEF TypeOK
<1>2. CASE Steady
  <2>1. DOMAIN conns' = DOMAIN conns
    BY <1>1, <1>2, LenProperties DEF Steady, SameConns
  <2> QED
    BY <1>1, <1>2, <2>1 DEF Steady, SameConns
<1>3. ASSUME NEW l \in {"in", "out", "echo"}, NEW from \in {"probe", "local", "server"},
             Arrive(l, from), l # "echo", from = "probe" => l = "in"
      PROVE  /\ \A c \in DOMAIN conns' : conns'[c].at = "out" => conns'[c].from # "probe"
             /\ \A i \in DOMAIN queue'["out"] : conns'[queue'["out"][i]].at = "out"
             /\ queue'["echo"] = <<>>
  <2>1. /\ \A c \in DOMAIN conns : c \in DOMAIN conns' /\ conns'[c] = conns[c]
        /\ conns'[NewConn].at = l /\ conns'[NewConn].from = from
        /\ \A c \in DOMAIN conns' : c \in DOMAIN conns \/ c = NewConn
        /\ NewConn \in Nat
        /\ queue' = [queue EXCEPT ![l] = Append(@, NewConn)]
    BY <1>3, ArriveFacts
  <2>2. \A c \in DOMAIN conns' : conns'[c].at = "out" => conns'[c].from # "probe"
    BY <1>3, <2>1
  <2>3. queue'["echo"] = <<>>
    BY <1>3, <2>1 DEF TypeOK
  <2>4. \A i \in DOMAIN queue'["out"] : conns'[queue'["out"][i]].at = "out"
    <3>1. CASE l # "out"
      <4>1. queue'["out"] = queue["out"]
        BY <2>1, <3>1 DEF TypeOK
      <4> QED
        BY <1>1, <2>1, <4>1
    <3>2. CASE l = "out"
      <4>1. queue'["out"] = Append(queue["out"], NewConn)
        BY <2>1, <3>2 DEF TypeOK
      <4>2. \A i \in DOMAIN queue'["out"] :
                \/ i \in DOMAIN queue["out"] /\ queue'["out"][i] = queue["out"][i]
                \/ queue'["out"][i] = NewConn
        BY <1>1, <2>1, <4>1
      <4> QED
        BY <1>1, <2>1, <3>2, <4>2
    <3> QED
      BY <3>1, <3>2
  <2> QED
    BY <2>2, <2>3, <2>4
<1>4. CASE Accept
  <2>1. /\ \A c \in DOMAIN conns : conns'[c].at = conns[c].at /\ conns'[c].from = conns[c].from
        /\ \A i \in DOMAIN queue'["out"] :
               i + 1 \in DOMAIN queue["out"] /\ queue'["out"][i] = queue["out"][i + 1]
        /\ queue'["echo"] = queue["echo"]
        /\ Len(conns') = Len(conns) /\ conns' \in Seq(Conn)
    BY <1>4, AcceptFacts
  <2>2. DOMAIN conns' = DOMAIN conns
    BY <1>1, <2>1, LenProperties
  <2> QED
    BY <1>1, <2>1, <2>2
<1> QED
  BY <1>2, <1>3, <1>4, StepKinds

LEMMA StrangersStep ==
    ASSUME TypeOK, Halves, OutQueue, Strangers, [Next]_vars
    PROVE  Strangers'
<1> SUFFICES Listened'
  BY StrangersData DEF Strangers
<1> USE DEF Listened, pathVars, probeVars
<1>1. \A c \in DOMAIN conns : conns'[c].at = conns[c].at
  BY HeardStep
<1>2. sock # 0 => sock \in DOMAIN conns
  BY DEF TypeOK
<1>3. Listened
  BY DEF Strangers
<1>4. ASSUME UNCHANGED <<mode, reader, sock>> PROVE Listened'
  BY <1>1, <1>2, <1>3, <1>4 DEF Ring
<1>5. CASE UNCHANGED vars
  BY <1>4, <1>5 DEF vars
<1>6. CASE Tick \/ SshUp \/ SshDown \/ Visit
  BY <1>4, <1>6 DEF Tick, SshUp, SshDown, Visit
<1>7. CASE Probe
  BY <1>1, <1>2, <1>3, <1>7 DEF Probe, Ring
<1>8. CASE Connect
  BY <1>1, <1>2, <1>3, <1>8 DEF Connect, Ring
<1>9. CASE Write
  BY <1>1, <1>2, <1>3, <1>9 DEF Write, Ring
<1>10. CASE Accept
  <2>1. 1 \in DOMAIN queue["out"] /\ queue["out"][1] \in DOMAIN conns /\ sock' = queue["out"][1]
    BY <1>10, AcceptFacts
  <2>2. conns[queue["out"][1]].at = "out"
    BY <2>1 DEF Strangers
  <2>3. reader' = "read" /\ mode' = mode
    BY <1>10 DEF Accept
  <2> QED
    BY <1>1, <2>1, <2>2, <2>3 DEF Ring
<1>11. CASE Read
  <2>1. Ring
    BY <1>11 DEF Read, Answer, Strangers
  <2> QED
    BY <1>1, <1>2, <1>3, <1>11, <2>1 DEF Read, Ring
<1>12. ASSUME NEW v, Return(v) PROVE Listened'
  BY <1>12 DEF Return
<1>13. CASE ConnectFails \/ ReadFails \/ Joined \/ Timeout
  BY <1>12, <1>13 DEF ConnectFails, ReadFails, Joined, Timeout
<1>14. CASE \E c \in DOMAIN conns : Send(c) \/ Hangup(c)
  BY <1>4, <1>14 DEF Send, Hangup
<1> QED
  BY <1>5, <1>6, <1>7, <1>8, <1>9, <1>10, <1>11, <1>13, <1>14 DEF Next, RoundTrip, Others

-----------------------------------------------------------------------------
(* Theorems *)

\* The variables keep their types; in particular no accept queue outgrows the
\* backlog, and every connection in one exists.
THEOREM TypeCorrect == Spec => []TypeOK
<1>1. IInv /\ [Next]_vars => IInv'
  BY TypeStep, HalvesStep, BudgetStep, OutQueueStep, StrangersStep DEF IInv
<1>2. IInv => TypeOK
  BY DEF IInv
<1> QED
  BY <1>1, <1>2, StartFacts, PTL DEF Spec

THEOREM InductiveInvariant == Spec => []IInv
<1>1. IInv /\ [Next]_vars => IInv'
  BY TypeStep, HalvesStep, BudgetStep, OutQueueStep, StrangersStep DEF IInv
<1> QED
  BY <1>1, StartFacts, PTL DEF Spec

\* However ssh, its server and the connections of others behave, a supervisor
\* gets no more answers than its listener_in has room for unaccepted
\* connections: probe connects to the listener that probe never accepts from.
THEOREM AnswersRunOut == Spec => []AnswersBounded
<1>1. IInv => AnswersBounded
  BY PathAssumption DEF IInv, Budget, Connected, AnswersBounded, TypeOK, PathAssumption
<1> QED
  BY <1>1, InductiveInvariant, PTL

\* A probe is answered by what others sent to the listener_out, once for each of
\* their connections, and never by its own payload; with an echo port nothing ever
\* answers (monitor.rs:170-226).
THEOREM AnswersHeardOnce == Spec => HeardOnce
<1> DEFINE A == /\ \A c \in DOMAIN conns : conns[c].heard # 0 => conns'[c].heard = conns[c].heard
                /\ answered' > answered =>
                      Ring /\ conns[sock].heard = asked /\ conns[sock].from # "probe"
<1>1. IInv /\ [Next]_vars => [A]_vars
  <2> SUFFICES ASSUME IInv, [Next]_vars PROVE A
    OBVIOUS
  <2>1. \A c \in DOMAIN conns : conns[c].heard # 0 => conns'[c].heard = conns[c].heard
    BY HeardStep DEF IInv
  <2>2. ASSUME answered' > answered
        PROVE  Ring /\ conns[sock].heard = asked /\ conns[sock].from # "probe"
    <3>1. answered \in Nat
      BY PathAssumption DEF IInv, TypeOK, PathAssumption
    <3>2. CASE UNCHANGED answered
      BY <2>2, <3>1, <3>2
    <3>3. CASE ConnectFails \/ ReadFails \/ Timeout
      BY <2>2, <3>1, <3>3 DEF ConnectFails, ReadFails, Timeout, Return
    <3>4. CASE Joined
      <4>1. Ring /\ sock # 0 /\ sock \in DOMAIN conns
        BY <3>4 DEF IInv, TypeOK, Halves, Strangers, Listened, Joined
      <4> QED
        BY <4>1 DEF IInv, Halves, Strangers, Listened
    <3>5. CASE Probe \/ Connect \/ Write \/ Accept \/ Read \/ Tick
      BY <3>2, <3>5 DEF Probe, Connect, Write, Accept, Read, Tick
    <3>6. CASE Others \/ UNCHANGED vars
      BY <3>2, <3>6 DEF Others, SshUp, SshDown, Visit, Send, Hangup, vars, probeVars
    <3> QED
      BY <3>3, <3>4, <3>5, <3>6 DEF Next, RoundTrip
  <2> QED
    BY <2>1, <2>2
<1> QED
  BY <1>1, InductiveInvariant, PTL DEF Spec, HeardOnce

-----------------------------------------------------------------------------
(* A probe ends *)

\* What lies before the probe's return at most: the steps of its halves, the time to
\* its timeout, and the return.  The echo mode's reader begins where its writer ends.
WriterSteps == IF writer = "connect" THEN 4 ELSE IF writer = "write" THEN 3 ELSE 0
ReaderSteps == IF reader = "accept" THEN 2 ELSE IF reader = "read" THEN 1 ELSE 0
ToReturn == IF Probing THEN 1 + left + WriterSteps + ReaderSteps ELSE 0

LEMMA Nearer ==
    ASSUME IInv, RoundTrip
    PROVE  ToReturn' < ToReturn
<1> USE DEF ToReturn, WriterSteps, ReaderSteps, Probing
<1>1. left \in Nat /\ (reader # "off" => writer # "off")
  BY PathAssumption DEF IInv, TypeOK, Halves, PathAssumption
<1>2. CASE Connect
  BY <1>1, <1>2 DEF Connect
<1>3. CASE Write
  BY <1>1, <1>3 DEF Write
<1>4. CASE Accept
  BY <1>1, <1>4 DEF Accept
<1>5. CASE Read
  BY <1>1, <1>5 DEF Read
<1>6. CASE Tick
  BY <1>1, <1>6 DEF Tick
<1>7. ASSUME NEW v, Return(v), writer # "off"
      PROVE  ToReturn' < ToReturn
  <2>1. writer' = "off"
    BY <1>7 DEF Return
  <2> QED
    BY <1>1, <1>7, <2>1
<1>8. CASE ConnectFails \/ ReadFails \/ Joined \/ Timeout
  <2>1. writer # "off"
    BY <1>1, <1>8 DEF ConnectFails, ReadFails, Joined, Timeout
  <2> QED
    BY <1>7, <1>8, <2>1 DEF ConnectFails, ReadFails, Joined, Timeout
<1> QED
  BY <1>2, <1>3, <1>4, <1>5, <1>6, <1>8 DEF RoundTrip

\* A probe comes nearer to its return with everything that it does or waits for, in no
\* more than Poll + 7 such steps, and nothing that ssh or others do sends it back
\* (monitor.rs:170-226).
THEOREM ProbeBounded ==
    Spec => /\ [](ToReturn \in 0..Poll + 7)
            /\ [][ /\ RoundTrip => ToReturn' < ToReturn
                   /\ Others => ToReturn' = ToReturn ]_vars
<1> DEFINE A == /\ RoundTrip => ToReturn' < ToReturn
                /\ Others => ToReturn' = ToReturn
<1>1. IInv => ToReturn \in 0..Poll + 7
  BY PathAssumption
  DEF IInv, TypeOK, PathAssumption, Probing, ToReturn, WriterSteps, ReaderSteps
<1>2. IInv /\ [Next]_vars => [A]_vars
  <2>1. Others => UNCHANGED <<writer, reader, left>>
    BY DEF Others, SshUp, SshDown, Visit, Send, Hangup, probeVars
  <2>2. UNCHANGED <<writer, reader, left>> => ToReturn' = ToReturn
    BY DEF ToReturn, WriterSteps, ReaderSteps, Probing
  <2> QED
    BY <2>1, <2>2, Nearer
<1> QED
  BY <1>1, <1>2, InductiveInvariant, PTL DEF Spec

=============================================================================
