---------------------------- MODULE MonitorPath -----------------------------
(***************************************************************************)
(* The path a heartbeat takes (src/src/monitor.rs, and the forwards        *)
(* src/src/spawner.rs asks of ssh): the bound listeners with their accept  *)
(* queues, ssh's forwards, and the two halves of a probe.                  *)
(*                                                                         *)
(* Where a connection ends is computed, not assumed: a port of 127.0.0.1   *)
(* that the supervisor listens on ends in that listener's accept queue     *)
(* (ssh cannot bind it as well), any other is led by ssh's -L to a port of *)
(* the server and from there, if it is that of the -R, back.  The messages *)
(* themselves are not compared by the code and have no content here.       *)
(***************************************************************************)
EXTENDS Integers, Sequences

CONSTANTS
    Modes,      \* the values of MonitorMode::Active that are tried
    Ephemeral,  \* the ports the system picks from for port 0
    PortMax,    \* u16::MAX
    Backlog,    \* how many connections an accept queue holds
    Poll,       \* AUTOSSH_POLL, in ticks
    MaxProbes,  \* bound: probes
    MaxConns    \* bound: connections after which others make no more

NoEcho == -1

ASSUME PathAssumption ==
    /\ PortMax \in Nat \ {0}
    /\ Ephemeral \subseteq 1..PortMax
    /\ Modes \subseteq [port : 0..PortMax, echo : {NoEcho} \union 0..PortMax]
    /\ Backlog \in Nat \ {0}
    /\ Poll \in Nat
    /\ MaxProbes \in Nat
    /\ MaxConns \in Nat

VARIABLES
    mode,      \* the MonitorMode
    ports,     \* MonitorPortPair
    ssh,       \* down, up, or granted: up, and the server agreed to the -R
    conns,     \* the connections made so far, oldest first
    queue,     \* per listener: the connections nobody has accepted
    asked,     \* the number of probes begun
    writer,    \* the half of the probe that connects and writes
    reader,    \* the half that reads the answer
    stream,    \* the connection the writer keeps open, 0 for none
    sock,      \* the connection the reader has accepted, 0 for none
    left,      \* the time until the probe's timeout
    verdict,   \* what the latest probe returned, none while it runs
    answered,  \* the number of probes that returned Ok
    sound      \* whether ssh and its -R were up all through the latest probe

pathVars == <<mode, ports>>
probeVars == <<asked, writer, reader, stream, sock, left, verdict, answered>>
vars == <<pathVars, ssh, conns, queue, probeVars, sound>>

-----------------------------------------------------------------------------
(* Ports and forwards *)

Saturated(n) == IF n = PortMax THEN PortMax ELSE n + 1

Assigned(n) == IF n = 0 THEN Ephemeral ELSE {n}

\* What bind makes of a mode, when both binds succeed.
Bindings(m) ==
    IF m.echo = NoEcho
    THEN {p \in [port_in : Assigned(m.port),
                 port_out : Assigned(IF m.port = 0 THEN 0 ELSE Saturated(m.port))] :
              p.port_in # p.port_out}
    ELSE [port_in : Assigned(m.port), port_out : {m.echo}]

Ring == mode.echo = NoEcho

\* inject_monitor_forwards, given the port of the listener_in.
Forwards ==
    IF Ring
    THEN [flag : {"L", "R"}, listen : {ports.port_in}, target : {Saturated(ports.port_in)}]
    ELSE [flag : {"L"}, listen : {ports.port_in}, target : {mode.echo}]

Led(flag, n) == {f.target : f \in {g \in Forwards : g.flag = flag /\ g.listen = n}}

Own(n) ==
    {l \in {"in", "out"} :
        \/ l = "in" /\ n = ports.port_in
        \/ l = "out" /\ n = ports.port_out /\ Ring}

\* Where a connection to a port of the server ends, and one to a local port.
AtServer(n) ==
    (IF ssh = "granted" THEN UNION {Own(t) : t \in Led("R", n)} ELSE {})
        \union {l \in {"echo"} : ~Ring /\ n = mode.echo}

AtHome(n) ==
    IF Own(n) # {} THEN Own(n)
    ELSE IF ssh = "down" THEN {}
    ELSE UNION {AtServer(t) : t \in Led("L", n)}

-----------------------------------------------------------------------------
(* Connections *)

\* listen(128); and the mistake of no limit.
AnyRoom(l) == TRUE
Room(l) == Len(queue[l]) < Backlog

\* First in, first out.
Behind(q, c) == Append(q, c)

Connection(l, from) == [at |-> l, from |-> from, sent |-> FALSE, open |-> TRUE, heard |-> 0]
Conn == [at : {"in", "out", "echo"}, from : {"probe", "local", "server"},
         sent : BOOLEAN, open : BOOLEAN, heard : 0..MaxProbes]
NewConn == Len(conns) + 1

Arrive(l, from) ==
    /\ Room(l)
    /\ conns' = Append(conns, Connection(l, from))
    /\ queue' = [queue EXCEPT ![l] = Behind(@, NewConn)]

Sent(c) == [conns EXCEPT ![c].sent = TRUE]
Shut(cs, S) == [c \in DOMAIN cs |-> IF c \in S THEN [cs[c] EXCEPT !.open = FALSE] ELSE cs[c]]

-----------------------------------------------------------------------------
(* The probe *)

Probing == writer # "off"

Init ==
    /\ mode \in Modes
    /\ ports \in Bindings(mode)
    /\ ssh = "down"
    /\ conns = <<>>
    /\ queue = [l \in {"in", "out", "echo"} |-> <<>>]
    /\ asked = 0
    /\ writer = "off" /\ reader = "off"
    /\ stream = 0 /\ sock = 0
    /\ left = 0
    /\ verdict = "none"
    /\ answered = 0
    /\ sound = FALSE

Probe ==
    /\ ~Probing
    /\ asked < MaxProbes
    /\ asked' = asked + 1
    /\ writer' = "connect"
    /\ reader' = IF Ring THEN "accept" ELSE "off"
    /\ left' = Poll
    /\ verdict' = "none"
    /\ sound' = (ssh = "granted")
    /\ UNCHANGED <<pathVars, ssh, conns, queue, stream, sock, answered>>

\* Every way out of probe() drops the probe's own sockets.
Dropped == {stream, sock}

Return(v) ==
    /\ writer' = "off" /\ reader' = "off"
    /\ stream' = 0
    /\ sock' = 0
    /\ conns' = Shut(conns, Dropped)
    /\ left' = 0
    /\ verdict' = v
    /\ answered' = IF v = "ok" THEN answered + 1 ELSE answered
    /\ UNCHANGED <<pathVars, ssh, queue, asked, sound>>

\* The port the writer connects to; and the mistake of taking the other.
OtherGoal == ports.port_out
Goal == ports.port_in

Connect ==
    /\ writer = "connect"
    /\ \E l \in AtHome(Goal) : Arrive(l, "probe")
    /\ stream' = NewConn
    /\ writer' = "write"
    /\ UNCHANGED <<pathVars, ssh, asked, reader, sock, left, verdict, answered, sound>>

\* Nothing listens, or the accept queue stays full until the system gives up.
ConnectFails ==
    /\ writer = "connect"
    /\ \A l \in AtHome(Goal) : ~Room(l)
    /\ Return("io")

\* The ring's writer closes its connection, the echo mode reads from it.
Write ==
    /\ writer = "write"
    /\ writer' = "done"
    /\ conns' = IF Ring THEN Shut(Sent(stream), {stream}) ELSE Sent(stream)
    /\ stream' = IF Ring THEN 0 ELSE stream
    /\ reader' = IF Ring THEN reader ELSE "read"
    /\ UNCHANGED <<pathVars, ssh, queue, asked, sock, left, verdict, answered, sound>>

\* The queue after an accept; and the mistake of leaving it as it was.
Kept(q) == q
Taken(q) == Tail(q)

Accept ==
    /\ reader = "accept"
    /\ queue["out"] # <<>>
    /\ sock' = Head(queue["out"])
    /\ queue' = [queue EXCEPT !["out"] = Taken(@)]
    /\ conns' = [conns EXCEPT ![Head(queue["out"])].heard = asked]
    /\ reader' = "read"
    /\ UNCHANGED <<pathVars, ssh, asked, writer, stream, left, verdict, answered, sound>>

\* read_exact has its bytes, whatever they say.
Answer ==
    IF Ring THEN conns[sock].sent
    ELSE \E i \in DOMAIN queue["echo"] : queue["echo"][i] = stream

Eof == Ring /\ ~conns[sock].sent /\ ~conns[sock].open

Read ==
    /\ reader = "read"
    /\ Answer
    /\ reader' = "done"
    /\ UNCHANGED <<pathVars, ssh, conns, queue, asked, writer, stream, sock, left, verdict,
                   answered, sound>>

\* try_join returns the first error at once.
ReadFails ==
    /\ reader = "read"
    /\ Eof
    /\ Return("io")

Joined ==
    /\ writer = "done"
    /\ reader = "done"
    /\ Return("ok")

\* tokio's timeout polls the round trip before it looks at the clock.
Ready ==
    \/ writer = "connect" /\ \E l \in AtHome(Goal) : Room(l)
    \/ writer = "write"
    \/ reader = "accept" /\ queue["out"] # <<>>
    \/ reader = "read" /\ (Answer \/ Eof)
    \/ writer = "done" /\ reader = "done"

Never == FALSE
Elapsed == left = 0

Timeout ==
    /\ Probing
    /\ ~Ready
    /\ Elapsed
    /\ Return("timeout")

Tick ==
    /\ Probing
    /\ ~Ready
    /\ left > 0
    /\ left' = left - 1
    /\ UNCHANGED <<pathVars, ssh, conns, queue, asked, writer, reader, stream, sock, verdict,
                   answered, sound>>

-----------------------------------------------------------------------------
(* ssh, and the others who reach the listeners *)

\* The server may refuse the -R; the -L of a port that is bound here fails.
SshUp ==
    /\ ssh = "down"
    /\ ssh' \in (IF Ring THEN {"up", "granted"} ELSE {"granted"})
    /\ UNCHANGED <<pathVars, conns, queue, probeVars, sound>>

\* What came through the -R ends with ssh.
SshDown ==
    /\ ssh # "down"
    /\ ssh' = "down"
    /\ conns' = Shut(conns, {c \in DOMAIN conns : conns[c].from = "server"})
    /\ sound' = (sound /\ ~Probing)
    /\ UNCHANGED <<pathVars, queue, probeVars>>

\* A local program connects to a port of the supervisor, or one on the server
\* to the port of the -R.
Visit ==
    /\ Len(conns) < MaxConns
    /\ \/ \E l \in Own(ports.port_in) \union Own(ports.port_out) : Arrive(l, "local")
       \/ \E l \in AtServer(ports.port_in) \ {"echo"} : Arrive(l, "server")
    /\ UNCHANGED <<pathVars, ssh, probeVars, sound>>

\* Such a connection sends as many bytes as a probe reads, or fewer and closes.
Visiting(c) == conns[c].from # "probe" /\ conns[c].open

Send(c) ==
    /\ Visiting(c)
    /\ ~conns[c].sent
    /\ conns' = Sent(c)
    /\ UNCHANGED <<pathVars, ssh, queue, probeVars, sound>>

Hangup(c) ==
    /\ Visiting(c)
    /\ conns' = Shut(conns, {c})
    /\ UNCHANGED <<pathVars, ssh, queue, probeVars, sound>>

-----------------------------------------------------------------------------
(* Specification *)

RoundTrip ==
    \/ Connect \/ ConnectFails \/ Write
    \/ Accept \/ Read \/ ReadFails
    \/ Joined \/ Timeout \/ Tick

Others ==
    \/ SshUp \/ SshDown \/ Visit
    \/ \E c \in DOMAIN conns : Send(c) \/ Hangup(c)

Next == Probe \/ RoundTrip \/ Others

Spec == Init /\ [][Next]_vars

\* The runtime polls a ready future, and time passes.
FairSpec == Spec /\ WF_vars(RoundTrip)

TypeOK ==
    /\ mode \in Modes
    /\ ports \in Bindings(mode)
    /\ ssh \in {"down", "up", "granted"}
    /\ conns \in Seq(Conn)
    /\ queue \in [{"in", "out", "echo"} -> Seq(Nat)]
    /\ \A l \in DOMAIN queue :
           /\ Len(queue[l]) <= Backlog
           /\ \A i \in DOMAIN queue[l] : queue[l][i] \in DOMAIN conns
    /\ asked \in 0..MaxProbes
    /\ writer \in {"off", "connect", "write", "done"}
    /\ reader \in {"off", "accept", "read", "done"}
    /\ stream \in {0} \union DOMAIN conns
    /\ sock \in {0} \union DOMAIN conns
    /\ left \in 0..Poll
    /\ verdict \in {"none", "ok", "io", "timeout"}
    /\ answered \in 0..asked
    /\ sound \in BOOLEAN

-----------------------------------------------------------------------------
(* Properties *)

\* Every probe that was answered has left a connection in the queue of the
\* listener_in, where nothing accepts: as many as the backlog holds, and no
\* more, can be answered in the life of a supervisor, over all of its ssh.
AnswersBounded == answered <= Len(queue["in"])

\* Only a ring's probe is ever answered, and by a connection that it accepted itself
\* and that someone else has made: its own payload never comes back.  No connection
\* is accepted for two probes: what is cut off by a timeout while it is read is gone
\* with its probe.
HeardOnce ==
    [][ /\ \A c \in DOMAIN conns : conns[c].heard # 0 => conns'[c].heard = conns[c].heard
        /\ answered' > answered =>
              Ring /\ conns[sock].heard = asked /\ conns[sock].from # "probe" ]_vars

\* A probe in flight returns, whatever its peers do.
ProbeReturns == Probing ~> ~Probing

\* monitor.rs:58: the payload is "forwarded via ssh `-L`/`-R` to
\* `listener_out`", so a probe of a sound tunnel does not time out.
SoundTunnelAnswers == verdict = "timeout" => ~sound

=============================================================================
