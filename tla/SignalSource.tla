---------------------------- MODULE SignalSource ----------------------------
(***************************************************************************)
(* The signal source (src/src/signals.rs): one forwarder task per kind of  *)
(* signal, all sending into one bounded channel whose receiver the         *)
(* supervisor's select owns.                                               *)
(*                                                                         *)
(* spawn_signal_source only spawns the forwarders: a kind is listened for  *)
(* from the moment its forwarder is first polled, and until then the       *)
(* system's default disposition ends the process.  From then on a kind has *)
(* one notification, however often it is raised (standard signals and      *)
(* tokio's streams both coalesce), which the forwarder takes and then      *)
(* sends.  A send that finds the channel full waits in the queue of its    *)
(* semaphore, which is served first come, first served.                    *)
(*                                                                         *)
(* The raises of a kind are numbered.  An event carries the number of the  *)
(* latest raise its notification stood for when it was taken; the code's   *)
(* events have no such number, and no guard reads it.                      *)
(***************************************************************************)
EXTENDS Integers, Sequences

CONSTANTS
    Kinds,       \* the signals the platform delivers
    ChannelCap,  \* SIGNAL_CHANNEL_CAPACITY
    RaiseMax     \* bound: how often one kind is raised

ASSUME SourceAssumption ==
    /\ ChannelCap \in Nat \ {0}
    /\ RaiseMax \in Nat

VARIABLES
    forwarder,  \* per kind: spawned, failed, listening, sending or ended
    pending,    \* per kind: 1 while its notification has not been taken
    held,       \* per kind: the raise of the event being sent
    waiters,    \* the kinds whose send is under way, in order
    channel,    \* the events in the channel
    receiver,   \* the supervisor: polling, busy, dropped or killed
    raised,     \* per kind: the latest raise
    told        \* per kind: the latest raise the supervisor was told of

vars == <<forwarder, pending, held, waiters, channel, receiver, raised, told>>

Running == receiver \in {"busy", "polling"}
Alive == receiver # "killed"

Init ==
    /\ forwarder = [k \in Kinds |-> "spawned"]
    /\ pending = [k \in Kinds |-> 0]
    /\ held = [k \in Kinds |-> 0]
    /\ waiters = <<>>
    /\ channel = <<>>
    /\ receiver = "busy"
    /\ raised = [k \in Kinds |-> 0]
    /\ told = [k \in Kinds |-> 0]

-----------------------------------------------------------------------------
(* The forwarders *)

\* signal(kind) installs the handler, or fails and the task returns.
Register(k) ==
    /\ Alive
    /\ forwarder[k] = "spawned"
    /\ \E s \in {"listening", "failed"} : forwarder' = [forwarder EXCEPT ![k] = s]
    /\ UNCHANGED <<pending, held, waiters, channel, receiver, raised, told>>

\* What recv() leaves of a notification; and the mistake of leaving it whole.
Kept == 1
Taken == 0

\* stream.recv() returns, and tx.send() asks for a permit.
Take(k) ==
    /\ Running
    /\ forwarder[k] = "listening"
    /\ pending[k] = 1
    /\ pending' = [pending EXCEPT ![k] = Taken]
    /\ held' = [held EXCEPT ![k] = raised[k]]
    /\ forwarder' = [forwarder EXCEPT ![k] = "sending"]
    /\ waiters' = Append(waiters, k)
    /\ UNCHANGED <<channel, receiver, raised, told>>

\* A permit is free; and the mistake of an unbounded channel.
AnyRoom == TRUE
Room == Len(channel) < ChannelCap

\* What the forwarder does once it has sent; and the mistake of a forwarder
\* that handles one signal only.
Return == "ended"
Loop == "listening"

\* What is left to take of the raises since; and the mistake of emptying the
\* stream before going back to it.
Emptied(k) == 0
Since(k) == pending[k]

Send(k) ==
    /\ Running
    /\ waiters # <<>> /\ Head(waiters) = k
    /\ Room
    /\ channel' = Append(channel, [kind |-> k, raise |-> held[k]])
    /\ waiters' = Tail(waiters)
    /\ held' = [held EXCEPT ![k] = 0]
    /\ forwarder' = [forwarder EXCEPT ![k] = Loop]
    /\ pending' = [pending EXCEPT ![k] = Since(k)]
    /\ UNCHANGED <<receiver, raised, told>>

\* tx.send() finds the receiver gone: the loop breaks, and the task ends with its
\* stream.
SendFails(k) ==
    /\ receiver = "dropped"
    /\ \/ forwarder[k] = "sending"
       \/ forwarder[k] = "listening" /\ pending[k] = 1
    /\ forwarder' = [forwarder EXCEPT ![k] = "ended"]
    /\ pending' = [pending EXCEPT ![k] = 0]
    /\ held' = [held EXCEPT ![k] = 0]
    /\ UNCHANGED <<waiters, channel, receiver, raised, told>>

-----------------------------------------------------------------------------
(* The receiver: the third branch of the supervisor's select *)

Await ==
    /\ receiver = "busy"
    /\ receiver' = "polling"
    /\ UNCHANGED <<forwarder, pending, held, waiters, channel, raised, told>>

\* Another branch of the select completes first.
Leave ==
    /\ receiver = "polling"
    /\ receiver' = "busy"
    /\ UNCHANGED <<forwarder, pending, held, waiters, channel, raised, told>>

Receive ==
    /\ receiver = "polling"
    /\ channel # <<>>
    /\ told' = [told EXCEPT ![Head(channel).kind] = Head(channel).raise]
    /\ channel' = Tail(channel)
    /\ receiver' = "busy"
    /\ UNCHANGED <<forwarder, pending, held, waiters, raised>>

\* recv() yields None once every sender is gone: select_one_tick reports it as
\* a Terminate, and the supervisor returns.
SendersGone ==
    /\ receiver = "polling"
    /\ channel = <<>>
    /\ \A k \in Kinds : forwarder[k] \in {"failed", "ended"}
    /\ receiver' = "dropped"
    /\ UNCHANGED <<forwarder, pending, held, waiters, channel, raised, told>>

\* run() returns for another reason, and drops the receiver with its events;
\* the sends that wait for room are woken to fail.
DropReceiver ==
    /\ receiver = "busy"
    /\ receiver' = "dropped"
    /\ channel' = <<>>
    /\ waiters' = <<>>
    /\ UNCHANGED <<forwarder, pending, held, raised, told>>

-----------------------------------------------------------------------------
(* The system *)

\* A signal whose handler is installed leaves its notification, and never
\* again ends the process: the handler outlives the task that installed it.
Notify(k) ==
    /\ Alive
    /\ forwarder[k] \notin {"spawned", "failed"}
    /\ raised[k] < RaiseMax
    /\ raised' = [raised EXCEPT ![k] = @ + 1]
    /\ pending' = [pending EXCEPT ![k] = IF forwarder[k] = "ended" THEN 0 ELSE 1]
    /\ UNCHANGED <<forwarder, held, waiters, channel, receiver, told>>

\* A signal with its default disposition ends the process where it stands.
Kill(k) ==
    /\ Alive
    /\ forwarder[k] \in {"spawned", "failed"}
    /\ receiver' = "killed"
    /\ UNCHANGED <<forwarder, pending, held, waiters, channel, raised, told>>

-----------------------------------------------------------------------------
Forward == \E k \in Kinds : Register(k) \/ Take(k) \/ Send(k) \/ SendFails(k)
Select == Await \/ Leave \/ Receive \/ SendersGone \/ DropReceiver
System == \E k \in Kinds : Notify(k) \/ Kill(k)

\* Nothing more need happen once run() has returned.
Stopped ==
    /\ ~Running
    /\ UNCHANGED vars

Next == Forward \/ Select \/ System \/ Stopped

Spec == Init /\ [][Next]_vars

-----------------------------------------------------------------------------
(* Type correctness *)

SignalEvent == [kind : Kinds, raise : 0..RaiseMax]

TypeOK ==
    /\ forwarder \in [Kinds -> {"spawned", "failed", "listening", "sending", "ended"}]
    /\ pending \in [Kinds -> {0, 1}]
    /\ held \in [Kinds -> 0..RaiseMax]
    /\ waiters \in Seq(Kinds)
    /\ channel \in Seq(SignalEvent)
    /\ Len(channel) <= ChannelCap
    /\ receiver \in {"busy", "polling", "dropped", "killed"}
    /\ raised \in [Kinds -> 0..RaiseMax]
    /\ told \in [Kinds -> 0..RaiseMax]

-----------------------------------------------------------------------------
(* Safety *)

\* A raise the supervisor has not been told of is on its way to it: in the
\* notification, in the event the forwarder holds while the channel is full,
\* or in the channel.  A raise that coalesces is covered by a later one, never
\* by an event that was taken before it.
NoLostSignal ==
    Running => \A k \in Kinds :
        told[k] < raised[k] =>
            \/ pending[k] = 1
            \/ held[k] = raised[k]
            \/ \E i \in DOMAIN channel : channel[i] = [kind |-> k, raise |-> raised[k]]

\* The supervisor is not told twice of the same raises: what it takes out of
\* the channel is news, so one SIGUSR1 never respawns two children.
NoPhantomSignal ==
    \A i \in DOMAIN channel :
        /\ told[channel[i].kind] < channel[i].raise
        /\ \A j \in DOMAIN channel :
              i < j /\ channel[i].kind = channel[j].kind => channel[i].raise < channel[j].raise

-----------------------------------------------------------------------------
(* Liveness *)

\* The runtime polls every task that is ready, and the supervisor's select comes
\* round again and again without always completing another branch first.
Fairness ==
    /\ \A k \in Kinds : WF_vars(Register(k) \/ Take(k) \/ Send(k) \/ SendFails(k))
    /\ WF_vars(Await)
    /\ SF_vars(Receive)

FairSpec == Spec /\ Fairness

\* A signal that is caught reaches the supervisor while it runs, even when other
\* kinds keep the channel full.
SignalsDelivered ==
    \A k \in Kinds : \A n \in 1..RaiseMax :
        raised[k] >= n ~> (told[k] >= n \/ ~Running)

=============================================================================
