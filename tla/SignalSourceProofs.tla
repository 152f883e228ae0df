------------------------- MODULE SignalSourceProofs -------------------------
(***************************************************************************)
(* Proofs about the signal source, for every set of kinds and every        *)
(* capacity of the channel.                                                *)
(***************************************************************************)
EXTENDS SignalSource, TLAPS

-----------------------------------------------------------------------------
(* The invariant *)

\* Every kind that waits for room has a forwarder that is sending, and waits
\* once; none waits for a receiver that is gone.
QueueOfSenders ==
    /\ receiver = "dropped" => waiters = <<>>
    /\ \A i \in DOMAIN waiters : forwarder[waiters[i]] = "sending"
    /\ \A i, j \in DOMAIN waiters : waiters[i] = waiters[j] => i = j

\* A forwarder ends only when it cannot send.
NoneEndsEarly == Running => \A k \in Kinds : forwarder[k] # "ended"

\* Everything told, held or queued of a kind is older than n.
OlderThan(k, n) ==
    /\ told[k] < n
    /\ \A i \in DOMAIN channel : channel[i].kind = k => channel[i].raise < n

\* A notification stands for a raise nothing on the way is as recent as, and an
\* event being sent for one nothing ahead of it is as recent as.
FreshNews ==
    \A k \in Kinds :
        /\ OlderThan(k, raised[k] + 1)
        /\ held[k] <= raised[k]
        /\ pending[k] = 1 => OlderThan(k, raised[k]) /\ held[k] < raised[k]
        /\ forwarder[k] = "sending" => OlderThan(k, held[k])

IInv ==
    TypeOK /\ QueueOfSenders /\ NoneEndsEarly /\ FreshNews /\ NoPhantomSignal /\ NoLostSignal

-----------------------------------------------------------------------------
(* What taking the head off a queue and adding to its end do *)

LEMMA TailFacts ==
    ASSUME NEW S, NEW q \in Seq(S), q # <<>>
    PROVE  /\ Head(q) = q[1] /\ q[1] \in S /\ 1 \in DOMAIN q
           /\ Tail(q) \in Seq(S) /\ Len(Tail(q)) = Len(q) - 1
           /\ \A i \in DOMAIN Tail(q) : i + 1 \in DOMAIN q /\ Tail(q)[i] = q[i + 1]
           /\ \A i \in DOMAIN q : i # 1 => i - 1 \in DOMAIN Tail(q) /\ Tail(q)[i - 1] = q[i]
  OBVIOUS

LEMMA AppendFacts ==
    ASSUME NEW S, NEW q \in Seq(S), NEW e \in S
    PROVE  /\ Append(q, e) \in Seq(S) /\ Len(Append(q, e)) = Len(q) + 1
           /\ Len(q) + 1 \in DOMAIN Append(q, e) /\ Append(q, e)[Len(q) + 1] = e
           /\ \A i \in DOMAIN q : i \in DOMAIN Append(q, e) /\ Append(q, e)[i] = q[i]
           /\ \A i \in DOMAIN Append(q, e) :
                 i \in DOMAIN q \/ (i = Len(q) + 1 /\ Append(q, e)[i] = e)
           /\ \A i \in DOMAIN q : i \in Int /\ i < Len(q) + 1
  OBVIOUS

LEMMA ElementFacts ==
    ASSUME NEW S, NEW q \in Seq(S)
    PROVE  \A i \in DOMAIN q : q[i] \in S
  OBVIOUS

LEMMA ChannelFacts ==
    ASSUME TypeOK
    PROVE  \A i \in DOMAIN channel :
              channel[i].kind \in Kinds /\ channel[i].raise \in 0..RaiseMax
<1>1. \A i \in DOMAIN channel : channel[i] \in SignalEvent
  BY ElementFacts DEF TypeOK
<1>2. QED
  BY <1>1 DEF SignalEvent

-----------------------------------------------------------------------------
(* Type correctness *)

LEMMA TypeAtStart == Init => TypeOK
  BY SourceAssumption DEF Init, TypeOK, SourceAssumption

LEMMA TypeStep == TypeOK /\ [Next]_vars => TypeOK'
<1> SUFFICES ASSUME TypeOK, [Next]_vars PROVE TypeOK'
  OBVIOUS
<1> USE SourceAssumption DEF SourceAssumption, TypeOK
<1>1. CASE \E k \in Kinds : Register(k)
  BY <1>1 DEF Register
<1>2. CASE \E k \in Kinds : Take(k)
  BY <1>2, AppendFacts DEF Take, Taken
<1>3. CASE \E k \in Kinds : Send(k)
  <2>1. PICK k \in Kinds : Send(k)
    BY <1>3
  <2>2. waiters' \in Seq(Kinds)
    BY <2>1, TailFacts DEF Send
  <2>3. [kind |-> k, raise |-> held[k]] \in SignalEvent
    BY <2>1 DEF SignalEvent
  <2>4. channel' \in Seq(SignalEvent) /\ Len(channel') <= ChannelCap
    BY <2>1, <2>3, AppendFacts DEF Send, Room
  <2>5. /\ forwarder' \in [Kinds -> {"spawned", "failed", "listening", "sending", "ended"}]
        /\ pending' \in [Kinds -> {0, 1}]
        /\ held' \in [Kinds -> 0..RaiseMax]
    BY <2>1 DEF Send, Loop, Since
  <2>6. QED
    BY <2>1, <2>2, <2>4, <2>5 DEF Send
<1>4. CASE \E k \in Kinds : SendFails(k)
  BY <1>4 DEF SendFails
<1>5. CASE Await \/ Leave \/ SendersGone
  BY <1>5 DEF Await, Leave, SendersGone
<1>6. CASE Receive
  <2>1. Head(channel) \in SignalEvent
    BY <1>6, TailFacts DEF Receive
  <2>2. Head(channel).kind \in Kinds /\ Head(channel).raise \in 0..RaiseMax
    BY <2>1 DEF SignalEvent
  <2>3. channel' \in Seq(SignalEvent) /\ Len(channel') <= ChannelCap
    BY <1>6, TailFacts DEF Receive
  <2>4. QED
    BY <1>6, <2>2, <2>3 DEF Receive
<1>7. CASE DropReceiver
  BY <1>7 DEF DropReceiver
<1>8. CASE \E k \in Kinds : Notify(k)
  BY <1>8 DEF Notify
<1>9. CASE \E k \in Kinds : Kill(k)
  BY <1>9 DEF Kill
<1>10. CASE UNCHANGED vars
  BY <1>10 DEF vars
<1>11. QED
  BY <1>1, <1>2, <1>3, <1>4, <1>5, <1>6, <1>7, <1>8, <1>9, <1>10
  DEF Next, Forward, Select, System, Stopped

\* The state stays of its types whatever the platform's kinds, the capacity of
\* the channel and the number of signals: the channel of install_listeners is
\* never fuller than its capacity.
THEOREM TypeCorrect == Spec => []TypeOK
<1>1. Init => TypeOK
  BY TypeAtStart
<1>2. TypeOK /\ [Next]_vars => TypeOK'
  BY TypeStep
<1>3. QED
  BY <1>1, <1>2, PTL DEF Spec

-----------------------------------------------------------------------------
(* The queue of the forwarders that wait for room *)

LEMMA QueueStep == TypeOK /\ QueueOfSenders /\ [Next]_vars => QueueOfSenders'
<1> SUFFICES ASSUME TypeOK, QueueOfSenders, [Next]_vars PROVE QueueOfSenders'
  OBVIOUS
<1>1. CASE \E k \in Kinds : Register(k)
  BY <1>1 DEF Register, QueueOfSenders, TypeOK
<1>2. CASE \E k \in Kinds : Take(k)
  <2>1. PICK k \in Kinds : Take(k)
    BY <1>2
  <2>2. \A i \in DOMAIN waiters : waiters[i] # k
    BY <2>1 DEF Take, QueueOfSenders
  <2>3. /\ \A i \in DOMAIN waiters' : i \in DOMAIN waiters \/ waiters'[i] = k
        /\ \A i \in DOMAIN waiters : waiters'[i] = waiters[i]
        /\ \A i, j \in DOMAIN waiters' : waiters'[i] = k /\ waiters'[j] = k => i = j
    BY <2>1, <2>2, AppendFacts DEF Take, TypeOK
  <2>4. forwarder' = [forwarder EXCEPT ![k] = "sending"] /\ \A i \in DOMAIN waiters : waiters[i] \in Kinds
    BY <2>1 DEF Take, TypeOK
  <2>5. \A i \in DOMAIN waiters' : forwarder'[waiters'[i]] = "sending"
    BY <2>2, <2>3, <2>4 DEF QueueOfSenders, TypeOK
  <2>6. ASSUME NEW i \in DOMAIN waiters', NEW j \in DOMAIN waiters', waiters'[i] = waiters'[j]
        PROVE  i = j
    <3>1. CASE waiters'[i] = k
      BY <2>3, <2>6, <3>1
    <3>2. CASE waiters'[i] # k
      BY <2>3, <2>6, <3>2 DEF QueueOfSenders
    <3>3. QED
      BY <3>1, <3>2
  <2>7. receiver' # "dropped"
    BY <2>1 DEF Take, Running
  <2>8. QED
    BY <2>5, <2>6, <2>7 DEF QueueOfSenders
<1>3. CASE \E k \in Kinds : Send(k)
  <2>1. PICK k \in Kinds : Send(k)
    BY <1>3
  <2>2. /\ k = waiters[1] /\ 1 \in DOMAIN waiters
        /\ \A i \in DOMAIN waiters' : i + 1 \in DOMAIN waiters /\ waiters'[i] = waiters[i + 1]
        /\ \A i \in DOMAIN waiters' : i \in Int /\ i + 1 # 1 /\ waiters[i + 1] \in Kinds
    BY <2>1, TailFacts DEF Send, TypeOK
  <2>3. forwarder' = [forwarder EXCEPT ![k] = "listening"]
    BY <2>1 DEF Send, Loop
  <2>4. \A i \in DOMAIN waiters' : waiters'[i] # k
    BY <2>2 DEF QueueOfSenders
  <2>5. \A i \in DOMAIN waiters' : forwarder'[waiters'[i]] = "sending"
    BY <2>2, <2>3, <2>4 DEF QueueOfSenders, TypeOK
  <2>6. \A i, j \in DOMAIN waiters' : waiters'[i] = waiters'[j] => i + 1 = j + 1
    BY <2>2 DEF QueueOfSenders
  <2>7. receiver' # "dropped"
    BY <2>1 DEF Send, Running
  <2>8. QED
    BY <2>2, <2>5, <2>6, <2>7 DEF QueueOfSenders
<1>4. CASE \E k \in Kinds : SendFails(k)
  BY <1>4 DEF SendFails, QueueOfSenders, TypeOK
<1>5. CASE Await \/ Leave \/ Receive
  BY <1>5 DEF Await, Leave, Receive, QueueOfSenders
<1>10. CASE SendersGone
  <2>1. \A i \in DOMAIN waiters : forwarder[waiters[i]] # "sending"
    BY <1>10, ElementFacts DEF SendersGone, TypeOK
  <2>2. 1 \notin DOMAIN waiters
    BY <2>1 DEF QueueOfSenders
  <2>3. waiters = <<>>
    BY <2>2, TailFacts DEF TypeOK
  <2>4. QED
    BY <1>10, <2>3 DEF SendersGone, QueueOfSenders
<1>6. CASE DropReceiver
  BY <1>6 DEF DropReceiver, QueueOfSenders
<1>7. CASE \E k \in Kinds : Notify(k) \/ Kill(k)
  BY <1>7 DEF Notify, Kill, QueueOfSenders
<1>8. CASE UNCHANGED vars
  BY <1>8 DEF vars, QueueOfSenders
<1>9. QED
  BY <1>1, <1>2, <1>3, <1>4, <1>5, <1>6, <1>7, <1>8, <1>10
  DEF Next, Forward, Select, System, Stopped

LEMMA EndStep == TypeOK /\ NoneEndsEarly /\ [Next]_vars => NoneEndsEarly'
  BY DEF TypeOK, NoneEndsEarly, Running, Next, Forward, Select, System, Stopped, vars,
         Register, Take, Send, Loop, SendFails, Await, Leave, Receive, SendersGone,
         DropReceiver, Notify, Kill

-----------------------------------------------------------------------------
(* What is on the way is news *)

\* What an action that leaves the way to the receiver alone leaves alone.
Way == <<forwarder, pending, held, channel, raised, told>>

LEMMA WayStep ==
    ASSUME FreshNews, NoPhantomSignal, UNCHANGED Way
    PROVE  FreshNews' /\ NoPhantomSignal'
  BY DEF Way, FreshNews, OlderThan, NoPhantomSignal

LEMMA FreshStep ==
    TypeOK /\ QueueOfSenders /\ FreshNews /\ NoPhantomSignal /\ [Next]_vars
        => FreshNews' /\ NoPhantomSignal'
<1> SUFFICES ASSUME TypeOK, QueueOfSenders, FreshNews, NoPhantomSignal, [Next]_vars
             PROVE  FreshNews' /\ NoPhantomSignal'
  OBVIOUS
<1>1. CASE \E k \in Kinds : Register(k)
  BY <1>1 DEF Register, FreshNews, OlderThan, NoPhantomSignal, TypeOK
<1>2. CASE \E k \in Kinds : Take(k)
  <2>1. PICK k \in Kinds : Take(k)
    BY <1>2
  <2>2. /\ pending[k] = 1
        /\ pending' = [pending EXCEPT ![k] = 0]
        /\ held' = [held EXCEPT ![k] = raised[k]]
        /\ forwarder' = [forwarder EXCEPT ![k] = "sending"]
        /\ UNCHANGED <<channel, raised, told>>
    BY <2>1 DEF Take, Taken
  <2>3. NoPhantomSignal'
    BY <2>2 DEF NoPhantomSignal
  <2>4. FreshNews'
    BY SMTT(60), <2>2, ChannelFacts DEF FreshNews, OlderThan, TypeOK
  <2>5. QED
    BY <2>3, <2>4
<1>3. CASE \E k \in Kinds : Send(k)
  <2>1. PICK k \in Kinds : Send(k)
    BY <1>3
  <2> DEFINE event == [kind |-> k, raise |-> held[k]]
             last == Len(channel) + 1
  <2>2. event \in SignalEvent /\ event.kind = k /\ event.raise = held[k]
    BY <2>1 DEF TypeOK, SignalEvent
  <2>3. channel' = Append(channel, event)
    BY <2>1 DEF Send
  <2> HIDE DEF event
  <2>4. /\ \A i \in DOMAIN channel' : i \in DOMAIN channel \/ (i = last /\ channel'[i] = event)
        /\ \A i \in DOMAIN channel : channel'[i] = channel[i] /\ i \in Int /\ i < last
    BY <2>2, <2>3, AppendFacts DEF TypeOK
  <2>5. \A i \in DOMAIN channel :
            channel[i].kind \in Kinds /\ channel[i].raise \in 0..RaiseMax
    BY ChannelFacts
  <2>6. waiters[1] = k /\ 1 \in DOMAIN waiters
    BY <2>1, TailFacts DEF Send, TypeOK
  <2>7. forwarder[k] = "sending"
    BY <2>6 DEF QueueOfSenders
  <2>8. /\ held' = [held EXCEPT ![k] = 0]
        /\ forwarder' = [forwarder EXCEPT ![k] = "listening"]
        /\ pending' = pending
        /\ UNCHANGED <<receiver, raised, told>>
    BY <2>1 DEF Send, Loop, Since, TypeOK
  <2>9. ASSUME NEW l \in Kinds PROVE
            /\ OlderThan(l, raised[l] + 1)'
            /\ held'[l] <= raised'[l]
            /\ pending'[l] = 1 => OlderThan(l, raised[l])' /\ held'[l] < raised'[l]
            /\ forwarder'[l] = "sending" => OlderThan(l, held[l])'
    <3>1. CASE l = k
      <4>1. /\ OlderThan(k, held[k]) /\ held[k] <= raised[k]
            /\ pending[k] = 1 => held[k] < raised[k]
        BY <2>7 DEF FreshNews
      <4>2. /\ held[k] \in Nat /\ raised[k] \in Nat /\ told[k] \in Nat
            /\ held'[k] = 0 /\ forwarder'[k] = "listening"
        BY <2>8 DEF TypeOK
      <4>3. \A i \in DOMAIN channel' : channel'[i].kind = k => channel'[i].raise <= held[k]
        BY <2>2, <2>4, <2>5, <4>1, <4>2 DEF OlderThan
      <4>4. \A i \in DOMAIN channel' : channel'[i].raise \in Nat
        BY <2>2, <2>4, <2>5, <4>2
      <4>5. OlderThan(k, raised[k] + 1)'
        BY <2>8, <4>1, <4>2, <4>3, <4>4 DEF OlderThan
      <4>6. pending'[k] = 1 => OlderThan(k, raised[k])'
        BY <2>8, <4>1, <4>2, <4>3, <4>4 DEF OlderThan
      <4>7. QED
        BY <2>8, <3>1, <4>1, <4>2, <4>5, <4>6 DEF OlderThan
    <3>2. CASE l # k
      BY <2>2, <2>4, <2>5, <2>8, <3>2 DEF FreshNews, OlderThan, TypeOK
    <3>3. QED
      BY <3>1, <3>2
  <2>10. \A i \in DOMAIN channel' : told'[channel'[i].kind] < channel'[i].raise
    BY <2>2, <2>4, <2>7, <2>8 DEF NoPhantomSignal, FreshNews, OlderThan
  <2>11. ASSUME NEW i \in DOMAIN channel', NEW j \in DOMAIN channel',
                i < j, channel'[i].kind = channel'[j].kind
         PROVE  channel'[i].raise < channel'[j].raise
    <3>1. i \in DOMAIN channel
      BY <2>4, <2>11
    <3>2. CASE j \in DOMAIN channel
      BY <2>4, <2>11, <3>1, <3>2 DEF NoPhantomSignal
    <3>3. CASE j \notin DOMAIN channel
      BY <2>2, <2>4, <2>7, <2>11, <3>1, <3>3 DEF FreshNews, OlderThan
    <3>4. QED
      BY <3>2, <3>3
  <2>12. QED
    BY <2>9, <2>10, <2>11 DEF FreshNews, NoPhantomSignal
<1>4. CASE \E k \in Kinds : SendFails(k)
  BY <1>4 DEF SendFails, FreshNews, OlderThan, NoPhantomSignal, TypeOK
<1>5. CASE Await \/ Leave \/ SendersGone
  BY <1>5, WayStep DEF Await, Leave, SendersGone, Way
<1>6. CASE Receive
  <2>1. /\ channel[1] = Head(channel) /\ 1 \in DOMAIN channel
        /\ \A i \in DOMAIN channel' : i + 1 \in DOMAIN channel /\ channel'[i] = channel[i + 1]
        /\ \A i \in DOMAIN channel' : i \in Int /\ 1 < i + 1
    BY <1>6, TailFacts DEF Receive, TypeOK
  <2>2. \A i \in DOMAIN channel :
            channel[i].kind \in Kinds /\ channel[i].raise \in 0..RaiseMax
    BY ChannelFacts
  <2> DEFINE k == channel[1].kind
             n == channel[1].raise
  <2>3. /\ told' = [told EXCEPT ![k] = n]
        /\ UNCHANGED <<forwarder, pending, held, raised>>
    BY <1>6, <2>1 DEF Receive
  <2>4. \A i \in DOMAIN channel' : channel'[i].kind = k => n < channel'[i].raise
    BY <2>1 DEF NoPhantomSignal
  <2>5. \A i, j \in DOMAIN channel' : i < j => i + 1 < j + 1
    BY <2>1
  <2>6. NoPhantomSignal'
    <3>1. \A i \in DOMAIN channel' : told'[channel'[i].kind] < channel'[i].raise
      BY <2>1, <2>2, <2>3, <2>4 DEF NoPhantomSignal, TypeOK
    <3>2. \A i, j \in DOMAIN channel' :
              i < j /\ channel'[i].kind = channel'[j].kind => channel'[i].raise < channel'[j].raise
      BY <2>1, <2>5 DEF NoPhantomSignal
    <3>3. QED
      BY <3>1, <3>2 DEF NoPhantomSignal
  <2>7. FreshNews'
    <3>1. ASSUME NEW k0 \in Kinds, NEW m \in Int, OlderThan(k0, m) PROVE OlderThan(k0, m)'
      <4>1. told'[k0] < m
        BY <2>1, <2>2, <2>3, <3>1 DEF OlderThan, TypeOK
      <4>2. ASSUME NEW i \in DOMAIN channel', channel'[i].kind = k0
            PROVE  channel'[i].raise < m
        BY <2>1, <3>1, <4>2 DEF OlderThan
      <4>3. QED
        BY <4>1, <4>2 DEF OlderThan
    <3>2. \A k0 \in Kinds : raised[k0] + 1 \in Int /\ raised[k0] \in Int /\ held[k0] \in Int
      BY DEF TypeOK
    <3>3. QED
      BY <2>3, <3>1, <3>2 DEF FreshNews
  <2>8. QED
    BY <2>6, <2>7
<1>7. CASE DropReceiver
  BY <1>7 DEF DropReceiver, FreshNews, OlderThan, NoPhantomSignal, TypeOK
<1>8. CASE \E k \in Kinds : Notify(k)
  <2>1. PICK k \in Kinds : Notify(k)
    BY <1>8
  <2>2. /\ raised' = [raised EXCEPT ![k] = @ + 1]
        /\ pending' = [pending EXCEPT ![k] = IF forwarder[k] = "ended" THEN 0 ELSE 1]
        /\ UNCHANGED <<forwarder, held, channel, told>>
    BY <2>1 DEF Notify
  <2>3. NoPhantomSignal'
    BY <2>2 DEF NoPhantomSignal
  <2>4. FreshNews'
    BY <2>2, ChannelFacts DEF FreshNews, OlderThan, TypeOK
  <2>5. QED
    BY <2>3, <2>4
<1>9. CASE \E k \in Kinds : Kill(k)
  BY <1>9, WayStep DEF Kill, Way
<1>10. CASE UNCHANGED vars
  BY <1>10, WayStep DEF vars, Way
<1>11. QED
  BY <1>1, <1>2, <1>3, <1>4, <1>5, <1>6, <1>7, <1>8, <1>9, <1>10
  DEF Next, Forward, Select, System, Stopped

-----------------------------------------------------------------------------
(* No signal is lost *)

LEMMA LostStep ==
    TypeOK /\ NoneEndsEarly /\ NoPhantomSignal /\ NoLostSignal /\ [Next]_vars
        => NoLostSignal'
<1> SUFFICES ASSUME TypeOK, NoneEndsEarly, NoPhantomSignal, NoLostSignal, [Next]_vars,
                    Running',
                    NEW l \in Kinds, told'[l] < raised'[l]
             PROVE  \/ pending'[l] = 1
                    \/ held'[l] = raised'[l]
                    \/ \E i \in DOMAIN channel' :
                          channel'[i] = [kind |-> l, raise |-> raised'[l]]
  BY DEF NoLostSignal
<1>1. CASE \E k \in Kinds : Register(k)
  BY <1>1 DEF Register, NoLostSignal, Running, TypeOK
<1>2. CASE \E k \in Kinds : Take(k)
  BY <1>2 DEF Take, Taken, NoLostSignal, Running, TypeOK
<1>3. CASE \E k \in Kinds : Send(k)
  <2>1. PICK k \in Kinds : Send(k)
    BY <1>3
  <2> DEFINE event == [kind |-> k, raise |-> held[k]]
  <2>2. event \in SignalEvent
    BY <2>1 DEF TypeOK, SignalEvent
  <2>3. channel' = Append(channel, event)
    BY <2>1 DEF Send
  <2> HIDE DEF event
  <2>4. /\ \A i \in DOMAIN channel : i \in DOMAIN channel' /\ channel'[i] = channel[i]
        /\ Len(channel) + 1 \in DOMAIN channel' /\ channel'[Len(channel) + 1] = event
    BY <2>2, <2>3, AppendFacts DEF TypeOK
  <2>5. CASE l = k /\ held[k] = raised[k]
    BY <2>1, <2>4, <2>5 DEF Send, event
  <2>6. CASE ~(l = k /\ held[k] = raised[k])
    <3>1. \/ pending[l] = 1
          \/ l # k /\ held[l] = raised[l]
          \/ \E i \in DOMAIN channel : channel[i] = [kind |-> l, raise |-> raised[l]]
      BY <2>1, <2>6 DEF Send, NoLostSignal
    <3>2. pending'[l] = pending[l] /\ (l # k => held'[l] = held[l]) /\ raised' = raised
      BY <2>1 DEF Send, Since, TypeOK
    <3>3. QED
      BY <2>4, <3>1, <3>2
  <2>7. QED
    BY <2>5, <2>6
<1>4. CASE \E k \in Kinds : SendFails(k)
  BY <1>4 DEF SendFails, Running
<1>5. CASE Await \/ Leave
  BY <1>5 DEF Await, Leave, NoLostSignal, Running
<1>6. CASE SendersGone \/ DropReceiver
  BY <1>6 DEF SendersGone, DropReceiver, Running
<1>7. CASE Receive
  <2>1. /\ channel[1] = Head(channel)
        /\ \A i \in DOMAIN channel : i # 1 => i - 1 \in DOMAIN channel' /\ channel'[i - 1] = channel[i]
    BY <1>7, TailFacts DEF Receive, TypeOK
  <2>2. /\ told' = [told EXCEPT ![channel[1].kind] = channel[1].raise]
        /\ UNCHANGED <<pending, held, raised>>
    BY <1>7, <2>1 DEF Receive
  <2>3. \A k \in Kinds : told[k] \in Int /\ raised[k] \in Int
    BY DEF TypeOK
  <2>4. CASE \E i \in DOMAIN channel : channel[i] = [kind |-> l, raise |-> raised[l]]
    <3>1. PICK i \in DOMAIN channel : channel[i] = [kind |-> l, raise |-> raised[l]]
      BY <2>4
    <3>2. i # 1
      <4>1. SUFFICES ASSUME i = 1 PROVE FALSE
        OBVIOUS
      <4>2. told'[l] = raised[l]
        BY <2>2, <3>1, <4>1 DEF TypeOK
      <4>3. QED
        BY <2>2, <2>3, <4>2
    <3>3. QED
      BY <2>1, <2>2, <3>1, <3>2
  <2>5. CASE told[l] < raised[l]
    BY <1>7, <2>2, <2>4, <2>5 DEF Receive, Running, NoLostSignal
  <2>6. CASE ~(told[l] < raised[l])
    <3>1. channel[1].kind = l /\ channel[1].raise = told'[l]
      BY <2>2, <2>6 DEF TypeOK
    <3>2. 1 \in DOMAIN channel
      BY <1>7, TailFacts DEF Receive, TypeOK
    <3>3. told[l] < channel[1].raise /\ channel[1].raise \in Int
      BY <3>1, <3>2, ChannelFacts DEF NoPhantomSignal
    <3>4. QED
      BY <2>2, <2>3, <2>6, <3>1, <3>3
  <2>7. QED
    BY <2>5, <2>6
<1>8. CASE \E k \in Kinds : Notify(k)
  <2>1. PICK k \in Kinds : Notify(k)
    BY <1>8
  <2>2. Running /\ forwarder[k] # "ended"
    BY <2>1 DEF Notify, Running, NoneEndsEarly
  <2>3. /\ pending' = [pending EXCEPT ![k] = 1]
        /\ raised' = [raised EXCEPT ![k] = @ + 1]
        /\ UNCHANGED <<held, channel, told>>
    BY <2>1, <2>2 DEF Notify
  <2>4. CASE l = k
    BY <2>3, <2>4 DEF TypeOK
  <2>5. CASE l # k
    BY <2>2, <2>3, <2>5 DEF NoLostSignal, TypeOK
  <2>6. QED
    BY <2>4, <2>5
<1>9. CASE \E k \in Kinds : Kill(k)
  BY <1>9 DEF Kill, Running
<1>10. CASE UNCHANGED vars
  BY <1>10 DEF vars, NoLostSignal, Running
<1>11. QED
  BY <1>1, <1>2, <1>3, <1>4, <1>5, <1>6, <1>7, <1>8, <1>9, <1>10
  DEF Next, Forward, Select, System, Stopped

-----------------------------------------------------------------------------
(* The theorems *)

THEOREM InductiveInvariant == Spec => []IInv
<1>1. Init => IInv
  <2>1. Init => TypeOK
    BY TypeAtStart
  <2>2. Init => /\ QueueOfSenders /\ NoneEndsEarly /\ FreshNews
                /\ NoPhantomSignal /\ NoLostSignal
    BY DEF Init, QueueOfSenders, NoneEndsEarly, FreshNews, OlderThan, NoPhantomSignal, NoLostSignal
  <2>3. QED
    BY <2>1, <2>2 DEF IInv
<1>2. IInv /\ [Next]_vars => IInv'
  BY TypeStep, QueueStep, EndStep, FreshStep, LostStep DEF IInv
<1>3. QED
  BY <1>1, <1>2, PTL DEF Spec

\* No capacity is too small and no order of the tasks too unlucky for a signal
\* that was caught to be forgotten while the supervisor runs.
THEOREM SignalsKept == Spec => []NoLostSignal
<1>1. IInv => NoLostSignal
  BY DEF IInv
<1>2. QED
  BY <1>1, InductiveInvariant, PTL

\* Whatever is in the channel, the supervisor has not been told of it.
THEOREM SignalsAreNews == Spec => []NoPhantomSignal
<1>1. IInv => NoPhantomSignal
  BY DEF IInv
<1>2. QED
  BY <1>1, InductiveInvariant, PTL

=============================================================================
