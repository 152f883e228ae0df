---------------------------- MODULE ScannerProofs ----------------------------
(***************************************************************************)
(* Proof that the two scanners and the helper divide a command line alike, *)
(* for lines of every length (src/src/strict.rs, cli.rs).                  *)
(*                                                                         *)
(* The helper is a recursive function.  That there is such a function, and *)
(* where it leads, is proved by induction; the induction is over a set of  *)
(* numbers and not over a predicate, because an operator cannot be passed  *)
(* to a lemma here.                                                        *)
(***************************************************************************)
EXTENDS ConfigurationProofs, WellFoundedInduction

-----------------------------------------------------------------------------
(* Induction *)

LEMMA Least ==
    ASSUME NEW T \in SUBSET Nat, T # {}
    PROVE  \E m \in T : \A n \in T : m <= n
<1>1. PICK m \in T : \A n \in T : <<n, m>> \notin OpToRel(<, Nat)
  BY NatLessThanWellFounded, WFMin, Zenon
<1>2. \A n \in T : ~(n < m)
  BY <1>1, Zenon DEF OpToRel
<1> QED
  BY <1>2

LEMMA Induction ==
    ASSUME NEW S, 0 \in S, \A n \in Nat : n \in S => n + 1 \in S
    PROVE  Nat \subseteq S
<1> SUFFICES ASSUME Nat \ S # {} PROVE FALSE
  OBVIOUS
<1>1. PICK m \in Nat \ S : \A n \in Nat \ S : m <= n
  BY Least
<1>2. m # 0 /\ m - 1 \in Nat
  BY <1>1
<1> QED
  BY <1>1, <1>2

-----------------------------------------------------------------------------
(* Functions that look ahead *)

\* g follows next to where it stays.
Follows(g, next, D) ==
    \A k \in D : g[k] = IF next[k] = k THEN k ELSE g[next[k]]

\* There is one, if next never leads back: it is made from the end.
LEMMA FollowerExists ==
    ASSUME NEW N \in Nat, NEW next \in [1..N + 1 -> 1..N + 1],
           \A k \in 1..N + 1 : next[k] >= k
    PROVE  \E g \in [1..N + 1 -> 1..N + 1] : Follows(g, next, 1..N + 1)
<1> DEFINE D == 1..N + 1
           Last(m) == {k \in D : k > N + 1 - m}
           Solved(m) == \E g \in [D -> D] : Follows(g, next, Last(m))
           S == {m \in Nat : m <= N + 1 => Solved(m)}
<1>1. Solved(0)
  <2>1. [k \in D |-> k] \in [D -> D] /\ Follows([k \in D |-> k], next, Last(0))
    BY DEF Follows
  <2> QED
    BY <2>1
<1>2. ASSUME NEW m \in Nat, m + 1 <= N + 1, Solved(m)
      PROVE  Solved(m + 1)
  <2>1. PICK g \in [D -> D] : Follows(g, next, Last(m))
    BY <1>2
  <2> DEFINE at == N + 1 - m
             h == [g EXCEPT ![at] = IF next[at] = at THEN at ELSE g[next[at]]]
  <2>2. at \in D /\ h \in [D -> D]
    <3>1. at \in D
      BY <1>2
    <3>2. next[at] \in D /\ g[next[at]] \in D
      BY <3>1
    <3> HIDE DEF at
    <3> QED
      BY <3>1, <3>2
  <2>3. \A k \in Last(m + 1) : k = at \/ (k \in Last(m) /\ k > at)
    OBVIOUS
  <2>4. h[at] = IF next[at] = at THEN at ELSE h[next[at]]
    BY <2>2
  <2>5. ASSUME NEW k \in Last(m), k > at
        PROVE  h[k] = IF next[k] = k THEN k ELSE h[next[k]]
    <3>1. k \in D /\ next[k] \in D /\ next[k] >= k
      OBVIOUS
    <3>2. next[k] # at /\ k # at
      BY <2>2, <2>5, <3>1
    <3>3. g[k] = IF next[k] = k THEN k ELSE g[next[k]]
      BY <2>1 DEF Follows
    <3>4. h[k] = g[k] /\ h[next[k]] = g[next[k]]
      BY <3>1, <3>2
    <3> QED
      BY <3>3, <3>4
  <2> HIDE DEF h, at, Last
  <2>6. Follows(h, next, Last(m + 1))
    BY <2>3, <2>4, <2>5 DEF Follows
  <2> QED
    BY <2>2, <2>6
<1> HIDE DEF Solved
<1>3. 0 \in S /\ \A m \in Nat : m \in S => m + 1 \in S
  BY <1>1, <1>2
<1> HIDE DEF S
<1>4. N + 1 \in S
  BY <1>3, Induction
<1>5. Solved(N + 1)
  BY <1>4 DEF S
<1>6. Last(N + 1) = D
  OBVIOUS
<1> QED
  BY <1>5, <1>6 DEF Solved

\* Every one leads ahead.
LEMMA FollowerAhead ==
    ASSUME NEW N \in Nat, NEW next \in [1..N + 1 -> 1..N + 1],
           \A k \in 1..N + 1 : next[k] >= k,
           NEW g, Follows(g, next, 1..N + 1)
    PROVE  \A k \in 1..N + 1 : g[k] \in k..N + 1
<1> DEFINE D == 1..N + 1
           S == {m \in Nat : \A k \in D : k > N + 1 - m => g[k] \in k..N + 1}
<1>1. 0 \in S
  OBVIOUS
<1>2. ASSUME NEW m \in Nat, m \in S
      PROVE  m + 1 \in S
  <2>1. ASSUME NEW k \in D, k > N + 1 - (m + 1)
        PROVE  g[k] \in k..N + 1
    <3>1. g[k] = IF next[k] = k THEN k ELSE g[next[k]]
      BY DEF Follows
    <3>2. CASE next[k] = k
      BY <3>1, <3>2
    <3>3. CASE next[k] # k
      <4>1. next[k] \in D /\ next[k] > k /\ next[k] > N + 1 - m
        BY <2>1, <3>3
      <4>2. g[next[k]] \in next[k]..N + 1
        BY <1>2, <4>1
      <4> QED
        BY <3>1, <3>3, <4>1, <4>2
    <3> QED
      BY <3>2, <3>3
  <2> QED
    BY <2>1
<1> HIDE DEF S
<1>3. N + 1 \in S
  BY <1>1, <1>2, Induction
<1> QED
  BY <1>3 DEF S

-----------------------------------------------------------------------------
(* The helper *)

LEMMA SplitFacts ==
    ASSUME NEW line \in Seq(Token)
    PROVE  \A k \in 1..Len(line) + 1 :
               /\ SplitStop(line)[k] = IF SplitNext(line, k) = k THEN k
                                       ELSE SplitStop(line)[SplitNext(line, k)]
               /\ SplitStop(line)[k] \in k..Len(line) + 1
<1> DEFINE N == Len(line)
           D == 1..N + 1
           next == [k \in D |-> SplitNext(line, k)]
<1>1. N \in Nat
  OBVIOUS
<1>2. \A k \in D : SplitNext(line, k) \in k..N + 1
  BY DEF SplitNext
<1>3. next \in [D -> D] /\ \A k \in D : next[k] >= k
  BY <1>2
<1> HIDE DEF N
<1>4. PICK g \in [D -> D] : Follows(g, next, D)
  <2> HIDE DEF next
  <2> QED
    BY <1>1, <1>3, FollowerExists
<1>5. g = [k \in D |-> IF SplitNext(line, k) = k THEN k ELSE g[SplitNext(line, k)]]
  BY <1>4 DEF Follows
<1>6. SplitStop(line) = [k \in D |-> IF SplitNext(line, k) = k THEN k
                                     ELSE SplitStop(line)[SplitNext(line, k)]]
  BY <1>5 DEF SplitStop, N
<1>7. Follows(SplitStop(line), next, D)
  BY <1>6, Zenon DEF Follows
<1>8. \A k \in D : SplitStop(line)[k] \in k..N + 1
  <2> HIDE DEF next
  <2> QED
    BY <1>1, <1>3, <1>7, FollowerAhead
<1> QED
  BY <1>7, <1>8 DEF Follows, N

-----------------------------------------------------------------------------
(* The inductive invariant *)

\* Before the arguments for ssh begin, the helper stops where it would stop from
\* where the scanner stands; from then on the scanner has what the helper has.
Aligned ==
    OddBefore
    \/ /\ rest = 0 => ssh_args = <<>> /\ SplitStop(argv)[i] = SplitAt
       /\ rest # 0 => rest = SplitFrom /\ Len(ssh_args) = i - rest

\* A line that is settled has been read to its end; a library caller has none.
ReadWhole ==
    /\ pc = "build" => argv = <<>>
    /\ pc \in {"settle", "run"} /\ argv # <<>> => i = Len(argv) + 1

\* The helper's view of a line is a view of the line only.
LEMMA LineKept ==
    ASSUME argv' = argv
    PROVE  /\ SplitStop(argv)' = SplitStop(argv)
           /\ SplitAt' = SplitAt /\ SplitFrom' = SplitFrom
           /\ OddBefore' = OddBefore
<1>1. SplitStop(argv)' = SplitStop(argv)
  OBVIOUS
<1>2. SplitAt' = SplitAt
  BY <1>1 DEF SplitAt
<1> QED
  BY <1>1, <1>2 DEF SplitFrom, OddBefore

LEMMA ScannerKept ==
    ASSUME Aligned, UNCHANGED <<argv, i, rest, ssh_args>>
    PROVE  Aligned'
  BY LineKept DEF Aligned

\* A scanner that stands at an odd token has one before the boundary.
LEMMA OddHere ==
    ASSUME IInv, Aligned, Left, rest = 0, Odd(tok)
    PROVE  OddBefore
<1> SUFFICES ASSUME ~OddBefore PROVE FALSE
  OBVIOUS
<1>1. argv \in Seq(Token) /\ i \in 1..Len(argv) /\ Len(argv) \in Nat
  BY DEF IInv, TypeOK, Left
<1>2. SplitStop(argv)[i] = SplitAt
  BY DEF Aligned
<1>3. SplitStop(argv)[i] \in i..Len(argv) + 1
  BY <1>1, SplitFacts
<1> QED
  BY <1>1, <1>2, <1>3 DEF OddBefore, tok

\* Where the helper does not go on, it stops.
LEMMA StopsHere ==
    ASSUME IInv, Aligned, rest = 0, SplitNext(argv, i) = i
    PROVE  OddBefore \/ (SplitAt = i /\ ssh_args = <<>>)
<1>1. argv \in Seq(Token) /\ i \in 1..Len(argv) + 1
  BY DEF IInv, TypeOK
<1>2. SplitStop(argv)[i] = i
  BY <1>1, SplitFacts
<1> QED
  BY <1>2 DEF Aligned

\* An option is taken that the helper takes as well.
LEMMA TakenAlike ==
    ASSUME IInv, Aligned, Left, rest = 0,
           UNCHANGED <<argv, rest, ssh_args>>,
           Odd(tok) \/ (SplitNext(argv, i) = i' /\ i' # i)
    PROVE  Aligned'
<1>1. CASE Odd(tok)
  BY <1>1, OddHere, LineKept DEF Aligned
<1>2. CASE SplitNext(argv, i) = i' /\ i' # i
  <2>1. argv \in Seq(Token) /\ i \in 1..Len(argv) + 1
    BY DEF IInv, TypeOK
  <2>2. SplitStop(argv)[i] = SplitStop(argv)[i']
    BY <1>2, <2>1, SplitFacts
  <2> QED
    BY <2>2, LineKept DEF Aligned
<1> QED
  BY <1>1, <1>2

\* The arguments for ssh begin where the helper stops.
LEMMA BegunAlike ==
    ASSUME IInv, Aligned, Left, rest = 0, argv' = argv,
           Odd(tok) \/ ~SplitKnown(tok),
           rest' = IF tok.form = "separator" THEN i + 1 ELSE i,
           ssh_args = <<>> => Len(ssh_args') = i' - rest'
    PROVE  Aligned'
<1>1. CASE Odd(tok)
  BY <1>1, OddHere, LineKept DEF Aligned
<1>2. CASE ~SplitKnown(tok)
  <2>1. i \in 1..Len(argv) /\ Len(argv) \in Nat
    BY DEF IInv, TypeOK, Left
  <2>2. SplitNext(argv, i) = i
    BY <1>2 DEF SplitNext, tok
  <2>3. OddBefore \/ (SplitAt = i /\ ssh_args = <<>>)
    BY <2>2, StopsHere
  <2>4. SplitAt = i => rest' = SplitFrom
    BY <2>1 DEF SplitFrom, tok
  <2>5. rest' # 0
    BY <2>1
  <2> QED
    BY <2>3, <2>4, <2>5, LineKept DEF Aligned
<1> QED
  BY <1>1, <1>2

-----------------------------------------------------------------------------
(* The steps *)

\* The short options of a letter are known to all three.
LEMMA LetterAlike ==
    ASSUME IInv, Left, tok.form = "short", tok.name \in Letters
    PROVE  SplitNext(argv, i) = IF tok.name = "monitor" /\ i < Len(argv) THEN i + 2 ELSE i + 1
<1>1. argv \in Seq(Token) /\ i \in 1..Len(argv) /\ Len(argv) \in Nat
  BY DEF IInv, TypeOK, Left
<1>2. tok \in Token
  BY <1>1 DEF tok
<1>3. tok.val = <<>>
  BY <1>2 DEF Token
<1>4. SplitKnown(tok)
  BY DEF SplitKnown, Known
<1>5. tok.name \in TakesValue <=> tok.name = "monitor"
  BY DEF Letters, TakesValue, ClockNames, PathNames
<1> QED
  BY <1>1, <1>3, <1>4, <1>5 DEF SplitNext, tok

LEMMA StrictAligned == ASSUME IInv, Aligned, Strict PROVE Aligned'
<1> USE DEF Parsing
<1>1. /\ i \in Nat /\ rest \in Nat /\ ssh_args \in Seq(Token) /\ argv \in Seq(Token)
      /\ i \in 1..Len(argv) + 1
  BY DEF IInv, TypeOK
<1>2. ASSUME NEW from, Parsing, Push(from)
      PROVE  i' = i + 1 /\ rest' = from /\ argv' = argv /\ Len(ssh_args') = Len(ssh_args) + 1
  <2>1. tok \in Token
    BY <1>1, <1>2 DEF Left, tok
  <2> QED
    BY <1>1, <1>2, <2>1 DEF Push, input
<1>3. ASSUME Passthrough PROVE Aligned'
  <2>1. rest # 0 /\ i' = i + 1 /\ rest' = rest /\ argv' = argv
        /\ Len(ssh_args') = Len(ssh_args) + 1
    BY <1>2, <1>3 DEF Passthrough
  <2> QED
    BY <1>1, <2>1, LineKept DEF Aligned
<1>4. ASSUME NotUtf8 PROVE Aligned'
  <2>1. Left /\ rest = 0 /\ argv' = argv /\ Odd(tok)
    BY <1>2, <1>4 DEF NotUtf8, Odd
  <2> QED
    BY <2>1, OddHere, LineKept DEF Aligned
<1>5. ASSUME BareDash PROVE Aligned'
  <2>1. Left /\ rest = 0 /\ argv' = argv /\ Odd(tok)
    BY <1>2, <1>5 DEF BareDash, Reading, Odd
  <2> QED
    BY <2>1, OddHere, LineKept DEF Aligned
<1>6. ASSUME Positional PROVE Aligned'
  <2>1. Left /\ rest = 0 /\ argv' = argv /\ tok.form = "word"
        /\ i' = i + 1 /\ rest' = i /\ Len(ssh_args') = Len(ssh_args) + 1
    BY <1>2, <1>6 DEF Positional, Reading
  <2>2. ~SplitKnown(tok)
    BY <2>1 DEF SplitKnown
  <2>3. ssh_args = <<>> => Len(ssh_args') = i' - rest'
    BY <1>1, <2>1
  <2> QED
    BY <2>1, <2>2, <2>3, BegunAlike
<1>7. ASSUME Separator PROVE Aligned'
  <2>1. Left /\ rest = 0 /\ argv' = argv /\ tok.form = "separator"
        /\ i' = i + 1 /\ rest' = i + 1 /\ ssh_args' = ssh_args
    BY <1>7 DEF Separator, Reading, input
  <2>2. ~SplitKnown(tok)
    BY <2>1 DEF SplitKnown
  <2>3. ssh_args = <<>> => Len(ssh_args') = i' - rest'
    BY <1>1, <2>1
  <2> QED
    BY <2>1, <2>2, <2>3, BegunAlike
<1>8. ASSUME NoOp PROVE Aligned'
  <2>1. /\ Left /\ rest = 0 /\ UNCHANGED <<argv, rest, ssh_args>>
        /\ tok.form = "long" /\ tok.name \in Toggles /\ i' = i + 1
    BY <1>8 DEF NoOp, Reading, input
  <2>2. tok.name \in Names \ TakesValue
    BY <2>1 DEF Toggles, Names, TakesValue, ClockNames, PathNames
  <2>3. Odd(tok) \/ SplitNext(argv, i) = i + 1
    BY <1>1, <2>1, <2>2 DEF Odd, Overfull, SplitNext, SplitKnown, Known, Left, tok
  <2> QED
    BY <1>1, <2>1, <2>3, TakenAlike
<1>9. ASSUME LetterFlag PROVE Aligned'
  <2>1. /\ Left /\ rest = 0 /\ UNCHANGED <<argv, rest, ssh_args>> /\ i' = i + 1
        /\ tok.form \in {"short", "cluster"} /\ tok.name \in Letters \ {"monitor"}
    BY <1>9 DEF LetterFlag, Reading, Own, input
  <2>2. Odd(tok) \/ SplitNext(argv, i) = i + 1
    BY <2>1, LetterAlike DEF Odd
  <2> QED
    BY <1>1, <2>1, <2>2, TakenAlike
<1>10. ASSUME MonitorFlag PROVE Aligned'
  <2>1. /\ Left /\ rest = 0 /\ UNCHANGED <<argv, rest, ssh_args>> /\ i' = i + Skip
        /\ tok.form \in {"short", "glued"} /\ tok.name = "monitor" /\ HasValue
    BY <1>10 DEF MonitorFlag, Reading, Own, input
  <2>2. tok.form = "short" => tok.val = <<>>
    <3>1. tok \in Token
      BY <1>1, <2>1 DEF Left, tok
    <3> QED
      BY <3>1 DEF Token
  <2>3. tok.form = "short" => i < Len(argv) /\ Skip = 2
    BY <2>1, <2>2 DEF HasValue, Glued, Skip, Width
  <2>4. Odd(tok) \/ SplitNext(argv, i) = i + Skip
    BY <2>1, <2>3, LetterAlike DEF Odd, Letters
  <2>5. Odd(tok) \/ i + Skip # i
    BY <1>1, <2>1, <2>3 DEF Odd
  <2> QED
    BY <2>1, <2>4, <2>5, TakenAlike
<1>11. ASSUME Rejected PROVE Aligned'
  BY <1>11, ScannerKept DEF Rejected, Exit, input, scanner
<1> QED
  BY <1>3, <1>4, <1>5, <1>6, <1>7, <1>8, <1>9, <1>10, <1>11 DEF Strict

LEMMA ClapAligned == ASSUME IInv, Aligned, Clap PROVE Aligned'
<1>1. i \in Nat /\ Len(argv) \in Nat /\ argv \in Seq(Token)
  BY DEF IInv, TypeOK
<1>2. Clapping => rest = 0 /\ Left
  BY DEF IInv, Phases, Clapping
<1>3. Known(tok) => tok.form \in {"short", "long", "cluster"} /\ (Odd(tok) \/ SplitKnown(tok))
  BY DEF Known, Odd, SplitKnown
<1>4. ASSUME ClapFlag PROVE Aligned'
  <2>1. /\ Left /\ rest = 0 /\ UNCHANGED <<argv, rest, ssh_args>> /\ i' = i + 1
        /\ Known(tok) /\ tok.name \notin TakesValue
    BY <1>2, <1>4 DEF ClapFlag, Own, input
  <2>2. Odd(tok) \/ SplitNext(argv, i) = i + 1
    BY <1>1, <1>3, <2>1 DEF SplitNext, Left, tok
  <2> QED
    BY <1>1, <2>1, <2>2, TakenAlike
<1>5. ASSUME ClapOption PROVE Aligned'
  <2>1. /\ Left /\ rest = 0 /\ UNCHANGED <<argv, rest, ssh_args>> /\ i' = i + Skip
        /\ Known(tok) /\ tok.name \in TakesValue /\ HasValue
    BY <1>2, <1>5 DEF ClapOption, Acceptable, Own, input
  <2>2. Odd(tok) \/ SplitNext(argv, i) = i + Skip
    BY <1>1, <1>3, <2>1 DEF SplitNext, Left, tok, HasValue, Glued, Skip, Width
  <2>3. i + Skip # i
    BY <1>1 DEF Skip, Width
  <2> QED
    BY <2>1, <2>2, <2>3, TakenAlike
<1>6. ASSUME ClapStops PROVE Aligned'
  <2>1. /\ Left /\ rest = 0 /\ argv' = argv /\ i' = Len(argv) + 1
        /\ ~Known(tok) /\ ssh_args' = SubSeq(argv, rest', Len(argv))
        /\ rest' = IF tok.form = "separator" THEN i + 1 ELSE i
    BY <1>2, <1>6 DEF ClapStops, input
  <2>2. Odd(tok) \/ ~SplitKnown(tok)
    BY <2>1 DEF Odd, SplitKnown
  <2>3. PICK from \in 1..Len(argv) + 1 : rest' = from
    <3>1. i \in 1..Len(argv) + 1 /\ i + 1 \in 1..Len(argv) + 1
      BY <1>1, <2>1 DEF IInv, TypeOK, Left
    <3> QED
      BY <2>1, <3>1
  <2>4. Len(ssh_args') = Len(argv) + 1 - from
    BY <1>1, <2>1, <2>3, SuffixFacts
  <2>5. Len(ssh_args') = i' - rest'
    BY <2>1, <2>3, <2>4
  <2> QED
    BY <2>1, <2>2, <2>5, BegunAlike
<1>7. ASSUME ClapRefuses \/ ClapVersion \/ Completions PROVE Aligned'
  <2>1. \E code : Exit(code)
    BY <1>7 DEF ClapRefuses, ClapVersion, Completions
  <2> QED
    BY <2>1, ScannerKept DEF Exit, input, scanner
<1> QED
  BY <1>4, <1>5, <1>6, <1>7 DEF Clap

LEMMA AlignedInductive == IInv /\ Aligned /\ [Next]_vars => Aligned'
<1> SUFFICES ASSUME IInv, Aligned, [Next]_vars PROVE Aligned'
  OBVIOUS
<1>1. ASSUME PrintVersion \/ RefuseMonitor PROVE Aligned'
  <2>1. \E code : Exit(code)
    BY <1>1 DEF PrintVersion, RefuseMonitor
  <2> QED
    BY <2>1, ScannerKept DEF Exit, input, scanner
<1>2. ASSUME Resolve \/ Scanned \/ Settle \/ BuildOwn \/ UNCHANGED vars PROVE Aligned'
  <2>1. UNCHANGED <<argv, i, rest, ssh_args>>
    BY <1>2 DEF Resolve, Scanned, Settle, BuildOwn, vars, input, scanner
  <2> QED
    BY <2>1, ScannerKept
<1> QED
  BY <1>1, <1>2, StrictAligned, ClapAligned DEF Next, Step, Finished

LEMMA ReadWholeInductive == IInv /\ ReadWhole /\ [Next]_vars => ReadWhole'
<1> SUFFICES ASSUME IInv, ReadWhole, [Next]_vars PROVE ReadWhole'
  OBVIOUS
<1>1. argv' = argv
  BY DEF Next, Step, Strict, Clap, Finished, Resolve, Passthrough, NotUtf8, BareDash,
         Positional, Separator, NoOp, LetterFlag, MonitorFlag, Rejected, ClapFlag,
         ClapOption, ClapStops, ClapRefuses, ClapVersion, Completions, Scanned,
         PrintVersion, RefuseMonitor, Settle, BuildOwn, Push, Own, Exit, input, vars
<1>2. pc' # "build" \/ pc = "build"
  BY DEF Next, Step, Strict, Clap, Finished, Resolve, Passthrough, NotUtf8, BareDash,
         Positional, Separator, NoOp, LetterFlag, MonitorFlag, Rejected, ClapFlag,
         ClapOption, ClapStops, ClapRefuses, ClapVersion, Completions, Scanned,
         PrintVersion, RefuseMonitor, Settle, BuildOwn, Push, Own, Exit, vars
<1>3. ASSUME pc' \in {"settle", "run"}
      PROVE  \/ pc = "build"
             \/ pc \in {"settle", "run"} /\ i' = i
             \/ pc \in {"strict", "clap"} /\ ~Left /\ i' = i
  BY <1>3 DEF Next, Step, Strict, Clap, Finished, Resolve, Passthrough, NotUtf8,
         BareDash, Positional, Separator, NoOp, LetterFlag, MonitorFlag, Rejected,
         ClapFlag, ClapOption, ClapStops, ClapRefuses, ClapVersion, Completions,
         Scanned, PrintVersion, RefuseMonitor, Settle, BuildOwn, Push, Own, Exit, vars,
         scanner, Reading, Parsing, Clapping
<1>4. ~Left => i = Len(argv) + 1
  BY DEF IInv, TypeOK, Left
<1> QED
  BY <1>1, <1>2, <1>3, <1>4 DEF ReadWhole

-----------------------------------------------------------------------------
(* Theorems *)

\* Two sequences with the same suffix at the same place.
LEMMA SameSuffix ==
    ASSUME NEW s \in Seq(Token), NEW t \in Seq(Token), NEW from \in 1..Len(s) + 1,
           Len(t) = Len(s) + 1 - from,
           \A k \in from..Len(s) : t[k + 1 - from] = s[k]
    PROVE  t = SubSeq(s, from, Len(s))
<1> DEFINE u == SubSeq(s, from, Len(s))
<1>1. u \in Seq(Token) /\ Len(u) = Len(t)
  BY SuffixFacts
<1>2. ASSUME NEW j \in 1..Len(t)
      PROVE  t[j] = u[j]
  <2>1. from + j - 1 \in from..Len(s) /\ (from + j - 1) + 1 - from = j
    OBVIOUS
  <2>2. t[(from + j - 1) + 1 - from] = s[from + j - 1]
    BY <2>1
  <2>3. u[j] = s[from + j - 1]
    BY SuffixFacts
  <2> QED
    BY <2>1, <2>2, <2>3
<1> HIDE DEF u
<1>3. t = u
  BY <1>1, <1>2, SeqEqual
<1> QED
  BY <1>3 DEF u

\* Whatever the line: unless an odd token stands before the boundary, the Strict
\* scanner, clap and split_autossh_args hand the same arguments to ssh (strict.rs
\* parse_argv, cli.rs ssh_args and split_autossh_args).
THEOREM ScannersDivideAlike == Spec => []ScannersAgree
<1>1. Init => Aligned /\ ReadWhole
  BY DEF Init, Aligned, ReadWhole, SplitAt
<1>2. ASSUME IInv, Aligned, ReadWhole PROVE ScannersAgree
  <2> SUFFICES ASSUME pc \in {"settle", "run"}, argv # <<>>, ~OddBefore
               PROVE  ssh_args = SplitSsh
    BY DEF ScannersAgree
  <2>1. /\ argv \in Seq(Token) /\ ssh_args \in Seq(Token)
        /\ Len(argv) \in Nat /\ i = Len(argv) + 1
    BY <1>2 DEF IInv, TypeOK, ReadWhole
  <2>2. CASE rest = 0
    <3>1. ssh_args = <<>> /\ SplitAt = SplitStop(argv)[i]
      BY <1>2, <2>2 DEF Aligned
    <3>2. SplitAt = Len(argv) + 1
      BY <2>1, <3>1, SplitFacts
    <3>3. SplitFrom = Len(argv) + 1
      BY <2>1, <3>2 DEF SplitFrom
    <3>4. Len(argv) + 1 \in 1..Len(argv) + 1
          /\ Len(ssh_args) = Len(argv) + 1 - (Len(argv) + 1)
      BY <2>1, <3>1
    <3> QED
      BY <2>1, <3>3, <3>4, SameSuffix DEF SplitSsh
  <2>3. CASE rest # 0
    <3>1. /\ rest = SplitFrom /\ Len(ssh_args) = i - rest
          /\ \A k \in rest..i - 1 : ssh_args[Len(ssh_args) - i + 1 + k] = argv[k]
      BY <1>2, <2>3 DEF Aligned, IInv, Divided
    <3>2. rest \in 1..Len(argv) + 1
      BY <1>2, <2>1, <2>3 DEF IInv, TypeOK
    <3>3. ASSUME NEW k \in rest..Len(argv)
          PROVE  ssh_args[k + 1 - rest] = argv[k]
      <4>1. k \in rest..i - 1 /\ Len(ssh_args) - i + 1 + k = k + 1 - rest
        BY <2>1, <3>1, <3>2
      <4> QED
        BY <3>1, <4>1
    <3> QED
      BY <2>1, <3>1, <3>2, <3>3, SameSuffix DEF SplitSsh
  <2> QED
    BY <2>2, <2>3
<1> QED
  BY <1>1, <1>2, AlignedInductive, ReadWholeInductive, Invariant, PTL DEF Spec

-----------------------------------------------------------------------------
(* The scans end *)

\* What is left to be done: the tokens not looked at yet, and a step for each phase.
ToGo ==
    IF pc = "resolve" THEN Len(argv) + 3
    ELSE IF pc \in {"strict", "clap"} THEN Len(argv) + 3 - i
    ELSE IF pc \in {"settle", "build"} THEN 1 ELSE 0

\* A scan that goes on has moved past a token, and not past the end of the line.
LEMMA ScanAdvances ==
    ASSUME IInv, Strict \/ Clap
    PROVE  /\ pc \in {"strict", "clap"} /\ argv' = argv
           /\ \/ pc' = "exit"
              \/ pc' = pc /\ i < i'
<1>1. Len(argv) \in Nat /\ i \in Int
  BY DEF IInv, TypeOK
<1>2. Width \in {1, 2}
  BY DEF Width
<1>3. CASE Strict
  BY <1>1, <1>2, <1>3
  DEF Strict, Passthrough, NotUtf8, BareDash, Positional, Separator, NoOp, LetterFlag,
      MonitorFlag, Rejected, Parsing, Reading, Push, Own, Skip, Exit, input, scanner
<1>4. CASE Clap
  BY <1>1, <1>2, <1>4
  DEF Clap, ClapFlag, ClapOption, ClapStops, ClapRefuses, ClapVersion, Completions,
      Clapping, Left, Own, Skip, Exit, input, scanner
<1> QED
  BY <1>3, <1>4

LEMMA GoesOn ==
    ASSUME IInv, IInv', [Next]_vars, vars' # vars
    PROVE  ToGo \in Nat /\ ToGo' \in Nat /\ ToGo' < ToGo
<1>1. /\ Len(argv) \in Nat /\ i \in 1..Len(argv) + 1
      /\ Len(argv') \in Nat /\ i' \in 1..Len(argv') + 1
  BY DEF IInv, TypeOK
<1>2. CASE Strict \/ Clap
  BY <1>1, <1>2, ScanAdvances DEF ToGo
<1>3. CASE Resolve
  BY <1>1, <1>3 DEF Resolve, ToGo, input
<1>4. CASE Scanned
  BY <1>1, <1>4 DEF Scanned, ToGo, input
<1>5. CASE PrintVersion \/ RefuseMonitor
  BY <1>1, <1>5 DEF PrintVersion, RefuseMonitor, Exit, ToGo
<1>6. CASE Settle
  BY <1>1, <1>6 DEF Settle, ToGo
<1>7. CASE BuildOwn
  BY <1>1, <1>7 DEF BuildOwn, ToGo
<1>8. CASE Finished
  BY <1>8 DEF Finished
<1> QED
  BY <1>2, <1>3, <1>4, <1>5, <1>6, <1>7, <1>8 DEF Next, Step

\* Neither scanner looks at a token again, and none steps over the end of the line
\* (strict.rs:144-239, cli.rs): whatever the line, the program starts its supervisor
\* or exits within as many steps as there are tokens, and three.
THEOREM ScansEnd == Spec => [](ToGo \in Nat) /\ [][ToGo' < ToGo]_vars
<1>1. IInv => ToGo \in Nat
  <2>1. IInv => Len(argv) \in Nat /\ i \in 1..Len(argv) + 1
    BY DEF IInv, TypeOK
  <2> QED
    BY <2>1 DEF ToGo
<1>2. IInv /\ IInv' /\ [Next]_vars => [ToGo' < ToGo]_vars
  BY GoesOn
<1> QED
  BY <1>1, <1>2, Invariant, PTL DEF Spec

=============================================================================
