------------------------- MODULE ConfigurationProofs -------------------------
(***************************************************************************)
(* Proofs about the configuration, for all command lines, environments and *)
(* library callers, and for integers of every width.                       *)
(***************************************************************************)
EXTENDS Configuration, SequenceTheorems, TLAPS

-----------------------------------------------------------------------------
(* Optional things *)

LEMMA OptionFacts ==
    ASSUME NEW S
    PROVE  /\ {} \in Option(S)
           /\ \A v \in S : {v} \in Option(S)
           /\ \A opt \in Option(S) : opt = {} \/ \E v \in S : opt = {v}
<1>1. \A v \in S : {v} \in Option(S)
  BY DEF Option
<1>2. \A opt \in Option(S) : opt = {} \/ \E v \in S : opt = {v}
  BY DEF Option
<1> QED
  BY <1>1, <1>2 DEF Option

LEMMA OrFacts ==
    ASSUME NEW v, NEW d
    PROVE  Or({}, d) = d /\ Or({v}, d) = v
  BY DEF Or

LEMMA OrType ==
    ASSUME NEW S, NEW opt \in Option(S), NEW d \in S
    PROVE  Or(opt, d) \in S
<1>1. CASE opt = {}
  BY <1>1, OrFacts
<1>2. CASE \E v \in S : opt = {v}
  <2>1. PICK v \in S : opt = {v}
    BY <1>2
  <2>2. Or(opt, d) = v
    BY <2>1, OrFacts
  <2> QED
    BY <2>2
<1> QED
  BY <1>1, <1>2, OptionFacts

-----------------------------------------------------------------------------
(* Numbers *)

LEMMA WrappedFacts ==
    ASSUME NEW n \in Nat
    PROVE  Wrapped(n) \in 0..U32-1 /\ Wrapped(n) <= n /\ (n < U32 => Wrapped(n) = n)
  BY ConfigurationAssumption DEF Wrapped, ConfigurationAssumption

LEMMA CapType == ASSUME NEW n \in Int PROVE Cap(n) \in Option(0..U32-1)
<1>1. CASE n < 0
  BY <1>1, OptionFacts DEF Cap
<1>2. CASE n >= 0
  <2>1. Wrapped(n) \in 0..U32-1
    BY <1>2, WrappedFacts
  <2>2. Cap(n) = {Wrapped(n)}
    BY <1>2 DEF Cap
  <2>3. \A v \in 0..U32-1 : {v} \in Option(0..U32-1)
    BY OptionFacts
  <2> QED
    BY <2>1, <2>2, <2>3
<1> QED
  BY <1>1, <1>2

LEMMA SpanType == ASSUME NEW n \in 0..U64-1 PROVE Span(n) \in Option(0..U64-1)
  BY OptionFacts DEF Span

LEMMA NumberType ==
    ASSUME NEW v \in Seq(Int)
    PROVE  Number(v) \in Option(Int)
  BY OptionFacts DEF Number

LEMMA RangeType ==
    ASSUME NEW opt \in Option(Int)
    PROVE  /\ AsU64(opt) \in Option(0..U64-1)
           /\ AsI64(opt) \in Option(Int)
  BY DEF Option, AsU64, AsI64

LEMMA CapsType ==
    ASSUME NEW opt \in Option(Int)
    PROVE  UNION Mapped(Cap, opt) \in Option(0..U32-1)
<1>1. CASE opt = {}
  <2>1. UNION Mapped(Cap, opt) = {}
    BY <1>1 DEF Mapped
  <2>2. {} \in Option(0..U32-1)
    BY OptionFacts
  <2> QED
    BY <2>1, <2>2
<1>2. CASE \E n \in Int : opt = {n}
  <2>1. PICK n \in Int : opt = {n}
    BY <1>2
  <2>2. UNION Mapped(Cap, opt) = Cap(n)
    BY <2>1 DEF Mapped
  <2> QED
    BY <2>1, <2>2, CapType
<1> QED
  BY <1>1, <1>2, OptionFacts

LEMMA SpansType ==
    ASSUME NEW opt \in Option(0..U64-1)
    PROVE  UNION Mapped(Span, opt) \in Option(0..U64-1)
<1>1. CASE opt = {}
  <2>1. UNION Mapped(Span, opt) = {}
    BY <1>1 DEF Mapped
  <2>2. {} \in Option(0..U64-1)
    BY OptionFacts
  <2> QED
    BY <2>1, <2>2
<1>2. CASE \E n \in 0..U64-1 : opt = {n}
  <2>1. PICK n \in 0..U64-1 : opt = {n}
    BY <1>2
  <2>2. UNION Mapped(Span, opt) = Span(n)
    BY <2>1 DEF Mapped
  <2> QED
    BY <2>1, <2>2, SpanType
<1> QED
  BY <1>1, <1>2, OptionFacts

-----------------------------------------------------------------------------
(* Tokens *)

LEMMA TokenFacts ==
    ASSUME NEW t \in Token
    PROVE  /\ t.val \in Seq(Int)
           /\ t.name \in Names \union {"none"}
           /\ Text(t) \in Seq(Int)
           /\ t.form = "cluster" => t.name = "background"
           /\ t.form \in {"short", "long"} => Naming(t) = {t.name}
           /\ t.name \in Names => t.name \in Naming(t)
<1>1. /\ t.val \in Seq(Int)
      /\ t.name \in Names \union {"none"}
      /\ t.form = "cluster" => t.name = "background"
  <2>1. <<>> \in Seq(Int)
    OBVIOUS
  <2>2. Letters \subseteq Names
    BY DEF Letters, Names, TakesValue
  <2>3. CASE t \in [form : {"short"}, name : Letters \union {"none"}, val : {<<>>}]
    BY <2>1, <2>2, <2>3
  <2>4. CASE t \in [form : {"glued"}, name : {"monitor"}, val : Seq(Int)]
    BY <2>2, <2>4 DEF Letters
  <2>5. CASE t \in [form : {"long"}, name : Names \union {"none"}, val : Seq(Int)]
    BY <2>5
  <2>6. CASE t \in [form : {"cluster"}, name : {"background"}, val : {<<>>}]
    BY <2>1, <2>2, <2>6 DEF Letters
  <2>7. CASE t \in [form : {"separator", "dash", "completions", "word", "raw"},
                    name : {"none"}, val : Seq(Int)]
    BY <2>7
  <2> QED
    BY <2>3, <2>4, <2>5, <2>6, <2>7 DEF Token
<1>2. Text(t) \in Seq(Int)
  BY <1>1 DEF Text
<1> QED
  BY <1>1, <1>2 DEF Naming

-----------------------------------------------------------------------------
(* The inductive invariant *)

\* What each phase has to go on.
Phases ==
    /\ pc \in {"resolve", "build"} => i = 1 /\ rest = 0 /\ opts = [n \in Names |-> {}]
    /\ pc = "clap" /\ Left => rest = 0
    /\ pc # "run" => env = {} /\ told = {} /\ settings = {}
    /\ pc \in {"resolve", "build", "clap"} => mode = "Default"
    /\ pc = "strict" => mode = "Strict"
    /\ mode = "Strict" => \A n \in Names \ Letters : opts[n] = {}

\* Durations on the command line have been parsed.
Accepted == \A n \in ClockNames \ {"max_start"} : \A v \in opts[n] : AsU64(Number(v)) # {}

Made ==
    /\ settings = {Build(b) : b \in told}
    /\ \A e \in env : told = {Told(e)}
    /\ mode = "Strict" /\ told # {} => env # {}

IInv == TypeOK /\ Divided /\ Phases /\ Accepted /\ Made

LEMMA Initially == Init => IInv
<1> SUFFICES ASSUME Init PROVE IInv
  OBVIOUS
<1> USE DEF Init
<1>1. opts \in [Names -> Option(Seq(Int))]
  BY OptionFacts
<1>2. /\ env \in Option(Env) /\ told \in Option(Builder) /\ settings \in Option(Settings)
  BY OptionFacts
<1>3. argv \in Seq(Token)
  <2>1. <<>> \in Seq(Token)
    OBVIOUS
  <2>2. argv = <<>> \/ argv \in Lines
    OBVIOUS
  <2> QED
    BY <2>1, <2>2, ConfigurationAssumption DEF ConfigurationAssumption
<1>4. TypeOK
  <2>1. Len(argv) \in Nat
    BY <1>3
  <2>2. called \in BOOLEAN
    OBVIOUS
  <2>3. ssh_args \in Seq(Token)
    OBVIOUS
  <2> QED
    BY <1>1, <1>2, <1>3, <2>1, <2>2, <2>3 DEF TypeOK
<1>5. Divided
  BY DEF Divided
<1>6. Phases
  BY DEF Phases
<1>7. Accepted
  BY DEF Accepted, ClockNames, Names, TakesValue
<1>8. Made
  BY DEF Made
<1> QED
  BY <1>4, <1>5, <1>6, <1>7, <1>8 DEF IInv

\* Steps that only leave a scanner.
LEMMA ExitStep ==
    ASSUME IInv, NEW code \in {0, 1, 2}, Exit(code), pc # "run"
    PROVE  IInv'
<1> USE DEF Exit, input, scanner, output
<1>1. TypeOK'
  BY DEF IInv, TypeOK
<1>2. Divided'
  BY DEF IInv, Divided
<1>3. Phases'
  BY DEF IInv, Phases
<1>4. Accepted'
  BY DEF IInv, Accepted
<1>5. Made'
  BY DEF IInv, Made, Phases
<1> QED
  BY <1>1, <1>2, <1>3, <1>4, <1>5 DEF IInv

\* An option is taken.
LEMMA OwnStep ==
    ASSUME IInv, NEW names \in SUBSET Names, NEW v \in Seq(Int), NEW width \in {1, 2},
           Own(names, v, width),
           pc \in {"strict", "clap"}, Left, i + width <= Len(argv) + 1, rest = 0,
           names \subseteq Naming(tok),
           pc = "strict" => names \subseteq Letters,
           (names \intersect (ClockNames \ {"max_start"}) # {}) => AsU64(Number(v)) # {}
    PROVE  IInv'
<1> USE DEF Own, Given, input, output
<1>1. TypeOK'
  <2>1. {v} \in Option(Seq(Int))
    BY OptionFacts
  <2>2. opts' \in [Names -> Option(Seq(Int))]
    BY <2>1 DEF IInv, TypeOK
  <2>3. i' \in 1..Len(argv) + 1
    BY DEF IInv, TypeOK
  <2> QED
    BY <2>2, <2>3 DEF IInv, TypeOK
<1>2. Divided'
  <2> SUFFICES ASSUME NEW n \in Names, opts'[n] # {}
               PROVE  \E k \in 1..i' - 1 : n \in Naming(argv[k])
    BY DEF Divided
  <2>1. i \in 1..i' - 1
    BY DEF IInv, TypeOK
  <2>2. CASE n \in names
    BY <2>1, <2>2 DEF tok
  <2>3. CASE n \notin names
    <3>1. PICK k \in 1..i - 1 : n \in Naming(argv[k])
      BY <2>3 DEF IInv, Divided
    <3> QED
      BY <2>1, <3>1 DEF IInv, TypeOK
  <2> QED
    BY <2>2, <2>3
<1>3. Phases'
  BY DEF IInv, Phases, Left
<1>4. Accepted'
  BY DEF IInv, Accepted, ClockNames, Names, TakesValue
<1>5. Made'
  BY DEF IInv, Made, Phases
<1> QED
  BY <1>1, <1>2, <1>3, <1>4, <1>5 DEF IInv

\* An argument for ssh is taken.
LEMMA PushStep ==
    ASSUME IInv, NEW from, Parsing, Push(from), from = rest \/ (rest = 0 /\ from = i)
    PROVE  IInv'
<1> USE DEF Push, Parsing, input, output
<1>1. argv \in Seq(Token) /\ ssh_args \in Seq(Token) /\ i \in 1..Len(argv)
  BY DEF IInv, TypeOK, Left
<1>2. tok \in Token
  BY <1>1 DEF tok
<1>3. TypeOK'
  BY <1>1, <1>2 DEF IInv, TypeOK
<1>4. Divided'
  <2>1. Len(ssh_args') = Len(ssh_args) + 1
    BY <1>1, <1>2
  <2>2. \A j \in 1..Len(ssh_args) : ssh_args'[j] = ssh_args[j]
    BY <1>1, <1>2
  <2>3. ssh_args'[Len(ssh_args) + 1] = argv[i]
    BY <1>1, <1>2 DEF tok
  <2>4. rest \in Nat
    BY DEF IInv, TypeOK
  <2>5. rest # 0 => /\ Len(ssh_args) >= i - rest
                    /\ \A k \in rest..i - 1 : ssh_args[Len(ssh_args) - i + 1 + k] = argv[k]
    BY DEF IInv, Divided
  <2>6. rest' # 0 => Len(ssh_args') >= i' - rest'
    BY <1>1, <2>1, <2>4, <2>5
  <2>7. ASSUME rest' # 0, NEW k \in rest'..i' - 1
        PROVE  ssh_args'[Len(ssh_args') - i' + 1 + k] = argv'[k]
    <3>1. Len(ssh_args') - i' + 1 + k = Len(ssh_args) - i + 1 + k
      BY <1>1, <2>1, <2>4, <2>7
    <3>2. CASE k = i
      BY <1>1, <2>3, <3>1, <3>2
    <3>3. CASE k # i
      <4>1. rest # 0 /\ k \in rest..i - 1
        BY <1>1, <2>4, <2>7, <3>3
      <4>2. Len(ssh_args) - i + 1 + k \in 1..Len(ssh_args)
        BY <1>1, <2>4, <2>5, <4>1
      <4> QED
        BY <2>2, <2>5, <3>1, <4>1, <4>2
    <3> QED
      BY <3>2, <3>3
  <2>8. ASSUME NEW n \in Names, opts[n] # {}
        PROVE  \E k \in 1..i' - 1 : n \in Naming(argv[k]) /\ (rest' # 0 => k < rest')
    <3>1. PICK k \in 1..i - 1 : n \in Naming(argv[k]) /\ (rest # 0 => k < rest)
      BY <2>8 DEF IInv, Divided
    <3>2. k \in 1..i' - 1 /\ (rest' # 0 => k < rest')
      BY <1>1, <2>4, <3>1
    <3> QED
      BY <3>1, <3>2
  <2> QED
    BY <2>6, <2>7, <2>8 DEF Divided
<1>5. Phases'
  BY DEF IInv, Phases
<1>6. Accepted'
  BY DEF IInv, Accepted
<1>7. Made'
  BY DEF IInv, Made, Phases
<1> QED
  BY <1>3, <1>4, <1>5, <1>6, <1>7 DEF IInv

-----------------------------------------------------------------------------
(* The steps of the scanners *)

LEMMA ValueFacts ==
    ASSUME TypeOK, Left
    PROVE  /\ tok \in Token
           /\ tok.form = "cluster" => tok.name = "background"
           /\ tok.form \in {"short", "long"} => Naming(tok) = {tok.name}
           /\ tok.name \in Names => tok.name \in Naming(tok)
           /\ HasValue => /\ Value \in Seq(Int)
                          /\ Skip \in {1, 2} /\ i + Skip <= Len(argv) + 1
<1>1. argv \in Seq(Token) /\ i \in 1..Len(argv) /\ Len(argv) \in Nat
  BY DEF TypeOK, Left
<1>2. tok \in Token
  BY <1>1 DEF tok
<1>3. ASSUME HasValue
      PROVE  Value \in Seq(Int) /\ Skip \in {1, 2} /\ i + Skip <= Len(argv) + 1
  <2>1. CASE Glued
    BY <1>1, <1>2, <2>1, TokenFacts DEF Value, Skip, Width
  <2>2. CASE ~Glued
    <3>1. i + 1 \in 1..Len(argv)
      BY <1>1, <1>3, <2>2 DEF HasValue
    <3>2. argv[i + 1] \in Token
      BY <1>1, <3>1
    <3> QED
      BY <1>1, <2>2, <3>1, <3>2, TokenFacts DEF Value, Skip, Width
  <2> QED
    BY <2>1, <2>2
<1> QED
  BY <1>2, <1>3, TokenFacts

LEMMA ResolveStep == ASSUME IInv, Resolve PROVE IInv'
<1> USE DEF Resolve, input, scanner, output
<1>1. TypeOK'
  BY DEF IInv, TypeOK
<1>2. Divided'
  BY DEF IInv, Divided
<1>3. Phases'
  BY DEF IInv, Phases
<1>4. Accepted'
  BY DEF IInv, Accepted
<1>5. Made'
  BY DEF IInv, Made, Phases
<1> QED
  BY <1>1, <1>2, <1>3, <1>4, <1>5 DEF IInv

\* The separator and the mode's own options are stepped over.
LEMMA SkipStep == ASSUME IInv, Separator \/ NoOp PROVE IInv'
<1> USE DEF Separator, NoOp, Reading, Parsing, Left, input, output
<1>1. i \in 1..Len(argv) /\ Len(argv) \in Nat /\ i' = i + 1
  BY DEF IInv, TypeOK
<1>2. TypeOK'
  BY <1>1 DEF IInv, TypeOK
<1>3. Divided'
  <2>1. ASSUME rest' # 0
        PROVE  /\ Len(ssh_args') >= i' - rest'
               /\ \A k \in rest'..i' - 1 :
                      ssh_args'[Len(ssh_args') - i' + 1 + k] = argv'[k]
    BY <1>1, <2>1 DEF IInv, TypeOK
  <2>2. ASSUME NEW n \in Names, opts[n] # {}
        PROVE  \E k \in 1..i' - 1 : n \in Naming(argv[k]) /\ (rest' # 0 => k < rest')
    <3>1. PICK k \in 1..i - 1 : n \in Naming(argv[k])
      BY <2>2 DEF IInv, Divided
    <3> QED
      BY <1>1, <3>1
  <2> QED
    BY <2>1, <2>2 DEF Divided
<1>4. Phases'
  BY DEF IInv, Phases
<1>5. Accepted'
  BY DEF IInv, Accepted
<1>6. Made'
  BY DEF IInv, Made, Phases
<1> QED
  BY <1>2, <1>3, <1>4, <1>5, <1>6 DEF IInv

LEMMA StrictStep == ASSUME IInv, Strict PROVE IInv'
<1> USE DEF Parsing
<1>1. ASSUME Passthrough PROVE IInv'
  BY <1>1, PushStep DEF Passthrough
<1>2. ASSUME NotUtf8 PROVE IInv'
  BY <1>2, PushStep DEF NotUtf8
<1>3. ASSUME BareDash PROVE IInv'
  BY <1>3, PushStep DEF BareDash, Reading
<1>4. ASSUME Positional PROVE IInv'
  BY <1>4, PushStep DEF Positional, Reading
<1>5. ASSUME LetterFlag PROVE IInv'
  <2>1. /\ Left /\ rest = 0 /\ pc = "strict" /\ TypeOK
        /\ tok.name \in Letters \ {"monitor"}
        /\ Own({tok.name}, <<>>, 1)
    BY <1>5 DEF LetterFlag, Reading, IInv
  <2>2. /\ {tok.name} \in SUBSET Names
        /\ {tok.name} \subseteq Letters
        /\ {tok.name} \intersect (ClockNames \ {"max_start"}) = {}
    BY <2>1 DEF Letters, Names, ClockNames, TakesValue
  <2>3. {tok.name} \subseteq Naming(tok)
    BY <2>1, <2>2, ValueFacts
  <2>4. <<>> \in Seq(Int) /\ i + 1 <= Len(argv) + 1
    BY <2>1 DEF TypeOK, Left
  <2> QED
    BY <2>1, <2>2, <2>3, <2>4, OwnStep
<1>6. ASSUME MonitorFlag PROVE IInv'
  <2>1. /\ Left /\ rest = 0 /\ pc = "strict" /\ TypeOK /\ HasValue
        /\ tok.name = "monitor"
        /\ Own({"monitor"}, Value, Skip)
    BY <1>6 DEF MonitorFlag, Reading, IInv
  <2>2. /\ {"monitor"} \in SUBSET Names
        /\ {"monitor"} \subseteq Letters
        /\ {"monitor"} \intersect (ClockNames \ {"max_start"}) = {}
    BY DEF Letters, Names, ClockNames, TakesValue
  <2>3. {"monitor"} \subseteq Naming(tok)
    BY <2>1, <2>2, ValueFacts
  <2>4. Value \in Seq(Int) /\ Skip \in {1, 2} /\ i + Skip <= Len(argv) + 1
    BY <2>1, ValueFacts
  <2> QED
    BY <2>1, <2>2, <2>3, <2>4, OwnStep
<1>7. ASSUME Rejected PROVE IInv'
  BY <1>7, ExitStep DEF Rejected, Reading
<1> QED
  BY <1>1, <1>2, <1>3, <1>4, <1>5, <1>6, <1>7, SkipStep DEF Strict

LEMMA ClapFlagStep == ASSUME IInv, ClapFlag PROVE IInv'
<1>1. /\ Left /\ rest = 0 /\ pc = "clap" /\ TypeOK /\ Known(tok)
      /\ tok.name \notin TakesValue \union {"version"}
      /\ Own(Naming(tok), <<>>, 1)
  BY DEF ClapFlag, Clapping, IInv, Phases
<1>2. tok \in Token
  BY <1>1, ValueFacts
<1>3. Naming(tok) \in SUBSET Names /\ Naming(tok) \intersect TakesValue = {}
  <2>1. CASE tok.form = "cluster"
    BY <2>1 DEF Naming, Names, TakesValue, ClockNames, PathNames
  <2>2. CASE tok.form # "cluster"
    BY <1>1, <2>2 DEF Naming, Known, Letters, Names, TakesValue
  <2> QED
    BY <2>1, <2>2
<1>4. Naming(tok) \intersect (ClockNames \ {"max_start"}) = {}
  BY <1>3 DEF TakesValue
<1>5. <<>> \in Seq(Int) /\ i + 1 <= Len(argv) + 1
  BY <1>1 DEF TypeOK, Left
<1> QED
  BY <1>1, <1>3, <1>4, <1>5, OwnStep

LEMMA ClapOptionStep == ASSUME IInv, ClapOption PROVE IInv'
<1>1. /\ Left /\ rest = 0 /\ pc = "clap" /\ TypeOK /\ HasValue
      /\ tok.name \in TakesValue
      /\ Own({tok.name}, Value, Skip)
  BY DEF ClapOption, Clapping, IInv, Phases, Acceptable
<1>2. {tok.name} \in SUBSET Names
  BY <1>1 DEF Names
<1>3. {tok.name} \subseteq Naming(tok)
  BY <1>1, <1>2, ValueFacts
<1>4. Value \in Seq(Int) /\ Skip \in {1, 2} /\ i + Skip <= Len(argv) + 1
  BY <1>1, ValueFacts
<1>5. ({tok.name} \intersect (ClockNames \ {"max_start"}) # {}) => AsU64(Number(Value)) # {}
  BY DEF ClapOption, Acceptable
<1> QED
  BY <1>1, <1>2, <1>3, <1>4, <1>5, OwnStep

LEMMA SuffixFacts ==
    ASSUME NEW s \in Seq(Token), NEW from \in 1..Len(s) + 1
    PROVE  /\ SubSeq(s, from, Len(s)) \in Seq(Token)
           /\ Len(SubSeq(s, from, Len(s))) = Len(s) + 1 - from
           /\ \A j \in 1..Len(s) + 1 - from :
                 SubSeq(s, from, Len(s))[j] = s[from + j - 1]
<1>1. Len(s) \in Nat /\ from \in Int
  OBVIOUS
<1>2. \A j \in from..Len(s) : s[j] \in Token
  <2> HIDE DEF Token
  <2> QED
    BY <1>1
<1>3. /\ SubSeq(s, from, Len(s)) \in Seq(Token)
      /\ Len(SubSeq(s, from, Len(s))) = IF from <= Len(s) THEN Len(s) - from + 1 ELSE 0
      /\ \A j \in 1..Len(s) - from + 1 :
            SubSeq(s, from, Len(s))[j] = s[from + j - 1]
  BY <1>1, <1>2, SubSeqProperties
<1>4. /\ Len(s) - from + 1 = Len(s) + 1 - from
      /\ from > Len(s) => Len(s) + 1 - from = 0
  BY <1>1
<1> QED
  BY <1>3, <1>4

LEMMA ClapStopsStep == ASSUME IInv, ClapStops PROVE IInv'
<1> USE DEF ClapStops, Clapping, Left, input, output
<1>1. argv \in Seq(Token) /\ i \in 1..Len(argv) /\ Len(argv) \in Nat
  BY DEF IInv, TypeOK
<1>2. rest' \in {i, i + 1} /\ i' = Len(argv) + 1 /\ ssh_args' = SubSeq(argv, rest', Len(argv))
  OBVIOUS
<1>0. PICK from \in 1..Len(argv) + 1 : rest' = from
  <2> HIDE DEF ClapStops, Left
  <2>1. i \in 1..Len(argv) + 1 /\ i + 1 \in 1..Len(argv) + 1
    BY <1>1
  <2>2. rest' \in 1..Len(argv) + 1
    BY <1>2, <2>1
  <2> QED
    BY <2>2
<1>3. /\ ssh_args' \in Seq(Token)
      /\ Len(ssh_args') = Len(argv) + 1 - from
      /\ \A j \in 1..Len(argv) + 1 - from : ssh_args'[j] = argv[from + j - 1]
  <2> HIDE DEF ClapStops
  <2> QED
    BY <1>1, <1>2, <1>0, SuffixFacts
<1>4. TypeOK'
  <2>1. rest' \in 0..Len(argv) + 1 /\ i' \in 1..Len(argv) + 1
    BY <1>1, <1>2, <1>0
  <2> QED
    BY <1>1, <1>3, <2>1 DEF IInv, TypeOK
<1>5. Divided'
  <2>1. ASSUME NEW k \in from..Len(argv)
        PROVE  ssh_args'[Len(ssh_args') - (Len(argv) + 1) + 1 + k] = argv[k]
    <3> HIDE DEF ClapStops
    <3> DEFINE j == k - from + 1
    <3>1. /\ j \in 1..Len(argv) + 1 - from
          /\ from + j - 1 = k
          /\ Len(argv) + 1 - from - (Len(argv) + 1) + 1 + k = j
      BY <1>1
    <3>2. ssh_args'[j] = argv[from + j - 1]
      BY <1>3, <3>1
    <3> QED
      BY <1>3, <3>1, <3>2
  <2>2. ASSUME NEW n \in Names, opts[n] # {}
        PROVE  \E k \in 1..i' - 1 : n \in Naming(argv[k]) /\ k < rest'
    <3>1. PICK k \in 1..i - 1 : n \in Naming(argv[k])
      BY <2>2 DEF IInv, Divided
    <3> QED
      BY <1>1, <1>2, <3>1
  <2>3. argv' = argv /\ opts' = opts
    OBVIOUS
  <2> HIDE DEF ClapStops
  <2>4. /\ i' - 1 = Len(argv)
        /\ Len(ssh_args') >= i' - rest'
    BY <1>1, <1>2, <1>3, <1>0
  <2>5. ASSUME NEW k \in rest'..i' - 1
        PROVE  ssh_args'[Len(ssh_args') - i' + 1 + k] = argv[k]
    BY <1>2, <1>0, <2>1, <2>4
  <2> QED
    BY <2>2, <2>3, <2>4, <2>5 DEF Divided
<1>6. Phases'
  BY <1>1, <1>2 DEF IInv, Phases
<1>7. Accepted'
  BY DEF IInv, Accepted
<1>8. Made'
  BY DEF IInv, Made, Phases
<1> QED
  BY <1>4, <1>5, <1>6, <1>7, <1>8 DEF IInv

LEMMA ScannedStep == ASSUME IInv, Scanned PROVE IInv'
<1> USE DEF Scanned, input, scanner, output
<1>1. TypeOK'
  BY DEF IInv, TypeOK
<1>2. Divided'
  BY DEF IInv, Divided
<1>3. Phases'
  BY DEF IInv, Phases
<1>4. Accepted'
  BY DEF IInv, Accepted
<1>5. Made'
  BY DEF IInv, Made, Phases
<1> QED
  BY <1>1, <1>2, <1>3, <1>4, <1>5 DEF IInv

LEMMA ClapStep == ASSUME IInv, Clap PROVE IInv'
<1>1. ASSUME ClapRefuses PROVE IInv'
  BY <1>1, ExitStep DEF ClapRefuses, Clapping
<1>2. ASSUME ClapVersion PROVE IInv'
  BY <1>2, ExitStep DEF ClapVersion, Clapping
<1>3. ASSUME Completions PROVE IInv'
  BY <1>3, ExitStep DEF Completions, Clapping
<1> QED
  BY <1>1, <1>2, <1>3, ClapFlagStep, ClapOptionStep, ClapStopsStep DEF Clap

-----------------------------------------------------------------------------
(* What is built *)

\* A duration of the command line fits, and so does what it overrides.
LEMMA FlagFacts ==
    ASSUME TypeOK, Accepted
    PROVE  /\ \A n \in Names : Flag(n) \in Option(Int)
           /\ \A n \in ClockNames \ {"max_start"} : Flag(n) \in Option(0..U64-1)
<1>1. ASSUME NEW n \in Names
      PROVE  /\ Flag(n) \in Option(Int)
             /\ n \in ClockNames \ {"max_start"} => Flag(n) \in Option(0..U64-1)
  <2>1. opts[n] \in Option(Seq(Int))
    BY DEF TypeOK
  <2>2. CASE opts[n] = {}
    <3>1. Flag(n) = {}
      BY <2>2 DEF Flag
    <3> QED
      BY <3>1, OptionFacts
  <2>3. CASE \E v \in Seq(Int) : opts[n] = {v}
    <3>1. PICK v \in Seq(Int) : opts[n] = {v}
      BY <2>3
    <3>2. Flag(n) = Number(v)
      BY <3>1 DEF Flag
    <3>3. Number(v) \in Option(Int)
      BY NumberType
    <3>4. ASSUME n \in ClockNames \ {"max_start"} PROVE Number(v) \in Option(0..U64-1)
      <4>1. AsU64(Number(v)) # {}
        BY <3>1, <3>4 DEF Accepted
      <4>2. AsU64(Number(v)) = Number(v)
        BY <4>1 DEF AsU64, Number
      <4> QED
        BY <3>3, <4>2, RangeType
    <3> QED
      BY <3>2, <3>3, <3>4
  <2> QED
    BY <2>1, <2>2, <2>3, OptionFacts
<1>2. ClockNames \subseteq Names
  BY DEF Names, TakesValue
<1> QED
  BY <1>1, <1>2

LEMMA FromEnvType ==
    ASSUME NEW e \in Env
    PROVE  FromEnv(e) \in Clock
<1> DEFINE poll == Or(AsU64(e.poll), DefaultPoll)
<1>1. /\ e.poll \in Option(Int) /\ e.first_poll \in Option(Int) /\ e.gate_time \in Option(Int)
      /\ e.max_start \in Option(Int) /\ e.max_lifetime \in Option(Int)
  BY DEF Env
<1>2. poll \in 0..U64-1
  BY <1>1, RangeType, OrType, ConfigurationAssumption DEF ConfigurationAssumption
<1> HIDE DEF poll
<1>3. Or(AsU64(e.first_poll), poll) \in 0..U64-1
  BY <1>1, <1>2, RangeType, OrType
<1>4. Or(AsU64(e.gate_time), DefaultGate) \in 0..U64-1
  BY <1>1, RangeType, OrType, ConfigurationAssumption DEF ConfigurationAssumption
<1>5. UNION Mapped(Cap, AsI64(e.max_start)) \in Option(0..U32-1)
  BY <1>1, CapsType, RangeType
<1>6. UNION Mapped(Span, AsU64(e.max_lifetime)) \in Option(0..U64-1)
  BY <1>1, SpansType, RangeType
<1>7. FromEnv(e) = [poll |-> poll,
                    first_poll |-> Or(AsU64(e.first_poll), poll),
                    gate_time |-> Or(AsU64(e.gate_time), DefaultGate),
                    max_start |-> UNION Mapped(Cap, AsI64(e.max_start)),
                    max_lifetime |-> UNION Mapped(Span, AsU64(e.max_lifetime))]
  BY DEF FromEnv, poll
<1> QED
  BY <1>2, <1>3, <1>4, <1>5, <1>6, <1>7 DEF Clock

LEMMA FromEnvAndFlagsType ==
    ASSUME TypeOK, Accepted, NEW e \in Env
    PROVE  FromEnvAndFlags(e) \in Clock
<1> DEFINE clock == FromEnv(e)
<1>1. clock \in Clock
  BY FromEnvType
<1>2. /\ clock.poll \in 0..U64-1 /\ clock.first_poll \in 0..U64-1
      /\ clock.gate_time \in 0..U64-1
      /\ clock.max_start \in Option(0..U32-1) /\ clock.max_lifetime \in Option(0..U64-1)
  BY <1>1 DEF Clock
<1> HIDE DEF clock
<1>3. /\ Flag("poll") \in Option(0..U64-1) /\ Flag("first_poll") \in Option(0..U64-1)
      /\ Flag("gate_time") \in Option(0..U64-1) /\ Flag("max_lifetime") \in Option(0..U64-1)
      /\ Flag("max_start") \in Option(Int)
  BY FlagFacts DEF ClockNames, Names, TakesValue
<1>4. Or(Flag("poll"), clock.poll) \in 0..U64-1
  BY <1>2, <1>3, OrType
<1>5. Or(Flag("first_poll"), clock.first_poll) \in 0..U64-1
  BY <1>2, <1>3, OrType
<1>6. Gate(Flag("gate_time"), clock.gate_time) \in 0..U64-1
  <2>1. Or(Flag("gate_time"), clock.gate_time) \in 0..U64-1
    BY <1>2, <1>3, OrType
  <2>2. 0 \in 0..U64-1
    BY ConfigurationAssumption DEF ConfigurationAssumption
  <2> QED
    BY <2>1, <2>2 DEF Gate
<1>7. Or(Mapped(Cap, Flag("max_start")), clock.max_start) \in Option(0..U32-1)
  <2>1. \A n \in Int : Cap(n) \in Option(0..U32-1)
    BY CapType
  <2>2. Mapped(Cap, Flag("max_start")) \in Option(Option(0..U32-1))
    BY <1>3, <2>1 DEF Mapped, Option
  <2> QED
    BY <1>2, <2>2, OrType
<1>8. Or(Mapped(Span, Flag("max_lifetime")), clock.max_lifetime) \in Option(0..U64-1)
  <2>1. \A n \in 0..U64-1 : Span(n) \in Option(0..U64-1)
    BY SpanType
  <2>2. Mapped(Span, Flag("max_lifetime")) \in Option(Option(0..U64-1))
    BY <1>3, <2>1 DEF Mapped, Option
  <2> QED
    BY <1>2, <2>2, OrType
<1>9. FromEnvAndFlags(e) =
        [poll |-> Or(Flag("poll"), clock.poll),
         first_poll |-> Or(Flag("first_poll"), clock.first_poll),
         gate_time |-> Gate(Flag("gate_time"), clock.gate_time),
         max_start |-> Or(Mapped(Cap, Flag("max_start")), clock.max_start),
         max_lifetime |-> Or(Mapped(Span, Flag("max_lifetime")), clock.max_lifetime)]
  BY DEF FromEnvAndFlags, clock
<1> QED
  BY <1>4, <1>5, <1>6, <1>7, <1>8, <1>9 DEF Clock

LEMMA MonitorType ==
    ASSUME NEW v \in Seq(Int), ValidMonitor(v)
    PROVE  MonitorMode(v) \in Option(Monitor)
<1>1. v[1] \in 0..U16-1
  BY DEF ValidMonitor
<1>2. (IF Len(v) = 2 THEN {v[2]} ELSE {}) \in Option(0..U16-1)
  <2>1. CASE Len(v) = 2
    <3>1. v[2] \in 0..U16-1
      BY <2>1 DEF ValidMonitor
    <3>2. {v[2]} \in Option(0..U16-1)
      BY <3>1, OptionFacts
    <3> QED
      BY <2>1, <3>2
  <2>2. CASE Len(v) # 2
    <3>1. {} \in Option(0..U16-1)
      BY OptionFacts
    <3> QED
      BY <2>2, <3>1
  <2> QED
    BY <2>1, <2>2
<1>3. [port |-> v[1], echo |-> IF Len(v) = 2 THEN {v[2]} ELSE {}] \in Monitor
  BY <1>1, <1>2 DEF Monitor
<1>4. CASE v[1] = 0
  <2>1. {} \in Option(Monitor)
    BY OptionFacts
  <2> QED
    BY <1>4, <2>1 DEF MonitorMode
<1>5. CASE v[1] # 0
  <2>1. \A m \in Monitor : {m} \in Option(Monitor)
    BY OptionFacts
  <2>2. MonitorMode(v) = {[port |-> v[1], echo |-> IF Len(v) = 2 THEN {v[2]} ELSE {}]}
    BY <1>5 DEF MonitorMode
  <2> QED
    BY <1>3, <2>1, <2>2
<1> QED
  BY <1>4, <1>5

LEMMA ToldType ==
    ASSUME TypeOK, Accepted, ~BadMonitor, NEW e \in Env
    PROVE  Told(e) \in Builder
<1> DEFINE clock == FromEnvAndFlags(e)
           monitor == UNION {MonitorMode(v) : v \in opts["monitor"]}
           pid_file == Path(opts["pid_file"], e.pid_file)
           log_file == Path(opts["log_file"], e.log_file)
<1>1. /\ clock.poll \in 0..U64-1 /\ clock.first_poll \in 0..U64-1
      /\ clock.gate_time \in 0..U64-1
      /\ clock.max_start \in Option(0..U32-1) /\ clock.max_lifetime \in Option(0..U64-1)
  BY FromEnvAndFlagsType DEF Clock
<1>2. /\ {"monitor"} \union PathNames \subseteq Names
      /\ opts \in [Names -> Option(Seq(Int))]
  BY DEF Names, TakesValue, TypeOK
<1>3. /\ opts["monitor"] \in Option(Seq(Int)) /\ opts["ssh_path"] \in Option(Seq(Int))
      /\ opts["pid_file"] \in Option(Seq(Int)) /\ opts["log_file"] \in Option(Seq(Int))
  BY <1>2 DEF PathNames
<1>4. monitor \in Option(Monitor)
  <2>1. CASE opts["monitor"] = {}
    <3>1. monitor = {}
      BY <2>1
    <3>2. {} \in Option(Monitor)
      BY OptionFacts
    <3> QED
      BY <3>1, <3>2
  <2>2. CASE \E v \in Seq(Int) : opts["monitor"] = {v}
    <3>1. PICK v \in Seq(Int) : opts["monitor"] = {v}
      BY <2>2
    <3>2. monitor = MonitorMode(v)
      BY <3>1
    <3>3. ValidMonitor(v)
      BY <3>1 DEF BadMonitor
    <3> QED
      BY <3>1, <3>2, <3>3, MonitorType
  <2> QED
    BY <1>3, <2>1, <2>2, OptionFacts
<1>5. pid_file \in Option(Seq(Int)) /\ log_file \in Option(Seq(Int))
  BY <1>3 DEF Env, Path
<1>6. \A n \in 0..U64-1 : {n} \in Option(0..U64-1)
  BY OptionFacts
<1>7. \A o \in Option(0..U32-1) : {o} \in Option(Option(0..U32-1))
  BY OptionFacts
<1>8. \A o \in Option(0..U64-1) : {o} \in Option(Option(0..U64-1))
  BY OptionFacts
<1> HIDE DEF clock, monitor, pid_file, log_file
<1>9. Told(e) =
        [poll |-> {clock.poll}, first_poll |-> {clock.first_poll},
         gate_time |-> {clock.gate_time},
         max_start |-> {clock.max_start}, max_lifetime |-> {clock.max_lifetime},
         monitor |-> monitor, one_shot |-> opts["one_shot"] # {},
         ssh_path |-> opts["ssh_path"], pid_file |-> pid_file, log_file |-> log_file]
  BY DEF Told, clock, monitor, pid_file, log_file
<1> QED
  BY <1>1, <1>3, <1>4, <1>5, <1>6, <1>7, <1>8, <1>9 DEF Builder

LEMMA BuildType ==
    ASSUME NEW b \in Builder
    PROVE  Build(b) \in Settings
<1> DEFINE poll == Or(b.poll, DefaultPoll)
           clock == [poll |-> poll,
                     first_poll |-> Or(b.first_poll, FirstPoll(poll)),
                     gate_time |-> Or(b.gate_time, DefaultGate),
                     max_start |-> Or(b.max_start, {}),
                     max_lifetime |-> Or(b.max_lifetime, {})]
<1>1. /\ b.poll \in Option(0..U64-1) /\ b.first_poll \in Option(0..U64-1)
      /\ b.gate_time \in Option(0..U64-1)
      /\ b.max_start \in Option(Option(0..U32-1))
      /\ b.max_lifetime \in Option(Option(0..U64-1))
      /\ b.monitor \in Option(Monitor) /\ b.one_shot \in BOOLEAN
      /\ b.ssh_path \in Option(Seq(Int)) /\ b.pid_file \in Option(Seq(Int))
      /\ b.log_file \in Option(Seq(Int))
  BY DEF Builder
<1>2. DefaultPoll \in 0..U64-1 /\ DefaultGate \in 0..U64-1
  BY ConfigurationAssumption DEF ConfigurationAssumption
<1>3. poll \in 0..U64-1
  BY <1>1, <1>2, OrType
<1> HIDE DEF poll
<1>4. Or(b.first_poll, FirstPoll(poll)) \in 0..U64-1
  BY <1>1, <1>3, OrType DEF FirstPoll
<1>5. Or(b.gate_time, DefaultGate) \in 0..U64-1
  BY <1>1, <1>2, OrType
<1>6. {} \in Option(0..U32-1) /\ {} \in Option(0..U64-1)
  BY OptionFacts
<1>7. Or(b.max_start, {}) \in Option(0..U32-1)
  BY <1>1, <1>6, OrType
<1>8. Or(b.max_lifetime, {}) \in Option(0..U64-1)
  BY <1>1, <1>6, OrType
<1>9. clock \in Clock
  BY <1>3, <1>4, <1>5, <1>7, <1>8 DEF Clock
<1>10. Build(b) = [clock |-> clock, monitor |-> b.monitor, one_shot |-> b.one_shot,
                  ssh_path |-> b.ssh_path, pid_file |-> b.pid_file, log_file |-> b.log_file]
  BY DEF Build, clock, poll
<1> HIDE DEF clock
<1> QED
  BY <1>1, <1>9, <1>10 DEF Settings

\* What a builder is told depends on the options only.
LEMMA ToldKept ==
    ASSUME opts' = opts, NEW e
    PROVE  Told(e)' = Told(e)
  BY DEF Told, FromEnvAndFlags, Flag, Gate, Mapped

LEMMA SettleStep == ASSUME IInv, Settle PROVE IInv'
<1> USE DEF input, scanner
<1>1. PICK e \in Envs : env' = {e} /\ told' = {Told(e)} /\ settings' = {Build(Told(e))}
  BY DEF Settle
<1>2. /\ pc = "settle" /\ pc' = "run" /\ opts' = opts /\ ~BadMonitor
      /\ UNCHANGED <<argv, called, mode, i, rest, ssh_args, exit>>
  BY DEF Settle
<1>3. e \in Env
  BY <1>1, ConfigurationAssumption DEF ConfigurationAssumption
<1>4. Told(e) \in Builder /\ Build(Told(e)) \in Settings
  BY <1>2, <1>3, ToldType, BuildType DEF IInv
<1>5. TypeOK'
  <2>1. {e} \in Option(Env)
    BY <1>3, OptionFacts
  <2>2. {Told(e)} \in Option(Builder)
    BY <1>4, OptionFacts
  <2>3. {Build(Told(e))} \in Option(Settings)
    BY <1>4, OptionFacts
  <2> QED
    BY <1>1, <1>2, <2>1, <2>2, <2>3 DEF IInv, TypeOK
<1>6. Divided'
  BY <1>2 DEF IInv, Divided
<1>7. Phases'
  BY <1>2 DEF IInv, Phases
<1>8. Accepted'
  BY <1>2 DEF IInv, Accepted
<1>9. Made'
  <2>1. Told(e)' = Told(e)
    BY <1>2, ToldKept
  <2> QED
    BY <1>1, <2>1 DEF Made
<1> QED
  BY <1>5, <1>6, <1>7, <1>8, <1>9 DEF IInv

LEMMA BuildOwnStep == ASSUME IInv, BuildOwn PROVE IInv'
<1> USE DEF input, scanner
<1>1. PICK b \in Builders : told' = {b} /\ settings' = {Build(b)}
  BY DEF BuildOwn
<1>2. /\ pc = "build" /\ pc' = "run" /\ mode = "Default" /\ env = {}
      /\ UNCHANGED <<argv, called, mode, i, rest, opts, ssh_args, env, exit>>
  BY DEF BuildOwn, IInv, Phases
<1>3. b \in Builder /\ Build(b) \in Settings
  BY <1>1, BuildType, ConfigurationAssumption DEF ConfigurationAssumption
<1>4. TypeOK'
  <2>1. {b} \in Option(Builder)
    BY <1>3, OptionFacts
  <2>2. {Build(b)} \in Option(Settings)
    BY <1>3, OptionFacts
  <2> QED
    BY <1>1, <1>2, <2>1, <2>2 DEF IInv, TypeOK
<1>5. Divided'
  BY <1>2 DEF IInv, Divided
<1>6. Phases'
  BY <1>2 DEF IInv, Phases
<1>7. Accepted'
  BY <1>2 DEF IInv, Accepted
<1>8. Made'
  BY <1>1, <1>2 DEF Made
<1> QED
  BY <1>4, <1>5, <1>6, <1>7, <1>8 DEF IInv

LEMMA Stutter == ASSUME IInv, UNCHANGED vars PROVE IInv'
<1> USE DEF vars
<1>1. TypeOK'
  BY DEF IInv, TypeOK
<1>2. Divided'
  BY DEF IInv, Divided
<1>3. Phases'
  BY DEF IInv, Phases, Left
<1>4. Accepted'
  BY DEF IInv, Accepted
<1>5. Made'
  <2>1. \A e \in env : Told(e)' = Told(e)
    BY ToldKept
  <2> QED
    BY <2>1 DEF IInv, Made
<1> QED
  BY <1>1, <1>2, <1>3, <1>4, <1>5 DEF IInv

LEMMA Inductive == IInv /\ [Next]_vars => IInv'
<1> SUFFICES ASSUME IInv, [Next]_vars PROVE IInv'
  OBVIOUS
<1>1. CASE Strict
  BY <1>1, StrictStep
<1>2. CASE Clap
  BY <1>2, ClapStep
<1>3. ASSUME PrintVersion PROVE IInv'
  BY <1>3, ExitStep DEF PrintVersion
<1>4. ASSUME RefuseMonitor PROVE IInv'
  BY <1>4, ExitStep DEF RefuseMonitor
<1>5. CASE UNCHANGED vars
  BY <1>5, Stutter
<1> QED
  BY <1>1, <1>2, <1>3, <1>4, <1>5, ResolveStep, ScannedStep, SettleStep, BuildOwnStep
     DEF Next, Step, Finished

LEMMA Invariant == Spec => []IInv
  BY Initially, Inductive, PTL DEF Spec

-----------------------------------------------------------------------------
(* Theorems *)

\* Settings, options and arguments keep their types: every number the
\* supervisor starts with fits the integer it is kept in, whatever the line, the
\* environment or the caller says.
THEOREM TypeCorrect == Spec => []TypeOK
<1>1. IInv => TypeOK
  BY DEF IInv
<1> QED
  BY <1>1, Invariant, PTL

\* For command lines of every length, in both modes: an argument for ssh is passed
\* on in its place and never read as an option of the wrapper (strict.rs
\* parse_argv, cli.rs ssh_args).
THEOREM ArgumentsDivided == Spec => []Divided
<1>1. IInv => Divided
  BY DEF IInv
<1> QED
  BY <1>1, Invariant, PTL

\* In Strict mode and for a library caller, the first poll is the poll interval
\* unless it is set by itself (clock.rs resolve_from_env, lib.rs build).
THEOREM FirstPollKept == Spec => []FirstPollFollows
<1>1. ASSUME IInv PROVE FirstPollFollows
  <2> SUFFICES ASSUME NEW s \in settings, mode = "Strict" \/ env = {}, ~OwnFirstPoll
               PROVE  s.clock.first_poll = s.clock.poll
    BY DEF FirstPollFollows
  <2>1. PICK b \in told : s = Build(b)
    BY <1>1 DEF IInv, Made
  <2>2. /\ s.clock.poll = Or(b.poll, DefaultPoll)
        /\ s.clock.first_poll = Or(b.first_poll, s.clock.poll)
    BY <2>1 DEF Build, FirstPoll
  <2>3. CASE mode = "Strict"
    <3>1. PICK e \in env : b = Told(e)
      BY <1>1, <2>1, <2>3 DEF IInv, Made
    <3>2. AsU64(e.first_poll) = {}
      BY <2>3, <3>1 DEF OwnFirstPoll
    <3>3. opts["poll"] = {} /\ opts["first_poll"] = {}
      BY <1>1, <2>3 DEF IInv, Phases, Names, Letters, TakesValue, ClockNames
    <3>4. Flag("poll") = {} /\ Flag("first_poll") = {}
      BY <3>3 DEF Flag
    <3>5. /\ b.poll = {FromEnv(e).poll}
          /\ b.first_poll = {FromEnv(e).first_poll}
      BY <3>1, <3>4, OrFacts DEF Told, FromEnvAndFlags
    <3>6. FromEnv(e).first_poll = FromEnv(e).poll
      BY <3>2, OrFacts DEF FromEnv
    <3>7. s.clock.poll = FromEnv(e).poll
      BY <2>2, <3>5, OrFacts
    <3>8. s.clock.first_poll = FromEnv(e).first_poll
      BY <2>2, <3>5, OrFacts
    <3> QED
      BY <3>6, <3>7, <3>8
  <2>4. CASE mode # "Strict"
    <3>1. b.first_poll = {}
      BY <2>1, <2>4 DEF OwnFirstPoll
    <3> QED
      BY <2>2, <3>1, OrFacts
  <2> QED
    BY <2>3, <2>4
<1> QED
  BY <1>1, Invariant, PTL

\* A retry cap is cut down to 32 bits, never up: what was asked for is not exceeded
\* (clock.rs:134 and 181).
THEOREM CapNeverExceeded == Spec => []CapKept
<1>1. ASSUME IInv PROVE CapKept
  <2> DEFINE asked(e) == IF opts["max_start"] = {} THEN AsI64(e.max_start)
                         ELSE Flag("max_start")
  <2> SUFFICES ASSUME NEW s \in settings, NEW e \in env, NEW n \in asked(e)
               PROVE  /\ n < 0 => s.clock.max_start = {}
                      /\ n >= 0 => \E cap \in s.clock.max_start :
                                      cap <= n /\ (n < U32 => cap = n)
    BY DEF CapKept
  <2>1. s = Build(Told(e))
    BY <1>1 DEF IInv, Made
  <2>2. s.clock.max_start = FromEnvAndFlags(e).max_start
    BY <2>1, OrFacts DEF Build, Told
  <2>3. n \in Int /\ s.clock.max_start = Cap(n)
    <3>1. CASE opts["max_start"] = {}
      <4>1. Flag("max_start") = {}
        BY <3>1 DEF Flag
      <4>2. Mapped(Cap, Flag("max_start")) = {}
        BY <4>1 DEF Mapped
      <4>3. FromEnvAndFlags(e).max_start = UNION Mapped(Cap, AsI64(e.max_start))
        BY <4>2, OrFacts DEF FromEnvAndFlags, FromEnv
      <4>4. e.max_start \in Option(Int)
        BY <1>1 DEF IInv, TypeOK, Option, Env
      <4>5. n \in Int /\ AsI64(e.max_start) = {n}
        BY <3>1, <4>4 DEF AsI64, Option
      <4>6. UNION Mapped(Cap, AsI64(e.max_start)) = Cap(n)
        BY <4>5 DEF Mapped
      <4> QED
        BY <2>2, <4>3, <4>5, <4>6
    <3>2. CASE opts["max_start"] # {}
      <4>1. Flag("max_start") \in Option(Int) /\ n \in Flag("max_start")
        BY <1>1, <3>2, FlagFacts DEF IInv, Names, TakesValue, ClockNames
      <4>2. n \in Int /\ Flag("max_start") = {n}
        BY <4>1 DEF Option
      <4>3. Mapped(Cap, Flag("max_start")) = {Cap(n)}
        BY <4>2 DEF Mapped
      <4>4. FromEnvAndFlags(e).max_start = Cap(n)
        BY <4>3, OrFacts DEF FromEnvAndFlags
      <4> QED
        BY <2>2, <4>2, <4>4
    <3> QED
      BY <3>1, <3>2
  <2>4. CASE n < 0
    BY <2>3, <2>4 DEF Cap
  <2>5. CASE n >= 0
    <3>1. s.clock.max_start = {Wrapped(n)}
      BY <2>3, <2>5 DEF Cap
    <3>2. Wrapped(n) <= n /\ (n < U32 => Wrapped(n) = n)
      BY <2>3, <2>5, WrappedFacts
    <3> QED
      BY <2>3, <2>5, <3>1, <3>2
  <2> QED
    BY <2>3, <2>4, <2>5
<1> QED
  BY <1>1, Invariant, PTL

=============================================================================
