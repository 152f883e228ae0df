---------------------------- MODULE Configuration ----------------------------
(***************************************************************************)
(* How an SshSupervisor gets its settings: from the command line and the   *)
(* environment, in one of two modes with a scanner each (src/src/main.rs,  *)
(* mode.rs, strict.rs, cli.rs, clock.rs), or from a library caller by the  *)
(* builder (lib.rs).                                                       *)
(*                                                                         *)
(* A token of the command line is a record: its form, the option it names, *)
(* and the numbers it carries, glued to an option or by themselves and     *)
(* separated by colons.  An optional thing is a set of at most one         *)
(* element, and parsing filters it; a text that is no number is a number   *)
(* out of every range.                                                     *)
(***************************************************************************)
EXTENDS Integers, Sequences

CONSTANTS
    Lines,        \* the command lines that are tried, without argv[0]
    Envs,         \* the AUTOSSH_* variables that are tried
    Builders,     \* what library callers set
    U16, U32, I64, U64,  \* the number of values (of I64: from 0 up) of the types
    DefaultPoll,  \* DEFAULT_POLL_SECS
    DefaultGate   \* DEFAULT_GATE_TIME_SECS

Toggles == {"strict", "no_strict"}
ClockNames == {"poll", "first_poll", "gate_time", "max_start", "max_lifetime"}
PathNames == {"ssh_path", "pid_file", "log_file"}
TakesValue == {"monitor", "log_level"} \union ClockNames \union PathNames
Names == {"background", "version", "one_shot", "debug"} \union Toggles \union TakesValue

\* -M -f -V -1, the options that both scanners know by a letter.
Letters == {"monitor", "background", "version", "one_shot"}

\* Glued is -M2, a cluster -f1, and raw what is not UTF-8.
Token ==
    [form : {"short"}, name : Letters \union {"none"}, val : {<<>>}]
    \union [form : {"glued"}, name : {"monitor"}, val : Seq(Int)]
    \union [form : {"long"}, name : Names \union {"none"}, val : Seq(Int)]
    \union [form : {"cluster"}, name : {"background"}, val : {<<>>}]
    \union [form : {"separator", "dash", "completions", "word", "raw"},
            name : {"none"}, val : Seq(Int)]

Option(S) == {s \in SUBSET S : \A x, y \in s : x = y}
Or(opt, default) == IF opt = {} THEN default ELSE CHOOSE x \in opt : TRUE

Monitor == [port : 0..U16-1, echo : Option(0..U16-1)]
Clock == [poll : 0..U64-1, first_poll : 0..U64-1, gate_time : 0..U64-1,
          max_start : Option(0..U32-1), max_lifetime : Option(0..U64-1)]
Env == [poll : Option(Int), first_poll : Option(Int), gate_time : Option(Int),
        max_start : Option(Int), max_lifetime : Option(Int),
        pid_file : Option(Seq(Int)), log_file : Option(Seq(Int))]
Builder == [poll : Option(0..U64-1), first_poll : Option(0..U64-1),
            gate_time : Option(0..U64-1),
            max_start : Option(Option(0..U32-1)),
            max_lifetime : Option(Option(0..U64-1)),
            monitor : Option(Monitor), one_shot : BOOLEAN,
            ssh_path : Option(Seq(Int)), pid_file : Option(Seq(Int)),
            log_file : Option(Seq(Int))]

ASSUME ConfigurationAssumption ==
    /\ Lines \subseteq Seq(Token)
    /\ Envs \subseteq Env
    /\ Builders \subseteq Builder
    /\ {U16, U32, I64, U64} \subseteq Nat \ {0}
    /\ DefaultPoll \in 0..U64-1
    /\ DefaultGate \in 0..U64-1
    /\ I64 <= U64

VARIABLES
    pc,        \* resolve, strict, clap, settle, build, run or exit
    argv,      \* the command line
    called,    \* whether RUSTY_AUTOSSH_STRICT or argv[0] asks for Strict mode
    mode,      \* CompatibilityMode
    i,         \* the token a scanner stands at
    rest,      \* where the arguments for ssh begin, 0 as long as they have not
    opts,      \* per option, what it was given
    ssh_args,  \* the arguments passed to ssh
    env,       \* the environment, once it has been read
    told,      \* what the builder was told
    settings,  \* the settings run() starts with, once there are some
    exit       \* the exit code of a process that does not get there

vars == <<pc, argv, called, mode, i, rest, opts, ssh_args, env, told, settings, exit>>
input == <<argv, called>>
scanner == <<i, rest, opts, ssh_args>>
output == <<env, told, settings>>

Init ==
    /\ pc \in {"resolve", "build"}
    /\ argv \in IF pc = "build" THEN {<<>>} ELSE Lines
    /\ called \in IF pc = "build" THEN {FALSE} ELSE BOOLEAN
    /\ mode = "Default"
    /\ i = 1 /\ rest = 0
    /\ opts = [n \in Names |-> {}]
    /\ ssh_args = <<>>
    /\ env = {} /\ told = {} /\ settings = {}
    /\ exit = -1

Exit(code) ==
    /\ pc' = "exit"
    /\ exit' = code
    /\ UNCHANGED <<input, mode, scanner, output>>

-----------------------------------------------------------------------------
(* mode::resolve *)

\* The tokens that the scan for --strict and --no-strict looks at: all of them.
Toggle(k) == argv[k].form = "long" /\ argv[k].name \in Toggles /\ argv[k].val = <<>>
ToggleAt == {k \in DOMAIN argv : Toggle(k)}

\* The last one wins.
Decides(k) == \A j \in ToggleAt : j <= k

AskedStrict ==
    IF ToggleAt = {} THEN called
    ELSE \E k \in ToggleAt : Decides(k) /\ argv[k].name = "strict"

Resolve ==
    /\ pc = "resolve"
    /\ mode' = IF AskedStrict THEN "Strict" ELSE "Default"
    /\ pc' = IF AskedStrict THEN "strict" ELSE "clap"
    /\ UNCHANGED <<input, scanner, output, exit>>

-----------------------------------------------------------------------------
(* Scanning, in either mode *)

tok == argv[i]
Left == i <= Len(argv)

\* The numbers a token stands for as a value: -1 is a number too.
Text(t) ==
    IF t.form = "short" /\ t.name = "one_shot" THEN <<-1>>
    ELSE IF t.form = "word" THEN t.val ELSE <<>>
Glued == tok.val # <<>>
HasValue == Glued \/ i < Len(argv)
Value == IF Glued THEN tok.val ELSE Text(argv[i + 1])
Width == IF Glued THEN 1 ELSE 2

\* How far a value moves the scan; and the mistake of scanning it again.
NoSkip == 1
Skip == Width

Given(names, v) == opts' = [n \in Names |-> IF n \in names THEN {v} ELSE opts[n]]

Own(names, v, width) ==
    /\ Given(names, v)
    /\ i' = i + width
    /\ UNCHANGED <<pc, input, mode, rest, ssh_args, output, exit>>

-----------------------------------------------------------------------------
(* strict::parse_argv: one action per branch of its loop *)

Parsing == pc = "strict" /\ Left

\* Options are read before the arguments for ssh begin; and the mistake of
\* reading them anywhere.
Anywhere == Parsing /\ tok.form # "raw"
Reading == Parsing /\ rest = 0 /\ tok.form # "raw"

\* One more token for ssh, and whether all that follow are for it too.
Push(from) ==
    /\ ssh_args' = Append(ssh_args, tok)
    /\ i' = i + 1
    /\ rest' = from
    /\ UNCHANGED <<pc, input, mode, opts, output, exit>>

Passthrough == Parsing /\ rest # 0 /\ Push(rest)
NotUtf8 == Parsing /\ rest = 0 /\ tok.form = "raw" /\ Push(rest)
BareDash == Reading /\ tok.form = "dash" /\ Push(rest)
Positional == Reading /\ tok.form = "word" /\ Push(i)

Separator ==
    /\ Reading
    /\ tok.form = "separator"
    /\ rest' = i + 1
    /\ i' = i + 1
    /\ UNCHANGED <<pc, input, mode, opts, ssh_args, output, exit>>

\* --strict and --no-strict were mode::resolve's; and the mistake of not stepping
\* over them.
Stuck == Reading /\ tok.form = "long" /\ tok.name \in Toggles /\ UNCHANGED vars
NoOp ==
    /\ Reading
    /\ tok.form = "long" /\ tok.name \in Toggles
    /\ i' = i + 1
    /\ UNCHANGED <<pc, input, mode, rest, opts, ssh_args, output, exit>>

\* What follows the first letter is looked at for -M only.
LetterFlag ==
    /\ Reading
    /\ tok.form \in {"short", "cluster"}
    /\ tok.name \in Letters \ {"monitor"}
    /\ Own({tok.name}, <<>>, 1)

MonitorFlag ==
    /\ Reading
    /\ tok.form \in {"short", "glued"} /\ tok.name = "monitor"
    /\ HasValue
    /\ Own({"monitor"}, Value, Skip)

Unknown(t) ==
    \/ t.form = "long" /\ t.name \notin Toggles
    \/ t.form = "short" /\ t.name \notin Letters
    \/ t.form = "short" /\ t.name = "monitor" /\ ~HasValue
    \/ t.form = "completions"

Rejected == Reading /\ Unknown(tok) /\ Exit(1)

-----------------------------------------------------------------------------
(* Cli: what clap makes of the declared options *)

\* A token with a letter of no option is for ssh whole, because its positional
\* arguments may begin with a hyphen: so is the glued -M2.  (-M1, all of whose letters
\* are options, is read as -M with a value; the tokens here do not include it.)
Known(t) ==
    \/ t.form = "short" /\ t.name \in Letters
    \/ t.form = "cluster"
    \/ t.form = "long" /\ t.name \in Names /\ (t.val = <<>> \/ t.name \in TakesValue)

\* A value for an option that takes none.
Overfull(t) == t.form = "long" /\ t.name \in Names \ TakesValue /\ t.val # <<>>

\* The options of a token: -f1 is -f and -1.
Naming(t) == IF t.form = "cluster" THEN {"background", "one_shot"} ELSE {t.name}

Number(v) == IF Len(v) = 1 THEN {v[1]} ELSE {}
AsU64(opt) == {n \in opt : n \in 0..U64-1}
AsI64(opt) == {n \in opt : n \in -I64..I64-1}

\* Paths need not be UTF-8.
Acceptable ==
    /\ HasValue
    /\ tok.name = "max_start" => AsI64(Number(Value)) # {}
    /\ tok.name \in ClockNames \ {"max_start"} => AsU64(Number(Value)) # {}
    /\ tok.name \in {"monitor", "log_level"} => Glued \/ argv[i + 1].form # "raw"

Clapping == pc = "clap" /\ Left

Repeated(t) == \E n \in Naming(t) : opts[n] # {}

ClapFlag ==
    /\ Clapping
    /\ Known(tok) /\ ~Repeated(tok)
    /\ tok.name \notin TakesValue \union {"version"}
    /\ Own(Naming(tok), <<>>, 1)

ClapOption ==
    /\ Clapping
    /\ Known(tok) /\ ~Repeated(tok)
    /\ tok.name \in TakesValue
    /\ Acceptable
    /\ Own({tok.name}, Value, Skip)

\* The first token that is no option of Cli, or the separator, begins ssh_args.
ClapStops ==
    /\ Clapping
    /\ ~Known(tok) /\ ~Overfull(tok) /\ tok.form # "completions"
    /\ rest' = IF tok.form = "separator" THEN i + 1 ELSE i
    /\ \A k \in rest'..Len(argv) : argv[k].form # "raw"
    /\ ssh_args' = SubSeq(argv, rest', Len(argv))
    /\ i' = Len(argv) + 1
    /\ UNCHANGED <<pc, input, mode, opts, output, exit>>

\* conflicts_with is checked when all is read.
Conflict == opts["strict"] # {} /\ opts["no_strict"] # {}

ClapRefuses ==
    /\ \/ Clapping /\ Known(tok) /\ Repeated(tok)
       \/ Clapping /\ Known(tok) /\ tok.name \in TakesValue /\ ~Acceptable
       \/ Clapping /\ Overfull(tok)
       \/ Clapping /\ ~Known(tok) /\ \E k \in i..Len(argv) : argv[k].form = "raw"
       \/ pc = "clap" /\ ~Left /\ Conflict
    /\ Exit(2)

ClapVersion == Clapping /\ Known(tok) /\ tok.name = "version" /\ Exit(0)

\* completions <shell>: emit_completions, or an error for a shell it lacks.
Completions ==
    /\ Clapping
    /\ tok.form = "completions"
    /\ \E code \in {0, 2} : Exit(code)

Scanned ==
    /\ pc \in {"strict", "clap"}
    /\ ~Left
    /\ pc = "clap" => ~Conflict
    /\ pc' = "settle"
    /\ UNCHANGED <<input, mode, scanner, output, exit>>

-----------------------------------------------------------------------------
(* parse_monitor_value *)

ValidMonitor(v) == Len(v) \in {1, 2} /\ \A k \in DOMAIN v : v[k] \in 0..U16-1

MonitorMode(v) ==
    IF v[1] = 0 THEN {}
    ELSE {[port |-> v[1], echo |-> IF Len(v) = 2 THEN {v[2]} ELSE {}]}

-----------------------------------------------------------------------------
(* PollClock, and the builder *)

\* `as u32` keeps the low bits; and the mistake of an integer without a width.
Wide(n) == n
Wrapped(n) == n % U32

\* -1, or any negative number, is unlimited; and the mistake of casting it too.
Cast(n) == {Wrapped(n)}
Cap(n) == IF n < 0 THEN {} ELSE {Wrapped(n)}
Span(n) == IF n = 0 THEN {} ELSE {n}

Mapped(f(_), opt) == {f(n) : n \in opt}

\* resolve_from_env
FromEnv(e) ==
    LET poll == Or(AsU64(e.poll), DefaultPoll) IN
    [poll |-> poll,
     first_poll |-> Or(AsU64(e.first_poll), poll),
     gate_time |-> Or(AsU64(e.gate_time), DefaultGate),
     max_start |-> UNION Mapped(Cap, AsI64(e.max_start)),
     max_lifetime |-> UNION Mapped(Span, AsU64(e.max_lifetime))]

\* ClockFlags of the command line
Flag(name) == UNION {Number(v) : v \in opts[name]}

\* -f forces a gate time of 0.
Gate(flag, default) == IF opts["background"] # {} THEN 0 ELSE Or(flag, default)

\* resolve_from_env_and_flags
FromEnvAndFlags(e) ==
    LET clock == FromEnv(e) IN
    [poll |-> Or(Flag("poll"), clock.poll),
     first_poll |-> Or(Flag("first_poll"), clock.first_poll),
     gate_time |-> Gate(Flag("gate_time"), clock.gate_time),
     max_start |-> Or(Mapped(Cap, Flag("max_start")), clock.max_start),
     max_lifetime |-> Or(Mapped(Span, Flag("max_lifetime")), clock.max_lifetime)]

Path(flag, var) == IF flag = {} THEN var ELSE flag

\* What run_default and run_strict tell the builder.
Told(e) ==
    LET clock == FromEnvAndFlags(e) IN
    [poll |-> {clock.poll}, first_poll |-> {clock.first_poll},
     gate_time |-> {clock.gate_time},
     max_start |-> {clock.max_start}, max_lifetime |-> {clock.max_lifetime},
     monitor |-> UNION {MonitorMode(v) : v \in opts["monitor"]},
     one_shot |-> opts["one_shot"] # {},
     ssh_path |-> opts["ssh_path"],
     pid_file |-> Path(opts["pid_file"], e.pid_file),
     log_file |-> Path(opts["log_file"], e.log_file)]

\* The first poll a builder was not told; and the mistake of the default.
DefaultFirst(poll) == DefaultPoll
FirstPoll(poll) == poll

\* build(), and the clock that run() makes of it.
Build(b) ==
    LET poll == Or(b.poll, DefaultPoll) IN
    [clock |-> [poll |-> poll,
                first_poll |-> Or(b.first_poll, FirstPoll(poll)),
                gate_time |-> Or(b.gate_time, DefaultGate),
                max_start |-> Or(b.max_start, {}),
                max_lifetime |-> Or(b.max_lifetime, {})],
     monitor |-> b.monitor, one_shot |-> b.one_shot,
     ssh_path |-> b.ssh_path, pid_file |-> b.pid_file, log_file |-> b.log_file]

Settings == [clock : Clock, monitor : Option(Monitor), one_shot : BOOLEAN,
             ssh_path : Option(Seq(Int)), pid_file : Option(Seq(Int)),
             log_file : Option(Seq(Int))]

BadMonitor == \E v \in opts["monitor"] : ~ValidMonitor(v)

\* run_strict has -V to look at still; clap has dealt with it.
PrintVersion == pc = "settle" /\ opts["version"] # {} /\ Exit(0)

RefuseMonitor ==
    /\ pc = "settle"
    /\ opts["version"] = {}
    /\ BadMonitor
    /\ Exit(IF mode = "Strict" THEN 1 ELSE 2)

Settle ==
    /\ pc = "settle"
    /\ opts["version"] = {}
    /\ ~BadMonitor
    /\ \E e \in Envs :
           /\ env' = {e}
           /\ told' = {Told(e)}
           /\ settings' = {Build(Told(e))}
    /\ pc' = "run"
    /\ UNCHANGED <<input, mode, scanner, exit>>

\* A library caller.
BuildOwn ==
    /\ pc = "build"
    /\ \E b \in Builders : told' = {b} /\ settings' = {Build(b)}
    /\ pc' = "run"
    /\ UNCHANGED <<input, mode, scanner, env, exit>>

Finished == pc \in {"run", "exit"} /\ UNCHANGED vars

-----------------------------------------------------------------------------
Strict ==
    \/ Passthrough \/ NotUtf8 \/ BareDash \/ Positional \/ Separator
    \/ NoOp \/ LetterFlag \/ MonitorFlag \/ Rejected

Clap ==
    \/ ClapFlag \/ ClapOption \/ ClapStops \/ ClapRefuses \/ ClapVersion
    \/ Completions

Step ==
    \/ Resolve \/ Strict \/ Clap \/ Scanned
    \/ PrintVersion \/ RefuseMonitor \/ Settle \/ BuildOwn

Next == Step \/ Finished

Spec == Init /\ [][Next]_vars

\* The process runs on.
FairSpec == Spec /\ WF_vars(Step)

TypeOK ==
    /\ pc \in {"resolve", "strict", "clap", "settle", "build", "run", "exit"}
    /\ argv \in Seq(Token)
    /\ called \in BOOLEAN
    /\ mode \in {"Default", "Strict"}
    /\ i \in 1..Len(argv) + 1
    /\ rest \in 0..Len(argv) + 1
    /\ opts \in [Names -> Option(Seq(Int))]
    /\ ssh_args \in Seq(Token)
    /\ env \in Option(Env)
    /\ told \in Option(Builder)
    /\ settings \in Option(Settings)
    /\ exit \in {-1, 0, 1, 2}

-----------------------------------------------------------------------------
(* Properties *)

\* cli::split_autossh_args, which no scanner calls: it takes options it knows from
\* the left, and stops at the first token that is none.
SplitKnown(t) ==
    \/ t.form \in {"short", "long"} /\ Known(t)
    \/ t.form = "glued"

\* The token it looks at after the one at k, which is k where it stops.
SplitNext(line, k) ==
    IF k > Len(line) \/ ~SplitKnown(line[k]) THEN k
    ELSE IF line[k].name \in TakesValue /\ line[k].val = <<>> /\ k < Len(line) THEN k + 2
    ELSE k + 1

\* Where it stops, from every token on.
SplitStop(line) ==
    LET stop[k \in 1..Len(line) + 1] ==
            IF SplitNext(line, k) = k THEN k ELSE stop[SplitNext(line, k)]
    IN stop

SplitAt == SplitStop(argv)[1]

SplitFrom ==
    IF SplitAt <= Len(argv) /\ argv[SplitAt].form = "separator" THEN SplitAt + 1 ELSE SplitAt

SplitSsh == SubSeq(argv, SplitFrom, Len(argv))

\* Tokens that the scanners are known to see differently.
Odd(t) == t.form \in {"dash", "raw", "cluster", "glued"} \/ Overfull(t)

OddBefore == \E k \in DOMAIN argv : k <= SplitAt /\ Odd(argv[k])

\* The two scanners and the helper agree on what is for ssh whenever they
\* accept a line: choosing the other mode, or splitting before parsing, moves
\* nothing across the boundary unless an odd token stands before it or on it.
ScannersAgree ==
    (pc \in {"settle", "run"} /\ argv # <<>>)
      => ssh_args = SplitSsh \/ OddBefore

\* From where the arguments for ssh begin, each is passed on as it is and in its
\* place, and none of them sets an option of the wrapper.
Divided ==
    /\ rest # 0 =>
          /\ Len(ssh_args) >= i - rest
          /\ \A k \in rest..i - 1 : ssh_args[Len(ssh_args) - i + 1 + k] = argv[k]
    /\ \A n \in Names : opts[n] # {} =>
          \E k \in 1..i - 1 : n \in Naming(argv[k]) /\ (rest # 0 => k < rest)

OwnFirstPoll ==
    IF mode = "Strict" THEN \E e \in env : AsU64(e.first_poll) # {}
    ELSE \E b \in told : b.first_poll # {}

\* The first poll is the poll interval unless it is set by itself: for those who
\* cannot say --poll, Strict mode and a library.
FirstPollFollows ==
    \A s \in settings :
        (mode = "Strict" \/ env = {}) /\ ~OwnFirstPoll
          => s.clock.first_poll = s.clock.poll

\* A cap that is asked for is never exceeded, and is what was asked if it fits.
CapKept ==
    \A s \in settings : \A e \in env :
        LET asked == IF opts["max_start"] = {} THEN AsI64(e.max_start) ELSE Flag("max_start")
        IN \A n \in asked :
               /\ n < 0 => s.clock.max_start = {}
               /\ n >= 0 => \E cap \in s.clock.max_start : cap <= n /\ (n < U32 => cap = n)

\* Every line is dealt with.
Settled == <>(pc \in {"run", "exit"})

=============================================================================
