--------------------------- MODULE MCConfiguration ---------------------------
(* An instance of the configuration small enough for TLC. *)
EXTENDS Configuration

Tok(form, name, val) == [form |-> form, name |-> name, val |-> val]
Word(val) == Tok("word", "none", val)

\* Tokens that two others may surround.
MCCore ==
    {Tok("short", n, <<>>) : n \in {"monitor", "one_shot", "none"}}
    \union {Tok("long", n, <<>>) : n \in Toggles \union {"poll"}}
    \union {Tok("glued", "monitor", <<2>>), Tok("separator", "none", <<>>)}
    \union {Tok("raw", "none", <<>>), Word(<<>>), Word(<<5>>), Word(<<1, 3>>)}

MCTokens ==
    MCCore
    \union {Tok("short", n, <<>>) : n \in {"background", "version"}}
    \union {Tok("cluster", "background", <<>>), Tok("long", "strict", <<9>>)}
    \union {Tok("long", n, <<>>) : n \in {"max_start", "debug", "none"}}
    \union {Tok("long", "poll", <<2>>), Tok("long", "log_level", <<>>)}
    \union {Tok("dash", "none", <<>>), Tok("completions", "none", <<>>), Word(<<0>>)}

\* Every line of up to three tokens, or two, and some longer ones.
MCLines ==
    UNION {[1..n -> MCTokens] : n \in 0..2} \union [1..3 -> MCCore]
    \union {<<Tok("glued", "monitor", <<2>>), t, Word(<<>>)>> : t \in MCTokens}
    \union {<<Tok("long", "monitor", <<2>>), Tok("short", "one_shot", <<>>), t, u,
             Word(<<>>)>> :
                t \in {Tok("long", "gate_time", <<1>>), Tok("short", "background", <<>>)},
                u \in {Tok("separator", "none", <<>>), Tok("long", "max_lifetime", <<0>>),
                       Tok("long", "pid_file", <<7>>), Tok("long", "max_start", <<6>>)}}

Unset == [poll |-> {}, first_poll |-> {}, gate_time |-> {}, max_start |-> {},
          max_lifetime |-> {}, pid_file |-> {}, log_file |-> {}]

\* 99 is no number of any width.
MCEnvs ==
    {[Unset EXCEPT !.poll = p, !.first_poll = f] : p, f \in {{}, {2}, {99}}}
    \union {[Unset EXCEPT !.max_start = m] : m \in {{-1}, {3}, {4}, {99}}}
    \union {[Unset EXCEPT !.gate_time = {1}, !.max_lifetime = {0}, !.pid_file = {<<8>>}],
            [Unset EXCEPT !.gate_time = {-1}, !.max_lifetime = {4}, !.log_file = {<<8>>}]}

MCBuilders ==
    [poll : {{}, {2}}, first_poll : {{}, {5}}, gate_time : {{}, {0}},
     max_start : {{}, {{}}, {{3}}}, max_lifetime : {{}, {{4}}},
     monitor : {{}, {[port |-> 0, echo |-> {}]}}, one_shot : BOOLEAN,
     ssh_path : {{}}, pid_file : {{}, {<<8>>}}, log_file : {{}}]

=============================================================================
