----------------------------- MODULE CommandLine -----------------------------
(***************************************************************************)
(* How tgju watch comes by its settings: cmd/tgju/flags.go, the arguments  *)
(* of watch in commands.go, the options of options.go and the exit codes   *)
(* of main.go.  A flag is read from the left, a later one wins, and its    *)
(* default is the environment's value where that is well formed.           *)
(*                                                                         *)
(* An argument is a record [kind, name, value]; words are counted.  Flags  *)
(* that only say where to read and what to log are left out.               *)
(***************************************************************************)
EXTENDS Integers, Sequences

CONSTANTS
    CommandLines,     \* what may be typed: [args, env]
    DefaultInterval,  \* one minute
    DefaultCacheTTL,  \* DefaultCacheTTL of options.go
    MinInterval,      \* time.Second
    Unset, Empty, Malformed  \* of a variable or a flag without a value

Names == {"interval", "cache-ttl", "unit", "all"}
Units == {"rial", "toman", "raw"}

Arg(kind, name, value) == [kind |-> kind, name |-> name, value |-> value]
Word == Arg("word", "interval", Unset)
Help == Arg("help", "interval", Unset)
Unknown == Arg("unknown", "interval", Unset)

\* What may be written for a flag; Malformed is what cannot be read, or is no unit.
Arguments ==
    {Word, Help, Unknown} \cup
    [kind: {"flag"}, name: {"interval", "cache-ttl"}, value: Int \cup {Malformed}] \cup
    [kind: {"flag"}, name: {"unit"}, value: Units \cup {Malformed}] \cup
    [kind: {"flag"}, name: {"all"}, value: BOOLEAN \cup {Malformed}]

ASSUME SettingsAssumption ==
    /\ DefaultInterval \in Nat
    /\ DefaultCacheTTL \in Nat
    /\ MinInterval \in Nat \ {0, 1}
    /\ {Unset, Empty, Malformed} \cap (Int \cup Units \cup BOOLEAN) = {}
    /\ Unset # Malformed
    /\ \A line \in CommandLines :
         /\ line = [args |-> line.args, env |-> line.env]
         /\ line.args \in Seq(Arguments)
         /\ DOMAIN line.env = Names
         /\ \A n \in {"interval", "cache-ttl"} :
              line.env[n] \in {Unset, Empty, Malformed} \cup Int
         /\ line.env["unit"] \in {Unset, Empty, Malformed} \cup Units

VARIABLES
    pc,      \* "parsing", "polling", "pausing", "exited"
    asked,   \* what was typed; forgotten once the loop runs
    todo,    \* the arguments not read yet
    flags,   \* the values of the flags so far
    words,   \* how many arguments were not flags
    client,  \* what tgju.New made of the options: [cacheTTL]
    exit     \* the exit code, or -1

settings == <<asked, todo, flags, words, client>>

----------------------------------------------------------------------------
\* envDuration: a value that does not parse counts as none; envString takes any.
Set(value) == value \notin {Unset, Empty}
EnvDuration(env, name, fallback) ==
    IF Set(env[name]) /\ env[name] # Malformed THEN env[name] ELSE fallback
EnvString(env, name, fallback) == IF Set(env[name]) THEN env[name] ELSE fallback

\* The flags as watch registers them; --all has no variable.
Registered(env) ==
    [n \in Names |->
       CASE n = "interval" -> EnvDuration(env, n, DefaultInterval)
         [] n = "cache-ttl" -> EnvDuration(env, n, DefaultCacheTTL)
         [] n = "unit" -> EnvString(env, n, "raw")
         [] n = "all" -> FALSE]

\* The options of a client, each applied to what the ones before it made.
NewConfig == [cacheTTL |-> DefaultCacheTTL]
WithCacheTTL(cfg, d) == [cacheTTL |-> IF d < 0 THEN 0 ELSE d]
ExtraFirst(f) ==  \* mutant: the shared flag is applied after the pinned one
    WithCacheTTL(WithCacheTTL(NewConfig, f["interval"] \div 2), f["cache-ttl"])
Client(f) ==
    WithCacheTTL(WithCacheTTL(NewConfig, f["cache-ttl"]), f["interval"] \div 2)

CommandInit ==
    /\ pc = "parsing" /\ exit = -1
    /\ asked \in CommandLines
    /\ todo = asked.args
    /\ flags = Registered(asked.env)
    /\ words = 0
    /\ client = NewConfig

Exits(code) == pc' = "exited" /\ exit' = code

\* The flag package refuses a flag it does not know and a value it cannot read;
\* any text is a string.
Refuses(arg) ==
    \/ arg.kind = "unknown"
    \/ arg.kind = "flag" /\ arg.value = Malformed /\ arg.name # "unit"

FirstWins(arg) ==  \* mutant: a flag that was already given is kept
    IF flags[arg.name] # Registered(asked.env)[arg.name] THEN flags
    ELSE [flags EXCEPT ![arg.name] = arg.value]
Given(arg) == [flags EXCEPT ![arg.name] = arg.value]

\* parse reads one argument; --help is asked for and a success.
ReadArg ==
    /\ pc = "parsing" /\ todo # <<>>
    /\ todo' = Tail(todo)
    /\ LET arg == Head(todo) IN
         /\ flags' = IF arg.kind = "flag" /\ ~Refuses(arg) THEN Given(arg) ELSE flags
         /\ words' = IF arg.kind = "word" THEN words + 1 ELSE words
         /\ IF Refuses(arg) THEN Exits(2)
            ELSE IF arg.kind = "help" THEN Exits(0)
            ELSE UNCHANGED <<pc, exit>>
    /\ UNCHANGED <<asked, client>>

\* What watch asks of its arguments.
Acceptable ==
    /\ words = 1
    /\ flags["unit"] \in Units
    /\ flags["interval"] >= MinInterval

Refuse ==
    /\ pc = "parsing" /\ todo = <<>>
    /\ ~Acceptable
    /\ Exits(2)
    /\ UNCHANGED settings

\* The loop may start, with a client of its own.  What it does not read again is
\* forgotten here.
Forgotten == [args |-> <<>>, env |-> [n \in Names |-> Unset]]
Accept ==
    /\ pc = "parsing" /\ todo = <<>>
    /\ Acceptable
    /\ client' = Client(flags)
    /\ pc' = "polling"
    /\ asked' = Forgotten
    /\ flags' = [flags EXCEPT !["cache-ttl"] = Unset, !["unit"] = Unset]
    /\ UNCHANGED <<todo, words, exit>>

----------------------------------------------------------------------------
(* What the command line promises. *)

\* The value a flag must have: the last one typed, or else the environment's,
\* or else the default.
Typed(name) ==
    {i \in DOMAIN asked.args : asked.args[i].kind = "flag" /\ asked.args[i].name = name}
Wanted(name) ==
    IF Typed(name) = {} THEN Registered(asked.env)[name]
    ELSE asked.args[CHOOSE i \in Typed(name) : \A j \in Typed(name) : j <= i].value

Stops == {i \in DOMAIN asked.args : asked.args[i].kind = "help" \/ Refuses(asked.args[i])}
FirstStop == asked.args[CHOOSE i \in Stops : \A j \in Stops : i <= j]

\* main.go:13: "The flag wins when both are set", in whatever order flags and
\* words are typed; a command line with a mistake is refused with 2 before
\* anything is fetched; and the cache of the loop never lasts longer than half
\* an interval, whatever --cache-ttl and its variable say.
SettingsHonoured ==
    [][pc = "parsing" /\ pc' # "parsing" =>
         IF Stops # {}
         THEN pc' = "exited" /\ exit' = IF FirstStop.kind = "help" THEN 0 ELSE 2
         ELSE LET fine == /\ \E one \in DOMAIN asked.args :
                              \A i \in DOMAIN asked.args :
                                asked.args[i].kind = "word" <=> i = one
                          /\ Wanted("unit") \in Units
                          /\ Wanted("interval") >= MinInterval
              IN IF fine
                 THEN /\ pc' = "polling"
                      /\ \A n \in {"interval", "all"} : flags'[n] = Wanted(n)
                      /\ 2 * client'.cacheTTL \in (flags'["interval"] - 1)..flags'["interval"]
                 ELSE pc' = "exited" /\ exit' = 2]_<<pc, settings, exit>>
=============================================================================
