------------------------------- MODULE MCWatch -------------------------------
(* Command lines for the instance of Watch: flags and words in any order,     *)
(* repeated flags, variables that are set, empty or malformed, mistakes.      *)
EXTENDS Watch

Flag(name, value) == Arg("flag", name, value)
Env(interval, ttl, unit) ==
    [n \in Names |-> CASE n = "interval" -> interval
                       [] n = "cache-ttl" -> ttl
                       [] n = "unit" -> unit
                       [] n = "all" -> Unset]
Plain == Env(Unset, Unset, Unset)
Typing(args, env) == [args |-> args, env |-> env]

Lines ==
    {Typing(args, Plain) : args \in
        {<<Word>>, <<>>, <<Word, Word>>, <<Word, Help>>, <<Unknown, Help>>, <<Help, Unknown>>,
         <<Word, Flag("all", TRUE)>>, <<Flag("all", Malformed), Word>>,
         <<Flag("cache-ttl", 9), Word>>, <<Word, Flag("cache-ttl", -1)>>,
         <<Flag("interval", 1), Word, Flag("interval", 4)>>,
         <<Flag("interval", 4), Word, Flag("interval", 1)>>,
         <<Word, Flag("interval", Malformed)>>, <<Word, Flag("unit", "toman")>>,
         <<Flag("unit", Malformed), Word>>}}
    \cup {Typing(<<Word>>, env) : env \in
        {Env(1, Unset, Unset), Env(Malformed, 9, Empty), Env(Empty, Unset, "rial"),
         Env(Unset, Malformed, Malformed)}}
    \cup {Typing(<<Word, Flag("interval", 4), Flag("unit", "raw")>>, Env(1, 9, Malformed))}
=============================================================================
