-------------------------------- MODULE Args --------------------------------
(* The option parser, src/src/args/args.c, with the options of the Linux     *)
(* program, src/src/platform/unistd/main.c. An argument is a key, with or    *)
(* without a value behind a "=", the "--" that ends the options, or a text,  *)
(* which is anything else: a lone "-" is one, and so is "-abc".              *)
EXTENDS Integers, FiniteSetsExt, Sequences

CONSTANTS
    Texts,      \* what can be a value, or an argument that is no key
    IntOf,      \* the numbers among them, and which number each is
    WordSize    \* 2^32: what an unsigned can hold

ASSUME TextsAssumption ==
    /\ "" \in Texts
    /\ DOMAIN IntOf \subseteq Texts /\ IntOf \in [DOMAIN IntOf -> Int]
    /\ WordSize \in Nat \ {0}

Option(k, type) == [key |-> k, type |-> type]

ARGS_META ==
    {Option("help", "NONE"), Option("version", "NONE"), Option("port", "INT"),
     Option("user", "STR"), Option("pass", "STR"), Option("anon", "BOOL")}

KnownKeys == {o.key : o \in ARGS_META}

NoValue == "(none)"

Key(k, v) == [kind |-> "key", key |-> k, value |-> v]
Text(t)   == [kind |-> "text", key |-> NoValue, value |-> t]
End       == [kind |-> "end", key |-> NoValue, value |-> NoValue]

Arguments ==
    {Key(k, v) : k \in KnownKeys \cup {"other"}, v \in Texts \cup {NoValue}}
    \cup {Text(t) : t \in Texts} \cup {End}

IsKey(a) == a.kind # "text"

-----------------------------------------------------------------------------
TypeOf(k) == (CHOOSE o \in ARGS_META : o.key = k).type

(* get_value_int and get_value_bool; any text is a string.                   *)
Converts(type, v) ==
    CASE type = "INT"  -> v \in DOMAIN IntOf
      [] type = "BOOL" -> v \in {"1", "0", "true", "false"}
      [] OTHER         -> TRUE

(* Mistake: whatever comes next is the value.                                *)
TakesAny(argv, i) == argv[i].value = NoValue /\ i < Len(argv)

(* The next argument is the value of a key that has none with it, unless it  *)
(* is a key.                                                                 *)
TakesNext(argv, i) ==
    argv[i].value = NoValue /\ i < Len(argv) /\ ~IsKey(argv[i + 1])

ValueAt(argv, i) ==
    IF TakesNext(argv, i) THEN argv[i + 1].value ELSE argv[i].value

NextIndex(argv, i) == IF TakesNext(argv, i) THEN i + 2 ELSE i + 1

(* What args_parse returns at index i.                                       *)
ArgsResult(argv, i) ==
    CASE i > Len(argv) \/ (i <= Len(argv) /\ argv[i].kind = "end") -> "DONE"
      [] i <= Len(argv) /\ ~IsKey(argv[i]) ->
            IF i = Len(argv) THEN "EXTRA_ARGS" ELSE "ERROR"
      [] OTHER ->
            LET k == argv[i].key
                v == ValueAt(argv, i)
            IN  IF k \notin KnownKeys THEN "UNKNOWN_KEY"
                ELSE IF TypeOf(k) = "NONE" THEN "OK"
                ELSE IF v = NoValue THEN "MISSING_VALUE"
                ELSE IF Converts(TypeOf(k), v) THEN "OK" ELSE "BAD_VALUE"

-----------------------------------------------------------------------------
(* A configuration of the server, as far as options set it.                  *)
NoConfig == [port |-> 0, user |-> "", pass |-> "", anon |-> FALSE]

(* main() of unistd: port is an unsigned, and anon is set whatever its value.*)
Configure(c, k, v) ==
    CASE k = "port" -> [c EXCEPT !.port = IntOf[v] % WordSize]
      [] k = "user" -> [c EXCEPT !.user = v]
      [] k = "pass" -> [c EXCEPT !.pass = v]
      [] k = "anon" -> [c EXCEPT !.anon = TRUE]

-----------------------------------------------------------------------------
(* What a command line means to who typed it: up to the first "--", each key *)
(* is an option, the last one of a name counts, and its value is with it or  *)
(* is the text that follows.                                                 *)
Stop(argv) == Min({i \in DOMAIN argv : argv[i].kind = "end"} \cup {Len(argv) + 1})

OptionsOf(argv, k) == {i \in 1..(Stop(argv) - 1) : argv[i].kind = "key" /\ argv[i].key = k}

ValueMeant(argv, i) ==
    IF argv[i].value # NoValue THEN argv[i].value ELSE argv[i + 1].value

LastMeant(argv, k, default) ==
    IF OptionsOf(argv, k) = {} THEN default
    ELSE ValueMeant(argv, Max(OptionsOf(argv, k)))

ConfigMeant(argv) ==
    LET p == LastMeant(argv, "port", NoValue)
    IN  [port |-> IF p = NoValue THEN 0 ELSE IntOf[p] % WordSize,
         user |-> LastMeant(argv, "user", ""),
         pass |-> LastMeant(argv, "pass", ""),
         anon |-> OptionsOf(argv, "anon") # {}]

(* It means something: every option is known and has a value that converts,  *)
(* and a text follows an option that has none with it, or is the last.       *)
Meaningful(argv) ==
    \A i \in 1..(Stop(argv) - 1) :
        IF IsKey(argv[i])
        THEN /\ argv[i].key \in KnownKeys
             /\ TypeOf(argv[i].key) # "NONE" =>
                    /\ argv[i].value # NoValue \/ (i < Len(argv) /\ ~IsKey(argv[i + 1]))
                    /\ Converts(TypeOf(argv[i].key), ValueMeant(argv, i))
        ELSE \/ i = Len(argv)
             \/ i > 1 /\ argv[i - 1].kind = "key" /\ argv[i - 1].value = NoValue
=============================================================================
