------------------------------ MODULE MCStartup ------------------------------
(* Instances of Startup for TLC.                                             *)
EXTENDS Startup

(* Ports are 1 to 3 here, and an unsigned holds 0 to 7.                      *)
SomeTexts == {"", "0", "1", "4", "ann"}
SomeInts  == [t \in {"0", "1", "4"} |-> CASE t = "0" -> 0 [] t = "1" -> 1 [] t = "4" -> 4]

(* Keys of one kind that are read alike are left out of the longest lines.   *)
LongLines == [1..3 -> {a \in Arguments : a.key \notin {"version", "pass"}}]

ShortLines == {<<>>} \cup [1..1 -> Arguments] \cup [1..2 -> Arguments]

SomeLines == ShortLines \cup LongLines

TooLong == {"longer"}

Ini(p, u, w, a, m, c) ==
    [port |-> p, user |-> u, pass |-> w, anon |-> a, mount |-> m, cheats |-> c]

(* Every login and port, without mounts, and every mount.                    *)
SomeInis ==
    {Ini(p, u, w, a, FALSE, "") : p \in {0, 1, 4}, u, w \in {"", "ann"}, a \in BOOLEAN}
    \cup {Ini(1, "", "", a, TRUE, c) : a \in BOOLEAN,
                                      c \in {"", "game", "sdmc", "switch", "save1", "longer"}}

AllPrograms == {"linux", "app", "sysmod", "console"}
=============================================================================
