------------------------------ MODULE FtpPath ------------------------------
(* The path texts of src/src/ftpsrv.c: what a client types, the working      *)
(* directory it is taken from, and what the file functions are given. A text *)
(* is a sequence of slashes, backslashes and words; a word is whatever is    *)
(* between them, and counts as one character.                                *)
EXTENDS Integers, SequencesExt, FiniteSetsExt

CONSTANTS
    Words,         \* what is between slashes, but for ".."
    DeviceWords,   \* those with a colon, that name a device
    HasDevices,    \* g_ftp.cfg.devices and devices_count are set
    MaxPath        \* sizeof(struct Pathname) - 1

ASSUME PathAssumption ==
    /\ DeviceWords \subseteq Words
    /\ Words \cap {"/", "\\", ".."} = {}
    /\ HasDevices \in BOOLEAN
    /\ MaxPath \in Nat \ {0}

Tokens == Words \cup {"/", "\\", ".."}

Root == <<"/">>

(* What "%4095[^\r\n]" reads: some text, in which words do not touch.        *)
Typed(n) ==
    {p \in UNION {[1..k -> Tokens] : k \in 1..n} :
        \A i \in 1..(Len(p) - 1) : p[i] \in {"/", "\\"} \/ p[i + 1] \in {"/", "\\"}}

(* Mistake: only duplicate slashes are removed.                              *)
RemoveDuplicates(p) ==
    FoldLeft(LAMBDA r, t : IF t = "/" /\ r # <<>> /\ Last(r) = "/" THEN r ELSE Append(r, t),
             <<>>, [i \in DOMAIN p |-> IF p[i] = "\\" THEN "/" ELSE p[i]])

RemoveSlashes(p) ==
    LET r == RemoveDuplicates(p)
    IN  IF Len(r) > 1 /\ Last(r) = "/" THEN Front(r) ELSE r

(* The text up to its last slash.                                            *)
Parent(pwd) ==
    LET slashes == {i \in DOMAIN pwd : pwd[i] = "/"}
    IN  IF slashes \subseteq {1} THEN Root ELSE SubSeq(pwd, 1, Max(slashes) - 1)

(* Mistake: a slash is put before every name.                                *)
JoinedWithSlash(pwd, p) == pwd \o <<"/">> \o p

Joined(pwd, p) == IF Last(pwd) = "/" THEN pwd \o p ELSE pwd \o <<"/">> \o p

(* build_fullpath, before its result is cut to the size of a Pathname.       *)
BuildFullpath(pwd, typed) ==
    LET p == RemoveSlashes(typed)
    IN  IF Head(p) = "/" THEN p
        ELSE IF p = <<"..">> THEN Parent(pwd)
        ELSE Joined(pwd, p)

Fits(p) == Len(p) <= MaxPath

(* Mistake: a path that is too long is copied all the same.                  *)
Uncut(p) == p

Cut(p) == IF Fits(p) THEN p ELSE SubSeq(p, 1, MaxPath)

FixPathForDevice(p) ==
    IF HasDevices /\ Head(p) = "/" /\ \E i \in DOMAIN p : p[i] \in DeviceWords
    THEN Tail(p) ELSE p

(* The words of a text.                                                      *)
Names(p) ==
    FoldLeft(LAMBDA r, t : IF t \in {"/", "\\"} THEN r ELSE Append(r, t), <<>>, p)

(* A working directory: absolute, one slash between names, none at the end.  *)
Clean(p) ==
    /\ p # <<>> /\ Head(p) = "/"
    /\ \A i \in DOMAIN p : p[i] # "\\"
    /\ \A i \in 1..(Len(p) - 1) : p[i] = "/" <=> p[i + 1] # "/"
    /\ Len(p) > 1 => Last(p) # "/"
    /\ Fits(p)
=============================================================================
