------------------------------- MODULE Startup -------------------------------
(* What the programs do before they serve and after: main() of unistd with   *)
(* its arguments, of the Switch's application and system module with their   *)
(* config.ini and mounts, and of the 3DS, DS and Wii with theirs; then what  *)
(* serving does to the mounted file systems, and how the application leaves. *)
(* The threads and the loop in between are in FtpFrontend.                   *)
EXTENDS Args, FsDevWrap

CONSTANTS
    Programs,     \* "linux", "app", "sysmod" and "console", or some of them
    CommandLines, \* argv of "linux", without the name of the program
    Inis,         \* what config.ini says to the others
    PortSize      \* 2^16: what sin_port can hold

(* A port is stored in an unsigned, which holds the number of any port.      *)
ASSUME PortAssumption == PortSize \in 1..WordSize

ASSUME LinesAssumption == CommandLines \subseteq Seq(Arguments)

(* No device is called like the path that names none.                        *)
ASSUME InisAssumption ==
    \A ini \in Inis : ini.port \in Int /\ ini.anon \in BOOLEAN /\ ini.cheats # NoDevice

VARIABLES
    program,
    given,     \* the command line or the ini file
    index,     \* arg_index
    config,    \* ftpsrv_config
    at,        \* where main() is
    next,      \* the next of the mounts
    writing,   \* file systems with a file open for writing
    dirty,     \* file systems with changes that are not committed
    failed     \* history: those of them whose commit the service failed

vars == <<program, given, index, config, at, next, writing, dirty, failed, mounts>>

conf == <<program, given, index, config>>
changes == <<writing, dirty, failed>>

OnSwitch == program \in {"app", "sysmod"}

Init ==
    /\ program \in Programs
    /\ given \in IF program = "linux" THEN CommandLines ELSE Inis
    /\ index = 1
    /\ config = NoConfig
    /\ at = IF OnSwitch THEN "init" ELSE "config"
    /\ next = 1
    /\ writing = {} /\ dirty = {} /\ failed = {}
    /\ MountsInit

TypeOK ==
    /\ index \in Nat /\ next \in Nat
    /\ config.port \in 0..(WordSize - 1) /\ config.anon \in BOOLEAN
    /\ at \in {"init", "config", "mount", "check", "usage", "failed", "serving", "left", "gone"}
    /\ Len(entries) <= DevicesMax /\ Len(devices) <= DevicesMax
    /\ writing \subseteq open /\ dirty \subseteq open /\ failed \subseteq open

-----------------------------------------------------------------------------
(* userAppInit and __appInit: nothing works without the card.                *)
AppInit ==
    /\ at = "init"
    /\ MountFs("sdmc")
    /\ at' = IF Mountable("sdmc") THEN "config" ELSE "gone"
    /\ UNCHANGED <<conf, next, changes>>

(* Linux: one call of args_parse, and the option it returns.                 *)
Parse(result) ==
    /\ at = "config" /\ program = "linux"
    /\ ArgsResult(given, index) = result
    /\ UNCHANGED <<program, given, next, changes, mounts>>

ParseOption ==
    /\ Parse("OK")
    /\ LET k == given[index].key
       IN  IF k \in {"help", "version"}
           THEN at' = "usage" /\ UNCHANGED <<config, index>>
           ELSE /\ config' = Configure(config, k, ValueAt(given, index))
                /\ index' = NextIndex(given, index)
                /\ UNCHANGED at

ParseEnds ==
    /\ Parse("DONE") \/ Parse("EXTRA_ARGS")
    /\ at' = "check"
    /\ UNCHANGED <<index, config>>

ParseFails ==
    /\ \E r \in {"UNKNOWN_KEY", "BAD_VALUE", "MISSING_VALUE", "ERROR"} : Parse(r)
    /\ at' = "failed"
    /\ UNCHANGED <<index, config>>

(* The 3DS, the DS and the Wii take anyone if no one is named.               *)
TakesAnyone == ~OnSwitch /\ given.user = "" /\ given.pass = ""

(* The others read their configuration at once.                              *)
ReadIni ==
    /\ at = "config" /\ program # "linux"
    /\ config' = [port |-> given.port % WordSize, user |-> given.user, pass |-> given.pass,
                  anon |-> given.anon \/ TakesAnyone]
    /\ at' = IF OnSwitch /\ given.mount THEN "mount" ELSE "check"
    /\ UNCHANGED <<program, given, index, next, changes, mounts>>

-----------------------------------------------------------------------------
(* The mounts, in the order of main(): a file system, or a directory of one  *)
(* that is mounted.                                                          *)
Fs(n)          == [name |-> n, whole |-> TRUE, dir |-> "", base |-> n]
Over(n, d, fs) == [name |-> n, whole |-> FALSE, dir |-> d, base |-> fs]

Saves == <<"save0", "save1">>

Images == <<Fs("image_nand"), Fs("image_sd")>>

Shortcuts ==
    <<Over("switch", "/switch", "sdmc"),
      Over("breeze", "/switch/breeze", "sdmc"),
      Over("cheats", "/switch/breeze/cheats", "sdmc"),
      Over("contents", "/atmosphere/contents", "sdmc"),
      Over(given.cheats, given.cheats, "sdmc")>>

Mounts ==
    IF program = "app"
    THEN Images \o <<Fs("save0"), Fs("save1"), Fs("bcat"),
                     Over("image_sd_today", "today", "image_sd")>> \o Shortcuts
    ELSE Images \o Shortcuts

Mount ==
    /\ at = "mount" /\ next <= Len(Mounts)
    /\ LET m == Mounts[next]
       IN  IF m.whole
           THEN MountFs(m.name) \/ MountRefused(m.name)
           ELSE MountShortcut(m.name, m.dir, m.base)
    /\ next' = next + 1
    /\ UNCHANGED <<conf, at, changes>>

MountsDone ==
    /\ at = "mount" /\ next > Len(Mounts)
    /\ at' = "check"
    /\ UNCHANGED <<conf, next, changes, mounts>>

-----------------------------------------------------------------------------
(* What has to be set. The system module does not look at its port.          *)
PortMissing  == program # "sysmod" /\ config.port = 0
LoginMissing == config.user = "" /\ config.pass = "" /\ ~config.anon

Check ==
    /\ at = "check"
    /\ at' = IF PortMissing \/ LoginMissing THEN "failed" ELSE "serving"
    /\ UNCHANGED <<conf, next, changes, mounts>>

(* There is no network: an error on the screen, until (+).                   *)
NoNetwork ==
    /\ at = "check" /\ program \in {"app", "console"}
    /\ at' = "failed"
    /\ UNCHANGED <<conf, next, changes, mounts>>

(* htons() of the port.                                                      *)
ListensOn == config.port % PortSize

-----------------------------------------------------------------------------
(* Clients name files by a device, or by none for the card.                  *)
Reachable(slash, d) == TranslatePath(slash, d) # 0
FsOf(slash, d)      == entries[TranslatePath(slash, d)].fs

Serves == at = "serving" /\ OnSwitch

(* STOR and APPE open a file, to write until it is closed.                   *)
WriteBegins(slash, d) ==
    /\ Serves /\ Reachable(slash, d)
    /\ writing' = writing \cup {FsOf(slash, d)}
    /\ dirty' = dirty \cup {FsOf(slash, d)}
    /\ UNCHANGED <<conf, at, next, failed, mounts>>

WriteEnds(fs) ==
    /\ Serves
    /\ writing' = writing \ {fs}
    /\ UNCHANGED <<conf, at, next, dirty, failed, mounts>>

(* DELE, MKD and RMD.                                                        *)
Change(slash, d) ==
    /\ Serves /\ Reachable(slash, d)
    /\ dirty' = dirty \cup {FsOf(slash, d)}
    /\ UNCHANGED <<conf, at, next, writing, failed, mounts>>

(* RNTO: within what one entry mounts, not across entries.                   *)
Rename(s, d) ==
    /\ Serves /\ Reachable(TRUE, s) /\ TranslatePath(TRUE, s) = TranslatePath(TRUE, d)
    /\ dirty' = dirty \cup {FsOf(TRUE, s)}
    /\ UNCHANGED <<conf, at, next, writing, failed, mounts>>

(* Mistake: who leaves does not wait for the files to be closed.             *)
LeaveAtOnce ==
    /\ at \in {"serving", "failed"} /\ program = "app"
    /\ at' = "left"
    /\ UNCHANGED <<conf, next, changes, mounts>>

(* (+): main() waits for the thread of the server, which closes all files.   *)
Leave ==
    /\ at \in {"serving", "failed"} /\ program = "app"
    /\ at' = "left"
    /\ writing' = {}
    /\ UNCHANGED <<conf, next, dirty, failed, mounts>>

(* commit_save; the service refuses while a file is open to be written.      *)
Committed(n) ==
    IF Found(n) /\ entries[FindEntry(n)].fs \notin writing
    THEN {entries[FindEntry(n)].fs} ELSE {}

Commits == UNION {Committed(n) : n \in Range(Saves)}

(* userAppExit. A commit may fail, and nobody looks whether it has.          *)
AppExit ==
    /\ at = "left"
    /\ failed' \in SUBSET Commits
    /\ dirty' = dirty \ (Commits \ failed')
    /\ UnmountAll
    /\ at' = "gone"
    /\ UNCHANGED <<conf, next, writing, devices, meant>>

Next ==
    \/ AppInit
    \/ ParseOption \/ ParseEnds \/ ParseFails \/ ReadIni
    \/ Mount \/ MountsDone
    \/ Check \/ NoNetwork
    \/ \E s \in BOOLEAN, d \in Range(devices) \cup {NoDevice} :
        WriteBegins(s, d) \/ Change(s, d)
    \/ \E fs \in open : WriteEnds(fs)
    \/ \E s, d \in Range(devices) : Rename(s, d)
    \/ Leave \/ AppExit

Spec == Init /\ [][Next]_vars

-----------------------------------------------------------------------------
(* The Linux program serves with what its command line means, and only if it *)
(* means something; and it listens on the port that was asked for, if that   *)
(* is the number of a port. (--anon is on whatever its value is.)            *)
ServesWhatWasMeant ==
    program = "linux" /\ at = "serving" =>
        /\ Meaningful(given)
        /\ config = ConfigMeant(given)
        /\ LET p == IntOf[LastMeant(given, "port", NoValue)]
           IN  p \in 1..(PortSize - 1) => ListensOn = p

(* "Changes to game saves are applied when you press '+' to exit"            *)
(* (nx/main.c:135): once the application is gone, what clients did to the    *)
(* saves of the users is committed, but where the service itself failed to.  *)
(* It never commits that of bcat.                                            *)
SavesApplied == at = "gone" => dirty \cap Range(Saves) \subseteq failed

(* src/README.md:27: "requires a user and password to be set, or, set        *)
(* `anon=1`". One of the two is enough to start, and then nobody can log in, *)
(* as USER and PASS refuse an empty argument.                                *)
LoginPossible ==
    OnSwitch /\ at = "serving" =>
        config.anon \/ (config.user # "" /\ config.pass # "")
=============================================================================
