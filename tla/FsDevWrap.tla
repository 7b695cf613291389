------------------------------ MODULE FsDevWrap ------------------------------
(* The table of mounted file systems of the Switch, src/src/platform/nx/     *)
(* utils.c, and the list of devices that its programs show at the root.      *)
EXTENDS Naturals, FiniteSetsExt, Sequences

CONSTANTS
    DevicesMax,   \* FsDevWrap_DEVICES_MAX
    LongNames     \* names that are not shorter than FsDevWrap_PATH_MAX - 1

ASSUME DevicesAssumption == DevicesMax \in Nat \ {0}

VARIABLES
    entries,   \* the active entries of g_fsdev_entries, which are its first
    open,      \* the file systems open at the service
    devices,   \* g_devices
    meant      \* history: for each of them, what it was mounted to lead to

mounts == <<entries, open, devices, meant>>

MountsInit == entries = <<>> /\ open = {} /\ devices = <<>> /\ meant = <<>>

(* A name of a letter is refused too; no program has one.                    *)
NameFits(n) == n # "" /\ n \notin LongNames

(* The first entry of that name, 0 if there is none.                         *)
FindEntry(n) ==
    LET named == {i \in DOMAIN entries : entries[i].name = n}
    IN  IF named = {} THEN 0 ELSE Min(named)

Found(n) == FindEntry(n) # 0

Target(e) == [fs |-> e.fs, dir |-> e.dir]

(* Mistake: no one looks whether there is a free entry.                      *)
MountableAlways(n) == NameFits(n)

Mountable(n) == NameFits(n) /\ Len(entries) < DevicesMax

(* Mistake: a device is listed even if it was not mounted.                   *)
AddDeviceAlways(n, t, ok) ==
    /\ devices' = Append(devices, n)
    /\ meant' = Append(meant, t)

(* add_device, after a mount that went well.                                 *)
AddDevice(n, t, ok) ==
    IF ok /\ Len(devices) < DevicesMax
    THEN devices' = Append(devices, n) /\ meant' = Append(meant, t)
    ELSE UNCHANGED <<devices, meant>>

(* fsdev_wrapMountDevice.                                                    *)
MountDevice(n, dir, fs, own) ==
    LET e == [name |-> n, fs |-> fs, dir |-> dir, own |-> own]
    IN  /\ entries' = IF Mountable(n) THEN Append(entries, e) ELSE entries
        /\ AddDevice(n, Target(e), Mountable(n))

HelperOpen(fs, ok) == IF ok THEN open \cup {fs} ELSE open

(* fsdev_wrapMountSdmc, ...Image, ...Save, ...SaveBcat: the service opens    *)
(* the file system, and mount_helper closes it if the table does not take it.*)
MountFs(n) ==
    /\ MountDevice(n, "", n, TRUE)
    /\ open' = HelperOpen(n, Mountable(n))

(* The service refuses it.                                                   *)
MountRefused(n) ==
    /\ AddDevice(n, [fs |-> n, dir |-> ""], FALSE)
    /\ UNCHANGED <<entries, open>>

(* Mistake: a directory of a file system is mounted as if it were the owner. *)
ShortcutOwns(n, dir, base) ==
    /\ IF Found(base)
       THEN MountDevice(n, dir, entries[FindEntry(base)].fs, TRUE)
       ELSE UNCHANGED <<entries, devices, meant>>
    /\ UNCHANGED open

(* fsdev_wrapGetDeviceFileSystem, and a directory of that file system as a   *)
(* device of its own.                                                        *)
MountShortcut(n, dir, base) ==
    /\ IF Found(base)
       THEN MountDevice(n, dir, entries[FindEntry(base)].fs, FALSE)
       ELSE UNCHANGED <<entries, devices, meant>>
    /\ UNCHANGED open

(* It looks for entries that are not active, and those own nothing.          *)
UnmountAll == UNCHANGED <<entries, open>>

(* fsdev_wrapTranslatePath of a path with a leading slash or none, and with  *)
(* a device or none: the entry it leads to, or 0 for ENODEV.                 *)
NoDevice == "(none)"

TranslatePath(slash, device) ==
    IF device # NoDevice THEN FindEntry(device)
    ELSE IF slash THEN FindEntry("sdmc") ELSE 0

-----------------------------------------------------------------------------
(* Each device that the root shows leads to what it was mounted for: its own *)
(* file system, or its directory of a file system that is mounted. But a     *)
(* game_cheat_dir of the name of another device leads where that one does.   *)
DevicesResolve ==
    \A i \in DOMAIN devices :
        \/ \E j \in 1..(i - 1) : devices[j] = devices[i]
        \/ LET e == TranslatePath(TRUE, devices[i])
           IN  e # 0 /\ Target(entries[e]) = meant[i]

(* Every file system that is open has exactly one entry to close it, and no  *)
(* entry, shortcuts included, has one that is not open.                      *)
FileSystemsOwned ==
    /\ \A i \in DOMAIN entries : entries[i].fs \in open
    /\ \A fs \in open :
        \E i \in DOMAIN entries :
            \A j \in DOMAIN entries :
                (entries[j].own /\ entries[j].fs = fs) <=> j = i
=============================================================================
