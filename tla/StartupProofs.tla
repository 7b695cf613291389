---------------------------- MODULE StartupProofs ----------------------------
(* Proofs about Startup: what is mounted, listed, owned and committed on the *)
(* Switch, for a table of any size, every configuration, and every mount     *)
(* that fails; and what the Linux program makes of its command line, for     *)
(* lines of any length.                                                      *)
EXTENDS Startup, SequenceTheorems, WellFoundedInduction, TLAPS

-----------------------------------------------------------------------------
(* Sequences of whatever elements.                                           *)
IsSequence(q) == \E S : q \in Seq(S)

LEMMA EmptyIsSequence == IsSequence(<<>>) /\ Len(<<>>) = 0 /\ DOMAIN <<>> = {}
BY EmptySeq DEF IsSequence

LEMMA SequenceDomain ==
    ASSUME NEW q, IsSequence(q)
    PROVE  Len(q) \in Nat /\ DOMAIN q = 1..Len(q)
BY LenProperties DEF IsSequence

LEMMA AppendedProperties ==
    ASSUME NEW q, IsSequence(q), NEW e
    PROVE  /\ IsSequence(Append(q, e))
           /\ Len(Append(q, e)) = Len(q) + 1
           /\ DOMAIN Append(q, e) = 1..(Len(q) + 1)
           /\ \A i \in 1..Len(q) : Append(q, e)[i] = q[i]
           /\ Append(q, e)[Len(q) + 1] = e
<1>1. PICK S : q \in Seq(S)
  BY DEF IsSequence
<1> DEFINE T == S \cup {e}
<1>2. q \in Seq(T) /\ e \in T
  BY <1>1, SeqDef
<1> HIDE DEF T
<1>3. /\ Append(q, e) \in Seq(T) /\ Len(Append(q, e)) = Len(q) + 1
      /\ \A i \in 1..Len(q) : Append(q, e)[i] = q[i]
      /\ Append(q, e)[Len(q) + 1] = e
  BY <1>2, AppendProperties
<1>4. IsSequence(Append(q, e))
  BY <1>3 DEF IsSequence
<1>5. QED BY <1>3, <1>4, SequenceDomain

(* Any set of naturals has a least member, so that FindEntry is defined.     *)
LEMMA MinIsLeast ==
    ASSUME NEW T, T \subseteq Nat, T # {}
    PROVE  Min(T) \in T /\ \A y \in T : Min(T) <= y
<1> DEFINE R == OpToRel(<, Nat)
<1>1. IsWellFoundedOn(R, Nat)
  BY NatLessThanWellFounded
<1>2. \A x, y \in Nat : x < y => <<x, y>> \in R
  BY DEF OpToRel
<1> HIDE DEF R
<1>3. PICK x \in T : \A y \in T : ~ (<<y, x>> \in R)
  BY <1>1, WFMin
<1>4. ASSUME NEW y \in T PROVE ~ (y < x)
  BY <1>2, <1>3, Zenon
<1>5. ASSUME NEW y \in T PROVE x <= y
  BY <1>4
<1>6. QED BY <1>5 DEF Min

(* find_entry returns the first entry of that name.                          *)
LEMMA FindEntryIsFirst ==
    ASSUME IsSequence(entries), NEW n
    PROVE  /\ FindEntry(n) = 0 => \A i \in DOMAIN entries : entries[i].name # n
           /\ FindEntry(n) # 0 =>
                /\ FindEntry(n) \in DOMAIN entries /\ entries[FindEntry(n)].name = n
                /\ \A j \in DOMAIN entries : j < FindEntry(n) => entries[j].name # n
<1> DEFINE named == {i \in DOMAIN entries : entries[i].name = n}
<1>1. Len(entries) \in Nat /\ DOMAIN entries = 1..Len(entries)
  BY SequenceDomain
<1>2. named \subseteq Nat /\ 0 \notin named
  BY <1>1
<1>3. FindEntry(n) = IF named = {} THEN 0 ELSE Min(named)
  BY DEF FindEntry
<1>4. CASE named = {}
  BY <1>3, <1>4
<1>5. CASE named # {}
  <2>1. Min(named) \in named /\ \A y \in named : Min(named) <= y
    BY <1>2, <1>5, MinIsLeast
  <2>2. FindEntry(n) = Min(named)
    BY <1>3, <1>5
  <2> DEFINE m == Min(named)
  <2>3. m \in Nat /\ m # 0 /\ m \in DOMAIN entries /\ entries[m].name = n
    BY <1>2, <2>1
  <2>4. ASSUME NEW j \in DOMAIN entries, j < m
        PROVE  entries[j].name # n
    <3>1. SUFFICES ASSUME entries[j].name = n PROVE FALSE
      OBVIOUS
    <3>2. m <= j /\ j \in Nat
      BY <1>1, <2>1, <3>1
    <3> HIDE DEF m
    <3>3. QED BY ONLY <2>3, <2>4, <3>2
  <2> HIDE DEF m
  <2>5. FindEntry(n) = m
    BY <2>2 DEF m
  <2>6. QED BY <2>3, <2>4, <2>5
<1>6. QED BY <1>4, <1>5

-----------------------------------------------------------------------------
(* The list of mounts: the file systems come first, each once.               *)
WholeNames == <<"image_nand", "image_sd", "save0", "save1", "bcat">>

LEMMA NamesDiffer ==
    /\ \A k \in 1..5 : WholeNames[k] # "sdmc"
    /\ \A j, k \in 1..5 : j # k => WholeNames[j] # WholeNames[k]
BY DEF WholeNames

LEMMA AppMounts ==
    ASSUME program = "app"
    PROVE  /\ Len(Mounts) = 11
           /\ Mounts[1] = Fs(WholeNames[1]) /\ Mounts[2] = Fs(WholeNames[2])
           /\ Mounts[3] = Fs(WholeNames[3]) /\ Mounts[4] = Fs(WholeNames[4])
           /\ Mounts[5] = Fs(WholeNames[5])
           /\ \A k \in 6..11 : ~Mounts[k].whole
<1>1. /\ Len(Mounts) = 11
      /\ Mounts[1] = Fs(WholeNames[1]) /\ Mounts[2] = Fs(WholeNames[2])
      /\ Mounts[3] = Fs(WholeNames[3]) /\ Mounts[4] = Fs(WholeNames[4])
      /\ Mounts[5] = Fs(WholeNames[5])
  BY DEF Mounts, Images, Shortcuts, WholeNames
<1>2. /\ ~Mounts[6].whole /\ ~Mounts[7].whole /\ ~Mounts[8].whole
      /\ ~Mounts[9].whole /\ ~Mounts[10].whole /\ ~Mounts[11].whole
  BY DEF Mounts, Images, Shortcuts, Over
<1>3. \A k \in 6..11 : k = 6 \/ k = 7 \/ k = 8 \/ k = 9 \/ k = 10 \/ k = 11
  OBVIOUS
<1>4. QED BY ONLY <1>1, <1>2, <1>3

LEMMA OtherMounts ==
    ASSUME program # "app"
    PROVE  /\ Len(Mounts) = 7
           /\ Mounts[1] = Fs(WholeNames[1]) /\ Mounts[2] = Fs(WholeNames[2])
           /\ \A k \in 3..7 : ~Mounts[k].whole
<1>1. /\ Len(Mounts) = 7
      /\ Mounts[1] = Fs(WholeNames[1]) /\ Mounts[2] = Fs(WholeNames[2])
      /\ ~Mounts[3].whole /\ ~Mounts[4].whole /\ ~Mounts[5].whole
      /\ ~Mounts[6].whole /\ ~Mounts[7].whole
  BY DEF Mounts, Images, Shortcuts, Over, WholeNames
<1>2. \A k \in 3..7 : k = 3 \/ k = 4 \/ k = 5 \/ k = 6 \/ k = 7
  OBVIOUS
<1>3. QED BY ONLY <1>1, <1>2

LEMMA WholeFirst ==
    /\ Len(Mounts) \in Nat
    /\ \A k \in 1..Len(Mounts) : Mounts[k].whole =>
         /\ Mounts[k].name # "sdmc"
         /\ \A j \in 1..(k - 1) : Mounts[j].name # Mounts[k].name
<1> DEFINE w == IF program = "app" THEN 5 ELSE 2
<1>1. w \in 2..5
  OBVIOUS
<1>2. /\ \A k \in 1..w : Mounts[k] = Fs(WholeNames[k])
      /\ Len(Mounts) \in Nat
      /\ \A k \in 1..Len(Mounts) : Mounts[k].whole => k <= w
  <2>1. CASE program = "app"
    <3>1. /\ \A k \in 1..5 : Mounts[k] = Fs(WholeNames[k])
          /\ Len(Mounts) = 11 /\ \A k \in 6..11 : ~Mounts[k].whole
      <4>1. \A k \in 1..5 : k = 1 \/ k = 2 \/ k = 3 \/ k = 4 \/ k = 5
        OBVIOUS
      <4>2. QED BY ONLY <2>1, <4>1, AppMounts
    <3>2. w = 5
      BY <2>1
    <3> HIDE DEF w
    <3>3. ASSUME NEW k \in 1..Len(Mounts), Mounts[k].whole
          PROVE  k <= w
      <4>1. k \in 6..11 \/ k <= 5
        BY ONLY <3>1, k \in 1..Len(Mounts)
      <4>2. QED BY <3>1, <3>2, <3>3, <4>1
    <3>4. Len(Mounts) \in Nat
      BY <3>1
    <3>5. QED BY ONLY <3>1, <3>2, <3>3, <3>4
  <2>2. CASE program # "app"
    <3>1. /\ \A k \in 1..2 : Mounts[k] = Fs(WholeNames[k])
          /\ Len(Mounts) = 7 /\ \A k \in 3..7 : ~Mounts[k].whole
      <4>1. \A k \in 1..2 : k = 1 \/ k = 2
        OBVIOUS
      <4>2. QED BY ONLY <2>2, <4>1, OtherMounts
    <3>2. w = 2
      BY <2>2
    <3> HIDE DEF w
    <3>3. ASSUME NEW k \in 1..Len(Mounts), Mounts[k].whole
          PROVE  k <= w
      <4>1. k \in 3..7 \/ k <= 2
        BY ONLY <3>1, k \in 1..Len(Mounts)
      <4>2. QED BY <3>1, <3>2, <3>3, <4>1
    <3>4. Len(Mounts) \in Nat
      BY <3>1
    <3>5. QED BY ONLY <3>1, <3>2, <3>3, <3>4
  <2>3. QED BY <2>1, <2>2
<1> HIDE DEF w
<1>4. ASSUME NEW k \in 1..Len(Mounts), Mounts[k].whole
      PROVE  /\ Mounts[k].name # "sdmc"
             /\ \A j \in 1..(k - 1) : Mounts[j].name # Mounts[k].name
  <2>1. k \in 1..w /\ k \in 1..5
    BY <1>1, <1>2, <1>4
  <2>2. \A j \in 1..(k - 1) : j \in 1..w /\ j \in 1..5 /\ j # k
    BY ONLY <1>1, <2>1
  <2>3. ASSUME NEW j \in 1..w
        PROVE  Mounts[j].name = WholeNames[j]
    <3>1. Mounts[j] = Fs(WholeNames[j])
      BY ONLY <1>2, j \in 1..w
    <3>2. Fs(WholeNames[j]).name = WholeNames[j]
      BY ONLY DEF Fs
    <3>3. QED BY ONLY <3>1, <3>2
  <2>4. QED BY ONLY <2>1, <2>2, <2>3, NamesDiffer
<1>5. QED BY <1>2, <1>4

-----------------------------------------------------------------------------
(* The invariant. Every entry is listed as a device, ...                     *)
Listed ==
    /\ IsSequence(entries) /\ IsSequence(devices) /\ IsSequence(meant)
    /\ Len(devices) = Len(entries) /\ Len(meant) = Len(entries)
    /\ \A i \in DOMAIN entries :
         devices[i] = entries[i].name /\ meant[i] = Target(entries[i])

(* ... has a name that was mounted so far, ...                               *)
Named ==
    /\ next \in Nat \ {0}
    /\ at = "init" => entries = <<>> /\ open = {} /\ next = 1
    /\ \A i \in DOMAIN entries :
         \/ entries[i].name = "sdmc"
         \/ \E k \in 1..(next - 1) : entries[i].name = Mounts[k].name

(* ... and a file system is found by its name.                               *)
Foremost ==
    \A fs \in open : \E i \in DOMAIN entries :
        /\ entries[i].name = fs /\ entries[i].fs = fs
        /\ \A j \in 1..(i - 1) : entries[j].name # fs

Kept ==
    /\ dirty \subseteq open
    /\ at = "left" => writing = {}

(* Only what is on the Switch mounts, and with a configuration.              *)
Configured ==
    /\ program # "linux" => given \in Inis
    /\ at = "mount" => program # "linux"
    /\ \A i \in DOMAIN entries : entries[i].name # NoDevice

MInv == Configured /\ Listed /\ Named /\ FileSystemsOwned /\ Foremost /\ Kept /\ SavesApplied

-----------------------------------------------------------------------------
LEMMA InitMInv == Init => MInv
BY EmptyIsSequence
   DEF Init, MountsInit, MInv, Configured, Listed, Named, FileSystemsOwned, Foremost,
       Kept, SavesApplied, OnSwitch

(* Steps that mount and change nothing.                                      *)
LEMMA Quiet ==
    ASSUME MInv, UNCHANGED <<mounts, next, dirty, program, given>>,
           at' # "init", at' # "gone", at' = "left" => writing' = {},
           at' = "mount" => at = "mount" \/ OnSwitch
    PROVE  MInv'
<1>1. Mounts' = Mounts
  BY DEF Mounts, Images, Shortcuts, Over, Fs
<1>2. Listed' /\ FileSystemsOwned' /\ Foremost'
  BY DEF MInv, Listed, FileSystemsOwned, Foremost, mounts, Target
<1>3. Named'
  BY <1>1 DEF MInv, Named, mounts
<1>4. Kept' /\ SavesApplied'
  BY DEF MInv, Kept, SavesApplied, mounts
<1>5. Configured'
  BY DEF MInv, Configured, OnSwitch, mounts
<1>6. QED BY <1>2, <1>3, <1>4, <1>5 DEF MInv

(* A table that takes an entry has room in the list for its device.          *)
LEMMA MountListed ==
    ASSUME Listed, NEW n, NEW d, NEW fs, NEW own \in BOOLEAN,
           MountDevice(n, d, fs, own)
    PROVE  /\ Listed'
           /\ ~Mountable(n) => entries' = entries
           /\ Mountable(n) =>
                entries' = Append(entries,
                                  [name |-> n, fs |-> fs, dir |-> d, own |-> own])
<1> DEFINE e == [name |-> n, fs |-> fs, dir |-> d, own |-> own]
<1>1. /\ entries' = IF Mountable(n) THEN Append(entries, e) ELSE entries
      /\ AddDevice(n, Target(e), Mountable(n))
  BY DEF MountDevice
<1>2. CASE ~Mountable(n)
  <2>1. entries' = entries /\ devices' = devices /\ meant' = meant
    BY <1>1, <1>2 DEF AddDevice
  <2>2. QED BY <1>2, <2>1 DEF Listed, Target
<1>3. CASE Mountable(n)
  <2>1. Len(devices) < DevicesMax
    BY <1>3 DEF Mountable, Listed
  <2>2. /\ entries' = Append(entries, e)
        /\ devices' = Append(devices, n)
        /\ meant' = Append(meant, Target(e))
    BY <1>1, <1>3, <2>1 DEF AddDevice
  <2>3. /\ IsSequence(entries') /\ Len(entries') = Len(entries) + 1
        /\ DOMAIN entries' = 1..(Len(entries) + 1)
        /\ \A i \in 1..Len(entries) : entries'[i] = entries[i]
        /\ entries'[Len(entries) + 1] = e
    BY <2>2, AppendedProperties DEF Listed
  <2>4. /\ IsSequence(devices') /\ Len(devices') = Len(entries) + 1
        /\ \A i \in 1..Len(entries) : devices'[i] = devices[i]
        /\ devices'[Len(entries) + 1] = n
    BY <2>2, AppendedProperties DEF Listed
  <2>5. /\ IsSequence(meant') /\ Len(meant') = Len(entries) + 1
        /\ \A i \in 1..Len(entries) : meant'[i] = meant[i]
        /\ meant'[Len(entries) + 1] = Target(e)
    BY <2>2, AppendedProperties DEF Listed
  <2>6. e.name = n
    OBVIOUS
  <2>7. ASSUME NEW i \in DOMAIN entries'
        PROVE  devices'[i] = entries'[i].name /\ meant'[i] = Target(entries'[i])
    <3>1. Len(entries) \in Nat /\ DOMAIN entries = 1..Len(entries)
      BY SequenceDomain DEF Listed
    <3> HIDE DEF e
    <3>2. CASE i = Len(entries) + 1
      BY <2>3, <2>4, <2>5, <2>6, <3>2
    <3>3. CASE i # Len(entries) + 1
      <4>1. i \in 1..Len(entries)
        BY <2>3, <3>1, <3>3
      <4>2. QED BY <2>3, <2>4, <2>5, <3>1, <4>1 DEF Listed
    <3>4. QED BY <3>2, <3>3
  <2>8. Listed'
    BY <2>3, <2>4, <2>5, <2>7 DEF Listed, Target
  <2>9. QED BY <1>3, <2>2, <2>8
<1>4. QED BY <1>2, <1>3

(* A file system that is mounted for the first time.                         *)
LEMMA FsOwned ==
    ASSUME MInv, NEW n, MountFs(n), \A i \in DOMAIN entries : entries[i].name # n
    PROVE  FileSystemsOwned' /\ Foremost' /\ Listed' /\ open \subseteq open'
<1> DEFINE e == [name |-> n, fs |-> n, dir |-> "", own |-> TRUE]
           l == Len(entries) + 1
<1>1. /\ Listed' /\ open' = HelperOpen(n, Mountable(n))
      /\ ~Mountable(n) => entries' = entries
      /\ Mountable(n) => entries' = Append(entries, e)
  BY MountListed DEF MountFs, MInv
<1>2. CASE ~Mountable(n)
  <2>1. open' = open /\ entries' = entries
    BY <1>1, <1>2 DEF HelperOpen
  <2>2. FileSystemsOwned'
    BY <2>1 DEF MInv, FileSystemsOwned
  <2>3. Foremost'
    BY <2>1 DEF MInv, Foremost
  <2>4. QED BY ONLY <1>1, <2>1, <2>2, <2>3
<1>3. CASE Mountable(n)
  <2>1. open' = open \cup {n}
    BY <1>1, <1>3 DEF HelperOpen
  <2>2. n \notin open
    BY DEF MInv, Foremost
  <2>3. /\ Len(entries) \in Nat /\ DOMAIN entries = 1..Len(entries)
        /\ DOMAIN entries' = 1..l
        /\ \A i \in 1..Len(entries) : entries'[i] = entries[i]
        /\ entries'[l] = e
    <3>1. IsSequence(entries) /\ entries' = Append(entries, e)
      BY <1>1, <1>3 DEF MInv, Listed
    <3> HIDE DEF e
    <3>2. QED BY ONLY <3>1, SequenceDomain, AppendedProperties
  <2>4. e.name = n /\ e.fs = n /\ e.own = TRUE
    OBVIOUS
  <2> HIDE DEF e
  <2>5. \A i \in DOMAIN entries : entries[i].fs \in open
    BY DEF MInv, FileSystemsOwned
  <2>6. \A i \in DOMAIN entries' : entries'[i].fs \in open'
    BY <2>1, <2>3, <2>4, <2>5
  <2>7. ASSUME NEW fs \in open'
        PROVE  \E i \in DOMAIN entries' : \A j \in DOMAIN entries' :
                 (entries'[j].own /\ entries'[j].fs = fs) <=> j = i
    <3>1. CASE fs = n
      <4>1. \A j \in 1..Len(entries) : entries'[j].fs # n
        BY <2>2, <2>3, <2>5
      <4>2. l \in DOMAIN entries' /\ \A j \in DOMAIN entries' : j = l \/ j \in 1..Len(entries)
        BY <2>3
      <4>3. \A j \in DOMAIN entries' : (entries'[j].own /\ entries'[j].fs = fs) <=> j = l
        BY <2>3, <2>4, <3>1, <4>1, <4>2
      <4>4. QED BY <4>2, <4>3
    <3>2. CASE fs # n
      <4>1. fs \in open
        BY <2>1, <3>2
      <4>2. PICK i \in DOMAIN entries : \A j \in DOMAIN entries :
              (entries[j].own /\ entries[j].fs = fs) <=> j = i
        BY <4>1 DEF MInv, FileSystemsOwned
      <4>3. entries'[l].fs # fs /\ l # i /\ i \in DOMAIN entries'
        BY <2>3, <2>4, <3>2
      <4>4. ASSUME NEW j \in DOMAIN entries'
            PROVE  (entries'[j].own /\ entries'[j].fs = fs) <=> j = i
        <5>1. CASE j = l
          BY <4>3, <5>1
        <5>2. CASE j # l
          <6>1. j \in DOMAIN entries /\ entries'[j] = entries[j]
            BY <2>3, <5>2
          <6>2. QED BY <4>2, <6>1
        <5>3. QED BY <5>1, <5>2
      <4>5. QED BY <4>3, <4>4
    <3>3. QED BY <3>1, <3>2
  <2>8. FileSystemsOwned'
    BY <2>6, <2>7 DEF FileSystemsOwned
  <2>9. ASSUME NEW fs \in open'
        PROVE  \E i \in DOMAIN entries' :
                 /\ entries'[i].name = fs /\ entries'[i].fs = fs
                 /\ \A j \in 1..(i - 1) : entries'[j].name # fs
    <3>1. CASE fs = n
      <4>1. \A j \in 1..(l - 1) : entries'[j].name # fs
        BY <2>3, <3>1
      <4>2. QED BY <2>3, <2>4, <3>1, <4>1
    <3>2. CASE fs # n
      <4>1. PICK i \in DOMAIN entries :
              /\ entries[i].name = fs /\ entries[i].fs = fs
              /\ \A j \in 1..(i - 1) : entries[j].name # fs
        BY <2>1, <3>2 DEF MInv, Foremost
      <4>2. i \in DOMAIN entries' /\ \A j \in 1..i : entries'[j] = entries[j]
        BY <2>3
      <4>3. QED BY <2>3, <4>1, <4>2
    <3>3. QED BY <3>1, <3>2
  <2>10. Foremost'
    BY <2>9 DEF Foremost
  <2>11. QED BY <1>1, <2>1, <2>8, <2>10
<1>4. QED BY <1>2, <1>3

(* A directory of a file system that is mounted, as a device of its own.     *)
LEMMA ShortcutOwned ==
    ASSUME MInv, NEW n, NEW d, NEW base, MountShortcut(n, d, base)
    PROVE  /\ FileSystemsOwned' /\ Foremost' /\ Listed' /\ open' = open
           /\ DOMAIN entries \subseteq DOMAIN entries'
<1>1. open' = open
  BY DEF MountShortcut
<1>2. CASE ~Found(base)
  <2>1. UNCHANGED <<entries, devices, meant>>
    BY <1>2 DEF MountShortcut
  <2>2. QED BY <1>1, <2>1 DEF MInv, Listed, FileSystemsOwned, Foremost, Target
<1>3. CASE Found(base)
  <2> DEFINE f == entries[FindEntry(base)].fs
             e == [name |-> n, fs |-> f, dir |-> d, own |-> FALSE]
             l == Len(entries) + 1
  <2>1. f \in open
    <3>1. FindEntry(base) \in DOMAIN entries
      BY <1>3, FindEntryIsFirst DEF Found, MInv, Listed
    <3>2. QED BY <3>1 DEF MInv, FileSystemsOwned
  <2>2. /\ Listed'
        /\ ~Mountable(n) => entries' = entries
        /\ Mountable(n) => entries' = Append(entries, e)
    BY <1>3, MountListed DEF MountShortcut, MInv
  <2>3. CASE ~Mountable(n)
    BY <1>1, <2>2, <2>3 DEF MInv, FileSystemsOwned, Foremost
  <2>4. CASE Mountable(n)
    <3>1. /\ Len(entries) \in Nat /\ DOMAIN entries = 1..Len(entries)
          /\ DOMAIN entries' = 1..l
          /\ \A i \in 1..Len(entries) : entries'[i] = entries[i]
          /\ entries'[l] = e
      BY <2>2, <2>4, SequenceDomain, AppendedProperties DEF MInv, Listed
    <3>2. e.fs = f /\ e.own = FALSE
      OBVIOUS
    <3> HIDE DEF e, f
    <3>3. \A i \in DOMAIN entries' : entries'[i].fs \in open'
      BY <1>1, <2>1, <3>1, <3>2 DEF MInv, FileSystemsOwned
    <3>4. ASSUME NEW fs \in open'
          PROVE  \E i \in DOMAIN entries' : \A j \in DOMAIN entries' :
                   (entries'[j].own /\ entries'[j].fs = fs) <=> j = i
      <4>1. PICK i \in DOMAIN entries : \A j \in DOMAIN entries :
              (entries[j].own /\ entries[j].fs = fs) <=> j = i
        BY <1>1 DEF MInv, FileSystemsOwned
      <4>2. i \in DOMAIN entries' /\ l # i
        BY <3>1
      <4>3. ASSUME NEW j \in DOMAIN entries'
            PROVE  (entries'[j].own /\ entries'[j].fs = fs) <=> j = i
        <5>1. CASE j = l
          BY <3>1, <3>2, <4>2, <5>1
        <5>2. CASE j # l
          <6>1. j \in DOMAIN entries /\ entries'[j] = entries[j]
            BY <3>1, <5>2
          <6>2. QED BY <4>1, <6>1
        <5>3. QED BY <5>1, <5>2
      <4>4. QED BY <4>2, <4>3
    <3>5. FileSystemsOwned'
      BY <3>3, <3>4 DEF FileSystemsOwned
    <3>6. ASSUME NEW fs \in open'
          PROVE  \E i \in DOMAIN entries' :
                   /\ entries'[i].name = fs /\ entries'[i].fs = fs
                   /\ \A j \in 1..(i - 1) : entries'[j].name # fs
      <4>1. PICK i \in DOMAIN entries :
              /\ entries[i].name = fs /\ entries[i].fs = fs
              /\ \A j \in 1..(i - 1) : entries[j].name # fs
        BY <1>1 DEF MInv, Foremost
      <4>2. i \in DOMAIN entries' /\ \A j \in 1..i : entries'[j] = entries[j]
        BY <3>1
      <4>3. QED BY <3>1, <4>1, <4>2
    <3>7. Foremost'
      BY <3>6 DEF Foremost
    <3>8. QED BY <1>1, <2>2, <3>1, <3>5, <3>7
  <2>5. QED BY <2>3, <2>4
<1>4. QED BY <1>2, <1>3

-----------------------------------------------------------------------------
(* The steps.                                                                *)

(* What main() mounts has the name of a device.                              *)
LEMMA MountsNamed ==
    ASSUME MInv, program # "linux", NEW k \in 1..Len(Mounts)
    PROVE  Mounts[k].name # NoDevice
<1>1. given.cheats # NoDevice
  BY InisAssumption DEF MInv, Configured
<1>2. CASE program = "app"
  <2>1. Len(Mounts) = 11
    BY <1>2, AppMounts
  <2>2. /\ Mounts[1].name = "image_nand" /\ Mounts[2].name = "image_sd"
        /\ Mounts[3].name = "save0" /\ Mounts[4].name = "save1"
        /\ Mounts[5].name = "bcat" /\ Mounts[6].name = "image_sd_today"
        /\ Mounts[7].name = "switch" /\ Mounts[8].name = "breeze"
        /\ Mounts[9].name = "cheats" /\ Mounts[10].name = "contents"
        /\ Mounts[11].name = given.cheats
    <3>1. /\ Mounts[1] = Fs("image_nand")
          /\ Mounts[2] = Fs("image_sd")
          /\ Mounts[3] = Fs("save0")
          /\ Mounts[4] = Fs("save1")
          /\ Mounts[5] = Fs("bcat")
          /\ Mounts[6] = Over("image_sd_today", "today", "image_sd")
          /\ Mounts[7] = Over("switch", "/switch", "sdmc")
          /\ Mounts[8] = Over("breeze", "/switch/breeze", "sdmc")
          /\ Mounts[9] = Over("cheats", "/switch/breeze/cheats", "sdmc")
          /\ Mounts[10] = Over("contents", "/atmosphere/contents", "sdmc")
          /\ Mounts[11] = Over(given.cheats, given.cheats, "sdmc")
      BY <1>2 DEF Mounts, Images, Shortcuts
    <3>2. \A x : Fs(x).name = x
      BY DEF Fs
    <3>3. \A x, d, b : Over(x, d, b).name = x
      BY DEF Over
    <3>4. QED BY ONLY <3>1, <3>2, <3>3
  <2>3. k = 1 \/ k = 2 \/ k = 3 \/ k = 4 \/ k = 5 \/ k = 6 \/ k = 7 \/ k = 8 \/ k = 9
          \/ k = 10 \/ k = 11
    BY <2>1
  <2>4. /\ "image_nand" # NoDevice /\ "image_sd" # NoDevice /\ "save0" # NoDevice
        /\ "save1" # NoDevice /\ "bcat" # NoDevice /\ "image_sd_today" # NoDevice
        /\ "switch" # NoDevice /\ "breeze" # NoDevice /\ "cheats" # NoDevice
        /\ "contents" # NoDevice
    BY DEF NoDevice
  <2>5. QED BY ONLY <1>1, <2>2, <2>3, <2>4
<1>3. CASE program # "app"
  <2>1. Len(Mounts) = 7
    BY <1>3, OtherMounts
  <2>2. /\ Mounts[1].name = "image_nand" /\ Mounts[2].name = "image_sd"
        /\ Mounts[3].name = "switch" /\ Mounts[4].name = "breeze"
        /\ Mounts[5].name = "cheats" /\ Mounts[6].name = "contents"
        /\ Mounts[7].name = given.cheats
    <3>1. /\ Mounts[1] = Fs("image_nand")
          /\ Mounts[2] = Fs("image_sd")
          /\ Mounts[3] = Over("switch", "/switch", "sdmc")
          /\ Mounts[4] = Over("breeze", "/switch/breeze", "sdmc")
          /\ Mounts[5] = Over("cheats", "/switch/breeze/cheats", "sdmc")
          /\ Mounts[6] = Over("contents", "/atmosphere/contents", "sdmc")
          /\ Mounts[7] = Over(given.cheats, given.cheats, "sdmc")
      BY <1>3 DEF Mounts, Images, Shortcuts
    <3>2. \A x : Fs(x).name = x
      BY DEF Fs
    <3>3. \A x, d, b : Over(x, d, b).name = x
      BY DEF Over
    <3>4. QED BY ONLY <3>1, <3>2, <3>3
  <2>3. k = 1 \/ k = 2 \/ k = 3 \/ k = 4 \/ k = 5 \/ k = 6 \/ k = 7
    BY <2>1
  <2>4. /\ "image_nand" # NoDevice /\ "image_sd" # NoDevice /\ "switch" # NoDevice
        /\ "breeze" # NoDevice /\ "cheats" # NoDevice /\ "contents" # NoDevice
    BY DEF NoDevice
  <2>5. QED BY ONLY <1>1, <2>2, <2>3, <2>4
<1>4. QED BY <1>2, <1>3

(* An entry more for the mount that is next, or none.                        *)
LEMMA NamesGrow ==
    ASSUME MInv, at = "mount", next <= Len(Mounts), next' = next + 1,
           UNCHANGED <<program, given, at>>,
           NEW e, e.name = Mounts[next].name,
           entries' = entries \/ entries' = Append(entries, e)
    PROVE  Named' /\ Configured'
<1>1. Mounts' = Mounts
  BY DEF Mounts, Images, Shortcuts, Over, Fs
<1>2. next \in Nat \ {0} /\ next' \in Nat \ {0} /\ Len(Mounts) \in Nat
  BY WholeFirst DEF MInv, Named
<1>3. next \in 1..Len(Mounts) /\ next \in 1..(next' - 1)
  BY <1>2
<1>4. \A k \in 1..(next - 1) : k \in 1..(next' - 1)
  BY <1>2
<1>5. e.name # NoDevice
  BY <1>3, MountsNamed DEF MInv, Configured
<1>6. ASSUME NEW i \in DOMAIN entries'
      PROVE  \/ i \in DOMAIN entries /\ entries'[i] = entries[i]
             \/ entries'[i] = e
  <2>1. CASE entries' = entries
    BY <2>1
  <2>2. CASE entries' = Append(entries, e)
    <3>1. IsSequence(entries)
      BY DEF MInv, Listed
    <3>2. /\ Len(entries) \in Nat /\ DOMAIN entries = 1..Len(entries)
          /\ DOMAIN entries' = 1..(Len(entries) + 1)
          /\ \A j \in 1..Len(entries) : entries'[j] = entries[j]
          /\ entries'[Len(entries) + 1] = e
      BY ONLY <2>2, <3>1, SequenceDomain, AppendedProperties
    <3>3. i = Len(entries) + 1 \/ i \in 1..Len(entries)
      BY <3>2
    <3>4. QED BY ONLY <3>2, <3>3
  <2>3. QED BY <2>1, <2>2
<1>7. ASSUME NEW i \in DOMAIN entries'
      PROVE  \/ entries'[i].name = "sdmc"
             \/ \E k \in 1..(next' - 1) : entries'[i].name = Mounts[k].name
  <2>1. CASE entries'[i] = e
    BY <1>3, <2>1
  <2>2. CASE i \in DOMAIN entries /\ entries'[i] = entries[i]
    BY <1>4, <2>2 DEF MInv, Named
  <2>3. QED BY <1>6, <2>1, <2>2
<1>8. Named'
  BY <1>1, <1>2, <1>7 DEF Named
<1>9. \A i \in DOMAIN entries' : entries'[i].name # NoDevice
  BY <1>5, <1>6 DEF MInv, Configured
<1>10. Configured'
  BY <1>9 DEF MInv, Configured
<1>11. QED BY <1>8, <1>10

LEMMA AppInitMInv == MInv /\ AppInit => MInv'
<1> SUFFICES ASSUME MInv, AppInit PROVE MInv'
  OBVIOUS
<1> DEFINE e == [name |-> "sdmc", fs |-> "sdmc", dir |-> "", own |-> TRUE]
<1>1. /\ entries = <<>> /\ open = {} /\ next = 1 /\ dirty = {}
      /\ at' # "init" /\ at' # "mount" /\ at' # "left"
      /\ program' = program /\ given' = given /\ next' = 1 /\ dirty' = {}
      /\ MountFs("sdmc")
  BY DEF AppInit, MInv, Named, Kept, conf, changes
<1>2. FileSystemsOwned' /\ Foremost' /\ Listed'
  BY <1>1, EmptyIsSequence, FsOwned
<1>3. entries' = entries \/ entries' = Append(entries, e)
  BY <1>1 DEF MountFs, MountDevice
<1>4. ASSUME NEW i \in DOMAIN entries'
      PROVE  entries'[i].name = "sdmc"
  <2> e.name = "sdmc"
    OBVIOUS
  <2> HIDE DEF e
  <2>1. entries' = Append(entries, e)
    BY <1>1, <1>3, <1>4, EmptyIsSequence
  <2>2. IsSequence(entries) /\ Len(entries) = 0
    BY ONLY <1>1, EmptyIsSequence
  <2>3. DOMAIN entries' = 1..(0 + 1) /\ entries'[0 + 1] = e
    BY ONLY <2>1, <2>2, AppendedProperties
  <2>4. i = 1 /\ 0 + 1 = 1
    BY ONLY <2>3, i \in DOMAIN entries'
  <2>5. QED BY <2>3, <2>4
<1>5. Named'
  BY <1>1, <1>4 DEF Named
<1>6. Configured'
  BY <1>1, <1>4 DEF MInv, Configured, NoDevice
<1>7. Kept' /\ SavesApplied'
  BY <1>1 DEF Kept, SavesApplied
<1>8. QED BY <1>2, <1>5, <1>6, <1>7 DEF MInv

LEMMA MountMInv == MInv /\ Mount => MInv'
<1> SUFFICES ASSUME MInv, Mount PROVE MInv'
  OBVIOUS
<1> DEFINE m == Mounts[next]
<1>1. /\ at = "mount" /\ next <= Len(Mounts) /\ next' = next + 1
      /\ UNCHANGED <<program, given, at>> /\ dirty' = dirty /\ writing' = writing
      /\ IF m.whole THEN MountFs(m.name) \/ MountRefused(m.name)
                    ELSE MountShortcut(m.name, m.dir, m.base)
  BY DEF Mount, conf, changes
<1> HIDE DEF m
<1>2. ASSUME open \subseteq open'
      PROVE  Kept' /\ SavesApplied'
  BY <1>1, <1>2 DEF MInv, Kept, SavesApplied
<1>3. CASE m.whole /\ MountFs(m.name)
  <2> DEFINE e == [name |-> m.name, fs |-> m.name, dir |-> "", own |-> TRUE]
  <2>1. next \in 1..Len(Mounts)
    BY <1>1, WholeFirst DEF MInv, Named
  <2>2. m.name # "sdmc" /\ \A j \in 1..(next - 1) : Mounts[j].name # m.name
    BY <1>3, <2>1, WholeFirst DEF m
  <2>3. \A i \in DOMAIN entries : entries[i].name # m.name
    BY <2>2 DEF MInv, Named
  <2>4. FileSystemsOwned' /\ Foremost' /\ Listed' /\ open \subseteq open'
    BY <1>3, <2>3, FsOwned
  <2>5. entries' = entries \/ entries' = Append(entries, e)
    BY <1>3 DEF MountFs, MountDevice
  <2>6. e.name = Mounts[next].name
    BY DEF m
  <2> HIDE DEF e
  <2>7. Named' /\ Configured'
    BY <1>1, <2>5, <2>6, NamesGrow
  <2>8. QED BY <1>2, <2>4, <2>7 DEF MInv
<1>4. CASE m.whole /\ MountRefused(m.name)
  <2>1. UNCHANGED <<entries, open, devices, meant>>
    BY <1>4 DEF MountRefused, AddDevice
  <2>2. Listed'
    BY <2>1 DEF MInv, Listed, Target
  <2>3. FileSystemsOwned' /\ Foremost'
    BY <2>1 DEF MInv, FileSystemsOwned, Foremost
  <2> DEFINE e == [name |-> Mounts[next].name]
  <2>4. e.name = Mounts[next].name
    OBVIOUS
  <2> HIDE DEF e
  <2>5. Named' /\ Configured'
    BY <1>1, <2>1, <2>4, NamesGrow
  <2>6. QED BY <1>2, <2>1, <2>2, <2>3, <2>5 DEF MInv
<1>5. CASE ~m.whole /\ MountShortcut(m.name, m.dir, m.base)
  <2> DEFINE e == [name |-> m.name, fs |-> entries[FindEntry(m.base)].fs, dir |-> m.dir,
                   own |-> FALSE]
  <2>1. FileSystemsOwned' /\ Foremost' /\ Listed' /\ open' = open
    BY <1>5, ShortcutOwned
  <2>2. entries' = entries \/ entries' = Append(entries, e)
    BY <1>5 DEF MountShortcut, MountDevice
  <2>3. e.name = Mounts[next].name
    BY DEF m
  <2> HIDE DEF e
  <2>4. Named' /\ Configured'
    BY <1>1, <2>2, <2>3, NamesGrow
  <2>5. QED BY <1>2, <2>1, <2>4 DEF MInv
<1>6. QED BY <1>1, <1>3, <1>4, <1>5

(* What clients do to the file systems that are mounted.                     *)
LEMMA ServedMInv ==
    ASSUME MInv, Serves, UNCHANGED <<mounts, next, program, given, at>>, dirty' \subseteq open
    PROVE  MInv'
<1>1. Mounts' = Mounts
  BY DEF Mounts, Images, Shortcuts, Over, Fs
<1>2. Listed' /\ FileSystemsOwned' /\ Foremost'
  BY DEF MInv, Listed, FileSystemsOwned, Foremost, mounts, Target
<1>3. Named'
  BY <1>1 DEF MInv, Named, mounts
<1>4. Kept' /\ SavesApplied'
  BY DEF Serves, Kept, SavesApplied, mounts
<1>5. Configured'
  BY DEF MInv, Configured, mounts
<1>6. QED BY <1>2, <1>3, <1>4, <1>5 DEF MInv

LEMMA ReachedIsOpen ==
    ASSUME MInv, NEW s \in BOOLEAN, NEW d, Reachable(s, d)
    PROVE  FsOf(s, d) \in open
<1>1. PICK n : TranslatePath(s, d) = FindEntry(n)
  BY DEF Reachable, TranslatePath
<1>2. TranslatePath(s, d) \in DOMAIN entries
  BY <1>1, FindEntryIsFirst DEF Reachable, MInv, Listed
<1>3. QED BY <1>2 DEF FsOf, MInv, FileSystemsOwned

LEMMA ServingMInv ==
    ASSUME MInv,
           \/ \E s \in BOOLEAN, d \in Range(devices) \cup {NoDevice} :
                WriteBegins(s, d) \/ Change(s, d)
           \/ \E fs \in open : WriteEnds(fs)
           \/ \E s, d \in Range(devices) : Rename(s, d)
    PROVE  MInv'
<1>1. dirty \subseteq open
  BY DEF MInv, Kept
<1>2. ASSUME NEW s \in BOOLEAN, NEW d, WriteBegins(s, d) \/ Change(s, d)
      PROVE  MInv'
  <2>1. Serves /\ UNCHANGED <<mounts, next, program, given, at>>
    BY <1>2 DEF WriteBegins, Change, conf
  <2>2. dirty' = dirty \cup {FsOf(s, d)} /\ Reachable(s, d)
    BY <1>2 DEF WriteBegins, Change
  <2>3. FsOf(s, d) \in open
    BY <2>2, ReachedIsOpen
  <2>4. QED BY <1>1, <2>1, <2>2, <2>3, ServedMInv
<1>3. ASSUME NEW fs, WriteEnds(fs)
      PROVE  MInv'
  <2>1. Serves /\ UNCHANGED <<mounts, next, program, given, at>> /\ dirty' = dirty
    BY <1>3 DEF WriteEnds, conf
  <2>2. QED BY <1>1, <2>1, ServedMInv
<1>4. ASSUME NEW s, NEW d, Rename(s, d)
      PROVE  MInv'
  <2>1. Serves /\ UNCHANGED <<mounts, next, program, given, at>>
    BY <1>4 DEF Rename, conf
  <2>2. dirty' = dirty \cup {FsOf(TRUE, s)} /\ Reachable(TRUE, s)
    BY <1>4 DEF Rename
  <2>3. FsOf(TRUE, s) \in open
    BY <2>2, ReachedIsOpen
  <2>4. QED BY <1>1, <2>1, <2>2, <2>3, ServedMInv
<1>5. QED BY <1>2, <1>3, <1>4

(* Every file system is found by its name, and no file is open to be written,*)
(* so that what clients changed in a save is committed, unless the service   *)
(* fails to.                                                                 *)
LEMMA AppExitMInv == MInv /\ AppExit => MInv'
<1> SUFFICES ASSUME MInv, AppExit PROVE MInv'
  OBVIOUS
<1>1. /\ UNCHANGED <<entries, open, devices, meant, next, program, given>>
      /\ at = "left" /\ at' = "gone" /\ writing = {}
      /\ dirty' = dirty \ (Commits \ failed')
  BY DEF AppExit, UnmountAll, conf, MInv, Kept
<1>2. Mounts' = Mounts
  BY <1>1 DEF Mounts, Images, Shortcuts, Over, Fs
<1>3. Listed' /\ FileSystemsOwned' /\ Foremost'
  BY <1>1 DEF MInv, Listed, FileSystemsOwned, Foremost, Target
<1>4. Named'
  BY <1>1, <1>2 DEF MInv, Named
<1>5. Kept' /\ Configured'
  BY <1>1 DEF MInv, Kept, Configured
<1>6. ASSUME NEW fs \in dirty, fs \in Range(Saves)
      PROVE  fs \in Committed(fs)
  <2>1. fs \in open
    BY <1>6 DEF MInv, Kept
  <2>2. PICK i \in DOMAIN entries :
          /\ entries[i].name = fs /\ entries[i].fs = fs
          /\ \A j \in 1..(i - 1) : entries[j].name # fs
    BY <2>1 DEF MInv, Foremost
  <2> DEFINE f == FindEntry(fs)
  <2>3. /\ f # 0 /\ f \in DOMAIN entries /\ entries[f].name = fs
        /\ \A j \in DOMAIN entries : j < f => entries[j].name # fs
    BY <2>2, FindEntryIsFirst DEF MInv, Listed
  <2>4. Len(entries) \in Nat /\ DOMAIN entries = 1..Len(entries)
    BY SequenceDomain DEF MInv, Listed
  <2>5. Found(fs)
    BY <2>3 DEF Found
  <2> HIDE DEF f
  <2>6. ~(i < f)
    BY <2>2, <2>3
  <2>7. ~(f < i)
    BY <2>2, <2>3, <2>4
  <2>8. f = i
    BY ONLY <2>2, <2>3, <2>4, <2>6, <2>7
  <2>9. entries[f].fs = fs
    BY <2>2, <2>8
  <2>10. QED BY <1>1, <2>5, <2>9 DEF Committed, f
<1>7. SavesApplied'
  BY <1>1, <1>6 DEF SavesApplied, Commits
<1>8. QED BY <1>3, <1>4, <1>5, <1>7 DEF MInv

LEMMA NextMInv == MInv /\ [Next]_vars => MInv'
<1> SUFFICES ASSUME MInv, [Next]_vars PROVE MInv'
  OBVIOUS
<1>1. CASE AppInit
  BY <1>1, AppInitMInv
<1>2. CASE ParseOption
  BY <1>2, Quiet DEF ParseOption, Parse, changes
<1>3. CASE ParseEnds
  BY <1>3, Quiet DEF ParseEnds, Parse, changes
<1>4. CASE ParseFails
  BY <1>4, Quiet DEF ParseFails, Parse, changes
<1>5. CASE ReadIni
  BY <1>5, Quiet DEF ReadIni, changes
<1>6. CASE Mount
  BY <1>6, MountMInv
<1>7. CASE MountsDone
  BY <1>7, Quiet DEF MountsDone, conf, changes
<1>8. CASE Check
  BY <1>8, Quiet DEF Check, conf, changes
<1>9. CASE NoNetwork
  BY <1>9, Quiet DEF NoNetwork, conf, changes
<1>10. CASE \/ \E s \in BOOLEAN, d \in Range(devices) \cup {NoDevice} :
                 WriteBegins(s, d) \/ Change(s, d)
            \/ \E fs \in open : WriteEnds(fs)
            \/ \E s, d \in Range(devices) : Rename(s, d)
  BY <1>10, ServingMInv
<1>11. CASE Leave
  BY <1>11, Quiet DEF Leave, conf
<1>12. CASE AppExit
  BY <1>12, AppExitMInv
<1>13. CASE UNCHANGED vars
  <2>1. UNCHANGED <<program, given, at, next, writing, dirty, failed>>
        /\ UNCHANGED <<entries, open, devices, meant>>
    BY <1>13 DEF vars, mounts
  <2>2. Mounts' = Mounts
    BY <2>1 DEF Mounts, Images, Shortcuts, Over, Fs
  <2>3. Listed' /\ FileSystemsOwned' /\ Foremost'
    BY <2>1 DEF MInv, Listed, FileSystemsOwned, Foremost, Target
  <2>4. Named'
    BY <2>1, <2>2 DEF MInv, Named
  <2>5. Kept' /\ Configured' /\ SavesApplied'
    BY <2>1 DEF MInv, Kept, Configured, SavesApplied
  <2>6. QED BY <2>3, <2>4, <2>5 DEF MInv
<1>14. QED
  BY <1>1, <1>2, <1>3, <1>4, <1>5, <1>6, <1>7, <1>8, <1>9, <1>10, <1>11, <1>12, <1>13
     DEF Next

(* The invariant holds whatever is mounted, refused or configured.           *)
THEOREM MountsInvariance == Spec => []MInv
<1>1. Init => MInv
  BY InitMInv
<1>2. MInv /\ [Next]_vars => MInv'
  BY NextMInv
<1>3. QED BY <1>1, <1>2, PTL DEF Spec

-----------------------------------------------------------------------------
(* What is listed leads to what it was mounted for.                          *)
LEMMA ListedResolves == MInv => DevicesResolve
<1> SUFFICES ASSUME MInv, NEW i \in DOMAIN devices
             PROVE  \/ \E j \in 1..(i - 1) : devices[j] = devices[i]
                    \/ LET e == TranslatePath(TRUE, devices[i])
                       IN  e # 0 /\ Target(entries[e]) = meant[i]
  BY DEF DevicesResolve
<1> DEFINE f == FindEntry(devices[i])
<1>1. /\ Len(entries) \in Nat /\ DOMAIN entries = 1..Len(entries)
      /\ DOMAIN devices = 1..Len(entries)
  BY SequenceDomain DEF MInv, Listed
<1>2. i \in DOMAIN entries
  BY <1>1
<1>3. devices[i] = entries[i].name /\ meant[i] = Target(entries[i])
  BY <1>2 DEF MInv, Listed
<1>4. /\ f # 0 /\ f \in DOMAIN entries /\ entries[f].name = devices[i]
      /\ \A j \in DOMAIN entries : j < f => entries[j].name # devices[i]
  BY <1>2, <1>3, FindEntryIsFirst DEF MInv, Listed
<1>5. TranslatePath(TRUE, devices[i]) = f
  BY <1>2, <1>3 DEF TranslatePath, MInv, Configured
<1> HIDE DEF f
<1>6. ~(i < f)
  BY <1>2, <1>3, <1>4
<1>7. CASE f = i
  BY <1>3, <1>4, <1>5, <1>7
<1>8. CASE f # i
  <2>1. f \in 1..(i - 1)
    BY ONLY <1>1, <1>2, <1>4, <1>6, <1>8
  <2>2. devices[f] = devices[i]
    BY <1>4 DEF MInv, Listed
  <2>3. QED BY <2>1, <2>2
<1>9. QED BY <1>7, <1>8

(* Every device of the root leads to what it was mounted for.                *)
THEOREM DevicesLeadHome == Spec => []DevicesResolve
BY MountsInvariance, ListedResolves, PTL

(* Every file system that is open has the one entry that closes it.          *)
THEOREM FileSystemsHaveOwners == Spec => []FileSystemsOwned
<1>1. MInv => FileSystemsOwned
  BY DEF MInv
<1>2. QED BY <1>1, MountsInvariance, PTL

(* What clients did to the saves of the users is committed when the          *)
(* application is gone, but where the service failed to commit.              *)
THEOREM SavesAreApplied == Spec => []SavesApplied
<1>1. MInv => SavesApplied
  BY DEF MInv
<1>2. QED BY <1>1, MountsInvariance, PTL

-----------------------------------------------------------------------------
(* The command line. The options among its first n arguments, and what they  *)
(* mean together.                                                            *)
FirstOptions(argv, n, k) == {i \in 1..n : argv[i].kind = "key" /\ argv[i].key = k}

FirstMeant(argv, n, k, default) ==
    IF FirstOptions(argv, n, k) = {} THEN default
    ELSE ValueMeant(argv, Max(FirstOptions(argv, n, k)))

ConfigOf(argv, n) ==
    LET p == FirstMeant(argv, n, "port", NoValue)
    IN  [port |-> IF p = NoValue THEN 0 ELSE IntOf[p] % WordSize,
         user |-> FirstMeant(argv, n, "user", ""),
         pass |-> FirstMeant(argv, n, "pass", ""),
         anon |-> FirstOptions(argv, n, "anon") # {}]

MeansSomething(argv, i) ==
    IF IsKey(argv[i])
    THEN /\ argv[i].key \in KnownKeys
         /\ TypeOf(argv[i].key) # "NONE" =>
                /\ argv[i].value # NoValue \/ (i < Len(argv) /\ ~IsKey(argv[i + 1]))
                /\ Converts(TypeOf(argv[i].key), ValueMeant(argv, i))
    ELSE \/ i = Len(argv)
         \/ i > 1 /\ argv[i - 1].kind = "key" /\ argv[i - 1].value = NoValue

LEMMA MeaningOfAll ==
    ASSUME NEW argv
    PROVE  /\ ConfigMeant(argv) = ConfigOf(argv, Stop(argv) - 1)
           /\ Meaningful(argv) <=> \A i \in 1..(Stop(argv) - 1) : MeansSomething(argv, i)
<1>1. \A k, d : /\ OptionsOf(argv, k) = FirstOptions(argv, Stop(argv) - 1, k)
                /\ LastMeant(argv, k, d) = FirstMeant(argv, Stop(argv) - 1, k, d)
  BY DEF OptionsOf, FirstOptions, LastMeant, FirstMeant
<1>2. ConfigMeant(argv) = ConfigOf(argv, Stop(argv) - 1)
  BY <1>1 DEF ConfigMeant, ConfigOf
<1>3. QED BY <1>2 DEF Meaningful, MeansSomething

LEMMA ArgumentKinds ==
    ASSUME NEW argv \in Seq(Arguments)
    PROVE  /\ Len(argv) \in Nat /\ DOMAIN argv = 1..Len(argv)
           /\ \A i \in 1..Len(argv) : argv[i].kind \in {"key", "text", "end"}
<1>1. Len(argv) \in Nat /\ DOMAIN argv = 1..Len(argv)
      /\ \A i \in 1..Len(argv) : argv[i] \in Arguments
  OBVIOUS
<1>2. \A a \in Arguments : a.kind \in {"key", "text", "end"}
  BY DEF Arguments, Key, Text, End
<1>3. QED BY <1>1, <1>2

(* What args_parse takes in one call: the option at i, and the text behind   *)
(* it if that is its value.                                                  *)
LEMMA OptionTaken ==
    ASSUME NEW argv \in Seq(Arguments), NEW i \in 1..(Len(argv) + 1),
           ArgsResult(argv, i) = "OK"
    PROVE  /\ i \in 1..Len(argv) /\ argv[i].kind = "key" /\ argv[i].key \in KnownKeys
           /\ TypeOf(argv[i].key) # "NONE" =>
                /\ ValueAt(argv, i) # NoValue /\ ValueAt(argv, i) = ValueMeant(argv, i)
                /\ Converts(TypeOf(argv[i].key), ValueAt(argv, i))
                /\ MeansSomething(argv, i)
           /\ \/ NextIndex(argv, i) = i + 1
              \/ /\ NextIndex(argv, i) = i + 2 /\ i + 1 \in 1..Len(argv)
                 /\ argv[i + 1].kind = "text" /\ argv[i].value = NoValue
<1>1. Len(argv) \in Nat /\ i \in Nat /\ i <= Len(argv) + 1
  BY ArgumentKinds
<1>2. ~(i > Len(argv) \/ (i <= Len(argv) /\ argv[i].kind = "end"))
  BY DEF ArgsResult
<1>3. i \in 1..Len(argv) /\ argv[i].kind # "end"
  BY <1>1, <1>2
<1>4. IsKey(argv[i])
  BY <1>1, <1>2, <1>3 DEF ArgsResult
<1>5. argv[i].kind = "key"
  BY <1>3, <1>4, ArgumentKinds DEF IsKey
<1> DEFINE k == argv[i].key
           v == ValueAt(argv, i)
<1>6. /\ k \in KnownKeys
      /\ TypeOf(k) # "NONE" => v # NoValue /\ Converts(TypeOf(k), v)
  BY <1>1, <1>2, <1>3, <1>4 DEF ArgsResult
<1>7. TakesNext(argv, i) =>
        /\ i + 1 \in 1..Len(argv) /\ argv[i + 1].kind = "text" /\ argv[i].value = NoValue
        /\ v = argv[i + 1].value /\ ~IsKey(argv[i + 1]) /\ i < Len(argv)
  BY <1>1, <1>3 DEF TakesNext, ValueAt, IsKey
<1>8. ~TakesNext(argv, i) => v = argv[i].value
  BY DEF ValueAt
<1>9. TypeOf(k) # "NONE" => v = ValueMeant(argv, i)
  BY <1>6, <1>7, <1>8 DEF ValueMeant
<1> HIDE DEF k, v
<1>10. TypeOf(k) # "NONE" => MeansSomething(argv, i)
  BY <1>4, <1>6, <1>7, <1>8, <1>9 DEF MeansSomething, k
<1>11. QED BY <1>3, <1>5, <1>6, <1>7, <1>9, <1>10 DEF NextIndex, k, v

(* The option at i is the last of its key, up to n.                          *)
LEMMA LastOption ==
    ASSUME NEW argv \in Seq(Arguments), NEW i \in 1..Len(argv), NEW n \in {i, i + 1},
           argv[i].kind = "key", n = i + 1 => argv[n].kind = "text", NEW k, NEW d
    PROVE  /\ argv[i].key # k =>
                /\ FirstOptions(argv, n, k) = FirstOptions(argv, i - 1, k)
                /\ FirstMeant(argv, n, k, d) = FirstMeant(argv, i - 1, k, d)
           /\ argv[i].key = k =>
                /\ FirstOptions(argv, n, k) # {}
                /\ FirstMeant(argv, n, k, d) = ValueMeant(argv, i)
<1>1. i \in Nat /\ n \in Nat /\ i <= n /\ i \in 1..n
  BY ArgumentKinds
<1>2. \A j \in 1..n : j = i \/ j \in 1..(i - 1) \/ (j = n /\ n = i + 1)
  BY <1>1
<1>3. \A j \in 1..(i - 1) : j \in 1..n /\ j # i
  BY <1>1
<1>4. ASSUME argv[i].key # k
      PROVE  FirstOptions(argv, n, k) = FirstOptions(argv, i - 1, k)
  BY <1>2, <1>3, <1>4 DEF FirstOptions
<1>5. ASSUME argv[i].key = k
      PROVE  FirstOptions(argv, n, k) # {} /\ Max(FirstOptions(argv, n, k)) = i
  <2> DEFINE T == FirstOptions(argv, n, k)
  <2>1. i \in T
    BY <1>1, <1>5 DEF FirstOptions
  <2>2. \A j \in T : j \in Nat /\ j <= i
    BY <1>1, <1>2 DEF FirstOptions
  <2> HIDE DEF T
  <2>3. \A x \in T : (\A y \in T : x >= y) => x = i
    BY <1>1, <2>1, <2>2
  <2>4. Max(T) = i
    BY <1>1, <2>1, <2>2, <2>3 DEF Max
  <2>5. QED BY <2>1, <2>4 DEF T
<1>6. QED BY <1>4, <1>5 DEF FirstMeant

(* The options and whether they have a value.                                *)
LEMMA KnownTypes ==
    /\ TypeOf("port") = "INT" /\ TypeOf("user") = "STR" /\ TypeOf("pass") = "STR"
    /\ TypeOf("anon") = "BOOL"
<1>1. \A o \in ARGS_META :
        /\ o.key = "port" => o.type = "INT"
        /\ o.key = "user" => o.type = "STR"
        /\ o.key = "pass" => o.type = "STR"
        /\ o.key = "anon" => o.type = "BOOL"
  BY DEF ARGS_META, Option
<1>2. \A k \in {"port", "user", "pass", "anon"} : \E o \in ARGS_META : o.key = k
  BY DEF ARGS_META, Option
<1>3. \A k : (\E o \in ARGS_META : o.key = k) =>
        \E o \in ARGS_META : o.key = k /\ TypeOf(k) = o.type
  BY DEF TypeOf
<1>4. TypeOf("port") = "INT"
  <2>1. PICK o \in ARGS_META : o.key = "port" /\ TypeOf("port") = o.type
    BY ONLY <1>2, <1>3, "port" \in {"port", "user", "pass", "anon"}
  <2>2. QED BY <1>1, <2>1
<1>5. TypeOf("user") = "STR"
  <2>1. PICK o \in ARGS_META : o.key = "user" /\ TypeOf("user") = o.type
    BY ONLY <1>2, <1>3, "user" \in {"port", "user", "pass", "anon"}
  <2>2. QED BY <1>1, <2>1
<1>6. TypeOf("pass") = "STR"
  <2>1. PICK o \in ARGS_META : o.key = "pass" /\ TypeOf("pass") = o.type
    BY ONLY <1>2, <1>3, "pass" \in {"port", "user", "pass", "anon"}
  <2>2. QED BY <1>1, <2>1
<1>7. TypeOf("anon") = "BOOL"
  <2>1. PICK o \in ARGS_META : o.key = "anon" /\ TypeOf("anon") = o.type
    BY ONLY <1>2, <1>3, "anon" \in {"port", "user", "pass", "anon"}
  <2>2. QED BY <1>1, <2>1
<1>8. QED BY <1>4, <1>5, <1>6, <1>7

(* The loop of main() stores what the option means.                          *)
LEMMA OptionStored ==
    ASSUME NEW argv \in Seq(Arguments), NEW i \in 1..Len(argv), NEW n \in {i, i + 1},
           argv[i].kind = "key", n = i + 1 => argv[n].kind = "text",
           argv[i].key \in {"port", "user", "pass", "anon"},
           ValueMeant(argv, i) # NoValue
    PROVE  ConfigOf(argv, n) = Configure(ConfigOf(argv, i - 1), argv[i].key, ValueMeant(argv, i))
<1> DEFINE k == argv[i].key
           v == ValueMeant(argv, i)
           c == ConfigOf(argv, i - 1)
           d == ConfigOf(argv, n)
<1> DEFINE Same(x, e) ==
             /\ FirstOptions(argv, n, x) = FirstOptions(argv, i - 1, x)
             /\ FirstMeant(argv, n, x, e) = FirstMeant(argv, i - 1, x, e)
           New(x, e) == FirstOptions(argv, n, x) # {} /\ FirstMeant(argv, n, x, e) = v
<1>0. \A x, e : (k # x => Same(x, e)) /\ (k = x => New(x, e))
  BY LastOption
<1>1. /\ IF k = "port" THEN New("port", NoValue) ELSE Same("port", NoValue)
      /\ IF k = "user" THEN New("user", "") ELSE Same("user", "")
      /\ IF k = "pass" THEN New("pass", "") ELSE Same("pass", "")
      /\ IF k = "anon" THEN New("anon", "") ELSE Same("anon", "")
  <2> HIDE DEF k, Same, New
  <2> QED
    BY ONLY <1>0
<1>2. /\ c = [port |-> c.port, user |-> c.user, pass |-> c.pass, anon |-> c.anon]
      /\ d = [port |-> d.port, user |-> d.user, pass |-> d.pass, anon |-> d.anon]
  BY DEF ConfigOf
<1> DEFINE Number(p) == IF p = NoValue THEN 0 ELSE IntOf[p] % WordSize
<1>3. /\ c.port = Number(FirstMeant(argv, i - 1, "port", NoValue))
      /\ c.user = FirstMeant(argv, i - 1, "user", "")
      /\ c.pass = FirstMeant(argv, i - 1, "pass", "")
      /\ c.anon = (FirstOptions(argv, i - 1, "anon") # {})
      /\ d.port = Number(FirstMeant(argv, n, "port", NoValue))
      /\ d.user = FirstMeant(argv, n, "user", "")
      /\ d.pass = FirstMeant(argv, n, "pass", "")
      /\ d.anon = (FirstOptions(argv, n, "anon") # {})
      /\ Number(v) = IntOf[v] % WordSize
  BY DEF ConfigOf
<1> v # NoValue /\ k \in {"port", "user", "pass", "anon"}
  OBVIOUS
<1> HIDE DEF k, v, c, d, Number
<1>4. /\ k = "port" => d = [c EXCEPT !.port = IntOf[v] % WordSize]
      /\ k = "user" => d = [c EXCEPT !.user = v]
      /\ k = "pass" => d = [c EXCEPT !.pass = v]
      /\ k = "anon" => d = [c EXCEPT !.anon = TRUE]
  <2>1. CASE k = "port"
    <3>1. d.user = c.user /\ d.pass = c.pass /\ d.anon = c.anon /\ d.port = Number(v)
      BY <1>1, <1>3, <2>1
    <3>2. QED BY <1>2, <1>3, <2>1, <3>1
  <2>2. CASE k = "user"
    <3>1. d.port = c.port /\ d.pass = c.pass /\ d.anon = c.anon /\ d.user = v
      BY <1>1, <1>3, <2>2
    <3>2. QED BY <1>2, <2>2, <3>1
  <2>3. CASE k = "pass"
    <3>1. d.port = c.port /\ d.user = c.user /\ d.anon = c.anon /\ d.pass = v
      BY <1>1, <1>3, <2>3
    <3>2. QED BY <1>2, <2>3, <3>1
  <2>4. CASE k = "anon"
    <3>1. d.port = c.port /\ d.user = c.user /\ d.pass = c.pass /\ d.anon = TRUE
      BY <1>1, <1>3, <2>4
    <3>2. QED BY <1>2, <2>4, <3>1
  <2>5. QED BY <2>1, <2>2, <2>3, <2>4
<1>5. d = Configure(c, k, v)
  BY <1>4 DEF Configure
<1>6. QED BY <1>5 DEF c, d, k, v

(* What the parser has read is all before the first "--" or the last text    *)
(* when it is done.                                                          *)
LEMMA AllRead ==
    ASSUME NEW argv \in Seq(Arguments), NEW i \in 1..(Len(argv) + 1),
           \A j \in 1..(i - 1) : argv[j].kind # "end" /\ MeansSomething(argv, j),
           ArgsResult(argv, i) \in {"DONE", "EXTRA_ARGS"}
    PROVE  Meaningful(argv) /\ ConfigMeant(argv) = ConfigOf(argv, i - 1)
<1> DEFINE L == Len(argv)
           Ends == {j \in DOMAIN argv : argv[j].kind = "end"} \cup {L + 1}
           s == Stop(argv)
<1>1. L \in Nat /\ DOMAIN argv = 1..L /\ i \in Nat /\ i <= L + 1 /\ i >= 1
  BY ArgumentKinds
<1>2. s \in Ends /\ \A y \in Ends : s <= y
  <2>1. Ends \subseteq Nat /\ Ends # {}
    BY <1>1
  <2>2. s = Min(Ends)
    BY DEF Stop
  <2> HIDE DEF Ends, s
  <2>3. QED BY <2>1, <2>2, MinIsLeast
<1>3. s \in 1..(L + 1) /\ (s # L + 1 => argv[s].kind = "end")
  BY <1>1, <1>2
<1>4. \A j \in 1..L : argv[j].kind = "end" => s <= j
  BY <1>1, <1>2
<1> HIDE DEF Ends, s, L
<1>5. s >= i
  <2>1. s \in 1..(i - 1) => s # L + 1
    BY <1>1
  <2>2. ~(s \in 1..(i - 1))
    BY <1>3, <2>1
  <2>3. QED BY <1>1, <1>3, <2>2
<1>6. CASE ArgsResult(argv, i) = "DONE"
  <2>1. i > L \/ argv[i].kind = "end"
    <3>1. SUFFICES ASSUME ~(i > L \/ (i <= L /\ argv[i].kind = "end")) PROVE FALSE
      BY <1>1
    <3>2. i <= L
      BY <1>1, <3>1
    <3>3. CASE IsKey(argv[i])
      BY <1>6, <3>1, <3>2, <3>3 DEF ArgsResult, L
    <3>4. CASE ~IsKey(argv[i])
      BY <1>6, <3>1, <3>2, <3>4 DEF ArgsResult, L
    <3>5. QED BY <3>3, <3>4
  <2>2. s = i
    <3>1. CASE i > L
      BY <1>1, <1>3, <1>5, <3>1
    <3>2. CASE i <= L
      BY <1>1, <1>3, <1>4, <1>5, <2>1, <3>2
    <3>3. QED BY <1>1, <3>1, <3>2
  <2>3. QED BY <2>2, MeaningOfAll DEF s
<1>7. CASE ArgsResult(argv, i) = "EXTRA_ARGS"
  <2>1. i = L /\ ~IsKey(argv[i])
    <3>1. ~(i > Len(argv) \/ (i <= Len(argv) /\ argv[i].kind = "end"))
      <4>1. SUFFICES ASSUME i > Len(argv) \/ (i <= Len(argv) /\ argv[i].kind = "end")
                     PROVE  FALSE
        OBVIOUS
      <4>2. ArgsResult(argv, i) = "DONE"
        BY <1>1, <4>1 DEF ArgsResult, IsKey, L
      <4>3. QED BY <1>7, <4>2
    <3>2. i <= L
      BY <1>1, <3>1 DEF L
    <3>3. ~IsKey(argv[i])
      <4>1. SUFFICES ASSUME IsKey(argv[i]) PROVE FALSE
        OBVIOUS
      <4>2. QED BY <1>7, <3>1, <4>1 DEF ArgsResult, L
    <3>4. i = L
      BY <1>7, <3>1, <3>2, <3>3 DEF ArgsResult, L
    <3>5. QED BY <3>3, <3>4
  <2>2. argv[i].kind = "text"
    BY <2>1 DEF IsKey
  <2>3. s = i + 1
    <3>1. s # i
      BY <1>1, <1>3, <2>1, <2>2
    <3>2. QED BY <1>1, <1>3, <1>5, <2>1, <3>1
  <2>4. MeansSomething(argv, i)
    BY <2>1 DEF MeansSomething, L
  <2>5. \A j \in 1..(s - 1) : j \in 1..(i - 1) \/ j = i
    BY <1>1, <2>3
  <2>6. \A j \in 1..(s - 1) : MeansSomething(argv, j)
    BY <2>4, <2>5
  <2>7. Meaningful(argv)
    BY <2>6, MeaningOfAll DEF s
  <2>8. s - 1 = i
    BY <1>1, <2>3
  <2>9. \A k : FirstOptions(argv, i, k) = FirstOptions(argv, i - 1, k)
    <3>1. (\A j \in 1..i : j = i \/ j \in 1..(i - 1)) /\ \A j \in 1..(i - 1) : j \in 1..i
      BY <1>1
    <3>2. QED BY <2>2, <3>1 DEF FirstOptions
  <2>10. ConfigOf(argv, i) = ConfigOf(argv, i - 1)
    <3>1. \A k, d : FirstMeant(argv, i, k, d) = FirstMeant(argv, i - 1, k, d)
      BY <2>9 DEF FirstMeant
    <3>2. QED BY <2>9, <3>1 DEF ConfigOf
  <2>11. QED BY <2>7, <2>8, <2>10, MeaningOfAll DEF s
<1>8. QED BY <1>6, <1>7

-----------------------------------------------------------------------------
(* The invariant of the Linux program: what was read so far means something, *)
(* and the configuration is that.                                            *)
Reading ==
    /\ index \in 1..(Len(given) + 1)
    /\ \A j \in 1..(index - 1) : given[j].kind # "end" /\ MeansSomething(given, j)
    /\ config = ConfigOf(given, index - 1)

LineInv ==
    program = "linux" =>
        /\ given \in Seq(Arguments)
        /\ at \in {"config", "check", "usage", "failed", "serving"}
        /\ at = "config" => Reading
        /\ at \in {"check", "serving"} => Meaningful(given) /\ config = ConfigMeant(given)
        /\ at = "serving" => config.port # 0

(* Before the first argument nothing is set.                                 *)
LEMMA NothingRead == \A argv : ConfigOf(argv, 0) = NoConfig
<1>1. \A argv, k, d : FirstOptions(argv, 0, k) = {} /\ FirstMeant(argv, 0, k, d) = d
  BY DEF FirstOptions, FirstMeant
<1>2. QED BY <1>1 DEF ConfigOf, NoConfig

LEMMA InitLineInv == Init => LineInv
<1> SUFFICES ASSUME Init, program = "linux" PROVE LineInv
  BY DEF LineInv
<1>1. given \in Seq(Arguments) /\ at = "config" /\ index = 1 /\ config = NoConfig
  BY LinesAssumption DEF Init, OnSwitch
<1>2. Len(given) \in Nat
  BY <1>1
<1>3. Reading
  BY <1>1, <1>2, NothingRead DEF Reading
<1>4. QED BY <1>1, <1>3 DEF LineInv

LEMMA ParseOptionLineInv ==
    ASSUME LineInv, ParseOption, program = "linux"
    PROVE  /\ Reading' /\ given' = given /\ program' = program
           /\ at' = at \/ (at' = "usage" /\ UNCHANGED <<config, index>>)
           /\ at' = "usage" \/ config' = Configure(config, given[index].key, ValueAt(given, index))
<1>1. /\ Reading /\ given \in Seq(Arguments) /\ given' = given /\ program' = program
      /\ ArgsResult(given, index) = "OK" /\ index \in 1..(Len(given) + 1)
  BY DEF LineInv, ParseOption, Parse, Reading
<1> DEFINE k == given[index].key
           i == index
           n == NextIndex(given, i) - 1
<1>2. /\ i \in 1..Len(given) /\ given[i].kind = "key" /\ k \in KnownKeys
      /\ TypeOf(k) # "NONE" =>
           /\ ValueAt(given, i) # NoValue /\ ValueAt(given, i) = ValueMeant(given, i)
           /\ Converts(TypeOf(k), ValueAt(given, i))
           /\ MeansSomething(given, i)
      /\ \/ NextIndex(given, i) = i + 1
         \/ /\ NextIndex(given, i) = i + 2 /\ i + 1 \in 1..Len(given)
            /\ given[i + 1].kind = "text" /\ given[i].value = NoValue
  BY <1>1, OptionTaken
<1>3. CASE k \in {"help", "version"}
  <2>1. at' = "usage" /\ config' = config /\ index' = index
    BY <1>3 DEF ParseOption
  <2>2. QED BY <1>1, <2>1 DEF Reading
<1>4. CASE k \notin {"help", "version"}
  <2>1. /\ config' = Configure(config, k, ValueAt(given, i)) /\ index' = NextIndex(given, i)
        /\ at' = at
    BY <1>4 DEF ParseOption
  <2>2. k \in {"port", "user", "pass", "anon"} /\ TypeOf(k) # "NONE"
    <3>1. k \in {"port", "user", "pass", "anon"}
      BY <1>2, <1>4 DEF KnownKeys, ARGS_META, Option
    <3>2. QED BY <3>1, KnownTypes
  <2>3. Len(given) \in Nat /\ i \in Nat
    BY <1>1, <1>2
  <2>4. /\ n \in {i, i + 1} /\ index' = n + 1 /\ index' \in 1..(Len(given) + 1)
        /\ n = i + 1 => n \in 1..Len(given) /\ given[n].kind = "text" /\ given[i].value = NoValue
    BY <1>2, <2>1, <2>3
  <2> HIDE DEF n, k, i
  <2>5. config' = ConfigOf(given, n)
    <3>1. config = ConfigOf(given, i - 1)
      BY <1>1 DEF Reading, i
    <3>2. ConfigOf(given, n) = Configure(ConfigOf(given, i - 1), given[i].key, ValueMeant(given, i))
      <4>1. /\ given \in Seq(Arguments) /\ i \in 1..Len(given) /\ n \in {i, i + 1}
            /\ given[i].kind = "key" /\ given[i].key \in {"port", "user", "pass", "anon"}
        <5>1. given \in Seq(Arguments)
          BY <1>1
        <5>2. i \in 1..Len(given) /\ given[i].kind = "key"
          BY <1>2
        <5>3. QED BY ONLY <2>2, <2>4, <5>1, <5>2 DEF k, i
      <4>2. n = i + 1 => given[n].kind = "text"
        BY <2>4
      <4>3. ValueMeant(given, i) # NoValue
        BY <1>2, <2>2
      <4>4. QED BY ONLY <4>1, <4>2, <4>3, OptionStored
    <3>3. ValueAt(given, i) = ValueMeant(given, i)
      BY <1>2, <2>2
    <3>4. QED BY ONLY <2>1, <3>1, <3>2, <3>3 DEF k, i
  <2>6. ASSUME NEW j \in 1..n
        PROVE  given[j].kind # "end" /\ MeansSomething(given, j)
    <3>1. j \in 1..(i - 1) \/ j = i \/ (j = i + 1 /\ n = i + 1)
      BY <2>3, <2>4
    <3>2. CASE j \in 1..(i - 1)
      BY <1>1, <3>2 DEF Reading, i
    <3>3. CASE j = i
      BY <1>2, <2>2, <3>3
    <3>4. CASE j = i + 1 /\ n = i + 1
      <4>1. j > 1 /\ j - 1 = i
        BY <1>2, <2>3, <3>4
      <4>2. given[j].kind = "text" /\ given[j - 1].kind = "key" /\ given[j - 1].value = NoValue
        BY <1>2, <2>4, <3>4, <4>1
      <4>3. QED BY <4>1, <4>2 DEF MeansSomething, IsKey
    <3>5. QED BY <3>1, <3>2, <3>3, <3>4
  <2>7. index' - 1 = n
    BY <2>3, <2>4
  <2>8. Reading'
    BY <1>1, <2>4, <2>5, <2>6, <2>7 DEF Reading
  <2>9. QED BY <1>1, <2>1, <2>8 DEF k, i
<1>5. QED BY <1>3, <1>4

(* The other steps keep what was read, and serve only with it.               *)
LEMMA NextLineInv == LineInv /\ [Next]_vars => LineInv'
<1> SUFFICES ASSUME LineInv, [Next]_vars, program' = "linux" PROVE LineInv'
  BY DEF LineInv
<1>1. program' = program
  BY DEF Next, vars, AppInit, ParseOption, ParseEnds, ParseFails, Parse, ReadIni, Mount,
         MountsDone, Check, NoNetwork, WriteBegins, Change, WriteEnds, Rename, Leave, AppExit,
         conf
<1>2. /\ program = "linux" /\ given \in Seq(Arguments)
      /\ at \in {"config", "check", "usage", "failed", "serving"}
      /\ at = "config" => Reading
      /\ at \in {"check", "serving"} => Meaningful(given) /\ config = ConfigMeant(given)
      /\ at = "serving" => config.port # 0
  BY <1>1 DEF LineInv
<1>3. CASE ParseOption
  <2>1. at = "config"
    BY <1>3 DEF ParseOption, Parse
  <2>2. Reading' /\ given' = given /\ (at' = at \/ at' = "usage")
    BY <1>2, <1>3, ParseOptionLineInv
  <2>3. QED BY <1>2, <2>1, <2>2 DEF LineInv
<1>4. CASE ParseEnds
  <2>1. /\ at = "config" /\ at' = "check" /\ given' = given /\ config' = config
        /\ ArgsResult(given, index) \in {"DONE", "EXTRA_ARGS"}
    BY <1>4 DEF ParseEnds, Parse
  <2>2. Meaningful(given) /\ ConfigMeant(given) = ConfigOf(given, index - 1)
    BY <1>2, <2>1, AllRead DEF Reading
  <2>3. Meaningful(given)' /\ config' = ConfigMeant(given)'
    BY <1>2, <2>1, <2>2 DEF Reading
  <2>4. QED BY <1>2, <2>1, <2>3 DEF LineInv
<1>5. CASE ParseFails
  <2>1. at' = "failed" /\ given' = given
    BY <1>5 DEF ParseFails, Parse
  <2>2. QED BY <1>2, <2>1 DEF LineInv
<1>6. CASE Check
  <2>1. at = "check" /\ at' \in {"failed", "serving"} /\ UNCHANGED <<given, config>>
    BY <1>6 DEF Check, conf
  <2>2. at' = "serving" => config.port # 0
    BY <1>2, <1>6 DEF Check, PortMissing
  <2>3. Meaningful(given)' /\ config' = ConfigMeant(given)'
    BY <1>2, <2>1
  <2>4. QED BY <1>2, <2>1, <2>2, <2>3 DEF LineInv
<1>7. CASE UNCHANGED vars
  <2>1. UNCHANGED <<program, given, index, config, at>>
    BY <1>7 DEF vars
  <2>2. QED BY <1>2, <2>1 DEF LineInv, Reading
<1>8. ~AppInit /\ ~ReadIni /\ ~Mount /\ ~MountsDone /\ ~NoNetwork /\ ~Leave /\ ~AppExit
  BY <1>2 DEF AppInit, ReadIni, Mount, MountsDone, NoNetwork, Leave, AppExit
<1>9. ~Serves
  BY <1>2 DEF Serves, OnSwitch
<1>10. /\ \A s, d : ~WriteBegins(s, d) /\ ~Change(s, d) /\ ~Rename(s, d)
       /\ \A fs : ~WriteEnds(fs)
  BY <1>9 DEF WriteBegins, Change, Rename, WriteEnds
<1>11. QED BY <1>3, <1>4, <1>5, <1>6, <1>7, <1>8, <1>10 DEF Next

(* The invariant of the command line holds for lines of any length.          *)
THEOREM LineInvariance == Spec => []LineInv
BY InitLineInv, NextLineInv, PTL DEF Spec

(* The port that was asked for is the one that is listened on.               *)
LEMMA PortKept ==
    ASSUME NEW p \in 1..(PortSize - 1)
    PROVE  (p % WordSize) % PortSize = p
<1>1. PortSize \in Nat /\ WordSize \in Nat /\ PortSize <= WordSize
  <2>1. WordSize \in Nat
    BY TextsAssumption
  <2>2. QED BY ONLY <2>1, PortAssumption
<1>2. p \in Nat /\ 0 <= p /\ p < PortSize /\ p < WordSize
  BY <1>1
<1>3. p % WordSize = p
  BY <1>1, <1>2
<1>4. p % PortSize = p
  BY <1>1, <1>2
<1>5. QED BY <1>3, <1>4

(* The Linux program serves with what its command line means, for lines of   *)
(* any length, whatever options are repeated and however values are given.   *)
THEOREM LinesAreUnderstood == Spec => []ServesWhatWasMeant
<1>1. LineInv => ServesWhatWasMeant
  <2> SUFFICES ASSUME LineInv, program = "linux", at = "serving"
               PROVE  /\ Meaningful(given)
                      /\ config = ConfigMeant(given)
                      /\ LET p == IntOf[LastMeant(given, "port", NoValue)]
                         IN  p \in 1..(PortSize - 1) => ListensOn = p
    BY DEF ServesWhatWasMeant
  <2>1. Meaningful(given) /\ config = ConfigMeant(given) /\ config.port # 0
    BY DEF LineInv
  <2> DEFINE t == LastMeant(given, "port", NoValue)
             p == IntOf[t]
  <2>2. config.port = IF t = NoValue THEN 0 ELSE p % WordSize
    BY <2>1 DEF ConfigMeant
  <2>3. config.port = p % WordSize
    <3> HIDE DEF t, p
    <3> QED
      BY ONLY <2>1, <2>2
  <2>4. ListensOn = (p % WordSize) % PortSize
    BY <2>3 DEF ListensOn
  <2> HIDE DEF p, t
  <2>5. p \in 1..(PortSize - 1) => ListensOn = p
    BY <2>4, PortKept
  <2>6. QED BY <2>1, <2>5 DEF p, t
<1>2. QED BY <1>1, LineInvariance, PTL

-----------------------------------------------------------------------------
(* The types, from both invariants.                                          *)
LEMMA WordHolds ==
    ASSUME NEW n \in Int
    PROVE  n % WordSize \in 0..(WordSize - 1)
<1>1. WordSize \in Nat \ {0}
  BY TextsAssumption
<1>2. QED BY ONLY <1>1, n \in Int

LEMMA InitTypes == Init => TypeOK
<1> SUFFICES ASSUME Init PROVE TypeOK
  OBVIOUS
<1>1. config.port \in 0..(WordSize - 1) /\ config.anon \in BOOLEAN
  <2>1. WordSize \in Nat \ {0}
    BY TextsAssumption
  <2>2. config.port = 0 /\ config.anon = FALSE
    BY DEF Init, NoConfig
  <2>3. 0 \in 0..(WordSize - 1)
    BY ONLY <2>1
  <2>4. QED BY ONLY <2>2, <2>3
<1>2. Len(entries) <= DevicesMax /\ Len(devices) <= DevicesMax
  BY DevicesAssumption DEF Init, MountsInit
<1>3. QED BY <1>1, <1>2 DEF Init, TypeOK

(* One entry more only where there is room.                                  *)
LEMMA TableHolds ==
    ASSUME Listed, Len(entries) <= DevicesMax, NEW n, NEW d, NEW fs, NEW own \in BOOLEAN,
           MountDevice(n, d, fs, own)
    PROVE  Len(entries') <= DevicesMax /\ Len(devices') <= DevicesMax
<1>1. Len(entries) \in Nat /\ DevicesMax \in Nat
  BY SequenceDomain, DevicesAssumption DEF Listed
<1> DEFINE e == [name |-> n, fs |-> fs, dir |-> d, own |-> own]
<1>2. /\ Listed'
      /\ ~Mountable(n) => entries' = entries
      /\ Mountable(n) => entries' = Append(entries, e)
  BY MountListed
<1> HIDE DEF e
<1>3. Len(devices') = Len(entries')
  BY <1>2 DEF Listed
<1>4. CASE Mountable(n)
  <2>1. Len(entries) < DevicesMax
    BY <1>4 DEF Mountable
  <2>2. Len(entries') = Len(entries) + 1
    <3>1. IsSequence(entries) /\ entries' = Append(entries, e)
      BY <1>2, <1>4 DEF Listed
    <3>2. QED BY ONLY <3>1, AppendedProperties
  <2>3. QED BY ONLY <1>1, <1>3, <2>1, <2>2
<1>5. CASE ~Mountable(n)
  BY <1>2, <1>3, <1>5
<1>6. QED BY <1>4, <1>5

(* What is mounted fits the table, and nothing is unmounted under a file.    *)
LEMMA MountingTypes ==
    ASSUME MInv, TypeOK,
           \/ \E n : MountFs(n) \/ MountRefused(n)
           \/ \E n, d, base : MountShortcut(n, d, base)
    PROVE  Len(entries') <= DevicesMax /\ Len(devices') <= DevicesMax /\ open \subseteq open'
<1>1. Listed /\ Len(entries) <= DevicesMax /\ Len(devices) <= DevicesMax
  BY DEF MInv, TypeOK
<1>2. ASSUME NEW n, MountFs(n)
      PROVE  Len(entries') <= DevicesMax /\ Len(devices') <= DevicesMax /\ open \subseteq open'
  <2>1. MountDevice(n, "", n, TRUE) /\ open \subseteq open'
    BY <1>2 DEF MountFs, HelperOpen
  <2>2. QED BY <1>1, <2>1, TableHolds
<1>3. ASSUME NEW n, MountRefused(n)
      PROVE  Len(entries') <= DevicesMax /\ Len(devices') <= DevicesMax /\ open \subseteq open'
  BY <1>1, <1>3 DEF MountRefused, AddDevice
<1>4. ASSUME NEW n, NEW d, NEW base, MountShortcut(n, d, base)
      PROVE  Len(entries') <= DevicesMax /\ Len(devices') <= DevicesMax /\ open \subseteq open'
  <2>1. open' = open
    BY <1>4 DEF MountShortcut
  <2>2. CASE Found(base)
    <3>1. MountDevice(n, d, entries[FindEntry(base)].fs, FALSE)
      BY <1>4, <2>2 DEF MountShortcut
    <3>2. Len(entries') <= DevicesMax /\ Len(devices') <= DevicesMax
      BY <1>1, <3>1, TableHolds
    <3>3. QED BY <2>1, <3>2
  <2>3. CASE ~Found(base)
    BY <1>1, <1>4, <2>1, <2>3 DEF MountShortcut
  <2>4. QED BY <2>2, <2>3
<1>5. QED BY <1>2, <1>3, <1>4

LEMMA ReadTypes ==
    ASSUME LineInv, MInv, TypeOK, ParseOption \/ ReadIni
    PROVE  TypeOK'
<1>1. /\ at' \in {"config", "usage", "mount", "check"}
      /\ UNCHANGED <<writing, dirty, failed, entries, open, devices>> /\ next' = next
  BY DEF ParseOption, Parse, ReadIni, changes, mounts
<1>2. index' \in Nat /\ config'.port \in 0..(WordSize - 1) /\ config'.anon \in BOOLEAN
  <2>1. CASE ParseOption
    <3> DEFINE k == given[index].key
               v == ValueAt(given, index)
    <3>1. program = "linux" /\ at = "config" /\ ArgsResult(given, index) = "OK"
      BY <2>1 DEF ParseOption, Parse
    <3>2. Reading /\ given \in Seq(Arguments)
      BY <3>1 DEF LineInv
    <3>3. Reading' /\ given' = given
      BY <2>1, <3>1, ParseOptionLineInv
    <3>4. index' \in Nat
      BY <3>2, <3>3 DEF Reading
    <3>5. /\ config = ConfigOf(given, index - 1) /\ config' = ConfigOf(given, index - 1)'
      BY <3>2, <3>3 DEF Reading
    <3>6. config'.anon \in BOOLEAN
      BY <3>5 DEF ConfigOf
    <3>7. CASE config' = config
      BY <3>4, <3>7 DEF TypeOK
    <3>8. CASE config' # config
      <4>1. config' = Configure(config, k, v) /\ k \notin {"help", "version"}
        BY <2>1, <3>8 DEF ParseOption
      <4>2. /\ k \in KnownKeys
            /\ TypeOf(k) # "NONE" => Converts(TypeOf(k), v)
        BY <3>1, <3>2, OptionTaken DEF Reading
      <4>3. k \in {"port", "user", "pass", "anon"}
        BY <4>1, <4>2 DEF KnownKeys, ARGS_META, Option
      <4>4. config = [port |-> config.port, user |-> config.user, pass |-> config.pass,
                      anon |-> config.anon]
        BY <3>5 DEF ConfigOf
      <4> HIDE DEF k, v
      <4>5. CASE k = "port"
        <5>1. v \in DOMAIN IntOf
          BY <4>2, <4>5, KnownTypes DEF Converts
        <5>2. IntOf[v] \in Int
          BY <5>1, TextsAssumption
        <5>3. config' = [config EXCEPT !.port = IntOf[v] % WordSize]
          BY <4>1, <4>5 DEF Configure
        <5> DEFINE m == IntOf[v] % WordSize
        <5>4. m \in 0..(WordSize - 1)
          BY <5>2, WordHolds
        <5> HIDE DEF m
        <5>5. config'.port = m
          BY <4>4, <5>3 DEF m
        <5>6. QED BY <3>4, <3>6, <5>4, <5>5
      <4>6. CASE k # "port"
        <5>1. config'.port = config.port
          BY <4>1, <4>3, <4>4, <4>6 DEF Configure
        <5>2. QED BY <3>4, <3>6, <5>1 DEF TypeOK
      <4>7. QED BY <4>5, <4>6
    <3>9. QED BY <3>7, <3>8
  <2>2. CASE ReadIni
    <3>1. program # "linux" /\ index' = index
          /\ config' = [port |-> given.port % WordSize, user |-> given.user, pass |-> given.pass,
                        anon |-> given.anon \/ TakesAnyone]
      BY <2>2 DEF ReadIni
    <3>2. given.port \in Int /\ given.anon \in BOOLEAN
      BY <3>1, InisAssumption DEF MInv, Configured
    <3> DEFINE m == given.port % WordSize
               b == given.anon \/ TakesAnyone
    <3>3. m \in 0..(WordSize - 1)
      BY <3>2, WordHolds
    <3>4. b \in BOOLEAN
      BY <3>2
    <3> HIDE DEF m, b
    <3>5. config'.port = m /\ config'.anon = b
      BY <3>1 DEF m, b
    <3>6. QED BY <3>1, <3>3, <3>4, <3>5 DEF TypeOK
  <2>3. QED BY <2>1, <2>2
<1>3. QED BY <1>1, <1>2 DEF TypeOK

LEMMA NextTypes == MInv /\ LineInv /\ TypeOK /\ [Next]_vars => TypeOK'
<1> SUFFICES ASSUME MInv, LineInv, TypeOK, [Next]_vars PROVE TypeOK'
  OBVIOUS
<1> DEFINE Places == {"init", "config", "mount", "check", "usage", "failed", "serving", "left",
                      "gone"}
<1>1. ASSUME at' \in Places, next' \in Nat, UNCHANGED <<index, config>>,
             Len(entries') <= DevicesMax, Len(devices') <= DevicesMax,
             writing' \subseteq open', dirty' \subseteq open', failed' \subseteq open'
      PROVE  TypeOK'
  BY <1>1 DEF TypeOK
<1>2. /\ at \in Places /\ next \in Nat /\ writing \subseteq open /\ dirty \subseteq open
      /\ failed \subseteq open
      /\ Len(entries) <= DevicesMax /\ Len(devices) <= DevicesMax
  BY DEF TypeOK
<1>3. ASSUME at' \in Places, UNCHANGED <<index, config, next, mounts>>,
             writing' \subseteq open, dirty' \subseteq open, failed' \subseteq open
      PROVE  TypeOK'
  BY <1>1, <1>2, <1>3 DEF mounts
<1>4. CASE ParseOption \/ ReadIni
  BY <1>4, ReadTypes
<1>5. CASE AppInit
  <2>1. /\ at' \in Places /\ UNCHANGED <<index, config, next, writing, dirty, failed>>
        /\ MountFs("sdmc")
    BY <1>5 DEF AppInit, conf, changes
  <2>2. Len(entries') <= DevicesMax /\ Len(devices') <= DevicesMax /\ open \subseteq open'
    BY <2>1, MountingTypes
  <2>3. QED BY <1>1, <1>2, <2>1, <2>2
<1>6. CASE Mount
  <2>1. /\ at' = at /\ next' = next + 1 /\ UNCHANGED <<index, config, writing, dirty, failed>>
        /\ \/ \E n : MountFs(n) \/ MountRefused(n)
           \/ \E n, d, base : MountShortcut(n, d, base)
    BY <1>6 DEF Mount, conf, changes
  <2>2. Len(entries') <= DevicesMax /\ Len(devices') <= DevicesMax /\ open \subseteq open'
    BY <2>1, MountingTypes
  <2>3. QED BY <1>1, <1>2, <2>1, <2>2
<1>7. CASE ParseEnds \/ ParseFails
  BY <1>2, <1>3, <1>7 DEF ParseEnds, ParseFails, Parse, changes
<1>8. CASE MountsDone \/ Check \/ NoNetwork \/ Leave
  BY <1>2, <1>3, <1>8 DEF MountsDone, Check, NoNetwork, Leave, conf, changes
<1>9. ASSUME NEW s \in BOOLEAN, NEW d, WriteBegins(s, d) \/ Change(s, d)
      PROVE  TypeOK'
  <2>1. FsOf(s, d) \in open
    BY <1>9, ReachedIsOpen DEF WriteBegins, Change
  <2>2. /\ UNCHANGED <<index, config, next, mounts, at, failed>>
        /\ writing' \subseteq writing \cup {FsOf(s, d)}
        /\ dirty' \subseteq dirty \cup {FsOf(s, d)}
    BY <1>9 DEF WriteBegins, Change, conf
  <2>3. QED BY <1>2, <1>3, <2>1, <2>2
<1>10. ASSUME NEW s, NEW d, Rename(s, d)
       PROVE  TypeOK'
  <2>1. FsOf(TRUE, s) \in open
    BY <1>10, ReachedIsOpen DEF Rename
  <2>2. /\ UNCHANGED <<index, config, next, mounts, at, writing, failed>>
        /\ dirty' = dirty \cup {FsOf(TRUE, s)}
    BY <1>10 DEF Rename, conf
  <2>3. QED BY <1>2, <1>3, <2>1, <2>2
<1>11. ASSUME NEW fs, WriteEnds(fs)
       PROVE  TypeOK'
  BY <1>2, <1>3, <1>11 DEF WriteEnds, conf
<1>12. CASE AppExit
  <2>1. /\ at' = "gone" /\ UNCHANGED <<index, config, next, writing, entries, open, devices>>
        /\ dirty' \subseteq dirty /\ failed' \subseteq Commits
    BY <1>12 DEF AppExit, UnmountAll, conf
  <2>2. Commits \subseteq open
    BY FindEntryIsFirst DEF Commits, Committed, Found, MInv, Listed, FileSystemsOwned
  <2>3. QED BY <1>1, <1>2, <2>1, <2>2
<1>13. CASE UNCHANGED vars
  BY <1>2, <1>3, <1>13 DEF vars
<1>14. QED
  BY <1>4, <1>5, <1>6, <1>7, <1>8, <1>9, <1>10, <1>11, <1>12, <1>13 DEF Next

(* The types of the programs before and after they serve: numbers fit their  *)
(* words, the table its size, and files are open on what is mounted.         *)
THEOREM StartupTypes == Spec => []TypeOK
<1>1. MInv /\ LineInv /\ TypeOK /\ [Next]_vars => TypeOK'
  BY NextTypes
<1>2. QED BY <1>1, InitTypes, MountsInvariance, LineInvariance, PTL DEF Spec
=============================================================================
