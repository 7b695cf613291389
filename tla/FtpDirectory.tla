---------------------------- MODULE FtpDirectory ----------------------------
(* Directories of one session, src/src/ftpsrv.c: the working directory under *)
(* CWD and CDUP, temp_path between RNFR, RNTO and the listings that share    *)
(* it, and the listing itself, entry by entry through list_buf to a data     *)
(* socket that takes what it can. What the file system says of a path is     *)
(* any answer; a directory is a sequence of entries.                         *)
EXTENDS FtpPath

CONSTANTS
    MaxTyped,   \* bound on the paths that are typed
    Entries,    \* what directories have, with the size of each one's line
    MaxEntries, \* bound on the entries of a directory
    Devices,    \* g_ftp.cfg.devices, as entries
    ListBuf     \* sizeof(list_buf)

(* Passed over are "." and "..", and what has too long a path or no lstat(). *)
Kinds == {"listed", "passed"}

ASSUME EntriesAssumption ==
    /\ \A e \in Entries : e.size \in Nat \ {0} /\ e.kind \in Kinds
    /\ ListBuf \in Nat \ {0} /\ MaxTyped \in Nat /\ MaxEntries \in Nat
    /\ HasDevices <=> Devices # <<>>
    /\ Devices \in Seq(Range(Devices))
    /\ \A i \in DOMAIN Devices : Devices[i].size \in 1..(ListBuf - 1)
    /\ \A i \in DOMAIN Devices : Devices[i].kind = "listed"

VARIABLES
    pwd,      \* the working directory
    temp,     \* temp_path, <<>> if it is empty
    mode,     \* transfer.mode
    dir,      \* dir_vfs: the entries not yet read, "closed" if it is not open
    index,    \* transfer.index
    text,     \* list_buf
    offset,   \* transfer.offset
    size,     \* transfer.size
    conn,     \* data_connection # NONE
    at,       \* "poll", or "loop" inside ftp_dir_data_transfer_progress
    reply,    \* the final reply to a listing, as it is sent
    renamed,  \* what the last command renamed
    named,    \* history: what RNFR named and RNTO is to rename
    left,     \* history: a command that failed has left temp_path as it is
    got,      \* history: what the data connection took
    due,      \* history: the entries of what is listed
    stale     \* history: offset and size were not 0 when the listing began

list == <<dir, index, text, offset, size>>
history == <<named, left, got, due, stale>>
vars == <<pwd, temp, mode, list, conn, at, reply, renamed, history>>

Closed == <<[name |-> "", size |-> 0, kind |-> "closed"]>>

TypeOK ==
    /\ pwd \in Seq(Tokens) /\ Fits(pwd)
    /\ temp \in Seq(Tokens \ {"\\"}) /\ Fits(temp)
    /\ mode \in {"none", "list", "nlst"}
    /\ dir = Closed \/ dir \in Seq(Entries)
    /\ index \in 0..Len(Devices)
    /\ Len(text) <= ListBuf
    /\ offset \in Nat /\ size \in Nat
    /\ conn \in BOOLEAN
    /\ at \in {"poll", "loop"}
    /\ reply \in {"none", "200", "226", "250", "350", "425", "426", "450",
                 "501", "503", "550", "553"}
    /\ renamed \in Seq(Tokens) /\ named \in Seq(Tokens)
    /\ left \in BOOLEAN /\ stale \in BOOLEAN

Init ==
    /\ pwd = Root /\ temp = <<>>
    /\ mode = "none" /\ dir = Closed /\ index = 0
    /\ text = <<>> /\ offset = 0 /\ size = 0
    /\ conn = FALSE /\ at = "poll"
    /\ reply = "none" /\ renamed = <<>>
    /\ named = <<>> /\ left = FALSE
    /\ got = <<>> /\ due = <<>> /\ stale = FALSE

(* What a handler other than RNTO leaves alone.                              *)
Idle == mode = "none" /\ at = "poll" /\ renamed' = <<>>
KeepsList ==
    /\ UNCHANGED <<mode, list, conn, at>>
    /\ got' = <<>> /\ due' = <<>> /\ stale' = FALSE
KeepsTemp == UNCHANGED <<temp, named, left>>

-----------------------------------------------------------------------------
(* What build_fullpath makes of the paths a client may type, and the working *)
(* directory, that LIST takes if there is none.                              *)
TypedPaths == Typed(MaxTyped)
Paths == {pwd} \cup {BuildFullpath(pwd, p) : p \in TypedPaths}

(* The working directory. stat() may refuse any path but the root.           *)
SetDirectory(p) ==
    \/ /\ Fits(p)
       /\ pwd' = p
       /\ reply' = "200"
    \/ /\ ~Fits(p) \/ p # Root
       /\ reply' = "550"
       /\ UNCHANGED pwd

CWD(p) ==
    /\ Idle
    /\ SetDirectory(p)
    /\ KeepsList /\ KeepsTemp

CDUP ==
    /\ Idle
    /\ IF pwd = Root THEN reply' = "550" /\ UNCHANGED pwd
       ELSE SetDirectory(BuildFullpath(pwd, <<"..">>))
    /\ KeepsList /\ KeepsTemp

-----------------------------------------------------------------------------
(* temp_path. A path that is cut stays there, as snprintf() left it.         *)
RNFR(p) ==
    /\ Idle
    /\ temp' = Cut(p)
    /\ named' = IF Fits(p) THEN p ELSE <<>>
    /\ left' = ~Fits(p)
    /\ reply' = IF Fits(p) THEN "350" ELSE "550"
    /\ KeepsList /\ UNCHANGED pwd

RNTO(p) ==
    /\ mode = "none" /\ at = "poll"
    /\ \/ /\ temp = <<>>
          /\ renamed' = <<>>
          /\ reply' = "503"
       \/ /\ temp # <<>> /\ Fits(p)
          /\ renamed' = temp
          /\ reply' = "250"
       \/ /\ temp # <<>>                 \* a path too long, or rename() fails
          /\ renamed' = <<>>
          /\ reply' = "553"
    /\ temp' = <<>>
    /\ named' = <<>> /\ left' = FALSE
    /\ KeepsList /\ UNCHANGED pwd

-----------------------------------------------------------------------------
(* The data connection.                                                      *)
(* Mistake: a transfer that ends leaves temp_path.                           *)
TransferEndKeepsTemp(r) ==
    /\ mode' = "none" /\ dir' = Closed
    /\ offset' = 0 /\ size' = 0
    /\ conn' = FALSE
    /\ at' = "poll"
    /\ reply' = r
    /\ named' = <<>> /\ left' = FALSE
    /\ due' = <<>> /\ stale' = FALSE
    /\ UNCHANGED <<pwd, temp, index, text>>

(* ftp_data_transfer_end, and the reply before it.                           *)
TransferEnd(r) ==
    /\ temp' = <<>>
    /\ mode' = "none" /\ dir' = Closed
    /\ offset' = 0 /\ size' = 0
    /\ conn' = FALSE
    /\ at' = "poll"
    /\ reply' = r
    /\ named' = <<>> /\ left' = FALSE
    /\ due' = <<>> /\ stale' = FALSE
    /\ UNCHANGED <<pwd, index, text>>

ABOR ==
    /\ conn /\ at = "poll"
    /\ renamed' = <<>>
    /\ TransferEnd("none")
    /\ got' = <<>>

(* PASV or PORT: what was is ended, then the connection is there or not.     *)
PASV ==
    /\ Idle
    /\ temp' = <<>> /\ named' = <<>> /\ left' = FALSE
    /\ dir' = Closed /\ offset' = 0 /\ size' = 0
    /\ conn' \in BOOLEAN
    /\ reply' = "none"
    /\ got' = <<>>
    /\ UNCHANGED <<pwd, mode, index, text, at, due, stale>>

(* A download whose data connection fails leaves where it would have begun   *)
(* and how long the file is.                                                 *)
RetrFails ==
    /\ Idle
    /\ offset' \in 0..1 /\ size' \in 0..1
    /\ reply' = "425"
    /\ KeepsTemp
    /\ got' = <<>>
    /\ UNCHANGED <<pwd, mode, dir, index, text, conn, at, due, stale>>

-----------------------------------------------------------------------------
(* Lines of a listing. A line is its bytes, each with where it comes from.   *)
NUL == <<"NUL", 0>>

(* snprintf() ends what it writes with a NUL, so of a line as long as the    *)
(* buffer the last byte is lost; it is sent all the same.                    *)
Printed(e) ==
    [i \in 1..Min({e.size, ListBuf}) |-> IF i = ListBuf THEN NUL ELSE <<e.name, i>>]

BuildListEntry(e) ==
    /\ text' = Printed(e)
    /\ size' = IF e.size > ListBuf THEN size ELSE e.size

IsListed(e) == e.kind = "listed" /\ e.size <= ListBuf

(* What is left of list_buf; what lies behind a line there is anything.      *)
Pending(n) ==
    [i \in 1..n |-> IF offset + i <= Len(text) THEN text[offset + i] ELSE NUL]

-----------------------------------------------------------------------------
(* ftp_list_directory: temp_path becomes the path of the listing and stays   *)
(* so if there is none.                                                      *)
ListFails(p, r) ==
    /\ temp' = p
    /\ reply' = r
    /\ named' = <<>> /\ left' = TRUE
    /\ got' = <<>>
    /\ UNCHANGED <<pwd, mode, dir, index, conn, at, due, stale>>

ListBegins(m, p, es) ==
    /\ conn
    /\ temp' = p
    /\ mode' = m
    /\ due' = es
    /\ got' = <<>>
    /\ reply' = "none"
    /\ named' = <<>> /\ left' = FALSE
    /\ UNCHANGED <<pwd, conn, at>>

IsDeviceList(p) == HasDevices /\ p = Root

ListDevices(m, p) ==
    /\ IsDeviceList(p)
    /\ \/ ListFails(p, "425") /\ UNCHANGED <<text, offset, size>>
       \/ /\ ListBegins(m, p, Devices)
          /\ index' = 0
          /\ stale' = (offset # 0 \/ size # 0)
          /\ UNCHANGED <<dir, text, offset, size>>

Directories == {es \in BoundedSeq(Entries, MaxEntries) : IsInjective(es)}

ListDirectory(m, p) ==
    \/ ListFails(p, "450") /\ UNCHANGED <<text, offset, size>>
    \/ ListFails(p, "425") /\ UNCHANGED <<text, offset, size>>
    \/ \E es \in Directories :
        /\ ListBegins(m, p, es)
        /\ dir' = es
        /\ stale' = (offset # 0 \/ size # 0)
        /\ UNCHANGED <<index, text, offset, size>>

(* A file is listed by its one line, which is there before the connection.   *)
ListFile(p, e) ==
    /\ e.kind = "listed"
    /\ BuildListEntry(e)
    /\ \/ ListFails(p, IF IsListed(e) THEN "425" ELSE "450")
       \/ /\ IsListed(e)
          /\ ListBegins("list", p, <<e>>)
          /\ stale' = (offset # 0)
          /\ UNCHANGED <<dir, index>>
    /\ UNCHANGED offset

LIST(m, p) ==
    /\ Idle
    /\ \/ ~Fits(p) /\ ListFails(Cut(p), "501") /\ UNCHANGED <<text, offset, size>>
       \/ Fits(p) /\ ListDevices(m, p)
       \/ /\ Fits(p) /\ ~IsDeviceList(p)
          /\ LET q == FixPathForDevice(p)
             IN  \/ ListDirectory(m, q)
                 \/ m = "list" /\ \E e \in Entries : ListFile(q, e)

-----------------------------------------------------------------------------
(* ftp_dir_data_transfer_progress: a turn of the loop at a time.             *)
Turn == mode # "none" /\ at = "loop"

DeviceList == IsDeviceList(temp)

DataReady ==
    /\ mode # "none" /\ at = "poll"
    /\ at' = "loop" /\ reply' = "none" /\ renamed' = <<>>
    /\ UNCHANGED <<pwd, temp, mode, list, conn, history>>

SendBlocks ==
    /\ Turn /\ size > 0
    /\ at' = "poll"
    /\ UNCHANGED <<pwd, temp, mode, list, conn, reply, renamed, history>>

SendFails ==
    /\ Turn /\ size > 0
    /\ TransferEnd("426")
    /\ UNCHANGED <<got, renamed>>

(* Mistake: what was not sent is taken from the start of the buffer.         *)
SendPartAgain(n) ==
    /\ Turn /\ n < size
    /\ got' = got \o Pending(n)
    /\ size' = size - n
    /\ at' = "poll"
    /\ UNCHANGED <<pwd, temp, mode, dir, index, text, offset, conn, reply, renamed,
                   named, left, due, stale>>

SendPart(n) ==
    /\ Turn /\ n < size
    /\ got' = got \o Pending(n)
    /\ offset' = offset + n
    /\ size' = size - n
    /\ at' = "poll"
    /\ UNCHANGED <<pwd, temp, mode, dir, index, text, conn, reply, renamed,
                   named, left, due, stale>>

(* Mistake: the last device is not waited for.                               *)
OnlyLineEarly == dir = Closed /\ (~DeviceList \/ index + 1 >= Len(Devices))

(* Mistake: a listing of devices is over when it runs out of them.           *)
OnlyLineOfFile == dir = Closed /\ ~DeviceList

(* The line was the last of a listing that is no directory's.                *)
OnlyLine == dir = Closed /\ (~DeviceList \/ index = Len(Devices))

SendAll ==
    /\ Turn /\ size > 0
    /\ got' = got \o Pending(size)
    /\ IF OnlyLine
       THEN TransferEnd("226") /\ UNCHANGED renamed
       ELSE /\ text' = <<NUL>>
            /\ offset' = 0 /\ size' = 0
            /\ UNCHANGED <<pwd, temp, mode, dir, index, conn, at, reply, renamed,
                           named, left, due, stale>>

NextDevice ==
    /\ Turn /\ size = 0 /\ DeviceList
    /\ index' = index + 1
    /\ BuildListEntry(Devices[index + 1])
    /\ UNCHANGED <<pwd, temp, mode, dir, offset, conn, at, reply, renamed, history>>

(* What is not listed, and what has no path or no line, is passed over.      *)
NextEntry ==
    /\ Turn /\ size = 0 /\ ~DeviceList
    /\ dir \notin {Closed, <<>>}
    /\ dir' = Tail(dir)
    /\ IF Head(dir).kind = "listed"
       THEN BuildListEntry(Head(dir))
       ELSE UNCHANGED <<text, size>>
    /\ UNCHANGED <<pwd, temp, mode, index, offset, conn, at, reply, renamed, history>>

(* No more entries, or readdir() fails: the code does not ask which.         *)
NoMoreEntries ==
    /\ Turn /\ size = 0 /\ ~DeviceList
    /\ dir # Closed
    /\ TransferEnd("226")
    /\ UNCHANGED <<got, renamed>>

-----------------------------------------------------------------------------
Next ==
    \/ /\ mode = "none" /\ at = "poll"
       /\ \E p \in Paths :
            CWD(p) \/ RNFR(p) \/ RNTO(p) \/ LIST("list", p) \/ LIST("nlst", p)
    \/ CDUP
    \/ ABOR \/ PASV \/ RetrFails
    \/ DataReady \/ SendBlocks \/ SendFails
    \/ \E n \in 0..(ListBuf - 1) : SendPart(n)
    \/ SendAll \/ NextDevice \/ NextEntry \/ NoMoreEntries

Spec == Init /\ [][Next]_vars

-----------------------------------------------------------------------------
(* What a typed path names, without its slashes.                             *)
Resolved(where, p) ==
    IF p[1] \in {"/", "\\"} THEN Names(p)
    ELSE IF Names(p) = <<"..">> THEN IF where = <<>> THEN <<>> ELSE Front(where)
    ELSE where \o Names(p)

(* However CWD and CDUP have moved, and whatever slashes were typed, each    *)
(* path leads to the names it gives from there, no name is lost or joined,   *)
(* and it is again a text that paths can be built on (build_fullpath,        *)
(* remove_slashes).                                                          *)
PathsResolve ==
    reply = "200" =>
        /\ Clean(pwd)
        /\ \A p \in TypedPaths :
            LET f == BuildFullpath(pwd, p)
            IN  Names(f) = Resolved(Names(pwd), p) /\ (Fits(f) => Clean(f))

(* RNTO renames what RNFR named. A listing uses the same buffer: once it is  *)
(* over, or a data connection is opened or ended, there is nothing to        *)
(* rename. Only a command that failed may have left its path there.          *)
RenamesNamed == [][reply' = "250" => renamed' = named \/ left]_vars

(* The lines of entries that list_buf takes, one after the other, if line    *)
(* has each entry's; and as they are, of whatever buffer.                    *)
LinesBy(es, line) ==
    FoldLeft(LAMBDA l, e : IF IsListed(e) THEN l \o line[e] ELSE l, <<>>, es)

Line == [e \in Entries \cup Range(Devices) |-> [i \in 1..e.size |-> <<e.name, i>>]]

Lines(es) == LinesBy(es, Line)

(* s is how r begins, but that of a line as long as list_buf the last byte,  *)
(* its '\n', may be a NUL: "don't send anything on error or truncated"       *)
(* (ftpsrv.c:397) is not so of this line, whose rc is sizeof(list_buf).      *)
Delivered(s, r) ==
    /\ Len(s) <= Len(r)
    /\ \A i \in 1..Len(s) : s[i] = r[i] \/ (s[i] = NUL /\ r[i][2] = ListBuf)

(* What the client has, with what is left of the line being sent, is the     *)
(* lines of the entries listed so far, whole but for that byte, once and in  *)
(* order, however little the socket takes at a time.                         *)
ListingExact ==
    mode # "none" /\ ~stale =>
        Delivered(got \o (IF size = 0 THEN <<>> ELSE Pending(size)), Lines(due))

(* And it has all of them when it is told so by 226, unless readdir() has    *)
(* failed. A listing after a RETR or LIST whose data connection failed is    *)
(* exempt: it begins with what that has left in transfer.offset and size.    *)
ListingComplete ==
    [][reply' = "226" =>
        \/ Delivered(got', Lines(due)) /\ Len(got') = Len(Lines(due))
        \/ stale
        \/ dir \notin {Closed, <<>>}]_vars

(* A turn of the loop that wants another entry has an open directory, or one *)
(* more device (ftp_dir_data_transfer_progress, index++).                    *)
HasNext ==
    Turn /\ size = 0 => IF DeviceList THEN index < Len(Devices) ELSE dir # Closed

=============================================================================
