----------------------------- MODULE FtpServer -----------------------------
(* The server of src/src/ftpsrv.c: one thread, one loop around poll(), a     *)
(* table of sessions, the command handlers they dispatch to and the data     *)
(* transfers the loop drives, over the descriptor table of the process.      *)
(*                                                                           *)
(* The data is abstracted (paths, file contents, reply texts); the control   *)
(* is not: every handler is one action, with its early returns, in the order *)
(* of the code. A handler that opens a data connection can block the whole   *)
(* process and is two actions, the part before accept() or connect() and the *)
(* part after it.                                                            *)
EXTENDS Integers, FiniteSets

CONSTANTS
    MaxSessions,    \* FTP_MAX_SESSIONS
    MaxFd,          \* highest descriptor of the process, so that opens can fail
    MaxLen,         \* bound on file sizes, REST markers and list entries
    MaxLines,       \* bound on the command lines waiting on one connection
    MaxBacklog,     \* bound on the clients waiting to be accepted
    ClientResets,   \* clients may reset a connection, not only close it
    PollFails,      \* poll() may fail, on which the front end starts over
    Commands,       \* the commands the clients of this instance may send
    Anon,           \* g_ftp.cfg.anon
    Devices,        \* g_ftp.cfg.devices_count > 0
    ZeroFileOpen    \* a zeroed FtpVfsFile reads as open (vfs_unistd: fd >= 0)

AnswerOnly == {"ACCT", "CWD", "CDUP", "SMNT", "REIN", "QUIT", "TYPE", "STRU",
               "MODE", "ALLO", "DELE", "RMD", "MKD", "PWD", "SITE", "SYST",
               "STAT", "HELP", "NOOP", "FEAT", "SIZE"}

AllCommands == AnswerOnly \cup
    {"USER", "PASS", "PORT", "PASV", "RETR", "STOR", "APPE", "REST", "RNFR",
     "RNTO", "ABOR", "LIST", "NLST"}

ASSUME BoundsAssumption ==
    /\ MaxSessions \in Nat \ {0}
    /\ MaxFd \in Nat \ {0}
    /\ MaxLen \in Nat \ {0}
    /\ MaxLines \in Nat \ {0}
    /\ MaxBacklog \in Nat \ {0}

ASSUME ConfigAssumption ==
    /\ Commands \subseteq AllCommands
    /\ {ClientResets, PollFails, Anon, Devices, ZeroFileOpen} \subseteq BOOLEAN

VARIABLES
    sess,     \* g_ftp.sessions
    count,    \* g_ftp.session_count
    server,   \* g_ftp.server_sock
    fdt,      \* the descriptor table of the process (kernel)
    at,       \* where the thread is in ftpsrv_loop
    cur,      \* the session the loop is at
    lines,    \* complete lines of the last recv() not yet executed
    opener,   \* the transfer the pending ftp_data_open is for
    rev,      \* the revents poll() returned to this round
    backlog,  \* clients in the listen queue (environment)
    inbox,    \* lines in each control connection (environment)
    link      \* what each client did with its control connection (environment)

vars == <<sess, count, server, fdt, at, cur, lines, opener, rev, backlog,
          inbox, link>>

Slots == 1..MaxSessions
Fds   == 0..MaxFd
None  == -1
Roles == {"control", "data", "pasv", "file", "dir"}

(* Descriptor 0 is open when the process starts; the other standard ones,    *)
(* which nothing here touches, are left out of the table.                    *)
Free        == [slot |-> 0, role |-> "free"]
Std         == [slot |-> 0, role |-> "std"]
Listener    == [slot |-> 0, role |-> "server"]
Owner(s, r) == [slot |-> s, role |-> r]
Uses        == {Free, Std, Listener} \cup [slot : Slots, role : Roles]

Session == [active : BOOLEAN,
            auth : {"none", "need_pass", "valid"},
            dc : {"none", "active", "passive"},
            mode : {"none", "retr", "stor", "list", "nlst"},
            off : 0..MaxLen, size : 0..MaxLen,
            marker : -1..MaxLen,
            temp : {"empty", "rename", "list", "devices"},
            nonblock : BOOLEAN,            \* O_NONBLOCK of data_sock
            fd : [Roles -> Fds \cup {None}],
            owed : Int]                    \* history: final replies due

(* memset(session, 0): the three sockets and the file hold descriptor 0, the *)
(* directory, a pointer, is NULL.                                            *)
Zeroed == [active |-> FALSE, auth |-> "none", dc |-> "none", mode |-> "none",
           off |-> 0, size |-> 0, marker |-> 0, temp |-> "empty",
           nonblock |-> FALSE,
           fd |-> [r \in Roles |-> IF r = "dir" THEN None ELSE 0],
           owed |-> 0]

NoEvents == [accept |-> FALSE, control |-> [s \in Slots |-> "none"],
             data |-> [s \in Slots |-> FALSE]]

-----------------------------------------------------------------------------
(* What the helpers compute. A world is a session and the descriptor table,  *)
(* all that a handler can change. A definition marked "Mistake" is no part   *)
(* of the model: it is a likely error in the definition that follows it, and *)
(* a property must fail when it takes that definition's place.               *)

World(i) == [me |-> i, s |-> sess[i], t |-> fdt]

LowestFree(t) == CHOOSE f \in Fds : t[f] = Free /\ \A g \in 0..(f - 1) : t[g] # Free

(* open, opendir, socket and accept: the lowest free descriptor, or EMFILE.  *)
OpenFd(w, r) ==
    IF \E f \in Fds : w.t[f] = Free
    THEN [w EXCEPT !.s.fd[r] = LowestFree(w.t),
                   !.t[LowestFree(w.t)] = Owner(w.me, r)]
    ELSE [w EXCEPT !.s.fd[r] = None]

(* Mistake: the handle still names the closed descriptor.                    *)
CloseKeepsHandle(w, r) == [w EXCEPT !.t[w.s.fd[r]] = Free]

CloseFd(w, r) == [w EXCEPT !.s.fd[r] = None, !.t[w.s.fd[r]] = Free]

CloseSocket(w, r) == IF w.s.fd[r] > 0 THEN CloseFd(w, r) ELSE w

IsFileOpen(w) == w.s.fd["file"] > 0 \/ (ZeroFileOpen /\ w.s.fd["file"] = 0)

VfsClose(w) == IF IsFileOpen(w) THEN CloseFd(w, "file") ELSE w

VfsCloseDir(w) == IF w.s.fd["dir"] # None THEN CloseFd(w, "dir") ELSE w

(* Mistake: the listening socket of a passive connection stays open.         *)
PasvSocketKept(w) == IF w.s.dc = "none" THEN w ELSE CloseSocket(w, "data")

(* Mistake: only passive connections are closed.                             *)
ActiveSocketKept(w) ==
    IF w.s.dc = "passive" THEN CloseSocket(CloseSocket(w, "data"), "pasv") ELSE w

CloseDataSockets(w) ==
    CASE w.s.dc = "none"    -> w
      [] w.s.dc = "active"  -> CloseSocket(w, "data")
      [] w.s.dc = "passive" -> CloseSocket(CloseSocket(w, "data"), "pasv")

(* ftp_data_transfer_end *)
DataTransferEnd(w) ==
    [VfsCloseDir(VfsClose(CloseDataSockets(w))) EXCEPT
        !.s.temp = "empty", !.s.off = 0, !.s.size = 0,
        !.s.mode = "none", !.s.dc = "none"]

-----------------------------------------------------------------------------
(* How a step of the thread ends.                                            *)

Commit(w) ==
    /\ sess' = [sess EXCEPT ![w.me] = w.s]
    /\ fdt' = w.t

(* Mistake: the loop runs one slot too far.                                  *)
NextSessionTooFar ==
    /\ rev' = [rev EXCEPT !.data[cur] = FALSE]
    /\ IF cur > MaxSessions
       THEN at' = "poll" /\ cur' = 1
       ELSE at' = "control" /\ cur' = cur + 1

(* Mistake: one event is enough for a round.                                 *)
NextSessionBreaks ==
    /\ rev' = [rev EXCEPT !.data[cur] = FALSE]
    /\ IF cur = MaxSessions \/ rev.data[cur]
       THEN at' = "poll" /\ cur' = 1
       ELSE at' = "control" /\ cur' = cur + 1

(* The loop goes on; an event is forgotten once its turn has passed.         *)
NextSession ==
    /\ rev' = [rev EXCEPT !.data[cur] = FALSE]
    /\ IF cur = MaxSessions
       THEN at' = "poll" /\ cur' = 1
       ELSE at' = "control" /\ cur' = cur + 1

(* A handler returns, n final replies sent since its line was taken up.      *)
Answers(w, n) ==
    /\ Commit([w EXCEPT !.s.owed = @ + 1 - n])
    /\ lines' = lines - 1
    /\ at' = "lines"
    /\ opener' = "none"
    /\ UNCHANGED <<count, server, cur, rev, backlog, inbox, link>>

(* The dispatcher of ftp_session_progress_line calls the handler of c.       *)
AuthRequired(c) == c \notin {"USER", "PASS", "ACCT", "REIN", "QUIT", "ABOR",
                             "SYST", "HELP", "NOOP", "FEAT"}

(* Mistake: commands are taken during a transfer.                            *)
DispatchesInTransfer(c) ==
    /\ at = "lines" /\ lines > 0
    /\ c \in Commands
    /\ AuthRequired(c) => sess[cur].auth = "valid"

Dispatches(c) ==
    /\ at = "lines" /\ lines > 0
    /\ c \in Commands
    /\ AuthRequired(c) => sess[cur].auth = "valid"
    /\ sess[cur].mode # "none" => c = "ABOR"

(* Every other line is answered without a handler: an unknown command, no    *)
(* login, a transfer in progress, or arguments missing or unwanted.          *)
Reject ==
    /\ at = "lines" /\ lines > 0
    /\ Answers(World(cur), 1)

-----------------------------------------------------------------------------
(* Handlers that only read, or change what FtpPath models (CWD and CDUP).    *)
AnswerOnlyCommand ==
    /\ \E c \in AnswerOnly : Dispatches(c)
    /\ Answers(World(cur), 1)

USER ==
    /\ Dispatches("USER")
    /\ LET w == World(cur)
       IN \/ Answers(w, 1)                                  \* 501, 530
          \/ Answers([w EXCEPT !.s.auth =
                        IF Anon THEN "valid" ELSE "need_pass"], 1)

PASS ==
    /\ Dispatches("PASS")
    /\ LET w == World(cur)
       IN \/ Answers(w, 1)                                  \* 501, 503, 530
          \/ /\ w.s.auth = "need_pass"
             /\ Answers([w EXCEPT !.s.auth = "valid"], 1)

PORT ==
    /\ Dispatches("PORT")
    /\ LET w == DataTransferEnd(World(cur))
       IN \/ Answers(w, 1)                                  \* 501
          \/ Answers([w EXCEPT !.s.dc = "active"], 1)

PASV ==
    /\ Dispatches("PASV")
    /\ LET w == OpenFd(DataTransferEnd(World(cur)), "pasv")
       IN IF w.s.fd["pasv"] = None
          THEN Answers(w, 1)                                \* socket() failed
          ELSE \/ Answers(CloseSocket(w, "pasv"), 1)        \* bind, listen
               \/ Answers([w EXCEPT !.s.dc = "passive"], 1)

REST ==
    /\ Dispatches("REST")
    /\ LET w == World(cur)
       IN \/ Answers(w, 1)                                  \* 501
          \/ \E n \in 0..MaxLen : Answers([w EXCEPT !.s.marker = n], 1)

RNFR ==
    /\ Dispatches("RNFR")
    /\ LET w == World(cur)
       IN \/ Answers(w, 1)                                  \* 501
          \/ Answers([w EXCEPT !.s.temp = "rename"], 1)     \* 350, 550

RNTO ==
    /\ Dispatches("RNTO")
    /\ Answers([World(cur) EXCEPT !.s.temp = "empty"], 1)

(* Mistake: the transfer command is left without its 426.                    *)
AbortsSilently ==
    /\ Dispatches("ABOR")
    /\ LET w == World(cur)
       IN \/ w.s.dc = "none" /\ Answers(w, 1)
          \/ w.s.dc # "none" /\ Answers(DataTransferEnd(w), 1)

ABOR ==
    /\ Dispatches("ABOR")
    /\ LET w == World(cur)
       IN \/ w.s.dc = "none" /\ Answers(w, 1)
          \/ /\ w.s.dc # "none"
             /\ Answers(DataTransferEnd(w), IF w.s.mode = "none" THEN 1 ELSE 2)

-----------------------------------------------------------------------------
(* Opening the data connection (ftp_data_open), for the transfer m.          *)

(* Mistake: STOR keeps its file when the data connection fails.              *)
UploadFileKept(w, m) ==
    Answers(IF m = "retr" THEN VfsClose(w) ELSE VfsCloseDir(w), 1)

DataOpenFailed(w, m) ==
    Answers(IF m \in {"retr", "stor"} THEN VfsClose(w) ELSE VfsCloseDir(w), 1)

DataOpened(w, m, rc) ==
    Answers([w EXCEPT !.s.mode = m, !.s.nonblock = rc > 0], 0)

WaitForPeer(w, m) ==
    /\ Commit(w)
    /\ at' = "opening"
    /\ opener' = m
    /\ UNCHANGED <<count, server, cur, lines, rev, backlog, inbox, link>>

(* Up to the blocking call. A socket() that returns 0 is taken as success    *)
(* without a connect, as rc > 0 fails and rc < 0 does too.                   *)
DataOpen(w, m) ==
    \/ w.s.dc = "none" /\ DataOpenFailed(w, m)
    \/ w.s.dc = "passive" /\ WaitForPeer(w, m)
    \/ /\ w.s.dc = "active"
       /\ LET o == OpenFd(w, "data")
              h == o.s.fd["data"]
          IN \/ h = None /\ DataOpenFailed(o, m)
             \/ h = 0 /\ DataOpened(o, m, 0)
             \/ h > 0 /\ WaitForPeer(o, m)

(* connect() returns 0, accept() the descriptor it opened.                   *)
PeerConnects ==
    /\ at = "opening"
    /\ LET w == World(cur)
           a == OpenFd(w, "data")
       IN IF w.s.dc = "active"
          THEN DataOpened(w, opener, 0)
          ELSE IF a.s.fd["data"] = None
               THEN DataOpenFailed(a, opener)
               ELSE DataOpened(a, opener, a.s.fd["data"])

OpenFails ==
    /\ at = "opening"
    /\ LET w == World(cur)
       IN DataOpenFailed(IF w.s.dc = "active" THEN w
                         ELSE [w EXCEPT !.s.fd["data"] = None], opener)

RETR ==
    /\ Dispatches("RETR")
    /\ LET w == World(cur)
           o == OpenFd(w, "file")
           restart == w.s.marker > 0
       IN \/ Answers(w, 1)                                  \* 501, 550
          \/ Answers([w EXCEPT !.s.fd["file"] = None], 1)   \* open failed
          \/ /\ o.s.fd["file"] # None
             /\ \/ Answers(VfsClose(o), 1)                  \* fstat failed
                \/ \E n \in 0..MaxLen :
                     LET p == [o EXCEPT
                                 !.s.off = IF restart THEN w.s.marker ELSE 0,
                                 !.s.size = n,
                                 !.s.marker = IF restart THEN 0 ELSE @]
                     IN \/ restart /\ Answers(VfsClose(p), 1)  \* seek failed
                        \/ DataOpen(p, "retr")

(* ftp_cmd_STOR, on the session as STOR finds it or as APPE leaves it. Only  *)
(* a marker of -1 is consumed, and neither offset nor size is reset.         *)
Store(w) ==
    LET m == [w EXCEPT !.s.marker = IF @ = -1 THEN 0 ELSE @]
        o == OpenFd(m, "file")
    IN \/ Answers(w, 1)                                     \* 501
       \/ Answers(m, 1)                                     \* 551, bad path
       \/ Answers([m EXCEPT !.s.fd["file"] = None], 1)      \* open failed
       \/ o.s.fd["file"] # None /\ DataOpen(o, "stor")

STOR == Dispatches("STOR") /\ Store(World(cur))

APPE == Dispatches("APPE") /\ Store([World(cur) EXCEPT !.s.marker = -1])

(* ftp_list_directory: the device list of "/", a directory, or (LIST only)   *)
(* one file, whose entry is built before the data connection is open.        *)
List(w, m) ==
    LET l == [w EXCEPT !.s.temp = "list"]
        d == OpenFd(l, "dir")
    IN \/ Answers(l, 1)                                     \* 501, 450
       \/ Devices /\ DataOpen([w EXCEPT !.s.temp = "devices"], m)
       \/ d.s.fd["dir"] # None /\ DataOpen(d, m)
       \/ m = "list" /\ \E n \in 1..MaxLen : DataOpen([l EXCEPT !.s.size = n], m)

LIST == Dispatches("LIST") /\ List(World(cur), "list")

NLST == Dispatches("NLST") /\ List(World(cur), "nlst")

-----------------------------------------------------------------------------
(* One step of a data transfer (ftp_data_transfer_progress).                 *)

AfterData(w) ==
    /\ Commit(w)
    /\ NextSession
    /\ UNCHANGED <<count, server, lines, opener, backlog, inbox, link>>

(* 226 or 426, then ftp_data_transfer_end.                                   *)
TransferOver(w) ==
    AfterData([DataTransferEnd(w) EXCEPT !.s.owed = @ - 1])

(* n bytes reach the socket; the file may have grown since it was opened.    *)
SendFile(w) ==
    \/ \E n \in 1..(MaxLen - w.s.off) :
         LET p == [w EXCEPT !.s.off = @ + n]
         IN IF p.s.off = p.s.size THEN TransferOver(p) ELSE AfterData(p)
    \/ TransferOver(w)                      \* end of file, or an error

ReceiveFile(w) ==
    \/ \E n \in 1..MaxLen :
         AfterData([w EXCEPT !.s.off = IF @ + n > MaxLen THEN MaxLen ELSE @ + n])
    \/ TransferOver(w)                      \* the client closed, or an error

(* list_buf[off..off+size) is what is left of the current entry; the loop    *)
(* goes on to later entries of a directory until send() takes no more, which *)
(* a blocking socket never does.                                             *)
SendList(w) ==
    \/ w.s.nonblock /\ \E n \in 1..(w.s.size - 1) :
         AfterData([w EXCEPT !.s.off = IF @ + n > MaxLen THEN MaxLen ELSE @ + n,
                             !.s.size = @ - n])
    \/ /\ w.s.nonblock
       /\ w.s.fd["dir"] # None \/ w.s.temp = "devices"
       /\ \E b \in 0..(MaxLen - 1) : \E n \in 1..(MaxLen - b) :
            AfterData([w EXCEPT !.s.off = b, !.s.size = n])
    \/ TransferOver(w)

Progress(w) ==
    \/ w.s.mode = "retr" /\ SendFile(w)
    \/ w.s.mode = "stor" /\ ReceiveFile(w)
    \/ w.s.mode \in {"list", "nlst"} /\ SendList(w)

DataReady == /\ sess[cur].active
             /\ sess[cur].mode # "none"
             /\ rev.data[cur]

(* A non-blocking data socket: some bytes pass, or EAGAIN undoes the read.   *)
TransferStep ==
    /\ at = "data" /\ DataReady
    /\ sess[cur].nonblock
    /\ Progress(World(cur)) \/ AfterData(World(cur))

(* A blocking one: the thread is in send() or recv() until the peer moves.   *)
TransferBlocks ==
    /\ at = "data" /\ DataReady
    /\ ~sess[cur].nonblock
    /\ at' = "transfer"
    /\ UNCHANGED <<sess, count, server, fdt, cur, lines, opener, rev, backlog,
                   inbox, link>>

TransferUnblocks ==
    /\ at = "transfer"
    /\ Progress(World(cur))

SkipData ==
    /\ at = "data" /\ ~DataReady
    /\ AfterData(World(cur))

-----------------------------------------------------------------------------
(* Sessions and the loop.                                                    *)

(* Mistake: the slot is only marked as free.                                 *)
SessionOnlyReleased(w) ==
    [DataTransferEnd(CloseSocket(w, "control")) EXCEPT !.s.active = FALSE]

SessionClosed(w) ==
    [DataTransferEnd(CloseSocket(w, "control")) EXCEPT !.s = Zeroed]

(* Mistake: session_count is not decremented.                                *)
CloseUncounted(s) ==
    /\ Commit(SessionClosed(World(s)))
    /\ UNCHANGED count
    /\ inbox' = [inbox EXCEPT ![s] = 0]
    /\ link' = [link EXCEPT ![s] = "up"]

(* ftp_session_close, and the kernel forgetting the connection.              *)
CloseSession(s) ==
    /\ Commit(SessionClosed(World(s)))
    /\ count' = count - 1
    /\ inbox' = [inbox EXCEPT ![s] = 0]
    /\ link' = [link EXCEPT ![s] = "up"]

(* ftpsrv_init, called by the front end.                                     *)
Start ==
    /\ at = "stopped"
    /\ \E f \in Fds : fdt[f] = Free
    /\ server' = LowestFree(fdt)
    /\ fdt' = [fdt EXCEPT ![LowestFree(fdt)] = Listener]
    /\ sess' = [s \in Slots |-> Zeroed]
    /\ count' = 0
    /\ at' = "poll"
    /\ UNCHANGED <<cur, lines, opener, rev, backlog, inbox, link>>

(* What poll() reports of the control socket of s. A descriptor that was     *)
(* closed under the session is ignored (POLLNVAL); one that now belongs to   *)
(* something else is ready or not as that is.                                *)
ControlEvent(s, other) ==
    CASE ~sess[s].active -> "none"
      [] sess[s].active /\ fdt[sess[s].fd["control"]] = Owner(s, "control") ->
            IF link[s] = "reset" THEN "err"
            ELSE IF inbox[s] > 0 \/ link[s] = "closed" THEN "in" ELSE "none"
      [] OTHER -> IF fdt[sess[s].fd["control"]] = Free THEN "none" ELSE other

Transferring == {s \in Slots : sess[s].active /\ sess[s].mode # "none"}

(* A round that finds something to do; one that times out changes nothing.   *)
Poll ==
    /\ at = "poll"
    /\ \E other \in {"none", "in"}, ready \in SUBSET Transferring :
         rev' = [accept |-> backlog > 0,
                 control |-> [s \in Slots |-> ControlEvent(s, other)],
                 data |-> [s \in Slots |-> s \in ready]]
    /\ rev' # NoEvents
    /\ at' = "accept"
    /\ UNCHANGED <<sess, count, server, fdt, cur, lines, opener, backlog,
                   inbox, link>>

Active   == {s \in Slots : sess[s].active}
Inactive == Slots \ Active

First(S) == CHOOSE s \in S : \A r \in S : s <= r

(* Mistake: a client is accepted only when no other is connected.            *)
AcceptDueWhenIdle == rev.accept /\ Active = {}

(* The listener was ready, and there is a slot.                              *)
AcceptDue == rev.accept /\ Inactive # {}

(* ftp_session_init for the first inactive slot.                             *)
Accept ==
    /\ at = "accept" /\ AcceptDue
    /\ LET s == First(Inactive)
           w == OpenFd([World(s) EXCEPT !.s = Zeroed], "control")
       IN IF w.s.fd["control"] = None
          THEN UNCHANGED <<sess, fdt, count, backlog>>      \* EMFILE
          ELSE /\ Commit([w EXCEPT !.s.active = TRUE])
               /\ count' = count + 1
               /\ backlog' = backlog - 1
    /\ at' = "control"
    /\ rev' = [rev EXCEPT !.accept = FALSE]
    /\ UNCHANGED <<server, cur, lines, opener, inbox, link>>

SkipAccept ==
    /\ at = "accept" /\ ~AcceptDue
    /\ at' = "control"
    /\ rev' = [rev EXCEPT !.accept = FALSE]
    /\ UNCHANGED <<sess, count, server, fdt, cur, lines, opener, backlog,
                   inbox, link>>

(* recv() returns an error or the end of the stream.                         *)
RecvFails ==
    \/ inbox[cur] = 0
    \/ fdt[sess[cur].fd["control"]] # Owner(cur, "control")

Hangup ==
    /\ at = "control"
    /\ \/ rev.control[cur] = "err"
       \/ rev.control[cur] = "in" /\ RecvFails
    /\ CloseSession(cur)
    /\ at' = "data"
    /\ rev' = [rev EXCEPT !.control[cur] = "none"]
    /\ UNCHANGED <<server, cur, lines, opener, backlog>>

(* One recv() takes every line that is there.                                *)
Receive ==
    /\ at = "control" /\ rev.control[cur] = "in" /\ ~RecvFails
    /\ lines' = inbox[cur]
    /\ inbox' = [inbox EXCEPT ![cur] = 0]
    /\ at' = "lines"
    /\ rev' = [rev EXCEPT !.control[cur] = "none"]
    /\ UNCHANGED <<sess, count, server, fdt, cur, opener, backlog, link>>

SkipControl ==
    /\ at = "control" /\ rev.control[cur] = "none"
    /\ at' = "data"
    /\ UNCHANGED <<sess, count, server, fdt, cur, lines, opener, rev, backlog,
                   inbox, link>>

LinesDone ==
    /\ at = "lines" /\ lines = 0
    /\ at' = "data"
    /\ UNCHANGED <<sess, count, server, fdt, cur, lines, opener, rev, backlog,
                   inbox, link>>

(* poll() fails or reports the listener: FTP_API_LOOP_ERROR_INIT, on which   *)
(* the front ends call ftpsrv_exit, here one session at a time.              *)
LoopError ==
    /\ at = "poll" /\ PollFails
    /\ at' = "exit"
    /\ UNCHANGED <<sess, count, server, fdt, cur, lines, opener, rev, backlog,
                   inbox, link>>

Exit ==
    /\ at = "exit"
    /\ IF Active # {}
       THEN /\ CloseSession(First(Active))
            /\ UNCHANGED <<server, at, backlog>>
       ELSE /\ server' = IF server > 0 THEN None ELSE server
            /\ fdt' = IF server > 0 THEN [fdt EXCEPT ![server] = Free] ELSE fdt
            /\ at' = "stopped"
            /\ backlog' = 0
            /\ UNCHANGED <<sess, count, inbox, link>>
    /\ UNCHANGED <<cur, lines, opener, rev>>

-----------------------------------------------------------------------------
(* The environment: clients. What they do while the thread computes it sees  *)
(* no earlier than at its next call that waits, so they act at those.        *)

Waiting == at \in {"poll", "opening", "transfer"}

ClientConnects ==
    /\ Waiting /\ backlog < MaxBacklog
    /\ backlog' = backlog + 1
    /\ UNCHANGED <<sess, count, server, fdt, at, cur, lines, opener, rev,
                   inbox, link>>

ClientSends(s) ==
    /\ Waiting /\ sess[s].active /\ link[s] = "up" /\ inbox[s] < MaxLines
    /\ inbox' = [inbox EXCEPT ![s] = @ + 1]
    /\ UNCHANGED <<sess, count, server, fdt, at, cur, lines, opener, rev,
                   backlog, link>>

ClientLeaves(s) ==
    /\ Waiting /\ sess[s].active /\ link[s] = "up"
    /\ \E how \in {"closed"} \cup (IF ClientResets THEN {"reset"} ELSE {}) :
         link' = [link EXCEPT ![s] = how]
    /\ UNCHANGED <<sess, count, server, fdt, at, cur, lines, opener, rev,
                   backlog, inbox>>

-----------------------------------------------------------------------------
Init ==
    /\ sess = [s \in Slots |-> Zeroed]
    /\ count = 0
    /\ server = 0
    /\ fdt = [f \in Fds |-> IF f = 0 THEN Std ELSE Free]
    /\ at = "stopped"
    /\ cur = 1
    /\ lines = 0
    /\ opener = "none"
    /\ rev = NoEvents
    /\ backlog = 0
    /\ inbox = [s \in Slots |-> 0]
    /\ link = [s \in Slots |-> "up"]

Handler ==
    \/ Reject \/ AnswerOnlyCommand \/ USER \/ PASS \/ PORT \/ PASV \/ REST
    \/ RNFR \/ RNTO \/ ABOR \/ RETR \/ STOR \/ APPE \/ LIST \/ NLST

(* The steps the thread takes alone: no call in them waits for a client. (The*)
(* 220 of Accept goes to a connection that has room for it: it is its first.)*)
Running ==
    \/ Accept \/ SkipAccept \/ Hangup \/ Receive \/ SkipControl \/ LinesDone
    \/ TransferBlocks \/ SkipData
    \/ Exit \/ Start

(* Those that send replies; the control connection is a blocking one.        *)
Replying == Handler \/ TransferStep

(* The steps that wait for the peer of a data connection.                    *)
Peer == PeerConnects \/ OpenFails \/ TransferUnblocks

Client ==
    \/ ClientConnects
    \/ \E s \in Slots : ClientSends(s) \/ ClientLeaves(s)

Next == Running \/ Replying \/ Poll \/ Peer \/ Client \/ LoopError

Spec == Init /\ [][Next]_vars

(* A client has connected, or has sent or left and its session can see it.   *)
ClientReported == backlog > 0 \/ \E s \in Slots : ControlEvent(s, "none") # "none"

(* The thread runs: it never stops where it has a step to take alone, and    *)
(* poll() reports what clients did. Nothing is assumed of clients and data   *)
(* peers, nor that a step that may wait for one ever ends.                   *)
FairSpec == Spec /\ WF_vars(Running \/ (ClientReported /\ Poll))

-----------------------------------------------------------------------------
(* Correctness properties.                                                   *)

(* Every variable has its type.                                              *)
TypeOK ==
    /\ sess \in [Slots -> Session]
    /\ count \in Int
    /\ server \in Fds \cup {None}
    /\ fdt \in [Fds -> Uses]
    /\ at \in {"stopped", "poll", "accept", "control", "lines", "opening",
               "data", "transfer", "exit"}
    /\ cur \in Slots
    /\ lines \in 0..MaxLines
    /\ opener \in {"none", "retr", "stor", "list", "nlst"}
    /\ rev \in [accept : BOOLEAN, control : [Slots -> {"none", "in", "err"}],
                data : [Slots -> BOOLEAN]]
    /\ backlog \in 0..MaxBacklog
    /\ inbox \in [Slots -> 0..MaxLines]
    /\ link \in [Slots -> {"up", "closed", "reset"}]

(* Every descriptor but 0 that a session holds is the one the process opened *)
(* for that session and that purpose: no close ever hits another session's   *)
(* socket, the listener, or a number that was reused meanwhile. What a       *)
(* zeroed file handle can close by mistake is descriptor 0 only.             *)
DescriptorsOwned ==
    /\ server > 0 => fdt[server] = Listener
    /\ \A s \in Slots, r \in Roles :
         sess[s].fd[r] > 0 => fdt[sess[s].fd[r]] = Owner(s, r)

(* The converse, no leaks: a control, passive, file or directory descriptor  *)
(* is open only while its session still holds it.                            *)
DescriptorsHeld ==
    \A f \in Fds : fdt[f].role \in Roles \ {"data"} =>
        sess[fdt[f].slot].fd[fdt[f].role] = f

Opening(s) == at = "opening" /\ cur = s

(* Between transfers a session holds no file and no directory, whichever of  *)
(* the error paths of RETR, STOR, APPE, LIST and NLST it took.               *)
IdleHoldsNoFile ==
    \A s \in Slots : sess[s].mode = "none" /\ ~Opening(s) =>
        ~IsFileOpen(World(s)) /\ sess[s].fd["dir"] = None

(* A transfer in progress has what it needs, for as long as it lasts: a data *)
(* connection, the file it moves or the path it lists, and a login.          *)
TransferEquipped ==
    \A s \in Slots : sess[s].mode # "none" =>
        /\ sess[s].auth = "valid"
        /\ sess[s].dc # "none"
        /\ sess[s].fd["data"] > 0
        /\ IF sess[s].mode \in {"retr", "stor"}
           THEN sess[s].fd["file"] > 0
           ELSE sess[s].temp \in {"list", "devices"}

(* Each command has exactly one final reply, and a transfer command has it   *)
(* when the transfer is over: no path of a handler, of an abort or of a data *)
(* step forgets it or sends two.                                             *)
RepliesBalanced ==
    \A s \in Slots : sess[s].owed = IF sess[s].mode = "none" THEN 0 ELSE 1

(* session_count counts the active sessions, and an inactive slot is clean   *)
(* for the client that reuses it.                                            *)
SessionsCounted ==
    /\ count = Cardinality(Active)
    /\ \A s \in Inactive : sess[s] = Zeroed

(* However a transfer ends (done, failed, aborted, client gone, loop error), *)
(* everything it held is given back in that step.                            *)
TransferEndsClean ==
    [][\A s \in Slots :
         sess[s].mode # "none" /\ sess'[s].mode # sess[s].mode =>
            /\ sess'[s].mode = "none" /\ sess'[s].dc = "none"
            /\ sess'[s].off = 0 /\ sess'[s].size = 0
            /\ sess'[s].temp = "empty"
            /\ \A r \in Roles \ {"control"} : sess'[s].fd[r] <= 0]_vars

Orphans == {f \in Fds : fdt[f].role = "data" /\
                        sess[fdt[f].slot].fd["data"] # f}

(* A data socket is lost in one way only: a transfer command is repeated on  *)
(* a session whose last connect() to the client failed.                      *)
DataSocketLostOnRetry ==
    [][Orphans' \subseteq Orphans \cup
         {f \in Fds : /\ at = "lines"
                      /\ sess[cur].fd["data"] = f
                      /\ sess[cur].dc = "active"
                      /\ sess[cur].mode = "none"}]_vars

(* The thread is in a call that has no timeout and waits for one client: a   *)
(* connection in accept() or connect(), bytes in send() or recv() of a       *)
(* blocking data socket, or a reply to be taken off its control connection.  *)
WaitsForClient ==
    \/ at \in {"opening", "transfer"}
    \/ at = "lines" /\ lines > 0
    \/ at = "data" /\ DataReady

(* What a client does is attended to: a line it has sent is read, and when   *)
(* it has gone its session is closed, in mid-transfer too and no matter what *)
(* the other sessions do. (Always again, nothing is left to attend to.) The  *)
(* code sees to it except where it waits for one client, and that for ever.  *)
Attended ==
    \A s \in Slots : []<>(inbox[s] = 0 /\ link[s] = "up") \/ <>[]WaitsForClient

(* A waiting client is eventually accepted if there is a slot and a          *)
(* descriptor for it, with the same exception.                               *)
Accepted ==
    \/ []<>(backlog = 0 \/ Inactive = {} \/ \A f \in Fds : fdt[f] # Free)
    \/ <>[]WaitsForClient

-----------------------------------------------------------------------------
(* What the source and its documents say, and the code does not do.          *)

(* "int control_sock; // socket for commands" (src/src/ftpsrv.c:127): the    *)
(* control descriptor of an active session is its control connection.        *)
ControlSocketIsOwn ==
    \A s \in Active : fdt[sess[s].fd["control"]] = Owner(s, "control")
=============================================================================
