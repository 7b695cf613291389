# ftpsrv in TLA+

Specifications of ftpsrv, a single threaded FTP server for small devices
(Switch, 3DS, DS, Wii, Linux): TLA+ modules translated from the C source,
TLC configurations that check them on small instances, and TLAPS proofs of the
theorems that hold for every size. Paths below are relative to the repository;
the C files are under `src/src/`.

## The system

| Part | Source | State | Operations |
|---|---|---|---|
| Server core | `ftpsrv.c` | `g_ftp`: the listener, the session table, `session_count`; per session: login, data connection (mode and three sockets), transfer (mode, offset, size, file, directory, list buffer), REST marker, working directory, `temp_path` | `ftpsrv_init`, `ftpsrv_loop` (poll, accept, read commands, move data), `ftpsrv_exit`, 34 command handlers |
| VFS, POSIX | `platform/unistd/vfs_unistd.c` | a descriptor or `DIR *` per handle | open, read, write, seek, close, directories |
| VFS, Switch | `platform/nx/vfs_nx.c` | file service handle, write buffer, offsets, append flag | the same, with buffered writes |
| Mounts, Switch | `platform/nx/utils.c` | table of mounted file systems, device list | mount, unmount, translate paths |
| Front ends | `platform/*/main.c`, `main_sysmod.c` | on the Switch application: server thread, log queue under a mutex | init, loop until `FTP_API_LOOP_ERROR_INIT`, exit, init again |
| Arguments | `args/args.c`, with the loop of `platform/unistd/main.c` | the index of the next argument, the configuration | parse `--option=value` |
| Log | `log/log.c` | a file | append |
| VFS, stdio | `platform/stdio` | - | built by no target |

How they interact. A front end calls `ftpsrv_init` and then `ftpsrv_loop` until
it reports an error, on which it calls `ftpsrv_exit` and starts over. One call
of the loop is one `poll()` and one pass: at most one client is accepted, then
for each session its control connection is served (every complete line of one
`recv()`, each by a handler, to its end) and, if a transfer is on, one step of
it is made. There is one thread and no lock; what makes the code hard is that
its inputs interleave (sessions, clients, data peers, the descriptor table they
all share), that handlers have many error exits which must each give back what
was opened before them, that some calls block the only thread, and that what
one call leaves in a session is what the next one finds.

### What makes each part correct

- *Descriptors*: a session closes only what it opened; nothing is leaked; a
  number that was closed and reused is never taken for the old one.
- *Transfers*: a transfer has its connection, file and login for as long as it
  lasts, and gives all of it back however it ends.
- *Replies*: one final reply per command, the transfer's when it ends.
- *Sessions*: counts and slots agree, a reused slot shows nothing of its last
  client.
- *The loop*: everyone is served in the end, unless one client holds the only
  thread for ever, which nothing in the code prevents.
- *Data*: the bytes that arrive are the file's from the marker on, each once
  and in order; what an upload brings is in the file in its place.
- *Files of the Switch*: buffering and growing by chunks cannot be told from a
  plain file.
- *Listings*: the lines of the entries, whole (but for one byte, below), once, in
  order, all before 226.
- *Paths*: the working directory is always absolute and without doubled slashes;
  each path typed leads where its names say.
- *Control stream*: each line is executed once, in order, as it was sent.
- *Programs*: every message is shown once, in order; an exit leaves no thread
  behind, and comes as soon as no client holds the thread; after a failure the
  server listens again.
- *Start and end*: a program serves with what its user typed, on the port asked
  for; a device shown leads where it should; every file system opened can be
  closed; changes to saves are committed.

The hazards this list answers are in `PROJECT.json`, each at its line.

## Modules

| Module | Models |
|---|---|
| `FtpServer` | the server core over the descriptor table of the process; `MCFtpServer` has its instances, `FtpServerProofs` its theorems |
| `MCFtpSession` | two instances of `FtpServer` side by side, two sessions or many lines in a packet |
| `FtpSessionProofs` | the theorems about sessions and their transfers, over those of `FtpServerProofs` |
| `FtpTransfer` | the bytes of the transfers of one session; `FtpTransferProofs` has its theorems and those of `NxTransfer` |
| `FileContent`, `VfsFile` | the content of a file; the contract of `ftpsrv_vfs.h`, the abstract file |
| `NxFile` | the Switch's file handle; `MCNxFile` checks both builds of it, `FileContentLemmas` and `NxFileProofs` prove that it implements `VfsFile` |
| `NxTransfer` | `FtpTransfer` composed with `NxFile`: the uploads of the Switch; `MCNxTransfer` checks both builds |
| `FtpPath` | path texts, as operators |
| `FtpDirectory` | working directory, renames and listings of one session; instances in `MCFtpDirectory`, theorems in `FtpDirectoryProofs` |
| `FtpControl` | what `recv()` brings of a stream of lines |
| `FtpFrontend` | the programs: threads, log queue, init and exit, over `FtpControl`; instances in `MCFtpFrontend`, theorems about both in `FtpFrontendProofs` |
| `Args` | the option parser, as operators, and what a command line means |
| `FsDevWrap` | the mounted file systems and the list of devices of the Switch |
| `Startup` | the programs before and after serving, over `Args` and `FsDevWrap`; instances in `MCStartup`, theorems in `StartupProofs` |

They cut the program along what its properties relate. `FtpServer` has all the
control of a session and none of its data. `FtpTransfer` and `FtpDirectory` have
the data of one session, with the control that touches it and nothing of
descriptors. `NxTransfer` puts `NxFile` under `FtpTransfer`'s file; `FtpFrontend`
stands around the loop, and `Startup` around that. What one module abstracts is an arbitrary choice there: which command
a line is in `FtpServer`, whether a descriptor can be had in `FtpTransfer`.

### FtpServer

| TLA+ | C |
|---|---|
| `sess[s]`, `count`, `server` | `g_ftp.sessions`, `session_count`, `server_sock` |
| `sess[s].fd["control" / "data" / "pasv" / "file" / "dir"]` | `control_sock`, `data_sock`, `pasv_sock`, `file_vfs.fd`, `dir_vfs.fd` |
| `.dc`, `.mode`, `.auth`, `.marker`, `.off`, `.size` | `data_connection`, `transfer.mode`, `auth_mode`, `server_marker`, `transfer.offset`, `transfer.size` |
| `.temp` | `temp_path`, as who set it |
| `.nonblock` | `O_NONBLOCK` of the data socket |
| `.owed` | history: final replies due |
| `fdt` | the kernel's descriptor table: what each number refers to |
| `at`, `cur`, `lines`, `opener` | where the thread is: in the loop, at which session, how many lines of this `recv()` are left, which transfer the pending `ftp_data_open` is for |
| `rev` | `revents` of this round |
| `backlog`, `inbox`, `link` | the kernel's side of the clients |

Each handler is one action, named after its command; its disjuncts are its
exits. It works on a *world*, the session and the descriptor table, through the
helpers the code has (`CloseSocket`, `VfsClose`, `DataTransferEnd`, ...), and
ends in `Answers(w, n)`: the world is written back and n final replies have
been sent. The five handlers that call `ftp_data_open` may stop there
(`WaitForPeer`), with the whole process; `PeerConnects` and `OpenFails` are
their second halves. `TransferStep` is a step over a non-blocking data socket;
over a blocking one `TransferBlocks` and `TransferUnblocks` are the call and the
return. `Running` are the steps the thread takes alone, `Replying` those that send
replies over the control connection, which is a blocking one (`ftpsrv.c:422`), and
`Peer` the returns from calls that wait for the peer of a data connection. `Poll`,
`Accept`, `Receive`, `Hangup`, the `Skip` actions and `LoopError` are the loop, in the code's order, with `rev` fixed at the poll and used later,
as the code does. `Exit` closes one session per step, `Start` is a successful
`ftpsrv_init`.

Descriptors are numbers and are handed out lowest first, as POSIX says, so a
number is reused at once and a stale handle hits something. `MaxFd` bounds the
table, so every open can fail with `EMFILE`. `ZeroFileOpen` says whether a file
handle of zero bytes reads as open: it does in `vfs_unistd.c` (`fd >= 0`), and
does not on the Switch.

Clients act only while the thread is in a call that waits (`Waiting`). The
thread learns of clients only through such calls, so an action of a client in
between can be moved to the next one with the same result; this is the only
reduction the model makes. What a client sends is a number of lines: which
command each line is, is chosen when it is executed. A line's arguments are
the disjunct the handler takes. `ControlEvent` also covers a control descriptor
that was closed under its session: poll ignores a free number, and a number
that is something else by then is ready or not as that is.

Left out of `FtpServer`: path and file contents, reply texts, CWD and CDUP's
effect on `pwd` (they answer only), TYPE, STRU and MODE (stored and never read),
the split of the stream into lines, a failing `ftpsrv_init`, and the `select()`
variant of the loop (the same control over another system call).

### FtpTransfer

`offset`, `size` and `marker` are `transfer.offset`, `transfer.size` and
`server_marker`; `data` and `pos` are the file and where the system has the
handle in it; `port` is which way the bytes go: "linux" has `sendfile()`,
"posix" a read, a send and an lseek, "nx" takes the offset at which an upload
begins from the length of the file. A step of `ftp_file_data_transfer_progress`
is one action per outcome of its calls: `SendSome` (whatever part of the buffer
is taken), `SendEnds`, `SendStalls`, `ReceiveSome`, `ReceiveEnds`,
`ReceiveStalls`, `TransferFails`. A byte is one of a small set, enough to tell
a wrong one from a right one. `want`, `from`, `skew` and `spoilt` are history:
what an upload should leave, where the transfer began, how far `offset` was from
`pos` then, and whether a write was short or a `recv()` stalled.

### VfsFile, NxFile

`VfsFile` is what `ftpsrv_vfs.h` promises: open, read, write, seek, close over a
content. `NxFile` does it with the requests of the Switch's file service, each
of which may fail: `WriteBuffered` (the application) fills `buf` and flushes it,
`WriteChunked` (the system module) grows the file by a chunk ahead of what it
writes and `ClosedChunked` shrinks it to where the writing stopped. `Buffered` is
the build's `VFS_NX_BUFFER_WRITES`. The refinement mapping shows the file as it
would be after a close. `CloseLoses` marks a close all of whose requests fail:
nothing can be promised there, as `ftp_vfs_close` cannot report it.

### NxTransfer

The handlers of an upload call the file several times, and go on as it answers,
so a command is cut where they do: `OpenFile` then `FileOpened` (with a data
connection, or 425 and a close), `Receive` or `WriteFails` then `WriteFailed`.
The calls are the actions of `NxFile`, the other half of each step the actions of
`FtpTransfer`, whose `data` and `pos` go on as the file of a plain system with the
same calls: the reference the Switch's file is compared with. A download reads
the file as it is, which `NxFileProofs` justifies.

### FtpPath, FtpDirectory

A path is a sequence of slashes, backslashes and words. `BuildFullpath`,
`RemoveSlashes`, `Parent`, `Joined`, `FixPathForDevice` are the functions of the
same names. `Paths` is what `build_fullpath` makes of everything a client can
type, and what handlers are given; `Cut` is what `snprintf()` leaves of a path
that is too long. `pwd`, `temp`, `dir`, `index`, `text`, `offset`, `size` are
`pwd`, `temp_path`, `dir_vfs`, `transfer.index`, `list_buf`, `transfer.offset`
and `transfer.size`. The loop of `ftp_dir_data_transfer_progress` is a turn per
step (`at = "loop"`): `SendPart`, `SendAll`, `SendBlocks`, `SendFails` with
something in `list_buf`, `NextDevice`, `NextEntry`, `NoMoreEntries` without. An
entry is a name, the length of its line, and whether it is passed over. `Printed` is
what `snprintf()` makes of a line; `Lines`, which the properties compare with, has
the lines as they are, and knows nothing of `list_buf` but which of them it takes.

### FtpControl, FtpFrontend

A byte of the control stream is its place in it. `Recv` takes any part of what
has come; `ProgressLine` takes the next line that has its CR and LF in the
buffer; `NoMoreLines` drops the rest. In `FtpFrontend` the server's thread
(`ThreadTop` ... `ThreadExit`) runs `ftpsrv_init`, `ftpsrv_loop` and
`ftpsrv_exit`; each line executed has a message for the command and one for the
reply, a refused line one. A reply sent (`thread = "reply"`), with the `connect()`
or `accept()` of a transfer command, and a step of a transfer (`"data"`) take as
long as the client wants: `ReplyTaken` and `DataMoves` end them. The callback is four steps under the mutex
(`SayLock`, `SayCount`, `SayRealloc`, `SayStore`), `processEvents` one per
message and two at its end. `NdsStatus`, `NdsKeys` and `NdsInit` are the turns of
the DS, which has one thread and looks at what `ftpsrv_init` returns; "service"
is the Linux program and the system module, which never end and poll without
timeout. `server` is the life of `g_ftp`: "off", "listening", or initialised
without: "unbound" if poll() reports the socket, "deaf" if there is none or it
does not. Of the server's sessions there is one, and it is there while the
server listens.

### Args, FsDevWrap, Startup

An argument is a key with or without a value, the "--", or a text.
`ArgsResult`, `ValueAt` and `NextIndex` are what one call of `args_parse` returns,
the value and the new index; `Configure` is the loop of the Linux program.
`ConfigMeant` and `Meaningful` are the reference: they say what a whole line means
without going through it. `entries` and `devices` are `g_fsdev_entries`, up to its
first free entry, and `g_devices`; `open` is what the file service has open.
`MountFs` is any of the `fsdev_wrapMount...` functions with `mount_helper`,
`MountShortcut` a directory of a mounted file system mounted by another name;
`AddDevice` follows a mount that worked. `Startup` goes through `main()`: the
arguments or the ini file (minIni is external: its result is `given`), the mounts
in the order of `Mounts`, the checks, then serving, of which only what it does to
file systems is left, and the exit of the application with its commits.

## Properties

| Module | Property | Says |
|---|---|---|
| `FtpServer` | `DescriptorsOwned` | what a session holds (above 0) is what it opened for that purpose |
| | `DescriptorsHeld` | and what was opened is held: no leaks, but of data sockets |
| | `DataSocketLostOnRetry` | the one way to leak a data socket: a transfer command repeated after a failed `connect()` |
| | `IdleHoldsNoFile` | every error exit closes its file or directory |
| | `TransferEquipped` | nothing pulls a running transfer's connection, file, path or login from under it |
| | `TransferEndsClean` | a transfer gives everything back in the step that ends it, however that is |
| | `RepliesBalanced` | one final reply per command |
| | `SessionsCounted` | `session_count` and the slots agree; a free slot is zero |
| | `Attended` | always again a line sent is read and a departed client's session closed, unless the thread waits for one client for ever |
| | `Accepted` | always again a waiting client is accepted if there is a slot and a descriptor, with the same exception |
| `FtpTransfer` | `DownloadExact` | what was sent is the file from the marker on, through short sends and stalls |
| | `OffsetIsPosition` | `transfer.offset` agrees with where the handle is, which the retry by seek needs |
| | `DownloadComplete` | 226 comes with the last byte, not before |
| | `UploadExact` | what was written is in its place, after what was there for APPE |
| `NxFile` | `ImplementsVfs` | the Switch's handle implements `VfsFile` |
| `NxTransfer` | `UploadStored` | at 226 the file of an upload to the Switch is, once closed, the one a plain file would be |
| `FtpDirectory` | `PathsResolve` | from wherever CWD and CDUP have led, a path typed with any slashes leads to the names it says |
| | `RenamesNamed` | RNTO renames what RNFR named, or what a failed command left |
| | `ListingExact` | what a listing has sent is the lines of its entries from the first on, each byte but the last of a line as long as `list_buf` |
| | `ListingComplete` | and all of them at 226, if `readdir()` did not fail |
| | `HasNext` | the loop never asks for a device after the last, or reads a closed directory |
| `FtpControl` | `LinesExecuted` | a line that one `recv()` brings is executed once, whole, in its turn; of any other at most the end |
| `FtpFrontend` | `MessagesKept` | what is shown is what was said, in order, once, and the queue has the rest |
| | `LeavesAlone` | a program leaves after its server's thread, and without its sessions |
| | `Leaves` | who asks to exit does, unless a client holds the thread for ever |
| | `Recovers` | once the network stays, the server listens again and again, unless it is `Stuck` |
| `Startup` | `ServesWhatWasMeant` | the Linux program serves only if its command line means something, with that, and listens on that port |
| | `SavesApplied` | once the application is gone, every change to the users' saves is committed, but where the service failed to |
| `FsDevWrap` | `DevicesResolve` | a device that is shown leads to what it was mounted for |
| | `FileSystemsOwned` | every open file system has one entry that owns it, and every entry one that is open |

### Runs

| Run | Instance | Shows |
|---|---|---|
| `one` | 1 session, all commands, 2 lines per packet, 6 descriptors | the whole command set, every error path; 6 descriptors run out in the middle of every handler that opens more than one |
| `two` | 2 sessions, log in, PASV, STOR, 7 descriptors; or 1 client, 4 lines per packet, the commands of a download | numbers move between sessions; slots are reused; ABOR, PASV and RETR in one packet, over revents taken before them, in mid-transfer |
| `live` | 2 sessions that upload over PORT, fair thread and poll, unfair clients and peers | `Attended`, `Accepted` |
| `transfer` | files and uploads of up to a few bytes, all three ports, both builds of the Switch, every request to its file service failing | the byte properties; every marker from -1 to behind the end of the file |
| `nxFile` | both builds side by side, buffers and chunks of 2 | the refinement, with every request failing |
| `directory` | paths typed of 2 tokens, paths of up to 4, two devices, directories of 2 entries with lines of 1 to 3 bytes, `list_buf` of 2 | a line that fits, is as long as `list_buf`, and is longer; a path that is too long; `fix_path_for_device`. Without devices: the theorems, which are for both |
| `app` | 2 lines of 4 bytes, `recv()` of up to 6; Switch, Wii, service, DS | every cut of the stream; every interleaving of the two threads; a client that takes no reply or leaves a transfer where it is; the 3DS is the Switch with the Wii's log file |
| `startup` | every line of up to 3 arguments, every login and port of an ini file, every mount, a table of 10 entries | a value taken for a key or the other way round, options given twice; mounts that fail or find the table full; `game_cheat_dir` empty, too long, or the name of another device |
| `zeroFd`, `marker`, `log`, `login` | small | four places where the code does not do what the source or a document says, below |

`one`, `two` and `live` use file handles that are closed when zero
(`ZeroFileOpen` is `FALSE`), the Switch's, so that every property can be stated
without exception; `zeroFd` has the POSIX ones. Sizes, offsets and markers of
`FtpServer` are 0 or 1 (`MaxLen`), enough to tell a stale value from a reset
one. In `startup` numbers are scaled: an unsigned holds 0 to 7 and a port 0 to 3,
so that a number can be too large for each (4 stands for 65536); the table of
mounts has 10 entries for the 12 mounts of the application (the real one has
32, which these do not fill, but the code is there for it; ten hold every file
system and not every shortcut, and that a full table refuses a file system too is in
`FileSystemsHaveOwners`, which is for every size). Every run checks for deadlock but `startup` and `login`, whose programs end.

Each passing property is also tried on mistaken variants of the model: the
definitions marked *Mistake* are such variants (a descriptor closed but not
forgotten, ABOR that answers once, a retry without its seek, a mutex not waited
for, ...). They are no part of the specifications.

### Fairness

`FtpServer`'s `FairSpec` says that the thread takes the steps it takes alone, and
that `poll()` reports a client that has connected, sent or left: the operating
system guarantees both. Of clients and of the peers of data connections nothing is
assumed, and so nothing of the calls in which the thread waits for one. None of
them has a timeout: `accept()` of a passive connection (`ftpsrv.c:455`),
`connect()` of an active one (450), whose socket stays blocking (460), `send()` and
`recv()` on that (503, 587, 596), and `send()` of a reply (422), as control
connections are never made non-blocking. In each, one client can hold everybody up
for ever. `Attended` and `Accepted` therefore except a behaviour that ends in such a
call (`WaitsForClient`), and say that nothing else in the loop can starve anyone: no
transfer that is always ready, no session in front, no handler, no slot or
descriptor given back late. The run leaves poll failures and resets out, which end
sessions, and passive connections, to keep the graph small; the wait in `connect()`
and the one in `accept()` are the same in the model.

`FtpFrontend`'s says that both threads run and that each gets a mutex that is
free again and again, as the systems' mutexes wake who waits; it too assumes nothing
of clients, and `Leaves` excepts a thread that stays at "reply" or "data" for ever.
The Switch's `main()` joins the thread without a bound (`nx/main.c:274`): what the
code promises of an exit is no more than this. The run shows that no order of
failures, locks and turns keeps it from being over otherwise.

### Exceptions, and why

Some properties except a case the code does not handle. Each exception is as
narrow as TLC allows: without it the run fails.

- `RenamesNamed` (`left`): RNFR of a path that is too long, and a LIST that
  fails, leave a path for RNTO.
- `ListingExact`, `ListingComplete` (`stale`): RETR or LIST that fails with 425
  leaves `transfer.offset` and `transfer.size`, and a listing over the same PORT
  starts by sending that much of `list_buf`.
- `ListingComplete`: `readdir()` fails, and 226 is sent (`ftpsrv.c:540`).
- `ListingExact`, `ListingComplete` (`Delivered`): a line as long as `list_buf`
  passes the test at `ftpsrv.c:396`, and as `snprintf()` ends it with a NUL, its last
  byte, the newline, is sent as that. The comment in the next line says "don't send
  anything on error or truncated". The run has such a line, and one that is longer.
- `Attended`, `Accepted` (`WaitsForClient`), `Leaves` ("reply", "data"): a call that
  waits for one client and never returns; above.
- `ImplementsVfs` (`CloseLoses`): above.
- `UploadStored` (`moved`): when `recv()` would block in an upload, the file is
  sought to `transfer.offset` (`ftpsrv.c:605`), and `ftp_vfs_seek` sets the offset of
  the Switch's handle without a look at its buffer (`vfs_nx.c:483`). In the
  application what is buffered is then written behind its place, at every stall
  with a buffer that is not empty, in both builds after APPE, where the two differ
  from the start. (`lost`): a close that fails loses what was buffered, no more.
- `SavesApplied` is about the saves of users; that of bcat is never committed. A
  commit that the service fails is not looked at (`utils.c:34`), and what it was to
  apply is lost (`failed`); one refused as a file is open is not excepted.
- `DevicesResolve`: a `game_cheat_dir` with the name of another device leads where
  that one does.
- `ServesWhatWasMeant` leaves out the value of `--anon`, below, and ports that do
  not exist.
- `Recovers` (`Stuck`): after a failed `socket()` poll() is given -1 and reports
  nothing, for ever; on the DS a failed `ftpsrv_init` has set `initialised`, and
  each later one is refused.
- `LinesExecuted` (`Intact`): a line that two `recv()` calls bring is lost, and a
  cut between CR and LF loses the next line too.
- `DescriptorsOwned` says nothing of descriptor 0, which `zeroFd` is about.

### Where code and documents disagree

- `zeroFd`: `vfs_unistd.c:67` takes a zeroed handle for an open file, so the
  first transfer end or close of a session closes descriptor 0. The next client's
  control connection gets number 0 and its first PASV or PORT closes it, while
  `ftpsrv.c:127` says "socket for commands".
- `marker`: APPE sets `server_marker` to -1 and STOR returns 501 before it
  resets it if there is no path; the next STOR appends. `ftpsrv.c:135`: "file
  offset when using REST".
- `log`: the Switch application never closes its log file, whose handle keeps up
  to 1 MiB, while `assets/config.ini.template:23` says "enables log output to
  /config/ftpsrv/log.txt".
- `login`: a Switch program starts if one of user, password and `anon` is set
  (`nx/main.c:224`, `main_sysmod.c`), and USER and PASS refuse an empty argument, so
  with only one of the two nobody can log in. `README.md:27`: "requires a user and
  password to be set, or, set `anon=1`".

Also met, without a run: the line as long as `list_buf`, above; "data transfers are
async" (`ftpsrv.c:1352`), while an active data socket stays blocking; `--anon=0` enables anonymous logins
(`unistd/main.c:93`), and `-a` or `--anon` without a value is refused; a port above
65535 is accepted and cut to 16 bits; the system module does not look at its port;
RNTO from one device to another of the same file system is refused as one across
file systems; `read_only` is read nowhere (`ftpsrv.h:37`); `offset` and
`size` keep what a failed RETR has set (`ftpsrv.c:107` has "only set during RETR,
LIST and NLST"); `fsdev_wrapUnmountAll` (`utils.c:189`) closes the entries that
are not active; STOR ignores the marker of REST.

### Proofs

`FtpServerProofs` proves `TypeCorrect` (`Spec => []TypeOK`) and `Ownership`
(`Spec => []DescriptorsOwned`) for every number of sessions, descriptors,
lines and clients, every command set and both kinds of file handle, from the
two assumptions on the constants.

`DescriptorsOwned` is not inductive alone. `IInv` adds the types, and what two
positions of the thread count on: a pending accept has a client waiting
(`AcceptPending`), a pending data connection has its command and its line
(`OpeningPending`). The argument: an action changes the table through one
session only, and there only numbers that are free or the session's own.
`Reaches(w, v)` says this of two worlds; it is transitive, each helper satisfies
it (`OpenReaches`, `CloseReaches`, `TransferEndReaches`, ...), so each handler
does, by a chain of helpers; `CommitKeeps` turns it into the invariant for all
sessions. That two handles of a session never share a number follows from
ownership itself: one number has one owner and one role.

`NxFileProofs` proves that `NxFile` implements `VfsFile` (`Implementation`, for
every `BufSize`, `ChunkSize`, content and pattern of failing requests, from
`~CloseLoses`) from the inductive invariant `IInv` of `Invariance`: the types, with the
buffer within its bounds, and `Located`, where offset, chunk and end of the file
lie. It is needed as a buffered byte is in the mapped file at the place the
flush will give it, which is right only while `off + buf_off` is where the
writing is. `Invariance` and `HandleTypes` (`Spec => []TypeOK`) assume nothing: they hold
when a close loses data, too. The facts about contents it rests on (what writing
twice in a row, growing and shrinking give) are in `FileContentLemmas`.

`FtpSessionProofs` goes on from `IInv` to what sessions and their transfers are, by
the inductive invariant `SInv`. `SessionsFit`: a session rests (`Settled`: no
transfer, no file, nothing owed), or moves data (`Moving`: its file or path, its
login, its connection and one reply owed), or, while the thread waits in its
handler, has all but the connection (`Pending`); a free slot is zero. `TablesTidy`:
no descriptor is in the table for a session that does not know of it. The
others say how the thread and the poll results relate to that: the session it is
at is active (`ThreadPlaced`), and an event that waits is of an active session
(`EventsPending`), without which a step could revive a slot that was closed in the
round; `CountRight` is the count. Each is needed by another: a handler is only
known to start from a settled session because of `ThreadPlaced`, and ends in one
only if `TablesTidy` holds of what it closed. The lemmas follow the helpers again:
`Touches` says that a call changed one handle and its descriptor, and nothing else
of the session. A data socket is the one thing `TablesTidy` lets go: `Keeps(w, v)` says
that from `w` to `v` no more are lost than the one a repeated command may lose
(`Retried`). It needs that a session waiting in PASV has none (`Listening`, a part of
`Settled`), so that `accept()` writes over nothing. `ClientsHeld` has the control
socket of each active session.

From it follow, for every size and both kinds of handles, `RepliesAreBalanced`,
`SessionsAreCounted` and `TransfersEndClean`; and, assuming `~ZeroFileOpen`,
`IdleSessionsHoldNoFile`, `TransfersAreEquipped`, `DescriptorsAreHeld`,
`DataSocketsAreKept` (`DataSocketLostOnRetry`) and `ControlSocketsAreTheirOwn`
(`ControlSocketIsOwn`, which `zeroFd` refutes for POSIX handles: so they are its only
cause). The assumption is needed: with POSIX handles a zeroed one is an open file, so a session
at rest does hold one, and what `zeroFd` shows happens.

`FtpTransferProofs` proves the four properties of `FtpTransfer` (`DownloadsAreExact`,
`DownloadsAreComplete`, `OffsetsArePositions`, `UploadsAreExact`) for `Spec`, every
set of bytes and every buffer and file size. `Downloading` says of a download that
the bytes sent are those between its start and `pos`, and that `size` is the
file's, so its end is seen; `Uploading` of an upload that nothing spoilt that the
file is what it should be and the next byte goes to its end. Together with
`OffsetIsPosition`, which the retry needs and the short send keeps, they are
inductive; `TransferTypes` is `Spec => []TypeOK`.

The same module proves `UploadsAreStored` (`UploadStored`) for `NxTransfer`, for every size
of buffer and chunk, every content and pattern of failing requests. The invariant
`NInv` puts the two halves side by side: `TInv` of the session, what holds of the handle
under it wherever it is (`Unlocated`), and `Linked`, what each place between two calls of a
handler knows of both: what the handle is ready for, and, unless a stall has moved it,
that it is `Located` and that its file, closed now, would be the session's `data`. What the handle's calls do to that
file is taken from the lemmas of `NxFileProofs`, so nothing is proved of a buffer twice.
`NxTransfersAreExact` says that the properties of the bytes hold there as well.

`FtpDirectoryProofs` proves the six properties of `FtpDirectory` and its types, for
paths of any length, any devices and directories, and every size of `pwd`, `temp_path`
and `list_buf`. Paths: `pwd` is absolute, has no doubled slash and fits (`Working`), and
what the folds of `FtpPath` return for it and a text has the names that were typed
(`EveryPathResolves`), with a lemma for each operator. Listings: `Progress` says that of
the entries to list some are taken and `Rest` is to come; and that what was sent, with
what `list_buf` still holds (`Unsent`), is the lines of those taken as `list_buf` has
them (`PrintedLines`), so that at 226, when there is no rest and nothing unsent, it is all
of them. `LinesAreDelivered` then compares these with the lines as they are (`Lines`): as
many bytes, and the same, but for the one a NUL may stand for. The facts about the fold of
either are proved once, of the fold over any lines (`LinesBy`). `Opened` says what is left to
read of the device list, the directory or the single line that is being listed, which
`ThereIsANext` (`HasNext`) rests on. `Kept` is the path of RNFR, or what a failed command
has left. Induction over the length of a sequence, which the library states with an
operator for a parameter, is done as a fact about sets of naturals (`LeastNatural`): a
property that failed would fail of a least length, and it does not.

`FtpFrontendProofs` proves `MessagesAreKept` (`Spec => []MessagesKept`) and
`LeavingIsAlone` (`Spec => []LeavesAlone`) for any number of lines and every
program. The invariant: who holds the mutex is exactly who is inside its
section (`Exclusion`); `Queue` says, for each place of either thread, which cells
of the queue are set and which messages are in them - between the count and the
store the last cell is not - and `Rests` that the thread has no server when it is
over. `MessagesKept` says something only when the mutex is free, so it is not
inductive without `Queue`.

`CommandsAreLines` (`LinesExecuted`) is about the control stream, for lines of any number
and length, and however it is cut. The invariant `CInv`: clients have sent whole lines
(`WholeLines`); what is not looked through yet was taken by one `recv()` (`Taken`), and
begins where `line_offset` is, or earlier in a line that `line_offset` is behind the LF
of (`Cut`); what a command was made of is the end of the text of a line before
`line_offset` (`Ended`), the commands are in the order of the stream (`InTurn`), and of
the lines before `line_offset` those that came in one piece are executed whole, and no
others (`Settled`). `FrontendTypes` (`TypeOK`) has the bounds of the log: two messages at
most for each line that was finished (`Counted`, `Logged`, `Saying`).

`StartupProofs` proves `DevicesLeadHome` (`Spec => []DevicesResolve`),
`FileSystemsHaveOwners` (`FileSystemsOwned`) and `SavesAreApplied` (`SavesApplied`)
for a table of any size, every set of long names and of configurations, and every
pattern of mounts that fail. The assumption is that no `game_cheat_dir` is the value
that stands for a path without a device (`InisAssumption`). The invariant `MInv`:
the list of devices and the table agree entry by entry (`Listed`), which they do as
both have the same size and only a mount that worked is listed; each entry has a
name of the list of `main()` up to `next` (`Named`); and the first entry of the name
of an open file system is its own (`Foremost`). The last is what a commit rests on,
as it looks for the save by name. It is kept as `main()` mounts its file systems
before its shortcuts (`WholeFirst`): a `game_cheat_dir` called `save0` comes behind
the save.

`LinesAreUnderstood` (`ServesWhatWasMeant`) is about the command line of the Linux
program, of any length and texts. The reference says what a line means with sets: an
argument is an option or the value of the one before it, and the last of a kind
counts. The invariant `LineInv` has, while the parser runs (`Reading`), that what it
has read so far means something and that the configuration is what the reference
gives for the arguments before `index` (`ConfigOf`); `AllRead` that it stops only at the
end, at the first `--` or at a text that is no option's value, all of which the reference
ignores. The port comes through two conversions, to an unsigned and to 16 bits; it is
kept as the first is not the smaller (`PortAssumption`). `StartupTypes` is `TypeOK`.

Only model-checked: liveness (`Attended`, `Accepted`, `Leaves`, `Recovers`), which is out
of the prover's reach, and the four properties that the code does not have. Every
invariant and every action property of the passing runs is a theorem. Those of
`FtpServer` that need `~ZeroFileOpen` are proved for the Switch's handles only: with
POSIX handles they are false of descriptor 0.

## Not modelled

The text of ini files, which minIni reads (vendored), and settings that change
nothing modelled here (sleep, the LED, the log level); single letter options and
`args_next`, which work as the long options do; the initialisation of consoles,
services, wifi and sockets, and the keyboard; stat, mkdir, unlink and the like
beyond the device they go to (no other state of the program changes); the text of
replies and of listing lines; HELP, FEAT and so on beyond their one reply; vfs_stdio
(built by no target).

## Plan

Done: every component above is modelled, and every safety property that a run checks
is a theorem for all values of the constants.

Left:

1. What the POSIX handles keep of `IdleHoldsNoFile`, `DescriptorsHeld` and
   `DataSocketLostOnRetry`: the same above descriptor 0.
2. `FtpTransfer` with the file as an abstract one, so that `NxTransfer` implements it
   where no stall has moved the handle.
3. The bounded waiting behind `Attended`: that within one round each session has its turn.
