---------------------------- MODULE FtpTransfer ----------------------------
(* The bytes of the file transfers of one session, src/src/ftpsrv.c: where   *)
(* RETR, STOR and APPE start, what one step of ftp_file_data_transfer_       *)
(* progress moves and how it keeps transfer.offset and the position of the   *)
(* file together when a socket takes less than it was given, or nothing.     *)
(* FtpServer has the descriptors, replies and sessions; here a session has   *)
(* one file, and a file handle is the one of VfsFile, which may be sought    *)
(* wherever it is. NxTransfer puts the handle of the Switch in its place.    *)
EXTENDS FileContent

CONSTANTS
    MaxIo,      \* FTP_FILE_BUFFER_SIZE
    MaxSize     \* bound on the size of the file

ASSUME SizesAssumption ==
    /\ MaxIo \in Nat \ {0}
    /\ MaxSize \in Nat \ {0}

VARIABLES
    port,     \* what the program was built for
    data,     \* the file
    pos,      \* the position of the open file handle
    append,   \* it was opened to append
    mode,     \* transfer.mode
    offset,   \* transfer.offset
    size,     \* transfer.size
    marker,   \* server_marker
    conn,     \* data_connection # NONE
    reply,    \* the final reply to the transfer, as it is sent
    got,      \* history: what the data connection took of a download
    want,     \* history: the file an upload is to leave
    from,     \* history: pos when the transfer began
    skew,     \* history: offset - pos when the transfer began
    spoilt    \* history: of this upload a write was short, or recv() stalled

vars == <<port, data, pos, append, mode, offset, size, marker, conn, reply,
          got, want, from, skew, spoilt>>

history == <<got, want, from, skew, spoilt>>
file == <<data, pos>>

Ports == {"linux", "posix", "nx"}

(* HAVE_SENDFILE, which only Linux has.                                      *)
SendFile == port = "linux"

(* An appending handle writes at the end wherever it is: O_APPEND of         *)
(* vfs_unistd.c, but vfs_nx.c keeps an offset.                               *)
OAppend == port # "nx"

TypeOK ==
    /\ port \in Ports
    /\ data \in Content /\ pos \in Nat /\ append \in BOOLEAN
    /\ mode \in {"none", "retr", "stor"}
    /\ offset \in Nat /\ size \in Nat
    /\ marker \in Nat \cup {-1}
    /\ conn \in BOOLEAN
    /\ reply \in {"none", "226", "425", "426", "501", "550"}
    /\ got \in Content /\ want \in Content
    /\ from \in Nat /\ skew \in Int
    /\ spoilt \in [short : BOOLEAN, stalled : BOOLEAN]

Unspoilt == [short |-> FALSE, stalled |-> FALSE]

Init ==
    /\ port \in Ports
    /\ data \in Pieces(MaxSize) \cup {<<>>}
    /\ pos = 0 /\ append = FALSE
    /\ mode = "none" /\ offset = 0 /\ size = 0 /\ marker = 0
    /\ conn = FALSE
    /\ reply = "none"
    /\ got = <<>> /\ want = <<>> /\ from = 0 /\ skew = 0
    /\ spoilt = Unspoilt

-----------------------------------------------------------------------------
(* Commands; while a transfer is on only ABOR gets to its handler.           *)
Idle == mode = "none"

REST(m) ==
    /\ Idle
    /\ marker' = m
    /\ reply' = "none"
    /\ UNCHANGED <<data, pos, append, mode, offset, size, conn, history>>

(* ftp_data_transfer_end; what is known of the transfer ends with it.        *)
TransferEnd ==
    /\ mode' = "none"
    /\ offset' = 0 /\ size' = 0
    /\ conn' = FALSE
    /\ UNCHANGED <<append, marker>>
    /\ want' = <<>> /\ from' = 0 /\ skew' = 0 /\ spoilt' = Unspoilt

Aborts ==
    /\ conn
    /\ TransferEnd
    /\ reply' = "none"
    /\ UNCHANGED got

ABOR == Aborts /\ UNCHANGED file

(* PASV and PORT end what the session has before they open anew, or fail to. *)
PASV ==
    /\ Idle
    /\ offset' = 0 /\ size' = 0
    /\ conn' \in BOOLEAN
    /\ reply' = "none"
    /\ UNCHANGED <<data, pos, append, mode, marker, history>>

(* ftp_data_open and what the handlers do with its result: 425 leaves the    *)
(* offset and the size as they are, and the connection for another attempt.  *)
DataOpen(m, p, w) ==
    /\ got' = <<>>
    /\ \/ /\ conn
          /\ mode' = m
          /\ reply' = "none"
          /\ from' = p /\ skew' = offset' - p /\ want' = w
       \/ /\ reply' = "425"
          /\ UNCHANGED <<mode, from, skew, want>>
    /\ UNCHANGED spoilt

(* The path is bad or missing, or the file does not open.                    *)
RetrRefused ==
    /\ Idle
    /\ reply' = "550"
    /\ UNCHANGED <<data, pos, append, mode, offset, size, marker, conn, history>>

RETR ==
    /\ Idle
    /\ append' = FALSE
    /\ size' = Len(data)
    /\ offset' = IF marker > 0 THEN marker ELSE 0
    /\ pos' = IF marker > 0 THEN marker ELSE 0
    /\ marker' = IF marker > 0 THEN 0 ELSE marker
    /\ DataOpen("retr", pos', <<>>)
    /\ UNCHANGED <<data, conn>>

(* STOR with the marker that APPE, m = -1, or the session gives it.          *)
StoreNamesNothing(m) ==
    /\ Idle
    /\ marker' = m
    /\ reply' = "501"
    /\ UNCHANGED <<data, pos, append, mode, offset, size, conn, history>>

StoreRefused(m) ==
    /\ Idle
    /\ marker' = IF m = -1 THEN 0 ELSE m
    /\ reply' = "550"
    /\ UNCHANGED <<data, pos, append, mode, offset, size, conn, history>>

(* Mistake: every handle starts at 0.                                        *)
OpensAtStart(a, d) == 0

OpenPosition(a, d) == IF a /\ ~OAppend THEN Len(d) ELSE 0

(* Opening the file truncates it, whether or not a connection follows.       *)
Store(m) ==
    /\ Idle
    /\ append' = (m = -1)
    /\ marker' = IF m = -1 THEN 0 ELSE m
    /\ data' = IF append' THEN data ELSE <<>>
    /\ pos' = OpenPosition(append', data)
    /\ UNCHANGED <<offset, size, conn>>
    /\ DataOpen("stor", pos', data')

STOR == StoreNamesNothing(marker) \/ StoreRefused(marker) \/ Store(marker)
APPE == StoreNamesNothing(-1) \/ StoreRefused(-1) \/ Store(-1)

-----------------------------------------------------------------------------
(* One step of a download.                                                   *)
Ends(r) == TransferEnd /\ reply' = r

(* What one step reads: a buffer, or all that is left to sendfile().         *)
Readable ==
    IF SendFile THEN Larger(0, Smaller(size - offset, Len(data) - pos))
    ELSE Larger(0, Smaller(MaxIo, Len(data) - pos))

(* Mistake: what the socket did not take is skipped.                         *)
SkipsUnsent(n) == pos + Readable

(* read() moved the position by all it read, sendfile() by what it sent.     *)
PositionAfter(n) ==
    IF SendFile THEN pos + n
    ELSE IF n = Readable THEN pos + Readable ELSE offset + n

(* Mistake: a byte short of the end counts as the end.                       *)
CompleteEarly(n) == offset + n + 1 >= size

Complete(n) == offset + n = size

(* n of the bytes read are sent.                                             *)
SendSome(n) ==
    /\ mode = "retr"
    /\ got' = got \o ReadFrom(data, pos, n)
    /\ pos' = PositionAfter(n)
    /\ IF Complete(n)
       THEN Ends("226")
       ELSE /\ offset' = offset + n
            /\ UNCHANGED <<append, mode, size, marker, conn, reply>>
            /\ UNCHANGED <<want, from, skew, spoilt>>
    /\ UNCHANGED data

(* The end of the file, which is not always where size says: the marker may  *)
(* lie behind it, and size - offset is unsigned. The Switch refuses to read  *)
(* there.                                                                    *)
SendEnds ==
    /\ mode = "retr"
    /\ Len(data) <= pos \/ (SendFile /\ size = offset)
    /\ port = "nx" => pos <= Len(data)
    /\ Ends("226")
    /\ UNCHANGED <<data, pos, got>>

(* Mistake: the position stays where read() left it.                         *)
NoRewind == pos' = pos + Readable

(* Mistake: the file goes back to the REST marker.                           *)
RewindToMarker == pos' = marker

(* EAGAIN: the bytes were read and not sent, so the file goes back.          *)
Rewind == pos' = offset

SendStalls ==
    /\ mode = "retr"
    /\ Rewind
    /\ reply' = "none"
    /\ UNCHANGED <<data, append, mode, offset, size, marker, conn, history>>

-----------------------------------------------------------------------------
(* One step of an upload.                                                    *)
WritePosition == IF append /\ OAppend THEN Len(data) ELSE pos

(* k of the bytes b received are written.                                    *)
ReceiveSome(b, k) ==
    /\ mode = "stor"
    /\ data' = Written(data, WritePosition, SubSeq(b, 1, k))
    /\ pos' = WritePosition + k
    /\ offset' = offset + k
    /\ want' = want \o b
    /\ spoilt' = [spoilt EXCEPT !.short = @ \/ k < Len(b)]
    /\ reply' = "none"
    /\ UNCHANGED <<append, mode, size, marker, conn, got, from, skew>>

(* The client has closed the connection.                                     *)
Received == mode = "stor" /\ Ends("226") /\ UNCHANGED got

ReceiveEnds == Received /\ UNCHANGED file

ReceiveStalls ==
    /\ mode = "stor"
    /\ Rewind
    /\ spoilt' = [spoilt EXCEPT !.stalled = TRUE]
    /\ reply' = "none"
    /\ UNCHANGED <<data, append, mode, offset, size, marker, conn, got, want, from, skew>>

(* Any other error of the connection or of the file.                         *)
Failed426 == mode # "none" /\ Ends("426") /\ UNCHANGED got

TransferFails == Failed426 /\ UNCHANGED file

-----------------------------------------------------------------------------
Step ==
    \/ \E m \in 0..MaxSize : REST(m)
    \/ ABOR \/ PASV
    \/ RetrRefused \/ RETR \/ STOR \/ APPE
    \/ \E n \in 1..Readable : SendSome(n)
    \/ SendEnds \/ SendStalls
    \/ \E b \in Pieces(MaxIo) :
        /\ Larger(Len(want) + Len(b), WritePosition + Len(b)) <= MaxSize
        /\ \E k \in 1..Len(b) : ReceiveSome(b, k)
    \/ ReceiveEnds \/ ReceiveStalls \/ TransferFails

Next == Step /\ UNCHANGED port

Spec == Init /\ [][Next]_vars

-----------------------------------------------------------------------------
(* However often a socket takes less than the server has read, or nothing,   *)
(* what it was given so far is the file from where RETR began, each byte     *)
(* once and in order (ftp_file_data_transfer_progress).                      *)
DownloadExact == mode = "retr" => got = ReadFrom(data, from, Len(got))

(* And all of it when 226 is sent, which tells the client so.                *)
DownloadComplete ==
    [][mode = "retr" /\ reply' = "226" => got' = ReadFrom(data, from, Len(data))]_vars

(* When 226 is sent the file is what was received, after what it had if it   *)
(* was appended to. Two things break this, and only these: a short write,    *)
(* whose rest is dropped, and a recv() that would block while offset is not  *)
(* the position of the file, for then the file is moved to it.               *)
UploadExact ==
    [][mode = "stor" /\ reply' = "226" =>
        \/ data = want
        \/ spoilt.short
        \/ spoilt.stalled /\ skew # 0 /\ ~(append /\ OAppend)]_vars

(* offset and the position of the file move together, so that the one can    *)
(* stand in for the other in a seek, if they began together.                 *)
OffsetIsPosition ==
    /\ mode = "retr" => offset = pos
    /\ mode = "stor" /\ skew = 0 /\ ~(append /\ OAppend) => offset = pos

(* src/src/ftpsrv.c:135: "int server_marker; // file offset when using REST".*)
(* It is more: APPE leaves a -1 there if it names no file, and the next STOR *)
(* appends.                                                                  *)
MarkerIsOffset == Idle => marker >= 0
=============================================================================
