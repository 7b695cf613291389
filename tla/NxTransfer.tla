----------------------------- MODULE NxTransfer -----------------------------
(* The uploads of the Switch: FtpTransfer's session over the file handle of  *)
(* NxFile. A handler of the session makes several calls to the file; where   *)
(* one of them decides how it goes on, that call is a step of its own. The   *)
(* file of FtpTransfer, data and pos, is what a plain file would be with the *)
(* same calls, and while no file is written it is the file on the disk; the  *)
(* Switch reads files as NxFileProofs shows, so the downloads are as they    *)
(* are there.                                                                *)
EXTENDS FtpTransfer

CONSTANTS
    Buffered,   \* VFS_NX_BUFFER_WRITES
    BufSize,    \* sizeof(f->buf)
    Chunk       \* NX_WRITE_CHUNK_SIZE

(* As in NxFile.                                                             *)
ASSUME HandleAssumption ==
    /\ {BufSize, Chunk} \subseteq Nat \ {0}
    /\ MaxIo <= BufSize
    /\ MaxIo <= Chunk
    /\ Buffered \in BOOLEAN

VARIABLES
    disk, fmode, off, chunk, buf, ret,   \* the handle, as in NxFile
    at,       \* "opened" and "failed" within a step, "loop" between them
    moved,    \* history: a stall of this upload has moved the handle
    lost      \* history: the close of the last upload failed

handle == <<disk, fmode, off, chunk, buf, ret>>

nxVars == <<vars, handle, at, moved, lost>>

Handle == INSTANCE NxFile WITH mode <- fmode, CloseLoses <- FALSE
Losing == INSTANCE NxFile WITH mode <- fmode, CloseLoses <- TRUE

NxInit ==
    /\ Init
    /\ disk = IF port = "nx" THEN data ELSE <<>>
    /\ fmode = "no" /\ off = 0 /\ chunk = 0 /\ buf = <<>> /\ ret = Done
    /\ at = "loop"
    /\ moved = FALSE /\ lost = FALSE

-----------------------------------------------------------------------------
(* ftp_vfs_close, and what it left is the file from now on. Nobody is told   *)
(* if it loses something.                                                    *)
CloseFile ==
    /\ \/ Handle!Close /\ lost' = FALSE
       \/ Losing!Close /\ lost' = TRUE
    /\ data' = disk'
    /\ moved' = FALSE
    /\ UNCHANGED pos

(* STOR and APPE open the file, ...                                          *)
OpenFile(m) ==
    /\ Idle
    /\ m = "APPEND" \/ marker # -1
    /\ Handle!Open(m)
    /\ at' = m
    /\ lost' = FALSE
    /\ UNCHANGED <<vars, moved>>

(* ... and then the data connection, without which it is closed again.       *)
FileOpened ==
    /\ at \in {"WRITE", "APPEND"}
    /\ Store(IF at = "APPEND" THEN -1 ELSE marker)
    /\ IF reply' = "425" THEN Handle!Close ELSE UNCHANGED handle
    /\ at' = "loop"
    /\ UNCHANGED <<moved, lost>>

OpenRefused(m) ==
    /\ StoreRefused(IF m = "APPEND" THEN -1 ELSE marker)
    /\ m = "APPEND" \/ marker # -1
    /\ Handle!OpenFails(m)
    /\ UNCHANGED <<at, moved, lost>>

(* All that was received is written, or nothing is known of it.              *)
Receive(b) ==
    /\ ReceiveSome(b, Len(b))
    /\ Handle!Write(b) /\ ret' = Done
    /\ UNCHANGED <<at, moved, lost>>

WriteFails(b) ==
    /\ mode = "stor"
    /\ Handle!Write(b) /\ ret' = Failed
    /\ at' = "failed"
    /\ UNCHANGED <<vars, moved, lost>>

(* The seek is one of a plain file if nothing waits in the buffer and the    *)
(* offset is where the file is.                                              *)
Moves == buf # <<>> \/ off # offset

Stall ==
    /\ ReceiveStalls
    /\ Handle!SetOffset(offset)
    /\ moved' = (moved \/ Moves)
    /\ UNCHANGED <<at, lost>>

(* 226 is sent before the file is closed; ABOR and errors close it too.      *)
UploadEnds ==
    /\ mode = "stor"
    /\ Received \/ Aborts \/ Failed426
    /\ CloseFile
    /\ UNCHANGED at

WriteFailed ==
    /\ at = "failed"
    /\ Failed426
    /\ CloseFile
    /\ at' = "loop"

-----------------------------------------------------------------------------
(* What does not touch a file that is written.                               *)
OtherStep ==
    /\ mode # "stor"
    /\ \/ \E m \in 0..MaxSize : REST(m)
       \/ ABOR \/ PASV
       \/ RetrRefused \/ RETR
       \/ \E m \in {marker, -1} : StoreNamesNothing(m)
       \/ \E n \in 1..Readable : SendSome(n)
       \/ SendEnds \/ SendStalls \/ TransferFails
    /\ UNCHANGED <<handle, at, moved, lost>>

UploadStep ==
    \/ \E m \in {"WRITE", "APPEND"} : OpenFile(m) \/ OpenRefused(m)
    \/ \E b \in Pieces(MaxIo) :
        /\ Larger(Len(want), offset) + Len(b) <= MaxSize
        /\ Receive(b) \/ WriteFails(b)
    \/ Stall \/ UploadEnds

NxStep ==
    \/ at = "loop" /\ (OtherStep \/ UploadStep)
    \/ FileOpened \/ WriteFailed

NxNext ==
    /\ \/ port = "nx" /\ NxStep
       \/ port # "nx" /\ Step /\ UNCHANGED <<handle, at, moved, lost>>
    /\ UNCHANGED port

NxSpec == NxInit /\ [][NxNext]_nxVars

-----------------------------------------------------------------------------
(* When the client has been told 226, its file on the Switch is the one a    *)
(* plain file would be, in spite of buffer and chunks. Two things break      *)
(* this: a stall whose seek moves the handle, under bytes in its buffer or   *)
(* away from where it is; and a close that fails, which loses what was in    *)
(* the buffer and not a byte before it.                                      *)
UploadStored ==
    [][port = "nx" /\ mode = "stor" /\ reply' = "226" =>
        \/ moved
        \/ disk' = data
        \/ lost' /\ Prefixed(disk', off, <<>>) = Prefixed(data, off, <<>>)]_nxVars
=============================================================================
