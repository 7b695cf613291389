------------------------------- MODULE NxFile -------------------------------
(* The file handle of the Switch, src/src/platform/nx/vfs_nx.c, over the     *)
(* file service of the console. The service writes only inside a file, so    *)
(* the handle sizes it first: with VFS_NX_BUFFER_WRITES it collects a buffer *)
(* and sizes the file to it, without it grows the file by a chunk at a time  *)
(* and shrinks it when it closes. A call may fail at every request to the    *)
(* service it makes.                                                         *)
EXTENDS FileContent

CONSTANTS
    Buffered,   \* VFS_NX_BUFFER_WRITES
    BufSize,    \* sizeof(f->buf)
    Chunk,      \* NX_WRITE_CHUNK_SIZE
    MaxIo,      \* FTP_FILE_BUFFER_SIZE: the most that one call reads or writes
    MaxSize,    \* bound on the size of the file
    CloseLoses  \* the service may fail all that a close asks of it

(* CMakeLists.txt: calls move at most 64K or 16K, buffer and chunk are 1M.   *)
ASSUME SizesAssumption ==
    /\ {MaxIo, BufSize, Chunk, MaxSize} \subseteq Nat \ {0}
    /\ MaxIo <= BufSize
    /\ MaxIo <= Chunk
    /\ Buffered \in BOOLEAN
    /\ CloseLoses \in BOOLEAN

VARIABLES
    disk,    \* the file as the service has it
    mode,    \* f->is_valid, and what the file was opened for
    off,     \* f->off
    chunk,   \* f->chunk_size
    buf,     \* the first f->buf_off bytes of f->buf
    ret      \* what the last call returned

vars == <<disk, mode, off, chunk, buf, ret>>

TypeOK ==
    /\ disk \in Content
    /\ mode \in {"no", "read", "write"}
    /\ off \in Nat
    /\ chunk \in Nat
    /\ buf \in Content /\ Len(buf) <= BufSize
    /\ ret \in Returned

-----------------------------------------------------------------------------
(* Requests to the service, as the outcomes they may have.                   *)

Outcome(d, ok) == [disk |-> d, ok |-> ok]

FsSetSize(d, n) == {Outcome(d, FALSE), Outcome(Resized(d, n), TRUE)}

FsWrite(d, o, b) ==
    {Outcome(d, FALSE)} \cup
    {Outcome(e, TRUE) : e \in IF o + Len(b) <= Len(d) THEN {Written(d, o, b)} ELSE {}}

(* flush_buffered_write: SetSize to what is written with the buffer, then    *)
(* Write the buffer.                                                         *)
Flush(d, o, b) ==
    {Outcome(d, FALSE)} \cup FsWrite(Resized(d, o + Len(b)), o, b)

-----------------------------------------------------------------------------
Init ==
    /\ disk = <<>>
    /\ mode = "no"
    /\ off = 0 /\ chunk = 0
    /\ buf = <<>>
    /\ ret = Done

(* Mistake: appends from the start of the file.                              *)
AppendsAtStart(m) == 0

OpensAt(m) == IF m = "APPEND" THEN Len(disk) ELSE 0

Open(m) ==
    /\ mode = "no"
    /\ mode' = IF m = "READ" THEN "read" ELSE "write"
    /\ disk' = IF m = "WRITE" THEN <<>> ELSE disk
    /\ off' = OpensAt(m)
    /\ chunk' = OpensAt(m)
    /\ buf' = IF Buffered THEN <<>> ELSE buf
    /\ ret' = Done

(* The file service refuses the path, or the size of the file it has opened. *)
OpenFails(m) ==
    /\ mode = "no"
    /\ \/ UNCHANGED <<off, chunk, buf>>
       \/ /\ m # "READ"
          /\ off' = 0 /\ chunk' = 0
          /\ buf' = IF Buffered THEN <<>> ELSE buf
    /\ ret' = Failed
    /\ UNCHANGED <<disk, mode>>

Read(n) ==
    /\ mode = "read"
    /\ \/ /\ off <= Len(disk)
          /\ ret' = Returns(ReadFrom(disk, off, n))
          /\ off' = off + Len(ret'.bytes)
       \/ /\ ret' = Failed
          /\ UNCHANGED off
    /\ UNCHANGED <<disk, mode, chunk, buf>>

SetOffset(p) ==
    /\ mode # "no"
    /\ off' = p
    /\ ret' = Done
    /\ UNCHANGED <<disk, mode, chunk, buf>>

(* Of a file that is read. NxTransfer has the server's seek of one that is   *)
(* written, of which VfsFile promises nothing.                               *)
Seek(p) == mode = "read" /\ SetOffset(p)

(* Mistake: the bound of the buffer is not tested.                           *)
WriteUnbounded(b) ==
    /\ Buffered /\ mode = "write"
    /\ buf' = buf \o b
    /\ ret' = Done
    /\ UNCHANGED <<disk, mode, off, chunk>>

(* A piece that does not fit fills the buffer, which is flushed; the rest    *)
(* then fits (MaxIo <= BufSize).                                             *)
WriteBuffered(b) ==
    /\ Buffered /\ mode = "write"
    /\ LET room == BufSize - Len(buf)
           full == buf \o SubSeq(b, 1, room)
       IN  \/ /\ Len(b) <= room
              /\ buf' = buf \o b
              /\ ret' = Done
              /\ UNCHANGED <<disk, off>>
           \/ /\ Len(b) > room
              /\ \E r \in Flush(disk, off, full) :
                  /\ disk' = r.disk
                  /\ off' = IF r.ok THEN off + Len(full) ELSE off
                  /\ buf' = IF r.ok THEN SubSeq(b, room + 1, Len(b)) ELSE full
                  /\ ret' = IF r.ok THEN Done ELSE Failed
    /\ UNCHANGED <<mode, chunk>>

(* The chunk is counted before the service has agreed to it.                 *)
WriteChunked(b) ==
    /\ ~Buffered /\ mode = "write"
    /\ LET grows == chunk < off + Len(b)
           sized == IF grows THEN FsSetSize(disk, chunk + Chunk)
                             ELSE {Outcome(disk, TRUE)}
       IN  /\ chunk' = IF grows THEN chunk + Chunk ELSE chunk
           /\ \E r \in sized :
               \E w \in IF r.ok THEN FsWrite(r.disk, off, b) ELSE {r} :
                  /\ disk' = w.disk
                  /\ off' = IF w.ok THEN off + Len(b) ELSE off
                  /\ ret' = IF w.ok THEN Done ELSE Failed
    /\ UNCHANGED <<mode, buf>>

(* What a close may leave on the disk. A buffer is flushed twice, a chunk    *)
(* cut off; what fails is not reported.                                      *)
ClosedBuffered ==
    IF buf = <<>> THEN {Outcome(disk, TRUE)}
    ELSE UNION {{Outcome(t.disk, r.ok \/ t.ok) : t \in Flush(r.disk, off, buf)}
                : r \in Flush(disk, off, buf)}

(* Mistake: the last chunk stays.                                            *)
ChunkLeftOn == {Outcome(disk, TRUE)}

ClosedChunked ==
    IF chunk = 0 THEN {Outcome(disk, TRUE)} ELSE FsSetSize(disk, off)

Close ==
    /\ mode # "no"
    /\ \E r \in IF Buffered THEN ClosedBuffered ELSE ClosedChunked :
        /\ r.ok \/ CloseLoses
        /\ disk' = r.disk
    /\ mode' = "no"
    /\ ret' = Done
    /\ UNCHANGED <<off, chunk, buf>>

(* Files of up to MaxSize bytes.                                             *)
Fits(b) == off + Len(buf) + Len(b) <= MaxSize

Write(b) == Fits(b) /\ (WriteBuffered(b) \/ WriteChunked(b))

Next ==
    \/ \E m \in {"READ", "WRITE", "APPEND"} : Open(m) \/ OpenFails(m)
    \/ \E n \in 1..MaxIo : Read(n)
    \/ \E p \in 0..MaxSize : Seek(p)
    \/ \E b \in Pieces(MaxIo) : Write(b)
    \/ Close

Spec == Init /\ [][Next]_vars

-----------------------------------------------------------------------------
(* The file that was promised: while it is written, what the disk has up to  *)
(* the offset and then the buffer.                                           *)
Promised == IF mode = "write" THEN Prefixed(disk, off, buf) ELSE disk

Position ==
    IF mode = "write" THEN off + Len(buf) ELSE IF mode = "read" THEN off ELSE 0

(* What the promise rests on: nothing past the offset counts, and a close    *)
(* that has nothing to flush or to cut off leaves nothing there.             *)
Located ==
    /\ ~Buffered => buf = <<>>
    /\ mode = "read" => chunk = 0 /\ buf = <<>>
    /\ mode = "write" =>
        /\ off <= Len(disk)
        /\ Buffered /\ buf = <<>> => Len(disk) = off
        /\ ~Buffered => off <= chunk
        /\ ~Buffered /\ chunk = 0 => Len(disk) = off

IInv == TypeOK /\ Located

Vfs == INSTANCE VfsFile WITH data <- Promised, pos <- Position

(* Every byte the server writes through the handle is in the file once it is *)
(* closed, in its place and nothing else with it; reads see the file. This   *)
(* is the contract of ftpsrv_vfs.h, kept by a handle that delays and resizes.*)
ImplementsVfs == Vfs!Spec
=============================================================================
