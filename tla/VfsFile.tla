------------------------------ MODULE VfsFile ------------------------------
(* What src/src/ftpsrv_vfs.h promises the server of a file handle: bytes are *)
(* read and written at a position that moves on with them, a file opened to  *)
(* write starts empty, one opened to append keeps what it has, and after the *)
(* close the file is what was written.                                       *)
EXTENDS FileContent

CONSTANTS
    MaxSize,   \* bound on the size of the file
    MaxIo      \* the most that one call reads or writes

VARIABLES
    data,   \* the file, as anyone who opens it after the close finds it
    mode,   \* how the handle is open: "no", "read" or "write"
    pos,    \* the position of the next byte, 0 when closed
    ret     \* what the last call returned

fileVars == <<data, mode, pos, ret>>

Init ==
    /\ data = <<>>
    /\ mode = "no"
    /\ pos = 0
    /\ ret = Done

Open(m) ==
    /\ mode = "no"
    /\ mode' = IF m = "READ" THEN "read" ELSE "write"
    /\ data' = IF m = "WRITE" THEN <<>> ELSE data
    /\ pos' = IF m = "APPEND" THEN Len(data) ELSE 0
    /\ ret' = Done

Read(n) ==
    /\ mode = "read"
    /\ ret' = Returns(ReadFrom(data, pos, n))
    /\ pos' = pos + Len(ret'.bytes)
    /\ UNCHANGED <<data, mode>>

Seek(p) ==
    /\ mode = "read"
    /\ pos' = p
    /\ ret' = Done
    /\ UNCHANGED <<data, mode>>

Write(b) ==
    /\ mode = "write"
    /\ data' = Written(data, pos, b)
    /\ pos' = pos + Len(b)
    /\ ret' = Done
    /\ UNCHANGED mode

(* An error leaves everything alone, but a write may have taken some of its  *)
(* bytes.                                                                    *)
Fails ==
    /\ ret' = Failed
    /\ UNCHANGED <<data, mode, pos>>

WriteFails(b) ==
    /\ mode = "write"
    /\ \E k \in 0..Len(b) :
        /\ data' = Written(data, pos, SubSeq(b, 1, k))
        /\ pos' = pos + k
    /\ ret' = Failed
    /\ UNCHANGED mode

Close ==
    /\ mode # "no"
    /\ mode' = "no"
    /\ pos' = 0
    /\ ret' = Done
    /\ UNCHANGED data

Next ==
    \/ \E m \in {"READ", "WRITE", "APPEND"} : Open(m)
    \/ \E n \in 1..MaxIo : Read(n)
    \/ \E p \in 0..MaxSize : Seek(p)
    \/ \E b \in Pieces(MaxIo) : Write(b) \/ WriteFails(b)
    \/ Fails
    \/ Close

Spec == Init /\ [][Next]_fileVars
=============================================================================
