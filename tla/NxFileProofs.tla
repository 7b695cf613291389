---------------------------- MODULE NxFileProofs ----------------------------
(* The handle of the Switch implements the file of ftpsrv_vfs.h, for every   *)
(* size of file, buffer, chunk and call, buffered and not, if of the         *)
(* requests a close makes one works.                                         *)
EXTENDS NxFile, FileContentLemmas

(* The operators of the abstract file are those of the handle.               *)
LEMMA SameOperators ==
    /\ \A d, o, b : Vfs!Written(d, o, b) = Written(d, o, b)
    /\ \A d, o, n : Vfs!ReadFrom(d, o, n) = ReadFrom(d, o, n)
    /\ \A n : Vfs!Pieces(n) = Pieces(n)
    /\ \A b : Vfs!Returns(b) = Returns(b)
    /\ Vfs!Done = Done
    /\ Vfs!Failed = Failed
BY DEF Vfs!Written, Written, Vfs!ReadFrom, ReadFrom, Vfs!Pieces, Pieces,
       Vfs!Returns, Returns, Vfs!Done, Done, Vfs!Failed, Failed,
       Vfs!Larger, Larger, Vfs!Smaller, Smaller

(* What the server writes.                                                   *)
LEMMA PieceIsContent ==
    ASSUME NEW b \in Pieces(MaxIo)
    PROVE  b \in Content /\ Len(b) \in 1..MaxIo
<1>1. PICK k \in 1..MaxIo : b \in [1..k -> Bytes]
    BY DEF Pieces
<1>2. MaxIo \in Nat /\ k \in Nat
    BY SizesAssumption
<1> QED
    BY <1>1, <1>2, FunctionIsContent

(* What calls return.                                                        *)
LEMMA ReturnedTypes ==
    /\ Done \in Returned /\ Failed \in Returned
    /\ \A b \in Content : Returns(b) \in Returned
BY EmptyIsContent DEF Done, Failed, Returns, Returned

(* What is read.                                                             *)
LEMMA ReadIsContent ==
    ASSUME NEW d \in Content, NEW o \in Nat, NEW n \in Nat
    PROVE  ReadFrom(d, o, n) \in Content /\ Len(ReadFrom(d, o, n)) \in Nat
<1> DEFINE k == Larger(0, Smaller(n, Len(d) - o))
<1>1. Len(d) \in Nat
    BY ContentIsFunction
<1>2. k \in Nat /\ (k > 0 => o + k <= Len(d))
    BY <1>1 DEF Larger, Smaller
<1>3. \A i \in 1..k : o + i \in 1..Len(d)
    BY <1>1, <1>2
<1>4. ReadFrom(d, o, n) \in [1..k -> Bytes]
    BY <1>3, ContentIsFunction DEF ReadFrom
<1> QED
    BY <1>2, <1>4, FunctionIsContent

-----------------------------------------------------------------------------
(* A closed handle satisfies the invariant.                                  *)
LEMMA InitTypes == Init => IInv
BY EmptyIsContent, ReturnedTypes, SizesAssumption DEF Init, IInv, TypeOK, Located

(* A closed handle is a closed file.                                         *)
LEMMA InitImplements == Init => Vfs!Init
BY SameOperators DEF Init, Vfs!Init, Promised, Position

-----------------------------------------------------------------------------
(* What a flush leaves on the disk.                                          *)
LEMMA FlushWorks ==
    ASSUME NEW d \in Content, NEW o \in 0..Len(d), NEW b \in Content,
           NEW r \in Flush(d, o, b), r.ok
    PROVE  r.disk = Prefixed(d, o, b)
<1>1. r.disk = Written(Resized(d, o + Len(b)), o, b)
    BY DEF Flush, FsWrite, Outcome
<1> QED
    BY <1>1, WrittenToSize

(* A flush that fails loses nothing before the offset.                       *)
LEMMA FlushFails ==
    ASSUME NEW d \in Content, NEW o \in 0..Len(d), NEW b \in Content,
           NEW r \in Flush(d, o, b), ~r.ok
    PROVE  /\ r.disk \in Content
           /\ o <= Len(r.disk)
           /\ \A i \in 1..o : r.disk[i] = d[i]
<1>1. r.disk = d \/ r.disk = Resized(d, o + Len(b))
    BY DEF Flush, FsWrite, Outcome
<1>2. Len(d) \in Nat /\ Len(b) \in Nat /\ o + Len(b) \in Nat
    BY ContentIsFunction
<1>3. CASE r.disk = d
    BY <1>2, <1>3
<1>4. CASE r.disk = Resized(d, o + Len(b))
    <2> DEFINE n == o + Len(b)
    <2>1. n \in Nat /\ o <= n /\ \A i \in 1..o : i \in 1..n /\ i <= Len(d)
        BY <1>2
    <2> HIDE DEF n
    <2>2. /\ Resized(d, n) \in Content
          /\ Len(Resized(d, n)) = n
          /\ \A i \in 1..n : Resized(d, n)[i] = IF i <= Len(d) THEN d[i] ELSE Zero
        BY <2>1, ResizedProperties
    <2>3. r.disk = Resized(d, n)
        BY <1>4 DEF n
    <2> QED
        BY <2>1, <2>2, <2>3
<1> QED
    BY <1>1, <1>3, <1>4

-----------------------------------------------------------------------------
(* Each step of the handle keeps IInv and is a step of the abstract file or  *)
(* none.                                                                     *)
LEMMA OpenStep ==
    ASSUME IInv, NEW m \in {"READ", "WRITE", "APPEND"}, Open(m)
    PROVE  IInv' /\ Vfs!Open(m)
<1>1. disk \in Content /\ Len(disk) \in Nat /\ buf \in Content
    BY ContentIsFunction DEF IInv, TypeOK
<1>2. disk' \in Content /\ Len(disk') \in Nat
    BY <1>1, EmptyIsContent DEF Open
<1>3. off' \in Nat /\ chunk' = off' /\ (mode' = "read" => off' = 0)
    BY <1>1 DEF Open, OpensAt
<1>4. mode' = "write" => Len(disk') = off'
    BY <1>1, EmptyIsContent DEF Open, OpensAt
<1>5. buf' = <<>> /\ buf' \in Content /\ Len(buf') <= BufSize
    BY EmptyIsContent, SizesAssumption DEF Open, IInv, TypeOK, Located
<1>6. TypeOK'
    BY <1>2, <1>3, <1>5, ReturnedTypes DEF Open, TypeOK
<1>7. Located'
    BY <1>2, <1>3, <1>4, <1>5 DEF Located
<1>8. Promised = disk
    BY DEF Open, Promised
<1>9. Promised' = disk'
    <2>1. CASE mode' = "write"
        <3>1. Promised' = Prefixed(disk', Len(disk'), <<>>)
            BY <1>4, <1>5, <2>1 DEF Promised
        <3> QED
            BY <1>2, <3>1, WholePrefix
    <2>2. CASE mode' # "write"
        BY <2>2 DEF Promised
    <2> QED
        BY <2>1, <2>2
<1>10. Position' = IF m = "APPEND" THEN Len(disk) ELSE 0
    <2>3. \A k \in Nat : \A n : n = 0 => k + n = k
        OBVIOUS
    <2>4. Len(buf') = 0
        BY <1>5, EmptyIsContent
    <2>1. off' + Len(buf') = off'
        BY <1>3, <2>3, <2>4
    <2>2. Position' = off'
        BY <2>1 DEF Position, Open
    <2> QED
        BY <2>2 DEF Open, OpensAt
<1>11. Vfs!Open(m)
    BY <1>8, <1>9, <1>10, SameOperators DEF Open, Vfs!Open
<1> QED
    BY <1>6, <1>7, <1>11 DEF IInv

(* ftp_vfs_open, refused.                                                    *)
LEMMA OpenFailsStep ==
    ASSUME IInv, NEW m \in {"READ", "WRITE", "APPEND"}, OpenFails(m)
    PROVE  IInv' /\ Vfs!Fails
<1>1. TypeOK'
    BY EmptyIsContent, ReturnedTypes, SizesAssumption DEF IInv, TypeOK, OpenFails
<1>2. Located'
    BY DEF IInv, Located, OpenFails
<1>3. Vfs!Fails
    BY SameOperators DEF OpenFails, Vfs!Fails, Promised, Position
<1> QED
    BY <1>1, <1>2, <1>3 DEF IInv

(* ftp_vfs_read.                                                             *)
LEMMA ReadStep ==
    ASSUME IInv, NEW n \in 1..MaxIo, Read(n)
    PROVE  IInv' /\ (Vfs!Read(n) \/ Vfs!Fails)
<1>1. n \in Nat
    BY SizesAssumption
<1>2. CASE off <= Len(disk) /\ ret' = Returns(ReadFrom(disk, off, n))
           /\ off' = off + Len(ret'.bytes)
    <2>1. ReadFrom(disk, off, n) \in Content /\ Len(ReadFrom(disk, off, n)) \in Nat
        BY <1>1, ReadIsContent DEF IInv, TypeOK
    <2>2. ret' \in Returned /\ ret'.bytes = ReadFrom(disk, off, n)
        BY <1>2, <2>1, ReturnedTypes DEF Returns
    <2>3. off' \in Nat
        BY <1>2, <2>1, <2>2 DEF IInv, TypeOK
    <2>4. IInv'
        BY <2>2, <2>3 DEF IInv, TypeOK, Located, Read
    <2>5. Vfs!Read(n)
        BY <1>2, SameOperators DEF Vfs!Read, Read, Promised, Position
    <2> QED
        BY <2>4, <2>5
<1>3. CASE ret' = Failed /\ off' = off
    <2>1. IInv'
        BY <1>3, ReturnedTypes DEF IInv, TypeOK, Located, Read
    <2>2. Vfs!Fails
        BY <1>3, SameOperators DEF Vfs!Fails, Read, Promised, Position
    <2> QED
        BY <2>1, <2>2
<1> QED
    BY <1>2, <1>3 DEF Read

(* ftp_vfs_seek.                                                             *)
LEMMA SeekStep ==
    ASSUME IInv, NEW p \in 0..MaxSize, Seek(p)
    PROVE  IInv' /\ Vfs!Seek(p)
<1>1. p \in Nat
    BY SizesAssumption
<1>2. IInv'
    BY <1>1, ReturnedTypes DEF IInv, TypeOK, Located, Seek, SetOffset
<1>3. Vfs!Seek(p)
    BY SameOperators DEF Vfs!Seek, Seek, SetOffset, Promised, Position
<1> QED
    BY <1>2, <1>3

(* ftp_vfs_write into the buffer, which may be flushed on the way.           *)
LEMMA WriteBufferedStep ==
    ASSUME IInv, NEW b \in Pieces(MaxIo), WriteBuffered(b)
    PROVE  IInv' /\ (Vfs!Write(b) \/ Vfs!WriteFails(b))
<1> DEFINE room == BufSize - Len(buf)
           head == SubSeq(b, 1, room)
           rest == SubSeq(b, room + 1, Len(b))
           full == buf \o head
<1>1. /\ Buffered /\ mode = "write" /\ mode' = "write" /\ chunk' = chunk
      /\ disk \in Content /\ off \in Nat /\ chunk \in Nat /\ buf \in Content
      /\ off <= Len(disk) /\ Len(buf) <= BufSize
      /\ BufSize \in Nat /\ MaxIo \in Nat /\ MaxIo <= BufSize
    BY SizesAssumption DEF IInv, TypeOK, Located, WriteBuffered
<1>2. b \in Content /\ Len(b) \in 1..MaxIo
    BY PieceIsContent
<1>3. Len(disk) \in Nat /\ Len(buf) \in Nat /\ room \in Nat /\ off \in 0..Len(disk)
    BY <1>1, ContentIsFunction
<1>4. Promised = Prefixed(disk, off, buf) /\ Position = off + Len(buf)
    BY <1>1 DEF Promised, Position
<1>5. CASE /\ Len(b) <= room
           /\ buf' = buf \o b
           /\ ret' = Done
           /\ UNCHANGED <<disk, off>>
    <2>1. buf' \in Content /\ Len(buf') = Len(buf) + Len(b)
        BY <1>1, <1>2, <1>5, ConcatIsContent
    <2>2. Len(buf') <= BufSize /\ Len(buf') # 0
        BY <1>1, <1>2, <1>3, <1>5, <2>1
    <2>3. TypeOK'
        BY <1>1, <1>5, <2>1, <2>2, ReturnedTypes DEF TypeOK
    <2>4. Located'
        BY <1>1, <1>5, <2>2, EmptyIsContent DEF Located
    <2>5. Promised' = Written(Promised, Position, b)
        BY <1>1, <1>2, <1>3, <1>4, <1>5, WrittenAtEnd DEF Promised
    <2>6. Position' = Position + Len(b)
        BY <1>1, <1>2, <1>3, <1>4, <1>5, <2>1 DEF Position
    <2>7. Vfs!Write(b)
        BY <1>1, <1>5, <2>5, <2>6, SameOperators DEF Vfs!Write
    <2> QED
        BY <2>3, <2>4, <2>7 DEF IInv
<1>6. ASSUME Len(b) > room,
             NEW r \in Flush(disk, off, full),
             disk' = r.disk,
             off' = IF r.ok THEN off + Len(full) ELSE off,
             buf' = IF r.ok THEN rest ELSE full,
             ret' = IF r.ok THEN Done ELSE Failed
      PROVE  IInv' /\ (Vfs!Write(b) \/ Vfs!WriteFails(b))
    <2>1. room \in 0..Len(b) /\ Len(b) \in Nat
        BY <1>2, <1>3, <1>6
    <2>2. head \in Content /\ Len(head) = room
        <3>1. 1 \in 1..(Len(b) + 1) /\ (IF 1 <= room THEN room - 1 + 1 ELSE 0) = room
            BY <1>3, <2>1
        <3> QED
            BY <1>2, <2>1, <3>1, SubSeqIsContent
    <2>3. rest \in Content /\ Len(rest) = Len(b) - room /\ Len(rest) \in 1..MaxIo
        <3>1. /\ room + 1 \in 1..(Len(b) + 1) /\ Len(b) \in 0..Len(b)
              /\ (IF room + 1 <= Len(b) THEN Len(b) - (room + 1) + 1 ELSE 0) = Len(b) - room
            BY <1>1, <1>3, <1>6, <2>1
        <3>2. rest \in Content /\ Len(rest) = Len(b) - room
            BY <1>2, <3>1, SubSeqIsContent
        <3> QED
            BY <1>1, <1>2, <1>3, <1>6, <2>1, <3>2
    <2>4. full \in Content /\ Len(full) = BufSize
        <3>1. full \in Content /\ Len(full) = Len(buf) + Len(head)
            BY <1>1, <2>2, ConcatIsContent
        <3> QED
            BY <1>1, <1>3, <2>2, <3>1
    <2>5. b = head \o rest
        BY <1>2, <2>1, SplitContent
    <2> HIDE DEF room, head, rest, full
    <2>6. CASE r.ok
        <3>1. disk' = Prefixed(disk, off, full) /\ off' = off + Len(full) /\ buf' = rest
              /\ ret' = Done
            <4>1. r.disk = Prefixed(disk, off, full)
                BY <1>1, <1>3, <2>4, <2>6, FlushWorks
            <4> QED
                BY <1>6, <2>6, <4>1
        <3>2. disk' \in Content /\ Len(disk') = off'
            <4>1. /\ Prefixed(disk, off, full) \in Content
                  /\ Len(Prefixed(disk, off, full)) = off + Len(full)
                <5>1. disk \in Content /\ off \in 0..Len(disk) /\ full \in Content
                    BY <1>1, <1>3, <2>4
                <5> QED
                    BY <5>1, PrefixedProperties
            <4> QED
                BY <3>1, <4>1
        <3>3. TypeOK'
            BY <1>1, <1>3, <2>3, <2>4, <3>1, <3>2, ReturnedTypes DEF TypeOK
        <3>4. Located'
            BY <1>1, <2>3, <2>4, <3>1, <3>2, EmptyIsContent DEF Located
        <3>5. Promised' = Prefixed(disk, off, full \o rest)
            BY <1>1, <1>3, <2>3, <2>4, <3>1, MovedPrefix DEF Promised
        <3>6. full \o rest = buf \o b
            <4>1. (buf \o head) \o rest = buf \o (head \o rest)
                BY <1>1, <2>2, <2>3, ConcatContentAssociative
            <4> QED
                BY <2>5, <4>1 DEF full
        <3>7. Promised' = Written(Promised, Position, b)
            BY <1>1, <1>2, <1>3, <1>4, <3>5, <3>6, WrittenAtEnd
        <3>8. Position' = Position + Len(b)
            <4>1. off + Len(full) + Len(rest) = off + Len(buf) + Len(b)
                BY <1>1, <1>3, <2>1, <2>3, <2>4 DEF room
            <4> QED
                BY <1>1, <1>4, <3>1, <4>1 DEF Position
        <3>9. Vfs!Write(b)
            BY <1>1, <3>1, <3>7, <3>8, SameOperators DEF Vfs!Write
        <3> QED
            BY <3>3, <3>4, <3>9 DEF IInv
    <2>7. CASE ~r.ok
        <3>1. off' = off /\ buf' = full /\ ret' = Failed
            BY <1>6, <2>7
        <3>2. /\ disk' \in Content /\ off <= Len(disk')
              /\ \A i \in 1..off : disk'[i] = disk[i]
            BY <1>1, <1>3, <1>6, <2>4, <2>7, FlushFails
        <3>3. TypeOK'
            BY <1>1, <2>4, <3>1, <3>2, ReturnedTypes DEF TypeOK
        <3>4. full # <<>>
            <4>1. BufSize # 0
                BY SizesAssumption
            <4> QED
                BY <2>4, <4>1, EmptyIsContent
        <3>5. Located'
            BY <1>1, <3>1, <3>2, <3>4 DEF Located
        <3>6. Promised' = Prefixed(disk, off, full)
            <4>1. Len(disk') \in Nat
                BY <3>2, ContentIsFunction
            <4>2. Promised' = Prefixed(disk', off, full)
                BY <1>1, <3>1 DEF Promised
            <4> QED
                BY <1>1, <1>3, <2>4, <3>2, <4>1, <4>2, SamePrefix
        <3>7. Promised' = Written(Promised, Position, head)
            BY <1>1, <1>3, <1>4, <2>2, <3>6, WrittenAtEnd DEF full
        <3>8. Position' = Position + room
            <4>1. off + Len(full) = off + Len(buf) + room
                BY <1>1, <1>3, <2>4 DEF room
            <4> QED
                BY <1>1, <1>4, <3>1, <4>1 DEF Position
        <3>9. Vfs!WriteFails(b)
            BY <1>1, <2>1, <3>1, <3>7, <3>8, SameOperators DEF Vfs!WriteFails, head
        <3> QED
            BY <3>3, <3>5, <3>9 DEF IInv
    <2> QED
        BY <2>6, <2>7
<1> QED
    BY <1>5, <1>6 DEF WriteBuffered

(* ftp_vfs_write without a buffer.                                           *)
LEMMA WriteChunkedStep ==
    ASSUME IInv, NEW b \in Pieces(MaxIo), WriteChunked(b)
    PROVE  IInv' /\ (Vfs!Write(b) \/ Vfs!Fails)
<1> DEFINE grows == chunk < off + Len(b)
           sized == IF grows THEN FsSetSize(disk, chunk + Chunk)
                             ELSE {Outcome(disk, TRUE)}
<1>1. /\ ~Buffered /\ mode = "write" /\ mode' = "write" /\ buf = <<>> /\ buf' = <<>>
      /\ disk \in Content /\ off \in Nat /\ chunk \in Nat /\ Chunk \in Nat
      /\ off <= Len(disk) /\ (chunk = 0 => Len(disk) = off)
    BY SizesAssumption DEF IInv, TypeOK, Located, WriteChunked
<1>2. b \in Content /\ Len(b) \in Nat \ {0}
    BY SizesAssumption, PieceIsContent
<1>3. Len(disk) \in Nat /\ off \in 0..Len(disk)
    BY <1>1, ContentIsFunction
<1>4. /\ Promised = Prefixed(disk, off, <<>>) /\ Position = off
      /\ Promised' = Prefixed(disk', off', <<>>)
    <2>1. \A k \in Nat : \A n : n = 0 => k + n = k
        OBVIOUS
    <2>2. off + Len(buf) = off
        BY <1>1, <2>1, EmptyIsContent
    <2> QED
        BY <1>1, <2>2 DEF Promised, Position
<1>5. chunk' = IF grows THEN chunk + Chunk ELSE chunk
    BY DEF WriteChunked
<1>6. chunk' \in Nat /\ chunk' # 0
    BY <1>1, <1>2, <1>5, SizesAssumption
<1>7. PICK r \in sized :
        \E w \in IF r.ok THEN FsWrite(r.disk, off, b) ELSE {r} :
            /\ disk' = w.disk
            /\ off' = IF w.ok THEN off + Len(b) ELSE off
            /\ ret' = IF w.ok THEN Done ELSE Failed
    BY DEF WriteChunked
<1>8. PICK w \in IF r.ok THEN FsWrite(r.disk, off, b) ELSE {r} :
            /\ disk' = w.disk
            /\ off' = IF w.ok THEN off + Len(b) ELSE off
            /\ ret' = IF w.ok THEN Done ELSE Failed
    BY <1>7
<1>9. r = Outcome(disk, FALSE) \/ r = Outcome(disk, TRUE)
      \/ (grows /\ r = Outcome(Resized(disk, chunk + Chunk), TRUE))
    BY <1>7 DEF FsSetSize
<1>10. chunk' = chunk \/ chunk' = chunk + Chunk
    BY <1>5
<1>11. off + Len(b) <= chunk'
    <2>1. off <= chunk /\ Len(b) <= Chunk
        BY <1>1, PieceIsContent, SizesAssumption DEF IInv, Located
    <2> QED
        BY <1>1, <1>2, <1>5, <2>1
<1>12. /\ r.disk \in Content /\ off <= Len(r.disk) /\ Len(r.disk) \in Nat
       /\ \A i \in 1..off : r.disk[i] = disk[i]
    <2>1. CASE r.disk = disk
        BY <1>1, <1>3, <2>1
    <2>2. CASE r.disk = Resized(disk, chunk + Chunk)
        <3> DEFINE n == chunk + Chunk
        <3>1. n \in Nat /\ off <= n /\ \A i \in 1..off : i \in 1..n /\ i <= Len(disk)
            BY <1>1, <1>3 DEF IInv, Located
        <3> HIDE DEF n
        <3>2. /\ Resized(disk, n) \in Content
              /\ Len(Resized(disk, n)) = n
              /\ \A i \in 1..n :
                    Resized(disk, n)[i] = IF i <= Len(disk) THEN disk[i] ELSE Zero
            BY <1>1, <3>1, ResizedProperties
        <3>3. r.disk = Resized(disk, n)
            BY <2>2 DEF n
        <3> QED
            BY <3>1, <3>2, <3>3
    <2> QED
        BY <1>9, <2>1, <2>2 DEF Outcome
<1> HIDE DEF grows, sized
<1>13. CASE ~w.ok
    <2>1. off' = off /\ ret' = Failed
        BY <1>8, <1>13
    <2>2. disk' = r.disk
        BY <1>8, <1>9, <1>13 DEF FsWrite, Outcome
    <2>3. Promised' = Promised
        BY <1>1, <1>3, <1>4, <1>12, <2>1, <2>2, EmptyIsContent, SamePrefix
    <2>4. TypeOK'
        BY <1>1, <1>6, <1>12, <2>1, <2>2, ReturnedTypes DEF IInv, TypeOK
    <2>5. off' <= chunk'
        BY <1>1, <1>2, <1>6, <1>11, <2>1
    <2>6. Located'
        BY <1>1, <1>6, <1>12, <2>1, <2>2, <2>5 DEF Located
    <2>7. Position' = Position
        BY <1>1, <2>1 DEF Position
    <2>8. Vfs!Fails
        BY <1>1, <2>1, <2>3, <2>7, SameOperators DEF Vfs!Fails
    <2> QED
        BY <2>4, <2>6, <2>8 DEF IInv
<1>14. CASE w.ok
    <2>1. /\ off' = off + Len(b) /\ ret' = Done
          /\ off + Len(b) <= Len(r.disk) /\ disk' = Written(r.disk, off, b)
        BY <1>8, <1>9, <1>14 DEF FsWrite, Outcome
    <2>2. /\ disk' \in Content /\ Len(disk') = Len(r.disk)
          /\ Promised' = Prefixed(r.disk, off, b)
        BY <1>1, <1>2, <1>4, <1>12, <2>1, WrittenInside
    <2>3. Promised' = Written(Promised, Position, b)
        <3>1. Prefixed(disk, off, b) = Prefixed(r.disk, off, b)
            BY <1>1, <1>2, <1>3, <1>12, SamePrefix
        <3>2. Prefixed(disk, off, b) = Written(Prefixed(disk, off, <<>>), off, b)
            BY <1>1, <1>2, <1>3, WrittenAfterPrefix
        <3> QED
            BY <1>4, <2>2, <3>1, <3>2
    <2>4. TypeOK'
        BY <1>1, <1>2, <1>6, <2>1, <2>2, ReturnedTypes DEF IInv, TypeOK
    <2>5. Located'
        BY <1>1, <1>6, <1>11, <2>1, <2>2 DEF Located
    <2>6. Position' = Position + Len(b)
        <3>1. \A k \in Nat : \A n : n = 0 => k + n = k
            OBVIOUS
        <3>2. off' + Len(buf') = off'
            BY <1>1, <1>2, <2>1, <3>1, EmptyIsContent
        <3> QED
            BY <1>1, <1>4, <2>1, <3>2 DEF Position
    <2>7. Vfs!Write(b)
        BY <1>1, <2>1, <2>3, <2>6, SameOperators DEF Vfs!Write
    <2> QED
        BY <2>4, <2>5, <2>7 DEF IInv
<1> QED
    BY <1>13, <1>14

(* Two flushes: one that works is enough.                                    *)
LEMMA CloseBuffered ==
    ASSUME NEW d \in Content, NEW o \in 0..Len(d), NEW b \in Content,
           NEW r \in Flush(d, o, b), NEW t \in Flush(r.disk, o, b),
           r.ok \/ t.ok
    PROVE  t.disk = Prefixed(d, o, b)
<1> DEFINE p == Prefixed(d, o, b)
<1>1. Len(d) \in Nat /\ Len(b) \in Nat /\ o \in Nat
    BY ContentIsFunction
<1>2. /\ p \in Content /\ Len(p) = o + Len(b)
      /\ \A i \in 1..(o + Len(b)) : p[i] = IF i <= o THEN d[i] ELSE b[i - o]
    BY PrefixedProperties
<1>3. r.ok => r.disk = p
    BY FlushWorks
<1> HIDE DEF p
<1>4. /\ r.disk \in Content /\ o <= Len(r.disk)
      /\ \A i \in 1..o : r.disk[i] = d[i]
    <2>1. CASE r.ok
        BY <1>1, <1>2, <1>3, <2>1
    <2>2. CASE ~r.ok
        BY <2>2, FlushFails
    <2> QED
        BY <2>1, <2>2
<1>5. o \in 0..Len(r.disk)
    BY <1>1, <1>4, ContentIsFunction
<1>6. CASE t.ok
    <2>1. t.disk = Prefixed(r.disk, o, b)
        BY <1>4, <1>5, <1>6, FlushWorks
    <2>2. Prefixed(d, o, b) = Prefixed(r.disk, o, b)
        BY <1>4, SamePrefix
    <2> QED
        BY <2>1, <2>2
<1>7. CASE ~t.ok
    <2>1. r.disk = p
        BY <1>3, <1>7
    <2>2. t.disk = p \/ t.disk = Resized(p, Len(p))
        BY <1>2, <1>7, <2>1 DEF Flush, FsWrite, Outcome
    <2>3. Resized(p, Len(p)) = p
        <3>1. Len(p) \in 0..Len(p)
            BY <1>1, <1>2
        <3> QED
            BY <1>2, <3>1, CutPrefix, WholePrefix
    <2> QED
        BY <2>2, <2>3 DEF p
<1> QED
    BY <1>6, <1>7

(* ftp_vfs_close.                                                            *)
LEMMA CloseStep ==
    ASSUME IInv, ~CloseLoses, Close
    PROVE  IInv' /\ Vfs!Close
<1>1. PICK c \in IF Buffered THEN ClosedBuffered ELSE ClosedChunked :
        c.ok /\ disk' = c.disk
    BY DEF Close
<1>2. /\ disk \in Content /\ buf \in Content /\ off \in Nat
      /\ mode' = "no" /\ buf' = buf /\ off' = off /\ chunk' = chunk
      /\ mode \in {"read", "write"}
    BY DEF IInv, TypeOK, Close
<1>3. Len(disk) \in Nat
    BY <1>2, ContentIsFunction
<1>4. disk' = Promised
    <2>1. CASE mode = "read"
        <3>1. disk' = disk
            BY <1>1, <2>1 DEF IInv, Located, ClosedBuffered, ClosedChunked, Outcome
        <3> QED
            BY <2>1, <3>1 DEF Promised
    <2>2. CASE mode = "write"
        <3>1. off \in 0..Len(disk) /\ Promised = Prefixed(disk, off, buf)
            BY <1>2, <1>3, <2>2 DEF IInv, Located, Promised
        <3>2. CASE (Buffered /\ buf = <<>>) \/ (~Buffered /\ chunk = 0)
            <4>1. disk' = disk /\ Len(disk) = off /\ buf = <<>>
                BY <1>1, <2>2, <3>2
                DEF IInv, Located, ClosedBuffered, ClosedChunked, Outcome
            <4> QED
                BY <1>2, <3>1, <4>1, WholePrefix
        <3>3. CASE Buffered /\ buf # <<>>
            <4>1. PICK r \in Flush(disk, off, buf) :
                    c \in {Outcome(t.disk, r.ok \/ t.ok) : t \in Flush(r.disk, off, buf)}
                BY <1>1, <3>3 DEF ClosedBuffered
            <4>2. PICK t \in Flush(r.disk, off, buf) : c = Outcome(t.disk, r.ok \/ t.ok)
                BY <4>1
            <4>3. (r.ok \/ t.ok) /\ disk' = t.disk
                BY <1>1, <4>2 DEF Outcome
            <4> QED
                BY <1>2, <3>1, <4>3, CloseBuffered
        <3>4. CASE ~Buffered /\ chunk # 0
            <4>1. buf = <<>> /\ disk' = Resized(disk, off)
                BY <1>1, <3>4 DEF IInv, Located, ClosedChunked, FsSetSize, Outcome
            <4> QED
                BY <1>2, <3>1, <4>1, CutPrefix
        <3> QED
            BY <3>2, <3>3, <3>4
    <2> QED
        BY <1>2, <2>1, <2>2
<1>5. Promised' = disk'
    BY <1>2 DEF Promised
<1>6. disk' \in Content
    <2>1. Prefixed(disk, off, buf) \in Content \/ mode = "read"
        BY <1>2, <1>3, PrefixedProperties DEF IInv, Located
    <2> QED
        BY <1>2, <1>4, <2>1 DEF Promised
<1>7. TypeOK'
    BY <1>2, <1>6, ReturnedTypes DEF IInv, TypeOK, Close
<1>8. Located'
    BY <1>2 DEF IInv, Located
<1>9. Vfs!Close
    BY <1>2, <1>4, <1>5, SameOperators DEF Vfs!Close, Close, Position
<1> QED
    BY <1>7, <1>8, <1>9 DEF IInv

(* What a flush leaves is a file, wherever it began.                         *)
LEMMA FlushTypes ==
    ASSUME NEW d \in Content, NEW o \in Nat, NEW b \in Content,
           NEW r \in Flush(d, o, b)
    PROVE  r.disk \in Content
<1>1. o + Len(b) \in Nat
    BY ContentIsFunction
<1>2. Resized(d, o + Len(b)) \in Content
    BY <1>1, ResizedProperties
<1>3. Written(Resized(d, o + Len(b)), o, b) \in Content
    BY <1>2, WrittenProperties
<1> QED
    BY <1>2, <1>3 DEF Flush, FsWrite, Outcome

(* A flush loses nothing before the offset.                                  *)
LEMMA FlushKeeps ==
    ASSUME NEW d \in Content, NEW o \in 0..Len(d), NEW b \in Content,
           NEW r \in Flush(d, o, b)
    PROVE  o <= Len(r.disk) /\ \A i \in 1..o : r.disk[i] = d[i]
<1>1. Len(d) \in Nat /\ Len(b) \in Nat /\ o \in Nat
    BY ContentIsFunction
<1>2. CASE r.ok
    <2>1. r.disk = Prefixed(d, o, b)
        BY <1>2, FlushWorks
    <2>2. /\ Len(Prefixed(d, o, b)) = o + Len(b)
          /\ \A i \in 1..(o + Len(b)) : Prefixed(d, o, b)[i] = IF i <= o THEN d[i] ELSE b[i - o]
        BY PrefixedProperties
    <2> QED
        BY <1>1, <2>1, <2>2
<1>3. CASE ~r.ok
    BY <1>3, FlushFails
<1> QED
    BY <1>2, <1>3

(* What is true even of a handle that was moved away from what it wrote.     *)
Unlocated == TypeOK /\ (~Buffered => buf = <<>>)

(* A buffer that is filled, and what is left over.                           *)
LEMMA FilledTypes ==
    ASSUME NEW c \in Content, NEW b \in Content, BufSize \in Nat,
           Len(c) <= BufSize, Len(b) <= BufSize, Len(b) > BufSize - Len(c)
    PROVE  LET room == BufSize - Len(c)
               full == c \o SubSeq(b, 1, room)
               rest == SubSeq(b, room + 1, Len(b))
           IN  /\ full \in Content /\ Len(full) \in Nat /\ Len(full) <= BufSize
               /\ rest \in Content /\ Len(rest) <= BufSize
<1> DEFINE room == BufSize - Len(c)
           head == SubSeq(b, 1, room)
           full == c \o head
           rest == SubSeq(b, room + 1, Len(b))
<1>1. Len(b) \in Nat /\ Len(c) \in Nat
    BY ContentIsFunction
<1>2. room \in Nat /\ room < Len(b) /\ Len(c) + room = BufSize
    BY <1>1
<1> HIDE DEF room
<1>3. /\ room \in 0..Len(b) /\ 1 \in 1..(Len(b) + 1) /\ room + 1 \in 1..(Len(b) + 1)
      /\ Len(b) \in 0..Len(b)
    BY <1>1, <1>2
<1>4. head \in Content /\ Len(head) = IF 1 <= room THEN room - 1 + 1 ELSE 0
    BY <1>3, SubSeqIsContent
<1>5. Len(head) = room
    BY <1>2, <1>4
<1>6. rest \in Content /\ Len(rest) = IF room + 1 <= Len(b) THEN Len(b) - (room + 1) + 1 ELSE 0
    BY <1>3, SubSeqIsContent
<1>7. Len(rest) <= BufSize
    BY <1>1, <1>2, <1>6
<1> HIDE DEF head
<1>8. full \in Content /\ Len(full) = BufSize
    BY <1>2, <1>4, <1>5, ConcatIsContent
<1> QED
    BY <1>6, <1>7, <1>8 DEF room, head

(* Writes leave files wherever they begin.                                   *)
LEMMA WriteTypes ==
    ASSUME Unlocated, NEW b \in Pieces(MaxIo), WriteBuffered(b) \/ WriteChunked(b)
    PROVE  Unlocated'
<1>a. BufSize \in Nat /\ Chunk \in Nat /\ MaxIo \in Nat /\ MaxIo <= BufSize
    BY SizesAssumption
<1>b. b \in Content /\ Len(b) \in Nat /\ Len(b) <= BufSize
    BY <1>a, PieceIsContent
<1>c. /\ disk \in Content /\ buf \in Content /\ off \in Nat /\ chunk \in Nat
      /\ Len(buf) <= BufSize
    BY DEF Unlocated, TypeOK
<1>d. Len(buf) \in Nat
    BY <1>c, ContentIsFunction
<1>e. mode' = mode
    BY DEF WriteBuffered, WriteChunked
<1>1. /\ disk \in Content /\ buf \in Content /\ off \in Nat /\ chunk \in Nat
      /\ Len(buf) \in Nat /\ Len(buf) <= BufSize /\ BufSize \in Nat /\ Chunk \in Nat
      /\ b \in Content /\ Len(b) \in Nat /\ Len(b) <= BufSize
      /\ mode' = mode
    BY <1>a, <1>b, <1>c, <1>d, <1>e
<1>2. CASE WriteBuffered(b)
    <2> DEFINE room == BufSize - Len(buf)
               head == SubSeq(b, 1, room)
               full == buf \o head
    <2>1. Buffered /\ chunk' = chunk /\ ret' \in Returned
        BY <1>2, ReturnedTypes DEF WriteBuffered
    <2>2. CASE Len(b) <= room /\ buf' = buf \o b /\ UNCHANGED <<disk, off>>
        <3>1. buf' \in Content /\ Len(buf') = Len(buf) + Len(b)
            BY <1>1, <2>2, ConcatIsContent
        <3> QED
            BY <1>1, <2>1, <2>2, <3>1 DEF Unlocated, TypeOK
    <2>3. ASSUME Len(b) > room,
                 NEW r \in Flush(disk, off, full),
                 disk' = r.disk,
                 off' = IF r.ok THEN off + Len(full) ELSE off,
                 buf' = IF r.ok THEN SubSeq(b, room + 1, Len(b)) ELSE full
          PROVE  Unlocated'
        <3>2. Len(b) > BufSize - Len(buf)
            BY <2>3
        <3>3. /\ full \in Content /\ Len(full) \in Nat /\ Len(full) <= BufSize
              /\ SubSeq(b, room + 1, Len(b)) \in Content
              /\ Len(SubSeq(b, room + 1, Len(b))) <= BufSize
            BY <1>1, <3>2, FilledTypes
        <3> DEFINE rest == SubSeq(b, room + 1, Len(b))
        <3>4. r \in Flush(disk, off, full) /\ off' = IF r.ok THEN off + Len(full) ELSE off
            BY <2>3
        <3>5. disk' = r.disk /\ buf' = IF r.ok THEN rest ELSE full
            BY <2>3
        <3> HIDE DEF room, head, full, rest
        <3>6. disk' \in Content
            BY <1>1, <3>3, <3>4, <3>5, FlushTypes
        <3>7. off' \in Nat
            BY <1>1, <3>3, <3>4
        <3>a. buf' \in Content /\ Len(buf') <= BufSize
            BY <3>3, <3>5 DEF rest
        <3>8. chunk' \in Nat /\ mode' \in {"no", "read", "write"}
            BY <1>1, <2>1 DEF Unlocated, TypeOK
        <3>9. TypeOK'
            BY ONLY <2>1, <3>6, <3>7, <3>8, <3>a DEF TypeOK
        <3> QED
            BY <2>1, <3>9 DEF Unlocated
    <2> QED
        BY <1>2, <2>2, <2>3 DEF WriteBuffered
<1>3. CASE WriteChunked(b)
    <2> DEFINE grows == chunk < off + Len(b)
               sized == IF grows THEN FsSetSize(disk, chunk + Chunk)
                                 ELSE {Outcome(disk, TRUE)}
    <2>1. ~Buffered /\ buf' = buf /\ ret' \in Returned
        BY <1>3, ReturnedTypes DEF WriteChunked
    <2>2. chunk' \in Nat
        BY <1>1, <1>3 DEF WriteChunked
    <2>3. PICK r \in sized :
            \E w \in IF r.ok THEN FsWrite(r.disk, off, b) ELSE {r} :
                /\ disk' = w.disk
                /\ off' = IF w.ok THEN off + Len(b) ELSE off
        BY <1>3 DEF WriteChunked
    <2>4. PICK w \in IF r.ok THEN FsWrite(r.disk, off, b) ELSE {r} :
                /\ disk' = w.disk
                /\ off' = IF w.ok THEN off + Len(b) ELSE off
        BY <2>3
    <2>5. chunk + Chunk \in Nat
        BY <1>1
    <2>6. r.disk \in Content
        <3>1. Resized(disk, chunk + Chunk) \in Content
            BY <1>1, <2>5, ResizedProperties
        <3>2. r.disk = disk \/ r.disk = Resized(disk, chunk + Chunk)
            BY <2>3 DEF FsSetSize, Outcome
        <3> QED
            BY <1>1, <3>1, <3>2
    <2>7. disk' \in Content
        <3>1. Written(r.disk, off, b) \in Content
            BY <1>1, <2>6, WrittenProperties
        <3> QED
            BY <2>4, <2>6, <3>1 DEF FsWrite, Outcome
    <2> QED
        BY <1>1, <2>1, <2>2, <2>4, <2>7 DEF Unlocated, TypeOK
<1> QED
    BY <1>2, <1>3

(* A close leaves a file, and all that it had up to the offset.              *)
LEMMA ClosedIsFile ==
    ASSUME Unlocated, Close
    PROVE  /\ disk' \in Content
           /\ off <= Len(disk) => off <= Len(disk') /\ \A i \in 1..off : disk'[i] = disk[i]
<1>1. disk \in Content /\ buf \in Content /\ off \in Nat /\ Len(disk) \in Nat
    BY ContentIsFunction DEF Unlocated, TypeOK
<1>2. PICK c \in IF Buffered THEN ClosedBuffered ELSE ClosedChunked : disk' = c.disk
    BY DEF Close
<1>3. CASE c = Outcome(disk, TRUE)
    BY <1>1, <1>2, <1>3 DEF Outcome
<1>4. CASE Buffered /\ buf # <<>>
    <2>1. PICK r \in Flush(disk, off, buf) :
            c \in {Outcome(t.disk, r.ok \/ t.ok) : t \in Flush(r.disk, off, buf)}
        BY <1>2, <1>4 DEF ClosedBuffered
    <2>2. PICK t \in Flush(r.disk, off, buf) : c = Outcome(t.disk, r.ok \/ t.ok)
        BY <2>1
    <2>3. disk' = t.disk
        BY <1>2, <2>2 DEF Outcome
    <2>4. r.disk \in Content
        BY <1>1, FlushTypes
    <2>5. t.disk \in Content
        BY <1>1, <2>4, FlushTypes
    <2>6. ASSUME off <= Len(disk)
          PROVE  off <= Len(disk') /\ \A i \in 1..off : disk'[i] = disk[i]
        <3>1. off \in 0..Len(disk)
            BY <1>1, <2>6
        <3>2. off <= Len(r.disk) /\ \A i \in 1..off : r.disk[i] = disk[i]
            BY <1>1, <3>1, FlushKeeps
        <3>3. off \in 0..Len(r.disk)
            BY <1>1, <2>4, <3>2, ContentIsFunction
        <3>4. off <= Len(t.disk) /\ \A i \in 1..off : t.disk[i] = r.disk[i]
            BY <1>1, <2>4, <3>3, FlushKeeps
        <3> QED
            BY <2>3, <3>2, <3>4
    <2> QED
        BY <2>3, <2>5, <2>6
<1>5. CASE ~Buffered /\ c # Outcome(disk, TRUE)
    <2>1. disk' = disk \/ disk' = Resized(disk, off)
        BY <1>2, <1>5 DEF ClosedChunked, FsSetSize, Outcome
    <2>2. /\ Resized(disk, off) \in Content /\ Len(Resized(disk, off)) = off
          /\ \A i \in 1..off : Resized(disk, off)[i] = IF i <= Len(disk) THEN disk[i] ELSE Zero
        BY <1>1, ResizedProperties
    <2> QED
        BY <1>1, <2>1, <2>2
<1>6. Buffered /\ buf = <<>> => c = Outcome(disk, TRUE)
    BY <1>2 DEF ClosedBuffered
<1> QED
    BY <1>3, <1>4, <1>5, <1>6

LEMMA CloseTypes ==
    ASSUME Unlocated, Close
    PROVE  Unlocated'
BY ClosedIsFile, ReturnedTypes DEF Unlocated, TypeOK, Close

LEMMA CloseKeeps ==
    ASSUME IInv, Close
    PROVE  IInv'
BY CloseTypes DEF IInv, Unlocated, Located, Close

-----------------------------------------------------------------------------
(* Every step of the handle.                                                 *)
LEMMA NextStep ==
    ASSUME IInv, [Next]_vars
    PROVE  IInv' /\ (CloseLoses \/ [Vfs!Next]_Vfs!fileVars)
<1>1. CASE UNCHANGED vars
    BY <1>1 DEF vars, IInv, TypeOK, Located, Vfs!fileVars, Promised, Position
<1>2. ASSUME NEW m \in {"READ", "WRITE", "APPEND"}, Open(m)
      PROVE  IInv' /\ Vfs!Next
    BY <1>2, OpenStep DEF Vfs!Next
<1>3. ASSUME NEW m \in {"READ", "WRITE", "APPEND"}, OpenFails(m)
      PROVE  IInv' /\ Vfs!Next
    BY <1>3, OpenFailsStep DEF Vfs!Next
<1>4. ASSUME NEW n \in 1..MaxIo, Read(n)
      PROVE  IInv' /\ Vfs!Next
    BY <1>4, ReadStep DEF Vfs!Next
<1>5. ASSUME NEW p \in 0..MaxSize, Seek(p)
      PROVE  IInv' /\ Vfs!Next
    BY <1>5, SeekStep DEF Vfs!Next
<1>6. ASSUME NEW b \in Pieces(MaxIo), WriteBuffered(b)
      PROVE  IInv' /\ Vfs!Next
    BY <1>6, WriteBufferedStep, SameOperators DEF Vfs!Next
<1>7. ASSUME NEW b \in Pieces(MaxIo), WriteChunked(b)
      PROVE  IInv' /\ Vfs!Next
    BY <1>7, WriteChunkedStep, SameOperators DEF Vfs!Next
<1>8. CASE Close
    BY <1>8, CloseKeeps, CloseStep DEF Vfs!Next
<1> QED
    BY <1>1, <1>2, <1>3, <1>4, <1>5, <1>6, <1>7, <1>8 DEF Next, Write

(* IInv holds of every state of the handle, whatever fails.                  *)
THEOREM Invariance == Spec => []IInv
<1>1. IInv /\ [Next]_vars => IInv'
    BY NextStep
<1> QED
    BY InitTypes, <1>1, PTL DEF Spec

(* The buffer never runs over, and what is in it, on the disk and returned   *)
(* are bytes, whatever fails.                                                *)
THEOREM HandleTypes == Spec => []TypeOK
<1>1. IInv => TypeOK
    BY DEF IInv
<1> QED
    BY <1>1, Invariance, PTL

(* The handle of the Switch, which delays writes and resizes files, keeps    *)
(* the contract of ftpsrv_vfs.h: a file that has been closed is what was     *)
(* written to it.                                                            *)
THEOREM Implementation ==
    ASSUME ~CloseLoses
    PROVE  Spec => ImplementsVfs
<1>1. IInv /\ [Next]_vars => [Vfs!Next]_Vfs!fileVars
    BY NextStep
<1> QED
    BY InitImplements, Invariance, <1>1, PTL DEF Spec, ImplementsVfs, Vfs!Spec
=============================================================================
