------------------------- MODULE FtpTransferProofs -------------------------
(* Proofs about FtpTransfer: the bytes of a transfer are the right ones, for *)
(* files, buffers and markers of every size and whatever part of a buffer    *)
(* the sockets and files take; and about NxTransfer: they are so over the    *)
(* file handle of the Switch too, and what is uploaded gets to its disk.     *)
EXTENDS NxTransfer, FileContentLemmas

-----------------------------------------------------------------------------
(* What a file gives and takes at its end.                                   *)

(* Reading from o on gives the bytes behind o, up to the end of the file.    *)
LEMMA ReadFromProperties ==
    ASSUME NEW d \in Content, NEW o \in Nat, NEW n \in Nat
    PROVE  /\ ReadFrom(d, o, n) \in Content
           /\ Len(ReadFrom(d, o, n)) = Larger(0, Smaller(n, Len(d) - o))
           /\ \A i \in 1..Len(ReadFrom(d, o, n)) : ReadFrom(d, o, n)[i] = d[o + i]
<1> DEFINE k == Larger(0, Smaller(n, Len(d) - o))
           r == ReadFrom(d, o, n)
<1>1. Len(d) \in Nat /\ \A i \in 1..Len(d) : d[i] \in Bytes
  BY ContentIsFunction
<1>2. k \in Nat /\ \A i \in 1..k : o + i \in 1..Len(d)
  BY <1>1 DEF Larger, Smaller
<1>3. r = [i \in 1..k |-> d[o + i]]
  BY DEF ReadFrom
<1>4. r \in [1..k -> Bytes] /\ \A i \in 1..k : r[i] = d[o + i]
  BY <1>1, <1>2, <1>3
<1> HIDE DEF k, r
<1>5. r \in Content /\ Len(r) = k
  BY <1>2, <1>4, FunctionIsContent
<1>6. r \in Content /\ Len(r) = k /\ \A i \in 1..Len(r) : r[i] = d[o + i]
  BY ONLY <1>4, <1>5
<1>7. QED BY ONLY <1>6 DEF k, r

(* Bytes that agree with the file from o on are what reading there gives.    *)
LEMMA ReadIs ==
    ASSUME NEW d \in Content, NEW o \in Nat, NEW n \in Nat, NEW g \in Content,
           Len(g) = Larger(0, Smaller(n, Len(d) - o)),
           \A i \in 1..Len(g) : g[i] = d[o + i]
    PROVE  g = ReadFrom(d, o, n)
<1> DEFINE r == ReadFrom(d, o, n)
<1>1. /\ r \in Content /\ Len(r) = Len(g)
      /\ \A i \in 1..Len(r) : r[i] = d[o + i]
  BY ReadFromProperties
<1> HIDE DEF r
<1>2. \A i \in 1..Len(g) : g[i] = r[i]
  BY <1>1
<1>3. g = r
  BY <1>1, <1>2, SameContent
<1>4. QED BY <1>3 DEF r

(* Writing at the end appends.                                               *)
LEMMA WrittenBehind ==
    ASSUME NEW d \in Content, NEW b \in Content
    PROVE  Written(d, Len(d), b) = d \o b
<1> DEFINE w == Written(d, Len(d), b)
           c == d \o b
<1>1. Len(d) \in Nat /\ Len(b) \in Nat
  BY ContentIsFunction
<1>2. /\ w \in Content /\ Len(w) = Larger(Len(d), Len(d) + Len(b))
      /\ \A i \in 1..Larger(Len(d), Len(d) + Len(b)) :
           w[i] = IF i > Len(d) /\ i <= Len(d) + Len(b) THEN b[i - Len(d)]
                  ELSE IF i <= Len(d) THEN d[i] ELSE Zero
  BY <1>1, WrittenProperties
<1>3. /\ c \in Content /\ Len(c) = Len(d) + Len(b)
      /\ \A i \in 1..(Len(d) + Len(b)) :
           c[i] = IF i <= Len(d) THEN d[i] ELSE b[i - Len(d)]
  BY ConcatIsContent
<1> HIDE DEF w, c
<1>4. Len(w) = Len(c)
  BY <1>1, <1>2, <1>3 DEF Larger
<1>5. \A i \in 1..Len(w) : w[i] = c[i]
  BY <1>1, <1>2, <1>3, <1>4 DEF Larger
<1>6. w = c
  BY <1>2, <1>3, <1>4, <1>5, SameContent
<1>7. QED BY <1>6 DEF w, c

(* All of a piece is the piece.                                              *)
LEMMA WholePiece ==
    ASSUME NEW b \in Content
    PROVE  SubSeq(b, 1, Len(b)) = b
<1>1. Len(b) \in Nat
  BY ContentIsFunction
<1>2. /\ SubSeq(b, 1, Len(b)) \in Content
      /\ Len(SubSeq(b, 1, Len(b))) = Len(b)
      /\ \A i \in 1..Len(b) : SubSeq(b, 1, Len(b))[i] = b[i]
  BY <1>1, SubSeqIsContent
<1>3. QED BY <1>2, SameContent

(* Where a transfer begins is no distance from itself.                       *)
LEMMA NoDistance == ASSUME NEW x \in Nat, NEW y, y = x PROVE x - y = 0
OBVIOUS

LEMMA PiecesAreContent ==
    ASSUME NEW n \in Nat, NEW b \in Pieces(n)
    PROVE  b \in Content /\ Len(b) \in Nat \ {0}
<1>1. PICK k \in 1..n : b \in [1..k -> Bytes]
  BY DEF Pieces
<1>2. QED BY <1>1, FunctionIsContent

-----------------------------------------------------------------------------
(* The invariant. Of a download: what was sent lies between where it began   *)
(* and where the file is, and the size is the file's.                        *)
Downloading ==
    mode = "retr" =>
        /\ reply = "none" /\ size = Len(data)
        /\ from <= pos /\ pos <= Larger(from, Len(data))
        /\ Len(got) = pos - from
        /\ \A i \in 1..Len(got) : got[i] = data[from + i]

(* Of an upload that nothing has spoilt: the file is what it should be, and  *)
(* the next byte goes to its end.                                            *)
AtEnd == append /\ OAppend

Spoilt == spoilt.short \/ (spoilt.stalled /\ skew # 0 /\ ~AtEnd)

Uploading ==
    mode = "stor" =>
        /\ reply = "none"
        /\ Spoilt \/ (data = want /\ (AtEnd \/ pos = Len(data)))

TInv == TypeOK /\ OffsetIsPosition /\ Downloading /\ Uploading

(* What 226 promises.                                                        *)
Promised ==
    reply' = "226" =>
        /\ mode = "retr" => got' = ReadFrom(data, from, Len(data))
        /\ mode = "stor" => Spoilt \/ data = want

-----------------------------------------------------------------------------
LEMMA InitTInv == Init => TInv
<1>1. SUFFICES ASSUME Init PROVE TInv
  OBVIOUS
<1>2. data \in Content
  BY <1>1, PiecesAreContent, EmptyIsContent, SizesAssumption DEF Init
<1>3. got \in Content /\ want \in Content
  BY <1>1, EmptyIsContent DEF Init
<1>4. spoilt \in [short : BOOLEAN, stalled : BOOLEAN]
  BY <1>1 DEF Init, Unspoilt
<1>5. TypeOK
  <2>1. append \in BOOLEAN /\ conn \in BOOLEAN
    BY <1>1 DEF Init
  <2>2. QED BY <1>1, <1>2, <1>3, <1>4, <2>1 DEF Init, TypeOK
<1>6. QED BY <1>1, <1>5 DEF Init, TInv, OffsetIsPosition, Downloading, Uploading

(* A session between transfers, whatever its file is.                        *)
LEMMA IdleIsFine ==
    ASSUME TypeOK', mode' = "none"
    PROVE  TInv'
BY DEF TInv, OffsetIsPosition, Downloading, Uploading

(* The end of a transfer leaves such a session.                              *)
LEMMA EndKeepsTypes ==
    ASSUME TInv, TransferEnd, data' \in Content, pos' \in Nat, got' \in Content,
           reply' \in {"none", "226", "426"}, port' = port
    PROVE  TInv'
<1>1. want' \in Content
  BY EmptyIsContent DEF TransferEnd
<1>2. spoilt' \in [short : BOOLEAN, stalled : BOOLEAN]
  BY DEF TransferEnd, Unspoilt
<1>3. /\ mode' = "none" /\ offset' = 0 /\ size' = 0 /\ conn' = FALSE
      /\ append' = append /\ marker' = marker /\ from' = 0 /\ skew' = 0
  BY DEF TransferEnd
<1>4. TypeOK'
  <2>1. append' \in BOOLEAN /\ conn' \in BOOLEAN
    BY <1>3 DEF TInv, TypeOK
  <2>2. QED BY <1>1, <1>2, <1>3, <2>1 DEF TInv, TypeOK
<1>5. QED BY <1>3, <1>4, IdleIsFine

(* Commands that start nothing.                                              *)
LEMMA CommandsKeep ==
    ASSUME TInv, port' = port,
           \/ \E m \in 0..MaxSize : REST(m)
           \/ PASV \/ RetrRefused
           \/ \E m \in {marker, -1} : StoreNamesNothing(m) \/ StoreRefused(m)
    PROVE  TInv' /\ Promised
<1>1. mode = "none" /\ mode' = "none" /\ TypeOK
  BY DEF REST, PASV, RetrRefused, StoreNamesNothing, StoreRefused, Idle, TInv
<1>2. TypeOK'
  BY <1>1, SizesAssumption
     DEF TypeOK, REST, PASV, RetrRefused, StoreNamesNothing, StoreRefused, history
<1>3. QED BY <1>1, <1>2, IdleIsFine DEF Promised

LEMMA AborKeeps ==
    ASSUME TInv, port' = port, ABOR
    PROVE  TInv' /\ Promised
<1>1. TInv'
  BY EndKeepsTypes DEF ABOR, Aborts, file, TInv, TypeOK
<1>2. QED BY <1>1 DEF ABOR, Aborts, Promised

LEMMA RetrKeeps ==
    ASSUME TInv, port' = port, RETR
    PROVE  TInv' /\ Promised
<1>1. mode = "none" /\ TypeOK
  BY DEF RETR, Idle, TInv
<1>2. /\ offset' \in Nat /\ pos' = offset' /\ marker' \in Nat \cup {-1}
      /\ data' = data /\ size' = Len(data) /\ Len(data) \in Nat
      /\ append' = FALSE /\ conn' = conn /\ spoilt' = spoilt
  BY <1>1, ContentIsFunction DEF RETR, DataOpen, TypeOK
<1> append' \in BOOLEAN /\ conn' \in BOOLEAN
  BY <1>1, <1>2 DEF TypeOK
<1>3. got' \in Content /\ Len(got') = 0
  BY EmptyIsContent DEF RETR, DataOpen
<1>4. CASE mode' = "retr"
  <2>1. reply' = "none" /\ from' = pos' /\ skew' = offset' - pos'
    BY <1>1, <1>4 DEF RETR, DataOpen
  <2> want' \in Content
    BY <1>1, <1>4, EmptyIsContent DEF RETR, DataOpen
  <2>2. TypeOK'
    BY <1>1, <1>2, <1>3, <1>4, <2>1 DEF TypeOK
  <2>3. Downloading'
    <3>1. pos' - from' = 0
      <4>1. pos' \in Nat /\ from' = pos'
        BY <1>2, <2>1
      <4>2. QED BY ONLY <4>1, NoDistance
    <3>2. from' <= pos' /\ pos' <= Larger(from', Len(data'))
      BY <1>2, <2>1 DEF Larger
    <3>3. \A i \in 1..Len(got') : got'[i] = data'[from' + i]
      BY <1>3
    <3>4. QED BY <1>2, <1>3, <2>1, <3>1, <3>2, <3>3 DEF Downloading
  <2>4. QED BY <1>1, <1>2, <1>4, <2>1, <2>2, <2>3
            DEF TInv, OffsetIsPosition, Uploading, Promised
<1>5. CASE mode' # "retr"
  <2>1. mode' = "none" /\ reply' = "425"
    BY <1>1, <1>5 DEF RETR, DataOpen
  <2>2. from' = from /\ skew' = skew /\ want' = want
    BY <1>5 DEF RETR, DataOpen
  <2>3. TypeOK'
    BY <1>1, <1>2, <1>3, <2>1, <2>2 DEF TypeOK
  <2>4. QED BY <2>1, <2>3, IdleIsFine DEF Promised
<1>6. QED BY <1>4, <1>5

LEMMA StoreKeeps ==
    ASSUME TInv, port' = port, NEW m \in {marker, -1}, Store(m)
    PROVE  TInv' /\ Promised
<1>1. mode = "none" /\ TypeOK
  BY DEF Store, Idle, TInv
<1>2. /\ data' \in Content /\ append' \in BOOLEAN /\ marker' \in Nat \cup {-1}
      /\ ~append' => data' = <<>>
      /\ append' => data' = data
      /\ pos' = OpenPosition(append', data)
      /\ offset' = offset /\ size' = size /\ conn' = conn
      /\ spoilt' = spoilt
  BY <1>1, EmptyIsContent DEF Store, DataOpen, TypeOK
<1> append' \in BOOLEAN /\ conn' \in BOOLEAN
  BY <1>1, <1>2 DEF TypeOK
<1> got' \in Content
  BY EmptyIsContent DEF Store, DataOpen
<1>3. pos' \in Nat /\ (~(append /\ OAppend)' => pos' = Len(data'))
  BY <1>1, <1>2, ContentIsFunction, EmptyIsContent DEF OpenPosition, OAppend, TypeOK
<1>4. CASE mode' = "stor"
  <2>1. /\ reply' = "none" /\ from' = pos' /\ skew' = offset' - pos'
        /\ want' = data'
    BY <1>1, <1>4 DEF Store, DataOpen
  <2>2. TypeOK'
    BY <1>1, <1>2, <1>3, <1>4, <2>1 DEF TypeOK
  <2>3. QED BY <1>1, <1>2, <1>3, <1>4, <2>1, <2>2
            DEF TInv, TypeOK, OffsetIsPosition, Downloading, Uploading, AtEnd, Promised
<1>5. CASE mode' # "stor"
  <2>1. mode' = "none" /\ reply' = "425"
    BY <1>1, <1>5 DEF Store, DataOpen
  <2>2. from' = from /\ skew' = skew /\ want' = want
    BY <1>5 DEF Store, DataOpen
  <2>3. TypeOK'
    BY <1>1, <1>2, <1>3, <2>1, <2>2 DEF TypeOK
  <2>4. QED BY <2>1, <2>3, IdleIsFine DEF Promised
<1>6. QED BY <1>4, <1>5

-----------------------------------------------------------------------------
(* Downloads.                                                                *)

(* n more bytes are sent, from where the file is.                            *)
LEMMA Sent ==
    ASSUME TInv, mode = "retr", NEW n \in 1..Readable
    PROVE  LET g == got \o ReadFrom(data, pos, n)
           IN  /\ g \in Content /\ Len(g) = pos + n - from
               /\ pos + n <= Len(data)
               /\ \A i \in 1..Len(g) : g[i] = data[from + i]
<1> DEFINE r == ReadFrom(data, pos, n)
           g == got \o r
<1>1. /\ data \in Content /\ pos \in Nat /\ from \in Nat /\ got \in Content
      /\ size \in Nat /\ offset \in Nat /\ Len(data) \in Nat
  BY ContentIsFunction DEF TInv, TypeOK
<1>2. n \in Nat /\ pos + n <= Len(data)
  BY <1>1, SizesAssumption DEF Readable, Larger, Smaller
<1>3. r \in Content /\ Len(r) = n /\ \A i \in 1..n : r[i] = data[pos + i]
  <2>1. Larger(0, Smaller(n, Len(data) - pos)) = n
    BY <1>1, <1>2 DEF Larger, Smaller
  <2>2. QED BY <1>1, <1>2, <2>1, ReadFromProperties
<1>4. /\ from <= pos /\ Len(got) = pos - from
      /\ \A i \in 1..Len(got) : got[i] = data[from + i]
  BY DEF TInv, Downloading
<1> HIDE DEF r
<1>5. /\ g \in Content /\ Len(g) = Len(got) + n
      /\ \A i \in 1..(Len(got) + n) :
           g[i] = IF i <= Len(got) THEN got[i] ELSE r[i - Len(got)]
  BY <1>1, <1>3, ConcatIsContent
<1> HIDE DEF g
<1>6. ASSUME NEW i \in 1..Len(g)
      PROVE  g[i] = data[from + i]
  <2>1. CASE i <= Len(got)
    BY <1>1, <1>2, <1>4, <1>5, <1>6, <2>1
  <2>2. CASE i > Len(got)
    <3>1. i - Len(got) \in 1..n /\ pos + (i - Len(got)) = from + i
      BY <1>1, <1>2, <1>4, <1>5, <1>6, <2>2
    <3>2. QED BY <1>1, <1>2, <1>3, <1>4, <1>5, <2>2, <3>1
  <2>3. QED BY <1>1, <1>2, <1>4, <1>5, <1>6, <2>1, <2>2
<1>7. Len(g) = pos + n - from
  BY ONLY <1>1, <1>2, <1>4, <1>5
<1>8. /\ g \in Content /\ Len(g) = pos + n - from /\ pos + n <= Len(data)
      /\ \A i \in 1..Len(g) : g[i] = data[from + i]
  BY ONLY <1>2, <1>5, <1>6, <1>7
<1>9. QED BY ONLY <1>8 DEF g, r

(* The file is read to its end.                                              *)
LEMMA AllSent ==
    ASSUME NEW d \in Content, NEW o \in Nat, NEW p \in Nat, NEW g \in Content,
           o <= p, Len(d) <= p, p <= Larger(o, Len(d)), Len(g) = p - o,
           \A i \in 1..Len(g) : g[i] = d[o + i]
    PROVE  g = ReadFrom(d, o, Len(d))
<1>1. Len(d) \in Nat
  BY ContentIsFunction
<1>2. Len(g) = Larger(0, Smaller(Len(d), Len(d) - o))
  BY <1>1 DEF Larger, Smaller
<1>3. QED BY <1>1, <1>2, ReadIs

LEMMA SendSomeKeeps ==
    ASSUME TInv, port' = port, NEW n \in 1..Readable, SendSome(n)
    PROVE  TInv' /\ Promised
<1>1. /\ mode = "retr" /\ data' = data /\ TypeOK /\ OffsetIsPosition /\ Downloading
      /\ got' = got \o ReadFrom(data, pos, n)
  BY DEF SendSome, TInv
<1>2. /\ data \in Content /\ pos \in Nat /\ from \in Nat /\ size \in Nat
      /\ offset = pos /\ Len(data) \in Nat /\ n \in Nat /\ size = Len(data)
      /\ from <= pos
  BY <1>1, ContentIsFunction, SizesAssumption
     DEF TypeOK, OffsetIsPosition, Downloading, Readable, Larger, Smaller
<1>3. /\ got' \in Content /\ Len(got') = pos + n - from /\ pos + n <= Len(data)
      /\ \A i \in 1..Len(got') : got'[i] = data[from + i]
  BY <1>1, Sent
<1>4. pos' = pos + n
  BY <1>1, <1>2 DEF SendSome, PositionAfter
<1>5. CASE Complete(n)
  <2>1. TransferEnd /\ reply' = "226"
    BY <1>5 DEF SendSome, Ends
  <2>2. TInv'
    BY <1>1, <1>2, <1>3, <1>4, <2>1, EndKeepsTypes
  <2>3. pos + n = Len(data)
    BY <1>2, <1>5 DEF Complete
  <2>4. /\ pos + n \in Nat /\ from <= pos + n /\ Len(data) <= pos + n
        /\ pos + n <= Larger(from, Len(data))
    BY <1>2, <2>3 DEF Larger
  <2>5. got' = ReadFrom(data, from, Len(data))
    BY ONLY <1>2, <1>3, <2>4, AllSent
  <2>6. QED BY <1>1, <2>2, <2>5 DEF Promised
<1>6. CASE ~Complete(n)
  <2>1. /\ offset' = offset + n /\ mode' = mode /\ size' = size /\ reply' = reply
        /\ append' = append /\ marker' = marker /\ conn' = conn /\ want' = want
        /\ from' = from /\ skew' = skew /\ spoilt' = spoilt
    BY <1>6 DEF SendSome
  <2>2. TypeOK'
    BY <1>1, <1>2, <1>3, <1>4, <2>1 DEF TypeOK
  <2>3. OffsetIsPosition'
    BY <1>1, <1>2, <1>4, <2>1 DEF OffsetIsPosition
  <2>4. Downloading'
    BY <1>1, <1>2, <1>3, <1>4, <2>1 DEF Downloading, Larger
  <2>5. Uploading' /\ reply' # "226"
    BY <1>1, <2>1 DEF Uploading, Downloading
  <2>6. QED BY <2>2, <2>3, <2>4, <2>5 DEF TInv, Promised
<1>7. QED BY <1>5, <1>6

LEMMA SendEndsKeeps ==
    ASSUME TInv, port' = port, SendEnds
    PROVE  TInv' /\ Promised
<1>1. /\ mode = "retr" /\ data' = data /\ pos' = pos /\ got' = got
      /\ TransferEnd /\ reply' = "226"
      /\ Len(data) <= pos \/ size = offset
  BY DEF SendEnds, Ends
<1>2. /\ data \in Content /\ pos \in Nat /\ from \in Nat /\ got \in Content
      /\ offset = pos /\ Len(data) \in Nat /\ size = Len(data)
      /\ from <= pos /\ pos <= Larger(from, Len(data)) /\ Len(got) = pos - from
      /\ \A i \in 1..Len(got) : got[i] = data[from + i]
  BY <1>1, ContentIsFunction DEF TInv, TypeOK, OffsetIsPosition, Downloading
<1>3. TInv'
  BY <1>1, <1>2, EndKeepsTypes
<1>4. Len(data) <= pos
  BY <1>1, <1>2
<1>5. got = ReadFrom(data, from, Len(data))
  BY <1>2, <1>4, AllSent
<1>6. QED BY <1>1, <1>3, <1>5 DEF Promised

LEMMA SendStallsKeeps ==
    ASSUME TInv, port' = port, SendStalls
    PROVE  TInv' /\ Promised
<1>1. /\ mode = "retr" /\ mode' = mode /\ pos' = pos /\ reply' = "none"
      /\ data' = data /\ append' = append /\ offset' = offset /\ size' = size
      /\ marker' = marker /\ conn' = conn /\ got' = got /\ want' = want
      /\ from' = from /\ skew' = skew /\ spoilt' = spoilt
  BY DEF SendStalls, Rewind, history, TInv, OffsetIsPosition
<1>2. TypeOK'
  BY <1>1 DEF TInv, TypeOK
<1>3. QED BY <1>1, <1>2
          DEF TInv, OffsetIsPosition, Downloading, Uploading, Promised

-----------------------------------------------------------------------------
(* Uploads.                                                                  *)

LEMMA ReceiveSomeKeeps ==
    ASSUME TInv, port' = port, NEW b \in Content, NEW k \in 1..Len(b),
           ReceiveSome(b, k)
    PROVE  TInv' /\ Promised
<1> DEFINE h == SubSeq(b, 1, k)
<1>1. /\ mode = "stor" /\ mode' = mode /\ append' = append /\ size' = size
      /\ marker' = marker /\ conn' = conn /\ got' = got /\ from' = from
      /\ skew' = skew /\ reply' = "none"
      /\ data' = Written(data, WritePosition, h)
      /\ pos' = WritePosition + k /\ offset' = offset + k
      /\ want' = want \o b
      /\ spoilt' = [spoilt EXCEPT !.short = @ \/ k < Len(b)]
  BY DEF ReceiveSome
<1>2. /\ TypeOK /\ data \in Content /\ want \in Content /\ pos \in Nat
      /\ offset \in Nat /\ Len(data) \in Nat /\ Len(b) \in Nat /\ k \in Nat
      /\ WritePosition \in Nat
  BY ContentIsFunction DEF TInv, TypeOK, WritePosition
<1>3. h \in Content /\ Len(h) = k
  BY <1>2, SubSeqIsContent
<1> HIDE DEF h
<1>4. data' \in Content /\ want' \in Content
  BY <1>1, <1>2, <1>3, WrittenProperties, ConcatIsContent
<1>5. /\ spoilt'.short = (spoilt.short \/ k < Len(b))
      /\ spoilt'.stalled = spoilt.stalled
      /\ spoilt' \in [short : BOOLEAN, stalled : BOOLEAN]
  BY <1>1, <1>2 DEF TypeOK
<1>6. TypeOK'
  BY <1>1, <1>2, <1>4, <1>5 DEF TypeOK
<1>7. OffsetIsPosition'
  BY <1>1, <1>2 DEF TInv, OffsetIsPosition, WritePosition, OAppend
<1>8. Uploading'
  <2>1. SUFFICES ASSUME ~ Spoilt'
                 PROVE  data' = want' /\ (AtEnd' \/ pos' = Len(data'))
    BY <1>1 DEF Uploading
  <2>2. AtEnd' = AtEnd
    BY <1>1 DEF AtEnd, OAppend
  <2>3. ~ Spoilt /\ k = Len(b)
    BY <1>1, <1>2, <1>5, <2>1, <2>2 DEF Spoilt
  <2>4. data = want /\ (AtEnd \/ pos = Len(data))
    BY <1>1, <2>3 DEF TInv, Uploading
  <2>5. WritePosition = Len(data)
    BY <2>4 DEF WritePosition, AtEnd
  <2>6. h = b
    BY <2>3, WholePiece DEF h
  <2>7. data' = data \o b
    BY <1>1, <1>2, <2>5, <2>6, WrittenBehind
  <2>8. Len(data') = Len(data) + k
    BY <1>2, <2>3, <2>7, ConcatIsContent
  <2>9. QED BY <1>1, <2>4, <2>5, <2>7, <2>8
<1>9. QED BY <1>1, <1>6, <1>7, <1>8 DEF TInv, Downloading, Promised

LEMMA ReceiveEndsKeeps ==
    ASSUME TInv, port' = port, ReceiveEnds
    PROVE  TInv' /\ Promised
<1>1. TInv'
  BY EndKeepsTypes DEF ReceiveEnds, Received, Ends, file, TInv, TypeOK
<1>2. mode = "stor" /\ (Spoilt \/ data = want)
  BY DEF ReceiveEnds, Received, TInv, Uploading
<1>3. QED BY <1>1, <1>2 DEF Promised

LEMMA ReceiveStallsKeeps ==
    ASSUME TInv, port' = port, ReceiveStalls
    PROVE  TInv' /\ Promised
<1>1. /\ mode = "stor" /\ mode' = mode /\ pos' = offset /\ reply' = "none"
      /\ data' = data /\ append' = append /\ offset' = offset /\ size' = size
      /\ marker' = marker /\ conn' = conn /\ got' = got /\ want' = want
      /\ from' = from /\ skew' = skew
      /\ spoilt' = [spoilt EXCEPT !.stalled = TRUE]
  BY DEF ReceiveStalls, Rewind
<1>2. /\ spoilt'.stalled = TRUE /\ spoilt'.short = spoilt.short
      /\ spoilt' \in [short : BOOLEAN, stalled : BOOLEAN]
  BY <1>1 DEF TInv, TypeOK
<1>3. TypeOK'
  BY <1>1, <1>2 DEF TInv, TypeOK
<1>4. OffsetIsPosition' /\ Downloading'
  BY <1>1 DEF OffsetIsPosition, Downloading
<1>5. Uploading'
  <2>1. SUFFICES ASSUME ~ Spoilt'
                 PROVE  data' = want' /\ (AtEnd' \/ pos' = Len(data'))
    BY <1>1 DEF Uploading
  <2>2. AtEnd' = AtEnd
    BY <1>1 DEF AtEnd, OAppend
  <2>3. ~ Spoilt /\ (AtEnd \/ skew = 0)
    BY <1>1, <1>2, <2>1, <2>2 DEF Spoilt
  <2>4. data = want /\ (AtEnd \/ pos = Len(data))
    BY <1>1, <2>3 DEF TInv, Uploading
  <2>5. AtEnd \/ offset = pos
    BY <1>1, <2>3 DEF TInv, OffsetIsPosition, AtEnd
  <2>6. QED BY <1>1, <2>2, <2>4, <2>5
<1>6. QED BY <1>1, <1>3, <1>4, <1>5 DEF TInv, Promised

LEMMA FailsKeeps ==
    ASSUME TInv, port' = port, TransferFails
    PROVE  TInv' /\ Promised
<1>1. TInv'
  BY EndKeepsTypes DEF TransferFails, Failed426, Ends, file, TInv, TypeOK
<1>2. QED BY <1>1 DEF TransferFails, Failed426, Ends, Promised

-----------------------------------------------------------------------------
LEMMA StepKeeps ==
    ASSUME TInv, Next
    PROVE  TInv' /\ Promised
<1>1. port' = port /\ Step
  BY DEF Next
<1>2. CASE \/ \E m \in 0..MaxSize : REST(m)
           \/ PASV \/ RetrRefused
  BY <1>1, <1>2, CommandsKeep
<1>3. CASE ABOR
  BY <1>1, <1>3, AborKeeps
<1>4. CASE RETR
  BY <1>1, <1>4, RetrKeeps
<1>5. CASE STOR \/ APPE
  BY <1>1, <1>5, CommandsKeep, StoreKeeps DEF STOR, APPE
<1>6. CASE \E n \in 1..Readable : SendSome(n)
  BY <1>1, <1>6, SendSomeKeeps
<1>7. CASE SendEnds
  BY <1>1, <1>7, SendEndsKeeps
<1>8. CASE SendStalls
  BY <1>1, <1>8, SendStallsKeeps
<1>9. CASE \E b \in Pieces(MaxIo) : \E k \in 1..Len(b) : ReceiveSome(b, k)
  <2>1. PICK b \in Pieces(MaxIo) : \E k \in 1..Len(b) : ReceiveSome(b, k)
    BY <1>9
  <2>2. b \in Content
    BY PiecesAreContent, SizesAssumption
  <2>3. PICK k \in 1..Len(b) : ReceiveSome(b, k)
    BY <2>1
  <2>4. QED BY <1>1, <2>2, <2>3, ReceiveSomeKeeps
<1>10. CASE ReceiveEnds
  BY <1>1, <1>10, ReceiveEndsKeeps
<1>11. CASE ReceiveStalls
  BY <1>1, <1>11, ReceiveStallsKeeps
<1>12. CASE TransferFails
  BY <1>1, <1>12, FailsKeeps
<1>13. QED BY <1>1, <1>2, <1>3, <1>4, <1>5, <1>6, <1>7, <1>8, <1>9, <1>10,
              <1>11, <1>12 DEF Step

LEMMA NextTInv == TInv /\ [Next]_vars => TInv' /\ (Promised \/ UNCHANGED vars)
<1>1. ASSUME TInv, Next
      PROVE  TInv' /\ Promised
  BY <1>1, StepKeeps
<1>2. ASSUME TInv, UNCHANGED vars
      PROVE  TInv'
  BY <1>2 DEF vars, TInv, TypeOK, OffsetIsPosition, Downloading, Uploading, Spoilt,
              AtEnd, OAppend
<1>3. QED BY <1>1, <1>2

(* The variables keep their types, the file, its position and the offset     *)
(* where the history says they are.                                          *)
THEOREM TransferInvariance == Spec => []TInv
BY InitTInv, NextTInv, PTL DEF Spec

(* In particular the types: no seek takes the file before its start, and no  *)
(* marker but that of APPE is negative.                                      *)
THEOREM TransferTypes == Spec => []TypeOK
<1>1. TInv => TypeOK
  BY DEF TInv
<1>2. QED BY <1>1, TransferInvariance, PTL

LEMMA InvariantIsExact == TInv => DownloadExact
<1>1. SUFFICES ASSUME TInv, mode = "retr"
               PROVE  got = ReadFrom(data, from, Len(got))
  BY DEF DownloadExact
<1>2. /\ data \in Content /\ from \in Nat /\ got \in Content /\ pos \in Nat
      /\ Len(got) \in Nat /\ Len(data) \in Nat
      /\ Len(got) = pos - from /\ from <= pos /\ pos <= Larger(from, Len(data))
      /\ \A i \in 1..Len(got) : got[i] = data[from + i]
  BY <1>1, ContentIsFunction DEF TInv, TypeOK, Downloading
<1>3. Len(got) = Larger(0, Smaller(Len(got), Len(data) - from))
  BY <1>2 DEF Larger, Smaller
<1>4. QED BY <1>2, <1>3, ReadIs

(* However little a socket takes of what was read, what it was given is the  *)
(* file from where RETR began, each byte once and in order.                  *)
THEOREM DownloadsAreExact == Spec => []DownloadExact
BY InvariantIsExact, TransferInvariance, PTL

(* transfer.offset can stand in for the position of the file in the seek of  *)
(* a retry, in every download and in an upload in which they began together. *)
THEOREM OffsetsArePositions == Spec => []OffsetIsPosition
<1>1. TInv => OffsetIsPosition
  BY DEF TInv
<1>2. QED BY <1>1, TransferInvariance, PTL

(* 226 tells the client of a RETR that it has all of the file.               *)
THEOREM DownloadsAreComplete == Spec => DownloadComplete
<1>1. TInv /\ [Next]_vars =>
        [mode = "retr" /\ reply' = "226" => got' = ReadFrom(data, from, Len(data))]_vars
  BY NextTInv DEF Promised
<1>2. QED BY <1>1, TransferInvariance, PTL DEF Spec, DownloadComplete

(* 226 tells the client of a STOR or APPE that its bytes are in their place, *)
(* if no write was short and no stall has moved the file.                    *)
THEOREM UploadsAreExact == Spec => UploadExact
<1>1. TInv /\ [Next]_vars =>
        [mode = "stor" /\ reply' = "226" =>
           \/ data = want
           \/ spoilt.short
           \/ spoilt.stalled /\ skew # 0 /\ ~(append /\ OAppend)]_vars
  BY NextTInv DEF Promised, Spoilt, AtEnd
<1>2. QED BY <1>1, TransferInvariance, PTL DEF Spec, UploadExact

-----------------------------------------------------------------------------
(* The Switch. What is proved of its handle: of one whose close loses        *)
(* nothing, and of one whose close may.                                      *)
Sure == INSTANCE NxFileProofs WITH mode <- fmode, CloseLoses <- FALSE
Loose == INSTANCE NxFileProofs WITH mode <- fmode, CloseLoses <- TRUE

(* The handle is where the session's file is, or it was moved.               *)
Follows ==
    /\ Sure!IInv
    /\ data = Sure!Promised /\ pos = Sure!Position

(* A file that was just opened is empty, or it is the one that was there.    *)
JustOpened ==
    /\ mode = "none" /\ fmode = "write" /\ ~moved
    /\ Sure!IInv /\ buf = <<>> /\ off = Len(disk)
    /\ at = "WRITE" => disk = <<>> /\ marker # -1
    /\ at = "APPEND" => disk = data

(* The handle is open while an upload is on, and otherwise the disk has what *)
(* the session takes for its file.                                           *)
Linked ==
    port = "nx" =>
        /\ at \in {"loop", "WRITE", "APPEND", "failed"}
        /\ at \in {"WRITE", "APPEND"} => JustOpened
        /\ at = "failed" => mode = "stor" /\ fmode = "write"
        /\ at = "loop" /\ mode = "stor" => fmode = "write" /\ (moved \/ Follows)
        /\ at = "loop" /\ mode # "stor" => fmode = "no" /\ disk = data /\ ~moved

NInv == TInv /\ Sure!Unlocated /\ Linked

(* The operators and the actions are the same under all three names.         *)
LEMMA SamePieces ==
    /\ Sure!Content = Content /\ Loose!Content = Content
    /\ \A n : Sure!Pieces(n) = Pieces(n)
    /\ \A d, o, b : Sure!Prefixed(d, o, b) = Prefixed(d, o, b)
    /\ \A d, o, b : Sure!Written(d, o, b) = Written(d, o, b)
    /\ Handle!Done = Done /\ Handle!Failed = Failed
    /\ Sure!Done = Done /\ Sure!Failed = Failed
BY DEF Sure!Content, Loose!Content, Content, Sure!Pieces, Pieces,
       Sure!Prefixed, Prefixed, Sure!Written, Written, Sure!Larger, Larger,
       Handle!Done, Handle!Failed, Done, Failed, Returns, Handle!Returns,
       Sure!Done, Sure!Failed, Sure!Returns

LEMMA SameHandle ==
    /\ Loose!Unlocated <=> Sure!Unlocated
    /\ Loose!IInv <=> Sure!IInv
BY DEF Loose!Unlocated, Sure!Unlocated, Loose!IInv, Sure!IInv, Loose!TypeOK, Sure!TypeOK,
       Loose!Located, Sure!Located, Loose!Content, Sure!Content, Loose!Returned,
       Sure!Returned

LEMMA SameOpen ==
    /\ \A m : Handle!Open(m) <=> Sure!Open(m)
    /\ \A m : Handle!OpenFails(m) <=> Sure!OpenFails(m)
    /\ \A p : Handle!SetOffset(p) <=> Sure!SetOffset(p)
BY DEF Handle!Open, Sure!Open, Handle!OpensAt, Sure!OpensAt, Handle!Done, Sure!Done,
       Handle!Returns, Sure!Returns, Handle!OpenFails, Sure!OpenFails, Handle!Failed,
       Sure!Failed, Handle!SetOffset, Sure!SetOffset

LEMMA SameFlush ==
    /\ \A d, o, b : Handle!Flush(d, o, b) = Sure!Flush(d, o, b)
    /\ \A d, o, b : Handle!FsWrite(d, o, b) = Sure!FsWrite(d, o, b)
    /\ \A d, n : Handle!FsSetSize(d, n) = Sure!FsSetSize(d, n)
    /\ \A d, r : Handle!Outcome(d, r) = Sure!Outcome(d, r)
    /\ \A d, o, b : Losing!Flush(d, o, b) = Loose!Flush(d, o, b)
    /\ \A d, n : Losing!FsSetSize(d, n) = Loose!FsSetSize(d, n)
    /\ \A d, r : Losing!Outcome(d, r) = Loose!Outcome(d, r)
BY DEF Handle!Flush, Sure!Flush, Handle!FsWrite, Sure!FsWrite, Handle!FsSetSize,
       Sure!FsSetSize, Handle!Outcome, Sure!Outcome, Handle!Resized, Sure!Resized,
       Handle!Written, Sure!Written, Handle!Larger, Sure!Larger,
       Losing!Flush, Loose!Flush, Losing!FsWrite, Loose!FsWrite, Losing!FsSetSize,
       Loose!FsSetSize, Losing!Outcome, Loose!Outcome, Losing!Resized, Loose!Resized,
       Losing!Written, Loose!Written, Losing!Larger, Loose!Larger

LEMMA SameWrite ==
    /\ \A b : Handle!WriteBuffered(b) <=> Sure!WriteBuffered(b)
    /\ \A b : Handle!WriteChunked(b) <=> Sure!WriteChunked(b)
BY SameFlush, SamePieces
   DEF Handle!WriteBuffered, Sure!WriteBuffered, Handle!WriteChunked, Sure!WriteChunked

LEMMA SameClose ==
    /\ Handle!Close <=> Sure!Close
    /\ Losing!Close <=> Loose!Close
<1>1. Handle!ClosedBuffered = Sure!ClosedBuffered
  BY DEF Handle!ClosedBuffered, Sure!ClosedBuffered, Handle!Flush, Sure!Flush,
         Handle!FsWrite, Sure!FsWrite, Handle!Outcome, Sure!Outcome, Handle!Resized,
         Sure!Resized, Handle!Written, Sure!Written, Handle!Larger, Sure!Larger
<1>2. Losing!ClosedBuffered = Loose!ClosedBuffered
  BY DEF Losing!ClosedBuffered, Loose!ClosedBuffered, Losing!Flush, Loose!Flush,
         Losing!FsWrite, Loose!FsWrite, Losing!Outcome, Loose!Outcome, Losing!Resized,
         Loose!Resized, Losing!Written, Loose!Written, Losing!Larger, Loose!Larger
<1>3. /\ Handle!ClosedChunked = Sure!ClosedChunked
      /\ Losing!ClosedChunked = Loose!ClosedChunked
  BY SameFlush
     DEF Handle!ClosedChunked, Sure!ClosedChunked, Losing!ClosedChunked,
         Loose!ClosedChunked
<1>4. Handle!Done = Sure!Done /\ Losing!Done = Loose!Done
  BY DEF Handle!Done, Sure!Done, Losing!Done, Loose!Done, Handle!Returns, Sure!Returns,
         Losing!Returns, Loose!Returns
<1>5. QED BY <1>1, <1>2, <1>3, <1>4 DEF Handle!Close, Sure!Close, Losing!Close, Loose!Close

-----------------------------------------------------------------------------
(* What NxFileProofs has of the handle, in the words of NxTransfer.          *)
LEMMA LocatedIsUnlocated ==
    /\ Sure!IInv => Sure!Unlocated
    /\ fmode = "no" /\ Sure!Unlocated => Sure!IInv
BY DEF Sure!IInv, Sure!Unlocated, Sure!Located

LEMMA HandleOpens ==
    ASSUME Sure!IInv, NEW m \in {"WRITE", "APPEND"}, Sure!Open(m)
    PROVE  /\ Sure!IInv' /\ fmode = "no" /\ fmode' = "write"
           /\ buf' = <<>> /\ off' = Len(disk')
           /\ disk' = IF m = "WRITE" THEN <<>> ELSE disk
<1>1. Sure!IInv'
  BY Sure!OpenStep, SizesAssumption, HandleAssumption, ZeroAssumption
     DEF Sure!SizesAssumption
<1>2. fmode = "no" /\ fmode' = "write" /\ disk' = IF m = "WRITE" THEN <<>> ELSE disk
  BY DEF Sure!Open
<1>3. buf' = <<>>
  BY DEF Sure!Open, Sure!IInv, Sure!Located
<1>4. off' = Len(disk')
  BY <1>2, EmptyIsContent DEF Sure!Open, Sure!OpensAt
<1>5. QED BY <1>1, <1>2, <1>3, <1>4

LEMMA HandleRefuses ==
    ASSUME Sure!IInv, NEW m \in {"WRITE", "APPEND"}, Sure!OpenFails(m)
    PROVE  Sure!IInv' /\ fmode' = fmode /\ disk' = disk
BY Sure!OpenFailsStep, SizesAssumption, HandleAssumption, ZeroAssumption
   DEF Sure!SizesAssumption, Sure!OpenFails

LEMMA HandleWrites ==
    ASSUME Sure!IInv, NEW b \in Pieces(MaxIo),
           Sure!WriteBuffered(b) \/ Sure!WriteChunked(b), ret' = Done
    PROVE  /\ Sure!IInv'
           /\ Sure!Promised' = Written(Sure!Promised, Sure!Position, b)
           /\ Sure!Position' = Sure!Position + Len(b)
<1>1. b \in Sure!Pieces(MaxIo)
  BY SamePieces
<1>2. Sure!IInv' /\ (Sure!Vfs!Write(b) \/ Sure!Vfs!WriteFails(b) \/ Sure!Vfs!Fails)
  BY <1>1, Sure!WriteBufferedStep, Sure!WriteChunkedStep, SizesAssumption,
     HandleAssumption, ZeroAssumption DEF Sure!SizesAssumption
<1>3. ret' # Sure!Vfs!Failed
  BY DEF Sure!Vfs!Failed, Done, Returns
<1>4. Sure!Vfs!Write(b)
  BY <1>2, <1>3 DEF Sure!Vfs!WriteFails, Sure!Vfs!Fails
<1>5. \A d, o, c : Sure!Vfs!Written(d, o, c) = Written(d, o, c)
  BY DEF Sure!Vfs!Written, Sure!Vfs!Larger, Written, Larger
<1>6. QED BY <1>2, <1>4, <1>5 DEF Sure!Vfs!Write

LEMMA MovedHandleWrites ==
    ASSUME Sure!Unlocated, NEW b \in Pieces(MaxIo),
           Sure!WriteBuffered(b) \/ Sure!WriteChunked(b)
    PROVE  Sure!Unlocated' /\ fmode' = fmode
<1>1. b \in Sure!Pieces(MaxIo)
  BY SamePieces
<1>2. Sure!Unlocated'
  BY <1>1, Sure!WriteTypes, SizesAssumption, HandleAssumption, ZeroAssumption
     DEF Sure!SizesAssumption
<1>3. QED BY <1>2 DEF Sure!WriteBuffered, Sure!WriteChunked

(* A close that works leaves what was promised.                              *)
LEMMA HandleCloses ==
    ASSUME Sure!IInv, Sure!Close
    PROVE  disk' = Sure!Promised
<1>1. Sure!Vfs!Close
  BY Sure!CloseStep, SizesAssumption, HandleAssumption, ZeroAssumption
     DEF Sure!SizesAssumption
<1>2. Sure!Promised' = Sure!Promised
  BY <1>1 DEF Sure!Vfs!Close
<1>3. fmode' = "no"
  BY DEF Sure!Close
<1>4. QED BY <1>2, <1>3 DEF Sure!Promised

(* However it goes, the handle is closed over some file.                     *)
LEMMA HandleIsClosed ==
    ASSUME Sure!Unlocated, Sure!Close \/ Loose!Close
    PROVE  Sure!Unlocated' /\ disk' \in Content /\ fmode' = "no"
<1>1. Loose!Unlocated
  BY SameHandle
<1>2. Sure!Unlocated' \/ Loose!Unlocated'
  BY <1>1, Sure!CloseTypes, Loose!CloseTypes, SizesAssumption, HandleAssumption,
     ZeroAssumption DEF Sure!SizesAssumption, Loose!SizesAssumption
<1>3. (Loose!Unlocated <=> Sure!Unlocated)'
  BY SameHandle, PTL
<1>4. Sure!Unlocated'
  BY <1>2, <1>3
<1>5. QED BY <1>4, SamePieces DEF Sure!Unlocated, Sure!TypeOK, Sure!Close, Loose!Close

(* And what was on the disk stays, up to the offset.                         *)
LEMMA ClosesOverPrefix ==
    ASSUME Sure!IInv, fmode = "write", Sure!Close \/ Loose!Close
    PROVE  Prefixed(disk', off, <<>>) = Prefixed(Sure!Promised, off, <<>>)
<1>1. Sure!Unlocated /\ Loose!Unlocated
  BY LocatedIsUnlocated, SameHandle
<1>2. /\ disk \in Content /\ buf \in Content /\ off \in Nat /\ off <= Len(disk)
      /\ Len(disk) \in Nat /\ Sure!Promised = Prefixed(disk, off, buf)
  BY ContentIsFunction, SamePieces DEF Sure!IInv, Sure!TypeOK, Sure!Located, Sure!Promised
<1>3. disk' \in Content /\ off <= Len(disk') /\ \A i \in 1..off : disk'[i] = disk[i]
  BY <1>1, <1>2, Sure!ClosedIsFile, Loose!ClosedIsFile, SizesAssumption,
     HandleAssumption, ZeroAssumption, SamePieces
     DEF Sure!SizesAssumption, Loose!SizesAssumption
<1> DEFINE p == Prefixed(disk, off, buf)
<1>4. off \in 0..Len(disk) /\ off \in 0..Len(disk') /\ Len(buf) \in Nat
  BY <1>2, <1>3, ContentIsFunction
<1>5. /\ p \in Content /\ Len(p) = off + Len(buf)
      /\ \A i \in 1..(off + Len(buf)) : p[i] = IF i <= off THEN disk[i] ELSE buf[i - off]
  BY <1>2, <1>4, PrefixedProperties
<1> HIDE DEF p
<1>6. \A i \in 1..off : i \in 1..(off + Len(buf)) /\ i <= off
  BY <1>2, <1>4
<1>7. off <= Len(p) /\ \A i \in 1..off : disk'[i] = p[i]
  BY <1>2, <1>3, <1>4, <1>5, <1>6
<1>8. Prefixed(disk', off, <<>>) = Prefixed(p, off, <<>>)
  BY <1>3, <1>4, <1>5, <1>7, EmptyIsContent, SamePrefix
<1>9. QED BY <1>2, <1>8 DEF p

-----------------------------------------------------------------------------
(* 226 for an upload to the Switch.                                          *)
Stored ==
    port = "nx" /\ mode = "stor" /\ reply' = "226" =>
        \/ moved
        \/ disk' = data
        \/ lost' /\ Prefixed(disk', off, <<>>) = Prefixed(data, off, <<>>)

NxInvs == NInv' /\ Promised /\ Stored

LEMMA NxInitInv == NxInit => NInv
<1>1. SUFFICES ASSUME NxInit PROVE NInv
  OBVIOUS
<1>2. TInv /\ data \in Content
  BY <1>1, InitTInv DEF NxInit, TInv, TypeOK
<1>3. disk \in Sure!Content /\ buf \in Sure!Content /\ Len(buf) = 0
  BY <1>1, <1>2, EmptyIsContent, SamePieces DEF NxInit
<1>4. ret \in Sure!Returned
  BY <1>1, EmptyIsContent, SamePieces DEF NxInit, Done, Returns, Sure!Returned
<1>5. Sure!Unlocated
  BY <1>1, <1>3, <1>4, HandleAssumption DEF NxInit, Sure!Unlocated, Sure!TypeOK
<1>6. Linked
  BY <1>1 DEF NxInit, Init, Linked
<1>7. QED BY <1>2, <1>5, <1>6 DEF NInv

(* A step that leaves the handle alone.                                      *)
LEMMA HandleAlone ==
    ASSUME Sure!Unlocated, UNCHANGED handle
    PROVE  Sure!Unlocated'
BY DEF handle, Sure!Unlocated, Sure!TypeOK

LEMMA OtherStepHolds ==
    ASSUME NInv, port = "nx", port' = port, at = "loop", OtherStep
    PROVE  NxInvs
<1>1. TInv /\ mode # "stor" /\ UNCHANGED <<handle, at, moved, lost>>
  BY DEF NInv, OtherStep
<1>2. CASE \/ \E m \in 0..MaxSize : REST(m)
           \/ PASV \/ RetrRefused
           \/ \E m \in {marker, -1} : StoreNamesNothing(m)
  <2>1. TInv' /\ Promised
    BY <1>1, <1>2, CommandsKeep
  <2>2. data' = data /\ mode' # "stor"
    BY <1>1, <1>2 DEF REST, PASV, RetrRefused, StoreNamesNothing
  <2>3. QED BY <1>1, <2>1, <2>2, HandleAlone DEF NxInvs, NInv, Linked, Stored, handle
<1>3. CASE ABOR
  <2>1. TInv' /\ Promised
    BY <1>1, <1>3, AborKeeps
  <2>2. data' = data /\ mode' # "stor"
    BY <1>3 DEF ABOR, Aborts, TransferEnd, file
  <2>3. QED BY <1>1, <2>1, <2>2, HandleAlone DEF NxInvs, NInv, Linked, Stored, handle
<1>4. CASE RETR
  <2>1. TInv' /\ Promised
    BY <1>1, <1>4, RetrKeeps
  <2>2. data' = data /\ mode' # "stor"
    BY <1>1, <1>4 DEF RETR, DataOpen
  <2>3. QED BY <1>1, <2>1, <2>2, HandleAlone DEF NxInvs, NInv, Linked, Stored, handle
<1>5. CASE \E n \in 1..Readable : SendSome(n)
  <2>1. TInv' /\ Promised
    BY <1>1, <1>5, SendSomeKeeps
  <2>2. data' = data /\ mode' # "stor"
    BY <1>1, <1>5 DEF SendSome, Ends, TransferEnd
  <2>3. QED BY <1>1, <2>1, <2>2, HandleAlone DEF NxInvs, NInv, Linked, Stored, handle
<1>6. CASE SendEnds
  <2>1. TInv' /\ Promised
    BY <1>1, <1>6, SendEndsKeeps
  <2>2. data' = data /\ mode' # "stor"
    BY <1>6 DEF SendEnds, Ends, TransferEnd
  <2>3. QED BY <1>1, <2>1, <2>2, HandleAlone DEF NxInvs, NInv, Linked, Stored, handle
<1>7. CASE SendStalls
  <2>1. TInv' /\ Promised
    BY <1>1, <1>7, SendStallsKeeps
  <2>2. data' = data /\ mode' # "stor"
    BY <1>1, <1>7 DEF SendStalls
  <2>3. QED BY <1>1, <2>1, <2>2, HandleAlone DEF NxInvs, NInv, Linked, Stored, handle
<1>8. CASE TransferFails
  <2>1. TInv' /\ Promised
    BY <1>1, <1>8, FailsKeeps
  <2>2. data' = data /\ mode' # "stor"
    BY <1>8 DEF TransferFails, Failed426, Ends, TransferEnd, file
  <2>3. QED BY <1>1, <2>1, <2>2, HandleAlone DEF NxInvs, NInv, Linked, Stored, handle
<1>9. QED BY <1>2, <1>3, <1>4, <1>5, <1>6, <1>7, <1>8 DEF OtherStep

(* A step that leaves the session alone, in a transfer or without one.       *)
LEMMA SessionAlone ==
    ASSUME TInv, UNCHANGED vars, mode = "none" \/ mode = "stor"
    PROVE  TInv' /\ (mode = "stor" => reply' # "226" /\ Promised)
BY DEF TInv, vars, TypeOK, OffsetIsPosition, Downloading, Uploading, Spoilt, AtEnd,
       OAppend, Promised

LEMMA OpenFileHolds ==
    ASSUME NInv, port = "nx", port' = port, at = "loop",
           NEW m \in {"WRITE", "APPEND"}, OpenFile(m)
    PROVE  NxInvs
<1>1. /\ TInv /\ mode = "none" /\ fmode = "no" /\ disk = data /\ ~moved
      /\ Sure!IInv
  BY LocatedIsUnlocated DEF NInv, Linked, OpenFile, Idle
<1>2. /\ Sure!Open(m) /\ at' = m /\ UNCHANGED <<vars, moved>>
      /\ m = "APPEND" \/ marker # -1
  BY SameOpen DEF OpenFile
<1>3. /\ Sure!IInv' /\ fmode' = "write" /\ buf' = <<>> /\ off' = Len(disk')
      /\ disk' = IF m = "WRITE" THEN <<>> ELSE disk
  BY <1>1, <1>2, HandleOpens
<1>4. TInv'
  BY <1>1, <1>2, SessionAlone
<1>5. Sure!Unlocated'
  BY <1>3, LocatedIsUnlocated, PTL
<1>6. mode' = mode /\ marker' = marker /\ data' = data /\ moved' = moved
  BY <1>2 DEF vars
<1>7. JustOpened' /\ at' \in {"WRITE", "APPEND"}
  BY <1>1, <1>2, <1>3, <1>6 DEF JustOpened
<1>8. Linked'
  BY <1>7 DEF Linked
<1>9. QED BY <1>1, <1>4, <1>5, <1>8 DEF NxInvs, NInv, Promised, Stored

LEMMA OpenRefusedHolds ==
    ASSUME NInv, port = "nx", port' = port, at = "loop",
           NEW m \in {"WRITE", "APPEND"}, OpenRefused(m)
    PROVE  NxInvs
<1>1. /\ TInv /\ mode = "none" /\ fmode = "no" /\ disk = data /\ ~moved
      /\ Sure!IInv
  BY LocatedIsUnlocated DEF NInv, Linked, OpenRefused, StoreRefused, Idle
<1>2. /\ Sure!OpenFails(m) /\ UNCHANGED <<at, moved, lost>>
      /\ \E k \in {marker, -1} : StoreRefused(k)
      /\ data' = data /\ mode' = mode
  BY SameOpen DEF OpenRefused, StoreRefused
<1>3. TInv' /\ Promised
  BY <1>1, <1>2, CommandsKeep
<1>4. Sure!IInv' /\ fmode' = fmode /\ disk' = disk
  BY <1>1, <1>2, HandleRefuses
<1>5. Sure!Unlocated'
  BY <1>4, LocatedIsUnlocated, PTL
<1>6. Linked'
  BY <1>1, <1>2, <1>4 DEF Linked
<1>7. QED BY <1>1, <1>3, <1>5, <1>6 DEF NxInvs, NInv, Stored

(* The file is open, and the data connection is or is not.                   *)
LEMMA FileOpenedHolds ==
    ASSUME NInv, port = "nx", port' = port, FileOpened
    PROVE  NxInvs
<1> DEFINE k == IF at = "APPEND" THEN -1 ELSE marker
<1>1. /\ at \in {"WRITE", "APPEND"} /\ JustOpened /\ TInv /\ k \in {marker, -1}
  BY DEF NInv, Linked, FileOpened
<1>2. /\ Store(k) /\ at' = "loop" /\ moved' = moved
      /\ IF reply' = "425" THEN Sure!Close ELSE UNCHANGED handle
  BY SameClose DEF FileOpened
<1>3. TInv' /\ Promised
  BY <1>1, <1>2, StoreKeeps
<1>4. /\ mode = "none" /\ fmode = "write" /\ ~moved /\ Sure!IInv /\ buf = <<>>
      /\ off = Len(disk)
      /\ at = "WRITE" => disk = <<>> /\ marker # -1
      /\ at = "APPEND" => disk = data
  BY <1>1 DEF JustOpened
<1>5. disk \in Content /\ Len(disk) \in Nat /\ Sure!Unlocated
  BY <1>4, LocatedIsUnlocated, ContentIsFunction, SamePieces DEF Sure!IInv, Sure!TypeOK
<1>6. append' = (at = "APPEND")
  BY <1>1, <1>2, <1>4 DEF Store
<1>7. data' = disk
  BY <1>1, <1>2, <1>4, <1>6 DEF Store
<1>8. pos' = off
  <2>1. pos' = IF append' /\ ~OAppend THEN Len(data) ELSE 0
    BY <1>2 DEF Store, OpenPosition
  <2>2. ~OAppend
    BY DEF OAppend
  <2>3. QED BY <1>1, <1>4, <1>6, <2>1, <2>2, EmptyIsContent
<1>9. Sure!Promised = disk /\ Sure!Position = off
  <2>1. Sure!Promised = Prefixed(disk, Len(disk), <<>>)
    BY <1>4, SamePieces DEF Sure!Promised
  <2>2. \A n : n = 0 => Len(disk) + n = Len(disk)
    BY <1>5
  <2>3. Sure!Position = off
    BY <1>4, <2>2, EmptyIsContent DEF Sure!Position
  <2>4. QED BY <1>5, <2>1, <2>3, WholePrefix
<1>10. mode' = "stor" \/ (mode' = "none" /\ reply' = "425")
  BY <1>2, <1>4 DEF Store, DataOpen
<1>11. CASE reply' = "425"
  <2>1. Sure!Close /\ mode' = "none"
    BY <1>2, <1>4, <1>11 DEF Store, DataOpen
  <2>2. disk' = disk
    BY <1>4, <1>9, <2>1, HandleCloses
  <2>3. Sure!Unlocated' /\ fmode' = "no"
    BY <1>5, <2>1, HandleIsClosed
  <2>4. QED BY <1>2, <1>3, <1>4, <1>7, <2>1, <2>2, <2>3
            DEF NxInvs, NInv, Linked, Stored
<1>12. CASE reply' # "425"
  <2>1. UNCHANGED handle /\ mode' = "stor"
    BY <1>2, <1>10, <1>12
  <2>2. /\ Sure!Unlocated' /\ Sure!IInv' /\ fmode' = "write"
        /\ Sure!Promised' = Sure!Promised /\ Sure!Position' = Sure!Position
    BY <1>4, <1>5, <2>1
       DEF handle, Sure!Unlocated, Sure!IInv, Sure!TypeOK, Sure!Located, Sure!Promised,
           Sure!Position
  <2>3. Follows'
    BY <1>7, <1>8, <1>9, <2>2 DEF Follows
  <2>4. QED BY <1>2, <1>3, <1>4, <2>1, <2>2, <2>3 DEF NxInvs, NInv, Linked, Stored
<1>13. QED BY <1>11, <1>12

(* What was received is written.                                             *)
LEMMA ReceiveHolds ==
    ASSUME NInv, port = "nx", port' = port, at = "loop", NEW b \in Pieces(MaxIo),
           Receive(b)
    PROVE  NxInvs
<1>1. b \in Content /\ Len(b) \in Nat \ {0} /\ Len(b) \in 1..Len(b)
  <2>1. b \in Content /\ Len(b) \in Nat \ {0}
    BY PiecesAreContent, SizesAssumption
  <2>2. QED BY <2>1
<1>2. /\ ReceiveSome(b, Len(b)) /\ at' = at /\ moved' = moved /\ ret' = Done
      /\ Sure!WriteBuffered(b) \/ Sure!WriteChunked(b)
  BY SameWrite DEF Receive, Handle!Write
<1>3. TInv' /\ Promised
  BY <1>1, <1>2, ReceiveSomeKeeps DEF NInv
<1>4. /\ mode = "stor" /\ mode' = "stor" /\ reply' = "none"
      /\ data' = Written(data, pos, b) /\ pos' = pos + Len(b)
  <2>1. WritePosition = pos
    BY DEF WritePosition, OAppend
  <2>2. SubSeq(b, 1, Len(b)) = b
    BY <1>1, WholePiece
  <2>3. QED BY <1>2, <2>1, <2>2 DEF ReceiveSome
<1>5. fmode = "write" /\ (moved \/ Follows) /\ Sure!Unlocated
  BY <1>4 DEF NInv, Linked
<1>6. Sure!Unlocated' /\ fmode' = fmode
  BY <1>2, <1>5, MovedHandleWrites
<1>7. ASSUME Follows PROVE Follows'
  <2>1. Sure!IInv /\ data = Sure!Promised /\ pos = Sure!Position
    BY <1>7 DEF Follows
  <2>2. /\ Sure!IInv' /\ Sure!Promised' = Written(Sure!Promised, Sure!Position, b)
        /\ Sure!Position' = Sure!Position + Len(b)
    BY <1>2, <2>1, HandleWrites
  <2>3. QED BY <1>4, <2>1, <2>2 DEF Follows
<1>8. Linked'
  BY <1>2, <1>4, <1>5, <1>6, <1>7 DEF Linked
<1>9. QED BY <1>3, <1>4, <1>6, <1>8 DEF NxInvs, NInv, Stored

(* A write fails: the session has yet to learn of it.                        *)
LEMMA WriteFailsHolds ==
    ASSUME NInv, port = "nx", port' = port, at = "loop", NEW b \in Pieces(MaxIo),
           WriteFails(b)
    PROVE  NxInvs
<1>1. /\ mode = "stor" /\ at' = "failed" /\ UNCHANGED vars
      /\ Sure!WriteBuffered(b) \/ Sure!WriteChunked(b)
  BY SameWrite DEF WriteFails, Handle!Write
<1>2. TInv' /\ reply' # "226" /\ Promised
  BY <1>1, SessionAlone DEF NInv
<1>3. fmode = "write" /\ Sure!Unlocated
  BY <1>1 DEF NInv, Linked
<1>4. Sure!Unlocated' /\ fmode' = "write"
  BY <1>1, <1>3, MovedHandleWrites
<1>5. mode' = "stor"
  BY <1>1 DEF vars
<1>6. QED BY <1>1, <1>2, <1>4, <1>5 DEF NxInvs, NInv, Linked, Stored

(* The seek of a stall moves the handle, or it is one of a plain file.       *)
LEMMA StallHolds ==
    ASSUME NInv, port = "nx", port' = port, at = "loop", Stall
    PROVE  NxInvs
<1>1. ReceiveStalls /\ Sure!SetOffset(offset) /\ at' = at /\ moved' = (moved \/ Moves)
  BY SameOpen DEF Stall
<1>2. TInv' /\ Promised
  BY <1>1, ReceiveStallsKeeps DEF NInv
<1>3. /\ mode = "stor" /\ mode' = "stor" /\ reply' = "none" /\ data' = data
      /\ pos' = offset /\ offset \in Nat
  BY <1>1 DEF ReceiveStalls, Rewind, NInv, TInv, TypeOK
<1>4. fmode = "write" /\ (moved \/ Follows) /\ Sure!Unlocated
  BY <1>3 DEF NInv, Linked
<1>5. /\ off' = offset /\ disk' = disk /\ fmode' = fmode /\ chunk' = chunk
      /\ buf' = buf /\ ret' \in Sure!Returned
  BY <1>1, EmptyIsContent, SamePieces
     DEF Sure!SetOffset, Sure!Done, Sure!Returns, Sure!Returned
<1>6. Sure!Unlocated'
  BY <1>3, <1>4, <1>5 DEF Sure!Unlocated, Sure!TypeOK
<1>7. ASSUME ~moved' PROVE Follows'
  <2>1. Follows /\ buf = <<>> /\ off = offset
    BY <1>1, <1>4, <1>7 DEF Moves
  <2>2. Sure!IInv' /\ Sure!Promised' = Sure!Promised /\ Sure!Position' = Sure!Position
    BY <1>5, <1>6, <2>1
       DEF Follows, Sure!IInv, Sure!Unlocated, Sure!Located, Sure!Promised, Sure!Position
  <2>3. off \in Nat
    BY <1>4 DEF Sure!Unlocated, Sure!TypeOK
  <2>4. Sure!Position = off
    <3>1. \A n : n = 0 => off + n = off
      BY <2>3
    <3>2. QED BY <1>4, <2>1, <3>1, EmptyIsContent DEF Sure!Position
  <2>5. QED BY <1>3, <2>1, <2>2, <2>4 DEF Follows
<1>8. Linked'
  BY <1>1, <1>3, <1>4, <1>5, <1>7 DEF Linked
<1>9. QED BY <1>2, <1>3, <1>6, <1>8 DEF NxInvs, NInv, Stored

(* An upload ends: the session gives up its file, and the handle is closed.  *)
LEMMA UploadCloses ==
    ASSUME NInv, port = "nx", port' = port, mode = "stor", at' = "loop",
           Received \/ Aborts \/ Failed426, CloseFile
    PROVE  NInv' /\ Promised
<1>1. /\ TransferEnd /\ got' = got /\ reply' \in {"none", "226", "426"}
  BY DEF Received, Aborts, Failed426, Ends
<1>2. /\ Sure!Close \/ Loose!Close
      /\ data' = disk' /\ moved' = FALSE /\ pos' = pos
  BY SameClose DEF CloseFile
<1>3. Sure!Unlocated' /\ disk' \in Content /\ fmode' = "no"
  BY <1>2, HandleIsClosed DEF NInv
<1>4. TInv'
  BY <1>1, <1>2, <1>3, EndKeepsTypes DEF NInv, TInv, TypeOK
<1>5. mode' = "none"
  BY <1>1 DEF TransferEnd
<1>6. Linked'
  BY <1>2, <1>3, <1>5 DEF Linked
<1>7. Promised
  BY DEF Promised, NInv, TInv, Uploading
<1>8. QED BY <1>3, <1>4, <1>6, <1>7 DEF NInv

LEMMA UploadEndsHolds ==
    ASSUME NInv, port = "nx", port' = port, at = "loop", UploadEnds
    PROVE  NxInvs
<1>1. NInv' /\ Promised
  BY UploadCloses DEF UploadEnds
<1>2. ASSUME ~moved
      PROVE  disk' = data \/ (lost' /\ Prefixed(disk', off, <<>>) = Prefixed(data, off, <<>>))
  <2>1. Sure!IInv /\ data = Sure!Promised /\ fmode = "write"
    BY <1>2 DEF NInv, Linked, UploadEnds, Follows
  <2>2. Sure!Close \/ (Loose!Close /\ lost' = TRUE)
    BY SameClose DEF UploadEnds, CloseFile
  <2>3. QED BY <2>1, <2>2, HandleCloses, ClosesOverPrefix
<1>3. QED BY <1>1, <1>2 DEF NxInvs, Stored

LEMMA WriteFailedHolds ==
    ASSUME NInv, port = "nx", port' = port, WriteFailed
    PROVE  NxInvs
<1>1. mode = "stor" /\ at' = "loop" /\ Failed426 /\ CloseFile
  BY DEF NInv, Linked, WriteFailed
<1>2. NInv' /\ Promised
  BY <1>1, UploadCloses
<1>3. reply' = "426"
  BY <1>1 DEF Failed426, Ends
<1>4. QED BY <1>2, <1>3 DEF NxInvs, Stored

-----------------------------------------------------------------------------
LEMMA NxNextHolds == NInv /\ [NxNext]_nxVars => NInv' /\ (NxInvs \/ UNCHANGED nxVars)
<1>1. ASSUME NInv, NxNext, port = "nx"
      PROVE  NxInvs
  <2>1. port' = port /\ NxStep
    BY <1>1 DEF NxNext
  <2>2. CASE at = "loop" /\ OtherStep
    BY <1>1, <2>1, <2>2, OtherStepHolds
  <2>3. ASSUME at = "loop", NEW m \in {"WRITE", "APPEND"}, OpenFile(m) \/ OpenRefused(m)
        PROVE  NxInvs
    BY <1>1, <2>1, <2>3, OpenFileHolds, OpenRefusedHolds
  <2>4. ASSUME at = "loop", NEW b \in Pieces(MaxIo), Receive(b) \/ WriteFails(b)
        PROVE  NxInvs
    BY <1>1, <2>1, <2>4, ReceiveHolds, WriteFailsHolds
  <2>5. CASE at = "loop" /\ Stall
    BY <1>1, <2>1, <2>5, StallHolds
  <2>6. CASE at = "loop" /\ UploadEnds
    BY <1>1, <2>1, <2>6, UploadEndsHolds
  <2>7. CASE FileOpened
    BY <1>1, <2>1, <2>7, FileOpenedHolds
  <2>8. CASE WriteFailed
    BY <1>1, <2>1, <2>8, WriteFailedHolds
  <2>9. QED BY <2>1, <2>2, <2>3, <2>4, <2>5, <2>6, <2>7, <2>8 DEF NxStep, UploadStep
<1>2. ASSUME NInv, NxNext, port # "nx"
      PROVE  NxInvs
  <2>1. Next /\ UNCHANGED handle /\ port' = port
    BY <1>2 DEF NxNext, Next
  <2>2. TInv' /\ Promised
    BY <1>2, <2>1, StepKeeps DEF NInv
  <2>3. QED BY <1>2, <2>1, <2>2, HandleAlone DEF NxInvs, NInv, Linked, Stored
<1>3. ASSUME NInv, UNCHANGED nxVars
      PROVE  NInv'
  <2>1. TInv'
    BY <1>3, NextTInv DEF nxVars, NInv
  <2>2. Sure!Unlocated'
    BY <1>3, HandleAlone DEF nxVars, NInv
  <2>3. Linked'
    BY <1>3
       DEF nxVars, vars, handle, NInv, Linked, JustOpened, Follows, Sure!IInv, Sure!TypeOK,
           Sure!Located, Sure!Promised, Sure!Position
  <2>4. QED BY <2>1, <2>2, <2>3 DEF NInv
<1>4. QED BY <1>1, <1>2, <1>3 DEF NxInvs

(* The handle of the Switch is where the session takes it to be, or a stall  *)
(* has moved it.                                                             *)
THEOREM NxInvariance == NxSpec => []NInv
<1>1. NInv /\ [NxNext]_nxVars => NInv'
  BY NxNextHolds
<1>2. QED BY <1>1, NxInitInv, PTL DEF NxSpec

(* What the client of the Switch was told is stored is on its disk, as a     *)
(* plain file would have it, whatever the buffer, the chunks and the pieces; *)
(* but for the bytes a stall has moved and those a failed close has lost.    *)
THEOREM UploadsAreStored == NxSpec => UploadStored
<1>1. NInv /\ [NxNext]_nxVars =>
        [port = "nx" /\ mode = "stor" /\ reply' = "226" =>
           \/ moved
           \/ disk' = data
           \/ lost' /\ Prefixed(disk', off, <<>>) = Prefixed(data, off, <<>>)]_nxVars
  BY NxNextHolds DEF NxInvs, Stored
<1>2. QED BY <1>1, NxInvariance, PTL DEF NxSpec, UploadStored

(* The promises to clients hold over the Switch's handle too.                *)
THEOREM NxTransfersAreExact ==
    NxSpec => [](TypeOK /\ OffsetIsPosition /\ DownloadExact) /\ DownloadComplete /\ UploadExact
<1>1. NInv => TypeOK /\ OffsetIsPosition /\ DownloadExact
  BY InvariantIsExact DEF NInv, TInv
<1>2. NInv /\ [NxNext]_nxVars =>
        /\ [mode = "retr" /\ reply' = "226" => got' = ReadFrom(data, from, Len(data))]_vars
        /\ [mode = "stor" /\ reply' = "226" =>
              \/ data = want
              \/ spoilt.short
              \/ spoilt.stalled /\ skew # 0 /\ ~(append /\ OAppend)]_vars
  BY NxNextHolds DEF NxInvs, Promised, Spoilt, AtEnd, nxVars
<1>3. QED BY <1>1, <1>2, NxInvariance, PTL DEF NxSpec, DownloadComplete, UploadExact
=============================================================================
