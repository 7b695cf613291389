------------------------- MODULE FileContentLemmas -------------------------
(* What resizing, writing and prefixing do to a file, position by position,  *)
(* and the equations between them that a handle which delays its writes      *)
(* rests on.                                                                 *)
EXTENDS FileContent, SequenceTheorems, TLAPS

(* A function on 1..n is a content of n bytes.                               *)
LEMMA FunctionIsContent ==
    ASSUME NEW n \in Nat, NEW f \in [1..n -> Bytes]
    PROVE  f \in Content /\ Len(f) = n
<1>1. f \in Content
    BY SeqDef DEF Content
<1>2. DOMAIN f = 1..Len(f) /\ Len(f) \in Nat
    BY <1>1, LenProperties DEF Content
<1>3. DOMAIN f = 1..n
    OBVIOUS
<1> QED
    BY <1>1, <1>2, <1>3, SMT

(* A content is a function on its positions.                                 *)
LEMMA ContentIsFunction ==
    ASSUME NEW d \in Content
    PROVE  /\ Len(d) \in Nat
           /\ d \in [1..Len(d) -> Bytes]
           /\ \A i \in 1..Len(d) : d[i] \in Bytes
BY LenProperties, ElementOfSeq DEF Content

(* A file after fsFileSetSize.                                               *)
LEMMA ResizedProperties ==
    ASSUME NEW d \in Content, NEW n \in Nat
    PROVE  /\ Resized(d, n) \in Content
           /\ Len(Resized(d, n)) = n
           /\ \A i \in 1..n : Resized(d, n)[i] = IF i <= Len(d) THEN d[i] ELSE Zero
<1>1. \A i \in 1..n : (IF i <= Len(d) THEN d[i] ELSE Zero) \in Bytes
    BY ContentIsFunction, ZeroAssumption
<1>2. Resized(d, n) \in [1..n -> Bytes]
    BY <1>1 DEF Resized
<1> QED
    BY <1>2, FunctionIsContent DEF Resized

(* A file after a write.                                                     *)
LEMMA WrittenProperties ==
    ASSUME NEW d \in Content, NEW o \in Nat, NEW b \in Content
    PROVE  /\ Written(d, o, b) \in Content
           /\ Len(Written(d, o, b)) = Larger(Len(d), o + Len(b))
           /\ \A i \in 1..Larger(Len(d), o + Len(b)) :
                Written(d, o, b)[i] =
                    IF i > o /\ i <= o + Len(b) THEN b[i - o]
                    ELSE IF i <= Len(d) THEN d[i] ELSE Zero
<1> DEFINE n == Larger(Len(d), o + Len(b))
<1>1. n \in Nat /\ Len(d) \in Nat /\ Len(b) \in Nat
    BY ContentIsFunction DEF Larger
<1>2. ASSUME NEW i \in 1..n
      PROVE  (IF i > o /\ i <= o + Len(b) THEN b[i - o]
              ELSE IF i <= Len(d) THEN d[i] ELSE Zero) \in Bytes
    <2>1. CASE i > o /\ i <= o + Len(b)
        <3>1. i - o \in 1..Len(b)
            BY <1>1, <2>1
        <3> QED
            BY <2>1, <3>1, ContentIsFunction
    <2>2. CASE ~(i > o /\ i <= o + Len(b)) /\ i <= Len(d)
        <3>1. i \in 1..Len(d)
            BY <1>1, <2>2
        <3> QED
            BY <2>2, <3>1, ContentIsFunction
    <2>3. CASE ~(i > o /\ i <= o + Len(b)) /\ ~(i <= Len(d))
        BY <2>3, ZeroAssumption
    <2> QED
        BY <2>1, <2>2, <2>3
<1>3. Written(d, o, b) \in [1..n -> Bytes]
    BY <1>2 DEF Written
<1> QED
    BY <1>1, <1>3, FunctionIsContent DEF Written

(* The first bytes of a file, then others.                                   *)
LEMMA PrefixedProperties ==
    ASSUME NEW d \in Content, NEW o \in 0..Len(d), NEW b \in Content
    PROVE  /\ Prefixed(d, o, b) \in Content
           /\ Len(Prefixed(d, o, b)) = o + Len(b)
           /\ \A i \in 1..(o + Len(b)) :
                Prefixed(d, o, b)[i] = IF i <= o THEN d[i] ELSE b[i - o]
<1> DEFINE n == o + Len(b)
<1>1. n \in Nat /\ Len(d) \in Nat /\ Len(b) \in Nat
    BY ContentIsFunction
<1>2. ASSUME NEW i \in 1..n
      PROVE  (IF i <= o THEN d[i] ELSE b[i - o]) \in Bytes
    <2>1. i <= o => i \in 1..Len(d)
        BY <1>1
    <2>2. ~(i <= o) => i - o \in 1..Len(b)
        BY <1>1
    <2> QED
        BY <2>1, <2>2, ContentIsFunction
<1>3. Prefixed(d, o, b) \in [1..n -> Bytes]
    BY <1>2 DEF Prefixed
<1> QED
    BY <1>1, <1>3, FunctionIsContent DEF Prefixed

(* A piece of a buffer.                                                      *)
LEMMA SubSeqIsContent ==
    ASSUME NEW b \in Content, NEW m \in 1..(Len(b) + 1), NEW n \in 0..Len(b)
    PROVE  /\ SubSeq(b, m, n) \in Content
           /\ Len(SubSeq(b, m, n)) = IF m <= n THEN n - m + 1 ELSE 0
           /\ \A i \in 1..(n - m + 1) : SubSeq(b, m, n)[i] = b[m + i - 1]
<1>1. Len(b) \in Nat
    BY ContentIsFunction
<1>2. \A i \in m..n : b[i] \in Bytes
    BY <1>1, ContentIsFunction
<1> QED
    BY <1>1, <1>2, SubSeqProperties DEF Content

(* Two pieces.                                                               *)
LEMMA ConcatIsContent ==
    ASSUME NEW a \in Content, NEW b \in Content
    PROVE  /\ a \o b \in Content
           /\ Len(a \o b) = Len(a) + Len(b)
           /\ \A i \in 1..(Len(a) + Len(b)) :
                (a \o b)[i] = IF i <= Len(a) THEN a[i] ELSE b[i - Len(a)]
BY ConcatProperties DEF Content

(* Three pieces.                                                             *)
LEMMA ConcatContentAssociative ==
    ASSUME NEW a \in Content, NEW b \in Content, NEW c \in Content
    PROVE  (a \o b) \o c = a \o (b \o c)
BY ConcatAssociative DEF Content

(* The empty file.                                                           *)
LEMMA EmptyIsContent == <<>> \in Content /\ Len(<<>>) = 0
BY EmptySeq DEF Content

(* Files are equal if they have the same length and bytes.                   *)
LEMMA SameContent ==
    ASSUME NEW d \in Content, NEW e \in Content, Len(d) = Len(e),
           \A i \in 1..Len(d) : d[i] = e[i]
    PROVE  d = e
BY SeqEqual DEF Content

(* A piece is what fits and the rest.                                        *)
LEMMA SplitContent ==
    ASSUME NEW b \in Content, NEW n \in 0..Len(b)
    PROVE  b = SubSeq(b, 1, n) \o SubSeq(b, n + 1, Len(b))
<1> DEFINE h == SubSeq(b, 1, n)
           t == SubSeq(b, n + 1, Len(b))
<1>1. Len(b) \in Nat /\ n \in Nat
    BY ContentIsFunction
<1>2. /\ h \in Content /\ Len(h) = n
      /\ \A i \in 1..n : h[i] = b[i]
    <2>1. /\ 1 \in 1..(Len(b) + 1) /\ (IF 1 <= n THEN n - 1 + 1 ELSE 0) = n
          /\ n - 1 + 1 = n /\ \A i \in 1..n : 1 + i - 1 = i
        BY <1>1
    <2> QED
        BY <2>1, SubSeqIsContent
<1>3. /\ t \in Content /\ Len(t) = Len(b) - n
      /\ \A i \in 1..(Len(b) - n) : t[i] = b[n + i]
    <2>1. /\ n + 1 \in 1..(Len(b) + 1) /\ Len(b) \in 0..Len(b)
          /\ (IF n + 1 <= Len(b) THEN Len(b) - (n + 1) + 1 ELSE 0) = Len(b) - n
          /\ Len(b) - (n + 1) + 1 = Len(b) - n
          /\ \A i \in 1..(Len(b) - n) : n + 1 + i - 1 = n + i
        BY <1>1
    <2>2. /\ t \in Content
          /\ Len(t) = IF n + 1 <= Len(b) THEN Len(b) - (n + 1) + 1 ELSE 0
          /\ \A i \in 1..(Len(b) - (n + 1) + 1) : t[i] = b[n + 1 + i - 1]
        BY <2>1, SubSeqIsContent
    <2> HIDE DEF t
    <2> QED
        BY <2>1, <2>2
<1> HIDE DEF h, t
<1>4. /\ h \o t \in Content /\ Len(h \o t) = Len(b)
      /\ \A i \in 1..Len(b) : (h \o t)[i] = IF i <= n THEN h[i] ELSE t[i - n]
    <2>1. Len(h) + Len(t) = Len(b)
        BY <1>1, <1>2, <1>3
    <2> QED
        BY <1>2, <1>3, <2>1, ConcatIsContent
<1>5. ASSUME NEW i \in 1..Len(b)
      PROVE  b[i] = (h \o t)[i]
    <2>1. CASE i <= n
        BY <1>1, <1>2, <1>4, <2>1
    <2>2. CASE i > n
        <3>1. i - n \in 1..(Len(b) - n) /\ n + (i - n) = i
            BY <1>1, <2>2
        <3> QED
            BY <1>1, <1>3, <1>4, <2>2, <3>1
    <2>3. i <= n \/ i > n
        BY <1>1
    <2> QED
        BY <2>1, <2>2, <2>3
<1> QED
    BY <1>4, <1>5, SameContent DEF h, t

-----------------------------------------------------------------------------
(* Writing where the content ends appends.                                   *)
LEMMA WrittenAtEnd ==
    ASSUME NEW d \in Content, NEW o \in 0..Len(d), NEW b \in Content, NEW c \in Content
    PROVE  Prefixed(d, o, b \o c) = Written(Prefixed(d, o, b), o + Len(b), c)
<1> DEFINE p == Prefixed(d, o, b)
           l == Prefixed(d, o, b \o c)
           r == Written(p, o + Len(b), c)
<1>1. Len(d) \in Nat /\ Len(b) \in Nat /\ Len(c) \in Nat
    BY ContentIsFunction
<1>2. /\ b \o c \in Content
      /\ Len(b \o c) = Len(b) + Len(c)
      /\ \A i \in 1..(Len(b) + Len(c)) :
            (b \o c)[i] = IF i <= Len(b) THEN b[i] ELSE c[i - Len(b)]
    BY ConcatIsContent
<1>3. /\ p \in Content
      /\ Len(p) = o + Len(b)
      /\ \A i \in 1..(o + Len(b)) : p[i] = IF i <= o THEN d[i] ELSE b[i - o]
    BY PrefixedProperties
<1>4. /\ l \in Content
      /\ Len(l) = o + Len(b) + Len(c)
      /\ \A i \in 1..(o + Len(b) + Len(c)) :
            l[i] = IF i <= o THEN d[i] ELSE (b \o c)[i - o]
    <2>1. /\ l \in Content
          /\ Len(l) = o + Len(b \o c)
          /\ \A i \in 1..(o + Len(b \o c)) :
                l[i] = IF i <= o THEN d[i] ELSE (b \o c)[i - o]
        BY <1>2, PrefixedProperties
    <2>2. o + Len(b \o c) = o + Len(b) + Len(c)
        BY <1>1, <1>2
    <2> QED
        BY <2>1, <2>2
<1>5. o + Len(b) \in Nat /\ Larger(Len(p), o + Len(b) + Len(c)) = o + Len(b) + Len(c)
    BY <1>1, <1>3 DEF Larger
<1>6. /\ r \in Content
      /\ Len(r) = o + Len(b) + Len(c)
      /\ \A i \in 1..(o + Len(b) + Len(c)) :
            r[i] = IF i > o + Len(b) /\ i <= o + Len(b) + Len(c)
                   THEN c[i - (o + Len(b))]
                   ELSE IF i <= Len(p) THEN p[i] ELSE Zero
    <2> DEFINE k == o + Len(b)
    <2> HIDE DEF k, p
    <2>1. p \in Content /\ k \in Nat /\ c \in Content
        BY <1>3, <1>5 DEF k
    <2>2. /\ Written(p, k, c) \in Content
          /\ Len(Written(p, k, c)) = Larger(Len(p), k + Len(c))
          /\ \A i \in 1..Larger(Len(p), k + Len(c)) :
                Written(p, k, c)[i] =
                    IF i > k /\ i <= k + Len(c) THEN c[i - k]
                    ELSE IF i <= Len(p) THEN p[i] ELSE Zero
        BY <2>1, WrittenProperties
    <2> QED
        BY <1>5, <2>2 DEF k
<1> HIDE DEF p, l, r
<1>7. ASSUME NEW i \in 1..Len(l)
      PROVE  l[i] = r[i]
    <2>1. CASE i <= o
        BY <1>1, <1>3, <1>4, <1>6, <2>1
    <2>2. CASE i > o /\ i <= o + Len(b)
        <3>1. i - o \in 1..(Len(b) + Len(c)) /\ i - o <= Len(b)
            BY <1>1, <1>4, <2>2
        <3>2. l[i] = b[i - o]
            BY <1>1, <1>2, <1>4, <2>2, <3>1
        <3>3. r[i] = b[i - o]
            BY <1>1, <1>3, <1>4, <1>6, <2>2
        <3> QED
            BY <3>2, <3>3
    <2>3. CASE i > o + Len(b)
        <3>1. /\ i - o \in 1..(Len(b) + Len(c)) /\ ~(i - o <= Len(b))
              /\ (i - o) - Len(b) = i - (o + Len(b))
            BY <1>1, <1>4, <2>3
        <3>2. l[i] = (b \o c)[i - o]
            BY <1>1, <1>4, <2>3
        <3>3. (b \o c)[i - o] = c[(i - o) - Len(b)]
            BY <1>2, <3>1
        <3>4. r[i] = c[i - (o + Len(b))]
            BY <1>1, <1>4, <1>6, <2>3
        <3> QED
            BY <3>1, <3>2, <3>3, <3>4
    <2> QED
        BY <1>1, <1>4, <2>1, <2>2, <2>3
<1> QED
    BY <1>4, <1>6, <1>7, SameContent DEF l, r, p

(* A file resized to what is written at o and then written there is its      *)
(* prefix and the bytes written.                                             *)
LEMMA WrittenToSize ==
    ASSUME NEW d \in Content, NEW o \in 0..Len(d), NEW b \in Content
    PROVE  Written(Resized(d, o + Len(b)), o, b) = Prefixed(d, o, b)
<1> DEFINE z == Resized(d, o + Len(b))
           l == Written(z, o, b)
           r == Prefixed(d, o, b)
<1>1. Len(d) \in Nat /\ Len(b) \in Nat /\ o + Len(b) \in Nat /\ o \in Nat
    BY ContentIsFunction
<1>2. /\ z \in Content
      /\ Len(z) = o + Len(b)
      /\ \A i \in 1..(o + Len(b)) : z[i] = IF i <= Len(d) THEN d[i] ELSE Zero
    BY <1>1, ResizedProperties
<1>3. /\ r \in Content
      /\ Len(r) = o + Len(b)
      /\ \A i \in 1..(o + Len(b)) : r[i] = IF i <= o THEN d[i] ELSE b[i - o]
    BY PrefixedProperties
<1>4. Larger(Len(z), o + Len(b)) = o + Len(b)
    BY <1>1, <1>2 DEF Larger
<1>5. /\ l \in Content
      /\ Len(l) = o + Len(b)
      /\ \A i \in 1..(o + Len(b)) :
            l[i] = IF i > o /\ i <= o + Len(b) THEN b[i - o]
                   ELSE IF i <= Len(z) THEN z[i] ELSE Zero
  <2> HIDE DEF z
  <2>1. /\ l \in Content
        /\ Len(l) = Larger(Len(z), o + Len(b))
        /\ \A i \in 1..Larger(Len(z), o + Len(b)) :
              l[i] = IF i > o /\ i <= o + Len(b) THEN b[i - o]
                     ELSE IF i <= Len(z) THEN z[i] ELSE Zero
      BY <1>1, <1>2, WrittenProperties
  <2> QED
      BY ONLY <1>4, <2>1
<1> HIDE DEF z, l, r
<1>6. ASSUME NEW i \in 1..Len(l)
      PROVE  l[i] = r[i]
    BY <1>1, <1>2, <1>3, <1>5
<1> QED
    BY <1>3, <1>5, <1>6, SameContent DEF l, r, z

(* A prefix depends on no more of the file than itself.                      *)
LEMMA SamePrefix ==
    ASSUME NEW d \in Content, NEW e \in Content, NEW o \in 0..Len(d), o <= Len(e),
           NEW b \in Content,
           \A i \in 1..o : d[i] = e[i]
    PROVE  Prefixed(d, o, b) = Prefixed(e, o, b)
<1>1. Len(d) \in Nat /\ Len(e) \in Nat /\ Len(b) \in Nat /\ o \in 0..Len(e)
    BY ContentIsFunction
<1>2. /\ Prefixed(d, o, b) \in Content /\ Prefixed(e, o, b) \in Content
      /\ Len(Prefixed(d, o, b)) = Len(Prefixed(e, o, b))
      /\ Len(Prefixed(d, o, b)) = o + Len(b)
    BY <1>1, PrefixedProperties
<1>3. \A i \in 1..(o + Len(b)) :
        Prefixed(d, o, b)[i] = IF i <= o THEN d[i] ELSE b[i - o]
    BY PrefixedProperties
<1>4. \A i \in 1..(o + Len(b)) :
        Prefixed(e, o, b)[i] = IF i <= o THEN e[i] ELSE b[i - o]
    BY <1>1, PrefixedProperties
<1>5. \A i \in 1..(o + Len(b)) : Prefixed(d, o, b)[i] = Prefixed(e, o, b)[i]
    BY <1>1, <1>3, <1>4
<1> QED
    BY <1>2, <1>5, SameContent

(* What a file has before an offset.                                         *)
LEMMA EmptyPrefix ==
    ASSUME NEW d \in Content, NEW o \in 0..Len(d)
    PROVE  /\ Prefixed(d, o, <<>>) \in Content
           /\ Len(Prefixed(d, o, <<>>)) = o
           /\ \A i \in 1..o : Prefixed(d, o, <<>>)[i] = d[i]
<1> DEFINE e == <<>>
<1>1. e \in Content /\ Len(e) = 0
    BY EmptyIsContent
<1>2. Len(d) \in Nat /\ o \in Nat
    BY ContentIsFunction
<1> HIDE DEF e
<1>3. /\ Prefixed(d, o, e) \in Content
      /\ Len(Prefixed(d, o, e)) = o + Len(e)
      /\ \A i \in 1..(o + Len(e)) :
            Prefixed(d, o, e)[i] = IF i <= o THEN d[i] ELSE e[i - o]
    BY <1>1, PrefixedProperties
<1>4. o + Len(e) = o
    BY <1>1, <1>2
<1>5. /\ Prefixed(d, o, e) \in Content
      /\ Len(Prefixed(d, o, e)) = o
      /\ \A i \in 1..o : Prefixed(d, o, e)[i] = d[i]
    BY <1>2, <1>3, <1>4
<1> QED
    BY <1>5 DEF e

(* The whole file is its own prefix, and a prefix is the file cut there.     *)
LEMMA WholePrefix ==
    ASSUME NEW d \in Content
    PROVE  Prefixed(d, Len(d), <<>>) = d
<1>1. Len(d) \in Nat /\ Len(d) \in 0..Len(d)
    BY ContentIsFunction
<1>2. /\ Prefixed(d, Len(d), <<>>) \in Content
      /\ Len(Prefixed(d, Len(d), <<>>)) = Len(d)
      /\ \A i \in 1..Len(d) : Prefixed(d, Len(d), <<>>)[i] = d[i]
    BY <1>1, EmptyPrefix
<1> QED
    BY <1>2, SameContent

(* Shrinking a file keeps what is before the new end.                        *)
LEMMA CutPrefix ==
    ASSUME NEW d \in Content, NEW o \in 0..Len(d)
    PROVE  Resized(d, o) = Prefixed(d, o, <<>>)
<1>1. Len(d) \in Nat /\ o \in Nat
    BY ContentIsFunction
<1>2. /\ Prefixed(d, o, <<>>) \in Content
      /\ Len(Prefixed(d, o, <<>>)) = o
      /\ \A i \in 1..o : Prefixed(d, o, <<>>)[i] = d[i]
    BY EmptyPrefix
<1>3. /\ Resized(d, o) \in Content
      /\ Len(Resized(d, o)) = o
      /\ \A i \in 1..o : Resized(d, o)[i] = d[i]
    BY <1>1, ResizedProperties
<1> QED
    BY <1>2, <1>3, SameContent

(* Bytes moved from the buffer to the disk leave the whole the same.         *)
LEMMA MovedPrefix ==
    ASSUME NEW d \in Content, NEW o \in 0..Len(d), NEW b \in Content, NEW c \in Content
    PROVE  Prefixed(Prefixed(d, o, b), o + Len(b), c) = Prefixed(d, o, b \o c)
<1> DEFINE p == Prefixed(d, o, b)
           l == Prefixed(p, o + Len(b), c)
           r == Prefixed(d, o, b \o c)
<1>1. Len(d) \in Nat /\ Len(b) \in Nat /\ Len(c) \in Nat
    BY ContentIsFunction
<1>2. /\ b \o c \in Content
      /\ Len(b \o c) = Len(b) + Len(c)
      /\ \A i \in 1..(Len(b) + Len(c)) :
            (b \o c)[i] = IF i <= Len(b) THEN b[i] ELSE c[i - Len(b)]
    BY ConcatIsContent
<1>3. /\ p \in Content
      /\ Len(p) = o + Len(b)
      /\ \A i \in 1..(o + Len(b)) : p[i] = IF i <= o THEN d[i] ELSE b[i - o]
    BY PrefixedProperties
<1>4. /\ r \in Content
      /\ Len(r) = o + Len(b) + Len(c)
      /\ \A i \in 1..(o + Len(b) + Len(c)) :
            r[i] = IF i <= o THEN d[i] ELSE (b \o c)[i - o]
    <2>1. /\ r \in Content
          /\ Len(r) = o + Len(b \o c)
          /\ \A i \in 1..(o + Len(b \o c)) :
                r[i] = IF i <= o THEN d[i] ELSE (b \o c)[i - o]
        BY <1>2, PrefixedProperties
    <2>2. o + Len(b \o c) = o + Len(b) + Len(c)
        BY <1>1, <1>2
    <2> QED
        BY <2>1, <2>2
<1>5. o + Len(b) \in 0..Len(p)
    BY <1>1, <1>3
<1>6. /\ l \in Content
      /\ Len(l) = o + Len(b) + Len(c)
      /\ \A i \in 1..(o + Len(b) + Len(c)) :
            l[i] = IF i <= o + Len(b) THEN p[i] ELSE c[i - (o + Len(b))]
    BY <1>3, <1>5, PrefixedProperties
<1> HIDE DEF p, l, r
<1>7. ASSUME NEW i \in 1..Len(l)
      PROVE  l[i] = r[i]
    <2>1. CASE i <= o
        BY <1>1, <1>3, <1>4, <1>6, <2>1
    <2>2. CASE i > o /\ i <= o + Len(b)
        <3>1. i - o \in 1..(Len(b) + Len(c)) /\ i - o <= Len(b)
            BY <1>1, <1>6, <2>2
        <3>2. r[i] = b[i - o]
            BY <1>1, <1>2, <1>4, <1>6, <2>2, <3>1
        <3>3. l[i] = b[i - o]
            BY <1>1, <1>3, <1>6, <2>2
        <3> QED
            BY <3>2, <3>3
    <2>3. CASE i > o + Len(b)
        <3>1. /\ i - o \in 1..(Len(b) + Len(c)) /\ ~(i - o <= Len(b))
              /\ (i - o) - Len(b) = i - (o + Len(b))
            BY <1>1, <1>6, <2>3
        <3>2. r[i] = (b \o c)[i - o]
            BY <1>1, <1>4, <1>6, <2>3
        <3>3. (b \o c)[i - o] = c[(i - o) - Len(b)]
            BY <1>2, <3>1
        <3>4. l[i] = c[i - (o + Len(b))]
            BY <1>1, <1>6, <2>3
        <3> QED
            BY <3>1, <3>2, <3>3, <3>4
    <2> QED
        BY <1>1, <1>6, <2>1, <2>2, <2>3
<1> QED
    BY <1>4, <1>6, <1>7, SameContent DEF l, r, p

(* What is written after a prefix follows it, also inside a longer file.     *)
LEMMA WrittenAfterPrefix ==
    ASSUME NEW d \in Content, NEW o \in 0..Len(d), NEW b \in Content
    PROVE  Prefixed(d, o, b) = Written(Prefixed(d, o, <<>>), o, b)
<1> DEFINE e == <<>>
<1>1. e \in Content /\ Len(e) = 0 /\ e \o b = b
    BY EmptyIsContent, ConcatEmptySeq DEF Content
<1>2. Len(d) \in Nat /\ o \in Nat
    BY ContentIsFunction
<1> HIDE DEF e
<1>3. Prefixed(d, o, e \o b) = Written(Prefixed(d, o, e), o + Len(e), b)
    BY <1>1, WrittenAtEnd
<1>4. o + Len(e) = o
    BY <1>1, <1>2
<1>5. Prefixed(d, o, b) = Written(Prefixed(d, o, e), o, b)
    BY <1>1, <1>3, <1>4
<1> QED
    BY <1>5 DEF e

(* A write that does not reach past the end.                                 *)
LEMMA WrittenInside ==
    ASSUME NEW d \in Content, NEW o \in Nat, NEW b \in Content,
           o + Len(b) <= Len(d)
    PROVE  /\ Written(d, o, b) \in Content
           /\ Len(Written(d, o, b)) = Len(d)
           /\ Prefixed(Written(d, o, b), o + Len(b), <<>>) = Prefixed(d, o, b)
<1> DEFINE w == Written(d, o, b)
           k == o + Len(b)
           l == Prefixed(w, k, <<>>)
           r == Prefixed(d, o, b)
<1>1. /\ Len(d) \in Nat /\ Len(b) \in Nat /\ k \in Nat /\ o \in 0..Len(d)
      /\ Larger(Len(d), k) = Len(d) /\ k <= Len(d)
    BY ContentIsFunction DEF Larger
<1>2. /\ w \in Content
      /\ Len(w) = Len(d)
      /\ \A i \in 1..Len(d) :
            w[i] = IF i > o /\ i <= k THEN b[i - o]
                   ELSE IF i <= Len(d) THEN d[i] ELSE Zero
  <2>1. /\ w \in Content
        /\ Len(w) = Larger(Len(d), k)
        /\ \A i \in 1..Larger(Len(d), k) :
              w[i] = IF i > o /\ i <= k THEN b[i - o]
                     ELSE IF i <= Len(d) THEN d[i] ELSE Zero
      BY <1>1, WrittenProperties
  <2> QED
      BY ONLY <1>1, <2>1
<1>3. /\ r \in Content
      /\ Len(r) = k
      /\ \A i \in 1..k : r[i] = IF i <= o THEN d[i] ELSE b[i - o]
    BY <1>1, PrefixedProperties
<1>4. k \in 0..Len(w)
    BY <1>1, <1>2
<1> HIDE DEF w, k, r
<1>5. /\ l \in Content
      /\ Len(l) = k
      /\ \A i \in 1..k : l[i] = w[i]
    BY <1>2, <1>4, EmptyPrefix
<1> HIDE DEF l
<1>6. ASSUME NEW i \in 1..Len(l)
      PROVE  l[i] = r[i]
    BY <1>1, <1>2, <1>3, <1>5
<1>7. l = r
    BY <1>3, <1>5, <1>6, SameContent
<1> QED
    BY <1>2, <1>7 DEF l, r, w, k
=============================================================================
