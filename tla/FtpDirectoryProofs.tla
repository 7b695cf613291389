------------------------- MODULE FtpDirectoryProofs -------------------------
(* Proofs about FtpDirectory and the paths of FtpPath: for paths of any      *)
(* length, directories of any entries and a list_buf of any size.            *)
EXTENDS FtpDirectory, SequenceTheorems, WellFoundedInduction, TLAPS

-----------------------------------------------------------------------------
(* Induction, as a fact about the set of what satisfies the property.        *)
LEMMA LeastNatural ==
    ASSUME NEW T, T \subseteq Nat, T # {}
    PROVE  \E x \in T : \A y \in T : x <= y
<1> DEFINE R == OpToRel(<, Nat)
<1>1. IsWellFoundedOn(R, Nat)
  BY NatLessThanWellFounded
<1>2. \A x, y \in Nat : x < y => <<x, y>> \in R
  BY DEF OpToRel
<1> HIDE DEF R
<1>3. PICK x \in T : \A y \in T : ~ (<<y, x>> \in R)
  BY <1>1, WFMin
<1>4. ASSUME NEW y \in T PROVE ~ (y < x)
  BY <1>2, <1>3, Zenon
<1>5. ASSUME NEW y \in T PROVE x <= y
  BY <1>4
<1> QED
  BY <1>5

LEMMA EveryNatural ==
    ASSUME NEW T, 0 \in T, \A k \in Nat : k \in T => k + 1 \in T
    PROVE  \A k \in Nat : k \in T
<1> SUFFICES ASSUME NEW k \in Nat, k \notin T PROVE FALSE
  OBVIOUS
<1> DEFINE Others == {n \in Nat : n \notin T}
<1>1. PICK n \in Others : \A y \in Others : n <= y
  <2>1. Others \subseteq Nat /\ Others # {}
    OBVIOUS
  <2> HIDE DEF Others
  <2> QED
    BY <2>1, LeastNatural
<1>2. n \in Nat /\ n # 0 /\ n \notin T
  OBVIOUS
<1>3. n - 1 \in Nat /\ (n - 1) + 1 = n
  BY <1>2
<1>4. n - 1 \in T
  BY <1>1, <1>3
<1> QED
  BY <1>2, <1>3, <1>4

LEMMA EverySequence ==
    ASSUME NEW S, NEW T, <<>> \in T,
           \A q \in Seq(S), e \in S : q \in T => Append(q, e) \in T
    PROVE  \A q \in Seq(S) : q \in T
<1> DEFINE L == {n \in Nat : \A q \in Seq(S) : Len(q) = n => q \in T}
<1>1. 0 \in L
  BY EmptySeq
<1>2. ASSUME NEW n \in Nat, n \in L PROVE n + 1 \in L
  <2> SUFFICES ASSUME NEW q \in Seq(S), Len(q) = n + 1 PROVE q \in T
    OBVIOUS
  <2>1. q # <<>>
    BY EmptySeq
  <2>2. PICK r \in Seq(S), e \in S : q = Append(r, e)
    BY <2>1, SequenceEmptyOrAppend
  <2>3. Len(r) \in Nat /\ Len(q) = Len(r) + 1
    BY <2>2, AppendProperties, LenProperties
  <2>4. r \in T
    BY <1>2, <2>3
  <2> QED
    BY <2>2, <2>4
<1>3. \A n \in Nat : n \in L
  <2> HIDE DEF L
  <2> QED
    BY <1>1, <1>2, EveryNatural
<1> SUFFICES ASSUME NEW q \in Seq(S) PROVE q \in T
  OBVIOUS
<1>4. Len(q) \in Nat
  BY LenProperties
<1> QED
  BY <1>3, <1>4

LEMMA MaxIsGreatest ==
    ASSUME NEW n \in Nat, NEW T, T \subseteq 0..n, T # {}
    PROVE  Max(T) \in T /\ \A y \in T : Max(T) >= y
<1> DEFINE D == {n - y : y \in T}
<1>1. D \subseteq Nat /\ D # {}
  <2>1. \A y \in T : n - y \in Nat
    OBVIOUS
  <2> QED
    BY <2>1
<1>2. PICK d \in D : \A y \in D : d <= y
  <2> HIDE DEF D
  <2> QED
    BY <1>1, LeastNatural
<1>3. PICK x \in T : d = n - x
  OBVIOUS
<1>4. ASSUME NEW y \in T PROVE x >= y
  <2>1. n - y \in D
    OBVIOUS
  <2>2. n - x <= n - y
    BY <1>2, <1>3, <2>1
  <2> QED
    BY <2>2
<1> QED
  BY <1>3, <1>4 DEF Max

(* The greatest of the first k, and the others.                              *)
LEMMA MaxOfFirst ==
    ASSUME NEW k \in Nat \ {0}
    PROVE  Max(1..k) = k /\ (1..k) \ {Max(1..k)} = 1..(k - 1) /\ 1..k # {}
<1>1. 1..k \subseteq 0..k /\ 1..k # {} /\ k \in 1..k
  OBVIOUS
<1> DEFINE m == Max(1..k)
<1>2. m \in 1..k /\ \A y \in 1..k : m >= y
  BY <1>1, MaxIsGreatest
<1> HIDE DEF m
<1>3. m = k
  BY <1>1, <1>2
<1> QED
  BY <1>1, <1>3 DEF m

-----------------------------------------------------------------------------
(* FoldLeft over a sequence q, with its step as a function F: f holds the    *)
(* result for each set of positions.                                         *)
IsFold(f, F, base, q) ==
    f = [s \in SUBSET (DOMAIN q) |->
            IF s = {} THEN base ELSE F[<<f[s \ {Max(s)}], q[Max(s)]>>]]

FoldsTo(f, F, base, q, k) ==
    \A s \in SUBSET (1..k) :
        f[s] = IF s = {} THEN base ELSE F[<<f[s \ {Max(s)}], q[Max(s)]>>]

LEMMA FoldExists ==
    ASSUME NEW R, NEW base \in R, NEW T, NEW q \in Seq(T), NEW F \in [R \X T -> R]
    PROVE  \E f \in [SUBSET (DOMAIN q) -> R] : IsFold(f, F, base, q)
<1> DEFINE Folds(k) == \E f \in [SUBSET (1..k) -> R] : FoldsTo(f, F, base, q, k)
           K == {k \in Nat : k <= Len(q) => Folds(k)}
<1>1. Len(q) \in Nat /\ DOMAIN q = 1..Len(q)
  BY LenProperties
<1>2. 0 \in K
  <2> DEFINE f == [s \in SUBSET (1..0) |-> base]
  <2>1. f \in [SUBSET (1..0) -> R] /\ FoldsTo(f, F, base, q, 0)
    BY DEF FoldsTo
  <2> QED
    BY <2>1
<1>3. ASSUME NEW k \in Nat, k \in K PROVE k + 1 \in K
  <2> SUFFICES ASSUME k + 1 <= Len(q) PROVE Folds(k + 1)
    <3> HIDE DEF Folds
    <3> QED
      OBVIOUS
  <2>1. PICK g \in [SUBSET (1..k) -> R] : FoldsTo(g, F, base, q, k)
    <3>1. Folds(k)
      <4>1. k <= Len(q)
        BY <1>1
      <4> HIDE DEF Folds
      <4> QED
        BY <1>3, <4>1
    <3> QED
      BY <3>1
  <2>2. k + 1 \in 1..Len(q) /\ q[k + 1] \in T
    BY <1>1, ElementOfSeq
  <2> DEFINE f == [s \in SUBSET (1..(k + 1)) |->
                     IF k + 1 \in s THEN F[<<g[s \ {k + 1}], q[k + 1]>>] ELSE g[s]]
  <2>3. ASSUME NEW s \in SUBSET (1..(k + 1))
        PROVE  s \ {k + 1} \in SUBSET (1..k)
    OBVIOUS
  <2>4. ASSUME NEW s \in SUBSET (1..(k + 1)), k + 1 \notin s
        PROVE  s \in SUBSET (1..k)
    BY <2>4, <2>3
  <2>5. f \in [SUBSET (1..(k + 1)) -> R]
    BY <2>2, <2>3, <2>4
  <2>6. ASSUME NEW s \in SUBSET (1..k) PROVE f[s] = g[s] /\ s \in SUBSET (1..(k + 1))
    OBVIOUS
  <2>7. ASSUME NEW s \in SUBSET (1..(k + 1)), s # {}
        PROVE  Max(s) \in s /\ \A y \in s : Max(s) >= y
    <3>1. s \subseteq 0..(k + 1) /\ k + 1 \in Nat
      OBVIOUS
    <3> QED
      BY <2>7, <3>1, MaxIsGreatest
  <2>8. ASSUME NEW s \in SUBSET (1..(k + 1))
        PROVE  f[s] = IF s = {} THEN base ELSE F[<<f[s \ {Max(s)}], q[Max(s)]>>]
    <3>1. CASE k + 1 \in s
      <4>1. Max(s) = k + 1
        <5> DEFINE m == Max(s)
        <5>1. m \in 1..(k + 1) /\ m >= k + 1
          BY <3>1, <2>7
        <5> HIDE DEF m
        <5>2. m = k + 1
          BY <5>1
        <5> QED
          BY <5>2 DEF m
      <4>2. f[s] = F[<<g[s \ {k + 1}], q[k + 1]>>]
        BY <3>1
      <4>3. f[s \ {k + 1}] = g[s \ {k + 1}]
        BY <2>3, <2>6
      <4> HIDE DEF f
      <4> QED
        BY <3>1, <4>1, <4>2, <4>3
    <3>2. CASE k + 1 \notin s
      <4>1. s \in SUBSET (1..k)
        BY <3>2, <2>4
      <4>2. s \ {Max(s)} \in SUBSET (1..k)
        BY <4>1
      <4>3. g[s] = IF s = {} THEN base ELSE F[<<g[s \ {Max(s)}], q[Max(s)]>>]
        BY <2>1, <4>1 DEF FoldsTo
      <4>4. f[s] = g[s] /\ f[s \ {Max(s)}] = g[s \ {Max(s)}]
        BY <2>6, <4>1, <4>2
      <4> HIDE DEF f
      <4> QED
        BY <4>3, <4>4
    <3> QED
      BY <3>1, <3>2
  <2> HIDE DEF f
  <2>9. FoldsTo(f, F, base, q, k + 1)
    BY <2>8 DEF FoldsTo
  <2> QED
    BY <2>5, <2>9
<1>4. Len(q) \in K
  <2> HIDE DEF K
  <2> QED
    BY <1>1, <1>2, <1>3, EveryNatural
<1>5. PICK f \in [SUBSET (1..Len(q)) -> R] : FoldsTo(f, F, base, q, Len(q))
  <2>1. Folds(Len(q))
    <3> HIDE DEF Folds
    <3> QED
      BY <1>1, <1>4
  <2> QED
    BY <2>1
<1>6. f = [s \in SUBSET (1..Len(q)) |->
            IF s = {} THEN base ELSE F[<<f[s \ {Max(s)}], q[Max(s)]>>]]
  BY <1>5 DEF FoldsTo
<1> QED
  BY <1>1, <1>6 DEF IsFold

(* A fold begins with base and takes one element after the other.            *)
LEMMA FoldSteps ==
    ASSUME NEW T, NEW q \in Seq(T), NEW f, NEW F, NEW base, IsFold(f, F, base, q)
    PROVE  /\ f[1..0] = base
           /\ \A k \in 1..Len(q) : f[1..k] = F[<<f[1..(k - 1)], q[k]>>]
<1>1. Len(q) \in Nat /\ DOMAIN q = 1..Len(q)
  BY LenProperties
<1>2. f = [s \in SUBSET (1..Len(q)) |->
            IF s = {} THEN base ELSE F[<<f[s \ {Max(s)}], q[Max(s)]>>]]
  BY <1>1 DEF IsFold
<1>3. 1..0 = {} /\ 1..0 \in SUBSET (1..Len(q))
  BY <1>1
<1>4. ASSUME NEW k \in 1..Len(q) PROVE f[1..k] = F[<<f[1..(k - 1)], q[k]>>]
  <2>1. k \in Nat \ {0} /\ 1..k \in SUBSET (1..Len(q))
    BY <1>1
  <2>2. Max(1..k) = k /\ (1..k) \ {Max(1..k)} = 1..(k - 1) /\ 1..k # {}
    BY <2>1, MaxOfFirst
  <2>3. f[1..k] = IF 1..k = {} THEN base
                  ELSE F[<<f[(1..k) \ {Max(1..k)}], q[Max(1..k)]>>]
    BY <1>2, <2>1, Zenon
  <2> QED
    BY <2>2, <2>3
<1>5. f[1..0] = base
  BY <1>2, <1>3, Zenon
<1> QED
  BY <1>4, <1>5

(* Two folds with one step agree on what their sequences share.              *)
LEMMA FoldsAgree ==
    ASSUME NEW T, NEW p \in Seq(T), NEW q \in Seq(T), NEW F, NEW base,
           NEW f, IsFold(f, F, base, p), NEW g, IsFold(g, F, base, q),
           Len(p) <= Len(q), \A i \in 1..Len(p) : p[i] = q[i]
    PROVE  f[1..Len(p)] = g[1..Len(p)]
<1> DEFINE K == {k \in Nat : k <= Len(p) => f[1..k] = g[1..k]}
<1>1. Len(p) \in Nat /\ Len(q) \in Nat
  BY LenProperties
<1>2. /\ f[1..0] = base /\ g[1..0] = base
      /\ \A k \in 1..Len(p) : f[1..k] = F[<<f[1..(k - 1)], p[k]>>]
      /\ \A k \in 1..Len(q) : g[1..k] = F[<<g[1..(k - 1)], q[k]>>]
  BY FoldSteps
<1>3. 0 \in K
  BY <1>2
<1>4. ASSUME NEW k \in Nat, k \in K PROVE k + 1 \in K
  <2> SUFFICES ASSUME k + 1 <= Len(p) PROVE f[1..(k + 1)] = g[1..(k + 1)]
    OBVIOUS
  <2>1. k + 1 \in 1..Len(p) /\ k + 1 \in 1..Len(q) /\ (k + 1) - 1 = k /\ k <= Len(p)
    BY <1>1
  <2>2. f[1..k] = g[1..k]
    BY <1>4, <2>1
  <2>3. p[k + 1] = q[k + 1]
    BY <2>1
  <2> QED
    BY <1>2, <2>1, <2>2, <2>3
<1> HIDE DEF K
<1>5. Len(p) \in K
  BY <1>1, <1>3, <1>4, EveryNatural
<1> QED
  BY <1>1, <1>5 DEF K

(* What a fold gives for a sequence of one element more.                     *)
Result(f, q)      == f[DOMAIN q]
Stepped(F, x, t)  == F[<<x, t>>]
Extended(r, q, t) == r = Append(q, t)

LEMMA FoldAppend ==
    ASSUME NEW T, NEW q, NEW t, NEW r, NEW F, NEW base, NEW f, NEW g,
           q \in Seq(T), t \in T, Extended(r, q, t),
           IsFold(f, F, base, q), IsFold(g, F, base, r)
    PROVE  Result(g, r) = Stepped(F, Result(f, q), t)
<1>0. r = Append(q, t)
  BY DEF Extended
<1>1. /\ r \in Seq(T) /\ Len(r) = Len(q) + 1
      /\ \A i \in 1..Len(q) : q[i] = r[i]
      /\ r[Len(q) + 1] = t
  BY <1>0, AppendProperties
<1>2. Len(q) \in Nat /\ DOMAIN q = 1..Len(q) /\ DOMAIN r = 1..(Len(q) + 1)
  BY <1>1, LenProperties
<1>3. f[1..Len(q)] = g[1..Len(q)]
  <2>1. Len(q) <= Len(r)
    BY <1>1, <1>2
  <2> QED
    BY ONLY <1>1, <2>1, q \in Seq(T), IsFold(f, F, base, q), IsFold(g, F, base, r), FoldsAgree
<1>4. Len(q) + 1 \in 1..Len(r) /\ (Len(q) + 1) - 1 = Len(q)
  BY <1>1, <1>2
<1>5. g[1..(Len(q) + 1)] = F[<<g[1..((Len(q) + 1) - 1)], r[Len(q) + 1]>>]
  <2>1. \A k \in 1..Len(r) : g[1..k] = F[<<g[1..(k - 1)], r[k]>>]
    BY ONLY <1>1, IsFold(g, F, base, r), FoldSteps
  <2> QED
    BY <1>4, <2>1
<1>6. g[DOMAIN r] = F[<<f[DOMAIN q], t>>]
  BY <1>1, <1>2, <1>3, <1>4, <1>5
<1> QED
  BY <1>6, Zenon DEF Result, Stepped

-----------------------------------------------------------------------------
(* The last of some positions.                                               *)
LEMMA LastPosition ==
    ASSUME NEW T, NEW q \in Seq(T), NEW s \in SUBSET (DOMAIN q), s # {}
    PROVE  Max(s) \in DOMAIN q /\ q[Max(s)] \in T /\ s \ {Max(s)} \in SUBSET (DOMAIN q)
<1>1. Len(q) \in Nat /\ DOMAIN q = 1..Len(q) /\ \A i \in 1..Len(q) : q[i] \in T
  BY LenProperties, ElementOfSeq
<1>2. s \subseteq 0..Len(q)
  BY <1>1
<1>3. Max(s) \in s
  BY <1>1, <1>2, MaxIsGreatest
<1> QED
  BY <1>1, <1>3

(* The words of a text, one character after the other.                       *)
Called == Seq(Words \cup {".."})
NamesStep == [x \in Called \X Tokens |->
                 IF x[2] \in {"/", "\\"} THEN x[1] ELSE Append(x[1], x[2])]

LEMMA NamesStepType == NamesStep \in [Called \X Tokens -> Called]
<1> SUFFICES ASSUME NEW x \in Called \X Tokens, x[2] \notin {"/", "\\"}
             PROVE  Append(x[1], x[2]) \in Called
  BY DEF NamesStep
<1>1. x[1] \in Called /\ x[2] \in Words \cup {".."}
  BY DEF Tokens
<1> QED
  BY <1>1, AppendProperties DEF Called

LEMMA NamesFold ==
    ASSUME NEW p \in Seq(Tokens)
    PROVE  \E g \in [SUBSET (DOMAIN p) -> Called] :
                IsFold(g, NamesStep, <<>>, p) /\ Names(p) = g[DOMAIN p]
<1>0. <<>> \in Called
  BY EmptySeq DEF Called
<1>1. PICK g \in [SUBSET (DOMAIN p) -> Called] : IsFold(g, NamesStep, <<>>, p)
  BY <1>0, NamesStepType, FoldExists
<1>2. Len(p) \in Nat /\ DOMAIN p = 1..Len(p)
  BY LenProperties
<1>3. ASSUME NEW s \in SUBSET (DOMAIN p), s # {}
      PROVE  Max(s) \in DOMAIN p /\ p[Max(s)] \in Tokens /\ s \ {Max(s)} \in SUBSET (DOMAIN p)
  BY <1>3, LastPosition
<1> DEFINE Inline(h) ==
        h = [s \in SUBSET (DOMAIN p) |->
                IF s = {} THEN <<>>
                ELSE IF p[Max(s)] \in {"/", "\\"} THEN h[s \ {Max(s)}] ELSE Append(h[s \ {Max(s)}], p[Max(s)])]
           c == CHOOSE h : Inline(h)
<1>4. Inline(g)
  <2>1. ASSUME NEW s \in SUBSET (DOMAIN p), s # {}
        PROVE  NamesStep[<<g[s \ {Max(s)}], p[Max(s)]>>]
                = IF p[Max(s)] \in {"/", "\\"} THEN g[s \ {Max(s)}] ELSE Append(g[s \ {Max(s)}], p[Max(s)])
    <3> DEFINE a == g[s \ {Max(s)}]
               b == p[Max(s)]
    <3>1. a \in Called /\ b \in Tokens
      BY <1>3, <2>1
    <3>2. <<a, b>> \in Called \X Tokens /\ <<a, b>>[1] = a /\ <<a, b>>[2] = b
      BY <3>1
    <3> HIDE DEF a, b
    <3>3. NamesStep[<<a, b>>] = IF b \in {"/", "\\"} THEN a ELSE Append(a, b)
      BY <3>2, Zenon DEF NamesStep
    <3> QED
      BY <3>3, Zenon DEF a, b
  <2> QED
    BY <1>1, <2>1 DEF IsFold
<1>5. Inline(c)
  <2> HIDE DEF Inline
  <2> QED
    BY <1>4, Zenon
<1>6. Names(p) = c[DOMAIN p]
  BY Zenon DEF Names, FoldLeft, MapThenFoldSet
<1> HIDE DEF c
<1> DEFINE V == {c[s] : s \in SUBSET (DOMAIN p)} \cup {g[s] : s \in SUBSET (DOMAIN p)}
           G == [x \in V \X Tokens |->
                    IF x[2] \in {"/", "\\"} THEN x[1] ELSE Append(x[1], x[2])]
<1>7. ASSUME NEW h, Inline(h), \A s \in SUBSET (DOMAIN p) : h[s] \in V
      PROVE  IsFold(h, G, <<>>, p)
  <2>1. ASSUME NEW s \in SUBSET (DOMAIN p), s # {}
        PROVE  G[<<h[s \ {Max(s)}], p[Max(s)]>>]
                = IF p[Max(s)] \in {"/", "\\"} THEN h[s \ {Max(s)}] ELSE Append(h[s \ {Max(s)}], p[Max(s)])
    <3> DEFINE a == h[s \ {Max(s)}]
               b == p[Max(s)]
    <3>1. a \in V /\ b \in Tokens
      BY <1>3, <1>7, <2>1
    <3> HIDE DEF V
    <3>2. <<a, b>> \in V \X Tokens /\ <<a, b>>[1] = a /\ <<a, b>>[2] = b
      BY <3>1
    <3> HIDE DEF a, b
    <3>3. G[<<a, b>>] = IF b \in {"/", "\\"} THEN a ELSE Append(a, b)
      BY <3>2, Zenon
    <3> QED
      BY <3>3, Zenon DEF a, b
  <2> HIDE DEF G
  <2> QED
    BY <1>7, <2>1 DEF IsFold
<1>8. IsFold(c, G, <<>>, p) /\ IsFold(g, G, <<>>, p)
  <2>1. \A s \in SUBSET (DOMAIN p) : c[s] \in V /\ g[s] \in V
    OBVIOUS
  <2> HIDE DEF V, G, Inline
  <2> QED
    BY <1>4, <1>5, <1>7, <2>1
<1> HIDE DEF G
<1>9. c[DOMAIN p] = g[DOMAIN p]
  BY <1>2, <1>8, FoldsAgree
<1> QED
  BY <1>1, <1>6, <1>9

LEMMA NamesOfEmpty == Names(<<>>) = <<>>
<1>1. <<>> \in Seq(Tokens) /\ <<>> \in Seq(Tokens) /\ Len(<<>>) = 0
  BY EmptySeq
<1>2. DOMAIN <<>> = 1..0
  BY <1>1, LenProperties
<1>3. PICK g : IsFold(g, NamesStep, <<>>, <<>>) /\ Names(<<>>) = g[DOMAIN <<>>]
  BY <1>1, NamesFold
<1> DEFINE e == <<>>
<1>4. IsFold(g, NamesStep, e, e) /\ e \in Seq(Tokens)
  BY <1>1, <1>3
<1> HIDE DEF e
<1>5. g[1..0] = e
  BY ONLY <1>4, FoldSteps
<1> USE DEF e
<1> QED
  BY <1>2, <1>3, <1>5

LEMMA NamesType ==
    ASSUME NEW p \in Seq(Tokens)
    PROVE  Names(p) \in Called
<1>1. PICK g \in [SUBSET (DOMAIN p) -> Called] : Names(p) = g[DOMAIN p]
  BY NamesFold
<1> QED
  BY <1>1

LEMMA NamesOfAppend ==
    ASSUME NEW p \in Seq(Tokens), NEW t \in Tokens
    PROVE  Names(Append(p, t)) =
             IF t \in {"/", "\\"} THEN Names(p) ELSE Append(Names(p), t)
<1> DEFINE r == Append(p, t)
<1>1. r \in Seq(Tokens)
  BY AppendProperties
<1>2. PICK f : IsFold(f, NamesStep, <<>>, p) /\ Names(p) = f[DOMAIN p]
  BY NamesFold
<1>3. PICK g : IsFold(g, NamesStep, <<>>, r) /\ Names(r) = g[DOMAIN r]
  BY <1>1, NamesFold
<1>4. Extended(r, p, t) /\ p \in Seq(Tokens) /\ t \in Tokens
  BY DEF Extended
<1> DEFINE e == <<>>
<1>5. IsFold(f, NamesStep, e, p) /\ IsFold(g, NamesStep, e, r)
  BY <1>2, <1>3
<1> HIDE DEF r, e
<1>6. Result(g, r) = Stepped(NamesStep, Result(f, p), t)
  BY ONLY <1>5, <1>4, FoldAppend
<1>7. Names(r) = NamesStep[<<Names(p), t>>]
  BY <1>2, <1>3, <1>6 DEF Result, Stepped
<1>8. <<Names(p), t>> \in Called \X Tokens
  BY <1>4, NamesType
<1> QED
  BY <1>7, <1>8 DEF NamesStep, r

-----------------------------------------------------------------------------
(* A text without duplicate slashes.                                         *)
Clear  == Tokens \ {"\\"}
Cleared == Seq(Clear)
Slash(t) == IF t = "\\" THEN "/" ELSE t
Slashed(p) == [i \in DOMAIN p |-> IF p[i] = "\\" THEN "/" ELSE p[i]]
DuplicatesStep ==
    [x \in Cleared \X Clear |->
        IF x[2] = "/" /\ x[1] # <<>> /\ Last(x[1]) = "/" THEN x[1] ELSE Append(x[1], x[2])]

LEMMA DuplicatesStepType == DuplicatesStep \in [Cleared \X Clear -> Cleared]
<1> SUFFICES ASSUME NEW x \in Cleared \X Clear
             PROVE  Append(x[1], x[2]) \in Cleared
  BY DEF DuplicatesStep
<1> QED
  BY AppendProperties DEF Cleared

LEMMA SlashType == \A t \in Tokens : Slash(t) \in Clear
BY PathAssumption DEF Slash, Clear, Tokens

LEMMA SlashedType ==
    ASSUME NEW p \in Seq(Tokens)
    PROVE  Slashed(p) \in Seq(Clear) /\ DOMAIN Slashed(p) = DOMAIN p
<1>1. Len(p) \in Nat /\ DOMAIN p = 1..Len(p) /\ \A i \in 1..Len(p) : p[i] \in Tokens
  BY LenProperties, ElementOfSeq
<1>2. \A i \in 1..Len(p) : Slash(p[i]) \in Clear
  BY <1>1, SlashType
<1>3. Slashed(p) = [i \in 1..Len(p) |-> Slash(p[i])]
  BY <1>1 DEF Slashed, Slash
<1>4. Slashed(p) \in [1..Len(p) -> Clear]
  BY <1>2, <1>3
<1> QED
  BY <1>1, <1>4, SeqDef

LEMMA SlashedAppend ==
    ASSUME NEW p \in Seq(Tokens), NEW t \in Tokens
    PROVE  Slashed(Append(p, t)) = Append(Slashed(p), Slash(t))
<1> DEFINE r == Append(p, t)
           a == Slashed(r)
           b == Append(Slashed(p), Slash(t))
<1>1. /\ r \in Seq(Tokens) /\ Len(r) = Len(p) + 1 /\ r[Len(p) + 1] = t
      /\ \A i \in 1..Len(p) : r[i] = p[i]
  BY AppendProperties
<1>2. Slashed(p) \in Seq(Clear) /\ DOMAIN Slashed(p) = DOMAIN p /\ Slash(t) \in Clear
  BY SlashedType, SlashType
<1>3. Len(p) \in Nat /\ DOMAIN p = 1..Len(p) /\ Len(Slashed(p)) = Len(p)
  BY <1>2, LenProperties
<1>4. a \in Seq(Clear) /\ DOMAIN a = 1..(Len(p) + 1) /\ Len(a) = Len(p) + 1
  <2> HIDE DEF r
  <2>1. a \in Seq(Clear) /\ DOMAIN a = DOMAIN r
    BY <1>1, SlashedType
  <2> HIDE DEF a
  <2> QED
    BY <1>1, <1>3, <2>1, LenProperties
<1>5. /\ b \in Seq(Clear) /\ Len(b) = Len(p) + 1 /\ b[Len(p) + 1] = Slash(t)
      /\ \A i \in 1..Len(p) : b[i] = Slashed(p)[i]
  <2> DEFINE sl == Slashed(p)
             st == Slash(t)
  <2>1. sl \in Seq(Clear) /\ st \in Clear /\ Len(sl) = Len(p)
    BY <1>2, <1>3
  <2> HIDE DEF sl, st
  <2> QED
    BY <2>1, AppendProperties DEF sl, st
<1>6. ASSUME NEW i \in 1..(Len(p) + 1) PROVE a[i] = b[i]
  <2>1. a[i] = Slash(r[i])
    <3>1. i \in DOMAIN r
      BY <1>1, LenProperties
    <3> HIDE DEF r
    <3> QED
      BY <3>1 DEF Slashed, Slash
  <2>2. CASE i = Len(p) + 1
    BY <1>1, <1>5, <2>1, <2>2
  <2>3. CASE i \in 1..Len(p)
    <3>1. r[i] = p[i] /\ b[i] = Slashed(p)[i] /\ i \in DOMAIN p
      BY <1>1, <1>3, <1>5, <2>3
    <3>2. Slashed(p)[i] = Slash(p[i])
      BY <3>1 DEF Slashed, Slash
    <3> HIDE DEF a, b, r
    <3> QED
      BY <2>1, <3>1, <3>2
  <2> QED
    BY <1>3, <2>2, <2>3
<1> HIDE DEF a, b
<1>7. a = b
  BY <1>4, <1>5, <1>6, SeqEqual
<1> QED
  BY <1>7 DEF a, b

LEMMA DuplicatesFold ==
    ASSUME NEW p \in Seq(Tokens)
    PROVE  \E g \in [SUBSET (DOMAIN Slashed(p)) -> Cleared] :
                IsFold(g, DuplicatesStep, <<>>, Slashed(p)) /\ RemoveDuplicates(p) = g[DOMAIN Slashed(p)]
<1> DEFINE q == Slashed(p)
<1>a. q \in Seq(Clear)
  BY SlashedType
<1> HIDE DEF q
<1>0. <<>> \in Cleared
  BY EmptySeq DEF Cleared
<1>1. PICK g \in [SUBSET (DOMAIN q) -> Cleared] : IsFold(g, DuplicatesStep, <<>>, q)
  BY <1>a, <1>0, DuplicatesStepType, FoldExists
<1>2. Len(q) \in Nat /\ DOMAIN q = 1..Len(q)
  BY <1>a, LenProperties
<1>3. ASSUME NEW s \in SUBSET (DOMAIN q), s # {}
      PROVE  Max(s) \in DOMAIN q /\ q[Max(s)] \in Clear /\ s \ {Max(s)} \in SUBSET (DOMAIN q)
  BY <1>a, <1>3, LastPosition
<1> DEFINE Inline(h) ==
        h = [s \in SUBSET (DOMAIN q) |->
                IF s = {} THEN <<>>
                ELSE IF q[Max(s)] = "/" /\ h[s \ {Max(s)}] # <<>>
                           /\ Last(h[s \ {Max(s)}]) = "/"
                        THEN h[s \ {Max(s)}]
                        ELSE Append(h[s \ {Max(s)}], q[Max(s)])]
           c == CHOOSE h : Inline(h)
<1>4. Inline(g)
  <2>1. ASSUME NEW s \in SUBSET (DOMAIN q), s # {}
        PROVE  DuplicatesStep[<<g[s \ {Max(s)}], q[Max(s)]>>]
                = IF q[Max(s)] = "/" /\ g[s \ {Max(s)}] # <<>>
                        /\ Last(g[s \ {Max(s)}]) = "/"
                     THEN g[s \ {Max(s)}]
                     ELSE Append(g[s \ {Max(s)}], q[Max(s)])
    <3> DEFINE a == g[s \ {Max(s)}]
               b == q[Max(s)]
    <3>1. a \in Cleared /\ b \in Clear
      BY <1>3, <2>1
    <3>2. <<a, b>> \in Cleared \X Clear /\ <<a, b>>[1] = a /\ <<a, b>>[2] = b
      BY <3>1
    <3> HIDE DEF a, b
    <3>3. DuplicatesStep[<<a, b>>] = IF b = "/" /\ a # <<>> /\ Last(a) = "/" THEN a ELSE Append(a, b)
      BY <3>2, Zenon DEF DuplicatesStep
    <3> QED
      BY <3>3, Zenon DEF a, b
  <2> QED
    BY <1>1, <2>1 DEF IsFold
<1>5. Inline(c)
  <2> HIDE DEF Inline
  <2> QED
    BY <1>4, Zenon
<1>6. RemoveDuplicates(p) = c[DOMAIN q]
  BY Zenon DEF RemoveDuplicates, q, Slashed, FoldLeft, MapThenFoldSet
<1> HIDE DEF c
<1> DEFINE V == {c[s] : s \in SUBSET (DOMAIN q)} \cup {g[s] : s \in SUBSET (DOMAIN q)}
           G == [x \in V \X Clear |->
                    IF x[2] = "/" /\ x[1] # <<>> /\ Last(x[1]) = "/" THEN x[1] ELSE Append(x[1], x[2])]
<1>7. ASSUME NEW h, Inline(h), \A s \in SUBSET (DOMAIN q) : h[s] \in V
      PROVE  IsFold(h, G, <<>>, q)
  <2>1. ASSUME NEW s \in SUBSET (DOMAIN q), s # {}
        PROVE  G[<<h[s \ {Max(s)}], q[Max(s)]>>]
                = IF q[Max(s)] = "/" /\ h[s \ {Max(s)}] # <<>>
                        /\ Last(h[s \ {Max(s)}]) = "/"
                     THEN h[s \ {Max(s)}]
                     ELSE Append(h[s \ {Max(s)}], q[Max(s)])
    <3> DEFINE a == h[s \ {Max(s)}]
               b == q[Max(s)]
    <3>1. a \in V /\ b \in Clear
      BY <1>3, <1>7, <2>1
    <3> HIDE DEF V
    <3>2. <<a, b>> \in V \X Clear /\ <<a, b>>[1] = a /\ <<a, b>>[2] = b
      BY <3>1
    <3> HIDE DEF a, b
    <3>3. G[<<a, b>>] = IF b = "/" /\ a # <<>> /\ Last(a) = "/" THEN a ELSE Append(a, b)
      BY <3>2, Zenon
    <3> QED
      BY <3>3, Zenon DEF a, b
  <2> HIDE DEF G
  <2> QED
    BY <1>7, <2>1 DEF IsFold
<1>8. IsFold(c, G, <<>>, q) /\ IsFold(g, G, <<>>, q)
  <2>1. \A s \in SUBSET (DOMAIN q) : c[s] \in V /\ g[s] \in V
    OBVIOUS
  <2> HIDE DEF V, G, Inline
  <2> QED
    BY <1>4, <1>5, <1>7, <2>1
<1> HIDE DEF G
<1>9. c[DOMAIN q] = g[DOMAIN q]
  BY <1>a, <1>2, <1>8, FoldsAgree
<1> QED
  BY <1>1, <1>6, <1>9 DEF q

LEMMA DuplicatesOfEmpty == RemoveDuplicates(<<>>) = <<>>
<1>a. Slashed(<<>>) = <<>>
  <2>1. <<>> \in Seq(Tokens)
    BY EmptySeq
  <2>2. Slashed(<<>>) \in Seq(Clear) /\ DOMAIN Slashed(<<>>) = DOMAIN <<>> /\ Len(<<>>) = 0
    BY <2>1, SlashedType, EmptySeq
  <2>3. Len(Slashed(<<>>)) = 0
    BY <2>1, <2>2, LenProperties
  <2> QED
    BY <2>2, <2>3, EmptySeq
<1>1. <<>> \in Seq(Tokens) /\ <<>> \in Seq(Clear) /\ Len(<<>>) = 0
  BY EmptySeq
<1>2. DOMAIN <<>> = 1..0
  BY <1>1, LenProperties
<1>3. PICK g : IsFold(g, DuplicatesStep, <<>>, <<>>) /\ RemoveDuplicates(<<>>) = g[DOMAIN <<>>]
  BY <1>1, DuplicatesFold, <1>a
<1> DEFINE e == <<>>
<1>4. IsFold(g, DuplicatesStep, e, e) /\ e \in Seq(Clear)
  BY <1>1, <1>3
<1> HIDE DEF e
<1>5. g[1..0] = e
  BY ONLY <1>4, FoldSteps
<1> USE DEF e
<1> QED
  BY <1>2, <1>3, <1>5

LEMMA DuplicatesType ==
    ASSUME NEW p \in Seq(Tokens)
    PROVE  RemoveDuplicates(p) \in Cleared
<1>1. PICK g \in [SUBSET (DOMAIN Slashed(p)) -> Cleared] : RemoveDuplicates(p) = g[DOMAIN Slashed(p)]
  BY DuplicatesFold
<1> QED
  BY <1>1

LEMMA DuplicatesOfAppend ==
    ASSUME NEW p \in Seq(Tokens), NEW t \in Tokens
    PROVE  RemoveDuplicates(Append(p, t)) =
             IF Slash(t) = "/" /\ RemoveDuplicates(p) # <<>>
                /\ Last(RemoveDuplicates(p)) = "/"
             THEN RemoveDuplicates(p)
             ELSE Append(RemoveDuplicates(p), Slash(t))
<1> DEFINE r == Append(p, t)
<1>1. r \in Seq(Tokens)
  BY AppendProperties
<1>2. PICK f : IsFold(f, DuplicatesStep, <<>>, Slashed(p)) /\ RemoveDuplicates(p) = f[DOMAIN Slashed(p)]
  BY DuplicatesFold
<1>3. PICK g : IsFold(g, DuplicatesStep, <<>>, Slashed(r)) /\ RemoveDuplicates(r) = g[DOMAIN Slashed(r)]
  BY <1>1, DuplicatesFold
<1>4. Extended(Slashed(r), Slashed(p), Slash(t)) /\ Slashed(p) \in Seq(Clear) /\ Slash(t) \in Clear
  BY SlashedAppend, SlashedType, SlashType DEF Extended
<1> DEFINE e == <<>>
<1>5. IsFold(f, DuplicatesStep, e, Slashed(p)) /\ IsFold(g, DuplicatesStep, e, Slashed(r))
  BY <1>2, <1>3
<1> HIDE DEF r, e
<1>6. Result(g, Slashed(r)) = Stepped(DuplicatesStep, Result(f, Slashed(p)), Slash(t))
  BY ONLY <1>5, <1>4, FoldAppend
<1>7. RemoveDuplicates(r) = DuplicatesStep[<<RemoveDuplicates(p), Slash(t)>>]
  BY <1>2, <1>3, <1>6 DEF Result, Stepped
<1>8. <<RemoveDuplicates(p), Slash(t)>> \in Cleared \X Clear
  BY <1>4, DuplicatesType
<1> QED
  BY <1>7, <1>8 DEF DuplicatesStep, r

-----------------------------------------------------------------------------
(* The lines of entries, one entry after the other.                          *)
Listable == Entries \cup Range(Devices)
Sendable == {NUL} \cup {<<e.name, i>> : e \in Listable, i \in Nat}
Sent == Seq(Sendable)

(* What each entry's line is, a fold has as a function.                      *)
LinesStep(line) ==
    [x \in Sent \X Listable |-> IF IsListed(x[2]) THEN x[1] \o line[x[2]] ELSE x[1]]

PrintedLine == [e \in Listable |-> Printed(e)]
PrintedLines(es) == LinesBy(es, PrintedLine)

LEMMA PrintedProperties ==
    ASSUME NEW e \in Listable
    PROVE  /\ Printed(e) \in Sent /\ e.size \in Nat \ {0}
           /\ Len(Printed(e)) = IF e.size <= ListBuf THEN e.size ELSE ListBuf
<1>1. e.size \in Nat \ {0} /\ ListBuf \in Nat \ {0}
  BY EntriesAssumption DEF Listable, Range
<1> DEFINE m == Min({e.size, ListBuf})
<1>2. m = IF e.size <= ListBuf THEN e.size ELSE ListBuf
  <2> DEFINE a == e.size
  <2>1. a \in Nat /\ ListBuf \in Nat
    BY <1>1
  <2> HIDE DEF a
  <2>2. Min({a, ListBuf}) = IF a <= ListBuf THEN a ELSE ListBuf
    BY <2>1 DEF Min
  <2> QED
    BY <2>2 DEF a
<1> HIDE DEF m
<1>3. m \in Nat
  BY <1>1, <1>2
<1>4. Printed(e) = [i \in 1..m |-> IF i = ListBuf THEN NUL ELSE <<e.name, i>>]
  BY DEF Printed, m
<1>5. \A i \in 1..m : (IF i = ListBuf THEN NUL ELSE <<e.name, i>>) \in Sendable
  BY <1>3 DEF Sendable
<1>6. Printed(e) \in [1..m -> Sendable]
  BY <1>4, <1>5
<1>7. Printed(e) \in Sent
  BY <1>3, <1>6, SeqDef DEF Sent
<1>8. Len(Printed(e)) = m
  <2>1. DOMAIN Printed(e) = 1..Len(Printed(e)) /\ Len(Printed(e)) \in Nat
    BY <1>7, LenProperties DEF Sent
  <2>2. DOMAIN Printed(e) = 1..m
    BY <1>6
  <2> DEFINE n == Len(Printed(e))
  <2>3. n \in Nat /\ 1..n = 1..m
    BY <2>1, <2>2
  <2> HIDE DEF n
  <2>4. n = m
    BY ONLY <1>3, <2>3
  <2> QED
    BY <2>4 DEF n
<1> QED
  BY <1>1, <1>2, <1>7, <1>8

LEMMA LinesStepType ==
    ASSUME NEW line \in [Listable -> Sent]
    PROVE  LinesStep(line) \in [Sent \X Listable -> Sent]
<1> SUFFICES ASSUME NEW x \in Sent \X Listable
             PROVE  x[1] \o line[x[2]] \in Sent
  BY DEF LinesStep
<1>1. x[1] \in Sent /\ line[x[2]] \in Sent
  OBVIOUS
<1> QED
  BY <1>1, ConcatProperties DEF Sent

LEMMA LinesFold ==
    ASSUME NEW line \in [Listable -> Sent], NEW p \in Seq(Listable)
    PROVE  \E g \in [SUBSET (DOMAIN p) -> Sent] :
                IsFold(g, LinesStep(line), <<>>, p) /\ LinesBy(p, line) = g[DOMAIN p]
<1>0. <<>> \in Sent
  BY EmptySeq DEF Sent
<1>1. PICK g \in [SUBSET (DOMAIN p) -> Sent] : IsFold(g, LinesStep(line), <<>>, p)
  BY <1>0, LinesStepType, FoldExists
<1>2. Len(p) \in Nat /\ DOMAIN p = 1..Len(p)
  BY LenProperties
<1>3. ASSUME NEW s \in SUBSET (DOMAIN p), s # {}
      PROVE  Max(s) \in DOMAIN p /\ p[Max(s)] \in Listable /\ s \ {Max(s)} \in SUBSET (DOMAIN p)
  BY <1>3, LastPosition
<1> DEFINE Inline(h) ==
        h = [s \in SUBSET (DOMAIN p) |->
                IF s = {} THEN <<>>
                ELSE IF IsListed(p[Max(s)]) THEN h[s \ {Max(s)}] \o line[p[Max(s)]] ELSE h[s \ {Max(s)}]]
           c == CHOOSE h : Inline(h)
<1>4. Inline(g)
  <2>1. ASSUME NEW s \in SUBSET (DOMAIN p), s # {}
        PROVE  LinesStep(line)[<<g[s \ {Max(s)}], p[Max(s)]>>]
                = IF IsListed(p[Max(s)]) THEN g[s \ {Max(s)}] \o line[p[Max(s)]] ELSE g[s \ {Max(s)}]
    <3> DEFINE a == g[s \ {Max(s)}]
               b == p[Max(s)]
    <3>1. a \in Sent /\ b \in Listable
      BY <1>3, <2>1
    <3>2. <<a, b>> \in Sent \X Listable /\ <<a, b>>[1] = a /\ <<a, b>>[2] = b
      BY <3>1
    <3> HIDE DEF a, b
    <3>3. LinesStep(line)[<<a, b>>] = IF IsListed(b) THEN a \o line[b] ELSE a
      BY <3>2, Zenon DEF LinesStep
    <3> QED
      BY <3>3, Zenon DEF a, b
  <2> QED
    BY <1>1, <2>1 DEF IsFold
<1>5. Inline(c)
  <2> HIDE DEF Inline
  <2> QED
    BY <1>4, Zenon
<1>6. LinesBy(p, line) = c[DOMAIN p]
  BY Zenon DEF LinesBy, FoldLeft, MapThenFoldSet
<1> HIDE DEF c
<1> DEFINE V == {c[s] : s \in SUBSET (DOMAIN p)} \cup {g[s] : s \in SUBSET (DOMAIN p)}
           G == [x \in V \X Listable |->
                    IF IsListed(x[2]) THEN x[1] \o line[x[2]] ELSE x[1]]
<1>7. ASSUME NEW h, Inline(h), \A s \in SUBSET (DOMAIN p) : h[s] \in V
      PROVE  IsFold(h, G, <<>>, p)
  <2>1. ASSUME NEW s \in SUBSET (DOMAIN p), s # {}
        PROVE  G[<<h[s \ {Max(s)}], p[Max(s)]>>]
                = IF IsListed(p[Max(s)]) THEN h[s \ {Max(s)}] \o line[p[Max(s)]] ELSE h[s \ {Max(s)}]
    <3> DEFINE a == h[s \ {Max(s)}]
               b == p[Max(s)]
    <3>1. a \in V /\ b \in Listable
      BY <1>3, <1>7, <2>1
    <3> HIDE DEF V
    <3>2. <<a, b>> \in V \X Listable /\ <<a, b>>[1] = a /\ <<a, b>>[2] = b
      BY <3>1
    <3> HIDE DEF a, b
    <3>3. G[<<a, b>>] = IF IsListed(b) THEN a \o line[b] ELSE a
      BY <3>2, Zenon
    <3> QED
      BY <3>3, Zenon DEF a, b
  <2> HIDE DEF G
  <2> QED
    BY <1>7, <2>1 DEF IsFold
<1>8. IsFold(c, G, <<>>, p) /\ IsFold(g, G, <<>>, p)
  <2>1. \A s \in SUBSET (DOMAIN p) : c[s] \in V /\ g[s] \in V
    OBVIOUS
  <2> HIDE DEF V, G, Inline
  <2> QED
    BY <1>4, <1>5, <1>7, <2>1
<1> HIDE DEF G
<1>9. c[DOMAIN p] = g[DOMAIN p]
  BY <1>2, <1>8, FoldsAgree
<1> QED
  BY <1>1, <1>6, <1>9

LEMMA LinesByEmpty ==
    ASSUME NEW line \in [Listable -> Sent]
    PROVE  LinesBy(<<>>, line) = <<>>
<1>1. <<>> \in Seq(Listable) /\ <<>> \in Seq(Listable) /\ Len(<<>>) = 0
  BY EmptySeq
<1>2. DOMAIN <<>> = 1..0
  BY <1>1, LenProperties
<1>3. PICK g : IsFold(g, LinesStep(line), <<>>, <<>>) /\ LinesBy(<<>>, line) = g[DOMAIN <<>>]
  BY <1>1, LinesFold
<1> DEFINE e == <<>>
<1>4. IsFold(g, LinesStep(line), e, e) /\ e \in Seq(Listable)
  BY <1>1, <1>3
<1> HIDE DEF e
<1>5. g[1..0] = e
  BY ONLY <1>4, FoldSteps
<1> USE DEF e
<1> QED
  BY <1>2, <1>3, <1>5

LEMMA LinesByType ==
    ASSUME NEW line \in [Listable -> Sent], NEW p \in Seq(Listable)
    PROVE  LinesBy(p, line) \in Sent
<1>1. PICK g \in [SUBSET (DOMAIN p) -> Sent] : LinesBy(p, line) = g[DOMAIN p]
  BY LinesFold
<1> QED
  BY <1>1

LEMMA LinesByAppend ==
    ASSUME NEW line \in [Listable -> Sent], NEW p \in Seq(Listable), NEW t \in Listable
    PROVE  LinesBy(Append(p, t), line) =
             IF IsListed(t) THEN LinesBy(p, line) \o line[t] ELSE LinesBy(p, line)
<1> DEFINE r == Append(p, t)
<1>1. r \in Seq(Listable)
  BY AppendProperties
<1>2. PICK f : IsFold(f, LinesStep(line), <<>>, p) /\ LinesBy(p, line) = f[DOMAIN p]
  BY LinesFold
<1>3. PICK g : IsFold(g, LinesStep(line), <<>>, r) /\ LinesBy(r, line) = g[DOMAIN r]
  BY <1>1, LinesFold
<1>4. Extended(r, p, t) /\ p \in Seq(Listable) /\ t \in Listable
  BY DEF Extended
<1> DEFINE e == <<>>
<1>5. IsFold(f, LinesStep(line), e, p) /\ IsFold(g, LinesStep(line), e, r)
  BY <1>2, <1>3
<1> HIDE DEF r, e
<1>6. Result(g, r) = Stepped(LinesStep(line), Result(f, p), t)
  BY ONLY <1>5, <1>4, FoldAppend
<1>7. LinesBy(r, line) = LinesStep(line)[<<LinesBy(p, line), t>>]
  BY <1>2, <1>3, <1>6 DEF Result, Stepped
<1>8. <<LinesBy(p, line), t>> \in Sent \X Listable
  BY <1>4, LinesByType
<1> QED
  BY <1>7, <1>8 DEF LinesStep, r

(* The lines as list_buf has them.                                           *)
LEMMA PrintedLineType == PrintedLine \in [Listable -> Sent]
BY PrintedProperties DEF PrintedLine

LEMMA LinesOfEmpty == PrintedLines(<<>>) = <<>>
BY PrintedLineType, LinesByEmpty DEF PrintedLines

LEMMA LinesType ==
    ASSUME NEW p \in Seq(Listable)
    PROVE  PrintedLines(p) \in Sent
BY PrintedLineType, LinesByType DEF PrintedLines

LEMMA LinesOfAppend ==
    ASSUME NEW p \in Seq(Listable), NEW t \in Listable
    PROVE  PrintedLines(Append(p, t)) =
             IF IsListed(t) THEN PrintedLines(p) \o Printed(t) ELSE PrintedLines(p)
<1>1. PrintedLine[t] = Printed(t)
  BY DEF PrintedLine
<1> QED
  BY <1>1, PrintedLineType, LinesByAppend DEF PrintedLines

-----------------------------------------------------------------------------
(* Sequences of whatever elements.                                           *)
LEMMA FrontProperties ==
    ASSUME NEW S, NEW r \in Seq(S), r # <<>>
    PROVE  /\ Len(r) \in Nat \ {0} /\ Last(r) \in S /\ Head(r) = r[1]
           /\ Front(r) \in Seq(S) /\ Len(Front(r)) = Len(r) - 1
           /\ \A i \in 1..(Len(r) - 1) : Front(r)[i] = r[i]
           /\ r = Append(Front(r), Last(r))
<1>1. Len(r) \in Nat \ {0} /\ \A i \in 1..Len(r) : r[i] \in S
  BY EmptySeq, ElementOfSeq
<1>2. Last(r) \in S
  BY <1>1 DEF Last
<1>3. PICK q \in Seq(S), e \in S : r = Append(q, e)
  BY SequenceEmptyOrAppend
<1>4. /\ Len(r) = Len(q) + 1 /\ r[Len(q) + 1] = e
      /\ \A i \in 1..Len(q) : r[i] = q[i]
  BY <1>3, AppendProperties
<1>5. Len(q) \in Nat
  BY LenProperties
<1>6. Last(r) = e
  BY <1>4 DEF Last
<1>7. /\ Front(r) \in Seq(S) /\ Len(Front(r)) = Len(r) - 1
      /\ \A i \in 1..(Len(r) - 1) : Front(r)[i] = r[i]
  <2> DEFINE n == Len(r) - 1
  <2>1. n \in Int /\ 1 \in Int /\ (\A i \in 1..n : r[i] \in S) /\ n - 1 + 1 = n
    BY <1>1
  <2> HIDE DEF n
  <2> DEFINE u == SubSeq(r, 1, n)
  <2>2. /\ u \in Seq(S)
        /\ Len(u) = IF 1 <= n THEN n - 1 + 1 ELSE 0
        /\ \A i \in 1..(n - 1 + 1) : u[i] = r[1 + i - 1]
    BY <2>1, SubSeqProperties
  <2>3. Len(u) = n /\ \A i \in 1..n : u[i] = r[i]
    <3> HIDE DEF u
    <3>1. n >= 0
      BY <1>1 DEF n
    <3> QED
      BY <2>1, <2>2, <3>1
  <2> QED
    BY <2>2, <2>3 DEF Front, n
<1>8. Front(r) = q
  <2> DEFINE u == Front(r)
  <2>1. u \in Seq(S) /\ Len(u) = Len(q) /\ \A i \in 1..Len(u) : u[i] = q[i]
    BY <1>4, <1>5, <1>7
  <2> HIDE DEF u
  <2>2. u = q
    BY <2>1, SeqEqual
  <2> QED
    BY <2>2 DEF u
<1>9. Head(r) = r[1]
  BY <1>1
<1> QED
  BY <1>1, <1>2, <1>3, <1>6, <1>7, <1>8, <1>9

LEMMA JoinsAssociate ==
    ASSUME NEW S, NEW x \in Seq(S), NEW y \in Seq(S), NEW z \in Seq(S)
    PROVE  (x \o y) \o z = x \o (y \o z)
BY ConcatAssociative

LEMMA SentJoins ==
    \A x, y, z \in Seq(Sendable) : (x \o y) \o z = x \o (y \o z)
BY JoinsAssociate

LEMMA AppendOfConcat ==
    ASSUME NEW S, NEW a \in Seq(S), NEW b \in Seq(S), NEW e \in S
    PROVE  a \o Append(b, e) = Append(a \o b, e)
<1>1. /\ Append(b, e) = b \o <<e>> /\ a \o b \in Seq(S) /\ <<e>> \in Seq(S)
  BY AppendIsConcat, ConcatProperties
<1>2. Append(a \o b, e) = (a \o b) \o <<e>>
  BY <1>1, AppendIsConcat
<1>3. (a \o b) \o <<e>> = a \o (b \o <<e>>)
  BY <1>1, JoinsAssociate
<1> QED
  BY <1>1, <1>2, <1>3

-----------------------------------------------------------------------------
(* What names a text, and another that begins where the first ends, have.    *)
LEMMA NamesOfConcat ==
    ASSUME NEW a \in Seq(Tokens), NEW b \in Seq(Tokens)
    PROVE  Names(a \o b) = Names(a) \o Names(b)
<1> DEFINE T == {q \in Seq(Tokens) : Names(a \o q) = Names(a) \o Names(q)}
<1>1. <<>> \in T
  <2>1. <<>> \in Seq(Tokens) /\ a \o <<>> = a
    BY EmptySeq, ConcatEmptySeq
  <2>2. Names(a) \o <<>> = Names(a)
    BY NamesType, ConcatEmptySeq DEF Called
  <2> QED
    BY <2>1, <2>2, NamesOfEmpty
<1>2. ASSUME NEW q \in Seq(Tokens), NEW t \in Tokens, q \in T
      PROVE  Append(q, t) \in T
  <2>1. Append(q, t) \in Seq(Tokens) /\ a \o q \in Seq(Tokens)
    BY AppendProperties, ConcatProperties
  <2>2. a \o Append(q, t) = Append(a \o q, t)
    BY AppendOfConcat
  <2>3. Names(a \o q) = Names(a) \o Names(q)
    BY <1>2
  <2>4. CASE t \in {"/", "\\"}
    BY <2>1, <2>2, <2>3, <2>4, NamesOfAppend
  <2>5. CASE t \notin {"/", "\\"}
    <3>1. /\ Names(Append(a \o q, t)) = Append(Names(a \o q), t)
          /\ Names(Append(q, t)) = Append(Names(q), t)
      BY <2>1, <2>5, NamesOfAppend
    <3>2. Names(a) \in Called /\ Names(q) \in Called /\ t \in Words \cup {".."}
      BY <2>5, NamesType DEF Tokens
    <3>3. Names(a) \o Append(Names(q), t) = Append(Names(a) \o Names(q), t)
      BY <3>2, AppendOfConcat DEF Called
    <3> QED
      BY <2>1, <2>2, <2>3, <3>1, <3>3
  <2> QED
    BY <2>4, <2>5
<1> HIDE DEF T
<1>3. b \in T
  BY <1>1, <1>2, EverySequence
<1> QED
  BY <1>3 DEF T

LEMMA NamesNotEmpty ==
    ASSUME NEW r \in Seq(Tokens), r # <<>>, r[1] \notin {"/", "\\"}
    PROVE  Names(r) # <<>>
<1> DEFINE T == {q \in Seq(Tokens) :
                    q # <<>> /\ q[1] \notin {"/", "\\"} => Names(q) # <<>>}
<1>1. <<>> \in T
  BY EmptySeq
<1>2. ASSUME NEW q \in Seq(Tokens), NEW t \in Tokens, q \in T
      PROVE  Append(q, t) \in T
  <2>1. /\ Append(q, t) \in Seq(Tokens) /\ Append(q, t)[Len(q) + 1] = t
        /\ \A i \in 1..Len(q) : Append(q, t)[i] = q[i]
        /\ Names(q) \in Called
        /\ Names(Append(q, t)) = IF t \in {"/", "\\"} THEN Names(q) ELSE Append(Names(q), t)
    BY AppendProperties, NamesType, NamesOfAppend
  <2>2. CASE t \notin {"/", "\\"}
    <3>1. t \in Words \cup {".."}
      BY <2>2 DEF Tokens
    <3>2. Append(Names(q), t) # <<>>
      BY <2>1, <3>1, AppendProperties DEF Called
    <3> QED
      BY <2>1, <2>2, <3>2
  <2>3. CASE t \in {"/", "\\"}
    <3>1. CASE q = <<>>
      <4>1. Len(q) + 1 = 1
        BY <3>1, EmptySeq
      <4> QED
        BY <2>1, <2>3, <4>1
    <3>2. CASE q # <<>>
      <4>1. 1 \in 1..Len(q)
        BY <3>2, EmptySeq
      <4> QED
        BY <1>2, <2>1, <2>3, <3>2, <4>1
    <3> QED
      BY <3>1, <3>2
  <2> QED
    BY <2>2, <2>3
<1> HIDE DEF T
<1>3. r \in T
  BY <1>1, <1>2, EverySequence
<1> QED
  BY <1>3 DEF T

-----------------------------------------------------------------------------
(* A text whose slashes are single, and one without a slash at its end.      *)
Alternates(r) == \A i \in 1..(Len(r) - 1) : r[i] = "/" <=> r[i + 1] # "/"
Bare(r)     == r \in Cleared /\ r # <<>> /\ Alternates(r) /\ (Len(r) > 1 => Last(r) # "/")
Absolute(r) == Bare(r) /\ r[1] = "/"
Separated(p) == \A i \in 1..(Len(p) - 1) : p[i] \in {"/", "\\"} \/ p[i + 1] \in {"/", "\\"}

LEMMA ClearedIsTokens == \A r \in Cleared : r \in Seq(Tokens)
<1>1. Clear \subseteq Tokens
  BY DEF Clear
<1> QED
  BY <1>1, SeqMonotonic DEF Cleared

LEMMA AlternatesAppend ==
    ASSUME NEW r \in Cleared, NEW s \in Clear, Alternates(r),
           r # <<>> => (Last(r) = "/" <=> s # "/")
    PROVE  Alternates(Append(r, s))
<1>1. /\ Len(Append(r, s)) = Len(r) + 1 /\ Append(r, s)[Len(r) + 1] = s
      /\ \A i \in 1..Len(r) : Append(r, s)[i] = r[i]
      /\ Len(r) \in Nat /\ (r # <<>> => Len(r) \in Nat \ {0})
  BY AppendProperties, LenProperties, EmptySeq DEF Cleared
<1> SUFFICES ASSUME NEW i \in 1..Len(r)
             PROVE  Append(r, s)[i] = "/" <=> Append(r, s)[i + 1] # "/"
  BY <1>1 DEF Alternates
<1>2. CASE i < Len(r)
  <2>1. i \in 1..(Len(r) - 1) /\ i + 1 \in 1..Len(r)
    BY <1>1, <1>2
  <2> QED
    BY <1>1, <2>1 DEF Alternates
<1>3. CASE i = Len(r)
  <2>1. r # <<>>
    BY <1>1, EmptySeq
  <2> QED
    BY <1>1, <1>3, <2>1 DEF Last
<1> QED
  BY <1>1, <1>2, <1>3

(* What remove_duplicates keeps of a text.                                   *)
Removed(q) ==
    /\ RemoveDuplicates(q) \in Cleared /\ Alternates(RemoveDuplicates(q))
    /\ Names(RemoveDuplicates(q)) = Names(q)
    /\ q = <<>> => RemoveDuplicates(q) = <<>>
    /\ q # <<>> =>
        /\ RemoveDuplicates(q) # <<>>
        /\ RemoveDuplicates(q)[1] = "/" <=> q[1] \in {"/", "\\"}
        /\ Last(RemoveDuplicates(q)) = "/" <=> Last(q) \in {"/", "\\"}

LEMMA DuplicatesRemoved ==
    ASSUME NEW p \in Seq(Tokens), Separated(p)
    PROVE  Removed(p)
<1> DEFINE T == {q \in Seq(Tokens) : Separated(q) => Removed(q)}
<1>1. <<>> \in T
  <2>1. <<>> \in Seq(Tokens) /\ <<>> \in Cleared /\ Len(<<>>) = 0
    BY EmptySeq DEF Cleared
  <2>2. Alternates(<<>>)
    BY <2>1 DEF Alternates
  <2> QED
    BY <2>1, <2>2, DuplicatesOfEmpty DEF Removed
<1>2. ASSUME NEW q \in Seq(Tokens), NEW t \in Tokens, q \in T
      PROVE  Append(q, t) \in T
  <2> DEFINE u == Append(q, t)
             s == Slash(t)
             r == RemoveDuplicates(q)
             v == RemoveDuplicates(u)
  <2>1. /\ u \in Seq(Tokens) /\ u # <<>> /\ Len(u) = Len(q) + 1 /\ u[Len(q) + 1] = t
        /\ \A i \in 1..Len(q) : u[i] = q[i]
    BY AppendProperties
  <2>2. Len(q) \in Nat /\ (q # <<>> => Len(q) \in Nat \ {0}) /\ (q = <<>> => Len(q) = 0)
    BY EmptySeq, LenProperties
  <2>3. s \in Clear /\ (s = "/" <=> t \in {"/", "\\"}) /\ (s # "/" => s = t)
        /\ (s \in {"/", "\\"} <=> s = "/")
    BY SlashType DEF Slash, Clear
  <2>4. v = IF s = "/" /\ r # <<>> /\ Last(r) = "/" THEN r ELSE Append(r, s)
    BY DuplicatesOfAppend
  <2>5. Names(u) = IF s = "/" THEN Names(q) ELSE Append(Names(q), s)
    BY <2>3, NamesOfAppend
  <2>6. Last(u) = t /\ (q # <<>> => u[1] = q[1]) /\ (q = <<>> => u[1] = t)
    BY <2>1, <2>2 DEF Last
  <2> HIDE DEF u, s, r, v
  <2> SUFFICES ASSUME Separated(u) PROVE Removed(u)
    BY <2>1 DEF u
  <2>7. Separated(q) /\ (q # <<>> => Last(q) \in {"/", "\\"} \/ s = "/")
    <3>1. ASSUME NEW i \in 1..(Len(q) - 1)
          PROVE  q[i] \in {"/", "\\"} \/ q[i + 1] \in {"/", "\\"}
      <4>1. i \in 1..(Len(u) - 1) /\ i \in 1..Len(q) /\ i + 1 \in 1..Len(q)
        BY <2>1, <2>2
      <4> QED
        BY <2>1, <4>1 DEF Separated
    <3>2. ASSUME q # <<>> PROVE Last(q) \in {"/", "\\"} \/ s = "/"
      <4>1. Len(q) \in 1..(Len(u) - 1) /\ Len(q) \in 1..Len(q)
        BY <2>1, <2>2, <3>2
      <4> QED
        BY <2>1, <2>3, <4>1 DEF Separated, Last
    <3> QED
      BY <3>1, <3>2 DEF Separated
  <2>8. Removed(q)
    BY <1>2, <2>7
  <2>9. /\ r \in Cleared /\ Alternates(r) /\ Names(r) = Names(q)
        /\ q = <<>> => r = <<>>
        /\ q # <<>> => /\ r # <<>>
                       /\ r[1] = "/" <=> q[1] \in {"/", "\\"}
                       /\ Last(r) = "/" <=> Last(q) \in {"/", "\\"}
    BY <2>8 DEF Removed, r
  <2>10. CASE s = "/" /\ r # <<>> /\ Last(r) = "/"
    <3>1. q # <<>> /\ v = r
      BY <2>4, <2>9, <2>10
    <3>2. Names(v) = Names(u) /\ (Last(v) = "/" <=> Last(u) \in {"/", "\\"})
      BY <2>3, <2>5, <2>6, <2>9, <2>10, <3>1
    <3>3. v[1] = "/" <=> u[1] \in {"/", "\\"}
      BY <2>6, <2>9, <3>1
    <3> QED
      BY <2>1, <2>9, <2>10, <3>1, <3>2, <3>3 DEF Removed, v
  <2>11. CASE ~(s = "/" /\ r # <<>> /\ Last(r) = "/")
    <3>1. v = Append(r, s)
      BY <2>4, <2>11
    <3>2. /\ v \in Cleared /\ v # <<>> /\ Len(v) = Len(r) + 1 /\ v[Len(r) + 1] = s
          /\ \A i \in 1..Len(r) : v[i] = r[i]
      BY <2>3, <2>9, <3>1, AppendProperties DEF Cleared
    <3>3. Len(r) \in Nat /\ (r # <<>> => Len(r) \in Nat \ {0}) /\ (r = <<>> => Len(r) = 0)
      BY <2>9, LenProperties, EmptySeq DEF Cleared
    <3>4. Last(v) = s /\ (r # <<>> => v[1] = r[1]) /\ (r = <<>> => v[1] = s)
      BY <3>2, <3>3 DEF Last
    <3>5. r # <<>> => (Last(r) = "/" <=> s # "/")
      BY <2>7, <2>9, <2>11
    <3>6. Alternates(v)
      BY <2>3, <2>9, <3>1, <3>5, AlternatesAppend
    <3>7. Names(v) = Names(u)
      <4>1. r \in Seq(Tokens) /\ s \in Tokens
        BY <2>3, <2>9, ClearedIsTokens DEF Clear
      <4>2. Names(v) = IF s = "/" THEN Names(r) ELSE Append(Names(r), s)
        BY <2>3, <3>1, <4>1, NamesOfAppend
      <4> QED
        BY <2>5, <2>9, <4>2
    <3>8. Last(v) = "/" <=> Last(u) \in {"/", "\\"}
      BY <2>3, <2>6, <3>4
    <3>9. v[1] = "/" <=> u[1] \in {"/", "\\"}
      BY <2>3, <2>6, <2>9, <3>4
    <3> QED
      BY <2>1, <3>2, <3>6, <3>7, <3>8, <3>9 DEF Removed, v
  <2> QED
    BY <2>10, <2>11
<1> HIDE DEF T
<1>3. p \in T
  BY <1>1, <1>2, EverySequence
<1> QED
  BY <1>3 DEF T
-----------------------------------------------------------------------------
(* What remove_slashes makes of a path that is typed.                        *)
IsTyped(p) == p \in Seq(Tokens) /\ p # <<>> /\ Separated(p)

LEMMA BareFront ==
    ASSUME NEW r \in Cleared, r # <<>>, Alternates(r)
    PROVE  /\ Front(r) \in Cleared /\ Alternates(Front(r))
           /\ Len(r) \in Nat \ {0} /\ Len(Front(r)) = Len(r) - 1
           /\ Len(r) > 1 => /\ Front(r) # <<>> /\ Front(r)[1] = r[1]
                            /\ Last(r) = "/" <=> Last(Front(r)) # "/"
           /\ Last(r) = "/" => Names(Front(r)) = Names(r)
           /\ Last(r) # "/" => Last(r) \in Words \cup {".."}
                               /\ Names(r) = Append(Names(Front(r)), Last(r))
<1> DEFINE f == Front(r)
           l == Last(r)
<1>1. /\ Len(r) \in Nat \ {0} /\ l \in Clear /\ f \in Cleared /\ Len(f) = Len(r) - 1
      /\ \A i \in 1..(Len(r) - 1) : f[i] = r[i]
      /\ r = Append(f, l)
  BY FrontProperties DEF Cleared
<1>2. l = r[Len(r)] /\ Last(f) = f[Len(r) - 1]
  BY <1>1 DEF Last
<1> HIDE DEF f, l
<1>3. Alternates(f)
  BY <1>1 DEF Alternates
<1>4. ASSUME Len(r) > 1
      PROVE  f # <<>> /\ f[1] = r[1] /\ (l = "/" <=> Last(f) # "/")
  <2>1. f # <<>> /\ f[1] = r[1]
    BY <1>1, <1>4, EmptySeq
  <2>2. Len(r) - 1 \in 1..(Len(r) - 1) /\ (Len(r) - 1) + 1 = Len(r)
    BY <1>1, <1>4
  <2>3. r[Len(r) - 1] = "/" <=> r[Len(r)] # "/"
    BY <2>2 DEF Alternates
  <2>4. f[Len(r) - 1] = r[Len(r) - 1]
    BY <1>1, <2>2
  <2> QED
    BY <1>2, <2>1, <2>3, <2>4
<1>5. f \in Seq(Tokens) /\ l \in Tokens /\ l # "\\"
  BY <1>1, ClearedIsTokens DEF Clear
<1>6. Names(r) = IF l \in {"/", "\\"} THEN Names(f) ELSE Append(Names(f), l)
  BY <1>1, <1>5, NamesOfAppend
<1>7. l # "/" => l \in Words \cup {".."}
  BY <1>5 DEF Tokens
<1> QED
  BY <1>1, <1>3, <1>4, <1>5, <1>6, <1>7 DEF f, l

LEMMA SlashesRemoved ==
    ASSUME NEW q, IsTyped(q)
    PROVE  /\ Bare(RemoveSlashes(q)) /\ Names(RemoveSlashes(q)) = Names(q)
           /\ RemoveSlashes(q)[1] = "/" <=> q[1] \in {"/", "\\"}
<1> DEFINE r == RemoveDuplicates(q)
<1>1. /\ r \in Cleared /\ Alternates(r) /\ Names(r) = Names(q) /\ r # <<>>
      /\ r[1] = "/" <=> q[1] \in {"/", "\\"}
  BY DuplicatesRemoved DEF Removed, IsTyped
<1>2. RemoveSlashes(q) = IF Len(r) > 1 /\ Last(r) = "/" THEN Front(r) ELSE r
  BY DEF RemoveSlashes
<1> HIDE DEF r
<1>3. CASE Len(r) > 1 /\ Last(r) = "/"
  <2>1. /\ Front(r) \in Cleared /\ Alternates(Front(r))
        /\ Front(r) # <<>> /\ Front(r)[1] = r[1] /\ Last(Front(r)) # "/"
        /\ Names(Front(r)) = Names(r)
    BY <1>1, <1>3, BareFront
  <2> QED
    BY <1>1, <1>2, <1>3, <2>1 DEF Bare
<1>4. CASE ~(Len(r) > 1 /\ Last(r) = "/")
  BY <1>1, <1>2, <1>4 DEF Bare
<1> QED
  BY <1>3, <1>4

LEMMA RootProperties ==
    /\ Absolute(Root) /\ Names(Root) = <<>> /\ Len(Root) = 1 /\ Fits(Root)
    /\ Root \in Seq(Tokens) /\ Last(Root) = "/"
<1>1. /\ <<>> \in Seq(Tokens) /\ <<>> \in Cleared
      /\ "/" \in Tokens /\ "/" \in Clear
  BY EmptySeq DEF Tokens, Clear, Cleared
<1>2. Root = Append(<<>>, "/")
  BY DEF Root
<1>3. Names(Root) = <<>>
  BY <1>1, <1>2, NamesOfAppend, NamesOfEmpty
<1>4. Len(Root) = 1 /\ Root[1] = "/" /\ Root # <<>>
  BY DEF Root
<1>5. Root \in Cleared /\ Root \in Seq(Tokens)
  BY <1>1, <1>2, AppendProperties DEF Cleared
<1>6. Alternates(Root)
  BY <1>4 DEF Alternates
<1>7. Fits(Root)
  BY <1>4, PathAssumption DEF Fits
<1>8. Last(Root) = "/"
  BY <1>4 DEF Last
<1> QED
  BY <1>3, <1>4, <1>5, <1>6, <1>7, <1>8 DEF Absolute, Bare

(* A path of one character is the root.                                      *)
LEMMA RootOnly ==
    ASSUME NEW p, Absolute(p)
    PROVE  /\ Len(p) \in Nat \ {0} /\ (Len(p) = 1 <=> p = Root)
           /\ Len(p) = 1 <=> Last(p) = "/"
<1>1. Len(p) \in Nat \ {0} /\ p \in Seq(Clear) /\ p[1] = "/"
  BY EmptySeq DEF Absolute, Bare, Cleared
<1>2. ASSUME Len(p) = 1 PROVE p = Root
  <2>1. Root \in Seq(Clear) /\ Len(Root) = 1 /\ Root[1] = "/"
    BY RootProperties DEF Absolute, Bare, Cleared
  <2>2. \A i \in 1..Len(p) : p[i] = Root[i]
    BY <1>1, <1>2, <2>1
  <2> HIDE DEF Root
  <2> QED
    BY <1>1, <1>2, <2>1, <2>2, SeqEqual
<1>3. Len(p) > 1 => Last(p) # "/"
  BY DEF Absolute, Bare
<1>4. Len(p) = 1 => Last(p) = "/"
  BY <1>1 DEF Last
<1> QED
  BY <1>1, <1>2, <1>3, <1>4, RootProperties

(* ".." leads to the directory that names one less.                          *)
LEMMA ParentProperties ==
    ASSUME NEW p, Absolute(p)
    PROVE  /\ Absolute(Parent(p)) /\ Len(Parent(p)) <= Len(p)
           /\ Names(Parent(p)) = IF Names(p) = <<>> THEN <<>> ELSE Front(Names(p))
<1> DEFINE slashes == {i \in DOMAIN p : p[i] = "/"}
           f == Front(p)
           g == Front(f)
<1>1. /\ Len(p) \in Nat \ {0} /\ (Len(p) = 1 <=> p = Root) /\ (Len(p) = 1 <=> Last(p) = "/")
      /\ p \in Cleared /\ p # <<>> /\ Alternates(p) /\ p[1] = "/" /\ DOMAIN p = 1..Len(p)
  BY RootOnly, LenProperties DEF Absolute, Bare, Cleared
<1>2. Parent(p) = IF slashes \subseteq {1} THEN Root ELSE SubSeq(p, 1, Max(slashes) - 1)
  BY DEF Parent
<1>3. CASE Len(p) = 1
  <2>1. slashes \subseteq {1}
    BY <1>1, <1>3
  <2>2. Parent(p) = Root /\ p = Root
    BY <1>1, <1>2, <1>3, <2>1
  <2>3. Names(p) = <<>> /\ Absolute(Root)
    BY <2>2, RootProperties
  <2> QED
    BY <1>1, <2>2, <2>3
<1>4. CASE Len(p) > 1
  <2>1. /\ f \in Cleared /\ Alternates(f) /\ Len(f) = Len(p) - 1
        /\ f # <<>> /\ f[1] = p[1] /\ Last(f) = "/"
        /\ Last(p) \in Words \cup {".."} /\ Names(p) = Append(Names(f), Last(p))
    <3>1. Last(p) # "/"
      BY <1>1, <1>4
    <3>2. /\ f \in Cleared /\ Alternates(f) /\ Len(f) = Len(p) - 1
          /\ f # <<>> /\ f[1] = p[1] /\ (Last(p) = "/" <=> Last(f) # "/")
      BY <1>1, <1>4, BareFront
    <3>3. Last(p) \in Words \cup {".."} /\ Names(p) = Append(Names(f), Last(p))
      BY <1>1, <3>1, BareFront
    <3> QED
      BY <3>1, <3>2, <3>3
  <2>2. /\ g \in Cleared /\ Alternates(g) /\ Len(g) = Len(f) - 1
        /\ Len(f) > 1 => g # <<>> /\ g[1] = f[1] /\ Last(g) # "/"
        /\ Names(g) = Names(f)
    <3> HIDE DEF f
    <3> QED
      BY <2>1, BareFront
  <2>3. Names(f) \in Called
    <3> HIDE DEF f
    <3> QED
      BY <2>1, ClearedIsTokens, NamesType
  <2>4. Names(p) # <<>> /\ Front(Names(p)) = Names(f)
    <3> DEFINE n == Names(f)
               l == Last(p)
               v == Append(n, l)
    <3>1. n \in Called /\ l \in Words \cup {".."}
      BY <2>1, <2>3
    <3> HIDE DEF n, l
    <3>2. v \in Called /\ v # <<>> /\ Len(v) = Len(n) + 1 /\ \A i \in 1..Len(n) : v[i] = n[i]
      BY <3>1, AppendProperties DEF Called
    <3> HIDE DEF v
    <3>3. /\ Front(v) \in Called /\ Len(Front(v)) = Len(v) - 1
          /\ \A i \in 1..(Len(v) - 1) : Front(v)[i] = v[i]
      BY <3>2, FrontProperties DEF Called
    <3>4. Len(n) \in Nat
      BY <3>1, LenProperties DEF Called
    <3>5. Len(Front(v)) = Len(n) /\ \A i \in 1..Len(n) : Front(v)[i] = n[i]
      BY <3>2, <3>3, <3>4
    <3>6. Front(v) = n
      BY <3>1, <3>3, <3>5, SeqEqual DEF Called
    <3> QED
      BY <2>1, <3>2, <3>6 DEF v, n, l
  <2>5. Len(p) - 1 \in slashes /\ Len(p) \notin slashes
    <3>1. Last(f) = p[Len(p) - 1]
      <4>1. \A i \in 1..(Len(p) - 1) : f[i] = p[i]
        BY <1>1, FrontProperties DEF Cleared
      <4>2. Len(f) = Len(p) - 1 /\ Len(p) - 1 \in 1..(Len(p) - 1)
        BY <1>1, <1>4, <2>1
      <4> HIDE DEF f
      <4> QED
        BY <4>1, <4>2 DEF Last
    <3>2. Last(p) = p[Len(p)]
      BY DEF Last
    <3> QED
      BY <1>1, <1>4, <2>1, <3>1, <3>2
  <2>6. CASE Len(p) = 2
    <3>1. slashes \subseteq {1}
      BY <1>1, <2>5, <2>6
    <3>2. Len(f) = 1 /\ f \in Cleared /\ f # <<>> /\ Alternates(f) /\ f[1] = "/"
      BY <1>1, <2>1, <2>6
    <3>3. f = Root
      <4> HIDE DEF f
      <4>1. Absolute(f)
        BY <3>2 DEF Absolute, Bare
      <4> QED
        BY <3>2, <4>1, RootOnly
    <3> QED
      BY <1>2, <1>4, <2>4, <3>1, <3>3, RootProperties
  <2>7. CASE Len(p) > 2
    <3>1. ~(slashes \subseteq {1})
      BY <1>1, <2>5, <2>7
    <3>2. Max(slashes) = Len(p) - 1
      <4>1. slashes \subseteq 0..Len(p) /\ slashes # {}
        BY <1>1, <2>5
      <4>2. Max(slashes) \in slashes /\ \A y \in slashes : Max(slashes) >= y
        BY <1>1, <4>1, MaxIsGreatest
      <4> DEFINE m == Max(slashes)
      <4>3. m \in 1..Len(p) /\ m >= Len(p) - 1 /\ m # Len(p)
        BY <1>1, <2>5, <4>2
      <4> HIDE DEF m
      <4>4. Len(p) \in Nat
        BY <1>1
      <4>5. m = Len(p) - 1
        BY ONLY <4>3, <4>4
      <4> QED
        BY <4>5 DEF m
    <3>3. Parent(p) = SubSeq(p, 1, Len(p) - 2)
      <4>1. (Len(p) - 1) - 1 = Len(p) - 2
        BY <1>1
      <4> QED
        BY <1>2, <3>1, <3>2, <4>1
    <3>4. SubSeq(p, 1, Len(p) - 2) = g
      <4> DEFINE n == Len(p) - 2
                 u == SubSeq(p, 1, n)
      <4>1. n \in Nat /\ n >= 1 /\ (\A i \in 1..n : p[i] \in Clear) /\ n - 1 + 1 = n
        BY <1>1, <2>7, ElementOfSeq DEF Cleared
      <4>2. /\ \A i \in 1..(Len(p) - 1) : f[i] = p[i]
            /\ \A i \in 1..(Len(f) - 1) : g[i] = f[i]
        <5>1. \A i \in 1..(Len(p) - 1) : f[i] = p[i]
          BY <1>1, FrontProperties DEF Cleared
        <5> HIDE DEF f
        <5>2. \A i \in 1..(Len(f) - 1) : g[i] = f[i]
          BY <2>1, FrontProperties DEF Cleared
        <5> QED
          BY <5>1, <5>2
      <4> HIDE DEF f, g
      <4>3. Len(g) = n /\ \A i \in 1..n : g[i] = p[i]
        BY <1>1, <2>1, <2>2, <4>2 DEF n
      <4> HIDE DEF n
      <4>4. /\ u \in Seq(Clear)
            /\ Len(u) = IF 1 <= n THEN n - 1 + 1 ELSE 0
            /\ \A i \in 1..(n - 1 + 1) : u[i] = p[1 + i - 1]
        BY <4>1, SubSeqProperties
      <4> HIDE DEF u
      <4>5. Len(u) = n /\ \A i \in 1..n : u[i] = g[i]
        BY <4>1, <4>3, <4>4
      <4>6. u = g
        BY <2>2, <4>3, <4>4, <4>5, SeqEqual DEF Cleared
      <4> QED
        BY <4>6 DEF u, n
    <3>5. Len(f) > 1 /\ Len(g) <= Len(p)
      BY <1>1, <2>1, <2>2, <2>7
    <3>6. Absolute(g)
      BY <1>1, <2>1, <2>2, <3>5 DEF Absolute, Bare
    <3> QED
      BY <2>2, <2>4, <3>3, <3>4, <3>5, <3>6
  <2> QED
    BY <1>1, <1>4, <2>6, <2>7
<1> QED
  BY <1>1, <1>3, <1>4

(* A relative path follows its directory, one slash between them.            *)
LEMMA JoinedProperties ==
    ASSUME NEW d, Absolute(d), NEW p, Bare(p), p[1] # "/"
    PROVE  Absolute(Joined(d, p)) /\ Names(Joined(d, p)) = Names(d) \o Names(p)
<1> DEFINE b == IF Last(d) = "/" THEN d ELSE Append(d, "/")
           j == b \o p
<1>1. /\ d \in Cleared /\ d # <<>> /\ Alternates(d) /\ d[1] = "/" /\ Len(d) \in Nat \ {0}
      /\ d \in Seq(Tokens) /\ p \in Cleared /\ p # <<>> /\ Alternates(p) /\ p \in Seq(Tokens)
      /\ Len(p) \in Nat \ {0} /\ (Len(p) > 1 => Last(p) # "/")
  BY RootOnly, ClearedIsTokens, EmptySeq DEF Absolute, Bare, Cleared
<1>2. "/" \in Clear /\ "/" \in Tokens
  BY DEF Clear, Tokens
<1>3. /\ b \in Cleared /\ b # <<>> /\ Alternates(b) /\ b[1] = "/" /\ Last(b) = "/"
      /\ Names(b) = Names(d)
  <2>1. CASE Last(d) = "/"
    BY <1>1, <2>1
  <2>2. CASE Last(d) # "/"
    <3> DEFINE a == Append(d, "/")
    <3>1. /\ a \in Cleared /\ a # <<>> /\ Len(a) = Len(d) + 1 /\ a[Len(d) + 1] = "/"
          /\ \A i \in 1..Len(d) : a[i] = d[i]
      BY <1>1, <1>2, AppendProperties DEF Cleared
    <3>2. Alternates(a)
      BY <1>1, <1>2, <2>2, AlternatesAppend
    <3>3. Names(a) = Names(d)
      BY <1>1, <1>2, NamesOfAppend
    <3>4. a[1] = "/" /\ Last(a) = "/"
      <4> HIDE DEF a
      <4> QED
        BY <1>1, <3>1 DEF Last
    <3> QED
      BY <2>2, <3>1, <3>2, <3>3, <3>4
  <2> QED
    BY <2>1, <2>2
<1>4. Joined(d, p) = j
  <2>1. Append(d, "/") = d \o <<"/">>
    BY <1>1, <1>2, AppendIsConcat DEF Cleared
  <2> QED
    BY <2>1 DEF Joined
<1> HIDE DEF b
<1>5. Len(b) \in Nat \ {0} /\ b[Len(b)] = "/" /\ b \in Seq(Tokens)
  BY <1>3, EmptySeq, ClearedIsTokens DEF Cleared, Last
<1>6. /\ j \in Cleared /\ Len(j) = Len(b) + Len(p)
      /\ \A i \in 1..(Len(b) + Len(p)) : j[i] = IF i <= Len(b) THEN b[i] ELSE p[i - Len(b)]
  BY <1>1, <1>3, ConcatProperties DEF Cleared
<1>7. Names(j) = Names(d) \o Names(p)
  BY <1>1, <1>3, <1>5, NamesOfConcat
<1> HIDE DEF j
<1>8. Alternates(j)
  <2> SUFFICES ASSUME NEW i \in 1..(Len(b) + Len(p) - 1)
               PROVE  j[i] = "/" <=> j[i + 1] # "/"
    BY <1>6 DEF Alternates
  <2>1. CASE i < Len(b)
    <3>1. i \in 1..(Len(b) - 1) /\ j[i] = b[i] /\ j[i + 1] = b[i + 1]
      BY <1>1, <1>5, <1>6, <2>1
    <3> QED
      BY <1>3, <3>1 DEF Alternates
  <2>2. CASE i = Len(b)
    <3>1. j[i] = b[Len(b)] /\ j[i + 1] = p[1]
      BY <1>1, <1>5, <1>6, <2>2
    <3> QED
      BY <1>5, <3>1
  <2>3. CASE i > Len(b)
    <3> DEFINE k == i - Len(b)
    <3>1. k \in 1..(Len(p) - 1) /\ j[i] = p[k] /\ j[i + 1] = p[k + 1]
      <4>1. /\ i \in 1..(Len(b) + Len(p)) /\ i + 1 \in 1..(Len(b) + Len(p))
            /\ ~(i <= Len(b)) /\ ~(i + 1 <= Len(b)) /\ (i + 1) - Len(b) = k + 1
            /\ k \in 1..(Len(p) - 1)
        BY <1>1, <1>5, <2>3
      <4> QED
        BY <1>6, <4>1
    <3> HIDE DEF k
    <3> QED
      BY <1>1, <3>1 DEF Alternates
  <2> QED
    BY <1>1, <1>5, <2>1, <2>2, <2>3
<1>9. j # <<>> /\ j[1] = "/" /\ Last(j) # "/"
  <2>1. j # <<>> /\ j[1] = b[1]
    BY <1>1, <1>5, <1>6, EmptySeq
  <2>2. Last(j) = p[Len(p)]
    <3>1. /\ Len(b) + Len(p) \in 1..(Len(b) + Len(p)) /\ ~(Len(b) + Len(p) <= Len(b))
          /\ (Len(b) + Len(p)) - Len(b) = Len(p)
      BY <1>1, <1>5
    <3> QED
      BY <1>6, <3>1 DEF Last
  <2>3. p[Len(p)] # "/"
    <3>1. CASE Len(p) = 1
      BY <3>1
    <3>2. CASE Len(p) > 1
      BY <1>1, <3>2 DEF Last
    <3> QED
      BY <1>1, <3>1, <3>2
  <2> QED
    BY <1>3, <2>1, <2>2, <2>3
<1> QED
  BY <1>4, <1>6, <1>7, <1>8, <1>9 DEF Absolute, Bare

(* A text of one word is that word.                                          *)
LEMMA OneName ==
    ASSUME NEW p, Bare(p), p[1] # "/", NEW w, Names(p) = <<w>>
    PROVE  p = <<w>>
<1>1. /\ p \in Cleared /\ p # <<>> /\ Alternates(p) /\ Len(p) \in Nat \ {0}
      /\ Len(p) > 1 => Last(p) # "/"
  BY EmptySeq DEF Bare, Cleared
<1> DEFINE f == Front(p)
<1>2. Last(p) # "/"
  <2>1. CASE Len(p) = 1
    BY <2>1 DEF Last
  <2>2. CASE Len(p) > 1
    BY <1>1, <2>2
  <2> DEFINE k == Len(p)
  <2>3. k \in Nat \ {0}
    BY <1>1
  <2> HIDE DEF k
  <2>4. k = 1 \/ k > 1
    BY ONLY <2>3
  <2> USE DEF k
  <2> QED
    BY <2>1, <2>2, <2>4
<1>3. /\ f \in Cleared /\ Len(f) = Len(p) - 1
      /\ Len(p) > 1 => f # <<>> /\ f[1] = p[1]
      /\ Last(p) \in Words \cup {".."} /\ Names(p) = Append(Names(f), Last(p))
  BY <1>1, <1>2, BareFront
<1> HIDE DEF f
<1>4. f \in Seq(Tokens) /\ Names(f) \in Called
  BY <1>3, ClearedIsTokens, NamesType
<1>5. Len(Names(f)) = 0 /\ Last(p) = w
  <2> DEFINE n == Names(f)
             l == Last(p)
             v == Append(n, l)
  <2>1. Len(v) = Len(n) + 1 /\ v[Len(n) + 1] = l /\ Len(n) \in Nat
    BY <1>3, <1>4, AppendProperties, LenProperties DEF Called
  <2>2. Len(v) = 1 /\ v[1] = w
    BY <1>3
  <2> HIDE DEF n, l, v
  <2> DEFINE k == Len(n)
  <2>a. k \in Nat /\ k + 1 = 1
    BY <2>1, <2>2
  <2> HIDE DEF k
  <2>b. k = 0
    BY ONLY <2>a
  <2>3. Len(n) = 0
    BY <2>b DEF k
  <2>4. Len(n) + 1 = 1
    BY <2>3
  <2>5. l = w
    BY <2>1, <2>2, <2>4
  <2> QED
    BY <2>3, <2>5 DEF n, l
<1>6. Len(p) = 1
  <2> SUFFICES ASSUME Len(p) > 1 PROVE FALSE
    BY <1>1
  <2>1. f[1] \in Clear /\ f[1] # "/" /\ f # <<>>
    BY <1>3, FrontProperties, ElementOfSeq, EmptySeq DEF Cleared
  <2>2. f[1] \notin {"/", "\\"}
    BY <2>1 DEF Clear
  <2>3. Names(f) # <<>>
    BY <1>4, <2>1, <2>2, NamesNotEmpty
  <2> QED
    BY <1>4, <1>5, <2>3, EmptySeq DEF Called
<1>7. p[1] = w
  BY <1>5, <1>6 DEF Last
<1>8. w \in Clear
  BY <1>1, <1>6, <1>7, ElementOfSeq DEF Cleared
<1> DEFINE o == <<w>>
<1>9. o \in Seq(Clear) /\ Len(o) = 1 /\ o[1] = w
  BY <1>8
<1> HIDE DEF o
<1>10. p = o
  BY <1>1, <1>6, <1>7, <1>9, SeqEqual DEF Cleared
<1> QED
  BY <1>10 DEF o

(* build_fullpath: the text it makes leads where the path typed leads.       *)
LEMMA FullpathProperties ==
    ASSUME NEW d, Absolute(d), NEW q, IsTyped(q)
    PROVE  /\ Absolute(BuildFullpath(d, q))
           /\ Names(BuildFullpath(d, q)) = Resolved(Names(d), q)
<1> DEFINE p == RemoveSlashes(q)
<1>1. Bare(p) /\ Names(p) = Names(q) /\ (p[1] = "/" <=> q[1] \in {"/", "\\"})
  BY SlashesRemoved
<1>2. BuildFullpath(d, q) =
        IF Head(p) = "/" THEN p
        ELSE IF p = <<"..">> THEN Parent(d)
        ELSE Joined(d, p)
  BY DEF BuildFullpath
<1> HIDE DEF p
<1>3. Head(p) = p[1]
  BY <1>1, FrontProperties DEF Bare, Cleared
<1>4. CASE p[1] = "/"
  <2>1. BuildFullpath(d, q) = p /\ Resolved(Names(d), q) = Names(q)
    BY <1>1, <1>2, <1>3, <1>4 DEF Resolved
  <2> QED
    BY <1>1, <1>4, <2>1 DEF Absolute
<1>5. CASE p[1] # "/" /\ p = <<"..">>
  <2>1. Names(p) = <<"..">>
    <3>1. /\ <<>> \in Seq(Tokens) /\ ".." \in Tokens /\ p = Append(<<>>, "..")
      BY <1>5, EmptySeq DEF Tokens
    <3>2. Names(Append(<<>>, "..")) = Append(Names(<<>>), "..")
      BY <3>1, NamesOfAppend
    <3>3. Append(<<>>, "..") = <<"..">>
      OBVIOUS
    <3> QED
      BY <3>1, <3>2, <3>3, NamesOfEmpty
  <2>2. BuildFullpath(d, q) = Parent(d)
    BY <1>2, <1>3, <1>5
  <2>3. Resolved(Names(d), q) = IF Names(d) = <<>> THEN <<>> ELSE Front(Names(d))
    BY <1>1, <1>5, <2>1 DEF Resolved
  <2> QED
    BY <2>2, <2>3, ParentProperties
<1>6. CASE p[1] # "/" /\ p # <<"..">>
  <2>1. Names(q) # <<"..">>
    BY <1>1, <1>6, OneName
  <2>2. Resolved(Names(d), q) = Names(d) \o Names(q)
    BY <1>1, <1>6, <2>1 DEF Resolved
  <2>3. BuildFullpath(d, q) = Joined(d, p)
    BY <1>2, <1>3, <1>6
  <2> QED
    BY <1>1, <1>6, <2>2, <2>3, JoinedProperties
<1> QED
  BY <1>4, <1>5, <1>6
-----------------------------------------------------------------------------
(* The lines of a listing, cut where an entry ends.                          *)
LEMMA LinesOfConcat ==
    ASSUME NEW a \in Seq(Listable), NEW b \in Seq(Listable)
    PROVE  PrintedLines(a \o b) = PrintedLines(a) \o PrintedLines(b)
<1> DEFINE T == {q \in Seq(Listable) : PrintedLines(a \o q) = PrintedLines(a) \o PrintedLines(q)}
<1>0. PrintedLines(a) \in Seq(Sendable)
  BY LinesType DEF Sent
<1>1. <<>> \in T
  <2>1. <<>> \in Seq(Listable) /\ a \o <<>> = a
    BY EmptySeq, ConcatEmptySeq
  <2>2. PrintedLines(a) \o <<>> = PrintedLines(a)
    BY <1>0, ConcatEmptySeq
  <2> QED
    BY <2>1, <2>2, LinesOfEmpty
<1>2. ASSUME NEW q \in Seq(Listable), NEW e \in Listable, q \in T
      PROVE  Append(q, e) \in T
  <2>1. Append(q, e) \in Seq(Listable) /\ a \o q \in Seq(Listable)
    BY AppendProperties, ConcatProperties
  <2>2. a \o Append(q, e) = Append(a \o q, e)
    BY AppendOfConcat
  <2>3. PrintedLines(a \o q) = PrintedLines(a) \o PrintedLines(q)
    BY <1>2
  <2>4. /\ PrintedLines(Append(a \o q, e)) =
             IF IsListed(e) THEN PrintedLines(a \o q) \o Printed(e) ELSE PrintedLines(a \o q)
        /\ PrintedLines(Append(q, e)) =
             IF IsListed(e) THEN PrintedLines(q) \o Printed(e) ELSE PrintedLines(q)
    BY <2>1, LinesOfAppend
  <2>5. PrintedLines(q) \in Seq(Sendable) /\ Printed(e) \in Seq(Sendable)
    BY LinesType, PrintedProperties DEF Sent
  <2>6. (PrintedLines(a) \o PrintedLines(q)) \o Printed(e)
         = PrintedLines(a) \o (PrintedLines(q) \o Printed(e))
    <3> DEFINE x == PrintedLines(a)
               y == PrintedLines(q)
               z == Printed(e)
    <3>1. x \in Seq(Sendable) /\ y \in Seq(Sendable) /\ z \in Seq(Sendable)
      BY <1>0, <2>5
    <3> HIDE DEF x, y, z
    <3>2. (x \o y) \o z = x \o (y \o z)
      BY ONLY <3>1, SentJoins
    <3> QED
      BY <3>2 DEF x, y, z
  <2>7. PrintedLines(a \o Append(q, e)) = PrintedLines(a) \o PrintedLines(Append(q, e))
    BY <2>2, <2>3, <2>4, <2>6
  <2> QED
    BY <2>1, <2>7
<1> HIDE DEF T
<1>3. b \in T
  BY <1>1, <1>2, EverySequence
<1> QED
  BY <1>3 DEF T

LEMMA ConcatIsPrefix ==
    ASSUME NEW S, NEW a \in Seq(S), NEW b \in Seq(S)
    PROVE  IsPrefix(a, a \o b)
<1> DEFINE c == a \o b
<1>1. /\ c \in Seq(S) /\ Len(c) = Len(a) + Len(b)
      /\ \A i \in 1..(Len(a) + Len(b)) : c[i] = IF i <= Len(a) THEN a[i] ELSE b[i - Len(a)]
  BY ConcatProperties
<1>2. Len(a) \in Nat /\ Len(b) \in Nat
  BY LenProperties
<1>3. SubSeq(a, 1, Len(a)) = a
  BY SubSeqFull
<1>4. SubSeq(c, 1, Len(a)) = a
  <2> DEFINE n == Len(a)
             u == SubSeq(c, 1, n)
  <2>1. n \in Nat /\ \A i \in 1..n : c[i] = a[i]
    <3> HIDE DEF c
    <3> QED
      BY <1>1, <1>2
  <2>2. \A i \in 1..n : c[i] \in S
    BY <2>1, ElementOfSeq
  <2> HIDE DEF c, n
  <2>3. /\ u \in Seq(S)
        /\ Len(u) = IF 1 <= n THEN n - 1 + 1 ELSE 0
        /\ \A i \in 1..(n - 1 + 1) : u[i] = c[1 + i - 1]
    BY <2>1, <2>2, SubSeqProperties
  <2> HIDE DEF u
  <2>4. Len(u) = n /\ \A i \in 1..n : u[i] = a[i]
    BY <2>1, <2>3
  <2>5. u = a
    BY <2>3, <2>4, SeqEqual DEF n
  <2> QED
    BY <2>5 DEF u, n
<1> HIDE DEF c
<1>5. Len(a) <= Len(c)
  BY <1>1, <1>2
<1> QED
  BY <1>3, <1>4, <1>5 DEF IsPrefix, c

(* The first n of q and what follows them.                                   *)
LEMMA CutSequence ==
    ASSUME NEW S, NEW q \in Seq(S), NEW n \in 0..Len(q)
    PROVE  /\ SubSeq(q, 1, n) \in Seq(S) /\ SubSeq(q, n + 1, Len(q)) \in Seq(S)
           /\ q = SubSeq(q, 1, n) \o SubSeq(q, n + 1, Len(q))
           /\ Len(SubSeq(q, n + 1, Len(q))) = Len(q) - n
           /\ \A i \in 1..(Len(q) - n) : SubSeq(q, n + 1, Len(q))[i] = q[n + i]
<1> DEFINE l == Len(q)
<1>1. l \in Nat /\ n \in Nat /\ n <= l
  BY LenProperties
<1>2. \A i \in 1..l : q[i] \in S
  BY ElementOfSeq
<1>3. 1 \in 1..(l + 1) /\ n \in (1 - 1)..l /\ l \in n..l
  BY <1>1
<1>4. SubSeq(q, 1, n) \o SubSeq(q, n + 1, l) = SubSeq(q, 1, l)
  BY <1>3, ConcatAdjacentSubSeq
<1>5. SubSeq(q, 1, l) = q
  BY SubSeqFull
<1> HIDE DEF l
<1>6. SubSeq(q, 1, n) \in Seq(S)
  <2>1. 1 \in Int /\ n \in Int /\ \A i \in 1..n : q[i] \in S
    BY <1>1, <1>2
  <2> QED
    BY <2>1, SubSeqProperties
<1>7. /\ SubSeq(q, n + 1, l) \in Seq(S) /\ Len(SubSeq(q, n + 1, l)) = l - n
      /\ \A i \in 1..(l - n) : SubSeq(q, n + 1, l)[i] = q[n + i]
  <2> DEFINE m == n + 1
             u == SubSeq(q, m, l)
  <2>1. m \in Int /\ l \in Int /\ \A i \in m..l : q[i] \in S
    BY <1>1, <1>2
  <2>2. /\ u \in Seq(S) /\ Len(u) = (IF m <= l THEN l - m + 1 ELSE 0)
        /\ \A i \in 1..(l - m + 1) : u[i] = q[m + i - 1]
    <3> HIDE DEF m
    <3> QED
      BY <2>1, SubSeqProperties
  <2>3. l - m + 1 = l - n /\ (~(m <= l) => l - n = 0) /\ \A i \in 1..(l - n) : m + i - 1 = n + i
    BY <1>1
  <2> HIDE DEF m, u
  <2>4. Len(u) = l - n
    BY <2>2, <2>3
  <2>5. \A i \in 1..(l - n) : u[i] = q[n + i]
    BY <2>2, <2>3
  <2> QED
    BY <2>2, <2>4, <2>5 DEF u, m
<1> QED
  BY <1>4, <1>5, <1>6, <1>7 DEF l

LEMMA LinesOfFirst ==
    ASSUME NEW q \in Seq(Listable), NEW n \in 0..Len(q)
    PROVE  IsPrefix(PrintedLines(SubSeq(q, 1, n)), PrintedLines(q))
<1> DEFINE a == SubSeq(q, 1, n)
           b == SubSeq(q, n + 1, Len(q))
<1>1. a \in Seq(Listable) /\ b \in Seq(Listable) /\ q = a \o b
  BY CutSequence
<1> HIDE DEF a, b
<1>2. PrintedLines(q) = PrintedLines(a) \o PrintedLines(b)
  BY <1>1, LinesOfConcat
<1>3. PrintedLines(a) \in Seq(Sendable) /\ PrintedLines(b) \in Seq(Sendable)
  BY <1>1, LinesType DEF Sent
<1> QED
  BY <1>2, <1>3, ConcatIsPrefix DEF a

(* What list_buf makes of a line it takes: the last byte is all it may lose. *)
LEMMA LineType == Line \in [Listable -> Sent]
<1> SUFFICES ASSUME NEW e \in Listable
             PROVE  [i \in 1..e.size |-> <<e.name, i>>] \in Sent
  BY DEF Line, Listable
<1>1. e.size \in Nat
  BY PrintedProperties
<1>2. [i \in 1..e.size |-> <<e.name, i>>] \in [1..e.size -> Sendable]
  BY <1>1 DEF Sendable
<1> QED
  BY <1>1, <1>2, SeqDef DEF Sent

LEMMA PrintedIsDelivered ==
    ASSUME NEW e \in Listable, IsListed(e)
    PROVE  Len(Printed(e)) = Len(Line[e]) /\ Delivered(Printed(e), Line[e])
<1> DEFINE n == e.size
<1>1. n \in Nat /\ n <= ListBuf /\ ListBuf \in Nat
  BY PrintedProperties, EntriesAssumption DEF IsListed
<1>2. Printed(e) \in Sent /\ Len(Printed(e)) = n
  BY <1>1, PrintedProperties
<1>3. Line[e] = [i \in 1..n |-> <<e.name, i>>]
  BY DEF Line, Listable
<1>4. Line[e] \in Sent /\ Len(Line[e]) = n
  <2>1. Line[e] \in Sent
    BY LineType
  <2> DEFINE m == Len(Line[e])
  <2>2. m \in Nat /\ 1..m = 1..n
    BY <1>3, <2>1, LenProperties DEF Sent
  <2> HIDE DEF m, n
  <2>3. m = n
    BY ONLY <1>1, <2>2
  <2> QED
    BY <2>1, <2>3 DEF m
<1>5. DOMAIN Printed(e) = 1..n
  BY <1>2, LenProperties DEF Sent
<1>6. ASSUME NEW i \in 1..n
      PROVE  Printed(e)[i] = Line[e][i] \/ (Printed(e)[i] = NUL /\ Line[e][i][2] = ListBuf)
  <2>1. Printed(e)[i] = IF i = ListBuf THEN NUL ELSE <<e.name, i>>
    BY <1>5 DEF Printed
  <2>2. Line[e][i] = <<e.name, i>>
    BY <1>3
  <2> QED
    BY <2>1, <2>2
<1> QED
  BY <1>1, <1>2, <1>4, <1>6 DEF Delivered

LEMMA ConcatIsDelivered ==
    ASSUME NEW p \in Sent, NEW r \in Sent, NEW a \in Sent, NEW b \in Sent,
           Len(p) = Len(r), Delivered(p, r), Len(a) = Len(b), Delivered(a, b)
    PROVE  Len(p \o a) = Len(r \o b) /\ Delivered(p \o a, r \o b)
<1>1. /\ Len(p) \in Nat /\ Len(a) \in Nat
      /\ Len(p \o a) = Len(p) + Len(a) /\ Len(r \o b) = Len(r) + Len(b)
  BY DEF Sent
<1>2. ASSUME NEW i \in 1..Len(p \o a)
      PROVE  \/ (p \o a)[i] = (r \o b)[i]
             \/ (p \o a)[i] = NUL /\ (r \o b)[i][2] = ListBuf
  <2>1. CASE i <= Len(p)
    <3>1. i \in 1..Len(p) /\ (p \o a)[i] = p[i] /\ (r \o b)[i] = r[i]
      BY <1>1, <2>1 DEF Sent
    <3> QED
      BY <3>1 DEF Delivered
  <2>2. CASE i > Len(p)
    <3>1. /\ i - Len(p) \in 1..Len(a)
          /\ (p \o a)[i] = a[i - Len(p)] /\ (r \o b)[i] = b[i - Len(p)]
      BY <1>1, <2>2 DEF Sent
    <3> QED
      BY <3>1 DEF Delivered
  <2>3. i <= Len(p) \/ i > Len(p)
    BY <1>1
  <2> QED
    BY <2>1, <2>2, <2>3
<1>3. Len(p \o a) = Len(r \o b)
  BY <1>1
<1>4. Len(p \o a) <= Len(r \o b)
  BY <1>1, <1>3
<1> QED
  <2> DEFINE x == p \o a
             y == r \o b
  <2>1. Len(x) = Len(y) /\ Len(x) <= Len(y)
    BY <1>3, <1>4
  <2>2. \A i \in 1..Len(x) : x[i] = y[i] \/ (x[i] = NUL /\ y[i][2] = ListBuf)
    BY <1>2
  <2> HIDE DEF x, y
  <2>3. Len(x) = Len(y) /\ Delivered(x, y)
    BY <2>1, <2>2 DEF Delivered
  <2> QED
    BY <2>3 DEF x, y

LEMMA LinesAreDelivered ==
    ASSUME NEW q \in Seq(Listable)
    PROVE  /\ Len(PrintedLines(q)) = Len(Lines(q)) /\ Lines(q) \in Sent
           /\ Delivered(PrintedLines(q), Lines(q))
<1> DEFINE T == {w \in Seq(Listable) : /\ Len(PrintedLines(w)) = Len(Lines(w))
                                       /\ Delivered(PrintedLines(w), Lines(w))}
<1>1. <<>> \in T
  <2>1. <<>> \in Seq(Listable) /\ PrintedLines(<<>>) = <<>> /\ Lines(<<>>) = <<>>
    BY EmptySeq, LinesOfEmpty, LineType, LinesByEmpty DEF Lines
  <2>2. Delivered(<<>>, <<>>)
    BY DEF Delivered
  <2> QED
    BY <2>1, <2>2
<1>2. ASSUME NEW w \in Seq(Listable), NEW e \in Listable, w \in T
      PROVE  Append(w, e) \in T
  <2>1. Append(w, e) \in Seq(Listable)
    BY AppendProperties
  <2>2. /\ PrintedLines(Append(w, e)) =
             IF IsListed(e) THEN PrintedLines(w) \o Printed(e) ELSE PrintedLines(w)
        /\ Lines(Append(w, e)) = IF IsListed(e) THEN Lines(w) \o Line[e] ELSE Lines(w)
    BY LinesOfAppend, LineType, LinesByAppend DEF Lines
  <2>3. CASE IsListed(e)
    <3>1. /\ PrintedLines(w) \in Sent /\ Lines(w) \in Sent
          /\ Printed(e) \in Sent /\ Line[e] \in Sent
      BY LinesType, LinesByType, LineType, PrintedProperties DEF Lines
    <3>2. Len(PrintedLines(w)) = Len(Lines(w)) /\ Delivered(PrintedLines(w), Lines(w))
      BY <1>2
    <3>3. Len(Printed(e)) = Len(Line[e]) /\ Delivered(Printed(e), Line[e])
      BY <2>3, PrintedIsDelivered
    <3>4. /\ Len(PrintedLines(w) \o Printed(e)) = Len(Lines(w) \o Line[e])
          /\ Delivered(PrintedLines(w) \o Printed(e), Lines(w) \o Line[e])
      BY <3>1, <3>2, <3>3, ConcatIsDelivered
    <3> QED
      BY <2>1, <2>2, <2>3, <3>4
  <2>4. CASE ~IsListed(e)
    BY <1>2, <2>1, <2>2, <2>4
  <2> QED
    BY <2>3, <2>4
<1> HIDE DEF T
<1>3. q \in T
  BY <1>1, <1>2, EverySequence
<1>4. Lines(q) \in Sent
  BY LineType, LinesByType DEF Lines
<1> QED
  BY <1>3, <1>4 DEF T

LEMMA PrefixIsDelivered ==
    ASSUME NEW s \in Sent, NEW p \in Sent, NEW r \in Sent,
           IsPrefix(s, p), Len(p) = Len(r), Delivered(p, r)
    PROVE  Delivered(s, r)
<1>1. Len(s) \in Nat /\ Len(p) \in Nat /\ Len(s) <= Len(p)
  BY LenProperties DEF IsPrefix, Sent
<1>2. ASSUME NEW i \in 1..Len(s)
      PROVE  s[i] = p[i] /\ i \in 1..Len(p)
  <2>1. SubSeq(s, 1, Len(s)) = SubSeq(p, 1, Len(s))
    BY DEF IsPrefix
  <2>2. SubSeq(s, 1, Len(s))[i] = s[i] /\ SubSeq(p, 1, Len(s))[i] = p[i]
    BY <1>1 DEF Sent
  <2> QED
    BY <1>1, <2>1, <2>2
<1> QED
  BY <1>1, <1>2 DEF Delivered

(* The entry that follows the first n, and what is left after it.            *)
LEMMA EntryTaken ==
    ASSUME NEW q \in Seq(Listable), NEW n \in 0..Len(q),
           NEW r, r = SubSeq(q, n + 1, Len(q)), r # <<>>
    PROVE  /\ n + 1 \in 0..Len(q) /\ Head(r) \in Listable
           /\ Tail(r) = SubSeq(q, (n + 1) + 1, Len(q))
           /\ PrintedLines(SubSeq(q, 1, n + 1)) =
                IF IsListed(Head(r)) THEN PrintedLines(SubSeq(q, 1, n)) \o Printed(Head(r))
                ELSE PrintedLines(SubSeq(q, 1, n))
<1> DEFINE l == Len(q)
<1>1. l \in Nat /\ n \in Nat /\ n <= l
  BY LenProperties
<1>2. SubSeq(q, 1, n) \in Seq(Listable) /\ r \in Seq(Listable) /\ Len(r) = l - n
  BY CutSequence
<1>3. Len(r) # 0
  BY <1>2, EmptySeq
<1> HIDE DEF l
<1>4. n < l
  <2> DEFINE k == Len(r)
  <2>1. k = l - n /\ k # 0
    BY <1>2, <1>3
  <2> HIDE DEF k
  <2> QED
    BY ONLY <1>1, <2>1
<1>5. n + 1 \in 1..l /\ l \in (n + 1)..l /\ n + 1 \in 1..(n + 1) /\ n + 1 \in 0..l
      /\ 1 \in 1..l /\ n + 1 \in 1..l /\ (n + 1) - 1 = n
  BY <1>1, <1>4
<1>6. Head(r) = q[n + 1] /\ Tail(r) = SubSeq(q, (n + 1) + 1, l)
  BY <1>5, HeadTailOfSubSeq DEF l
<1>7. q[n + 1] \in Listable
  BY <1>5, ElementOfSeq DEF l
<1>8. SubSeq(q, 1, n + 1) = Append(SubSeq(q, 1, n), q[n + 1])
  <2>1. SubSeq(q, 1, n + 1) = SubSeq(q, 1, (n + 1) - 1) \o <<q[n + 1]>>
    BY <1>5, SubSeqRecursiveSecond DEF l
  <2>2. Append(SubSeq(q, 1, n), q[n + 1]) = SubSeq(q, 1, n) \o <<q[n + 1]>>
    BY <1>2, <1>7, AppendIsConcat
  <2> QED
    BY <1>5, <2>1, <2>2
<1>9. PrintedLines(SubSeq(q, 1, n + 1)) =
        IF IsListed(q[n + 1]) THEN PrintedLines(SubSeq(q, 1, n)) \o Printed(q[n + 1])
        ELSE PrintedLines(SubSeq(q, 1, n))
  BY <1>2, <1>7, <1>8, LinesOfAppend
<1> QED
  BY <1>5, <1>6, <1>7, <1>9 DEF l

-----------------------------------------------------------------------------
(* What a piece of list_buf holds, and two pieces one after the other.       *)
Part(t, o, n) == [i \in 1..n |-> IF o + i <= Len(t) THEN t[o + i] ELSE NUL]

LEMMA PartProperties ==
    ASSUME NEW t \in Sent, NEW o \in Nat, NEW n \in Nat
    PROVE  Part(t, o, n) \in Sent /\ Len(Part(t, o, n)) = n
           /\ \A i \in 1..n : Part(t, o, n)[i] = IF o + i <= Len(t) THEN t[o + i] ELSE NUL
<1> DEFINE p == Part(t, o, n)
<1>1. Len(t) \in Nat /\ \A i \in 1..Len(t) : t[i] \in Sendable
  BY LenProperties, ElementOfSeq DEF Sent
<1>2. ASSUME NEW i \in 1..n
      PROVE  (IF o + i <= Len(t) THEN t[o + i] ELSE NUL) \in Sendable
  <2>1. CASE o + i <= Len(t)
    <3>1. o + i \in 1..Len(t)
      BY <1>1, <2>1
    <3> QED
      BY <1>1, <2>1, <3>1
  <2>2. CASE ~(o + i <= Len(t))
    BY <2>2 DEF Sendable
  <2> QED
    BY <2>1, <2>2
<1>3. p \in [1..n -> Sendable]
  BY <1>2 DEF Part
<1>4. p \in Sent
  BY <1>3, SeqDef DEF Sent
<1>5. Len(p) = n
  <2>1. DOMAIN p = 1..Len(p) /\ Len(p) \in Nat
    BY <1>4, LenProperties DEF Sent
  <2>2. DOMAIN p = 1..n
    BY <1>3
  <2> DEFINE k == Len(p)
  <2>3. k \in Nat /\ 1..k = 1..n
    BY <2>1, <2>2
  <2> HIDE DEF k
  <2>4. k = n
    BY ONLY <2>3, n \in Nat
  <2> QED
    BY <2>4 DEF k
<1> QED
  BY <1>4, <1>5 DEF Part

LEMMA PartsJoin ==
    ASSUME NEW t \in Sent, NEW o \in Nat, NEW n \in Nat, NEW k \in Nat
    PROVE  Part(t, o, n) \o Part(t, o + n, k) = Part(t, o, n + k)
<1> DEFINE a == Part(t, o, n)
           b == Part(t, o + n, k)
           c == Part(t, o, n + k)
           d == a \o b
<1>1. o + n \in Nat /\ n + k \in Nat
  OBVIOUS
<1>2. /\ a \in Sent /\ Len(a) = n
      /\ \A i \in 1..n : a[i] = IF o + i <= Len(t) THEN t[o + i] ELSE NUL
  BY PartProperties
<1>3. /\ b \in Sent /\ Len(b) = k
      /\ \A i \in 1..k : b[i] = IF (o + n) + i <= Len(t) THEN t[(o + n) + i] ELSE NUL
  BY <1>1, PartProperties
<1>4. /\ c \in Sent /\ Len(c) = n + k
      /\ \A i \in 1..(n + k) : c[i] = IF o + i <= Len(t) THEN t[o + i] ELSE NUL
  BY <1>1, PartProperties
<1> HIDE DEF a, b, c
<1>5. /\ d \in Sent /\ Len(d) = Len(a) + Len(b)
      /\ \A i \in 1..(Len(a) + Len(b)) : d[i] = IF i <= Len(a) THEN a[i] ELSE b[i - Len(a)]
  BY <1>2, <1>3, ConcatProperties DEF Sent
<1> HIDE DEF d
<1>6. ASSUME NEW i \in 1..(n + k) PROVE d[i] = c[i]
  <2>1. d[i] = IF i <= n THEN a[i] ELSE b[i - n]
    BY <1>2, <1>3, <1>5
  <2>2. CASE i <= n
    BY <1>2, <1>4, <2>1, <2>2
  <2>3. CASE ~(i <= n)
    <3>1. i - n \in 1..k /\ (o + n) + (i - n) = o + i
      BY <2>3
    <3>2. b[i - n] = IF (o + n) + (i - n) <= Len(t) THEN t[(o + n) + (i - n)] ELSE NUL
      BY <1>3, <3>1
    <3> QED
      BY <1>4, <2>1, <2>3, <3>1, <3>2
  <2> QED
    BY <2>2, <2>3
<1>7. d = c
  <2>1. Len(d) = n + k
    BY <1>2, <1>3, <1>5
  <2> QED
    BY <1>4, <1>5, <1>6, <2>1, SeqEqual DEF Sent
<1> QED
  BY <1>7 DEF a, b, c, d

LEMMA PartIsWhole ==
    ASSUME NEW t \in Sent
    PROVE  Part(t, 0, Len(t)) = t
<1> DEFINE n == Len(t)
           p == Part(t, 0, n)
<1>1. n \in Nat
  BY LenProperties DEF Sent
<1>2. /\ p \in Sent /\ Len(p) = n
      /\ \A i \in 1..n : p[i] = IF 0 + i <= n THEN t[0 + i] ELSE NUL
  BY <1>1, PartProperties
<1> HIDE DEF p
<1>3. \A i \in 1..n : 0 + i = i /\ i <= n
  BY <1>1
<1>4. \A i \in 1..n : p[i] = t[i]
  BY <1>2, <1>3
<1>5. p = t
  BY <1>2, <1>4, SeqEqual DEF Sent
<1> QED
  BY <1>5 DEF p
-----------------------------------------------------------------------------
(* The paths that are built, and what is made of them.                       *)
LEMMA AbsoluteIsClean ==
    ASSUME NEW p, Absolute(p), Fits(p)
    PROVE  Clean(p) /\ p \in Seq(Tokens)
<1>1. /\ p \in Cleared /\ p # <<>> /\ Alternates(p) /\ p[1] = "/"
      /\ Len(p) > 1 => Last(p) # "/"
  BY DEF Absolute, Bare
<1>2. Head(p) = "/" /\ p \in Seq(Tokens)
  BY <1>1, FrontProperties, ClearedIsTokens DEF Cleared
<1>3. \A i \in DOMAIN p : p[i] # "\\"
  BY <1>1, LenProperties, ElementOfSeq DEF Cleared, Clear
<1> QED
  BY <1>1, <1>2, <1>3 DEF Clean, Alternates

LEMMA TypedIsTyped ==
    ASSUME NEW q \in TypedPaths
    PROVE  IsTyped(q)
<1>1. PICK k \in 1..MaxTyped : q \in [1..k -> Tokens]
  BY DEF TypedPaths, Typed
<1>2. k \in Nat \ {0}
  BY EntriesAssumption
<1>3. q \in Seq(Tokens)
  BY <1>1, <1>2, SeqDef
<1>4. q # <<>>
  <2>1. 1 \in 1..k /\ DOMAIN q = 1..k
    BY <1>1, <1>2
  <2>2. DOMAIN q = 1..Len(q)
    BY <1>3, LenProperties
  <2>3. 1 \in 1..Len(q)
    BY <2>1, <2>2
  <2> SUFFICES ASSUME Len(q) = 0 PROVE FALSE
    BY EmptySeq
  <2>4. 1 \in 1..0
    BY <2>3
  <2> QED
    BY <2>4
<1>5. Separated(q)
  BY DEF TypedPaths, Typed, Separated
<1> QED
  BY <1>3, <1>4, <1>5 DEF IsTyped

LEMMA UpIsTyped == IsTyped(<<"..">>)
<1> DEFINE q == <<"..">>
<1>1. q \in Seq(Tokens) /\ q # <<>> /\ Len(q) = 1
  BY DEF Tokens
<1> HIDE DEF q
<1>2. Separated(q)
  BY <1>1 DEF Separated
<1> QED
  BY <1>1, <1>2 DEF IsTyped, q

LEMMA PathsAreAbsolute ==
    ASSUME Absolute(pwd), NEW p \in Paths
    PROVE  Absolute(p)
<1>1. CASE p = pwd
  BY <1>1
<1>2. ASSUME NEW q \in TypedPaths, p = BuildFullpath(pwd, q)
      PROVE  Absolute(p)
  BY <1>2, TypedIsTyped, FullpathProperties
<1> QED
  BY <1>1, <1>2 DEF Paths

(* What is copied of a path fits, and is the path if it fits.                *)
LEMMA CutProperties ==
    ASSUME NEW p, Absolute(p)
    PROVE  /\ Cut(p) \in Seq(Clear) /\ Fits(Cut(p)) /\ Cut(p) \in Seq(Tokens)
           /\ Fits(p) => Cut(p) = p
<1>1. p \in Seq(Clear) /\ Len(p) \in Nat /\ MaxPath \in Nat \ {0}
  BY LenProperties, PathAssumption DEF Absolute, Bare, Cleared
<1>2. CASE Fits(p)
  <2>1. Cut(p) = p
    BY <1>2 DEF Cut
  <2> QED
    BY <1>1, <1>2, <2>1, ClearedIsTokens DEF Cleared
<1>3. CASE ~Fits(p)
  <2>1. Cut(p) = SubSeq(p, 1, MaxPath) /\ MaxPath < Len(p)
    BY <1>1, <1>3 DEF Cut, Fits
  <2>2. 1 \in Int /\ MaxPath \in Int /\ \A i \in 1..MaxPath : p[i] \in Clear
    BY <1>1, <2>1, ElementOfSeq
  <2> DEFINE u == SubSeq(p, 1, MaxPath)
  <2>3. u \in Seq(Clear) /\ Len(u) = IF 1 <= MaxPath THEN MaxPath - 1 + 1 ELSE 0
    BY <2>2, SubSeqProperties
  <2> HIDE DEF u
  <2>4. Len(u) = MaxPath
    BY <1>1, <2>3
  <2>5. u \in Seq(Clear) /\ Fits(u)
    BY <1>1, <2>3, <2>4 DEF Fits
  <2> QED
    BY <1>3, <2>1, <2>5, ClearedIsTokens DEF Cleared, u
<1> QED
  BY <1>2, <1>3

(* fix_path_for_device makes the root of no other path.                      *)
LEMMA FixedProperties ==
    ASSUME NEW p, Absolute(p), Fits(p)
    PROVE  /\ FixPathForDevice(p) \in Seq(Clear) /\ Fits(FixPathForDevice(p))
           /\ p # Root => FixPathForDevice(p) # Root
<1>1. /\ p \in Seq(Clear) /\ p # <<>> /\ Len(p) \in Nat /\ MaxPath \in Nat \ {0}
      /\ p[1] = "/" /\ Alternates(p) /\ Len(p) <= MaxPath
  BY LenProperties, PathAssumption DEF Absolute, Bare, Cleared, Fits
<1>2. CASE FixPathForDevice(p) = p
  BY <1>1, <1>2 DEF Fits
<1>3. CASE FixPathForDevice(p) # p
  <2>1. FixPathForDevice(p) = Tail(p)
    BY <1>3 DEF FixPathForDevice
  <2>2. /\ Tail(p) \in Seq(Clear) /\ Len(Tail(p)) = Len(p) - 1
        /\ \A i \in 1..Len(Tail(p)) : Tail(p)[i] = p[i + 1]
    BY <1>1, HeadTailProperties
  <2>3. Fits(Tail(p))
    BY <1>1, <2>2 DEF Fits
  <2>4. Tail(p) # Root
    <3> SUFFICES ASSUME Tail(p) = Root PROVE FALSE
      OBVIOUS
    <3> DEFINE t == Tail(p)
    <3>1. Len(t) = 1 /\ t[1] = "/"
      BY RootProperties DEF Absolute
    <3>a. Len(t) = Len(p) - 1 /\ \A i \in 1..Len(t) : t[i] = p[i + 1]
      BY <2>2
    <3> HIDE DEF t
    <3>b. 1 \in 1..Len(t)
      BY <3>1
    <3>2. Len(p) - 1 = 1 /\ t[1] = p[1 + 1]
      BY <3>1, <3>a, <3>b
    <3>3. 1 \in 1..(Len(p) - 1)
      BY <3>b, <3>a
    <3>4. p[1] = "/" <=> p[1 + 1] # "/"
      BY <1>1, <3>3 DEF Alternates
    <3> QED
      BY <1>1, <3>1, <3>2, <3>4
  <2> QED
    BY <2>1, <2>2, <2>3, <2>4
<1> QED
  BY <1>2, <1>3

-----------------------------------------------------------------------------
(* The invariant. The working directory is a text paths can be built on; the *)
(* path to rename is there only between RNFR and what comes next; no reply   *)
(* is given while a listing is sent.                                         *)
Types   == TypeOK /\ text \in Sent /\ got \in Sent /\ due \in Seq(Listable)
Working == Absolute(pwd) /\ Fits(pwd)
Kept    == mode = "none" => temp = named \/ left
Silent  == mode # "none" => reply = "none"

(* A listing has an open directory, or devices to come, or a line to send.   *)
Opened ==
    /\ mode = "none" => dir = Closed
    /\ mode # "none" /\ DeviceList =>
         dir = Closed /\ (size = 0 => index < Len(Devices))
    /\ mode # "none" /\ ~DeviceList /\ dir = Closed => size > 0

(* What is left of list_buf, and of the entries.                             *)
Unsent == IF size = 0 THEN <<>> ELSE Pending(size)
Rest ==
    IF dir # Closed THEN dir
    ELSE IF DeviceList THEN SubSeq(Devices, index + 1, Len(Devices)) ELSE <<>>

(* Of what is listed, some entries are taken and the rest is to come; what   *)
(* the client has and the rest of list_buf are the lines of those taken.     *)
Progress ==
    mode # "none" =>
        /\ ~stale => IF size = 0 THEN offset = 0 ELSE offset + size = Len(text)
        /\ \E n \in 0..Len(due) :
            /\ Rest = SubSeq(due, n + 1, Len(due))
            /\ ~stale => got \o Unsent = PrintedLines(SubSeq(due, 1, n))

IInv == Types /\ Working /\ Kept /\ Silent /\ Opened /\ Progress

LEMMA Listed ==
    /\ Entries \subseteq Listable /\ Devices \in Seq(Listable) /\ Len(Devices) \in Nat
    /\ \A es \in Seq(Entries) : es \in Seq(Listable) /\ es # Closed
    /\ \A i \in 1..Len(Devices) :
         Devices[i] \in Listable /\ IsListed(Devices[i]) /\ Devices[i].size \in 1..ListBuf
<1>1. Entries \subseteq Listable /\ Range(Devices) \subseteq Listable
  BY DEF Listable
<1>2. Devices \in Seq(Listable) /\ Len(Devices) \in Nat /\ DOMAIN Devices = 1..Len(Devices)
  BY <1>1, EntriesAssumption, SeqMonotonic, LenProperties
<1>3. ASSUME NEW es \in Seq(Entries) PROVE es \in Seq(Listable) /\ es # Closed
  <2>1. es \in Seq(Listable)
    BY <1>1, SeqMonotonic
  <2>2. ASSUME es = Closed PROVE FALSE
    <3>1. Len(es) = 1 /\ es[1].kind = "closed"
      BY <2>2 DEF Closed
    <3>a. 1 \in 1..Len(es)
      BY <3>1
    <3>2. es[1] \in Entries
      BY <3>a, ElementOfSeq
    <3>3. es[1].kind \in Kinds
      BY <3>2, EntriesAssumption
    <3> QED
      BY <3>1, <3>3 DEF Kinds
  <2> QED
    BY <2>1, <2>2
<1>4. ASSUME NEW i \in 1..Len(Devices)
      PROVE  Devices[i] \in Listable /\ IsListed(Devices[i]) /\ Devices[i].size \in 1..ListBuf
  <2>1. Devices[i] \in Listable /\ Devices[i].size \in 1..(ListBuf - 1) /\ Devices[i].kind = "listed"
    BY <1>2, EntriesAssumption, ElementOfSeq
  <2>2. ListBuf \in Nat
    BY EntriesAssumption
  <2> DEFINE k == Devices[i].size
  <2>3. k \in 1..ListBuf /\ k <= ListBuf
    <3>1. k \in 1..(ListBuf - 1)
      BY <2>1
    <3> HIDE DEF k
    <3> QED
      BY <2>2, <3>1
  <2> QED
    BY <2>1, <2>3 DEF IsListed
<1> QED
  BY <1>1, <1>2, <1>3, <1>4

LEMMA PendingIsPart == \A n \in Nat : Pending(n) = Part(text, offset, n)
BY DEF Pending, Part

LEMMA UnsentType ==
    ASSUME Types
    PROVE  Unsent \in Sent /\ \A n \in Nat : Pending(n) \in Sent
<1>1. text \in Sent /\ offset \in Nat /\ size \in Nat
  BY DEF Types, TypeOK
<1>2. \A n \in Nat : Pending(n) \in Sent
  BY <1>1, PendingIsPart, PartProperties
<1>3. <<>> \in Sent
  BY EmptySeq DEF Sent
<1> QED
  BY <1>1, <1>2, <1>3 DEF Unsent

LEMMA UnsentStaysTyped == Types' => (Unsent \in Sent)'
<1>1. Types => Unsent \in Sent
  BY UnsentType
<1> QED
  BY <1>1, PTL

LEMMA InitInvariant == Init => IInv
<1> SUFFICES ASSUME Init PROVE IInv
  OBVIOUS
<1>1. /\ <<>> \in Sent /\ <<>> \in Seq(Listable) /\ <<>> \in Seq(Clear) /\ <<>> \in Seq(Tokens)
      /\ Len(<<>>) = 0
  BY EmptySeq DEF Sent
<1>2. ListBuf \in Nat /\ MaxPath \in Nat /\ Len(Devices) \in Nat
  BY EntriesAssumption, PathAssumption, Listed
<1>3. Types
  <2>1. Fits(<<>>)
    BY <1>1, <1>2 DEF Fits
  <2>2. pwd \in Seq(Tokens) /\ Fits(pwd)
    BY RootProperties DEF Init
  <2>3. 0 \in 0..Len(Devices) /\ Len(<<>>) <= ListBuf /\ 0 \in Nat
    BY <1>1, <1>2
  <2>4. TypeOK
    BY <1>1, <2>1, <2>2, <2>3 DEF Init, TypeOK, Clear
  <2> QED
    BY <1>1, <2>4 DEF Init, Types
<1>4. Working
  BY RootProperties DEF Init, Working
<1> QED
  BY <1>3, <1>4 DEF Init, IInv, Kept, Silent, Opened, Progress

-----------------------------------------------------------------------------
(* Each action keeps the invariant.                                          *)
Replies == {"none", "200", "226", "250", "350", "425", "426", "450",
            "501", "503", "550", "553"}

LEMMA NothingTyped ==
    /\ <<>> \in Sent /\ <<>> \in Seq(Listable) /\ <<>> \in Seq(Clear) /\ <<>> \in Seq(Tokens)
    /\ Fits(<<>>) /\ Closed # <<>> /\ 0 \in Nat /\ 0 \in 0..Len(Devices)
<1>1. /\ <<>> \in Sent /\ <<>> \in Seq(Listable) /\ <<>> \in Seq(Clear) /\ <<>> \in Seq(Tokens)
      /\ Len(<<>>) = 0
  BY EmptySeq DEF Sent
<1>2. MaxPath \in Nat /\ Len(Devices) \in Nat
  BY PathAssumption, Listed
<1> QED
  BY <1>1, <1>2 DEF Fits, Closed

(* When nothing is sent there is only the types, the directory and temp_path *)
(* to see to.                                                                *)
LEMMA NothingSent ==
    ASSUME Types', Working', Kept', mode' = "none", dir' = Closed
    PROVE  IInv'
BY DEF IInv, Silent, Opened, Progress

LEMMA DirectorySet ==
    ASSUME Working, NEW p, Absolute(p), SetDirectory(p)
    PROVE  Working' /\ pwd' \in Seq(Tokens) /\ Fits(pwd') /\ reply' \in {"200", "550"}
<1>1. Absolute(pwd') /\ Fits(pwd') /\ reply' \in {"200", "550"}
  BY DEF Working, SetDirectory
<1>2. pwd' \in Seq(Tokens)
  BY <1>1, AbsoluteIsClean
<1> QED
  BY <1>1, <1>2 DEF Working

(* CWD and CDUP: all but pwd and the reply stays.                            *)
LEMMA MovedStep ==
    ASSUME IInv, Idle, KeepsList, KeepsTemp,
           Working', pwd' \in Seq(Tokens), Fits(pwd'), reply' \in {"200", "550"}
    PROVE  IInv'
<1>1. Types'
  BY NothingTyped DEF IInv, Types, TypeOK, Idle, KeepsList, KeepsTemp, list
<1>2. Kept'
  BY DEF IInv, Kept, Idle, KeepsList, KeepsTemp
<1>3. mode' = "none" /\ dir' = Closed
  BY DEF IInv, Opened, Idle, KeepsList, list
<1> QED
  BY <1>1, <1>2, <1>3, NothingSent

LEMMA CWDStep ==
    ASSUME IInv, NEW p \in Paths, CWD(p)
    PROVE  IInv'
<1>1. Absolute(p)
  BY PathsAreAbsolute DEF IInv, Working
<1>2. Working' /\ pwd' \in Seq(Tokens) /\ Fits(pwd') /\ reply' \in {"200", "550"}
  BY <1>1, DirectorySet DEF IInv, CWD
<1> QED
  BY <1>2, MovedStep DEF CWD

LEMMA CDUPStep ==
    ASSUME IInv, CDUP
    PROVE  IInv'
<1>1. Absolute(pwd) /\ Fits(pwd) /\ pwd \in Seq(Tokens)
  BY DEF IInv, Working, Types, TypeOK
<1>2. Absolute(BuildFullpath(pwd, <<"..">>))
  BY <1>1, UpIsTyped, FullpathProperties
<1>3. Working' /\ pwd' \in Seq(Tokens) /\ Fits(pwd') /\ reply' \in {"200", "550"}
  <2>1. CASE pwd = Root
    BY <1>1, <2>1 DEF CDUP, Working
  <2>2. CASE pwd # Root
    BY <1>2, <2>2, DirectorySet DEF IInv, CDUP
  <2> QED
    BY <2>1, <2>2
<1> QED
  BY <1>3, MovedStep DEF CDUP

(* What changes temp_path, but not the listing.                              *)
LEMMA RenamingStep ==
    ASSUME IInv, mode = "none", at = "poll", KeepsList, UNCHANGED pwd,
           temp' \in Seq(Clear), Fits(temp'), named' \in Seq(Tokens), left' \in BOOLEAN,
           renamed' \in Seq(Tokens), reply' \in Replies, temp' = named' \/ left'
    PROVE  IInv'
<1>1. Types'
  BY NothingTyped DEF IInv, Types, TypeOK, KeepsList, list, Replies, Clear
<1>2. Working' /\ Kept'
  BY DEF IInv, Working, Kept
<1>3. mode' = "none" /\ dir' = Closed
  BY DEF IInv, Opened, KeepsList, list
<1> QED
  BY <1>1, <1>2, <1>3, NothingSent

LEMMA RNFRStep ==
    ASSUME IInv, NEW p \in Paths, RNFR(p)
    PROVE  IInv'
<1>1. Absolute(p)
  BY PathsAreAbsolute DEF IInv, Working
<1>2. /\ Cut(p) \in Seq(Clear) /\ Fits(Cut(p)) /\ Cut(p) \in Seq(Tokens)
      /\ Fits(p) => Cut(p) = p
  BY <1>1, CutProperties
<1>3. /\ mode = "none" /\ at = "poll" /\ renamed' = <<>> /\ temp' = Cut(p)
      /\ named' = (IF Fits(p) THEN p ELSE <<>>) /\ left' = ~Fits(p)
      /\ reply' = (IF Fits(p) THEN "350" ELSE "550") /\ KeepsList /\ UNCHANGED pwd
  BY DEF RNFR, Idle
<1>4. named' \in Seq(Tokens) /\ left' \in BOOLEAN /\ reply' \in Replies
  BY <1>2, <1>3, NothingTyped DEF Replies, Fits
<1>5. temp' = named' \/ left'
  BY <1>2, <1>3
<1> QED
  BY <1>2, <1>3, <1>4, <1>5, NothingTyped, RenamingStep

LEMMA RNTOStep ==
    ASSUME IInv, NEW p \in Paths, RNTO(p)
    PROVE  IInv'
<1>1. /\ mode = "none" /\ at = "poll" /\ KeepsList /\ UNCHANGED pwd
      /\ temp' = <<>> /\ named' = <<>> /\ left' = FALSE
      /\ renamed' \in {<<>>, temp} /\ reply' \in Replies
  BY DEF RNTO, Replies
<1>2. temp \in Seq(Tokens)
  BY ClearedIsTokens DEF IInv, Types, TypeOK, Cleared, Clear
<1> QED
  BY <1>1, <1>2, NothingTyped, RenamingStep

(* The end of a listing, and of what no listing needed.                      *)
LEMMA EndStep ==
    ASSUME IInv, NEW r \in Replies, TransferEnd(r), got' \in Sent,
           renamed' \in {<<>>, renamed}
    PROVE  IInv'
<1>1. Types'
  BY NothingTyped DEF IInv, Types, TypeOK, TransferEnd, Replies, Clear
<1>2. Working' /\ Kept'
  BY DEF IInv, Working, Kept, TransferEnd
<1>3. mode' = "none" /\ dir' = Closed
  BY DEF TransferEnd
<1> QED
  BY <1>1, <1>2, <1>3, NothingSent

LEMMA ABORStep ==
    ASSUME IInv, ABOR
    PROVE  IInv'
BY EndStep, NothingTyped DEF ABOR, Replies

LEMMA PASVStep ==
    ASSUME IInv, PASV
    PROVE  IInv'
<1>1. Types'
  BY NothingTyped DEF IInv, Types, TypeOK, PASV, Idle, Replies, Clear
<1>2. Working' /\ Kept'
  BY DEF IInv, Working, Kept, PASV
<1>3. mode' = "none" /\ dir' = Closed
  BY DEF PASV, Idle
<1> QED
  BY <1>1, <1>2, <1>3, NothingSent

LEMMA RetrFailsStep ==
    ASSUME IInv, RetrFails
    PROVE  IInv'
<1>1. Types'
  BY NothingTyped DEF IInv, Types, TypeOK, RetrFails, KeepsTemp, Idle
<1>2. Working' /\ Kept'
  BY DEF IInv, Working, Kept, RetrFails, KeepsTemp, Idle
<1>3. mode' = "none" /\ dir' = Closed
  BY DEF IInv, Opened, RetrFails, Idle
<1> QED
  BY <1>1, <1>2, <1>3, NothingSent

-----------------------------------------------------------------------------
(* LIST and NLST.                                                            *)
LEMMA ListFailsStep ==
    ASSUME IInv, mode = "none", at = "poll", renamed' = <<>>,
           NEW q \in Seq(Clear), Fits(q), NEW r \in Replies, ListFails(q, r),
           text' \in Sent, Len(text') <= ListBuf, offset' \in Nat, size' \in Nat
    PROVE  IInv'
<1>1. Types'
  BY NothingTyped DEF IInv, Types, TypeOK, ListFails, Replies, Clear
<1>2. Working' /\ Kept'
  BY DEF IInv, Working, Kept, ListFails
<1>3. mode' = "none" /\ dir' = Closed
  BY DEF IInv, Opened, ListFails
<1> QED
  BY <1>1, <1>2, <1>3, NothingSent

LEMMA ListBeginsTypes ==
    ASSUME IInv, mode = "none", at = "poll", renamed' = <<>>,
           NEW m \in {"list", "nlst"}, NEW q \in Seq(Clear), Fits(q),
           NEW es \in Seq(Listable), ListBegins(m, q, es),
           dir' = Closed \/ dir' \in Seq(Entries), index' \in 0..Len(Devices),
           text' \in Sent, Len(text') <= ListBuf, offset' \in Nat, size' \in Nat,
           stale' \in BOOLEAN
    PROVE  Types' /\ Working' /\ Kept' /\ Silent' /\ mode' # "none" /\ temp' = q
           /\ due' = es /\ got' = <<>>
<1>1. Types'
  BY NothingTyped DEF IInv, Types, TypeOK, ListBegins, Clear
<1> QED
  BY <1>1 DEF IInv, Working, Kept, Silent, ListBegins

(* A listing that begins: of n entries taken, the lines are there.           *)
LEMMA ListingStarts ==
    ASSUME Types', NEW n \in 0..Len(due'), Rest' = SubSeq(due', n + 1, Len(due')),
           got' = <<>>,
           ~stale' => /\ IF size' = 0 THEN offset' = 0 ELSE offset' + size' = Len(text')
                      /\ Unsent' = PrintedLines(SubSeq(due', 1, n))
    PROVE  Progress'
<1>1. Unsent' \in Sent
  BY UnsentStaysTyped
<1>2. got' \o Unsent' = Unsent'
  <2> DEFINE u == Unsent'
  <2>1. u \in Seq(Sendable)
    BY <1>1 DEF Sent
  <2> HIDE DEF u
  <2>2. <<>> \o u = u
    BY <2>1, ConcatEmptySeq
  <2> QED
    BY <2>2 DEF u
<1> QED
  BY <1>2 DEF Progress

LEMMA NoneTaken ==
    ASSUME NEW q \in Seq(Listable)
    PROVE  /\ 0 \in 0..Len(q) /\ SubSeq(q, 0 + 1, Len(q)) = q
           /\ SubSeq(q, 1, 0) = <<>> /\ PrintedLines(SubSeq(q, 1, 0)) = <<>>
<1>1. Len(q) \in Nat
  BY LenProperties
<1>2. SubSeq(q, 1, Len(q)) = q /\ 0 + 1 = 1
  BY SubSeqFull
<1>3. SubSeq(q, 1, 0) = <<>>
  BY SubSeqEmpty
<1>4. 0 \in 0..Len(q)
  BY <1>1
<1>5. SubSeq(q, 0 + 1, Len(q)) = q
  BY <1>2
<1> QED
  BY <1>3, <1>4, <1>5, LinesOfEmpty

LEMMA ListDevicesStep ==
    ASSUME IInv, mode = "none", at = "poll", renamed' = <<>>,
           NEW m \in {"list", "nlst"}, NEW p, p \in Seq(Clear), Fits(p),
           IsDeviceList(p), ListBegins(m, p, Devices), index' = 0,
           stale' = (offset # 0 \/ size # 0), UNCHANGED <<dir, text, offset, size>>
    PROVE  IInv'
<1>1. dir' = Closed /\ offset \in Nat /\ size \in Nat /\ text \in Sent /\ Len(text) <= ListBuf
  BY DEF IInv, Opened, Types, TypeOK
<1>2. Devices \in Seq(Listable) /\ Len(Devices) \in Nat
  BY Listed
<1>3. /\ Types' /\ Working' /\ Kept' /\ Silent' /\ mode' # "none" /\ temp' = p
      /\ due' = Devices /\ got' = <<>>
  BY <1>1, <1>2, NothingTyped, ListBeginsTypes
<1>4. DeviceList'
  BY <1>3 DEF DeviceList, IsDeviceList
<1>5. Len(Devices) # 0
  BY <1>2, EntriesAssumption, EmptySeq DEF IsDeviceList
<1>6. Opened'
  <2>1. 0 < Len(Devices)
    BY <1>2, <1>5
  <2> QED
    BY <1>1, <1>3, <1>4, <2>1 DEF Opened
<1>7. Progress'
  <2>1. Rest' = SubSeq(due', 0 + 1, Len(due'))
    BY <1>1, <1>3, <1>4 DEF Rest
  <2>2. 0 \in 0..Len(due') /\ PrintedLines(SubSeq(due', 1, 0)) = <<>>
    BY <1>2, <1>3, NoneTaken
  <2>3. ~stale' => size' = 0 /\ offset' = 0 /\ Unsent' = <<>>
    BY DEF Unsent
  <2> QED
    BY <1>3, <2>1, <2>2, <2>3, ListingStarts
<1> QED
  BY <1>3, <1>6, <1>7 DEF IInv

LEMMA ListDirectoryStep ==
    ASSUME IInv, mode = "none", at = "poll", renamed' = <<>>,
           NEW m \in {"list", "nlst"}, NEW q, q \in Seq(Clear), Fits(q),
           ~IsDeviceList(q), NEW es \in Seq(Entries), ListBegins(m, q, es), dir' = es,
           stale' = (offset # 0 \/ size # 0), UNCHANGED <<index, text, offset, size>>
    PROVE  IInv'
<1>1. /\ offset \in Nat /\ size \in Nat /\ text \in Sent /\ Len(text) <= ListBuf
      /\ index \in 0..Len(Devices)
  BY DEF IInv, Types, TypeOK
<1>2. es \in Seq(Listable) /\ es # Closed
  BY Listed
<1>3. /\ Types' /\ Working' /\ Kept' /\ Silent' /\ mode' # "none" /\ temp' = q
      /\ due' = es /\ got' = <<>>
  BY <1>1, <1>2, ListBeginsTypes
<1>4. ~DeviceList'
  BY <1>3 DEF DeviceList, IsDeviceList
<1>5. Opened'
  BY <1>2, <1>3, <1>4 DEF Opened
<1>6. Progress'
  <2>1. Rest' = SubSeq(due', 0 + 1, Len(due'))
    BY <1>2, <1>3, NoneTaken DEF Rest
  <2>2. 0 \in 0..Len(due') /\ PrintedLines(SubSeq(due', 1, 0)) = <<>>
    BY <1>2, <1>3, NoneTaken
  <2>3. ~stale' => size' = 0 /\ offset' = 0 /\ Unsent' = <<>>
    BY DEF Unsent
  <2> QED
    BY <1>3, <2>1, <2>2, <2>3, ListingStarts
<1> QED
  BY <1>3, <1>5, <1>6 DEF IInv

(* A line that is built, and what it is to be sent.                          *)
LEMMA LineBuilt ==
    ASSUME Types, NEW e \in Listable, BuildListEntry(e)
    PROVE  /\ text' \in Sent /\ Len(text') <= ListBuf /\ size' \in Nat
           /\ e.size <= ListBuf =>
                /\ size' = e.size /\ size' > 0 /\ size' = Len(text')
                /\ offset' = 0 => Unsent' = Printed(e)
<1>1. /\ text' = Printed(e) /\ size' = (IF e.size > ListBuf THEN size ELSE e.size)
      /\ Printed(e) \in Sent /\ e.size \in Nat \ {0} /\ ListBuf \in Nat /\ size \in Nat
      /\ Len(Printed(e)) = IF e.size <= ListBuf THEN e.size ELSE ListBuf
  BY PrintedProperties, EntriesAssumption DEF BuildListEntry, Types, TypeOK
<1> DEFINE k == e.size
           l == Len(Printed(e))
<1>2. /\ size' = (IF k > ListBuf THEN size ELSE k) /\ k \in Nat \ {0} /\ size \in Nat
      /\ ListBuf \in Nat /\ l = (IF k <= ListBuf THEN k ELSE ListBuf)
  BY <1>1
<1> HIDE DEF k, l
<1>3. size' \in Nat /\ l <= ListBuf
  BY <1>2
<1>4. k <= ListBuf => size' = k /\ size' > 0 /\ size' = l
  BY <1>2
<1>5. ASSUME k <= ListBuf, offset' = 0 PROVE Unsent' = Printed(e)
  <2>1. Unsent' = Part(text', 0, l)
    BY <1>4, <1>5 DEF Unsent, Pending, Part
  <2>2. Part(Printed(e), 0, l) = Printed(e)
    BY <1>1, PartIsWhole DEF l
  <2> QED
    BY <1>1, <2>1, <2>2
<1> QED
  BY <1>1, <1>3, <1>4, <1>5 DEF k, l

LEMMA OneEntry ==
    ASSUME NEW e \in Listable, IsListed(e)
    PROVE  /\ <<e>> \in Seq(Listable) /\ 1 \in 0..Len(<<e>>)
           /\ SubSeq(<<e>>, 1 + 1, Len(<<e>>)) = <<>>
           /\ PrintedLines(SubSeq(<<e>>, 1, 1)) = Printed(e)
<1> DEFINE q == <<e>>
<1>1. q \in Seq(Listable) /\ Len(q) = 1 /\ q = Append(<<>>, e) /\ <<>> \in Seq(Listable)
  OBVIOUS
<1> HIDE DEF q
<1>2. 1 \in 0..Len(q) /\ SubSeq(q, 1 + 1, Len(q)) = <<>>
  BY <1>1, SubSeqEmpty
<1>3. SubSeq(q, 1, 1) = q
  BY <1>1, SubSeqFull
<1>4. PrintedLines(q) = PrintedLines(<<>>) \o Printed(e)
  BY <1>1, LinesOfAppend
<1>5. <<>> \o Printed(e) = Printed(e)
  <2> DEFINE u == Printed(e)
  <2>1. u \in Seq(Sendable)
    BY PrintedProperties DEF Sent
  <2> HIDE DEF u
  <2>2. <<>> \o u = u
    BY <2>1, ConcatEmptySeq
  <2> QED
    BY <2>2 DEF u
<1> QED
  BY <1>1, <1>2, <1>3, <1>4, <1>5, LinesOfEmpty DEF q

LEMMA ListFileStep ==
    ASSUME IInv, mode = "none", at = "poll", renamed' = <<>>,
           NEW q, q \in Seq(Clear), Fits(q), ~IsDeviceList(q),
           NEW e \in Entries, BuildListEntry(e), IsListed(e), ListBegins("list", q, <<e>>),
           stale' = (offset # 0), UNCHANGED <<dir, index, offset>>
    PROVE  IInv'
<1>1. /\ offset \in Nat /\ index \in 0..Len(Devices) /\ dir = Closed /\ Types
  BY DEF IInv, Types, TypeOK, Opened
<1>2. e \in Listable /\ e.size <= ListBuf
  BY Listed DEF IsListed
<1>3. /\ <<e>> \in Seq(Listable) /\ 1 \in 0..Len(<<e>>)
      /\ SubSeq(<<e>>, 1 + 1, Len(<<e>>)) = <<>>
      /\ PrintedLines(SubSeq(<<e>>, 1, 1)) = Printed(e)
  BY <1>2, OneEntry
<1>4. /\ text' \in Sent /\ Len(text') <= ListBuf /\ size' \in Nat
      /\ size' > 0 /\ size' = Len(text')
      /\ offset' = 0 => Unsent' = Printed(e)
  BY <1>1, <1>2, LineBuilt
<1>5. /\ Types' /\ Working' /\ Kept' /\ Silent' /\ mode' # "none" /\ temp' = q
      /\ due' = <<e>> /\ got' = <<>>
  <2> DEFINE es == <<e>>
  <2>1. es \in Seq(Listable) /\ ListBegins("list", q, es)
    BY <1>3
  <2> HIDE DEF es
  <2>2. /\ Types' /\ Working' /\ Kept' /\ Silent' /\ mode' # "none" /\ temp' = q
        /\ due' = es /\ got' = <<>>
    BY <1>1, <1>4, <2>1, ListBeginsTypes
  <2> QED
    BY <2>2 DEF es
<1>6. ~DeviceList' /\ dir' = Closed
  BY <1>1, <1>5 DEF DeviceList, IsDeviceList
<1>7. Opened'
  BY <1>4, <1>5, <1>6 DEF Opened
<1>8. Progress'
  <2>1. Rest' = SubSeq(due', 1 + 1, Len(due')) /\ 1 \in 0..Len(due')
    BY <1>3, <1>5, <1>6 DEF Rest
  <2>2. ~stale' => offset' = 0 /\ Unsent' = PrintedLines(SubSeq(due', 1, 1))
    BY <1>3, <1>4, <1>5
  <2>3. ~stale' => IF size' = 0 THEN offset' = 0 ELSE offset' + size' = Len(text')
    BY <1>4, <2>2
  <2> QED
    BY <1>5, <2>1, <2>2, <2>3, ListingStarts
<1> QED
  BY <1>5, <1>7, <1>8 DEF IInv

LEMMA DirectoriesAreEntries == \A es \in Directories : es \in Seq(Entries)
<1> SUFFICES ASSUME NEW es \in Directories PROVE es \in Seq(Entries)
  OBVIOUS
<1>1. PICK k \in 0..MaxEntries : es \in [1..k -> Entries]
  BY DEF Directories, BoundedSeq, SeqOf
<1>2. k \in Nat
  BY EntriesAssumption
<1> QED
  BY <1>1, <1>2, SeqDef

LEMMA LISTStep ==
    ASSUME IInv, NEW p \in Paths, NEW m \in {"list", "nlst"}, LIST(m, p)
    PROVE  IInv'
<1>1. /\ mode = "none" /\ at = "poll" /\ renamed' = <<>>
      /\ Types /\ text \in Sent /\ Len(text) <= ListBuf /\ offset \in Nat /\ size \in Nat
  BY DEF LIST, Idle, IInv, Types, TypeOK
<1>2. Absolute(p) /\ p \in Seq(Clear)
  BY PathsAreAbsolute DEF IInv, Working, Absolute, Bare, Cleared
<1>3. "425" \in Replies /\ "450" \in Replies /\ "501" \in Replies
  BY DEF Replies
<1>4. CASE ~Fits(p) /\ ListFails(Cut(p), "501") /\ UNCHANGED <<text, offset, size>>
  BY <1>1, <1>2, <1>3, <1>4, CutProperties, ListFailsStep
<1>5. ASSUME Fits(p), ListDevices(m, p) PROVE IInv'
  <2>1. CASE ListFails(p, "425") /\ UNCHANGED <<text, offset, size>>
    BY <1>1, <1>2, <1>3, <1>5, <2>1, ListFailsStep
  <2>2. CASE /\ ListBegins(m, p, Devices) /\ index' = 0
             /\ stale' = (offset # 0 \/ size # 0) /\ UNCHANGED <<dir, text, offset, size>>
    BY <1>1, <1>2, <1>5, <2>2, ListDevicesStep DEF ListDevices
  <2> QED
    BY <1>5, <2>1, <2>2 DEF ListDevices
<1> DEFINE q == FixPathForDevice(p)
<1>6. ASSUME Fits(p), ~IsDeviceList(p)
      PROVE  q \in Seq(Clear) /\ Fits(q) /\ ~IsDeviceList(q)
  BY <1>2, <1>6, FixedProperties DEF IsDeviceList, FixPathForDevice
<1> HIDE DEF q
<1>7. ASSUME Fits(p), ~IsDeviceList(p), ListDirectory(m, q) PROVE IInv'
  <2>1. q \in Seq(Clear) /\ Fits(q) /\ ~IsDeviceList(q)
    BY <1>6, <1>7
  <2>2. CASE ListFails(q, "450") /\ UNCHANGED <<text, offset, size>>
    BY <1>1, <1>3, <2>1, <2>2, ListFailsStep
  <2>3. CASE ListFails(q, "425") /\ UNCHANGED <<text, offset, size>>
    BY <1>1, <1>3, <2>1, <2>3, ListFailsStep
  <2>4. ASSUME NEW es \in Directories, ListBegins(m, q, es), dir' = es,
               stale' = (offset # 0 \/ size # 0), UNCHANGED <<index, text, offset, size>>
        PROVE  IInv'
    BY <1>1, <2>1, <2>4, DirectoriesAreEntries, ListDirectoryStep
  <2> QED
    BY <1>7, <2>2, <2>3, <2>4 DEF ListDirectory
<1>8. ASSUME Fits(p), ~IsDeviceList(p), NEW e \in Entries, ListFile(q, e) PROVE IInv'
  <2>1. q \in Seq(Clear) /\ Fits(q) /\ ~IsDeviceList(q)
    BY <1>6, <1>8
  <2>2. BuildListEntry(e) /\ UNCHANGED offset /\ e \in Listable
    BY <1>8, Listed DEF ListFile
  <2>3. text' \in Sent /\ Len(text') <= ListBuf /\ size' \in Nat
    BY <1>1, <2>2, LineBuilt
  <2>4. ASSUME NEW r \in {"425", "450"}, ListFails(q, r) PROVE IInv'
    BY <1>1, <1>3, <2>1, <2>2, <2>3, <2>4, ListFailsStep
  <2>5. CASE /\ IsListed(e) /\ ListBegins("list", q, <<e>>) /\ stale' = (offset # 0)
             /\ UNCHANGED <<dir, index>>
    BY <1>1, <2>1, <2>2, <2>5, ListFileStep
  <2> QED
    BY <1>8, <2>4, <2>5 DEF ListFile
<1> QED
  BY <1>4, <1>5, <1>7, <1>8 DEF LIST, q

-----------------------------------------------------------------------------
(* A turn of ftp_dir_data_transfer_progress.                                 *)
LEMMA ListingStays ==
    ASSUME Opened, Progress, UNCHANGED <<temp, mode, list, got, due, stale>>
    PROVE  Opened' /\ Progress'
<1>1. DeviceList' = DeviceList /\ Rest' = Rest
  BY DEF DeviceList, Rest, list
<1>2. Unsent' = Unsent
  BY DEF Unsent, Pending, list
<1> QED
  BY <1>1, <1>2 DEF Opened, Progress, list

LEMMA DataReadyStep ==
    ASSUME IInv, DataReady
    PROVE  IInv'
<1>1. UNCHANGED <<temp, mode, list, got, due, stale>>
  BY DEF DataReady, history
<1>2. Opened' /\ Progress'
  BY <1>1, ListingStays DEF IInv
<1>3. Types'
  BY NothingTyped DEF IInv, Types, TypeOK, DataReady, list, history
<1> QED
  BY <1>2, <1>3 DEF IInv, Working, Kept, Silent, DataReady, list, history

LEMMA SendBlocksStep ==
    ASSUME IInv, SendBlocks
    PROVE  IInv'
<1>1. UNCHANGED <<temp, mode, list, got, due, stale>>
  BY DEF SendBlocks, history
<1>2. Opened' /\ Progress'
  BY <1>1, ListingStays DEF IInv
<1>3. Types'
  BY DEF IInv, Types, TypeOK, SendBlocks, list, history
<1> QED
  BY <1>2, <1>3 DEF IInv, Working, Kept, Silent, SendBlocks, list, history

LEMMA SendFailsStep ==
    ASSUME IInv, SendFails
    PROVE  IInv'
<1>1. got' \in Sent /\ renamed' \in {<<>>, renamed} /\ "426" \in Replies
  BY DEF IInv, Types, SendFails, Replies
<1> QED
  BY <1>1, EndStep DEF SendFails

(* What is sent and what is then left are what was left.                     *)
LEMMA SentInParts ==
    ASSUME Types, NEW n \in Nat, n < size,
           offset' = offset + n, size' = size - n, text' = text, got' = got \o Pending(n)
    PROVE  /\ got' \in Sent /\ got' \o Unsent' = got \o Unsent
           /\ size' \in Nat /\ size' > 0 /\ offset' \in Nat /\ offset' + size' = offset + size
<1>1. text \in Sent /\ offset \in Nat /\ size \in Nat /\ got \in Seq(Sendable)
  BY DEF Types, TypeOK, Sent
<1>2. /\ size' \in Nat /\ size' > 0 /\ offset' \in Nat /\ offset' + size' = offset + size
      /\ size > 0 /\ n + (size - n) = size /\ size - n \in Nat
  BY <1>1
<1> DEFINE a == Part(text, offset, n)
           b == Part(text, offset + n, size - n)
           c == Part(text, offset, size)
<1>3. Pending(n) = a /\ Unsent = c
  BY <1>1, <1>2, PendingIsPart DEF Unsent
<1>4. Unsent' = b
  BY <1>2 DEF Unsent, Pending, Part
<1>5. a \in Seq(Sendable) /\ b \in Seq(Sendable)
  BY <1>1, <1>2, PartProperties DEF Sent
<1>6. a \o b = c
  <2> DEFINE k == size - n
  <2>a. k \in Nat
    BY <1>2
  <2>1. n + k = size
    BY <1>2
  <2>b. text \in Sent /\ offset \in Nat
    BY <1>1
  <2> HIDE DEF k
  <2>2. Part(text, offset, n) \o Part(text, offset + n, k) = Part(text, offset, n + k)
    BY ONLY n \in Nat, <2>a, <2>b, PartsJoin
  <2> QED
    BY <2>1, <2>2 DEF k
<1> HIDE DEF a, b, c
<1>7. (got \o a) \o b = got \o (a \o b)
  <2> DEFINE g == got
  <2>1. g \in Seq(Sendable)
    BY <1>1 DEF Sent
  <2> HIDE DEF g
  <2>2. (g \o a) \o b = g \o (a \o b)
    BY ONLY <2>1, <1>5, SentJoins
  <2> QED
    BY <2>2 DEF g
<1>8. got \o a \in Seq(Sendable)
  BY <1>1, <1>5, ConcatProperties
<1> QED
  BY <1>2, <1>3, <1>4, <1>6, <1>7, <1>8 DEF Sent

LEMMA SendPartStep ==
    ASSUME IInv, NEW n \in 0..(ListBuf - 1), SendPart(n)
    PROVE  IInv'
<1>1. /\ n \in Nat /\ n < size /\ mode # "none"
      /\ offset' = offset + n /\ size' = size - n /\ text' = text /\ got' = got \o Pending(n)
      /\ at' = "poll"
      /\ UNCHANGED <<pwd, temp, mode, dir, index, conn, reply, renamed, named, left, due, stale>>
  BY EntriesAssumption DEF SendPart, Turn
<1>2. /\ got' \in Sent /\ got' \o Unsent' = got \o Unsent
      /\ size' \in Nat /\ size' > 0 /\ offset' \in Nat /\ offset' + size' = offset + size
  BY <1>1, SentInParts DEF IInv
<1>3. size \in Nat /\ size > 0
  BY <1>1 DEF IInv, Types, TypeOK
<1>4. Types'
  BY <1>1, <1>2 DEF IInv, Types, TypeOK
<1>5. DeviceList' = DeviceList /\ Rest' = Rest
  BY <1>1 DEF DeviceList, Rest
<1>6. Opened'
  <2>1. size' # 0
    BY <1>2
  <2> QED
    BY <1>1, <1>2, <1>5, <2>1 DEF IInv, Opened
<1>7. Progress'
  <2>1. size # 0 /\ size' # 0
    BY <1>2, <1>3
  <2>2. ~stale => offset + size = Len(text)
    BY <1>1, <2>1 DEF IInv, Progress
  <2>3. ~stale' => IF size' = 0 THEN offset' = 0 ELSE offset' + size' = Len(text')
    BY <1>1, <1>2, <2>1, <2>2
  <2>4. PICK k \in 0..Len(due) :
            /\ Rest = SubSeq(due, k + 1, Len(due))
            /\ ~stale => got \o Unsent = PrintedLines(SubSeq(due, 1, k))
    BY <1>1 DEF IInv, Progress
  <2> QED
    BY <1>1, <1>2, <1>5, <2>3, <2>4 DEF Progress
<1> QED
  BY <1>1, <1>4, <1>6, <1>7 DEF IInv, Working, Kept, Silent

LEMMA SendAllStep ==
    ASSUME IInv, SendAll
    PROVE  IInv'
<1>1. mode # "none" /\ size > 0 /\ got' = got \o Pending(size) /\ size \in Nat
  BY DEF SendAll, Turn, IInv, Types, TypeOK
<1>2. got' \in Sent /\ got \in Sent
  <2>1. got \in Sent /\ Pending(size) \in Sent
    BY <1>1, UnsentType DEF IInv, Types
  <2> QED
    BY <1>1, <2>1, ConcatProperties DEF Sent
<1>3. CASE OnlyLine
  <2>1. TransferEnd("226") /\ renamed' \in {<<>>, renamed} /\ "226" \in Replies
    BY <1>3 DEF SendAll, Replies
  <2> QED
    BY <1>2, <2>1, EndStep
<1>4. CASE ~OnlyLine
  <2>1. /\ text' = <<NUL>> /\ offset' = 0 /\ size' = 0
        /\ UNCHANGED <<pwd, temp, mode, dir, index, conn, at, reply, renamed,
                       named, left, due, stale>>
    BY <1>4 DEF SendAll
  <2>2. Types'
    <3>1. <<NUL>> \in Sent /\ Len(<<NUL>>) = 1
      BY DEF Sent, Sendable
    <3>2. Len(<<NUL>>) <= ListBuf
      BY <3>1, EntriesAssumption
    <3> DEFINE nul == <<NUL>>
    <3>3. text' = nul /\ nul \in Sent /\ Len(nul) <= ListBuf
      BY <2>1, <3>1, <3>2
    <3> HIDE DEF nul
    <3>4. Types /\ TypeOK
      BY DEF IInv, Types
    <3>5. TypeOK'
      <4>1. Len(text') <= ListBuf /\ offset' \in Nat /\ size' \in Nat
        BY <2>1, <3>3, NothingTyped
      <4>2. /\ pwd \in Seq(Tokens) /\ Fits(pwd)
            /\ temp \in Seq(Tokens \ {"\\"}) /\ Fits(temp)
            /\ mode \in {"none", "list", "nlst"}
            /\ dir = Closed \/ dir \in Seq(Entries)
            /\ index \in 0..Len(Devices)
            /\ conn \in BOOLEAN /\ at \in {"poll", "loop"}
            /\ reply \in Replies
            /\ renamed \in Seq(Tokens) /\ named \in Seq(Tokens)
            /\ left \in BOOLEAN /\ stale \in BOOLEAN
        BY <3>4 DEF TypeOK, Replies
      <4>3. /\ (pwd \in Seq(Tokens) /\ Fits(pwd))'
            /\ (temp \in Seq(Tokens \ {"\\"}) /\ Fits(temp))'
            /\ (dir = Closed \/ dir \in Seq(Entries))'
            /\ (index \in 0..Len(Devices))'
            /\ (renamed \in Seq(Tokens) /\ named \in Seq(Tokens))'
        BY ONLY <2>1, <4>2 DEF Fits
      <4>4. /\ mode' \in {"none", "list", "nlst"}
            /\ conn' \in BOOLEAN /\ at' \in {"poll", "loop"}
            /\ reply' \in Replies
            /\ left' \in BOOLEAN /\ stale' \in BOOLEAN
        BY ONLY <2>1, <4>2
      <4> QED
        BY ONLY <4>1, <4>3, <4>4 DEF TypeOK, Replies
    <3> QED
      BY <1>2, <2>1, <3>3, <3>4, <3>5 DEF Types
  <2>3. DeviceList' = DeviceList /\ Rest' = Rest
    BY <2>1 DEF DeviceList, Rest
  <2>4. Opened'
    <3>1. DeviceList => dir = Closed /\ index # Len(Devices)
      BY <1>1, <1>4 DEF IInv, Opened, OnlyLine
    <3>2. index \in 0..Len(Devices) /\ Len(Devices) \in Nat
      BY Listed DEF IInv, Types, TypeOK
    <3>3. DeviceList => dir = Closed /\ index < Len(Devices)
      BY <3>1, <3>2
    <3>4. ~DeviceList => dir # Closed
      BY <1>4 DEF OnlyLine
    <3> QED
      BY <1>1, <2>1, <2>3, <3>3, <3>4 DEF Opened
  <2>5. Progress'
    <3>1. PICK k \in 0..Len(due) :
              /\ Rest = SubSeq(due, k + 1, Len(due))
              /\ ~stale => got \o Unsent = PrintedLines(SubSeq(due, 1, k))
      BY <1>1 DEF IInv, Progress
    <3>2. Unsent' = <<>> /\ Unsent = Pending(size)
      BY <1>1, <2>1 DEF Unsent
    <3>3. got' \o Unsent' = got \o Unsent
      <4> DEFINE g == got'
      <4>1. g \in Seq(Sendable)
        BY <1>2 DEF Sent
      <4> HIDE DEF g
      <4>2. g \o <<>> = g
        BY <4>1, ConcatEmptySeq
      <4> QED
        BY <1>1, <3>2, <4>2 DEF g
    <3> QED
      BY <2>1, <2>3, <3>1, <3>3 DEF Progress
  <2> QED
    BY <1>1, <2>1, <2>2, <2>4, <2>5 DEF IInv, Working, Kept, Silent
<1> QED
  BY <1>3, <1>4

(* The next entry: its line, if it has one, follows what the client has.     *)
LEMMA EntryFollows ==
    ASSUME Types, Types', Progress, mode # "none", size = 0, Rest # <<>>,
           UNCHANGED <<offset, got, due, stale>>, Rest' = Tail(Rest),
           IF IsListed(Head(Rest)) THEN BuildListEntry(Head(Rest)) ELSE size' = 0
    PROVE  Progress'
<1>1. PICK k \in 0..Len(due) :
          /\ Rest = SubSeq(due, k + 1, Len(due))
          /\ ~stale => got \o Unsent = PrintedLines(SubSeq(due, 1, k))
  BY DEF Progress
<1> DEFINE e == Head(Rest)
<1>2. due \in Seq(Listable) /\ got \in Seq(Sendable)
  BY DEF Types, Sent
<1>3. /\ k + 1 \in 0..Len(due) /\ e \in Listable
      /\ Tail(Rest) = SubSeq(due, (k + 1) + 1, Len(due))
      /\ PrintedLines(SubSeq(due, 1, k + 1)) =
            IF IsListed(e) THEN PrintedLines(SubSeq(due, 1, k)) \o Printed(e)
            ELSE PrintedLines(SubSeq(due, 1, k))
  BY <1>1, <1>2, EntryTaken
<1> HIDE DEF e
<1>4. ~stale => offset' = 0 /\ got = PrintedLines(SubSeq(due, 1, k))
  <2>1. got \o <<>> = got
    BY <1>2, ConcatEmptySeq
  <2>2. Unsent = <<>>
    BY DEF Unsent
  <2>3. ~stale => offset = 0
    BY DEF Progress
  <2> QED
    BY <1>1, <2>1, <2>2, <2>3
<1>5. CASE IsListed(e)
  <2>1. /\ size' > 0 /\ size' = Len(text') /\ size' \in Nat
        /\ offset' = 0 => Unsent' = Printed(e)
    <3>1. e.size <= ListBuf /\ BuildListEntry(e)
      BY <1>5 DEF IsListed, e
    <3> QED
      BY <1>3, <3>1, LineBuilt
  <2>2. ~stale' => IF size' = 0 THEN offset' = 0 ELSE offset' + size' = Len(text')
    BY <1>4, <2>1
  <2>3. ~stale' => got' \o Unsent' = PrintedLines(SubSeq(due', 1, k + 1))
    BY <1>3, <1>4, <1>5, <2>1
  <2> QED
    BY <1>3, <2>2, <2>3 DEF Progress
<1>6. CASE ~IsListed(e)
  <2>1. size' = 0 /\ Unsent' = <<>>
    BY <1>6 DEF Unsent, e
  <2>2. ~stale' => IF size' = 0 THEN offset' = 0 ELSE offset' + size' = Len(text')
    BY <1>4, <2>1
  <2>3. got \o <<>> = got
    BY <1>2, ConcatEmptySeq
  <2>4. ~stale' => got' \o Unsent' = PrintedLines(SubSeq(due', 1, k + 1))
    BY <1>3, <1>4, <1>6, <2>1, <2>3
  <2> QED
    BY <1>3, <2>2, <2>4 DEF Progress
<1> QED
  BY <1>5, <1>6

LEMMA NextDeviceStep ==
    ASSUME IInv, NextDevice
    PROVE  IInv'
<1>1. /\ mode # "none" /\ size = 0 /\ DeviceList /\ index' = index + 1
      /\ BuildListEntry(Devices[index + 1])
      /\ UNCHANGED <<pwd, temp, mode, dir, offset, conn, at, reply, renamed, history>>
  BY DEF NextDevice, Turn
<1>2. dir = Closed /\ index \in Nat /\ index < Len(Devices) /\ Len(Devices) \in Nat
  BY <1>1, Listed DEF IInv, Opened, Types, TypeOK
<1> DEFINE e == Devices[index + 1]
<1>3. index + 1 \in 1..Len(Devices) /\ index + 1 \in 0..Len(Devices)
      /\ Len(Devices) \in (index + 1)..Len(Devices)
  BY <1>2
<1>4. e \in Listable /\ IsListed(e) /\ e.size <= ListBuf
  BY <1>3, Listed DEF IsListed
<1>5. text' \in Sent /\ Len(text') <= ListBuf /\ size' \in Nat /\ size' > 0
  BY <1>1, <1>4, LineBuilt DEF IInv
<1>6. Types'
  BY <1>1, <1>3, <1>5 DEF IInv, Types, TypeOK, history
<1>7. DeviceList'
  BY <1>1 DEF DeviceList, IsDeviceList
<1>8. Opened'
  BY <1>1, <1>2, <1>5, <1>7 DEF Opened
<1>9. Progress'
  <2>1. Rest = SubSeq(Devices, index + 1, Len(Devices)) /\ dir' = Closed
    BY <1>1, <1>2 DEF Rest
  <2>2. Rest' = SubSeq(Devices, (index + 1) + 1, Len(Devices))
    BY <1>1, <1>7, <2>1 DEF Rest
  <2>3. Devices \in Seq(Listable)
    BY Listed
  <2>4. Head(Rest) = e /\ Rest' = Tail(Rest)
    BY <1>3, <2>1, <2>2, <2>3, HeadTailOfSubSeq
  <2>5. Rest # <<>>
    <3>1. Len(Rest) = Len(Devices) - index
      <4>1. index \in 0..Len(Devices)
        BY <1>2
      <4> QED
        BY <2>1, <2>3, <4>1, CutSequence
    <3>2. Len(<<>>) = 0 /\ Len(Devices) - index # 0
      BY <1>2
    <3> QED
      BY <3>1, <3>2
  <2> HIDE DEF e
  <2>6. UNCHANGED <<offset, got, due, stale>>
    BY <1>1 DEF history
  <2> QED
    BY <1>1, <1>4, <1>6, <2>4, <2>5, <2>6, EntryFollows DEF IInv, e
<1> QED
  BY <1>1, <1>6, <1>8, <1>9 DEF IInv, Working, Kept, Silent, history

LEMMA NextEntryStep ==
    ASSUME IInv, NextEntry
    PROVE  IInv'
<1>1. /\ mode # "none" /\ size = 0 /\ ~DeviceList /\ dir # Closed /\ dir # <<>>
      /\ dir' = Tail(dir)
      /\ UNCHANGED <<pwd, temp, mode, index, offset, conn, at, reply, renamed, history>>
  BY DEF NextEntry, Turn
<1>2. dir \in Seq(Entries) /\ Types
  BY <1>1 DEF IInv, Types, TypeOK
<1> DEFINE e == Head(dir)
<1>3. e \in Entries /\ Tail(dir) \in Seq(Entries)
  BY <1>1, <1>2, HeadTailProperties
<1>4. e \in Listable /\ dir' # Closed
  BY <1>1, <1>3, Listed
<1>6. IF e.kind = "listed" THEN BuildListEntry(e) ELSE UNCHANGED <<text, size>>
  BY DEF NextEntry
<1>7. text' \in Sent /\ Len(text') <= ListBuf /\ size' \in Nat
  <2>1. CASE e.kind = "listed"
    BY <1>2, <1>4, <1>6, <2>1, LineBuilt
  <2>2. CASE e.kind # "listed"
    BY <1>2, <1>6, <2>2 DEF Types, TypeOK
  <2> QED
    BY <2>1, <2>2
<1>8. Types'
  BY <1>1, <1>3, <1>7 DEF IInv, Types, TypeOK, history
<1>9. ~DeviceList'
  BY <1>1 DEF DeviceList, IsDeviceList
<1>10. Opened'
  BY <1>1, <1>4, <1>9 DEF Opened
<1>11. Progress'
  <2>1. Rest = dir /\ Rest' = Tail(Rest)
    BY <1>1, <1>4 DEF Rest
  <2>2. IF IsListed(e) THEN BuildListEntry(e) ELSE size' = 0
    <3>1. CASE IsListed(e)
      BY <1>6, <3>1 DEF IsListed
    <3>2. CASE ~IsListed(e) /\ e.kind # "listed"
      BY <1>1, <1>6, <3>2
    <3>3. CASE ~IsListed(e) /\ e.kind = "listed"
      <4>1. ~(e.size <= ListBuf) /\ BuildListEntry(e)
        BY <1>6, <3>3 DEF IsListed
      <4>2. e.size \in Nat /\ ListBuf \in Nat
        BY <1>4, PrintedProperties, EntriesAssumption
      <4>3. e.size > ListBuf
        BY <4>1, <4>2
      <4> QED
        BY <1>1, <3>3, <4>1, <4>3 DEF BuildListEntry
    <3> QED
      BY <3>1, <3>2, <3>3
  <2> HIDE DEF e
  <2>3. Head(Rest) = e
    BY <2>1 DEF e
  <2>4. UNCHANGED <<offset, got, due, stale>>
    BY <1>1 DEF history
  <2> QED
    BY <1>1, <1>2, <1>8, <2>1, <2>2, <2>3, <2>4, EntryFollows DEF IInv
<1> QED
  BY <1>1, <1>8, <1>10, <1>11 DEF IInv, Working, Kept, Silent, history

LEMMA NoMoreEntriesStep ==
    ASSUME IInv, NoMoreEntries
    PROVE  IInv'
<1>1. got' \in Sent /\ renamed' \in {<<>>, renamed} /\ "226" \in Replies
  BY DEF IInv, Types, NoMoreEntries, Replies
<1> QED
  BY <1>1, EndStep DEF NoMoreEntries

LEMMA StutterStep ==
    ASSUME IInv, UNCHANGED vars
    PROVE  IInv'
<1>1. UNCHANGED <<temp, mode, list, got, due, stale>>
  BY DEF vars, history
<1>2. Opened' /\ Progress'
  BY <1>1, ListingStays DEF IInv
<1>3. Types'
  BY DEF IInv, Types, TypeOK, vars, list, history
<1> QED
  BY <1>2, <1>3 DEF IInv, Working, Kept, Silent, vars, list, history

LEMMA NextStep == IInv /\ [Next]_vars => IInv'
<1> SUFFICES ASSUME IInv, [Next]_vars PROVE IInv'
  OBVIOUS
<1>1. ASSUME NEW p \in Paths,
             CWD(p) \/ RNFR(p) \/ RNTO(p) \/ LIST("list", p) \/ LIST("nlst", p)
      PROVE  IInv'
  BY <1>1, CWDStep, RNFRStep, RNTOStep, LISTStep
<1>2. CASE CDUP \/ ABOR \/ PASV \/ RetrFails
  BY <1>2, CDUPStep, ABORStep, PASVStep, RetrFailsStep
<1>3. CASE DataReady \/ SendBlocks \/ SendFails
  BY <1>3, DataReadyStep, SendBlocksStep, SendFailsStep
<1>4. ASSUME NEW n \in 0..(ListBuf - 1), SendPart(n) PROVE IInv'
  BY <1>4, SendPartStep
<1>5. CASE SendAll \/ NextDevice \/ NextEntry \/ NoMoreEntries
  BY <1>5, SendAllStep, NextDeviceStep, NextEntryStep, NoMoreEntriesStep
<1>6. CASE UNCHANGED vars
  BY <1>6, StutterStep
<1> QED
  BY <1>1, <1>2, <1>3, <1>4, <1>5, <1>6 DEF Next

(* Whatever is typed, listed and sent, and however little is taken at a time.*)
THEOREM Invariance == Spec => []IInv
<1>1. Init => IInv
  BY InitInvariant
<1>2. IInv /\ [Next]_vars => IInv'
  BY NextStep
<1> QED
  BY <1>1, <1>2, PTL DEF Spec

-----------------------------------------------------------------------------
(* The type invariant: whatever is built of what is typed is copied to       *)
(* temp_path and pwd within their size, and lines to list_buf.               *)
THEOREM DirectoryTypes == Spec => []TypeOK
<1>1. IInv => TypeOK
  BY DEF IInv, Types
<1> QED
  BY <1>1, Invariance, PTL

(* Every path leads where its names lead from the working directory, for     *)
(* paths of any length and any slashes, wherever CWD and CDUP have moved.    *)
THEOREM EveryPathResolves == Spec => []PathsResolve
<1>1. IInv => PathsResolve
  <2> SUFFICES ASSUME IInv PROVE PathsResolve
    OBVIOUS
  <2>1. Absolute(pwd) /\ Fits(pwd)
    BY DEF IInv, Working
  <2>2. Clean(pwd)
    BY <2>1, AbsoluteIsClean
  <2>3. ASSUME NEW p \in TypedPaths
        PROVE  /\ Names(BuildFullpath(pwd, p)) = Resolved(Names(pwd), p)
               /\ Fits(BuildFullpath(pwd, p)) => Clean(BuildFullpath(pwd, p))
    <3>1. /\ Absolute(BuildFullpath(pwd, p))
          /\ Names(BuildFullpath(pwd, p)) = Resolved(Names(pwd), p)
      BY <2>1, TypedIsTyped, FullpathProperties
    <3> QED
      BY <3>1, AbsoluteIsClean
  <2> QED
    BY <2>2, <2>3 DEF PathsResolve
<1> QED
  BY <1>1, Invariance, PTL

(* A turn that wants another entry finds a directory or a device.            *)
THEOREM ThereIsANext == Spec => []HasNext
<1>1. IInv => HasNext
  BY DEF IInv, Opened, HasNext, Turn
<1> QED
  BY <1>1, Invariance, PTL

(* The client has the lines of the first entries, whole and in order, for    *)
(* directories of any length, lines of any size and any list_buf: of a line  *)
(* that is just as long as list_buf the last byte may be a NUL, and of no    *)
(* other any.                                                                *)
THEOREM ListingsAreExact == Spec => []ListingExact
<1>1. IInv => ListingExact
  <2> SUFFICES ASSUME IInv, mode # "none", ~stale
               PROVE  Delivered(got \o Unsent, Lines(due))
    BY DEF ListingExact, Unsent
  <2>1. PICK n \in 0..Len(due) : got \o Unsent = PrintedLines(SubSeq(due, 1, n))
    BY DEF IInv, Progress
  <2>2. due \in Seq(Listable)
    BY DEF IInv, Types
  <2>3. IsPrefix(got \o Unsent, PrintedLines(due))
    BY <2>1, <2>2, LinesOfFirst
  <2>4. got \o Unsent \in Sent /\ PrintedLines(due) \in Sent
    <3>1. SubSeq(due, 1, n) \in Seq(Listable)
      BY <2>2, CutSequence
    <3> QED
      BY <2>1, <2>2, <3>1, LinesType
  <2> QED
    BY <2>2, <2>3, <2>4, LinesAreDelivered, PrefixIsDelivered
<1> QED
  BY <1>1, Invariance, PTL

(* RNTO renames what RNFR named, whatever was listed or transferred between. *)
THEOREM RenamesWhatWasNamed == Spec => RenamesNamed
<1>1. IInv /\ [Next]_vars => [reply' = "250" => renamed' = named \/ left]_vars
  <2> SUFFICES ASSUME IInv, Next, reply' = "250"
               PROVE  renamed' = named \/ left
    OBVIOUS
  <2>1. mode # "none" => reply # "250"
    BY DEF IInv, Silent
  <2>2. ASSUME NEW p \in Paths,
               CWD(p) \/ RNFR(p) \/ RNTO(p) \/ LIST("list", p) \/ LIST("nlst", p)
        PROVE  renamed' = named \/ left
    <3>1. CASE CWD(p) \/ RNFR(p)
      BY <3>1 DEF CWD, SetDirectory, RNFR
    <3>2. CASE RNTO(p)
      BY <3>2 DEF RNTO, IInv, Kept
    <3>3. ASSUME NEW m, LIST(m, p) PROVE FALSE
      BY <3>3 DEF LIST, ListFails, ListBegins, ListDevices, ListDirectory, ListFile
    <3> QED
      BY <2>2, <3>1, <3>2, <3>3
  <2>3. CASE CDUP \/ ABOR \/ PASV \/ RetrFails
    BY <2>3 DEF CDUP, SetDirectory, ABOR, TransferEnd, PASV, RetrFails
  <2>4. CASE DataReady \/ SendBlocks \/ SendFails
    BY <2>1, <2>4 DEF DataReady, SendBlocks, SendFails, TransferEnd, Turn
  <2>5. ASSUME NEW n \in 0..(ListBuf - 1), SendPart(n) PROVE FALSE
    BY <2>1, <2>5 DEF SendPart, Turn
  <2>6. CASE SendAll \/ NextDevice \/ NextEntry \/ NoMoreEntries
    BY <2>1, <2>6 DEF SendAll, NextDevice, NextEntry, NoMoreEntries, TransferEnd, Turn
  <2> QED
    BY <2>2, <2>3, <2>4, <2>5, <2>6 DEF Next
<1> QED
  BY <1>1, Invariance, PTL DEF Spec, RenamesNamed

(* The replies that 226 is: the last line is sent, or there is no more.      *)
LEMMA CompleteBy ==
    ASSUME IInv, Next, reply' = "226"
    PROVE  \/ SendAll /\ OnlyLine
           \/ NoMoreEntries
<1>1. mode # "none" => reply # "226"
  BY DEF IInv, Silent
<1>2. ASSUME NEW p \in Paths,
             CWD(p) \/ RNFR(p) \/ RNTO(p) \/ LIST("list", p) \/ LIST("nlst", p)
      PROVE  FALSE
  <2>1. CASE CWD(p) \/ RNFR(p) \/ RNTO(p)
    BY <2>1 DEF CWD, SetDirectory, RNFR, RNTO
  <2>2. ASSUME NEW m, LIST(m, p) PROVE FALSE
    BY <2>2 DEF LIST, ListFails, ListBegins, ListDevices, ListDirectory, ListFile
  <2> QED
    BY <1>2, <2>1, <2>2
<1>3. CASE CDUP \/ ABOR \/ PASV \/ RetrFails
  BY <1>3 DEF CDUP, SetDirectory, ABOR, TransferEnd, PASV, RetrFails
<1>4. CASE DataReady \/ SendBlocks \/ SendFails
  BY <1>1, <1>4 DEF DataReady, SendBlocks, SendFails, TransferEnd, Turn
<1>5. ASSUME NEW n \in 0..(ListBuf - 1), SendPart(n) PROVE FALSE
  BY <1>1, <1>5 DEF SendPart, Turn
<1>6. CASE SendAll \/ NextDevice \/ NextEntry \/ NoMoreEntries
  BY <1>1, <1>6 DEF SendAll, NextDevice, NextEntry, Turn
<1> QED
  BY <1>2, <1>3, <1>4, <1>5, <1>6 DEF Next

LEMMA NothingToCome ==
    ASSUME Types, Progress, mode # "none", ~stale, Rest = <<>>
    PROVE  got \o Unsent = PrintedLines(due)
<1>1. PICK n \in 0..Len(due) :
          Rest = SubSeq(due, n + 1, Len(due)) /\ got \o Unsent = PrintedLines(SubSeq(due, 1, n))
  BY DEF Progress
<1>2. due \in Seq(Listable) /\ Len(due) \in Nat
  BY LenProperties DEF Types
<1>3. Len(Rest) = Len(due) - n
  BY <1>1, <1>2, CutSequence
<1>4. Len(Rest) = 0
  OBVIOUS
<1> DEFINE l == Len(due)
<1>5. l \in Nat /\ n \in 0..l /\ 0 = l - n
  BY <1>2, <1>3, <1>4
<1> HIDE DEF l
<1>6. n = l
  BY ONLY <1>5
<1>7. SubSeq(due, 1, Len(due)) = due
  BY <1>2, SubSeqFull
<1> QED
  BY <1>1, <1>6, <1>7 DEF l

(* Told that it has everything, the client has the lines of all the entries, *)
(* but for that byte.                                                        *)
THEOREM ListingsAreComplete == Spec => ListingComplete
<1>1. IInv /\ [Next]_vars
        => [reply' = "226" =>
              \/ Delivered(got', Lines(due)) /\ Len(got') = Len(Lines(due))
              \/ stale
              \/ dir \notin {Closed, <<>>}]_vars
  <2> SUFFICES ASSUME IInv, Next, reply' = "226", ~stale, dir \in {Closed, <<>>}
               PROVE  Delivered(got', Lines(due)) /\ Len(got') = Len(Lines(due))
    OBVIOUS
  <2> SUFFICES got' = PrintedLines(due)
    <3>1. due \in Seq(Listable)
      BY DEF IInv, Types
    <3> QED
      BY <3>1, LinesAreDelivered
  <2>1. CASE SendAll /\ OnlyLine
    <3>1. mode # "none" /\ got' = got \o Pending(size) /\ size > 0 /\ size \in Nat
      BY <2>1 DEF SendAll, Turn, IInv, Types, TypeOK
    <3>2. Unsent = Pending(size)
      BY <3>1 DEF Unsent
    <3>3. Rest = <<>>
      <4>1. dir = Closed /\ (DeviceList => index = Len(Devices))
        BY <2>1 DEF OnlyLine
      <4>2. Len(Devices) \in Nat
        BY Listed
      <4>3. SubSeq(Devices, Len(Devices) + 1, Len(Devices)) = <<>>
        BY <4>2, SubSeqEmpty
      <4> QED
        BY <4>1, <4>3 DEF Rest
    <3> QED
      BY <3>1, <3>2, <3>3, NothingToCome DEF IInv
  <2>2. CASE NoMoreEntries
    <3>1. mode # "none" /\ size = 0 /\ dir # Closed /\ got' = got
      BY <2>2 DEF NoMoreEntries, Turn
    <3>2. Unsent = <<>> /\ Rest = <<>>
      BY <3>1 DEF Unsent, Rest
    <3>3. got \o <<>> = PrintedLines(due)
      BY <3>1, <3>2, NothingToCome DEF IInv
    <3>4. got \in Seq(Sendable)
      BY DEF IInv, Types, Sent
    <3> QED
      BY <3>1, <3>3, <3>4, ConcatEmptySeq
  <2> QED
    BY <2>1, <2>2, CompleteBy
<1> QED
  BY <1>1, Invariance, PTL DEF Spec, ListingComplete
=============================================================================
