---------------------------- MODULE FileContent ----------------------------
(* What a file is, to those who read and write it at positions: the sequence *)
(* of its bytes, and what resizing and writing do to it.                     *)
EXTENDS Integers, Sequences

CONSTANTS
    Bytes,   \* what one position of a file can hold
    Zero     \* what a file grown over a position holds there

ASSUME ZeroAssumption == Zero \in Bytes

Content == Seq(Bytes)

Larger(m, n)  == IF m > n THEN m ELSE n
Smaller(m, n) == IF m < n THEN m ELSE n

(* The first n bytes, zeros past the old end.                                *)
Resized(d, n) == [i \in 1..n |-> IF i <= Len(d) THEN d[i] ELSE Zero]

(* b written over what begins at offset o; a gap before o reads as zeros.    *)
Written(d, o, b) ==
    [i \in 1..Larger(Len(d), o + Len(b)) |->
        IF i > o /\ i <= o + Len(b) THEN b[i - o]
        ELSE IF i <= Len(d) THEN d[i] ELSE Zero]

(* The first o bytes of d, then b.                                           *)
Prefixed(d, o, b) ==
    [i \in 1..(o + Len(b)) |-> IF i <= o THEN d[i] ELSE b[i - o]]

(* At most n bytes from offset o on, fewer or none at the end of the file.   *)
ReadFrom(d, o, n) ==
    [i \in 1..Larger(0, Smaller(n, Len(d) - o)) |-> d[o + i]]

(* What n bytes at most, one at least, can be.                               *)
Pieces(n) == UNION {[1..k -> Bytes] : k \in 1..n}

(* What a call returns: whether it worked, and the bytes it read.            *)
Returned   == [ok : BOOLEAN, bytes : Content]
Returns(b) == [ok |-> TRUE, bytes |-> b]
Done       == Returns(<<>>)
Failed     == [ok |-> FALSE, bytes |-> <<>>]
=============================================================================
