----------------------------- MODULE FtpControl -----------------------------
(* The control connection of one session, ftp_session_poll of                *)
(* src/src/ftpsrv.c: a stream of lines, of which each recv() brings some     *)
(* bytes, and the lines found in what one recv() brought. A byte is its      *)
(* place in the stream; every line is some bytes of text, a CR and a LF.     *)
EXTENDS Integers, FiniteSetsExt, SequencesExt

CONSTANTS
    Lines,     \* bound on the lines that are sent
    TextLen,   \* bytes of text in a line
    RecvMax    \* sizeof(data_buf) - 1

ASSUME ControlAssumption ==
    /\ Lines \in Nat \ {0} /\ TextLen \in Nat \ {0} /\ RecvMax \in Nat \ {0}

VARIABLES
    sent,      \* bytes that clients have sent
    received,  \* those that recv() has taken, or a close has thrown away
    offset,    \* where line_offset is, in what recv() took last
    executed,  \* the texts of the commands, as their first and last byte
    chunks     \* history: what each recv() took

control == <<sent, received, offset, executed, chunks>>

LineLen == TextLen + 2
First(k) == (k - 1) * LineLen + 1
IsText(p) == (p - 1) % LineLen < TextLen
IsCR(p) == (p - 1) % LineLen = TextLen
IsLF(p) == (p - 1) % LineLen = TextLen + 1

ControlTypeOK ==
    /\ sent \in 0..(Lines * LineLen)
    /\ received \in 0..sent
    /\ offset \in 1..(received + 1)
    /\ executed \in Seq((1..received) \X (1..received))
    /\ chunks \subseteq (1..received) \X (1..received)

ControlInit ==
    /\ sent = 0 /\ received = 0 /\ offset = 1
    /\ executed = <<>> /\ chunks = {}

ClientSends ==
    /\ sent < Lines * LineLen
    /\ sent' = sent + LineLen
    /\ UNCHANGED <<received, offset, executed, chunks>>

(* The buffer is cleared, and filled with what has come, up to its size.     *)
Recv ==
    \E n \in 1..Min({RecvMax, sent - received}) :
        /\ received' = received + n
        /\ offset' = received + 1
        /\ chunks' = chunks \cup {<<received + 1, received + n>>}
        /\ UNCHANGED <<sent, executed>>

(* Where strstr() finds TELNET_EOL.                                          *)
Ends == {p \in (offset + 1)..received : IsCR(p - 1) /\ IsLF(p)}

LineEnd == Min(Ends)

(* The text that sscanf() takes from a line, up to a CR or LF.               *)
LineText == {p \in offset..LineEnd : \A q \in offset..p : IsText(q)}

(* Mistake: the next line begins at the end of this one.                     *)
NextOffsetAtEnd == LineEnd

(* Mistake: a byte of the next line is skipped.                              *)
NextOffsetTooFar == LineEnd + 2

NextOffset == LineEnd + 1

(* ftp_session_progress_line: a line without text is not a command.          *)
ProgressLine ==
    /\ Ends # {}
    /\ executed' = IF LineText = {} THEN executed
                   ELSE Append(executed, <<offset, Max(LineText)>>)
    /\ offset' = NextOffset
    /\ UNCHANGED <<sent, received, chunks>>

(* What is left has no end, and is not kept.                                 *)
NoMoreLines ==
    /\ Ends = {}
    /\ offset' = received + 1
    /\ UNCHANGED <<sent, received, executed, chunks>>

(* The session is closed: what its client has sent is lost.                  *)
Disconnect ==
    /\ received' = sent
    /\ offset' = sent + 1
    /\ UNCHANGED <<sent, executed, chunks>>

-----------------------------------------------------------------------------
(* One recv() has brought the line, and not the end of the one before alone. *)
Intact(k) ==
    \E c \in chunks :
        /\ c[1] <= First(k) /\ c[1] # First(k) - 1
        /\ First(k) + LineLen - 1 <= c[2]

Whole(k) == <<First(k), First(k) + TextLen - 1>>

(* However the stream is cut into recv() calls: a line that comes in one     *)
(* piece is executed, once, in its turn, with the text it was sent with. Of  *)
(* a line that is cut at most its end is; what was read is never put         *)
(* together with what came before (ftp_session_poll).                        *)
LinesExecuted ==
    /\ \A k \in 1..Lines :
        First(k) + LineLen - 1 < offset =>
            (Intact(k) <=> \E i \in DOMAIN executed : executed[i] = Whole(k))
    /\ \A i \in DOMAIN executed :
        \E k \in 1..Lines :
            /\ executed[i][1] \in First(k)..executed[i][2]
            /\ executed[i][2] = First(k) + TextLen - 1
    /\ \A i \in 1..(Len(executed) - 1) : executed[i][2] < executed[i + 1][1]
=============================================================================
