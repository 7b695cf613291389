---------------------------- MODULE MCFtpSession ----------------------------
(* Two instances of FtpServer side by side for TLC: the one that the         *)
(* configuration gives, and that of a single client which sends the commands *)
(* of a download, up to four in one packet.                                  *)
EXTENDS MCFtpServer

VARIABLE packet    \* this is the second

Packet == INSTANCE FtpServer WITH Commands <- PacketCommands, MaxLines <- 4

OneClient == backlog + count <= 1

EitherInit == packet \in BOOLEAN /\ Init

EitherNext ==
    /\ IF packet THEN Packet!Next /\ OneClient' ELSE Next
    /\ UNCHANGED packet

EitherSpec == EitherInit /\ [][EitherNext]_<<vars, packet>>
=============================================================================
