---------------------------- MODULE MCFtpFrontend ----------------------------
(* Instances of FtpFrontend for TLC.                                         *)
EXTENDS FtpFrontend

(* The 3DS is the Switch but for the log file, which is the Wii's.           *)
AllPorts == {"nx", "wii", "service", "nds"}
Switch == {"nx"}
=============================================================================
