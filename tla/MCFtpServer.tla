---------------------------- MODULE MCFtpServer ----------------------------
(* Instances of FtpServer for TLC.                                           *)
EXTENDS FtpServer

(* The commands of the two-session instances: log in, open a connection,     *)
(* upload.                                                                   *)
CoreCommands == {"USER", "PASV", "STOR"}

(* A client that gives up one download and starts the next in one packet.    *)
PacketCommands == {"USER", "PASV", "RETR", "ABOR"}

(* Uploads over a connection to the client, one session at a time or both.   *)
UploadCommands == {"USER", "PORT", "STOR"}
=============================================================================
