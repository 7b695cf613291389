--------------------------- MODULE MCFtpDirectory ---------------------------
(* Instances of FtpDirectory for TLC.                                        *)
EXTENDS FtpDirectory

Entry(n, s, k) == [name |-> n, size |-> s, kind |-> k]

(* Lines that fit, that just do not, and that do not; what is passed over.   *)
AllEntries ==
    {Entry("a", 1, "listed"), Entry("b", 2, "listed"), Entry("c", 3, "listed"),
     Entry("..", 1, "passed")}

TwoDevices == <<Entry("sdmc:", 1, "listed"), Entry("save:", 1, "listed")>>
=============================================================================
