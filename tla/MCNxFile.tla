------------------------------ MODULE MCNxFile ------------------------------
(* Both builds of the handle in one instance for TLC.                        *)
EXTENDS NxFile

VARIABLE other    \* this is the build that VFS_NX_BUFFER_WRITES does not say

Other == INSTANCE NxFile WITH Buffered <- ~Buffered

BothInit == Init /\ other \in BOOLEAN

BothNext == (IF other THEN Other!Next ELSE Next) /\ UNCHANGED other

BothSpec == BothInit /\ [][BothNext]_<<vars, other>>
=============================================================================
