---------------------------- MODULE MCNxTransfer ----------------------------
(* Both builds of the Switch in one instance for TLC.                        *)
EXTENDS NxTransfer

VARIABLE other    \* this is the build that Buffered does not say

Other == INSTANCE NxTransfer WITH Buffered <- ~Buffered

BothInit == NxInit /\ other \in BOOLEAN /\ (port # "nx" => ~other)

BothNext == (IF other THEN Other!NxNext ELSE NxNext) /\ UNCHANGED other

BothSpec == BothInit /\ [][BothNext]_<<nxVars, other>>
=============================================================================
