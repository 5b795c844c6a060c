--------------------------- MODULE MCBulkTransfer ---------------------------
(***************************************************************************)
(* Instances of BulkTransfer for TLC.  Stages are two bytes long, so that  *)
(* length 2 is one exact stage, 5 is two exact stages and a short one, and *)
(* 6 is over the limit of the device.                                      *)
(***************************************************************************)
EXTENDS BulkTransfer

CONSTANTS r1, r2

OneRequest == {r1}
TwoRequests == {r1, r2}
MCLengths == {2, 5, 6}
ThreeStages == {5}
BothPipes == {ReadPipe, WritePipe}
NoFaults == {}
MCFaults == {"workitem"}

=============================================================================
