--------------------------- MODULE MCRio500Driver ---------------------------
(***************************************************************************)
(* Instances of Rio500Driver for TLC: two requests and two threads, and    *)
(* the sets of framework calls that may fail.                              *)
(***************************************************************************)
EXTENDS Rio500Driver

CONSTANTS r1, r2, t1, t2

OneRequest == {r1}
OneThread == {t1}
TwoThreads == {t1, t2}
BothPipes == {ReadPipe, WritePipe}
ShortLengths == {1}
StagedLengths == {3}
NoFaults == {}
AllFaults == {"reset_pipe", "connected", "reset_port", "start"}

=============================================================================
