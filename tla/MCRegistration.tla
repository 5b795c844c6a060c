--------------------------- MODULE MCRegistration ---------------------------
(***************************************************************************)
(* Instance of Registration for TLC: every key may fail to be made or      *)
(* deleted, and the path of the DLL, row 4, may be lost.                   *)
(***************************************************************************)
EXTENDS Registration

MCLostRows == {4}
AllFaults == {"create", "delete"}

=============================================================================
