------------------------- MODULE MCExplorerCommands -------------------------
(***************************************************************************)
(* Instance of ExplorerCommands for TLC: two enumerators, read one by one, *)
(* two by two or skipped past their end.                                   *)
(***************************************************************************)
EXTENDS ExplorerCommands

CONSTANTS e1, e2

MCEnumerators == {e1, e2}
MCCelts == {1, 2}
AllFaults == {"command"}

=============================================================================
