-------------------------- MODULE MCFolderContents --------------------------
(***************************************************************************)
(* Instances of FolderContents for TLC.  The Rio has two folders, one of   *)
(* them with a song whose name does not fit before one that does and has   *)
(* the name of that folder, the other without songs; a folder of two fits  *)
(* the byte of its size. An int has six values: a Skip of 2 from the end   *)
(* takes the position to in front of the array, where no entry has a name  *)
(* that fits.                                                              *)
(***************************************************************************)
EXTENDS FolderContents, TLC

CONSTANTS e1, e2

MCEnumerators == {e1, e2}
MCContents == <<[szName |-> 1, songs |-> <<9, 1>>], [szName |-> 2, songs |-> <<>>]>>
MCLongNames == {9}
MCFlagSets == {{"FOLDERS", "NONFOLDERS"}, {"FOLDERS"}}
MCCelts == {1, 2}
MCSkips == {2}
MCJunk == {[szName |-> 2, nSize |-> 0, fIsFolder |-> TRUE]}
MCInFront == [i \in -2 .. 0 |-> [szName |-> 9, nSize |-> 0, fIsFolder |-> FALSE]]
Explorers == Permutations(Enumerators)
AllFaults == {"list", "count", "item"}

=============================================================================
