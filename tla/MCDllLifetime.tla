---------------------------- MODULE MCDllLifetime ----------------------------
(***************************************************************************)
(* Instances of DllLifetime for TLC: room for a class factory, a folder    *)
(* and one or two objects made from it.  Places on the heap are            *)
(* interchangeable.                                                        *)
(***************************************************************************)
EXTENDS DllLifetime, TLC

CONSTANTS o1, o2, o3, o4

ThreeObjects == {o1, o2, o3}
FourObjects == {o1, o2, o3, o4}
Places == Permutations(Objects)

=============================================================================
