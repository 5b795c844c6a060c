----------------------------- MODULE Enumeration -----------------------------
(***************************************************************************)
(* What a COM enumerator promises its client.  It has a list of entries    *)
(* that does not change while the enumerator lives, and a position in it.  *)
(* Next hands out the entries that follow the position, in order, and      *)
(* moves past exactly those; only Skip moves past entries without handing  *)
(* them out; Reset begins a new pass.                                      *)
(***************************************************************************)
EXTENDS Naturals, Sequences

CONSTANTS Enumerators

VARIABLES list,    \* list[e]: the entries e enumerates; none while e does not exist
          pos,     \* pos[e]: how many of them e has moved past
          handed   \* handed[e]: the entries handed out in this pass

vars == <<list, pos, handed>>

Init ==
  /\ list = [e \in Enumerators |-> <<>>]
  /\ pos = [e \in Enumerators |-> 0]
  /\ handed = [e \in Enumerators |-> <<>>]

\* An enumerator is created over whatever entries there are.
Create(e) ==
  /\ list[e] = <<>>
  /\ list' = [list EXCEPT ![e] = list'[e]]
  /\ UNCHANGED <<pos, handed>>

\* The position of e does not go back, nor past the end.
Advance(e) ==
  /\ pos[e] <= pos'[e] /\ pos'[e] <= Len(list[e])
  /\ pos' = [pos EXCEPT ![e] = pos'[e]]
  /\ UNCHANGED list

Next(e) ==
  /\ Advance(e)
  /\ handed' = [handed EXCEPT ![e] = @ \o SubSeq(list[e], pos[e] + 1, pos'[e])]

Skip(e) == Advance(e) /\ UNCHANGED handed

Reset(e) ==
  /\ pos' = [pos EXCEPT ![e] = 0]
  /\ handed' = [handed EXCEPT ![e] = <<>>]
  /\ UNCHANGED list

Release(e) ==
  /\ list' = [list EXCEPT ![e] = <<>>]
  /\ pos' = [pos EXCEPT ![e] = 0]
  /\ handed' = [handed EXCEPT ![e] = <<>>]

Step ==
  \E e \in Enumerators : Create(e) \/ Next(e) \/ Skip(e) \/ Reset(e) \/ Release(e)

Spec == Init /\ [][Step]_vars

=============================================================================
