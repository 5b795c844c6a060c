------------------------------ MODULE IoRequest ------------------------------
(***************************************************************************)
(* What the driver promises for a read or write request, whatever its      *)
(* length, the faults of the device and the resets in between: it is       *)
(* answered once and for good, bytes are only ever added to what has been  *)
(* transferred, and the count reported with success is the true one.       *)
(***************************************************************************)
EXTENDS Integers, FiniteSets

CONSTANTS Requests,
          MaximumTransferSize   \* the longest request that is accepted

VARIABLES status,  \* status[r]: "new", "pending", "success" or "failure"
          info,    \* info[r]: the byte count reported with success
          moved    \* moved[r]: the offsets transferred so far

vars == <<status, info, moved>>

Init ==
  /\ status = [r \in Requests |-> "new"]
  /\ info = [r \in Requests |-> 0]
  /\ moved = [r \in Requests |-> {}]

Accept(r) ==
  /\ status[r] = "new"
  /\ status' = [status EXCEPT ![r] = "pending"]
  /\ UNCHANGED <<info, moved>>

\* Some more bytes of the buffer are transferred.
Transfer(r) ==
  /\ moved[r] \subseteq moved'[r]
  /\ moved'[r] \subseteq 0 .. (MaximumTransferSize - 1)
  /\ moved' = [moved EXCEPT ![r] = moved'[r]]

Progress(r) ==
  /\ status[r] = "pending"
  /\ Transfer(r)
  /\ UNCHANGED <<status, info>>

Succeed(r) ==
  /\ status[r] = "pending"
  /\ Transfer(r)
  /\ status' = [status EXCEPT ![r] = "success"]
  /\ info' = [info EXCEPT ![r] = Cardinality(moved'[r])]

Fail(r) ==
  /\ status[r] \in {"new", "pending"}
  /\ Transfer(r)
  /\ status[r] = "new" => moved'[r] = moved[r]
  /\ status' = [status EXCEPT ![r] = "failure"]
  /\ UNCHANGED info

Next == \E r \in Requests : Accept(r) \/ Progress(r) \/ Succeed(r) \/ Fail(r)

Spec == Init /\ [][Next]_vars

=============================================================================
