------------------------- MODULE BulkTransferProof -------------------------
(***************************************************************************)
(* Theorems about BulkTransfer, for any set of requests, any lengths and   *)
(* stage size, and whatever the environment does to the targets.           *)
(***************************************************************************)
EXTENDS BulkTransfer, FiniteSetTheorems, TLAPS

(***************************************************************************)
(* Facts about the helpers.                                                *)
(***************************************************************************)
LEMMA StageLengthBounds ==
  ASSUME NEW len \in Nat, len # 0
  PROVE  StageLength(len) \in 1 .. MaxTransferSize /\ StageLength(len) <= len
  BY TransferAssumption DEF StageLength

LEMMA PipeOfIsPipe == \A r : PipeOf(r) \in Pipes
  BY DEF PipeOf, Pipes

(***************************************************************************)
(* Type correctness.                                                       *)
(***************************************************************************)
LEMMA InitType == Init => TypeOK
  BY DEF Init, TypeOK, TargetInit, TargetTypeOK, RequestContext, NoContext

LEMMA NewRequestType ==
  ASSUME TypeOK, NEW r \in Requests, NewRequest(r)
  PROVE  TypeOK'
<1>1. PICK len \in Lengths, p \in Pipes : ReadWriteBulkEndPoints(r, len, p)
  BY DEF NewRequest, Rio500_EvtIoRead, Rio500_EvtIoWrite, Pipes
<1>2. CASE Reject(r)
  BY <1>2 DEF Reject, TypeOK, TargetTypeOK, targetVars
<1>3. CASE SendFirstStage(r, len, p)
  <2>1. len \in Nat /\ len # 0
    BY TransferAssumption
  <2>2. StageLength(len) \in Nat /\ len - StageLength(len) \in Nat
    BY <2>1, StageLengthBounds, TransferAssumption
  <2>3. ctx' \in [Requests -> RequestContext]
    BY <1>3, <2>1, <2>2 DEF SendFirstStage, TypeOK, RequestContext
  <2>4. TargetTypeOK'
    BY <1>3 DEF SendFirstStage, WdfRequestSend, TypeOK, TargetTypeOK
  <2> QED
    BY <1>3, <2>3, <2>4 DEF SendFirstStage, TypeOK
<1> QED
  BY <1>1, <1>2, <1>3 DEF ReadWriteBulkEndPoints

LEMMA ContextTypes ==
  ASSUME NEW c \in RequestContext, NEW bytes \in Nat
  PROVE  /\ Counted(c, bytes) \in RequestContext
         /\ c.Length # 0 => NextContext(c, bytes) \in RequestContext
<1>1. c.Length \in Nat /\ c.Numxfer \in Nat /\ c.VirtualAddress \in Nat
  BY DEF RequestContext
<1>2. Counted(c, bytes) \in RequestContext
  BY <1>1 DEF Counted, RequestContext
<1>3. ASSUME c.Length # 0 PROVE NextContext(c, bytes) \in RequestContext
  <2>1. StageLength(c.Length) \in Nat /\ c.Length - StageLength(c.Length) \in Nat
    BY <1>1, <1>3, StageLengthBounds, TransferAssumption
  <2> QED
    BY <1>1, <2>1 DEF NextContext, RequestContext
<1> QED
  BY <1>2, <1>3

LEMMA CompletionType ==
  ASSUME TypeOK, NEW r \in Requests, Rio500_EvtReadWriteCompletion(r)
  PROVE  TypeOK'
<1>0. PipeOf(r) \in Pipes /\ ctx[r] \in RequestContext
  BY PipeOfIsPipe DEF TypeOK
<1>1. CASE StageFails(r)
  <2>1. workItems' \in [Pipes -> Nat]
    BY <1>0, <1>1 DEF StageFails, QueuePassiveLevelCallback, TypeOK
  <2>2. halted' \in [Pipes -> BOOLEAN]
    BY <1>0, <1>1 DEF StageFails, TypeOK, TargetTypeOK
  <2>3. TargetTypeOK'
    BY <1>0, <1>1, <2>2 DEF StageFails, End, Forget, TypeOK, TargetTypeOK
  <2>4. /\ status' \in [Requests -> {"new", "pending", "success", "failure"}]
        /\ mdls' \in [Requests -> Int]
        /\ completions' \in [Requests -> Nat]
    BY <1>1 DEF StageFails, End, TypeOK
  <2> QED
    BY <1>1, <2>1, <2>3, <2>4 DEF StageFails, TypeOK
<1>2. ASSUME NEW bytes \in 0 .. ctx[r].UrbLength,
             LastStage(r, bytes) \/ NextStage(r, bytes) \/ NextStageFails(r, bytes)
      PROVE  TypeOK'
  <2>0. bytes \in Nat
    BY <1>0 DEF RequestContext
  <2>1. moved' \in [Requests -> SUBSET Int]
    <3>1. ctx[r].VirtualAddress - ctx[r].UrbLength \in Int /\ StageSucceeds(r, bytes)
      BY <1>0, <1>2 DEF RequestContext, LastStage, NextStage, NextStageFails
    <3> QED
      BY <2>0, <3>1 DEF StageSucceeds, TypeOK
  <2>2. Counted(ctx[r], bytes) \in RequestContext
    BY <1>0, <2>0, ContextTypes
  <2>3. ctx[r].Numxfer + bytes \in Nat
    BY <1>0, <2>0 DEF RequestContext
  <2>4. CASE LastStage(r, bytes)
    BY <1>0, <2>1, <2>2, <2>3, <2>4 DEF LastStage, End, Forget, TypeOK, TargetTypeOK
  <2>5. CASE NextStage(r, bytes)
    <3>1. NextContext(ctx[r], bytes) \in RequestContext
      BY <1>0, <2>0, <2>5, ContextTypes DEF NextStage
    <3> QED
      BY <1>0, <2>1, <2>5, <3>1 DEF NextStage, WdfRequestSend, TypeOK, TargetTypeOK
  <2>6. CASE NextStageFails(r, bytes)
    <3>1. NextContext(ctx[r], bytes) \in RequestContext
      BY <1>0, <2>0, <2>6, ContextTypes DEF NextStageFails
    <3> QED
      BY <1>0, <2>1, <2>2, <2>6, <3>1 DEF NextStageFails, End, Forget, TypeOK, TargetTypeOK
  <2> QED
    BY <1>2, <2>4, <2>5, <2>6
<1> QED
  BY <1>1, <1>2 DEF Rio500_EvtReadWriteCompletion

LEMMA EnvironmentType == TypeOK /\ Environment => TypeOK'
<1> SUFFICES ASSUME TypeOK, Environment PROVE TypeOK'
  OBVIOUS
<1>1. ASSUME NEW p \in Pipes, TakeWorkItem(p) PROVE TypeOK'
  BY <1>1 DEF TakeWorkItem, TypeOK, TargetTypeOK, targetVars, requestVars
<1>2. ASSUME NEW p \in Pipes,
             WdfIoTargetStop(p) \/ WdfIoTargetStart(p) \/ WdfUsbTargetPipeReset(p),
             UNCHANGED <<requestVars, workItems>>
      PROVE  TypeOK'
  <2>1. CASE WdfIoTargetStop(p)
    BY <1>2, <2>1 DEF WdfIoTargetStop, TypeOK, TargetTypeOK, requestVars
  <2>2. CASE WdfIoTargetStart(p)
    BY <1>2, <2>2 DEF WdfIoTargetStart, TypeOK, TargetTypeOK, requestVars
  <2>3. CASE WdfUsbTargetPipeReset(p)
    BY <1>2, <2>3 DEF WdfUsbTargetPipeReset, TypeOK, TargetTypeOK, requestVars
  <2> QED
    BY <1>2, <2>1, <2>2, <2>3
<1>3. ASSUME WdfUsbTargetDeviceResetPort, UNCHANGED <<requestVars, workItems>>
      PROVE  TypeOK'
  BY <1>3 DEF WdfUsbTargetDeviceResetPort, TypeOK, TargetTypeOK, requestVars
<1> QED
  BY <1>1, <1>2, <1>3 DEF Environment

LEMMA StopType ==
  ASSUME TypeOK, NEW r \in Requests, Rio500_EvtIoStop(r) PROVE TypeOK'
  BY DEF Rio500_EvtIoStop, TypeOK, TargetTypeOK, requestVars

LEMMA NextType == TypeOK /\ [Next]_vars => TypeOK'
<1> SUFFICES ASSUME TypeOK, [Next]_vars PROVE TypeOK'
  OBVIOUS
<1>1. CASE Next
  BY <1>1, NewRequestType, CompletionType, StopType, EnvironmentType DEF Next
<1>2. CASE UNCHANGED vars
  BY <1>2 DEF vars, targetVars, requestVars, TypeOK, TargetTypeOK
<1> QED
  BY <1>1, <1>2

\* Every variable of the transfers keeps its type (BulkTransfer!TypeOK).
THEOREM TypeCorrect == Spec => []TypeOK
  BY InitType, NextType, PTL DEF Spec

(***************************************************************************)
(* The inductive invariant.  OneOwner says which requests a step can be    *)
(* about; Accounted adds to the properties what the stages still to come   *)
(* rely on: where the stage in flight lies, and that Numxfer counts the    *)
(* bytes of the stages before it.                                          *)
(***************************************************************************)
StageAccounted(r) ==
  /\ ctx[r].UrbLength \in 1 .. MaxTransferSize
  /\ ctx[r].UrbLength <= ctx[r].VirtualAddress
  /\ ctx[r].VirtualAddress + ctx[r].Length = ctx[r].Total
  /\ ctx[r].Total <= MaximumTransferSize
  /\ moved[r] \subseteq 0 .. (ctx[r].VirtualAddress - ctx[r].UrbLength - 1)
  /\ ctx[r].Numxfer = Cardinality(moved[r])

ResultAccounted(r) ==
  /\ info[r] = Cardinality(moved[r])
  /\ moved[r] \subseteq 0 .. (ctx[r].Total - 1)

Accounted(r) ==
  /\ status[r] = "new" => moved[r] = {} /\ info[r] = 0
  /\ status[r] = "pending" => StageAccounted(r)
  /\ status[r] = "success" => ResultAccounted(r)

IInv == /\ TypeOK
        /\ OneOwner
        /\ ReleasedOnce
        /\ \A r \in Requests : Accounted(r)

\* A step that is about another request leaves q as it is.
Untouched(q) ==
  /\ status'[q] = status[q] /\ ctx'[q] = ctx[q] /\ mdls'[q] = mdls[q]
  /\ info'[q] = info[q] /\ completions'[q] = completions[q] /\ moved'[q] = moved[q]
  /\ \A p \in Pipes : /\ At(q, p)' <=> At(q, p)
                      /\ q \in sent'[p] /\ q \in held'[p] => q \in sent[p] /\ q \in held[p]

LEMMA UntouchedKeeps ==
  ASSUME IInv, NEW q \in Requests, Untouched(q)
  PROVE  Owned(q)' /\ Released(q)' /\ Accounted(q)'
<1>1. Owned(q) /\ Released(q) /\ Accounted(q)
  BY DEF IInv, OneOwner, ReleasedOnce
<1>2. PipeOf(q)' = PipeOf(q)
  BY DEF Untouched, PipeOf
<1>3. Owned(q)'
  BY <1>1, <1>2 DEF Untouched, Owned
<1>4. Released(q)'
  BY <1>1 DEF Untouched, Released, Done
<1>5. Accounted(q)'
  BY <1>1 DEF Untouched, Accounted, StageAccounted, ResultAccounted
<1> QED
  BY <1>3, <1>4, <1>5

LEMMA OthersUntouched ==
  ASSUME TypeOK, NEW r \in Requests, NEW q \in Requests, q # r,
         NewRequest(r) \/ Rio500_EvtReadWriteCompletion(r)
  PROVE  Untouched(q)
<1>0. PipeOf(r) \in Pipes
  BY PipeOfIsPipe
<1>1. CASE NewRequest(r)
  <2>1. PICK len \in Lengths, p \in Pipes : ReadWriteBulkEndPoints(r, len, p)
    BY <1>1 DEF NewRequest, Rio500_EvtIoRead, Rio500_EvtIoWrite, Pipes
  <2>2. CASE Reject(r)
    BY <2>2 DEF Reject, Untouched, At, TypeOK, targetVars
  <2>3. CASE SendFirstStage(r, len, p)
    BY <2>3 DEF SendFirstStage, WdfRequestSend, Untouched, At, TypeOK, TargetTypeOK
  <2> QED
    BY <2>1, <2>2, <2>3 DEF ReadWriteBulkEndPoints
<1>2. CASE StageFails(r)
  BY <1>0, <1>2 DEF StageFails, End, Forget, Untouched, At, TypeOK, TargetTypeOK
<1>3. ASSUME NEW bytes \in 0 .. ctx[r].UrbLength,
             LastStage(r, bytes) \/ NextStage(r, bytes) \/ NextStageFails(r, bytes)
      PROVE  Untouched(q)
  <2>1. moved'[q] = moved[q]
    BY <1>3 DEF LastStage, NextStage, NextStageFails, StageSucceeds, TypeOK
  <2>2. CASE LastStage(r, bytes)
    BY <1>0, <2>1, <2>2 DEF LastStage, End, Forget, Untouched, At, TypeOK, TargetTypeOK
  <2>3. CASE NextStage(r, bytes)
    BY <1>0, <2>1, <2>3 DEF NextStage, WdfRequestSend, Untouched, At, TypeOK, TargetTypeOK
  <2>4. CASE NextStageFails(r, bytes)
    BY <1>0, <2>1, <2>4 DEF NextStageFails, End, Forget, Untouched, At, TypeOK, TargetTypeOK
  <2> QED
    BY <1>3, <2>2, <2>3, <2>4
<1> QED
  BY <1>1, <1>2, <1>3 DEF Rio500_EvtReadWriteCompletion

\* The suspension of one request touches none: who has it is as before.
LEMMA StopTouchesNone ==
  ASSUME NEW r \in Requests, Rio500_EvtIoStop(r), NEW q \in Requests
  PROVE  Untouched(q)
  BY DEF Rio500_EvtIoStop, requestVars, Untouched, At

LEMMA EnvironmentTouchesNone ==
  ASSUME TypeOK, Environment, NEW q \in Requests
  PROVE  Untouched(q)
<1>1. ASSUME NEW p \in Pipes, TakeWorkItem(p) PROVE Untouched(q)
  BY <1>1 DEF TakeWorkItem, targetVars, requestVars, Untouched, At
<1>2. ASSUME UNCHANGED requestVars, NEW p \in Pipes, WdfIoTargetStart(p)
      PROVE  Untouched(q)
  BY <1>2 DEF WdfIoTargetStart, requestVars, Untouched, At, TypeOK, TargetTypeOK
<1>3. ASSUME UNCHANGED requestVars, UNCHANGED <<sent, held>>
      PROVE  Untouched(q)
  BY <1>3 DEF requestVars, Untouched, At
<1> QED
  BY <1>1, <1>2, <1>3 DEF Environment, WdfIoTargetStop, WdfUsbTargetPipeReset,
                          WdfUsbTargetDeviceResetPort

(***************************************************************************)
(* The step's own request.                                                 *)
(***************************************************************************)
\* The bytes of one more stage add up, because stages do not overlap.
LEMMA StageBytes ==
  ASSUME NEW S, NEW start \in Nat, NEW bytes \in Nat, S \subseteq 0 .. (start - 1)
  PROVE  LET T == S \cup start .. (start + bytes - 1)
         IN  /\ T \subseteq 0 .. (start + bytes - 1)
             /\ Cardinality(T) = Cardinality(S) + bytes
             /\ Cardinality(S) \in Nat
<1> DEFINE I == start .. (start + bytes - 1)
<1>1. IsFiniteSet(S) /\ Cardinality(S) \in Nat
  BY FS_Interval, FS_Subset, FS_CardinalityType, 0 \in Int, start - 1 \in Int
<1>2. IsFiniteSet(I) /\ Cardinality(I) = bytes
  BY FS_Interval
<1>3. S \cap I = {}
  OBVIOUS
<1>4. Cardinality(S \cap I) = 0
  BY <1>3, FS_EmptySet
<1>5. Cardinality(S \cup I) = Cardinality(S) + bytes
  BY <1>1, <1>2, <1>4, FS_Union
<1>6. S \cup I \subseteq 0 .. (start + bytes - 1)
  OBVIOUS
<1> QED
  BY <1>1, <1>5, <1>6

\* WdfRequestSend puts a request with the target of p and no other, once.
LEMMA SendOwns ==
  ASSUME TypeOK, NEW r \in Requests, NEW p \in Pipes, WdfRequestSend(r, p),
         \A q \in Pipes : At(r, q) => q = p, r \notin held[p]
  PROVE  \A q \in Pipes : /\ At(r, q)' <=> q = p
                          /\ ~(r \in sent'[q] /\ r \in held'[q])
<1> SUFFICES ASSUME NEW q \in Pipes
             PROVE  (At(r, q)' <=> q = p) /\ ~(r \in sent'[q] /\ r \in held'[q])
  OBVIOUS
<1>1. CASE q = p
  BY <1>1 DEF WdfRequestSend, At, TypeOK, TargetTypeOK
<1>2. CASE q # p
  BY <1>2 DEF WdfRequestSend, At, TypeOK, TargetTypeOK
<1> QED
  BY <1>1, <1>2

LEMMA NewRequestKeeps ==
  ASSUME IInv, NEW r \in Requests, NewRequest(r)
  PROVE  Owned(r)' /\ Released(r)' /\ Accounted(r)'
<1>0. TypeOK /\ Owned(r) /\ Released(r) /\ Accounted(r)
  BY DEF IInv, OneOwner, ReleasedOnce
<1>1. PICK len \in Lengths, p \in Pipes :
        status[r] = "new" /\ ReadWriteBulkEndPoints(r, len, p)
  BY DEF NewRequest, Rio500_EvtIoRead, Rio500_EvtIoWrite, Pipes
<1>2. CASE Reject(r)
  <2>1. status'[r] = "failure" /\ completions'[r] = completions[r] + 1
    BY <1>0, <1>2 DEF Reject, TypeOK
  <2>2. Owned(r)'
    BY <1>0, <1>1, <1>2, <2>1 DEF Reject, Owned, At, targetVars
  <2>3. Released(r)' /\ Accounted(r)'
    BY <1>0, <1>1, <1>2, <2>1 DEF Reject, Released, Done, Accounted
  <2> QED
    BY <2>2, <2>3
<1>3. CASE SendFirstStage(r, len, p)
  <2>1. /\ status'[r] = "pending" /\ mdls'[r] = mdls[r] + 1
        /\ completions'[r] = completions[r] /\ moved'[r] = moved[r]
    BY <1>0, <1>3 DEF SendFirstStage, TypeOK
  <2>2. ctx'[r] = [Read |-> p = ReadPipe, Total |-> len,
                   Length |-> len - StageLength(len), Numxfer |-> 0,
                   VirtualAddress |-> StageLength(len), UrbLength |-> StageLength(len)]
    BY <1>0, <1>3 DEF SendFirstStage, TypeOK
  <2>3. PipeOf(r)' = p
    <3>1. ctx'[r].Read = (p = ReadPipe) /\ (p = ReadPipe \/ p = WritePipe)
      BY <1>1, <2>2 DEF Pipes
    <3>2. CASE p = ReadPipe
      BY <3>1, <3>2 DEF PipeOf
    <3>3. CASE p # ReadPipe
      <4>1. ctx'[r].Read = FALSE
        BY <3>1, <3>3
      <4> QED
        BY <3>1, <3>3, <4>1 DEF PipeOf
    <3> QED
      BY <3>2, <3>3
  <2>4. Owned(r)'
    <3>1. (\A q \in Pipes : At(r, q) => q = p) /\ r \notin held[p]
      BY <1>0, <1>1 DEF Owned, At
    <3>2. \A q \in Pipes : (At(r, q)' <=> q = p) /\ ~(r \in sent'[q] /\ r \in held'[q])
      BY <1>0, <1>3, <3>1, SendOwns DEF SendFirstStage
    <3>3. p \in Pipes
      BY <1>1
    <3> QED
      BY <2>1, <2>3, <3>2, <3>3 DEF Owned
  <2>5. Released(r)'
    BY <1>0, <1>1, <2>1 DEF Released, Done
  <2>6. len \in Nat /\ len # 0 /\ len <= MaximumTransferSize
    BY <1>3, TransferAssumption DEF SendFirstStage
  <2>7. StageLength(len) \in 1 .. MaxTransferSize /\ StageLength(len) <= len
    BY <2>6, StageLengthBounds
  <2>8. moved'[r] = {} /\ Cardinality(moved'[r]) = 0
    BY <1>0, <1>1, <2>1, FS_EmptySet DEF Accounted
  <2>9. /\ ctx'[r].Total = len /\ ctx'[r].Length = len - StageLength(len)
        /\ ctx'[r].VirtualAddress = StageLength(len)
        /\ ctx'[r].UrbLength = StageLength(len) /\ ctx'[r].Numxfer = 0
    BY <2>2
  <2>10. StageAccounted(r)'
    BY <2>6, <2>7, <2>8, <2>9, TransferAssumption DEF StageAccounted
  <2> QED
    BY <2>1, <2>4, <2>5, <2>10 DEF Accounted
<1> QED
  BY <1>1, <1>2, <1>3 DEF ReadWriteBulkEndPoints

\* A request that comes back was pending, with its own pipe's target and MDL.
LEMMA InFlightIsPending ==
  ASSUME IInv, NEW r \in Requests, InFlight(r)
  PROVE  /\ status[r] = "pending" /\ Owned(r) /\ Released(r) /\ StageAccounted(r)
         /\ mdls[r] = 1 /\ completions[r] = 0
<1>1. Owned(r) /\ Released(r) /\ Accounted(r)
  BY DEF IInv, OneOwner, ReleasedOnce
<1>2. status[r] = "pending"
  BY <1>1, PipeOfIsPipe DEF InFlight, Owned, At
<1> QED
  BY <1>1, <1>2 DEF Released, Done, Accounted

\* Label End takes the request from its target, frees the MDL and completes it.
LEMMA EndKeeps ==
  ASSUME IInv, NEW r \in Requests, InFlight(r), NEW result \in {"success", "failure"},
         End(r, result)
  PROVE  Owned(r)' /\ Released(r)' /\ status'[r] = result
<1>1. TypeOK /\ status[r] = "pending" /\ Owned(r) /\ mdls[r] = 1 /\ completions[r] = 0
  BY InFlightIsPending DEF IInv
<1>2. status'[r] = result /\ mdls'[r] = 0 /\ completions'[r] = 1
  BY <1>1 DEF End, TypeOK
<1>3. PipeOf(r) \in Pipes
  BY PipeOfIsPipe
<1>4. \A p \in Pipes : ~At(r, p)'
  BY <1>1, <1>3 DEF End, Forget, Owned, At, TypeOK, TargetTypeOK
<1>5. Owned(r)'
  BY <1>2, <1>4 DEF Owned
<1>6. Released(r)'
  BY <1>2 DEF Released, Done
<1> QED
  BY <1>2, <1>5, <1>6

\* What a successful stage does to the bytes counted and the bytes moved.
StageAddsUp(r, bytes) ==
  /\ bytes \in Nat /\ InFlight(r) /\ status[r] = "pending"
  /\ StageAccounted(r)
  /\ ctx[r].VirtualAddress - ctx[r].UrbLength + bytes <= ctx[r].VirtualAddress
  /\ moved[r] \subseteq moved'[r]
  /\ moved'[r] \subseteq 0 .. (ctx[r].VirtualAddress - ctx[r].UrbLength + bytes - 1)
  /\ Cardinality(moved'[r]) = ctx[r].Numxfer + bytes

LEMMA SuccessfulStage ==
  ASSUME IInv, NEW r \in Requests, NEW bytes \in 0 .. ctx[r].UrbLength,
         StageSucceeds(r, bytes)
  PROVE  StageAddsUp(r, bytes)
<1> DEFINE start == ctx[r].VirtualAddress - ctx[r].UrbLength
<1>0. TypeOK /\ ctx[r] \in RequestContext
  BY DEF IInv, TypeOK
<1>1. InFlight(r) /\ status[r] = "pending" /\ StageAccounted(r)
  BY InFlightIsPending DEF StageSucceeds, InFlight
<1>2. bytes \in Nat /\ start \in Nat /\ bytes <= ctx[r].UrbLength
  BY <1>0, <1>1 DEF RequestContext, StageAccounted
<1>3. moved'[r] = moved[r] \cup start .. (start + bytes - 1)
  BY <1>0 DEF StageSucceeds, TypeOK
<1>4. moved[r] \subseteq 0 .. (start - 1) /\ ctx[r].Numxfer = Cardinality(moved[r])
  BY <1>1 DEF StageAccounted
<1> HIDE DEF start
<1>5. /\ moved'[r] \subseteq 0 .. (start + bytes - 1)
      /\ Cardinality(moved'[r]) = ctx[r].Numxfer + bytes
  BY <1>2, <1>3, <1>4, StageBytes, SMTT(30)
<1>6. start + bytes <= ctx[r].VirtualAddress
  BY <1>0, <1>2 DEF start, RequestContext
<1> QED
  BY <1>1, <1>2, <1>3, <1>5, <1>6 DEF start, StageAddsUp

LEMMA CompletionKeeps ==
  ASSUME IInv, NEW r \in Requests, Rio500_EvtReadWriteCompletion(r)
  PROVE  Owned(r)' /\ Released(r)' /\ Accounted(r)'
<1>0. TypeOK /\ ctx[r] \in RequestContext
  BY DEF IInv, TypeOK
<1>1. CASE StageFails(r)
  BY <1>1, EndKeeps DEF StageFails, Accounted
<1>2. ASSUME NEW bytes \in 0 .. ctx[r].UrbLength, StageSucceeds(r, bytes)
      PROVE  StageAddsUp(r, bytes)
  BY <1>2, SuccessfulStage
<1>3. ASSUME NEW bytes \in 0 .. ctx[r].UrbLength, LastStage(r, bytes)
      PROVE  Owned(r)' /\ Released(r)' /\ Accounted(r)'
  <2>1. StageSucceeds(r, bytes) /\ End(r, "success") /\ ctx[r].Length = 0
    BY <1>3 DEF LastStage
  <2>2. Owned(r)' /\ Released(r)' /\ status'[r] = "success"
    BY <1>2, <2>1, EndKeeps DEF StageAddsUp
  <2>3. info'[r] = ctx[r].Numxfer + bytes /\ ctx'[r].Total = ctx[r].Total
    BY <1>0, <1>3 DEF LastStage, Counted, TypeOK, RequestContext
  <2>4. ctx[r].VirtualAddress = ctx[r].Total
    BY <1>0, <1>2, <2>1 DEF StageAddsUp, StageAccounted, RequestContext
  <2>5. ResultAccounted(r)'
    BY <1>0, <1>2, <2>1, <2>3, <2>4 DEF StageAddsUp, ResultAccounted, RequestContext
  <2> QED
    BY <2>2, <2>5 DEF Accounted
<1>4. ASSUME NEW bytes \in 0 .. ctx[r].UrbLength, NextStage(r, bytes)
      PROVE  Owned(r)' /\ Released(r)' /\ Accounted(r)'
  <2>1. StageSucceeds(r, bytes) /\ ctx[r].Length # 0
    BY <1>4 DEF NextStage
  <2>2. ctx'[r] = NextContext(ctx[r], bytes)
    BY <1>0, <1>4 DEF NextStage, TypeOK
  <2>3. /\ UNCHANGED <<status, mdls, info, completions>>
        /\ status[r] = "pending" /\ Owned(r) /\ Released(r)
    BY <1>2, <1>4, <2>1, InFlightIsPending DEF NextStage, StageAddsUp
  <2>4. PipeOf(r)' = PipeOf(r) /\ PipeOf(r) \in Pipes
    BY <2>2, PipeOfIsPipe DEF PipeOf, NextContext
  <2>5. Owned(r)'
    <3>1. (\A q \in Pipes : At(r, q) => q = PipeOf(r)) /\ r \notin held[PipeOf(r)]
      BY <2>1, <2>3, <2>4 DEF Owned, At, StageSucceeds
    <3>2. \A q \in Pipes : /\ At(r, q)' <=> q = PipeOf(r)
                           /\ ~(r \in sent'[q] /\ r \in held'[q])
      BY <1>0, <1>4, <2>4, <3>1, SendOwns DEF NextStage
    <3>3. status'[r] = "pending"
      BY <2>3
    <3> QED
      BY <2>4, <3>2, <3>3 DEF Owned
  <2>6. Released(r)'
    BY <2>3 DEF Released, Done
  <2>7. /\ ctx[r].Length \in Nat /\ ctx[r].VirtualAddress \in Nat /\ ctx[r].Total \in Nat
        /\ ctx[r].UrbLength \in Nat /\ ctx[r].Numxfer \in Nat
    BY <1>0 DEF RequestContext
  <2>8. /\ StageLength(ctx[r].Length) \in 1 .. MaxTransferSize
        /\ StageLength(ctx[r].Length) <= ctx[r].Length
    BY <2>1, <2>7, StageLengthBounds
  <2>9. /\ ctx'[r].Total = ctx[r].Total
        /\ ctx'[r].Length = ctx[r].Length - StageLength(ctx[r].Length)
        /\ ctx'[r].VirtualAddress = ctx[r].VirtualAddress + StageLength(ctx[r].Length)
        /\ ctx'[r].UrbLength = StageLength(ctx[r].Length)
        /\ ctx'[r].Numxfer = ctx[r].Numxfer + bytes
    BY <2>2 DEF NextContext
  <2>10. moved'[r] \subseteq 0 .. (ctx'[r].VirtualAddress - ctx'[r].UrbLength - 1)
    BY <1>2, <2>1, <2>7, <2>8, <2>9 DEF StageAddsUp
  <2>11. StageAccounted(r)'
    BY <1>2, <2>1, <2>7, <2>8, <2>9, <2>10, TransferAssumption DEF StageAddsUp, StageAccounted
  <2> QED
    BY <2>3, <2>5, <2>6, <2>11 DEF Accounted
<1>5. ASSUME NEW bytes \in 0 .. ctx[r].UrbLength, NextStageFails(r, bytes)
      PROVE  Owned(r)' /\ Released(r)' /\ Accounted(r)'
  BY <1>2, <1>5, EndKeeps DEF StageAddsUp, NextStageFails, Accounted
<1> QED
  BY <1>1, <1>3, <1>4, <1>5 DEF Rio500_EvtReadWriteCompletion

(***************************************************************************)
(* The invariant holds, and with it the properties the runs check.         *)
(***************************************************************************)
LEMMA InitIInv == Init => IInv
<1> SUFFICES ASSUME Init PROVE IInv
  OBVIOUS
<1>1. \A r \in Requests : Owned(r) /\ Released(r) /\ Accounted(r)
  BY PipeOfIsPipe DEF Init, TargetInit, Owned, At, Released, Done, Accounted
<1> QED
  BY <1>1, InitType DEF IInv, OneOwner, ReleasedOnce

LEMMA NextIInv == IInv /\ [Next]_vars => IInv'
<1> SUFFICES ASSUME IInv, [Next]_vars PROVE IInv'
  OBVIOUS
<1>0. TypeOK /\ TypeOK'
  BY NextType DEF IInv
<1>1. ASSUME NEW q \in Requests PROVE Owned(q)' /\ Released(q)' /\ Accounted(q)'
  <2>1. ASSUME NEW r \in Requests, NewRequest(r) \/ Rio500_EvtReadWriteCompletion(r)
        PROVE  Owned(q)' /\ Released(q)' /\ Accounted(q)'
    <3>1. CASE q = r
      BY <2>1, <3>1, NewRequestKeeps, CompletionKeeps
    <3>2. CASE q # r
      BY <1>0, <2>1, <3>2, OthersUntouched, UntouchedKeeps
    <3> QED
      BY <3>1, <3>2
  <2>2. CASE Environment
    BY <1>0, <2>2, EnvironmentTouchesNone, UntouchedKeeps
  <2>3. ASSUME NEW r \in Requests, Rio500_EvtIoStop(r)
        PROVE  Owned(q)' /\ Released(q)' /\ Accounted(q)'
    BY <2>3, StopTouchesNone, UntouchedKeeps
  <2>4. CASE UNCHANGED vars
    <3>1. Untouched(q)
      BY <2>4 DEF vars, targetVars, requestVars, Untouched, At
    <3> QED
      BY <3>1, UntouchedKeeps
  <2> QED
    BY <2>1, <2>2, <2>3, <2>4 DEF Next
<1> QED
  BY <1>0, <1>1 DEF IInv, OneOwner, ReleasedOnce

LEMMA Invariance == Spec => []IInv
  BY InitIInv, NextIInv, PTL DEF Spec

\* For any number of requests in parallel, each has one owner at a time
\* (BulkTransfer!OneOwner): Rio500_EvtReadWriteCompletion and the exits of
\* ReadWriteBulkEndPoints never complete what a target still has, nor drop it.
THEOREM OneOwnerHolds == Spec => []OneOwner
<1>1. IInv => OneOwner
  BY DEF IInv
<1> QED
  BY <1>1, Invariance, PTL

\* No path of the two handlers leaks or frees twice a partial MDL, or completes a
\* request twice (BulkTransfer!ReleasedOnce).
THEOREM ReleasedOnceHolds == Spec => []ReleasedOnce
<1>1. IInv => ReleasedOnce
  BY DEF IInv
<1> QED
  BY <1>1, Invariance, PTL

\* Whatever the length of the request and of a stage, the URB of a stage stays
\* inside the buffer and off the bytes already transferred
\* (BulkTransfer!StageInBuffer).
THEOREM StageInBufferHolds == Spec => []StageInBuffer
<1>1. IInv => StageInBuffer
  BY DEF IInv, TypeOK, RequestContext, Accounted, StageAccounted, StageInBuffer
<1> QED
  BY <1>1, Invariance, PTL

\* The count reported with success is the number of bytes transferred, for any
\* sequence of full and short stages (BulkTransfer!InfoIsBytesMoved).
THEOREM InfoIsBytesMovedHolds == Spec => []InfoIsBytesMoved
<1>1. IInv => InfoIsBytesMoved
  BY DEF IInv, Accounted, ResultAccounted, InfoIsBytesMoved
<1> QED
  BY <1>1, Invariance, PTL

(***************************************************************************)
(* Stages advance: only NextStage leaves a request pending with another    *)
(* context, and nothing but the environment acts on one that is done.      *)
(***************************************************************************)
Advances(q) ==
  /\ status[q] = "pending" /\ ctx'[q] # ctx[q] /\ status'[q] = "pending" =>
       /\ ctx'[q].Length < ctx[q].Length
       /\ ctx'[q].VirtualAddress - ctx'[q].UrbLength = ctx[q].VirtualAddress
  /\ Done(q) => <<status'[q], ctx'[q], info'[q], moved'[q]>>
                  = <<status[q], ctx[q], info[q], moved[q]>>

LEMMA UntouchedAdvances == ASSUME NEW q \in Requests, Untouched(q) PROVE Advances(q)
  BY DEF Untouched, Advances, Done

LEMMA CompletionAdvances ==
  ASSUME IInv, NEW r \in Requests, Rio500_EvtReadWriteCompletion(r)
  PROVE  Advances(r)
<1>1. TypeOK /\ ctx[r] \in RequestContext
  BY DEF IInv, TypeOK
<1>2. InFlight(r)
  BY DEF Rio500_EvtReadWriteCompletion, StageFails, LastStage, NextStage,
         NextStageFails, StageSucceeds, InFlight
<1>3. status[r] = "pending" /\ ~Done(r)
  BY <1>2, InFlightIsPending DEF Done
<1>4. CASE \E bytes \in 0 .. ctx[r].UrbLength : NextStage(r, bytes)
  <2>1. PICK bytes \in 0 .. ctx[r].UrbLength : NextStage(r, bytes)
    BY <1>4
  <2>2. ctx[r].Length \in Nat \ {0} /\ ctx[r].VirtualAddress \in Nat
    BY <1>1, <2>1 DEF NextStage, RequestContext
  <2>3. ctx'[r] = NextContext(ctx[r], bytes)
    BY <1>1, <2>1 DEF NextStage, TypeOK
  <2>4. StageLength(ctx[r].Length) \in 1 .. ctx[r].Length
    BY <2>2, TransferAssumption DEF StageLength
  <2> QED
    BY <1>3, <2>2, <2>3, <2>4 DEF NextContext, Advances
<1>5. CASE StageFails(r) \/ \E bytes \in 0 .. ctx[r].UrbLength :
                              LastStage(r, bytes) \/ NextStageFails(r, bytes)
  <2>1. status'[r] # "pending"
    BY <1>1, <1>5 DEF StageFails, LastStage, NextStageFails, End, TypeOK
  <2> QED
    BY <1>3, <2>1 DEF Advances
<1> QED
  BY <1>4, <1>5 DEF Rio500_EvtReadWriteCompletion

\* The next stage of any request starts where the last one ended and leaves less to
\* do, and nothing touches a completed request (BulkTransfer!StagesAdvance): so
\* Rio500_EvtReadWriteCompletion sends a request on finitely often.
THEOREM StagesAdvanceHolds == Spec => StagesAdvance
<1>1. IInv /\ [Next]_vars => [\A q \in Requests : Advances(q)]_vars
  <2> SUFFICES ASSUME IInv, Next, NEW q \in Requests PROVE Advances(q)
    OBVIOUS
  <2>0. TypeOK
    BY DEF IInv
  <2>1. ASSUME NEW r \in Requests, NewRequest(r) \/ Rio500_EvtReadWriteCompletion(r)
        PROVE  Advances(q)
    <3>1. CASE q # r
      BY <2>0, <2>1, <3>1, OthersUntouched, UntouchedAdvances
    <3>2. CASE q = r /\ NewRequest(r)
      BY <3>2 DEF NewRequest, Rio500_EvtIoRead, Rio500_EvtIoWrite, Advances, Done
    <3>3. CASE q = r /\ Rio500_EvtReadWriteCompletion(r)
      BY <3>3, CompletionAdvances
    <3> QED
      BY <2>1, <3>1, <3>2, <3>3
  <2>2. CASE Environment
    BY <2>0, <2>2, EnvironmentTouchesNone, UntouchedAdvances
  <2>3. ASSUME NEW r \in Requests, Rio500_EvtIoStop(r) PROVE Advances(q)
    BY <2>3, StopTouchesNone, UntouchedAdvances
  <2> QED
    BY <2>1, <2>2, <2>3 DEF Next
<1>2. [\A q \in Requests : Advances(q)]_vars
        => [\A r \in Requests :
              /\ status[r] = "pending" /\ ctx'[r] # ctx[r] /\ status'[r] = "pending" =>
                   /\ ctx'[r].Length < ctx[r].Length
                   /\ ctx'[r].VirtualAddress - ctx'[r].UrbLength = ctx[r].VirtualAddress
              /\ Done(r) => <<status'[r], ctx'[r], info'[r], moved'[r]>>
                              = <<status[r], ctx[r], info[r], moved[r]>>]_vars
  BY DEF Advances
<1> QED
  BY <1>1, <1>2, Invariance, PTL DEF Spec, StagesAdvance

(***************************************************************************)
(* The transfers implement the promise of IoRequest.                       *)
(***************************************************************************)
LEMMA SameCardinality == \A S : Promise!Cardinality(S) = Cardinality(S)
  BY DEF Promise!Cardinality, Cardinality, Promise!IsFiniteSet, IsFiniteSet

LEMMA PromiseInit == Init => Promise!Init
  BY DEF Init, Promise!Init

LEMMA NewRequestKeepsPromise ==
  ASSUME IInv, NEW r \in Requests, NewRequest(r)
  PROVE  Promise!Next
<1>0. TypeOK /\ Accounted(r)
  BY DEF IInv
<1>1. PICK len \in Lengths, p \in Pipes :
        status[r] = "new" /\ ReadWriteBulkEndPoints(r, len, p)
  BY DEF NewRequest, Rio500_EvtIoRead, Rio500_EvtIoWrite, Pipes
<1>2. CASE Reject(r)
  <2>1. moved[r] = {} /\ moved' = moved /\ moved' = [moved EXCEPT ![r] = moved'[r]]
    BY <1>0, <1>1, <1>2 DEF Reject, Accounted, TypeOK
  <2>2. Promise!Fail(r)
    BY <1>1, <1>2, <2>1 DEF Reject, Promise!Fail, Promise!Transfer
  <2> QED
    BY <2>2 DEF Promise!Next
<1>3. CASE SendFirstStage(r, len, p)
  BY <1>1, <1>3 DEF SendFirstStage, Promise!Accept, Promise!Next
<1> QED
  BY <1>1, <1>2, <1>3 DEF ReadWriteBulkEndPoints

LEMMA CompletionKeepsPromise ==
  ASSUME IInv, NEW r \in Requests, Rio500_EvtReadWriteCompletion(r)
  PROVE  Promise!Next
<1>0. TypeOK /\ ctx[r] \in RequestContext
  BY DEF IInv, TypeOK
<1>1. CASE StageFails(r)
  <2>1. status[r] = "pending" /\ StageAccounted(r)
    BY <1>1, InFlightIsPending DEF StageFails
  <2>2. moved[r] \subseteq 0 .. (MaximumTransferSize - 1)
    BY <1>0, <2>1, TransferAssumption DEF StageAccounted, RequestContext
  <2>3. moved' = moved /\ moved' = [moved EXCEPT ![r] = moved'[r]]
    BY <1>0, <1>1 DEF StageFails, TypeOK
  <2>4. Promise!Fail(r)
    BY <1>1, <2>1, <2>2, <2>3 DEF StageFails, End, Promise!Fail, Promise!Transfer
  <2> QED
    BY <2>4 DEF Promise!Next
<1>2. ASSUME NEW bytes \in 0 .. ctx[r].UrbLength, StageSucceeds(r, bytes)
      PROVE  StageAddsUp(r, bytes) /\ Promise!Transfer(r)
  <2>1. StageAddsUp(r, bytes)
    BY <1>2, SuccessfulStage
  <2>2. moved'[r] \subseteq 0 .. (MaximumTransferSize - 1)
    BY <1>0, <2>1, TransferAssumption DEF StageAddsUp, StageAccounted, RequestContext
  <2>3. moved' = [moved EXCEPT ![r] = moved'[r]]
    BY <1>0, <1>2 DEF StageSucceeds, TypeOK
  <2> QED
    BY <2>1, <2>2, <2>3 DEF StageAddsUp, Promise!Transfer
<1>3. ASSUME NEW bytes \in 0 .. ctx[r].UrbLength, LastStage(r, bytes)
      PROVE  Promise!Next
  <2>1. StageAddsUp(r, bytes) /\ Promise!Transfer(r)
    BY <1>2, <1>3 DEF LastStage
  <2>2. info' = [info EXCEPT ![r] = Cardinality(moved'[r])]
    BY <1>3, <2>1 DEF LastStage, StageAddsUp
  <2>3. status[r] = "pending" /\ status' = [status EXCEPT ![r] = "success"]
    BY <1>3, <2>1 DEF LastStage, End, StageAddsUp
  <2>4. Promise!Succeed(r)
    BY <2>1, <2>2, <2>3, SameCardinality DEF Promise!Succeed
  <2> QED
    BY <2>4 DEF Promise!Next
<1>4. ASSUME NEW bytes \in 0 .. ctx[r].UrbLength, NextStage(r, bytes)
      PROVE  Promise!Next
  <2>1. StageAddsUp(r, bytes) /\ Promise!Transfer(r)
    BY <1>2, <1>4 DEF NextStage
  <2>2. Promise!Progress(r)
    BY <1>4, <2>1 DEF NextStage, StageAddsUp, Promise!Progress
  <2> QED
    BY <2>2 DEF Promise!Next
<1>5. ASSUME NEW bytes \in 0 .. ctx[r].UrbLength, NextStageFails(r, bytes)
      PROVE  Promise!Next
  <2>1. StageAddsUp(r, bytes) /\ Promise!Transfer(r)
    BY <1>2, <1>5 DEF NextStageFails
  <2>2. Promise!Fail(r)
    BY <1>5, <2>1 DEF NextStageFails, End, StageAddsUp, Promise!Fail
  <2> QED
    BY <2>2 DEF Promise!Next
<1> QED
  BY <1>1, <1>3, <1>4, <1>5 DEF Rio500_EvtReadWriteCompletion

LEMMA NextKeepsPromise == IInv /\ [Next]_vars => [Promise!Next]_(Promise!vars)
<1> SUFFICES ASSUME IInv, [Next]_vars PROVE [Promise!Next]_(Promise!vars)
  OBVIOUS
<1>1. CASE Environment
  BY <1>1 DEF Environment, TakeWorkItem, requestVars, Promise!vars
<1>2. CASE UNCHANGED vars
  BY <1>2 DEF vars, requestVars, Promise!vars
<1>3. ASSUME NEW r \in Requests, Rio500_EvtIoStop(r) PROVE UNCHANGED Promise!vars
  BY <1>3 DEF Rio500_EvtIoStop, requestVars, Promise!vars
<1> QED
  BY <1>1, <1>2, <1>3, NewRequestKeepsPromise, CompletionKeepsPromise DEF Next

\* A request handled in stages, over targets that are stopped, restarted and reset
\* under it, is answered as IoRequest promises (BulkTransfer!ImplementsIoRequest):
\* once, for good, and with the true count.
THEOREM PromiseKept == Spec => ImplementsIoRequest
<1>1. Spec => Promise!Spec
  BY PromiseInit, NextKeepsPromise, Invariance, PTL DEF Spec, Promise!Spec
<1> QED
  BY <1>1 DEF ImplementsIoRequest

=============================================================================
