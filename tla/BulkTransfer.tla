---------------------------- MODULE BulkTransfer ----------------------------
(***************************************************************************)
(* Read and write requests of driver/queue.c and driver/bulkrwr.c: a       *)
(* request is cut into stages of at most MaxTransferSize bytes, every      *)
(* stage is one URB, and the completion routine sends the next stage or    *)
(* completes the request.  What happens to the I/O targets in the meantime *)
(* is left open here (Environment); module Rio500Driver closes it.         *)
(*                                                                         *)
(* A buffer is the set of its byte offsets.  Requests are handled in       *)
(* parallel (WdfIoQueueDispatchParallel); one handler touches state shared *)
(* with others only in its last call to the framework, so each handler is  *)
(* one action.                                                             *)
(***************************************************************************)
EXTENDS UsbTarget

CONSTANTS MaxTransferSize,      \* GetMaxTransferSize(): the longest stage
          MaximumTransferSize,  \* DEVICE_CONTEXT.MaximumTransferSize
          Lengths,              \* request lengths the applications use
          ConfiguredPipes,      \* the pipes SelectInterfaces has found
          Faults                \* framework calls that may fail here

\* Requests of length zero never get here: the queue's configuration leaves them to
\* the framework, which completes them itself.
ASSUME TransferAssumption ==
  /\ MaxTransferSize \in Nat \ {0}
  /\ MaximumTransferSize \in Nat
  /\ Lengths \subseteq Nat \ {0}
  /\ ConfiguredPipes \subseteq Pipes

VARIABLES status,       \* status[r]: "new", "pending", "success" or "failure"
          ctx,          \* ctx[r]: its REQUEST_CONTEXT and the length of its URB
          mdls,         \* mdls[r]: partial MDLs allocated for it and not freed
          info,         \* info[r]: the byte count reported with success
          completions,  \* completions[r]: calls to WdfRequestComplete
          moved,        \* moved[r]: buffer offsets its successful stages covered
          workItems     \* workItems[p]: queued work items that will reset p

requestVars == <<status, ctx, mdls, info, completions, moved>>
vars == <<targetVars, requestVars, workItems>>

RequestContext ==
  [Read : BOOLEAN, Total : Nat, Length : Nat, Numxfer : Nat,
   VirtualAddress : Nat, UrbLength : Nat]

NoContext == [Read |-> TRUE, Total |-> 0, Length |-> 0, Numxfer |-> 0,
              VirtualAddress |-> 0, UrbLength |-> 0]

PipeOf(r) == IF ctx[r].Read THEN ReadPipe ELSE WritePipe
Done(r)   == status[r] \in {"success", "failure"}
InFlight(r) == r \in sent[PipeOf(r)] \cup held[PipeOf(r)]

\* Mutant of StageLength: a stage is as long as it may be, whatever is left.
StageLengthUnclamped(len) == MaxTransferSize

StageLength(len) == IF len > MaxTransferSize THEN MaxTransferSize ELSE len

Init ==
  /\ TargetInit
  /\ status = [r \in Requests |-> "new"]
  /\ ctx = [r \in Requests |-> NoContext]
  /\ mdls = [r \in Requests |-> 0]
  /\ info = [r \in Requests |-> 0]
  /\ completions = [r \in Requests |-> 0]
  /\ moved = [r \in Requests |-> {}]
  /\ workItems = [p \in Pipes |-> 0]

-----------------------------------------------------------------------------
(* A new request.                                                          *)

\* Mutant of Reject: the MDL that was allocated is not freed at Exit.
RejectKeepsMdl(r) ==
  /\ status' = [status EXCEPT ![r] = "failure"]
  /\ completions' = [completions EXCEPT ![r] = @ + 1]
  /\ mdls' = [mdls EXCEPT ![r] = @ + 1]
  /\ UNCHANGED <<targetVars, ctx, info, moved, workItems>>

\* A missing pipe, a length over the limit, no memory for the MDL or the URB,
\* an URB that cannot be formatted or sent: the request fails and keeps no MDL.
Reject(r) ==
  /\ status' = [status EXCEPT ![r] = "failure"]
  /\ completions' = [completions EXCEPT ![r] = @ + 1]
  /\ UNCHANGED <<targetVars, ctx, mdls, info, moved, workItems>>

SendFirstStage(r, len, p) ==
  /\ len <= MaximumTransferSize
  /\ status' = [status EXCEPT ![r] = "pending"]
  /\ mdls' = [mdls EXCEPT ![r] = @ + 1]
  /\ ctx' = [ctx EXCEPT ![r] =
       [Read |-> p = ReadPipe, Total |-> len,
        Length |-> len - StageLength(len), Numxfer |-> 0,
        VirtualAddress |-> StageLength(len), UrbLength |-> StageLength(len)]]
  /\ WdfRequestSend(r, p)
  /\ UNCHANGED <<tstate, halted, info, completions, moved, workItems>>

ReadWriteBulkEndPoints(r, len, p) ==
  \/ Reject(r)
  \/ p \in ConfiguredPipes /\ SendFirstStage(r, len, p)

Rio500_EvtIoRead(r, len) ==
  status[r] = "new" /\ ReadWriteBulkEndPoints(r, len, ReadPipe)

Rio500_EvtIoWrite(r, len) ==
  status[r] = "new" /\ ReadWriteBulkEndPoints(r, len, WritePipe)

-----------------------------------------------------------------------------
(* A stage has come back: the parts of Rio500_EvtReadWriteCompletion.      *)

\* Label End: the MDL is freed and the request completed.
End(r, result) ==
  /\ Forget(r, PipeOf(r))
  /\ mdls' = [mdls EXCEPT ![r] = @ - 1]
  /\ status' = [status EXCEPT ![r] = result]
  /\ completions' = [completions EXCEPT ![r] = @ + 1]

\* Mutant of QueuePassiveLevelCallback: a failed stage asks for no reset.
QueueNoCallback(p) == UNCHANGED workItems

\* A work item that will reset the pipe, unless it cannot be created.
QueuePassiveLevelCallback(p) ==
  \/ workItems' = [workItems EXCEPT ![p] = @ + 1]
  \/ "workitem" \in Faults /\ UNCHANGED workItems

\* The URB failed: the endpoint stalled, the request was cancelled (sent or
\* kept back), or the bus had an error.
StageFails(r) ==
  /\ InFlight(r)
  /\ \/ UNCHANGED halted
     \/ r \in sent[PipeOf(r)] /\ halted' = [halted EXCEPT ![PipeOf(r)] = TRUE]
  /\ QueuePassiveLevelCallback(PipeOf(r))
  /\ End(r, "failure")
  /\ UNCHANGED <<tstate, ctx, info, moved>>

\* The URB succeeded with bytes of the stage; a short stage is a success too
\* (USBD_SHORT_TRANSFER_OK).
StageSucceeds(r, bytes) ==
  /\ r \in sent[PipeOf(r)]
  /\ ~halted[PipeOf(r)]
  /\ bytes <= ctx[r].UrbLength
  /\ LET start == ctx[r].VirtualAddress - ctx[r].UrbLength
     IN  moved' = [moved EXCEPT ![r] = @ \cup start .. (start + bytes - 1)]

\* The context with the bytes of a stage counted, and once the next stage is set up.
Counted(c, bytes) == [c EXCEPT !.Numxfer = @ + bytes]

\* Mutants of NextContext: the bytes of the stage before are not counted, the next
\* stage covers the same addresses again, and what is left does not get less.
NextContextForgetsBytes(c, bytes) ==
  LET stage == StageLength(c.Length)
  IN  [c EXCEPT !.Length = @ - stage, !.VirtualAddress = @ + stage, !.UrbLength = stage]

NextContextStaysPut(c, bytes) ==
  LET stage == StageLength(c.Length)
  IN  [c EXCEPT !.Length = @ - stage, !.Numxfer = @ + bytes, !.UrbLength = stage]

NextContextKeepsLength(c, bytes) ==
  LET stage == StageLength(c.Length)
  IN  [c EXCEPT !.Numxfer = @ + bytes, !.VirtualAddress = @ + stage, !.UrbLength = stage]

NextContext(c, bytes) ==
  LET stage == StageLength(c.Length)
  IN  [Read |-> c.Read, Total |-> c.Total, Length |-> c.Length - stage,
       Numxfer |-> c.Numxfer + bytes,
       VirtualAddress |-> c.VirtualAddress + stage, UrbLength |-> stage]

\* Mutant of LastStage: the length that was asked for is reported, not the count.
LastStageReportsTotal(r, bytes) ==
  /\ ctx[r].Length = 0
  /\ StageSucceeds(r, bytes)
  /\ ctx' = [ctx EXCEPT ![r] = Counted(@, bytes)]
  /\ info' = [info EXCEPT ![r] = ctx[r].Total]
  /\ End(r, "success")
  /\ UNCHANGED <<tstate, halted, workItems>>

LastStage(r, bytes) ==
  /\ ctx[r].Length = 0
  /\ StageSucceeds(r, bytes)
  /\ ctx' = [ctx EXCEPT ![r] = Counted(@, bytes)]
  /\ info' = [info EXCEPT ![r] = ctx[r].Numxfer + bytes]
  /\ End(r, "success")
  /\ UNCHANGED <<tstate, halted, workItems>>

\* Mutant of NextStage: every further stage goes to the read pipe.
NextStageToReadPipe(r, bytes) ==
  /\ ctx[r].Length # 0
  /\ StageSucceeds(r, bytes)
  /\ ctx' = [ctx EXCEPT ![r] = NextContext(@, bytes)]
  /\ WdfRequestSend(r, ReadPipe)
  /\ UNCHANGED <<tstate, halted, status, mdls, info, completions, workItems>>

NextStage(r, bytes) ==
  /\ ctx[r].Length # 0
  /\ StageSucceeds(r, bytes)
  /\ ctx' = [ctx EXCEPT ![r] = NextContext(@, bytes)]
  /\ WdfRequestSend(r, PipeOf(r))
  /\ UNCHANGED <<tstate, halted, status, mdls, info, completions, workItems>>

\* The next stage cannot be set up: before or after the context has moved on.
NextStageFails(r, bytes) ==
  /\ ctx[r].Length # 0
  /\ StageSucceeds(r, bytes)
  /\ \/ ctx' = [ctx EXCEPT ![r] = Counted(@, bytes)]
     \/ ctx' = [ctx EXCEPT ![r] = NextContext(@, bytes)]
  /\ End(r, "failure")
  /\ UNCHANGED <<tstate, halted, info, workItems>>

Rio500_EvtReadWriteCompletion(r) ==
  \/ StageFails(r)
  \/ \E bytes \in 0 .. ctx[r].UrbLength :
       LastStage(r, bytes) \/ NextStage(r, bytes) \/ NextStageFails(r, bytes)

-----------------------------------------------------------------------------
(* The device is suspended or removed with requests in flight.             *)

\* On removal the target is asked to cancel what it has of the request - nothing, if
\* the stage has just come back: the next one is sent all the same.  On a suspend the
\* driver acknowledges, which changes nothing that is modelled.
Rio500_EvtIoStop(r) ==
  /\ InFlight(r)
  /\ cancelled' = cancelled \cup {r}
  /\ UNCHANGED <<tstate, sent, held, halted, requestVars, workItems>>

-----------------------------------------------------------------------------
(* What others may do to the targets and the work items.                   *)

TakeWorkItem(p) ==
  /\ workItems[p] > 0
  /\ workItems' = [workItems EXCEPT ![p] = @ - 1]
  /\ UNCHANGED <<targetVars, requestVars>>

Environment ==
  \/ \E p \in Pipes :
       \/ TakeWorkItem(p)
       \/ /\ WdfIoTargetStop(p) \/ WdfIoTargetStart(p) \/ WdfUsbTargetPipeReset(p)
          /\ UNCHANGED <<requestVars, workItems>>
  \/ WdfUsbTargetDeviceResetPort /\ UNCHANGED <<requestVars, workItems>>

NewRequest(r) ==
  \E len \in Lengths : Rio500_EvtIoRead(r, len) \/ Rio500_EvtIoWrite(r, len)

Next ==
  \/ \E r \in Requests :
       NewRequest(r) \/ Rio500_EvtReadWriteCompletion(r) \/ Rio500_EvtIoStop(r)
  \/ Environment

Spec == Init /\ [][Next]_vars

-----------------------------------------------------------------------------
(* Properties.                                                             *)

\* Every variable has its type, counters of live MDLs included.
TypeOK ==
  /\ TargetTypeOK
  /\ status \in [Requests -> {"new", "pending", "success", "failure"}]
  /\ ctx \in [Requests -> RequestContext]
  /\ mdls \in [Requests -> Int]
  /\ info \in [Requests -> Nat]
  /\ completions \in [Requests -> Nat]
  /\ moved \in [Requests -> SUBSET Int]
  /\ workItems \in [Pipes -> Nat]

\* The target of p has request r.
At(r, p) == r \in sent[p] \cup held[p]

Owned(r) ==
  /\ status[r] = "pending" <=> \E p \in Pipes : At(r, p)
  /\ status[r] = "pending" =>
       \A p \in Pipes : /\ At(r, p) => p = PipeOf(r)
                        /\ ~(r \in sent[p] /\ r \in held[p])

\* Across submission, staging, cancellation and every error exit of the two
\* handlers, a request is with exactly one owner: while it is pending it is with
\* its own pipe's target, once, and with no other; before and after it is with
\* none.
OneOwner == \A r \in Requests : Owned(r)

Released(r) ==
  /\ mdls[r] = IF status[r] = "pending" THEN 1 ELSE 0
  /\ completions[r] = IF Done(r) THEN 1 ELSE 0

\* The partial MDL lives exactly as long as the request is pending (bulkrwr.c
\* frees it at Exit and at End), and the request is completed exactly once.
ReleasedOnce == \A r \in Requests : Released(r)

\* The URB in flight covers part of the buffer that is inside it, no longer than
\* a stage may be, and that no earlier stage has touched; what is behind it and
\* what is left add up to the request.
StageInBuffer ==
  \A r \in Requests : status[r] = "pending" =>
    /\ ctx[r].UrbLength \in 1 .. MaxTransferSize
    /\ ctx[r].UrbLength <= ctx[r].VirtualAddress
    /\ ctx[r].VirtualAddress + ctx[r].Length = ctx[r].Total
    /\ ctx[r].Total <= MaximumTransferSize
    /\ \A b \in moved[r] : b < ctx[r].VirtualAddress - ctx[r].UrbLength

\* The count a successful request reports is the number of bytes of its buffer
\* that were transferred, whichever stages came back short.
InfoIsBytesMoved ==
  \A r \in Requests : status[r] = "success" =>
    info[r] = Cardinality(moved[r]) /\ moved[r] \subseteq 0 .. (ctx[r].Total - 1)

\* A request that is circulated again has less left to do, and nothing that has
\* been completed is touched any more.
StagesAdvance ==
  [][\A r \in Requests :
       /\ status[r] = "pending" /\ ctx'[r] # ctx[r] /\ status'[r] = "pending" =>
            /\ ctx'[r].Length < ctx[r].Length
            /\ ctx'[r].VirtualAddress - ctx'[r].UrbLength = ctx[r].VirtualAddress
       /\ Done(r) => <<status'[r], ctx'[r], info'[r], moved'[r]>>
                       = <<status[r], ctx[r], info[r], moved[r]>>]_vars

\* Stages, resets and cancellations cannot be told from a request that is simply
\* answered: the transfers implement IoRequest.
Promise == INSTANCE IoRequest
             WITH Requests <- Requests, MaximumTransferSize <- MaximumTransferSize,
                  status <- status, info <- info, moved <- moved
ImplementsIoRequest == Promise!Spec

\* What the comment on ReadWriteBulkEndPoints says: stages follow each other
\* until the requested length is transferred, so the bytes a successful request
\* reports are the first bytes of its buffer.
SuccessHasNoHole ==
  \A r \in Requests : status[r] = "success" => moved[r] = 0 .. (info[r] - 1)

=============================================================================
