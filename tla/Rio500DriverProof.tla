-------------------------- MODULE Rio500DriverProof --------------------------
(***************************************************************************)
(* Theorems about the running driver, for any set of requests and any      *)
(* number of threads that reset pipes and the device at the same time.     *)
(***************************************************************************)
EXTENDS Rio500Driver, BulkTransferProof

(***************************************************************************)
(* Types.                                                                  *)
(***************************************************************************)
LEMMA ReadPipeIsPipe == ReadPipe \in Pipes /\ WritePipe \in Pipes
  BY DEF Pipes

LEMMA GotoType ==
  ASSUME ThreadsTypeOK, NEW t \in Threads, NEW label \in Labels, Goto(t, label)
  PROVE  pc' \in [Threads -> Labels]
  BY DEF Goto, ThreadsTypeOK

LEMMA NextPipeType ==
  ASSUME ThreadsTypeOK, NEW t \in Threads, NEW body \in Labels, NEW after \in Labels,
         NextPipe(t, body, after)
  PROVE  pc' \in [Threads -> Labels] /\ pipe' \in [Threads -> Pipes]
  BY ReadPipeIsPipe DEF NextPipe, Goto, AtPipe, ThreadsTypeOK

LEMMA DriverInitType == DriverInit => ThreadsTypeOK
  BY ReadPipeIsPipe, DriverAssumption DEF DriverInit, ThreadsTypeOK, Labels

LEMMA DriverNextType == ThreadsTypeOK /\ [DriverNext]_driverVars => ThreadsTypeOK'
<1> SUFFICES ASSUME ThreadsTypeOK, [DriverNext]_driverVars PROVE ThreadsTypeOK'
  OBVIOUS
<1> USE ReadPipeIsPipe DEF Labels, history, GiveUp
<1>1. CASE UNCHANGED threadVars
  BY <1>1 DEF threadVars, ThreadsTypeOK
<1>2. ASSUME NEW t \in Threads, Rio500_EvtReadWriteWorkItem(t) PROVE ThreadsTypeOK'
  BY <1>2 DEF Rio500_EvtReadWriteWorkItem, Goto, AtPipe, ThreadsTypeOK
<1>3. ASSUME NEW t \in Threads, Rio500_EvtIoDeviceControl(t) PROVE ThreadsTypeOK'
  <2>1. /\ ioctls' \in 0 .. MaxIoctls
        /\ overlapped' \in SUBSET Threads
        /\ gaveUp' = gaveUp
    BY <1>3, DriverAssumption DEF Rio500_EvtIoDeviceControl, IoctlResetPipe, IoctlResetDevice,
                IoctlRioCommand, NewIoctl, CallResetDevice, ThreadsTypeOK
  <2> QED
    BY <1>3, <2>1 DEF Rio500_EvtIoDeviceControl, IoctlResetPipe, IoctlResetDevice,
                IoctlRioCommand, CallResetDevice, Goto, AtPipe, ThreadsTypeOK
<1>4. ASSUME NEW t \in Threads,
             ResetPipeSend(t) \/ ResetPipeSucceeds(t) \/ ResetPipeFails(t)
             \/ RioCommandReturns(t)
      PROVE  ThreadsTypeOK'
  <2>1. CASE ResetPipeSucceeds(t)
    BY <2>1, NextPipeType, GotoType DEF ResetPipeSucceeds, ThreadsTypeOK
  <2>2. CASE ResetPipeFails(t)
    <3>1. overlapped' \in SUBSET Threads /\ gaveUp' = gaveUp
      BY <2>2 DEF ResetPipeFails, CallResetDevice, ThreadsTypeOK
    <3> QED
      BY <2>2, <3>1 DEF ResetPipeFails, CallResetDevice, Goto, AtPipe, ThreadsTypeOK
  <2> QED
    BY <1>4, <2>1, <2>2 DEF ResetPipeSend, RioCommandReturns, Goto, ThreadsTypeOK
<1>5. ASSUME NEW t \in Threads, ResetDevice(t) PROVE ThreadsTypeOK'
  <2>1. CASE StopReturns(t)
    BY <2>1, NextPipeType DEF StopReturns, ThreadsTypeOK
  <2>2. CASE StartPipe(t)
    BY <2>2, NextPipeType DEF StartPipe, StartOrGiveUp, ThreadsTypeOK
  <2>3. CASE ResetPortSucceeds(t)
    BY <2>3 DEF ResetPortSucceeds, Goto, ThreadsTypeOK
  <2> QED
    BY <1>5, <2>1, <2>2, <2>3
       DEF ResetDevice, StopPipe, IsConnected, ResetPortFails, Goto, ThreadsTypeOK
<1> QED
  BY <1>1, <1>2, <1>3, <1>4, <1>5 DEF DriverNext, Running, driverVars

\* The threads' variables keep their types (Rio500Driver!ThreadsTypeOK).
THEOREM ThreadsTypeCorrect == DriverSpec => []ThreadsTypeOK
  BY DriverInitType, DriverNextType, PTL DEF DriverSpec

(***************************************************************************)
(* The driver implements BulkTransfer: what its threads do to the targets  *)
(* and the work items is what BulkTransfer allows its environment.  With   *)
(* that, every theorem about the transfers is one about the driver.        *)
(***************************************************************************)
LEMMA DriverStep == ThreadsTypeOK /\ [DriverNext]_driverVars => [Next]_vars
<1> SUFFICES ASSUME ThreadsTypeOK, [DriverNext]_driverVars PROVE [Next]_vars
  OBVIOUS
<1>1. ASSUME NEW r \in Requests, Transfers(r) PROVE Next
  BY <1>1 DEF Transfers, Next
<1>2. ASSUME NEW t \in Threads, Rio500_EvtReadWriteWorkItem(t) PROVE Next
  BY <1>2 DEF Rio500_EvtReadWriteWorkItem, Next, Environment
<1>3. ASSUME NEW t \in Threads, Rio500_EvtIoDeviceControl(t) PROVE UNCHANGED vars
  BY <1>3 DEF Rio500_EvtIoDeviceControl, IoctlResetPipe, IoctlResetDevice,
              IoctlRioCommand, NewIoctl
<1>4. ASSUME NEW t \in Threads, Running(t) PROVE [Next]_vars
  <2>0. pipe[t] \in Pipes
    BY DEF ThreadsTypeOK
  <2>1. CASE ResetPipeSucceeds(t)
    BY <2>0, <2>1 DEF ResetPipeSucceeds, Next, Environment
  <2>2. CASE StopPipe(t)
    BY <2>0, <2>2 DEF StopPipe, Next, Environment
  <2>3. CASE ResetPortSucceeds(t)
    BY <2>3 DEF ResetPortSucceeds, Next, Environment
  <2>4. CASE StartPipe(t)
    BY <2>0, <2>4 DEF StartPipe, StartOrGiveUp, Next, Environment, vars
  <2>5. CASE ResetPipeSend(t) \/ ResetPipeFails(t) \/ RioCommandReturns(t)
             \/ StopReturns(t) \/ IsConnected(t) \/ ResetPortFails(t)
    BY <2>5 DEF ResetPipeSend, ResetPipeFails, RioCommandReturns, StopReturns,
                IsConnected, ResetPortFails
  <2> QED
    BY <1>4, <2>1, <2>2, <2>3, <2>4, <2>5 DEF Running, ResetDevice
<1>5. CASE UNCHANGED driverVars
  BY <1>5 DEF driverVars
<1> QED
  BY <1>1, <1>2, <1>3, <1>4, <1>5 DEF DriverNext

\* Whatever the threads reset, the requests of the running driver go through the
\* steps BulkTransfer describes and no others (Spec of BulkTransfer).
THEOREM DriverImplementsTransfers == DriverSpec => Spec
<1>1. DriverInit => Init
  BY DEF DriverInit
<1> QED
  BY <1>1, DriverStep, ThreadsTypeCorrect, PTL DEF DriverSpec, Spec

\* So the running driver keeps the promise of IoRequest.
THEOREM DriverKeepsPromise == DriverSpec => ImplementsIoRequest
  BY DriverImplementsTransfers, PromiseKept

(***************************************************************************)
(* Stopped pipes.  A thread that has stopped both pipes is back at the     *)
(* first one, so that StartAllPipes will pass both: without AtFirstPipe    *)
(* the invariant is not inductive.                                         *)
(***************************************************************************)
AtFirstPipe == \A t \in Threads : pc[t] \in {"connected", "port"} => pipe[t] = ReadPipe

StoppedInv == ThreadsTypeOK /\ TargetTypeOK /\ AtFirstPipe /\ StoppedHasStarter

\* The other threads are where they were.
OthersStay(t) ==
  \A u \in Threads \ {t} : pc'[u] = pc[u] /\ pipe'[u] = pipe[u] /\ kind'[u] = kind[u]

LEMMA ThreadStays ==
  ASSUME ThreadsTypeOK, NEW t \in Threads,
         Running(t) \/ Rio500_EvtIoDeviceControl(t) \/ Rio500_EvtReadWriteWorkItem(t)
  PROVE  OthersStay(t)
<1> USE DEF OthersStay, ThreadsTypeOK, Goto, AtPipe, CallResetDevice
<1>1. CASE Rio500_EvtIoDeviceControl(t) \/ Rio500_EvtReadWriteWorkItem(t)
  BY <1>1 DEF Rio500_EvtIoDeviceControl, IoctlResetPipe, IoctlResetDevice,
              IoctlRioCommand, Rio500_EvtReadWriteWorkItem
<1>2. CASE ResetDevice(t)
  BY <1>2 DEF ResetDevice, StopPipe, StopReturns, IsConnected, ResetPortSucceeds,
              ResetPortFails, StartPipe, NextPipe
<1>3. CASE ResetPipeSend(t) \/ ResetPipeSucceeds(t) \/ ResetPipeFails(t)
           \/ RioCommandReturns(t)
  BY <1>3 DEF ResetPipeSend, ResetPipeSucceeds, ResetPipeFails, RioCommandReturns,
              NextPipe
<1> QED
  BY <1>1, <1>2, <1>3 DEF Running

\* A step of one thread leaves no pipe without a starter if the thread itself
\* answers for what it stops and for what it no longer keeps stopped.
LEMMA StarterStays ==
  ASSUME StoppedHasStarter, "start" \notin gaveUp, NEW t \in Threads, OthersStay(t),
         \A p \in Pipes : tstate'[p] = "stopped" =>
            \/ KeepsStopped(t, p)'
            \/ tstate[p] = "stopped" /\ ~KeepsStopped(t, p)
  PROVE  StoppedHasStarter'
  BY DEF StoppedHasStarter, KeepsStopped, OthersStay

\* What has failed once has failed.
LEMMA GaveUpStays == [DriverNext]_driverVars => gaveUp \subseteq gaveUp'
<1> USE DEF history, CallResetDevice
<1>1. CASE UNCHANGED threadVars
  BY <1>1 DEF threadVars
<1>2. ASSUME NEW t \in Threads,
             Rio500_EvtIoDeviceControl(t) \/ Rio500_EvtReadWriteWorkItem(t)
      PROVE  gaveUp' = gaveUp
  BY <1>2 DEF Rio500_EvtIoDeviceControl, IoctlResetPipe, IoctlResetDevice,
              IoctlRioCommand, Rio500_EvtReadWriteWorkItem
<1>3. ASSUME NEW t \in Threads, Running(t) PROVE gaveUp \subseteq gaveUp'
  BY <1>3 DEF Running, ResetDevice, StopPipe, StopReturns, IsConnected, ResetPortSucceeds,
              ResetPortFails, StartPipe, StartOrGiveUp, GiveUp, ResetPipeSend,
              ResetPipeSucceeds, ResetPipeFails, RioCommandReturns
<1> QED
  BY <1>1, <1>2, <1>3 DEF DriverNext, driverVars

LEMMA TransferKeepsTargets ==
  ASSUME NEW r, Transfers(r) PROVE UNCHANGED tstate
  BY DEF Transfers, NewRequest, Rio500_EvtIoRead, Rio500_EvtIoWrite,
         ReadWriteBulkEndPoints, Reject, SendFirstStage, targetVars,
         Rio500_EvtReadWriteCompletion, StageFails, LastStage, NextStage, NextStageFails,
         Rio500_EvtIoStop

LEMMA FirstPipeStays ==
  ASSUME ThreadsTypeOK, AtFirstPipe, [DriverNext]_driverVars
  PROVE  AtFirstPipe'
<1> USE ReadPipeIsPipe, PipesAssumption DEF AtFirstPipe, ThreadsTypeOK, CallResetDevice
<1>1. CASE UNCHANGED threadVars
  BY <1>1 DEF threadVars
<1>2. ASSUME NEW t \in Threads,
             Running(t) \/ Rio500_EvtIoDeviceControl(t) \/ Rio500_EvtReadWriteWorkItem(t)
      PROVE  AtFirstPipe'
  <2>1. OthersStay(t)
    BY <1>2, ThreadStays
  <2>2. pc'[t] \in {"connected", "port"} => pipe'[t] = ReadPipe
    <3>1. CASE Rio500_EvtIoDeviceControl(t) \/ Rio500_EvtReadWriteWorkItem(t)
      BY <3>1 DEF Rio500_EvtIoDeviceControl, IoctlResetPipe, IoctlResetDevice,
                  IoctlRioCommand, Rio500_EvtReadWriteWorkItem, Goto
    <3>2. CASE ResetDevice(t)
      BY <3>2 DEF ResetDevice, StopPipe, StopReturns, IsConnected, ResetPortSucceeds,
                  ResetPortFails, StartPipe, NextPipe, Goto, AtPipe
    <3>3. CASE ResetPipeSend(t) \/ ResetPipeSucceeds(t) \/ ResetPipeFails(t)
               \/ RioCommandReturns(t)
      BY <3>3 DEF ResetPipeSend, ResetPipeSucceeds, ResetPipeFails, RioCommandReturns,
                  NextPipe, Goto
    <3> QED
      BY <1>2, <3>1, <3>2, <3>3 DEF Running
  <2> QED
    BY <2>1, <2>2 DEF OthersStay
<1> QED
  BY <1>1, <1>2 DEF DriverNext, driverVars

LEMMA StartersStay ==
  ASSUME StoppedInv, [DriverNext]_driverVars
  PROVE  StoppedHasStarter'
<1> SUFFICES ASSUME "start" \notin gaveUp' PROVE StoppedHasStarter'
  BY DEF StoppedHasStarter
<1>0. /\ ThreadsTypeOK /\ AtFirstPipe /\ StoppedHasStarter
      /\ tstate \in [Pipes -> {"started", "stopped"}]
      /\ "start" \notin gaveUp
  BY GaveUpStays DEF StoppedInv, TargetTypeOK
<1>1. CASE UNCHANGED <<tstate, threadVars>>
  BY <1>0, <1>1 DEF StoppedHasStarter, KeepsStopped, threadVars, history
<1>2. ASSUME NEW t \in Threads,
             Running(t) \/ Rio500_EvtIoDeviceControl(t) \/ Rio500_EvtReadWriteWorkItem(t)
      PROVE  StoppedHasStarter'
  <2>0. OthersStay(t) /\ pipe[t] \in Pipes /\ pc \in [Threads -> Labels]
        /\ pipe \in [Threads -> Pipes]
    BY <1>0, <1>2, ThreadStays DEF ThreadsTypeOK
  <2>1. SUFFICES \A p \in Pipes : tstate'[p] = "stopped" =>
            \/ KeepsStopped(t, p)'
            \/ tstate[p] = "stopped" /\ ~KeepsStopped(t, p)
    BY <1>0, <2>0, StarterStays
  <2> TAKE p \in Pipes
  <2> HAVE tstate'[p] = "stopped"
  <2> USE <1>0, <2>0, PipesAssumption DEF KeepsStopped, Goto, AtPipe, Pipes, CallResetDevice
  <2>2. CASE Rio500_EvtIoDeviceControl(t) \/ Rio500_EvtReadWriteWorkItem(t)
             \/ ResetPipeSend(t) \/ ResetPipeSucceeds(t) \/ ResetPipeFails(t)
             \/ RioCommandReturns(t)
    BY <2>2 DEF Rio500_EvtIoDeviceControl, IoctlResetPipe, IoctlResetDevice, NewIoctl,
                IoctlRioCommand, Rio500_EvtReadWriteWorkItem, TakeWorkItem, vars, targetVars,
                ResetPipeSend, ResetPipeSucceeds, WdfUsbTargetPipeReset, ResetPipeFails,
                RioCommandReturns
  <2>3. CASE StopPipe(t)
    BY <2>3 DEF StopPipe, WdfIoTargetStop
  <2>4. CASE StopReturns(t)
    BY <2>4 DEF StopReturns, NextPipe, vars, targetVars
  <2>5. CASE IsConnected(t)
    BY <2>5 DEF IsConnected, AtFirstPipe, vars, targetVars
  <2>6. CASE ResetPortSucceeds(t) \/ ResetPortFails(t)
    BY <2>6 DEF ResetPortSucceeds, ResetPortFails, WdfUsbTargetDeviceResetPort,
                AtFirstPipe, vars, targetVars
  <2>7. CASE StartPipe(t)
    BY <2>7 DEF StartPipe, StartOrGiveUp, GiveUp, WdfIoTargetStart, NextPipe
  <2> QED
    BY <1>2, <2>2, <2>3, <2>4, <2>5, <2>6, <2>7 DEF Running, ResetDevice
<1> QED
  BY <1>1, <1>2, TransferKeepsTargets DEF DriverNext, driverVars, vars, targetVars

\* However many threads reset the device at once, and whatever fails but a start, no
\* pipe stays closed without a thread that will open it (StoppedHasStarter).
THEOREM StoppedHasStarterHolds == DriverSpec => []StoppedHasStarter
<1>1. DriverInit => AtFirstPipe /\ StoppedHasStarter
  BY DEF DriverInit, Init, TargetInit, AtFirstPipe, StoppedHasStarter
<1>2. ThreadsTypeOK /\ TypeOK /\ AtFirstPipe /\ StoppedHasStarter /\ [DriverNext]_driverVars
      => AtFirstPipe' /\ StoppedHasStarter'
  BY FirstPipeStays, StartersStay DEF StoppedInv, TypeOK
<1> QED
  BY <1>1, <1>2, ThreadsTypeCorrect, DriverImplementsTransfers, TypeCorrect, PTL
     DEF DriverSpec

(***************************************************************************)
(* Stalls.                                                                 *)
(***************************************************************************)
NoLastResortFails == "workitem" \notin Faults /\ "stall" \notin gaveUp

\* A step of one thread forgets no stall if the thread itself answers for the
\* stalls it leaves and for the work item it takes.
LEMMA ResetterStays ==
  ASSUME StallHasReset, NoLastResortFails, NEW t \in Threads, OthersStay(t),
         \A p \in Pipes : halted'[p] =>
            \/ WillReset(t, p)'
            \/ halted[p] /\ workItems'[p] = workItems[p] /\ ~WillReset(t, p)
  PROVE  StallHasReset'
  BY DEF StallHasReset, WillReset, OthersStay, NoLastResortFails

LEMMA TransferKeepsResets ==
  ASSUME TypeOK, StallHasReset, NoLastResortFails, NEW r \in Requests, Transfers(r),
         UNCHANGED threadVars
  PROVE  StallHasReset'
<1> USE DEF TypeOK, TargetTypeOK
<1>0. PipeOf(r) \in Pipes
  BY PipeOfIsPipe
<1>1. CASE UNCHANGED <<halted, workItems>>
  BY <1>1 DEF StallHasReset, NoLastResortFails, WillReset, threadVars, history
<1>2. CASE StageFails(r)
  <2>1. workItems' = [workItems EXCEPT ![PipeOf(r)] = @ + 1]
    BY <1>2 DEF StageFails, QueuePassiveLevelCallback, NoLastResortFails
  <2>2. \A p \in Pipes : halted'[p] => halted[p] \/ p = PipeOf(r)
    BY <1>2 DEF StageFails
  <2>3. \A p \in Pipes : workItems[p] > 0 => workItems'[p] > 0
    BY <1>0, <2>1
  <2>4. workItems'[PipeOf(r)] > 0
    BY <1>0, <2>1
  <2>5. \A p \in Pipes, t \in Threads : WillReset(t, p) => WillReset(t, p)'
    BY DEF WillReset, threadVars
  <2> QED
    BY <2>2, <2>3, <2>4, <2>5 DEF StallHasReset, NoLastResortFails, threadVars,
                                          history
<1>3. CASE NewRequest(r)
  BY <1>1, <1>3 DEF NewRequest, Rio500_EvtIoRead, Rio500_EvtIoWrite,
                    ReadWriteBulkEndPoints, Reject, SendFirstStage, targetVars
<1>4. CASE \E bytes \in 0 .. ctx[r].UrbLength :
             LastStage(r, bytes) \/ NextStage(r, bytes) \/ NextStageFails(r, bytes)
  BY <1>1, <1>4 DEF LastStage, NextStage, NextStageFails
<1>5. CASE Rio500_EvtIoStop(r)
  BY <1>1, <1>5 DEF Rio500_EvtIoStop
<1> QED
  BY <1>2, <1>3, <1>4, <1>5 DEF Transfers, Rio500_EvtReadWriteCompletion

LEMMA ResettersStay ==
  ASSUME ThreadsTypeOK, TypeOK, StallHasReset, [DriverNext]_driverVars
  PROVE  StallHasReset'
<1> SUFFICES ASSUME "workitem" \notin Faults, "stall" \notin gaveUp' PROVE StallHasReset'
  BY DEF StallHasReset
<1>0. NoLastResortFails
  BY GaveUpStays DEF NoLastResortFails
<1>1. CASE UNCHANGED driverVars
  BY <1>0, <1>1 DEF StallHasReset, NoLastResortFails, WillReset, driverVars, threadVars,
                   vars, targetVars
<1>2. ASSUME NEW t \in Threads,
             Running(t) \/ Rio500_EvtIoDeviceControl(t) \/ Rio500_EvtReadWriteWorkItem(t)
      PROVE  StallHasReset'
  <2>0. /\ OthersStay(t) /\ pipe[t] \in Pipes /\ kind \in [Threads -> {"item", "ioctl"}]
        /\ pc \in [Threads -> Labels] /\ pipe \in [Threads -> Pipes]
        /\ halted \in [Pipes -> BOOLEAN] /\ workItems \in [Pipes -> Nat]
    BY <1>2, ThreadStays DEF ThreadsTypeOK, TypeOK, TargetTypeOK
  <2>1. SUFFICES \A p \in Pipes : halted'[p] =>
            \/ WillReset(t, p)'
            \/ halted[p] /\ workItems'[p] = workItems[p] /\ ~WillReset(t, p)
    BY <1>0, <2>0, ResetterStays
  <2> TAKE p \in Pipes
  <2> HAVE halted'[p]
  <2> USE <2>0 DEF WillReset, Goto, AtPipe, CallResetDevice
  <2>2. CASE Rio500_EvtIoDeviceControl(t)
    BY <2>2 DEF Rio500_EvtIoDeviceControl, IoctlResetPipe, IoctlResetDevice,
                IoctlRioCommand, NewIoctl, vars, targetVars
  <2>3. CASE Rio500_EvtReadWriteWorkItem(t)
    BY <2>3 DEF Rio500_EvtReadWriteWorkItem, TakeWorkItem, targetVars
  <2>4. CASE ResetPipeSend(t) \/ RioCommandReturns(t)
    BY <2>4 DEF ResetPipeSend, RioCommandReturns, vars, targetVars
  <2>5. CASE ResetPipeSucceeds(t)
    BY <2>5 DEF ResetPipeSucceeds, WdfUsbTargetPipeReset, NextPipe
  <2>6. CASE ResetPipeFails(t)
    BY <2>6 DEF ResetPipeFails, vars, targetVars
  <2>7. CASE StopPipe(t) \/ StopReturns(t)
    BY <2>7 DEF StopPipe, StopReturns, WdfIoTargetStop, NextPipe, vars, targetVars
  <2>8. CASE IsConnected(t) \/ ResetPortFails(t)
    BY <2>8 DEF IsConnected, ResetPortFails, GiveUp, vars, targetVars
  <2>9. CASE ResetPortSucceeds(t)
    BY <2>9 DEF ResetPortSucceeds, WdfUsbTargetDeviceResetPort
  <2>10. CASE StartPipe(t)
    BY <2>10 DEF StartPipe, StartOrGiveUp, WdfIoTargetStart, targetVars
  <2> QED
    BY <1>2, <2>2, <2>3, <2>4, <2>5, <2>6, <2>7, <2>8, <2>9, <2>10 DEF Running, ResetDevice
<1> QED
  BY <1>0, <1>1, <1>2, TransferKeepsResets DEF DriverNext

\* However the completions, work items and device controls interleave, a stalled pipe
\* has a reset on its way (StallHasReset).
THEOREM StallHasResetHolds == DriverSpec => []StallHasReset
<1>1. DriverInit => StallHasReset
  BY DEF DriverInit, Init, TargetInit, StallHasReset
<1> QED
  BY <1>1, ResettersStay, ThreadsTypeCorrect, DriverImplementsTransfers, TypeCorrect, PTL
     DEF DriverSpec

(***************************************************************************)
(* The port reset.  A device reset that meets no other keeps what it has   *)
(* stopped stopped, and what it has drained empty: only StartAllPipes      *)
(* passes requests on to a stopped pipe's stack.  What is left in the      *)
(* stack of a stopped pipe has been cancelled, so that draining empties it.*)
(***************************************************************************)
Closed(t, p) == KeepsStopped(t, p) /\ pc[t] # "start"
Drained(t, p) == Closed(t, p) /\ ~(pc[t] = "drain" /\ pipe[t] = p)

Apart ==
  \A t, u \in Threads :
    t # u /\ InResetDevice(t) /\ InResetDevice(u) => t \in overlapped

SentIsCancelled == \A p \in Pipes : tstate[p] = "stopped" => sent[p] \subseteq cancelled

QuietFor(t) ==
  \A p \in Pipes :
    /\ Closed(t, p) => tstate[p] = "stopped"
    /\ Drained(t, p) => sent[p] = {}

AloneIsQuiet == \A t \in Threads \ overlapped : QuietFor(t)

QuietInv == Apart /\ SentIsCancelled /\ AloneIsQuiet

\* A reset that is alone after a step was so before it, or has just been called.
AloneBefore(u) ==
  InResetDevice(u)' => u \notin overlapped \/ (pc'[u] = "stop" /\ pipe'[u] = ReadPipe)

LEMMA ApartStays ==
  ASSUME ThreadsTypeOK, Apart, [DriverNext]_driverVars
  PROVE  /\ Apart'
         /\ \A u \in Threads \ overlapped' : AloneBefore(u)
<1> USE DEF Apart, InResetDevice, AloneBefore, history
<1>1. CASE UNCHANGED threadVars
  BY <1>1 DEF threadVars
<1>2. ASSUME NEW t \in Threads,
             Running(t) \/ Rio500_EvtIoDeviceControl(t) \/ Rio500_EvtReadWriteWorkItem(t)
      PROVE  /\ Apart'
             /\ \A u \in Threads \ overlapped' : AloneBefore(u)
  <2>0. OthersStay(t) /\ pc \in [Threads -> Labels] /\ pipe \in [Threads -> Pipes]
    BY <1>2, ThreadStays DEF ThreadsTypeOK
  <2>1. CASE CallResetDevice(t)
    BY <2>0, <2>1 DEF CallResetDevice, Goto, AtPipe, OthersStay
  <2>2. CASE overlapped' = overlapped /\ (InResetDevice(t)' => InResetDevice(t))
    BY <2>0, <2>2 DEF OthersStay
  <2>3. CASE Rio500_EvtIoDeviceControl(t) \/ Rio500_EvtReadWriteWorkItem(t)
             \/ ResetPipeFails(t)
    BY <2>0, <2>1, <2>2, <2>3
       DEF Rio500_EvtIoDeviceControl, IoctlResetPipe, IoctlResetDevice, NewIoctl, Goto,
           IoctlRioCommand, Rio500_EvtReadWriteWorkItem, ResetPipeFails
  <2>4. CASE ResetPipeSend(t) \/ ResetPipeSucceeds(t) \/ RioCommandReturns(t)
    BY <2>0, <2>2, <2>4 DEF ResetPipeSend, ResetPipeSucceeds, RioCommandReturns, NextPipe,
                            Goto
  <2>5. CASE ResetDevice(t)
    BY <2>0, <2>2, <2>5 DEF ResetDevice, StopPipe, StopReturns, IsConnected,
                       ResetPortSucceeds, ResetPortFails, StartPipe, NextPipe, Goto
  <2> QED
    BY <1>2, <2>3, <2>4, <2>5 DEF Running
<1> QED
  BY <1>1, <1>2 DEF DriverNext, driverVars

\* What is stopped and empty stays so.
EmptyStays ==
  \A p \in Pipes : tstate[p] = "stopped" /\ tstate'[p] = "stopped" /\ sent[p] = {}
                     => sent'[p] = {}

LEMMA OwnTargetOnly ==
  ASSUME TypeOK, SentIsCancelled, NEW r \in Requests, NEW p \in Pipes,
         \A q \in Pipes \ {p} : r \notin sent[q],
         WdfRequestSend(r, p) \/ Forget(r, p), UNCHANGED tstate
  PROVE  SentIsCancelled' /\ EmptyStays
<1> USE DEF TypeOK, TargetTypeOK, SentIsCancelled, EmptyStays
<1>1. CASE WdfRequestSend(r, p)
  BY <1>1 DEF WdfRequestSend
<1>2. CASE Forget(r, p)
  BY <1>2 DEF Forget
<1> QED
  BY <1>1, <1>2

LEMMA TransferKeepsQuiet ==
  ASSUME TypeOK, OneOwner, SentIsCancelled, NEW r \in Requests, Transfers(r)
  PROVE  SentIsCancelled' /\ EmptyStays
<1>1. CASE NewRequest(r)
  <2>1. PICK len \in Lengths, p \in Pipes : ReadWriteBulkEndPoints(r, len, p)
    BY <1>1 DEF NewRequest, Rio500_EvtIoRead, Rio500_EvtIoWrite, Pipes
  <2>2. status[r] = "new"
    BY <1>1 DEF NewRequest, Rio500_EvtIoRead, Rio500_EvtIoWrite
  <2>3. \A q \in Pipes : r \notin sent[q]
    BY <2>2 DEF OneOwner, Owned, At
  <2>4. CASE Reject(r)
    BY <2>4 DEF Reject, targetVars, SentIsCancelled, EmptyStays
  <2>5. CASE SendFirstStage(r, len, p)
    BY <2>3, <2>5, OwnTargetOnly DEF SendFirstStage
  <2> QED
    BY <2>1, <2>4, <2>5 DEF ReadWriteBulkEndPoints
<1>2. CASE Rio500_EvtReadWriteCompletion(r)
  <2>0. PipeOf(r) \in Pipes
    BY PipeOfIsPipe
  <2>1. /\ UNCHANGED tstate
        /\ InFlight(r)
        /\ WdfRequestSend(r, PipeOf(r)) \/ Forget(r, PipeOf(r))
    BY <1>2 DEF Rio500_EvtReadWriteCompletion, StageFails, LastStage, NextStage,
                NextStageFails, StageSucceeds, InFlight, End
  <2>2. status[r] = "pending"
    BY <2>0, <2>1 DEF OneOwner, Owned, At, InFlight
  <2>3. \A q \in Pipes \ {PipeOf(r)} : r \notin sent[q]
    BY <2>2 DEF OneOwner, Owned, At
  <2> QED
    BY <2>0, <2>1, <2>3, OwnTargetOnly
<1>3. CASE Rio500_EvtIoStop(r)
  BY <1>3 DEF Rio500_EvtIoStop, SentIsCancelled, EmptyStays
<1> QED
  BY <1>1, <1>2, <1>3 DEF Transfers

\* A step of thread t leaves the pipes of another reset that is alone as they were:
\* t starts no pipe, or is in a reset too, so that the other one is not alone.
LEMMA OthersQuiet ==
  ASSUME Apart, AloneIsQuiet, NEW t \in Threads, OthersStay(t), EmptyStays,
         \/ \A p \in Pipes : tstate[p] = "stopped" => tstate'[p] = "stopped"
         \/ InResetDevice(t) /\ overlapped' = overlapped,
         NEW u \in Threads \ overlapped', u # t,
         AloneBefore(u)
  PROVE  QuietFor(u)'
<1> USE DEF QuietFor, Closed, Drained, KeepsStopped, OthersStay, AloneBefore
<1>1. CASE ~InResetDevice(u)
  BY <1>1 DEF InResetDevice
<1>2. CASE u \in overlapped
  BY <1>2, PipesAssumption DEF InResetDevice
<1>3. CASE InResetDevice(u) /\ u \notin overlapped
  <2>1. ~InResetDevice(t)
    BY <1>3 DEF Apart
  <2> QED
    BY <1>3, <2>1 DEF AloneIsQuiet, EmptyStays
<1> QED
  BY <1>1, <1>2, <1>3

LEMMA QuietStays ==
  ASSUME ThreadsTypeOK, TypeOK, OneOwner, QuietInv, [DriverNext]_driverVars
  PROVE  QuietInv'
<1>0. Apart' /\ \A u \in Threads \ overlapped' : AloneBefore(u)
  BY ApartStays DEF QuietInv
<1> USE PipesAssumption DEF history
<1>1. CASE UNCHANGED driverVars
  BY <1>0, <1>1 DEF QuietInv, SentIsCancelled, AloneIsQuiet, QuietFor, Closed, Drained,
                    KeepsStopped, driverVars, vars, targetVars, threadVars
<1>2. ASSUME NEW r \in Requests, Transfers(r), UNCHANGED threadVars PROVE QuietInv'
  <2>1. SentIsCancelled' /\ EmptyStays /\ UNCHANGED tstate
    BY <1>2, TransferKeepsQuiet, TransferKeepsTargets DEF QuietInv
  <2>2. AloneIsQuiet'
    BY <1>2, <2>1 DEF QuietInv, AloneIsQuiet, QuietFor, Closed, Drained,
                      KeepsStopped, threadVars, EmptyStays
  <2> QED
    BY <1>0, <2>1, <2>2 DEF QuietInv
<1>3. ASSUME NEW t \in Threads,
             Running(t) \/ Rio500_EvtIoDeviceControl(t) \/ Rio500_EvtReadWriteWorkItem(t)
      PROVE  QuietInv'
  <2>0. /\ OthersStay(t) /\ pipe[t] \in Pipes /\ pc \in [Threads -> Labels]
        /\ pipe \in [Threads -> Pipes] /\ TargetTypeOK
    BY <1>3, ThreadStays DEF ThreadsTypeOK, TypeOK
  <2>1. /\ SentIsCancelled' /\ EmptyStays
        /\ \/ \A p \in Pipes : tstate[p] = "stopped" => tstate'[p] = "stopped"
           \/ InResetDevice(t) /\ overlapped' = overlapped
    <3> USE <2>0 DEF SentIsCancelled, EmptyStays, TargetTypeOK, QuietInv
    <3>1. CASE StopPipe(t)
      BY <3>1 DEF StopPipe, WdfIoTargetStop
    <3>2. CASE StartPipe(t)
      BY <3>2 DEF StartPipe, StartOrGiveUp, WdfIoTargetStart, targetVars, InResetDevice
    <3>3. CASE UNCHANGED <<tstate, sent, cancelled>>
      BY <3>3
    <3>4. CASE Rio500_EvtIoDeviceControl(t) \/ Rio500_EvtReadWriteWorkItem(t)
      BY <3>3, <3>4 DEF Rio500_EvtIoDeviceControl, IoctlResetPipe, IoctlResetDevice,
                        IoctlRioCommand, NewIoctl, Rio500_EvtReadWriteWorkItem,
                        TakeWorkItem, vars, targetVars
    <3>5. CASE ResetPipeSend(t) \/ ResetPipeSucceeds(t) \/ ResetPipeFails(t)
               \/ RioCommandReturns(t) \/ StopReturns(t) \/ IsConnected(t)
               \/ ResetPortSucceeds(t) \/ ResetPortFails(t)
      BY <3>3, <3>5 DEF ResetPipeSend, ResetPipeSucceeds, WdfUsbTargetPipeReset,
                        ResetPipeFails, RioCommandReturns, StopReturns, IsConnected,
                        ResetPortSucceeds, WdfUsbTargetDeviceResetPort, ResetPortFails,
                        vars, targetVars
    <3> QED
      BY <1>3, <3>1, <3>2, <3>4, <3>5 DEF Running, ResetDevice
  <2>2. ASSUME NEW u \in Threads \ overlapped', u # t PROVE QuietFor(u)'
    BY <1>0, <2>0, <2>1, <2>2, OthersQuiet DEF QuietInv
  <2>3. ASSUME t \notin overlapped' PROVE QuietFor(t)'
    <3> USE <2>0 DEF QuietFor, Closed, Drained, KeepsStopped, Goto, AtPipe, TargetTypeOK
    <3>1. CASE Rio500_EvtIoDeviceControl(t) \/ Rio500_EvtReadWriteWorkItem(t)
               \/ ResetPipeSend(t) \/ ResetPipeSucceeds(t) \/ ResetPipeFails(t)
               \/ RioCommandReturns(t)
      BY <3>1 DEF Rio500_EvtIoDeviceControl, IoctlResetPipe, IoctlResetDevice,
                  IoctlRioCommand, NewIoctl, Rio500_EvtReadWriteWorkItem, CallResetDevice,
                  ResetPipeSend, ResetPipeSucceeds, ResetPipeFails, RioCommandReturns,
                  NextPipe
    <3>2. CASE ResetDevice(t)
      <4>1. t \notin overlapped /\ QuietFor(t)
        BY <2>3, <3>2 DEF ResetDevice, StopPipe, StopReturns, IsConnected,
                ResetPortSucceeds, ResetPortFails, StartPipe, QuietInv, AloneIsQuiet
      <4>2. CASE StopPipe(t)
        BY <4>1, <4>2 DEF StopPipe, WdfIoTargetStop, Pipes
      <4>3. CASE StopReturns(t)
        BY <4>1, <4>3 DEF StopReturns, IoTargetDrained, NextPipe, QuietInv,
                          SentIsCancelled, vars, targetVars, Pipes
      <4>4. CASE StartPipe(t)
        BY <4>1, <4>4 DEF StartPipe, NextPipe
      <4>5. CASE IsConnected(t) \/ ResetPortSucceeds(t) \/ ResetPortFails(t)
        BY <4>1, <4>5 DEF IsConnected, ResetPortSucceeds, ResetPortFails,
                          WdfUsbTargetDeviceResetPort, vars, targetVars
      <4> QED
        BY <3>2, <4>2, <4>3, <4>4, <4>5 DEF ResetDevice
    <3> QED
      BY <1>3, <3>1, <3>2 DEF Running
  <2> QED
    BY <1>0, <2>1, <2>2, <2>3 DEF QuietInv, AloneIsQuiet
<1> QED
  BY <1>1, <1>2, <1>3 DEF DriverNext

(***************************************************************************)
(* Pipe resets of other threads leave a drained pipe alone: a stopped      *)
(* target passes none on, and StopAllPipes has waited for those it met.    *)
(***************************************************************************)
NoResetsFor(t) == \A p \in Pipes : Drained(t, p) => ResetsOf(p) = {}
AloneHasNoResets == \A t \in Threads \ overlapped : NoResetsFor(t)

\* A pipe reset reaches the USB stack only through a started target.
LEMMA ResetsNeedStarted ==
  ASSUME ThreadsTypeOK, [DriverNext]_driverVars, NEW p \in Pipes, tstate[p] = "stopped",
         ResetsOf(p) = {}
  PROVE  ResetsOf(p)' = {}
<1> USE DEF ResetsOf
<1>1. CASE UNCHANGED threadVars
  BY <1>1 DEF threadVars
<1>2. ASSUME NEW t \in Threads,
             Running(t) \/ Rio500_EvtIoDeviceControl(t) \/ Rio500_EvtReadWriteWorkItem(t)
      PROVE  ResetsOf(p)' = {}
  <2>0. OthersStay(t) /\ pc \in [Threads -> Labels] /\ pipe \in [Threads -> Pipes]
    BY <1>2, ThreadStays DEF ThreadsTypeOK
  <2>1. ~(pc'[t] = "reset_sent" /\ pipe'[t] = p)
    <3> USE <2>0 DEF Goto, AtPipe, NextPipe, CallResetDevice
    <3>1. CASE ResetPipeSend(t)
      BY <3>1 DEF ResetPipeSend
    <3>2. CASE Rio500_EvtIoDeviceControl(t) \/ Rio500_EvtReadWriteWorkItem(t)
      BY <3>2 DEF Rio500_EvtIoDeviceControl, IoctlResetPipe, IoctlResetDevice,
                  IoctlRioCommand, Rio500_EvtReadWriteWorkItem
    <3>3. CASE ResetPipeSucceeds(t) \/ ResetPipeFails(t) \/ RioCommandReturns(t)
      BY <3>3 DEF ResetPipeSucceeds, ResetPipeFails, RioCommandReturns
    <3>4. CASE ResetDevice(t)
      BY <3>4 DEF ResetDevice, StopPipe, StopReturns, IsConnected, ResetPortSucceeds,
                  ResetPortFails, StartPipe
    <3> QED
      BY <1>2, <3>1, <3>2, <3>3, <3>4 DEF Running
  <2> QED
    BY <2>0, <2>1 DEF OthersStay
<1> QED
  BY <1>1, <1>2 DEF DriverNext, driverVars

\* A pipe is drained for a reset when WdfIoTargetStop returns.
LEMMA DrainedOfResets ==
  ASSUME ThreadsTypeOK, NEW t \in Threads, ResetDevice(t), NEW p \in Pipes,
         Drained(t, p)', ~Drained(t, p)
  PROVE  ResetsOf(p)' = {}
<1> USE PipesAssumption DEF Drained, Closed, KeepsStopped, Goto, AtPipe, NextPipe, Pipes
<1>0. pc \in [Threads -> Labels] /\ pipe \in [Threads -> Pipes]
  BY DEF ThreadsTypeOK
<1>1. CASE StopReturns(t)
  <2>1. pipe[t] = p /\ pc'[t] # "reset_sent"
    BY <1>0, <1>1 DEF StopReturns
  <2> QED
    BY <1>0, <1>1, <2>1 DEF StopReturns, ResetsOf
<1>2. CASE StopPipe(t) \/ IsConnected(t) \/ ResetPortSucceeds(t) \/ ResetPortFails(t)
           \/ StartPipe(t)
  BY <1>0, <1>2 DEF StopPipe, IsConnected, ResetPortSucceeds, ResetPortFails, StartPipe
<1> QED
  BY <1>1, <1>2 DEF ResetDevice

LEMMA NoResetsStay ==
  ASSUME ThreadsTypeOK, QuietInv, AloneHasNoResets, [DriverNext]_driverVars
  PROVE  AloneHasNoResets'
<1> SUFFICES ASSUME NEW u \in Threads, u \notin overlapped', NEW p \in Pipes, Drained(u, p)'
             PROVE  ResetsOf(p)' = {}
  BY DEF AloneHasNoResets, NoResetsFor
<1> USE PipesAssumption DEF Drained, Closed, KeepsStopped
<1>1. u \notin overlapped
  <2>1. AloneBefore(u)
    BY ApartStays DEF QuietInv
  <2> QED
    BY <2>1 DEF AloneBefore, InResetDevice
<1>2. CASE Drained(u, p)
  <2>1. tstate[p] = "stopped" /\ ResetsOf(p) = {}
    BY <1>1, <1>2 DEF QuietInv, AloneIsQuiet, QuietFor, AloneHasNoResets, NoResetsFor
  <2> QED
    BY <2>1, ResetsNeedStarted
<1>3. CASE ~Drained(u, p)
  <2>1. ~UNCHANGED threadVars
    BY <1>3 DEF threadVars
  <2>2. PICK t \in Threads :
          Running(t) \/ Rio500_EvtIoDeviceControl(t) \/ Rio500_EvtReadWriteWorkItem(t)
    BY <2>1 DEF DriverNext, driverVars
  <2>3. t = u
    BY <1>3, <2>2, ThreadStays DEF OthersStay
  <2>4. ResetDevice(u)
    <3> USE DEF Goto, AtPipe, NextPipe, CallResetDevice, ThreadsTypeOK
    <3>1. CASE Rio500_EvtIoDeviceControl(u) \/ Rio500_EvtReadWriteWorkItem(u)
      BY <3>1 DEF Rio500_EvtIoDeviceControl, IoctlResetPipe, IoctlResetDevice,
                  IoctlRioCommand, Rio500_EvtReadWriteWorkItem
    <3>2. CASE ResetPipeSend(u) \/ ResetPipeSucceeds(u) \/ ResetPipeFails(u)
               \/ RioCommandReturns(u)
      BY <3>2 DEF ResetPipeSend, ResetPipeSucceeds, ResetPipeFails, RioCommandReturns
    <3> QED
      BY <2>2, <2>3, <3>1, <3>2 DEF Running
  <2> QED
    BY <1>3, <2>4, DrainedOfResets
<1> QED
  BY <1>2, <1>3

LEMMA AloneIsQuietAlways == DriverSpec => [](QuietInv /\ AloneHasNoResets)
<1>1. DriverInit => QuietInv /\ AloneHasNoResets
  BY DEF DriverInit, Init, TargetInit, QuietInv, Apart, InResetDevice, SentIsCancelled,
         AloneIsQuiet, QuietFor, AloneHasNoResets, NoResetsFor, Closed, Drained,
         KeepsStopped
<1> QED
  BY <1>1, QuietStays, NoResetsStay, ThreadsTypeCorrect, DriverImplementsTransfers,
     TypeCorrect, OneOwnerHolds, PTL DEF DriverSpec

\* For any number of threads and requests and whatever fails, a device reset that
\* meets no other resets the port only when every pipe is stopped and the USB stack
\* holds no transfer and no pipe reset (ResetPortQuiesced).
THEOREM ResetPortQuiescedHolds == DriverSpec => []ResetPortQuiesced
<1>1. QuietInv /\ AloneHasNoResets => ResetPortQuiesced
  BY DEF QuietInv, AloneIsQuiet, QuietFor, AloneHasNoResets, NoResetsFor, Closed, Drained,
         KeepsStopped, ResetPortQuiesced, PipesQuiet
<1> QED
  BY <1>1, AloneIsQuietAlways, PTL

(***************************************************************************)
(* What is left of liveness when fairness is taken away: nobody waits in a *)
(* circle, and whatever is pending is with somebody who moves it.          *)
(***************************************************************************)

\* Thread t waits: a pipe reset is kept back by a stopped target, or it or a command is
\* with the USB stack; WdfIoTargetStop waits for what it has cancelled, and the port
\* reset for all that is pending.
Waits(t) ==
  \/ pc[t] = "reset" /\ tstate[pipe[t]] = "stopped"
  \/ pc[t] \in {"reset_sent", "command"}
  \/ pc[t] = "drain" /\ ~(IoTargetDrained(pipe[t]) /\ ResetsOf(pipe[t]) = {})
  \/ pc[t] = "port" /\ ~UsbIdle

SomethingGoesOn ==
  "start" \notin gaveUp /\ (\E t \in Threads : pc[t] # "idle") =>
    \/ \E t \in Threads : pc[t] # "idle" /\ ~Waits(t)
    \/ \E r \in Requests : InFlight(r)
    \/ \E t \in Threads : pc[t] \in {"reset_sent", "command"}

LoneResetGoesOn ==
  \A t \in Threads \ overlapped : InResetDevice(t) /\ Waits(t) =>
    \/ \E r \in Requests : r \in cancelled /\ InFlight(r)
    \/ \E u \in Threads : Recalled(u) \/ pc[u] = "command"

\* A request that is kept back is kept back by a stopped target.
HeldIsStopped == \A p \in Pipes : held[p] # {} => tstate[p] = "stopped"

PendingIsMoved ==
  \A r \in Requests : status[r] = "pending" =>
    \/ r \in sent[PipeOf(r)]
    \/ "start" \in gaveUp
    \/ tstate[PipeOf(r)] = "stopped" /\ \E t \in Threads : KeepsStopped(t, PipeOf(r))

LEMMA SentIsInFlight ==
  ASSUME TypeOK, OneOwner, NEW p \in Pipes, NEW r \in sent[p]
  PROVE  r \in Requests /\ InFlight(r)
  BY DEF OneOwner, Owned, At, TypeOK, TargetTypeOK, InFlight

\* The threads never wait for each other in a circle: if all of them wait, the USB stack
\* has a transfer, a pipe reset or a command that it has not given back (ResetPipe,
\* StopAllPipes, WdfUsbTargetDeviceResetPortSynchronously, RIO_COMMAND).
THEOREM NoDeadlock == DriverSpec => []SomethingGoesOn
<1>1. ThreadsTypeOK /\ TypeOK /\ OneOwner /\ StoppedHasStarter => SomethingGoesOn
  <2> SUFFICES ASSUME ThreadsTypeOK, TypeOK, OneOwner, StoppedHasStarter,
                      "start" \notin gaveUp, NEW t \in Threads, pc[t] # "idle",
                      \A u \in Threads : pc[u] # "idle" => Waits(u),
                      \A u \in Threads : pc[u] \notin {"reset_sent", "command"}
               PROVE  \E r \in Requests : InFlight(r)
    BY DEF SomethingGoesOn
  <2>1. PICK u \in Threads : pc[u] \in {"drain", "port"}
    <3>1. CASE pc[t] \in {"drain", "port"}
      BY <3>1
    <3>2. CASE pc[t] = "reset" /\ tstate[pipe[t]] = "stopped"
      <4>1. PICK u \in Threads : KeepsStopped(u, pipe[t])
        BY <3>2 DEF StoppedHasStarter, ThreadsTypeOK
      <4> QED
        BY <4>1 DEF KeepsStopped, Waits
    <3> QED
      BY <3>1, <3>2 DEF Waits
  <2>2. pipe[u] \in Pipes /\ \A p \in Pipes : ResetsOf(p) = {}
    BY <2>1 DEF ThreadsTypeOK, ResetsOf
  <2>3. \E p \in Pipes : sent[p] # {}
    BY <2>1, <2>2 DEF Waits, IoTargetDrained, UsbIdle
  <2> QED
    BY <2>3, SentIsInFlight
<1> QED
  BY <1>1, StoppedHasStarterHolds, ThreadsTypeCorrect, DriverImplementsTransfers,
     TypeCorrect, OneOwnerHolds, PTL

\* A ResetDevice that has met no other waits for nothing but what it has itself called
\* back, unless a command is outstanding: no transfer or pipe reset the device leaves
\* unanswered can hold it, at the port reset least of all (ResetDevice's comment).
THEOREM LoneResetNotStuck == DriverSpec => []LoneResetGoesOn
<1>1. ThreadsTypeOK /\ TypeOK /\ OneOwner /\ QuietInv /\ AloneHasNoResets => LoneResetGoesOn
  <2> SUFFICES ASSUME ThreadsTypeOK, TypeOK, OneOwner, QuietInv, AloneHasNoResets,
                      NEW t \in Threads, t \notin overlapped, InResetDevice(t), Waits(t)
               PROVE  \/ \E r \in Requests : r \in cancelled /\ InFlight(r)
                      \/ \E u \in Threads : Recalled(u) \/ pc[u] = "command"
    BY DEF LoneResetGoesOn
  <2>0. pipe[t] \in Pipes /\ QuietFor(t) /\ NoResetsFor(t)
    BY DEF ThreadsTypeOK, QuietInv, AloneIsQuiet, AloneHasNoResets
  <2>1. CASE pc[t] = "drain" /\ ~IoTargetDrained(pipe[t])
    <3>1. PICK r \in sent[pipe[t]] : r \in cancelled
      BY <2>1 DEF IoTargetDrained
    <3> QED
      BY <2>0, <3>1, SentIsInFlight
  <2>2. CASE pc[t] = "drain" /\ ResetsOf(pipe[t]) # {}
    <3>1. tstate[pipe[t]] = "stopped"
      BY <2>0, <2>2 DEF QuietFor, Closed, KeepsStopped
    <3> QED
      BY <2>2, <3>1 DEF ResetsOf, Recalled
  <2>3. CASE pc[t] = "port" /\ ~UsbIdle
    <3>1. \A p \in Pipes : sent[p] = {} /\ ResetsOf(p) = {}
      BY <2>0, <2>3 DEF QuietFor, NoResetsFor, Drained, Closed, KeepsStopped
    <3> QED
      BY <2>3, <3>1 DEF UsbIdle
  <2> QED
    BY <2>1, <2>2, <2>3 DEF InResetDevice, Waits
<1> QED
  BY <1>1, AloneIsQuietAlways, ThreadsTypeCorrect, DriverImplementsTransfers, TypeCorrect,
     OneOwnerHolds, PTL

LEMMA HeldStaysStopped == TypeOK /\ HeldIsStopped /\ [DriverNext]_driverVars => HeldIsStopped'
<1> SUFFICES ASSUME TypeOK, HeldIsStopped, [DriverNext]_driverVars PROVE HeldIsStopped'
  OBVIOUS
<1> USE DEF TypeOK, TargetTypeOK, HeldIsStopped
<1>1. CASE UNCHANGED <<tstate, held>>
  BY <1>1
<1>2. ASSUME NEW r \in Requests, Transfers(r) PROVE HeldIsStopped'
  <2>1. UNCHANGED tstate
    BY <1>2, TransferKeepsTargets
  <2>2. ASSUME NEW p \in Pipes, WdfRequestSend(r, p) \/ Forget(r, p) PROVE HeldIsStopped'
    BY <2>1, <2>2 DEF WdfRequestSend, Forget
  <2>3. CASE NewRequest(r)
    BY <1>1, <2>1, <2>2, <2>3 DEF NewRequest, Rio500_EvtIoRead, Rio500_EvtIoWrite, Pipes,
       ReadWriteBulkEndPoints, Reject, SendFirstStage, targetVars
  <2>4. CASE Rio500_EvtReadWriteCompletion(r)
    BY <2>2, <2>4, PipeOfIsPipe DEF Rio500_EvtReadWriteCompletion, StageFails, LastStage,
       NextStage, NextStageFails, End
  <2>5. CASE Rio500_EvtIoStop(r)
    BY <1>1, <2>5 DEF Rio500_EvtIoStop
  <2> QED
    BY <1>2, <2>3, <2>4, <2>5 DEF Transfers
<1>3. ASSUME NEW t \in Threads, StopPipe(t) PROVE HeldIsStopped'
  BY <1>3 DEF StopPipe, WdfIoTargetStop
<1>4. ASSUME NEW t \in Threads, StartPipe(t) PROVE HeldIsStopped'
  BY <1>4 DEF StartPipe, StartOrGiveUp, WdfIoTargetStart, targetVars
<1>5. ASSUME NEW t \in Threads,
             \/ Rio500_EvtReadWriteWorkItem(t) \/ Rio500_EvtIoDeviceControl(t)
             \/ ResetPipeSend(t) \/ ResetPipeSucceeds(t) \/ ResetPipeFails(t)
             \/ RioCommandReturns(t) \/ StopReturns(t) \/ IsConnected(t)
             \/ ResetPortSucceeds(t) \/ ResetPortFails(t)
      PROVE  UNCHANGED <<tstate, held>>
  BY <1>5 DEF Rio500_EvtReadWriteWorkItem, TakeWorkItem, Rio500_EvtIoDeviceControl,
     IoctlResetPipe, IoctlResetDevice, IoctlRioCommand, NewIoctl, ResetPipeSend,
     ResetPipeSucceeds, WdfUsbTargetPipeReset, ResetPipeFails, RioCommandReturns,
     StopReturns, IsConnected, ResetPortSucceeds, WdfUsbTargetDeviceResetPort,
     ResetPortFails, vars, targetVars
<1> QED
  BY <1>1, <1>2, <1>3, <1>4, <1>5 DEF DriverNext, Running, ResetDevice, driverVars, vars,
     targetVars

\* A pending request is with the USB stack, or its target is stopped and a thread has yet
\* to start it: no reset leaves a request behind (bulkrwr.c, StartAllPipes).
THEOREM NoRequestLeftBehind == DriverSpec => []PendingIsMoved
<1>1. DriverInit => HeldIsStopped
  BY DEF DriverInit, Init, TargetInit, HeldIsStopped
<1>2. OneOwner /\ HeldIsStopped /\ StoppedHasStarter => PendingIsMoved
  <2> SUFFICES ASSUME OneOwner, HeldIsStopped, StoppedHasStarter, "start" \notin gaveUp,
                      NEW r \in Requests, status[r] = "pending", r \notin sent[PipeOf(r)]
               PROVE  /\ tstate[PipeOf(r)] = "stopped"
                      /\ \E t \in Threads : KeepsStopped(t, PipeOf(r))
    BY DEF PendingIsMoved
  <2>1. PipeOf(r) \in Pipes /\ r \in held[PipeOf(r)]
    BY PipeOfIsPipe DEF OneOwner, Owned, At
  <2> QED
    BY <2>1 DEF HeldIsStopped, StoppedHasStarter
<1> QED
  BY <1>1, <1>2, HeldStaysStopped, StoppedHasStarterHolds, ThreadsTypeCorrect,
     DriverImplementsTransfers, TypeCorrect, OneOwnerHolds, PTL DEF DriverSpec

=============================================================================
