---------------------------- MODULE Rio500Driver ----------------------------
(***************************************************************************)
(* The running driver: the transfers of BulkTransfer together with the     *)
(* threads that reset pipes and the device.  A thread is a system worker   *)
(* that runs Rio500_EvtReadWriteWorkItem or the caller of                  *)
(* Rio500_EvtIoDeviceControl; nothing in the code keeps two of them apart, *)
(* so every synchronous call to the framework is a step of its own and all *)
(* steps interleave.                                                       *)
(***************************************************************************)
EXTENDS BulkTransfer

CONSTANTS Threads,      \* threads that run work items and device controls
          MaxIoctls     \* bound: device controls that are issued

ASSUME DriverAssumption == MaxIoctls \in Nat

VARIABLES pc,       \* pc[t]: the call thread t is in or about to make
          kind,     \* kind[t]: "item" for a work item, "ioctl" for RESET_PIPE
          pipe,     \* pipe[t]: the pipe of the current call
          ioctls,   \* device controls issued so far
          overlapped, \* history: threads whose device reset met another thread's
          gaveUp    \* history: "start" if a pipe could not be started again,
                    \* "stall" if a device could not be reset

history == <<overlapped, gaveUp>>
threadVars == <<pc, kind, pipe, ioctls, history>>
driverVars == <<vars, threadVars>>

DriverInit ==
  /\ Init
  /\ pc = [t \in Threads |-> "idle"]
  /\ kind = [t \in Threads |-> "item"]
  /\ pipe = [t \in Threads |-> ReadPipe]
  /\ ioctls = 0
  /\ overlapped = {}
  /\ gaveUp = {}

Goto(t, label) == pc' = [pc EXCEPT ![t] = label]
AtPipe(t, p) == pipe' = [pipe EXCEPT ![t] = p]

\* Mutant of NextPipe: the loop runs once more than there are pipes.
NextPipeTooFar(t, body, after) ==
  /\ Goto(t, body)
  /\ AtPipe(t, IF pipe[t] = ReadPipe THEN WritePipe ELSE "past the last")

\* The loops over the configured pipes: SelectInterfaces makes the first one the
\* read pipe and the second one the write pipe.
NextPipe(t, body, after) ==
  IF pipe[t] = ReadPipe
    THEN Goto(t, body) /\ AtPipe(t, WritePipe)
    ELSE Goto(t, after) /\ AtPipe(t, ReadPipe)

\* Thread t is in ResetDevice.
InResetDevice(t) == pc[t] \in {"stop", "drain", "connected", "port", "start"}

\* ResetDevice is called, while other threads may be in it.
CallResetDevice(t) ==
  /\ Goto(t, "stop")
  /\ AtPipe(t, ReadPipe)
  /\ LET others == {u \in Threads \ {t} : InResetDevice(u)}
     IN  overlapped' = IF others = {} THEN overlapped \ {t}
                                      ELSE overlapped \cup others \cup {t}
  /\ UNCHANGED gaveUp

-----------------------------------------------------------------------------
(* Who asks for a reset.                                                   *)

Rio500_EvtReadWriteWorkItem(t) ==
  /\ pc[t] = "idle"
  /\ \E p \in Pipes : TakeWorkItem(p) /\ AtPipe(t, p)
  /\ kind' = [kind EXCEPT ![t] = "item"]
  /\ Goto(t, "reset")
  /\ UNCHANGED <<ioctls, history>>

NewIoctl(t) ==
  /\ pc[t] = "idle"
  /\ ioctls < MaxIoctls
  /\ ioctls' = ioctls + 1
  /\ UNCHANGED vars

\* IOCTL_RIO500_RESET_PIPE: the read pipe, then the write pipe.
IoctlResetPipe(t) ==
  /\ NewIoctl(t)
  /\ kind' = [kind EXCEPT ![t] = "ioctl"]
  /\ AtPipe(t, ReadPipe)
  /\ Goto(t, "reset")
  /\ UNCHANGED history

\* IOCTL_RIO500_RESET_DEVICE.
IoctlResetDevice(t) ==
  /\ NewIoctl(t)
  /\ CallResetDevice(t)
  /\ UNCHANGED kind

\* IOCTL_RIO500_RIO_COMMAND: a control transfer that goes to the device's own
\* I/O target, not to a pipe's; "command" while it is outstanding.  It has no timeout
\* and nobody cancels it.  A buffer that is missing or too small ends the call at once;
\* the driver does not look at what IoAllocateMdl returns, and an MmProbeAndLockPages
\* that raises is not modelled.
IoctlRioCommand(t) ==
  /\ NewIoctl(t)
  /\ Goto(t, "command")
  /\ UNCHANGED <<kind, pipe, history>>

RioCommandReturns(t) ==
  /\ pc[t] = "command"
  /\ Goto(t, "idle")
  /\ UNCHANGED <<vars, kind, pipe, ioctls, history>>

-----------------------------------------------------------------------------
(* ResetPipe: a synchronous request to the pipe's target.  It is kept back *)
(* while the target is stopped, and cancelled when the target is stopped   *)
(* under it.  A work item whose reset fails goes on to ResetDevice.        *)

ResetPipeSend(t) ==
  /\ pc[t] = "reset"
  /\ tstate[pipe[t]] = "started"
  /\ Goto(t, "reset_sent")
  /\ UNCHANGED <<vars, kind, pipe, ioctls, history>>

ResetPipeSucceeds(t) ==
  /\ pc[t] = "reset_sent"
  /\ WdfUsbTargetPipeReset(pipe[t])
  /\ IF kind[t] = "ioctl"
       THEN NextPipe(t, "reset", "idle")
       ELSE Goto(t, "idle") /\ UNCHANGED pipe
  /\ UNCHANGED <<requestVars, workItems, kind, ioctls, history>>

\* Mutant of ResetPipeFails: a work item does not go on to reset the device.
ResetPipeFailsAndReturns(t) ==
  /\ pc[t] = "reset_sent"
  /\ "reset_pipe" \in Faults \/ tstate[pipe[t]] = "stopped"
  /\ Goto(t, "idle")
  /\ AtPipe(t, ReadPipe)
  /\ UNCHANGED <<vars, kind, ioctls, history>>

ResetPipeFails(t) ==
  /\ pc[t] = "reset_sent"
  /\ "reset_pipe" \in Faults \/ tstate[pipe[t]] = "stopped"
  /\ IF kind[t] = "ioctl"
       THEN Goto(t, "idle") /\ AtPipe(t, ReadPipe) /\ UNCHANGED history
       ELSE CallResetDevice(t)
  /\ UNCHANGED <<vars, kind, ioctls>>

-----------------------------------------------------------------------------
(* ResetDevice.                                                            *)

\* The pipe resets that are with the USB stack, and those a stop has called back.
ResetsOf(p) == {u \in Threads : pc[u] = "reset_sent" /\ pipe[u] = p}
Recalled(t) == pc[t] = "reset_sent" /\ tstate[pipe[t]] = "stopped"

\* Nothing is pending in the USB stack: no transfer, no pipe reset, no command.
UsbIdle ==
  /\ \A p \in Pipes : sent[p] = {} /\ ResetsOf(p) = {}
  /\ \A u \in Threads : pc[u] # "command"

\* Mutant of StopPipe: the target is closed and what it has sent is left alone.
StopPipeLeavesSent(t) ==
  /\ pc[t] = "stop"
  /\ tstate' = [tstate EXCEPT ![pipe[t]] = "stopped"]
  /\ Goto(t, "drain")
  /\ UNCHANGED <<sent, held, cancelled, halted, requestVars, workItems, kind, pipe, ioctls,
                 history>>

\* StopAllPipes closes the targets one by one and waits at each for what it has
\* cancelled, a pipe reset of another thread included.
StopPipe(t) ==
  /\ pc[t] = "stop"
  /\ WdfIoTargetStop(pipe[t])
  /\ Goto(t, "drain")
  /\ UNCHANGED <<requestVars, workItems, kind, pipe, ioctls, history>>

\* Mutants of StopReturns: nobody waits for what is being cancelled, and the
\* other threads' resets are waited for as well.
StopReturnsAtOnce(t) ==
  /\ pc[t] = "drain"
  /\ NextPipe(t, "stop", "connected")
  /\ UNCHANGED <<vars, kind, ioctls, history>>

StopReturnsWhenAlone(t) ==
  /\ pc[t] = "drain"
  /\ IoTargetDrained(pipe[t])
  /\ \A u \in Threads \ {t} : pc[u] = "idle"
  /\ NextPipe(t, "stop", "connected")
  /\ UNCHANGED <<vars, kind, ioctls, history>>

StopReturns(t) ==
  /\ pc[t] = "drain"
  /\ IoTargetDrained(pipe[t])
  /\ ResetsOf(pipe[t]) = {}
  /\ NextPipe(t, "stop", "connected")
  /\ UNCHANGED <<vars, kind, ioctls, history>>

GiveUp(what) == gaveUp' = gaveUp \cup {what}

IsConnected(t) ==
  /\ pc[t] = "connected"
  /\ \/ Goto(t, "port") /\ UNCHANGED gaveUp
     \/ "connected" \in Faults /\ Goto(t, "start") /\ GiveUp("stall")
  /\ UNCHANGED <<vars, kind, pipe, ioctls, overlapped>>

\* Mutant of ResetPortSucceeds: the reset drops the requests that were kept back.
ResetPortDropsHeld(t) ==
  /\ pc[t] = "port"
  /\ UsbIdle
  /\ halted' = [p \in Pipes |-> FALSE]
  /\ held' = [p \in Pipes |-> {}]
  /\ Goto(t, "start")
  /\ UNCHANGED <<tstate, sent, cancelled, requestVars, workItems, kind, pipe, ioctls,
                 history>>

\* "A reset-device request will be stuck in the USB until the pending transactions
\* have been canceled": it waits for whatever is pending.
ResetPortSucceeds(t) ==
  /\ pc[t] = "port"
  /\ UsbIdle
  /\ WdfUsbTargetDeviceResetPort
  /\ Goto(t, "start")
  /\ UNCHANGED <<requestVars, workItems, kind, pipe, ioctls, history>>

\* It may fail at any time, for the device may have been taken away.
ResetPortFails(t) ==
  /\ pc[t] = "port"
  /\ "reset_port" \in Faults
  /\ Goto(t, "start")
  /\ GiveUp("stall")
  /\ UNCHANGED <<vars, kind, pipe, ioctls, overlapped>>

\* A start that fails is only logged.
StartOrGiveUp(p) ==
  \/ WdfIoTargetStart(p) /\ UNCHANGED gaveUp
  \/ "start" \in Faults /\ UNCHANGED targetVars /\ GiveUp("start")

\* Mutant of StartPipe: the loop ends before the last pipe.
StartPipeFirstOnly(t) ==
  /\ pc[t] = "start"
  /\ StartOrGiveUp(pipe[t])
  /\ Goto(t, "idle")
  /\ UNCHANGED <<requestVars, workItems, kind, pipe, ioctls, overlapped>>

\* StartAllPipes.
StartPipe(t) ==
  /\ pc[t] = "start"
  /\ StartOrGiveUp(pipe[t])
  /\ NextPipe(t, "start", "idle")
  /\ UNCHANGED <<requestVars, workItems, kind, ioctls, overlapped>>

ResetDevice(t) ==
  \/ StopPipe(t) \/ StopReturns(t) \/ IsConnected(t)
  \/ ResetPortSucceeds(t) \/ ResetPortFails(t) \/ StartPipe(t)

\* Whatever thread t does once it has been given something to do.
Running(t) ==
  \/ ResetPipeSend(t) \/ ResetPipeSucceeds(t) \/ ResetPipeFails(t)
  \/ ResetDevice(t) \/ RioCommandReturns(t)

Rio500_EvtIoDeviceControl(t) ==
  IoctlResetPipe(t) \/ IoctlResetDevice(t) \/ IoctlRioCommand(t)

Transfers(r) ==
  NewRequest(r) \/ Rio500_EvtReadWriteCompletion(r) \/ Rio500_EvtIoStop(r)

DriverNext ==
  \/ \E r \in Requests : Transfers(r) /\ UNCHANGED threadVars
  \/ \E t \in Threads :
       Rio500_EvtReadWriteWorkItem(t) \/ Rio500_EvtIoDeviceControl(t) \/ Running(t)

DriverSpec == DriverInit /\ [][DriverNext]_driverVars

-----------------------------------------------------------------------------
(* Fairness.  System workers run queued work items, threads keep running,  *)
(* and the USB stack gives back what it was asked to cancel.  That a port  *)
(* reset returns is owed only while nothing is pending in the USB stack.   *)
(* What is neither cancelled nor answered by the device - a transfer, a    *)
(* pipe reset, a command - stays with the stack: DeviceAnswers says that   *)
(* there is no such thing.                                                 *)

Completes(r) == Rio500_EvtReadWriteCompletion(r) /\ UNCHANGED threadVars
ResetPipeReturns(t) == ResetPipeSucceeds(t) \/ ResetPipeFails(t)

\* What thread t does without the help of the device.
Unaided(t) ==
  \/ ResetPipeSend(t)
  \/ Recalled(t) /\ ResetPipeReturns(t)
  \/ StopPipe(t) \/ StopReturns(t) \/ IsConnected(t) \/ StartPipe(t)
  \/ UsbIdle /\ (ResetPortSucceeds(t) \/ ResetPortFails(t))

FairSpec ==
  /\ DriverSpec
  /\ WF_driverVars(\E t \in Threads : Rio500_EvtReadWriteWorkItem(t))
  /\ \A t \in Threads : WF_driverVars(Unaided(t))
  /\ \A r \in Requests : WF_driverVars(r \in cancelled /\ Completes(r))

CommandsReturn == \A t \in Threads : WF_driverVars(RioCommandReturns(t))

DeviceAnswers ==
  /\ \A r \in Requests : WF_driverVars(r \in sent[PipeOf(r)] /\ Completes(r))
  /\ \A t \in Threads : WF_driverVars(ResetPipeReturns(t))
  /\ CommandsReturn

-----------------------------------------------------------------------------
(* Properties.                                                             *)

Labels == {"idle", "reset", "reset_sent", "stop", "drain", "connected", "port",
           "start", "command"}

\* Every variable of the threads has its type.
ThreadsTypeOK ==
  /\ pc \in [Threads -> Labels]
  /\ kind \in [Threads -> {"item", "ioctl"}]
  /\ pipe \in [Threads -> Pipes]
  /\ ioctls \in 0 .. MaxIoctls
  /\ overlapped \in SUBSET Threads
  /\ gaveUp \in SUBSET {"start", "stall"}

\* Thread t is inside ResetDevice, has closed the target of p or is about to wait
\* for it, and has not yet come to start it again.
KeepsStopped(t, p) ==
  \/ pc[t] \in {"connected", "port"}
  \/ pc[t] = "drain" /\ (pipe[t] = p \/ p = ReadPipe)
  \/ pc[t] = "stop" /\ pipe[t] = WritePipe /\ p = ReadPipe
  \/ pc[t] = "start" /\ (pipe[t] = p \/ p = WritePipe)

\* No interleaving of resets leaves a pipe closed: a target is stopped only while
\* some thread that stopped it still has to start it (StopAllPipes and
\* StartAllPipes of several threads overlap freely), as long as no start has failed.
StoppedHasStarter ==
  "start" \notin gaveUp =>
    \A p \in Pipes : tstate[p] = "stopped" => \E t \in Threads : KeepsStopped(t, p)

\* Thread t is going to clear a stall of p: it runs the work item of p, or
\* is on its way to the port reset.
WillReset(t, p) ==
  \/ pc[t] \in {"reset", "reset_sent"} /\ kind[t] = "item" /\ pipe[t] = p
  \/ pc[t] \in {"stop", "drain", "connected", "port"}

\* A stall is never forgotten: while a pipe is halted a work item for it is queued
\* or a thread is on the way to clear it.  Rio500_EvtReadWriteCompletion queues one
\* per failure and a failed ResetPipe turns into ResetDevice, so this needs only
\* that work items can be made and that the last resort has not failed so far.
StallHasReset ==
  "workitem" \notin Faults /\ "stall" \notin gaveUp =>
    \A p \in Pipes :
      halted[p] => workItems[p] > 0 \/ \E t \in Threads : WillReset(t, p)

PipesQuiet == \A p \in Pipes : tstate[p] = "stopped" /\ sent[p] = {} /\ ResetsOf(p) = {}

\* A thread that resets the port finds every pipe stopped and no transfer or pipe reset
\* in the USB stack, whatever requests, work items and pipe resets run beside it and
\* whatever fails - unless its ResetDevice has met that of another thread.
ResetPortQuiesced ==
  \A t \in Threads : pc[t] = "port" /\ t \notin overlapped => PipesQuiet

\* What the comment in ResetDevice asks for: the port is reset only while every
\* pipe is stopped and the USB stack holds nothing for it.
ResetPortAlwaysQuiesced == (\E t \in Threads : pc[t] = "port") => PipesQuiet

\* Nothing of this sort has failed, ever.
Never(what) == [](gaveUp \cap what = {})

\* A ResetDevice comes to its end by itself, even if the device has fallen silent: it
\* cancels whatever it waits for.  The exceptions are those of the code: it has met
\* another thread's ResetDevice, which may have opened the pipes again before the port
\* reset, or a command is outstanding, which nobody cancels.
ResettersFinish ==
  \A t \in Threads :
    InResetDevice(t) ~>
      ~InResetDevice(t) \/ t \in overlapped \/ \E u \in Threads : pc[u] = "command"

\* If the device answers, every thread comes to its end, whatever meets what: the
\* threads wait for transfers, cancellations and each other, but never in a circle.
ThreadsFinish ==
  DeviceAnswers /\ Never({"start"}) =>
    \A t \in Threads : pc[t] # "idle" ~> pc[t] = "idle"

\* A request that was kept back because its target was stopped is passed on or given
\* back, if the device answers or if no two threads reset the device at once and
\* commands return: no reset leaves it behind a closed target.
HeldIsReleased ==
  /\ DeviceAnswers \/ (CommandsReturn /\ [](overlapped = {}))
  /\ Never({"start"})
  => \A r \in Requests :
       (\E p \in Pipes : r \in held[p]) ~> (\A p \in Pipes : r \notin held[p])

\* A stalled pipe of a device that answers becomes usable again without help from the
\* application.
StallRecovers ==
  DeviceAnswers /\ Never({"start", "stall"}) => \A p \in Pipes : halted[p] ~> ~halted[p]

\* If the device answers what it is sent, every request is completed in the end,
\* through stalls, cancellations and resets; a device that falls silent in the
\* middle of a transfer is no reason for the driver to complete anything.
RequestsComplete ==
  DeviceAnswers /\ Never({"start"}) =>
    \A r \in Requests : status[r] = "pending" ~> Done(r)

=============================================================================
