----------------------------- MODULE UsbTarget -----------------------------
(***************************************************************************)
(* The part of the world under the driver: the framework's I/O target of   *)
(* each bulk pipe and the USB stack behind it.  None of it is code of this *)
(* repository; it is modelled from how driver/bulkrwr.c and driver/queue.c *)
(* use it, and every operation is an action fragment the driver's modules  *)
(* conjoin with their own.                                                 *)
(***************************************************************************)
EXTENDS Integers, FiniteSets

CONSTANTS Requests,             \* read and write requests of the applications
          ReadPipe, WritePipe   \* DEVICE_CONTEXT.ReadPipe and .WritePipe

ASSUME PipesAssumption == ReadPipe # WritePipe

Pipes == {ReadPipe, WritePipe}

VARIABLES tstate,      \* tstate[p]: the state of the pipe's I/O target
          sent,        \* sent[p]: requests the USB stack holds
          held,        \* held[p]: requests kept back while the target is stopped
          cancelled,   \* sent requests the target has asked the stack to cancel
          halted       \* halted[p]: the endpoint has stalled and needs a reset

targetVars == <<tstate, sent, held, cancelled, halted>>

TargetTypeOK ==
  /\ tstate \in [Pipes -> {"started", "stopped"}]
  /\ sent \in [Pipes -> SUBSET Requests]
  /\ held \in [Pipes -> SUBSET Requests]
  /\ cancelled \in SUBSET Requests
  /\ halted \in [Pipes -> BOOLEAN]

TargetInit ==
  /\ tstate = [p \in Pipes |-> "started"]
  /\ sent = [p \in Pipes |-> {}]
  /\ held = [p \in Pipes |-> {}]
  /\ cancelled = {}
  /\ halted = [p \in Pipes |-> FALSE]

(***************************************************************************)
(* WdfRequestSend without options: a started target passes the request to  *)
(* the USB stack, a stopped one keeps it until the next start.  The same   *)
(* call re-circulates a request that has just come back from the stack.    *)
(***************************************************************************)
WdfRequestSend(r, p) ==
  /\ sent' = [sent EXCEPT ![p] = IF tstate[p] = "started" THEN @ \cup {r} ELSE @ \ {r}]
  /\ held' = [held EXCEPT ![p] = IF tstate[p] = "started" THEN @ ELSE @ \cup {r}]
  /\ cancelled' = cancelled \ {r}

\* The target forgets a request that the driver completes.
Forget(r, p) ==
  /\ sent' = [sent EXCEPT ![p] = @ \ {r}]
  /\ held' = [held EXCEPT ![p] = @ \ {r}]
  /\ cancelled' = cancelled \ {r}

(***************************************************************************)
(* WdfIoTargetStop with WdfIoTargetCancelSentIo: the first half closes the *)
(* target and asks for what is sent to be cancelled; the call returns once *)
(* everything it cancelled has come back (IoTargetDrained).                *)
(***************************************************************************)
WdfIoTargetStop(p) ==
  /\ tstate' = [tstate EXCEPT ![p] = "stopped"]
  /\ cancelled' = cancelled \cup sent[p]
  /\ UNCHANGED <<sent, held, halted>>

IoTargetDrained(p) == sent[p] \cap cancelled = {}

\* WdfIoTargetStart: what was kept back goes to the USB stack.
WdfIoTargetStart(p) ==
  /\ tstate' = [tstate EXCEPT ![p] = "started"]
  /\ sent' = [sent EXCEPT ![p] = @ \cup held[p]]
  /\ held' = [held EXCEPT ![p] = {}]
  /\ UNCHANGED <<cancelled, halted>>

\* WdfUsbTargetPipeResetSynchronously that succeeds clears the stall.
WdfUsbTargetPipeReset(p) ==
  /\ halted' = [halted EXCEPT ![p] = FALSE]
  /\ UNCHANGED <<tstate, sent, held, cancelled>>

\* WdfUsbTargetDeviceResetPortSynchronously that succeeds clears every stall.  The
\* request is stuck in the USB stack until no transfer is pending there (the comment
\* in ResetDevice).
WdfUsbTargetDeviceResetPort ==
  /\ \A p \in Pipes : sent[p] = {}
  /\ halted' = [p \in Pipes |-> FALSE]
  /\ UNCHANGED <<tstate, sent, held, cancelled>>

=============================================================================
