------------------------------ MODULE DevicePnp ------------------------------
(***************************************************************************)
(* driver/device.c: how a device object comes, is configured, is stopped   *)
(* and configured again when the PnP manager rebalances resources, and     *)
(* goes.  The framework calls these callbacks one after the other for a    *)
(* device, so each is one action; what matters is the state an earlier one *)
(* leaves for a later one, on its error exits above all.                   *)
(*                                                                         *)
(* Outside the repository and assumed here: selecting a configuration or   *)
(* an alternate setting gives the interface new pipe objects in place of   *)
(* its old ones; a device object whose callback fails is removed.          *)
(***************************************************************************)
EXTENDS Integers, Sequences, FiniteSets

CONSTANTS Devices,          \* devices: the sequence of alternate settings of each,
                            \* a setting being the sequence of its pipes' types
          RegistryValues,   \* values MaximumTransferSize may have, 0 for none
          DefaultTransferSize, \* DEFAULT_REGISTRY_TRANSFER_SIZE
          MaxRestarts       \* bound: times a device is stopped and restarted

ASSUME PnpAssumption ==
  /\ Devices \subseteq Seq(Seq(STRING)) \ {<<>>}
  /\ RegistryValues \subseteq Nat
  /\ DefaultTransferSize \in Nat \ {0}
  /\ MaxRestarts \in Nat

NULL == 0

VARIABLES device,     \* the alternate settings of the device that is plugged in
          phase,      \* "absent", "added", "started", "stopped", "failed", "removed"
          dc,         \* its DEVICE_CONTEXT
          usbd,       \* USBD handles created and not closed
          pipes,      \* pipe objects of the interface: handle and type
          handles,    \* pipe objects made so far
          memories,   \* configuration descriptors allocated so far
          restarts

vars == <<device, phase, dc, usbd, pipes, handles, memories, restarts>>

NoContext == [WdfUsbTargetDevice |-> FALSE, UsbdHandle |-> FALSE,
              MaximumTransferSize |-> 0, UsbConfigurationDescriptor |-> NULL,
              NumberConfiguredPipes |-> 0, ReadPipe |-> NULL, WritePipe |-> NULL,
              WaitWakeEnable |-> FALSE]

Init ==
  /\ device \in Devices
  /\ phase = "absent"
  /\ dc = NoContext
  /\ usbd = 0
  /\ pipes = <<>>
  /\ handles = 0
  /\ memories = 0
  /\ restarts = 0

-----------------------------------------------------------------------------
(* Rio500_EvtDeviceAdd.                                                    *)

\* ReadFdoRegistryKeyValue and the default in its place.
TransferSize(value) == IF value # 0 THEN value ELSE DefaultTransferSize

\* The device object, its queue and its interface are there; USBD_CreateHandle,
\* the last call, succeeds or not.
DeviceCreated(value) ==
  \/ /\ phase' = "added"
     /\ usbd' = usbd + 1
     /\ dc' = [NoContext EXCEPT !.MaximumTransferSize = TransferSize(value),
                                !.UsbdHandle = TRUE]
  \/ /\ phase' = "failed"
     /\ dc' = [NoContext EXCEPT !.MaximumTransferSize = TransferSize(value)]
     /\ UNCHANGED usbd

Rio500_EvtDeviceAdd ==
  /\ phase = "absent"
  /\ \/ phase' = "removed" /\ UNCHANGED <<dc, usbd>>   \* no device object at all
     \/ \E value \in RegistryValues : DeviceCreated(value)
  /\ UNCHANGED <<device, pipes, handles, memories, restarts>>

-----------------------------------------------------------------------------
(* Rio500_EvtDevicePrepareHardware: ReadAndSelectDescriptors,              *)
(* ConfigureDevice, SelectInterfaces, SetPowerPolicy.                      *)

Fails(context) == phase' = "failed" /\ dc' = context

\* The walk over the alternate settings ends at the first that can be selected
\* and has pipes; rejected are those the device refuses.
Usable(rejected, i) == i \notin rejected /\ device[i] # <<>>
Selected(rejected, setting) ==
  IF setting = NULL
    THEN \A i \in DOMAIN device : ~Usable(rejected, i)
    ELSE Usable(rejected, setting) /\ \A i \in 1 .. setting - 1 : ~Usable(rejected, i)

\* The status of the walk is that of the last setting it tried.
WalkSucceeds(rejected, setting) == setting # NULL \/ Len(device) \notin rejected

PipesOf(setting) ==
  IF setting = NULL THEN <<>>
  ELSE [i \in DOMAIN device[setting] |->
          [handle |-> handles + i, type |-> device[setting][i]]]

\* The i-th bulk pipe of the interface.
BulkPipe(ps, i) ==
  LET IsBulk(j) == ps[j].type = "bulk"
      found == {j \in DOMAIN ps : IsBulk(j) /\ Cardinality({k \in 1 .. j : IsBulk(k)}) = i}
  IN  IF found = {} THEN NULL ELSE ps[CHOOSE j \in found : TRUE].handle

\* Mutant of AssignPipes: both fields get the first bulk pipe.
AssignFirstPipe(context, ps) ==
  [context EXCEPT
     !.NumberConfiguredPipes = Len(ps),
     !.ReadPipe = BulkPipe(ps, 1),
     !.WritePipe = BulkPipe(ps, 1)]

\* The first bulk pipe goes to the first of the two fields that is free, the
\* second to the other; a field that is taken is left alone.
AssignPipes(context, ps) ==
  LET free == context.ReadPipe = NULL
  IN  [context EXCEPT
         !.NumberConfiguredPipes = Len(ps),
         !.ReadPipe  = IF free THEN BulkPipe(ps, 1) ELSE @,
         !.WritePipe = IF @ = NULL THEN BulkPipe(ps, IF free THEN 2 ELSE 1) ELSE @]

\* Information has been retrieved: the settings are tried, the pipes assigned
\* and, for a device that can wake the system, the power policy set.
SelectSettings(context, rejected, setting) ==
  LET ps == PipesOf(setting)
      assigned == AssignPipes(context, ps)
  IN  /\ Selected(rejected, setting)
      /\ pipes' = ps
      /\ handles' = handles + Len(ps)
      /\ dc' = assigned
      /\ \/ phase' = "started" /\ WalkSucceeds(rejected, setting)
         \/ phase' = "failed" /\ (assigned.WaitWakeEnable \/ ~WalkSucceeds(rejected, setting))

\* A configuration without interfaces is a success that assigns nothing.
NoInterface(context) ==
  /\ pipes' = <<>>
  /\ dc' = context
  /\ phase' = "started" \/ (phase' = "failed" /\ context.WaitWakeEnable)
  /\ UNCHANGED handles

\* The descriptor is valid: SelectConfig, RetrieveDeviceInformation or a setting
\* may still fail.
SelectInterfaces(context) ==
  \/ Fails(context) /\ pipes' = <<>> /\ UNCHANGED handles
  \/ NoInterface(context)
  \/ \E wake \in BOOLEAN, rejected \in SUBSET (DOMAIN device),
        setting \in {NULL} \cup DOMAIN device :
       SelectSettings([context EXCEPT !.WaitWakeEnable = wake], rejected, setting)

\* Mutant of ConfigureDevice: a descriptor that is there already is kept.
ConfigureDeviceOnce(context) ==
  \/ Fails(context) /\ UNCHANGED <<pipes, handles, memories>>
  \/ /\ memories' = memories + 1
     /\ SelectInterfaces(
          [context EXCEPT !.UsbConfigurationDescriptor = IF @ = NULL THEN memories + 1 ELSE @])

\* A descriptor is allocated for every start; it replaces the one in the context
\* once it has been read and validated.
ConfigureDevice(context) ==
  \/ Fails(context) /\ UNCHANGED <<pipes, handles, memories>>
  \/ /\ memories' = memories + 1
     /\ \/ Fails(context) /\ UNCHANGED <<pipes, handles>>
        \/ SelectInterfaces(
             [context EXCEPT !.UsbConfigurationDescriptor = memories + 1])

\* The USB device handle is made at the first start only.
ReadAndSelectDescriptors ==
  \/ /\ ~dc.WdfUsbTargetDevice
     /\ Fails(dc)
     /\ UNCHANGED <<pipes, handles, memories>>
  \/ ConfigureDevice([dc EXCEPT !.WdfUsbTargetDevice = TRUE])

Rio500_EvtDevicePrepareHardware ==
  /\ phase \in {"added", "stopped"}
  /\ ReadAndSelectDescriptors
  /\ UNCHANGED <<device, usbd, restarts>>

-----------------------------------------------------------------------------
(* The framework stops the device for a rebalance (the driver registers no *)
(* callback for it) and removes it (Rio500_EvtDeviceContextCleanup).       *)

Stop ==
  /\ phase = "started"
  /\ restarts < MaxRestarts
  /\ phase' = "stopped"
  /\ restarts' = restarts + 1
  /\ UNCHANGED <<device, dc, usbd, pipes, handles, memories>>

\* Mutants of Rio500_EvtDeviceContextCleanup: the handle is closed without a look
\* at whether there is one, and not closed at all.
CleanupAlwaysCloses ==
  /\ phase \in {"added", "started", "stopped", "failed"}
  /\ phase' = "removed"
  /\ usbd' = usbd - 1
  /\ pipes' = <<>>
  /\ UNCHANGED <<device, dc, handles, memories, restarts>>

CleanupNeverCloses ==
  /\ phase \in {"added", "started", "stopped", "failed"}
  /\ phase' = "removed"
  /\ pipes' = <<>>
  /\ UNCHANGED <<device, dc, usbd, handles, memories, restarts>>

Rio500_EvtDeviceContextCleanup ==
  /\ phase \in {"added", "started", "stopped", "failed"}
  /\ phase' = "removed"
  /\ usbd' = IF dc.UsbdHandle THEN usbd - 1 ELSE usbd
  /\ pipes' = <<>>
  /\ UNCHANGED <<device, dc, handles, memories, restarts>>

Next ==
  \/ Rio500_EvtDeviceAdd \/ Rio500_EvtDevicePrepareHardware
  \/ Stop \/ Rio500_EvtDeviceContextCleanup

Spec == Init /\ [][Next]_vars

-----------------------------------------------------------------------------
(* Properties.                                                             *)

\* Every field has its type.
TypeOK ==
  /\ device \in Devices
  /\ phase \in {"absent", "added", "started", "stopped", "failed", "removed"}
  /\ dc \in [WdfUsbTargetDevice : BOOLEAN, UsbdHandle : BOOLEAN, WaitWakeEnable : BOOLEAN,
            MaximumTransferSize : Nat, UsbConfigurationDescriptor : Nat,
            NumberConfiguredPipes : Nat, ReadPipe : Nat, WritePipe : Nat]
  /\ {usbd, handles, memories, restarts} \subseteq Nat

\* Whichever call of EvtDeviceAdd or PrepareHardware fails, removal leaves no USBD
\* handle behind and closes none twice.
UsbdHandleClosed ==
  /\ usbd \in {0, 1}
  /\ phase = "removed" => usbd = 0

\* What queue.c relies on once requests arrive: ReadPipe and WritePipe are the
\* first and the second bulk pipe of the interface as it is now, and the number of
\* pipes StopAllPipes and StartAllPipes walk over is the interface's.
\* (The comment in SelectInterfaces: "The first bulk pipe we find is "read", the
\* second one is "write"".)
PipesAreCurrent ==
  phase = "started" =>
    /\ dc.ReadPipe = BulkPipe(pipes, 1)
    /\ dc.WritePipe = BulkPipe(pipes, 2)
    /\ dc.NumberConfiguredPipes = Len(pipes)

\* The same up to the first restart: whatever settings the device has, refuses or
\* leaves empty, and whichever call fails, the requests of a device that has been
\* started once go to the right pipes.
PipesOfFirstStart == restarts = 0 => PipesAreCurrent

\* Over failed and repeated starts, a device that takes requests has the last
\* descriptor that was allocated, and no request ever sees one that was allocated
\* and then found invalid.
DescriptorIsLatest ==
  phase = "started" =>
    dc.UsbConfigurationDescriptor = memories /\ memories = restarts + 1

=============================================================================
