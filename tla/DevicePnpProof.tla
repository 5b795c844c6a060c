--------------------------- MODULE DevicePnpProof ---------------------------
(***************************************************************************)
(* Proofs about DevicePnp: for devices of any shape, started and stopped   *)
(* any number of times, with every call failing or not.                    *)
(***************************************************************************)
EXTENDS DevicePnp, SequenceTheorems, TLAPS

Context == [WdfUsbTargetDevice : BOOLEAN, UsbdHandle : BOOLEAN, WaitWakeEnable : BOOLEAN,
            MaximumTransferSize : Nat, UsbConfigurationDescriptor : Nat,
            NumberConfiguredPipes : Nat, ReadPipe : Nat, WritePipe : Nat]
Pipes == Seq([handle : Nat, type : STRING])

NoPipes(context) ==
  context.ReadPipe = NULL /\ context.WritePipe = NULL /\ context.NumberConfiguredPipes = 0

(***************************************************************************)
(* The inductive invariant: what each phase can rely on, so that the next  *)
(* callback finds what it expects.                                         *)
(***************************************************************************)
OneHandle ==
  /\ usbd = IF phase # "removed" /\ dc.UsbdHandle THEN 1 ELSE 0
  /\ phase = "absent" => usbd = 0

Counters ==
  /\ phase \in {"absent", "added"} => memories = 0 /\ restarts = 0
  /\ phase = "stopped" => memories = restarts /\ restarts > 0

Fresh == phase \in {"absent", "added"} => NoPipes(dc)

DIInv == TypeOK /\ OneHandle /\ Counters /\ Fresh /\ PipesOfFirstStart /\ DescriptorIsLatest

-----------------------------------------------------------------------------
(* The pipes of a setting.                                                 *)

LEMMA DeviceType ==
  ASSUME TypeOK
  PROVE  device \in Seq(Seq(STRING)) /\ Len(device) \in Nat \ {0}
         /\ DOMAIN device = 1 .. Len(device)
  BY PnpAssumption, LenProperties, EmptySeq DEF TypeOK

LEMMA PipesType ==
  ASSUME TypeOK, NEW setting \in {NULL} \cup DOMAIN device
  PROVE  PipesOf(setting) \in Pipes /\ Len(PipesOf(setting)) \in Nat
<1>1. CASE setting = NULL
  BY <1>1, EmptySeq, LenProperties DEF PipesOf, Pipes
<1>2. CASE setting # NULL
  <2> DEFINE s == device[setting]
  <2>1. setting \in 1 .. Len(device) /\ s \in Seq(STRING)
    BY <1>2, DeviceType
  <2>2. Len(s) \in Nat /\ DOMAIN s = 1 .. Len(s) /\ \A i \in 1 .. Len(s) : s[i] \in STRING
    BY <2>1, LenProperties
  <2>3. handles \in Nat
    BY DEF TypeOK
  <2>4. PipesOf(setting) = [i \in 1 .. Len(s) |-> [handle |-> handles + i, type |-> s[i]]]
    BY <1>2, <2>2 DEF PipesOf
  <2>5. \A i \in 1 .. Len(s) : [handle |-> handles + i, type |-> s[i]] \in [handle : Nat, type : STRING]
    BY <2>2, <2>3
  <2>6. PipesOf(setting) \in [1 .. Len(s) -> [handle : Nat, type : STRING]]
    BY <2>4, <2>5
  <2>7. PipesOf(setting) \in Pipes
    <3>1. PipesOf(setting) \in UNION {[1 .. n -> [handle : Nat, type : STRING]] : n \in Nat}
      BY <2>2, <2>6
    <3> QED
      BY <3>1, SeqDef, Zenon DEF Pipes
  <2> QED
    BY <2>7, LenProperties DEF Pipes
<1> QED
  BY <1>1, <1>2

LEMMA BulkPipeType ==
  ASSUME NEW ps \in Pipes, NEW i
  PROVE  BulkPipe(ps, i) \in Nat
<1> DEFINE IsBulk(j) == ps[j].type = "bulk"
<1> DEFINE found == {j \in DOMAIN ps : IsBulk(j) /\ Cardinality({k \in 1 .. j : IsBulk(k)}) = i}
<1>1. \A j \in DOMAIN ps : ps[j].handle \in Nat
  <2>1. ps \in [1 .. Len(ps) -> [handle : Nat, type : STRING]]
    BY LenProperties DEF Pipes
  <2> QED
    BY <2>1
<1>2. BulkPipe(ps, i) = IF found = {} THEN NULL ELSE ps[CHOOSE j \in found : TRUE].handle
  BY DEF BulkPipe
<1>3. found \subseteq DOMAIN ps /\ (found # {} => (CHOOSE j \in found : TRUE) \in found)
  OBVIOUS
<1> HIDE DEF found
<1> QED
  BY <1>1, <1>2, <1>3 DEF NULL

LEMMA NoBulkPipe == ASSUME NEW i PROVE BulkPipe(<<>>, i) = NULL /\ Len(<<>>) = 0
  BY DEF BulkPipe

-----------------------------------------------------------------------------
(* Rio500_EvtDevicePrepareHardware.                                        *)

\* What the selection of interfaces does to a context, on all of its exits.
Outcome(context) ==
  /\ dc' \in Context
  /\ dc'.UsbdHandle = context.UsbdHandle
  /\ dc'.UsbConfigurationDescriptor = context.UsbConfigurationDescriptor
  /\ handles' \in Nat
  /\ phase' \in {"started", "failed"}
  /\ NoPipes(context) => PipesAreCurrent'

LEMMA SelectOutcome ==
  ASSUME TypeOK, NEW context \in Context, SelectInterfaces(context)
  PROVE  Outcome(context)
<1>0. handles \in Nat
  BY DEF TypeOK
<1>1. CASE Fails(context) /\ pipes' = <<>> /\ UNCHANGED handles
  BY <1>0, <1>1 DEF Fails, Outcome, PipesAreCurrent
<1>2. CASE NoInterface(context)
  <2>1. /\ dc' = context /\ pipes' = <<>> /\ handles' = handles
        /\ phase' \in {"started", "failed"}
    BY <1>2 DEF NoInterface
  <2>2. NoPipes(context) => PipesAreCurrent'
    BY <2>1, NoBulkPipe DEF NoPipes, PipesAreCurrent
  <2> QED
    BY <1>0, <2>1, <2>2 DEF Outcome
<1>3. ASSUME NEW wake \in BOOLEAN, NEW rejected \in SUBSET (DOMAIN device),
             NEW setting \in {NULL} \cup DOMAIN device,
             SelectSettings([context EXCEPT !.WaitWakeEnable = wake], rejected, setting)
      PROVE  Outcome(context)
  <2> DEFINE ps == PipesOf(setting)
             woken == [context EXCEPT !.WaitWakeEnable = wake]
  <2>1. ps \in Pipes /\ Len(ps) \in Nat
    BY PipesType
  <2>2. \A i : BulkPipe(ps, i) \in Nat
    BY <2>1, BulkPipeType
  <2>3. /\ dc' = AssignPipes(woken, ps) /\ pipes' = ps /\ handles' = handles + Len(ps)
        /\ phase' \in {"started", "failed"}
    BY <1>3 DEF SelectSettings
  <2>4. /\ woken \in Context /\ woken.UsbdHandle = context.UsbdHandle
        /\ woken.UsbConfigurationDescriptor = context.UsbConfigurationDescriptor
        /\ woken.ReadPipe = context.ReadPipe /\ woken.WritePipe = context.WritePipe
    BY DEF Context
  <2> HIDE DEF ps, woken
  <2>5. /\ dc' \in Context /\ dc'.UsbdHandle = woken.UsbdHandle
        /\ dc'.UsbConfigurationDescriptor = woken.UsbConfigurationDescriptor
    BY <2>1, <2>2, <2>3, <2>4 DEF AssignPipes, Context
  <2>6. NoPipes(context) => PipesAreCurrent'
    <3> SUFFICES ASSUME NoPipes(context)
                 PROVE  /\ dc'.ReadPipe = BulkPipe(ps, 1) /\ dc'.WritePipe = BulkPipe(ps, 2)
                        /\ dc'.NumberConfiguredPipes = Len(ps)
      BY <2>3 DEF PipesAreCurrent
    <3> QED
      BY <2>3, <2>4 DEF NoPipes, AssignPipes, Context
  <2> QED
    BY <1>0, <2>1, <2>3, <2>4, <2>5, <2>6 DEF Outcome
<1> QED
  BY <1>1, <1>2, <1>3 DEF SelectInterfaces

\* A start: it fails, or it ends in the selection of interfaces with a new descriptor.
LEMMA PrepareOutcome ==
  ASSUME TypeOK, ReadAndSelectDescriptors
  PROVE  /\ dc' \in Context /\ dc'.UsbdHandle = dc.UsbdHandle
         /\ handles' \in Nat /\ memories' \in Nat
         /\ phase' \in {"started", "failed"}
         /\ phase' = "started" =>
              dc'.UsbConfigurationDescriptor = memories' /\ memories' = memories + 1
         /\ NoPipes(dc) => PipesAreCurrent'
<1>0. dc \in Context /\ handles \in Nat /\ memories \in Nat
  BY DEF TypeOK, Context
<1>1. CASE Fails(dc) /\ UNCHANGED <<pipes, handles, memories>>
  BY <1>0, <1>1 DEF Fails, PipesAreCurrent
<1>2. CASE ConfigureDevice([dc EXCEPT !.WdfUsbTargetDevice = TRUE])
  <2> DEFINE made == [dc EXCEPT !.WdfUsbTargetDevice = TRUE]
             read == [made EXCEPT !.UsbConfigurationDescriptor = memories + 1]
  <2>0. made \in Context /\ made.UsbdHandle = dc.UsbdHandle
        /\ made.ReadPipe = dc.ReadPipe /\ made.WritePipe = dc.WritePipe
        /\ made.NumberConfiguredPipes = dc.NumberConfiguredPipes
    BY <1>0 DEF Context
  <2> HIDE DEF made
  <2>1. /\ made \in Context /\ made.UsbdHandle = dc.UsbdHandle
        /\ read \in Context /\ read.UsbdHandle = dc.UsbdHandle
        /\ read.UsbConfigurationDescriptor = memories + 1
        /\ NoPipes(dc) => NoPipes(read)
    BY <1>0, <2>0 DEF Context, NoPipes
  <2> HIDE DEF read
  <2>2. \/ Fails(made) /\ handles' = handles /\ memories' \in {memories, memories + 1}
        \/ SelectInterfaces(read) /\ memories' = memories + 1
    BY <1>2 DEF ConfigureDevice, made, read
  <2>3. CASE Fails(made) /\ handles' = handles /\ memories' \in {memories, memories + 1}
    BY <1>0, <2>1, <2>3 DEF Fails, PipesAreCurrent
  <2>4. CASE SelectInterfaces(read) /\ memories' = memories + 1
    <3>1. Outcome(read)
      BY <2>1, <2>4, SelectOutcome
    <3> QED
      BY <1>0, <2>1, <2>4, <3>1 DEF Outcome
  <2> QED
    BY <2>2, <2>3, <2>4
<1> QED
  BY <1>1, <1>2 DEF ReadAndSelectDescriptors

-----------------------------------------------------------------------------

LEMMA DInitIInv == Init => DIInv
  BY PnpAssumption DEF Init, DIInv, TypeOK, NoContext, NULL, OneHandle, Counters, Fresh,
     NoPipes, PipesOfFirstStart, PipesAreCurrent, DescriptorIsLatest

LEMMA AddKeeps == ASSUME DIInv, Rio500_EvtDeviceAdd PROVE DIInv'
<1>0. device \in Devices /\ dc \in Context
  BY DEF DIInv, TypeOK, Context
<1>1. ASSUME NEW value \in RegistryValues PROVE TransferSize(value) \in Nat
  BY PnpAssumption DEF TransferSize
<1>2. CASE phase' = "removed" /\ UNCHANGED <<dc, usbd>>
  BY <1>2 DEF Rio500_EvtDeviceAdd, DIInv, TypeOK, OneHandle, Counters, Fresh,
     PipesOfFirstStart, PipesAreCurrent, DescriptorIsLatest
<1>3. ASSUME NEW value \in RegistryValues, DeviceCreated(value)
      PROVE  DIInv'
  <2> DEFINE size == TransferSize(value)
  <2>1. /\ phase = "absent" /\ UNCHANGED <<device, pipes, handles, memories, restarts>>
        /\ usbd = 0 /\ memories = 0 /\ restarts = 0 /\ handles \in Nat
    BY DEF Rio500_EvtDeviceAdd, DIInv, TypeOK, OneHandle, Counters
  <2>2. NoContext \in Context /\ NoPipes(NoContext) /\ NoContext.UsbdHandle = FALSE
    BY DEF NoContext, Context, NoPipes, NULL
  <2>3. /\ dc' \in Context /\ NoPipes(dc')
        /\ \/ phase' = "added" /\ usbd' = 1 /\ dc'.UsbdHandle = TRUE
           \/ phase' = "failed" /\ usbd' = 0 /\ dc'.UsbdHandle = FALSE
    <3> HIDE DEF size
    <3>1. size \in Nat
      BY <1>1 DEF size
    <3>2. CASE /\ phase' = "added" /\ usbd' = usbd + 1
               /\ dc' = [NoContext EXCEPT !.MaximumTransferSize = size, !.UsbdHandle = TRUE]
      <4>1. dc'.UsbdHandle = TRUE /\ dc' \in Context
        BY <2>2, <3>1, <3>2 DEF Context
      <4>2. NoPipes(dc')
        BY <2>2, <3>2 DEF Context, NoPipes
      <4> QED
        BY <2>1, <3>2, <4>1, <4>2
    <3>3. CASE /\ phase' = "failed" /\ UNCHANGED usbd
               /\ dc' = [NoContext EXCEPT !.MaximumTransferSize = size]
      BY <2>1, <2>2, <3>1, <3>3 DEF Context, NoPipes
    <3> QED
      BY <1>3, <3>2, <3>3 DEF DeviceCreated, size
  <2>4. TypeOK'
    BY <1>0, <2>1, <2>3 DEF TypeOK, Context
  <2> QED
    BY <2>1, <2>3, <2>4 DEF DIInv, OneHandle, Counters, Fresh, PipesOfFirstStart,
       PipesAreCurrent, DescriptorIsLatest
<1> QED
  BY <1>2, <1>3 DEF Rio500_EvtDeviceAdd

LEMMA PrepareKeeps == ASSUME DIInv, Rio500_EvtDevicePrepareHardware PROVE DIInv'
<1>1. /\ dc' \in Context /\ dc'.UsbdHandle = dc.UsbdHandle
      /\ handles' \in Nat /\ memories' \in Nat
      /\ phase' \in {"started", "failed"}
      /\ phase' = "started" =>
           dc'.UsbConfigurationDescriptor = memories' /\ memories' = memories + 1
      /\ NoPipes(dc) => PipesAreCurrent'
  BY PrepareOutcome DEF DIInv, Rio500_EvtDevicePrepareHardware
<1>2. phase \in {"added", "stopped"} /\ UNCHANGED <<device, usbd, restarts>>
  BY DEF Rio500_EvtDevicePrepareHardware
<1>3. TypeOK'
  BY <1>1, <1>2 DEF DIInv, TypeOK, Context
<1>4. OneHandle' /\ Counters' /\ Fresh'
  BY <1>1, <1>2 DEF DIInv, OneHandle, Counters, Fresh
<1>5. PipesOfFirstStart'
  BY <1>1, <1>2 DEF DIInv, Counters, Fresh, PipesOfFirstStart
<1>6. DescriptorIsLatest'
  BY <1>1, <1>2 DEF DIInv, TypeOK, Counters, DescriptorIsLatest
<1> QED
  BY <1>3, <1>4, <1>5, <1>6 DEF DIInv

LEMMA StopKeeps == ASSUME DIInv, Stop PROVE DIInv'
  BY DEF Stop, DIInv, TypeOK, OneHandle, Counters, Fresh, PipesOfFirstStart,
     PipesAreCurrent, DescriptorIsLatest

LEMMA CleanupKeeps == ASSUME DIInv, Rio500_EvtDeviceContextCleanup PROVE DIInv'
  BY DEF Rio500_EvtDeviceContextCleanup, DIInv, TypeOK, OneHandle, Counters, Fresh,
     PipesOfFirstStart, PipesAreCurrent, DescriptorIsLatest

LEMMA DNextIInv == DIInv /\ [Next]_vars => DIInv'
<1> SUFFICES ASSUME DIInv, [Next]_vars PROVE DIInv'
  OBVIOUS
<1>1. CASE UNCHANGED vars
  BY <1>1 DEF vars, DIInv, TypeOK, OneHandle, Counters, Fresh, NoPipes, PipesOfFirstStart,
     PipesAreCurrent, DescriptorIsLatest
<1> QED
  BY <1>1, AddKeeps, PrepareKeeps, StopKeeps, CleanupKeeps DEF Next

LEMMA DInvariance == Spec => []DIInv
  BY DInitIInv, DNextIInv, PTL DEF Spec

\* Every field keeps its type (DevicePnp!TypeOK).
THEOREM PnpTypeCorrect == Spec => []TypeOK
  BY DInvariance, PTL DEF DIInv

\* Whichever call fails, USBD_CloseHandle is called once for every handle that was created
\* (DevicePnp!UsbdHandleClosed).
THEOREM UsbdHandleClosedHolds == Spec => []UsbdHandleClosed
<1>1. DIInv => UsbdHandleClosed
  BY DEF DIInv, OneHandle, UsbdHandleClosed
<1> QED
  BY <1>1, DInvariance, PTL

\* However often it is started, a device has the descriptor of its last start
\* (DevicePnp!DescriptorIsLatest).
THEOREM DescriptorIsLatestHolds == Spec => []DescriptorIsLatest
  BY DInvariance, PTL DEF DIInv

\* Whatever settings and pipes a device has, the first start assigns its first two bulk
\* pipes (DevicePnp!PipesOfFirstStart).
THEOREM PipesOfFirstStartHolds == Spec => []PipesOfFirstStart
  BY DInvariance, PTL DEF DIInv

=============================================================================
