# Rio 500: specifications and proofs

The repository holds two programs. `driver/` is a Windows kernel driver (KMDF)
for the Rio 500 music player: it moves data over two USB bulk pipes and resets
them when they stall. `shellex/` is an in-process COM server that shows the
player as a folder in Explorer. This directory models both in TLA+, checks small
instances with TLC and proves theorems about them with TLAPS.

The models follow the code: an action is named after the function or the handler
it stands for, and `PROJECT.json` ("map") gives the lines of each definition.

## 1. Inventory

### driver/

| Component | State | Operations | What makes it correct |
|---|---|---|---|
| Bulk transfers (`bulkrwr.c`, `queue.c`) | per request: `REQUEST_CONTEXT` (what is left, bytes so far, address of the next stage), a partial MDL, an URB; the I/O target that owns it | `EvtIoRead`, `EvtIoWrite`, `EvtIoStop`, `ReadWriteBulkEndPoints`, `EvtReadWriteCompletion`, `QueuePassiveLevelCallback` | one owner at a time, completed once, MDL freed once, stages inside the buffer and disjoint, the true byte count |
| Resets (`queue.c`, `bulkrwr.c`) | state of the two pipe targets, stalls, queued work items | `EvtReadWriteWorkItem`, `ResetPipe`, `ResetDevice`, `StopAllPipes`, `StartAllPipes`, `EvtIoDeviceControl` | nothing stays stopped, no stall is forgotten, resetting threads never wait for each other in a circle, the port is reset only when quiet |
| Device (`device.c`) | `DEVICE_CONTEXT`: transfer limit, USBD handle, descriptor, pipes | `EvtDeviceAdd`, `EvtDevicePrepareHardware` and all it calls, cleanup | the two pipes are the interface's, the handle is closed once, the descriptor is the current one |
| `driver.c`, `notes.c`, `.inx`, `.rc`, projects | none | registration; notes compiled out | not modelled |

### shellex/

| Component | State | Operations | What makes it correct |
|---|---|---|---|
| Worker window (`WorkerWindow.cpp`, `DllMain`) | the globals `g_messageWindow`, `g_pRio`, `g_bRioConnected`; the window class; a message queue; a timer | `CreateWorkerWindow`, `WM_CREATE`, `WM_TIMER`, `WM_DEVICECHANGE`, `WM_FORMAT_DEVICE`, `DestroyWorkerWindow`, loading and unloading | one window, which goes with the DLL; the flag follows the device; a formatting dialog closes |
| COM objects and the module (`Dll.cpp` and every class) | a reference count per object, `g_cRefModule` | class factory, factories of each class, `AddRef`, `Release`, destructors, `LockServer`, `DllCanUnloadNow` | counts are exact; the code is not unloaded under an object |
| Folder contents (`RioShellEx.cpp`) | per enumerator: the collection, the array of entries, flags, position; item ids in clients' hands; whether the Rio is open | `EnumObjects`, `Initialize`, `Next`, `Skip`, `Reset`, `Release`, `CreateChildID`, `BindToObject`, `CompareIDs` | the Rio is closed again; a folder shows its own songs; each entry once and in order; an order that is an order |
| Commands and menus (`FVCommands.cpp`, `ContextMenu.cpp`) | per enumerator: table, position | `GetCommands`, `EnumSubCommands`, `Next`, `Skip`, `Reset`, `Release` | slots follow the table; a slot that was not written ends its call; reading ends |
| Registration (`Dll.cpp`) | registry keys and values | `DllRegisterServer`, `DllUnregisterServer` | Explorer is never led to a class that is not there; all or nothing; results are true |
| Icons, strings, resources (`IconProvider.cpp`, `Utils.cpp`) | none | look-ups and formatting | not modelled |

### Interactions

    application --read/write--> queue (parallel) --URB--> I/O target of a pipe --> USB stack
                                     ^                         |
                                     |   completion routine <--+
                                     |        | failure: work item
                                     |        v
                application --control--> ResetPipe / ResetDevice
                                           stop, cancel, reset port, start targets

    Explorer threads --DllGetClassObject--> CreateWorkerWindow --> hidden window
    PnP manager ------WM_DEVICECHANGE--------------------------------^
    dialog -----------WM_FORMAT_DEVICE-------------------------------^

The driver and the shell extension share nothing but the device (the extension
reaches it through the `IRio500` library, which is not in this repository).

### Hard behaviours

Requests run in parallel and so do all threads that reset; each reset is a
sequence of synchronous calls, and the completion routine runs between any two of
them. Stopping a target cancels what others have sent, and keeps back what is
sent afterwards. Every call may fail on its own. In Explorer, several threads use
the same unlocked globals, notifications race with polls, the Rio may be formatted
between two calls that read it, and a registration may end after any key. `PROJECT.json`
("hazards") lists these places one by one with the properties that cover them.

## 2. Modules

| Module | Models |
|---|---|
| `UsbTarget` | external: the framework's I/O targets and the USB stack, as `bulkrwr.c` and `queue.c` use them |
| `IoRequest` | abstract: what is promised for a read or write request |
| `BulkTransfer` | the staged transfers; extends `UsbTarget`, implements `IoRequest` |
| `Rio500Driver` | the transfers together with the threads that reset; extends and implements `BulkTransfer` |
| `DevicePnp` | a device's start, restart and removal |
| `WorkerWindow` | the worker window, its creators, the device, the dialogs, unloading |
| `DllLifetime` | all COM classes, their reference counts and unloading |
| `Enumeration` | abstract: what a COM enumerator promises |
| `FolderContents` | the name space: enumerators over the Rio, item ids, their order; implements `Enumeration` |
| `ExplorerCommands` | the commands above a folder; implements `Enumeration` |
| `Registration` | the two calls that register and remove the DLL, and the registry |
| `BulkTransferProof`, `Rio500DriverProof`, `DevicePnpProof`, `WorkerWindowProof`, `DllLifetimeProof`, `FolderContentsProof`, `ExplorerCommandsProof`, `RegistrationProof` | theorems and proofs |
| `MC...` | instances for TLC |

A definition whose comment begins with "Mutant of" is a plausible mistake in the
definition that follows it. Nothing refers to it; put in the place of the
definition it names, it breaks a property (`PROJECT.json`, "mutants"), which shows
that the property depends on what the code does.

### UsbTarget, BulkTransfer, IoRequest

A buffer is the set of its byte offsets; contents do not matter, which offsets
have been transferred does (`moved`). `ctx[r]` is the `REQUEST_CONTEXT` with its
fields' names, `Total` and `UrbLength` added to state properties. `mdls[r]` counts
the partial MDLs of a request, `completions[r]` the calls to `WdfRequestComplete`.
`StageLength` is the split into pieces of at most `GetMaxTransferSize()`.

Each handler is one action. This is sound because a handler works on state no
other thread has access to (its request) until its last call, which hands the
request over: `WdfRequestSend`, `WdfRequestComplete` or `WdfWorkItemEnqueue`
followed by the completion of that same request. The submission is `Reject` (any
of its exits with an error) or `SendFirstStage`; the completion routine is
`StageFails`, `LastStage`, `NextStage` or `NextStageFails`, the last with the
context before or after it was advanced. `Rio500_EvtIoStop` acknowledges a
suspended request, which changes nothing that is modelled, and cancels a purged
one, which may be sent on nevertheless or complete first.

What is assumed of the framework (`UsbTarget`): a started target passes a request
to the USB stack; a stopped one keeps it until it is started, the default for
`WdfRequestSend` without options; `WdfIoTargetStop` with
`WdfIoTargetCancelSentIo` cancels what is sent and returns once that has come
back; a cancelled request may still succeed, if it was faster; a stalled endpoint
fails what it has until it is reset; a request to reset the port is stuck until nothing
is pending in the USB stack, as the comment in `ResetDevice` says.

All exits of the submission with an error are one action, `Reject`: none of them has
handed the request over yet, so no other thread can tell them apart. The exits of the
later stages are told apart.

`IoRequest` has three variables. A request is accepted, transfers bytes and is
answered once; success reports how many bytes were transferred. `BulkTransfer`
implements it with the identity on `status`, `info` and `moved`: stages, targets,
work items and resets are invisible.

### Rio500Driver

A thread is a system worker that runs a work item, or the caller of a device
control. `pc[t]` names the framework call it is in or about to make:

| `pc` | in the code |
|---|---|
| `reset`, `reset_sent` | `ResetPipe`: `WdfUsbTargetPipeResetSynchronously`, kept back or sent |
| `stop`, `drain` | `StopAllPipes`: `WdfIoTargetStop` called, and waiting to return |
| `connected`, `port` | `ResetDevice`: `WdfUsbTargetDeviceIsConnectedSynchronous`, `...ResetPortSynchronously` |
| `start` | `StartAllPipes`: `WdfIoTargetStart` |
| `command` | `IOCTL_RIO500_RIO_COMMAND` |

The device controls are issued by applications, so at any time (`MaxIoctls` bounds
their number). A pipe reset is itself a request to the pipe's target: it is kept
back while the target is stopped and cancelled when another thread stops it; this
is the detail on which deadlock freedom depends. The port reset waits for what is pending
in the USB stack (`UsbIdle`): the transfers of both pipes, other threads' pipe resets and
commands. `Recalled` are pipe resets a stop has called back. `overlapped` and `gaveUp` are
history for the exceptions the properties name: threads whose `ResetDevice` met that
of another thread, and last resorts that have failed, a `WdfIoTargetStart`
(nothing tries it again) or the port reset that was to clear a stall.
`IOCTL_RIO500_GET_CONFIG_DESCRIPTOR` and file creation read the context only and are
left out; so is the MDL of `IOCTL_RIO500_RIO_COMMAND`, of which the driver does not look
whether it could be made or locked.

### DevicePnp

The framework serialises these callbacks, so each is one action. A device is the
sequence of its alternate settings, each the sequence of its pipes' types; the
device may refuse any of them. Pipe objects and descriptors are numbered in the
order of their creation, so that "the current one" can be said. The error exits of
`EvtDeviceAdd` and `PrepareHardware` are told apart by what they leave in the
context. Assumed: selecting a setting replaces the interface's pipe objects, and a
device whose callback failed is removed.

### WorkerWindow

`pc[t]` follows a thread through `CreateWorkerWindow` with one step for each access to a
global or to the system, because two threads may be in it. The window belongs to the
thread that created it; its thread dispatches messages when it has returned.
`WM_DEVICECHANGE` goes to windows that have subscribed. `missed`, `orphans` and
`elsewhere` are history for the exceptions the properties name. `RegisterClassEx` fails
when the name is taken, or for any other reason. `DllMain` may be called to detach on any
thread while none is in `DllGetClassObject` and no dialog is open, and the DLL may be
loaded again: globals start anew, the window class and a window that could not be
destroyed are still there. Assumed: `IRio500::Open` succeeds when the device is there; the
image is loaded again at the same address, so that a window that was left finds its
procedure. Left out: `g_lastRootPIDL`, through which the shell is told of changes, and the
references to Rio objects that `CreateWorkerWindow` loses (both are hazards no property
can be stated for).

### DllLifetime

One variable per thing that is counted. All classes are there; `Counted` are
those whose constructors call `DllAddRef`. A factory's `result` is 1 if its caller
gets the object and 0 if `QueryInterface` or something after `new` failed, so that
the factory's own `Release` was the last. The decrement in `Release` and the
destructor (`Delete`) are two steps, as other threads may run in between. The destructor is
one step: an object is gone when it begins, although that of an enumerator still runs
after it has released the folder and with it perhaps the module.
Assumed: COM unloads the DLL when `DllCanUnloadNow` says S_OK.

### FolderContents, Enumeration

A name is a number. The Rio is a sequence of folders with names and songs, as `IRio500`
gives it; `Format` is what the worker window may do to it at any time. `EnumObjects` and
`Initialize` open the Rio, get a collection, read its entries and close it; as Explorer
enumerates on several threads, these are separate steps, and `pc[e]` says where the
enumerator stands. What can fail is the collection, its count and each entry; an entry
that could not be read keeps what was in the memory (`Junk`). `Next` is one action: `Stop`
is the position at which its loop ends and `Between` are the entries it hands out, in the
order of their positions. The position is an int to which `Skip` adds a DWORD (`ToInt`),
so it may come to lie behind where it was or in front of the array; nothing tests it
against 0, and `Entry` then reads what is there (`InFront`). Where there is no memory the
process ends, and nothing happens afterwards. `wraps` is history: the Skips since the last
`Reset` that took the position round. A name of `LongNames` is one whose length does not
survive the byte it is kept in.

`Folders` are the folder objects clients may have: the root and those that
`BindToObject` makes of item ids handed out; `of` remembers the entry behind a
folder, for `ChildShowsItsFolder`. `CompareIDs` is an operator on id lists of at
most two ids, the depth of the name space.

`Enumeration` has three variables: the list an enumerator was created over, its
position, and what it has handed out in this pass. `FolderContents` maps the list
to the entries the caller's flags and the long names leave, so the junk, the
sessions and the Rio are invisible. From a Skip that takes the position round until
`Reset` it maps to an enumerator that has been released: nothing is promised then, and
the comment at `RioShellEx.cpp:1385-1387`, by which `Next` retrieves identifiers of the
enumeration sequence, is not kept. Left out: attributes, display names, columns
and icons (functions of an item id), `m_pidl` and memory running out (except where
a long name takes the same exit).

### ExplorerCommands

The two tables of commands are in the model as they are. An enumerator's `Next`
either makes all the commands it goes through or stops at one that could not be
made, which it has counted. `slots` are the places of the callers' arrays that
`Next` says it has filled. The position is a ULONG, and `Skip` adds to it before it
compares (`UlongSize`). It implements `Enumeration` with its table and position as
they are. Verbs, titles, states and message boxes are constant and left out.

### Registration

A key is the sequence of names that leads to it, so that `RegDeleteTree` removes the keys
with a prefix and `RegCreateKeyEx` makes those on the way. `rgRegEntries` is the table of
`DllRegisterServer`, one row per value. Every registry call is a step and may fail, a
deletion after it has removed part of the tree; `Crash` ends the process between any two.
Rows of `LostRows` are values `RegSetValueEx` may fail to write, at whose result nobody
looks; the properties except them by name. The property schema is left out: its result is
ignored too and no key depends on it.

## 3. Runs

`CHECK_DEADLOCK FALSE` where the system may really stop: every request answered and
no new one made, the device removed, the DLL unloaded, the bounds reached.
`registration` and `explorer_commands` never stop, and TLC checks that.

| Run | States | Shows |
|---|---|---|
| `bulk_transfers` | 219k | types, `OneOwner`, `ReleasedOnce`, `StageInBuffer`, `InfoIsBytesMoved`, `StagesAdvance`, refinement of `IoRequest` |
| `driver` | 100k | types, `StoppedHasStarter`, `StallHasReset`, `ResetPortQuiesced`, refinement of `BulkTransfer`, `ResettersFinish`, `ThreadsFinish`, `HeldIsReleased`, `StallRecovers`, `RequestsComplete` |
| `device_pnp` | 2k | types, `PipesOfFirstStart`, `UsbdHandleClosed`, `DescriptorIsLatest` |
| `worker_window` | 122k | types, `OneWindow`, `WindowGoesWithDll`, `RemovalIsNoticed`, `ArrivalIsNoticed`, `DialogCloses` |
| `dll_references` | 40k | types, `ModuleCountIsRight`, `ReferencesBalance` |
| `folder_contents` | 226k | `SessionsBalance`, `ChildShowsItsFolder`, `IdsOrderedByPath`, refinement of `Enumeration` |
| `registration` | 681k | `NameSpaceHasClass`, `RegisterAllOrNothing`, `UnregisterTellsTheTruth` |
| `explorer_commands` | 106k | `HoleEndsItsCall`, `ReadingEnds`, refinement of `Enumeration` |
| four runs that end in a violation | | the findings of section 5 |

### Bounds

- Stages are 2 bytes. Lengths 2, 5 and 6 under a limit of 5 give one exact stage,
  two exact stages and a shorter last one, and a request that is too long; three
  stages are the least that have one in the middle. The driver run uses 3 bytes:
  two stages, so that a reset can fall between them.
- Two requests in `bulk_transfers`: the code has no interaction of three, and two can
  be on the same pipe or on both. `driver` has one request, which may use either pipe,
  and two threads: two overlap in all ways two calls can. Work items are queued by
  failing requests. The theorems have no such bound.
- `MaxIoctls` 2: two resets that overlap without any failure, or two by one thread.
- `Faults`: in `driver` every call may fail. What nothing in the code makes good
  afterwards is named by `gaveUp`, and a property excludes only behaviours in which
  the failure it names has really happened.
- `MaxPlugs` 3: in, out and in again, or the reverse. `MaxRestarts` 2: a restart of
  what was already restarted.
- `dll_references`: four places on the heap hold a class factory, a folder and two
  objects made from it; places are reused, so behaviours are longer than four
  creations. Two client references are needed for a release that is not the last.
  The places are symmetric (the run has no liveness property).
- `folder_contents`: two enumerators, so one reads while another is read or the Rio is
  formatted; two folders, so a wrong index shows; two songs, one with a long name
  before one that fits; a name that is a folder's and a song's. `Celts` 1 and 2 stop
  `Next` in the middle and let it run past a long name. An int has six values
  (`IntLimit` 3): a Skip of 2 moves to the end from the start, past the end it goes round
  to -2 or -3, and from -2 back to the start. `MaxWraps` 1: one such Skip, of one of the
  two enumerators, between two Resets. What is in front of the array has names that do not
  fit, so that nothing is made of it there. `MaxLeaks` 1 is one session left open.
  `ByteSize` 2 holds sizes up to a folder of two; the wrap of `nSize` would only change the
  order by size. Counts of zero, other flags and longer listings are left to the theorem.
- `registration`: none; the sequence of calls is unbounded. `LostRows` is the row of
  the DLL's path, the value without which the registration is of no use.
- `explorer_commands`: the program's own tables; `UlongSize` 8 is more than a position
  and a count together, as `CommandsAssumption` says.

### Fairness

- `Rio500Driver!FairSpec`: queued work items are run, threads take the steps that need
  nothing of the device (`Unaided`), and the USB stack returns what it was asked to
  cancel. The first two are the operating system's scheduler; the third is part of the
  contract of a USB host controller driver. That a port reset returns is owed only while
  nothing is pending in the USB stack. Nothing the device must answer is assumed to be
  answered: there is no timeout in the driver, so a transfer, a pipe reset or a command
  may stay with the stack for ever. `ResettersFinish` is about this fairness only.
- `DeviceAnswers`: transfers that have been sent come back, pipe resets and commands
  return. It is the premise of `ThreadsFinish`, `StallRecovers` and `RequestsComplete`,
  and of `HeldIsReleased` when two resets of the device overlap. `CommandsReturn` is the
  part of it about commands, which nobody cancels.
- The bounds make requests and device controls finite. A liveness property says what
  becomes of those there are once no more are made; a port reset may wait as long as
  applications keep sending commands.
- Nobody is assumed to submit requests, to issue device controls or to reset
  anything unasked.
- `WorkerWindow!FairSpec`: threads inside `CreateWorkerWindow` go on, the window's
  thread dispatches posted messages and timer messages, and dialogs close when told
  to. Fairness of the messages is strong because the thread may be in
  `CreateWorkerWindow` in between: it returns to its message loop again and again,
  and the timer goes on. The device may do what it likes.
- `ExplorerCommands!FairSpec`: a client that reads an enumerator goes on as long as
  `Next` says S_OK. `ReadingEnds` excludes clients that reset for ever.

## 4. Proofs

TLAPS checks the theorems below for all values of the constants under these assumptions,
which TLC evaluates for the values of the runs: `PipesAssumption` (two pipes),
`TransferAssumption` (a stage length above zero, a limit in `Nat`, positive request
lengths: the queue's configuration leaves requests of length zero to the framework, which
completes them itself), `DriverAssumption`, `PnpAssumption` (a device has a setting),
`WindowAssumption`, `LifetimeAssumption` (finitely many places on the heap; `None` is
neither a place nor a class), `ContentsAssumption` (finitely many enumerators; the Rio
holds a sequence of folders, fewer than a WORD can number, and so do the folders songs;
memory that was not written reads as some `ITEMDATA`) and `CommandsAssumption` (nobody
skips so far that a ULONG wraps).

`BulkTransferProof`
- `TypeCorrect`, `OneOwnerHolds`, `ReleasedOnceHolds`, `StageInBufferHolds`,
  `InfoIsBytesMovedHolds`: `Spec` implies each invariant.
- `StagesAdvanceHolds`: the action property, from the same invariant.
- `PromiseKept`: `Spec` implies `IoRequest!Spec`.

`TypeOK` is inductive by itself (that `Length` never goes below zero is the lemma
`StageLengthBounds`). The other four are not. The inductive invariant `IInv` joins
`TypeOK`, `OneOwner` and `ReleasedOnce` with `Accounted`: a pending request's stage
lies behind everything transferred so far, stage and rest add up to the request,
and `Numxfer` is the number of bytes transferred. `OneOwner` makes sure that a
completion finds a pending request, without which it could free a second time;
`Accounted` that the bytes of a stage are new, without which counting them would
be wrong. The refinement is proved from the invariant: a stage maps to `Progress`,
the exits to `Succeed` or `Fail`, everything that concerns targets and work items to
stuttering.

`Rio500DriverProof`
- `ThreadsTypeCorrect`.
- `DriverImplementsTransfers`: every step of the driver is a step of `BulkTransfer`
  or leaves its variables alone; so all theorems above hold of the running driver,
  with any number of threads, and `DriverKeepsPromise` follows.
- `StoppedHasStarterHolds`: needs the strengthening `AtFirstPipe` (a thread that
  enters or leaves a loop over the pipes is at the first one), without which a
  thread could begin `StartAllPipes` in the middle.
- `StallHasResetHolds`: inductive given the types; every step that may stall a pipe
  queues a work item, and every step of a resetting thread hands its duty on.
- `ResetPortQuiescedHolds`: no transfer and no pipe reset is in the USB stack. By
  `QuietInv` and `AloneHasNoResets`. A thread in `ResetDevice` that has met no
  other is the only one there (`Apart`); what a stopped pipe still has in the USB
  stack is being cancelled (`SentIsCancelled`), so once it has come back nothing
  follows it; and such a thread has stopped and emptied all pipes before the one it
  is at (`AloneIsQuiet`). Transfers keep a stopped, empty pipe empty, because
  `WdfRequestSend` to a stopped target is kept back.
- `NoDeadlock`: unless starting a target has failed, the threads do not wait in a circle:
  whenever threads are at work, one of them does not wait, or the USB stack has a
  transfer, a pipe reset or a command to give back. `Waits` is the reset of a stopped
  pipe, a reset or a command that has been sent, `WdfIoTargetStop` until what it has
  cancelled is back, and the port reset until the USB stack is idle. A thread that waits
  for a stopped pipe has one that will start it (`StoppedHasStarter`).
- `LoneResetNotStuck`: what the USB stack has to give back may depend on the device; a
  `ResetDevice` that has met no other does not. Whenever it waits, the stack has something
  cancelled to give back, or a command is outstanding.
- `NoRequestLeftBehind`: a pending request is in the USB stack, or its target is stopped
  and a thread is going to start it, or starting has failed. Needs that only a
  stopped target keeps requests back (`HeldIsStopped`).

`DevicePnpProof`: `PnpTypeCorrect`, `UsbdHandleClosedHolds`, `DescriptorIsLatestHolds`,
`PipesOfFirstStartHolds`, for devices of any shape. The invariant `DIInv` adds that
there is at most one handle (`OneHandle`), that the numbers of pipe objects and
descriptors are those of the last ones made (`Counters`), and that before the first
start the two pipe fields are free (`Fresh`): without it a start could keep what it
finds.

`WorkerWindowProof`: `WindowTypeCorrect`, `OneWindowHolds`, `WindowGoesWithDllHolds`.
The invariant `WIInv`: between `RegisterClassEx` and the end of `CreateWorkerWindow`
there is one thread at most, and the class is registered while there is such a thread
or a window (`OneMaker`); the only window is the one that thread has made or
`g_messageWindow` names (`Made`), and only an unload elsewhere makes it nameless
(`Known`). The check of `g_messageWindow` is not used: the class keeps the window
single.

Three more theorems say what messages are on their way, by the invariant `Delivery`:
`NotificationsEndNow` (behind every notification that is out of date there is one that is
not), `RemovalIsDelivered` (a Rio that is gone and shown as connected has its removal in
a queue, unless it left before `RegisterDeviceNotification`) and `DialogIsAnswered` (a
dialog that waits has its message in the queue of a window, unless there was none). The
second needs the first, since `WM_DEVICECHANGE` sets the flag by the notification and not
by the device, and the first needs that a window that has not subscribed has been told
nothing (`OnlySubscribed`). `Appending` and `Dispatching` say what the two operations on
a queue do to what it contains. `WindowAssumption` keeps the dialogs apart from the two
device messages.

`DllLifetimeProof`: `LifetimeTypeCorrect`, `ModuleCountHolds`, `ReferencesBalanceHolds`.
The two counts are inductive only together with `Held`: what an enumerator or a menu holds
is an object of the right class that is still there. The lemma `Unheld` turns this round
(an object whose count is zero is held by nobody), so that a deletion disturbs no other
count.

`FolderContentsProof`: `SessionsBalanceHolds`; the lemmas `Begins` and `Ends` say what the
move of one enumeration does to the number of those that read. `IdsAreOrdered`: for
every column, `CompareIDs` is the same seen from either side and transitive, for all id
lists of one or two levels; the lemmas show it for one item (`FirstInOrder`) and for the
rest of a list (`RestInOrder`), and the theorem for the two in lexical order.

Three more theorems rest on the invariant `FData`, which says what an enumerator holds:
types; nothing before its entries were read (`Blank`); a collection that is the one the
Rio had at first (`Listed`, since a Rio that has been formatted has no folder to ask for);
entries that are those of the collection where they were written (`Entries`); item ids
made of the entries at their indices (`HandedOut`); and a folder object that was made of a
written entry is that of the folder of the Rio at its index (`KnownFolder`).
- `ChildShowsItsFolderHolds` follows from `Listed` and `KnownFolder`.
- `EntriesAreEnumerated`, the refinement of `Enumeration`, through Skips that take the
  position round: such a Skip maps to `Release` and the `Reset` after it to `Create`. Any
  other moves the position forward by its count (`SkipMoves`). The entries handed out by a
  call to `Next` are `Ascending` of a set of positions, so the proof needs of
  `Ascending` that it exists, is the only one of its kind, and of a set in two parts, one
  behind the other, is the one part followed by the other (`AscendingExists`,
  `OneAscending`, `AscendingInParts`). With it the lists before, between and after the two
  positions of a call make up the whole (`ListBetween`), and each step is one of the
  abstract enumerator (`CursorMoves`, `StepIsCursorStep`).
- `IdsOrderedByPathHolds`: keys have one, two or four parts, on which `Precedes` is a
  chain of inequalities (`ShortKeys`, by `NextPosition`), and so is `CompareIDs`.

`ExplorerCommandsProof`: `HoleEndsItsCallHolds`, and `CommandsAreEnumerated`, the
refinement of `Enumeration`. The invariant adds that the position is inside the table
(`InTable`), which with `CommandsAssumption` keeps `Skip` from wrapping round.
`NextComesNearerHolds` is the variant behind `ReadingEnds`: an answer of `S_OK` leaves
fewer commands ahead, and nothing but `Reset` leaves more.

`RegistrationProof`: `NameSpaceHasClassHolds`, `RegisterAllOrNothingHolds`,
`UnregisterTellsTheTruthHolds`, for any set of values that may be lost. The first name
of a key decides in which tree it is (`FirstNames`, from the table), so a deletion is
known by one name. The invariant `RIInv`: the loop has left all rows before the
present one in place (`Made`), and while keys are deleted, no deletion has failed
exactly when nothing is left in the trees done with; when the class is about to go
the NameSpace entry is gone (`Undone`).

The library's induction theorems cannot be instantiated with the installed provers.
Where a proof goes by induction over a number (the lemmas about `Ascending`), it takes
the least number for which the claim would fail (`Smallest`, `SmallestFrom`, from the
well-foundedness of `<` on `Nat`) and derives a contradiction.

Every safety property of the passing runs is stated by a theorem, the refinements
included. Only model-checked is liveness (`ResettersFinish`, `ThreadsFinish`,
`HeldIsReleased`, `StallRecovers`, `RequestsComplete`, `RemovalIsNoticed`,
`ArrivalIsNoticed`, `DialogCloses`, `ReadingEnds`), which with `ENABLED` and fairness is
out of this prover's reach. What these rest on apart from fairness is proved for most:
that somebody can go on (`NoDeadlock`, `LoneResetNotStuck`), that nothing is left with
nobody to move it (`NoRequestLeftBehind`, `StallHasReset`, `RemovalIsDelivered`,
`DialogIsAnswered`), and that there is an end to come to (`NextComesNearerHolds`). After
an arrival the flag rests on `NotificationsEndNow` and on `WM_TIMER`, which asks the
device.

## 5. Findings

Where the code does something else than its comments say, a run exhibits it:

- `bulk_short_stage`: a short stage in the middle does not end the transfer; the
  request succeeds with a hole in its buffer (`bulkrwr.c:305`).
- `driver_two_resetters`: two overlapping device resets: one opens the pipes just
  before the other resets the port (`queue.c:535`). If the device has fallen silent, that
  reset then waits for ever; `ResettersFinish` names the exception.
- `pnp_rebalance`: after a restart the pipes of the first start are still used
  (`device.c:631`).
- `dll_unload`: the DLL may be unloaded while a client holds one of the four
  classes that do not count (`FVCommands.h:177`).

## 6. Plan

What is left, in this order:

1. *Composition.* The command enumerators of `ExplorerCommands` are objects of
   `DllLifetime`: one specification of both, in which an enumerator that is read keeps
   the command it was asked of.

## 7. Not modelled

- `driver.c` (one call), `notes.c` (compiled only under `_JUST_NOTES`), installation
  files, icons, strings and resources (no state).
- The `IRio500` library, the registry, the framework and the USB stack are outside the
  repository; they are modelled as far as the code uses them and marked external.
- Of `RioShellEx.cpp`: attributes, display names, columns, icons and the view's
  callbacks, which compute something from an item id and keep nothing. `m_pidl` and
  `g_lastRootPIDL`: threads exchange and free them without a lock, and nothing in the
  code or its comments says what would be right.
- Of the menus: the table of verbs, titles, states and message boxes, which are
  constant.
- Which request gets which bytes when two reads are staged on one pipe in parallel: the
  code promises nothing about it.
- The property schema that `DllRegisterServer` registers.
