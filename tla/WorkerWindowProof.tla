-------------------------- MODULE WorkerWindowProof --------------------------
(***************************************************************************)
(* Proofs about WorkerWindow: for any number of threads and dialogs, and   *)
(* whatever fails, there is one worker window at most, and it goes with    *)
(* the DLL unless that is unloaded on another thread.                      *)
(***************************************************************************)
EXTENDS WorkerWindow, FiniteSetTheorems, SequenceTheorems, TLAPS

\* What a thread that has registered the class is doing with it.
Making(t) == pc[t] \in {"window", "publish", "subscribe"}

(***************************************************************************)
(* The inductive invariant.  OneMaker is what the registration of the      *)
(* class achieves, and Made what the maker of the window can rely on;      *)
(* Known says that only an unload elsewhere makes a window nameless.       *)
(***************************************************************************)
OneMaker ==
  /\ windows # {} \/ (\E t \in Threads : Making(t)) => registered
  /\ \A t, u \in Threads : Making(t) /\ Making(u) => t = u

Made ==
  /\ \A t \in Threads :
       /\ pc[t] = "window" => windows = {}
       /\ pc[t] \in {"publish", "subscribe"} => windows = {t}
  /\ windows = {} \/ \E w \in Threads : windows = {w}
  /\ g_messageWindow # None => windows = {g_messageWindow}

Known ==
  /\ windows # {} /\ g_messageWindow = None =>
       elsewhere \/ \E t \in Threads : pc[t] = "publish"
  /\ ~Loaded => g_messageWindow = None /\ \A t \in Threads : Idle(t)

WIInv == TypeOK /\ OneMaker /\ Made /\ Known

LEMMA WInitIInv == Init => WIInv
<1> SUFFICES ASSUME Init PROVE WIInv
  OBVIOUS
<1>1. messages \in [Threads -> Seq(Dialogs \cup {"arrived", "removed"})]
  <2>1. <<>> \in Seq(Dialogs \cup {"arrived", "removed"})
    BY EmptySeq
  <2> QED
    BY <2>1 DEF Init
<1>2. TypeOK
  <2>1. plugged \in BOOLEAN
    BY Zenon DEF Init
  <2>2. plugs \in 0 .. MaxPlugs
    BY WindowAssumption DEF Init
  <2>3. /\ g_bRioConnected \in BOOLEAN /\ registered \in BOOLEAN
        /\ missed \in BOOLEAN /\ elsewhere \in BOOLEAN
    BY DEF Init
  <2>4. /\ {detached, g_messageWindow, g_pRio} \subseteq Threads \cup {None}
        /\ subscribed \subseteq windows /\ windows \subseteq Threads
        /\ orphans \subseteq Dialogs
    BY DEF Init
  <2>5. /\ pc \in [Threads -> {"outside", "cocreate", "register", "window", "publish",
                             "subscribe", "returned", "failed"}]
        /\ dialog \in [Dialogs -> {"closed", "open", "done", "shut"}]
    BY DEF Init
  <2> QED
    BY <1>1, <2>1, <2>2, <2>3, <2>4, <2>5, Zenon DEF TypeOK
<1>3. OneMaker /\ Made /\ Known
  BY WindowAssumption DEF Init, OneMaker, Made, Known, Making, Loaded, Idle
<1> QED
  BY <1>2, <1>3 DEF WIInv

\* Steps that leave the windows and those who make them alone.
WindowsAlone ==
  /\ UNCHANGED <<windows, g_messageWindow, registered, pc, elsewhere, detached>>

LEMMA AloneKeeps == ASSUME WIInv, WindowsAlone PROVE OneMaker' /\ Made' /\ Known'
  BY DEF WIInv, WindowsAlone, OneMaker, Made, Known, Making, Loaded, Idle

LEMMA PollType == ASSUME TypeOK, PollForDevice PROVE g_bRioConnected' \in BOOLEAN
  BY DEF TypeOK, PollForDevice, UpdateConnectedness

LEMMA CreateType ==
  ASSUME TypeOK, Made, NEW t \in Threads,
         CClassFactory_CreateInstance(t) \/ CreateWorkerWindow(t)
  PROVE  TypeOK'
<1> USE DEF TypeOK, Goto
<1>1. CASE CClassFactory_CreateInstance(t)
  BY <1>1 DEF CClassFactory_CreateInstance, globals
<1>2. CASE CoCreateRio(t)
  BY <1>2 DEF CoCreateRio
<1>3. CASE RegisterWindowClass(t)
  BY <1>3 DEF RegisterWindowClass
<1>4. CASE CreateMessageWindow(t)
  BY <1>4, PollType DEF CreateMessageWindow
<1>5. CASE PublishWindow(t)
  BY <1>5 DEF PublishWindow
<1>6. CASE RegisterForNotifications(t)
  BY <1>6 DEF RegisterForNotifications, globals, Made
<1> QED
  BY <1>1, <1>2, <1>3, <1>4, <1>5, <1>6 DEF CreateWorkerWindow

LEMMA DispatchType ==
  ASSUME TypeOK, NEW w \in Threads,
         WM_TIMER(w) \/ WM_DEVICECHANGE(w) \/ WM_FORMAT_DEVICE(w)
  PROVE  TypeOK'
<1> USE DEF TypeOK, Dispatches, Dispatch, Dispatched
<1>1. CASE WM_TIMER(w)
  BY <1>1, PollType DEF WM_TIMER
<1>2. ASSUME Dispatched(w), Dispatch(w)
      PROVE  messages' \in [Threads -> Seq(Dialogs \cup {"arrived", "removed"})]
  BY <1>2
<1>3. CASE WM_DEVICECHANGE(w)
  BY <1>2, <1>3 DEF WM_DEVICECHANGE, UpdateConnectedness
<1>4. CASE WM_FORMAT_DEVICE(w)
  BY <1>2, <1>4 DEF WM_FORMAT_DEVICE, globals
<1> QED
  BY <1>1, <1>3, <1>4

LEMMA OutsideType ==
  ASSUME TypeOK,
         \/ PlugOrUnplug
         \/ \E d \in Dialogs : OpenDialog(d) \/ CloseDialog(d)
  PROVE  TypeOK'
<1> USE DEF TypeOK
<1>1. CASE PlugOrUnplug
  BY <1>1, WindowAssumption DEF PlugOrUnplug, globals
<1>2. ASSUME NEW d \in Dialogs, OpenDialog(d) PROVE TypeOK'
  <2>1. messages' \in [Threads -> Seq(Dialogs \cup {"arrived", "removed"})]
    <3>1. ASSUME g_messageWindow \in Threads
          PROVE  Append(messages[g_messageWindow], d)
                   \in Seq(Dialogs \cup {"arrived", "removed"})
      BY <3>1, AppendProperties
    <3> QED
      BY <1>2, <3>1 DEF OpenDialog, Post
  <2> QED
    BY <1>2, <2>1 DEF OpenDialog, globals
<1>3. ASSUME NEW d \in Dialogs, CloseDialog(d) PROVE TypeOK'
  BY <1>3 DEF CloseDialog, globals
<1> QED
  BY <1>1, <1>2, <1>3

LEMMA ModuleType ==
  ASSUME TypeOK,
         DllMain_ProcessAttach \/ \E t \in Threads : DllMain_ProcessDetach(t)
  PROVE  TypeOK'
<1> USE DEF TypeOK
<1>1. CASE DllMain_ProcessAttach
  BY <1>1 DEF DllMain_ProcessAttach, globals
<1>2. ASSUME NEW t \in Threads, DllMain_ProcessDetach(t) PROVE TypeOK'
  <2>1. <<>> \in Seq(Dialogs \cup {"arrived", "removed"})
    BY EmptySeq
  <2>2. /\ messages' \in [Threads -> Seq(Dialogs \cup {"arrived", "removed"})]
        /\ subscribed' \subseteq windows' /\ windows' \subseteq Threads
    BY <1>2, <2>1, ZenonT(60) DEF DllMain_ProcessDetach, DestroyWorkerWindow
  <2>3. elsewhere' \in BOOLEAN
    BY <1>2 DEF DllMain_ProcessDetach
  <2> QED
    BY <1>2, <2>2, <2>3 DEF DllMain_ProcessDetach
<1> QED
  BY <1>1, <1>2

\* A thread in CreateWorkerWindow, or on its way there.
LEMMA CreateKeeps ==
  ASSUME WIInv, NEW t \in Threads,
         CClassFactory_CreateInstance(t) \/ CreateWorkerWindow(t)
  PROVE  OneMaker' /\ Made' /\ Known'
<1> USE DEF WIInv, TypeOK, OneMaker, Made, Known, Making, Loaded, Idle, Goto
<1>1. CASE CClassFactory_CreateInstance(t)
  BY <1>1 DEF CClassFactory_CreateInstance, globals
<1>2. CASE CoCreateRio(t)
  BY <1>2 DEF CoCreateRio
<1>3. CASE RegisterWindowClass(t)
  <2>1. CASE ~registered /\ Goto(t, "window")
    <3>1. windows = {} /\ g_messageWindow = None /\ \A u \in Threads : ~Making(u)
      BY <1>3, <2>1
    <3> QED
      BY <1>3, <2>1, <3>1 DEF RegisterWindowClass
  <2>2. CASE Goto(t, "failed")
    BY <1>3, <2>2 DEF RegisterWindowClass
  <2> QED
    BY <1>3, <2>1, <2>2 DEF RegisterWindowClass
<1>4. CASE CreateMessageWindow(t)
  <2>1. CASE windows' = windows \cup {t} /\ Goto(t, "publish")
    <3>1. windows' = {t} /\ g_messageWindow = None
      BY <1>4, <2>1 DEF CreateMessageWindow
    <3> QED
      BY <1>4, <2>1, <3>1 DEF CreateMessageWindow
  <2>2. CASE UNCHANGED windows /\ Goto(t, "failed")
    BY <1>4, <2>2 DEF CreateMessageWindow
  <2> QED
    BY <1>4, <2>1, <2>2 DEF CreateMessageWindow
<1>5. CASE PublishWindow(t)
  BY <1>5, WindowAssumption, ZenonT(60) DEF PublishWindow
<1>6. CASE RegisterForNotifications(t)
  BY <1>6 DEF RegisterForNotifications, globals
<1> QED
  BY <1>1, <1>2, <1>3, <1>4, <1>5, <1>6 DEF CreateWorkerWindow

LEMMA ModuleKeeps ==
  ASSUME WIInv,
         DllMain_ProcessAttach \/ \E t \in Threads : DllMain_ProcessDetach(t)
  PROVE  OneMaker' /\ Made' /\ Known'
<1> USE DEF WIInv, TypeOK, OneMaker, Made, Known, Making, Loaded, Idle
<1>1. CASE DllMain_ProcessAttach
  BY <1>1 DEF DllMain_ProcessAttach, globals
<1>2. ASSUME NEW t \in Threads, DllMain_ProcessDetach(t)
      PROVE  OneMaker' /\ Made' /\ Known'
  BY <1>2, WindowAssumption DEF DllMain_ProcessDetach, DestroyWorkerWindow
<1> QED
  BY <1>1, <1>2

LEMMA WNextIInv == WIInv /\ [Next]_vars => WIInv'
<1> SUFFICES ASSUME WIInv, [Next]_vars PROVE WIInv'
  OBVIOUS
<1>0. TypeOK /\ Made
  BY DEF WIInv
<1>1. ASSUME NEW t \in Threads, CClassFactory_CreateInstance(t) \/ CreateWorkerWindow(t)
      PROVE  WIInv'
  BY <1>0, <1>1, CreateType, CreateKeeps DEF WIInv
<1>2. CASE DllMain_ProcessAttach \/ \E t \in Threads : DllMain_ProcessDetach(t)
  BY <1>0, <1>2, ModuleType, ModuleKeeps DEF WIInv
<1>3. ASSUME NEW w \in Threads, WM_TIMER(w) \/ WM_DEVICECHANGE(w) \/ WM_FORMAT_DEVICE(w)
      PROVE  WIInv'
  <2>1. WindowsAlone
    BY <1>3 DEF WindowsAlone, WM_TIMER, WM_DEVICECHANGE, WM_FORMAT_DEVICE, globals
  <2> QED
    BY <1>0, <1>3, <2>1, DispatchType, AloneKeeps DEF WIInv
<1>4. CASE PlugOrUnplug \/ \E d \in Dialogs : OpenDialog(d) \/ CloseDialog(d)
  <2>1. WindowsAlone
    BY <1>4 DEF WindowsAlone, PlugOrUnplug, OpenDialog, CloseDialog, globals
  <2> QED
    BY <1>0, <1>4, <2>1, OutsideType, AloneKeeps DEF WIInv
<1>5. CASE UNCHANGED vars
  BY <1>5 DEF vars, globals, WIInv, TypeOK, OneMaker, Made, Known, Making, Loaded, Idle
<1> QED
  BY <1>1, <1>2, <1>3, <1>4, <1>5 DEF Next

LEMMA WInvariance == Spec => []WIInv
  BY WInitIInv, WNextIInv, PTL DEF Spec

\* Every variable of the worker window keeps its type (WorkerWindow!TypeOK).
THEOREM WindowTypeCorrect == Spec => []TypeOK
  BY WInvariance, PTL DEF WIInv

\* However many threads find g_messageWindow NULL at once, RegisterClassEx lets one of
\* them make a window (WorkerWindow!OneWindow).
THEOREM OneWindowHolds == Spec => []OneWindow
<1>1. WIInv => OneWindow
  <2> SUFFICES ASSUME WIInv PROVE OneWindow
    OBVIOUS
  <2>1. CASE windows = {}
    BY <2>1, FS_EmptySet DEF WIInv, Made, OneWindow
  <2>2. ASSUME NEW w \in Threads, windows = {w}
        PROVE  Cardinality(windows) = 1
    BY <2>2, FS_Singleton
  <2> QED
    BY <2>1, <2>2 DEF WIInv, Made, OneWindow
<1> QED
  BY <1>1, WInvariance, PTL

\* DestroyWorkerWindow knows of every window that was made since the DLL was loaded,
\* on all error paths of CreateWorkerWindow (WorkerWindow!WindowGoesWithDll).
THEOREM WindowGoesWithDllHolds == Spec => []WindowGoesWithDll
<1>1. WIInv => WindowGoesWithDll
  BY DEF WIInv, Known, Idle, WindowGoesWithDll
<1> QED
  BY <1>1, WInvariance, PTL

-----------------------------------------------------------------------------
(* Messages.  What is left of liveness when fairness is taken away: the    *)
(* message that will put things right is in the queue of a window.         *)

DeviceMessages == {"arrived", "removed"}
Messages == Dialogs \cup DeviceMessages

Contains(queue, m) == \E i \in DOMAIN queue : queue[i] = m
NoDevice(queue) == \A i \in DOMAIN queue : queue[i] \notin DeviceMessages

\* What the queue says of the device is now, or something behind it is.
Current(queue, now) ==
  \A i \in DOMAIN queue : queue[i] \in DeviceMessages \ {now} =>
    \E j \in DOMAIN queue : i < j /\ queue[j] = now

Now == IF plugged THEN "arrived" ELSE "removed"

\* The last that any window hears of the device is how it stands.
QueuesEndNow == \A w \in Threads : Current(messages[w], Now)

OnlySubscribed == \A w \in Threads \ subscribed : NoDevice(messages[w])

\* A Rio that is gone and still shown as connected: its removal is in a window's queue.
RemovalIsOnItsWay ==
  g_bRioConnected /\ ~plugged => missed \/ \E w \in windows : Contains(messages[w], "removed")

\* A dialog that waits: its message is in a window's queue.
OpenDialogHasMessage ==
  \A d \in Dialogs :
    dialog[d] = "open" => d \in orphans \/ \E w \in windows : Contains(messages[w], d)

Delivery == QueuesEndNow /\ OnlySubscribed /\ RemovalIsOnItsWay /\ OpenDialogHasMessage

LEMMA Appending ==
  ASSUME NEW queue \in Seq(Messages), NEW m \in Messages
  PROVE  /\ Contains(Append(queue, m), m)
         /\ \A n : Contains(queue, n) => Contains(Append(queue, m), n)
         /\ NoDevice(queue) /\ m \in Dialogs => NoDevice(Append(queue, m))
         /\ \A now : Current(queue, now) /\ m \in Dialogs => Current(Append(queue, m), now)
         /\ m \in DeviceMessages => Current(Append(queue, m), m)
<1> DEFINE longer == Append(queue, m)
<1>1. /\ Len(queue) \in Nat /\ DOMAIN queue = 1 .. Len(queue)
      /\ DOMAIN longer = 1 .. Len(queue) + 1
      /\ longer[Len(queue) + 1] = m
      /\ \A i \in 1 .. Len(queue) : longer[i] = queue[i]
  BY AppendProperties
<1>2. m \in Dialogs => m \notin DeviceMessages
  BY WindowAssumption DEF DeviceMessages
<1>3. \A i \in 1 .. Len(queue) + 1 : i \in 1 .. Len(queue) \/ i = Len(queue) + 1
  BY <1>1
<1>4. Len(queue) + 1 \in 1 .. Len(queue) + 1 /\ 1 .. Len(queue) \subseteq 1 .. Len(queue) + 1
  BY <1>1
<1> HIDE DEF longer
<1>5. /\ Contains(longer, m)
      /\ \A n : Contains(queue, n) => Contains(longer, n)
      /\ NoDevice(queue) /\ m \in Dialogs => NoDevice(longer)
  BY <1>1, <1>2, <1>3, <1>4 DEF Contains, NoDevice
<1>6. ASSUME NEW now, Current(queue, now), m \in Dialogs PROVE Current(longer, now)
  BY <1>1, <1>2, <1>3, <1>4, <1>6 DEF Current
<1>7. m \in DeviceMessages => Current(longer, m)
  <2>1. \A i \in 1 .. Len(queue) : i < Len(queue) + 1
    BY <1>1
  <2> QED
    BY <1>1, <1>3, <1>4, <2>1 DEF Current
<1> QED
  BY <1>5, <1>6, <1>7 DEF longer

LEMMA Dispatching ==
  ASSUME NEW queue \in Seq(Messages), queue # <<>>
  PROVE  /\ \A m : Contains(queue, m) /\ m # Head(queue) => Contains(Tail(queue), m)
         /\ NoDevice(queue) => NoDevice(Tail(queue))
         /\ \A now : Current(queue, now) =>
              /\ Current(Tail(queue), now)
              /\ Head(queue) \in DeviceMessages \ {now} => Contains(Tail(queue), now)
<1> DEFINE rest == Tail(queue)
<1>1. /\ Len(queue) \in Nat \ {0} /\ DOMAIN queue = 1 .. Len(queue)
      /\ DOMAIN rest = 1 .. Len(queue) - 1
      /\ \A i \in 1 .. Len(queue) - 1 : rest[i] = queue[i + 1]
      /\ Head(queue) = queue[1]
  BY HeadTailProperties, EmptySeq
<1>2. \A i \in 1 .. Len(queue) : i = 1 \/ i - 1 \in 1 .. Len(queue) - 1
  BY <1>1
<1>3. 1 \in 1 .. Len(queue) /\ \A i \in 1 .. Len(queue) - 1 : i + 1 \in 1 .. Len(queue)
  BY <1>1
<1>4. \A j \in 1 .. Len(queue) : j # 1 => j - 1 \in DOMAIN rest /\ rest[j - 1] = queue[j]
  BY <1>1, <1>2
<1> HIDE DEF rest
<1>5. /\ \A m : Contains(queue, m) /\ m # Head(queue) => Contains(rest, m)
      /\ NoDevice(queue) => NoDevice(rest)
  BY <1>1, <1>3, <1>4 DEF Contains, NoDevice
<1>6. ASSUME NEW now, Current(queue, now)
      PROVE  /\ Current(rest, now)
             /\ Head(queue) \in DeviceMessages \ {now} => Contains(rest, now)
  <2>1. ASSUME NEW i \in DOMAIN rest, rest[i] \in DeviceMessages \ {now}
        PROVE  \E j \in DOMAIN rest : i < j /\ rest[j] = now
    <3>1. PICK j \in DOMAIN queue : i + 1 < j /\ queue[j] = now
      BY <1>1, <1>3, <1>6, <2>1 DEF Current
    <3>2. j # 1 /\ i < j - 1
      BY <1>1, <2>1, <3>1
    <3> QED
      BY <1>1, <1>4, <3>1, <3>2
  <2>2. ASSUME Head(queue) \in DeviceMessages \ {now} PROVE Contains(rest, now)
    <3>1. PICK j \in DOMAIN queue : 1 < j /\ queue[j] = now
      BY <1>1, <1>3, <1>6, <2>2 DEF Current
    <3> QED
      BY <1>1, <1>4, <3>1 DEF Contains
  <2> QED
    BY <2>1, <2>2 DEF Current
<1> QED
  BY <1>5, <1>6 DEF rest

\* A queue in which nothing is said of the device is current.
LEMMA SilenceIsCurrent == ASSUME NEW queue, NEW now, NoDevice(queue) PROVE Current(queue, now)
  BY DEF NoDevice, Current

LEMMA QueueTypes ==
  ASSUME TypeOK PROVE messages \in [Threads -> Seq(Messages)] /\ subscribed \subseteq windows
  BY DEF TypeOK, Messages, DeviceMessages

LEMMA InitDelivers == Init => Delivery
<1> SUFFICES ASSUME Init PROVE Delivery
  OBVIOUS
<1>1. \A w \in Threads : NoDevice(messages[w])
  BY DEF Init, NoDevice
<1>2. QueuesEndNow /\ OnlySubscribed
  BY <1>1, SilenceIsCurrent DEF QueuesEndNow, OnlySubscribed
<1>3. RemovalIsOnItsWay /\ OpenDialogHasMessage
  BY DEF Init, RemovalIsOnItsWay, OpenDialogHasMessage
<1> QED
  BY <1>2, <1>3 DEF Delivery

\* Steps that say nothing to any window.
LEMMA SilentDelivers ==
  ASSUME Delivery, UNCHANGED <<messages, plugged, orphans>>, windows \subseteq windows',
         subscribed \subseteq subscribed', missed' = missed,
         \A d \in Dialogs : dialog'[d] = "open" => dialog[d] = "open",
         g_bRioConnected' /\ ~plugged => g_bRioConnected
  PROVE  Delivery'
<1>1. QueuesEndNow' /\ OnlySubscribed'
  BY DEF Delivery, QueuesEndNow, OnlySubscribed, Now
<1>2. RemovalIsOnItsWay'
  BY DEF Delivery, RemovalIsOnItsWay
<1>3. OpenDialogHasMessage'
  BY DEF Delivery, OpenDialogHasMessage
<1> QED
  BY <1>1, <1>2, <1>3 DEF Delivery

\* A poll finds only what is there.
LEMMA PollFinds == ASSUME PollForDevice PROVE g_bRioConnected' /\ ~plugged => g_bRioConnected
  BY DEF PollForDevice, UpdateConnectedness

LEMMA CreateDelivers ==
  ASSUME Delivery, NEW t \in Threads,
         CClassFactory_CreateInstance(t) \/ CreateWorkerWindow(t)
  PROVE  Delivery'
<1>1. /\ UNCHANGED <<messages, plugged, orphans, missed, dialog>>
      /\ windows \subseteq windows' /\ subscribed \subseteq subscribed'
  BY DEF CClassFactory_CreateInstance, CreateWorkerWindow, CoCreateRio, RegisterWindowClass,
         CreateMessageWindow, PublishWindow, RegisterForNotifications, globals
<1>2. g_bRioConnected' /\ ~plugged => g_bRioConnected
  <2>1. CASE CreateMessageWindow(t)
    BY <2>1, PollFinds DEF CreateMessageWindow
  <2>2. CASE ~CreateMessageWindow(t)
    BY <2>2 DEF CClassFactory_CreateInstance, CreateWorkerWindow, CoCreateRio,
       RegisterWindowClass, PublishWindow, RegisterForNotifications, globals
  <2> QED
    BY <2>1, <2>2
<1> QED
  BY <1>1, <1>2, SilentDelivers

\* A window takes a message off its queue.
LEMMA DispatchDelivers ==
  ASSUME TypeOK, Delivery, NEW w \in Threads, WM_DEVICECHANGE(w) \/ WM_FORMAT_DEVICE(w)
  PROVE  Delivery'
<1> DEFINE head == Head(messages[w])
<1>0. /\ messages \in [Threads -> Seq(Messages)] /\ messages[w] \in Seq(Messages)
      /\ messages[w] # <<>> /\ w \in windows
      /\ messages' = [messages EXCEPT ![w] = Tail(@)]
      /\ UNCHANGED <<plugged, subscribed, windows, missed, orphans>>
  BY QueueTypes DEF WM_DEVICECHANGE, WM_FORMAT_DEVICE, Dispatch, Dispatches, Dispatched,
                    globals
<1>1. /\ messages'[w] = Tail(messages[w])
      /\ \A v \in Threads \ {w} : messages'[v] = messages[v]
  BY <1>0
<1>2. /\ \A m : Contains(messages[w], m) /\ m # head => Contains(messages'[w], m)
      /\ NoDevice(messages[w]) => NoDevice(messages'[w])
      /\ \A now : Current(messages[w], now) =>
           /\ Current(messages'[w], now)
           /\ head \in DeviceMessages \ {now} => Contains(messages'[w], now)
  BY <1>0, <1>1, Dispatching
<1> HIDE DEF head
<1>3. QueuesEndNow' /\ OnlySubscribed'
  <2>1. Now' = Now
    BY <1>0 DEF Now
  <2> QED
    BY <1>0, <1>1, <1>2, <2>1 DEF Delivery, QueuesEndNow, OnlySubscribed
<1>4. RemovalIsOnItsWay'
  <2>1. SUFFICES ASSUME g_bRioConnected', ~plugged, ~missed
                 PROVE  \E v \in windows : Contains(messages'[v], "removed")
    BY <1>0 DEF RemovalIsOnItsWay
  <2>2. CASE WM_DEVICECHANGE(w)
    <3>1. head = "arrived"
      BY <2>1, <2>2 DEF WM_DEVICECHANGE, UpdateConnectedness, head
    <3>2. Current(messages[w], "removed")
      BY <2>1 DEF Delivery, QueuesEndNow, Now
    <3>3. Contains(messages'[w], "removed")
      BY <1>2, <3>1, <3>2 DEF DeviceMessages
    <3> QED
      BY <1>0, <3>3
  <2>3. CASE WM_FORMAT_DEVICE(w)
    <3>1. head # "removed" /\ g_bRioConnected
      BY <2>1, <2>3, WindowAssumption DEF WM_FORMAT_DEVICE, globals, head
    <3>2. PICK v \in windows : Contains(messages[v], "removed")
      BY <2>1, <3>1 DEF Delivery, RemovalIsOnItsWay
    <3>3. v \in Threads
      BY DEF TypeOK
    <3> QED
      BY <1>1, <1>2, <3>1, <3>2, <3>3
  <2> QED
    BY <2>2, <2>3
<1>5. OpenDialogHasMessage'
  <2>1. SUFFICES ASSUME NEW d \in Dialogs, dialog'[d] = "open", d \notin orphans
                 PROVE  \E v \in windows : Contains(messages'[v], d)
    BY <1>0 DEF OpenDialogHasMessage
  <2>2. d # head /\ dialog[d] = "open"
    <3>1. CASE WM_DEVICECHANGE(w)
      BY <2>1, <3>1, WindowAssumption DEF WM_DEVICECHANGE, head
    <3>2. CASE WM_FORMAT_DEVICE(w)
      <4>1. /\ dialog' = [dialog EXCEPT ![head] = "done"]
            /\ dialog \in [Dialogs -> {"closed", "open", "done", "shut"}]
        BY <3>2 DEF WM_FORMAT_DEVICE, TypeOK, head
      <4> QED
        BY <2>1, <4>1
    <3> QED
      BY <3>1, <3>2
  <2>3. PICK v \in windows : Contains(messages[v], d)
    BY <2>1, <2>2 DEF Delivery, OpenDialogHasMessage
  <2>4. v \in Threads
    BY DEF TypeOK
  <2> QED
    BY <1>1, <1>2, <2>2, <2>3, <2>4
<1> QED
  BY <1>3, <1>4, <1>5 DEF Delivery

\* The device comes or goes, and every window that has subscribed is told.
LEMMA PlugDelivers == ASSUME TypeOK, Delivery, PlugOrUnplug PROVE Delivery'
<1> DEFINE news == IF plugged THEN "removed" ELSE "arrived"
<1>0. /\ messages \in [Threads -> Seq(Messages)] /\ subscribed \subseteq windows
      /\ windows \subseteq Threads /\ news \in Messages /\ news \in DeviceMessages
  BY QueueTypes DEF TypeOK, Messages, DeviceMessages
<1>1. /\ Now' = news
      /\ UNCHANGED <<subscribed, windows, dialog, orphans, g_bRioConnected>>
      /\ plugged' = ~plugged
      /\ missed' = (missed \/ (plugged /\ g_bRioConnected /\ subscribed = {}))
  BY DEF PlugOrUnplug, Now, globals
<1>2. \A w \in Threads : messages'[w] = IF w \in subscribed THEN Append(messages[w], news)
                                                            ELSE messages[w]
  BY DEF PlugOrUnplug
<1> HIDE DEF news
<1>3. \A w \in Threads : /\ \A m : Contains(messages[w], m) => Contains(messages'[w], m)
                         /\ w \in subscribed => Contains(messages'[w], news)
                         /\ w \in subscribed => Current(messages'[w], news)
  BY <1>0, <1>2, Appending
<1>4. OnlySubscribed'
  BY <1>1, <1>2 DEF Delivery, OnlySubscribed
<1>5. QueuesEndNow'
  BY <1>1, <1>2, <1>3, SilenceIsCurrent DEF Delivery, QueuesEndNow, OnlySubscribed
<1>6. RemovalIsOnItsWay'
  <2>1. SUFFICES ASSUME g_bRioConnected, plugged, ~missed'
                 PROVE  \E w \in windows : Contains(messages'[w], "removed")
    BY <1>1 DEF RemovalIsOnItsWay
  <2>2. PICK w : w \in subscribed
    BY <1>1, <2>1
  <2>3. news = "removed"
    BY <2>1 DEF news
  <2> QED
    BY <1>0, <1>3, <2>2, <2>3
<1>7. OpenDialogHasMessage'
  BY <1>0, <1>1, <1>3 DEF Delivery, OpenDialogHasMessage
<1> QED
  BY <1>4, <1>5, <1>6, <1>7 DEF Delivery

\* A dialog opens and posts its message to the window there is.
LEMMA OpenDelivers ==
  ASSUME WIInv, Delivery, NEW d \in Dialogs, OpenDialog(d)
  PROVE  Delivery'
<1>0. /\ messages \in [Threads -> Seq(Messages)] /\ windows \subseteq Threads
      /\ d \in Messages /\ dialog \in [Dialogs -> {"closed", "open", "done", "shut"}]
  BY QueueTypes DEF WIInv, TypeOK, Messages
<1>1. /\ UNCHANGED <<plugged, subscribed, windows, missed, g_bRioConnected>>
      /\ dialog' = [dialog EXCEPT ![d] = "open"]
  BY DEF OpenDialog, globals
<1>2. CASE g_messageWindow = None
  <2>1. messages' = messages /\ orphans' = orphans \cup {d}
    BY <1>2 DEF OpenDialog
  <2>2. QueuesEndNow' /\ OnlySubscribed' /\ RemovalIsOnItsWay'
    BY <1>1, <2>1 DEF Delivery, QueuesEndNow, OnlySubscribed, RemovalIsOnItsWay, Now
  <2>3. OpenDialogHasMessage'
    BY <1>0, <1>1, <2>1 DEF Delivery, OpenDialogHasMessage
  <2> QED
    BY <2>2, <2>3 DEF Delivery
<1>3. CASE g_messageWindow # None
  <2> DEFINE w == g_messageWindow
  <2>1. /\ w \in windows /\ w \in Threads /\ orphans' = orphans
        /\ messages' = [messages EXCEPT ![w] = Append(@, d)]
    BY <1>0, <1>3 DEF WIInv, Made, OpenDialog, Post
  <2> HIDE DEF w
  <2>2. /\ messages'[w] = Append(messages[w], d)
        /\ \A v \in Threads \ {w} : messages'[v] = messages[v]
    BY <1>0, <2>1
  <2>3. /\ Contains(messages'[w], d)
        /\ \A n : Contains(messages[w], n) => Contains(messages'[w], n)
        /\ NoDevice(messages[w]) => NoDevice(messages'[w])
        /\ \A now : Current(messages[w], now) => Current(messages'[w], now)
    BY <1>0, <2>1, <2>2, Appending
  <2>4. \A v \in Threads : \A n : Contains(messages[v], n) => Contains(messages'[v], n)
    BY <2>2, <2>3
  <2>5. QueuesEndNow' /\ OnlySubscribed'
    BY <1>1, <2>1, <2>2, <2>3 DEF Delivery, QueuesEndNow, OnlySubscribed, Now
  <2>6. RemovalIsOnItsWay'
    BY <1>0, <1>1, <2>4 DEF Delivery, RemovalIsOnItsWay
  <2>7. OpenDialogHasMessage'
    BY <1>0, <1>1, <2>1, <2>3, <2>4 DEF Delivery, OpenDialogHasMessage
  <2> QED
    BY <2>5, <2>6, <2>7 DEF Delivery
<1> QED
  BY <1>2, <1>3

\* The DLL is unloaded: no dialog waits then, and no flag outlives it.
LEMMA DetachDelivers ==
  ASSUME TypeOK, Delivery, NEW t \in Threads, DllMain_ProcessDetach(t)
  PROVE  Delivery'
<1>1. \A w \in Threads : \/ messages'[w] = messages[w] /\ (w \in subscribed' <=> w \in subscribed)
                         \/ messages'[w] = <<>>
  BY DEF DllMain_ProcessDetach, DestroyWorkerWindow, TypeOK
<1>2. NoDevice(<<>>) /\ plugged' = plugged
  BY DEF NoDevice, DllMain_ProcessDetach
<1>3. QueuesEndNow' /\ OnlySubscribed'
  BY <1>1, <1>2, SilenceIsCurrent DEF Delivery, QueuesEndNow, OnlySubscribed, Now
<1>4. RemovalIsOnItsWay' /\ OpenDialogHasMessage'
  BY DEF DllMain_ProcessDetach, RemovalIsOnItsWay, OpenDialogHasMessage
<1> QED
  BY <1>3, <1>4 DEF Delivery

LEMMA NextDelivers == WIInv /\ Delivery /\ [Next]_vars => Delivery'
<1> SUFFICES ASSUME WIInv, Delivery, [Next]_vars PROVE Delivery'
  OBVIOUS
<1>0. TypeOK
  BY DEF WIInv
<1>1. CASE UNCHANGED vars \/ DllMain_ProcessAttach
  BY <1>1, SilentDelivers DEF vars, globals, DllMain_ProcessAttach
<1>2. ASSUME NEW w \in Threads, WM_TIMER(w) PROVE Delivery'
  BY <1>2, PollFinds, SilentDelivers DEF WM_TIMER
<1>3. ASSUME NEW d \in Dialogs, CloseDialog(d) PROVE Delivery'
  <2>1. \A c \in Dialogs : dialog'[c] = "open" => dialog[c] = "open"
    BY <1>0, <1>3 DEF CloseDialog, TypeOK
  <2> QED
    BY <1>3, <2>1, SilentDelivers DEF CloseDialog, globals
<1> QED
  BY <1>0, <1>1, <1>2, <1>3, CreateDelivers, DispatchDelivers, PlugDelivers, OpenDelivers,
     DetachDelivers DEF Next

LEMMA DeliveryHolds == Spec => []Delivery
  BY WInvariance, InitDelivers, NextDelivers, PTL DEF Spec

\* Notifications that are late never leave the flag wrong for good: behind every one that
\* is out of date there is one that is not (WM_DEVICECHANGE).
THEOREM NotificationsEndNow == Spec => []QueuesEndNow
  BY DeliveryHolds, PTL DEF Delivery

\* A Rio that is gone is shown as connected only as long as its removal is still in the
\* queue of a window, unless it left in the gap before RegisterDeviceNotification.
THEOREM RemovalIsDelivered == Spec => []RemovalIsOnItsWay
  BY DeliveryHolds, PTL DEF Delivery

\* A formatting dialog that waits has its message in the queue of a window that is there,
\* through reloads and unloads of the DLL, unless there was no window when it opened.
THEOREM DialogIsAnswered == Spec => []OpenDialogHasMessage
  BY DeliveryHolds, PTL DEF Delivery

=============================================================================
