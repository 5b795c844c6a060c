---------------------------- MODULE WorkerWindow ----------------------------
(***************************************************************************)
(* shellex/WorkerWindow.cpp, with the class factory that creates the       *)
(* window (Dll.cpp) and the formatting dialog that talks to it             *)
(* (ContextMenu.cpp).  A hidden window polls for the Rio, is told when     *)
(* it comes and goes, and formats it on behalf of a dialog that closes     *)
(* when the work is done.                                                  *)
(*                                                                         *)
(* Explorer may ask for class objects from several threads at once; each   *)
(* runs CreateWorkerWindow on its own thread, against the same globals.    *)
(* The window lives on the thread that created it, which dispatches its    *)
(* messages once CreateWorkerWindow has returned.                          *)
(*                                                                         *)
(* Between uses the DLL may be unloaded, on any thread, and loaded again.  *)
(* Its globals start anew then; the window class, and a window that could  *)
(* not be destroyed, are still there.                                      *)
(***************************************************************************)
EXTENDS Integers, Sequences, FiniteSets

CONSTANTS Threads,      \* threads that call DllGetClassObject
          Dialogs,      \* formatting dialogs
          None,
          MaxPlugs,     \* bound: times the device is plugged in or out
          Faults        \* subset of {"cocreate", "register", "window", "notify"}

ASSUME WindowAssumption ==
  /\ None \notin Threads /\ MaxPlugs \in Nat
  /\ Dialogs \cap {"arrived", "removed"} = {}

VARIABLES detached,         \* the thread that unloaded the DLL; None: it is loaded
          plugged,          \* the Rio is attached
          plugs,            \* how often that has changed
          g_bRioConnected,
          g_messageWindow,  \* the thread that owns the window, or None
          g_pRio,           \* the thread that created the object, or None
          registered,       \* the window class is registered
          windows,          \* windows that exist, by their thread
          subscribed,       \* windows that get device notifications
          messages,         \* messages[w]: queue of window w
          pc,               \* pc[t]: progress of t in DllGetClassObject
          dialog,           \* dialog[d]: "closed", "open", "done" or "shut"
          missed,           \* history: a Rio that had been found left unnoticed
          orphans,          \* history: dialogs whose message had no window
          elsewhere         \* history: unloaded on a thread that is not the window's

globals == <<g_bRioConnected, g_messageWindow, g_pRio, registered>>
vars == <<detached, plugged, plugs, globals, windows, subscribed, messages, pc, dialog,
          missed, orphans, elsewhere>>

Init ==
  /\ detached = None
  /\ plugged \in BOOLEAN
  /\ plugs = 0
  /\ g_bRioConnected = FALSE
  /\ g_messageWindow = None
  /\ g_pRio = None
  /\ registered = FALSE
  /\ windows = {}
  /\ subscribed = {}
  /\ messages = [w \in Threads |-> <<>>]
  /\ pc = [t \in Threads |-> "outside"]
  /\ dialog = [d \in Dialogs |-> "closed"]
  /\ missed = FALSE
  /\ orphans = {}
  /\ elsewhere = FALSE

Loaded == detached = None

\* Threads that are not in CreateWorkerWindow.
Idle(t) == pc[t] \in {"outside", "returned", "failed"}

Goto(t, label) == pc' = [pc EXCEPT ![t] = label]
Post(w, message) == messages' = [messages EXCEPT ![w] = Append(@, message)]

-----------------------------------------------------------------------------
(* CreateWorkerWindow, called by CClassFactory::CreateInstance.            *)

\* if (!g_messageWindow)
CClassFactory_CreateInstance(t) ==
  /\ Loaded /\ Idle(t)
  /\ Goto(t, IF g_messageWindow = None THEN "cocreate" ELSE "returned")
  /\ UNCHANGED <<detached, plugged, plugs, globals, windows, subscribed, messages, dialog,
                 missed, orphans, elsewhere>>

\* The new object, or NULL, replaces whatever g_pRio holds.
CoCreateRio(t) ==
  /\ pc[t] = "cocreate"
  /\ \/ g_pRio' = t
     \/ "cocreate" \in Faults /\ g_pRio' = None
  /\ Goto(t, "register")
  /\ UNCHANGED <<detached, plugged, plugs, g_bRioConnected, g_messageWindow, registered,
                 windows, subscribed, messages, dialog, missed, orphans, elsewhere>>

\* Mutant of RegisterWindowClass: the result of RegisterClassEx is not looked at.
RegisterWindowClassUnchecked(t) ==
  /\ pc[t] = "register"
  /\ registered' = TRUE
  /\ Goto(t, "window")
  /\ UNCHANGED <<detached, plugged, plugs, g_bRioConnected, g_messageWindow, g_pRio,
                 windows, subscribed, messages, dialog, missed, orphans, elsewhere>>

\* A class can be registered once; whoever comes second gives up, and so does a thread
\* whose registration fails for another reason.
RegisterWindowClass(t) ==
  /\ pc[t] = "register"
  /\ \/ registered' = TRUE /\ Goto(t, IF registered THEN "failed" ELSE "window")
     \/ "register" \in Faults /\ UNCHANGED registered /\ Goto(t, "failed")
  /\ UNCHANGED <<detached, plugged, plugs, g_bRioConnected, g_messageWindow, g_pRio,
                 windows, subscribed, messages, dialog, missed, orphans, elsewhere>>

UpdateConnectedness(connected) == g_bRioConnected' = connected

\* Mutant of PollForDevice: it polls while the Rio is connected.
PollWhileConnected ==
  IF g_pRio # None /\ g_bRioConnected /\ plugged
    THEN UpdateConnectedness(TRUE) ELSE UNCHANGED g_bRioConnected

\* Open succeeds when the device is there.
PollForDevice ==
  IF g_pRio # None /\ ~g_bRioConnected /\ plugged
    THEN UpdateConnectedness(TRUE) ELSE UNCHANGED g_bRioConnected

\* Mutant of CreateMessageWindow: the handle CreateWindow returns is not looked at.
CreateMessageWindowUnchecked(t) ==
  /\ pc[t] = "window"
  /\ \/ windows' = windows \cup {t} /\ PollForDevice
     \/ "window" \in Faults /\ UNCHANGED <<windows, g_bRioConnected>>
  /\ Goto(t, "publish")
  /\ UNCHANGED <<detached, plugged, plugs, g_messageWindow, g_pRio, registered,
                 subscribed, messages, dialog, missed, orphans, elsewhere>>

\* CreateWindow runs WM_CREATE, which polls and sets the timer.
CreateMessageWindow(t) ==
  /\ pc[t] = "window"
  /\ \/ /\ windows' = windows \cup {t}
        /\ PollForDevice
        /\ Goto(t, "publish")
     \/ /\ "window" \in Faults
        /\ Goto(t, "failed")
        /\ UNCHANGED <<windows, g_bRioConnected>>
  /\ UNCHANGED <<detached, plugged, plugs, g_messageWindow, g_pRio, registered,
                 subscribed, messages, dialog, missed, orphans, elsewhere>>

PublishWindow(t) ==
  /\ pc[t] = "publish"
  /\ g_messageWindow' = t
  /\ Goto(t, "subscribe")
  /\ UNCHANGED <<detached, plugged, plugs, g_bRioConnected, g_pRio, registered,
                 windows, subscribed, messages, dialog, missed, orphans, elsewhere>>

RegisterForNotifications(t) ==
  /\ pc[t] = "subscribe"
  /\ \/ subscribed' = subscribed \cup {t}
     \/ "notify" \in Faults /\ UNCHANGED subscribed
  /\ Goto(t, "returned")
  /\ UNCHANGED <<detached, plugged, plugs, globals, windows, messages, dialog, missed, orphans, elsewhere>>

CreateWorkerWindow(t) ==
  \/ CoCreateRio(t) \/ RegisterWindowClass(t) \/ CreateMessageWindow(t)
  \/ PublishWindow(t) \/ RegisterForNotifications(t)

-----------------------------------------------------------------------------
(* The device, and the messages of the window.                             *)

\* WM_DEVICECHANGE is posted to the windows that have subscribed by then.
PlugOrUnplug ==
  /\ plugs < MaxPlugs
  /\ plugs' = plugs + 1
  /\ plugged' = ~plugged
  /\ messages' = [w \in Threads |->
       IF w \in subscribed
         THEN Append(messages[w], IF plugged THEN "removed" ELSE "arrived")
         ELSE messages[w]]
  /\ missed' = (missed \/ (plugged /\ g_bRioConnected /\ subscribed = {}))
  /\ UNCHANGED <<detached, globals, windows, subscribed, pc, dialog, orphans, elsewhere>>

\* The thread of the window dispatches once it is out of CreateWorkerWindow.
Dispatches(w) == Loaded /\ w \in windows /\ Idle(w)

WM_TIMER(w) ==
  /\ Dispatches(w)
  /\ PollForDevice
  /\ UNCHANGED <<detached, plugged, plugs, g_messageWindow, g_pRio, registered, windows,
                 subscribed, messages, pc, dialog, missed, orphans, elsewhere>>

Dispatch(w) == Dispatches(w) /\ messages[w] # <<>>
Dispatched(w) == messages' = [messages EXCEPT ![w] = Tail(@)]

\* Mutant of WM_DEVICECHANGE: only arrivals are handled.
WM_DEVICECHANGE_ArrivalOnly(w) ==
  /\ Dispatch(w)
  /\ Head(messages[w]) \in {"arrived", "removed"}
  /\ IF Head(messages[w]) = "arrived"
       THEN UpdateConnectedness(TRUE) ELSE UNCHANGED g_bRioConnected
  /\ Dispatched(w)
  /\ UNCHANGED <<detached, plugged, plugs, g_messageWindow, g_pRio, registered, windows,
                 subscribed, pc, dialog, missed, orphans, elsewhere>>

WM_DEVICECHANGE(w) ==
  /\ Dispatch(w)
  /\ Head(messages[w]) \in {"arrived", "removed"}
  /\ UpdateConnectedness(Head(messages[w]) = "arrived")
  /\ Dispatched(w)
  /\ UNCHANGED <<detached, plugged, plugs, g_messageWindow, g_pRio, registered, windows,
                 subscribed, pc, dialog, missed, orphans, elsewhere>>

\* Mutant of WM_FORMAT_DEVICE: the dialog is told only if there was an object.
WM_FORMAT_DEVICE_ObjectOnly(w) ==
  /\ Dispatch(w)
  /\ Head(messages[w]) \in Dialogs
  /\ dialog' = IF g_pRio = None THEN dialog
                ELSE [dialog EXCEPT ![Head(messages[w])] = "done"]
  /\ Dispatched(w)
  /\ UNCHANGED <<detached, plugged, plugs, globals, windows, subscribed, pc, missed, orphans, elsewhere>>

\* The device is formatted if there is an object to do it, the results of Open and
\* Format are not looked at, and the dialog is told to close.
WM_FORMAT_DEVICE(w) ==
  /\ Dispatch(w)
  /\ Head(messages[w]) \in Dialogs
  /\ dialog' = [dialog EXCEPT ![Head(messages[w])] = "done"]
  /\ Dispatched(w)
  /\ UNCHANGED <<detached, plugged, plugs, globals, windows, subscribed, pc, missed, orphans, elsewhere>>

-----------------------------------------------------------------------------
(* The formatting dialog (InvokeCommand, FormattingDialogProc).            *)

\* WM_INITDIALOG posts to the window, or to nobody while there is none.
OpenDialog(d) ==
  /\ Loaded
  /\ dialog[d] = "closed"
  /\ dialog' = [dialog EXCEPT ![d] = "open"]
  /\ IF g_messageWindow = None
       THEN orphans' = orphans \cup {d} /\ UNCHANGED messages
       ELSE Post(g_messageWindow, d) /\ UNCHANGED orphans
  /\ UNCHANGED <<detached, plugged, plugs, globals, windows, subscribed, pc, missed, elsewhere>>

\* WM_CLOSE ends the dialog.
CloseDialog(d) ==
  /\ dialog[d] = "done"
  /\ dialog' = [dialog EXCEPT ![d] = "shut"]
  /\ UNCHANGED <<detached, plugged, plugs, globals, windows, subscribed, messages, pc, missed,
                 orphans, elsewhere>>

-----------------------------------------------------------------------------
(* DllMain.                                                                *)

\* Mutant of DestroyWorkerWindow: the window goes only when there is an object.
DestroyWorkerWindowWithRio(t) ==
  IF g_messageWindow = t /\ g_pRio # None
    THEN /\ windows' = windows \ {t}
         /\ subscribed' = subscribed \ {t}
         /\ messages' = [messages EXCEPT ![t] = <<>>]
    ELSE UNCHANGED <<windows, subscribed, messages>>

\* DestroyWindow is refused on a thread that does not own the window.
DestroyWorkerWindow(t) ==
  IF g_messageWindow = t
    THEN /\ windows' = windows \ {t}
         /\ subscribed' = subscribed \ {t}
         /\ messages' = [messages EXCEPT ![t] = <<>>]
    ELSE UNCHANGED <<windows, subscribed, messages>>

\* COM unloads the DLL when no object is left that counts, so no menu has its dialog
\* open: the menu counts.  That nobody is in DllGetClassObject is more than
\* g_cRefModule == 0 says, as a factory whose QueryInterface failed is gone before
\* CreateWorkerWindow runs; it is COM that does not unload a DLL it is calling.  Other
\* objects, and the time between their end and the unloading, change nothing here.
\* The globals go with the DLL.
DllMain_ProcessDetach(t) ==
  /\ Loaded
  /\ \A u \in Threads : Idle(u)
  /\ \A d \in Dialogs : dialog[d] \in {"closed", "shut"}
  /\ DestroyWorkerWindow(t)
  /\ detached' = t
  /\ pc' = [u \in Threads |-> "outside"]
  /\ g_bRioConnected' = FALSE
  /\ g_messageWindow' = None
  /\ g_pRio' = None
  /\ elsewhere' = (elsewhere \/ windows \ {t} # {})
  /\ UNCHANGED <<registered, plugged, plugs, dialog, missed, orphans>>

\* The loader puts the image where it was, so that the class is still registered
\* for it and a window left over finds its procedure again.
DllMain_ProcessAttach ==
  /\ ~Loaded
  /\ detached' = None
  /\ UNCHANGED <<globals, plugged, plugs, windows, subscribed, messages, pc, dialog,
                 missed, orphans, elsewhere>>

-----------------------------------------------------------------------------

Next ==
  \/ DllMain_ProcessAttach
  \/ \E t \in Threads : DllMain_ProcessDetach(t)
  \/ \E t \in Threads : CClassFactory_CreateInstance(t) \/ CreateWorkerWindow(t)
  \/ \E w \in Threads : WM_TIMER(w) \/ WM_DEVICECHANGE(w) \/ WM_FORMAT_DEVICE(w)
  \/ \E d \in Dialogs : OpenDialog(d) \/ CloseDialog(d)
  \/ PlugOrUnplug

Spec == Init /\ [][Next]_vars

\* Threads that are in CreateWorkerWindow go on, and the thread of a window keeps
\* dispatching: its messages, and the timer that WM_CREATE has set.  Nobody has to
\* call DllGetClassObject, open a dialog or touch the device.
FairSpec ==
  /\ Spec
  /\ \A t \in Threads : WF_vars(CreateWorkerWindow(t))
  /\ \A w \in Threads : /\ SF_vars(WM_DEVICECHANGE(w) \/ WM_FORMAT_DEVICE(w))
                        /\ SF_vars(WM_TIMER(w))
  /\ \A d \in Dialogs : WF_vars(CloseDialog(d))

-----------------------------------------------------------------------------
(* Properties.                                                             *)

\* Every variable has its type.
TypeOK ==
  /\ plugged \in BOOLEAN /\ g_bRioConnected \in BOOLEAN /\ registered \in BOOLEAN
  /\ missed \in BOOLEAN /\ elsewhere \in BOOLEAN
  /\ plugs \in 0 .. MaxPlugs
  /\ {detached, g_messageWindow, g_pRio} \subseteq Threads \cup {None}
  /\ subscribed \subseteq windows /\ windows \subseteq Threads
  /\ messages \in [Threads -> Seq(Dialogs \cup {"arrived", "removed"})]
  /\ pc \in [Threads -> {"outside", "cocreate", "register", "window", "publish",
                         "subscribe", "returned", "failed"}]
  /\ dialog \in [Dialogs -> {"closed", "open", "done", "shut"}]
  /\ orphans \subseteq Dialogs

\* However many threads run CreateWorkerWindow at once, there is one window at
\* most, and the one g_messageWindow names is it: the check of g_messageWindow does
\* not see to that, the registration of the class does.
OneWindow ==
  /\ Cardinality(windows) <= 1
  /\ g_messageWindow # None => g_messageWindow \in windows

\* A window whose procedure is gone is left only by an unload on a thread that does
\* not own it: whatever failed while it was made, DestroyWorkerWindow knows of it.
WindowGoesWithDll == ~Loaded /\ ~elsewhere => windows = {}

\* A Rio that stays away is not shown as connected for ever - provided that it was
\* not unplugged between the poll that found it, in WM_CREATE, and the
\* subscription: nothing would tell, and the timer polls only while disconnected.
RemovalIsNoticed == <>[](~plugged) => (<>missed \/ <>[](~g_bRioConnected))

\* A Rio that stays is shown as connected in the end, by its notification or by
\* the timer, once there is a window and an object to poll with.
ArrivalIsNoticed ==
  <>[](plugged /\ g_pRio # None /\ windows # {}) => <>[]g_bRioConnected

\* A formatting dialog, which has no button of its own, closes in the end, unless
\* there was no worker window to send its message to.
DialogCloses ==
  \A d \in Dialogs : dialog[d] = "open" ~> (dialog[d] = "shut" \/ d \in orphans)

=============================================================================
