----------------------------- MODULE DllLifetime -----------------------------
(***************************************************************************)
(* The COM objects of shellex and the module reference count that decides  *)
(* when the DLL may be unloaded: Dll.cpp, and the constructors,            *)
(* destructors, AddRef, Release and factory methods of RioShellEx.cpp,     *)
(* ContextMenu.cpp and FVCommands.cpp.                                     *)
(*                                                                         *)
(* Explorer's threads call any object they have a reference to.  The       *)
(* counts are changed by interlocked instructions, so the decrement of     *)
(* Release and the destructor that follows it are two steps.               *)
(***************************************************************************)
EXTENDS Integers, FiniteSets

CONSTANTS Objects,  \* places for objects on the heap
          None,
          MaxRefs,  \* bound: references clients hold to one object
          MaxLocks  \* bound: LockServer(TRUE) calls that are outstanding

\* Classes whose constructor calls DllAddRef, and all the others.
Counted == {"ClassFactory", "Folder", "ContextMenu"}
Uncounted == {"EnumIDList", "ViewCB", "CommandProvider", "CommandEnumerator", "Command"}

ASSUME LifetimeAssumption ==
  /\ None \notin Objects \cup Counted \cup Uncounted
  /\ IsFiniteSet(Objects) /\ MaxRefs \in Nat /\ MaxLocks \in Nat

VARIABLES loaded,         \* the DLL is in memory
          g_cRefModule,
          locks,          \* LockServer(TRUE) calls not undone yet
          kind,           \* kind[o]: the class of o, None while it is free
          cRef,           \* cRef[o]: its reference count
          clients,        \* clients[o]: references that clients hold
          folder,         \* folder[o]: m_pFolder of an enumerator, else None
          data,           \* data[o]: the menu o has a data object (_pdtobj)
          dataRefs        \* references of menus to data objects

objectVars == <<kind, cRef, clients, folder, data, dataRefs>>
vars == <<loaded, g_cRefModule, locks, objectVars>>

Init ==
  /\ loaded = TRUE
  /\ g_cRefModule = 0
  /\ locks = 0
  /\ kind = [o \in Objects |-> None]
  /\ cRef = [o \in Objects |-> 0]
  /\ clients = [o \in Objects |-> 0]
  /\ folder = [o \in Objects |-> None]
  /\ data = [o \in Objects |-> FALSE]
  /\ dataRefs = 0

\* A client calls a method of o, an object of class k.
Called(o, k) == loaded /\ kind[o] = k /\ clients[o] > 0

-----------------------------------------------------------------------------
(* Creation.  Every factory does the same: new, with one reference and     *)
(* DllAddRef in some constructors; QueryInterface for the caller; Release. *)
(* When anything after new fails, that Release is the last one.            *)

Construct(o, k, result) ==
  /\ kind[o] = None
  /\ kind' = [kind EXCEPT ![o] = k]
  /\ g_cRefModule' = IF k \in Counted THEN g_cRefModule + 1 ELSE g_cRefModule
  /\ clients' = [clients EXCEPT ![o] = result]
  /\ UNCHANGED <<loaded, locks, data, dataRefs>>

\* An object that holds nothing else; result is 1, or 0 if the caller gets none.
Create(o, k, result) ==
  /\ Construct(o, k, result)
  /\ cRef' = [cRef EXCEPT ![o] = result]
  /\ UNCHANGED folder

\* DllGetClassObject, CClassFactory::CreateInstance.
DllGetClassObject(o, result) == loaded /\ Create(o, "ClassFactory", result)

\* IClassFactory::CreateInstance for either class of c_rgClassObjectInit.
CClassFactory_CreateInstance(f, o, result) ==
  /\ Called(f, "ClassFactory")
  /\ \E k \in {"Folder", "ContextMenu"} : Create(o, k, result)

\* A child folder.  For an id list of several levels, those between are created
\* the same way and released again (result 0).
BindToObject(f, o, result) == Called(f, "Folder") /\ Create(o, "Folder", result)

\* Mutant of EnumObjects: the enumerator takes no reference to its folder.
EnumObjectsBorrowsFolder(f, o, result) ==
  /\ Called(f, "Folder")
  /\ Construct(o, "EnumIDList", result)
  /\ folder' = [folder EXCEPT ![o] = f]
  /\ cRef' = [cRef EXCEPT ![o] = result]

\* The enumerator's constructor takes a reference to the folder.
EnumObjects(f, o, result) ==
  /\ Called(f, "Folder")
  /\ Construct(o, "EnumIDList", result)
  /\ folder' = [folder EXCEPT ![o] = f]
  /\ cRef' = [cRef EXCEPT ![o] = result, ![f] = @ + 1]

\* CreateViewObject for an IShellView: the shell's view keeps the callback object
\* and a reference to the folder of its own.
CreateShellView(f, o) ==
  /\ Called(f, "Folder")
  /\ clients[f] < MaxRefs
  /\ kind[o] = None
  /\ kind' = [kind EXCEPT ![o] = "ViewCB"]
  /\ clients' = [clients EXCEPT ![o] = 1, ![f] = @ + 1]
  /\ cRef' = [cRef EXCEPT ![o] = 1, ![f] = @ + 1]
  /\ UNCHANGED <<loaded, g_cRefModule, locks, folder, data, dataRefs>>

\* SHCreateShellFolderView, or the QueryInterface of the callback, fails.
CreateShellViewFails(f, o) == Called(f, "Folder") /\ Create(o, "ViewCB", 0)

\* CreateViewObject for an IExplorerCommandProvider.
CreateCommandProvider(f, o, result) ==
  Called(f, "Folder") /\ Create(o, "CommandProvider", result)

GetCommands(p, o, result) ==
  Called(p, "CommandProvider") /\ Create(o, "CommandEnumerator", result)

CommandEnumerator_Next(e, o, result) ==
  Called(e, "CommandEnumerator") /\ Create(o, "Command", result)

EnumSubCommands(c, o, result) ==
  Called(c, "Command") /\ Create(o, "CommandEnumerator", result)

Factories(c, o, result) ==
  \/ CClassFactory_CreateInstance(c, o, result)
  \/ BindToObject(c, o, result) \/ EnumObjects(c, o, result)
  \/ CreateCommandProvider(c, o, result)
  \/ GetCommands(c, o, result) \/ CommandEnumerator_Next(c, o, result)
  \/ EnumSubCommands(c, o, result)

-----------------------------------------------------------------------------
(* References.                                                             *)

AddRef(o) ==
  /\ loaded
  /\ clients[o] \in 1 .. (MaxRefs - 1)
  /\ cRef' = [cRef EXCEPT ![o] = @ + 1]
  /\ clients' = [clients EXCEPT ![o] = @ + 1]
  /\ UNCHANGED <<loaded, g_cRefModule, locks, kind, folder, data, dataRefs>>

\* The decrement; whoever brings the count to zero runs the destructor.
Release(o) ==
  /\ loaded
  /\ clients[o] > 0
  /\ cRef' = [cRef EXCEPT ![o] = @ - 1]
  /\ clients' = [clients EXCEPT ![o] = @ - 1]
  /\ UNCHANGED <<loaded, g_cRefModule, locks, kind, folder, data, dataRefs>>

\* Mutant of Delete: no destructor calls DllRelease.
DeleteWithoutDllRelease(o) ==
  /\ loaded /\ kind[o] # None /\ cRef[o] = 0
  /\ kind' = [kind EXCEPT ![o] = None]
  /\ cRef' = IF folder[o] = None THEN cRef ELSE [cRef EXCEPT ![folder[o]] = @ - 1]
  /\ folder' = [folder EXCEPT ![o] = None]
  /\ data' = [data EXCEPT ![o] = FALSE]
  /\ dataRefs' = IF data[o] THEN dataRefs - 1 ELSE dataRefs
  /\ UNCHANGED <<loaded, locks, clients, g_cRefModule>>

\* delete this: the destructor releases what the object holds and the module.  From
\* here on the object is not Alive, though the thread is still in the destructor: that
\* of an enumerator frees its array after the folder's Release, which may have taken
\* g_cRefModule to zero.
Delete(o) ==
  /\ loaded /\ kind[o] # None /\ cRef[o] = 0
  /\ kind' = [kind EXCEPT ![o] = None]
  /\ cRef' = IF folder[o] = None THEN cRef ELSE [cRef EXCEPT ![folder[o]] = @ - 1]
  /\ folder' = [folder EXCEPT ![o] = None]
  /\ data' = [data EXCEPT ![o] = FALSE]
  /\ dataRefs' = IF data[o] THEN dataRefs - 1 ELSE dataRefs
  /\ g_cRefModule' = IF kind[o] \in Counted THEN g_cRefModule - 1 ELSE g_cRefModule
  /\ UNCHANGED <<loaded, locks, clients>>

\* Mutant of ContextMenu_Initialize: the data object from before is not released.
ContextMenu_InitializeKeepsOld(m, hasData) ==
  /\ Called(m, "ContextMenu")
  /\ data' = [data EXCEPT ![m] = hasData]
  /\ dataRefs' = dataRefs + (IF hasData THEN 1 ELSE 0)
  /\ UNCHANGED <<loaded, g_cRefModule, locks, kind, cRef, clients, folder>>

\* CFolderViewImplContextMenu::Initialize, with a data object or with NULL.
ContextMenu_Initialize(m, hasData) ==
  /\ Called(m, "ContextMenu")
  /\ data' = [data EXCEPT ![m] = hasData]
  /\ dataRefs' = dataRefs - (IF data[m] THEN 1 ELSE 0) + (IF hasData THEN 1 ELSE 0)
  /\ UNCHANGED <<loaded, g_cRefModule, locks, kind, cRef, clients, folder>>

-----------------------------------------------------------------------------
(* The module.                                                             *)

LockServer(f, lock) ==
  /\ Called(f, "ClassFactory")
  /\ IF lock THEN locks < MaxLocks ELSE locks > 0
  /\ locks' = IF lock THEN locks + 1 ELSE locks - 1
  /\ g_cRefModule' = IF lock THEN g_cRefModule + 1 ELSE g_cRefModule - 1
  /\ UNCHANGED <<loaded, objectVars>>

\* COM unloads the DLL when DllCanUnloadNow says S_OK.
DllCanUnloadNow ==
  /\ loaded
  /\ g_cRefModule = 0
  /\ loaded' = FALSE
  /\ UNCHANGED <<g_cRefModule, locks, objectVars>>

Next ==
  \/ \E o \in Objects, result \in {0, 1} :
       \/ DllGetClassObject(o, result)
       \/ \E c \in Objects : Factories(c, o, result)
  \/ \E f, o \in Objects : CreateShellView(f, o) \/ CreateShellViewFails(f, o)
  \/ \E o \in Objects :
       \/ AddRef(o) \/ Release(o) \/ Delete(o)
       \/ \E b \in BOOLEAN : ContextMenu_Initialize(o, b) \/ LockServer(o, b)
  \/ DllCanUnloadNow

Spec == Init /\ [][Next]_vars

-----------------------------------------------------------------------------
(* Properties.                                                             *)

\* Every variable has its type.
TypeOK ==
  /\ loaded \in BOOLEAN
  /\ {g_cRefModule, locks, dataRefs} \subseteq Int
  /\ kind \in [Objects -> Counted \cup Uncounted \cup {None}]
  /\ cRef \in [Objects -> Nat]
  /\ clients \in [Objects -> Nat]
  /\ folder \in [Objects -> Objects \cup {None}]
  /\ data \in [Objects -> BOOLEAN]

Alive == {o \in Objects : kind[o] # None}
Enumerators(f) == {e \in Objects : folder[e] = f}

\* The module count is the number of live objects of the counted classes and of
\* outstanding locks, error exits of the factories and pending destructors included.
ModuleCountIsRight ==
  g_cRefModule = Cardinality({o \in Alive : kind[o] \in Counted}) + locks

\* An object is referenced by exactly its clients and its enumerators, so none is
\* deleted under one of them and none is left over when they have let go.  Menus,
\* however often they are initialized again, hold one reference to each data object
\* they still have and none to others.
ReferencesBalance ==
  /\ \A o \in Objects :
       IF o \in Alive THEN cRef[o] = clients[o] + Cardinality(Enumerators(o))
                      ELSE clients[o] = 0 /\ Enumerators(o) = {}
  /\ dataRefs = Cardinality({o \in Alive : data[o]})

\* What the comment in DllCanUnloadNow says: the DLL is unloaded only after all
\* outstanding references have been released.
UnloadedWithoutReferences == ~loaded => \A o \in Objects : clients[o] = 0

=============================================================================
