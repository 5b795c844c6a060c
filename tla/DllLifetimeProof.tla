-------------------------- MODULE DllLifetimeProof --------------------------
(***************************************************************************)
(* Proofs about DllLifetime: for any number of objects, and in whatever    *)
(* order they are made, referenced and released, the reference counts and  *)
(* the count of the module are exact.                                      *)
(***************************************************************************)
EXTENDS DllLifetime, FiniteSetTheorems, TLAPS

CountedObjects == {o \in Alive : kind[o] \in Counted}
MenusWithData == {o \in Alive : data[o]}

(***************************************************************************)
(* The inductive invariant.  Enumerators hold a folder, menus may hold a   *)
(* data object, nobody else holds anything: only with that do the counts   *)
(* say which objects a destructor may meet.                                *)
(***************************************************************************)
FolderOfEnumerator ==
  \A e \in Objects :
    /\ kind[e] = "EnumIDList" => folder[e] # None
    /\ folder[e] # None =>
         kind[e] = "EnumIDList" /\ folder[e] \in Objects /\ kind[folder[e]] = "Folder"

DataOfMenu == \A o \in Objects : data[o] => kind[o] = "ContextMenu"

Held == FolderOfEnumerator /\ DataOfMenu

Module == locks \in Nat /\ (~loaded => g_cRefModule = 0)

LIInv == TypeOK /\ Held /\ Module /\ ModuleCountIsRight /\ ReferencesBalance

-----------------------------------------------------------------------------
(* Sets of objects and their cardinalities.                                *)

LEMMA ObjectsFinite ==
  ASSUME NEW S, S \subseteq Objects
  PROVE  IsFiniteSet(S) /\ Cardinality(S) \in Nat
<1>1. IsFiniteSet(S)
  BY LifetimeAssumption, FS_Subset
<1> QED
  BY <1>1, FS_CardinalityType

LEMMA OneMore ==
  ASSUME NEW S, NEW x, S \subseteq Objects, x \in Objects, x \notin S
  PROVE  Cardinality(S \cup {x}) = Cardinality(S) + 1
  BY ObjectsFinite, FS_AddElement

LEMMA OneLess ==
  ASSUME NEW S, NEW x, S \subseteq Objects, x \in S
  PROVE  Cardinality(S \ {x}) = Cardinality(S) - 1
  BY ObjectsFinite, FS_RemoveElement

LEMMA Empty == ASSUME NEW S, S \subseteq Objects
               PROVE  Cardinality(S) = 0 <=> S = {}
  BY ObjectsFinite, FS_EmptySet

\* What the invariant says of the holders of an object.
LEMMA HoldersType ==
  ASSUME NEW o
  PROVE  Enumerators(o) \subseteq Objects /\ Cardinality(Enumerators(o)) \in Nat
<1>1. Enumerators(o) \subseteq Objects
  BY DEF Enumerators
<1> QED
  BY <1>1, ObjectsFinite

LEMMA LInitIInv == Init => LIInv
<1> SUFFICES ASSUME Init PROVE LIInv
  OBVIOUS
<1> USE LifetimeAssumption
<1>1. TypeOK
  <2>1. data \in [Objects -> BOOLEAN] /\ loaded \in BOOLEAN
    BY DEF Init
  <2> QED
    BY <2>1 DEF Init, TypeOK
<1>2. Alive = {} /\ \A o \in Objects : Enumerators(o) = {}
  BY DEF Init, Alive, Enumerators
<1>3. Held /\ Module
  BY DEF Init, Held, FolderOfEnumerator, DataOfMenu, Module, Uncounted
<1>4. ModuleCountIsRight
  <2>1. {o \in Alive : kind[o] \in Counted} = {}
    BY <1>2
  <2> QED
    BY <2>1, FS_EmptySet DEF Init, ModuleCountIsRight
<1>5. ReferencesBalance
  <2>1. {o \in Alive : data[o]} = {}
    BY <1>2
  <2> QED
    BY <1>2, <2>1, FS_EmptySet DEF Init, ReferencesBalance
<1> QED
  BY <1>1, <1>3, <1>4, <1>5 DEF LIInv

-----------------------------------------------------------------------------
(* Factories.                                                              *)

\* A new object changes the module count as its class demands.
LEMMA ConstructCounts ==
  ASSUME LIInv, NEW o \in Objects, NEW k \in Counted \cup Uncounted,
         kind[o] = None, kind' = [kind EXCEPT ![o] = k],
         g_cRefModule' = IF k \in Counted THEN g_cRefModule + 1 ELSE g_cRefModule,
         UNCHANGED <<locks, data, dataRefs>>
  PROVE  /\ ModuleCountIsRight'
         /\ dataRefs' = Cardinality(MenusWithData')
         /\ g_cRefModule' \in Int
<1> USE LifetimeAssumption DEF LIInv, TypeOK
<1>1. CountedObjects' = IF k \in Counted THEN CountedObjects \cup {o} ELSE CountedObjects
  BY DEF CountedObjects, Alive
<1>2. o \notin CountedObjects /\ CountedObjects \subseteq Objects
  BY DEF CountedObjects, Alive
<1>3. Cardinality(CountedObjects') =
        IF k \in Counted THEN Cardinality(CountedObjects) + 1 ELSE Cardinality(CountedObjects)
  BY <1>1, <1>2, OneMore
<1>4. MenusWithData' = MenusWithData
  <2>1. ~data[o]
    BY DEF Held, DataOfMenu, Counted
  <2> QED
    BY <2>1 DEF MenusWithData, Alive
<1>5. Cardinality(CountedObjects) \in Nat
  BY <1>2, ObjectsFinite
<1>6. ModuleCountIsRight' /\ g_cRefModule' \in Int
  BY <1>3, <1>5 DEF ModuleCountIsRight, CountedObjects, Module
<1>7. dataRefs' = Cardinality(MenusWithData')
  BY <1>4 DEF ReferencesBalance, MenusWithData
<1> QED
  BY <1>6, <1>7

LEMMA CreateKeeps ==
  ASSUME LIInv, loaded, NEW o \in Objects, NEW k \in (Counted \cup Uncounted) \ {"EnumIDList"},
         NEW result \in {0, 1}, Create(o, k, result)
  PROVE  LIInv'
<1> USE LifetimeAssumption DEF Create, Construct
<1>1. ModuleCountIsRight' /\ dataRefs' = Cardinality(MenusWithData') /\ g_cRefModule' \in Int
  BY ConstructCounts
<1>2. TypeOK'
  <2>1. loaded' \in BOOLEAN /\ data' \in [Objects -> BOOLEAN]
    BY Zenon DEF LIInv, TypeOK
  <2>2. /\ kind' \in [Objects -> Counted \cup Uncounted \cup {None}]
        /\ cRef' \in [Objects -> Nat] /\ clients' \in [Objects -> Nat]
    BY DEF LIInv, TypeOK
  <2>3. {g_cRefModule', locks', dataRefs'} \subseteq Int
    BY <1>1 DEF LIInv, TypeOK
  <2> QED
    BY <2>1, <2>2, <2>3 DEF LIInv, TypeOK
<1>3. FolderOfEnumerator'
  <2>1. FolderOfEnumerator /\ kind[o] = None /\ folder' = folder
    BY DEF LIInv, Held
  <2>2. None \notin {"EnumIDList", "Folder"} /\ k # "EnumIDList"
    BY DEF Counted, Uncounted
  <2>3. kind' = [kind EXCEPT ![o] = k] /\ DOMAIN kind = Objects
    BY DEF LIInv, TypeOK
  <2> HIDE DEF Create, Construct
  <2> QED
    BY <2>1, <2>2, <2>3 DEF FolderOfEnumerator
<1>8. DataOfMenu'
  BY Zenon DEF LIInv, TypeOK, Held, DataOfMenu, Counted
<1>4. Module'
  BY DEF LIInv, Module
<1>5. \A x \in Objects : Enumerators(x)' = Enumerators(x)
  BY DEF Enumerators
<1>6. Enumerators(o) = {} /\ Cardinality(Enumerators(o)) = 0
  BY FS_EmptySet DEF LIInv, ReferencesBalance, Alive
<1>7. \A x \in Objects :
        IF x \in Alive' THEN cRef'[x] = clients'[x] + Cardinality(Enumerators(x)')
                        ELSE clients'[x] = 0 /\ Enumerators(x)' = {}
  BY <1>5, <1>6 DEF LIInv, TypeOK, ReferencesBalance, Alive
<1> QED
  BY <1>1, <1>2, <1>3, <1>4, <1>7, <1>8 DEF LIInv, Held, ReferencesBalance, MenusWithData

LEMMA EnumObjectsKeeps ==
  ASSUME LIInv, NEW f \in Objects, NEW o \in Objects, NEW result \in {0, 1},
         EnumObjects(f, o, result)
  PROVE  LIInv'
<1> USE LifetimeAssumption DEF EnumObjects, Construct, Called
<1>0. "EnumIDList" \in Counted \cup Uncounted /\ "EnumIDList" \notin Counted
  BY DEF Counted, Uncounted
<1>1. ModuleCountIsRight' /\ dataRefs' = Cardinality(MenusWithData') /\ g_cRefModule' \in Int
  BY <1>0, ConstructCounts
<1>2. o # f /\ folder[o] = None
  <2>1. kind[o] = None /\ kind[f] = "Folder" /\ None \notin {"Folder", "EnumIDList"}
    BY DEF Counted, Uncounted
  <2>2. FolderOfEnumerator
    BY DEF LIInv, Held
  <2> QED
    BY <2>1, <2>2 DEF FolderOfEnumerator
<1>3. TypeOK'
  <2>1. loaded' \in BOOLEAN /\ data' \in [Objects -> BOOLEAN]
    BY Zenon DEF LIInv, TypeOK
  <2>2. /\ kind' \in [Objects -> Counted \cup Uncounted \cup {None}]
        /\ cRef' \in [Objects -> Nat] /\ clients' \in [Objects -> Nat]
        /\ folder' \in [Objects -> Objects \cup {None}]
    BY <1>0 DEF LIInv, TypeOK
  <2>3. {g_cRefModule', locks', dataRefs'} \subseteq Int
    BY <1>1 DEF LIInv, TypeOK
  <2> QED
    BY <2>1, <2>2, <2>3 DEF LIInv, TypeOK
<1>4. FolderOfEnumerator'
  <2>1. FolderOfEnumerator /\ kind[o] = None /\ kind[f] = "Folder"
    BY DEF LIInv, Held
  <2>2. None \notin {"EnumIDList", "Folder"} /\ None \notin Objects
    BY DEF Counted, Uncounted
  <2>3. /\ kind' = [kind EXCEPT ![o] = "EnumIDList"] /\ DOMAIN kind = Objects
        /\ folder' = [folder EXCEPT ![o] = f] /\ DOMAIN folder = Objects
    BY DEF LIInv, TypeOK
  <2> HIDE DEF EnumObjects, Construct, Called
  <2> QED
    BY <2>1, <2>2, <2>3 DEF FolderOfEnumerator
<1>5. DataOfMenu'
  BY Zenon DEF LIInv, TypeOK, Held, DataOfMenu, Counted
<1>6. Module'
  BY <1>0 DEF LIInv, Module
<1>7. /\ Enumerators(f)' = Enumerators(f) \cup {o} /\ o \notin Enumerators(f)
      /\ \A x \in Objects \ {f} : Enumerators(x)' = Enumerators(x)
  BY <1>2 DEF Enumerators, LIInv, TypeOK
<1>8. Cardinality(Enumerators(f)') = Cardinality(Enumerators(f)) + 1
  BY <1>7, OneMore, HoldersType
<1>9. Enumerators(o) = {} /\ Cardinality(Enumerators(o)) = 0
  BY FS_EmptySet DEF LIInv, ReferencesBalance, Alive
<1>10. \A x \in Objects :
         IF x \in Alive' THEN cRef'[x] = clients'[x] + Cardinality(Enumerators(x)')
                         ELSE clients'[x] = 0 /\ Enumerators(x)' = {}
  <2>1. \A x \in Objects : Cardinality(Enumerators(x)) \in Nat
    BY HoldersType
  <2>2. \A x \in Objects : x \in Alive' <=> x \in Alive \/ x = o
    BY <1>0 DEF LIInv, TypeOK, Alive
  <2>3. f \in Alive
    BY DEF Alive, Counted
  <2>4. cRef' = [cRef EXCEPT ![o] = result, ![f] = @ + 1] /\ cRef \in [Objects -> Nat]
        /\ clients' = [clients EXCEPT ![o] = result] /\ clients \in [Objects -> Nat]
    BY DEF LIInv, TypeOK
  <2>5. \A x \in Objects : IF x \in Alive THEN cRef[x] = clients[x] + Cardinality(Enumerators(x))
                                           ELSE clients[x] = 0 /\ Enumerators(x) = {}
    BY DEF LIInv, ReferencesBalance
  <2> HIDE DEF EnumObjects, Construct, Called
  <2>6. ASSUME NEW x \in Objects \ {f, o}
        PROVE  IF x \in Alive' THEN cRef'[x] = clients'[x] + Cardinality(Enumerators(x)')
                               ELSE clients'[x] = 0 /\ Enumerators(x)' = {}
    BY <1>7, <2>2, <2>4, <2>5
  <2>7. cRef'[f] = clients'[f] + Cardinality(Enumerators(f)')
    BY <1>2, <1>8, <2>1, <2>3, <2>4, <2>5
  <2>8. cRef'[o] = clients'[o] + Cardinality(Enumerators(o)')
    <3>1. Enumerators(o)' = Enumerators(o)
      BY <1>2, <1>7
    <3>2. Cardinality(Enumerators(o)') = 0
      BY <1>9, <3>1
    <3>3. cRef'[o] = result /\ clients'[o] = result
      BY <1>2, <2>4
    <3> QED
      BY <3>2, <3>3
  <2> QED
    BY <2>2, <2>3, <2>6, <2>7, <2>8
<1> QED
  BY <1>1, <1>3, <1>4, <1>5, <1>6, <1>10 DEF LIInv, Held, ReferencesBalance, MenusWithData

LEMMA CreateShellViewKeeps ==
  ASSUME LIInv, NEW f \in Objects, NEW o \in Objects, CreateShellView(f, o)
  PROVE  LIInv'
<1> USE LifetimeAssumption DEF CreateShellView, Called
<1>0. "ViewCB" \in (Counted \cup Uncounted) \ {"EnumIDList"} /\ "ViewCB" \notin Counted
  BY DEF Counted, Uncounted
<1>1. ModuleCountIsRight' /\ dataRefs' = Cardinality(MenusWithData') /\ g_cRefModule' \in Int
  BY <1>0, ConstructCounts
<1>2. o # f
  BY DEF Counted
<1>3. TypeOK'
  <2>1. loaded' \in BOOLEAN /\ data' \in [Objects -> BOOLEAN]
    BY Zenon DEF LIInv, TypeOK
  <2>2. /\ kind' \in [Objects -> Counted \cup Uncounted \cup {None}]
        /\ cRef' \in [Objects -> Nat] /\ clients' \in [Objects -> Nat]
    BY <1>0 DEF LIInv, TypeOK
  <2>3. {g_cRefModule', locks', dataRefs'} \subseteq Int
    BY <1>1 DEF LIInv, TypeOK
  <2> QED
    BY <2>1, <2>2, <2>3 DEF LIInv, TypeOK
<1>4. FolderOfEnumerator'
  <2>1. FolderOfEnumerator /\ kind[o] = None /\ folder' = folder
    BY DEF LIInv, Held
  <2>2. None \notin {"EnumIDList", "Folder"} /\ None \notin Objects
    BY DEF Counted, Uncounted
  <2>3. kind' = [kind EXCEPT ![o] = "ViewCB"] /\ DOMAIN kind = Objects
    BY DEF LIInv, TypeOK
  <2> HIDE DEF CreateShellView, Called
  <2> QED
    BY <2>1, <2>2, <2>3 DEF FolderOfEnumerator
<1>5. DataOfMenu'
  BY Zenon DEF LIInv, TypeOK, Held, DataOfMenu, Counted
<1>6. Module'
  BY DEF LIInv, Module
<1>7. \A x \in Objects : Enumerators(x)' = Enumerators(x)
  BY DEF Enumerators
<1>8. Enumerators(o) = {} /\ Cardinality(Enumerators(o)) = 0
  BY FS_EmptySet DEF LIInv, ReferencesBalance, Alive
<1>9. \A x \in Objects :
        IF x \in Alive' THEN cRef'[x] = clients'[x] + Cardinality(Enumerators(x)')
                        ELSE clients'[x] = 0 /\ Enumerators(x)' = {}
  <2>1. \A x \in Objects : Cardinality(Enumerators(x)) \in Nat
    BY HoldersType
  <2> QED
    BY <1>0, <1>2, <1>7, <1>8, <2>1, SMTT(30) DEF LIInv, TypeOK, ReferencesBalance, Alive
<1> QED
  BY <1>1, <1>3, <1>4, <1>5, <1>6, <1>9 DEF LIInv, Held, ReferencesBalance, MenusWithData

-----------------------------------------------------------------------------
(* References.                                                             *)

\* Steps that leave the classes of objects and what they hold alone.
HoldingAlone == UNCHANGED <<loaded, g_cRefModule, locks, kind, folder, data, dataRefs>>

LEMMA HoldingKept ==
  ASSUME LIInv, HoldingAlone
  PROVE  /\ Held' /\ Module' /\ ModuleCountIsRight'
         /\ Alive' = Alive /\ MenusWithData' = MenusWithData
         /\ \A o \in Objects : Enumerators(o)' = Enumerators(o)
  BY DEF LIInv, HoldingAlone, Held, FolderOfEnumerator, DataOfMenu, Module,
     ModuleCountIsRight, Alive, MenusWithData, Enumerators

LEMMA AddRefReleaseKeeps ==
  ASSUME LIInv, NEW o \in Objects, AddRef(o) \/ Release(o)
  PROVE  LIInv'
<1>1. HoldingAlone
  BY DEF AddRef, Release, HoldingAlone
<1>2. o \in Alive /\ \A x \in Objects : Cardinality(Enumerators(x)) \in Nat
  BY HoldersType, LifetimeAssumption DEF LIInv, TypeOK, ReferencesBalance, AddRef, Release
<1>3. cRef' \in [Objects -> Nat] /\ clients' \in [Objects -> Nat]
  BY <1>2, LifetimeAssumption DEF LIInv, TypeOK, ReferencesBalance, AddRef, Release
<1>4. TypeOK'
  BY <1>1, <1>3 DEF HoldingAlone, LIInv, TypeOK
<1>5. \A x \in Objects :
        IF x \in Alive THEN cRef'[x] = clients'[x] + Cardinality(Enumerators(x))
                       ELSE clients'[x] = 0 /\ Enumerators(x) = {}
  BY <1>2, LifetimeAssumption DEF LIInv, TypeOK, ReferencesBalance, AddRef, Release
<1>6. ReferencesBalance'
  BY <1>1, <1>5, HoldingKept DEF HoldingAlone, LIInv, ReferencesBalance, MenusWithData
<1> QED
  BY <1>1, <1>4, <1>6, HoldingKept DEF LIInv

-----------------------------------------------------------------------------
(* The destructor.                                                         *)

\* Who may be deleted is held by nobody, and holds a folder that is alive.
LEMMA Unheld ==
  ASSUME LIInv, NEW o \in Objects, Delete(o)
  PROVE  /\ o \in Alive /\ clients[o] = 0 /\ Enumerators(o) = {}
         /\ folder[o] # None =>
              /\ folder[o] \in Alive \ {o}
              /\ o \in Enumerators(folder[o])
              /\ cRef[folder[o]] > 0
<1> USE LifetimeAssumption
<1>1. o \in Alive /\ cRef[o] = 0
  BY DEF Delete, Alive
<1>2. clients[o] \in Nat /\ Cardinality(Enumerators(o)) \in Nat
  BY HoldersType DEF LIInv, TypeOK
<1>3. clients[o] = 0 /\ Cardinality(Enumerators(o)) = 0
  BY <1>1, <1>2 DEF LIInv, ReferencesBalance
<1>4. Enumerators(o) = {}
  BY <1>3, Empty, HoldersType
<1>5. ASSUME folder[o] # None
      PROVE  /\ folder[o] \in Alive \ {o}
             /\ o \in Enumerators(folder[o])
             /\ cRef[folder[o]] > 0
  <2> DEFINE f == folder[o]
  <2>1. f \in Objects /\ kind[f] = "Folder"
    BY <1>5 DEF LIInv, Held, FolderOfEnumerator
  <2>2. o \in Enumerators(f)
    BY DEF Enumerators
  <2>3. f \in Alive /\ f # o
    BY <1>4, <2>1, <2>2 DEF Alive, Counted
  <2>4. Cardinality(Enumerators(f)) \in Nat \ {0} /\ clients[f] \in Nat
    BY <2>1, <2>2, Empty, HoldersType DEF LIInv, TypeOK
  <2>5. cRef[f] = clients[f] + Cardinality(Enumerators(f))
    BY <2>1, <2>3 DEF LIInv, ReferencesBalance
  <2> QED
    BY <2>2, <2>3, <2>4, <2>5
<1> QED
  BY <1>1, <1>3, <1>4, <1>5

LEMMA DeleteCounts ==
  ASSUME LIInv, NEW o \in Objects, Delete(o)
  PROVE  /\ g_cRefModule' \in Int /\ ModuleCountIsRight'
         /\ dataRefs' \in Int /\ dataRefs' = Cardinality(MenusWithData')
<1>0. o \in Alive
  BY Unheld
<1>1. CountedObjects \subseteq Objects /\ Cardinality(CountedObjects) \in Nat
  BY ObjectsFinite DEF CountedObjects, Alive
<1>2. CountedObjects' = CountedObjects \ {o} /\ (o \in CountedObjects <=> kind[o] \in Counted)
  BY <1>0, LifetimeAssumption DEF CountedObjects, Alive, Delete, LIInv, TypeOK
<1>3. g_cRefModule' \in Int /\ ModuleCountIsRight'
  <2>1. g_cRefModule = Cardinality(CountedObjects) + locks /\ locks \in Nat
    BY DEF LIInv, Module, ModuleCountIsRight, CountedObjects
  <2>2. /\ g_cRefModule' = IF o \in CountedObjects THEN g_cRefModule - 1 ELSE g_cRefModule
        /\ locks' = locks
    BY <1>2 DEF Delete
  <2>3. Cardinality(CountedObjects') =
          IF o \in CountedObjects THEN Cardinality(CountedObjects) - 1
                                 ELSE Cardinality(CountedObjects)
    <3>1. CASE o \in CountedObjects
      BY <1>1, <1>2, <3>1, OneLess
    <3>2. CASE o \notin CountedObjects
      <4>1. CountedObjects' = CountedObjects
        BY <1>2, <3>2
      <4> QED
        BY <3>2, <4>1
    <3> QED
      BY <3>1, <3>2
  <2>4. g_cRefModule' = Cardinality(CountedObjects') + locks' /\ g_cRefModule' \in Int
    BY <1>1, <2>1, <2>2, <2>3
  <2> QED
    BY <2>4 DEF ModuleCountIsRight, CountedObjects
<1>5. MenusWithData \subseteq Objects /\ Cardinality(MenusWithData) \in Nat
  BY ObjectsFinite DEF MenusWithData, Alive
<1>6. MenusWithData' = MenusWithData \ {o} /\ (o \in MenusWithData <=> data[o])
  BY <1>0, Zenon DEF MenusWithData, Alive, Delete, LIInv, TypeOK
<1>7. dataRefs = Cardinality(MenusWithData) /\ dataRefs \in Int
  BY <1>5 DEF LIInv, ReferencesBalance, MenusWithData
<1>8. dataRefs' = IF o \in MenusWithData THEN dataRefs - 1 ELSE dataRefs
  BY <1>6, Zenon DEF Delete
<1>9. dataRefs' \in Int /\ dataRefs' = Cardinality(MenusWithData')
  BY <1>5, <1>6, <1>7, <1>8, OneLess
<1> QED
  BY <1>3, <1>9

LEMMA DeleteKeeps == ASSUME LIInv, NEW o \in Objects, Delete(o) PROVE LIInv'
<1> USE LifetimeAssumption
<1>0. /\ o \in Alive /\ clients[o] = 0 /\ Enumerators(o) = {}
      /\ folder[o] # None =>
           folder[o] \in Alive \ {o} /\ o \in Enumerators(folder[o]) /\ cRef[folder[o]] > 0
  BY Unheld
<1>1. /\ g_cRefModule' \in Int /\ ModuleCountIsRight'
      /\ dataRefs' \in Int /\ dataRefs' = Cardinality(MenusWithData')
  BY DeleteCounts
<1>2. /\ kind' = [kind EXCEPT ![o] = None] /\ folder' = [folder EXCEPT ![o] = None]
      /\ kind \in [Objects -> Counted \cup Uncounted \cup {None}]
      /\ folder \in [Objects -> Objects \cup {None}]
  BY DEF Delete, LIInv, TypeOK
<1>3. cRef' = (IF folder[o] = None THEN cRef ELSE [cRef EXCEPT ![folder[o]] = @ - 1])
      /\ clients' = clients
  BY DEF Delete
<1>4. cRef \in [Objects -> Nat] /\ clients \in [Objects -> Nat]
  BY DEF LIInv, TypeOK
<1>5. data' = [data EXCEPT ![o] = FALSE] /\ data \in [Objects -> BOOLEAN]
  BY Zenon DEF Delete, LIInv, TypeOK
<1>6. TypeOK'
  <2>1. loaded' \in BOOLEAN
    BY Zenon DEF Delete, LIInv, TypeOK
  <2>2. data' \in [Objects -> BOOLEAN]
    BY <1>5
  <2>3. /\ kind' \in [Objects -> Counted \cup Uncounted \cup {None}]
        /\ folder' \in [Objects -> Objects \cup {None}]
    BY <1>2
  <2>4. cRef' \in [Objects -> Nat] /\ clients' \in [Objects -> Nat]
    BY <1>0, <1>3, <1>4 DEF Alive
  <2>5. {g_cRefModule', locks', dataRefs'} \subseteq Int
    BY <1>1 DEF Delete, LIInv, TypeOK
  <2> QED
    BY <2>1, <2>2, <2>3, <2>4, <2>5 DEF TypeOK
<1>7. FolderOfEnumerator'
  <2>1. FolderOfEnumerator /\ \A e \in Objects : folder[e] # o
    BY <1>0 DEF LIInv, Held, Enumerators
  <2>2. None \notin {"EnumIDList", "Folder"}
    BY DEF Counted, Uncounted
  <2> QED
    BY <1>2, <2>1, <2>2 DEF FolderOfEnumerator
<1>8. DataOfMenu'
  BY <1>2, <1>5, Zenon DEF LIInv, Held, DataOfMenu
<1>9. Module'
  BY DEF LIInv, Module, Delete
<1>10. /\ Alive' = Alive \ {o}
       /\ \A x \in Objects : Enumerators(x)' = Enumerators(x) \ {o}
  BY <1>2 DEF Alive, Enumerators
<1>11. \A x \in Objects : Cardinality(Enumerators(x)) \in Nat
  BY HoldersType
<1>12. \A x \in Objects :
         IF x \in Alive THEN cRef[x] = clients[x] + Cardinality(Enumerators(x))
                        ELSE clients[x] = 0 /\ Enumerators(x) = {}
  BY DEF LIInv, ReferencesBalance
<1>13. ASSUME NEW x \in Objects
       PROVE  IF x \in Alive' THEN cRef'[x] = clients'[x] + Cardinality(Enumerators(x)')
                              ELSE clients'[x] = 0 /\ Enumerators(x)' = {}
  <2>1. CASE x \in Alive' /\ x = folder[o]
    <3>1. Cardinality(Enumerators(x)') = Cardinality(Enumerators(x)) - 1
      BY <1>0, <1>10, <2>1, OneLess, HoldersType
    <3>2. cRef'[x] = cRef[x] - 1
      BY <1>3, <1>4, <2>1
    <3> QED
      BY <1>3, <1>4, <1>10, <1>11, <1>12, <2>1, <3>1, <3>2
  <2>2. CASE x \in Alive' /\ x # folder[o]
    <3>1. Enumerators(x)' = Enumerators(x)
      BY <1>10, <2>2 DEF Enumerators
    <3>2. cRef'[x] = cRef[x]
      BY <1>3, <1>4, <2>2
    <3> QED
      BY <1>3, <1>10, <1>12, <2>2, <3>1, <3>2
  <2>3. CASE x \notin Alive'
    BY <1>0, <1>3, <1>10, <1>12, <2>3
  <2> QED
    BY <2>1, <2>2, <2>3
<1> QED
  BY <1>1, <1>6, <1>7, <1>8, <1>9, <1>13 DEF LIInv, Held, ReferencesBalance, MenusWithData

-----------------------------------------------------------------------------
(* Menus and the module.                                                   *)

LEMMA MenuKeeps ==
  ASSUME LIInv, NEW m \in Objects, NEW hasData \in BOOLEAN, ContextMenu_Initialize(m, hasData)
  PROVE  LIInv'
<1> USE LifetimeAssumption
<1>0. m \in Alive /\ kind[m] = "ContextMenu"
  BY DEF ContextMenu_Initialize, Called, Alive, Counted
<1>1. data' = [data EXCEPT ![m] = hasData] /\ data \in [Objects -> BOOLEAN]
  BY Zenon DEF ContextMenu_Initialize, LIInv, TypeOK
<1>2. MenusWithData \subseteq Objects /\ Cardinality(MenusWithData) \in Nat
  BY ObjectsFinite DEF MenusWithData, Alive
<1>3. Alive' = Alive
  BY DEF Alive, ContextMenu_Initialize
<1>4. \A x \in Alive \ {m} : data'[x] <=> data[x]
  BY <1>1, Zenon DEF Alive
<1>5. data'[m] <=> hasData
  BY <1>0, <1>1, Zenon DEF Alive
<1>6. dataRefs = Cardinality(MenusWithData)
  BY DEF LIInv, ReferencesBalance, MenusWithData
<1>7. m \in MenusWithData <=> data[m]
  BY <1>0, Zenon DEF MenusWithData
<1>8. dataRefs' = dataRefs - (IF m \in MenusWithData THEN 1 ELSE 0) + (IF hasData THEN 1 ELSE 0)
  BY <1>7, Zenon DEF ContextMenu_Initialize
<1>9. MenusWithData' = (MenusWithData \ {m}) \cup (IF hasData THEN {m} ELSE {})
  <2>1. CASE hasData
    BY <1>0, <1>3, <1>4, <1>5, <2>1, Zenon DEF MenusWithData
  <2>2. CASE ~hasData
    BY <1>0, <1>3, <1>4, <1>5, <2>2, Zenon DEF MenusWithData
  <2> QED
    BY <2>1, <2>2
<1>10. Cardinality(MenusWithData \ {m}) =
         Cardinality(MenusWithData) - (IF m \in MenusWithData THEN 1 ELSE 0)
  <2>1. CASE m \in MenusWithData
    BY <1>2, <2>1, OneLess
  <2>2. CASE m \notin MenusWithData
    <3>1. MenusWithData \ {m} = MenusWithData
      BY <2>2
    <3>2. Cardinality(MenusWithData \ {m}) = Cardinality(MenusWithData)
      BY <3>1, Zenon
    <3> QED
      BY <1>2, <2>2, <3>2
  <2> QED
    BY <2>1, <2>2
<1>11. Cardinality(MenusWithData') =
         Cardinality(MenusWithData \ {m}) + (IF hasData THEN 1 ELSE 0)
  <2>1. CASE hasData
    BY <1>2, <1>9, <2>1, OneMore
  <2>2. CASE ~hasData
    <3>1. MenusWithData' = MenusWithData \ {m}
      BY <1>9, <2>2
    <3>2. Cardinality(MenusWithData \ {m}) \in Nat
      BY <1>2, ObjectsFinite
    <3> QED
      BY <2>2, <3>1, <3>2
  <2> QED
    BY <2>1, <2>2
<1>12. dataRefs' = Cardinality(MenusWithData') /\ dataRefs' \in Int
  BY <1>2, <1>6, <1>8, <1>10, <1>11
<1>13. UNCHANGED <<loaded, g_cRefModule, locks, kind, cRef, clients, folder>>
  BY DEF ContextMenu_Initialize
<1>14. data' \in [Objects -> BOOLEAN]
  BY <1>1, Zenon
<1>15. TypeOK'
  BY <1>12, <1>13, <1>14 DEF LIInv, TypeOK
<1>16. DataOfMenu'
  BY <1>0, <1>1, <1>13, Zenon DEF LIInv, Held, DataOfMenu
<1>17. FolderOfEnumerator' /\ Module' /\ ModuleCountIsRight'
  BY <1>13 DEF LIInv, Held, FolderOfEnumerator, Module, ModuleCountIsRight, Alive
<1>18. \A x \in Objects :
         IF x \in Alive' THEN cRef'[x] = clients'[x] + Cardinality(Enumerators(x)')
                         ELSE clients'[x] = 0 /\ Enumerators(x)' = {}
  BY <1>13 DEF LIInv, ReferencesBalance, Alive, Enumerators
<1> QED
  BY <1>12, <1>15, <1>16, <1>17, <1>18 DEF LIInv, Held, ReferencesBalance, MenusWithData

LEMMA ModuleKeeps ==
  ASSUME LIInv,
         DllCanUnloadNow \/ \E f \in Objects, lock \in BOOLEAN : LockServer(f, lock)
  PROVE  LIInv'
<1>1. UNCHANGED objectVars
  BY DEF DllCanUnloadNow, LockServer
<1>2. Held' /\ ReferencesBalance'
  BY <1>1 DEF LIInv, objectVars, Held, FolderOfEnumerator, DataOfMenu, ReferencesBalance,
     Alive, Enumerators
<1>3. UNCHANGED {o \in Alive : kind[o] \in Counted}
  BY <1>1 DEF objectVars, Alive
<1>4. Cardinality({o \in Alive : kind[o] \in Counted}) \in Nat
  BY ObjectsFinite DEF Alive
<1>5. g_cRefModule = Cardinality({o \in Alive : kind[o] \in Counted}) + locks
      /\ g_cRefModule \in Int /\ locks \in Nat
  BY DEF LIInv, TypeOK, ModuleCountIsRight, Module
<1>6. ModuleCountIsRight' /\ Module' /\ g_cRefModule' \in Int
  <2>1. CASE DllCanUnloadNow
    BY <1>3, <1>5, <2>1 DEF DllCanUnloadNow, ModuleCountIsRight, Module
  <2>2. ASSUME NEW f \in Objects, NEW lock \in BOOLEAN, LockServer(f, lock)
        PROVE  ModuleCountIsRight' /\ Module' /\ g_cRefModule' \in Int
    <3>1. loaded /\ loaded' = loaded
      BY <2>2, Zenon DEF LockServer, Called
    <3>2. \/ locks' = locks + 1 /\ g_cRefModule' = g_cRefModule + 1
          \/ locks > 0 /\ locks' = locks - 1 /\ g_cRefModule' = g_cRefModule - 1
      BY <2>2, Zenon DEF LockServer
    <3>3. locks' \in Nat /\ g_cRefModule' \in Int
          /\ g_cRefModule' = Cardinality({x \in Alive : kind[x] \in Counted}) + locks'
      BY <1>4, <1>5, <3>2
    <3> QED
      BY <1>3, <3>1, <3>3 DEF ModuleCountIsRight, Module
  <2> QED
    BY <2>1, <2>2
<1>7. loaded' \in BOOLEAN
  BY Zenon DEF DllCanUnloadNow, LockServer, LIInv, TypeOK
<1>8. TypeOK'
  BY <1>1, <1>6, <1>7 DEF LIInv, TypeOK, Module, objectVars
<1> QED
  BY <1>2, <1>6, <1>8 DEF LIInv

-----------------------------------------------------------------------------

LEMMA FactoriesKeep ==
  ASSUME LIInv, NEW c \in Objects, NEW o \in Objects, NEW result \in {0, 1},
         Factories(c, o, result)
  PROVE  LIInv'
<1>1. CASE EnumObjects(c, o, result)
  BY <1>1, EnumObjectsKeeps
<1>2. CASE ~EnumObjects(c, o, result)
  <2>1. loaded /\ \E k \in (Counted \cup Uncounted) \ {"EnumIDList"} : Create(o, k, result)
    BY <1>2 DEF Factories, CClassFactory_CreateInstance, BindToObject, CreateCommandProvider,
       GetCommands, CommandEnumerator_Next, EnumSubCommands, Called, Counted, Uncounted
  <2> QED
    BY <2>1, CreateKeeps
<1> QED
  BY <1>1, <1>2

LEMMA LNextIInv == LIInv /\ [Next]_vars => LIInv'
<1> SUFFICES ASSUME LIInv, [Next]_vars PROVE LIInv'
  OBVIOUS
<1>1. ASSUME NEW o \in Objects, NEW result \in {0, 1}, DllGetClassObject(o, result)
      PROVE  LIInv'
  BY <1>1, CreateKeeps DEF DllGetClassObject, Counted, Uncounted
<1>2. ASSUME NEW c \in Objects, NEW o \in Objects, NEW result \in {0, 1},
             Factories(c, o, result)
      PROVE  LIInv'
  BY <1>2, FactoriesKeep
<1>3. ASSUME NEW f \in Objects, NEW o \in Objects, CreateShellView(f, o) PROVE LIInv'
  BY <1>3, CreateShellViewKeeps
<1>4. ASSUME NEW f \in Objects, NEW o \in Objects, CreateShellViewFails(f, o)
      PROVE  LIInv'
  BY <1>4, CreateKeeps DEF CreateShellViewFails, Called, Counted, Uncounted
<1>5. ASSUME NEW o \in Objects, AddRef(o) \/ Release(o) PROVE LIInv'
  BY <1>5, AddRefReleaseKeeps
<1>6. ASSUME NEW o \in Objects, Delete(o) PROVE LIInv'
  BY <1>6, DeleteKeeps
<1>7. ASSUME NEW m \in Objects, NEW b \in BOOLEAN, ContextMenu_Initialize(m, b)
      PROVE  LIInv'
  BY <1>7, MenuKeeps
<1>8. CASE DllCanUnloadNow \/ \E f \in Objects, lock \in BOOLEAN : LockServer(f, lock)
  BY <1>8, ModuleKeeps
<1>9. CASE UNCHANGED vars
  BY <1>9 DEF vars, objectVars, LIInv, TypeOK, Held, FolderOfEnumerator, DataOfMenu, Module,
     ModuleCountIsRight, ReferencesBalance, Alive, Enumerators
<1> QED
  BY <1>1, <1>2, <1>3, <1>4, <1>5, <1>6, <1>7, <1>8, <1>9 DEF Next

LEMMA LInvariance == Spec => []LIInv
  BY LInitIInv, LNextIInv, PTL DEF Spec

\* Every variable keeps its type, and no reference count goes below zero
\* (DllLifetime!TypeOK).
THEOREM LifetimeTypeCorrect == Spec => []TypeOK
  BY LInvariance, PTL DEF LIInv

\* g_cRefModule counts the live objects whose constructors call DllAddRef, and the locks
\* (DllLifetime!ModuleCountIsRight).
THEOREM ModuleCountHolds == Spec => []ModuleCountIsRight
  BY LInvariance, PTL DEF LIInv

\* Every cRef is the number of references there are, and menus hold exactly the data
\* objects they have (DllLifetime!ReferencesBalance).
THEOREM ReferencesBalanceHolds == Spec => []ReferencesBalance
  BY LInvariance, PTL DEF LIInv

=============================================================================
