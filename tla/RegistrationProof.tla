-------------------------- MODULE RegistrationProof --------------------------
(***************************************************************************)
(* Proofs about Registration: whichever registry calls fail, whichever     *)
(* values are lost, and wherever the process is ended.                     *)
(***************************************************************************)
EXTENDS Registration, SequenceTheorems, TLAPS

Class == "CLSID_FolderViewImpl"
Menu == "CLSID_FolderViewImplContextMenu"
FolderType == "FolderViewSampleType"
Entry == "MyComputer_NameSpace"

-----------------------------------------------------------------------------
(* Keys: the first name of a key decides in which tree it is.              *)

Names == {Class, Menu, FolderType, Entry, "shellex", "ContextMenuHandlers", "InprocServer32",
          "DefaultIcon", "ShellFolder", "MayChangeDefaultMenu"}
Keys == {k \in Seq(Names) : Len(k) >= 1}

\* A key below a key begins with the same name.
LEMMA Deeper ==
  ASSUME NEW key \in Keys, NEW name \in Names
  PROVE  Append(key, name) \in Keys /\ Append(key, name)[1] = key[1]
BY DEF Keys

LEMMA OnTheWay ==
  ASSUME NEW key \in Keys, NEW k \in OnTheWayTo(key)
  PROVE  k \in Keys /\ k[1] = key[1]
<1>1. PICK n \in 1 .. Len(key) : k = SubSeq(key, 1, n)
  BY DEF OnTheWayTo
<1>2. key \in Seq(Names) /\ n \in Nat /\ n >= 1 /\ n <= Len(key)
  BY <1>1 DEF Keys
<1>3. k \in Seq(Names) /\ Len(k) = n /\ k[1] = key[1]
  BY <1>1, <1>2
<1> QED
  BY <1>2, <1>3 DEF Keys

LEMMA PrefixIsFirstName ==
  ASSUME NEW name \in Names, NEW k \in Keys
  PROVE  IsPrefix(<<name>>, k) <=> k[1] = name
<1>1. k \in Seq(Names) /\ Len(k) \in Nat /\ Len(k) >= 1
  BY DEF Keys
<1>2. /\ <<name>> \in Seq(Names) /\ Len(<<name>>) = 1
      /\ SubSeq(<<name>>, 1, 1) = <<name>>
  <2>1. <<name>> \in Seq(Names) /\ Len(<<name>>) = 1
    OBVIOUS
  <2> QED
    BY <2>1, SubSeqFull, Zenon
<1>3. /\ SubSeq(k, 1, 1) \in Seq(Names) /\ Len(SubSeq(k, 1, 1)) = 1
      /\ SubSeq(k, 1, 1)[1] = k[1]
  BY <1>1
<1>4. SubSeq(k, 1, 1) = <<name>> <=> k[1] = name
  <2> DEFINE first == SubSeq(k, 1, 1)
             one == <<name>>
  <2>0. one \in Seq(Names) /\ Len(one) = 1 /\ one[1] = name
    BY <1>2
  <2> HIDE DEF first, one
  <2>1. first \in Seq(Names) /\ Len(first) = 1 /\ first[1] = k[1]
    BY <1>3 DEF first
  <2>2. ASSUME k[1] = name PROVE first = one
    <3>1. \A i \in 1 .. Len(first) : first[i] = one[i]
      BY <2>0, <2>1, <2>2
    <3> QED
      BY <2>0, <2>1, <3>1, SeqEqual
  <2>3. ASSUME first = one PROVE k[1] = name
    BY <2>0, <2>1, <2>3
  <2> QED
    BY <2>2, <2>3 DEF first, one
<1> QED
  BY <1>1, <1>2, <1>4 DEF IsPrefix

\* The table names keys of the two classes and of the folder type.
LEMMA Table ==
  /\ Len(rgRegEntries) = 17 /\ Rows = 1 .. 17
  /\ \A i \in Rows : rgRegEntries[i] \in Keys /\ rgRegEntries[i][1] \in {Class, Menu, FolderType}
<1>1. /\ FolderViewImpl \in Keys /\ FolderViewImpl[1] = Class
      /\ FolderViewImplContextMenu \in Keys /\ FolderViewImplContextMenu[1] = Menu
      /\ FolderViewSampleType \in Keys /\ FolderViewSampleType[1] = FolderType
  BY DEF FolderViewImpl, FolderViewImplContextMenu, FolderViewSampleType,
         Class, Menu, FolderType, Keys, Names
<1>2. ASSUME NEW key \in Keys
      PROVE  /\ shellex(key) \in Keys /\ shellex(key)[1] = key[1]
             /\ ContextMenuHandlers(key) \in Keys /\ ContextMenuHandlers(key)[1] = key[1]
             /\ InprocServer32(key) \in Keys /\ InprocServer32(key)[1] = key[1]
  BY Deeper DEF shellex, ContextMenuHandlers, InprocServer32, Names
<1>3. ASSUME NEW key \in Keys
      PROVE  /\ key \o FolderViewImplContextMenu \in Keys
             /\ (key \o FolderViewImplContextMenu)[1] = key[1]
  BY <1>1 DEF Keys
<1>4. Len(rgRegEntries) = 17 /\ Rows = 1 .. 17 /\ Rows = 1 .. Len(rgRegEntries)
  BY DEF rgRegEntries, Rows
<1> DEFINE Good == {key \in Keys : key[1] \in {Class, Menu, FolderType}}
<1>5. /\ FolderViewImpl \in Good /\ InprocServer32(FolderViewImpl) \in Good
      /\ Append(FolderViewImpl, "DefaultIcon") \in Good /\ Append(FolderViewImpl, "ShellFolder") \in Good
      /\ shellex(FolderViewImpl) \in Good /\ ContextMenuHandlers(FolderViewImpl) \in Good
      /\ ContextMenuHandlers(FolderViewImpl) \o FolderViewImplContextMenu \in Good
  <2>1. /\ FolderViewImpl \in Good /\ InprocServer32(FolderViewImpl) \in Good
        /\ shellex(FolderViewImpl) \in Good /\ ContextMenuHandlers(FolderViewImpl) \in Good
    BY <1>1, <1>2
  <2>2. /\ Append(FolderViewImpl, "DefaultIcon") \in Good
        /\ Append(FolderViewImpl, "ShellFolder") \in Good
    BY <2>1, Deeper DEF Names
  <2> QED
    BY <1>3, <2>1, <2>2
<1>6. /\ FolderViewImplContextMenu \in Good /\ InprocServer32(FolderViewImplContextMenu) \in Good
      /\ Append(shellex(FolderViewImplContextMenu), "MayChangeDefaultMenu") \in Good
      /\ ContextMenuHandlers(FolderViewSampleType) \o FolderViewImplContextMenu \in Good
  <2>1. /\ FolderViewImplContextMenu \in Good /\ InprocServer32(FolderViewImplContextMenu) \in Good
        /\ shellex(FolderViewImplContextMenu) \in Good
        /\ ContextMenuHandlers(FolderViewSampleType) \in Good
    BY <1>1, <1>2
  <2>2. Append(shellex(FolderViewImplContextMenu), "MayChangeDefaultMenu") \in Good
    BY <2>1, Deeper DEF Names
  <2> QED
    BY <1>3, <2>1, <2>2
<1> HIDE DEF Good
<1>7. rgRegEntries \in Seq(Good)
  BY <1>5, <1>6, SMTT(30) DEF rgRegEntries
<1> QED
  <2>1. ASSUME NEW i \in 1 .. Len(rgRegEntries) PROVE rgRegEntries[i] \in Good
    BY <1>7
  <2> QED
    BY <1>4, <2>1 DEF Good

\* What is known of a key by its first name.
LEMMA FirstNames ==
  ASSUME NEW k \in AllKeys
  PROVE  /\ k \in Keys /\ k[1] \in {Class, Menu, FolderType, Entry}
         /\ k[1] = Entry <=> k = NameSpace
         /\ k[1] = Class <=> k \in FolderKeys
<1>1. CASE k = NameSpace
  <2>1. k \in Keys /\ k[1] = Entry
    BY <1>1 DEF NameSpace, Entry, Keys, Names
  <2>2. Entry # Class /\ Class \in Names
    BY DEF Entry, Class, Names
  <2>3. k \notin FolderKeys
    BY <2>1, <2>2, PrefixIsFirstName DEF FolderKeys, FolderViewImpl, Class, Names
  <2> QED
    BY <1>1, <2>1, <2>2, <2>3
<1>2. CASE \E i \in Rows : k \in OnTheWayTo(rgRegEntries[i])
  <2>1. PICK i \in Rows : k \in OnTheWayTo(rgRegEntries[i])
    BY <1>2
  <2>2. k \in Keys /\ k[1] \in {Class, Menu, FolderType}
    BY <2>1, Table, OnTheWay
  <2>3. k[1] # Entry /\ k # NameSpace
    BY <2>2 DEF Class, Menu, FolderType, Entry, NameSpace
  <2>4. k[1] = Class <=> k \in FolderKeys
    BY <2>2, PrefixIsFirstName DEF FolderKeys, FolderViewImpl, Class, Names
  <2> QED
    BY <2>2, <2>3, <2>4
<1>3. k = NameSpace \/ \E i \in Rows : k \in OnTheWayTo(rgRegEntries[i])
  <2>1. k \in TableKeys \/ k = NameSpace
    BY DEF AllKeys
  <2>2. ASSUME k \in TableKeys PROVE \E i \in Rows : k \in OnTheWayTo(rgRegEntries[i])
    BY <2>2, Zenon DEF TableKeys
  <2> QED
    BY <2>1, <2>2
<1> QED
  BY <1>1, <1>2, <1>3, Zenon

\* Values of other trees stay.
OtherValuesStay(name) == \A i \in written : rgRegEntries[i][1] # name => i \in written'

LEMMA TreeDeleted ==
  ASSUME keys \subseteq AllKeys, NEW name \in Names, RegDeleteTree(<<name>>)
  PROVE  keys' = {k \in keys : k[1] # name} /\ OtherValuesStay(name)
<1>1. \A k \in keys : k \in Tree(<<name>>) <=> k[1] = name
  BY FirstNames, PrefixIsFirstName DEF Tree
<1>2. Tree(<<name>>) \subseteq keys
  BY DEF Tree
<1> QED
  BY <1>1, <1>2 DEF RegDeleteTree, RemoveKeys, OtherValuesStay

LEMMA TreeNotDeleted ==
  ASSUME keys \subseteq AllKeys, NEW name \in Names, RegDeleteTreeFails(<<name>>)
  PROVE  /\ keys' \subseteq keys /\ <<name>> \in keys'
         /\ \A k \in keys : k[1] # name => k \in keys'
         /\ OtherValuesStay(name)
<1>1. \A k \in Tree(<<name>>) : k \in keys /\ k[1] = name
  BY FirstNames, PrefixIsFirstName DEF Tree
<1> QED
  BY <1>1 DEF RegDeleteTreeFails, RemoveKeys, OtherValuesStay

-----------------------------------------------------------------------------
(* The inductive invariant.                                                *)

Unregistering == {"context_menu", "folder_type", "folder_namespace", "folder_class"}

Types ==
  /\ keys \subseteq AllKeys
  /\ row \in Rows
  /\ pc \in {"idle", "entry", "namespace"} \cup Unregistering

\* What a call has been asked for, and that none has returned while one is under way.
Calls ==
  /\ pc = "idle" => row = 1 /\ hr = "S_OK" /\ failures = {}
  /\ pc # "idle" => last = Nothing
  /\ pc \in {"entry", "namespace"} => call = "register" /\ hr = "S_OK" /\ failures = {}
  /\ pc \in Unregistering => \/ call = "register" /\ hr = "failed"
                             \/ call = "unregister" /\ hr = "S_OK"

InPlace(i) ==
  /\ OnTheWayTo(rgRegEntries[i]) \subseteq keys
  /\ i \in NoValue \cup LostRows \cup written

\* The loop leaves row after row in place.
Made ==
  /\ pc = "entry" => \A i \in 1 .. row - 1 : InPlace(i)
  /\ pc = "namespace" => \A i \in Rows : InPlace(i)

\* No deletion has failed exactly when nothing is left in these trees.
NothingLeft(names) == failures = {} <=> \A k \in keys : k[1] \notin names

\* How far DllUnregisterServer has come; the class goes last, after the entry.
Undone ==
  /\ pc = "context_menu" => failures = {}
  /\ pc = "folder_type" => NothingLeft({Menu})
  /\ pc = "folder_namespace" => NothingLeft({Menu, FolderType})
  /\ pc = "folder_class" => /\ NothingLeft({Menu, FolderType})
                            /\ \A k \in keys : k[1] # Entry

RIInv ==
  /\ Types /\ Calls /\ Made /\ Undone
  /\ NameSpaceHasClass /\ RegisterAllOrNothing /\ UnregisterTellsTheTruth

\* Nothing a deletion of another tree does takes the class away.
LEMMA OtherTreeKeepsClass ==
  ASSUME Types, NameSpaceHasClass, keys' \subseteq keys,
         \A k \in keys : k[1] = Class => k \in keys',
         NEW name, name # Class, OtherValuesStay(name)
  PROVE  NameSpaceHasClass'
<1>1. \A k \in FolderKeys : k[1] = Class
  BY FirstNames DEF FolderKeys
<1>2. \A i \in FolderRows : rgRegEntries[i][1] = Class
  BY <1>1 DEF FolderRows
<1> QED
  BY <1>1, <1>2 DEF NameSpaceHasClass, OtherValuesStay

LEMMA RInitIInv == Init => RIInv
<1> SUFFICES ASSUME Init PROVE RIInv
  OBVIOUS
<1>1. Types /\ Calls
  BY Table DEF Init, Types, Calls, Unregistering
<1>2. Made /\ Undone
  BY DEF Init, Made, Undone
<1>3. NameSpaceHasClass /\ RegisterAllOrNothing /\ UnregisterTellsTheTruth
  BY DEF Init, NameSpaceHasClass, RegisterAllOrNothing, UnregisterTellsTheTruth, Nothing
<1> QED
  BY <1>1, <1>2, <1>3 DEF RIInv

\* While a call is under way there is no result that could be wrong.
LEMMA NoResultYet == last = Nothing => RegisterAllOrNothing /\ UnregisterTellsTheTruth
BY DEF Nothing, RegisterAllOrNothing, UnregisterTellsTheTruth

\* DllRegisterServer and DllUnregisterServer begin.
LEMMA BeginKeeps == RIInv /\ (DllRegisterServer \/ DllUnregisterServer) => RIInv'
<1> SUFFICES ASSUME RIInv, DllRegisterServer \/ DllUnregisterServer PROVE RIInv'
  OBVIOUS
<1>1. /\ pc = "idle" /\ last' = Nothing /\ UNCHANGED <<keys, written, row, hr, failures>>
      /\ \/ pc' = "entry" /\ call' = "register"
         \/ pc' = "context_menu" /\ call' = "unregister"
  BY DEF DllRegisterServer, DllUnregisterServer
<1>2. row = 1 /\ hr = "S_OK" /\ failures = {}
  BY <1>1 DEF RIInv, Calls
<1>3. Types' /\ Calls'
  BY <1>1, <1>2 DEF RIInv, Types, Calls, Unregistering
<1>4. Made'
  BY <1>1, <1>2 DEF Made
<1>5. Undone'
  BY <1>1, <1>2 DEF Undone
<1>6. NameSpaceHasClass'
  BY <1>1 DEF RIInv, NameSpaceHasClass
<1>7. RegisterAllOrNothing' /\ UnregisterTellsTheTruth'
  BY <1>1 DEF Nothing, RegisterAllOrNothing, UnregisterTellsTheTruth
<1> QED
  BY <1>3, <1>4, <1>5, <1>6, <1>7 DEF RIInv

\* A row adds keys of the table and no entry.
LEMMA RowKeys ==
  ASSUME Types, RegCreateKeyEx(rgRegEntries[row])
  PROVE  /\ keys \subseteq keys' /\ keys' \subseteq AllKeys
         /\ OnTheWayTo(rgRegEntries[row]) \subseteq keys'
         /\ \A k \in keys' \ keys : k[1] # Entry
<1>1. keys' = keys \cup OnTheWayTo(rgRegEntries[row]) /\ row \in Rows
  BY DEF RegCreateKeyEx, Types
<1>2. OnTheWayTo(rgRegEntries[row]) \subseteq TableKeys
  BY <1>1 DEF TableKeys
<1>3. \A k \in OnTheWayTo(rgRegEntries[row]) : k[1] # Entry
  BY <1>1, Table, OnTheWay DEF Class, Menu, FolderType, Entry
<1> QED
  BY <1>1, <1>2, <1>3 DEF Types, AllKeys

LEMMA MoreKeysKeepClass ==
  ASSUME Types, NameSpaceHasClass, keys \subseteq keys', keys' \subseteq AllKeys,
         written \subseteq written', \A k \in keys' \ keys : k[1] # Entry
  PROVE  NameSpaceHasClass'
<1>1. ASSUME NameSpace \in keys' PROVE NameSpace \in keys
  BY <1>1, FirstNames
<1> QED
  BY <1>1 DEF NameSpaceHasClass

LEMMA RegisterEntryKeeps == RIInv /\ RegisterEntry => RIInv'
<1> SUFFICES ASSUME RIInv, RegisterEntry PROVE RIInv'
  OBVIOUS
<1>1. /\ pc = "entry" /\ Types /\ NameSpaceHasClass /\ last = Nothing
      /\ call = "register" /\ hr = "S_OK" /\ failures = {}
  BY DEF RIInv, RegisterEntry, Calls
<1>2. /\ keys \subseteq keys' /\ keys' \subseteq AllKeys
      /\ OnTheWayTo(rgRegEntries[row]) \subseteq keys'
      /\ \A k \in keys' \ keys : k[1] # Entry
  BY <1>1, RowKeys DEF RegisterEntry
<1>3. written \subseteq written' /\ row \in NoValue \cup LostRows \cup written'
  BY DEF RegisterEntry
<1>4. /\ UNCHANGED <<call, hr, failures, last>>
      /\ \/ row = 17 /\ pc' = "namespace" /\ row' = 1
         \/ row # 17 /\ pc' = "entry" /\ row' = row + 1
  BY <1>1, Table DEF RegisterEntry
<1>5. row \in 1 .. 17 /\ Rows = 1 .. 17
  BY <1>1, Table DEF Types
<1>6. Types' /\ Calls' /\ Undone'
  BY <1>1, <1>2, <1>4, <1>5 DEF Types, Calls, Undone, Unregistering
<1>7. Made'
  <2>1. \A i \in 1 .. row - 1 : InPlace(i)
    BY <1>1 DEF RIInv, Made
  <2>2. \A i \in 1 .. row : InPlace(i)'
    BY <1>2, <1>3, <1>5, <2>1 DEF InPlace
  <2>3. CASE row = 17 /\ pc' = "namespace" /\ row' = 1
    BY <1>5, <2>2, <2>3 DEF Made
  <2>4. CASE row # 17 /\ pc' = "entry" /\ row' = row + 1
    BY <1>5, <2>2, <2>4 DEF Made
  <2> QED
    BY <1>4, <2>3, <2>4
<1>8. NameSpaceHasClass'
  BY <1>1, <1>2, <1>3, MoreKeysKeepClass
<1>9. last' = Nothing
  BY <1>1, <1>4
<1>10. RegisterAllOrNothing' /\ UnregisterTellsTheTruth'
  BY <1>9 DEF Nothing, RegisterAllOrNothing, UnregisterTellsTheTruth
<1> QED
  BY <1>6, <1>7, <1>8, <1>10 DEF RIInv

LEMMA FailureKeeps == RIInv /\ (RegisterEntryFails \/ RegisterNameSpaceFails) => RIInv'
<1> SUFFICES ASSUME RIInv, RegisterEntryFails \/ RegisterNameSpaceFails PROVE RIInv'
  OBVIOUS
<1>1. /\ pc \in {"entry", "namespace"} /\ Types /\ NameSpaceHasClass
      /\ last = Nothing /\ call = "register" /\ failures = {}
  BY DEF RIInv, RegisterEntryFails, RegisterNameSpaceFails, Calls
<1>2. /\ hr' = "failed" /\ pc' = "context_menu" /\ row' = 1
      /\ UNCHANGED <<call, failures, last>>
  BY DEF RegisterEntryFails, RegisterNameSpaceFails, GivesUp
<1>3. keys \subseteq keys' /\ keys' \subseteq AllKeys /\ \A k \in keys' \ keys : k[1] # Entry
  <2>1. CASE RegCreateKeyEx(rgRegEntries[row])
    BY <1>1, <2>1, RowKeys
  <2>2. CASE UNCHANGED keys
    BY <1>1, <2>2 DEF Types
  <2> QED
    BY <2>1, <2>2 DEF RegisterEntryFails, RegisterNameSpaceFails
<1>4. NameSpaceHasClass'
  <2>1. written' = written
    BY DEF RegisterEntryFails, RegisterNameSpaceFails
  <2> QED
    BY <1>1, <1>3, <2>1, MoreKeysKeepClass
<1>5. Types' /\ Calls' /\ Made' /\ Undone'
  BY <1>1, <1>2, <1>3, Table DEF Types, Calls, Made, Undone, Unregistering
<1>6. last' = Nothing
  BY <1>1, <1>2
<1>7. RegisterAllOrNothing' /\ UnregisterTellsTheTruth'
  BY <1>6 DEF Nothing, RegisterAllOrNothing, UnregisterTellsTheTruth
<1> QED
  BY <1>4, <1>5, <1>7 DEF RIInv

LEMMA RegisterNameSpaceKeeps == RIInv /\ RegisterNameSpace => RIInv'
<1> SUFFICES ASSUME RIInv, RegisterNameSpace PROVE RIInv'
  OBVIOUS
<1>1. /\ pc = "namespace" /\ call = "register" /\ keys \subseteq AllKeys
      /\ \A i \in Rows : InPlace(i)
  BY DEF RIInv, RegisterNameSpace, Calls, Made, Types
<1>2. /\ pc' = "idle" /\ row' = 1 /\ hr' = "S_OK" /\ failures' = {} /\ UNCHANGED written
      /\ last' = [call |-> "register", hr |-> "S_OK", failures |-> {}]
  BY <1>1 DEF RegisterNameSpace, Return, Forget
<1>3. keys' = AllKeys
  <2>1. keys' = keys \cup OnTheWayTo(NameSpace)
    BY DEF RegisterNameSpace, RegCreateKeyEx
  <2>2. NameSpace \in Seq(Names) /\ Len(NameSpace) = 1
    BY DEF NameSpace, Names, Entry
  <2>3. OnTheWayTo(NameSpace) = {NameSpace}
    <3>1. SubSeq(NameSpace, 1, 1) = NameSpace
      BY <2>2, SubSeqFull
    <3> QED
      BY <2>2, <3>1 DEF OnTheWayTo
  <2>4. TableKeys \subseteq keys
    BY <1>1 DEF TableKeys, InPlace
  <2> QED
    BY <1>1, <2>1, <2>3, <2>4 DEF AllKeys
<1>4. Types' /\ Calls' /\ Made' /\ Undone'
  BY <1>2, <1>3, Table DEF Types, Calls, Made, Undone, Unregistering
<1>5. Rows \ (NoValue \cup LostRows) \subseteq written
  BY <1>1 DEF InPlace
<1>6. NameSpaceHasClass'
  BY <1>2, <1>3, <1>5 DEF NameSpaceHasClass, FolderKeys, FolderRows
<1>7. RegisterAllOrNothing' /\ UnregisterTellsTheTruth'
  BY <1>2, <1>3, <1>5 DEF RegisterAllOrNothing, UnregisterTellsTheTruth
<1> QED
  BY <1>4, <1>6, <1>7 DEF RIInv

LEMMA DeleteContextMenuKeeps == RIInv /\ DeleteContextMenu => RIInv'
<1> SUFFICES ASSUME RIInv, DeleteContextMenu PROVE RIInv'
  OBVIOUS
<1>1. /\ pc = "context_menu" /\ Types /\ NameSpaceHasClass /\ last = Nothing /\ failures = {}
      /\ keys \subseteq AllKeys
      /\ \/ call = "register" /\ hr = "failed"
         \/ call = "unregister" /\ hr = "S_OK"
  BY DEF RIInv, DeleteContextMenu, Calls, Undone, Types, Unregistering
<1>2. pc' = "folder_type" /\ UNCHANGED <<row, call, hr, last>>
  BY DEF DeleteContextMenu, Go
<1>3. /\ keys' \subseteq keys /\ NothingLeft({Menu})' /\ OtherValuesStay(Menu)
      /\ \A k \in keys : k[1] = Class => k \in keys'
  <2>1. CASE RegDeleteTree(FolderViewImplContextMenu) /\ Go("folder_type", failures)
    <3>1. /\ keys' = {k \in keys : k[1] # Menu} /\ failures' = {}
          /\ OtherValuesStay(Menu)
      BY <1>1, <2>1, TreeDeleted DEF Go, FolderViewImplContextMenu, Menu, Names
    <3> QED
      BY <3>1 DEF NothingLeft, Class, Menu
  <2>2. CASE /\ RegDeleteTreeFails(FolderViewImplContextMenu)
             /\ Go("folder_type", failures \cup {"hrCM"})
    <3>1. /\ keys' \subseteq keys /\ <<Menu>> \in keys' /\ \A k \in keys : k[1] # Menu => k \in keys'
          /\ failures' # {} /\ OtherValuesStay(Menu)
      BY <1>1, <2>2, TreeNotDeleted DEF Go, FolderViewImplContextMenu, Menu, Names
    <3>2. <<Menu>>[1] = Menu
      OBVIOUS
    <3> QED
      BY <3>1, <3>2 DEF NothingLeft, Class, Menu
  <2> QED
    BY <2>1, <2>2 DEF DeleteContextMenu
<1>4. NameSpaceHasClass'
  BY <1>1, <1>3, OtherTreeKeepsClass DEF Class, Menu, FolderType
<1>5. Types' /\ Calls' /\ Made' /\ Undone'
  BY <1>1, <1>2, <1>3 DEF Types, Calls, Made, Undone, Unregistering
<1>6. last' = Nothing
  BY <1>1, <1>2
<1>7. RegisterAllOrNothing' /\ UnregisterTellsTheTruth'
  BY <1>6 DEF Nothing, RegisterAllOrNothing, UnregisterTellsTheTruth
<1> QED
  BY <1>4, <1>5, <1>7 DEF RIInv

LEMMA DeleteFolderTypeKeeps == RIInv /\ DeleteFolderType => RIInv'
<1> SUFFICES ASSUME RIInv, DeleteFolderType PROVE RIInv'
  OBVIOUS
<1>1. /\ pc = "folder_type" /\ Types /\ NameSpaceHasClass /\ last = Nothing
      /\ NothingLeft({Menu}) /\ keys \subseteq AllKeys
      /\ \/ call = "register" /\ hr = "failed"
         \/ call = "unregister" /\ hr = "S_OK"
  BY DEF RIInv, DeleteFolderType, Calls, Undone, Types, Unregistering
<1>2. pc' = "folder_namespace" /\ UNCHANGED <<row, call, hr, last>>
  BY DEF DeleteFolderType, Go
<1>3. /\ keys' \subseteq keys /\ NothingLeft({Menu, FolderType})'
      /\ OtherValuesStay(FolderType)
      /\ \A k \in keys : k[1] = Class => k \in keys'
  <2>1. CASE RegDeleteTree(FolderViewSampleType) /\ Go("folder_namespace", failures)
    <3>1. /\ keys' = {k \in keys : k[1] # FolderType} /\ failures' = failures
          /\ OtherValuesStay(FolderType)
      BY <1>1, <2>1, TreeDeleted DEF Go, FolderViewSampleType, FolderType, Names
    <3> QED
      BY <1>1, <3>1 DEF NothingLeft, Class, Menu, FolderType
  <2>2. CASE /\ RegDeleteTreeFails(FolderViewSampleType)
             /\ Go("folder_namespace", failures \cup {"hrFT"})
    <3>1. /\ keys' \subseteq keys /\ <<FolderType>> \in keys'
          /\ \A k \in keys : k[1] # FolderType => k \in keys'
          /\ failures' # {} /\ OtherValuesStay(FolderType)
      BY <1>1, <2>2, TreeNotDeleted DEF Go, FolderViewSampleType, FolderType, Names
    <3>2. <<FolderType>>[1] = FolderType
      OBVIOUS
    <3> QED
      BY <3>1, <3>2 DEF NothingLeft, Class, FolderType
  <2> QED
    BY <2>1, <2>2 DEF DeleteFolderType
<1>4. NameSpaceHasClass'
  BY <1>1, <1>3, OtherTreeKeepsClass DEF Class, Menu, FolderType
<1>5. Types' /\ Calls' /\ Made' /\ Undone'
  BY <1>1, <1>2, <1>3 DEF Types, Calls, Made, Undone, Unregistering
<1>6. last' = Nothing
  BY <1>1, <1>2
<1>7. RegisterAllOrNothing' /\ UnregisterTellsTheTruth'
  BY <1>6 DEF Nothing, RegisterAllOrNothing, UnregisterTellsTheTruth
<1> QED
  BY <1>4, <1>5, <1>7 DEF RIInv

\* DllUnregisterServer returns: its result is right if its failures tell what is left.
LEMMA ReturnKeeps ==
  ASSUME RIInv, pc \in {"folder_namespace", "folder_class"}, NEW failed, Returns(failed),
         keys' \subseteq AllKeys, NameSpaceHasClass', failed = {} <=> keys' = {}
  PROVE  RIInv'
<1>1. \/ call = "register" /\ hr = "failed"
      \/ call = "unregister" /\ hr = "S_OK"
  BY DEF RIInv, Calls, Unregistering
<1>2. /\ pc' = "idle" /\ row' = 1 /\ hr' = "S_OK" /\ failures' = {}
      /\ last' = [call |-> call, failures |-> failed,
                  hr |-> IF call = "unregister" /\ failed # {} THEN "failed" ELSE hr]
  BY DEF Returns, Return, Forget
<1>3. Types' /\ Calls' /\ Made' /\ Undone'
  BY <1>2, Table DEF Types, Calls, Made, Undone, Unregistering
<1>4. RegisterAllOrNothing' /\ UnregisterTellsTheTruth'
  <2>1. CASE call = "register" /\ hr = "failed"
    BY <1>2, <2>1 DEF RegisterAllOrNothing, UnregisterTellsTheTruth
  <2>2. CASE call = "unregister" /\ hr = "S_OK"
    BY <1>2, <2>2 DEF RegisterAllOrNothing, UnregisterTellsTheTruth
  <2> QED
    BY <1>1, <2>1, <2>2
<1> QED
  BY <1>3, <1>4 DEF RIInv

LEMMA DeleteNameSpaceKeeps == RIInv /\ DeleteNameSpace => RIInv'
<1> SUFFICES ASSUME RIInv, DeleteNameSpace PROVE RIInv'
  OBVIOUS
<1>1. /\ pc = "folder_namespace" /\ Types /\ NameSpaceHasClass /\ last = Nothing
      /\ NothingLeft({Menu, FolderType}) /\ keys \subseteq AllKeys
      /\ \/ call = "register" /\ hr = "failed"
         \/ call = "unregister" /\ hr = "S_OK"
  BY DEF RIInv, DeleteNameSpace, Calls, Undone, Types, Unregistering
<1>2. CASE RegDeleteTree(NameSpace) /\ Go("folder_class", failures)
  <2>1. keys' = {k \in keys : k[1] # Entry} /\ OtherValuesStay(Entry)
    BY <1>1, <1>2, TreeDeleted DEF NameSpace, Entry, Names
  <2>2. pc' = "folder_class" /\ UNCHANGED <<row, call, hr, failures, last>>
    BY <1>2 DEF Go
  <2>3. NothingLeft({Menu, FolderType})' /\ \A k \in keys' : k[1] # Entry
    BY <1>1, <2>1, <2>2 DEF NothingLeft, Menu, FolderType, Entry
  <2>4. NameSpaceHasClass'
    BY <1>1, <2>1, OtherTreeKeepsClass DEF Class, Entry
  <2>5. Types' /\ Calls' /\ Made' /\ Undone'
    BY <1>1, <2>1, <2>2, <2>3 DEF Types, Calls, Made, Undone, Unregistering
  <2>6. last' = Nothing
    BY <1>1, <2>2
  <2>7. RegisterAllOrNothing' /\ UnregisterTellsTheTruth'
    BY <2>6 DEF Nothing, RegisterAllOrNothing, UnregisterTellsTheTruth
  <2> QED
    BY <2>4, <2>5, <2>7 DEF RIInv
<1>3. CASE RegDeleteTreeFails(NameSpace) /\ Returns(failures \cup {"hrSF"})
  <2>1. /\ keys' \subseteq keys /\ NameSpace \in keys'
        /\ \A k \in keys : k[1] # Entry => k \in keys'
        /\ OtherValuesStay(Entry)
    BY <1>1, <1>3, TreeNotDeleted DEF NameSpace, Entry, Names
  <2>2. NameSpaceHasClass'
    BY <1>1, <2>1, OtherTreeKeepsClass DEF Class, Entry
  <2>3. keys' \subseteq AllKeys /\ keys' # {} /\ failures \cup {"hrSF"} # {}
    BY <1>1, <2>1
  <2> QED
    BY <1>1, <1>3, <2>2, <2>3, ReturnKeeps
<1> QED
  BY <1>2, <1>3 DEF DeleteNameSpace

LEMMA DeleteFolderClassKeeps == RIInv /\ DeleteFolderClass => RIInv'
<1> SUFFICES ASSUME RIInv, DeleteFolderClass PROVE RIInv'
  OBVIOUS
<1>1. /\ pc = "folder_class" /\ NothingLeft({Menu, FolderType}) /\ keys \subseteq AllKeys
      /\ \A k \in keys : k[1] # Entry
  BY DEF RIInv, DeleteFolderClass, Undone, Types
<1>2. ASSUME keys' \subseteq keys PROVE NameSpaceHasClass'
  BY <1>1, <1>2, FirstNames DEF NameSpaceHasClass
<1>3. CASE RegDeleteTree(FolderViewImpl) /\ Returns(failures)
  <2>1. keys' = {k \in keys : k[1] # Class}
    BY <1>1, <1>3, TreeDeleted DEF FolderViewImpl, Class, Names
  <2>2. failures = {} <=> keys' = {}
    <3>1. \A k \in keys' : k[1] \in {Menu, FolderType}
      BY <1>1, <2>1, FirstNames
    <3>2. \A k \in keys : k[1] \in {Menu, FolderType} => k \in keys'
      BY <2>1 DEF Class, Menu, FolderType
    <3> QED
      BY <1>1, <2>1, <3>1, <3>2 DEF NothingLeft
  <2> QED
    BY <1>1, <1>2, <1>3, <2>1, <2>2, ReturnKeeps
<1>4. CASE RegDeleteTreeFails(FolderViewImpl) /\ Returns(failures \cup {"hrSF"})
  <2>1. keys' \subseteq keys /\ FolderViewImpl \in keys'
    BY <1>1, <1>4, TreeNotDeleted DEF FolderViewImpl, Class, Names
  <2>2. keys' \subseteq AllKeys /\ keys' # {} /\ failures \cup {"hrSF"} # {}
    BY <1>1, <2>1
  <2> QED
    BY <1>1, <1>2, <1>4, <2>1, <2>2, ReturnKeeps
<1> QED
  BY <1>3, <1>4 DEF DeleteFolderClass

LEMMA CrashKeeps == RIInv /\ Crash => RIInv'
<1> SUFFICES ASSUME RIInv, Crash PROVE RIInv'
  OBVIOUS
<1>1. /\ last = Nothing /\ pc' = "idle" /\ row' = 1 /\ hr' = "S_OK" /\ failures' = {}
      /\ UNCHANGED <<keys, written, last>>
  BY DEF RIInv, Calls, Crash, Forget
<1>2. Types' /\ Calls' /\ Made' /\ Undone' /\ NameSpaceHasClass'
  BY <1>1, Table DEF RIInv, Types, Calls, Made, Undone, Unregistering, NameSpaceHasClass
<1>3. RegisterAllOrNothing' /\ UnregisterTellsTheTruth'
  BY <1>1 DEF Nothing, RegisterAllOrNothing, UnregisterTellsTheTruth
<1> QED
  BY <1>2, <1>3 DEF RIInv

LEMMA RNextIInv == RIInv /\ [Next]_vars => RIInv'
<1> SUFFICES ASSUME RIInv, [Next]_vars PROVE RIInv'
  OBVIOUS
<1>1. CASE UNCHANGED vars
  BY <1>1 DEF vars, locals, RIInv, Types, Calls, Made, InPlace, Undone, NothingLeft,
              NameSpaceHasClass, RegisterAllOrNothing, UnregisterTellsTheTruth
<1> QED
  BY <1>1, BeginKeeps, RegisterEntryKeeps, FailureKeeps, RegisterNameSpaceKeeps,
     DeleteContextMenuKeeps, DeleteFolderTypeKeeps, DeleteNameSpaceKeeps,
     DeleteFolderClassKeeps, CrashKeeps DEF Next

LEMMA RInvariant == Spec => []RIInv
BY RInitIInv, RNextIInv, PTL DEF Spec

-----------------------------------------------------------------------------
(* Theorems.                                                               *)

\* My Computer never shows a folder whose class is not there in full, wherever a call of
\* DllRegisterServer or DllUnregisterServer fails or is cut short
\* (Registration!NameSpaceHasClass).
THEOREM NameSpaceHasClassHolds == Spec => []NameSpaceHasClass
<1>1. RIInv => NameSpaceHasClass
  BY DEF RIInv
<1> QED
  BY <1>1, RInvariant, PTL

\* A registration that succeeds is complete, and one that fails leaves nothing it could
\* delete (Registration!RegisterAllOrNothing).
THEOREM RegisterAllOrNothingHolds == Spec => []RegisterAllOrNothing
<1>1. RIInv => RegisterAllOrNothing
  BY DEF RIInv
<1> QED
  BY <1>1, RInvariant, PTL

\* DllUnregisterServer returns S_OK exactly when nothing is left
\* (Registration!UnregisterTellsTheTruth).
THEOREM UnregisterTellsTheTruthHolds == Spec => []UnregisterTellsTheTruth
<1>1. RIInv => UnregisterTellsTheTruth
  BY DEF RIInv
<1> QED
  BY <1>1, RInvariant, PTL

=============================================================================
