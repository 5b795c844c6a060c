---------------------------- MODULE Registration ----------------------------
(***************************************************************************)
(* DllRegisterServer and DllUnregisterServer (Dll.cpp) and the registry    *)
(* they leave behind.  Every registry call is a step: it may fail, and the *)
(* process may be ended after any of them, so that a later call finds what *)
(* is left.                                                                *)
(*                                                                         *)
(* A key is the sequence of names on its way down from the classes of the  *)
(* user, which is what HKEY_CLASSES_ROOT shows of them, or from the        *)
(* NameSpace key of My Computer.                                           *)
(***************************************************************************)
EXTENDS Naturals, Sequences, SequencesExt

CONSTANTS LostRows,  \* rows of rgRegEntries whose value RegSetValueEx may not write
          Faults     \* subset of {"create", "delete"}

VARIABLES keys,      \* the keys there are, of those this DLL deals with
          written,   \* rows of rgRegEntries whose value is there
          pc,        \* the registry call that is next; "idle" outside
          row,       \* i of the loop in DllRegisterServer
          call,      \* "register" or "unregister": what was asked for
          hr,        \* result of DllRegisterServer: "S_OK" or "failed"
          failures,  \* of hrCM, hrFT and hrSF, those that are failures
          last       \* the call that has returned last, its result, and the deletions
                     \* that failed in it

locals == <<row, call, hr, failures>>
vars == <<keys, written, pc, locals, last>>

FolderViewImpl == <<"CLSID_FolderViewImpl">>
FolderViewImplContextMenu == <<"CLSID_FolderViewImplContextMenu">>
FolderViewSampleType == <<"FolderViewSampleType">>
NameSpace == <<"MyComputer_NameSpace">>

shellex(key) == Append(key, "shellex")
ContextMenuHandlers(key) == Append(shellex(key), "ContextMenuHandlers")
InprocServer32(key) == Append(key, "InprocServer32")

\* The keys of the table, one per value, in its order.
rgRegEntries ==
  << FolderViewImpl, FolderViewImpl, FolderViewImpl,
     InprocServer32(FolderViewImpl), InprocServer32(FolderViewImpl),
     Append(FolderViewImpl, "DefaultIcon"),
     Append(FolderViewImpl, "ShellFolder"), Append(FolderViewImpl, "ShellFolder"),
     Append(FolderViewImpl, "ShellFolder"),
     shellex(FolderViewImpl), ContextMenuHandlers(FolderViewImpl),
     ContextMenuHandlers(FolderViewImpl) \o FolderViewImplContextMenu,
     FolderViewImplContextMenu,
     InprocServer32(FolderViewImplContextMenu), InprocServer32(FolderViewImplContextMenu),
     Append(shellex(FolderViewImplContextMenu), "MayChangeDefaultMenu"),
     ContextMenuHandlers(FolderViewSampleType) \o FolderViewImplContextMenu >>

\* The rows of type REG_NONE.
NoValue == {10, 11}

Nothing == [call |-> "none", hr |-> "S_OK", failures |-> {}]

Init ==
  /\ keys = {}
  /\ written = {}
  /\ pc = "idle"
  /\ row = 1
  /\ call = "none"
  /\ hr = "S_OK"
  /\ failures = {}
  /\ last = Nothing

\* What a call remembers goes with it.
Forget == row' = 1 /\ call' = "none" /\ hr' = "S_OK" /\ failures' = {}

Return(result, failed) ==
  /\ pc' = "idle"
  /\ Forget
  /\ last' = [call |-> call, hr |-> result, failures |-> failed]

-----------------------------------------------------------------------------
(* The registry.                                                           *)

OnTheWayTo(key) == {SubSeq(key, 1, n) : n \in 1 .. Len(key)}

\* RegCreateKeyEx makes the keys on the way as well.
RegCreateKeyEx(key) == keys' = keys \cup OnTheWayTo(key)

Tree(key) == {k \in keys : IsPrefix(key, k)}

\* A key takes its values with it.
RemoveKeys(gone) ==
  /\ keys' = keys \ gone
  /\ written' = {i \in written : rgRegEntries[i] \notin gone}

\* RegDeleteTree deletes from the leaves upwards.  If it fails, some may be gone.
RegDeleteTreeFails(key) ==
  /\ "delete" \in Faults
  /\ key \in keys
  /\ \E gone \in SUBSET (Tree(key) \ {key}) :
       /\ \A k \in gone : Tree(k) \subseteq gone
       /\ RemoveKeys(gone)

\* A key that is not there counts as deleted.
RegDeleteTree(key) == RemoveKeys(Tree(key))

-----------------------------------------------------------------------------
(* DllRegisterServer.                                                      *)

DllRegisterServer ==
  /\ pc = "idle"
  /\ pc' = "entry"
  /\ call' = "register"
  /\ last' = Nothing
  /\ UNCHANGED <<keys, written, row, hr, failures>>

\* One round of the loop.  Nobody looks at the result of RegSetValueEx.
RegisterEntry ==
  /\ pc = "entry"
  /\ RegCreateKeyEx(rgRegEntries[row])
  /\ \/ written' = written \cup ({row} \ NoValue)
     \/ row \in LostRows /\ UNCHANGED written
  /\ IF row = Len(rgRegEntries)
       THEN pc' = "namespace" /\ row' = 1
       ELSE row' = row + 1 /\ UNCHANGED pc
  /\ UNCHANGED <<call, hr, failures, last>>

\* Mutant of GivesUp: what has been added stays.
GivesUpAtOnce == Return("failed", {})

\* DllRegisterServer fails: it calls DllUnregisterServer before it returns.
GivesUp ==
  /\ hr' = "failed"
  /\ pc' = "context_menu"
  /\ row' = 1
  /\ UNCHANGED <<call, failures, last>>

\* The key cannot be made, or what is to be its value cannot be formatted.
RegisterEntryFails ==
  /\ pc = "entry"
  /\ "create" \in Faults
  /\ RegCreateKeyEx(rgRegEntries[row]) \/ UNCHANGED keys
  /\ GivesUp
  /\ UNCHANGED written

RegisterNameSpace ==
  /\ pc = "namespace"
  /\ RegCreateKeyEx(NameSpace)
  /\ Return("S_OK", {})
  /\ UNCHANGED written

RegisterNameSpaceFails ==
  /\ pc = "namespace"
  /\ "create" \in Faults
  /\ GivesUp
  /\ UNCHANGED <<keys, written>>

-----------------------------------------------------------------------------
(* DllUnregisterServer, for its own sake or to undo a failed registration. *)

DllUnregisterServer ==
  /\ pc = "idle"
  /\ pc' = "context_menu"
  /\ call' = "unregister"
  /\ last' = Nothing
  /\ UNCHANGED <<keys, written, row, hr, failures>>

Go(label, failed) ==
  /\ pc' = label
  /\ failures' = failed
  /\ UNCHANGED <<row, call, hr, last>>

Results == {"hrCM", "hrFT", "hrSF"}

DeleteContextMenu ==
  /\ pc = "context_menu"
  /\ \/ RegDeleteTree(FolderViewImplContextMenu) /\ Go("folder_type", failures)
     \/ /\ RegDeleteTreeFails(FolderViewImplContextMenu)
        /\ Go("folder_type", failures \cup {"hrCM"})

DeleteFolderType ==
  /\ pc = "folder_type"
  /\ \/ RegDeleteTree(FolderViewSampleType) /\ Go("folder_namespace", failures)
     \/ /\ RegDeleteTreeFails(FolderViewSampleType)
        /\ Go("folder_namespace", failures \cup {"hrFT"})

\* Mutant of Returns: hrFT is forgotten.
ReturnsWithoutFolderType(failed) ==
  Return(IF call = "unregister" /\ failed \ {"hrFT"} # {} THEN "failed" ELSE hr, failed)

\* A registration that is being undone has failed all the same.
Returns(failed) ==
  Return(IF call = "unregister" /\ failed # {} THEN "failed" ELSE hr, failed)

\* Mutant of DeleteNameSpace: the class goes whatever became of the entry.
DeleteNameSpaceUnchecked ==
  /\ pc = "folder_namespace"
  /\ \/ RegDeleteTree(NameSpace) /\ Go("folder_class", failures)
     \/ RegDeleteTreeFails(NameSpace) /\ Go("folder_class", failures \cup {"hrSF"})

\* The class of the folder is kept while something leads Explorer to it.
DeleteNameSpace ==
  /\ pc = "folder_namespace"
  /\ \/ RegDeleteTree(NameSpace) /\ Go("folder_class", failures)
     \/ RegDeleteTreeFails(NameSpace) /\ Returns(failures \cup {"hrSF"})

DeleteFolderClass ==
  /\ pc = "folder_class"
  /\ \/ RegDeleteTree(FolderViewImpl) /\ Returns(failures)
     \/ RegDeleteTreeFails(FolderViewImpl) /\ Returns(failures \cup {"hrSF"})

-----------------------------------------------------------------------------

\* The process ends in the middle of a call.
Crash ==
  /\ pc # "idle"
  /\ pc' = "idle"
  /\ Forget
  /\ UNCHANGED <<keys, written, last>>

Next ==
  \/ DllRegisterServer \/ RegisterEntry \/ RegisterEntryFails
  \/ RegisterNameSpace \/ RegisterNameSpaceFails
  \/ DllUnregisterServer \/ DeleteContextMenu \/ DeleteFolderType
  \/ DeleteNameSpace \/ DeleteFolderClass
  \/ Crash

Spec == Init /\ [][Next]_vars

-----------------------------------------------------------------------------
(* Properties.                                                             *)

Rows == DOMAIN rgRegEntries
TableKeys == UNION {OnTheWayTo(rgRegEntries[i]) : i \in Rows}
AllKeys == TableKeys \cup {NameSpace}
FolderKeys == {k \in AllKeys : IsPrefix(FolderViewImpl, k)}
FolderRows == {i \in Rows : rgRegEntries[i] \in FolderKeys}

\* My Computer never shows a folder whose class is not there with all its keys and
\* values, but for values whose writing failed unnoticed: not between the steps of a
\* call, not after one that was cut short or has failed, and not while what was
\* registered before is registered or removed again.
NameSpaceHasClass ==
  NameSpace \in keys =>
    /\ FolderKeys \subseteq keys
    /\ FolderRows \ (NoValue \cup LostRows) \subseteq written

\* A registration that returns S_OK has left everything in place, whatever it found,
\* but for values whose writing failed unnoticed; one that fails leaves nothing, of
\* an earlier one either, unless something could not be deleted.
RegisterAllOrNothing ==
  last.call = "register" =>
    IF last.hr = "S_OK"
      THEN keys = AllKeys /\ Rows \ (NoValue \cup LostRows) \subseteq written
      ELSE keys = {} \/ last.failures # {}

\* DllUnregisterServer returns S_OK exactly when nothing is left: what is not there
\* to delete is no failure, and no failure among the four deletions is lost.
UnregisterTellsTheTruth ==
  last.call = "unregister" => (last.hr = "S_OK" <=> keys = {})

=============================================================================
