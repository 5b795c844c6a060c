--------------------------- MODULE FolderContents ---------------------------
(***************************************************************************)
(* The name space of RioShellEx.cpp: what the Rio holds becomes the items  *)
(* of a root folder and of one folder below it for each folder of the Rio. *)
(* An enumerator reads the Rio once, when it is created, and hands out an  *)
(* item id per entry; folders are bound to and compared by item ids.       *)
(*                                                                         *)
(* Explorer enumerates several folders at once, on threads of its own; the *)
(* worker window may format the Rio between any two calls that read it.    *)
(* A name is a number, by which names are ordered.  Running out of memory  *)
(* is left out, except where a name that is too long takes the same exit.  *)
(***************************************************************************)
EXTENDS Integers, Sequences, FiniteSets, SequencesExt

CONSTANTS Enumerators,
          Contents,     \* what the Rio holds: folders with a name and songs
          LongNames,    \* names of which cchName, one byte, is not the length
          ByteSize,     \* values of a BYTE
          WordSize,     \* values of a WORD
          IntLimit,     \* an int is one of -IntLimit .. IntLimit - 1
          FlagSets,     \* SHCONTF flags Explorer asks with
          Celts,        \* counts given to Next
          Skips,        \* counts given to Skip, each a DWORD
          MaxWraps,     \* bound: an enumerator's Skips of a pass that take a position round
          MaxLeaks,     \* bound: sessions left open
          Junk,         \* what an ITEMDATA that was never written may hold
          InFront,      \* what the memory in front of an array is read as, by entry
          Faults        \* subset of {"list", "count", "item"}

\* What the Rio tells of a folder, and what an ITEMDATA holds of an entry.
RioFolder == [szName : Int, songs : Seq(Int)]
ITEMDATA == [szName : Int, nSize : Nat, fIsFolder : BOOLEAN]

ASSUME ContentsAssumption ==
  /\ Contents \in Seq(RioFolder) /\ Junk \subseteq ITEMDATA
  /\ ByteSize \in Nat \ {0} /\ WordSize \in Nat \ {0} /\ IntLimit \in Nat \ {0}
  /\ Len(Contents) < WordSize
  /\ \A i \in DOMAIN Contents : Len(Contents[i].songs) < WordSize
  /\ InFront \in [1 - IntLimit .. 0 -> ITEMDATA]
  /\ MaxWraps \in Nat /\ MaxLeaks \in Nat
  /\ Celts \subseteq Nat /\ Skips \subseteq Nat /\ IsFiniteSet(Enumerators)
  /\ \A f \in FlagSets : f \subseteq {"STORAGE", "FOLDERS", "NONFOLDERS"}

VARIABLES rio,          \* the folders on the Rio now
          sessions,     \* Opens of the Rio not followed by a Close
          pc,           \* pc[e]: "none", "opened", "listed" or "ready"
          source,       \* source[e]: the folder that made e, and the entry behind it
          m_grfFlags,
          listing,      \* listing[e]: the collection e has got from the Rio
          m_paData,
          written,      \* written[e]: the entries of m_paData that were written
          m_nItem,
          ids,          \* ids[e]: item ids handed out in this pass
          wraps,        \* history: Skips of this pass that took the position round
          leaks         \* history: enumerations that ended without Close

enumVars ==
  <<pc, source, m_grfFlags, listing, m_paData, written, m_nItem, ids, wraps>>
vars == <<rio, sessions, enumVars, leaks>>

\* `of` of the root, and of a folder whose entry was never written.
RootEntry == [known |-> FALSE, szName |-> 0]
Root == [m_nFolderIdx |-> 0, m_nFileIdx |-> 0, of |-> RootEntry]

Init ==
  /\ rio = Contents
  /\ sessions = 0
  /\ pc = [e \in Enumerators |-> "none"]
  /\ source = [e \in Enumerators |-> Root]
  /\ m_grfFlags = [e \in Enumerators |-> {}]
  /\ listing = [e \in Enumerators |-> <<>>]
  /\ m_paData = [e \in Enumerators |-> <<>>]
  /\ written = [e \in Enumerators |-> {}]
  /\ m_nItem = [e \in Enumerators |-> 0]
  /\ ids = [e \in Enumerators |-> <<>>]
  /\ wraps = [e \in Enumerators |-> 0]
  /\ leaks = 0

-----------------------------------------------------------------------------
(* The Rio, as its object is used here: folders counted from 0, the items  *)
(* of a collection from 1.                                                 *)

get_Folders == [i \in DOMAIN rio |-> rio[i].szName]
HasFolder(i) == i + 1 \in DOMAIN rio
get_Songs(i) == rio[i + 1].songs

\* Another user of the Rio's object: WM_FORMAT_DEVICE of the worker window.
Format ==
  /\ rio # <<>>
  /\ rio' = <<>>
  /\ UNCHANGED <<sessions, enumVars, leaks>>

-----------------------------------------------------------------------------
(* Entries, item ids and the folders they are bound to.                    *)

\* The index an enumerator calls m_nFolderIdx is the file index of its folder.
m_nFolderIdx(e) == source[e].m_nFileIdx

\* The entry that index i - 1 of the array reads; no index is tested against 0.
\* Where there is no memory the process ends, after which nothing happens.
Entry(e, i) == IF i \in DOMAIN m_paData[e] THEN m_paData[e][i] ELSE InFront[i]

CreateChildID(e, i) ==
  [nFolderIdx |-> m_nFolderIdx(e), nFileIdx |-> i % WordSize,
   nSize |-> Entry(e, i).nSize % ByteSize,
   fIsFolder |-> Entry(e, i).fIsFolder, szName |-> Entry(e, i).szName]

\* The folder that BindToObject makes of an item id of e, which is known when the id
\* is that of an entry that was written.
BindToObject(e, id) ==
  [m_nFolderIdx |-> id.nFolderIdx, m_nFileIdx |-> id.nFileIdx,
   of |-> [known |-> \E i \in written[e] : id = CreateChildID(e, i),
           szName |-> id.szName]]

-----------------------------------------------------------------------------
(* EnumObjects: the constructor and Initialize of the enumerator.          *)

\* The root, and what the ids handed out as those of folders are bound to.
Folders ==
  {Root} \cup UNION {{BindToObject(e, id) : id \in {i \in ToSet(ids[e]) : i.fIsFolder}} :
                      e \in Enumerators}

\* Without the Rio, or when it cannot be opened, there is no enumerator.
EnumObjects(e, f, flags) ==
  /\ pc[e] = "none"
  /\ pc' = [pc EXCEPT ![e] = "opened"]
  /\ sessions' = sessions + 1
  /\ source' = [source EXCEPT ![e] = f]
  /\ m_grfFlags' = [m_grfFlags EXCEPT ![e] = flags]
  /\ UNCHANGED <<rio, listing, m_paData, written, m_nItem, ids, wraps, leaks>>

\* Mutant of GetCollection: songs are asked for by the index of the item id.
GetCollectionOffByOne(e) ==
  /\ pc[e] = "opened"
  /\ m_nFolderIdx(e) = 0 \/ HasFolder(m_nFolderIdx(e))
  /\ listing' = [listing EXCEPT ![e] =
       IF m_nFolderIdx(e) = 0 THEN get_Folders ELSE get_Songs(m_nFolderIdx(e))]
  /\ pc' = [pc EXCEPT ![e] = "listed"]
  /\ UNCHANGED <<rio, sessions, source, m_grfFlags, m_paData, written,
                 m_nItem, ids, wraps, leaks>>

\* get_Folders for the root, get_Songs for the folder of an item id.
GetCollection(e) ==
  /\ pc[e] = "opened"
  /\ m_nFolderIdx(e) = 0 \/ HasFolder(m_nFolderIdx(e) - 1)
  /\ listing' = [listing EXCEPT ![e] =
       IF m_nFolderIdx(e) = 0 THEN get_Folders ELSE get_Songs(m_nFolderIdx(e) - 1)]
  /\ pc' = [pc EXCEPT ![e] = "listed"]
  /\ UNCHANGED <<rio, sessions, source, m_grfFlags, m_paData, written,
                 m_nItem, ids, wraps, leaks>>

\* EnumObjects releases an enumerator that could not be initialized.
Dropped(e) ==
  /\ pc' = [pc EXCEPT ![e] = "none"]
  /\ source' = [source EXCEPT ![e] = Root]
  /\ m_grfFlags' = [m_grfFlags EXCEPT ![e] = {}]
  /\ listing' = [listing EXCEPT ![e] = <<>>]
  /\ m_paData' = [m_paData EXCEPT ![e] = <<>>]
  /\ written' = [written EXCEPT ![e] = {}]
  /\ m_nItem' = [m_nItem EXCEPT ![e] = 0]
  /\ ids' = [ids EXCEPT ![e] = <<>>]
  /\ wraps' = [wraps EXCEPT ![e] = 0]

\* Initialize returns at once and does not close the Rio.
GetCollectionFails(e) ==
  /\ pc[e] = "opened" /\ leaks < MaxLeaks
  /\ \/ "list" \in Faults
     \/ m_nFolderIdx(e) # 0 /\ ~HasFolder(m_nFolderIdx(e) - 1)
  /\ Dropped(e)
  /\ leaks' = leaks + 1
  /\ UNCHANGED <<rio, sessions>>

\* Mutant of GetCountFails: this exit does not close the Rio either.
GetCountFailsUnclosed(e) ==
  /\ pc[e] = "listed"
  /\ "count" \in Faults
  /\ Dropped(e)
  /\ UNCHANGED <<rio, sessions, leaks>>

GetCountFails(e) ==
  /\ pc[e] = "listed"
  /\ "count" \in Faults
  /\ Dropped(e)
  /\ sessions' = sessions - 1
  /\ UNCHANGED <<rio, leaks>>

ItemData(e, i) ==
  [szName |-> listing[e][i], nSize |-> i - 1, fIsFolder |-> m_nFolderIdx(e) = 0]

\* An entry whose get_Item or get_Name fails is not written: the memory keeps what
\* was in it.  Then the Rio is closed.
ReadItems(e) ==
  /\ pc[e] = "listed"
  /\ \E failed \in SUBSET DOMAIN listing[e], junk \in Junk :
       /\ "item" \in Faults \/ failed = {}
       /\ m_paData' = [m_paData EXCEPT ![e] =
            [i \in DOMAIN listing[e] |-> IF i \in failed THEN junk ELSE ItemData(e, i)]]
       /\ written' = [written EXCEPT ![e] = DOMAIN listing[e] \ failed]
  /\ sessions' = sessions - 1
  /\ pc' = [pc EXCEPT ![e] = "ready"]
  /\ UNCHANGED <<rio, source, m_grfFlags, listing, m_nItem, ids, wraps, leaks>>

Initialize(e) ==
  GetCollection(e) \/ GetCollectionFails(e) \/ GetCountFails(e) \/ ReadItems(e)

-----------------------------------------------------------------------------
(* The enumerator.                                                         *)

Ready(e) == pc[e] = "ready"

\* The caller wants entry i of e.
Wanted(e, i) ==
  LET kind == IF Entry(e, i).fIsFolder THEN "FOLDERS" ELSE "NONFOLDERS"
  IN  {"STORAGE", kind} \cap m_grfFlags[e] # {}

\* StringCchCopy fits the name into cchName characters.
Fits(e, i) == Entry(e, i).szName \notin LongNames

\* The members of a set of numbers, the smallest first.
Ascending(S) ==
  CHOOSE s \in [1 .. Cardinality(S) -> S] : \A j, k \in DOMAIN s : j < k => s[j] < s[k]

\* The entries between two positions of which an item id can be made for the caller.
Chosen(e, from, to) ==
  {i \in from + 1 .. to : i <= Len(m_paData[e]) /\ Wanted(e, i) /\ Fits(e, i)}

Between(e, from, to) == Ascending(Chosen(e, from, to))

\* Next may stop at n: at the end, with celt items, or at a name that does not fit,
\* which it has moved past.
StopsAt(e, celt, n) ==
  \/ n >= Len(m_paData[e])
  \/ Cardinality(Chosen(e, m_nItem[e], n)) = celt
  \/ n > m_nItem[e] /\ Wanted(e, n) /\ ~Fits(e, n)

\* The loop ends at the first place it can.
Stop(e, celt) ==
  IF m_nItem[e] >= Len(m_paData[e]) THEN m_nItem[e]
  ELSE Min({n \in m_nItem[e] .. Len(m_paData[e]) : StopsAt(e, celt, n)})

\* Hand out what there is up to n and move to position next.
Deliver(e, n, next) ==
  /\ Ready(e)
  /\ LET found == Between(e, m_nItem[e], n)
     IN  ids' = [ids EXCEPT ![e] = @ \o
                   [k \in DOMAIN found |-> CreateChildID(e, found[k])]]
  /\ m_nItem' = [m_nItem EXCEPT ![e] = next]
  /\ UNCHANGED <<rio, sessions, pc, source, m_grfFlags, listing, m_paData,
                 written, wraps, leaks>>

\* Mutant of Enum_Next: the position moves by as many as were asked for.
Enum_NextByCount(e, celt) == Deliver(e, Stop(e, celt), m_nItem[e] + celt)

Enum_Next(e, celt) == Deliver(e, Stop(e, celt), Stop(e, celt))

\* What an int is after a sum has been assigned to it.
ToInt(n) == ((n + IntLimit) % (2 * IntLimit)) - IntLimit

\* Nothing holds the position back at the end, and a sum that an int does not hold
\* takes it round: behind where it was, or in front of the first entry.
Enum_Skip(e, celt) ==
  /\ Ready(e)
  /\ LET sum == m_nItem[e] + celt
     IN  /\ m_nItem' = [m_nItem EXCEPT ![e] = ToInt(sum)]
         /\ \/ ToInt(sum) = sum /\ UNCHANGED wraps
            \/ /\ ToInt(sum) # sum /\ \A d \in Enumerators : wraps[d] < MaxWraps
               /\ wraps' = [wraps EXCEPT ![e] = @ + 1]
  /\ UNCHANGED <<rio, sessions, pc, source, m_grfFlags, listing, m_paData,
                 written, ids, leaks>>

Enum_Reset(e) ==
  /\ Ready(e)
  /\ m_nItem' = [m_nItem EXCEPT ![e] = 0]
  /\ ids' = [ids EXCEPT ![e] = <<>>]
  /\ wraps' = [wraps EXCEPT ![e] = 0]
  /\ UNCHANGED <<rio, sessions, pc, source, m_grfFlags, listing, m_paData,
                 written, leaks>>

Enum_Release(e) ==
  /\ Ready(e)
  /\ Dropped(e)
  /\ UNCHANGED <<rio, sessions, leaks>>

Next ==
  \/ Format
  \/ \E e \in Enumerators :
       \/ \E f \in Folders, flags \in FlagSets : EnumObjects(e, f, flags)
       \/ Initialize(e)
       \/ \E celt \in Celts : Enum_Next(e, celt)
       \/ \E celt \in Skips : Enum_Skip(e, celt)
       \/ Enum_Reset(e) \/ Enum_Release(e)

Spec == Init /\ [][Next]_vars

-----------------------------------------------------------------------------
(* CompareIDs.  An id list is a sequence of one or two item ids: a folder, *)
(* a song seen from its own folder, or a song in a folder.                 *)

_GetLevel(id) ==
  IF id.nFolderIdx = 0 THEN 0 ELSE IF id.nFileIdx = 0 THEN 1 ELSE 2

\* The first ids of two lists; a column that is neither name nor size has no order.
CompareFirst(lParam, a, b) ==
  CASE lParam \in {"CANONICALONLY", "NAME"} -> a.szName - b.szName
    [] lParam = "ALLFIELDS" -> IF a.szName # b.szName THEN a.szName - b.szName
                                                      ELSE _GetLevel(a) - _GetLevel(b)
    [] lParam = "SIZE" -> a.nSize - b.nSize
    [] OTHER -> 1

\* Mutant of _ILCompareRelIDs: the column is passed on to the next level.
_ILCompareRelIDsByColumn(lParam, p, q) ==
  IF Len(p) = 1 \/ Len(q) = 1
    THEN Len(p) - Len(q)
    ELSE CompareFirst(lParam, p[2], q[2])

\* What is left of two lists whose first ids are equal: an empty rest comes first,
\* others are compared by the folder between, which is not given a column.
_ILCompareRelIDs(lParam, p, q) ==
  IF Len(p) = 1 \/ Len(q) = 1
    THEN Len(p) - Len(q)
    ELSE CompareFirst(IF lParam \in {"NAME", "SIZE"} THEN "NAME" ELSE lParam, p[2], q[2])

CompareIDs(lParam, p, q) ==
  IF CompareFirst(lParam, p[1], q[1]) # 0
    THEN CompareFirst(lParam, p[1], q[1])
    ELSE _ILCompareRelIDs(lParam, p, q)

-----------------------------------------------------------------------------
(* Properties.                                                             *)

\* The Rio is open for the enumerations that are reading it, and left open by those
\* that got no collection, but by no other error exit.
SessionsBalance ==
  sessions = Cardinality({e \in Enumerators : pc[e] \in {"opened", "listed"}}) + leaks

\* A folder shows the songs of the folder of the Rio whose name its item id bears:
\* the round trip from position to id, to folder object, to index of get_Songs is
\* right, even when the Rio is formatted between two of these steps.
ChildShowsItsFolder ==
  \A e \in Enumerators : pc[e] \in {"listed", "ready"} /\ source[e].of.known =>
    \E i \in DOMAIN Contents : /\ Contents[i].szName = source[e].of.szName
                                 /\ Contents[i].songs = listing[e]

\* The id lists of what has been handed out.
IdLists ==
  LET items == UNION {ToSet(ids[e]) : e \in Enumerators}
  IN  {<<i>> : i \in items} \cup
      {<<p[1], p[2]>> : p \in {q \in items \X items :
                                 q[1].nFolderIdx = 0 /\ q[2].nFolderIdx = q[1].nFileIdx}}

\* What two id lists are to be compared by, the more significant first.
Key(lParam, p) ==
  LET part(i) == IF lParam = "ALLFIELDS" THEN <<i.szName, _GetLevel(i)>> ELSE <<i.szName>>
      first == IF lParam = "SIZE" THEN <<p[1].nSize>> ELSE part(p[1])
  IN  IF Len(p) = 1 THEN first ELSE first \o part(p[2])

\* s is a proper prefix of t, or smaller where they first differ.
Precedes(s, t) ==
  \E k \in 1 .. Len(t) :
    /\ \A j \in 1 .. k - 1 : j <= Len(s) /\ s[j] = t[j]
    /\ k <= Len(s) => s[k] < t[k]

\* CompareIDs is consistent, as its comment demands: the id lists of all that has been
\* handed out are compared as their paths of names (with the level, or with the size
\* of the first), so that the order is one and the same seen from either side.
IdsOrderedByPath ==
  \A p, q \in IdLists, lParam \in {"CANONICALONLY", "ALLFIELDS", "NAME", "SIZE"} :
    CompareIDs(lParam, p, q) < 0 <=> Precedes(Key(lParam, p), Key(lParam, q))

\* Until a Skip takes its position round: whatever the flags, the counts and the names
\* that do not fit, an enumerator hands out every entry it can, once, in order, and
\* Skip alone passes over some.  From then on it promises nothing, until Reset.
Cursor == INSTANCE Enumeration
            WITH list <- [e \in Enumerators |->
                            IF wraps[e] = 0 THEN Between(e, 0, Len(m_paData[e])) ELSE <<>>],
                 pos <- [e \in Enumerators |->
                           IF wraps[e] = 0 THEN Cardinality(Chosen(e, 0, m_nItem[e])) ELSE 0],
                 handed <- [e \in Enumerators |->
                              IF wraps[e] = 0
                                THEN [k \in DOMAIN ids[e] |-> ids[e][k].nFileIdx] ELSE <<>>]
ImplementsEnumeration == Cursor!Spec

=============================================================================
