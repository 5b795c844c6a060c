------------------------- MODULE FolderContentsProof -------------------------
(***************************************************************************)
(* Proofs about FolderContents: for any contents of the Rio and any number *)
(* of enumerations at once, whichever call fails.                          *)
(***************************************************************************)
EXTENDS FolderContents, FiniteSetTheorems, WellFoundedInduction, TLAPS

\* The enumerations that are between Open and Close.
Reading == {e \in Enumerators : pc[e] \in {"opened", "listed"}}

Places == {"none", "opened", "listed", "ready"}

\* The inductive invariant: SessionsBalance with the types it rests on.
FIInv ==
  /\ pc \in [Enumerators -> Places]
  /\ leaks \in Nat
  /\ SessionsBalance

LEMMA ReadingFinite ==
  Reading \subseteq Enumerators /\ IsFiniteSet(Reading) /\ Cardinality(Reading) \in Nat
<1>1. Reading \subseteq Enumerators
  BY DEF Reading
<1>2. IsFiniteSet(Reading)
  BY <1>1, ContentsAssumption, FS_Subset
<1> QED
  BY <1>1, <1>2, FS_CardinalityType

\* An enumeration that begins to read, or goes on.
LEMMA Begins ==
  ASSUME FIInv, NEW e \in Enumerators, NEW label \in {"opened", "listed"},
         pc' = [pc EXCEPT ![e] = label]
  PROVE  /\ pc' \in [Enumerators -> Places]
         /\ e \in Reading => Cardinality(Reading') = Cardinality(Reading)
         /\ e \notin Reading => Cardinality(Reading') = Cardinality(Reading) + 1
<1>1. pc' \in [Enumerators -> Places] /\ Reading' = Reading \cup {e}
  BY DEF FIInv, Places, Reading
<1> QED
  BY <1>1, ReadingFinite, FS_AddElement

\* An enumeration that stops reading, or did not read.
LEMMA Ends ==
  ASSUME FIInv, NEW e \in Enumerators, NEW label \in {"none", "ready"},
         pc' = [pc EXCEPT ![e] = label]
  PROVE  /\ pc' \in [Enumerators -> Places]
         /\ e \in Reading => Cardinality(Reading') = Cardinality(Reading) - 1
         /\ e \notin Reading => Cardinality(Reading') = Cardinality(Reading)
<1>1. pc' \in [Enumerators -> Places] /\ Reading' = Reading \ {e}
  BY DEF FIInv, Places, Reading
<1> QED
  BY <1>1, ReadingFinite, FS_RemoveElement

LEMMA FInitIInv == Init => FIInv
<1> SUFFICES ASSUME Init PROVE FIInv
  OBVIOUS
<1>1. pc \in [Enumerators -> Places] /\ leaks = 0 /\ sessions = 0
  BY DEF Init, Places
<1>2. Reading = {}
  BY DEF Init, Reading
<1>3. Cardinality(Reading) = 0
  BY <1>2, FS_EmptySet
<1>4. sessions = Cardinality(Reading) + leaks /\ leaks \in Nat
  BY <1>1, <1>3
<1> QED
  BY <1>1, <1>4 DEF FIInv, SessionsBalance, Reading, Places

LEMMA OpenKeeps ==
  ASSUME FIInv, NEW e \in Enumerators, NEW f, NEW flags, EnumObjects(e, f, flags)
  PROVE  FIInv'
<1>1. /\ pc[e] = "none" /\ pc' = [pc EXCEPT ![e] = "opened"]
      /\ sessions' = sessions + 1 /\ leaks' = leaks
  BY DEF EnumObjects
<1>2. e \notin Reading
  BY <1>1 DEF Reading
<1>3. /\ pc' \in [Enumerators -> Places]
      /\ Cardinality(Reading') = Cardinality(Reading) + 1
  BY <1>1, <1>2, Begins
<1> QED
  BY <1>1, <1>3, ReadingFinite DEF FIInv, SessionsBalance, Reading, Places

LEMMA InitializeKeeps == ASSUME FIInv, NEW e \in Enumerators, Initialize(e) PROVE FIInv'
<1>0. leaks \in Nat /\ sessions = Cardinality(Reading) + leaks
  BY DEF FIInv, SessionsBalance, Reading
<1>1. e \in Reading
  BY DEF Initialize, GetCollection, GetCollectionFails, GetCountFails, ReadItems, Reading
<1>2. \/ pc' = [pc EXCEPT ![e] = "listed"] /\ UNCHANGED <<sessions, leaks>>
      \/ pc' = [pc EXCEPT ![e] = "none"] /\ leaks' = leaks + 1 /\ UNCHANGED sessions
      \/ /\ pc' = [pc EXCEPT ![e] = "none"] \/ pc' = [pc EXCEPT ![e] = "ready"]
         /\ sessions' = sessions - 1 /\ UNCHANGED leaks
  BY DEF Initialize, GetCollection, GetCollectionFails, GetCountFails, ReadItems, Dropped
<1>3. /\ pc' \in [Enumerators -> Places]
      /\ leaks' \in Nat /\ sessions' = Cardinality(Reading') + leaks'
  <2>1. CASE pc' = [pc EXCEPT ![e] = "listed"] /\ UNCHANGED <<sessions, leaks>>
    BY <1>0, <1>1, <2>1, Begins
  <2>2. CASE pc' = [pc EXCEPT ![e] = "none"] /\ leaks' = leaks + 1 /\ UNCHANGED sessions
    <3>1. /\ pc' \in [Enumerators -> Places]
          /\ Cardinality(Reading') = Cardinality(Reading) - 1
      BY <1>1, <2>2, Ends
    <3> QED
      BY <1>0, <2>2, <3>1, ReadingFinite
  <2>3. CASE /\ pc' = [pc EXCEPT ![e] = "none"] \/ pc' = [pc EXCEPT ![e] = "ready"]
             /\ sessions' = sessions - 1 /\ UNCHANGED leaks
    <3>1. /\ pc' \in [Enumerators -> Places]
          /\ Cardinality(Reading') = Cardinality(Reading) - 1
      BY <1>1, <2>3, Ends
    <3> QED
      BY <1>0, <2>3, <3>1, ReadingFinite
  <2> QED
    BY <1>2, <2>1, <2>2, <2>3
<1> QED
  BY <1>3 DEF FIInv, SessionsBalance, Reading, Places

LEMMA ReleaseKeeps == ASSUME FIInv, NEW e \in Enumerators, Enum_Release(e) PROVE FIInv'
<1>1. /\ pc[e] = "ready" /\ pc' = [pc EXCEPT ![e] = "none"]
      /\ UNCHANGED <<sessions, leaks>>
  BY DEF Enum_Release, Ready, Dropped
<1>2. e \notin Reading
  BY <1>1 DEF Reading
<1>3. /\ pc' \in [Enumerators -> Places]
      /\ Cardinality(Reading') = Cardinality(Reading)
  BY <1>1, <1>2, Ends
<1> QED
  BY <1>1, <1>3 DEF FIInv, SessionsBalance, Reading, Places

LEMMA FNextIInv == FIInv /\ [Next]_vars => FIInv'
<1> SUFFICES ASSUME FIInv, [Next]_vars PROVE FIInv'
  OBVIOUS
<1>1. ASSUME NEW e \in Enumerators, NEW f \in Folders, NEW flags \in FlagSets,
             EnumObjects(e, f, flags)
      PROVE  FIInv'
  BY <1>1, OpenKeeps
<1>2. ASSUME NEW e \in Enumerators, Initialize(e) PROVE FIInv'
  BY <1>2, InitializeKeeps
<1>3. ASSUME NEW e \in Enumerators, Enum_Release(e) PROVE FIInv'
  BY <1>3, ReleaseKeeps
<1>4. ASSUME UNCHANGED <<pc, sessions, leaks>> PROVE FIInv'
  BY <1>4 DEF FIInv, SessionsBalance
<1>5. ASSUME NEW e \in Enumerators, NEW celt, Enum_Next(e, celt) \/ Enum_Skip(e, celt)
      PROVE  FIInv'
  BY <1>4, <1>5 DEF Enum_Next, Deliver, Enum_Skip
<1>6. ASSUME NEW e \in Enumerators, Enum_Reset(e) PROVE FIInv'
  BY <1>4, <1>6 DEF Enum_Reset
<1>7. CASE Format \/ UNCHANGED vars
  BY <1>4, <1>7 DEF Format, vars, enumVars
<1> QED
  BY <1>1, <1>2, <1>3, <1>5, <1>6, <1>7 DEF Next

\* Of all exits of an enumeration, only that which got no collection leaves the Rio open
\* (FolderContents!SessionsBalance).
THEOREM SessionsBalanceHolds == Spec => []SessionsBalance
<1>1. Spec => []FIInv
  BY FInitIInv, FNextIInv, PTL DEF Spec
<1> QED
  BY <1>1, PTL DEF FIInv

-----------------------------------------------------------------------------
(* CompareIDs, for all item ids and all id lists of this name space.       *)

Item == [nFolderIdx : Nat, nFileIdx : Nat, nSize : Nat, fIsFolder : BOOLEAN, szName : Int]
IdList == {p \in Seq(Item) : Len(p) \in 1 .. 2}
Columns == {"CANONICALONLY", "ALLFIELDS", "NAME", "SIZE"}

\* Within one level the ids of two items are compared consistently.
LEMMA FirstInOrder ==
  ASSUME NEW lParam \in Columns, NEW a \in Item, NEW b \in Item, NEW c \in Item
  PROVE  /\ CompareFirst(lParam, a, b) \in Int
         /\ CompareFirst(lParam, a, b) < 0 <=> CompareFirst(lParam, b, a) > 0
         /\ CompareFirst(lParam, a, b) <= 0 /\ CompareFirst(lParam, b, c) <= 0
              => CompareFirst(lParam, a, c) <= 0
<1>1. ASSUME NEW i \in Item PROVE i.szName \in Int /\ i.nSize \in Int /\ _GetLevel(i) \in Int
  BY DEF Item, _GetLevel
<1>2. CASE lParam \in {"CANONICALONLY", "NAME"}
  BY <1>1, <1>2 DEF CompareFirst
<1>3. CASE lParam = "ALLFIELDS"
  <2> DEFINE level(i) == _GetLevel(i)
  <2>1. \A i, j \in {a, b, c} : CompareFirst(lParam, i, j) =
          IF i.szName # j.szName THEN i.szName - j.szName ELSE level(i) - level(j)
    BY <1>3 DEF CompareFirst
  <2>2. level(a) \in Int /\ level(b) \in Int /\ level(c) \in Int
    BY <1>1
  <2> HIDE DEF level
  <2> QED
    BY <1>1, <2>1, <2>2
<1>4. CASE lParam = "SIZE"
  BY <1>1, <1>4 DEF CompareFirst
<1> QED
  BY <1>2, <1>3, <1>4 DEF Columns

\* So are the rests of two lists.
LEMMA RestInOrder ==
  ASSUME NEW lParam \in Columns, NEW p \in IdList, NEW q \in IdList, NEW r \in IdList
  PROVE  /\ _ILCompareRelIDs(lParam, p, q) \in Int
         /\ _ILCompareRelIDs(lParam, p, q) < 0 <=> _ILCompareRelIDs(lParam, q, p) > 0
         /\ _ILCompareRelIDs(lParam, p, q) <= 0 /\ _ILCompareRelIDs(lParam, q, r) <= 0
              => _ILCompareRelIDs(lParam, p, r) <= 0
<1> DEFINE column == IF lParam \in {"NAME", "SIZE"} THEN "NAME" ELSE lParam
<1>1. PICK c \in Columns : c = column
  BY DEF Columns
<1> HIDE DEF column
<1>2. /\ Len(p) \in 1 .. 2 /\ (Len(p) = 2 => p[2] \in Item)
      /\ Len(q) \in 1 .. 2 /\ (Len(q) = 2 => q[2] \in Item)
      /\ Len(r) \in 1 .. 2 /\ (Len(r) = 2 => r[2] \in Item)
  BY DEF IdList
<1>3. ASSUME NEW s, NEW t
      PROVE  /\ Len(s) = 1 \/ Len(t) = 1 => _ILCompareRelIDs(lParam, s, t) = Len(s) - Len(t)
             /\ Len(s) = 2 /\ Len(t) = 2
                  => _ILCompareRelIDs(lParam, s, t) = CompareFirst(c, s[2], t[2])
  BY <1>1 DEF _ILCompareRelIDs, column
<1>4. CASE Len(p) = 1 \/ Len(q) = 1
  <2>1. _ILCompareRelIDs(lParam, p, q) = Len(p) - Len(q)
    BY <1>3, <1>4
  <2>2. _ILCompareRelIDs(lParam, q, p) = Len(q) - Len(p)
    BY <1>3, <1>4
  <2>3. Len(p) = 1 => _ILCompareRelIDs(lParam, p, r) = Len(p) - Len(r)
    BY <1>3
  <2>4. /\ _ILCompareRelIDs(lParam, p, q) \in Int
        /\ _ILCompareRelIDs(lParam, p, q) < 0 <=> _ILCompareRelIDs(lParam, q, p) > 0
    BY <1>2, <2>1, <2>2
  <2>5. ASSUME _ILCompareRelIDs(lParam, p, q) <= 0
        PROVE  _ILCompareRelIDs(lParam, p, r) <= 0
    <3>1. Len(p) - Len(q) <= 0
      BY <2>1, <2>5
    <3>2. \A m, n \in 1 .. 2 : (m = 1 \/ n = 1) /\ m - n <= 0 => m = 1
      OBVIOUS
    <3>3. Len(p) = 1
      BY <1>2, <1>4, <3>1, <3>2
    <3>4. _ILCompareRelIDs(lParam, p, r) = 1 - Len(r)
      BY <2>3, <3>3
    <3>5. \A n \in 1 .. 2 : 1 - n <= 0
      OBVIOUS
    <3> QED
      BY <1>2, <3>4, <3>5
  <2> QED
    BY <2>4, <2>5
<1>5. CASE Len(p) = 2 /\ Len(q) = 2
  <2>1. _ILCompareRelIDs(lParam, p, q) = CompareFirst(c, p[2], q[2])
    BY <1>3, <1>5
  <2>2. _ILCompareRelIDs(lParam, q, p) = CompareFirst(c, q[2], p[2])
    BY <1>3, <1>5
  <2>3. /\ CompareFirst(c, p[2], q[2]) \in Int
        /\ CompareFirst(c, p[2], q[2]) < 0 <=> CompareFirst(c, q[2], p[2]) > 0
    BY <1>2, <1>5, FirstInOrder
  <2>4. CASE Len(r) = 1
    <3>1. _ILCompareRelIDs(lParam, q, r) = Len(q) - Len(r)
      BY <1>3, <2>4
    <3> QED
      BY <1>5, <2>1, <2>2, <2>3, <2>4, <3>1
  <2>5. CASE Len(r) = 2
    <3>1. _ILCompareRelIDs(lParam, q, r) = CompareFirst(c, q[2], r[2])
      BY <1>3, <1>5, <2>5
    <3>2. _ILCompareRelIDs(lParam, p, r) = CompareFirst(c, p[2], r[2])
      BY <1>3, <1>5, <2>5
    <3>3. CompareFirst(c, p[2], q[2]) <= 0 /\ CompareFirst(c, q[2], r[2]) <= 0
            => CompareFirst(c, p[2], r[2]) <= 0
      BY <1>2, <1>5, <2>5, FirstInOrder
    <3> QED
      BY <2>1, <2>2, <2>3, <3>1, <3>2, <3>3
  <2> QED
    BY <1>2, <2>4, <2>5
<1> QED
  BY <1>2, <1>4, <1>5

\* CompareIDs is an order on the id lists of the name space, whatever items they are
\* made of: the same seen from either side, and transitive, for every column there is.
\* Explorer sorts its view with it and relies on both.
THEOREM IdsAreOrdered ==
  ASSUME NEW lParam \in Columns, NEW p \in IdList, NEW q \in IdList, NEW r \in IdList
  PROVE  /\ CompareIDs(lParam, p, q) < 0 <=> CompareIDs(lParam, q, p) > 0
         /\ CompareIDs(lParam, p, q) <= 0 /\ CompareIDs(lParam, q, r) <= 0
              => CompareIDs(lParam, p, r) <= 0
<1> DEFINE first(s, t) == CompareFirst(lParam, s[1], t[1])
           rest(s, t) == _ILCompareRelIDs(lParam, s, t)
<1>1. \A s \in IdList : s[1] \in Item
  BY DEF IdList
<1>2. \A s, t, u \in IdList :
        /\ first(s, t) \in Int
        /\ first(s, t) < 0 <=> first(t, s) > 0
        /\ first(s, t) <= 0 /\ first(t, u) <= 0 => first(s, u) <= 0
  BY <1>1, FirstInOrder
<1>3. \A s, t, u \in IdList :
        /\ rest(s, t) \in Int
        /\ rest(s, t) < 0 <=> rest(t, s) > 0
        /\ rest(s, t) <= 0 /\ rest(t, u) <= 0 => rest(s, u) <= 0
  BY RestInOrder
<1>4. \A s, t \in IdList :
        CompareIDs(lParam, s, t) = IF first(s, t) # 0 THEN first(s, t) ELSE rest(s, t)
  BY DEF CompareIDs
<1> HIDE DEF first, rest
<1>5. \A s, t \in IdList : CompareIDs(lParam, s, t) < 0 <=> CompareIDs(lParam, t, s) > 0
  BY <1>2, <1>3, <1>4
<1>6. ASSUME CompareIDs(lParam, p, q) <= 0, CompareIDs(lParam, q, r) <= 0
      PROVE  CompareIDs(lParam, p, r) <= 0
  <2>1. first(p, q) <= 0 /\ first(q, r) <= 0 /\ first(p, r) <= 0
    BY <1>2, <1>3, <1>4, <1>6
  <2>2. CASE first(p, r) < 0
    <3>1. CompareIDs(lParam, p, r) = first(p, r)
      BY <1>2, <1>4, <2>2
    <3>2. first(p, r) \in Int
      BY <1>2
    <3> QED
      BY <2>2, <3>1, <3>2
  <2>3. CASE first(p, r) = 0
    <3>1. first(r, p) = 0
      BY <1>2, <2>3
    <3>2. first(r, q) <= 0 /\ first(q, p) <= 0
      BY <1>2, <2>1, <3>1
    <3>3. first(p, q) = 0 /\ first(q, r) = 0
      BY <1>2, <2>1, <3>2
    <3> QED
      BY <1>3, <1>4, <1>6, <2>3, <3>3
  <2> QED
    BY <1>2, <2>1, <2>2, <2>3
<1> QED
  BY <1>5, <1>6

-----------------------------------------------------------------------------
(* Ascending, for every bounded set of numbers.                            *)

\* s has c elements of S, each greater than the one before it.
Rises(s, c, S) ==
  /\ s \in [1 .. c -> S]
  /\ \A j, k \in 1 .. c : j < k => s[j] < s[k]

\* Every set of naturals has a smallest one, and every set of numbers from a on.
LEMMA Smallest == ASSUME NEW T, T \subseteq Nat, T # {} PROVE \E x \in T : \A y \in T : x <= y
<1>1. IsWellFoundedOn(OpToRel(<, Nat), Nat)
  BY NatLessThanWellFounded
<1>2. PICK x \in T : \A y \in T : ~ (<<y, x>> \in OpToRel(<, Nat))
  BY <1>1, WFMin
<1>3. \A y \in T : ~ (y < x)
  BY <1>2 DEF OpToRel
<1> QED
  BY <1>3

LEMMA SmallestFrom ==
  ASSUME NEW a \in Int, NEW T, T \subseteq Int, T # {}, \A x \in T : a <= x
  PROVE  \E x \in T : \A y \in T : x <= y
<1> DEFINE above == {x - a : x \in T}
<1>1. above \subseteq Nat /\ above # {}
  <2>1. ASSUME NEW x \in T PROVE x - a \in Nat
    OBVIOUS
  <2> QED
    BY <2>1
<1>2. PICK m \in above : \A y \in above : m <= y
  <2> HIDE DEF above
  <2> QED
    BY <1>1, Smallest
<1>3. PICK x \in T : m = x - a
  BY <1>2
<1>4. ASSUME NEW y \in T PROVE x <= y
  <2>1. m <= y - a
    BY <1>2
  <2> QED
    BY <1>3, <2>1
<1> QED
  BY <1>4

LEMMA FiniteBetween ==
  ASSUME NEW a \in Int, NEW b \in Int, NEW S, S \subseteq a .. b
  PROVE  IsFiniteSet(S) /\ Cardinality(S) \in Nat
<1>1. IsFiniteSet(a .. b)
  BY FS_Interval
<1>2. IsFiniteSet(S)
  BY <1>1, FS_Subset
<1> QED
  BY <1>2, FS_CardinalityType

\* One more element, greater than all that are there.
LEMMA RisesByOne ==
  ASSUME NEW c \in Nat, NEW s, NEW Q, Q \subseteq Int, Rises(s, c, Q),
         NEW m \in Int, \A x \in Q : x < m
  PROVE  \E t : Rises(t, c + 1, Q \cup {m})
<1> DEFINE t == [k \in 1 .. c + 1 |-> IF k = c + 1 THEN m ELSE s[k]]
<1>1. s \in [1 .. c -> Q] /\ \A j, k \in 1 .. c : j < k => s[j] < s[k]
  BY DEF Rises
<1>2. \A k \in 1 .. c + 1 : k # c + 1 => k \in 1 .. c
  OBVIOUS
<1>3. /\ t[c + 1] = m
      /\ \A k \in 1 .. c : t[k] = s[k] /\ t[k] \in Q
  BY <1>1
<1>4. t \in [1 .. c + 1 -> Q \cup {m}]
  BY <1>1, <1>2
<1> HIDE DEF t
<1>5. ASSUME NEW j \in 1 .. c + 1, NEW k \in 1 .. c + 1, j < k PROVE t[j] < t[k]
  <2>1. j \in 1 .. c
    BY <1>5
  <2>2. CASE k = c + 1
    BY <1>3, <2>1, <2>2
  <2>3. CASE k # c + 1
    <3>1. k \in 1 .. c
      BY <1>2, <2>3
    <3> QED
      BY <1>1, <1>3, <1>5, <2>1, <3>1
  <2> QED
    BY <2>2, <2>3
<1> QED
  BY <1>4, <1>5 DEF Rises

\* The sets of n numbers from a + 1 on can be listed in order; by the smallest n for
\* which they cannot.
LEMMA AscendingExists ==
  ASSUME NEW a \in Int, NEW n \in Nat, NEW S, S \subseteq a + 1 .. a + n
  PROVE  \E s : Rises(s, Cardinality(S), S)
<1> DEFINE Listed(m) == \A R \in SUBSET (a + 1 .. a + m) : \E s : Rises(s, Cardinality(R), R)
           bad == {m \in Nat : ~Listed(m)}
<1>1. CASE bad = {}
  <2>1. Listed(n)
    BY <1>1
  <2> QED
    BY <2>1
<1>2. CASE bad # {}
  <2>1. PICK m \in bad : \A y \in bad : m <= y
    <3>1. bad \subseteq Nat
      OBVIOUS
    <3> HIDE DEF bad
    <3> QED
      BY <1>2, <3>1, Smallest
  <2>2. m \in Nat /\ ~Listed(m)
    BY <2>1
  <2>0. a + 1 \in Int /\ a + m \in Int
    BY <2>2
  <2>3. PICK R \in SUBSET (a + 1 .. a + m) : ~ \E s : Rises(s, Cardinality(R), R)
    BY <2>2
  <2>4. IsFiniteSet(R) /\ Cardinality(R) \in Nat
    BY <2>0, FiniteBetween
  <2>5. R # {}
    <3>1. SUFFICES ASSUME R = {} PROVE Rises(<<>>, 0, R)
      BY <2>3, FS_EmptySet
    <3> QED
      BY DEF Rises
  <2>6. m # 0 /\ m - 1 \in Nat
    <3>1. PICK x \in a + 1 .. a + m : x \in R
      BY <2>5
    <3> QED
      BY <2>2
  <2>7. Listed(m - 1)
    <3>1. m - 1 \notin bad
      <4>1. ~ (m <= m - 1)
        BY <2>2
      <4> HIDE DEF bad
      <4> QED
        BY <2>1, <4>1
    <3> QED
      BY <2>6, <3>1
  <2> DEFINE Q == R \ {a + m}
  <2>8. Q \in SUBSET (a + 1 .. a + (m - 1))
    <3>1. ASSUME NEW x \in a + 1 .. a + m, x # a + m PROVE x \in a + 1 .. a + (m - 1)
      BY <2>2, <3>1
    <3> QED
      BY <3>1
  <2>9. PICK s : Rises(s, Cardinality(Q), Q)
    BY <2>7, <2>8
  <2>10. a + m \in R
    <3>1. SUFFICES ASSUME a + m \notin R PROVE Q = R
      BY <2>3, <2>9
    <3> QED
      BY <3>1
  <2>11. Cardinality(R) = Cardinality(Q) + 1 /\ Cardinality(Q) \in Nat /\ Q \cup {a + m} = R
    <3>1. IsFiniteSet(Q) /\ Cardinality(Q) = Cardinality(R) - 1
      BY <2>4, <2>10, FS_RemoveElement
    <3>2. Cardinality(Q) \in Nat
      BY <3>1, FS_CardinalityType
    <3> QED
      BY <2>4, <2>10, <3>1, <3>2
  <2>12. Q \subseteq Int /\ \A x \in Q : x < a + m
    BY <2>2, <2>8
  <2> HIDE DEF Q
  <2>13. \E t : Rises(t, Cardinality(Q) + 1, Q \cup {a + m})
    BY <2>0, <2>9, <2>11, <2>12, RisesByOne
  <2> QED
    BY <2>3, <2>11, <2>13
<1> QED
  BY <1>1, <1>2

\* A list of a set in order leaves no member out.
CoversAll(s, c, S) == \A x \in S : \E k \in 1 .. c : s[k] = x

LEMMA RisesOnto ==
  ASSUME NEW S, IsFiniteSet(S), S \subseteq Int, NEW s, NEW c \in Nat, c = Cardinality(S),
         Rises(s, c, S)
  PROVE  CoversAll(s, c, S)
<1>1. IsFiniteSet(1 .. c) /\ Cardinality(1 .. c) = c
  BY FS_Interval
<1> SUFFICES ASSUME NEW x \in S, \A k \in 1 .. c : s[k] # x PROVE FALSE
  BY DEF CoversAll
<1>2. s \in [1 .. c -> S \ {x}]
  BY DEF Rises
<1>3. IsFiniteSet(S \ {x}) /\ Cardinality(S \ {x}) = c - 1
  BY FS_RemoveElement
<1>4. Cardinality(S \ {x}) < Cardinality(1 .. c)
  BY <1>1, <1>3
<1>5. \E j, k \in 1 .. c : j # k /\ s[j] = s[k]
  BY <1>1, <1>2, <1>3, <1>4, FS_PigeonHole
<1>6. PICK j \in 1 .. c, k \in 1 .. c : j # k /\ s[j] = s[k]
  BY <1>5
<1>7. s[j] \in Int /\ s[k] \in Int
  BY DEF Rises
<1>8. CASE j < k
  BY <1>6, <1>7, <1>8 DEF Rises
<1>9. CASE k < j
  BY <1>6, <1>7, <1>9 DEF Rises
<1> QED
  BY <1>6, <1>8, <1>9

\* Where two lists of a set differ first, neither is behind the other.
LEMMA NeitherBehind ==
  ASSUME NEW S, IsFiniteSet(S), S \subseteq Int, NEW c \in Nat, c = Cardinality(S),
         NEW s, Rises(s, c, S), NEW t, Rises(t, c, S), NEW k \in 1 .. c,
         \A j \in 1 .. c : j < k => s[j] = t[j]
  PROVE  ~ (s[k] < t[k])
<1> SUFFICES ASSUME s[k] < t[k] PROVE FALSE
  OBVIOUS
<1>1. \A i \in 1 .. c : s[i] \in S /\ t[i] \in S
  BY DEF Rises
<1>2. PICK j \in 1 .. c : t[j] = s[k]
  <2>1. CoversAll(t, c, S)
    BY RisesOnto
  <2> QED
    BY <1>1, <2>1 DEF CoversAll
<1>3. \A i \in 1 .. c : s[i] \in Int /\ t[i] \in Int
  BY <1>1
<1>4. CASE j < k
  <2>1. s[j] < s[k] /\ s[j] = t[j]
    BY <1>4 DEF Rises
  <2> QED
    BY <1>2, <1>3, <2>1
<1>5. CASE j = k
  BY <1>2, <1>3, <1>5
<1>6. CASE k < j
  <2>1. t[k] < t[j]
    BY <1>6 DEF Rises
  <2> QED
    BY <1>2, <1>3, <2>1
<1> QED
  BY <1>4, <1>5, <1>6

LEMMA OneAscending ==
  ASSUME NEW S, IsFiniteSet(S), S \subseteq Int, NEW c \in Nat, c = Cardinality(S),
         NEW s, Rises(s, c, S), NEW t, Rises(t, c, S)
  PROVE  s = t
<1> DEFINE differ == {k \in 1 .. c : s[k] # t[k]}
<1>1. differ = {}
  <2>1. SUFFICES ASSUME differ # {} PROVE FALSE
    OBVIOUS
  <2>2. differ \subseteq Nat
    OBVIOUS
  <2>3. PICK k \in differ : \A y \in differ : k <= y
    <3> HIDE DEF differ
    <3> QED
      BY <2>1, <2>2, Smallest
  <2>4. k \in 1 .. c /\ s[k] # t[k]
    BY <2>3
  <2>5. \A j \in 1 .. c : j < k => s[j] = t[j]
    BY <2>3, <2>4
  <2>6. ~ (s[k] < t[k])
    BY <2>4, <2>5, NeitherBehind
  <2>7. ~ (t[k] < s[k])
    <3>1. \A j \in 1 .. c : j < k => t[j] = s[j]
      BY <2>5
    <3> QED
      BY <2>4, <3>1, NeitherBehind
  <2>8. s[k] \in Int /\ t[k] \in Int
    BY <2>4 DEF Rises
  <2> QED
    BY <2>4, <2>6, <2>7, <2>8
<1> QED
  BY <1>1 DEF Rises

\* The sets that Ascending is applied to.
Bounded(S) == \E a, b \in Int : S \subseteq a .. b

LEMMA AscendingRises ==
  ASSUME NEW S, Bounded(S)
  PROVE  /\ Rises(Ascending(S), Cardinality(S), S)
         /\ Ascending(S) \in Seq(S)
         /\ Len(Ascending(S)) = Cardinality(S)
         /\ IsFiniteSet(S) /\ Cardinality(S) \in Nat /\ S \subseteq Int
<1> DEFINE c == Cardinality(S)
<1>0. PICK a \in Int, b \in Int : S \subseteq a .. b
  BY DEF Bounded
<1>1. IsFiniteSet(S) /\ c \in Nat /\ S \subseteq Int
  <2>1. S \subseteq Int
    BY <1>0
  <2>2. IsFiniteSet(S) /\ c \in Nat
    BY <1>0, FiniteBetween
  <2> QED
    BY <2>1, <2>2
<1>2. \E s \in [1 .. c -> S] : \A j, k \in DOMAIN s : j < k => s[j] < s[k]
  <2>0. \E n \in Nat : S \subseteq (a - 1) + 1 .. (a - 1) + n
    <3>1. CASE a <= b
      <4>1. b - a + 1 \in Nat /\ S \subseteq (a - 1) + 1 .. (a - 1) + (b - a + 1)
        BY <1>0, <3>1
      <4> QED
        BY <4>1
    <3>2. CASE b < a
      <4>1. 0 \in Nat /\ S \subseteq (a - 1) + 1 .. (a - 1) + 0
        BY <1>0, <3>2
      <4> QED
        BY <4>1
    <3>3. a <= b \/ b < a
      OBVIOUS
    <3> QED
      BY <3>1, <3>2, <3>3, Zenon
  <2>1. PICK s : Rises(s, c, S)
    <3>1. a - 1 \in Int
      OBVIOUS
    <3> QED
      BY <2>0, <3>1, AscendingExists
  <2> QED
    BY <2>1 DEF Rises
<1>3. /\ Ascending(S) \in [1 .. c -> S]
      /\ \A j, k \in DOMAIN Ascending(S) : j < k => Ascending(S)[j] < Ascending(S)[k]
  BY <1>2 DEF Ascending
<1>4. Rises(Ascending(S), c, S)
  BY <1>3 DEF Rises
<1> HIDE DEF c
<1>5. Ascending(S) \in Seq(S) /\ Len(Ascending(S)) = c
  BY <1>1, <1>3
<1> QED
  BY <1>1, <1>4, <1>5 DEF c

\* A list that rises, and then one that rises from above it.
LEMMA RisesInParts ==
  ASSUME NEW a \in Nat, NEW S, S \subseteq Int, NEW s \in Seq(S), Len(s) = a, Rises(s, a, S),
         NEW b \in Nat, NEW T, T \subseteq Int, NEW t \in Seq(T), Len(t) = b, Rises(t, b, T),
         \A x \in S, y \in T : x < y
  PROVE  Rises(s \o t, a + b, S \cup T)
<1>1. s \in Seq(S \cup T) /\ t \in Seq(S \cup T)
  OBVIOUS
<1>2. s \o t \in Seq(S \cup T) /\ Len(s \o t) = a + b
  BY <1>1
<1>3. /\ \A k \in 1 .. a : (s \o t)[k] = s[k] /\ s[k] \in S
      /\ \A k \in a + 1 .. a + b : (s \o t)[k] = t[k - a] /\ t[k - a] \in T /\ k - a \in 1 .. b
  BY <1>1
<1> DEFINE u == s \o t
<1> HIDE DEF u
<1>4. u \in [1 .. a + b -> S \cup T]
  <2>1. u \in Seq(S \cup T) /\ Len(u) = a + b
    BY <1>2 DEF u
  <2> QED
    BY <2>1
<1>5. ASSUME NEW j \in 1 .. a + b, NEW k \in 1 .. a + b, j < k PROVE u[j] < u[k]
  <2>1. CASE k <= a
    BY <1>3, <1>5, <2>1 DEF Rises, u
  <2>2. CASE j > a
    BY <1>3, <1>5, <2>2 DEF Rises, u
  <2>3. CASE j <= a /\ k > a
    <3>1. j \in 1 .. a /\ k \in a + 1 .. a + b
      BY <2>3
    <3>2. u[j] \in S /\ u[k] \in T
      BY <1>3, <3>1 DEF u
    <3> QED
      BY <3>2
  <2> QED
    BY <2>1, <2>2, <2>3
<1> QED
  BY <1>4, <1>5 DEF Rises, u

\* The list of a set in two parts is the list of the lower part and then of the upper.
LEMMA AscendingInParts ==
  ASSUME NEW S, Bounded(S), NEW T, Bounded(T), \A x \in S, y \in T : x < y
  PROVE  /\ Ascending(S \cup T) = Ascending(S) \o Ascending(T)
         /\ Cardinality(S \cup T) = Cardinality(S) + Cardinality(T)
<1> DEFINE U == S \cup T
<1>1. Bounded(U)
  <2>1. PICK a \in Int, b \in Int : S \subseteq a .. b
    BY DEF Bounded
  <2>2. PICK c \in Int, d \in Int : T \subseteq c .. d
    BY DEF Bounded
  <2>3. PICK low \in {a, c} : low <= a /\ low <= c
    OBVIOUS
  <2>4. PICK high \in {b, d} : b <= high /\ d <= high
    OBVIOUS
  <2>5. U \subseteq low .. high /\ low \in Int /\ high \in Int
    BY <2>1, <2>2, <2>3, <2>4
  <2> QED
    BY <2>5 DEF Bounded
<1> HIDE DEF U
<1>2. /\ IsFiniteSet(S) /\ Cardinality(S) \in Nat /\ S \subseteq Int
      /\ IsFiniteSet(T) /\ Cardinality(T) \in Nat /\ T \subseteq Int
      /\ IsFiniteSet(U) /\ Cardinality(U) \in Nat /\ U \subseteq Int
  BY <1>1, AscendingRises
<1>3. Cardinality(U) = Cardinality(S) + Cardinality(T)
  <2>1. S \cap T = {}
    <3>1. ASSUME NEW x \in S, x \in T PROVE FALSE
      <4>1. x < x /\ x \in Int
        BY <1>2, <3>1
      <4> QED
        BY <4>1
    <3> QED
      BY <3>1
  <2>2. Cardinality(S \cap T) = 0
    BY <2>1, FS_EmptySet
  <2>3. Cardinality(S \cup T) = Cardinality(S) + Cardinality(T) - Cardinality(S \cap T)
    BY <1>2, FS_Union
  <2> QED
    BY <1>2, <2>2, <2>3 DEF U
<1>4. /\ Rises(Ascending(S), Cardinality(S), S)
      /\ Ascending(S) \in Seq(S) /\ Len(Ascending(S)) = Cardinality(S)
      /\ Rises(Ascending(T), Cardinality(T), T)
      /\ Ascending(T) \in Seq(T) /\ Len(Ascending(T)) = Cardinality(T)
      /\ Rises(Ascending(U), Cardinality(U), U)
  BY <1>1, AscendingRises
<1>5. Rises(Ascending(S) \o Ascending(T), Cardinality(S) + Cardinality(T), U)
  BY <1>2, <1>4, RisesInParts DEF U
<1>6. Ascending(U) = Ascending(S) \o Ascending(T)
  <2> DEFINE whole == Ascending(U)
             parts == Ascending(S) \o Ascending(T)
  <2>1. Rises(whole, Cardinality(U), U) /\ Rises(parts, Cardinality(U), U)
    BY <1>3, <1>4, <1>5
  <2> HIDE DEF whole, parts
  <2>2. whole = parts
    BY <1>2, <2>1, OneAscending
  <2> QED
    BY <2>2 DEF whole, parts
<1> QED
  BY <1>3, <1>6 DEF U
-----------------------------------------------------------------------------
(* What an enumerator holds.                                               *)

FolderObject ==
  [m_nFolderIdx : Nat, m_nFileIdx : Nat, of : [known : BOOLEAN, szName : Int]]

\* Where Next may read: no further in front of the array than an int can point.
Positions == {n \in Int : -IntLimit <= n}

FTypes ==
  /\ rio \in {Contents, <<>>}
  /\ pc \in [Enumerators -> Places]
  /\ source \in [Enumerators -> FolderObject]
  /\ m_grfFlags \in [Enumerators -> FlagSets \cup {{}}]
  /\ listing \in [Enumerators -> Seq(Int)]
  /\ m_paData \in [Enumerators -> Seq(ITEMDATA)]
  /\ written \in [Enumerators -> SUBSET Nat]
  /\ m_nItem \in [Enumerators -> Positions]
  /\ ids \in [Enumerators -> Seq(Item)]
  /\ wraps \in [Enumerators -> Nat]

\* Until it has read its entries an enumerator has none and has handed out none.
Blank(e) ==
  pc[e] # "ready" => /\ m_paData[e] = <<>> /\ written[e] = {}
                     /\ m_nItem[e] = 0 /\ ids[e] = <<>> /\ wraps[e] = 0

\* The position is in front of the array only after a Skip that took it round.
Placed(e) == wraps[e] = 0 => m_nItem[e] \in Nat

\* An index of a collection is a WORD.
Counted(e) == Len(listing[e]) < WordSize /\ Len(m_paData[e]) < WordSize

\* A folder object made of an entry that was written is that of a folder of the Rio.
KnownFolder(f) ==
  f.of.known => f.m_nFileIdx \in DOMAIN Contents /\ Contents[f.m_nFileIdx].szName = f.of.szName

\* The collection is that of the first contents, if any were left: a Rio that has been
\* formatted has no folder whose songs could be asked for.
Listed(e) ==
  pc[e] \in {"listed", "ready"} =>
    /\ m_nFolderIdx(e) = 0 =>
         \A i \in DOMAIN listing[e] : i \in DOMAIN Contents /\ listing[e][i] = Contents[i].szName
    /\ source[e].of.known => listing[e] = Contents[m_nFolderIdx(e)].songs

Entries(e) ==
  \A i \in written[e] :
    /\ i \in DOMAIN listing[e] /\ i \in DOMAIN m_paData[e]
    /\ m_paData[e][i] = ItemData(e, i)

Sound(e) ==
  /\ Blank(e) /\ Placed(e) /\ Counted(e)
  /\ KnownFolder(source[e]) /\ Listed(e) /\ Entries(e)

FData == FTypes /\ \A e \in Enumerators : Sound(e)

\* What an enumeration does leaves every other one as it was.
LEMMA OthersStaySound ==
  ASSUME FData, FTypes', NEW e \in Enumerators, Sound(e)',
         \A d \in Enumerators \ {e} :
           /\ pc'[d] = pc[d] /\ source'[d] = source[d] /\ listing'[d] = listing[d]
           /\ m_paData'[d] = m_paData[d] /\ written'[d] = written[d]
           /\ m_nItem'[d] = m_nItem[d] /\ ids'[d] = ids[d] /\ wraps'[d] = wraps[d]
  PROVE  FData'
<1>1. ASSUME NEW d \in Enumerators, d # e PROVE Sound(d)'
  <2>1. Sound(d)
    BY DEF FData
  <2>2. /\ pc'[d] = pc[d] /\ source'[d] = source[d] /\ listing'[d] = listing[d]
        /\ m_paData'[d] = m_paData[d] /\ written'[d] = written[d]
        /\ m_nItem'[d] = m_nItem[d] /\ ids'[d] = ids[d] /\ wraps'[d] = wraps[d]
    BY <1>1
  <2>3. (Blank(d) => Blank(d)') /\ (KnownFolder(source[d]) => KnownFolder(source[d])')
    BY <2>2 DEF Blank, KnownFolder
  <2>6. (Placed(d) => Placed(d)') /\ (Counted(d) => Counted(d)')
    BY <2>2 DEF Placed, Counted
  <2>4. Listed(d) => Listed(d)'
    BY <2>2 DEF Listed, m_nFolderIdx
  <2>5. Entries(d) => Entries(d)'
    BY <2>2, SMTT(30) DEF Entries, ItemData, m_nFolderIdx
  <2> QED
    BY <2>1, <2>3, <2>4, <2>5, <2>6 DEF Sound
<1> QED
  BY <1>1 DEF FData

LEMMA InitFData == Init => FData
<1> SUFFICES ASSUME Init PROVE FData
  OBVIOUS
<1>1. Root \in FolderObject /\ ~ Root.of.known
  BY DEF Root, RootEntry, FolderObject
<1>2. FTypes
  BY <1>1, ContentsAssumption DEF Init, FTypes, Places, Positions
<1>3. ASSUME NEW e \in Enumerators PROVE Sound(e)
  <2>1. /\ pc[e] = "none" /\ source[e] = Root /\ m_paData[e] = <<>> /\ written[e] = {}
        /\ m_nItem[e] = 0 /\ ids[e] = <<>> /\ wraps[e] = 0 /\ listing[e] = <<>>
    BY DEF Init
  <2>2. Counted(e)
    BY <2>1, ContentsAssumption DEF Counted
  <2> QED
    BY <1>1, <2>1, <2>2 DEF Sound, Blank, Placed, KnownFolder, Listed, Entries
<1> QED
  BY <1>2, <1>3 DEF FData

LEMMA BelowItsSize ==
  ASSUME NEW n \in Nat, NEW size \in Nat \ {0}, n < size
  PROVE  n % size = n
  OBVIOUS

\* The folder that an item id is bound to, whatever has become of the Rio meanwhile.
LEMMA BoundFoldersAreKnown ==
  ASSUME FData, NEW f \in Folders
  PROVE  f \in FolderObject /\ KnownFolder(f)
<1>1. CASE f = Root
  BY <1>1 DEF Root, RootEntry, FolderObject, KnownFolder
<1>2. CASE \E e \in Enumerators : \E id \in ToSet(ids[e]) :
             id.fIsFolder /\ f = BindToObject(e, id)
  <2>1. PICK e \in Enumerators : \E id \in ToSet(ids[e]) : id.fIsFolder /\ f = BindToObject(e, id)
    BY <1>2
  <2>0. PICK id \in ToSet(ids[e]) : id.fIsFolder /\ f = BindToObject(e, id)
    BY <2>1
  <2>2. PICK k \in DOMAIN ids[e] : ids[e][k] = id
    BY <2>0 DEF ToSet
  <2>3. id \in Item /\ written[e] \in SUBSET Nat
    BY <2>0, <2>2 DEF FData, FTypes
  <2>4. f \in FolderObject
    BY <2>0, <2>3 DEF BindToObject, FolderObject, Item
  <2>5. ASSUME f.of.known PROVE KnownFolder(f)
    <3>1. PICK i \in written[e] : id = CreateChildID(e, i)
      BY <2>0, <2>5 DEF BindToObject
    <3>2. Blank(e) /\ Counted(e) /\ Listed(e) /\ Entries(e) /\ m_paData[e] \in Seq(ITEMDATA)
      BY DEF FData, FTypes, Sound
    <3>3. pc[e] = "ready"
      BY <3>1, <3>2 DEF Blank
    <3>4. i \in DOMAIN listing[e] /\ i \in DOMAIN m_paData[e] /\ m_paData[e][i] = ItemData(e, i)
      BY <3>1, <3>2 DEF Entries
    <3>5. i % WordSize = i
      <4>1. i \in 1 .. Len(m_paData[e]) /\ Len(m_paData[e]) \in Nat
        BY <3>2, <3>4
      <4> QED
        BY <3>2, <4>1, BelowItsSize, ContentsAssumption DEF Counted
    <3>6. /\ f.m_nFileIdx = i /\ f.of.szName = m_paData[e][i].szName
          /\ m_paData[e][i].fIsFolder
      <4>1. /\ id.nFileIdx = i % WordSize /\ id.szName = Entry(e, i).szName
            /\ id.fIsFolder = Entry(e, i).fIsFolder
        BY <3>1 DEF CreateChildID
      <4>2. Entry(e, i) = m_paData[e][i]
        BY <3>4 DEF Entry
      <4>3. f.m_nFileIdx = id.nFileIdx /\ f.of.szName = id.szName
        BY <2>0 DEF BindToObject
      <4> QED
        BY <2>0, <3>5, <4>1, <4>2, <4>3
    <3>7. f.of.szName = listing[e][i]
      BY <3>4, <3>6 DEF ItemData
    <3>8. m_nFolderIdx(e) = 0
      <4>1. ItemData(e, i).fIsFolder
        BY <3>4, <3>6
      <4> QED
        BY <4>1, Zenon DEF ItemData
    <3> QED
      BY <3>2, <3>3, <3>4, <3>6, <3>7, <3>8 DEF Listed, KnownFolder
  <2> QED
    BY <2>4, <2>5 DEF KnownFolder
<1> QED
  BY <1>1, <1>2 DEF Folders

LEMMA OpenKeepsData ==
  ASSUME FData, NEW e \in Enumerators, NEW f \in Folders, NEW flags \in FlagSets,
         EnumObjects(e, f, flags)
  PROVE  FData'
<1>1. f \in FolderObject /\ KnownFolder(f)
  BY BoundFoldersAreKnown
<1>2. FTypes'
  BY <1>1 DEF FData, FTypes, EnumObjects, Places
<1>3. /\ pc[e] = "none" /\ pc'[e] = "opened" /\ source'[e] = f
      /\ UNCHANGED <<listing, m_paData, written, m_nItem, ids, wraps>>
  BY DEF FData, FTypes, EnumObjects
<1>4. Sound(e)'
  <2>1. Blank(e) /\ Placed(e) /\ Counted(e)
    BY DEF FData, Sound
  <2>2. Blank(e)' /\ written[e] = {} /\ ids[e] = <<>>
    BY <1>3, <2>1 DEF Blank
  <2>3. KnownFolder(source[e])'
    BY <1>1, <1>3 DEF KnownFolder
  <2>4. Listed(e)' /\ Entries(e)' /\ Placed(e)' /\ Counted(e)'
    BY <1>3, <2>1, <2>2 DEF Listed, Entries, Placed, Counted
  <2> QED
    BY <2>2, <2>3, <2>4 DEF Sound
<1>5. \A d \in Enumerators \ {e} : pc'[d] = pc[d] /\ source'[d] = source[d]
  BY DEF FData, FTypes, EnumObjects
<1> QED
  BY <1>2, <1>3, <1>4, <1>5, OthersStaySound

LEMMA ListKeepsData ==
  ASSUME FData, NEW e \in Enumerators, GetCollection(e)
  PROVE  FData'
<1>1. /\ pc[e] = "opened" /\ pc'[e] = "listed"
      /\ UNCHANGED <<rio, source, m_grfFlags, m_paData, written, m_nItem, ids, wraps>>
      /\ listing'[e] = IF m_nFolderIdx(e) = 0 THEN get_Folders ELSE get_Songs(m_nFolderIdx(e) - 1)
      /\ m_nFolderIdx(e) = 0 \/ HasFolder(m_nFolderIdx(e) - 1)
  BY DEF FData, FTypes, GetCollection
<1>2. m_nFolderIdx(e) \in Nat
  BY DEF FData, FTypes, FolderObject, m_nFolderIdx
<1>3. /\ Contents \in Seq(RioFolder) /\ rio \in Seq(RioFolder)
      /\ \A i \in DOMAIN rio : i \in DOMAIN Contents /\ rio[i] = Contents[i]
  <2>1. Contents \in Seq(RioFolder)
    BY ContentsAssumption
  <2>2. rio = Contents \/ rio = <<>>
    BY DEF FData, FTypes
  <2>3. <<>> \in Seq(RioFolder) /\ DOMAIN <<>> = {}
    OBVIOUS
  <2> QED
    BY <2>1, <2>2, <2>3
<1>4. Blank(e) /\ Placed(e) /\ Counted(e) /\ KnownFolder(source[e])
  BY DEF FData, Sound
<1> DEFINE new == listing'[e]
<1>5. /\ new \in Seq(Int) /\ Len(new) < WordSize
      /\ m_nFolderIdx(e) = 0 =>
           \A i \in DOMAIN new : i \in DOMAIN Contents /\ new[i] = Contents[i].szName
      /\ source[e].of.known => new = Contents[m_nFolderIdx(e)].songs
  <2>1. CASE m_nFolderIdx(e) = 0
    <3>1. new = [i \in DOMAIN rio |-> rio[i].szName]
      BY <1>1, <2>1 DEF get_Folders
    <3> HIDE DEF new
    <3>2. new \in Seq(Int) /\ Len(new) < WordSize
      <4>1. \A i \in 1 .. Len(rio) : rio[i].szName \in Int
        <5>1. \A i \in 1 .. Len(rio) : rio[i] \in RioFolder
          BY <1>3
        <5> QED
          BY <5>1 DEF RioFolder
      <4>2. new = [i \in 1 .. Len(rio) |-> rio[i].szName] /\ Len(rio) \in Nat
        BY <1>3, <3>1
      <4>3. Len(rio) < WordSize
        <5>1. rio = Contents \/ (rio = <<>> /\ WordSize \in Nat \ {0})
          BY ContentsAssumption DEF FData, FTypes
        <5> QED
          BY <5>1, ContentsAssumption
      <4> QED
        BY <4>1, <4>2, <4>3
    <3>3. \A i \in DOMAIN new : i \in DOMAIN Contents /\ new[i] = Contents[i].szName
      BY <1>3, <3>1
    <3>4. ~ source[e].of.known
      <4>1. 0 \notin DOMAIN Contents
        BY <1>3
      <4> QED
        BY <1>4, <2>1, <4>1 DEF KnownFolder, m_nFolderIdx
    <3> QED
      BY <3>2, <3>3, <3>4
  <2>2. CASE m_nFolderIdx(e) # 0
    <3>1. m_nFolderIdx(e) - 1 + 1 = m_nFolderIdx(e)
      BY <1>2
    <3>2. m_nFolderIdx(e) \in DOMAIN rio /\ new = rio[m_nFolderIdx(e)].songs
      BY <1>1, <2>2, <3>1 DEF HasFolder, get_Songs
    <3> HIDE DEF new
    <3>3. new = Contents[m_nFolderIdx(e)].songs
      BY <1>3, <3>2
    <3>4. new \in Seq(Int) /\ Len(new) < WordSize
      <4>1. rio[m_nFolderIdx(e)] \in RioFolder
        BY <1>3, <3>2
      <4>2. Len(Contents[m_nFolderIdx(e)].songs) < WordSize
        BY <1>3, <3>2, ContentsAssumption
      <4> QED
        BY <3>2, <3>3, <4>1, <4>2 DEF RioFolder
    <3> QED
      BY <2>2, <3>3, <3>4
  <2> QED
    BY <2>1, <2>2
<1>6. FTypes'
  BY <1>1, <1>5, SMTT(30) DEF FData, FTypes, GetCollection, Places
<1>7. Sound(e)'
  <2>1. Blank(e)' /\ KnownFolder(source[e])' /\ written'[e] = {}
    BY <1>1, <1>4 DEF Blank, KnownFolder
  <2>4. Placed(e)' /\ Counted(e)'
    BY <1>1, <1>4, <1>5 DEF Placed, Counted
  <2>2. Listed(e)'
    BY <1>1, <1>5 DEF Listed, m_nFolderIdx
  <2>3. Entries(e)'
    BY <2>1 DEF Entries
  <2> QED
    BY <2>1, <2>2, <2>3, <2>4 DEF Sound
<1>8. \A d \in Enumerators \ {e} : pc'[d] = pc[d] /\ listing'[d] = listing[d]
  BY DEF FData, FTypes, GetCollection
<1> QED
  BY <1>1, <1>6, <1>7, <1>8, OthersStaySound

\* An enumerator that is dropped is as it was before it was made.
LEMMA DropKeepsData ==
  ASSUME FData, NEW e \in Enumerators, Dropped(e), UNCHANGED rio
  PROVE  FData'
<1>1. Root \in FolderObject /\ ~ Root.of.known
  BY DEF Root, RootEntry, FolderObject
<1>2. FTypes'
  BY <1>1, ContentsAssumption DEF FData, FTypes, Dropped, Places, Positions
<1>3. /\ pc'[e] = "none" /\ source'[e] = Root /\ m_paData'[e] = <<>> /\ written'[e] = {}
      /\ m_nItem'[e] = 0 /\ ids'[e] = <<>> /\ wraps'[e] = 0 /\ listing'[e] = <<>>
  BY DEF FData, FTypes, Dropped
<1>4. Sound(e)'
  BY <1>1, <1>3, ContentsAssumption
     DEF Sound, Blank, Placed, Counted, KnownFolder, Listed, Entries
<1>5. \A d \in Enumerators \ {e} :
        /\ pc'[d] = pc[d] /\ source'[d] = source[d] /\ listing'[d] = listing[d]
        /\ m_paData'[d] = m_paData[d] /\ written'[d] = written[d]
        /\ m_nItem'[d] = m_nItem[d] /\ ids'[d] = ids[d] /\ wraps'[d] = wraps[d]
  BY DEF FData, FTypes, Dropped
<1> QED
  BY <1>2, <1>4, <1>5, OthersStaySound

\* The entries that were written are those of the collection; the others are not known.
LEMMA ReadKeepsData ==
  ASSUME FData, NEW e \in Enumerators, ReadItems(e)
  PROVE  FData'
<1>1. PICK failed \in SUBSET DOMAIN listing[e], junk \in Junk :
        /\ m_paData' = [m_paData EXCEPT ![e] =
             [i \in DOMAIN listing[e] |-> IF i \in failed THEN junk ELSE ItemData(e, i)]]
        /\ written' = [written EXCEPT ![e] = DOMAIN listing[e] \ failed]
  BY DEF ReadItems
<1>2. /\ pc[e] = "listed" /\ pc'[e] = "ready"
      /\ UNCHANGED <<rio, source, m_grfFlags, listing, m_nItem, ids, wraps>>
  BY DEF FData, FTypes, ReadItems
<1>3. /\ m_paData'[e] = [i \in DOMAIN listing[e] |-> IF i \in failed THEN junk ELSE ItemData(e, i)]
      /\ written'[e] = DOMAIN listing[e] \ failed
  BY <1>1 DEF FData, FTypes
<1>4. listing[e] \in Seq(Int)
  BY DEF FData, FTypes
<1>5. junk \in ITEMDATA /\ \A i \in DOMAIN listing[e] : ItemData(e, i) \in ITEMDATA
  <2>1. junk \in ITEMDATA
    BY ContentsAssumption
  <2> QED
    BY <1>4, <2>1 DEF ITEMDATA, ItemData
<1>6. /\ m_paData'[e] \in Seq(ITEMDATA) /\ written'[e] \in SUBSET Nat
      /\ Len(m_paData'[e]) = Len(listing[e])
  BY <1>3, <1>4, <1>5, SMTT(30)
<1>7. FTypes'
  BY <1>1, <1>2, <1>6 DEF FData, FTypes, ReadItems, Places
<1>8. Sound(e)'
  <2>1. Blank(e) /\ Placed(e) /\ Counted(e) /\ KnownFolder(source[e]) /\ Listed(e)
    BY DEF FData, Sound
  <2>2. Blank(e)' /\ KnownFolder(source[e])' /\ ids'[e] = <<>>
    BY <1>2, <2>1 DEF Blank, KnownFolder
  <2>3. Listed(e)'
    BY <1>2, <2>1 DEF Listed, m_nFolderIdx
  <2>4. Entries(e)'
    BY <1>2, <1>3 DEF Entries, ItemData, m_nFolderIdx
  <2>5. Placed(e)' /\ Counted(e)'
    BY <1>2, <1>6, <2>1 DEF Placed, Counted
  <2> QED
    BY <2>2, <2>3, <2>4, <2>5 DEF Sound
<1>9. \A d \in Enumerators \ {e} :
        pc'[d] = pc[d] /\ m_paData'[d] = m_paData[d] /\ written'[d] = written[d]
  BY <1>1 DEF FData, FTypes, ReadItems
<1> QED
  BY <1>2, <1>7, <1>8, <1>9, OthersStaySound

-----------------------------------------------------------------------------
(* Moving through the entries.                                             *)

LEMMA ChosenBelow ==
  ASSUME NEW e, m_paData[e] \in Seq(ITEMDATA), NEW from \in Int, NEW to \in Int
  PROVE  /\ Chosen(e, from, to) \subseteq from + 1 .. Len(m_paData[e])
         /\ Len(m_paData[e]) \in Nat
         /\ Bounded(Chosen(e, from, to))
<1>1. Chosen(e, from, to) \subseteq from + 1 .. Len(m_paData[e]) /\ Len(m_paData[e]) \in Nat
  BY DEF Chosen
<1>2. from + 1 \in Int /\ Len(m_paData[e]) \in Int
  BY <1>1
<1> QED
  BY <1>1, <1>2 DEF Bounded

\* What is chosen between two positions is found in two parts wherever one stops between.
LEMMA BetweenInParts ==
  ASSUME NEW e, m_paData[e] \in Seq(ITEMDATA),
         NEW a \in Int, NEW b \in Int, NEW c \in Int, a <= b, b <= c
  PROVE  /\ Between(e, a, c) = Between(e, a, b) \o Between(e, b, c)
         /\ Cardinality(Chosen(e, a, c))
              = Cardinality(Chosen(e, a, b)) + Cardinality(Chosen(e, b, c))
<1> DEFINE lower == Chosen(e, a, b)
           upper == Chosen(e, b, c)
<1>1. /\ Len(m_paData[e]) \in Nat
      /\ lower \subseteq a + 1 .. Len(m_paData[e]) /\ Bounded(lower)
      /\ upper \subseteq b + 1 .. Len(m_paData[e]) /\ Bounded(upper)
  BY ChosenBelow
<1>2. \A x \in lower, y \in upper : x < y
  BY <1>1 DEF Chosen
<1>3. Chosen(e, a, c) = lower \cup upper
  BY <1>1 DEF Chosen
<1> HIDE DEF lower, upper
<1>4. /\ Ascending(lower \cup upper) = Ascending(lower) \o Ascending(upper)
      /\ Cardinality(lower \cup upper) = Cardinality(lower) + Cardinality(upper)
  BY <1>1, <1>2, AscendingInParts
<1> QED
  BY <1>3, <1>4 DEF Between, lower, upper

LEMMA BetweenIsList ==
  ASSUME NEW e, m_paData[e] \in Seq(ITEMDATA), NEW a \in Int, NEW b \in Int
  PROVE  /\ Between(e, a, b) \in Seq(a + 1 .. Len(m_paData[e]))
         /\ Len(Between(e, a, b)) = Cardinality(Chosen(e, a, b))
         /\ Cardinality(Chosen(e, a, b)) \in Nat
<1> DEFINE S == Chosen(e, a, b)
           T == a + 1 .. Len(m_paData[e])
<1>1. S \subseteq T /\ Bounded(S)
  BY ChosenBelow
<1> HIDE DEF S, T
<1>2. Ascending(S) \in Seq(S) /\ Len(Ascending(S)) = Cardinality(S) /\ Cardinality(S) \in Nat
  BY <1>1, AscendingRises
<1>3. Ascending(S) \in Seq(T)
  BY <1>1, <1>2
<1> QED
  BY <1>2, <1>3 DEF Between, S, T

\* The loop of Next ends, and not before the place where it began.
LEMMA NextStops ==
  ASSUME NEW e, m_paData[e] \in Seq(ITEMDATA), m_nItem[e] \in Int, NEW celt
  PROVE  Stop(e, celt) \in Int /\ m_nItem[e] <= Stop(e, celt)
<1> DEFINE T == {n \in m_nItem[e] .. Len(m_paData[e]) : StopsAt(e, celt, n)}
<1>1. Len(m_paData[e]) \in Nat
  OBVIOUS
<1>2. CASE m_nItem[e] >= Len(m_paData[e])
  BY <1>2 DEF Stop
<1>3. CASE ~ (m_nItem[e] >= Len(m_paData[e]))
  <2>1. T \subseteq Int /\ \A n \in T : m_nItem[e] <= n
    BY <1>1
  <2>2. Len(m_paData[e]) \in T
    BY <1>1, <1>3 DEF StopsAt
  <2>3. Stop(e, celt) = Min(T)
    BY <1>3 DEF Stop
  <2> HIDE DEF T
  <2>4. \E x \in T : \A y \in T : x <= y
    BY <2>1, <2>2, SmallestFrom
  <2>5. Min(T) \in T
    BY <2>4 DEF Min
  <2> QED
    BY <2>1, <2>3, <2>5
<1> QED
  BY <1>2, <1>3

\* Whatever place a position can be in, what is read after it makes an item id.
LEMMA EntriesMakeItems ==
  ASSUME FData, NEW e \in Enumerators, NEW i \in m_nItem[e] + 1 .. Len(m_paData[e])
  PROVE  CreateChildID(e, i) \in Item /\ CreateChildID(e, i).nFileIdx = i % WordSize
<1>1. /\ m_paData[e] \in Seq(ITEMDATA) /\ m_nItem[e] \in Int /\ -IntLimit <= m_nItem[e]
      /\ m_nFolderIdx(e) \in Nat /\ IntLimit \in Nat \ {0}
  BY ContentsAssumption DEF FData, FTypes, FolderObject, m_nFolderIdx, Positions
<1>2. i \in 1 .. Len(m_paData[e]) \/ i \in 1 - IntLimit .. 0
  BY <1>1
<1>3. Entry(e, i) \in ITEMDATA
  <2>1. CASE i \in 1 .. Len(m_paData[e])
    BY <1>1, <2>1 DEF Entry
  <2>2. CASE i \in 1 - IntLimit .. 0
    <3>1. i \notin DOMAIN m_paData[e]
      BY <1>1, <2>2
    <3> QED
      BY <2>2, <3>1, ContentsAssumption DEF Entry
  <2> QED
    BY <1>2, <2>1, <2>2
<1>4. i % WordSize \in Nat /\ Entry(e, i).nSize % ByteSize \in Nat
  <2>1. Entry(e, i).nSize \in Nat /\ i \in Int
    BY <1>1, <1>3 DEF ITEMDATA
  <2> QED
    BY <2>1, ContentsAssumption
<1> QED
  BY <1>1, <1>3, <1>4, SMTT(30) DEF CreateChildID, Item, ITEMDATA

LEMMA WiderSeq == ASSUME NEW S, NEW T, S \subseteq T, NEW s \in Seq(S) PROVE s \in Seq(T)
  OBVIOUS

LEMMA ElementOf == ASSUME NEW S, NEW s \in Seq(S), NEW k \in 1 .. Len(s) PROVE s[k] \in S
  OBVIOUS

\* What Next hands out is a list of items, with the indices of what it found.
LEMMA FoundMakesItems ==
  ASSUME FData, NEW e \in Enumerators, NEW found \in Seq(m_nItem[e] + 1 .. Len(m_paData[e]))
  PROVE  LET made == [k \in DOMAIN found |-> CreateChildID(e, found[k])]
         IN  /\ made \in Seq(Item) /\ Len(made) = Len(found)
             /\ \A k \in 1 .. Len(found) : made[k].nFileIdx = found[k] % WordSize
<1> DEFINE made == [k \in DOMAIN found |-> CreateChildID(e, found[k])]
<1>1. Len(found) \in Nat /\ DOMAIN found = 1 .. Len(found)
  OBVIOUS
<1>2. ASSUME NEW k \in 1 .. Len(found)
      PROVE  made[k] \in Item /\ made[k].nFileIdx = found[k] % WordSize
  <2>1. found[k] \in m_nItem[e] + 1 .. Len(m_paData[e])
    BY ElementOf
  <2>2. made[k] = CreateChildID(e, found[k])
    BY <1>1
  <2> HIDE DEF made
  <2> QED
    BY <2>1, <2>2, EntriesMakeItems
<1>3. made = [k \in 1 .. Len(found) |-> CreateChildID(e, found[k])]
  BY <1>1
<1>4. \A k \in 1 .. Len(found) : CreateChildID(e, found[k]) \in Item
  BY <1>2, <1>3
<1> HIDE DEF made
<1>5. made \in Seq(Item) /\ Len(made) = Len(found)
  BY <1>1, <1>3, <1>4
<1> QED
  BY <1>2, <1>5 DEF made

LEMMA NextKeepsData ==
  ASSUME FData, NEW e \in Enumerators, NEW celt, Enum_Next(e, celt)
  PROVE  FData'
<1> DEFINE found == Between(e, m_nItem[e], Stop(e, celt))
           made == [k \in DOMAIN found |-> CreateChildID(e, found[k])]
<1>1. /\ pc[e] = "ready"
      /\ UNCHANGED <<rio, pc, source, m_grfFlags, listing, m_paData, written, wraps>>
      /\ m_nItem' = [m_nItem EXCEPT ![e] = Stop(e, celt)]
      /\ ids' = [ids EXCEPT ![e] = ids[e] \o made]
  BY DEF Enum_Next, Deliver, Ready
<1>2. /\ m_paData[e] \in Seq(ITEMDATA) /\ ids[e] \in Seq(Item)
      /\ m_nItem[e] \in Int /\ -IntLimit <= m_nItem[e] /\ IntLimit \in Nat
  BY ContentsAssumption DEF FData, FTypes, Positions
<1>3. Stop(e, celt) \in Int /\ m_nItem[e] <= Stop(e, celt)
  BY <1>2, NextStops
<1>4. found \in Seq(m_nItem[e] + 1 .. Len(m_paData[e]))
  BY <1>2, <1>3, BetweenIsList
<1> HIDE DEF found
<1>5. made \in Seq(Item)
  BY <1>4, FoundMakesItems
<1> HIDE DEF made
<1>6. ids[e] \o made \in Seq(Item) /\ Stop(e, celt) \in Positions
  BY <1>2, <1>3, <1>5 DEF Positions
<1>7. FTypes'
  BY <1>1, <1>6 DEF FData, FTypes
<1>8. Sound(e)'
  <2>1. /\ KnownFolder(source[e]) /\ Listed(e) /\ Entries(e) /\ Placed(e) /\ Counted(e)
    BY DEF FData, Sound
  <2>2. Blank(e)' /\ KnownFolder(source[e])' /\ Counted(e)'
    BY <1>1, <2>1 DEF Blank, KnownFolder, Counted
  <2>3. Listed(e)' /\ Entries(e)'
    BY <1>1, <2>1 DEF Listed, Entries, ItemData, m_nFolderIdx
  <2>4. Placed(e)'
    <3>1. m_nItem'[e] = Stop(e, celt)
      BY <1>1 DEF FData, FTypes
    <3>2. m_nItem[e] \in Nat => Stop(e, celt) \in Nat
      BY <1>3
    <3> QED
      BY <1>1, <2>1, <3>1, <3>2 DEF Placed
  <2> QED
    BY <2>2, <2>3, <2>4 DEF Sound
<1>9. \A d \in Enumerators \ {e} : m_nItem'[d] = m_nItem[d] /\ ids'[d] = ids[d]
  BY <1>1 DEF FData, FTypes
<1> QED
  BY <1>1, <1>7, <1>8, <1>9, OthersStaySound

LEMMA IntsAreInts == ASSUME NEW n \in Int PROVE ToInt(n) \in Positions
<1>1. IntLimit \in Nat \ {0} /\ 2 * IntLimit \in Nat \ {0} /\ n + IntLimit \in Int
  BY ContentsAssumption
<1>2. \A m \in Int, size \in Nat \ {0} : m % size \in Nat
  OBVIOUS
<1>3. (n + IntLimit) % (2 * IntLimit) \in Nat
  BY <1>1, <1>2
<1>4. \A m \in Nat : m - IntLimit \in Int /\ -IntLimit <= m - IntLimit
  BY <1>1
<1> QED
  BY <1>3, <1>4 DEF ToInt, Positions

\* A Skip that does not take the position round moves it forward.
LEMMA SkipMoves ==
  ASSUME FData, NEW e \in Enumerators, NEW celt \in Nat, Enum_Skip(e, celt)
  PROVE  /\ m_nItem' = [m_nItem EXCEPT ![e] = m_nItem'[e]] /\ m_nItem'[e] \in Positions
         /\ wraps' = [wraps EXCEPT ![e] = wraps'[e]] /\ wraps'[e] \in Nat
         /\ \/ wraps'[e] = wraps[e] /\ m_nItem'[e] = m_nItem[e] + celt
            \/ wraps'[e] = wraps[e] + 1
<1> DEFINE sum == m_nItem[e] + celt
           next == ToInt(sum)
<1>1. /\ m_nItem' = [m_nItem EXCEPT ![e] = next]
      /\ \/ next = sum /\ wraps' = wraps
         \/ wraps' = [wraps EXCEPT ![e] = wraps[e] + 1]
  BY DEF Enum_Skip
<1>2. m_nItem \in [Enumerators -> Positions] /\ wraps \in [Enumerators -> Nat]
  BY DEF FData, FTypes
<1>3. next \in Positions
  <2>1. sum \in Int
    BY <1>2 DEF Positions
  <2> QED
    BY <2>1, IntsAreInts
<1> HIDE DEF next
<1>4. m_nItem'[e] = next /\ wraps[e] \in Nat /\ wraps[e] + 1 \in Nat
  BY <1>1, <1>2
<1>5. m_nItem' = [m_nItem EXCEPT ![e] = m_nItem'[e]]
  BY <1>1, <1>4
<1>6. CASE next = sum /\ wraps' = wraps
  <2>1. wraps' = [wraps EXCEPT ![e] = wraps'[e]]
    BY <1>2, <1>6
  <2> QED
    BY <1>3, <1>4, <1>5, <1>6, <2>1
<1>7. CASE wraps' = [wraps EXCEPT ![e] = wraps[e] + 1]
  <2>1. wraps'[e] = wraps[e] + 1
    BY <1>2, <1>7
  <2> QED
    BY <1>3, <1>4, <1>5, <1>7, <2>1
<1> QED
  BY <1>1, <1>6, <1>7

LEMMA SkipKeepsData ==
  ASSUME FData, NEW e \in Enumerators, NEW celt \in Nat, Enum_Skip(e, celt)
  PROVE  FData'
<1>1. /\ pc[e] = "ready"
      /\ UNCHANGED <<rio, pc, source, m_grfFlags, listing, m_paData, written, ids>>
  BY DEF Enum_Skip, Ready
<1>2. /\ m_nItem' = [m_nItem EXCEPT ![e] = m_nItem'[e]] /\ m_nItem'[e] \in Positions
      /\ wraps' = [wraps EXCEPT ![e] = wraps'[e]] /\ wraps'[e] \in Nat
      /\ \/ wraps'[e] = wraps[e] /\ m_nItem'[e] = m_nItem[e] + celt
         \/ wraps'[e] = wraps[e] + 1
  BY SkipMoves
<1>3. m_nItem \in [Enumerators -> Positions] /\ wraps \in [Enumerators -> Nat]
  BY DEF FData, FTypes
<1>4. m_nItem' \in [Enumerators -> Positions] /\ wraps' \in [Enumerators -> Nat]
  BY <1>2, <1>3
<1>5. FTypes'
  BY <1>1, <1>4 DEF FData, FTypes
<1>6. Sound(e)'
  <2>1. KnownFolder(source[e]) /\ Listed(e) /\ Entries(e) /\ Placed(e) /\ Counted(e)
    BY DEF FData, Sound
  <2>2. Blank(e)' /\ KnownFolder(source[e])' /\ Counted(e)'
    BY <1>1, <2>1 DEF Blank, KnownFolder, Counted
  <2>3. Listed(e)' /\ Entries(e)'
    BY <1>1, <2>1, SMTT(30) DEF Listed, Entries, ItemData, m_nFolderIdx
  <2>4. Placed(e)'
    <3>1. wraps[e] \in Nat
      BY <1>3
    <3>2. wraps'[e] = 0 => wraps[e] = 0 /\ m_nItem'[e] = m_nItem[e] + celt
      BY <1>2, <3>1
    <3> QED
      BY <2>1, <3>2 DEF Placed
  <2> QED
    BY <2>2, <2>3, <2>4 DEF Sound
<1>7. \A d \in Enumerators \ {e} : m_nItem'[d] = m_nItem[d] /\ wraps'[d] = wraps[d]
  BY <1>2, <1>3
<1> QED
  BY <1>1, <1>5, <1>6, <1>7, OthersStaySound

LEMMA ResetKeepsData ==
  ASSUME FData, NEW e \in Enumerators, Enum_Reset(e)
  PROVE  FData'
<1>1. /\ pc[e] = "ready"
      /\ UNCHANGED <<rio, pc, source, m_grfFlags, listing, m_paData, written>>
      /\ m_nItem' = [m_nItem EXCEPT ![e] = 0] /\ ids' = [ids EXCEPT ![e] = <<>>]
      /\ wraps' = [wraps EXCEPT ![e] = 0]
  BY DEF Enum_Reset, Ready
<1>2. 0 \in Positions /\ <<>> \in Seq(Item)
  BY ContentsAssumption DEF Positions
<1>3. FTypes'
  BY <1>1, <1>2 DEF FData, FTypes
<1>4. Sound(e)'
  <2>1. KnownFolder(source[e]) /\ Listed(e) /\ Entries(e) /\ Counted(e)
    BY DEF FData, Sound
  <2>2. Blank(e)' /\ KnownFolder(source[e])' /\ Counted(e)'
    BY <1>1, <2>1 DEF Blank, KnownFolder, Counted
  <2>3. Listed(e)' /\ Entries(e)'
    BY <1>1, <2>1, SMTT(30) DEF Listed, Entries, ItemData, m_nFolderIdx
  <2>4. Placed(e)'
    BY <1>1 DEF FData, FTypes, Placed
  <2> QED
    BY <2>2, <2>3, <2>4 DEF Sound
<1>5. \A d \in Enumerators \ {e} :
        m_nItem'[d] = m_nItem[d] /\ ids'[d] = ids[d] /\ wraps'[d] = wraps[d]
  BY <1>1 DEF FData, FTypes
<1> QED
  BY <1>1, <1>3, <1>4, <1>5, OthersStaySound

LEMMA StillData ==
  ASSUME FData, UNCHANGED enumVars, rio' \in {rio, <<>>}
  PROVE  FData'
<1>1. FTypes'
  BY SMTT(30) DEF FData, FTypes, enumVars
<1>2. ASSUME NEW e \in Enumerators PROVE Sound(e)'
  BY DEF FData, enumVars, Sound, Blank, Placed, Counted, KnownFolder, Listed, Entries,
         ItemData, m_nFolderIdx
<1> QED
  BY <1>1, <1>2 DEF FData

LEMMA NextFData == FData /\ [Next]_vars => FData'
<1> SUFFICES ASSUME FData, [Next]_vars PROVE FData'
  OBVIOUS
<1>1. CASE Format \/ UNCHANGED vars
  BY <1>1, StillData DEF Format, vars
<1>2. ASSUME NEW e \in Enumerators, NEW f \in Folders, NEW flags \in FlagSets,
             EnumObjects(e, f, flags)
      PROVE  FData'
  BY <1>2, OpenKeepsData
<1>3. ASSUME NEW e \in Enumerators, Initialize(e) PROVE FData'
  BY <1>3, ListKeepsData, ReadKeepsData, DropKeepsData
     DEF Initialize, GetCollectionFails, GetCountFails
<1>4. ASSUME NEW e \in Enumerators, NEW celt \in Celts, Enum_Next(e, celt) PROVE FData'
  BY <1>4, NextKeepsData
<1>5. ASSUME NEW e \in Enumerators, NEW celt \in Skips, Enum_Skip(e, celt) PROVE FData'
  <2>1. celt \in Nat
    BY ContentsAssumption
  <2> QED
    BY <1>5, <2>1, SkipKeepsData
<1>6. ASSUME NEW e \in Enumerators, Enum_Reset(e) PROVE FData'
  BY <1>6, ResetKeepsData
<1>7. ASSUME NEW e \in Enumerators, Enum_Release(e) PROVE FData'
  BY <1>7, DropKeepsData DEF Enum_Release
<1> QED
  BY <1>1, <1>2, <1>3, <1>4, <1>5, <1>6, <1>7 DEF Next

\* A folder shows the songs of the folder of the Rio whose name its item id bears, for
\* any contents, any number of enumerations at once, whatever fails and whenever the Rio
\* is formatted (FolderContents!ChildShowsItsFolder).
THEOREM ChildShowsItsFolderHolds == Spec => []ChildShowsItsFolder
<1>1. FData => ChildShowsItsFolder
  <2>1. ASSUME FData, NEW e \in Enumerators, pc[e] \in {"listed", "ready"}, source[e].of.known
        PROVE  \E i \in DOMAIN Contents : /\ Contents[i].szName = source[e].of.szName
                                          /\ Contents[i].songs = listing[e]
    <3>1. KnownFolder(source[e]) /\ Listed(e)
      BY <2>1 DEF FData, Sound
    <3> QED
      BY <2>1, <3>1 DEF KnownFolder, Listed, m_nFolderIdx
  <2> QED
    BY <2>1 DEF ChildShowsItsFolder
<1> QED
  BY <1>1, InitFData, NextFData, PTL DEF Spec

-----------------------------------------------------------------------------
(* FolderContents implements Enumeration.                                  *)

\* All there is to enumerate, what has been passed and what has been handed out.
Whole(e) == Between(e, 0, Len(m_paData[e]))
Passed(e) == Cardinality(Chosen(e, 0, m_nItem[e]))
Indices(s) == [k \in DOMAIN s |-> s[k].nFileIdx]
Given(e) == Indices(ids[e])

\* The same, until a Skip takes the position round.
List(e) == IF wraps[e] = 0 THEN Whole(e) ELSE <<>>
Moved(e) == IF wraps[e] = 0 THEN Passed(e) ELSE 0
Handed(e) == IF wraps[e] = 0 THEN Given(e) ELSE <<>>

LEMMA AscendingOfNone == Ascending({}) = <<>> /\ Cardinality({}) = 0
<1>1. Bounded({}) /\ Cardinality({}) = 0
  BY FS_EmptySet DEF Bounded
<1>2. Ascending({}) \in Seq({}) /\ Len(Ascending({})) = 0
  BY <1>1, AscendingRises
<1> QED
  BY <1>1, <1>2

\* An enumerator without entries, at its beginning.
LEMMA NothingToEnumerate ==
  ASSUME NEW e
  PROVE  /\ m_paData[e] = <<>> /\ m_nItem[e] = 0 => List(e) = <<>> /\ Moved(e) = 0
         /\ m_paData'[e] = <<>> /\ m_nItem'[e] = 0 => List(e)' = <<>> /\ Moved(e)' = 0
<1>1. /\ Chosen(e, 0, 0) = {} /\ Chosen(e, 0, 0)' = {}
      /\ m_paData[e] = <<>> => Len(m_paData[e]) = 0
      /\ m_paData'[e] = <<>> => Len(m_paData'[e]) = 0
  BY DEF Chosen
<1>2. ASSUME m_paData[e] = <<>>, m_nItem[e] = 0 PROVE Whole(e) = <<>> /\ Passed(e) = 0
  BY <1>1, <1>2, AscendingOfNone DEF Whole, Passed, Between
<1>3. ASSUME m_paData'[e] = <<>>, m_nItem'[e] = 0 PROVE Whole(e)' = <<>> /\ Passed(e)' = 0
  <2>1. Whole(e)' = Ascending(Chosen(e, 0, 0)') /\ Passed(e)' = Cardinality(Chosen(e, 0, 0)')
    BY <1>1, <1>3 DEF Whole, Passed, Between, Chosen
  <2> QED
    BY <1>1, <2>1, AscendingOfNone
<1> QED
  BY <1>2, <1>3 DEF List, Moved

\* The entries of e, and so what is chosen of them.
LEMMA SameEntries ==
  ASSUME NEW e, m_paData'[e] = m_paData[e], m_grfFlags'[e] = m_grfFlags[e]
  PROVE  /\ Whole(e)' = Whole(e)
         /\ m_nItem'[e] = m_nItem[e] => Passed(e)' = Passed(e)
         /\ Passed(e)' = Cardinality(Chosen(e, 0, m_nItem'[e]))
<1>1. ASSUME NEW i PROVE Wanted(e, i)' = Wanted(e, i) /\ Fits(e, i)' = Fits(e, i)
  BY DEF Wanted, Fits, Entry
<1>2. \A b : {i \in 0 + 1 .. b : i <= Len(m_paData'[e]) /\ Wanted(e, i)' /\ Fits(e, i)'}
               = Chosen(e, 0, b)
  BY <1>1 DEF Chosen
<1>3. /\ Whole(e)' = Ascending(Chosen(e, 0, Len(m_paData'[e])))
      /\ Passed(e)' = Cardinality(Chosen(e, 0, m_nItem'[e]))
  BY <1>2 DEF Whole, Passed, Between, Chosen
<1> QED
  BY <1>3 DEF Whole, Passed, Between

LEMMA MiddlePart ==
  ASSUME NEW S, NEW x \in Seq(S), NEW y \in Seq(S), NEW z \in Seq(S)
  PROVE  /\ SubSeq((x \o y) \o z, Len(x) + 1, Len(x) + Len(y)) = y
         /\ Len((x \o y) \o z) = Len(x) + Len(y) + Len(z) /\ Len(z) \in Nat
<1>1. /\ Len(x) \in Nat /\ Len(y) \in Nat /\ Len(z) \in Nat
      /\ x \o y \in Seq(S) /\ Len(x \o y) = Len(x) + Len(y)
      /\ \A k \in 1 .. Len(y) : (x \o y)[Len(x) + k] = y[k]
  OBVIOUS
<1>2. PICK w \in Seq(S) : w = x \o y
  BY <1>1
<1>3. /\ w \o z \in Seq(S) /\ Len(w \o z) = Len(w) + Len(z)
      /\ \A k \in 1 .. Len(w) : (w \o z)[k] = w[k]
  BY <1>1
<1>4. PICK v \in Seq(S) : v = w \o z
  BY <1>3
<1>5. /\ Len(v) = Len(x) + Len(y) + Len(z)
      /\ \A k \in 1 .. Len(y) : v[Len(x) + k] = y[k]
  BY <1>1, <1>2, <1>3, <1>4
<1>6. SubSeq(v, Len(x) + 1, Len(x) + Len(y)) = y
  <2> DEFINE m == SubSeq(v, Len(x) + 1, Len(x) + Len(y))
  <2>1. m \in Seq(S) /\ Len(m) = Len(y)
    BY <1>1, <1>5
  <2>2. ASSUME NEW k \in 1 .. Len(y) PROVE m[k] = v[Len(x) + k]
    BY <1>1, <1>5
  <2> HIDE DEF m
  <2>3. \A k \in 1 .. Len(y) : m[k] = y[k]
    BY <1>5, <2>2
  <2>4. m = y
    BY <2>1, <2>3, SMTT(30)
  <2> QED
    BY <2>4 DEF m
<1> QED
  BY <1>1, <1>2, <1>4, <1>5, <1>6

\* Wherever two positions are, in the list or past its end.
LEMMA ListBetween ==
  ASSUME NEW e, m_paData[e] \in Seq(ITEMDATA), NEW a \in Nat, NEW b \in Nat, a <= b
  PROVE  LET from == Cardinality(Chosen(e, 0, a))
             to == Cardinality(Chosen(e, 0, b))
         IN  /\ from \in Nat /\ to \in Nat /\ from <= to /\ to <= Len(Whole(e))
             /\ Between(e, a, b) = SubSeq(Whole(e), from + 1, to)
<1> DEFINE n == Len(m_paData[e])
           from == Cardinality(Chosen(e, 0, a))
           to == Cardinality(Chosen(e, 0, b))
           x == Between(e, 0, a)
           y == Between(e, a, b)
<1>1. n \in Nat
  OBVIOUS
<1>2. PICK c \in Nat : b <= c /\ n <= c
  <2>1. b + n \in Nat /\ b <= b + n /\ n <= b + n
    BY <1>1
  <2> QED
    BY <2>1
<1>3. Whole(e) = Between(e, 0, c)
  <2>1. Chosen(e, 0, n) = Chosen(e, 0, c)
    BY <1>1, <1>2 DEF Chosen
  <2> QED
    BY <2>1 DEF Whole, Between
<1> DEFINE z == Between(e, b, c)
<1>4. /\ Between(e, 0, b) = x \o y /\ to = from + Cardinality(Chosen(e, a, b))
      /\ Between(e, 0, c) = Between(e, 0, b) \o z
  <2>1. 0 \in Int /\ a \in Int /\ b \in Int /\ c \in Int /\ 0 <= a /\ 0 <= b
    BY <1>2
  <2>2. ASSUME NEW i \in Int, NEW j \in Int, NEW k \in Int, i <= j, j <= k
        PROVE  /\ Between(e, i, k) = Between(e, i, j) \o Between(e, j, k)
               /\ Cardinality(Chosen(e, i, k))
                    = Cardinality(Chosen(e, i, j)) + Cardinality(Chosen(e, j, k))
    BY <2>2, BetweenInParts
  <2>3. /\ Between(e, 0, b) = x \o y
        /\ to = from + Cardinality(Chosen(e, a, b))
    BY <2>1, <2>2
  <2>4. Between(e, 0, c) = Between(e, 0, b) \o z
    BY <1>2, <2>1, <2>2
  <2> QED
    BY <2>3, <2>4
<1>5. /\ x \in Seq(Int) /\ Len(x) = from /\ from \in Nat
      /\ y \in Seq(Int) /\ Len(y) = Cardinality(Chosen(e, a, b))
      /\ z \in Seq(Int) /\ Cardinality(Chosen(e, a, b)) \in Nat
  <2>1. ASSUME NEW i \in Nat, NEW j \in Nat
        PROVE  /\ Between(e, i, j) \in Seq(Int)
               /\ Len(Between(e, i, j)) = Cardinality(Chosen(e, i, j))
               /\ Cardinality(Chosen(e, i, j)) \in Nat
    <3>1. i + 1 .. Len(m_paData[e]) \subseteq Int
      OBVIOUS
    <3>2. \A S, T : S \subseteq T => Seq(S) \subseteq Seq(T)
      OBVIOUS
    <3> QED
      BY <3>1, <3>2, BetweenIsList
  <2> QED
    BY <1>2, <2>1
<1>6. Whole(e) = (x \o y) \o z
  BY <1>3, <1>4
<1>7. to = from + Len(y) /\ Len(y) \in Nat
  BY <1>4, <1>5
<1> HIDE DEF x, y, z, from, to
<1>8. /\ SubSeq((x \o y) \o z, Len(x) + 1, Len(x) + Len(y)) = y
      /\ Len((x \o y) \o z) = Len(x) + Len(y) + Len(z) /\ Len(z) \in Nat
  <2>1. PICK S : x \in Seq(S) /\ y \in Seq(S) /\ z \in Seq(S)
    BY <1>5
  <2> QED
    BY ONLY <2>1, MiddlePart
<1>9. from <= to /\ to <= Len(Whole(e)) /\ from \in Nat /\ to \in Nat
  <2>1. Len(Whole(e)) = from + Len(y) + Len(z)
    BY <1>5, <1>6, <1>8, Zenon
  <2>2. from \in Nat /\ Len(y) \in Nat /\ Len(z) \in Nat /\ to = from + Len(y)
    BY <1>5, <1>7, <1>8, Zenon
  <2> QED
    BY ONLY <2>1, <2>2
<1>10. y = SubSeq(Whole(e), from + 1, to)
  <2>1. Len(x) + 1 = from + 1 /\ Len(x) + Len(y) = to
    BY <1>5, <1>7
  <2> QED
    BY <1>6, <1>8, <2>1, Zenon
<1> QED
  BY <1>9, <1>10 DEF y, from, to

\* The others are enumerated as before.
SameAt(d) ==
  /\ m_paData'[d] = m_paData[d] /\ m_grfFlags'[d] = m_grfFlags[d]
  /\ m_nItem'[d] = m_nItem[d] /\ ids'[d] = ids[d] /\ wraps'[d] = wraps[d]

LEMMA OneMoves ==
  ASSUME NEW e \in Enumerators, \A d \in Enumerators \ {e} : SameAt(d)
  PROVE  /\ [d \in Enumerators |-> List(d)]'
              = [[d \in Enumerators |-> List(d)] EXCEPT ![e] = List(e)']
         /\ [d \in Enumerators |-> Moved(d)]'
              = [[d \in Enumerators |-> Moved(d)] EXCEPT ![e] = Moved(e)']
         /\ [d \in Enumerators |-> Handed(d)]'
              = [[d \in Enumerators |-> Handed(d)] EXCEPT ![e] = Handed(e)']
<1>1. ASSUME NEW d \in Enumerators, d # e
      PROVE  List(d)' = List(d) /\ Moved(d)' = Moved(d) /\ Handed(d)' = Handed(d)
  <2>1. SameAt(d)
    BY <1>1
  <2>2. List(d)' = List(d) /\ Moved(d)' = Moved(d)
    BY <2>1, SameEntries DEF SameAt, List, Moved
  <2>3. Handed(d)' = Handed(d)
    BY <2>1 DEF SameAt, Handed, Given
  <2> QED
    BY <2>2, <2>3
<1> HIDE DEF List, Moved, Handed
<1> QED
  BY <1>1, Zenon

\* A step of e, by what it does to the list, the position and what has been handed out.
LEMMA CursorMoves ==
  ASSUME NEW e \in Enumerators, \A d \in Enumerators \ {e} : SameAt(d)
  PROVE  /\ List(e) = <<>> /\ Moved(e)' = Moved(e) /\ Handed(e)' = Handed(e)
              => Cursor!Create(e)
         /\ (/\ List(e)' = List(e) /\ Moved(e) <= Moved(e)' /\ Moved(e)' <= Len(List(e))
             /\ Handed(e)' = Handed(e) \o SubSeq(List(e), Moved(e) + 1, Moved(e)'))
              => Cursor!Next(e)
         /\ (/\ List(e)' = List(e) /\ Moved(e) <= Moved(e)' /\ Moved(e)' <= Len(List(e))
             /\ Handed(e)' = Handed(e))
              => Cursor!Skip(e)
         /\ List(e)' = List(e) /\ Moved(e)' = 0 /\ Handed(e)' = <<>> => Cursor!Reset(e)
         /\ List(e)' = <<>> /\ Moved(e)' = 0 /\ Handed(e)' = <<>> => Cursor!Release(e)
         /\ List(e)' = List(e) /\ Moved(e)' = Moved(e) /\ Handed(e)' = Handed(e)
              => UNCHANGED Cursor!vars
<1> DEFINE list == [d \in Enumerators |-> List(d)]
           pos == [d \in Enumerators |-> Moved(d)]
           handed == [d \in Enumerators |-> Handed(d)]
<1>1. /\ list' = [list EXCEPT ![e] = List(e)']
      /\ pos' = [pos EXCEPT ![e] = Moved(e)']
      /\ handed' = [handed EXCEPT ![e] = Handed(e)']
  BY OneMoves
<1>2. /\ list[e] = List(e) /\ list'[e] = List(e)'
      /\ pos[e] = Moved(e) /\ pos'[e] = Moved(e)'
      /\ handed[e] = Handed(e) /\ handed'[e] = Handed(e)'
  OBVIOUS
<1>3. /\ List(e)' = List(e) => list' = list
      /\ Moved(e)' = Moved(e) => pos' = pos
      /\ Handed(e)' = Handed(e) => handed' = handed
  BY <1>1, <1>2
<1>4. /\ Cursor!Create(e) <=>
           /\ list[e] = <<>> /\ list' = [list EXCEPT ![e] = list'[e]]
           /\ pos' = pos /\ handed' = handed
      /\ Cursor!Advance(e) <=>
           /\ pos[e] <= pos'[e] /\ pos'[e] <= Len(list[e])
           /\ pos' = [pos EXCEPT ![e] = pos'[e]] /\ list' = list
      /\ Cursor!Next(e) <=>
           /\ Cursor!Advance(e)
           /\ handed' = [handed EXCEPT ![e] =
                            handed[e] \o SubSeq(list[e], pos[e] + 1, pos'[e])]
      /\ Cursor!Skip(e) <=> Cursor!Advance(e) /\ handed' = handed
      /\ Cursor!Reset(e) <=>
           /\ pos' = [pos EXCEPT ![e] = 0] /\ handed' = [handed EXCEPT ![e] = <<>>]
           /\ list' = list
      /\ Cursor!Release(e) <=>
           /\ list' = [list EXCEPT ![e] = <<>>] /\ pos' = [pos EXCEPT ![e] = 0]
           /\ handed' = [handed EXCEPT ![e] = <<>>]
      /\ UNCHANGED Cursor!vars <=> list' = list /\ pos' = pos /\ handed' = handed
  BY DEF Cursor!Create, Cursor!Advance, Cursor!Next, Cursor!Skip, Cursor!Reset,
         Cursor!Release, Cursor!vars, List, Moved, Handed, Whole, Passed, Given, Indices
<1> HIDE DEF list, pos, handed
<1>5. ASSUME List(e) = <<>>, Moved(e)' = Moved(e), Handed(e)' = Handed(e)
      PROVE  Cursor!Create(e)
  BY <1>1, <1>2, <1>3, <1>4, <1>5
<1>6. ASSUME List(e)' = List(e), Moved(e) <= Moved(e)', Moved(e)' <= Len(List(e))
      PROVE  Cursor!Advance(e)
  BY <1>1, <1>2, <1>3, <1>4, <1>6
<1>7. ASSUME Handed(e)' = Handed(e) \o SubSeq(List(e), Moved(e) + 1, Moved(e)')
      PROVE  handed' = [handed EXCEPT ![e] = handed[e] \o SubSeq(list[e], pos[e] + 1, pos'[e])]
  BY <1>1, <1>2, <1>7
<1>8. ASSUME List(e)' = List(e), Moved(e)' = 0, Handed(e)' = <<>> PROVE Cursor!Reset(e)
  BY <1>1, <1>2, <1>3, <1>4, <1>8
<1>9. ASSUME List(e)' = <<>>, Moved(e)' = 0, Handed(e)' = <<>> PROVE Cursor!Release(e)
  BY <1>1, <1>2, <1>4, <1>9
<1>10. ASSUME List(e)' = List(e), Moved(e) <= Moved(e)', Moved(e)' <= Len(List(e)),
              Handed(e)' = Handed(e) \o SubSeq(List(e), Moved(e) + 1, Moved(e)')
       PROVE  Cursor!Next(e)
  <2>1. Cursor!Advance(e)
    BY <1>6, <1>10
  <2>2. handed' = [handed EXCEPT ![e] = handed[e] \o SubSeq(list[e], pos[e] + 1, pos'[e])]
    BY <1>7, <1>10
  <2> QED
    BY ONLY <1>4, <2>1, <2>2, Zenon
<1>11. ASSUME List(e)' = List(e), Moved(e) <= Moved(e)', Moved(e)' <= Len(List(e)),
              Handed(e)' = Handed(e)
       PROVE  Cursor!Skip(e)
  <2>1. Cursor!Advance(e)
    BY <1>6, <1>11
  <2>2. handed' = handed
    BY <1>3, <1>11
  <2> QED
    BY ONLY <1>4, <2>1, <2>2, Zenon
<1>12. ASSUME List(e)' = List(e), Moved(e)' = Moved(e), Handed(e)' = Handed(e)
       PROVE  UNCHANGED Cursor!vars
  <2>1. list' = list /\ pos' = pos /\ handed' = handed
    BY <1>3, <1>12
  <2> QED
    BY ONLY <1>4, <2>1, Zenon
<1>13. List(e) = <<>> /\ Moved(e)' = Moved(e) /\ Handed(e)' = Handed(e) => Cursor!Create(e)
  BY <1>5
<1>14. (/\ List(e)' = List(e) /\ Moved(e) <= Moved(e)' /\ Moved(e)' <= Len(List(e))
        /\ Handed(e)' = Handed(e) \o SubSeq(List(e), Moved(e) + 1, Moved(e)'))
         => Cursor!Next(e)
  BY <1>10
<1>15. (/\ List(e)' = List(e) /\ Moved(e) <= Moved(e)' /\ Moved(e)' <= Len(List(e))
        /\ Handed(e)' = Handed(e))
         => Cursor!Skip(e)
  BY <1>11
<1>16. List(e)' = List(e) /\ Moved(e)' = 0 /\ Handed(e)' = <<>> => Cursor!Reset(e)
  BY <1>8
<1>17. List(e)' = <<>> /\ Moved(e)' = 0 /\ Handed(e)' = <<>> => Cursor!Release(e)
  BY <1>9
<1>18. List(e)' = List(e) /\ Moved(e)' = Moved(e) /\ Handed(e)' = Handed(e)
         => UNCHANGED Cursor!vars
  BY <1>12
<1> QED
  BY <1>13, <1>14, <1>15, <1>16, <1>17, <1>18

\* Before it has read its entries an enumerator enumerates nothing, whatever the flags.
LEMMA BlankStays ==
  ASSUME FData, NEW e \in Enumerators, pc[e] # "ready",
         m_paData' = m_paData, m_nItem' = m_nItem, ids' = ids, wraps' = wraps
  PROVE  List(e)' = List(e) /\ Moved(e)' = Moved(e) /\ Handed(e)' = Handed(e)
<1>1. m_paData[e] = <<>> /\ m_paData'[e] = <<>> /\ m_nItem[e] = 0 /\ m_nItem'[e] = 0
  BY DEF FData, Sound, Blank
<1>2. List(e) = <<>> /\ Moved(e) = 0 /\ List(e)' = <<>> /\ Moved(e)' = 0
  BY <1>1, NothingToEnumerate
<1> QED
  BY <1>2 DEF Handed, Given, Indices

LEMMA Joined ==
  ASSUME NEW S, NEW x \in Seq(S), NEW y \in Seq(S), NEW z, z = x \o y
  PROVE  /\ z \in Seq(S) /\ Len(z) = Len(x) + Len(y)
         /\ Len(x) \in Nat /\ Len(y) \in Nat
         /\ \A k \in 1 .. Len(x) : z[k] = x[k]
         /\ \A k \in 1 .. Len(y) : z[Len(x) + k] = y[k]
<1>1. /\ x \o y \in Seq(S) /\ Len(x \o y) = Len(x) + Len(y)
      /\ Len(x) \in Nat /\ Len(y) \in Nat
      /\ \A k \in 1 .. Len(x) : (x \o y)[k] = x[k]
      /\ \A k \in 1 .. Len(y) : (x \o y)[Len(x) + k] = y[k]
  OBVIOUS
<1> QED
  BY <1>1, Zenon

LEMMA IndicesAreList ==
  ASSUME NEW s \in Seq(Item)
  PROVE  /\ Indices(s) \in Seq(Int) /\ Len(Indices(s)) = Len(s)
         /\ \A k \in 1 .. Len(s) : Indices(s)[k] = s[k].nFileIdx
<1>1. Len(s) \in Nat /\ Indices(s) = [k \in 1 .. Len(s) |-> s[k].nFileIdx]
  BY DEF Indices
<1>2. \A k \in 1 .. Len(s) : s[k].nFileIdx \in Int
  <2>1. \A k \in 1 .. Len(s) : s[k] \in Item
    BY ElementOf
  <2> QED
    BY <2>1 DEF Item
<1> QED
  BY <1>1, <1>2

LEMMA SameList ==
  ASSUME NEW s \in Seq(Int), NEW t \in Seq(Int), Len(s) = Len(t),
         \A k \in 1 .. Len(s) : s[k] = t[k]
  PROVE  s = t
  OBVIOUS

\* The indices of what has been handed out, and of what is handed out now.
LEMMA GivenGrows ==
  ASSUME NEW old \in Seq(Item), NEW made \in Seq(Item), NEW new, new = old \o made
  PROVE  Indices(new) = Indices(old) \o Indices(made)
<1>1. /\ new \in Seq(Item) /\ Len(new) = Len(old) + Len(made)
      /\ Len(old) \in Nat /\ Len(made) \in Nat
      /\ \A k \in 1 .. Len(old) : new[k] = old[k]
      /\ \A k \in 1 .. Len(made) : new[Len(old) + k] = made[k]
  <2>1. old \in Seq(Item) /\ made \in Seq(Item) /\ new = old \o made
    OBVIOUS
  <2> QED
    BY ONLY <2>1, Joined
<1> DEFINE before == Indices(old)
           now == Indices(made)
           after == Indices(new)
           both == before \o now
<1>2. /\ before \in Seq(Int) /\ Len(before) = Len(old)
      /\ \A k \in 1 .. Len(old) : before[k] = old[k].nFileIdx
  BY IndicesAreList
<1>3. /\ now \in Seq(Int) /\ Len(now) = Len(made)
      /\ \A k \in 1 .. Len(made) : now[k] = made[k].nFileIdx
  BY IndicesAreList
<1>4. /\ after \in Seq(Int) /\ Len(after) = Len(new)
      /\ \A k \in 1 .. Len(new) : after[k] = new[k].nFileIdx
  BY <1>1, IndicesAreList
<1>5. both = before \o now
  OBVIOUS
<1> HIDE DEF before, now, after, both
<1>6. /\ both \in Seq(Int) /\ Len(both) = Len(before) + Len(now)
      /\ \A k \in 1 .. Len(before) : both[k] = before[k]
      /\ \A k \in 1 .. Len(now) : both[Len(before) + k] = now[k]
  <2>1. before \in Seq(Int) /\ now \in Seq(Int) /\ both = before \o now
    BY <1>2, <1>3, <1>5
  <2> QED
    BY ONLY <2>1, Joined
<1>7. ASSUME NEW k \in 1 .. Len(new) PROVE after[k] = both[k]
  <2>1. CASE k <= Len(old)
    <3>1. k \in 1 .. Len(old)
      BY <1>1, <2>1
    <3>2. both[k] = old[k].nFileIdx
      BY <1>2, <1>6, <3>1
    <3> QED
      BY <1>1, <1>4, <3>1, <3>2
  <2>2. CASE ~ (k <= Len(old))
    <3>1. k - Len(old) \in 1 .. Len(made) /\ Len(old) + (k - Len(old)) = k
      BY <1>1, <2>2
    <3>2. both[k] = now[k - Len(old)] /\ new[k] = made[k - Len(old)]
      <4>1. both[Len(old) + (k - Len(old))] = now[k - Len(old)]
        BY <1>2, <1>3, <1>6, <3>1
      <4>2. new[Len(old) + (k - Len(old))] = made[k - Len(old)]
        BY <1>1, <3>1
      <4> QED
        BY <3>1, <4>1, <4>2
    <3> QED
      BY <1>3, <1>4, <3>1, <3>2
  <2> QED
    BY <2>1, <2>2
<1>8. Len(after) = Len(both)
  BY <1>1, <1>2, <1>3, <1>4, <1>6
<1>9. after = both
  BY ONLY <1>4, <1>6, <1>7, <1>8, SameList
<1> QED
  BY <1>9 DEF before, now, after, both

LEMMA NextHandsOut ==
  ASSUME FData, NEW e \in Enumerators, NEW celt, Enum_Next(e, celt), wraps[e] = 0
  PROVE  Cursor!Next(e)
<1> DEFINE n == Stop(e, celt)
           found == Between(e, m_nItem[e], n)
           made == [k \in DOMAIN found |-> CreateChildID(e, found[k])]
<1>1. /\ m_paData[e] \in Seq(ITEMDATA) /\ m_nItem[e] \in Nat /\ ids[e] \in Seq(Item)
      /\ m_nItem \in [Enumerators -> Positions] /\ ids \in [Enumerators -> Seq(Item)]
  <2>1. Placed(e)
    BY DEF FData, Sound
  <2> QED
    BY <2>1 DEF FData, FTypes, Placed
<1>2. n \in Nat /\ m_nItem[e] <= n
  <2>1. n \in Int /\ m_nItem[e] <= n
    BY <1>1, NextStops
  <2> QED
    BY <1>1, <2>1
<1>3. /\ m_paData' = m_paData /\ m_grfFlags' = m_grfFlags /\ wraps' = wraps
      /\ m_nItem' = [m_nItem EXCEPT ![e] = n]
      /\ ids' = [ids EXCEPT ![e] = ids[e] \o made]
  BY DEF Enum_Next, Deliver
<1>4. found \in Seq(m_nItem[e] + 1 .. Len(m_paData[e]))
  BY <1>1, <1>2, BetweenIsList
<1> HIDE DEF n, found
<1>5. m_nItem'[e] = n /\ ids'[e] = ids[e] \o made
  BY <1>1, <1>3
<1>6. /\ Whole(e)' = Whole(e) /\ Passed(e)' = Cardinality(Chosen(e, 0, n))
      /\ Passed(e) <= Passed(e)' /\ Passed(e)' <= Len(Whole(e))
      /\ found = SubSeq(Whole(e), Passed(e) + 1, Passed(e)')
  <2>1. Whole(e)' = Whole(e) /\ Passed(e)' = Cardinality(Chosen(e, 0, n))
    BY <1>3, <1>5, SameEntries
  <2>2. /\ Passed(e) <= Cardinality(Chosen(e, 0, n))
        /\ Cardinality(Chosen(e, 0, n)) <= Len(Whole(e))
        /\ found = SubSeq(Whole(e), Passed(e) + 1, Cardinality(Chosen(e, 0, n)))
    BY <1>1, <1>2, ListBetween DEF Passed, found
  <2> QED
    BY <2>1, <2>2
<1>7. Given(e)' = Given(e) \o found
  <2>1. made \in Seq(Item) /\ Len(made) = Len(found)
    BY <1>4, FoundMakesItems
  <2>2. \A k \in 1 .. Len(found) : made[k].nFileIdx = found[k]
    <3>1. \A k \in 1 .. Len(found) : made[k].nFileIdx = found[k] % WordSize
      BY <1>4, FoundMakesItems
    <3>2. ASSUME NEW k \in 1 .. Len(found) PROVE found[k] % WordSize = found[k]
      <4>1. found[k] \in m_nItem[e] + 1 .. Len(m_paData[e])
        BY <1>4, ElementOf
      <4>2. Len(m_paData[e]) < WordSize /\ Len(m_paData[e]) \in Nat
        BY <1>1 DEF FData, Sound, Counted
      <4>3. found[k] \in Nat /\ found[k] < WordSize /\ WordSize \in Nat \ {0}
        BY <1>1, <4>1, <4>2, ContentsAssumption
      <4> QED
        BY <4>3, BelowItsSize
    <3> QED
      BY <3>1, <3>2
  <2>3. found \in Seq(Int)
    <3>1. m_nItem[e] + 1 .. Len(m_paData[e]) \subseteq Int
      BY <1>1
    <3> QED
      BY <1>4, <3>1, WiderSeq
  <2> HIDE DEF made
  <2>4. Indices(made) = found
    <3>1. /\ Indices(made) \in Seq(Int) /\ Len(Indices(made)) = Len(found)
          /\ \A k \in 1 .. Len(found) : Indices(made)[k] = found[k]
      BY <2>1, <2>2, IndicesAreList
    <3> QED
      BY ONLY <2>3, <3>1, SameList
  <2>5. ids[e] \in Seq(Item) /\ ids'[e] = ids[e] \o made
    BY <1>1, <1>5
  <2>6. Indices(ids'[e]) = Indices(ids[e]) \o Indices(made)
    BY ONLY <2>1, <2>5, GivenGrows
  <2> QED
    BY <2>4, <2>6 DEF Given, Indices
<1>8. \A d \in Enumerators \ {e} : SameAt(d)
  BY <1>1, <1>3 DEF SameAt
<1>9. /\ List(e) = Whole(e) /\ Moved(e) = Passed(e) /\ Handed(e) = Given(e)
      /\ List(e)' = Whole(e)' /\ Moved(e)' = Passed(e)' /\ Handed(e)' = Given(e)'
  BY <1>3 DEF List, Moved, Handed
<1>10. /\ List(e)' = List(e) /\ Moved(e) <= Moved(e)' /\ Moved(e)' <= Len(List(e))
       /\ Handed(e)' = Handed(e) \o SubSeq(List(e), Moved(e) + 1, Moved(e)')
  BY <1>6, <1>7, <1>9
<1> QED
  BY <1>8, <1>10, CursorMoves

\* Once a Skip has taken the position round nothing is promised.
LEMMA PromisesNothing ==
  ASSUME NEW e
  PROVE  /\ wraps[e] # 0 => List(e) = <<>> /\ Moved(e) = 0 /\ Handed(e) = <<>>
         /\ wraps'[e] # 0 => List(e)' = <<>> /\ Moved(e)' = 0 /\ Handed(e)' = <<>>
  BY DEF List, Moved, Handed

LEMMA SkipPassesOver ==
  ASSUME FData, NEW e \in Enumerators, NEW celt \in Skips, Enum_Skip(e, celt)
  PROVE  Cursor!Skip(e) \/ Cursor!Release(e)
<1>1. /\ celt \in Nat /\ m_paData[e] \in Seq(ITEMDATA) /\ wraps[e] \in Nat /\ Placed(e)
      /\ UNCHANGED <<m_paData, m_grfFlags, ids>>
  BY ContentsAssumption DEF FData, FTypes, Sound, Enum_Skip
<1>2. /\ m_nItem' = [m_nItem EXCEPT ![e] = m_nItem'[e]]
      /\ wraps' = [wraps EXCEPT ![e] = wraps'[e]]
      /\ \/ wraps'[e] = wraps[e] /\ m_nItem'[e] = m_nItem[e] + celt
         \/ wraps'[e] = wraps[e] + 1
  BY <1>1, SkipMoves
<1>3. \A d \in Enumerators \ {e} : SameAt(d)
  BY <1>1, <1>2 DEF FData, FTypes, SameAt
<1>4. CASE wraps'[e] # 0
  <2>1. List(e)' = <<>> /\ Moved(e)' = 0 /\ Handed(e)' = <<>>
    BY <1>4, PromisesNothing
  <2> QED
    BY <1>3, <2>1, CursorMoves
<1>5. CASE wraps'[e] = 0
  <2>1. wraps[e] = 0 /\ m_nItem'[e] = m_nItem[e] + celt /\ m_nItem[e] \in Nat
    BY <1>1, <1>2, <1>5 DEF Placed
  <2>2. m_nItem'[e] \in Nat /\ m_nItem[e] <= m_nItem'[e]
    BY <1>1, <2>1
  <2>3. Whole(e)' = Whole(e) /\ Passed(e)' = Cardinality(Chosen(e, 0, m_nItem'[e]))
    BY <1>1, SameEntries
  <2>4. /\ Passed(e) <= Cardinality(Chosen(e, 0, m_nItem'[e]))
        /\ Cardinality(Chosen(e, 0, m_nItem'[e])) <= Len(Whole(e))
    BY <1>1, <2>1, <2>2, ListBetween DEF Passed
  <2>5. /\ List(e) = Whole(e) /\ Moved(e) = Passed(e) /\ Handed(e) = Given(e)
        /\ List(e)' = Whole(e)' /\ Moved(e)' = Passed(e)' /\ Handed(e)' = Given(e)'
    BY <1>5, <2>1 DEF List, Moved, Handed
  <2>6. Given(e)' = Given(e)
    BY <1>1 DEF Given
  <2>7. /\ List(e)' = List(e) /\ Handed(e)' = Handed(e)
        /\ Moved(e) <= Moved(e)' /\ Moved(e)' <= Len(List(e))
    BY <2>3, <2>4, <2>5, <2>6
  <2> QED
    BY <1>3, <2>7, CursorMoves
<1> QED
  BY <1>4, <1>5

\* A Reset begins a new pass, and brings back an enumerator that promised nothing.
LEMMA ResetBegins ==
  ASSUME FData, NEW e \in Enumerators, Enum_Reset(e)
  PROVE  Cursor!Reset(e) \/ Cursor!Create(e)
<1>1. /\ m_nItem'[e] = 0 /\ ids'[e] = <<>> /\ wraps'[e] = 0
      /\ UNCHANGED <<m_paData, m_grfFlags>>
      /\ \A d \in Enumerators \ {e} : SameAt(d)
  BY DEF FData, FTypes, Enum_Reset, SameAt
<1>2. Chosen(e, 0, 0) = {}
  BY DEF Chosen
<1>3. Whole(e)' = Whole(e) /\ Passed(e)' = Cardinality(Chosen(e, 0, 0))
  BY <1>1, SameEntries
<1>4. Passed(e)' = 0
  BY <1>2, <1>3, AscendingOfNone
<1>5. Given(e)' = <<>>
  BY <1>1 DEF Given, Indices
<1>6. List(e)' = Whole(e) /\ Moved(e)' = 0 /\ Handed(e)' = <<>>
  BY <1>1, <1>3, <1>4, <1>5 DEF List, Moved, Handed
<1>7. CASE wraps[e] = 0
  <2>1. List(e) = Whole(e)
    BY <1>7 DEF List
  <2> QED
    BY <1>1, <1>6, <2>1, CursorMoves
<1>8. CASE wraps[e] # 0
  <2>1. List(e) = <<>> /\ Moved(e) = 0 /\ Handed(e) = <<>>
    BY <1>8, PromisesNothing
  <2> QED
    BY <1>1, <1>6, <2>1, CursorMoves
<1> QED
  BY <1>7, <1>8

LEMMA StepIsCursorStep == FData /\ [Next]_vars => [Cursor!Step]_(Cursor!vars)
<1> SUFFICES ASSUME FData, [Next]_vars PROVE [Cursor!Step]_(Cursor!vars)
  OBVIOUS
<1>1. CASE UNCHANGED <<m_paData, m_grfFlags, m_nItem, ids, wraps>>
  BY <1>1 DEF Cursor!vars, Between, Chosen, Wanted, Fits, Entry
<1>2. ASSUME NEW e \in Enumerators, NEW f \in Folders, NEW flags \in FlagSets,
             EnumObjects(e, f, flags)
      PROVE  UNCHANGED Cursor!vars
  <2>1. /\ pc[e] # "ready" /\ UNCHANGED <<m_paData, m_nItem, ids, wraps>>
        /\ \A d \in Enumerators \ {e} : SameAt(d)
    BY <1>2 DEF FData, FTypes, EnumObjects, SameAt
  <2>2. List(e)' = List(e) /\ Moved(e)' = Moved(e) /\ Handed(e)' = Handed(e)
    BY <2>1, BlankStays
  <2> QED
    BY <2>1, <2>2, CursorMoves
<1>3. ASSUME NEW e \in Enumerators, ReadItems(e) PROVE Cursor!Create(e)
  <2>1. /\ pc[e] = "listed" /\ UNCHANGED <<m_grfFlags, m_nItem, ids, wraps>>
        /\ \A d \in Enumerators \ {e} : SameAt(d)
    BY <1>3 DEF FData, FTypes, ReadItems, SameAt
  <2>2. m_paData[e] = <<>> /\ m_nItem[e] = 0 /\ wraps[e] = 0
    BY <2>1 DEF FData, Sound, Blank
  <2>3. List(e) = <<>> /\ Moved(e) = 0
    BY <2>2, NothingToEnumerate
  <2>4. Moved(e)' = 0
    <3>1. Chosen(e, 0, 0)' = {}
      BY DEF Chosen
    <3>2. Passed(e)' = Cardinality(Chosen(e, 0, 0)')
      BY <2>1, <2>2 DEF Passed, Chosen
    <3> QED
      BY <3>1, <3>2, AscendingOfNone DEF Moved
  <2>5. Handed(e)' = Handed(e)
    BY <2>1 DEF Handed, Given, Indices
  <2> QED
    BY <2>1, <2>3, <2>4, <2>5, CursorMoves
<1>4. ASSUME NEW e \in Enumerators, Dropped(e) PROVE Cursor!Release(e)
  <2>1. /\ m_paData'[e] = <<>> /\ ids'[e] = <<>> /\ m_nItem'[e] = 0
        /\ \A d \in Enumerators \ {e} : SameAt(d)
    BY <1>4 DEF FData, FTypes, Dropped, SameAt
  <2>2. List(e)' = <<>> /\ Moved(e)' = 0
    BY <2>1, NothingToEnumerate
  <2>3. Handed(e)' = <<>>
    BY <2>1 DEF Handed, Given, Indices
  <2> QED
    BY <2>1, <2>2, <2>3, CursorMoves
<1>5. ASSUME NEW e \in Enumerators, NEW celt \in Celts, Enum_Next(e, celt)
      PROVE  Cursor!Next(e) \/ UNCHANGED Cursor!vars
  <2>1. CASE wraps[e] = 0
    BY <1>5, <2>1, NextHandsOut
  <2>2. CASE wraps[e] # 0
    <3>1. wraps' = wraps /\ \A d \in Enumerators \ {e} : SameAt(d)
      BY <1>5 DEF FData, FTypes, Enum_Next, Deliver, SameAt
    <3>2. List(e)' = List(e) /\ Moved(e)' = Moved(e) /\ Handed(e)' = Handed(e)
      BY <2>2, <3>1, PromisesNothing
    <3> QED
      BY <3>1, <3>2, CursorMoves
  <2> QED
    BY <2>1, <2>2
<1>6. ASSUME NEW e \in Enumerators, NEW celt \in Skips, Enum_Skip(e, celt)
      PROVE  Cursor!Skip(e) \/ Cursor!Release(e)
  BY <1>6, SkipPassesOver
<1>7. ASSUME NEW e \in Enumerators, Enum_Reset(e) PROVE Cursor!Reset(e) \/ Cursor!Create(e)
  BY <1>7, ResetBegins
<1>8. ASSUME NEW e \in Enumerators, Initialize(e)
      PROVE  \/ UNCHANGED <<m_paData, m_grfFlags, m_nItem, ids, wraps>>
             \/ ReadItems(e) \/ Dropped(e)
  BY <1>8 DEF Initialize, GetCollection, GetCollectionFails, GetCountFails
<1> QED
  BY <1>1, <1>2, <1>3, <1>4, <1>5, <1>6, <1>7, <1>8
     DEF Next, Cursor!Step, Format, Enum_Release, vars, enumVars

LEMMA InitIsCursorInit == Init => Cursor!Init
<1> SUFFICES ASSUME Init PROVE Cursor!Init
  OBVIOUS
<1>1. ASSUME NEW e \in Enumerators
      PROVE  List(e) = <<>> /\ Moved(e) = 0 /\ Handed(e) = <<>>
  <2>1. m_paData[e] = <<>> /\ ids[e] = <<>> /\ m_nItem[e] = 0
    BY DEF Init
  <2> QED
    BY <2>1, NothingToEnumerate DEF Handed, Given, Indices
<1> QED
  BY <1>1 DEF Cursor!Init, List, Moved, Handed, Whole, Passed, Given, Indices

\* The enumerator of a folder is an enumerator until a Skip takes its position round, and
\* again from the next Reset on: for any contents, flags, counts and names that do not
\* fit, whatever could not be read (FolderContents!ImplementsEnumeration).
THEOREM EntriesAreEnumerated == Spec => ImplementsEnumeration
<1>1. Spec => []FData
  BY InitFData, NextFData, PTL DEF Spec
<1> QED
  BY <1>1, InitIsCursorInit, StepIsCursorStep, PTL
     DEF Spec, ImplementsEnumeration, Cursor!Spec

-----------------------------------------------------------------------------
(* CompareIDs orders id lists by their paths.                              *)

\* s precedes t, looking only at what is at position j and after it.
PrecedesFrom(j, s, t) ==
  \E k \in j .. Len(t) :
    /\ \A i \in j .. k - 1 : i <= Len(s) /\ s[i] = t[i]
    /\ k <= Len(s) => s[k] < t[k]

\* One step of the comparison of two keys.
LEMMA NextPosition ==
  ASSUME NEW j \in Nat, NEW s \in Seq(Int), NEW t \in Seq(Int)
  PROVE  PrecedesFrom(j, s, t) <=>
           /\ j <= Len(t)
           /\ \/ j <= Len(s) => s[j] < t[j]
              \/ j <= Len(s) /\ s[j] = t[j] /\ PrecedesFrom(j + 1, s, t)
<1>1. Len(s) \in Nat /\ Len(t) \in Nat
  OBVIOUS
<1>2. ASSUME PrecedesFrom(j, s, t)
      PROVE  /\ j <= Len(t)
             /\ \/ j <= Len(s) => s[j] < t[j]
                \/ j <= Len(s) /\ s[j] = t[j] /\ PrecedesFrom(j + 1, s, t)
  <2>1. PICK k \in j .. Len(t) : /\ \A i \in j .. k - 1 : i <= Len(s) /\ s[i] = t[i]
                                 /\ k <= Len(s) => s[k] < t[k]
    BY <1>2 DEF PrecedesFrom
  <2>2. CASE k = j
    BY <1>1, <2>1, <2>2
  <2>3. CASE k # j
    <3>1. k \in j + 1 .. Len(t) /\ j \in j .. k - 1
      BY <1>1, <2>1, <2>3
    <3>2. \A i \in j + 1 .. k - 1 : i <= Len(s) /\ s[i] = t[i]
      BY <1>1, <2>1
    <3>3. PrecedesFrom(j + 1, s, t)
      BY <2>1, <3>1, <3>2 DEF PrecedesFrom
    <3> QED
      BY <1>1, <2>1, <3>1, <3>3
  <2> QED
    BY <2>2, <2>3
<1>3. ASSUME j <= Len(t), j <= Len(s) => s[j] < t[j]
      PROVE  PrecedesFrom(j, s, t)
  <2>1. j \in j .. Len(t) /\ j .. j - 1 = {}
    BY <1>1, <1>3
  <2> QED
    BY <1>3, <2>1 DEF PrecedesFrom
<1>4. ASSUME j <= Len(s), s[j] = t[j], PrecedesFrom(j + 1, s, t)
      PROVE  PrecedesFrom(j, s, t)
  <2>1. PICK k \in j + 1 .. Len(t) : /\ \A i \in j + 1 .. k - 1 : i <= Len(s) /\ s[i] = t[i]
                                     /\ k <= Len(s) => s[k] < t[k]
    BY <1>4 DEF PrecedesFrom
  <2>2. k \in j .. Len(t)
    BY <1>1, <2>1
  <2>3. \A i \in j .. k - 1 : i = j \/ i \in j + 1 .. k - 1
    BY <1>1, <2>1
  <2>4. \A i \in j .. k - 1 : i <= Len(s) /\ s[i] = t[i]
    BY <1>4, <2>1, <2>3
  <2> QED
    BY <2>1, <2>2, <2>4 DEF PrecedesFrom
<1> QED
  BY <1>2, <1>3, <1>4

\* At the end of a key nothing is left to precede.
LEMMA PastTheEnd ==
  ASSUME NEW j \in Nat, NEW s \in Seq(Int), NEW t \in Seq(Int), Len(t) < j
  PROVE  ~ PrecedesFrom(j, s, t)
<1>1. Len(t) \in Nat
  OBVIOUS
<1> QED
  BY <1>1 DEF PrecedesFrom

\* Keys of up to four parts, as inequalities between their parts.
LEMMA ShortKeys ==
  ASSUME NEW s \in Seq(Int), NEW t \in Seq(Int)
  PROVE  /\ Len(s) = 1 /\ Len(t) = 1 => (Precedes(s, t) <=> s[1] < t[1])
         /\ Len(s) = 1 /\ Len(t) = 2 => (Precedes(s, t) <=> s[1] < t[1] \/ s[1] = t[1])
         /\ Len(s) = 2 /\ Len(t) = 1 => (Precedes(s, t) <=> s[1] < t[1])
         /\ Len(s) = 2 /\ Len(t) = 2 =>
              (Precedes(s, t) <=> s[1] < t[1] \/ (s[1] = t[1] /\ s[2] < t[2]))
         /\ Len(s) = 2 /\ Len(t) = 4 =>
              (Precedes(s, t) <=>
                 s[1] < t[1] \/ (s[1] = t[1] /\ (s[2] < t[2] \/ s[2] = t[2])))
         /\ Len(s) = 4 /\ Len(t) = 2 =>
              (Precedes(s, t) <=> s[1] < t[1] \/ (s[1] = t[1] /\ s[2] < t[2]))
         /\ Len(s) = 4 /\ Len(t) = 4 =>
              (Precedes(s, t) <=>
                 \/ s[1] < t[1]
                 \/ s[1] = t[1] /\ \/ s[2] < t[2]
                                   \/ s[2] = t[2] /\ \/ s[3] < t[3]
                                                     \/ s[3] = t[3] /\ s[4] < t[4])
<1> DEFINE from(j) == PrecedesFrom(j, s, t)
<1>1. Precedes(s, t) <=> from(1)
  BY DEF Precedes, PrecedesFrom
<1>2. \A j \in {1, 2, 3, 4} :
        from(j) <=> /\ j <= Len(t)
                    /\ \/ j <= Len(s) => s[j] < t[j]
                       \/ j <= Len(s) /\ s[j] = t[j] /\ from(j + 1)
  BY NextPosition
<1>3. \A j \in {2, 3, 5} : Len(t) < j => ~ from(j)
  BY PastTheEnd
<1>4. /\ Len(s) \in Nat /\ Len(t) \in Nat
      /\ \A j \in {1, 2, 3, 4} : /\ j <= Len(s) => s[j] \in Int
                                /\ j <= Len(t) => t[j] \in Int
  OBVIOUS
<1> HIDE DEF from
<1>5. CASE Len(t) = 1
  <2>1. ~ from(2) /\ t[1] \in Int
    BY <1>3, <1>4, <1>5
  <2>2. from(1) <=> (1 <= Len(s) => s[1] < t[1])
    BY <1>2, <1>5, <2>1
  <2> QED
    BY <1>1, <1>4, <1>5, <2>2
<1>6. CASE Len(t) = 2
  <2>1. ~ from(3) /\ t[1] \in Int /\ t[2] \in Int
    BY <1>3, <1>4, <1>6
  <2>2. from(2) <=> (2 <= Len(s) => s[2] < t[2])
    BY <1>2, <1>6, <2>1
  <2>3. 1 <= Len(s) => (from(1) <=> s[1] < t[1] \/ (s[1] = t[1] /\ from(2)))
    BY <1>2, <1>4, <1>6
  <2> QED
    BY <1>1, <1>4, <1>6, <2>1, <2>2, <2>3
<1>7. CASE Len(t) = 4
  <2>1. ~ from(5)
    BY <1>3, <1>7
  <2>2. from(4) <=> (4 <= Len(s) => s[4] < t[4])
    BY <1>2, <1>7, <2>1
  <2>3. \A j \in {1, 2, 3} : j <= Len(s) => (from(j) <=> s[j] < t[j] \/ (s[j] = t[j] /\ from(j + 1)))
    BY <1>2, <1>7, SMTT(30)
  <2>4. from(3) <=> (3 <= Len(s) => s[3] < t[3] \/ (s[3] = t[3] /\ from(4)))
    BY <1>2, <1>7
  <2>5. CASE Len(s) = 2
    <3>1. from(2) <=> s[2] < t[2] \/ s[2] = t[2]
      BY <2>3, <2>4, <2>5
    <3> QED
      BY <1>1, <1>7, <2>3, <2>5, <3>1
  <2>6. CASE Len(s) = 4
    <3>1. from(4) <=> s[4] < t[4]
      BY <2>2, <2>6
    <3>2. from(3) <=> s[3] < t[3] \/ (s[3] = t[3] /\ s[4] < t[4])
      BY <2>4, <2>6, <3>1
    <3>3. /\ from(2) <=> s[2] < t[2] \/ (s[2] = t[2] /\ from(3))
          /\ from(1) <=> s[1] < t[1] \/ (s[1] = t[1] /\ from(2))
      BY <2>3, <2>6
    <3> QED
      BY <1>1, <1>7, <2>6, <3>2, <3>3
  <2> QED
    BY <1>7, <2>5, <2>6
<1> QED
  BY <1>5, <1>6, <1>7

LEMMA ItemParts ==
  ASSUME NEW a \in Item
  PROVE  a.szName \in Int /\ a.nSize \in Int /\ _GetLevel(a) \in Int
  BY DEF Item, _GetLevel

LEMMA TwoAndTwo ==
  ASSUME NEW a \in Int, NEW b \in Int, NEW c \in Int, NEW d \in Int
  PROVE  LET s == <<a, b>> \o <<c, d>>
         IN  /\ s \in Seq(Int) /\ Len(s) = 4
             /\ s[1] = a /\ s[2] = b /\ s[3] = c /\ s[4] = d
  OBVIOUS

\* What the key of an id list is made of.
LEMMA KeyParts ==
  ASSUME NEW p \in IdList, NEW lParam \in Columns
  PROVE  /\ Key(lParam, p) \in Seq(Int)
         /\ lParam # "ALLFIELDS" => Len(Key(lParam, p)) = Len(p)
         /\ lParam = "ALLFIELDS" => Len(Key(lParam, p)) = 2 * Len(p)
         /\ Key(lParam, p)[1] = IF lParam = "SIZE" THEN p[1].nSize ELSE p[1].szName
         /\ lParam # "ALLFIELDS" /\ Len(p) = 2 => Key(lParam, p)[2] = p[2].szName
         /\ lParam = "ALLFIELDS" => Key(lParam, p)[2] = _GetLevel(p[1])
         /\ lParam = "ALLFIELDS" /\ Len(p) = 2 =>
              Key(lParam, p)[3] = p[2].szName /\ Key(lParam, p)[4] = _GetLevel(p[2])
<1>1. p[1] \in Item /\ Len(p) \in {1, 2} /\ (Len(p) = 2 => p[2] \in Item)
  BY DEF IdList
<1>2. /\ p[1].szName \in Int /\ p[1].nSize \in Int /\ _GetLevel(p[1]) \in Int
      /\ Len(p) = 2 => p[2].szName \in Int /\ _GetLevel(p[2]) \in Int
  BY <1>1, ItemParts
<1>3. CASE Len(p) = 1
  <2>1. Key(lParam, p) = IF lParam = "SIZE" THEN <<p[1].nSize>>
                         ELSE IF lParam = "ALLFIELDS" THEN <<p[1].szName, _GetLevel(p[1])>>
                                                      ELSE <<p[1].szName>>
    BY <1>3 DEF Key
  <2> QED
    BY <1>2, <1>3, <2>1
<1>4. CASE Len(p) = 2
  <2>1. CASE lParam = "ALLFIELDS"
    <3>1. Key(lParam, p) = <<p[1].szName, _GetLevel(p[1])>> \o <<p[2].szName, _GetLevel(p[2])>>
      BY <1>4, <2>1 DEF Key
    <3> DEFINE k == Key(lParam, p)
    <3>2. /\ k \in Seq(Int) /\ Len(k) = 4
          /\ k[1] = p[1].szName /\ k[2] = _GetLevel(p[1])
          /\ k[3] = p[2].szName /\ k[4] = _GetLevel(p[2])
      BY <1>2, <1>4, <3>1, TwoAndTwo
    <3> HIDE DEF k
    <3> QED
      BY <1>4, <2>1, <3>2 DEF k
  <2>2. CASE lParam # "ALLFIELDS"
    <3>1. Key(lParam, p) = (IF lParam = "SIZE" THEN <<p[1].nSize>> ELSE <<p[1].szName>>)
                             \o <<p[2].szName>>
      BY <1>4, <2>2 DEF Key
    <3>2. Key(lParam, p) = IF lParam = "SIZE" THEN <<p[1].nSize, p[2].szName>>
                                              ELSE <<p[1].szName, p[2].szName>>
      BY <1>2, <1>4, <3>1
    <3> QED
      BY <1>2, <1>4, <2>2, <3>2
  <2> QED
    BY <2>1, <2>2
<1> QED
  BY <1>1, <1>3, <1>4

\* The comparison of two id lists, as inequalities between names, levels and sizes.
LEMMA ComparedParts ==
  ASSUME NEW p \in IdList, NEW q \in IdList, NEW lParam \in Columns
  PROVE  /\ lParam \in {"CANONICALONLY", "NAME", "SIZE"} =>
              LET a == IF lParam = "SIZE" THEN p[1].nSize ELSE p[1].szName
                  b == IF lParam = "SIZE" THEN q[1].nSize ELSE q[1].szName
              IN  CompareIDs(lParam, p, q) =
                    IF a - b # 0 THEN a - b
                    ELSE IF Len(p) = 1 \/ Len(q) = 1 THEN Len(p) - Len(q)
                    ELSE p[2].szName - q[2].szName
         /\ lParam = "ALLFIELDS" =>
              CompareIDs(lParam, p, q) =
                IF CompareFirst(lParam, p[1], q[1]) # 0 THEN CompareFirst(lParam, p[1], q[1])
                ELSE IF Len(p) = 1 \/ Len(q) = 1 THEN Len(p) - Len(q)
                ELSE CompareFirst(lParam, p[2], q[2])
  BY DEF CompareIDs, _ILCompareRelIDs, CompareFirst, Columns

LEMMA PathsInOrder ==
  ASSUME NEW p \in IdList, NEW q \in IdList, NEW lParam \in Columns
  PROVE  CompareIDs(lParam, p, q) < 0 <=> Precedes(Key(lParam, p), Key(lParam, q))
<1>1. /\ p[1] \in Item /\ Len(p) \in {1, 2} /\ (Len(p) = 2 => p[2] \in Item)
      /\ q[1] \in Item /\ Len(q) \in {1, 2} /\ (Len(q) = 2 => q[2] \in Item)
  BY DEF IdList
<1>2. CASE lParam # "ALLFIELDS"
  <2> DEFINE first(r) == IF lParam = "SIZE" THEN r[1].nSize ELSE r[1].szName
             second(r) == r[2].szName
             a == first(p)
             b == first(q)
             c == second(p)
             d == second(q)
  <2>1. /\ a \in Int /\ b \in Int
        /\ Len(p) = 2 => c \in Int
        /\ Len(q) = 2 => d \in Int
    BY <1>1, ItemParts
  <2>2. CompareIDs(lParam, p, q) =
          IF a - b # 0 THEN a - b
          ELSE IF Len(p) = 1 \/ Len(q) = 1 THEN Len(p) - Len(q) ELSE c - d
    BY <1>2, ComparedParts DEF Columns
  <2>3. /\ Key(lParam, p) \in Seq(Int) /\ Len(Key(lParam, p)) = Len(p) /\ Key(lParam, p)[1] = a
        /\ Key(lParam, q) \in Seq(Int) /\ Len(Key(lParam, q)) = Len(q) /\ Key(lParam, q)[1] = b
        /\ Len(p) = 2 => Key(lParam, p)[2] = c
        /\ Len(q) = 2 => Key(lParam, q)[2] = d
    BY <1>2, KeyParts
  <2> HIDE DEF a, b, c, d
  <2>4. Precedes(Key(lParam, p), Key(lParam, q)) <=>
          a < b \/ (a = b /\ (Len(p) < Len(q) \/ (Len(p) = 2 /\ Len(q) = 2 /\ c < d)))
    <3> DEFINE s == Key(lParam, p)
               t == Key(lParam, q)
    <3>1. /\ s \in Seq(Int) /\ Len(s) = Len(p) /\ s[1] = a
          /\ t \in Seq(Int) /\ Len(t) = Len(q) /\ t[1] = b
          /\ Len(p) = 2 => s[2] = c
          /\ Len(q) = 2 => t[2] = d
      BY <2>3
    <3> HIDE DEF s, t
    <3>2. CASE Len(p) = 1 /\ Len(q) = 1
      BY <2>1, <3>1, <3>2, ShortKeys DEF s, t
    <3>3. CASE Len(p) = 1 /\ Len(q) = 2
      BY <2>1, <3>1, <3>3, ShortKeys, SMTT(30) DEF s, t
    <3>4. CASE Len(p) = 2 /\ Len(q) = 1
      BY <2>1, <3>1, <3>4, ShortKeys DEF s, t
    <3>5. CASE Len(p) = 2 /\ Len(q) = 2
      BY <2>1, <3>1, <3>5, ShortKeys, SMTT(30) DEF s, t
    <3> QED
      BY <1>1, <3>2, <3>3, <3>4, <3>5
  <2> QED
    BY <1>1, <2>1, <2>2, <2>4
<1>3. CASE lParam = "ALLFIELDS"
  <2> DEFINE key(r) == Key(lParam, r)
  <2>1. /\ key(p) \in Seq(Int) /\ Len(key(p)) = 2 * Len(p)
        /\ key(q) \in Seq(Int) /\ Len(key(q)) = 2 * Len(q)
    BY <1>3, KeyParts
  <2>2. \A j \in {1, 2, 3, 4} : /\ j <= 2 * Len(p) => key(p)[j] \in Int
                                /\ j <= 2 * Len(q) => key(q)[j] \in Int
    BY <1>1, <2>1
  <2>3. CompareFirst(lParam, p[1], q[1]) =
          IF key(p)[1] # key(q)[1] THEN key(p)[1] - key(q)[1] ELSE key(p)[2] - key(q)[2]
    BY <1>3, KeyParts DEF CompareFirst
  <2>4. Len(p) = 2 /\ Len(q) = 2 =>
          CompareFirst(lParam, p[2], q[2]) =
            IF key(p)[3] # key(q)[3] THEN key(p)[3] - key(q)[3] ELSE key(p)[4] - key(q)[4]
    BY <1>3, KeyParts DEF CompareFirst
  <2>5. CompareIDs(lParam, p, q) =
          IF CompareFirst(lParam, p[1], q[1]) # 0 THEN CompareFirst(lParam, p[1], q[1])
          ELSE IF Len(p) = 1 \/ Len(q) = 1 THEN Len(p) - Len(q)
          ELSE CompareFirst(lParam, p[2], q[2])
    BY <1>3, ComparedParts
  <2> DEFINE f == CompareFirst(lParam, p[1], q[1])
             g == CompareFirst(lParam, p[2], q[2])
  <2>6. /\ f \in Int
        /\ f < 0 <=> \/ key(p)[1] < key(q)[1]
                     \/ key(p)[1] = key(q)[1] /\ key(p)[2] < key(q)[2]
        /\ f = 0 <=> key(p)[1] = key(q)[1] /\ key(p)[2] = key(q)[2]
    BY <1>1, <2>2, <2>3, SMTT(30)
  <2>7. Len(p) = 2 /\ Len(q) = 2 =>
          /\ g \in Int
          /\ g < 0 <=> \/ key(p)[3] < key(q)[3]
                       \/ key(p)[3] = key(q)[3] /\ key(p)[4] < key(q)[4]
    BY <2>2, <2>4
  <2> HIDE DEF key, f, g
  <2>8. /\ Len(p) # 2 \/ Len(q) # 2 =>
             (Precedes(key(p), key(q)) <=> f < 0 \/ (f = 0 /\ Len(p) < Len(q)))
        /\ Len(p) = 2 /\ Len(q) = 2 =>
             (Precedes(key(p), key(q)) <=> f < 0 \/ (f = 0 /\ g < 0))
    <3>1. CASE Len(p) = 1
      <4>1. CASE Len(q) = 1
        <5>1. Precedes(key(p), key(q)) <=>
                key(p)[1] < key(q)[1] \/ (key(p)[1] = key(q)[1] /\ key(p)[2] < key(q)[2])
          BY <2>1, <3>1, <4>1, ShortKeys
        <5> QED
          BY <2>6, <3>1, <4>1, <5>1
      <4>2. CASE Len(q) = 2
        <5>1. Precedes(key(p), key(q)) <=>
                \/ key(p)[1] < key(q)[1]
                \/ /\ key(p)[1] = key(q)[1]
                   /\ key(p)[2] < key(q)[2] \/ key(p)[2] = key(q)[2]
          BY <2>1, <3>1, <4>2, ShortKeys
        <5> QED
          BY <2>6, <3>1, <4>2, <5>1
      <4> QED
        BY <1>1, <4>1, <4>2
    <3>2. CASE Len(p) = 2 /\ Len(q) = 1
      <4>1. Precedes(key(p), key(q)) <=>
              key(p)[1] < key(q)[1] \/ (key(p)[1] = key(q)[1] /\ key(p)[2] < key(q)[2])
        BY <2>1, <3>2, ShortKeys, SMTT(30)
      <4> QED
        BY <2>6, <3>2, <4>1
    <3>3. CASE Len(p) = 2 /\ Len(q) = 2
      <4>1. Precedes(key(p), key(q)) <=>
              \/ key(p)[1] < key(q)[1]
              \/ /\ key(p)[1] = key(q)[1]
                 /\ \/ key(p)[2] < key(q)[2]
                    \/ /\ key(p)[2] = key(q)[2]
                       /\ \/ key(p)[3] < key(q)[3]
                          \/ key(p)[3] = key(q)[3] /\ key(p)[4] < key(q)[4]
        BY <2>1, <3>3, ShortKeys, SMTT(30)
      <4> QED
        BY <2>6, <2>7, <3>3, <4>1
    <3> QED
      BY <1>1, <3>1, <3>2, <3>3
  <2>9. CompareIDs(lParam, p, q) < 0 <=> Precedes(key(p), key(q))
    <3>1. CASE Len(p) = 2 /\ Len(q) = 2
      BY <2>5, <2>6, <2>7, <2>8, <3>1 DEF f, g
    <3>2. CASE ~ (Len(p) = 2 /\ Len(q) = 2)
      <4>1. CompareIDs(lParam, p, q) = IF f # 0 THEN f ELSE Len(p) - Len(q)
        BY <1>1, <2>5, <3>2 DEF f
      <4>2. Len(p) - Len(q) < 0 <=> Len(p) < Len(q)
        BY <1>1
      <4> QED
        BY <2>6, <2>8, <3>2, <4>1, <4>2
    <3> QED
      BY <3>1, <3>2
  <2> QED
    BY <2>9 DEF key
<1> QED
  BY <1>2, <1>3

\* All that has been handed out is made of item ids.
LEMMA HandedOutLists == FTypes => IdLists \subseteq IdList
<1> SUFFICES ASSUME FTypes, NEW p \in IdLists PROVE p \in IdList
  OBVIOUS
<1> DEFINE items == UNION {ToSet(ids[e]) : e \in Enumerators}
<1>1. items \subseteq Item
  <2>1. ASSUME NEW e \in Enumerators, NEW i \in ToSet(ids[e]) PROVE i \in Item
    <3>1. ids[e] \in Seq(Item)
      BY DEF FTypes
    <3> QED
      BY <2>1, <3>1 DEF ToSet
  <2> QED
    BY <2>1
<1> HIDE DEF items
<1>2. \/ \E i \in items : p = <<i>>
      \/ \E i, j \in items : p = <<i, j>>
  BY DEF IdLists, items
<1>3. ASSUME NEW i \in Item PROVE <<i>> \in IdList
  BY DEF IdList
<1>4. ASSUME NEW i \in Item, NEW j \in Item PROVE <<i, j>> \in IdList
  BY DEF IdList
<1> QED
  BY <1>1, <1>2, <1>3, <1>4

\* Explorer sees what it has been given in the order of its paths, whatever the Rio holds
\* and whatever has been read of it (FolderContents!IdsOrderedByPath).
THEOREM IdsOrderedByPathHolds == Spec => []IdsOrderedByPath
<1>1. Spec => []FData
  BY InitFData, NextFData, PTL DEF Spec
<1>2. FData => IdsOrderedByPath
  <2> SUFFICES ASSUME FData, NEW p \in IdLists, NEW q \in IdLists,
                      NEW lParam \in {"CANONICALONLY", "ALLFIELDS", "NAME", "SIZE"}
               PROVE  CompareIDs(lParam, p, q) < 0 <=>
                        Precedes(Key(lParam, p), Key(lParam, q))
    BY DEF IdsOrderedByPath
  <2>1. p \in IdList /\ q \in IdList /\ lParam \in Columns
    BY HandedOutLists DEF FData, Columns
  <2> QED
    BY <2>1, PathsInOrder
<1> QED
  BY <1>1, <1>2, PTL

=============================================================================
