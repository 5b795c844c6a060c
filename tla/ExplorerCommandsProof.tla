------------------------ MODULE ExplorerCommandsProof ------------------------
(***************************************************************************)
(* Proofs about ExplorerCommands: for any number of enumerators, read by   *)
(* any counts, with memory running out whenever it likes.                  *)
(***************************************************************************)
EXTENDS ExplorerCommands, SequenceTheorems, TLAPS

Names == {"Display", "Settings", "Setting1", "Setting2", "Setting3"}
Slot == [command : Names, made : BOOLEAN]

(***************************************************************************)
(* The inductive invariant.  InTable keeps the sum of Skip from wrapping   *)
(* around; Unused says that an enumerator begins with nothing.             *)
(***************************************************************************)
TypeOK ==
  /\ reading \in [Enumerators -> {"none", "reading", "done"}]
  /\ _apfvci \in [Enumerators -> Seq(Names)]
  /\ _uCurrent \in [Enumerators -> Nat]
  /\ slots \in [Enumerators -> Seq(Slot)]
  /\ ends \in [Enumerators -> SUBSET Nat]

InTable ==
  \A e \in Enumerators : /\ _uCurrent[e] <= Len(_apfvci[e])
                         /\ Len(_apfvci[e]) <= Len(c_FVTaskSettings)

Unused == \A e \in Enumerators : reading[e] = "none" => _apfvci[e] = <<>>

EIInv == TypeOK /\ InTable /\ Unused /\ HoleEndsItsCall

-----------------------------------------------------------------------------
(* The tables and a call of Next.                                          *)

LEMMA Tables ==
  /\ c_FVTasks \in Seq(Names) /\ Len(c_FVTasks) = 2
  /\ c_FVTaskSettings \in Seq(Names) /\ Len(c_FVTaskSettings) = 3
  /\ \A c : Children(c) \in Seq(Names) /\ Len(Children(c)) <= Len(c_FVTaskSettings)
<1>1. c_FVTasks \in Seq(Names)
  BY DEF c_FVTasks, Names
<1>2. c_FVTaskSettings \in Seq(Names)
  BY DEF c_FVTaskSettings, Names
<1>3. Len(c_FVTasks) = 2
  BY DEF c_FVTasks
<1>4. Len(c_FVTaskSettings) = 3
  BY DEF c_FVTaskSettings
<1>5. ASSUME NEW c
      PROVE  Children(c) \in Seq(Names) /\ Len(Children(c)) <= Len(c_FVTaskSettings)
  <2>1. CASE c = "Settings"
    <3>1. Children(c) = c_FVTaskSettings
      BY <2>1 DEF Children
    <3>2. Len(Children(c)) = 3
      BY <1>4, <3>1, Zenon
    <3>3. Children(c) \in Seq(Names)
      BY <1>2, <3>1, Zenon
    <3> QED
      BY <1>4, <3>2, <3>3
  <2>2. CASE c # "Settings"
    <3>1. Children(c) = <<>>
      BY <2>2 DEF Children
    <3>2. Children(c) \in Seq(Names) /\ Len(Children(c)) = 0
      BY <3>1, EmptySeq
    <3> QED
      BY <1>4, <3>2
  <2> QED
    BY <2>1, <2>2
<1> QED
  BY <1>1, <1>2, <1>3, <1>4, <1>5

\* The slots a call fills are those of the commands that follow, in the order of the
\* table; if one was not made it is the last.
FillsSlots(e, n, fetched) ==
  /\ n \in Nat /\ _uCurrent[e] + n <= Len(_apfvci[e])
  /\ fetched \in Seq(Slot) /\ Len(fetched) = n
  /\ \A i \in 1 .. n : /\ fetched[i].command = _apfvci[e][_uCurrent[e] + i]
                       /\ ~fetched[i].made => i = n

LEMMA FollowingFills ==
  ASSUME EIInv, NEW e \in Enumerators, NEW n \in Nat, _uCurrent[e] + n <= Len(_apfvci[e]),
         NEW holes, holes \subseteq {n}
  PROVE  FillsSlots(e, n, Following(e, n, holes))
<1> DEFINE f == Following(e, n, holes)
<1>1. _apfvci[e] \in Seq(Names) /\ _uCurrent[e] \in Nat
  BY DEF EIInv, TypeOK
<1>2. \A i \in 1 .. Len(_apfvci[e]) : _apfvci[e][i] \in Names
  BY <1>1, ElementOfSeq
<1>3. \A i \in 1 .. n : /\ f[i].command = _apfvci[e][_uCurrent[e] + i]
                        /\ f[i].made = (i \notin holes)
                        /\ f[i] \in Slot
  BY <1>1, <1>2 DEF Following, Slot
<1>4. f \in [1 .. n -> Slot]
  BY <1>3 DEF Following
<1>5. f \in Seq(Slot) /\ Len(f) = n
  <2>1. f \in UNION {[1 .. m -> Slot] : m \in Nat}
    BY <1>4
  <2>2. f \in Seq(Slot)
    BY <2>1, SeqDef, Zenon
  <2>3. DOMAIN f = 1 .. n /\ DOMAIN f = 1 .. Len(f) /\ Len(f) \in Nat
    BY <1>4, <2>2, LenProperties
  <2> QED
    BY <2>2, <2>3
<1> QED
  BY <1>3, <1>5 DEF FillsSlots

LEMMA NextFills ==
  ASSUME EIInv, NEW e \in Enumerators, NEW celt \in Celts, Enum_Next(e, celt)
  PROVE  \E n, fetched : FillsSlots(e, n, fetched) /\ Fetch(e, celt, n, fetched)
<1>1. /\ _uCurrent[e] \in Nat /\ Len(_apfvci[e]) \in Nat
      /\ _uCurrent[e] <= Len(_apfvci[e]) /\ celt \in Nat
  BY CommandsAssumption, Tables, LenProperties DEF EIInv, TypeOK, InTable
<1>2. Rounds(e, celt) \in Nat /\ _uCurrent[e] + Rounds(e, celt) <= Len(_apfvci[e])
  BY <1>1 DEF Rounds, _uCommands
<1>3. CASE Enum_NextMakes(e, celt)
  BY <1>2, <1>3, FollowingFills DEF Enum_NextMakes
<1>4. CASE Enum_NextFails(e, celt)
  <2>1. PICK n \in 1 .. Rounds(e, celt) : Fetch(e, celt, n, Following(e, n, {n}))
    BY <1>4 DEF Enum_NextFails
  <2>2. n \in Nat /\ _uCurrent[e] + n <= Len(_apfvci[e])
    BY <1>1, <1>2
  <2> QED
    BY <2>1, <2>2, FollowingFills
<1> QED
  BY <1>3, <1>4 DEF Enum_Next

\* What a call appends to the slots of an enumerator.
LEMMA Appended ==
  ASSUME EIInv, NEW e \in Enumerators, NEW celt, NEW n, NEW fetched,
         FillsSlots(e, n, fetched), Fetch(e, celt, n, fetched)
  PROVE  /\ slots'[e] \in Seq(Slot) /\ slots[e] \in Seq(Slot)
         /\ Len(slots[e]) \in Nat /\ Len(slots'[e]) = Len(slots[e]) + n
         /\ \A i \in 1 .. Len(slots'[e]) :
              slots'[e][i] = IF i <= Len(slots[e]) THEN slots[e][i]
                                                  ELSE fetched[i - Len(slots[e])]
         /\ \A d \in Enumerators \ {e} : slots'[d] = slots[d] /\ ends'[d] = ends[d]
         /\ ends'[e] = ends[e] \cup {Len(slots'[e])}
         /\ slots' \in [Enumerators -> Seq(Slot)] /\ ends' \in [Enumerators -> SUBSET Nat]
<1>1. /\ slots \in [Enumerators -> Seq(Slot)] /\ ends \in [Enumerators -> SUBSET Nat]
      /\ slots' = [slots EXCEPT ![e] = @ \o fetched]
      /\ ends' = [ends EXCEPT ![e] = @ \cup {Len(slots'[e])}]
      /\ n \in Nat /\ fetched \in Seq(Slot) /\ Len(fetched) = n
  BY DEF EIInv, TypeOK, Fetch, FillsSlots
<1>2. slots'[e] = slots[e] \o fetched /\ slots[e] \in Seq(Slot)
  BY <1>1
<1>3. /\ slots'[e] \in Seq(Slot) /\ Len(slots[e]) \in Nat
      /\ Len(slots'[e]) = Len(slots[e]) + n
      /\ \A i \in 1 .. Len(slots'[e]) :
           slots'[e][i] = IF i <= Len(slots[e]) THEN slots[e][i]
                                               ELSE fetched[i - Len(slots[e])]
  BY <1>1, <1>2, ConcatProperties, LenProperties
<1>4. Len(slots'[e]) \in Nat
  BY <1>1, <1>3
<1> QED
  BY <1>1, <1>2, <1>3, <1>4

LEMMA FetchKeeps ==
  ASSUME EIInv, NEW e \in Enumerators, NEW celt, NEW n, NEW fetched, reading[e] # "none",
         FillsSlots(e, n, fetched), Fetch(e, celt, n, fetched)
  PROVE  EIInv'
<1>1. /\ slots'[e] \in Seq(Slot) /\ slots[e] \in Seq(Slot)
      /\ Len(slots[e]) \in Nat /\ Len(slots'[e]) = Len(slots[e]) + n
      /\ \A i \in 1 .. Len(slots'[e]) :
           slots'[e][i] = IF i <= Len(slots[e]) THEN slots[e][i]
                                               ELSE fetched[i - Len(slots[e])]
      /\ \A d \in Enumerators \ {e} : slots'[d] = slots[d] /\ ends'[d] = ends[d]
      /\ ends'[e] = ends[e] \cup {Len(slots'[e])}
      /\ slots' \in [Enumerators -> Seq(Slot)] /\ ends' \in [Enumerators -> SUBSET Nat]
  BY Appended
<1>2. n \in Nat /\ _uCurrent[e] + n <= Len(_apfvci[e])
      /\ \A i \in 1 .. n : ~fetched[i].made => i = n
  BY DEF FillsSlots
<1>3. TypeOK' /\ InTable' /\ Unused'
  BY <1>1, <1>2, SMTT(30) DEF EIInv, TypeOK, InTable, Unused, Fetch
<1>4. ASSUME NEW d \in Enumerators, NEW i \in DOMAIN slots'[d], ~slots'[d][i].made
      PROVE  i \in ends'[d]
  <2>1. CASE d # e
    BY <1>1, <1>4, <2>1, Zenon DEF EIInv, HoleEndsItsCall
  <2>2. CASE d = e
    <3>1. i \in 1 .. Len(slots'[e]) /\ DOMAIN slots[e] = 1 .. Len(slots[e])
      BY <1>1, <1>4, <2>2, LenProperties
    <3>2. CASE i <= Len(slots[e])
      <4>1. i \in DOMAIN slots[e] /\ slots'[e][i] = slots[e][i]
        BY <1>1, <3>1, <3>2
      <4>2. i \in ends[e]
        BY <1>4, <2>2, <4>1, Zenon DEF EIInv, HoleEndsItsCall
      <4> QED
        BY <1>1, <2>2, <4>2
    <3>3. CASE i > Len(slots[e])
      <4>1. i - Len(slots[e]) \in 1 .. n /\ slots'[e][i] = fetched[i - Len(slots[e])]
        BY <1>1, <1>2, <3>1, <3>3
      <4>2. i - Len(slots[e]) = n
        BY <1>2, <1>4, <2>2, <4>1, Zenon
      <4>3. i = Len(slots'[e])
        BY <1>1, <1>2, <3>1, <4>2
      <4> QED
        BY <1>1, <2>2, <4>3
    <3> QED
      BY <1>1, <3>1, <3>2, <3>3
  <2> QED
    BY <2>1, <2>2
<1> QED
  BY <1>3, <1>4 DEF EIInv, HoleEndsItsCall

-----------------------------------------------------------------------------
(* The other operations.                                                   *)

LEMMA NewKeeps ==
  ASSUME EIInv, NEW e \in Enumerators, NEW table \in Seq(Names),
         Len(table) <= Len(c_FVTaskSettings), NewEnumerator(e, table)
  PROVE  EIInv'
<1>1. HoleEndsItsCall'
  BY Zenon DEF NewEnumerator, EIInv, HoleEndsItsCall
<1>2. _uCurrent[e] = 0 /\ Len(table) \in Nat
  BY EmptySeq, LenProperties DEF NewEnumerator, EIInv, TypeOK, InTable, Unused
<1>3. TypeOK' /\ InTable' /\ Unused'
  BY <1>2 DEF NewEnumerator, EIInv, TypeOK, InTable, Unused
<1> QED
  BY <1>1, <1>3 DEF EIInv

LEMMA SkipTo ==
  ASSUME EIInv, NEW e \in Enumerators, NEW celt \in Celts, Enum_Skip(e, celt)
  PROVE  /\ _uCurrent' = [_uCurrent EXCEPT ![e] = _uCurrent'[e]]
         /\ _uCurrent'[e] \in Nat /\ _uCurrent[e] <= _uCurrent'[e]
         /\ _uCurrent'[e] <= Len(_apfvci[e])
<1>1. /\ _uCurrent[e] \in Nat /\ Len(_apfvci[e]) \in Nat /\ celt \in Nat
      /\ _uCurrent[e] <= Len(_apfvci[e]) /\ Len(_apfvci[e]) <= 3
      /\ celt <= UlongSize - 1 - 3 /\ UlongSize \in Int
  BY CommandsAssumption, Tables, LenProperties DEF EIInv, TypeOK, InTable
<1>2. (_uCurrent[e] + celt) % UlongSize = _uCurrent[e] + celt
  BY <1>1, SMTT(30)
<1> QED
  BY <1>1, <1>2 DEF Enum_Skip, _uCommands, EIInv, TypeOK

LEMMA SkipKeeps ==
  ASSUME EIInv, NEW e \in Enumerators, NEW celt \in Celts, Enum_Skip(e, celt)
  PROVE  EIInv'
<1>1. HoleEndsItsCall'
  BY Zenon DEF Enum_Skip, EIInv, HoleEndsItsCall
<1>2. TypeOK' /\ InTable' /\ Unused'
  BY SkipTo DEF Enum_Skip, EIInv, TypeOK, InTable, Unused
<1> QED
  BY <1>1, <1>2 DEF EIInv

LEMMA ResetReleaseKeeps ==
  ASSUME EIInv, NEW e \in Enumerators, Enum_Reset(e) \/ Enum_Release(e)
  PROVE  EIInv'
<1>1. <<>> \in Seq(Slot) /\ <<>> \in Seq(Names) /\ Len(<<>>) = 0
  BY EmptySeq
<1>2. slots' = [slots EXCEPT ![e] = <<>>] /\ ends' = [ends EXCEPT ![e] = {}]
  BY DEF Enum_Reset, Enum_Release
<1>3. slots'[e] = <<>> /\ \A d \in Enumerators \ {e} : slots'[d] = slots[d] /\ ends'[d] = ends[d]
  BY <1>2 DEF EIInv, TypeOK
<1>4. DOMAIN slots'[e] = {}
  BY <1>3
<1>5. HoleEndsItsCall'
  BY <1>3, <1>4, Zenon DEF EIInv, HoleEndsItsCall
<1>6. TypeOK'
  <2>1. CASE Enum_Reset(e)
    BY <1>1, <2>1 DEF Enum_Reset, EIInv, TypeOK
  <2>2. CASE Enum_Release(e)
    BY <1>1, <2>2 DEF Enum_Release, EIInv, TypeOK
  <2> QED
    BY <2>1, <2>2
<1>7. /\ \A d \in Enumerators : Len(_apfvci[d]) \in Nat
      /\ _uCurrent' = [_uCurrent EXCEPT ![e] = 0]
      /\ _apfvci' = _apfvci \/ _apfvci' = [_apfvci EXCEPT ![e] = <<>>]
  BY LenProperties DEF Enum_Reset, Enum_Release, EIInv, TypeOK
<1>8. InTable'
  BY <1>1, <1>7, Tables DEF EIInv, TypeOK, InTable
<1>9. Unused'
  BY DEF Enum_Reset, Enum_Release, EIInv, TypeOK, Unused
<1> QED
  BY <1>5, <1>6, <1>8, <1>9 DEF EIInv

LEMMA EInitIInv == Init => EIInv
<1> SUFFICES ASSUME Init PROVE EIInv
  OBVIOUS
<1>1. <<>> \in Seq(Slot) /\ <<>> \in Seq(Names) /\ Len(<<>>) = 0
  BY EmptySeq
<1>2. HoleEndsItsCall
  <2>1. \A e \in Enumerators : DOMAIN slots[e] = {}
    BY DEF Init
  <2> QED
    BY <2>1, Zenon DEF HoleEndsItsCall
<1> QED
  BY <1>1, <1>2, Tables DEF Init, EIInv, TypeOK, InTable, Unused

LEMMA ENextIInv == EIInv /\ [Next]_vars => EIInv'
<1> SUFFICES ASSUME EIInv, [Next]_vars PROVE EIInv'
  OBVIOUS
<1>1. ASSUME NEW e \in Enumerators, GetCommands(e) \/ EnumSubCommands(e) PROVE EIInv'
  <2>1. \E table \in Seq(Names) : /\ Len(table) <= Len(c_FVTaskSettings)
                                  /\ NewEnumerator(e, table)
    <3>1. CASE GetCommands(e)
      <4>1. c_FVTasks \in Seq(Names) /\ Len(c_FVTasks) <= Len(c_FVTaskSettings)
        BY Tables
      <4> QED
        BY <3>1, <4>1 DEF GetCommands
    <3>2. CASE EnumSubCommands(e)
      <4>1. PICK c \in commands : NewEnumerator(e, Children(c))
        BY <3>2 DEF EnumSubCommands
      <4>2. Children(c) \in Seq(Names) /\ Len(Children(c)) <= Len(c_FVTaskSettings)
        BY Tables, Zenon
      <4> QED
        BY <4>1, <4>2, Zenon
    <3> QED
      BY <1>1, <3>1, <3>2
  <2> QED
    BY <2>1, NewKeeps
<1>2. ASSUME NEW e \in Enumerators, NEW celt \in Celts, Enum_Next(e, celt) PROVE EIInv'
  BY <1>2, NextFills, FetchKeeps DEF Enum_Next
<1>3. ASSUME NEW e \in Enumerators, NEW celt \in Celts, Enum_Skip(e, celt) PROVE EIInv'
  BY <1>3, SkipKeeps
<1>4. ASSUME NEW e \in Enumerators, Enum_Reset(e) \/ Enum_Release(e) PROVE EIInv'
  BY <1>4, ResetReleaseKeeps
<1>5. CASE UNCHANGED vars
  <2>1. TypeOK' /\ InTable' /\ Unused'
    BY <1>5 DEF vars, EIInv, TypeOK, InTable, Unused
  <2>2. HoleEndsItsCall'
    BY <1>5, Zenon DEF vars, EIInv, HoleEndsItsCall
  <2> QED
    BY <2>1, <2>2 DEF EIInv
<1> QED
  BY <1>1, <1>2, <1>3, <1>4, <1>5 DEF Next

LEMMA EInvariance == Spec => []EIInv
  BY EInitIInv, ENextIInv, PTL DEF Spec

\* A slot that Next has counted without writing it is the last of its call
\* (ExplorerCommands!HoleEndsItsCall).
THEOREM HoleEndsItsCallHolds == Spec => []HoleEndsItsCall
  BY EInvariance, PTL DEF EIInv

-----------------------------------------------------------------------------
(* Why reading an enumerator comes to an end.                              *)

Ahead(e) == _uCommands(e) - _uCurrent[e]

\* Every call of Next that says S_OK leaves fewer commands ahead, of which there are never
\* less than none, and nothing but Reset leaves more.
NextComesNearer ==
  \A e \in Enumerators :
    reading[e] = "reading" =>
      /\ Ahead(e) \in Nat
      /\ Read(e) => reading'[e] # "reading" \/ Ahead(e)' < Ahead(e)
      /\ Enum_Reset(e) \/ Ahead(e)' <= Ahead(e)

LEMMA ReadComesNearer ==
  ASSUME EIInv, NEW e \in Enumerators, Read(e)
  PROVE  /\ Ahead(e)' <= Ahead(e)
         /\ reading'[e] # "reading" \/ Ahead(e)' < Ahead(e)
<1>1. PICK celt \in Celts : Enum_Next(e, celt)
  BY DEF Read
<1>2. PICK n, fetched : FillsSlots(e, n, fetched) /\ Fetch(e, celt, n, fetched)
  BY <1>1, NextFills
<1>3. /\ n \in Nat /\ _uCurrent[e] \in Nat /\ Len(_apfvci[e]) \in Nat
      /\ _uCurrent'[e] = _uCurrent[e] + n /\ _apfvci' = _apfvci
  BY <1>2, LenProperties DEF FillsSlots, Fetch, EIInv, TypeOK
<1>4. reading'[e] = IF n = celt THEN "reading" ELSE "done"
  BY <1>2 DEF FillsSlots, Fetch, EIInv, TypeOK
<1>5. celt \in Nat /\ celt >= 1
  BY CommandsAssumption, Tables
<1> QED
  BY <1>3, <1>4, <1>5 DEF Ahead, _uCommands

LEMMA StepComesNearer ==
  ASSUME EIInv, [Next]_vars, NEW e \in Enumerators, reading[e] = "reading", ~Enum_Reset(e)
  PROVE  Ahead(e)' <= Ahead(e)
<1>0. _uCurrent[e] \in Nat /\ Len(_apfvci[e]) \in Nat /\ _uCurrent[e] <= Len(_apfvci[e])
  BY LenProperties DEF EIInv, TypeOK, InTable
<1>1. CASE Read(e)
  BY <1>1, ReadComesNearer
<1>2. ASSUME NEW celt \in Celts, Enum_Skip(e, celt) PROVE Ahead(e)' <= Ahead(e)
  <2>1. _apfvci' = _apfvci /\ _uCurrent'[e] \in Nat /\ _uCurrent[e] <= _uCurrent'[e]
    BY <1>2, SkipTo DEF Enum_Skip
  <2> QED
    BY <1>0, <2>1 DEF Ahead, _uCommands
<1>3. CASE Enum_Release(e)
  <2>1. _apfvci'[e] = <<>> /\ _uCurrent'[e] = 0
    BY <1>3 DEF Enum_Release, EIInv, TypeOK
  <2>2. Len(_apfvci'[e]) = 0
    BY <2>1
  <2> QED
    BY <1>0, <2>1, <2>2 DEF Ahead, _uCommands
<1>4. CASE _apfvci'[e] = _apfvci[e] /\ _uCurrent'[e] = _uCurrent[e]
  BY <1>0, <1>4 DEF Ahead, _uCommands
<1>5. ASSUME NEW d \in Enumerators, GetCommands(d) \/ EnumSubCommands(d)
      PROVE  _apfvci'[e] = _apfvci[e] /\ _uCurrent'[e] = _uCurrent[e]
  <2>1. PICK table : NewEnumerator(d, table)
    BY <1>5 DEF GetCommands, EnumSubCommands
  <2> QED
    BY <2>1 DEF NewEnumerator, EIInv, TypeOK
<1>6. ASSUME NEW d \in Enumerators \ {e}, NEW celt \in Celts,
             Enum_Next(d, celt) \/ Enum_Skip(d, celt)
      PROVE  _apfvci'[e] = _apfvci[e] /\ _uCurrent'[e] = _uCurrent[e]
  BY <1>6 DEF Enum_Next, Enum_NextMakes, Enum_NextFails, Fetch, Enum_Skip, EIInv, TypeOK
<1>7. ASSUME NEW d \in Enumerators \ {e}, Enum_Reset(d) \/ Enum_Release(d)
      PROVE  _apfvci'[e] = _apfvci[e] /\ _uCurrent'[e] = _uCurrent[e]
  BY <1>7 DEF Enum_Reset, Enum_Release, EIInv, TypeOK
<1>8. CASE UNCHANGED vars
  BY <1>4, <1>8 DEF vars
<1> QED
  BY <1>1, <1>2, <1>3, <1>4, <1>5, <1>6, <1>7, <1>8 DEF Next, Read

\* The variant behind ReadingEnds: only Reset takes a reader further from the end, every
\* answer S_OK takes it nearer, and there it stops (FVCommands.cpp, Next and Skip).
THEOREM NextComesNearerHolds == Spec => [][NextComesNearer]_vars
<1>1. EIInv /\ [Next]_vars => [NextComesNearer]_vars
  <2> SUFFICES ASSUME EIInv, [Next]_vars, NEW e \in Enumerators, reading[e] = "reading"
               PROVE  /\ Ahead(e) \in Nat
                      /\ Read(e) => reading'[e] # "reading" \/ Ahead(e)' < Ahead(e)
                      /\ Enum_Reset(e) \/ Ahead(e)' <= Ahead(e)
    BY DEF NextComesNearer
  <2>1. Ahead(e) \in Nat
    BY LenProperties DEF Ahead, _uCommands, EIInv, TypeOK, InTable
  <2> QED
    BY <2>1, ReadComesNearer, StepComesNearer
<1> QED
  BY <1>1, EInvariance, PTL DEF Spec

-----------------------------------------------------------------------------
(* ExplorerCommands implements Enumeration.                                *)

LEMMA IsConcat ==
  ASSUME NEW S, NEW a \in Seq(S), NEW b \in Seq(S), NEW c \in Seq(S),
         Len(c) = Len(a) + Len(b), \A i \in 1 .. Len(a) : c[i] = a[i],
         \A i \in 1 .. Len(b) : c[Len(a) + i] = b[i]
  PROVE  c = a \o b
<1>1. /\ a \o b \in Seq(S) /\ Len(a \o b) = Len(c) /\ Len(a) \in Nat /\ Len(b) \in Nat
      /\ \A i \in 1 .. Len(a) + Len(b) :
           (a \o b)[i] = IF i <= Len(a) THEN a[i] ELSE b[i - Len(a)]
  BY ConcatProperties, LenProperties
<1>2. ASSUME NEW i \in 1 .. Len(c) PROVE c[i] = (a \o b)[i]
  <2>1. CASE i <= Len(a)
    BY <1>1, <2>1
  <2>2. CASE i > Len(a)
    <3>1. i - Len(a) \in 1 .. Len(b) /\ i = Len(a) + (i - Len(a))
      BY <1>1, <2>2
    <3>2. c[Len(a) + (i - Len(a))] = b[i - Len(a)]
      BY <3>1, Zenon
    <3> QED
      BY <1>1, <2>2, <3>1, <3>2
  <2> QED
    BY <1>1, <2>1, <2>2
<1> QED
  BY <1>1, <1>2, SeqEqual

Handed(s) == [i \in DOMAIN s |-> s[i].command]

LEMMA HandedType ==
  ASSUME NEW s \in Seq(Slot)
  PROVE  /\ Handed(s) \in Seq(Names) /\ Len(Handed(s)) = Len(s) /\ Len(s) \in Nat
         /\ \A i \in 1 .. Len(s) : Handed(s)[i] = s[i].command
<1>1. Len(s) \in Nat /\ DOMAIN s = 1 .. Len(s) /\ s \in [1 .. Len(s) -> Slot]
  BY LenProperties
<1>2. Handed(s) = [i \in 1 .. Len(s) |-> s[i].command]
  BY <1>1 DEF Handed
<1>3. \A i \in 1 .. Len(s) : s[i].command \in Names
  BY <1>1 DEF Slot
<1>4. Handed(s) \in [1 .. Len(s) -> Names]
  BY <1>2, <1>3, SMTT(30)
<1>5. Handed(s) \in UNION {[1 .. m -> Names] : m \in Nat}
  BY <1>1, <1>4
<1>6. Handed(s) \in Seq(Names)
  BY <1>5, SeqDef, Zenon
<1>7. DOMAIN Handed(s) = 1 .. Len(s) /\ DOMAIN Handed(s) = 1 .. Len(Handed(s))
      /\ Len(Handed(s)) \in Nat
  BY <1>4, <1>6, LenProperties
<1>8. Len(Handed(s)) = Len(s)
  BY <1>1, <1>7
<1> QED
  BY <1>1, <1>2, <1>6, <1>8

\* What a call of Next hands out is what follows the position in the table.
LEMMA HandsOutFollowing ==
  ASSUME EIInv, NEW e \in Enumerators, NEW celt, NEW n, NEW fetched,
         FillsSlots(e, n, fetched), Fetch(e, celt, n, fetched)
  PROVE  Handed(slots'[e]) =
           Handed(slots[e]) \o SubSeq(_apfvci[e], _uCurrent[e] + 1, _uCurrent[e] + n)
<1> DEFINE old == Handed(slots[e])
           more == SubSeq(_apfvci[e], _uCurrent[e] + 1, _uCurrent[e] + n)
           new == Handed(slots'[e])
<1>1. /\ slots'[e] \in Seq(Slot) /\ slots[e] \in Seq(Slot)
      /\ Len(slots[e]) \in Nat /\ Len(slots'[e]) = Len(slots[e]) + n
      /\ \A i \in 1 .. Len(slots'[e]) :
           slots'[e][i] = IF i <= Len(slots[e]) THEN slots[e][i]
                                               ELSE fetched[i - Len(slots[e])]
  BY Appended
<1>2. /\ n \in Nat /\ _uCurrent[e] \in Nat /\ _apfvci[e] \in Seq(Names)
      /\ _uCurrent[e] + n <= Len(_apfvci[e]) /\ Len(_apfvci[e]) \in Nat
      /\ \A i \in 1 .. n : fetched[i].command = _apfvci[e][_uCurrent[e] + i]
  BY LenProperties DEF FillsSlots, EIInv, TypeOK
<1>3. /\ old \in Seq(Names) /\ Len(old) = Len(slots[e])
      /\ \A i \in 1 .. Len(slots[e]) : old[i] = slots[e][i].command
      /\ new \in Seq(Names) /\ Len(new) = Len(slots'[e])
      /\ \A i \in 1 .. Len(slots'[e]) : new[i] = slots'[e][i].command
  BY <1>1, HandedType
<1>4. \A i \in (_uCurrent[e] + 1) .. (_uCurrent[e] + n) : _apfvci[e][i] \in Names
  BY <1>2, ElementOfSeq
<1>5. /\ more \in Seq(Names) /\ Len(more) = n
      /\ \A i \in 1 .. n : more[i] = _apfvci[e][_uCurrent[e] + i]
  <2> DEFINE from == _uCurrent[e] + 1
             to == _uCurrent[e] + n
  <2>1. from \in Int /\ to \in Int
    BY <1>2
  <2>2. /\ more \in Seq(Names) /\ Len(more) = IF from <= to THEN to - from + 1 ELSE 0
        /\ \A i \in 1 .. to - from + 1 : more[i] = _apfvci[e][from + i - 1]
    BY <1>4, <2>1, SubSeqProperties
  <2>3. to - from + 1 = n /\ \A i \in 1 .. n : from + i - 1 = _uCurrent[e] + i
    BY <1>2
  <2>4. Len(more) = n
    BY <1>2, <2>2, <2>3
  <2> QED
    BY <2>2, <2>3, <2>4
<1> HIDE DEF old, more, new
<1>6. \A i \in 1 .. Len(old) : new[i] = old[i]
  <2>1. \A i \in 1 .. Len(slots[e]) : i \in 1 .. Len(slots'[e]) /\ i <= Len(slots[e])
    BY <1>1, <1>2
  <2> QED
    BY <1>1, <1>3, <2>1
<1>7. \A i \in 1 .. Len(more) : new[Len(old) + i] = more[i]
  <2>1. \A i \in 1 .. n : /\ Len(slots[e]) + i \in 1 .. Len(slots'[e])
                          /\ ~(Len(slots[e]) + i <= Len(slots[e]))
                          /\ Len(slots[e]) + i - Len(slots[e]) = i
    BY <1>1, <1>2
  <2>2. \A i \in 1 .. n : slots'[e][Len(slots[e]) + i] = fetched[i]
    <3> TAKE i \in 1 .. n
    <3> DEFINE k == Len(slots[e]) + i
    <3>1. k \in 1 .. Len(slots'[e]) /\ ~(k <= Len(slots[e])) /\ k - Len(slots[e]) = i
      BY <2>1
    <3> HIDE DEF k
    <3>2. slots'[e][k] = fetched[k - Len(slots[e])]
      BY <1>1, <3>1, Zenon
    <3> QED
      BY <3>1, <3>2, Zenon DEF k
  <2>3. \A i \in 1 .. n : new[Len(slots[e]) + i] = fetched[i].command
    BY <1>3, <2>1, <2>2, Zenon
  <2> QED
    BY <1>2, <1>3, <1>5, <2>3, Zenon
<1>8. Len(new) = Len(old) + Len(more)
  BY <1>1, <1>3, <1>5
<1>9. new = old \o more
  BY <1>3, <1>5, <1>6, <1>7, <1>8, IsConcat, Zenon
<1> QED
  BY <1>9 DEF old, more, new

handed == [e \in Enumerators |-> Handed(slots[e])]

LEMMA InitIsCursorInit == Init => Cursor!Init
<1> SUFFICES ASSUME Init PROVE Cursor!Init
  OBVIOUS
<1>1. [e \in Enumerators |-> [i \in DOMAIN slots[e] |-> slots[e][i].command]]
        = [e \in Enumerators |-> <<>>]
  BY DEF Init
<1> QED
  BY <1>1 DEF Init, Cursor!Init

LEMMA NextIsCursorStep == EIInv /\ [Next]_vars => [Cursor!Step]_(Cursor!vars)
<1> SUFFICES ASSUME EIInv, [Next]_vars PROVE [Cursor!Step]_(Cursor!vars)
  OBVIOUS
<1>1. ASSUME NEW e \in Enumerators, GetCommands(e) \/ EnumSubCommands(e)
      PROVE  Cursor!Create(e)
  <2>1. PICK table : NewEnumerator(e, table)
    BY <1>1 DEF GetCommands, EnumSubCommands
  <2>2. _apfvci[e] = <<>> /\ _apfvci' = [_apfvci EXCEPT ![e] = table]
        /\ UNCHANGED <<_uCurrent, slots>>
    BY <2>1 DEF NewEnumerator, EIInv, Unused
  <2>3. _apfvci' = [_apfvci EXCEPT ![e] = _apfvci'[e]]
    BY <2>2 DEF EIInv, TypeOK
  <2> QED
    BY <2>2, <2>3 DEF Cursor!Create
<1>2. ASSUME NEW e \in Enumerators, NEW celt \in Celts, Enum_Next(e, celt)
      PROVE  Cursor!Next(e)
  <2>1. PICK n, fetched : FillsSlots(e, n, fetched) /\ Fetch(e, celt, n, fetched)
    BY <1>2, NextFills
  <2>2. /\ n \in Nat /\ _uCurrent[e] + n <= Len(_apfvci[e])
        /\ _uCurrent \in [Enumerators -> Nat]
        /\ _uCurrent' = [_uCurrent EXCEPT ![e] = @ + n] /\ UNCHANGED _apfvci
    BY <2>1 DEF FillsSlots, Fetch, EIInv, TypeOK
  <2>3. _uCurrent'[e] = _uCurrent[e] + n
    BY <2>2
  <2>4. /\ _uCurrent[e] <= _uCurrent'[e] /\ _uCurrent'[e] <= Len(_apfvci[e])
        /\ _uCurrent' = [_uCurrent EXCEPT ![e] = _uCurrent'[e]]
    BY <2>2, <2>3
  <2>5. Handed(slots'[e]) =
          Handed(slots[e]) \o SubSeq(_apfvci[e], _uCurrent[e] + 1, _uCurrent'[e])
    BY <2>1, <2>3, HandsOutFollowing
  <2>6. \A d \in Enumerators \ {e} : slots'[d] = slots[d]
    BY <2>1, Appended
  <2>7. handed' = [handed EXCEPT ![e] = @ \o SubSeq(_apfvci[e], _uCurrent[e] + 1, _uCurrent'[e])]
    BY <2>5, <2>6, Zenon DEF handed
  <2> QED
    BY <2>2, <2>4, <2>7 DEF Cursor!Next, Cursor!Advance, handed, Handed
<1>3. ASSUME NEW e \in Enumerators, NEW celt \in Celts, Enum_Skip(e, celt)
      PROVE  Cursor!Skip(e)
  BY <1>3, SkipTo DEF Enum_Skip, Cursor!Skip, Cursor!Advance
<1>4. ASSUME NEW e \in Enumerators, Enum_Reset(e) \/ Enum_Release(e)
      PROVE  Cursor!Reset(e) \/ Cursor!Release(e)
  <2>1. slots' = [slots EXCEPT ![e] = <<>>] /\ slots \in [Enumerators -> Seq(Slot)]
    BY <1>4 DEF Enum_Reset, Enum_Release, EIInv, TypeOK
  <2>2. Handed(<<>>) = <<>>
    BY DEF Handed
  <2>3. slots'[e] = <<>> /\ \A d \in Enumerators \ {e} : slots'[d] = slots[d]
    BY <2>1
  <2>4. handed' = [handed EXCEPT ![e] = <<>>]
    BY <2>2, <2>3, Zenon DEF handed
  <2> QED
    BY <1>4, <2>4 DEF Enum_Reset, Enum_Release, Cursor!Reset, Cursor!Release, handed, Handed
<1>5. CASE UNCHANGED vars
  <2>1. UNCHANGED Cursor!vars
    BY <1>5 DEF vars, Cursor!vars
  <2> QED
    BY <2>1
<1> QED
  BY <1>1, <1>2, <1>3, <1>4, <1>5 DEF Next, Cursor!Step

\* The enumerator of commands is an enumerator, whatever could not be made
\* (ExplorerCommands!ImplementsEnumeration).
THEOREM CommandsAreEnumerated == Spec => ImplementsEnumeration
  BY InitIsCursorInit, NextIsCursorStep, EInvariance, PTL
     DEF Spec, ImplementsEnumeration, Cursor!Spec

=============================================================================
