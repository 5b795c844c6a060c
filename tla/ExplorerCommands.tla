-------------------------- MODULE ExplorerCommands --------------------------
(***************************************************************************)
(* FVCommands.cpp: the commands Explorer shows above a folder.  Explorer   *)
(* gets an enumerator of the top-level commands from the provider, or one  *)
(* of its subcommands from a command, and reads it until Next no longer    *)
(* says S_OK.  Several are read at once.  Memory may run out whenever a    *)
(* command is to be made.                                                  *)
(***************************************************************************)
EXTENDS Integers, Sequences, SequencesExt

CONSTANTS Enumerators,
          Celts,      \* counts given to Next and Skip
          UlongSize,  \* values of a ULONG
          Faults      \* subset of {"command"}

c_FVTasks == <<"Display", "Settings">>
c_FVTaskSettings == <<"Setting1", "Setting2", "Setting3">>
Children(command) == IF command = "Settings" THEN c_FVTaskSettings ELSE <<>>

\* Nobody skips so far that the sum of Skip wraps around: it would lead back.
ASSUME CommandsAssumption ==
  UlongSize \in Nat /\ Celts \subseteq 1 .. (UlongSize - 1 - Len(c_FVTaskSettings))

VARIABLES reading,   \* reading[e]: "none", "reading", or "done" when Next has not said S_OK
          _apfvci,   \* _apfvci[e]: the commands e enumerates, _uCommands of them
          _uCurrent,
          slots,     \* slots[e]: what Next has put into the arrays of its callers in
                     \* this pass: whose slot it is, and whether it was made
          ends,      \* history: ends[e], lengths of slots[e] after a call of Next
          commands   \* commands that clients have got

vars == <<reading, _apfvci, _uCurrent, slots, ends, commands>>

Init ==
  /\ reading = [e \in Enumerators |-> "none"]
  /\ _apfvci = [e \in Enumerators |-> <<>>]
  /\ _uCurrent = [e \in Enumerators |-> 0]
  /\ slots = [e \in Enumerators |-> <<>>]
  /\ ends = [e \in Enumerators |-> {}]
  /\ commands = {}

_uCommands(e) == Len(_apfvci[e])

-----------------------------------------------------------------------------

\* The constructor of an enumerator.
NewEnumerator(e, table) ==
  /\ reading[e] = "none"
  /\ reading' = [reading EXCEPT ![e] = "reading"]
  /\ _apfvci' = [_apfvci EXCEPT ![e] = table]
  /\ UNCHANGED <<_uCurrent, slots, ends, commands>>

GetCommands(e) == NewEnumerator(e, c_FVTasks)

\* Of a command without children there is an enumerator as well, of nothing.
EnumSubCommands(e) == \E c \in commands : NewEnumerator(e, Children(c))

\* Mutant of Fetch: Next says S_OK however few it has fetched.
FetchAlwaysOk(e, celt, n, fetched) ==
  /\ slots' = [slots EXCEPT ![e] = @ \o fetched]
  /\ ends' = [ends EXCEPT ![e] = @ \cup {Len(slots'[e])}]
  /\ commands' = commands \cup {s.command : s \in {f \in ToSet(fetched) : f.made}}
  /\ _uCurrent' = [_uCurrent EXCEPT ![e] = @ + n]
  /\ UNCHANGED <<reading, _apfvci>>

\* A call of Next that goes through n commands and is asked for celt; fetched
\* are the slots of its caller's array that it counts.
Fetch(e, celt, n, fetched) ==
  /\ slots' = [slots EXCEPT ![e] = @ \o fetched]
  /\ ends' = [ends EXCEPT ![e] = @ \cup {Len(slots'[e])}]
  /\ commands' = commands \cup {s.command : s \in {f \in ToSet(fetched) : f.made}}
  /\ reading' = [reading EXCEPT ![e] = IF Len(fetched) = celt THEN "reading" ELSE "done"]
  /\ _uCurrent' = [_uCurrent EXCEPT ![e] = @ + n]
  /\ UNCHANGED _apfvci

\* The slots of the next n commands of e, all made but those in holes.
Following(e, n, holes) ==
  [i \in 1 .. n |-> [command |-> _apfvci[e][_uCurrent[e] + i], made |-> i \notin holes]]

\* How many commands the loop goes through, unless it is stopped.
Rounds(e, celt) ==
  IF celt <= _uCommands(e) - _uCurrent[e] THEN celt ELSE _uCommands(e) - _uCurrent[e]

Enum_NextMakes(e, celt) ==
  Fetch(e, celt, Rounds(e, celt), Following(e, Rounds(e, celt), {}))

\* Mutants of Enum_NextFails: the position is left before the command that could not
\* be made, and the loop goes on after it.
Enum_NextFailsInPlace(e, celt) ==
  /\ "command" \in Faults
  /\ \E n \in 1 .. Rounds(e, celt) :
       Fetch(e, celt, n - 1, Following(e, n, {n}))

Enum_NextFailsAndGoesOn(e, celt) ==
  /\ "command" \in Faults
  /\ \E n \in 1 .. Rounds(e, celt) :
       Fetch(e, celt, Rounds(e, celt), Following(e, Rounds(e, celt), {n}))

\* The loop ends when a command cannot be made, but only after it has counted and
\* passed that one too; the slot is not written.
Enum_NextFails(e, celt) ==
  /\ "command" \in Faults
  /\ \E n \in 1 .. Rounds(e, celt) :
       Fetch(e, celt, n, Following(e, n, {n}))

Enum_Next(e, celt) ==
  /\ reading[e] # "none"
  /\ Enum_NextMakes(e, celt) \/ Enum_NextFails(e, celt)

Enum_Skip(e, celt) ==
  /\ reading[e] # "none"
  /\ LET sum == (_uCurrent[e] + celt) % UlongSize
     IN  _uCurrent' = [_uCurrent EXCEPT ![e] =
                         IF sum > _uCommands(e) THEN _uCommands(e) ELSE sum]
  /\ UNCHANGED <<reading, _apfvci, slots, ends, commands>>

Enum_Reset(e) ==
  /\ reading[e] # "none"
  /\ reading' = [reading EXCEPT ![e] = "reading"]
  /\ _uCurrent' = [_uCurrent EXCEPT ![e] = 0]
  /\ slots' = [slots EXCEPT ![e] = <<>>]
  /\ ends' = [ends EXCEPT ![e] = {}]
  /\ UNCHANGED <<_apfvci, commands>>

Enum_Release(e) ==
  /\ reading[e] # "none"
  /\ reading' = [reading EXCEPT ![e] = "none"]
  /\ _apfvci' = [_apfvci EXCEPT ![e] = <<>>]
  /\ _uCurrent' = [_uCurrent EXCEPT ![e] = 0]
  /\ slots' = [slots EXCEPT ![e] = <<>>]
  /\ ends' = [ends EXCEPT ![e] = {}]
  /\ UNCHANGED commands

Next ==
  \E e \in Enumerators :
    \/ GetCommands(e) \/ EnumSubCommands(e)
    \/ \E celt \in Celts : Enum_Next(e, celt) \/ Enum_Skip(e, celt)
    \/ Enum_Reset(e) \/ Enum_Release(e)

Spec == Init /\ [][Next]_vars

\* Whoever reads an enumerator calls Next as long as it says S_OK.
Read(e) == reading[e] = "reading" /\ \E celt \in Celts : Enum_Next(e, celt)

FairSpec == Spec /\ \A e \in Enumerators : WF_vars(Read(e))

-----------------------------------------------------------------------------
(* Properties.                                                             *)

\* A slot that Next has counted but not written is the last one of its call: a caller
\* that looks at all but the last of what it got never meets one.
HoleEndsItsCall ==
  \A e \in Enumerators : \A i \in DOMAIN slots[e] : ~slots[e][i].made => i \in ends[e]

\* Whatever could not be made, a command takes the slot its place in the table gives
\* it: slots follow the table, from wherever Skip has led, without gap or repetition.
Cursor == INSTANCE Enumeration
            WITH list <- _apfvci, pos <- _uCurrent,
                 handed <- [e \in Enumerators |->
                              [i \in DOMAIN slots[e] |-> slots[e][i].command]]
ImplementsEnumeration == Cursor!Spec

\* Reading an enumerator that is not reset again and again comes to an end, even if no
\* command can ever be made.
ReadingEnds ==
  \A e \in Enumerators :
    <>[][~Enum_Reset(e)]_vars => (reading[e] = "reading" ~> reading[e] # "reading")

=============================================================================
