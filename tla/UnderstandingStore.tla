------------------------- MODULE UnderstandingStore -------------------------
(***************************************************************************)
(* The history of understanding (win11_understanding_store.py): for each   *)
(* camera and kind a bounded list in memory and a file that is rewritten   *)
(* as a whole by every append, under one lock. Cameras not written for     *)
(* long leave the memory; their file is read again at the next access, as  *)
(* after a start of the program. Reading and writing may fail.             *)
(*                                                                         *)
(* Records are numbered. One kind stands for the three: the budget of a    *)
(* load is shared by them, but exceeds what their three lists can hold.    *)
(***************************************************************************)
EXTENDS Naturals, Sequences, FiniteSets, SequencesExt

CONSTANTS
    StoreCams,      \* cameras
    PerCamera,      \* max_per_camera
    KnownCams,      \* max_known_cameras
    MaxRecords,     \* bound: records
    MaxStoreStarts  \* bound: further starts of the program

ASSUME StoreAssumption ==
    /\ IsFiniteSet(StoreCams) /\ PerCamera \in Nat \ {0} /\ KnownCams \in Nat \ {0}
    /\ MaxRecords \in Nat /\ MaxStoreStarts \in Nat

VARIABLES
    memory,         \* _history
    readIn,         \* _loaded
    known,          \* _cam_order, the camera written longest ago first
    file,           \* the .jsonl file of each camera
    recordsMade,           \* bound: records so far
    saved,          \* the records append answered True for, by camera, in order
    blind,          \* cameras whose file could not be read
    starts          \* bound: starts so far

storevars == <<memory, readIn, known, file, recordsMade, saved, blind, starts>>

\* Mutant: one record too many is kept.
MutantNewest(s) == IF Len(s) > PerCamera + 1 THEN Tail(s) ELSE s

Newest(s) == IF Len(s) > PerCamera THEN SubSeq(s, Len(s) - PerCamera + 1, Len(s)) ELSE s

UnderstandingInit ==
    /\ memory = [c \in StoreCams |-> <<>>] /\ readIn = {} /\ known = <<>>
    /\ file = [c \in StoreCams |-> <<>>] /\ recordsMade = 0
    /\ saved = [c \in StoreCams |-> <<>>] /\ blind = {} /\ starts = 0
-------------------------------------------------------------------------------
\* _admit_camera_locked: one more camera may push the eldest out of the memory.
Admitted(c) == IF c \in ToSet(known) THEN known ELSE Append(known, c)
Left(c) == IF Len(Admitted(c)) > KnownCams THEN Tail(Admitted(c)) ELSE Admitted(c)
Gone(c) == ToSet(Admitted(c)) \ ToSet(Left(c))
\* _note_write_locked: a camera that is written to counts as the last one.
Touched(c) == LET i == CHOOSE k \in 1..Len(Left(c)) : Left(c)[k] = c
              IN  Append(RemoveAt(Left(c), i), c)

\* _ensure_loaded_locked: the file is read at the first access to a camera; what
\* cannot be read counts as empty.
Read(c, good) == IF c \in readIn \ Gone(c) THEN memory[c] ELSE IF good THEN Newest(file[c]) ELSE <<>>
ReadMarks(c, good) ==
    /\ readIn' = (readIn \ Gone(c)) \cup {c}
    /\ blind' = IF c \in readIn \/ good THEN blind ELSE blind \cup {c}

\* Mutant: the file of a camera that is not in the memory is not read before it is
\* replaced.
MutantAppendRecordOf(c, good, kept) ==
    /\ recordsMade < MaxRecords
    /\ recordsMade' = recordsMade + 1
    /\ known' = Touched(c)
    /\ LET list == Newest(Append(memory[c], recordsMade'))
       IN  /\ memory' = [d \in StoreCams |-> IF d = c THEN list
                                             ELSE IF d \in Gone(c) THEN <<>> ELSE memory[d]]
           /\ file' = IF kept THEN [file EXCEPT ![c] = list] ELSE file
           /\ saved' = IF kept THEN [saved EXCEPT ![c] = Append(@, recordsMade')] ELSE saved
    /\ ReadMarks(c, good)
    /\ UNCHANGED starts

\* append: a record that is too large or not finite is refused after its camera has
\* counted as written; else the memory takes it, the oldest leaves, and the file is
\* replaced by what the memory holds, or stays when that fails.
AppendRecordOf(c, good, kept) ==
    /\ recordsMade < MaxRecords
    /\ recordsMade' = recordsMade + 1
    /\ known' = Touched(c)
    /\ LET list == Newest(Append(Read(c, good), recordsMade'))
       IN  /\ memory' = [d \in StoreCams |-> IF d = c THEN list
                                             ELSE IF d \in Gone(c) THEN <<>> ELSE memory[d]]
           /\ file' = IF kept THEN [file EXCEPT ![c] = list] ELSE file
           /\ saved' = IF kept THEN [saved EXCEPT ![c] = Append(@, recordsMade')] ELSE saved
    /\ ReadMarks(c, good)
    /\ UNCHANGED starts

RefuseRecord(c) ==
    /\ recordsMade < MaxRecords
    /\ recordsMade' = recordsMade + 1
    /\ known' = Touched(c)
    /\ memory' = [d \in StoreCams |-> IF d \in Gone(c) THEN <<>> ELSE memory[d]]
    /\ readIn' = readIn \ Gone(c)
    /\ UNCHANGED <<file, saved, blind, starts>>

\* history, summary: a read loads as well, and may push another camera out.
ReadHistory(c, good) ==
    /\ c \notin readIn
    /\ known' = Left(c)
    /\ memory' = [d \in StoreCams |-> IF d = c THEN Read(c, good)
                                      ELSE IF d \in Gone(c) THEN <<>> ELSE memory[d]]
    /\ ReadMarks(c, good)
    /\ UNCHANGED <<file, recordsMade, saved, starts>>

\* The program ends and starts anew.
StartStore ==
    /\ starts < MaxStoreStarts
    /\ starts' = starts + 1
    /\ memory' = [c \in StoreCams |-> <<>>] /\ readIn' = {} /\ known' = <<>>
    /\ UNCHANGED <<file, recordsMade, saved, blind>>

UnderstandingNext ==
    \/ StartStore
    \/ \E c \in StoreCams, good \in BOOLEAN :
        \/ \E kept \in BOOLEAN : AppendRecordOf(c, good, kept)
        \/ ReadHistory(c, good)
    \/ \E c \in StoreCams : RefuseRecord(c)
UnderstandingSpec == UnderstandingInit /\ [][UnderstandingNext]_storevars
-------------------------------------------------------------------------------
\* What each part of the state may hold.
UnderstandingTypeOK ==
    /\ \A c \in StoreCams : /\ Len(memory[c]) <= PerCamera /\ Len(file[c]) <= PerCamera
                            /\ ToSet(memory[c]) \cup ToSet(file[c]) \subseteq 1..recordsMade
    /\ readIn \subseteq StoreCams /\ ToSet(known) \subseteq StoreCams
    /\ Len(known) <= KnownCams /\ starts \in 0..MaxStoreStarts

\* A record append answered True for is what a reader gets, across evictions of the
\* camera, failed writes and starts, until as many newer ones have come as the list
\* holds; only a file that could not be read ends this. And the list is in order.
Served(c) == IF c \in readIn THEN memory[c] ELSE Newest(file[c])
UnderstandingKept ==
    \A c \in StoreCams :
        /\ \A i, j \in 1..Len(Served(c)) : i < j => Served(c)[i] < Served(c)[j]
        /\ c \notin blind =>
             \A r \in ToSet(saved[c]) :
                \/ r \in ToSet(Served(c))
                \/ Len(Served(c)) = PerCamera /\ \A q \in ToSet(Served(c)) : r < q
===============================================================================
