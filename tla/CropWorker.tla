----------------------------- MODULE CropWorker -----------------------------
(***************************************************************************)
(* The crops kept as evidence: CropWorker (win11_crop_worker.py), which    *)
(* takes crops from any thread and saves them on one thread of its own,    *)
(* and CropEvidenceStore.save (win11_crop_evidence.py), which keeps one    *)
(* archive per content behind a lock file.                                 *)
(*                                                                         *)
(* A saved crop is one whose archive exists and whose line is in the index *)
(* of its camera; a crop that was given up must never get a line. The      *)
(* submitters, the worker, the expiry and close() meet over that.          *)
(***************************************************************************)
EXTENDS Naturals, Sequences, FiniteSets, SequencesExt, Ascending

CONSTANTS
    Crops,          \* bound: submissions, 1..n
    CropQueueMax,   \* queue_max
    CropHistory,    \* history_max
    MaxCropCrashes  \* bound: ends of the process

ASSUME CropAssumption ==
    /\ IsFiniteSet(Crops) /\ Crops = 1..Cardinality(Crops)
    /\ CropQueueMax \in Nat \ {0} /\ CropHistory \in Nat \ {0} /\ MaxCropCrashes \in Nat

VARIABLES
    crops,          \* _tasks, and what was answered for those forgotten
    cropQueue,      \* _queue
    keeper,         \* the worker thread; its task is _inflight
    cropDoor,       \* _closing
    cropOrder,      \* _order: the ended tasks still remembered, oldest first
    index,          \* the lines of the index files
    lockFile,       \* .write-lock, or a .pending- file, left over in the root
    cropCrashes

cropvars == <<crops, cropQueue, keeper, cropDoor, cropOrder, index, lockFile, cropCrashes>>

CropEnds == {"saved", "failed", "uncertain", "dropped"}
Resting == [pc |-> "idle", at |-> 0, good |-> TRUE]
CropsIn(S) == {i \in Crops : crops[i].st \in S}
Becomes(i, st) == crops' = [crops EXCEPT ![i] = [crops[i] EXCEPT !.st = st]]
Authorizes(i) == crops' = [crops EXCEPT ![i] = [crops[i] EXCEPT !.authorized = TRUE]]

CropInit ==
    /\ crops = [i \in Crops |-> [st |-> "new", authorized |-> FALSE]]
    /\ cropQueue = <<>> /\ keeper = Resting /\ cropDoor = "open" /\ cropOrder = <<>>
    /\ index = {} /\ lockFile = FALSE /\ cropCrashes = 0
-------------------------------------------------------------------------------
\* _finish_locked: a pending task ends, once; _evict_locked then forgets the
\* oldest ended ones. A task that is not ended is never forgotten.
Ending(S) == {i \in S : crops[i].st = "pending"}
EndsCrops(S, end) ==
    crops' = [i \in Crops |-> IF i \in Ending(S) THEN [crops[i] EXCEPT !.st = end] ELSE crops[i]]
ForgetsCrops(S) ==
    LET order == cropOrder \o Ascending(Ending(S))
        known == Len(order) + Cardinality(CropsIn({"pending"}) \ Ending(S))
        excess == IF known > CropHistory THEN known - CropHistory ELSE 0
    IN  cropOrder' = IF excess >= Len(order) THEN <<>> ELSE SubSeq(order, excess + 1, Len(order))
CropFinish(S, end) == EndsCrops(S, end) /\ ForgetsCrops(S)

\* submit until the reservation; refused when stopped or when enough is under way.
SubmitCrop(i) ==
    /\ crops[i].st = "new" /\ \A j \in Crops : j < i => crops[j].st # "new"
    /\ Becomes(i, IF cropDoor # "open" \/ keeper.pc = "ended"
                     \/ Cardinality(CropsIn({"reserved", "pending"})) >= CropQueueMax + 1
                  THEN "refused" ELSE "reserved")
    /\ UNCHANGED <<cropQueue, keeper, cropDoor, cropOrder, index, lockFile, cropCrashes>>

\* submit outside the lock: too large, or it cannot be copied; or, stopped meanwhile.
RefuseCrop(i) ==
    /\ crops[i].st = "reserved"
    /\ Becomes(i, "refused")
    /\ UNCHANGED <<cropQueue, keeper, cropDoor, cropOrder, index, lockFile, cropCrashes>>

\* submit with the copy. Expired tasks keep their place in the queue, so it may be full.
RegisterCrop(i) ==
    /\ crops[i].st = "reserved" /\ cropDoor = "open" /\ keeper.pc # "ended"
    /\ IF Len(cropQueue) < CropQueueMax
       THEN /\ Becomes(i, "pending")
            /\ cropQueue' = Append(cropQueue, i)
            /\ UNCHANGED cropOrder
       ELSE /\ Becomes(i, "dropped")
            /\ cropOrder' = IF Len(cropOrder) + Cardinality(CropsIn({"pending"})) >= CropHistory
                            THEN Tail(Append(cropOrder, i)) ELSE Append(cropOrder, i)
            /\ UNCHANGED cropQueue
    /\ UNCHANGED <<keeper, cropDoor, index, lockFile, cropCrashes>>

\* _sweep_expired_locked, by submit, status or the worker: a pending task too old,
\* and not in the hands of the worker.
ExpireCrop(i) ==
    /\ crops[i].st = "pending" /\ keeper.at # i
    /\ CropFinish({i}, "dropped")
    /\ UNCHANGED <<cropQueue, keeper, cropDoor, index, lockFile, cropCrashes>>
-------------------------------------------------------------------------------
(* The worker. *)

\* _run: closing, with nothing queued or the time over.
WorkerEnd ==
    /\ keeper.pc = "idle" /\ cropDoor # "open"
    /\ keeper' = [keeper EXCEPT !.pc = "ended"]
    /\ UNCHANGED <<crops, cropQueue, cropDoor, cropOrder, index, lockFile, cropCrashes>>

\* _run and the start of _process: what is no longer pending is passed over.
TakeCrop ==
    /\ keeper.pc = "idle" /\ cropQueue # <<>>
    /\ cropQueue' = Tail(cropQueue)
    /\ keeper' = IF crops[Head(cropQueue)].st = "pending"
                 THEN [keeper EXCEPT !.pc = "save", !.at = Head(cropQueue)] ELSE keeper
    /\ UNCHANGED <<crops, cropDoor, cropOrder, index, lockFile, cropCrashes>>

\* CropEvidenceStore.save: invalid, encoding, budget, capacity, or the lock file is
\* there ("busy"); else the archive is linked in and the lock file removed.
SaveCrop ==
    /\ keeper.pc = "save"
    /\ \E good \in IF lockFile THEN {FALSE} ELSE BOOLEAN :
        keeper' = [keeper EXCEPT !.pc = "authorize", !.good = good]
    /\ UNCHANGED <<crops, cropQueue, cropDoor, cropOrder, index, lockFile, cropCrashes>>

\* Mutant: the authorization does not ask whether the task is still pending.
MutantAuthorizeCrop ==
    /\ keeper.pc = "authorize"
    /\ Authorizes(keeper.at)
    /\ keeper' = [keeper EXCEPT !.pc = "append"]
    /\ UNCHANGED <<cropQueue, cropDoor, cropOrder, index, lockFile, cropCrashes>>

\* _authorize_commit_locked: only what is still pending may be written to the index.
AuthorizeCrop ==
    /\ keeper.pc = "authorize"
    /\ IF crops[keeper.at].st = "pending"
       THEN /\ Authorizes(keeper.at)
            /\ keeper' = [keeper EXCEPT !.pc = "append"]
       ELSE keeper' = Resting /\ UNCHANGED crops
    /\ UNCHANGED <<cropQueue, cropDoor, cropOrder, index, lockFile, cropCrashes>>

Line == [task |-> keeper.at, good |-> keeper.good]

\* _append_index and the end of _process or _finish_failed: the line is durable; or
\* refused before its first byte; or nobody knows, and it may be there.
AppendCrop ==
    /\ keeper.pc = "append"
    /\ \/ /\ index' = index \cup {Line}
          /\ CropFinish({keeper.at}, IF keeper.good THEN "saved" ELSE "failed")
       \/ /\ UNCHANGED index
          /\ CropFinish({keeper.at}, "failed")
       \/ /\ index' \in {index, index \cup {Line}}
          /\ CropFinish({keeper.at}, IF keeper.good THEN "uncertain" ELSE "failed")
    /\ keeper' = Resting
    /\ UNCHANGED <<cropQueue, cropDoor, lockFile, cropCrashes>>

\* close: no more submissions, a join that may time out ...
CloseCrops ==
    /\ cropDoor = "open"
    /\ cropDoor' = "closing"
    /\ UNCHANGED <<crops, cropQueue, keeper, cropOrder, index, lockFile, cropCrashes>>

\* ... and what is pending without an authorization is given up.
DropCrops ==
    /\ cropDoor = "closing"
    /\ CropFinish({i \in Crops : ~crops[i].authorized}, "dropped")
    /\ cropDoor' = "closed"
    /\ UNCHANGED <<cropQueue, keeper, index, lockFile, cropCrashes>>

\* The process ends anywhere and starts anew: the files stay.
CropCrash ==
    /\ cropCrashes < MaxCropCrashes
    /\ cropCrashes' = cropCrashes + 1
    /\ crops' = [i \in Crops |-> IF crops[i].st \in {"reserved", "pending"}
                                 THEN [crops[i] EXCEPT !.st = "lost"] ELSE crops[i]]
    /\ index' \in IF keeper.pc = "append" THEN {index, index \cup {Line}} ELSE {index}
    /\ lockFile' \in IF keeper.pc = "save" THEN {lockFile, TRUE} ELSE {lockFile}
    /\ cropQueue' = <<>> /\ keeper' = Resting /\ cropDoor' = "open" /\ cropOrder' = <<>>

CropNext ==
    \/ \E i \in Crops : SubmitCrop(i) \/ RefuseCrop(i) \/ RegisterCrop(i) \/ ExpireCrop(i)
    \/ WorkerEnd \/ TakeCrop \/ SaveCrop \/ AuthorizeCrop \/ AppendCrop
    \/ CloseCrops \/ DropCrops \/ CropCrash
CropSpec == CropInit /\ [][CropNext]_cropvars
-------------------------------------------------------------------------------
\* What each part of the state may hold.
CropTypeOK ==
    /\ \A i \in Crops : /\ crops[i].st \in {"new", "refused", "reserved", "pending", "lost"}
                                             \cup CropEnds
                        /\ crops[i].authorized \in BOOLEAN
    /\ ToSet(cropQueue) \subseteq Crops /\ Len(cropQueue) <= CropQueueMax
    /\ keeper.pc \in {"idle", "save", "authorize", "append", "ended"}
    /\ cropDoor \in {"open", "closing", "closed"}
    /\ Len(cropOrder) <= CropHistory /\ \A k \in 1..Len(cropOrder) : crops[cropOrder[k]].st \in CropEnds
    /\ index \subseteq [task : Crops, good : BOOLEAN] /\ lockFile \in BOOLEAN

\* A crop answered "saved" has its line in the index; one that was given up by its
\* age or by close() never gets one, however late the worker comes back from the
\* disk; a line says saved only of a crop whose end was saved, or not known. At no
\* time is more under way than the queue and the worker can hold.
CropHonest ==
    /\ \A i \in Crops :
        LET lines == {n \in index : n.task = i}
        IN  /\ crops[i].st = "saved" => lines = {[task |-> i, good |-> TRUE]}
            /\ crops[i].st \in {"dropped", "refused"} => lines = {}
            /\ (\E n \in lines : n.good) => crops[i].st \in {"saved", "uncertain", "lost"}
    /\ Cardinality(CropsIn({"reserved", "pending"})) <= CropQueueMax + 1
===============================================================================
