---------------------------- MODULE SemanticUpdater ----------------------------
(***************************************************************************)
(* Descriptions of events that are still open (semantic_updater.py): one   *)
(* thread goes round the open events in batches, puts those with evidence  *)
(* that was not described yet into a bounded queue, then serves the queue: *)
(* it reads the evidence, asks the model, and publishes a version of the   *)
(* description with a notice in one transaction. What failed is tried      *)
(* again after a while, a few times; what is raised while it goes round    *)
(* ends the thread. The events close and the evidence changes meanwhile; a *)
(* restart forgets all but the tables.                                     *)
(*                                                                         *)
(* Evidence is its digest: what the record says, and what the file holds,  *)
(* 0 for none. Whether the time to try again has come is left open. The    *)
(* fingerprint of the model, a part of the key of the notices, stays.      *)
(***************************************************************************)
EXTENDS Integers, Sequences, FiniteSets, SequencesExt

CONSTANTS
    OpenEvents,     \* numbers of events
    Digests,        \* numbers above 0
    WaitingMax,     \* queue_max
    RetryMax,       \* retry_max
    ScanBatch,      \* scan_batch
    MaxEvidence,    \* bound: changes of the evidence and of the files
    MaxFailing,     \* bound: calls of the model or the database that fail or raise
    MaxUpdaterStarts\* bound: restarts

ASSUME UpdaterAssumption ==
    /\ OpenEvents \subseteq Nat \ {0} /\ IsFiniteSet(OpenEvents)
    /\ Digests \subseteq Nat \ {0} /\ IsFiniteSet(Digests)
    /\ WaitingMax \in Nat \ {0} /\ RetryMax \in Nat /\ ScanBatch \in Nat \ {0}
    /\ MaxEvidence \in Nat /\ MaxFailing \in Nat /\ MaxUpdaterStarts \in Nat

VARIABLES
    closed,         \* events that have ended
    assetOf,        \* digest of the record of the best frame of each event
    fileOf,         \* what its file holds
    updates,        \* tables: descriptions of each event, digest and bytes shown
    place,          \* table meta: the cursor of the scan
    note,           \* self.records: st, tries, digest of each event
    shownAs,        \* self._published
    waiting,        \* self.queue
    up,             \* the thread: pc, rows left to evaluate, next cursor, e in flight,
                    \* bytes read
    asked,          \* the model was asked about bytes that were published already
    spentOf         \* bound: evidence, failing, starts so far

tables == <<closed, assetOf, fileOf, updates, place>>
memoryOf == <<note, shownAs, waiting>>
updatervars == <<tables, memoryOf, up, asked, spentOf>>

NoNote == [st |-> "none", tries |-> 0, digest |-> 0]
Scanning == [pc |-> "scan", rows |-> <<>>, next |-> 0, e |-> 0, bytes |-> 0]
Forgotten ==
    /\ note' = [e \in OpenEvents |-> NoNote] /\ shownAs' = {} /\ waiting' = <<>>
    /\ up' = Scanning
UpdaterInit ==
    /\ closed = {} /\ place = 0
    /\ assetOf = [e \in OpenEvents |-> 0] /\ fileOf = [e \in OpenEvents |-> 0]
    /\ updates = [e \in OpenEvents |-> <<>>]
    /\ note = [e \in OpenEvents |-> NoNote] /\ shownAs = {} /\ waiting = <<>>
    /\ up = Scanning /\ asked = FALSE
    /\ spentOf = [evidence |-> 0, failing |-> 0, starts |-> 0]

Spend(what, most) == spentOf[what] < most /\ spentOf' = [spentOf EXCEPT ![what] = @ + 1]
\* semantic_update_ledger_hit: there is a notice of this event for these bytes.
LedgerHit(e, d) == \E u \in ToSet(updates[e]) : u.digest = d
\* _record keeps what is not given; `tries` and `digest` 0 mean not given.
Noted(e, st, digest) ==
    note' = [note EXCEPT ![e] = [st |-> st, tries |-> @.tries,
                                 digest |-> IF digest = 0 THEN @.digest ELSE digest]]
\* _fail: again later, or the end of it.
FailNote(e, digest) ==
    LET n == note[e].tries + 1
    IN  note' = [note EXCEPT ![e] = [st |-> IF n > RetryMax THEN "failed" ELSE "retry",
                                     tries |-> n,
                                     digest |-> IF digest = 0 THEN @.digest ELSE digest]]
-------------------------------------------------------------------------------
(* _scan, _evaluate *)

\* SELECT ... WHERE t_end IS NULL AND event_id > cursor ORDER BY event_id LIMIT n.
BatchOf(open) ==
    LET n == IF Cardinality(open) < ScanBatch THEN Cardinality(open) ELSE ScanBatch
    IN  {s \in [1..n -> open] :
            /\ \A i, j \in 1..n : i < j => s[i] < s[j]
            /\ \A e \in open \ ToSet(s), i \in 1..n : s[i] < e}
BeginScan ==
    /\ up.pc = "scan" /\ waiting = <<>>
    /\ \E rows \in BatchOf({e \in OpenEvents \ closed : e > place}) :
          up' = [Scanning EXCEPT !.pc = "evaluate", !.rows = rows,
                                 !.next = IF Len(rows) >= ScanBatch THEN Last(rows) ELSE 0]
    /\ UNCHANGED <<tables, memoryOf, asked, spentOf>>

\* What an open event needs: nothing now, or to be served.
EvaluateEvent(e) ==
    LET d == fileOf[e]
        exhausted == note[e].st = "failed" /\ note[e].digest = d
    IN  IF assetOf[e] = 0 \/ d = 0
        THEN Noted(e, "noEvidence", 0) /\ UNCHANGED <<shownAs, waiting>>
        ELSE IF exhausted THEN UNCHANGED memoryOf
        ELSE IF LedgerHit(e, d)
        THEN Noted(e, "published", d) /\ shownAs' = shownAs \cup {e} /\ UNCHANGED waiting
        ELSE IF Len(waiting) >= WaitingMax
        THEN Noted(e, "backoff", d) /\ UNCHANGED <<shownAs, waiting>>
        ELSE /\ note' = IF note[e].st = "retry" THEN note ELSE [note EXCEPT ![e] = NoNote]
             /\ waiting' = Append(waiting, e) /\ UNCHANGED shownAs
EvaluateNext ==
    /\ up.pc = "evaluate" /\ up.rows # <<>>
    /\ LET e == Head(up.rows)
       IN  \/ EvaluateEvent(e) /\ e \notin ToSet(waiting)
           \/ (note[e].st \in {"retry", "failed"} \/ e \in ToSet(waiting)) /\ UNCHANGED memoryOf
    /\ up' = [up EXCEPT !.rows = Tail(@)]
    /\ UNCHANGED <<tables, asked, spentOf>>
\* A full batch moves the cursor on, else it wraps round.
EndScan ==
    /\ up.pc = "evaluate" /\ up.rows = <<>> /\ up' = [up EXCEPT !.pc = "drain"]
    /\ place' = up.next
    /\ UNCHANGED <<closed, assetOf, fileOf, updates, memoryOf, asked, spentOf>>
\* Nothing catches what is raised here: the thread is gone until the program restarts.
ScanRaises ==
    /\ up.pc \in {"scan", "evaluate"} /\ Spend("failing", MaxFailing)
    /\ up' = [Scanning EXCEPT !.pc = "ended"] /\ UNCHANGED <<tables, memoryOf, asked>>
-------------------------------------------------------------------------------
(* _drain, _process *)

TakeItem ==
    /\ up.pc = "drain"
    /\ IF waiting = <<>> THEN up' = Scanning /\ UNCHANGED waiting
       ELSE up' = [Scanning EXCEPT !.pc = "read", !.e = Head(waiting)] /\ waiting' = Tail(waiting)
    /\ UNCHANGED <<tables, note, shownAs, asked, spentOf>>
BackToQueue == up' = [Scanning EXCEPT !.pc = "drain"]
\* The bytes of the file are read once: they are compared with the record, cited and shown.
ReadEvidence ==
    /\ up.pc = "read"
    /\ LET e == up.e
           d == fileOf[e]
       IN  IF assetOf[e] = 0 THEN Noted(e, "noEvidence", 0) /\ BackToQueue /\ UNCHANGED shownAs
           ELSE IF d # assetOf[e] THEN FailNote(e, 0) /\ BackToQueue /\ UNCHANGED shownAs
           ELSE IF LedgerHit(e, d)
           THEN Noted(e, "published", d) /\ BackToQueue /\ shownAs' = shownAs \cup {e}
           ELSE up' = [up EXCEPT !.pc = "model", !.bytes = d] /\ UNCHANGED <<note, shownAs>>
    /\ UNCHANGED <<tables, waiting, asked, spentOf>>
\* provider.understand: no answer, one that is not valid, or a profile.
ModelFails ==
    /\ up.pc = "model" /\ Spend("failing", MaxFailing) /\ FailNote(up.e, up.bytes) /\ BackToQueue
    /\ asked' = (asked \/ LedgerHit(up.e, up.bytes))
    /\ UNCHANGED <<tables, shownAs, waiting>>
Understood ==
    /\ up.pc = "model" /\ up' = [up EXCEPT !.pc = "publish"]
    /\ asked' = (asked \/ LedgerHit(up.e, up.bytes))
    /\ UNCHANGED <<tables, memoryOf, spentOf>>
\* publish_semantic_update: in one transaction, unless the ledger has these bytes.
PublishDescription ==
    /\ up.pc = "publish" /\ BackToQueue /\ shownAs' = shownAs \cup {up.e}
    /\ IF LedgerHit(up.e, up.bytes)
       THEN Noted(up.e, "published", up.bytes) /\ UNCHANGED updates
       ELSE /\ updates' = [updates EXCEPT ![up.e] =
                              Append(@, [digest |-> up.bytes, shown |-> up.bytes])]
            /\ note' = [note EXCEPT ![up.e] = NoNote]
    /\ UNCHANGED <<closed, assetOf, fileOf, place, waiting, asked, spentOf>>
\* The database is locked, or anything else is raised while an event is served.
ProcessingFails ==
    /\ up.pc \in {"read", "publish"} /\ Spend("failing", MaxFailing) /\ FailNote(up.e, 0) /\ BackToQueue
    /\ UNCHANGED <<tables, shownAs, waiting, asked>>
UpdaterRestarts ==
    Spend("starts", MaxUpdaterStarts) /\ Forgotten /\ UNCHANGED <<tables, asked>>
-------------------------------------------------------------------------------
(* Outside *)

EventEnds(e) ==
    /\ e \notin closed /\ closed' = closed \cup {e}
    /\ UNCHANGED <<assetOf, fileOf, updates, place, memoryOf, up, asked, spentOf>>
\* A better frame is stored, then recorded; or a file is lost or damaged.
FileChanges(e, d) ==
    /\ d # fileOf[e] /\ Spend("evidence", MaxEvidence) /\ fileOf' = [fileOf EXCEPT ![e] = d]
    /\ UNCHANGED <<closed, assetOf, updates, place, memoryOf, up, asked>>
FileRecorded(e) ==
    /\ fileOf[e] \notin {0, assetOf[e]} /\ assetOf' = [assetOf EXCEPT ![e] = fileOf[e]]
    /\ UNCHANGED <<closed, fileOf, updates, place, memoryOf, up, asked, spentOf>>

UpdaterNext ==
    \/ BeginScan \/ EvaluateNext \/ EndScan \/ ScanRaises \/ TakeItem \/ ReadEvidence
    \/ ModelFails \/ Understood \/ PublishDescription \/ ProcessingFails \/ UpdaterRestarts
    \/ \E e \in OpenEvents : EventEnds(e) \/ FileRecorded(e)
    \/ \E e \in OpenEvents, d \in Digests \cup {0} : FileChanges(e, d)
UpdaterSpec == UpdaterInit /\ [][UpdaterNext]_updatervars
-------------------------------------------------------------------------------
UpdaterTypeOK ==
    /\ closed \subseteq OpenEvents /\ shownAs \subseteq OpenEvents
    /\ assetOf \in [OpenEvents -> Digests \cup {0}] /\ fileOf \in [OpenEvents -> Digests \cup {0}]
    /\ \A e \in OpenEvents :
          /\ note[e].st \in {"none", "retry", "failed", "noEvidence", "published", "backoff"}
          /\ note[e].digest \in Digests \cup {0}
    /\ waiting \in Seq(OpenEvents) /\ place \in OpenEvents \cup {0}

\* The bytes an event was described from are described once, whatever was forgotten, and
\* the model is not asked about them again.
DescribedOnce == (\A e \in OpenEvents : IsInjective(updates[e])) /\ ~asked
\* An event waits or is served at most once at a time, and no more wait than may.
ServedOnce ==
    /\ IsInjective(waiting) /\ up.e \notin ToSet(waiting) /\ Len(waiting) <= WaitingMax
\* event_state: "published" has a description; the end of trying follows all tries.
StateIsTrue ==
    /\ \A e \in shownAs : updates[e] # <<>>
    /\ \A e \in OpenEvents : note[e].st = "failed" => note[e].tries > RetryMax
UpdatesHonest == DescribedOnce /\ ServedOnce /\ StateIsTrue
================================================================================
