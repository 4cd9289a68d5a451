------------------------------ MODULE ReviewTruth ------------------------------
(***************************************************************************)
(* The review of a camera and the alarms of its rules (monitor.py, db.py): *)
(* a review begins with the first activity and ends when there has been    *)
(* none for a while; an alarm is written as a semantic event of its review *)
(* and waits in memory while the review itself is not stored. The database *)
(* has one open review per camera, and no event of a review it lacks.      *)
(*                                                                         *)
(* One target, one zone, one rule. A frame is the sequence of the database *)
(* calls it makes, each with an outcome; the process may end between two.  *)
(* Stopping is ending: no call is made for a review or a semantic event.   *)
(***************************************************************************)
EXTENDS Naturals, FiniteSets, FiniteSetsExt

CONSTANTS
    MaxSegments,    \* bound: reviews
    MaxFired,       \* bound: alarms
    IdleCutoff,     \* REVIEW_IDLE_CUTOFF
    OpenRetry,      \* REVIEW_OPEN_RETRY_MS
    DwellNeed,      \* dwell_s of the rule
    ReviewGrace,    \* startup_grace_s
    MaxInstant,     \* bound: time
    MaxReviewFaults \* bound: calls that fail and processes that end

ASSUME ReviewAssumption ==
    /\ MaxSegments \in Nat /\ MaxFired \in Nat /\ IdleCutoff \in Nat \ {0}
    /\ OpenRetry \in Nat /\ DwellNeed \in Nat /\ ReviewGrace \in Nat
    /\ MaxInstant \in Nat /\ MaxReviewFaults \in Nat

VARIABLES
    instant,        \* time
    running,        \* the process is
    reviews,        \* review_segments
    alarmRows,      \* semantic_events
    underway,       \* Monitor._review; id 0 for None
    watched,        \* entered, 1 + the time it entered the zone; latched, its alarm
    deferred,       \* Monitor._deferred_alarms
    frame,          \* the calls of the current frame that are still to be made
    snapshot,       \* what the delayed review of the startup will look at
    issued,         \* reviews and alarms so far, and when this run began
    alarmOf,        \* of each alarm: its review and when it fired
    told,           \* history: what failed in this run without anyone trying again
    lastSeen,       \* history: the last activity of each review
    reviewFaults    \* bound: so far

reviewvars == <<instant, running, reviews, alarmRows, underway, watched, deferred, frame,
                snapshot, issued, alarmOf, told, lastSeen, reviewFaults>>
database == <<reviews, alarmRows>>

Segs == 1..MaxSegments
Fired == 1..MaxFired
NoTruth == [st |-> "none", tStart |-> 0, tLast |-> 0, tEnd |-> 0]
NoReview == [id |-> 0, tStart |-> 0, last |-> 0, persisted |-> FALSE, retryAt |-> 0]
NoFrame == [pc |-> "wait", active |-> FALSE, closing |-> 0, fired |-> 0, flushing |-> {}]
Outside == [entered |-> 0, latched |-> 0]
NothingTold == [unclosed |-> {}, missed |-> {}, dropped |-> {}, unfinished |-> FALSE,
                slipped |-> {}]
ReviewInit ==
    /\ instant = 0 /\ running = FALSE /\ underway = NoReview /\ watched = Outside
    /\ reviews = [r \in Segs |-> NoTruth] /\ alarmRows = [a \in Fired |-> NoTruth]
    /\ deferred = {} /\ frame = NoFrame /\ snapshot = {} /\ reviewFaults = 0
    /\ issued = [segs |-> 0, alarms |-> 0, segsBefore |-> 0, alarmsBefore |-> 0]
    /\ alarmOf = [a \in Fired |-> [review |-> 0, at |-> 0]]
    /\ told = NothingTold /\ lastSeen = [r \in Segs |-> 0]

\* A call commits, or fails with nothing stored, or fails and is stored by a later commit.
Outcomes == {"done", "failed", "torn"}
Costs(out) == IF out = "done" THEN UNCHANGED reviewFaults
              ELSE reviewFaults < MaxReviewFaults /\ reviewFaults' = reviewFaults + 1
Stores(out) == out # "failed"
LaterOf(a, b) == IF a >= b THEN a ELSE b
-------------------------------------------------------------------------------
\* The rows that are open and were last written before the grace are closed as they
\* are; the others are remembered with their t_last. Each of the two reads the clock: a
\* row whose grace runs out in between is neither closed nor remembered.
Recovered(row) == [row EXCEPT !.st = "recovered", !.tEnd = row.tLast]
LapsedAt(row, time) == row.st = "open" /\ row.tLast + ReviewGrace <= time
Lapsed(row) == LapsedAt(row, instant)
Recent(table, kind, time) ==
    {<<kind, i, table[i].tLast>> :
       i \in {j \in DOMAIN table : table[j].st = "open" /\ ~LapsedAt(table[j], time)}}
Slips(table, kind, from, to) ==
    {<<kind, i>> : i \in {j \in DOMAIN table : table[j].st = "open"
                            /\ from < table[j].tLast + ReviewGrace
                            /\ table[j].tLast + ReviewGrace <= to}}
StartReviews ==
    /\ ~running /\ running' = TRUE
    /\ instant' \in instant..MaxInstant
    /\ reviews' = [r \in Segs |-> IF Lapsed(reviews[r]) THEN Recovered(reviews[r])
                                  ELSE reviews[r]]
    /\ alarmRows' = [a \in Fired |-> IF Lapsed(alarmRows[a]) THEN Recovered(alarmRows[a])
                                    ELSE alarmRows[a]]
    /\ snapshot' = Recent(reviews, "review", instant') \cup Recent(alarmRows, "alarm", instant')
    /\ told' = [told EXCEPT !.slipped = Slips(reviews, "review", instant, instant')
                                        \cup Slips(alarmRows, "alarm", instant, instant')]
    /\ UNCHANGED <<underway, watched, deferred, frame, issued, alarmOf, lastSeen,
                   reviewFaults>>

\* Once, when the grace of all that is remembered is over.
Untouched(row, kind, i) == row.st = "open" /\ <<kind, i, row.tLast>> \in snapshot
FinalizeReviews(out) ==
    /\ running /\ snapshot # {} /\ snapshot' = {} /\ Costs(out)
    /\ \A s \in snapshot : s[3] + ReviewGrace <= instant
    /\ reviews' = [r \in Segs |-> IF Stores(out) /\ Untouched(reviews[r], "review", r)
                                  THEN Recovered(reviews[r]) ELSE reviews[r]]
    /\ alarmRows' = [a \in Fired |-> IF Stores(out) /\ Untouched(alarmRows[a], "alarm", a)
                                    THEN Recovered(alarmRows[a]) ELSE alarmRows[a]]
    /\ told' = [told EXCEPT !.unfinished = ~Stores(out)]
    /\ UNCHANGED <<instant, running, underway, watched, deferred, frame, issued, alarmOf,
                   lastSeen>>

ReviewProcessEnds ==
    /\ running /\ running' = FALSE /\ Costs("failed")
    /\ underway' = NoReview /\ watched' = Outside /\ deferred' = {} /\ frame' = NoFrame
    /\ snapshot' = {}
    /\ issued' = [issued EXCEPT !.segsBefore = issued.segs, !.alarmsBefore = issued.alarms]
    /\ told' = NothingTold
    /\ UNCHANGED <<instant, database, alarmOf, lastSeen>>
Elapse ==
    /\ frame.pc = "wait" /\ instant < MaxInstant /\ instant' = instant + 1
    /\ UNCHANGED <<running, database, underway, watched, deferred, frame, snapshot, issued,
                   alarmOf, told, lastSeen, reviewFaults>>
-------------------------------------------------------------------------------
\* What is left of a frame once the events it closes are closed; once its review is
\* open, or is not; once that is up to date.
OnceUpdated(f) == [f EXCEPT !.pc = IF f.fired # 0 THEN "write" ELSE "wait"]
OnceOpened(f, review) == IF review.persisted THEN [f EXCEPT !.pc = "update"] ELSE OnceUpdated(f)
MayOpen(review) == ~review.persisted /\ instant >= review.retryAt
IdledOut(review) == review.id # 0 /\ instant - review.last >= IdleCutoff
OnceReleased(f, review) ==
    IF f.active THEN IF MayOpen(review) THEN [f EXCEPT !.pc = "open"] ELSE OnceOpened(f, review)
    ELSE [f EXCEPT !.pc = IF IdledOut(review) THEN "close" ELSE "wait"]

\* A frame: it may be the first with new zones; the target is seen in the zone or beside
\* it, or is not, and then may be gone. Leaving the zone, being gone and new zones undo
\* the dwell and the latch; the rule fires once per stay.
SeeFrame(rezoned, where) ==
    LET undone == rezoned \/ where \in {"beside", "gone"}
        entered == IF where = "zone" THEN IF rezoned \/ watched.entered = 0 THEN instant + 1
                                          ELSE watched.entered
                   ELSE IF undone THEN 0 ELSE watched.entered
        latched == IF undone THEN 0 ELSE watched.latched
        fires == where = "zone" /\ latched = 0 /\ instant + 1 - entered >= DwellNeed
        active == where \in {"zone", "beside"}
        begins == active /\ underway.id = 0
        review == IF ~active THEN underway
                  ELSE IF begins THEN [id |-> issued.segs + 1, tStart |-> instant, last |-> instant,
                                       persisted |-> FALSE, retryAt |-> instant]
                  ELSE [underway EXCEPT !.last = instant]
        alarm == IF fires THEN issued.alarms + 1 ELSE 0
        f == [NoFrame EXCEPT !.active = active, !.fired = alarm,
                             !.closing = IF undone THEN watched.latched ELSE 0]
    IN  /\ running /\ frame.pc = "wait"
        /\ begins => issued.segs < MaxSegments
        /\ fires => issued.alarms < MaxFired
        /\ watched' = [entered |-> entered, latched |-> IF fires THEN alarm ELSE latched]
        /\ underway' = review
        /\ issued' = [issued EXCEPT !.segs = IF begins THEN @ + 1 ELSE @,
                                    !.alarms = IF fires THEN @ + 1 ELSE @]
        /\ alarmOf' = IF fires THEN [alarmOf EXCEPT ![alarm] = [review |-> review.id, at |-> instant]]
                      ELSE alarmOf
        /\ lastSeen' = IF active THEN [lastSeen EXCEPT ![review.id] = instant] ELSE lastSeen
        /\ frame' = IF f.closing # 0 THEN [f EXCEPT !.pc = "release"] ELSE OnceReleased(f, review)
        /\ UNCHANGED <<instant, running, database, deferred, snapshot, told,
                       reviewFaults>>

\* close_semantic_events: what it returns is not looked at, and no row is no error.
ReleaseAlarm(out) ==
    LET a == frame.closing
        ends == Stores(out) /\ alarmRows[a].st = "open"
    IN  /\ frame.pc = "release" /\ Costs(out)
        /\ alarmRows' = IF ends THEN [alarmRows EXCEPT ![a] = [alarmRows[a] EXCEPT !.st = "closed",
                                                                  !.tLast = instant, !.tEnd = instant]]
                        ELSE alarmRows
        /\ told' = IF ends THEN told ELSE [told EXCEPT !.missed = @ \cup {a}]
        /\ frame' = OnceReleased([frame EXCEPT !.closing = 0], underway)
        /\ UNCHANGED <<instant, running, reviews, underway, watched, deferred, snapshot,
                       issued, alarmOf, lastSeen>>

\* One open review of the camera: the insert fails while there is another.
Occupied == \E r \in Segs : r # underway.id /\ reviews[r].st = "open"
OpenSegment(out) ==
    LET opened == [underway EXCEPT !.retryAt = instant + OpenRetry, !.persisted = (out = "done")]
        \* without alarms that wait there is nothing to flush
        flush == out = "done" /\ deferred # {}
    IN  /\ frame.pc = "open"
        /\ IF Occupied THEN out = "failed" /\ UNCHANGED reviewFaults ELSE Costs(out)
        /\ reviews' = IF Stores(out) /\ reviews[underway.id].st = "none"
                       THEN [reviews EXCEPT ![underway.id] = [st |-> "open", tStart |-> underway.tStart,
                                                            tLast |-> underway.tStart, tEnd |-> 0]]
                       ELSE reviews
        /\ underway' = opened
        /\ deferred' = IF flush THEN {} ELSE deferred
        /\ frame' = IF flush THEN [frame EXCEPT !.pc = "flush", !.flushing = deferred]
                    ELSE OnceOpened(frame, opened)
        /\ UNCHANGED <<instant, running, alarmRows, watched, snapshot, issued, alarmOf, told,
                       lastSeen>>

\* A semantic event needs its review; that it is there already is no error.
HasReview(a) == reviews[alarmOf[a].review].st # "none"
WriteRow(a, out) ==
    /\ IF HasReview(a) THEN Costs(out) ELSE out = "failed" /\ UNCHANGED reviewFaults
    /\ alarmRows' = IF Stores(out) /\ alarmRows[a].st = "none"
                    THEN [alarmRows EXCEPT ![a] = [st |-> "open", tStart |-> alarmOf[a].at,
                                                    tLast |-> alarmOf[a].at, tEnd |-> 0]]
                    ELSE alarmRows

FlushAlarm(out) ==
    LET a == Min(frame.flushing)
        rest == frame.flushing \ {a}
    IN  /\ frame.pc = "flush" /\ WriteRow(a, out)
        /\ deferred' = IF out = "done" THEN deferred ELSE deferred \cup {a}
        /\ frame' = IF rest = {} THEN OnceOpened([frame EXCEPT !.flushing = {}], underway)
                    ELSE [frame EXCEPT !.flushing = rest]
        /\ UNCHANGED <<instant, running, reviews, underway, watched, snapshot, issued,
                       alarmOf, told, lastSeen>>

UpdateSegment(out) ==
    /\ frame.pc = "update" /\ Costs(out)
    /\ reviews' = IF Stores(out) /\ reviews[underway.id].st = "open"
                   THEN [reviews EXCEPT ![underway.id] = [reviews[underway.id] EXCEPT
                                                         !.tLast = LaterOf(@, instant)]]
                   ELSE reviews
    /\ frame' = OnceUpdated(frame)
    /\ UNCHANGED <<instant, running, alarmRows, underway, watched, deferred, snapshot,
                   issued, alarmOf, told, lastSeen>>

\* What fails waits for the review, when that is not stored; else it is not tried again.
WriteAlarm(out) ==
    LET a == frame.fired
    IN  /\ frame.pc = "write" /\ WriteRow(a, out) /\ frame' = NoFrame
        /\ deferred' = IF out # "done" /\ ~underway.persisted THEN deferred \cup {a} ELSE deferred
        /\ told' = IF out # "done" /\ underway.persisted
                   THEN [told EXCEPT !.dropped = @ \cup {a}] ELSE told
        /\ UNCHANGED <<instant, running, reviews, underway, watched, snapshot, issued, alarmOf,
                       lastSeen>>

\* close_review: what it returns is not looked at; the memory lets go of the review.
CloseSegment(out) ==
    LET r == underway.id
        ends == Stores(out) /\ reviews[r].st = "open"
        end == LaterOf(reviews[r].tLast, underway.last)
    IN  /\ frame.pc = "close" /\ Costs(out) /\ underway' = NoReview /\ frame' = NoFrame
        /\ reviews' = IF ends THEN [reviews EXCEPT ![r] = [reviews[r] EXCEPT !.st = "closed",
                                                                !.tLast = end, !.tEnd = end]]
                       ELSE reviews
        /\ told' = IF ends THEN told ELSE [told EXCEPT !.unclosed = @ \cup {r}]
        /\ UNCHANGED <<instant, running, alarmRows, watched, deferred, snapshot, issued,
                       alarmOf, lastSeen>>

ReviewNext ==
    \/ StartReviews \/ ReviewProcessEnds \/ Elapse
    \/ \E rezoned \in BOOLEAN, where \in {"zone", "beside", "unseen", "gone"} :
         SeeFrame(rezoned, where)
    \/ \E out \in Outcomes :
         \/ FinalizeReviews(out) \/ ReleaseAlarm(out) \/ OpenSegment(out) \/ FlushAlarm(out)
         \/ UpdateSegment(out) \/ WriteAlarm(out) \/ CloseSegment(out)
ReviewSpec == ReviewInit /\ [][ReviewNext]_reviewvars
-------------------------------------------------------------------------------
TruthRows == [st : {"none", "open", "closed", "recovered"}, tStart : 0..MaxInstant,
         tLast : 0..MaxInstant, tEnd : 0..MaxInstant]
ReviewTypeOK ==
    /\ instant \in 0..MaxInstant /\ running \in BOOLEAN
    /\ reviews \in [Segs -> TruthRows] /\ alarmRows \in [Fired -> TruthRows]
    /\ underway.id \in 0..MaxSegments /\ watched.latched \in 0..MaxFired
    /\ deferred \subseteq Fired /\ frame.flushing \subseteq Fired
    /\ frame.pc \in {"wait", "release", "open", "flush", "update", "write", "close"}

OpenSegs == {r \in Segs : reviews[r].st = "open"}
OpenAlarms == {a \in Fired : alarmRows[a].st = "open"}

\* What an earlier run left open the startup is still to look at; or it slipped through
\* the start, or its looking failed, and then its grace is over: the next start closes it.
LeftBehind(kind, i, row) ==
    \/ <<kind, i, row.tLast>> \in snapshot
    \/ LapsedAt(row, instant) /\ (told.unfinished \/ <<kind, i>> \in told.slipped)

\* A review that counts as stored is open. Of this run, only the current one is, or one
\* whose closing failed; of an earlier run, only what it left behind as above.
OpenReviewsKnown ==
    /\ underway.persisted => underway.id \in OpenSegs
    /\ running => \A r \in OpenSegs :
         IF r > issued.segsBefore THEN r = underway.id \/ r \in told.unclosed
         ELSE LeftBehind("review", r, reviews[r])
\* A review ends with its last activity, or, recovered, not after it; and no two of a
\* camera overlap.
ReviewsInTime ==
    /\ \A r \in Segs :
         /\ reviews[r].st = "closed" => reviews[r].tEnd = lastSeen[r]
         /\ reviews[r].st = "recovered" =>
              reviews[r].tStart <= reviews[r].tEnd /\ reviews[r].tEnd <= lastSeen[r]
    /\ \A r, s \in Segs : r < s /\ reviews[r].st # "none" /\ reviews[s].st # "none" =>
         reviews[r].st # "open" /\ reviews[r].tEnd <= reviews[s].tStart
\* An alarm of this run is stored, on its way, waiting for its review, or was dropped when
\* its own write failed; stored and open it is the latched one, or its closing had no effect.
\* No recovery ends it, and a latch is of a stay that goes on: or the rule would be silent.
AlarmsKept ==
    LET mine == {a \in Fired : issued.alarmsBefore < a /\ a <= issued.alarms}
        due == IF frame.fired = 0 THEN {} ELSE {frame.fired}
    IN  /\ watched.latched # 0 => watched.entered # 0
        /\ \A a \in mine : alarmRows[a].st \in {"open", "closed"}
                           \/ a \in deferred \cup frame.flushing \cup due \cup told.dropped
        /\ running => \A a \in OpenAlarms :
             IF a \in mine THEN a \in {watched.latched, frame.closing} \cup told.missed
             ELSE LeftBehind("alarm", a, alarmRows[a])
ReviewsHonest == OpenReviewsKnown /\ ReviewsInTime /\ AlarmsKept
================================================================================
