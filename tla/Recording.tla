------------------------------- MODULE Recording -------------------------------
(***************************************************************************)
(* The recordings of a camera (recorder.py, recording.py). ffmpeg, a child *)
(* process, writes segments named by their start into the directory of the *)
(* day it was started on. One thread keeps house, then cuts clips: every   *)
(* minute it starts ffmpeg again when it died or the day changed, removes  *)
(* the segments that are too old and then the oldest above the capacity,   *)
(* and exports the clips of reviews that ended long enough ago, newest     *)
(* first, until one fails.                                                 *)
(*                                                                         *)
(* Times are small numbers, a segment is [start, dir, mtime] and counts 1. *)
(* ffmpeg is external: it rolls to the next segment in time, hangs or dies.*)
(***************************************************************************)
EXTENDS Integers, Sequences, FiniteSets, SequencesExt, FiniteSetsExt

CONSTANTS
    SegmentLength,  \* segment_seconds
    DayLength,      \* the directory of a time is its day
    Retention,      \* retention_days
    MinAge,         \* min_age_s
    Capacity,       \* cap_gb, in segments
    Reviews,        \* closed reviews: [start, end]
    Pre, Post,      \* pre_s, post_s
    ReviewLimit,    \* LIMIT of the reviews of a round
    MaxTime,        \* bound: time
    MaxRecFaults    \* bound: ffmpeg hangs or dies, calls that fail, files harmed

ASSUME RecordingAssumption ==
    /\ SegmentLength \in Nat \ {0} /\ DayLength \in Nat \ {0} /\ ReviewLimit \in Nat \ {0}
    /\ {Retention, MinAge, Capacity, Pre, Post, MaxTime, MaxRecFaults} \subseteq Nat
    /\ IsFiniteSet(Reviews)
    /\ \A r \in Reviews : r.start \in Nat /\ r.end \in Nat /\ r.start <= r.end

VARIABLES
    time,
    recorder,       \* SegmentRecorder: proc, day it was started on, start of the segment written
    segments,       \* the files
    minder,         \* the thread: pc, at, protected, queue, total, failed, todo
    clips,          \* of each review: its file, what it was cut from, its row
    spoilt,         \* history: reviews whose clip file was harmed from outside
    recFaults       \* bound: so far

recvars == <<time, recorder, segments, minder, clips, spoilt, recFaults>>

Day(t) == t \div DayLength
NoProcess == [proc |-> "none", day |-> -1, writing |-> -1]
Sleeping == [pc |-> "wait", at |-> 0, protected |-> -1, queue |-> <<>>, total |-> 0,
             failed |-> FALSE, todo |-> <<>>]
NoClip == [file |-> "none", cut |-> {}, row |-> "none"]
RecordingInit ==
    /\ time = 0 /\ recorder = NoProcess /\ segments = {} /\ minder = Sleeping
    /\ clips = [r \in Reviews |-> NoClip] /\ spoilt = {} /\ recFaults = 0

RecFault == recFaults < MaxRecFaults /\ recFaults' = recFaults + 1
WrittenTo(start, dir) == {s \in segments : s.start # start}
                       \cup {[start |-> start, dir |-> dir, mtime |-> time']}
\* ffmpeg writes on, or begins the next segment, in the directory it was given.
Passes ==
    /\ time < MaxTime /\ time' = time + 1
    /\ IF recorder.proc = "runs"
       THEN LET w == recorder.writing
                start == IF time' - w >= SegmentLength THEN time' ELSE w
                dir == IF start = w THEN (CHOOSE s \in segments : s.start = w).dir ELSE recorder.day
            IN  segments' = WrittenTo(start, dir) /\ recorder' = [recorder EXCEPT !.writing = start]
       ELSE UNCHANGED <<segments, recorder>>
    /\ UNCHANGED <<minder, clips, spoilt, recFaults>>
FfmpegFails(how) ==
    /\ recorder.proc \in {"runs", "hangs"} /\ how # recorder.proc /\ RecFault
    /\ recorder' = [recorder EXCEPT !.proc = how]
    /\ UNCHANGED <<time, segments, minder, clips, spoilt>>
-------------------------------------------------------------------------------
(* maintain, enforce *)

\* valid_day_segments: the directory must be the day of the name.
Fenced == {s \in segments : s.dir = Day(s.start)}
Current == IF Fenced = {} THEN -1 ELSE Max({s.start : s \in Fenced})
\* The sequences of their names, the oldest file first, in any order among those of one age.
ByAge ==
    LET n == Cardinality(Fenced)
        orders == {q \in [1..n -> Fenced] :
                     /\ \A s \in Fenced : \E i \in 1..n : q[i] = s
                     /\ \A i, j \in 1..n : i < j => q[i] # q[j] /\ q[i].mtime <= q[j].mtime}
    IN  {[i \in 1..n |-> q[i].start] : q \in orders}

RunsToday == recorder.proc \in {"runs", "hangs"} /\ recorder.day = Day(time)
\* Still alive on its day, or stopped if need be and started.
Maintain ==
    /\ minder.pc = "wait" /\ minder' = [Sleeping EXCEPT !.pc = "protect"]
    /\ IF RunsToday THEN UNCHANGED <<recorder, segments>>
       ELSE /\ recorder' = [proc |-> "runs", day |-> Day(time), writing |-> time]
            /\ segments' = {s \in segments : s.start # time}
                           \cup {[start |-> time, dir |-> Day(time), mtime |-> time]}
    /\ UNCHANGED <<time, clips, spoilt, recFaults>>
\* It was stopped and cannot be started: the round goes on with the clips.
RecorderFails ==
    /\ minder.pc = "wait" /\ ~RunsToday /\ RecFault /\ recorder' = NoProcess
    /\ minder' = [Sleeping EXCEPT !.pc = "reviews", !.failed = TRUE]
    /\ UNCHANGED <<time, segments, clips, spoilt>>
\* MUTANT of Protects: the age of the file is enough.
MutantProtects == -1
\* The newest by name, whether or not it is still written to.
Protects == Current
Protect ==
    /\ minder.pc = "protect"
    /\ \E names \in ByAge :
          minder' = [minder EXCEPT !.pc = "age", !.at = time, !.protected = Protects, !.queue = names]
    /\ UNCHANGED <<time, recorder, segments, clips, spoilt, recFaults>>

FileOf(start) == CHOOSE s \in segments : s.start = start
Skips(s) == s.start = minder.protected \/ minder.at - s.mtime < MinAge
AgeOver ==
    minder.queue # <<>> => FileOf(Head(minder.queue)).mtime >= minder.at - Retention
BeginCapacity ==
    /\ minder.pc = "age" /\ AgeOver
    /\ IF Cardinality(Fenced) > Capacity
       THEN \E names \in ByAge : minder' = [minder EXCEPT !.pc = "capacity", !.queue = names,
                                                          !.total = Cardinality(Fenced)]
       ELSE minder' = [minder EXCEPT !.pc = "reviews", !.queue = <<>>]
    /\ UNCHANGED <<time, recorder, segments, clips, spoilt, recFaults>>
CapacityOver == minder.queue = <<>> \/ minder.total <= Capacity
EndCapacity ==
    /\ minder.pc = "capacity" /\ CapacityOver
    /\ minder' = [minder EXCEPT !.pc = "reviews", !.queue = <<>>, !.total = 0]
    /\ UNCHANGED <<time, recorder, segments, clips, spoilt, recFaults>>
\* One segment: passed over, removed, or it cannot be removed.
CleanNext(fails) ==
    /\ \/ minder.pc = "age" /\ ~AgeOver
       \/ minder.pc = "capacity" /\ ~CapacityOver
    /\ LET s == FileOf(Head(minder.queue))
       IN  IF Skips(s) THEN ~fails /\ UNCHANGED <<segments, recFaults>>
                            /\ minder' = [minder EXCEPT !.queue = Tail(@)]
           ELSE /\ minder' = [minder EXCEPT !.queue = Tail(@), !.failed = @ \/ fails,
                                    !.total = IF fails \/ @ = 0 THEN @ ELSE @ - 1]
                /\ IF fails THEN RecFault /\ UNCHANGED segments
                   ELSE segments' = segments \ {s} /\ UNCHANGED recFaults
    /\ UNCHANGED <<time, recorder, clips, spoilt>>
-------------------------------------------------------------------------------
(* export_pending_clips *)

From(r) == r.start - Pre
Until(r) == r.end + Post
\* SELECT ... ORDER BY t_start DESC LIMIT n: in any order among those that begin together.
Ended == {r \in Reviews : r.end <= time}
NewestReviews ==
    LET n == IF Cardinality(Ended) < ReviewLimit THEN Cardinality(Ended) ELSE ReviewLimit
    IN  {q \in [1..n -> Ended] :
            /\ \A i, j \in 1..n : i < j => q[i] # q[j] /\ q[i].start >= q[j].start
            /\ \A r \in Ended \ ToSet(q), i \in 1..n : q[i].start >= r.start}
ListReviews ==
    /\ minder.pc = "reviews"
    /\ \E some \in NewestReviews : minder' = [Sleeping EXCEPT !.pc = "export", !.at = time, !.todo = some]
    /\ UNCHANGED <<time, recorder, segments, clips, spoilt, recFaults>>
\* MUTANT of Ready: the review has ended.
MutantReady(r) == minder.at >= r.end
Ready(r) == minder.at >= Until(r)
\* find_segments: by name and nominal length, in whatever directory.
Found(r) == {s \in segments : s.start <= Until(r) /\ s.start + SegmentLength >= From(r)}
Export ==
    /\ minder.pc = "export"
    /\ minder' = IF minder.todo = <<>> THEN Sleeping
                 ELSE LET r == Head(minder.todo)
                      IN  IF Ready(r) /\ clips[r].row = "none" /\ Found(r) # {}
                          THEN [minder EXCEPT !.pc = "cut"]
                          ELSE [minder EXCEPT !.todo = Tail(@)]
    /\ UNCHANGED <<time, recorder, segments, clips, spoilt, recFaults>>
Cut ==
    /\ minder.pc = "cut" /\ minder' = [minder EXCEPT !.pc = "register"]
    /\ LET r == Head(minder.todo)
       IN  clips' = [clips EXCEPT ![r] = [@ EXCEPT !.file = "good",
                                                   !.cut = {s.start : s \in Found(r)}]]
    /\ UNCHANGED <<time, recorder, segments, spoilt, recFaults>>
\* A row of the file as it is; one that is gone by now is registered as missing.
Register ==
    /\ minder.pc = "register" /\ minder' = [minder EXCEPT !.pc = "export", !.todo = Tail(@)]
    /\ LET r == Head(minder.todo)
       IN  clips' = [clips EXCEPT ![r].row = IF @ # "none" THEN @
                                             ELSE IF clips[r].file = "none" THEN "missing"
                                             ELSE "available"]
    /\ UNCHANGED <<time, recorder, segments, spoilt, recFaults>>
\* ffmpeg or the database fails: the file is removed, and the round is over.
ExportFails ==
    /\ minder.pc \in {"cut", "register"} /\ RecFault /\ minder' = Sleeping
    /\ clips' = [clips EXCEPT ![Head(minder.todo)] = NoClip]
    /\ UNCHANGED <<time, recorder, segments, spoilt>>
\* The process ends, and ffmpeg with it; what is on the disk stays.
RecorderCrash ==
    /\ RecFault /\ minder' = Sleeping /\ recorder' = NoProcess
    /\ UNCHANGED <<time, segments, clips, spoilt>>
-------------------------------------------------------------------------------
\* read_recording: the file is read against its row, and the row says what was found.
ReadClip(r) ==
    /\ clips[r].row # "none"
    /\ clips' = [clips EXCEPT ![r].row = CASE clips[r].file = "good" -> "available"
                                           [] clips[r].file = "none" -> "missing"
                                           [] OTHER -> "corrupt"]
    /\ UNCHANGED <<time, recorder, segments, minder, spoilt, recFaults>>
HarmClip(r, how) ==
    /\ clips[r].file = "good" /\ RecFault /\ clips' = [clips EXCEPT ![r].file = how]
    /\ spoilt' = spoilt \cup {r}
    /\ UNCHANGED <<time, recorder, segments, minder>>

RecordingNext ==
    \/ Passes \/ Maintain \/ RecorderFails \/ Protect \/ BeginCapacity \/ EndCapacity
    \/ ListReviews \/ Export \/ Cut \/ Register \/ ExportFails \/ RecorderCrash
    \/ \E how \in {"hangs", "dead"} : FfmpegFails(how)
    \/ \E fails \in BOOLEAN : CleanNext(fails)
    \/ \E r \in Reviews : ReadClip(r) \/ \E how \in {"none", "bad"} : HarmClip(r, how)
RecordingSpec == RecordingInit /\ [][RecordingNext]_recvars
-------------------------------------------------------------------------------
RecordingTypeOK ==
    /\ time \in 0..MaxTime /\ recorder.proc \in {"none", "runs", "hangs", "dead"}
    /\ \A s \in segments : s.start \in 0..MaxTime /\ s.mtime \in s.start..MaxTime
    /\ minder.pc \in {"wait", "protect", "age", "capacity", "reviews", "export", "cut", "register"}
    /\ \A r \in Reviews : clips[r].row \in {"none", "available", "missing", "corrupt"}

\* The segment ffmpeg has open stays on the disk, even when it hangs and its file is old.
OpenSegmentKept ==
    recorder.proc \in {"runs", "hangs"} => \E s \in segments : s.start = recorder.writing
\* After a round in which nothing failed, what is left beyond the age or the capacity
\* was protected or young.
CleanedUp ==
    minder.pc = "reviews" /\ ~minder.failed =>
        LET old == {s \in Fenced : s.start <= minder.at}
        IN  /\ \A s \in old : s.mtime < minder.at - Retention => Skips(s)
            /\ Cardinality(old) <= Capacity \/ \A s \in old : Skips(s)
\* A clip that has its row was cut from all that was recorded of its time and is still
\* there; its file is as it was cut, and its row says so.
ClipWhole ==
    \A r \in Reviews : clips[r].row # "none" =>
        /\ \A s \in segments : s.start < Until(r) /\ s.start + SegmentLength > From(r)
              => s.start \in clips[r].cut
        /\ clips[r].file = "good" \/ r \in spoilt
        /\ clips[r].row # "available" => r \in spoilt
RecordingsHonest == OpenSegmentKept /\ CleanedUp /\ ClipWhole
================================================================================
