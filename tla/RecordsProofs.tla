----------------------------- MODULE RecordsProofs -----------------------------
(***************************************************************************)
(* What is kept of a camera stays what it was said to be, for any number   *)
(* of reviews, alarms, frames, versions, records and segments, of faults   *)
(* and of crashes: the invariant of each part, the proof that every step   *)
(* keeps it, and the parts together.                                       *)
(***************************************************************************)
EXTENDS Records, TLAPS, FiniteSetTheorems, SequenceTheorems, WellFoundedInduction
-------------------------------------------------------------------------------
(* ReviewTruth: whatever fails or ends where, a stored review lies within  *)
(* the activity it stands for, no two of a camera overlap, and what is     *)
(* open, on its way or waiting is known to somebody.                       *)

Times == [st : {"none", "open", "closed", "recovered"}, tStart : Nat, tLast : Nat, tEnd : Nat]

Underways == [id : 0..MaxSegments, tStart : Nat, last : Nat, persisted : BOOLEAN,
              retryAt : Nat]

\* What the argument is about is of its type; of other records only the fields matter.
CountersOK ==
    /\ issued = [segs |-> issued.segs, alarms |-> issued.alarms,
                 segsBefore |-> issued.segsBefore, alarmsBefore |-> issued.alarmsBefore]
    /\ issued.segs \in 0..MaxSegments
FrameOK ==
    frame = [pc |-> frame.pc, active |-> frame.active, closing |-> frame.closing,
             fired |-> frame.fired, flushing |-> frame.flushing]
TimesOK ==
    /\ instant \in Nat /\ reviews \in [Segs -> Times] /\ lastSeen \in [Segs -> Nat]
    /\ underway \in Underways /\ CountersOK /\ FrameOK

\* The review under way is the latest one; it is not closed, and what came before it was
\* last seen before it began.
LastOf(r) ==
    /\ r = issued.segs
    /\ underway.tStart <= underway.last /\ underway.last <= instant
    /\ lastSeen[r] = underway.last
    /\ reviews[r].st # "closed"
    /\ reviews[r].st # "none" => reviews[r].tStart = underway.tStart
    /\ \A e \in Segs : e < r => lastSeen[e] <= underway.tStart

\* A stored row lies within the activity it stands for, however far it is.
Within(row, seen) ==
    /\ row.tStart <= row.tLast /\ row.tLast <= seen
    /\ row.st = "closed" => row.tEnd = seen
    /\ row.st = "recovered" => row.tStart <= row.tEnd /\ row.tEnd <= seen
Aside(r, s) == reviews[r].st # "open" /\ reviews[r].tEnd <= reviews[s].tStart

\* Time stands still during a frame: the last activity of an active one is now.
FrameIsNow ==
    /\ frame.active = TRUE /\ frame.pc # "wait" => underway.last = instant
    /\ frame.pc \in {"open", "flush", "update"} => frame.active = TRUE
    /\ ~running => frame.pc = "wait"

ReviewInv ==
    /\ TimesOK /\ FrameIsNow
    /\ underway.id # 0 => LastOf(underway.id)
    /\ \A r \in Segs :
         /\ lastSeen[r] <= instant
         /\ r > issued.segs => reviews[r].st = "none"
         /\ reviews[r].st # "none" => Within(reviews[r], lastSeen[r])
    /\ \A r, s \in Segs : r < s /\ reviews[r].st # "none" /\ reviews[s].st # "none" => Aside(r, s)

\* It says more than the property.
LEMMA InvInTime == ASSUME ReviewInv PROVE ReviewsInTime
  BY DEF ReviewInv, ReviewsInTime, Within, Aside

\* Before the first start there is no review.
LEMMA InvStarts == ASSUME ReviewInit PROVE ReviewInv
<1>1. Segs \subseteq Nat /\ MaxSegments \in Nat
  BY ReviewAssumption DEF Segs
<1>2. TimesOK
  BY <1>1 DEF ReviewInit, TimesOK, CountersOK, FrameOK, Underways, Times, NoTruth, NoReview, NoFrame
<1> QED
  BY <1>1, <1>2 DEF ReviewInit, ReviewInv, FrameIsNow, NoTruth, NoReview, NoFrame


-------------------------------------------------------------------------------
\* A call that writes no review keeps everything when it leaves the frame as it should be.
LEMMA OtherCalls ==
  ASSUME ReviewInv, NEW out \in Outcomes,
         ReleaseAlarm(out) \/ FlushAlarm(out) \/ WriteAlarm(out)
  PROVE  ReviewInv'
<1>1. UNCHANGED <<instant, reviews, underway, issued, lastSeen>>
  BY DEF ReleaseAlarm, FlushAlarm, WriteAlarm
<1>2. /\ FrameOK'
      /\ FrameIsNow'
  <2>1. CASE ReleaseAlarm(out)
    BY <1>1, <2>1 DEF ReviewInv, TimesOK, FrameOK, FrameIsNow, ReleaseAlarm, OnceReleased, OnceOpened,
                      OnceUpdated
  <2>2. CASE FlushAlarm(out)
    BY <1>1, <2>2 DEF ReviewInv, TimesOK, FrameOK, FrameIsNow, FlushAlarm, OnceOpened, OnceUpdated
  <2>3. CASE WriteAlarm(out)
    BY <1>1, <2>3 DEF ReviewInv, TimesOK, FrameOK, FrameIsNow, WriteAlarm, NoFrame
  <2> QED BY <2>1, <2>2, <2>3
<1> QED
  BY <1>1, <1>2 DEF ReviewInv, TimesOK, CountersOK, LastOf, Aside, Within

\* Recovery ends open rows where they were last written; the rest of a row stays.
LEMMA RecoveredRow ==
  ASSUME NEW row \in Times, NEW seen \in Nat, row.st = "open", Within(row, seen)
  PROVE  /\ Recovered(row) \in Times /\ Within(Recovered(row), seen)
         /\ Recovered(row).st = "recovered" /\ Recovered(row).tStart = row.tStart
         /\ Recovered(row).tEnd <= seen
  BY DEF Recovered, Times, Within

\* Whichever open rows it picks, the reviews stay as they should be.
LEMMA Recovering ==
  ASSUME ReviewInv, UNCHANGED <<underway, issued, lastSeen, frame>>,
         instant' \in Nat, instant <= instant', frame.pc # "wait" => instant' = instant, running',
         \A r \in Segs : \/ reviews'[r] = reviews[r]
                         \/ reviews[r].st = "open" /\ reviews'[r] = Recovered(reviews[r]),
         reviews' \in [Segs -> Times]
  PROVE  ReviewInv'
<1>1. TimesOK' /\ FrameIsNow'
  BY DEF ReviewInv, TimesOK, CountersOK, FrameOK, FrameIsNow
<1>0. /\ \A r \in Segs : lastSeen[r] <= instant'
      /\ underway.id # 0 => underway.last <= instant'
  <2>1. instant \in Nat /\ (\A r \in Segs : lastSeen[r] \in Nat)
        /\ (underway.id # 0 => underway.last \in Nat)
    BY DEF ReviewInv, TimesOK, Underways
  <2> QED BY <2>1 DEF ReviewInv, LastOf
<1>2. ASSUME NEW r \in Segs
      PROVE  /\ reviews'[r].tStart = reviews[r].tStart
             /\ reviews'[r].st # "none" <=> reviews[r].st # "none"
             /\ reviews'[r].st \in {"open", "closed"} => reviews'[r] = reviews[r]
             /\ reviews[r].st # "open" => reviews'[r] = reviews[r]
             /\ reviews'[r].st # "none" => Within(reviews'[r], lastSeen[r])
  <2>1. reviews[r] \in Times /\ lastSeen[r] \in Nat
    BY DEF ReviewInv, TimesOK
  <2>2. CASE reviews'[r] = reviews[r]
    BY <2>1, <2>2 DEF ReviewInv, Times
  <2>3. CASE reviews[r].st = "open" /\ reviews'[r] = Recovered(reviews[r])
    BY <2>1, <2>3, RecoveredRow DEF ReviewInv, Times
  <2> QED BY <2>2, <2>3
<1>3. underway.id # 0 => LastOf(underway.id)'
  <2>1. underway.id # 0 => underway.id \in Segs
    BY DEF ReviewInv, TimesOK, Underways, Segs
  <2> QED
    BY <1>0, <1>2, <2>1 DEF ReviewInv, LastOf
<1> QED
  BY <1>0, <1>1, <1>2, <1>3 DEF ReviewInv, Aside

\* At the start and after the grace.
LEMMA RecoveryKeeps ==
  ASSUME ReviewInv, StartReviews \/ \E out \in Outcomes : FinalizeReviews(out)
  PROVE  ReviewInv'
<1>1. /\ UNCHANGED <<underway, issued, lastSeen, frame>> /\ running'
      /\ instant' \in Nat /\ instant <= instant' /\ (frame.pc # "wait" => instant' = instant)
  BY ReviewAssumption DEF StartReviews, FinalizeReviews, ReviewInv, TimesOK, FrameIsNow
<1>2. \A r \in Segs : \/ reviews'[r] = reviews[r]
                      \/ reviews[r].st = "open" /\ reviews'[r] = Recovered(reviews[r])
  BY DEF StartReviews, FinalizeReviews, Lapsed, LapsedAt, Untouched
<1>3. reviews' \in [Segs -> Times]
  <2>1. ASSUME NEW r \in Segs PROVE reviews'[r] \in Times
    <3>1. reviews[r] \in Times /\ lastSeen[r] \in Nat
      BY DEF ReviewInv, TimesOK
    <3>2. reviews[r].st = "open" => Within(reviews[r], lastSeen[r])
      BY DEF ReviewInv
    <3> QED BY <1>2, <3>1, <3>2, RecoveredRow
  <2>2. \E t : reviews' = [r \in Segs |-> t[r]]
    BY DEF StartReviews, FinalizeReviews
  <2> QED BY <2>1, <2>2
<1> QED
  BY <1>1, <1>2, <1>3, Recovering

\* The end of the process forgets the review under way; time passes between frames.
LEMMA EndsAndTicks ==
  ASSUME ReviewInv, ReviewProcessEnds \/ Elapse
  PROVE  ReviewInv'
<1>1. CASE ReviewProcessEnds
  <2>1. UNCHANGED <<instant, reviews, lastSeen>> /\ issued'.segs = issued.segs /\ underway' = NoReview
    BY <1>1 DEF ReviewProcessEnds, database, ReviewInv, TimesOK, CountersOK
  <2>2. TimesOK'
    <3>1. NoReview \in Underways
      BY ReviewAssumption DEF NoReview, Underways
    <3>2. CountersOK'
      BY <1>1 DEF ReviewProcessEnds, ReviewInv, TimesOK, CountersOK
    <3>3. FrameOK'
      BY <1>1 DEF ReviewProcessEnds, FrameOK, NoFrame
    <3> QED BY <2>1, <3>1, <3>2, <3>3 DEF ReviewInv, TimesOK
  <2>3. FrameIsNow'
    BY <1>1 DEF ReviewProcessEnds, FrameIsNow, NoFrame
  <2> QED
    BY <2>1, <2>2, <2>3 DEF ReviewInv, NoReview, Within, Aside
<1>2. CASE Elapse
  <2>1. UNCHANGED <<reviews, lastSeen, underway, frame, issued>> /\ instant' = instant + 1
        /\ frame.pc = "wait"
    BY <1>2 DEF Elapse, database
  <2>2. TimesOK' /\ FrameIsNow'
    BY <2>1 DEF ReviewInv, TimesOK, CountersOK, FrameOK, FrameIsNow
  <2>3. underway.id # 0 => LastOf(underway.id)'
    BY <2>1 DEF ReviewInv, LastOf, TimesOK, Underways
  <2>4. \A r \in Segs : lastSeen[r] <= instant'
    BY <2>1 DEF ReviewInv, TimesOK
  <2> QED
    BY <2>1, <2>2, <2>3, <2>4 DEF ReviewInv, Within, Aside
<1> QED BY <1>1, <1>2

\* A frame: the review under way goes on, or begins after everything before it.
LEMMA FrameKeeps ==
  ASSUME ReviewInv, NEW rezoned \in BOOLEAN, NEW where \in {"zone", "beside", "unseen", "gone"},
         SeeFrame(rezoned, where)
  PROVE  ReviewInv'
<1> DEFINE active == where \in {"zone", "beside"}
           begins == active /\ underway.id = 0
           next == [id |-> issued.segs + 1, tStart |-> instant, last |-> instant,
                    persisted |-> FALSE, retryAt |-> instant]
<1>1. /\ UNCHANGED <<instant, reviews>>
      /\ begins => /\ issued.segs < MaxSegments /\ underway' = next
                   /\ issued'.segs = issued.segs + 1
      /\ ~begins => issued'.segs = issued.segs
      /\ active /\ ~begins => underway' = [underway EXCEPT !.last = instant]
      /\ ~active => underway' = underway
      /\ lastSeen' = IF active THEN [lastSeen EXCEPT ![underway'.id] = instant] ELSE lastSeen
  BY DEF SeeFrame, database, ReviewInv, TimesOK, CountersOK
<1>2. /\ FrameOK'
      /\ frame'.active = active
      /\ frame'.pc \in {"open", "flush", "update"} => active
  BY DEF SeeFrame, FrameOK, NoFrame, OnceReleased, OnceOpened, OnceUpdated
<1>3. TimesOK'
  <2>1. CountersOK'
    <3>1. issued' = [segs |-> issued'.segs, alarms |-> issued'.alarms,
                     segsBefore |-> issued'.segsBefore, alarmsBefore |-> issued'.alarmsBefore]
      BY DEF SeeFrame, ReviewInv, TimesOK, CountersOK
    <3> QED BY <1>1, <3>1, ReviewAssumption DEF ReviewInv, TimesOK, CountersOK
  <2>2. underway' \in Underways
    <3>1. begins => next \in Underways
      BY <1>1, ReviewAssumption DEF ReviewInv, TimesOK, CountersOK, Underways
    <3>2. [underway EXCEPT !.last = instant] \in Underways
      BY DEF ReviewInv, TimesOK, Underways
    <3> QED BY <1>1, <3>1, <3>2 DEF ReviewInv, TimesOK
  <2>3. lastSeen' \in [Segs -> Nat]
    BY <1>1 DEF ReviewInv, TimesOK
  <2> QED BY <1>1, <1>2, <2>1, <2>2, <2>3 DEF ReviewInv, TimesOK
<1>4. FrameIsNow'
  <2>1. active => underway'.last = instant
    BY <1>1 DEF ReviewInv, TimesOK, Underways
  <2>2. running'
    BY DEF SeeFrame
  <2> QED BY <1>1, <1>2, <2>1, <2>2 DEF FrameIsNow
<1>5. ASSUME NEW r \in Segs
      PROVE  /\ lastSeen[r] <= lastSeen'[r] /\ lastSeen'[r] <= instant'
             /\ r # underway'.id => lastSeen'[r] = lastSeen[r]
             /\ reviews'[r].st = "closed" => lastSeen'[r] = lastSeen[r]
  BY <1>1 DEF ReviewInv, TimesOK, CountersOK, Underways, LastOf, Segs
<1>6. ASSUME underway'.id # 0
      PROVE  LastOf(underway.id)'
  <2>1. CASE begins
    <3>1. issued.segs + 1 \in Segs /\ underway' = next
      BY <1>1, <2>1, ReviewAssumption DEF ReviewInv, TimesOK, CountersOK, Segs
    <3> QED
      BY <1>1, <1>5, <2>1, <3>1 DEF ReviewInv, TimesOK, CountersOK, LastOf, Segs
  <2>2. CASE ~begins
    <3>1. /\ underway'.id = underway.id /\ underway'.tStart = underway.tStart
          /\ underway'.last = IF active THEN instant ELSE underway.last
      BY <1>1, <2>2 DEF ReviewInv, TimesOK, Underways
    <3>2. underway.id \in Segs /\ underway.tStart \in Nat /\ underway.last \in Nat
      BY <1>6, <3>1 DEF ReviewInv, TimesOK, Underways, Segs
    <3>3. LastOf(underway.id)
      BY <1>6, <3>1 DEF ReviewInv
    <3>4. lastSeen'[underway.id] = underway'.last
      BY <1>1, <3>1, <3>2, <3>3 DEF LastOf, ReviewInv, TimesOK
    <3>5. underway.tStart <= underway'.last /\ underway'.last <= instant
      BY <3>1, <3>2, <3>3 DEF LastOf, ReviewInv, TimesOK
    <3>6. \A e \in Segs : e < underway.id => lastSeen'[e] = lastSeen[e]
      BY <1>5, <3>1, <3>2 DEF Segs
    <3> QED
      BY <1>1, <2>2, <3>1, <3>3, <3>4, <3>5, <3>6 DEF LastOf
  <2> QED BY <2>1, <2>2
<1>7. ASSUME NEW r \in Segs
      PROVE  /\ r > issued'.segs => reviews'[r].st = "none"
             /\ reviews'[r].st # "none" => Within(reviews'[r], lastSeen'[r])
  <2>1. reviews[r] \in Times /\ lastSeen[r] \in Nat /\ lastSeen'[r] \in Nat
    BY <1>3 DEF ReviewInv, TimesOK
  <2>2. reviews[r].st # "none" => Within(reviews[r], lastSeen[r])
    BY DEF ReviewInv
  <2>3. r > issued'.segs => r > issued.segs
    BY <1>1, <1>3 DEF ReviewInv, TimesOK, CountersOK, Segs
  <2> QED
    BY <1>1, <1>5, <2>1, <2>2, <2>3 DEF ReviewInv, Within, Times
<1> QED
  BY <1>1, <1>3, <1>4, <1>5, <1>6, <1>7 DEF ReviewInv, Aside

\* A review is stored only beside reviews that have ended, and before the last activity.
LEMMA OpeningKeeps ==
  ASSUME ReviewInv, NEW out \in Outcomes, OpenSegment(out)
  PROVE  ReviewInv'
<1> DEFINE id == underway.id
           row == [st |-> "open", tStart |-> underway.tStart, tLast |-> underway.tStart, tEnd |-> 0]
           stores == Stores(out) /\ reviews[id].st = "none"
<1>1. /\ UNCHANGED <<instant, issued, lastSeen>>
      /\ underway' = [underway EXCEPT !.retryAt = instant + OpenRetry, !.persisted = (out = "done")]
      /\ reviews' = IF stores THEN [reviews EXCEPT ![id] = row] ELSE reviews
      /\ stores => \A r \in Segs : r # id => reviews[r].st # "open"
  BY DEF OpenSegment, Occupied, Stores
<1>2. /\ FrameOK'
      /\ FrameIsNow'
  BY <1>1 DEF OpenSegment, ReviewInv, TimesOK, Underways, FrameOK, FrameIsNow, OnceOpened, OnceUpdated
<1>3. TimesOK'
  <2>1. row \in Times
    BY DEF Times, ReviewInv, TimesOK, Underways
  <2>2. reviews' \in [Segs -> Times]
    BY <1>1, <2>1 DEF ReviewInv, TimesOK
  <2>3. underway' \in Underways
    <3>1. instant + OpenRetry \in Nat /\ (out = "done") \in BOOLEAN
      BY ReviewAssumption DEF ReviewInv, TimesOK
    <3> QED BY <1>1, <3>1 DEF ReviewInv, TimesOK, Underways
  <2> QED
    BY <1>1, <1>2, <2>2, <2>3 DEF ReviewInv, TimesOK, CountersOK
<1>4. /\ underway'.id = id /\ underway'.tStart = underway.tStart /\ underway'.last = underway.last
      /\ id \in Segs \/ id = 0
      /\ \A r \in Segs : r # id => reviews'[r] = reviews[r]
  BY <1>1 DEF ReviewInv, TimesOK, Underways, Segs
<1>5. CASE ~(stores /\ id \in Segs)
  <2>1. reviews' = reviews
    BY <1>1, <1>4, <1>5 DEF ReviewInv, TimesOK, Segs
  <2> QED
    BY <1>1, <1>2, <1>3, <1>4, <2>1 DEF ReviewInv, LastOf, Within, Aside
<1>6. CASE stores /\ id \in Segs
  <2>1. LastOf(id) /\ reviews'[id] = row
    BY <1>1, <1>6, ReviewAssumption DEF ReviewInv, TimesOK, Segs
  <2>2. LastOf(underway.id)'
    BY <1>1, <1>4, <2>1 DEF LastOf
  <2>3. Within(row, lastSeen[id])
    BY <2>1 DEF LastOf, Within, ReviewInv, TimesOK, Underways
  <2>4. ASSUME NEW r \in Segs
        PROVE  /\ r > issued.segs => reviews'[r].st = "none"
               /\ reviews'[r].st # "none" => Within(reviews'[r], lastSeen[r])
    BY <1>4, <2>1, <2>3 DEF ReviewInv, LastOf, TimesOK, CountersOK, Segs
  <2>5. ASSUME NEW r \in Segs, r < id, reviews[r].st # "none"
        PROVE  reviews[r].st # "open" /\ reviews[r].tEnd <= underway.tStart
    <3>1. reviews[r] \in Times /\ reviews[r].st # "open" /\ r # id
      BY <1>1, <1>6, <2>5 DEF ReviewInv, TimesOK, Segs
    <3>2. Within(reviews[r], lastSeen[r]) /\ lastSeen[r] <= underway.tStart
      BY <2>1, <2>5 DEF ReviewInv, LastOf
    <3>3. lastSeen[r] \in Nat /\ underway.tStart \in Nat
      BY DEF ReviewInv, TimesOK, Underways
    <3> QED
      BY <2>5, <3>1, <3>2, <3>3 DEF Within, Times
  <2>6. ASSUME NEW r \in Segs, NEW s \in Segs, r < s, reviews'[r].st # "none",
               reviews'[s].st # "none"
        PROVE  Aside(r, s)'
    <3>1. s <= id
      BY <1>4, <2>1, <2>6 DEF ReviewInv, LastOf, TimesOK, CountersOK, Segs
    <3>2. r < id
      BY <1>6, <2>6, <3>1 DEF Segs
    <3>3. CASE s = id
      <4>1. reviews'[r] = reviews[r] /\ reviews'[s] = row
        BY <1>4, <2>1, <2>6, <3>2, <3>3 DEF ReviewInv, TimesOK, Segs
      <4> QED BY <2>5, <2>6, <3>2, <4>1 DEF Aside
    <3>4. CASE s # id
      <4>1. reviews'[r] = reviews[r] /\ reviews'[s] = reviews[s]
        BY <1>4, <2>6, <3>2, <3>4 DEF ReviewInv, TimesOK, Segs
      <4> QED BY <2>6, <4>1 DEF ReviewInv, Aside
    <3> QED BY <3>3, <3>4
  <2> QED
    BY <1>1, <1>2, <1>3, <2>2, <2>4, <2>6 DEF ReviewInv
<1> QED BY <1>5, <1>6

\* A row that is written again, up to the last activity, or closed with it.
LEMMA Rewriting ==
  ASSUME ReviewInv, UNCHANGED <<instant, issued, lastSeen>>, TimesOK', FrameIsNow',
         underway.id \in Segs, reviews[underway.id].st = "open", NEW row \in Times,
         reviews' = [reviews EXCEPT ![underway.id] = row],
         row.tStart = reviews[underway.id].tStart, Within(row, lastSeen[underway.id]),
         \/ row.st = "open" /\ underway' = underway
         \/ row.st = "closed" /\ underway' = NoReview
  PROVE  ReviewInv'
<1> DEFINE id == underway.id
<1>1. /\ LastOf(id) /\ id = issued.segs /\ row.st # "none"
      /\ reviews'[id] = row /\ \A r \in Segs : r # id => reviews'[r] = reviews[r]
  BY DEF ReviewInv, LastOf, TimesOK, Segs
<1>2. underway'.id # 0 => LastOf(underway.id)'
  <2>1. CASE row.st = "open" /\ underway' = underway
    BY <1>1, <2>1 DEF LastOf
  <2>2. CASE underway' = NoReview
    BY <2>2 DEF NoReview
  <2> QED BY <2>1, <2>2
<1>3. ASSUME NEW r \in Segs
      PROVE  /\ r > issued.segs => reviews'[r].st = "none"
             /\ reviews'[r].st # "none" => Within(reviews'[r], lastSeen[r])
  BY <1>1 DEF ReviewInv, Segs
<1>4. ASSUME NEW r \in Segs, NEW s \in Segs, r < s, reviews'[r].st # "none",
             reviews'[s].st # "none"
      PROVE  Aside(r, s)'
  <2>1. s <= id /\ r # id
    BY <1>1, <1>3, <1>4 DEF Segs
  <2>2. reviews[r].st # "none" /\ reviews[s].st # "none" /\ reviews'[r] = reviews[r]
        /\ reviews'[s].tStart = reviews[s].tStart
    BY <1>1, <1>4, <2>1 DEF Segs
  <2> QED
    BY <1>4, <2>2 DEF ReviewInv, Aside
<1> QED
  BY <1>2, <1>3, <1>4 DEF ReviewInv

\* update_review_segment and close_review_segment do that.
LEMMA UpdatingKeeps ==
  ASSUME ReviewInv, NEW out \in Outcomes, UpdateSegment(out)
  PROVE  ReviewInv'
<1> DEFINE id == underway.id
           row == [reviews[id] EXCEPT !.tLast = LaterOf(@, instant)]
           writes == Stores(out) /\ reviews[id].st = "open"
<1>1. /\ UNCHANGED <<instant, issued, lastSeen, underway>>
      /\ reviews' = IF writes THEN [reviews EXCEPT ![id] = row] ELSE reviews
      /\ underway.last = instant
  BY DEF UpdateSegment, ReviewInv, FrameIsNow
<1>2. FrameOK' /\ FrameIsNow'
  BY <1>1 DEF UpdateSegment, ReviewInv, TimesOK, FrameOK, FrameIsNow, OnceUpdated
<1>3. id \in Segs \/ id = 0
  BY DEF ReviewInv, TimesOK, Underways, Segs
<1>4. CASE ~(writes /\ id \in Segs)
  <2>1. reviews' = reviews
    BY <1>1, <1>3, <1>4 DEF ReviewInv, TimesOK, Segs
  <2> QED
    BY <1>1, <1>2, <2>1 DEF ReviewInv, TimesOK, CountersOK, LastOf, Within, Aside
<1>5. CASE writes /\ id \in Segs
  <2>1. reviews[id] \in Times /\ lastSeen[id] = instant /\ instant \in Nat
        /\ Within(reviews[id], lastSeen[id])
    BY <1>1, <1>5 DEF ReviewInv, TimesOK, LastOf, Segs
  <2>2. LaterOf(reviews[id].tLast, instant) = instant
    BY <2>1 DEF LaterOf, Within, Times
  <2>3. row \in Times /\ row.st = "open" /\ row.tStart = reviews[id].tStart /\ row.tLast = instant
    BY <1>5, <2>1, <2>2 DEF Times
  <2>4. Within(row, lastSeen[id])
    BY <2>1, <2>3 DEF Within, Times
  <2>5. TimesOK'
    BY <1>1, <1>2, <2>3 DEF ReviewInv, TimesOK, CountersOK
  <2> HIDE DEF row
  <2> QED
    BY <1>1, <1>2, <1>5, <2>3, <2>4, <2>5, Rewriting
<1> QED BY <1>4, <1>5

LEMMA ClosingKeeps ==
  ASSUME ReviewInv, NEW out \in Outcomes, CloseSegment(out)
  PROVE  ReviewInv'
<1> DEFINE id == underway.id
           end == LaterOf(reviews[id].tLast, underway.last)
           row == [reviews[id] EXCEPT !.st = "closed", !.tLast = end, !.tEnd = end]
           writes == Stores(out) /\ reviews[id].st = "open"
<1>1. /\ UNCHANGED <<instant, issued, lastSeen>> /\ underway' = NoReview /\ frame' = NoFrame
      /\ reviews' = IF writes THEN [reviews EXCEPT ![id] = row] ELSE reviews
  BY DEF CloseSegment
<1>2. FrameOK' /\ FrameIsNow' /\ underway' \in Underways
  BY <1>1, ReviewAssumption DEF FrameOK, FrameIsNow, NoFrame, NoReview, Underways
<1>3. id \in Segs \/ id = 0
  BY DEF ReviewInv, TimesOK, Underways, Segs
<1>4. CASE ~(writes /\ id \in Segs)
  <2>1. reviews' = reviews /\ underway'.id = 0
    BY <1>1, <1>3, <1>4 DEF ReviewInv, TimesOK, Segs, NoReview
  <2> QED
    BY <1>1, <1>2, <2>1 DEF ReviewInv, TimesOK, CountersOK, Within, Aside
<1>5. CASE writes /\ id \in Segs
  <2>1. /\ reviews[id] \in Times /\ lastSeen[id] = underway.last /\ underway.last \in Nat
        /\ Within(reviews[id], lastSeen[id])
    BY <1>5 DEF ReviewInv, TimesOK, Underways, LastOf, Segs
  <2>2. end = underway.last
    BY <2>1 DEF LaterOf, Within, Times
  <2>3. /\ row \in Times /\ row.st = "closed" /\ row.tStart = reviews[id].tStart
        /\ row.tLast = underway.last /\ row.tEnd = underway.last
    BY <2>1, <2>2 DEF Times
  <2>4. Within(row, lastSeen[id])
    BY <2>1, <2>3 DEF Within, Times
  <2>5. TimesOK'
    BY <1>1, <1>2, <2>3 DEF ReviewInv, TimesOK, CountersOK
  <2> HIDE DEF row
  <2> QED
    BY <1>1, <1>2, <1>5, <2>3, <2>4, <2>5, Rewriting
<1> QED BY <1>4, <1>5
-------------------------------------------------------------------------------
\* Every step is one of these.
LEMMA StepKeeps == ASSUME ReviewInv, [ReviewNext]_reviewvars PROVE ReviewInv'
<1>1. CASE UNCHANGED reviewvars
  BY <1>1 DEF reviewvars, ReviewInv, TimesOK, CountersOK, FrameOK, FrameIsNow, LastOf, Within,
              Aside
<1>2. CASE ReviewNext
  BY <1>2, RecoveryKeeps, EndsAndTicks, FrameKeeps, OtherCalls, OpeningKeeps, UpdatingKeeps,
     ClosingKeeps DEF ReviewNext
<1> QED BY <1>1, <1>2

\* A review that was closed ends with its last activity, one that was recovered not after
\* it; and no review of a camera overlaps another, whatever calls fail and processes end
\* (open_review_segment, close_review_segment, finalize_snapshot_records of db.py).
THEOREM ReviewsAreInTime == ReviewSpec => []ReviewsInTime
<1>1. ReviewInit => ReviewInv
  BY InvStarts
<1>2. ReviewInv /\ [ReviewNext]_reviewvars => ReviewInv'
  BY StepKeeps
<1>3. ReviewInv => ReviewsInTime
  BY InvInTime
<1> QED BY <1>1, <1>2, <1>3, PTL DEF ReviewSpec
-------------------------------------------------------------------------------
(* What is open is somebody's: the rest of ReviewsHonest. *)

Ours == {a \in Fired : issued.alarmsBefore < a /\ a <= issued.alarms}
\* On the way to the table or waiting for the review.
Pending == deferred \cup frame.flushing \cup {frame.fired}
Answered == {watched.latched, frame.closing} \cup told.missed

\* Records that are changed field by field, and the alarms of their type.
ShapesOK ==
    /\ told = [unclosed |-> told.unclosed, missed |-> told.missed, dropped |-> told.dropped,
               unfinished |-> told.unfinished, slipped |-> told.slipped]
    /\ issued.segsBefore \in Nat /\ issued.segsBefore <= issued.segs
    /\ issued.alarms \in 0..MaxFired /\ issued.alarmsBefore \in Nat
    /\ issued.alarmsBefore <= issued.alarms
    /\ alarmRows \in [Fired -> Times] /\ alarmOf \in [Fired -> [review : Nat, at : Nat]]
\* Between two runs nothing is in memory, and all there is is of an earlier run.
BetweenRuns ==
    ~running => /\ underway = NoReview /\ frame = NoFrame /\ deferred = {} /\ snapshot = {}
                /\ watched = Outside /\ told = NothingTold
                /\ issued.segsBefore = issued.segs /\ issued.alarmsBefore = issued.alarms
\* Where in a frame there is something to close, to flush or to write.
FramePlace ==
    /\ frame.pc \in {"wait", "release", "open", "flush", "update", "write", "close"}
    /\ frame.active \in BOOLEAN
    /\ frame.active = TRUE /\ frame.pc # "wait" => underway.id # 0
    /\ frame.pc = "close" => underway.id # 0
    /\ frame.closing # 0 => frame.pc = "release"
    /\ (frame.pc = "flush") <=> (frame.flushing # {})
    /\ frame.pc = "write" => frame.fired # 0
    /\ frame.fired # 0 => frame.active = TRUE /\ frame.pc \notin {"wait", "close"}
\* The review under way is of this run, not ended, and open once it counts as stored.
CurrentOpen ==
    IF underway.id = 0 THEN ~underway.persisted
    ELSE /\ issued.segsBefore < underway.id
         /\ reviews[underway.id].st \in {"none", "open"}
         /\ underway.persisted => reviews[underway.id].st = "open"
\* What an earlier run left open is as the startup saw it, until it has looked again.
LeftOpen(table, kind, before) ==
    \A i \in DOMAIN table : i <= before /\ table[i].st = "open" =>
        LeftBehind(kind, i, table[i])
AsSeen ==
    /\ \A x \in snapshot : /\ x[1] = "review" => x[2] <= issued.segsBefore
                           /\ x[1] = "alarm" => x[2] <= issued.alarmsBefore
    /\ told.unfinished => snapshot = {}
    /\ running => /\ LeftOpen(reviews, "review", issued.segsBefore)
                  /\ LeftOpen(alarmRows, "alarm", issued.alarmsBefore)
\* A review of this run is open because it goes on, or its closing failed.
OpenReason ==
    \A r \in Segs : issued.segsBefore < r /\ reviews[r].st = "open" =>
        r = underway.id \/ r \in told.unclosed
\* An alarm of this run is stored, pending or dropped, and ended unless it is latched or
\* its closing did nothing; pending ones are of this run only.
AlarmReason ==
    /\ Pending \subseteq Ours \cup {0} /\ 0 \notin deferred \cup frame.flushing
    /\ \A a \in Fired : a > issued.alarms => alarmRows[a].st = "none"
    /\ \A a \in Ours : /\ alarmRows[a].st \in {"none", "open", "closed"}
                       /\ alarmRows[a].st = "none" => a \in Pending \cup told.dropped
                       /\ alarmRows[a].st = "closed" \/ a \in Answered
KeptInv ==
    /\ ReviewInv /\ ShapesOK /\ BetweenRuns /\ FramePlace /\ CurrentOpen /\ AsSeen
    /\ OpenReason /\ AlarmReason
    /\ watched.latched # 0 => watched.entered # 0

LEMMA ReviewConstants ==
  /\ MaxSegments \in Nat /\ MaxFired \in Nat /\ IdleCutoff \in Nat \ {0} /\ OpenRetry \in Nat
  /\ DwellNeed \in Nat /\ ReviewGrace \in Nat /\ MaxInstant \in Nat /\ MaxReviewFaults \in Nat
  BY ReviewAssumption

\* What every step may take for granted.
LEMMA KeptFacts ==
  ASSUME KeptInv
  PROVE  /\ issued.segs \in 0..MaxSegments /\ issued.segsBefore \in Nat
         /\ issued.alarms \in 0..MaxFired /\ issued.alarmsBefore \in Nat
         /\ issued.segsBefore <= issued.segs /\ issued.alarmsBefore <= issued.alarms
         /\ instant \in Nat /\ reviews \in [Segs -> Times] /\ alarmRows \in [Fired -> Times]
         /\ alarmOf \in [Fired -> [review : Nat, at : Nat]]
         /\ underway \in Underways /\ FrameOK /\ CountersOK
         /\ underway.id # 0 => underway.id \in Segs /\ underway.id = issued.segs
         /\ \A r \in Segs : r > issued.segs => reviews[r].st = "none"
  BY DEF KeptInv, ReviewInv, TimesOK, CountersOK, ShapesOK, LastOf, Underways, Segs

LEMMA KeptHonest == ASSUME KeptInv PROVE ReviewsHonest
<1>1. ReviewsInTime
  BY InvInTime DEF KeptInv
<1>2. OpenReviewsKnown
  <2>1. underway.persisted => underway.id \in OpenSegs
    BY KeptFacts DEF KeptInv, CurrentOpen, OpenSegs
  <2>2. ASSUME running, NEW r \in OpenSegs
        PROVE  IF r > issued.segsBefore THEN r = underway.id \/ r \in told.unclosed
               ELSE LeftBehind("review", r, reviews[r])
    <3>1. r \in Segs /\ reviews[r].st = "open" /\ r \in Nat
      BY DEF OpenSegs, Segs
    <3>2. CASE r > issued.segsBefore
      BY <3>1, <3>2, KeptFacts DEF KeptInv, OpenReason
    <3>3. CASE ~(r > issued.segsBefore)
      <4>1. LeftBehind("review", r, reviews[r])
        BY <2>2, <3>1, <3>3, KeptFacts DEF KeptInv, AsSeen, LeftOpen
      <4> QED BY <3>3, <4>1
    <3> QED BY <3>2, <3>3
  <2> QED BY <2>1, <2>2 DEF OpenReviewsKnown
<1>3. AlarmsKept
  <2> DEFINE due == IF frame.fired = 0 THEN {} ELSE {frame.fired}
  <2>1. watched.latched # 0 => watched.entered # 0
    BY DEF KeptInv
  <2>2. ASSUME NEW a \in Ours
        PROVE  alarmRows[a].st \in {"open", "closed"}
               \/ a \in deferred \cup frame.flushing \cup due \cup told.dropped
    <3>1. a # 0
      BY DEF Ours, Fired
    <3> QED BY <3>1 DEF KeptInv, AlarmReason, Pending
  <2>3. ASSUME running, NEW a \in OpenAlarms
        PROVE  IF a \in Ours THEN a \in {watched.latched, frame.closing} \cup told.missed
               ELSE LeftBehind("alarm", a, alarmRows[a])
    <3>1. a \in Fired /\ alarmRows[a].st = "open" /\ a \in Nat
      BY DEF OpenAlarms, Fired
    <3>2. CASE a \in Ours
      BY <3>1, <3>2 DEF KeptInv, AlarmReason, Answered
    <3>3. CASE a \notin Ours
      <4>1. a <= issued.alarmsBefore
        BY <3>1, <3>3, KeptFacts DEF KeptInv, AlarmReason, Ours
      <4>2. LeftBehind("alarm", a, alarmRows[a])
        BY <2>3, <3>1, <4>1, KeptFacts DEF KeptInv, AsSeen, LeftOpen
      <4> QED BY <3>3, <4>2
    <3> QED BY <3>2, <3>3
  <2> QED BY <2>1, <2>2, <2>3 DEF AlarmsKept, Ours
<1> QED BY <1>1, <1>2, <1>3 DEF ReviewsHonest

LEMMA KeptStarts == ASSUME ReviewInit PROVE KeptInv
<1>1. ReviewInv
  BY InvStarts
<1>2. issued = [segs |-> 0, alarms |-> 0, segsBefore |-> 0, alarmsBefore |-> 0]
      /\ told = NothingTold /\ watched = Outside /\ frame = NoFrame /\ underway = NoReview
      /\ deferred = {} /\ snapshot = {} /\ running = FALSE
  BY DEF ReviewInit
<1>3. ShapesOK
  <2>1. alarmRows \in [Fired -> Times] /\ alarmOf \in [Fired -> [review : Nat, at : Nat]]
    BY DEF ReviewInit, NoTruth, Times
  <2> QED BY <1>2, <2>1, ReviewConstants DEF ShapesOK, NothingTold
<1>4. BetweenRuns /\ FramePlace
  BY <1>2 DEF BetweenRuns, FramePlace, NoFrame
<1>5. CurrentOpen
  BY <1>2 DEF CurrentOpen, NoReview
<1>6. AsSeen
  BY <1>2 DEF AsSeen, NothingTold
<1>7. OpenReason
  BY DEF OpenReason, ReviewInit, NoTruth
<1>8. AlarmReason
  <2>1. Ours = {}
    BY <1>2 DEF Ours, Fired
  <2>2. Pending = {0}
    BY <1>2 DEF Pending, NoFrame
  <2>3. \A a \in Fired : alarmRows[a].st = "none"
    BY DEF ReviewInit, NoTruth
  <2> QED BY <1>2, <2>1, <2>2, <2>3 DEF AlarmReason, NoFrame
<1>9. watched.latched = 0
  BY <1>2 DEF Outside
<1> QED BY <1>1, <1>3, <1>4, <1>5, <1>6, <1>7, <1>8, <1>9 DEF KeptInv
-------------------------------------------------------------------------------
\* The rows that are open and recovered: the type of a row stays.
LEMMA RecoveredTypes == ASSUME NEW row \in Times PROVE Recovered(row) \in Times
  BY DEF Recovered, Times

\* The startup closes what lapsed and remembers the rest.
LEMMA StartKept == ASSUME KeptInv, StartReviews PROVE KeptInv'
<1>1. ReviewInv'
  BY RecoveryKeeps DEF KeptInv
<1>2. /\ ~running /\ running' = TRUE
      /\ UNCHANGED <<underway, watched, deferred, frame, issued, alarmOf>>
      /\ underway = NoReview /\ frame = NoFrame /\ deferred = {} /\ watched = Outside
      /\ told = NothingTold /\ issued.segsBefore = issued.segs
      /\ issued.alarmsBefore = issued.alarms
  BY DEF StartReviews, KeptInv, BetweenRuns
<1>3. /\ snapshot' = Recent(reviews, "review", instant') \cup Recent(alarmRows, "alarm", instant')
      /\ instant' \in Nat
      /\ told' = [unclosed |-> {}, missed |-> {}, dropped |-> {}, unfinished |-> FALSE,
                  slipped |-> Slips(reviews, "review", instant, instant')
                              \cup Slips(alarmRows, "alarm", instant, instant')]
  <2>1. instant' \in Nat
    BY KeptFacts, ReviewConstants DEF StartReviews
  <2>2. told' = [NothingTold EXCEPT !.slipped = Slips(reviews, "review", instant, instant')
                                        \cup Slips(alarmRows, "alarm", instant, instant')]
    BY <1>2 DEF StartReviews
  <2>3. snapshot' = Recent(reviews, "review", instant') \cup Recent(alarmRows, "alarm", instant')
    BY DEF StartReviews
  <2> QED BY <2>1, <2>2, <2>3 DEF NothingTold
<1>4. ShapesOK'
  <2>1. ASSUME NEW a \in Fired PROVE (IF Lapsed(alarmRows[a]) THEN Recovered(alarmRows[a])
                                      ELSE alarmRows[a]) \in Times
    BY KeptFacts, RecoveredTypes
  <2>2. alarmRows' \in [Fired -> Times]
    BY <2>1 DEF StartReviews
  <2> QED BY <1>2, <1>3, <2>2 DEF KeptInv, ShapesOK
<1>5. BetweenRuns' /\ FramePlace' /\ CurrentOpen'
  BY <1>2 DEF BetweenRuns, FramePlace, CurrentOpen, NoFrame, NoReview
<1>6. Ours = {} /\ Ours' = {} /\ Pending' = Pending
  BY <1>2, KeptFacts DEF Ours, Fired, Pending
<1>7. AsSeen'
  <2>1. ASSUME NEW x \in snapshot'
        PROVE  /\ x[1] = "review" => x[2] <= issued.segsBefore
               /\ x[1] = "alarm" => x[2] <= issued.alarmsBefore
    <3>1. CASE x \in Recent(reviews, "review", instant')
      <4>1. PICK i \in Segs : x = <<"review", i, reviews[i].tLast>> /\ reviews[i].st = "open"
        BY <3>1, KeptFacts DEF Recent
      <4>2. i <= issued.segs
        BY <4>1, KeptFacts DEF Segs
      <4> QED BY <1>2, <4>1, <4>2
    <3>2. CASE x \in Recent(alarmRows, "alarm", instant')
      <4>1. PICK i \in Fired : x = <<"alarm", i, alarmRows[i].tLast>> /\ alarmRows[i].st = "open"
        BY <3>2, KeptFacts DEF Recent
      <4>2. i <= issued.alarms
        BY <4>1, KeptFacts DEF KeptInv, AlarmReason, Fired
      <4> QED BY <1>2, <4>1, <4>2
    <3> QED BY <1>3, <2>1, <3>1, <3>2
  <2>2. ASSUME NEW r \in Segs, reviews'[r].st = "open"
        PROVE  LeftBehind("review", r, reviews[r])'
    <3>1. reviews'[r] = IF Lapsed(reviews[r]) THEN Recovered(reviews[r]) ELSE reviews[r]
      BY DEF StartReviews
    <3>2. Recovered(reviews[r]).st = "recovered"
      BY KeptFacts DEF Recovered, Times
    <3>3. ~Lapsed(reviews[r]) /\ reviews'[r] = reviews[r]
      BY <2>2, <3>1, <3>2
    <3>4. reviews[r].tLast + ReviewGrace > instant /\ reviews[r].tLast + ReviewGrace \in Nat
      BY <2>2, <3>3, KeptFacts, ReviewConstants DEF Lapsed, LapsedAt, Times
    <3>5. CASE reviews[r].tLast + ReviewGrace > instant'
      <4>1. ~LapsedAt(reviews[r], instant')
        BY <1>3, <3>4, <3>5, KeptFacts, ReviewConstants DEF LapsedAt, Times
      <4>2. <<"review", r, reviews[r].tLast>> \in snapshot'
        BY <1>3, <2>2, <3>3, <4>1, KeptFacts DEF Recent
      <4> QED BY <3>3, <4>2 DEF LeftBehind
    <3>6. CASE reviews[r].tLast + ReviewGrace <= instant'
      <4>1. <<"review", r>> \in told'.slipped
        BY <1>3, <2>2, <3>3, <3>4, <3>6, KeptFacts DEF Slips
      <4> QED BY <2>2, <3>3, <3>6, <4>1 DEF LapsedAt, LeftBehind
    <3> QED BY <1>3, <3>4, <3>5, <3>6
  <2>3. ASSUME NEW a \in Fired, alarmRows'[a].st = "open"
        PROVE  LeftBehind("alarm", a, alarmRows[a])'
    <3>1. alarmRows'[a] = IF Lapsed(alarmRows[a]) THEN Recovered(alarmRows[a]) ELSE alarmRows[a]
      BY DEF StartReviews
    <3>2. Recovered(alarmRows[a]).st = "recovered"
      BY KeptFacts DEF Recovered, Times
    <3>3. ~Lapsed(alarmRows[a]) /\ alarmRows'[a] = alarmRows[a]
      BY <2>3, <3>1, <3>2
    <3>4. alarmRows[a].tLast + ReviewGrace > instant /\ alarmRows[a].tLast + ReviewGrace \in Nat
      BY <2>3, <3>3, KeptFacts, ReviewConstants DEF Lapsed, LapsedAt, Times
    <3>5. CASE alarmRows[a].tLast + ReviewGrace > instant'
      <4>1. ~LapsedAt(alarmRows[a], instant')
        BY <1>3, <3>4, <3>5, KeptFacts, ReviewConstants DEF LapsedAt, Times
      <4>2. <<"alarm", a, alarmRows[a].tLast>> \in snapshot'
        BY <1>3, <2>3, <3>3, <4>1, KeptFacts DEF Recent
      <4> QED BY <3>3, <4>2 DEF LeftBehind
    <3>6. CASE alarmRows[a].tLast + ReviewGrace <= instant'
      <4>1. <<"alarm", a>> \in told'.slipped
        BY <1>3, <2>3, <3>3, <3>4, <3>6, KeptFacts DEF Slips
      <4> QED BY <2>3, <3>3, <3>6, <4>1 DEF LapsedAt, LeftBehind
    <3> QED BY <1>3, <3>4, <3>5, <3>6
  <2>4. told'.unfinished = FALSE
    BY <1>3
  <2>5. DOMAIN reviews' = Segs /\ DOMAIN alarmRows' = Fired
    BY DEF StartReviews
  <2> QED BY <1>2, <2>1, <2>2, <2>3, <2>4, <2>5 DEF AsSeen, LeftOpen, LeftBehind, LapsedAt
<1>8. OpenReason'
  <2>1. ASSUME NEW r \in Segs, issued.segsBefore < r PROVE reviews'[r].st # "open"
    <3>1. reviews[r].st = "none"
      BY <1>2, <2>1, KeptFacts DEF Segs
    <3> QED BY <3>1 DEF StartReviews, Lapsed, LapsedAt
  <2> QED BY <1>2, <2>1 DEF OpenReason
<1>9. AlarmReason'
  <2>1. \A a \in Fired : a > issued.alarms => alarmRows'[a].st = "none"
    BY DEF StartReviews, Lapsed, LapsedAt, KeptInv, AlarmReason
  <2> QED BY <1>2, <1>6, <2>1 DEF KeptInv, AlarmReason
<1> QED BY <1>1, <1>2, <1>4, <1>5, <1>7, <1>8, <1>9 DEF KeptInv, Outside

\* After the grace: what nobody touched is closed, nothing of this run is.
LEMMA FinalizeKept ==
  ASSUME KeptInv, NEW out \in Outcomes, FinalizeReviews(out) PROVE KeptInv'
<1>1. ReviewInv'
  BY RecoveryKeeps DEF KeptInv
<1>2. /\ running /\ snapshot # {} /\ snapshot' = {} /\ told' = [told EXCEPT !.unfinished = ~Stores(out)]
      /\ UNCHANGED <<instant, running, underway, watched, deferred, frame, issued, alarmOf>>
  BY DEF FinalizeReviews
<1>3. /\ told' = [unclosed |-> told.unclosed, missed |-> told.missed, dropped |-> told.dropped,
                  unfinished |-> ~Stores(out), slipped |-> told.slipped]
  BY <1>2 DEF KeptInv, ShapesOK
<1>4. ~told.unfinished
  BY <1>2 DEF KeptInv, AsSeen
<1>5. ASSUME NEW r \in Segs
      PROVE  /\ reviews'[r] = reviews[r] \/ reviews'[r] = Recovered(reviews[r])
             /\ issued.segsBefore < r \/ reviews[r].st # "open" => reviews'[r] = reviews[r]
             /\ r <= issued.segsBefore /\ reviews'[r].st = "open" =>
                  LeftBehind("review", r, reviews[r])'
  <2>1. reviews'[r] = IF Stores(out) /\ Untouched(reviews[r], "review", r)
                      THEN Recovered(reviews[r]) ELSE reviews[r]
    BY DEF FinalizeReviews
  <2>2. Untouched(reviews[r], "review", r) => r <= issued.segsBefore /\ reviews[r].st = "open"
    BY DEF Untouched, KeptInv, AsSeen
  <2>3. r <= issued.segsBefore /\ reviews[r].st = "open" => LeftBehind("review", r, reviews[r])
    BY <1>2, KeptFacts DEF KeptInv, AsSeen, LeftOpen
  <2>4. Recovered(reviews[r]).st = "recovered"
    BY KeptFacts DEF Recovered, Times
  <2>5. ASSUME r <= issued.segsBefore, reviews'[r].st = "open"
        PROVE  LeftBehind("review", r, reviews[r])'
    <3>1. reviews'[r] = reviews[r] /\ reviews[r].st = "open"
          /\ (Stores(out) => ~Untouched(reviews[r], "review", r))
      BY <2>1, <2>2, <2>4, <2>5
    <3>2. CASE <<"review", r, reviews[r].tLast>> \in snapshot
      <4>1. reviews[r].tLast + ReviewGrace <= instant
        BY <3>2 DEF FinalizeReviews
      <4>2. told'.unfinished
        BY <1>3, <3>1, <3>2 DEF Untouched
      <4> QED BY <1>2, <3>1, <4>1, <4>2 DEF LeftBehind, LapsedAt
    <3>3. CASE LapsedAt(reviews[r], instant) /\ <<"review", r>> \in told.slipped
      BY <1>2, <1>3, <3>1, <3>3 DEF LeftBehind
    <3> QED BY <1>4, <2>3, <2>5, <3>1, <3>2, <3>3 DEF LeftBehind
  <2> QED BY <2>1, <2>2, <2>4, <2>5, KeptFacts DEF Segs
<1>6. ASSUME NEW a \in Fired
      PROVE  /\ alarmRows'[a] = alarmRows[a] \/ alarmRows'[a] = Recovered(alarmRows[a])
             /\ issued.alarmsBefore < a \/ alarmRows[a].st # "open" => alarmRows'[a] = alarmRows[a]
             /\ a <= issued.alarmsBefore /\ alarmRows'[a].st = "open" =>
                  LeftBehind("alarm", a, alarmRows[a])'
  <2>1. alarmRows'[a] = IF Stores(out) /\ Untouched(alarmRows[a], "alarm", a)
                        THEN Recovered(alarmRows[a]) ELSE alarmRows[a]
    BY DEF FinalizeReviews
  <2>2. Untouched(alarmRows[a], "alarm", a) => a <= issued.alarmsBefore /\ alarmRows[a].st = "open"
    BY DEF Untouched, KeptInv, AsSeen
  <2>3. a <= issued.alarmsBefore /\ alarmRows[a].st = "open" => LeftBehind("alarm", a, alarmRows[a])
    BY <1>2, KeptFacts DEF KeptInv, AsSeen, LeftOpen
  <2>4. Recovered(alarmRows[a]).st = "recovered"
    BY KeptFacts DEF Recovered, Times
  <2>5. ASSUME a <= issued.alarmsBefore, alarmRows'[a].st = "open"
        PROVE  LeftBehind("alarm", a, alarmRows[a])'
    <3>1. alarmRows'[a] = alarmRows[a] /\ alarmRows[a].st = "open"
          /\ (Stores(out) => ~Untouched(alarmRows[a], "alarm", a))
      BY <2>1, <2>2, <2>4, <2>5
    <3>2. CASE <<"alarm", a, alarmRows[a].tLast>> \in snapshot
      <4>1. alarmRows[a].tLast + ReviewGrace <= instant
        BY <3>2 DEF FinalizeReviews
      <4>2. told'.unfinished
        BY <1>3, <3>1, <3>2 DEF Untouched
      <4> QED BY <1>2, <3>1, <4>1, <4>2 DEF LeftBehind, LapsedAt
    <3>3. CASE LapsedAt(alarmRows[a], instant) /\ <<"alarm", a>> \in told.slipped
      BY <1>2, <1>3, <3>1, <3>3 DEF LeftBehind
    <3> QED BY <1>4, <2>3, <2>5, <3>1, <3>2, <3>3 DEF LeftBehind
  <2> QED BY <2>1, <2>2, <2>4, <2>5, KeptFacts DEF Fired
<1>7. ShapesOK'
  <2>1. \E t : alarmRows' = [a \in Fired |-> t[a]]
    BY DEF FinalizeReviews
  <2>2. alarmRows' \in [Fired -> Times]
    BY <1>6, <2>1, KeptFacts, RecoveredTypes
  <2> QED BY <1>2, <1>3, <2>2 DEF KeptInv, ShapesOK
<1>8. BetweenRuns' /\ FramePlace'
  BY <1>2 DEF KeptInv, BetweenRuns, FramePlace
<1>9. CurrentOpen'
  <2>1. CASE underway.id = 0
    BY <1>2, <2>1 DEF KeptInv, CurrentOpen
  <2>2. CASE underway.id # 0
    <3>1. underway.id \in Segs /\ issued.segsBefore < underway.id
      BY <2>2, KeptFacts DEF KeptInv, CurrentOpen
    <3> QED BY <1>2, <1>5, <2>2, <3>1 DEF KeptInv, CurrentOpen
  <2> QED BY <2>1, <2>2
<1>10. AsSeen'
  <2>1. DOMAIN reviews' = Segs /\ DOMAIN alarmRows' = Fired
    BY DEF FinalizeReviews
  <2>3. LeftOpen(reviews, "review", issued.segsBefore)'
    BY <1>2, <1>5, <2>1 DEF LeftOpen
  <2>4. LeftOpen(alarmRows, "alarm", issued.alarmsBefore)'
    BY <1>2, <1>6, <2>1 DEF LeftOpen
  <2> QED BY <1>2, <2>3, <2>4 DEF AsSeen
<1>11. OpenReason'
  BY <1>2, <1>3, <1>5 DEF KeptInv, OpenReason
<1>12. AlarmReason'
  <2>1. Ours' = Ours /\ Pending' = Pending /\ Answered' = Answered /\ told'.dropped = told.dropped
    BY <1>2, <1>3 DEF Ours, Pending, Answered
  <2>2. ASSUME NEW a \in Ours PROVE alarmRows'[a] = alarmRows[a]
    BY <1>6 DEF Ours
  <2>3. \A a \in Fired : a > issued.alarms => alarmRows'[a].st = "none"
    BY <1>6 DEF KeptInv, AlarmReason
  <2> QED BY <1>2, <2>1, <2>2, <2>3 DEF KeptInv, AlarmReason
<1> QED BY <1>1, <1>2, <1>7, <1>8, <1>9, <1>10, <1>11, <1>12 DEF KeptInv

\* The end of the process leaves the tables, and everything of this run is of an earlier one.
LEMMA EndKept == ASSUME KeptInv, ReviewProcessEnds PROVE KeptInv'
<1>1. ReviewInv'
  BY EndsAndTicks DEF KeptInv
<1>2. /\ running' = FALSE /\ underway' = NoReview /\ watched' = Outside /\ deferred' = {}
      /\ frame' = NoFrame /\ snapshot' = {} /\ told' = NothingTold
      /\ UNCHANGED <<instant, reviews, alarmRows, alarmOf>>
  BY DEF ReviewProcessEnds, database
<1>3. /\ issued'.segs = issued.segs /\ issued'.alarms = issued.alarms
      /\ issued'.segsBefore = issued.segs /\ issued'.alarmsBefore = issued.alarms
  BY KeptFacts DEF ReviewProcessEnds, CountersOK
<1>4. ShapesOK'
  BY <1>2, <1>3, KeptFacts DEF ShapesOK, NothingTold
<1>5. BetweenRuns' /\ FramePlace' /\ CurrentOpen' /\ AsSeen'
  BY <1>2, <1>3 DEF BetweenRuns, FramePlace, CurrentOpen, AsSeen, NoFrame, NoReview, NothingTold
<1>6. OpenReason'
  BY <1>2, <1>3, KeptFacts DEF OpenReason, Segs
<1>7. AlarmReason'
  <2>1. Ours' = {} /\ Pending' = {0}
    BY <1>2, <1>3, KeptFacts DEF Ours, Pending, Fired, NoFrame
  <2> QED BY <1>2, <1>3, <2>1 DEF KeptInv, AlarmReason, NoFrame
<1> QED BY <1>1, <1>2, <1>4, <1>5, <1>6, <1>7 DEF KeptInv, Outside

LEMMA ElapseKept == ASSUME KeptInv, Elapse PROVE KeptInv'
<1>1. ReviewInv'
  BY EndsAndTicks DEF KeptInv
<1>2. UNCHANGED <<running, reviews, alarmRows, underway, watched, deferred, frame, snapshot, issued,
                  alarmOf, told>>
  BY DEF Elapse, database
<1>3. ShapesOK' /\ BetweenRuns' /\ FramePlace' /\ CurrentOpen' /\ AsSeen' /\ OpenReason'
  <2>1. instant' = instant + 1
    BY DEF Elapse
  <2>2. \A row \in Times : LapsedAt(row, instant) => LapsedAt(row, instant')
    BY <2>1, KeptFacts, ReviewConstants DEF LapsedAt, Times
  <2>3. /\ LeftOpen(reviews, "review", issued.segsBefore)
           => LeftOpen(reviews, "review", issued.segsBefore)'
        /\ LeftOpen(alarmRows, "alarm", issued.alarmsBefore)
           => LeftOpen(alarmRows, "alarm", issued.alarmsBefore)'
    BY <1>2, <2>2, KeptFacts DEF LeftOpen, LeftBehind
  <2> QED BY <1>2, <2>3 DEF KeptInv, ShapesOK, BetweenRuns, FramePlace, CurrentOpen, AsSeen,
             OpenReason
<1>4. AlarmReason'
  BY <1>2 DEF KeptInv, AlarmReason, Ours, Pending, Answered
<1> QED BY <1>1, <1>2, <1>3, <1>4 DEF KeptInv

\* Where a frame goes on once its alarm is released: it has a review if it goes there.
LEMMA ReleasedPlace ==
  ASSUME NEW f, f = [pc |-> f.pc, active |-> f.active, closing |-> f.closing, fired |-> f.fired,
                     flushing |-> f.flushing],
         NEW review,
         f.active \in BOOLEAN, f.fired # 0 => f.active, f.active => review.id # 0
  PROVE  /\ OnceReleased(f, review) = [pc |-> OnceReleased(f, review).pc, active |-> f.active,
                 closing |-> f.closing, fired |-> f.fired, flushing |-> f.flushing]
         /\ OnceReleased(f, review).pc \in {"wait", "open", "update", "write", "close"}
         /\ OnceReleased(f, review).pc = "close" => review.id # 0
         /\ f.fired # 0 => OnceReleased(f, review).pc \notin {"wait", "close"}
         /\ OnceReleased(f, review).pc = "write" => f.fired # 0
  BY DEF OnceReleased, OnceOpened, OnceUpdated, IdledOut, MayOpen

\* A frame that begins, field by field.
LEMMA FreshFrame ==
  ASSUME NEW a \in BOOLEAN, NEW b, NEW c
  PROVE  [NoFrame EXCEPT !.active = a, !.fired = b, !.closing = c]
          = [pc |-> "wait", active |-> a, closing |-> c, fired |-> b, flushing |-> {}]
<1>0. PICK g : g = [NoFrame EXCEPT !.active = a, !.fired = b, !.closing = c]
  OBVIOUS
<1>1. g = [pc |-> g.pc, active |-> g.active, closing |-> g.closing, fired |-> g.fired,
           flushing |-> g.flushing]
  BY <1>0 DEF NoFrame
<1>2. g.pc = "wait" /\ g.fired = b /\ g.closing = c /\ g.flushing = {} /\ g.active = a
  BY <1>0 DEF NoFrame
<1>3. g = [pc |-> "wait", active |-> a, closing |-> c, fired |-> b, flushing |-> {}]
  BY <1>1, <1>2
<1> QED BY <1>0, <1>3

\* A frame: the review goes on or begins, a stay is latched, or undone and to be released.
LEMMA SeeKept ==
  ASSUME KeptInv, NEW rezoned \in BOOLEAN, NEW where \in {"zone", "beside", "unseen", "gone"},
         SeeFrame(rezoned, where)
  PROVE  KeptInv'
<1> DEFINE undone == rezoned \/ where \in {"beside", "gone"}
           entered == IF where = "zone" THEN IF rezoned \/ watched.entered = 0 THEN instant + 1
                                             ELSE watched.entered
                      ELSE IF undone THEN 0 ELSE watched.entered
           latched == IF undone THEN 0 ELSE watched.latched
           fires == where = "zone" /\ latched = 0 /\ instant + 1 - entered >= DwellNeed
           active == where \in {"zone", "beside"}
           begins == active /\ underway.id = 0
           next == [id |-> issued.segs + 1, tStart |-> instant, last |-> instant,
                    persisted |-> FALSE, retryAt |-> instant]
           review == IF ~active THEN underway ELSE IF begins THEN next
                     ELSE [underway EXCEPT !.last = instant]
           alarm == IF fires THEN issued.alarms + 1 ELSE 0
           f == [pc |-> "wait", active |-> active, closing |-> IF undone THEN watched.latched ELSE 0,
                 fired |-> alarm, flushing |-> {}]
<1>1. ReviewInv'
  BY FrameKeeps DEF KeptInv
<1>2. /\ running /\ frame.pc = "wait" /\ underway' = review
      /\ begins => issued.segs < MaxSegments
      /\ fires => issued.alarms < MaxFired
      /\ watched' = [entered |-> entered, latched |-> IF fires THEN alarm ELSE latched]
      /\ UNCHANGED <<instant, running, reviews, alarmRows, deferred, snapshot, told>>
  BY DEF SeeFrame, database
<1>3. /\ issued'.segsBefore = issued.segsBefore /\ issued'.alarmsBefore = issued.alarmsBefore
      /\ issued'.segs = IF begins THEN issued.segs + 1 ELSE issued.segs
      /\ issued'.alarms = IF fires THEN issued.alarms + 1 ELSE issued.alarms
  BY KeptFacts DEF SeeFrame, CountersOK
<1>4. alarmOf' = IF fires THEN [alarmOf EXCEPT ![alarm] = [review |-> review.id, at |-> instant]]
                 ELSE alarmOf
  BY DEF SeeFrame
<1>5. frame' = IF f.closing # 0 THEN [f EXCEPT !.pc = "release"] ELSE OnceReleased(f, review)
  <2> DEFINE f0 == [NoFrame EXCEPT !.active = active, !.fired = alarm,
                                   !.closing = IF undone THEN watched.latched ELSE 0]
  <2>1. frame' = IF f0.closing # 0 THEN [f0 EXCEPT !.pc = "release"] ELSE OnceReleased(f0, review)
    BY DEF SeeFrame
  <2>3. active \in BOOLEAN
    OBVIOUS
  <2> HIDE DEF active, alarm, undone, review
  <2>2. f0 = f
    <3> DEFINE c == IF undone THEN watched.latched ELSE 0
    <3> HIDE DEF c
    <3>1. [NoFrame EXCEPT !.active = active, !.fired = alarm, !.closing = c]
          = [pc |-> "wait", active |-> active, closing |-> c, fired |-> alarm, flushing |-> {}]
      BY <2>3, FreshFrame
    <3> QED BY <3>1 DEF c
  <2> HIDE DEF f0, f
  <2> QED BY <2>1, <2>2
<1>6. /\ review.id = IF begins THEN issued.segs + 1 ELSE underway.id
      /\ review.persisted = IF begins THEN FALSE ELSE underway.persisted
      /\ review.id \in Nat
  <2>1. [underway EXCEPT !.last = instant].id = underway.id
        /\ [underway EXCEPT !.last = instant].persisted = underway.persisted
    BY KeptFacts DEF Underways
  <2> HIDE DEF active
  <2>2. begins => review = next
    OBVIOUS
  <2>3. ~begins => review.id = underway.id /\ review.persisted = underway.persisted
    BY <2>1
  <2>4. underway.id \in Nat /\ issued.segs + 1 \in Nat
    BY KeptFacts DEF Underways
  <2>5. CASE begins
    <3>1. review.id = issued.segs + 1 /\ review.persisted = FALSE
      BY <2>2, <2>5
    <3> HIDE DEF review
    <3> QED BY <2>4, <2>5, <3>1
  <2>6. CASE ~begins
    <3> HIDE DEF review
    <3> QED BY <2>3, <2>4, <2>6
  <2> QED BY <2>5, <2>6
<1>7. active => review.id # 0
  BY <1>6, KeptFacts
<1>8. /\ frame' = [pc |-> frame'.pc, active |-> active, closing |-> f.closing, fired |-> alarm,
                   flushing |-> {}]
      /\ frame'.pc \in {"wait", "release", "open", "update", "write", "close"}
      /\ frame'.pc = "close" => review.id # 0
      /\ f.closing # 0 => frame'.pc = "release"
      /\ alarm # 0 => active /\ frame'.pc \notin {"wait", "close"}
      /\ frame'.pc = "write" => alarm # 0
  <2> HIDE DEF active, alarm, undone, review
  <2>1. alarm # 0 => active
    BY DEF active, alarm
  <2>2. active \in BOOLEAN
    BY DEF active
  <2>3. CASE f.closing # 0
    BY <1>5, <2>1, <2>3
  <2>4. CASE f.closing = 0
    <3>1. frame' = OnceReleased(f, review)
      BY <1>5, <2>4
    <3>3. /\ f = [pc |-> f.pc, active |-> f.active, closing |-> f.closing, fired |-> f.fired,
                  flushing |-> f.flushing]
          /\ f.active = active /\ f.fired = alarm /\ f.flushing = {} /\ f.closing = 0
      BY <2>4
    <3> HIDE DEF f
    <3>2. /\ OnceReleased(f, review) = [pc |-> OnceReleased(f, review).pc, active |-> f.active,
                 closing |-> f.closing, fired |-> f.fired, flushing |-> f.flushing]
          /\ OnceReleased(f, review).pc \in {"wait", "open", "update", "write", "close"}
          /\ OnceReleased(f, review).pc = "close" => review.id # 0
          /\ f.fired # 0 => OnceReleased(f, review).pc \notin {"wait", "close"}
          /\ OnceReleased(f, review).pc = "write" => f.fired # 0
      BY <1>7, <2>1, <2>2, <3>3, ReleasedPlace
    <3> QED BY <2>1, <2>4, <3>1, <3>2, <3>3
  <2> QED BY <2>3, <2>4
<1> HIDE DEF f
<1>9. f.closing = IF undone THEN watched.latched ELSE 0
  BY DEF f
<1>10. ShapesOK'
  <2>1. alarmOf' \in [Fired -> [review : Nat, at : Nat]]
    BY <1>4, <1>6, KeptFacts
  <2>2. issued'.alarms \in 0..MaxFired /\ issued'.alarmsBefore <= issued'.alarms
        /\ issued'.segsBefore <= issued'.segs
    BY <1>2, <1>3, KeptFacts, ReviewConstants
  <2> QED BY <1>2, <1>3, <2>1, <2>2 DEF KeptInv, ShapesOK
<1>11. BetweenRuns'
  BY <1>2 DEF BetweenRuns
<1>12. FramePlace'
  <2>1. active \in BOOLEAN
    OBVIOUS
  <2> HIDE DEF review, alarm, undone, active
  <2>2. frame'.active = active /\ frame'.closing = f.closing /\ frame'.fired = alarm
        /\ frame'.flushing = {}
    BY <1>8
  <2> QED BY <1>2, <1>7, <1>8, <2>1, <2>2 DEF FramePlace
<1>13. CurrentOpen'
  <2>1. CASE begins
    <3>1. issued.segs + 1 \in Segs /\ reviews[issued.segs + 1].st = "none"
      BY <1>2, <2>1, KeptFacts, ReviewConstants DEF Segs
    <3> QED BY <1>2, <1>3, <1>6, <2>1, <3>1, KeptFacts DEF CurrentOpen
  <2>2. CASE ~begins
    BY <1>2, <1>3, <1>6, <2>2 DEF KeptInv, CurrentOpen
  <2> QED BY <2>1, <2>2
<1>14. AsSeen'
  BY <1>2, <1>3 DEF KeptInv, AsSeen, LeftOpen, LeftBehind, LapsedAt
<1>15. OpenReason'
  BY <1>2, <1>3, <1>6 DEF KeptInv, OpenReason, Segs
<1>16. frame.fired = 0 /\ frame.flushing = {} /\ frame.closing = 0
  BY <1>2 DEF KeptInv, FramePlace
<1>17. AlarmReason'
  <2> HIDE DEF undone, review, f, entered, latched, active
  <2>1. frame'.fired = alarm /\ frame'.flushing = {} /\ frame'.closing = f.closing
    BY <1>8
  <2>2. Ours' = IF fires THEN Ours \cup {alarm} ELSE Ours
    BY <1>2, <1>3, KeptFacts, ReviewConstants DEF Ours, Fired
  <2>3. Pending' = deferred \cup {alarm}
    BY <1>2, <2>1 DEF Pending
  <2>4. \A a \in Fired : a > issued'.alarms => alarmRows'[a].st = "none"
    BY <1>2, <1>3, KeptFacts DEF KeptInv, AlarmReason, Fired
  <2>5. Pending' \subseteq Ours' \cup {0} /\ 0 \notin deferred' \cup frame'.flushing
    BY <1>2, <2>1, <2>2, <2>3 DEF KeptInv, AlarmReason, Pending
  <2>6. ASSUME NEW a \in Ours'
        PROVE  /\ alarmRows'[a].st \in {"none", "open", "closed"}
               /\ alarmRows'[a].st = "none" => a \in Pending' \cup told'.dropped
               /\ alarmRows'[a].st = "closed" \/ a \in Answered'
    <3>1. CASE a \in Ours
      <4>1. /\ alarmRows[a].st \in {"none", "open", "closed"}
            /\ alarmRows[a].st = "none" => a \in Pending \cup told.dropped
            /\ alarmRows[a].st = "closed" \/ a \in Answered
        BY <3>1 DEF KeptInv, AlarmReason
      <4>2. a # 0
        BY <3>1 DEF Ours, Fired
      <4>3. a \in Pending => a \in Pending'
        BY <1>2, <1>16, <2>3, <4>2 DEF Pending
      <4>4. a \in Answered => a \in Answered'
        <5>1. a = watched.latched => a \in {watched'.latched, frame'.closing}
          BY <1>2, <1>9, <2>1, <4>2 DEF latched
        <5> QED BY <1>2, <1>16, <4>2, <5>1 DEF Answered
      <4> QED BY <1>2, <4>1, <4>3, <4>4
    <3>2. CASE fires /\ a = alarm
      <4>1. alarmRows[a].st = "none"
        BY <1>2, <3>2, KeptFacts, ReviewConstants DEF KeptInv, AlarmReason, Fired
      <4>2. watched'.latched = alarm
        BY <1>2, <3>2
      <4> QED BY <1>2, <2>3, <3>2, <4>1, <4>2 DEF Answered
    <3> QED BY <2>2, <2>6, <3>1, <3>2
  <2> QED BY <2>4, <2>5, <2>6 DEF AlarmReason
<1>18. watched'.latched # 0 => watched'.entered # 0
  <2>1. entered = 0 => latched = 0 /\ ~fires
    BY KeptFacts DEF KeptInv
  <2> QED BY <1>2, <2>1
<1> QED BY <1>1, <1>10, <1>11, <1>12, <1>13, <1>14, <1>15, <1>17, <1>18 DEF KeptInv
-------------------------------------------------------------------------------
(* The calls of a frame. *)

LEMMA OpenedPlace ==
  ASSUME NEW f, f = [pc |-> f.pc, active |-> f.active, closing |-> f.closing, fired |-> f.fired,
                     flushing |-> f.flushing],
         NEW review
  PROVE  /\ OnceOpened(f, review) = [pc |-> OnceOpened(f, review).pc, active |-> f.active,
                 closing |-> f.closing, fired |-> f.fired, flushing |-> f.flushing]
         /\ OnceOpened(f, review).pc \in {"wait", "update", "write"}
         /\ f.fired # 0 => OnceOpened(f, review).pc # "wait"
         /\ OnceOpened(f, review).pc = "write" => f.fired # 0
  BY DEF OnceOpened, OnceUpdated

\* A call is made in a run, and by a frame that knows its review.
LEMMA CallPlace ==
  ASSUME KeptInv, frame.pc # "wait"
  PROVE  /\ running
         /\ frame.pc \in {"open", "flush", "update", "close"}
              => underway.id \in Segs /\ underway.id # 0 /\ issued.segsBefore < underway.id
         /\ frame.pc # "flush" => frame.flushing = {}
         /\ frame.pc # "release" => frame.closing = 0
<1>1. running
  BY DEF KeptInv, BetweenRuns, NoFrame
<1>2. frame.pc \in {"open", "flush", "update", "close"} => underway.id # 0
  BY DEF KeptInv, FramePlace, ReviewInv, FrameIsNow
<1> QED BY <1>1, <1>2, KeptFacts DEF KeptInv, FramePlace, CurrentOpen

\* What a call of a frame leaves alone needs no second look.
LEMMA ReleaseKept ==
  ASSUME KeptInv, NEW out \in Outcomes, ReleaseAlarm(out) PROVE KeptInv'
<1> DEFINE a == frame.closing
           ends == Stores(out) /\ alarmRows[a].st = "open"
           row == [alarmRows[a] EXCEPT !.st = "closed", !.tLast = instant, !.tEnd = instant]
           f == [frame EXCEPT !.closing = 0]
<1>1. ReviewInv'
  BY OtherCalls DEF KeptInv
<1>2. /\ frame.pc = "release"
      /\ alarmRows' = IF ends THEN [alarmRows EXCEPT ![a] = row] ELSE alarmRows
      /\ told' = IF ends THEN told ELSE [told EXCEPT !.missed = @ \cup {a}]
      /\ frame' = OnceReleased(f, underway)
      /\ UNCHANGED <<instant, running, reviews, underway, watched, deferred, snapshot, issued, alarmOf>>
  BY DEF ReleaseAlarm
<1>3. /\ told' = [unclosed |-> told'.unclosed, missed |-> told'.missed, dropped |-> told'.dropped,
                  unfinished |-> told'.unfinished, slipped |-> told'.slipped]
      /\ told'.unclosed = told.unclosed /\ told'.dropped = told.dropped
      /\ told'.unfinished = told.unfinished /\ told'.slipped = told.slipped
      /\ told'.missed = IF ends THEN told.missed ELSE told.missed \cup {a}
  BY <1>2 DEF KeptInv, ShapesOK
<1>4. /\ f = [pc |-> f.pc, active |-> f.active, closing |-> f.closing, fired |-> f.fired,
              flushing |-> f.flushing]
      /\ f.active = frame.active /\ f.closing = 0 /\ f.fired = frame.fired /\ f.flushing = {}
  BY <1>2, CallPlace, KeptFacts DEF FrameOK
<1>5. /\ frame' = [pc |-> frame'.pc, active |-> frame.active, closing |-> 0, fired |-> frame.fired,
                   flushing |-> {}]
      /\ frame'.pc \in {"wait", "open", "update", "write", "close"}
      /\ frame'.pc = "close" => underway.id # 0
      /\ frame.fired # 0 => frame'.pc \notin {"wait", "close"}
      /\ frame'.pc = "write" => frame.fired # 0
  <2>1. frame.active \in BOOLEAN /\ (frame.fired # 0 => frame.active)
        /\ (frame.active => underway.id # 0)
    BY <1>2 DEF KeptInv, FramePlace
  <2> HIDE DEF f
  <2> QED BY <1>2, <1>4, <2>1, ReleasedPlace
<1> HIDE DEF f
<1>6. alarmRows' \in [Fired -> Times] /\ \A b \in Fired : b # a => alarmRows'[b] = alarmRows[b]
  <2>1. a \in Fired => row \in Times
    BY KeptFacts DEF Times
  <2> HIDE DEF row
  <2> QED BY <1>2, <2>1, KeptFacts
<1>7. a \in Fired /\ ends => alarmRows'[a].st = "closed"
  BY <1>2, KeptFacts DEF Times
<1>8. a \in Fired /\ ~ends => alarmRows'[a] = alarmRows[a]
  BY <1>2
<1> HIDE DEF ends, row
<1>9. ShapesOK'
  BY <1>2, <1>3, <1>6 DEF KeptInv, ShapesOK
<1>10. BetweenRuns' /\ FramePlace' /\ CurrentOpen'
  <2>1. running
    BY <1>2, CallPlace
  <2>2. FramePlace'
    BY <1>2, <1>5 DEF KeptInv, FramePlace
  <2> QED BY <1>2, <2>1, <2>2 DEF KeptInv, BetweenRuns, CurrentOpen
<1>11. AsSeen' /\ OpenReason'
  <2>1. ASSUME NEW b \in Fired, alarmRows'[b].st = "open" PROVE alarmRows'[b] = alarmRows[b]
    BY <1>6, <1>7, <1>8, <2>1
  <2>2. DOMAIN alarmRows' = Fired /\ DOMAIN alarmRows = Fired
    BY <1>6, KeptFacts
  <2>3. LeftOpen(alarmRows, "alarm", issued.alarmsBefore)
        => LeftOpen(alarmRows, "alarm", issued.alarmsBefore)'
    BY <1>2, <1>3, <2>1, <2>2 DEF LeftOpen, LeftBehind, LapsedAt
  <2> QED BY <1>2, <1>3, <2>3 DEF KeptInv, AsSeen, LeftOpen, LeftBehind, LapsedAt, OpenReason
<1>12. AlarmReason'
  <2>1. Ours' = Ours /\ Pending' = Pending
    BY <1>2, <1>5, CallPlace DEF Ours, Pending
  <2>2. \A b \in Fired : b > issued.alarms => alarmRows'[b].st = "none"
    <3>1. ASSUME NEW b \in Fired, b > issued.alarms PROVE alarmRows'[b].st = "none"
      <4>1. alarmRows[b].st = "none"
        BY <3>1 DEF KeptInv, AlarmReason
      <4>2. b = a => ~ends
        BY <4>1 DEF ends
      <4> QED BY <1>6, <1>8, <4>1, <4>2
    <3> QED BY <3>1
  <2>3. ASSUME NEW b \in Ours
        PROVE  /\ alarmRows'[b].st \in {"none", "open", "closed"}
               /\ alarmRows'[b].st = "none" => b \in Pending \cup told'.dropped
               /\ alarmRows'[b].st = "closed" \/ b \in Answered'
    <3>1. /\ b \in Fired /\ alarmRows[b].st \in {"none", "open", "closed"}
          /\ alarmRows[b].st = "none" => b \in Pending \cup told.dropped
          /\ alarmRows[b].st = "closed" \/ b \in Answered
      BY DEF KeptInv, AlarmReason, Ours
    <3>2. CASE b = a
      <4>1. ~ends => b \in Answered'
        BY <1>3, <3>2 DEF Answered
      <4> QED BY <1>3, <1>7, <1>8, <3>1, <3>2, <4>1
    <3>3. CASE b # a
      <4>1. b \in Answered => b \in Answered'
        BY <1>2, <1>3, <3>3 DEF Answered
      <4> QED BY <1>3, <1>6, <3>1, <3>3, <4>1
    <3> QED BY <3>2, <3>3
  <2> QED BY <1>2, <1>5, <2>1, <2>2, <2>3 DEF KeptInv, AlarmReason
<1> QED BY <1>1, <1>2, <1>9, <1>10, <1>11, <1>12 DEF KeptInv

\* The review is opened, or is not; what waits for it is flushed when it is.
LEMMA OpenKept ==
  ASSUME KeptInv, NEW out \in Outcomes, OpenSegment(out) PROVE KeptInv'
<1> DEFINE id == underway.id
           row == [st |-> "open", tStart |-> underway.tStart, tLast |-> underway.tStart, tEnd |-> 0]
           opened == [underway EXCEPT !.retryAt = instant + OpenRetry, !.persisted = (out = "done")]
           flush == out = "done" /\ deferred # {}
           stores == Stores(out) /\ reviews[id].st = "none"
<1>1. ReviewInv'
  BY OpeningKeeps DEF KeptInv
<1>2. /\ frame.pc = "open" /\ underway' = opened
      /\ reviews' = IF stores THEN [reviews EXCEPT ![id] = row] ELSE reviews
      /\ deferred' = IF flush THEN {} ELSE deferred
      /\ frame' = IF flush THEN [frame EXCEPT !.pc = "flush", !.flushing = deferred]
                  ELSE OnceOpened(frame, opened)
      /\ UNCHANGED <<instant, running, alarmRows, watched, snapshot, issued, alarmOf, told>>
  BY DEF OpenSegment
<1>3. running /\ id \in Segs /\ id # 0 /\ issued.segsBefore < id /\ frame.flushing = {}
      /\ frame.closing = 0
  BY <1>2, CallPlace
<1>4. opened.id = id /\ opened.persisted = (out = "done")
  BY KeptFacts DEF Underways
<1> HIDE DEF opened
<1>5. /\ \A r \in Segs : r # id => reviews'[r] = reviews[r]
      /\ reviews'[id].st \in {"none", "open"}
      /\ out = "done" => reviews'[id].st = "open"
  <2>1. reviews[id].st \in {"none", "open"}
    BY <1>3 DEF KeptInv, CurrentOpen
  <2>2. out = "done" => Stores(out)
    BY DEF Stores
  <2> QED BY <1>2, <1>3, <2>1, <2>2, KeptFacts
<1>6. /\ frame' = [pc |-> frame'.pc, active |-> frame.active, closing |-> 0, fired |-> frame.fired,
                   flushing |-> frame'.flushing]
      /\ frame'.pc \in {"wait", "flush", "update", "write"}
      /\ frame.fired # 0 => frame'.pc # "wait"
      /\ frame'.pc = "write" => frame.fired # 0
      /\ (frame'.pc = "flush") <=> (frame'.flushing # {})
      /\ deferred' \cup frame'.flushing = deferred
  <2>1. CASE flush
    BY <1>2, <1>3, <2>1, KeptFacts DEF FrameOK
  <2>2. CASE ~flush
    <3>1. frame' = OnceOpened(frame, opened) /\ deferred' = deferred
      BY <1>2, <2>2
    <3> QED BY <1>3, <3>1, OpenedPlace, KeptFacts DEF FrameOK
  <2> QED BY <2>1, <2>2
<1> HIDE DEF flush, stores, row
<1>7. ShapesOK'
  BY <1>2 DEF KeptInv, ShapesOK
<1>8. BetweenRuns' /\ FramePlace'
  <2>1. frame'.active = frame.active /\ frame'.closing = 0 /\ frame'.fired = frame.fired
    BY <1>6
  <2>2. underway'.id # 0
    BY <1>2, <1>3, <1>4
  <2> QED BY <1>2, <1>3, <1>6, <2>1, <2>2 DEF KeptInv, BetweenRuns, FramePlace
<1>9. CurrentOpen'
  BY <1>2, <1>3, <1>4, <1>5 DEF CurrentOpen
<1>10. AsSeen' /\ OpenReason'
  <2>1. DOMAIN reviews' = Segs /\ DOMAIN reviews = Segs
    BY <1>1, KeptFacts DEF ReviewInv, TimesOK
  <2>2. \A r \in Segs : r <= issued.segsBefore => reviews'[r] = reviews[r]
    BY <1>3, <1>5, KeptFacts DEF Segs
  <2>3. LeftOpen(reviews, "review", issued.segsBefore)
        => LeftOpen(reviews, "review", issued.segsBefore)'
    BY <1>2, <2>1, <2>2 DEF LeftOpen, LeftBehind, LapsedAt
  <2>4. AsSeen'
    BY <1>2, <2>3 DEF KeptInv, AsSeen, LeftOpen, LeftBehind, LapsedAt
  <2>5. OpenReason'
    BY <1>2, <1>4, <1>5 DEF KeptInv, OpenReason
  <2> QED BY <2>4, <2>5
<1>11. AlarmReason'
  <2>1. Ours' = Ours /\ Answered' = Answered
    BY <1>2, <1>3, <1>6 DEF Ours, Answered
  <2>2. Pending' = Pending
    BY <1>3, <1>6 DEF Pending
  <2>3. 0 \notin deferred' \cup frame'.flushing
    BY <1>6 DEF KeptInv, AlarmReason
  <2> QED BY <1>2, <2>1, <2>2, <2>3 DEF KeptInv, AlarmReason
<1> QED BY <1>1, <1>2, <1>7, <1>8, <1>9, <1>10, <1>11 DEF KeptInv

\* An alarm of this run that is written is stored when the call succeeds, and no row that is
\* there is written over.
LEMMA RowWritten ==
  ASSUME KeptInv, NEW a \in Ours, NEW out \in Outcomes, WriteRow(a, out)
  PROVE  /\ alarmRows' \in [Fired -> Times]
         /\ \A b \in Fired : b # a \/ alarmRows[b].st # "none" => alarmRows'[b] = alarmRows[b]
         /\ alarmRows'[a].st \in {"none", "open", "closed"}
         /\ out = "done" => alarmRows'[a].st # "none"
         /\ alarmRows'[a].st = "closed" <=> alarmRows[a].st = "closed"
<1> DEFINE row == [st |-> "open", tStart |-> alarmOf[a].at, tLast |-> alarmOf[a].at, tEnd |-> 0]
           stores == Stores(out) /\ alarmRows[a].st = "none"
<1>1. a \in Fired /\ alarmRows[a].st \in {"none", "open", "closed"}
  BY DEF KeptInv, AlarmReason, Ours
<1>2. alarmRows' = IF stores THEN [alarmRows EXCEPT ![a] = row] ELSE alarmRows
  BY DEF WriteRow
<1>3. row \in Times
  BY <1>1, KeptFacts DEF Times
<1>4. row.st = "open" /\ (out = "done" => Stores(out))
  BY DEF Stores
<1> HIDE DEF row
<1>5. CASE stores
  <2>1. alarmRows' = [alarmRows EXCEPT ![a] = row]
    BY <1>2, <1>5
  <2> QED BY <1>1, <1>3, <1>4, <1>5, <2>1, KeptFacts
<1>6. CASE ~stores
  BY <1>1, <1>2, <1>4, <1>6, KeptFacts
<1> QED BY <1>5, <1>6

\* What such a call means for the alarms, once it is said where a is remembered.
LEMMA WrittenReason ==
  ASSUME KeptInv, NEW a \in Ours, NEW out \in Outcomes, WriteRow(a, out),
         UNCHANGED <<issued, snapshot, running, watched>>,
         frame'.closing = frame.closing, told'.missed = told.missed,
         told'.unfinished = told.unfinished, told'.slipped = told.slipped, instant' = instant,
         Pending \subseteq Pending' \cup {0, a}, Pending' \subseteq Pending \cup {0, a},
         0 \notin deferred' \cup frame'.flushing, told.dropped \subseteq told'.dropped,
         out # "done" => a \in Pending' \cup told'.dropped
  PROVE  /\ AlarmReason'
         /\ LeftOpen(alarmRows, "alarm", issued.alarmsBefore)
            => LeftOpen(alarmRows, "alarm", issued.alarmsBefore)'
<1>1. Ours' = Ours /\ Answered' = Answered
  BY DEF Ours, Answered
<1>2. a \in Fired /\ a # 0 /\ issued.alarmsBefore < a /\ a <= issued.alarms
  BY DEF Ours, Fired
<1>3. ASSUME NEW b \in Ours
      PROVE  /\ alarmRows'[b].st \in {"none", "open", "closed"}
             /\ alarmRows'[b].st = "none" => b \in Pending' \cup told'.dropped
             /\ alarmRows'[b].st = "closed" \/ b \in Answered
  <2>1. /\ b \in Fired /\ b # 0 /\ alarmRows[b].st \in {"none", "open", "closed"}
        /\ alarmRows[b].st = "none" => b \in Pending \cup told.dropped
        /\ alarmRows[b].st = "closed" \/ b \in Answered
    BY DEF KeptInv, AlarmReason, Ours, Fired
  <2>2. CASE b = a
    BY <2>1, <2>2, RowWritten
  <2>3. CASE b # a
    BY <2>1, <2>3, RowWritten
  <2> QED BY <2>2, <2>3
<1>4. \A b \in Fired : b > issued.alarms => alarmRows'[b].st = "none"
  <2>1. ASSUME NEW b \in Fired, b > issued.alarms PROVE alarmRows'[b] = alarmRows[b]
    BY <1>2, <2>1, RowWritten, KeptFacts DEF Fired
  <2> QED BY <2>1 DEF KeptInv, AlarmReason
<1>5. Pending' \subseteq Ours \cup {0}
  BY DEF KeptInv, AlarmReason
<1>6. AlarmReason'
  BY <1>1, <1>3, <1>4, <1>5 DEF AlarmReason
<1>7. \A b \in Fired : b <= issued.alarmsBefore => alarmRows'[b] = alarmRows[b]
  BY <1>2, RowWritten, KeptFacts DEF Fired
<1>8. DOMAIN alarmRows' = Fired /\ DOMAIN alarmRows = Fired
  BY RowWritten, KeptFacts
<1> QED BY <1>6, <1>7, <1>8 DEF LeftOpen, LeftBehind, LapsedAt

\* Some alarm of a set is the first one.
LEMMA FirstAlarm ==
  ASSUME NEW T \in SUBSET Nat, T # {} PROVE Min(T) \in T
<1> DEFINE R == OpToRel(<, Nat)
<1>1. IsWellFoundedOn(R, Nat)
  BY NatLessThanWellFounded
<1>2. \A x, y \in Nat : <<y, x>> \notin R => x <= y
  BY DEF OpToRel
<1> HIDE DEF R
<1>3. \E x \in T : \A y \in T : <<y, x>> \notin R
  BY <1>1, WFMin
<1>4. \E x \in T : \A y \in T : x <= y
  BY <1>2, <1>3
<1> QED BY <1>4 DEF Min

LEMMA FlushKept ==
  ASSUME KeptInv, NEW out \in Outcomes, FlushAlarm(out) PROVE KeptInv'
<1> DEFINE a == Min(frame.flushing)
           rest == frame.flushing \ {a}
           f == [frame EXCEPT !.flushing = {}]
<1>1. ReviewInv'
  BY OtherCalls DEF KeptInv
<1>2. /\ frame.pc = "flush" /\ WriteRow(a, out)
      /\ deferred' = IF out = "done" THEN deferred ELSE deferred \cup {a}
      /\ frame' = IF rest = {} THEN OnceOpened(f, underway) ELSE [frame EXCEPT !.flushing = rest]
      /\ UNCHANGED <<instant, running, reviews, underway, watched, snapshot, issued, alarmOf, told>>
  BY DEF FlushAlarm
<1>3. running /\ underway.id # 0 /\ frame.closing = 0 /\ frame.flushing # {}
  BY <1>2, CallPlace DEF KeptInv, FramePlace
<1>4. a \in frame.flushing /\ a \in Ours /\ a # 0
  <2>1. frame.flushing \subseteq Ours
    BY DEF KeptInv, AlarmReason, Pending
  <2>2. frame.flushing \in SUBSET Nat
    BY <2>1 DEF Ours, Fired
  <2>3. a \in frame.flushing
    BY <1>3, <2>2, FirstAlarm
  <2> QED BY <2>1, <2>3 DEF KeptInv, AlarmReason
<1> HIDE DEF a
<1>5. /\ f = [pc |-> f.pc, active |-> f.active, closing |-> f.closing, fired |-> f.fired,
              flushing |-> f.flushing]
      /\ f.active = frame.active /\ f.closing = 0 /\ f.fired = frame.fired /\ f.flushing = {}
  <2>0. PICK g : g = [frame EXCEPT !.flushing = {}]
    OBVIOUS
  <2>1. frame = [pc |-> frame.pc, active |-> frame.active, closing |-> frame.closing,
                 fired |-> frame.fired, flushing |-> frame.flushing]
    BY KeptFacts DEF FrameOK
  <2>2. /\ g = [pc |-> g.pc, active |-> g.active, closing |-> g.closing, fired |-> g.fired,
                flushing |-> g.flushing]
        /\ g.active = frame.active /\ g.closing = frame.closing /\ g.fired = frame.fired
        /\ g.flushing = {}
    BY <2>0, <2>1
  <2> QED BY <1>3, <2>0, <2>2
<1>6. /\ frame'.active = frame.active /\ frame'.closing = 0 /\ frame'.fired = frame.fired
      /\ frame'.flushing = rest
      /\ frame'.pc \in {"wait", "flush", "update", "write"}
      /\ (frame'.pc = "flush") <=> (rest # {})
      /\ frame.fired # 0 => frame'.pc # "wait"
      /\ frame'.pc = "write" => frame.fired # 0
  <2>1. CASE rest = {}
    <3> HIDE DEF f
    <3>1. frame' = OnceOpened(f, underway)
      BY <1>2, <2>1
    <3> QED BY <1>5, <2>1, <3>1, OpenedPlace
  <2>2. CASE rest # {}
    BY <1>2, <1>3, <2>2, KeptFacts DEF FrameOK
  <2> QED BY <2>1, <2>2
<1> HIDE DEF f
<1>7. BetweenRuns' /\ FramePlace' /\ CurrentOpen' /\ OpenReason'
  BY <1>2, <1>3, <1>6 DEF KeptInv, BetweenRuns, FramePlace, CurrentOpen, OpenReason
<1>8. ShapesOK'
  BY <1>2, <1>4, RowWritten DEF KeptInv, ShapesOK
<1>9. /\ AlarmReason'
      /\ LeftOpen(alarmRows, "alarm", issued.alarmsBefore)
         => LeftOpen(alarmRows, "alarm", issued.alarmsBefore)'
  <2>1. /\ Pending \subseteq Pending' \cup {0, a} /\ Pending' \subseteq Pending \cup {0, a}
        /\ 0 \notin deferred' \cup frame'.flushing
        /\ out # "done" => a \in Pending'
    BY <1>2, <1>4, <1>6 DEF Pending, KeptInv, AlarmReason
  <2> QED BY <1>2, <1>3, <1>4, <1>6, <2>1, WrittenReason
<1>10. AsSeen'
  BY <1>2, <1>9 DEF KeptInv, AsSeen, LeftOpen, LeftBehind, LapsedAt
<1> QED BY <1>1, <1>2, <1>7, <1>8, <1>9, <1>10 DEF KeptInv

LEMMA WriteKept ==
  ASSUME KeptInv, NEW out \in Outcomes, WriteAlarm(out) PROVE KeptInv'
<1> DEFINE a == frame.fired
<1>1. ReviewInv'
  BY OtherCalls DEF KeptInv
<1>2. /\ frame.pc = "write" /\ WriteRow(a, out) /\ frame' = NoFrame
      /\ deferred' = IF out # "done" /\ ~underway.persisted THEN deferred \cup {a} ELSE deferred
      /\ told' = IF out # "done" /\ underway.persisted
                 THEN [told EXCEPT !.dropped = @ \cup {a}] ELSE told
      /\ UNCHANGED <<instant, running, reviews, underway, watched, snapshot, issued, alarmOf>>
  BY DEF WriteAlarm
<1>3. running /\ frame.closing = 0 /\ frame.flushing = {} /\ a # 0
  BY <1>2, CallPlace DEF KeptInv, FramePlace
<1>4. a \in Ours
  BY <1>3 DEF KeptInv, AlarmReason, Pending
<1>5. /\ told' = [unclosed |-> told'.unclosed, missed |-> told'.missed, dropped |-> told'.dropped,
                  unfinished |-> told'.unfinished, slipped |-> told'.slipped]
      /\ told'.unclosed = told.unclosed /\ told'.missed = told.missed
      /\ told'.unfinished = told.unfinished /\ told'.slipped = told.slipped /\ told.dropped \subseteq told'.dropped
      /\ out # "done" /\ underway.persisted => a \in told'.dropped
  BY <1>2 DEF KeptInv, ShapesOK
<1>6. BetweenRuns' /\ FramePlace' /\ CurrentOpen' /\ OpenReason'
  BY <1>2, <1>3, <1>5 DEF KeptInv, BetweenRuns, FramePlace, CurrentOpen, OpenReason, NoFrame
<1>7. ShapesOK'
  BY <1>2, <1>4, <1>5, RowWritten DEF KeptInv, ShapesOK
<1>8. /\ AlarmReason'
      /\ LeftOpen(alarmRows, "alarm", issued.alarmsBefore)
         => LeftOpen(alarmRows, "alarm", issued.alarmsBefore)'
  <2>1. frame'.fired = 0 /\ frame'.flushing = {} /\ frame'.closing = 0
    BY <1>2 DEF NoFrame
  <2>2. /\ Pending \subseteq Pending' \cup {0, a} /\ Pending' \subseteq Pending \cup {0, a}
        /\ 0 \notin deferred' \cup frame'.flushing
        /\ out # "done" => a \in Pending' \cup told'.dropped
    BY <1>2, <1>3, <1>5, <2>1 DEF Pending, KeptInv, AlarmReason
  <2> QED BY <1>2, <1>3, <1>4, <1>5, <2>1, <2>2, WrittenReason
<1>9. AsSeen'
  BY <1>2, <1>5, <1>8 DEF KeptInv, AsSeen, LeftOpen, LeftBehind, LapsedAt
<1> QED BY <1>1, <1>2, <1>6, <1>7, <1>8, <1>9 DEF KeptInv

\* A review that is written again stays open; one that is closed has an end, or is told of.
LEMMA UpdateKept ==
  ASSUME KeptInv, NEW out \in Outcomes, UpdateSegment(out) PROVE KeptInv'
<1> DEFINE id == underway.id
           row == [reviews[id] EXCEPT !.tLast = LaterOf(@, instant)]
<1>1. ReviewInv'
  BY UpdatingKeeps DEF KeptInv
<1>2. /\ frame.pc = "update" /\ frame' = OnceUpdated(frame)
      /\ reviews' = IF Stores(out) /\ reviews[id].st = "open" THEN [reviews EXCEPT ![id] = row]
                    ELSE reviews
      /\ UNCHANGED <<instant, running, alarmRows, underway, watched, deferred, snapshot, issued,
                     alarmOf, told>>
  BY DEF UpdateSegment
<1>3. running /\ id \in Segs /\ id # 0 /\ issued.segsBefore < id /\ frame.flushing = {}
      /\ frame.closing = 0
  BY <1>2, CallPlace
<1>4. \A r \in Segs : (r # id => reviews'[r] = reviews[r]) /\ reviews'[r].st = reviews[r].st
  <2>1. row.st = reviews[id].st
    BY <1>3, KeptFacts DEF Times
  <2> HIDE DEF row
  <2> QED BY <1>2, <1>3, <2>1, KeptFacts
<1> HIDE DEF row
<1>5. /\ frame'.active = frame.active /\ frame'.closing = 0 /\ frame'.fired = frame.fired
      /\ frame'.flushing = {} /\ frame'.pc \in {"wait", "write"}
      /\ (frame'.pc = "write") <=> (frame.fired # 0)
  BY <1>2, <1>3, KeptFacts DEF FrameOK, OnceUpdated
<1>6. ShapesOK' /\ BetweenRuns' /\ FramePlace'
  BY <1>2, <1>3, <1>5 DEF KeptInv, ShapesOK, BetweenRuns, FramePlace
<1>7. CurrentOpen' /\ OpenReason'
  BY <1>2, <1>3, <1>4 DEF KeptInv, CurrentOpen, OpenReason
<1>8. AsSeen'
  <2>1. DOMAIN reviews' = Segs /\ DOMAIN reviews = Segs
    BY <1>1, KeptFacts DEF ReviewInv, TimesOK
  <2>2. \A r \in Segs : r <= issued.segsBefore => reviews'[r] = reviews[r]
    BY <1>3, <1>4, KeptFacts DEF Segs
  <2>3. LeftOpen(reviews, "review", issued.segsBefore)
        => LeftOpen(reviews, "review", issued.segsBefore)'
    BY <1>2, <2>1, <2>2 DEF LeftOpen, LeftBehind, LapsedAt
  <2> QED BY <1>2, <2>3 DEF KeptInv, AsSeen, LeftOpen, LeftBehind, LapsedAt
<1>9. AlarmReason'
  <2>1. Ours' = Ours /\ Answered' = Answered /\ Pending' = Pending
    BY <1>2, <1>3, <1>5 DEF Ours, Answered, Pending
  <2> QED BY <1>2, <1>3, <1>5, <2>1 DEF KeptInv, AlarmReason
<1> QED BY <1>1, <1>2, <1>6, <1>7, <1>8, <1>9 DEF KeptInv

LEMMA CloseKept ==
  ASSUME KeptInv, NEW out \in Outcomes, CloseSegment(out) PROVE KeptInv'
<1> DEFINE id == underway.id
           end == LaterOf(reviews[id].tLast, underway.last)
           row == [reviews[id] EXCEPT !.st = "closed", !.tLast = end, !.tEnd = end]
           ends == Stores(out) /\ reviews[id].st = "open"
<1>1. ReviewInv'
  BY ClosingKeeps DEF KeptInv
<1>2. /\ frame.pc = "close" /\ underway' = NoReview /\ frame' = NoFrame
      /\ reviews' = IF ends THEN [reviews EXCEPT ![id] = row] ELSE reviews
      /\ told' = IF ends THEN told ELSE [told EXCEPT !.unclosed = @ \cup {id}]
      /\ UNCHANGED <<instant, running, alarmRows, watched, deferred, snapshot, issued, alarmOf>>
  BY DEF CloseSegment
<1>3. running /\ id \in Segs /\ id # 0 /\ issued.segsBefore < id /\ frame.flushing = {}
      /\ frame.closing = 0 /\ frame.fired = 0
  BY <1>2, CallPlace DEF KeptInv, FramePlace
<1>4. /\ told' = [unclosed |-> told'.unclosed, missed |-> told'.missed, dropped |-> told'.dropped,
                  unfinished |-> told'.unfinished, slipped |-> told'.slipped]
      /\ told'.missed = told.missed /\ told'.dropped = told.dropped
      /\ told'.unfinished = told.unfinished /\ told'.slipped = told.slipped
      /\ told'.unclosed = IF ends THEN told.unclosed ELSE told.unclosed \cup {id}
  BY <1>2 DEF KeptInv, ShapesOK
<1>5. /\ \A r \in Segs : r # id => reviews'[r] = reviews[r]
      /\ IF ends THEN reviews'[id].st = "closed" ELSE reviews'[id] = reviews[id]
  <2>1. row.st = "closed"
    BY <1>3, KeptFacts DEF Times
  <2> HIDE DEF row
  <2> QED BY <1>2, <1>3, <2>1, KeptFacts
<1> HIDE DEF ends, row
<1>6. ShapesOK' /\ BetweenRuns' /\ FramePlace'
  BY <1>2, <1>3, <1>4 DEF KeptInv, ShapesOK, BetweenRuns, FramePlace, NoFrame
<1>7. CurrentOpen' /\ OpenReason'
  <2>1. CurrentOpen'
    BY <1>2 DEF CurrentOpen, NoReview
  <2>2. OpenReason'
    BY <1>2, <1>4, <1>5 DEF KeptInv, OpenReason
  <2> QED BY <2>1, <2>2
<1>8. AsSeen'
  <2>1. DOMAIN reviews' = Segs /\ DOMAIN reviews = Segs
    BY <1>1, KeptFacts DEF ReviewInv, TimesOK
  <2>2. \A r \in Segs : r <= issued.segsBefore => reviews'[r] = reviews[r]
    BY <1>3, <1>5, KeptFacts DEF Segs
  <2>3. LeftOpen(reviews, "review", issued.segsBefore)
        => LeftOpen(reviews, "review", issued.segsBefore)'
    BY <1>2, <1>4, <2>1, <2>2 DEF LeftOpen, LeftBehind, LapsedAt
  <2> QED BY <1>2, <1>4, <2>3 DEF KeptInv, AsSeen, LeftOpen, LeftBehind, LapsedAt
<1>9. AlarmReason'
  <2>1. Ours' = Ours /\ Answered' = Answered /\ Pending' = Pending
    BY <1>2, <1>3, <1>4 DEF Ours, Answered, Pending, NoFrame
  <2>2. frame'.flushing = {}
    BY <1>2 DEF NoFrame
  <2> QED BY <1>2, <1>4, <2>1, <2>2 DEF KeptInv, AlarmReason
<1> QED BY <1>1, <1>2, <1>6, <1>7, <1>8, <1>9 DEF KeptInv
-------------------------------------------------------------------------------
LEMMA StepKept == ASSUME KeptInv, [ReviewNext]_reviewvars PROVE KeptInv'
<1>1. CASE UNCHANGED reviewvars
  <2>1. ReviewInv'
    BY <1>1, StepKeeps DEF KeptInv
  <2>2. UNCHANGED <<instant, running, reviews, alarmRows, underway, watched, deferred, frame,
                    snapshot, issued, alarmOf, told>>
    BY <1>1 DEF reviewvars
  <2>3. ShapesOK' /\ BetweenRuns' /\ FramePlace' /\ CurrentOpen' /\ AsSeen' /\ OpenReason'
    BY <2>2 DEF KeptInv, ShapesOK, BetweenRuns, FramePlace, CurrentOpen, AsSeen, LeftOpen, LeftBehind, LapsedAt, OpenReason
  <2>4. AlarmReason'
    BY <2>2 DEF KeptInv, AlarmReason, Ours, Pending, Answered
  <2> QED BY <2>1, <2>2, <2>3, <2>4 DEF KeptInv
<1>2. CASE ReviewNext
  BY <1>2, StartKept, FinalizeKept, EndKept, ElapseKept, SeeKept, ReleaseKept, OpenKept, FlushKept,
     UpdateKept, WriteKept, CloseKept DEF ReviewNext
<1> QED BY <1>1, <1>2

\* The reviews and alarms of a camera are honest: what is open is the one under way, or one
\* whose closing failed, or was left to the startup's second look, or slipped through that
\* startup and is closed by the next; reviews are in time; an alarm is stored, on its way, waiting or dropped where its own write failed, and open
\* only while it is latched or because its release did nothing (monitor.py, db.py).
THEOREM ReviewsStayHonest == ReviewSpec => []ReviewsHonest
<1>1. ReviewInit => KeptInv
  BY KeptStarts
<1>2. KeptInv /\ [ReviewNext]_reviewvars => KeptInv'
  BY StepKept
<1>3. KeptInv => ReviewsHonest
  BY KeptHonest
<1> QED BY <1>1, <1>2, <1>3, PTL DEF ReviewSpec
-------------------------------------------------------------------------------
(* BestFrames: the frame of an object, its rows and its files. *)

Assets == [path : Frames \cup {0}, state : {"available", "missing", "corrupt"},
           judged : Frames \cup {0}]
FrameShape ==
    /\ disk \in [Frames -> {"none", "good", "bad"}] /\ assets \in [Owners -> Assets]
    /\ happened \in [Happenings -> {"none", "open", "closed"}]
    /\ endedAt \in [Happenings -> Frames \cup {0}] /\ harmed \subseteq Frames
    /\ withdrawn \subseteq Frames
    /\ cam \in [pc : {"idle", "index", "sweep"} \cup Happenings, at : Frames \cup {0},
                old : Frames \cup {0}]
    /\ reader \in [pc : {"idle", "open", "mark"}, owner : Owners, path : Frames \cup {0},
                   verdict : {"available", "missing", "corrupt"}]
\* Frames get better: no row is ahead of the object's, and no verdict is about a frame the
\* row has not got to.
Ordered == \A o \in Owners : assets[o].path <= BestPath /\ assets[o].judged <= assets[o].path
\* A row names a file that is there as it was written, or is gone and the history says so.
Intact(f) == disk[f] = "good" \/ Vanished(f)
RowsIntact == \A o \in Owners : assets[o].path # 0 => Intact(assets[o].path)
\* What the camera thread is about to do to the index and the disk.
CameraKnows ==
    /\ cam.pc = "index" => /\ cam.at \in Frames /\ cam.old = BestPath /\ cam.at > BestPath
                           /\ ~Referenced(cam.at) /\ Intact(cam.at)
    /\ cam.pc = "sweep" => cam.old \in Frames
    /\ cam.pc \in Happenings => assets[cam.pc].path = BestPath \/ cam.pc \in unlinked
\* A reader is not ahead of its row; if it found the file bad, the file was gone or the
\* row has moved on.
ReaderKnows ==
    reader.pc # "idle" =>
        /\ reader.path \in Frames /\ reader.path <= assets[reader.owner].path
        /\ reader.pc = "mark" /\ reader.verdict # "available" =>
              Vanished(reader.path) \/ reader.path < assets[reader.owner].path
FramesInv ==
    FrameShape /\ Ordered /\ RowsIntact /\ CameraKnows /\ ReaderKnows /\ FramesHonest


LEMMA FramesConstants ==
  /\ Frames \subseteq Nat \ {0} /\ 0 \notin Frames /\ \A x \in Frames \cup {0} : x \in Nat
  /\ \A e \in Happenings : e \in Owners /\ e \notin {"object", "idle", "index", "sweep"}
  /\ "object" \in Owners
<1>1. Frames \subseteq Nat \ {0}
  BY FramesAssumption
<1>2. \A e \in Happenings : e \in Owners /\ e \notin {"object", "idle", "index", "sweep"}
  BY FramesAssumption DEF Owners
<1>3. "object" \in Owners
  BY DEF Owners
<1> QED BY <1>1, <1>2, <1>3

\* Types, and numbers that can be compared.
LEMMA FramesFacts ==
  ASSUME FramesInv
  PROVE  /\ FrameShape /\ BestPath \in Frames \cup {0}
         /\ \A o \in Owners : /\ assets[o].path \in Frames \cup {0} /\ assets[o].path \in Nat
                              /\ assets[o].judged \in Frames \cup {0} /\ assets[o].judged \in Nat
         /\ cam.at \in Nat /\ cam.old \in Nat /\ reader.path \in Nat /\ reader.owner \in Owners
         /\ BestPath \in Nat
<1>1. FrameShape
  BY DEF FramesInv
<1>2. \A o \in Owners : assets[o].path \in Frames \cup {0} /\ assets[o].judged \in Frames \cup {0}
  BY <1>1 DEF FrameShape, Assets
<1>3. /\ cam.at \in Frames \cup {0} /\ cam.old \in Frames \cup {0}
      /\ reader.path \in Frames \cup {0} /\ reader.owner \in Owners
  BY <1>1 DEF FrameShape
<1>4. BestPath \in Frames \cup {0}
  BY <1>2, FramesConstants DEF BestPath
<1> QED BY <1>1, <1>2, <1>3, <1>4, FramesConstants

LEMMA FramesBegin == ASSUME FramesInit PROVE FramesInv
<1>1. FrameShape
  BY DEF FramesInit, FrameShape, NoAsset, Assets, CamIdle, NoReader, Owners
<1>2. \A o \in Owners : assets[o] = NoAsset
  BY DEF FramesInit
<1>3. BestPath = 0 /\ cam.pc = "idle" /\ reader.pc = "idle"
  BY <1>2, FramesConstants DEF FramesInit, BestPath, NoAsset, CamIdle, NoReader
<1>4. Ordered /\ RowsIntact
  BY <1>2, <1>3 DEF Ordered, RowsIntact, NoAsset
<1>5. CameraKnows /\ ReaderKnows
  BY <1>3, FramesConstants DEF CameraKnows, ReaderKnows
<1>6. FramesHonest
  BY <1>2, <1>3, FramesConstants DEF FramesHonest, FrameKept, FrameFollows, VerdictHonest, NoLitter, NoAsset,
     FramesInit
<1> QED BY <1>1, <1>4, <1>5, <1>6 DEF FramesInv

LEMMA WriteFrameKeeps == ASSUME FramesInv, NEW f \in Frames, WriteFrame(f) PROVE FramesInv'
<1>1. /\ cam.pc = "idle" /\ f > BestPath /\ disk[f] = "none" /\ f \notin harmed
      /\ disk' = [disk EXCEPT ![f] = "good"] /\ cam' = [pc |-> "index", at |-> f, old |-> BestPath]
      /\ UNCHANGED <<assets, happened, endedAt, reader, harmed, left, unlinked, withdrawn>>
  BY DEF WriteFrame
<1>2. ~Referenced(f)
  <2>1. \A o \in Owners : assets[o].path <= BestPath /\ assets[o].path \in Nat
    BY FramesFacts DEF FramesInv, Ordered
  <2> QED BY <1>1, <2>1, FramesFacts, FramesConstants DEF Referenced
<1>3. disk'[f] = "good" /\ \A g \in Frames : g # f => disk'[g] = disk[g]
  BY <1>1, FramesFacts DEF FrameShape
<1>4. FrameShape'
  BY <1>1, FramesFacts DEF FrameShape
<1>5. BestPath' = BestPath /\ \A g : Referenced(g)' <=> Referenced(g)
  BY <1>1 DEF BestPath, Referenced
<1>6. Ordered' /\ ReaderKnows'
  BY <1>1, <1>5 DEF FramesInv, Ordered, ReaderKnows, Vanished
<1>7. \A g \in Frames : Intact(g) => Intact(g)'
  BY <1>1, <1>3 DEF Intact, Vanished
<1>8. RowsIntact'
  <2>1. \A o \in Owners : assets[o].path # 0 => assets[o].path \in Frames
    BY FramesFacts
  <2> QED BY <1>1, <1>7, <2>1 DEF FramesInv, RowsIntact, Vanished
<1>9. CameraKnows'
  <2>1. Intact(f)'
    BY <1>3 DEF Intact, Vanished
  <2> QED BY <1>1, <1>2, <1>5, <2>1, FramesConstants DEF CameraKnows, Referenced
<1>10. FrameKept' /\ FrameFollows' /\ VerdictHonest'
  BY <1>1, <1>5, <1>8 DEF FramesInv, FramesHonest, FrameKept, FrameFollows, VerdictHonest, RowsIntact, Intact, Vanished
<1>11. NoLitter'
  BY <1>1, <1>3, <1>5 DEF FramesInv, FramesHonest, NoLitter
<1> QED BY <1>4, <1>6, <1>8, <1>9, <1>10, <1>11 DEF FramesInv, FramesHonest

\* Some rows, the object's among them, move on to the better frame.
LEMMA RowsMove ==
  ASSUME FramesInv, cam.pc = "index", NEW S \in SUBSET Owners, "object" \in S,
         \A o \in S : Follows(o), assets' = Moved(S)
  PROVE  /\ assets' \in [Owners -> Assets] /\ BestPath' = cam.at
         /\ \A o \in S : assets'[o].path = cam.at
         /\ \A o \in S \ {"object"} : /\ assets'[o].state = assets[o].state
                                      /\ assets'[o].judged = assets[o].judged
         /\ assets'["object"].state = "available"
         /\ \A o \in Owners \ S : assets'[o] = assets[o]
         /\ \A o \in Owners : /\ assets[o].path <= assets'[o].path /\ assets'[o].path \in Nat
                              /\ assets[o].judged < cam.at /\ assets[o].path < cam.at
         /\ Ordered'
<1>2. cam.at \in Frames /\ cam.old = BestPath /\ cam.at > BestPath
  BY DEF FramesInv, CameraKnows
<1>3. ASSUME NEW o \in Owners
      PROVE  /\ assets'[o] \in Assets
             /\ o = "object" => assets'[o].path = cam.at /\ assets'[o].state = "available"
                                /\ assets'[o].judged = 0
             /\ o # "object" /\ o \in S => /\ assets'[o].path = cam.at
                                           /\ assets'[o].state = assets[o].state
                                           /\ assets'[o].judged = assets[o].judged
             /\ o \notin S => assets'[o] = assets[o] /\ o # "object"
  <2>1. assets'[o] = IF o \notin S THEN assets[o]
                     ELSE IF o = "object" THEN [NoAsset EXCEPT !.path = cam.at]
                     ELSE [assets[o] EXCEPT !.path = cam.at]
    BY DEF Moved
  <2>2. assets[o] \in Assets
    BY FramesFacts DEF FrameShape
  <2>4. CASE o \notin S
    BY <2>1, <2>2, <2>4
  <2>5. CASE o \in S /\ o = "object"
    BY <1>2, <2>1, <2>5 DEF NoAsset, Assets
  <2>6. CASE o \in S /\ o # "object"
    BY <1>2, <2>1, <2>2, <2>6 DEF Assets
  <2> QED BY <2>4, <2>5, <2>6
<1>4. BestPath' = cam.at
  BY <1>3, FramesConstants DEF BestPath
<1>5. assets' \in [Owners -> Assets]
  <2> DEFINE Row(o) == IF o \notin S THEN assets[o]
                       ELSE IF o = "object" THEN [NoAsset EXCEPT !.path = cam.at]
                       ELSE [assets[o] EXCEPT !.path = cam.at]
  <2>1. assets' = [o \in Owners |-> Row(o)]
    BY DEF Moved
  <2> HIDE DEF Row
  <2>2. \A o \in Owners : assets'[o] = Row(o)
    BY <2>1
  <2> QED BY <1>3, <2>1, <2>2
<1>6. ASSUME NEW o \in Owners
      PROVE  /\ assets[o].path <= assets'[o].path /\ assets'[o].path <= cam.at
             /\ assets'[o].judged <= assets[o].judged
             /\ assets[o].judged < cam.at /\ assets[o].path < cam.at
             /\ assets'[o].path \in Nat /\ assets'[o].judged \in Nat
  <2>1. assets[o].path <= BestPath /\ assets[o].judged <= assets[o].path
    BY DEF FramesInv, Ordered
  <2>2. assets'[o].judged \in Frames \cup {0} /\ assets'[o].path \in Frames \cup {0}
    BY <1>3 DEF Assets
  <2>3. assets'[o].judged \in Nat /\ assets'[o].path \in Nat
    BY <2>2, FramesConstants
  <2>4. CASE o = "object"
    BY <1>2, <1>3, <2>1, <2>3, <2>4, FramesFacts
  <2>5. CASE o # "object"
    BY <1>2, <1>3, <2>1, <2>3, <2>5, FramesFacts
  <2> QED BY <2>4, <2>5
<1>7. Ordered'
  <2>1. ASSUME NEW o \in Owners PROVE assets'[o].judged <= assets'[o].path
    <3>1. assets[o].judged <= assets[o].path /\ assets[o].path \in Nat /\ assets[o].judged \in Nat
      BY FramesFacts DEF FramesInv, Ordered
    <3> QED BY <1>6, <3>1
  <2> QED BY <1>4, <1>6, <2>1 DEF Ordered
<1> QED BY <1>3, <1>4, <1>5, <1>6, <1>7, FramesConstants

\* What of the invariant the rows alone decide, once they have moved to a frame that is
\* intact or whose removal the history tells.
LEMMA MovedKeeps ==
  ASSUME FramesInv, cam.pc = "index", NEW S \in SUBSET Owners, "object" \in S,
         \A o \in S : Follows(o), assets' = Moved(S),
         UNCHANGED <<happened, endedAt, reader, harmed>>, withdrawn \subseteq withdrawn',
         disk'[cam.at] = "good" \/ cam.at \in harmed' \cup withdrawn',
         \A g \in Frames : g # cam.at => disk'[g] = disk[g]
  PROVE  /\ RowsIntact' /\ ReaderKnows' /\ FrameKept' /\ VerdictHonest'
         /\ \A f \in Frames : Referenced(f) /\ ~Referenced(f)' => f = cam.old
<1>1. /\ \A o \in S : assets'[o].path = cam.at
      /\ \A o \in S \ {"object"} : /\ assets'[o].state = assets[o].state
                                   /\ assets'[o].judged = assets[o].judged
      /\ assets'["object"].state = "available"
      /\ \A o \in Owners \ S : assets'[o] = assets[o]
      /\ \A o \in Owners : /\ assets[o].path <= assets'[o].path /\ assets'[o].path \in Nat
                           /\ assets[o].judged < cam.at /\ assets[o].path < cam.at
  BY RowsMove
<1>2. \A f : Vanished(f) => Vanished(f)'
  BY DEF Vanished
<1>3. RowsIntact'
  <2>1. ASSUME NEW o \in Owners, assets'[o].path # 0 
        PROVE  disk'[assets'[o].path] = "good" \/ assets'[o].path \in harmed' \cup withdrawn'
    <3>1. CASE o \in S
      BY <1>1, <3>1 DEF Intact, Vanished
    <3>2. CASE o \notin S
      <4>1. assets'[o] = assets[o] /\ assets[o].path \in Frames /\ assets[o].path # cam.at
        BY <1>1, <2>1, <3>2, FramesFacts
      <4>2. Intact(assets[o].path)
        BY <2>1, <4>1 DEF FramesInv, RowsIntact
      <4> QED BY <1>2, <4>1, <4>2 DEF Intact, Vanished
    <3> QED BY <3>1, <3>2
  <2> QED BY <2>1 DEF RowsIntact, Intact, Vanished
<1>4. ReaderKnows'
  <2>1. ASSUME reader.pc # "idle"
        PROVE  /\ reader.path <= assets'[reader.owner].path
               /\ reader.path < assets[reader.owner].path => reader.path < assets'[reader.owner].path
    <3>1. reader.path <= assets[reader.owner].path
      BY <2>1 DEF FramesInv, ReaderKnows, Vanished
    <3>2. assets[reader.owner].path <= assets'[reader.owner].path /\ assets'[reader.owner].path \in Nat
      BY <1>1, FramesFacts
    <3> QED BY <3>1, <3>2, FramesFacts
  <2> QED BY <1>2, <2>1 DEF FramesInv, ReaderKnows, Vanished
<1>5. FrameKept'
  <2>1. \A e \in Happenings : happened[e] = "closed" => assets'[e] = assets[e]
    BY <1>1, FramesConstants DEF Follows
  <2>2. \A o \in Owners : assets'[o].path # 0 => disk'[assets'[o].path] = "good" \/ assets'[o].path \in harmed' \cup withdrawn'
    BY <1>3 DEF RowsIntact, Intact, Vanished
  <2> QED BY <2>1, <2>2 DEF FrameKept, FramesInv, FramesHonest, Vanished
<1>6. VerdictHonest'
  <2>1. ASSUME NEW o \in Owners, assets'[o].state # "available", assets'[o].judged = assets'[o].path
        PROVE  assets'[o].path \in harmed' \cup withdrawn'
    <3>1. assets'[o] = assets[o]
      <4>1. o # "object"
        BY <1>1, <2>1
      <4>2. o \in S => assets[o].judged = cam.at
        BY <1>1, <2>1, <4>1
      <4>3. assets[o].judged # cam.at
        BY <1>1, FramesFacts
      <4> QED BY <1>1, <4>2, <4>3
    <3> QED BY <1>2, <2>1, <3>1 DEF FramesInv, FramesHonest, VerdictHonest, Vanished
  <2> QED BY <2>1 DEF VerdictHonest, Vanished
<1>7. ASSUME NEW f \in Frames, Referenced(f), ~Referenced(f)' PROVE f = cam.old
  <2>1. PICK o \in Owners : assets[o].path = f
    BY <1>7 DEF Referenced
  <2>2. o \in S
    BY <1>1, <1>7, <2>1 DEF Referenced
  <2>3. cam.old = BestPath
    BY DEF FramesInv, CameraKnows
  <2> QED BY <2>1, <2>2, <2>3 DEF Follows, BestPath
<1> QED BY <1>3, <1>4, <1>5, <1>6, <1>7

\* The rows move on to the better frame: the object's, and those of its open events that
\* were at the one before.
LEMMA IndexFrameKeeps == ASSUME FramesInv, IndexFrame PROVE FramesInv'
<1> DEFINE S == {o \in Owners : Follows(o)}
<1>1. /\ cam.pc = "index" /\ cam' = IF cam.old = 0 THEN CamIdle ELSE [cam EXCEPT !.pc = "sweep"]
      /\ assets' = Moved(S) /\ UNCHANGED <<disk, happened, endedAt, reader, harmed, left, unlinked, withdrawn>>
  BY DEF IndexFrame
<1>2. /\ cam.at \in Frames /\ cam.old = BestPath /\ Intact(cam.at)
  BY <1>1 DEF FramesInv, CameraKnows
<1>3. S \in SUBSET Owners /\ "object" \in S /\ \A o \in S : Follows(o)
  BY FramesConstants DEF Follows
<1>4. \A o \in Owners : o \in S <=> Follows(o)
  OBVIOUS
<1> HIDE DEF S
<1>5. /\ assets' \in [Owners -> Assets] /\ BestPath' = cam.at /\ Ordered'
      /\ \A o \in S : assets'[o].path = cam.at
      /\ \A o \in Owners \ S : assets'[o] = assets[o]
  BY <1>1, <1>3, RowsMove
<1>6. /\ RowsIntact' /\ ReaderKnows' /\ FrameKept' /\ VerdictHonest'
      /\ \A f \in Frames : Referenced(f) /\ ~Referenced(f)' => f = cam.old
  <2>1. disk'[cam.at] = "good" \/ cam.at \in harmed' \cup withdrawn'
    BY <1>1, <1>2 DEF Intact, Vanished
  <2> QED BY <1>1, <1>3, <2>1, MovedKeeps
<1>7. FrameShape'
  <2>1. cam' \in [pc : {"idle", "index", "sweep"} \cup Happenings, at : Frames \cup {0},
                  old : Frames \cup {0}]
    BY <1>1, FramesFacts DEF FrameShape, CamIdle
  <2> QED BY <1>1, <1>5, <2>1, FramesFacts DEF FrameShape
<1>8. CameraKnows'
  <2>1. CASE cam.old = 0
    BY <1>1, <2>1, FramesConstants DEF CameraKnows, CamIdle
  <2>2. CASE cam.old # 0
    <3>1. cam'.pc = "sweep" /\ cam'.old = cam.old /\ cam.old \in Frames
      BY <1>1, <2>2, FramesFacts DEF FrameShape
    <3> QED BY <3>1, FramesConstants DEF CameraKnows
  <2> QED BY <2>1, <2>2
<1>9. FrameFollows'
  <2>1. ASSUME NEW e \in Happenings, happened[e] = "open", assets'[e].path # cam.at
        PROVE  assets'[e].path = 0 \/ e \in unlinked
    <3>1. ~Follows(e) /\ assets'[e] = assets[e]
      BY <1>4, <1>5, <2>1, FramesConstants
    <3>2. cam.old = 0 \/ assets[e].path # BestPath
      BY <1>2, <2>1, <3>1 DEF Follows
    <3>3. cam.old = 0 => assets[e].path = 0
      BY <1>2, FramesFacts, FramesConstants DEF FramesInv, Ordered
    <3> QED BY <2>1, <3>1, <3>2, <3>3 DEF FramesInv, FramesHonest, FrameFollows
  <2> QED BY <1>1, <1>5, <2>1 DEF FrameFollows
<1>10. NoLitter'
  <2>1. ASSUME NEW f \in Frames, disk[f] # "none", ~Referenced(f)', f \notin left
        PROVE  cam'.pc = "sweep" /\ f = cam'.old
    <3>1. f # cam.at
      BY <1>3, <1>5, <2>1, FramesConstants DEF Referenced
    <3>2. Referenced(f)
      BY <1>1, <2>1, <3>1 DEF FramesInv, FramesHonest, NoLitter
    <3>3. f = cam.old /\ cam.old # 0
      BY <1>6, <2>1, <3>2, FramesConstants
    <3> QED BY <1>1, <3>3, FramesFacts DEF FrameShape
  <2> QED BY <1>1, <2>1 DEF NoLitter
<1> QED BY <1>5, <1>6, <1>7, <1>8, <1>9, <1>10 DEF FramesInv, FramesHonest

\* The new file is removed. No row names it, or the rows that do are in the history.
LEMMA IndexFailsKeeps == ASSUME FramesInv, IndexFails PROVE FramesInv'
<1>1. /\ cam.pc = "index" /\ cam' = CamIdle /\ disk' = [disk EXCEPT ![cam.at] = "none"]
      /\ UNCHANGED <<happened, endedAt, reader, harmed>>
  BY DEF IndexFails
<1>2. cam.at \in Frames /\ ~Referenced(cam.at) /\ cam.old = BestPath
  BY <1>1 DEF FramesInv, CameraKnows
<1>3. disk'[cam.at] = "none" /\ \A g \in Frames : g # cam.at => disk'[g] = disk[g]
  BY <1>1, <1>2, FramesFacts DEF FrameShape
<1>4. CameraKnows'
  BY <1>1, FramesConstants DEF CameraKnows, CamIdle
<1>5. PICK S \in {{}, {"object"}, {o \in Owners : Follows(o)}} :
          /\ assets' = Moved(S)
          /\ IF S = {} THEN UNCHANGED <<withdrawn, left, unlinked>>
             ELSE /\ withdrawn' = withdrawn \cup {cam.at} /\ left' = left \cup ({cam.old} \ {0})
                  /\ unlinked' = unlinked \cup {e \in Happenings \ S : Follows(e)}
  BY DEF IndexFails
<1>6. CASE S = {}
  <2>1. UNCHANGED <<withdrawn, left, unlinked>>
    BY <1>5, <1>6
  <2>2. assets' = assets
    <3>1. \A o \in Owners : Moved(S)[o] = assets[o]
      BY <1>6 DEF Moved
    <3>2. DOMAIN Moved(S) = Owners /\ Moved(S) = [o \in Owners |-> Moved(S)[o]]
      BY DEF Moved
    <3>3. assets = [o \in Owners |-> assets[o]]
      BY FramesFacts DEF FrameShape
    <3> QED BY <1>5, <3>1, <3>2, <3>3
  <2>3. FrameShape'
    BY <1>1, <2>1, <2>2, FramesFacts DEF FrameShape, CamIdle
  <2>4. BestPath' = BestPath /\ \A g : Referenced(g)' <=> Referenced(g)
    BY <2>2 DEF BestPath, Referenced
  <2>5. Ordered' /\ ReaderKnows'
    BY <1>1, <2>1, <2>2, <2>4 DEF FramesInv, Ordered, ReaderKnows, Vanished
  <2>6. RowsIntact'
    <3>1. \A o \in Owners : assets[o].path # cam.at /\ (assets[o].path # 0 => assets[o].path \in Frames)
      BY <1>2, FramesFacts DEF Referenced
    <3> QED BY <1>1, <1>3, <2>1, <2>2, <3>1 DEF FramesInv, RowsIntact, Intact, Vanished
  <2>7. FrameKept' /\ FrameFollows' /\ VerdictHonest'
    BY <1>1, <2>1, <2>2, <2>4, <2>6
    DEF FramesInv, FramesHonest, FrameKept, FrameFollows, VerdictHonest, RowsIntact, Intact, Vanished
  <2>8. NoLitter'
    BY <1>1, <1>3, <2>1, <2>4 DEF FramesInv, FramesHonest, NoLitter
  <2> QED BY <1>4, <2>3, <2>5, <2>6, <2>7, <2>8 DEF FramesInv, FramesHonest
<1>7. CASE S # {}
  <2>1. /\ withdrawn' = withdrawn \cup {cam.at} /\ left' = left \cup ({cam.old} \ {0})
        /\ unlinked' = unlinked \cup {e \in Happenings \ S : Follows(e)} /\ assets' = Moved(S)
    BY <1>5, <1>7
  <2>2. S \in SUBSET Owners /\ "object" \in S /\ \A o \in S : Follows(o)
    BY <1>5, <1>7, FramesConstants DEF Follows
  <2>3. /\ assets' \in [Owners -> Assets] /\ BestPath' = cam.at /\ Ordered'
        /\ \A o \in S : assets'[o].path = cam.at
        /\ \A o \in Owners \ S : assets'[o] = assets[o]
    BY <1>1, <2>1, <2>2, RowsMove
  <2>4. /\ RowsIntact' /\ ReaderKnows' /\ FrameKept' /\ VerdictHonest'
        /\ \A f \in Frames : Referenced(f) /\ ~Referenced(f)' => f = cam.old
    <3>1. cam.at \in withdrawn' /\ withdrawn \subseteq withdrawn'
      BY <2>1
    <3> QED BY <1>1, <1>3, <2>1, <2>2, <3>1, MovedKeeps
  <2>5. FrameShape'
    BY <1>1, <1>2, <2>1, <2>3, FramesFacts DEF FrameShape, CamIdle
  <2>6. FrameFollows'
    <3>1. ASSUME NEW e \in Happenings, happened[e] = "open", assets'[e].path # cam.at
          PROVE  assets'[e].path = 0 \/ e \in unlinked'
      <4>1. e \notin S /\ assets'[e] = assets[e]
        BY <2>3, <3>1, FramesConstants
      <4>2. CASE Follows(e)
        BY <2>1, <4>1, <4>2
      <4>3. CASE ~Follows(e)
        <5>1. cam.old = 0 \/ assets[e].path # BestPath
          BY <1>2, <3>1, <4>3 DEF Follows
        <5>2. cam.old = 0 => assets[e].path = 0
          BY <1>2, FramesFacts, FramesConstants DEF FramesInv, Ordered
        <5>3. assets[e].path = 0 \/ e \in unlinked
          BY <3>1, <5>1, <5>2 DEF FramesInv, FramesHonest, FrameFollows
        <5> QED BY <2>1, <4>1, <5>3
      <4> QED BY <4>2, <4>3
    <3> QED BY <1>1, <2>3, <3>1 DEF FrameFollows
  <2>7. NoLitter'
    <3>1. ASSUME NEW f \in Frames, disk'[f] # "none", ~Referenced(f)' PROVE f \in left'
      <4>1. f # cam.at /\ disk[f] # "none"
        BY <1>3, <3>1
      <4>2. CASE Referenced(f)
        BY <2>1, <2>4, <3>1, <4>2, FramesConstants
      <4>3. CASE ~Referenced(f)
        BY <1>1, <2>1, <4>1, <4>3 DEF FramesInv, FramesHonest, NoLitter
      <4> QED BY <4>2, <4>3
    <3> QED BY <3>1 DEF NoLitter
  <2> QED BY <1>4, <2>3, <2>4, <2>5, <2>6, <2>7 DEF FramesInv, FramesHonest
<1> QED BY <1>6, <1>7

\* The old file is removed unless a row names it.
LEMMA SweepOldKeeps == ASSUME FramesInv, SweepOld PROVE FramesInv'
<1>1. /\ cam.pc = "sweep" /\ cam' = CamIdle
      /\ disk' = IF Referenced(cam.old) THEN disk ELSE [disk EXCEPT ![cam.old] = "none"]
      /\ UNCHANGED <<assets, happened, endedAt, reader, harmed, left, unlinked, withdrawn>>
  BY DEF SweepOld
<1>2. cam.old \in Frames
  BY <1>1 DEF FramesInv, CameraKnows
<1>3. /\ ~Referenced(cam.old) => disk'[cam.old] = "none"
      /\ \A g \in Frames : g # cam.old \/ Referenced(g) => disk'[g] = disk[g]
  BY <1>1, <1>2, FramesFacts DEF FrameShape
<1>4. FrameShape'
  BY <1>1, FramesFacts DEF FrameShape, CamIdle
<1>5. BestPath' = BestPath /\ \A g : Referenced(g)' <=> Referenced(g)
  BY <1>1 DEF BestPath, Referenced
<1>6. Ordered' /\ ReaderKnows'
  BY <1>1, <1>5 DEF FramesInv, Ordered, ReaderKnows, Vanished
<1>7. RowsIntact'
  <2>1. \A o \in Owners : assets[o].path # 0 => assets[o].path \in Frames /\ Referenced(assets[o].path)
    BY FramesFacts DEF Referenced
  <2> QED BY <1>1, <1>3, <2>1 DEF FramesInv, RowsIntact, Intact, Vanished
<1>8. CameraKnows'
  BY <1>1, FramesConstants DEF CameraKnows, CamIdle
<1>9. FrameKept' /\ FrameFollows' /\ VerdictHonest'
  BY <1>1, <1>5, <1>7 DEF FramesInv, FramesHonest, FrameKept, FrameFollows, VerdictHonest, RowsIntact, Intact, Vanished
<1>10. NoLitter'
  BY <1>1, <1>3, <1>5 DEF FramesInv, FramesHonest, NoLitter
<1> QED BY <1>4, <1>6, <1>7, <1>8, <1>9, <1>10 DEF FramesInv, FramesHonest

\* The removal fails or the process ends: what stays on the disk is a file left behind.
LEMMA LeftBehindKeeps ==
  ASSUME FramesInv, cam' = CamIdle, UNCHANGED <<disk, assets, happened, endedAt, harmed, unlinked, withdrawn>>,
         reader' = reader \/ reader' = NoReader, left \subseteq left',
         cam.pc = "index" => cam.at \in left', cam.pc = "sweep" => cam.old \in left'
  PROVE  FramesInv'
<1>1. FrameShape'
  <2>1. reader' \in [pc : {"idle", "open", "mark"}, owner : Owners, path : Frames \cup {0},
                     verdict : {"available", "missing", "corrupt"}]
    BY FramesFacts, FramesConstants DEF FrameShape, NoReader
  <2> QED BY <2>1, FramesFacts DEF FrameShape, CamIdle
<1>2. BestPath' = BestPath /\ \A g : Referenced(g)' <=> Referenced(g)
  BY DEF BestPath, Referenced
<1>3. Ordered' /\ RowsIntact'
  BY <1>2 DEF FramesInv, Ordered, RowsIntact, Intact, Vanished
<1>4. ReaderKnows'
  BY DEF FramesInv, ReaderKnows, NoReader, Vanished
<1>5. CameraKnows'
  BY FramesConstants DEF CameraKnows, CamIdle
<1>6. FrameKept' /\ FrameFollows' /\ VerdictHonest'
  BY <1>2 DEF FramesInv, FramesHonest, FrameKept, FrameFollows, VerdictHonest, Vanished
<1>7. NoLitter'
  BY <1>2 DEF FramesInv, FramesHonest, NoLitter
<1> QED BY <1>1, <1>3, <1>4, <1>5, <1>6, <1>7 DEF FramesInv, FramesHonest

LEMMA SweepFailsKeeps == ASSUME FramesInv, SweepFails PROVE FramesInv'
<1>1. /\ cam.pc = "sweep" /\ cam' = CamIdle /\ left' = left \cup {cam.old}
      /\ UNCHANGED <<disk, assets, happened, endedAt, reader, harmed, unlinked, withdrawn>>
  BY DEF SweepFails
<1> QED BY <1>1, LeftBehindKeeps

LEMMA CameraCrashKeeps == ASSUME FramesInv, CameraCrash PROVE FramesInv'
<1>1. /\ cam' = CamIdle /\ reader' = NoReader
      /\ left' = left \cup ({IF cam.pc = "index" THEN cam.at ELSE cam.old} \ {0})
      /\ UNCHANGED <<disk, assets, happened, endedAt, harmed, unlinked, withdrawn>>
  BY DEF CameraCrash
<1>2. (cam.pc = "index" => cam.at \in Frames) /\ (cam.pc = "sweep" => cam.old \in Frames)
  BY DEF FramesInv, CameraKnows
<1>3. (cam.pc = "index" => cam.at \in left') /\ (cam.pc = "sweep" => cam.old \in left')
  BY <1>1, <1>2, FramesConstants
<1> QED BY <1>1, <1>3, LeftBehindKeeps

\* The row of an event is made of the frame of its object; a newer link leaves the old file.
LEMMA LinkFrameKeeps == ASSUME FramesInv, NEW e \in Happenings, LinkFrame(e) PROVE FramesInv'
<1>1. /\ cam.pc = "idle" /\ happened[e] = "none" /\ cam' = [CamIdle EXCEPT !.pc = e]
      /\ UNCHANGED <<disk, happened, endedAt, reader, harmed, withdrawn>>
  BY DEF LinkFrame
<1>2. cam' = [pc |-> e, at |-> 0, old |-> 0]
  BY <1>1 DEF CamIdle
<1>3. e \in Owners /\ e # "object" /\ e \notin {"idle", "index", "sweep"} /\ "object" \in Owners
  BY FramesConstants
<1>4. cam' \in [pc : {"idle", "index", "sweep"} \cup Happenings, at : Frames \cup {0},
                old : Frames \cup {0}]
  BY <1>2
<1>5. CASE BestPath # 0 /\ assets["object"].state = "available"
  <2>1. /\ assets' = [assets EXCEPT ![e] = [NoAsset EXCEPT !.path = BestPath]]
        /\ left' = left \cup ({assets[e].path} \ {0, BestPath}) /\ unlinked' = unlinked \ {e}
    BY <1>5 DEF LinkFrame
  <2>2. [NoAsset EXCEPT !.path = BestPath] = [path |-> BestPath, state |-> "available", judged |-> 0]
    BY DEF NoAsset
  <2>3. /\ assets'[e] = [path |-> BestPath, state |-> "available", judged |-> 0]
        /\ \A o \in Owners : o # e => assets'[o] = assets[o]
    BY <1>3, <2>1, <2>2, FramesFacts DEF FrameShape
  <2>4. FrameShape'
    <3>1. [path |-> BestPath, state |-> "available", judged |-> 0] \in Assets
      BY FramesFacts DEF Assets
    <3>2. assets' \in [Owners -> Assets]
      BY <2>1, <2>2, <3>1, FramesFacts DEF FrameShape
    <3> QED BY <1>1, <1>4, <3>2, FramesFacts DEF FrameShape
  <2>5. BestPath' = BestPath
    BY <1>3, <2>3 DEF BestPath
  <2>6. Ordered'
    BY <2>3, <2>5, FramesFacts DEF FramesInv, Ordered
  <2>7. RowsIntact'
    <3>1. Intact(BestPath)
      BY <1>3, <1>5 DEF FramesInv, RowsIntact, BestPath, Vanished
    <3> QED BY <1>1, <2>3, <3>1 DEF FramesInv, RowsIntact, Intact, Vanished
  <2>8. CameraKnows'
    BY <1>2, <1>3, <2>3, <2>5 DEF CameraKnows
  <2>9. ReaderKnows'
    <3>1. reader.pc # "idle" /\ reader.owner = e => reader.path <= assets[e].path
      BY DEF FramesInv, ReaderKnows, Vanished
    <3>2. assets[e].path <= BestPath /\ assets[e].path \in Nat /\ BestPath \in Nat /\ reader.path \in Nat
      BY <1>3, FramesFacts DEF FramesInv, Ordered
    <3>3. CASE reader.owner = e
      BY <1>1, <2>3, <3>1, <3>2, <3>3 DEF FramesInv, ReaderKnows, Vanished
    <3>4. CASE reader.owner # e
      BY <1>1, <2>3, <3>4, FramesFacts DEF FramesInv, ReaderKnows, Vanished
    <3> QED BY <3>3, <3>4
  <2>10. FrameKept'
    BY <1>1, <1>3, <2>3, <2>7, FramesConstants DEF FrameKept, RowsIntact, Intact, Vanished, FramesInv, FramesHonest
  <2>11. FrameFollows'
    BY <1>1, <1>3, <2>1, <2>3, <2>5, FramesConstants DEF FrameFollows, FramesInv, FramesHonest
  <2>12. VerdictHonest'
    BY <1>1, <2>3 DEF VerdictHonest, FramesInv, FramesHonest, Vanished
  <2>13. NoLitter'
    <3>1. ASSUME NEW f \in Frames, disk[f] # "none", ~Referenced(f)' PROVE f \in left'
      <4>1. f # BestPath /\ f # 0
        BY <1>3, <2>3, <3>1, FramesConstants DEF Referenced
      <4>2. CASE Referenced(f)
        <5>1. assets[e].path = f
          BY <2>3, <3>1, <4>2 DEF Referenced
        <5> QED BY <2>1, <4>1, <5>1
      <4>3. CASE ~Referenced(f)
        BY <1>1, <2>1, <3>1, <4>3 DEF FramesInv, FramesHonest, NoLitter
      <4> QED BY <4>2, <4>3
    <3> QED BY <1>1, <3>1 DEF NoLitter
  <2> QED BY <2>4, <2>6, <2>7, <2>8, <2>9, <2>10, <2>11, <2>12, <2>13 DEF FramesInv, FramesHonest
<1>6. CASE ~(BestPath # 0 /\ assets["object"].state = "available")
  <2>1. assets' = assets /\ left' = left /\ unlinked' = unlinked \cup {e}
    BY <1>6 DEF LinkFrame
  <2>2. FrameShape'
    BY <1>1, <1>4, <2>1, FramesFacts DEF FrameShape
  <2>3. BestPath' = BestPath /\ \A g : Referenced(g)' <=> Referenced(g)
    BY <2>1 DEF BestPath, Referenced
  <2>4. Ordered' /\ RowsIntact' /\ ReaderKnows'
    BY <1>1, <2>1, <2>3 DEF FramesInv, Ordered, RowsIntact, ReaderKnows, Intact, Vanished
  <2>5. CameraKnows'
    BY <1>2, <1>3, <2>1 DEF CameraKnows
  <2>6. FrameKept' /\ FrameFollows' /\ VerdictHonest'
    BY <1>1, <2>1, <2>3 DEF FramesInv, FramesHonest, FrameKept, FrameFollows, VerdictHonest, Vanished
  <2>7. NoLitter'
    BY <1>1, <1>2, <1>3, <2>1, <2>3 DEF FramesInv, FramesHonest, NoLitter
  <2> QED BY <2>2, <2>4, <2>5, <2>6, <2>7 DEF FramesInv, FramesHonest
<1> QED BY <1>5, <1>6


LEMMA OpenHappeningKeeps ==
  ASSUME FramesInv, NEW e \in Happenings, NEW stored \in BOOLEAN, OpenHappening(e, stored)
  PROVE  FramesInv'
<1>1. /\ cam.pc = e /\ cam' = CamIdle
      /\ happened' = [happened EXCEPT ![e] = IF stored THEN "open" ELSE @]
      /\ UNCHANGED <<disk, assets, endedAt, reader, harmed, left, unlinked, withdrawn>>
  BY DEF OpenHappening
<1>2. /\ happened'[e] \in {"open", happened[e]}
      /\ \A x \in Happenings : x # e => happened'[x] = happened[x]
  BY <1>1, FramesFacts DEF FrameShape
<1>3. happened' \in [Happenings -> {"none", "open", "closed"}]
  BY <1>1, FramesFacts DEF FrameShape
<1>4. FrameShape'
  BY <1>1, <1>3, FramesFacts DEF FrameShape, CamIdle
<1>5. BestPath' = BestPath /\ \A g : Referenced(g)' <=> Referenced(g)
  BY <1>1 DEF BestPath, Referenced
<1>6. Ordered' /\ RowsIntact' /\ ReaderKnows'
  BY <1>1, <1>5 DEF FramesInv, Ordered, RowsIntact, ReaderKnows, Intact, Vanished
<1>7. CameraKnows'
  BY <1>1, FramesConstants DEF CameraKnows, CamIdle
<1>8. assets[e].path = BestPath \/ e \in unlinked
  BY <1>1 DEF FramesInv, CameraKnows
<1>9. FrameKept' /\ VerdictHonest'
  BY <1>1, <1>2, <1>5 DEF FramesInv, FramesHonest, FrameKept, VerdictHonest, Vanished
<1>10. FrameFollows'
  BY <1>1, <1>2, <1>5, <1>8 DEF FramesInv, FramesHonest, FrameFollows
<1>11. NoLitter'
  BY <1>1, <1>5, FramesConstants DEF FramesInv, FramesHonest, NoLitter
<1> QED BY <1>4, <1>6, <1>7, <1>9, <1>10, <1>11 DEF FramesInv, FramesHonest

LEMMA EndHappeningKeeps ==
  ASSUME FramesInv, NEW e \in Happenings, EndHappening(e) PROVE FramesInv'
<1>1. /\ happened' = [happened EXCEPT ![e] = "closed"]
      /\ endedAt' = [endedAt EXCEPT ![e] = assets[e].path]
      /\ UNCHANGED <<disk, assets, cam, reader, harmed, left, unlinked, withdrawn>>
  BY DEF EndHappening
<1>2. assets[e].path \in Frames \cup {0}
  BY FramesFacts, FramesConstants
<1>3. FrameShape'
  BY <1>1, <1>2, FramesFacts DEF FrameShape
<1>4. /\ happened'[e] = "closed" /\ endedAt'[e] = assets[e].path
      /\ \A x \in Happenings : x # e => happened'[x] = happened[x] /\ endedAt'[x] = endedAt[x]
  BY <1>1, FramesFacts DEF FrameShape
<1>5. BestPath' = BestPath /\ \A g : Referenced(g)' <=> Referenced(g)
  BY <1>1 DEF BestPath, Referenced
<1>6. Ordered' /\ RowsIntact' /\ ReaderKnows' /\ CameraKnows'
  BY <1>1, <1>5 DEF FramesInv, Ordered, RowsIntact, ReaderKnows, CameraKnows, Intact, Vanished
<1>7. FrameKept' /\ FrameFollows' /\ VerdictHonest'
  BY <1>1, <1>4, <1>5 DEF FramesInv, FramesHonest, FrameKept, FrameFollows, VerdictHonest, Vanished
<1>8. NoLitter'
  BY <1>1, <1>5 DEF FramesInv, FramesHonest, NoLitter
<1> QED BY <1>3, <1>6, <1>7, <1>8 DEF FramesInv, FramesHonest

\* What concerns neither the rows, nor the files, nor the reader.
LEMMA FramesUntouched ==
  ASSUME FramesInv,
         UNCHANGED <<disk, assets, happened, endedAt, cam, reader, harmed, left, unlinked, withdrawn>>
  PROVE  FramesInv'
<1>1. FrameShape' /\ BestPath' = BestPath /\ \A g : Referenced(g)' <=> Referenced(g)
  BY FramesFacts DEF FrameShape, BestPath, Referenced
<1>2. Ordered' /\ RowsIntact' /\ ReaderKnows' /\ CameraKnows'
  BY <1>1 DEF FramesInv, Ordered, RowsIntact, ReaderKnows, CameraKnows, Intact, Vanished
<1>3. FramesHonest'
  BY <1>1 DEF FramesInv, FramesHonest, FrameKept, FrameFollows, VerdictHonest, NoLitter, Vanished
<1> QED BY <1>1, <1>2, <1>3 DEF FramesInv

\* A reader notes the path of a row.
LEMMA ReadRowKeeps == ASSUME FramesInv, NEW o \in Owners, ReadRow(o) PROVE FramesInv'
<1>1. /\ assets[o].path # 0
      /\ reader' = [NoReader EXCEPT !.pc = "open", !.owner = o, !.path = assets[o].path]
      /\ UNCHANGED <<disk, assets, happened, endedAt, cam, harmed, left, unlinked, withdrawn>>
  BY DEF ReadRow
<1>2. reader' = [pc |-> "open", owner |-> o, path |-> assets[o].path, verdict |-> "available"]
  BY <1>1 DEF NoReader
<1>3. assets[o].path \in Frames /\ assets[o].path \in Nat
  BY <1>1, FramesFacts
<1>4. FrameShape'
  <2>1. reader' \in [pc : {"idle", "open", "mark"}, owner : Owners, path : Frames \cup {0},
                     verdict : {"available", "missing", "corrupt"}]
    BY <1>2, <1>3
  <2> QED BY <1>1, <2>1, FramesFacts DEF FrameShape
<1>5. BestPath' = BestPath /\ \A g : Referenced(g)' <=> Referenced(g)
  BY <1>1 DEF BestPath, Referenced
<1>6. Ordered' /\ RowsIntact' /\ CameraKnows'
  BY <1>1, <1>5 DEF FramesInv, Ordered, RowsIntact, CameraKnows, Intact, Vanished
<1>7. ReaderKnows'
  BY <1>1, <1>2, <1>3 DEF ReaderKnows, Vanished
<1>8. FramesHonest'
  BY <1>1, <1>5 DEF FramesInv, FramesHonest, FrameKept, FrameFollows, VerdictHonest, NoLitter, Vanished
<1> QED BY <1>4, <1>6, <1>7, <1>8 DEF FramesInv

\* What it finds at the path: a file that is not as it was written was harmed, unless the
\* row has moved on.
LEMMA ReadBytesKeeps == ASSUME FramesInv, ReadBytes PROVE FramesInv'
<1> DEFINE found == CASE disk[reader.path] = "good" -> "available"
                      [] disk[reader.path] = "none" -> "missing"
                      [] OTHER -> "corrupt"
<1>1. /\ reader.pc = "open" /\ reader' = [reader EXCEPT !.pc = "mark", !.verdict = found]
      /\ UNCHANGED <<disk, assets, happened, endedAt, cam, harmed, left, unlinked, withdrawn>>
  BY DEF ReadBytes
<1>2. found \in {"available", "missing", "corrupt"} /\ (found # "available" => disk[reader.path] # "good")
  OBVIOUS
<1> HIDE DEF found
<1>3. /\ reader' = [pc |-> "mark", owner |-> reader.owner, path |-> reader.path, verdict |-> found]
      /\ reader.owner \in Owners /\ reader.path \in Frames \cup {0}
  BY <1>1, FramesFacts DEF FrameShape
<1>4. reader.path \in Frames /\ reader.path <= assets[reader.owner].path
  BY <1>1 DEF FramesInv, ReaderKnows, Vanished
<1>5. FrameShape'
  BY <1>1, <1>2, <1>3, FramesFacts DEF FrameShape
<1>6. BestPath' = BestPath /\ \A g : Referenced(g)' <=> Referenced(g)
  BY <1>1 DEF BestPath, Referenced
<1>7. Ordered' /\ RowsIntact' /\ CameraKnows'
  BY <1>1, <1>6 DEF FramesInv, Ordered, RowsIntact, CameraKnows, Intact, Vanished
<1>8. ReaderKnows'
  <2>1. found # "available" => Vanished(reader.path) \/ reader.path < assets[reader.owner].path
    <3>1. CASE reader.path = assets[reader.owner].path
      BY <1>2, <1>3, <1>4, <3>1, FramesConstants DEF FramesInv, RowsIntact, Intact, Vanished
    <3>2. CASE reader.path # assets[reader.owner].path
      BY <1>3, <1>4, <3>2, FramesFacts
    <3> QED BY <3>1, <3>2
  <2> QED BY <1>1, <1>3, <1>4, <2>1 DEF ReaderKnows, Vanished
<1>9. FramesHonest'
  BY <1>1, <1>6 DEF FramesInv, FramesHonest, FrameKept, FrameFollows, VerdictHonest, NoLitter, Vanished
<1> QED BY <1>5, <1>7, <1>8, <1>9 DEF FramesInv

\* It writes its verdict into the row as it is by now.
LEMMA MarkRowKeeps == ASSUME FramesInv, MarkRow PROVE FramesInv'
<1>1. /\ reader.pc = "mark" /\ reader' = NoReader
      /\ assets' = [assets EXCEPT ![reader.owner] = [@ EXCEPT !.state = reader.verdict,
                                                              !.judged = reader.path]]
      /\ UNCHANGED <<disk, happened, endedAt, cam, harmed, left, unlinked, withdrawn>>
  BY DEF MarkRow
<1>2. /\ reader.owner \in Owners /\ reader.path \in Frames /\ reader.path <= assets[reader.owner].path
      /\ reader.verdict # "available" =>
            Vanished(reader.path) \/ reader.path < assets[reader.owner].path
      /\ reader.verdict \in {"available", "missing", "corrupt"}
  BY <1>1, FramesFacts DEF FramesInv, ReaderKnows, FrameShape, Vanished
<1>3. assets \in [Owners -> Assets]
  BY FramesFacts DEF FrameShape
<1>4. ASSUME NEW o \in Owners
      PROVE  /\ assets'[o] \in Assets /\ assets'[o].path = assets[o].path
             /\ o # reader.owner => assets'[o] = assets[o]
             /\ o = reader.owner => assets'[o].state = reader.verdict /\ assets'[o].judged = reader.path
  <2>1. assets[o] \in Assets
    BY <1>3
  <2>2. CASE o = reader.owner
    <3>1. assets'[o] = [path |-> assets[o].path, state |-> reader.verdict, judged |-> reader.path]
      BY <1>1, <1>2, <1>3, <2>1, <2>2 DEF Assets
    <3> QED BY <1>2, <2>1, <2>2, <3>1 DEF Assets
  <2>3. CASE o # reader.owner
    BY <1>1, <1>2, <1>3, <2>3
  <2> QED BY <2>2, <2>3
<1>5. assets' \in [Owners -> Assets]
  <2>1. DOMAIN assets' = Owners /\ assets' = [o \in Owners |-> assets'[o]]
    BY <1>1, <1>3
  <2> QED BY <1>4, <2>1
<1>6. FrameShape'
  <2>1. reader' \in [pc : {"idle", "open", "mark"}, owner : Owners, path : Frames \cup {0},
                     verdict : {"available", "missing", "corrupt"}]
    BY <1>1, FramesConstants DEF NoReader
  <2> QED BY <1>1, <1>5, <2>1, FramesFacts DEF FrameShape
<1>7. BestPath' = BestPath /\ \A g : Referenced(g)' <=> Referenced(g)
  BY <1>4, FramesConstants DEF BestPath, Referenced
<1>8. Ordered'
  <2>1. ASSUME NEW o \in Owners PROVE assets'[o].judged <= assets'[o].path
    BY <1>2, <1>4 DEF FramesInv, Ordered
  <2> QED BY <1>4, <1>7, <2>1 DEF FramesInv, Ordered
<1>9. RowsIntact'
  <2>1. ASSUME NEW o \in Owners, assets'[o].path # 0
        PROVE  disk'[assets'[o].path] = "good" \/ assets'[o].path \in harmed' \cup withdrawn'
    <3>1. assets'[o].path = assets[o].path
      BY <1>4
    <3>2. disk[assets[o].path] = "good" \/ Vanished(assets[o].path)
      BY <2>1, <3>1 DEF FramesInv, RowsIntact, Intact
    <3> QED BY <1>1, <3>1, <3>2 DEF Vanished
  <2> QED BY <2>1 DEF RowsIntact, Intact, Vanished
<1>10. CameraKnows'
  <2>1. cam.pc \in Happenings => assets'[cam.pc].path = assets[cam.pc].path
    BY <1>4, FramesConstants
  <2> QED BY <1>1, <1>7, <2>1 DEF FramesInv, CameraKnows, Intact, Vanished
<1>11. ReaderKnows'
  BY <1>1 DEF ReaderKnows, NoReader, Vanished
<1>12. FrameKept' /\ FrameFollows'
  <2>1. \A e \in Happenings : assets'[e].path = assets[e].path
    BY <1>4, FramesConstants
  <2>2. FrameKept'
    BY <1>1, <1>9, <2>1 DEF FramesInv, FramesHonest, FrameKept, RowsIntact, Intact, Vanished
  <2>3. FrameFollows'
    BY <1>1, <1>7, <2>1 DEF FramesInv, FramesHonest, FrameFollows
  <2> QED BY <2>2, <2>3
<1>13. VerdictHonest'
  <2>1. ASSUME NEW o \in Owners, assets'[o].state # "available", assets'[o].judged = assets'[o].path
        PROVE  Vanished(assets'[o].path)
    <3>1. CASE o = reader.owner
      <4>1. reader.path = assets[o].path /\ reader.verdict # "available"
        BY <1>4, <2>1, <3>1
      <4>2. ~(reader.path < assets[reader.owner].path)
        BY <3>1, <4>1, FramesFacts
      <4> QED BY <1>2, <1>4, <4>1, <4>2
    <3>2. CASE o # reader.owner
      BY <1>4, <2>1, <3>2 DEF FramesInv, FramesHonest, VerdictHonest, Vanished
    <3> QED BY <3>1, <3>2
  <2> QED BY <1>1, <2>1 DEF VerdictHonest, Vanished
<1>14. NoLitter'
  BY <1>1, <1>7 DEF FramesInv, FramesHonest, NoLitter
<1> QED BY <1>6, <1>8, <1>9, <1>10, <1>11, <1>12, <1>13, <1>14 DEF FramesInv, FramesHonest

\* A file is lost or damaged from outside: the history remembers it.
LEMMA HarmFileKeeps ==
  ASSUME FramesInv, NEW f \in Frames, NEW how \in {"none", "bad"}, HarmFile(f, how)
  PROVE  FramesInv'
<1>1. /\ disk[f] = "good" /\ disk' = [disk EXCEPT ![f] = how] /\ harmed' = harmed \cup {f}
      /\ UNCHANGED <<assets, happened, endedAt, cam, reader, left, unlinked, withdrawn>>
  BY DEF HarmFile
<1>2. FrameShape'
  BY <1>1, FramesFacts DEF FrameShape
<1>3. \A g \in Frames : (g = f \/ disk'[g] = disk[g]) /\ (Intact(g) => Intact(g)')
  BY <1>1, FramesFacts DEF FrameShape, Intact, Vanished
<1>4. BestPath' = BestPath /\ \A g : Referenced(g)' <=> Referenced(g)
  BY <1>1 DEF BestPath, Referenced
<1>5. Ordered' /\ ReaderKnows'
  BY <1>1, <1>4 DEF FramesInv, Ordered, ReaderKnows, Vanished
<1>6. RowsIntact'
  <2>1. \A o \in Owners : assets[o].path # 0 => assets[o].path \in Frames
    BY FramesFacts
  <2> QED BY <1>1, <1>3, <2>1 DEF FramesInv, RowsIntact, Vanished
<1>7. CameraKnows'
  BY <1>1, <1>3, <1>4 DEF FramesInv, CameraKnows, Referenced
<1>8. FrameKept' /\ FrameFollows' /\ VerdictHonest'
  BY <1>1, <1>4, <1>6 DEF FramesInv, FramesHonest, FrameKept, FrameFollows, VerdictHonest, RowsIntact, Intact, Vanished
<1>9. NoLitter'
  BY <1>1, <1>3, <1>4 DEF FramesInv, FramesHonest, NoLitter
<1> QED BY <1>2, <1>5, <1>6, <1>7, <1>8, <1>9 DEF FramesInv, FramesHonest

LEMMA FramesStep == FramesInv /\ [FramesNext]_framevars => FramesInv'
<1> SUFFICES ASSUME FramesInv, [FramesNext]_framevars PROVE FramesInv'
  OBVIOUS
<1>1. CASE IndexFrame \/ IndexFails \/ SweepOld \/ SweepFails \/ CameraCrash \/ ReadBytes \/ MarkRow
  BY <1>1, IndexFrameKeeps, IndexFailsKeeps, SweepOldKeeps, SweepFailsKeeps, CameraCrashKeeps,
     ReadBytesKeeps, MarkRowKeeps
<1>2. ASSUME NEW f \in Frames, WriteFrame(f) \/ \E how \in {"none", "bad"} : HarmFile(f, how)
      PROVE  FramesInv'
  BY <1>2, WriteFrameKeeps, HarmFileKeeps
<1>3. ASSUME NEW e \in Happenings,
             LinkFrame(e) \/ EndHappening(e) \/ \E stored \in BOOLEAN : OpenHappening(e, stored)
      PROVE  FramesInv'
  BY <1>3, LinkFrameKeeps, EndHappeningKeeps, OpenHappeningKeeps
<1>4. ASSUME NEW o \in Owners, ReadRow(o) PROVE FramesInv'
  BY <1>4, ReadRowKeeps
<1>5. CASE ObjectGone
  BY <1>5, FramesUntouched DEF ObjectGone
<1>6. CASE UNCHANGED framevars
  BY <1>6, FramesUntouched DEF framevars
<1> QED BY <1>1, <1>2, <1>3, <1>4, <1>5, <1>6 DEF FramesNext

\* The frames of objects and events stay honest (evidence.py): what a row names is on the
\* disk as it was written unless it was harmed from outside, or removed by a transaction that
\* failed and whose rows a later commit stored; an ended event keeps the frame it had, an open
\* one follows its object, a verdict is about a file that vanished in one of these ways, and
\* no file is forgotten except by a crash, a failure or a newer link: FramesHonest in every
\* state, for any frames, events and number of faults.
THEOREM FramesStayHonest == FramesSpec => []FramesHonest
<1>1. FramesInit => FramesInv
  BY FramesBegin
<1>2. FramesInv /\ [FramesNext]_framevars => FramesInv'
  BY FramesStep
<1>3. FramesInv => FramesHonest
  BY DEF FramesInv
<1> QED BY <1>1, <1>2, <1>3, PTL DEF FramesSpec

-------------------------------------------------------------------------------
(* EnvironmentBaseline: the versions of a scene, their files and the answers. *)

Replies == {"none", "busy", "ok", "unavailable", "refused", "raised"}
Jobs == [pc : {"idle", "frame", "model", "store", "commit", "discard", "note"},
         asks : {"none", "baseline", "profile"}, scene : Nat, file : Nat, answer : Replies]
FileRows == [file : 1..MaxAttempts, scene : Nat, valid : BOOLEAN]
BaseShape ==
    /\ onCamera \in Nat /\ attempts \in 0..MaxAttempts /\ building \in BOOLEAN
    /\ versions \in Seq(FileRows)
    /\ scenes \in [1..MaxAttempts -> Int] /\ jobs \in [Admins -> Jobs]
    /\ status \in [pc : {"idle", "row", "file"}, version : Nat, file : Nat, begun : Nat,
                   answer : {"none", "failed", "required", "ready", "broken"}]
\* Names of files: of the attempts so far, each in the hands of one administrator.
NamesOnce ==
    /\ \A i \in 1..Len(versions) : versions[i].file <= attempts /\ versions[i].scene > 0
    /\ \A t \in 1..MaxAttempts : t > attempts => scenes[t] = 0
    /\ \A a \in Admins : jobs[a].file <= attempts
    /\ \A a, b \in Admins : jobs[a].file = jobs[b].file /\ jobs[a].file # 0 => a = b
\* How far a request has got: only one for a baseline gets to a file.
Stage(j) ==
    /\ j.pc \in {"store", "commit", "discard", "note"} => j.asks = "baseline"
    /\ j.pc = "idle" => j.asks = "none"
    /\ j.pc \in {"model", "store", "commit", "discard"} => j.scene > 0
    /\ j.pc \in {"frame", "model", "store"} => j.file = 0
    /\ j.pc \in {"commit", "discard"} => j.file # 0
    /\ j.pc = "note" => j.answer # "ok"
\* The file at hand: before the commit it shows the scene and no version names it; after a
\* commit that failed none does, unless it was done; and the answer that is given is true.
Shows(t, s) == scenes[t] = s \/ t \in marred
FileAtHand(j) ==
    /\ j.pc = "commit" => MayDiscard(j.file) /\ Shows(j.file, j.scene)
    /\ j.pc \in {"discard", "note"} => MayDiscard(j.file) \/ j.file \in unsure
    /\ j.pc = "idle" /\ j.file # 0 =>
          (j.answer = "ok" <=> ~MayDiscard(j.file)) \/ j.file \in unsure
JobsHonest ==
    /\ \A a \in Admins : Stage(jobs[a]) /\ FileAtHand(jobs[a]) /\ (jobs[a].asks = "baseline" => building)
    /\ \A a, b \in Admins : jobs[a].asks = "baseline" /\ jobs[b].asks = "baseline" => a = b
\* A file without a version is at hand or was left.
Accounted(t) == t \in stray \/ \E a \in Admins : jobs[a].file = t /\ jobs[a].pc \in {"commit", "discard"}
FilesAccounted == \A t \in 1..MaxAttempts : scenes[t] # 0 /\ MayDiscard(t) => Accounted(t)
\* What the reader of the state has seen of the versions.
StatusKnows ==
    /\ status.begun <= Len(versions)
    /\ status.pc # "idle" => status.answer = "none"
    /\ status.pc = "row" => status.version = status.begun /\ status.version > 0
    /\ status.pc = "file" => ~MayDiscard(status.file)
    /\ status.answer = "required" /\ status.begun # 0 => Len(versions) > status.begun
    /\ status.answer = "broken" => status.file \in marred
BaseInv ==
    BaseShape /\ NamesOnce /\ JobsHonest /\ FilesAccounted /\ StatusKnows /\ VersionsKept

LEMMA BaselinesFollow == ASSUME BaseInv PROVE BaselinesHonest
<1>1. OneAttempt
  BY DEF BaseInv, OneAttempt, JobsHonest, FilesAccounted, Accounted
<1>2. AnswersTrue
  BY DEF BaseInv, AnswersTrue, JobsHonest, FileAtHand, StatusKnows
<1> QED BY <1>1, <1>2 DEF BaseInv, BaselinesHonest

LEMMA BaselineBegin == ASSUME BaselineInit PROVE BaseInv
<1>1. /\ versions = <<>> /\ Len(versions) = 0 /\ attempts = 0 /\ pointer = 0
      /\ scenes = [t \in 1..MaxAttempts |-> 0]
      /\ \A a \in Admins : jobs[a] = [pc |-> "idle", asks |-> "none", scene |-> 0, file |-> 0,
                                      answer |-> "none"]
      /\ status = [pc |-> "idle", version |-> 0, file |-> 0, answer |-> "none", begun |-> 0]
  BY DEF BaselineInit, JobDone, NoStatus
<1>2. jobs \in [Admins -> Jobs]
  BY DEF BaselineInit, JobDone, Jobs, Replies
<1>3. BaseShape
  <2>1. versions \in Seq(FileRows) /\ scenes \in [1..MaxAttempts -> Int] /\ attempts \in 0..MaxAttempts
    BY <1>1, BaselineAssumption
  <2>2. onCamera \in Nat /\ building \in BOOLEAN
    BY DEF BaselineInit
  <2> QED BY <1>1, <1>2, <2>1, <2>2 DEF BaseShape
<1>4. NamesOnce
  BY <1>1 DEF NamesOnce
<1>5. JobsHonest
  BY <1>1 DEF JobsHonest, Stage, FileAtHand
<1>6. FilesAccounted /\ StatusKnows /\ VersionsKept
  BY <1>1 DEF FilesAccounted, StatusKnows, VersionsKept
<1> QED BY <1>3, <1>4, <1>5, <1>6 DEF BaseInv

LEMMA JobFacts ==
  ASSUME BaseInv, NEW a \in Admins
  PROVE  /\ jobs[a] \in Jobs /\ jobs[a].scene \in Nat /\ jobs[a].file \in 0..attempts
         /\ jobs[a].file # 0 => jobs[a].file \in 1..MaxAttempts
         /\ Stage(jobs[a]) /\ FileAtHand(jobs[a]) /\ (jobs[a].asks = "baseline" => building)
         /\ jobs[a] = [pc |-> jobs[a].pc, asks |-> jobs[a].asks, scene |-> jobs[a].scene,
                       file |-> jobs[a].file, answer |-> jobs[a].answer]
         /\ attempts \in Nat /\ MaxAttempts \in Nat /\ attempts <= MaxAttempts
<1>1. jobs[a] \in Jobs /\ attempts \in 0..MaxAttempts /\ MaxAttempts \in Nat
  BY BaselineAssumption DEF BaseInv, BaseShape
<1>2. jobs[a].file <= attempts /\ jobs[a].file \in Nat /\ jobs[a].scene \in Nat
  BY <1>1 DEF BaseInv, NamesOnce, Jobs
<1>3. jobs[a].file \in 0..attempts /\ (jobs[a].file # 0 => jobs[a].file \in 1..MaxAttempts)
  BY <1>1, <1>2
<1>4. jobs[a] = [pc |-> jobs[a].pc, asks |-> jobs[a].asks, scene |-> jobs[a].scene,
                 file |-> jobs[a].file, answer |-> jobs[a].answer]
  BY <1>1 DEF Jobs
<1> QED BY <1>1, <1>2, <1>3, <1>4 DEF BaseInv, JobsHonest

LEMMA VersionFacts ==
  ASSUME BaseInv
  PROVE  /\ Len(versions) \in Nat /\ pointer = Len(versions)
         /\ \A i \in 1..Len(versions) :
               /\ versions[i] \in FileRows /\ versions[i].file \in 1..MaxAttempts
               /\ versions[i].file # 0 /\ versions[i].file <= attempts /\ versions[i].file \in Nat
               /\ versions[i].scene \in Nat /\ versions[i].scene > 0
               /\ versions[i] = [file |-> versions[i].file, scene |-> versions[i].scene,
                                valid |-> versions[i].valid]
<1>1. versions \in Seq(FileRows) /\ pointer = Len(versions)
  BY DEF BaseInv, BaseShape, VersionsKept
<1>2. \A i \in 1..Len(versions) : versions[i] \in FileRows
  BY <1>1
<1>3. \A i \in 1..Len(versions) : /\ versions[i].file \in 1..MaxAttempts /\ versions[i].scene \in Nat
                                  /\ versions[i] = [file |-> versions[i].file, scene |-> versions[i].scene,
                                                   valid |-> versions[i].valid]
  BY <1>2 DEF FileRows
<1>4. \A i \in 1..Len(versions) : versions[i].file # 0 /\ versions[i].file \in Nat
  <2>1. \A x \in 1..MaxAttempts : x # 0 /\ x \in Nat
    BY BaselineAssumption
  <2> QED BY <1>3, <2>1
<1> QED BY <1>1, <1>2, <1>3, <1>4 DEF BaseInv, NamesOnce

\* One request moves; no file and no version does. It keeps or loses the file it has, leaves
\* none behind that is not accounted for, and nobody else holds or asks for the camera.
LEMMA JobStep ==
  ASSUME BaseInv, NEW a \in Admins, NEW j \in Jobs, jobs' = [jobs EXCEPT ![a] = j],
         onCamera' = onCamera,
         UNCHANGED <<versions, pointer, scenes, attempts, status, marred, unsure>>,
         stray \subseteq stray', building' \in BOOLEAN,
         j.file \in {0, jobs[a].file}, Stage(j), FileAtHand(j),
         j.asks = "baseline" => building' /\ (jobs[a].asks = "baseline" \/ ~building),
         building /\ jobs[a].asks # "baseline" => building',
         jobs[a].pc \in {"commit", "discard"} =>
            \/ jobs[a].file \in stray'
            \/ ~MayDiscard(jobs[a].file)
            \/ j.file = jobs[a].file /\ j.pc \in {"commit", "discard"}
  PROVE  BaseInv'
<1>1. jobs'[a] = j /\ \A b \in Admins : b # a => jobs'[b] = jobs[b]
  BY DEF BaseInv, BaseShape
<1>2. BaseShape'
  BY DEF BaseInv, BaseShape
<1>3. NamesOnce'
  <2>1. j.file <= attempts
    <3>1. jobs[a].file \in 0..attempts /\ attempts \in Nat
      BY JobFacts
    <3> QED BY <3>1
  <2>2. \A b \in Admins : jobs'[b].file \in {0, jobs[b].file} /\ jobs'[b].file <= attempts
    BY <1>1, <2>1 DEF BaseInv, NamesOnce
  <2> QED BY <2>2 DEF BaseInv, NamesOnce
<1>4. \A t : MayDiscard(t)' <=> MayDiscard(t)
  BY DEF MayDiscard
<1>5. ASSUME NEW b \in Admins PROVE Stage(jobs'[b]) /\ FileAtHand(jobs'[b]) /\ (jobs'[b].asks = "baseline" => building')
  <2>1. CASE b = a
    BY <1>1, <2>1
  <2>2. CASE b # a
    <3>1. jobs'[b] = jobs[b] /\ Stage(jobs[b]) /\ FileAtHand(jobs[b]) /\ (jobs[b].asks = "baseline" => building)
      BY <1>1, <2>2, JobFacts
    <3>2. jobs[b].asks = "baseline" => jobs[a].asks # "baseline"
      BY <2>2 DEF BaseInv, JobsHonest
    <3> QED BY <3>1, <3>2
  <2> QED BY <2>1, <2>2
<1>6. JobsHonest'
  <2>1. ASSUME NEW b \in Admins PROVE Stage(jobs[b])' /\ FileAtHand(jobs[b])'
    BY <1>4, <1>5 DEF Stage, FileAtHand, Shows
  <2>2. ASSUME NEW b \in Admins, NEW c \in Admins, jobs'[b].asks = "baseline", jobs'[c].asks = "baseline"
        PROVE  b = c
    <3>1. CASE b = a /\ c # a
      BY <1>1, <2>2, <3>1, JobFacts DEF BaseInv, JobsHonest
    <3>2. CASE c = a /\ b # a
      BY <1>1, <2>2, <3>2, JobFacts DEF BaseInv, JobsHonest
    <3>3. CASE b # a /\ c # a
      BY <1>1, <2>2, <3>3 DEF BaseInv, JobsHonest
    <3> QED BY <3>1, <3>2, <3>3
  <2> QED BY <1>5, <2>1, <2>2 DEF JobsHonest
<1>7. FilesAccounted'
  <2>1. ASSUME NEW t \in 1..MaxAttempts, scenes[t] # 0, MayDiscard(t)
        PROVE  t \in stray' \/ \E b \in Admins : jobs'[b].file = t /\ jobs'[b].pc \in {"commit", "discard"}
    <3>1. t \in stray \/ \E b \in Admins : jobs[b].file = t /\ jobs[b].pc \in {"commit", "discard"}
      BY <2>1 DEF BaseInv, FilesAccounted, Accounted
    <3>2. CASE t \in stray
      BY <3>2
    <3>3. ASSUME NEW b \in Admins, jobs[b].file = t, jobs[b].pc \in {"commit", "discard"}
          PROVE  t \in stray' \/ (jobs'[b].file = t /\ jobs'[b].pc \in {"commit", "discard"})
      <4>1. CASE b = a
        BY <1>1, <2>1, <3>3, <4>1
      <4>2. CASE b # a
        BY <1>1, <3>3, <4>2
      <4> QED BY <4>1, <4>2
    <3> QED BY <3>1, <3>2, <3>3
  <2> QED BY <1>4, <2>1 DEF FilesAccounted, Accounted
<1>8. StatusKnows'
  BY <1>4 DEF BaseInv, StatusKnows
<1>9. VersionsKept'
  BY DEF BaseInv, VersionsKept
<1> QED BY <1>2, <1>3, <1>6, <1>7, <1>8, <1>9 DEF BaseInv


\* The ways a request ends: it keeps its file and releases the camera if it was for a
\* baseline; a baseline that failed is noted first.
JobAnswered(a, answer) ==
    [pc |-> "idle", asks |-> "none", scene |-> 0, file |-> jobs[a].file, answer |-> answer]
LEMMA Answering ==
  ASSUME BaseInv, NEW a \in Admins, NEW answer \in Replies, JobAnswers(a, answer)
  PROVE  /\ jobs' = [jobs EXCEPT ![a] = JobAnswered(a, answer)] /\ JobAnswered(a, answer) \in Jobs
         /\ building' \in BOOLEAN /\ (building /\ jobs[a].asks # "baseline" => building')
         /\ Stage(JobAnswered(a, answer))
<1>1. jobs[a].file \in Nat
  BY JobFacts DEF Jobs
<1>2. [JobDone(answer) EXCEPT !.file = jobs[a].file] = JobAnswered(a, answer)
  BY DEF JobDone, JobAnswered
<1>3. jobs' = [jobs EXCEPT ![a] = JobAnswered(a, answer)]
  BY <1>2 DEF JobAnswers, Job
<1>4. building' \in BOOLEAN /\ (building /\ jobs[a].asks # "baseline" => building')
  BY DEF JobAnswers
<1>5. JobAnswered(a, answer) \in Jobs /\ Stage(JobAnswered(a, answer))
  BY <1>1 DEF JobAnswered, Jobs, Stage
<1> QED BY <1>3, <1>4, <1>5

Wrote(a, answer) == [jobs[a] EXCEPT !.pc = "note", !.answer = answer]
LEMMA Failing ==
  ASSUME BaseInv, NEW a \in Admins, NEW answer \in Replies \ {"ok"}, FailsWith(a, answer)
  PROVE  \E j \in Jobs :
            /\ jobs' = [jobs EXCEPT ![a] = j] /\ Stage(j) /\ j.file = jobs[a].file
            /\ j.pc \in {"note", "idle"} /\ j.answer # "ok" /\ building' \in BOOLEAN
            /\ j.asks = "baseline" => building' /\ jobs[a].asks = "baseline"
            /\ building /\ jobs[a].asks # "baseline" => building'
<1>1. jobs[a] \in Jobs /\ (jobs[a].asks = "baseline" => building) /\ building \in BOOLEAN
  BY JobFacts DEF BaseInv, BaseShape
<1>2. CASE jobs[a].asks = "baseline"
  <2>1. jobs' = [jobs EXCEPT ![a] = Wrote(a, answer)] /\ building' = building
    BY <1>2 DEF FailsWith, Job, Wrote
  <2>2. /\ Wrote(a, answer) \in Jobs /\ Wrote(a, answer).pc = "note"
        /\ Wrote(a, answer).asks = "baseline" /\ Wrote(a, answer).file = jobs[a].file
        /\ Wrote(a, answer).answer = answer
    BY <1>1, <1>2 DEF Wrote, Jobs
  <2>3. Stage(Wrote(a, answer))
    BY <2>2 DEF Stage
  <2> QED BY <1>1, <1>2, <2>1, <2>2, <2>3
<1>3. CASE jobs[a].asks # "baseline"
  <2>1. JobAnswers(a, answer)
    BY <1>3 DEF FailsWith
  <2>2. /\ JobAnswered(a, answer).pc = "idle" /\ JobAnswered(a, answer).asks = "none"
        /\ JobAnswered(a, answer).file = jobs[a].file /\ JobAnswered(a, answer).answer = answer
    BY DEF JobAnswered
  <2> QED BY <1>3, <2>1, <2>2, Answering
<1> QED BY <1>2, <1>3

LEMMA AskBaselineKeeps == ASSUME BaseInv, NEW a \in Admins, AskBaseline(a) PROVE BaseInv'
<1>1. /\ UNCHANGED <<onCamera, versions, pointer, scenes, attempts, status, marred, stray, unsure>>
      /\ jobs[a].pc = "idle"
  BY DEF AskBaseline, tablesOfBaselines, historyOfBaselines
<1>2. CASE MayBuild
  <2> DEFINE j == [pc |-> "frame", asks |-> "baseline", scene |-> 0, file |-> 0, answer |-> "none"]
  <2>1. jobs' = [jobs EXCEPT ![a] = j] /\ building' = TRUE /\ ~building
    BY <1>2 DEF AskBaseline, Job, JobDone, MayBuild
  <2>2. j \in Jobs /\ Stage(j) /\ FileAtHand(j)
    BY DEF Jobs, Replies, Stage, FileAtHand
  <2>3. j.file = 0
    OBVIOUS
  <2> HIDE DEF j
  <2> QED BY <1>1, <2>1, <2>2, <2>3, JobStep
<1>3. CASE ~MayBuild
  <2> DEFINE j == [pc |-> "idle", asks |-> "none", scene |-> 0, file |-> 0, answer |-> "busy"]
  <2>1. jobs' = [jobs EXCEPT ![a] = j] /\ building' = building /\ building \in BOOLEAN
    BY <1>3 DEF AskBaseline, Job, JobDone, BaseInv, BaseShape
  <2>2. j \in Jobs /\ Stage(j) /\ FileAtHand(j)
    BY DEF Jobs, Replies, Stage, FileAtHand
  <2>3. j.file = 0 /\ j.asks = "none"
    OBVIOUS
  <2> HIDE DEF j
  <2> QED BY <1>1, <2>1, <2>2, <2>3, JobStep
<1> QED BY <1>2, <1>3

LEMMA AskProfileKeeps == ASSUME BaseInv, NEW a \in Admins, AskProfile(a) PROVE BaseInv'
<1> DEFINE j == [JobDone("none") EXCEPT !.pc = "frame", !.asks = "profile"]
<1>1. /\ UNCHANGED <<onCamera, versions, pointer, scenes, attempts, status, marred, stray, unsure>>
      /\ jobs[a].pc = "idle" /\ jobs' = [jobs EXCEPT ![a] = j] /\ building' = building
      /\ building \in BOOLEAN
  BY DEF AskProfile, tablesOfBaselines, historyOfBaselines, Job, BaseInv, BaseShape
<1>2. j \in Jobs /\ j.pc = "frame" /\ j.file = 0 /\ j.asks = "profile"
  BY DEF JobDone, Jobs, Replies
<1> HIDE DEF j
<1>3. Stage(j) /\ FileAtHand(j)
  BY <1>2 DEF Stage, FileAtHand
<1> QED BY <1>1, <1>2, <1>3, JobStep

\* A failure before there is a file.
LEMMA FailsEarly ==
  ASSUME BaseInv, NEW a \in Admins, NEW answer \in Replies \ {"ok"}, FailsWith(a, answer),
         jobs[a].pc \in {"frame", "model"},
         UNCHANGED <<onCamera, versions, pointer, scenes, attempts, status, marred, stray, unsure>>
  PROVE  BaseInv'
<1>1. PICK j \in Jobs :
         /\ jobs' = [jobs EXCEPT ![a] = j] /\ Stage(j) /\ j.file = jobs[a].file
         /\ j.pc \in {"note", "idle"} /\ j.answer # "ok" /\ building' \in BOOLEAN
         /\ j.asks = "baseline" => building' /\ jobs[a].asks = "baseline"
         /\ building /\ jobs[a].asks # "baseline" => building'
  BY Failing
<1>2. j.file = 0
  BY <1>1, JobFacts DEF Stage
<1>3. MayDiscard(j.file)
  <2>1. \A i \in 1..Len(versions) : versions[i].file # 0
    BY VersionFacts
  <2> QED BY <1>2, <2>1 DEF MayDiscard
<1>4. FileAtHand(j)
  BY <1>1, <1>2, <1>3 DEF FileAtHand
<1> QED BY <1>1, <1>2, <1>4, JobStep

LEMMA CopyFrameKeeps == ASSUME BaseInv, NEW a \in Admins, CopyFrame(a) PROVE BaseInv'
<1>1. /\ UNCHANGED <<onCamera, versions, pointer, scenes, attempts, status, marred, stray, unsure>>
      /\ jobs[a].pc = "frame"
  BY DEF CopyFrame, tablesOfBaselines, historyOfBaselines
<1>2. CASE onCamera = 0
  <2>1. FailsWith(a, "unavailable")
    BY <1>2 DEF CopyFrame
  <2> QED BY <1>1, <2>1, FailsEarly DEF Replies
<1>3. CASE onCamera # 0
  <2> DEFINE j == [jobs[a] EXCEPT !.pc = "model", !.scene = onCamera]
  <2>1. jobs[a] \in Jobs /\ jobs[a].file = 0 /\ onCamera \in Nat /\ building \in BOOLEAN
        /\ (jobs[a].asks = "baseline" => building)
    BY <1>1, JobFacts DEF Stage, BaseInv, BaseShape
  <2>3. jobs' = [jobs EXCEPT ![a] = j] /\ building' = building
    BY <1>3 DEF CopyFrame, Job
  <2>4. j \in Jobs /\ j.pc = "model" /\ j.file = 0 /\ j.scene = onCamera /\ j.asks = jobs[a].asks
    BY <2>1 DEF Jobs
  <2>5. j.scene > 0
    BY <1>3, <2>1, <2>4
  <2>6. Stage(j) /\ FileAtHand(j)
    BY <2>4, <2>5 DEF Stage, FileAtHand
  <2> HIDE DEF j
  <2> QED BY <1>1, <2>1, <2>3, <2>4, <2>5, <2>6, JobStep
<1> QED BY <1>2, <1>3


LEMMA AnalyzedKeeps == ASSUME BaseInv, NEW a \in Admins, Analyzed(a) PROVE BaseInv'
<1>1. /\ UNCHANGED <<onCamera, versions, pointer, scenes, attempts, status, marred, stray, unsure>>
      /\ jobs[a].pc = "model" /\ jobs[a] \in Jobs /\ jobs[a].file = 0 /\ jobs[a].scene > 0
      /\ building \in BOOLEAN
  BY JobFacts DEF Analyzed, historyOfBaselines, Stage, BaseInv, BaseShape
<1>2. CASE jobs[a].asks = "baseline"
  <2> DEFINE j == [jobs[a] EXCEPT !.pc = "store"]
  <2>2. jobs' = [jobs EXCEPT ![a] = j] /\ building' = building /\ building
    BY <1>2, JobFacts DEF Analyzed, JobGoes, Job
  <2>3. j \in Jobs /\ j.pc = "store" /\ j.file = 0 /\ j.scene = jobs[a].scene /\ j.asks = "baseline"
    BY <1>1, <1>2 DEF Jobs
  <2>4. j.scene > 0
    BY <1>1, <2>3
  <2>5. Stage(j) /\ FileAtHand(j)
    BY <2>3, <2>4 DEF Stage, FileAtHand
  <2> HIDE DEF j
  <2> QED BY <1>1, <1>2, <2>2, <2>3, <2>4, <2>5, JobStep
<1>3. CASE jobs[a].asks # "baseline"
  <2>1. JobAnswers(a, "ok") /\ "ok" \in Replies
    BY <1>3 DEF Analyzed, Replies
  <2>2. FileAtHand(JobAnswered(a, "ok")) /\ JobAnswered(a, "ok").file = 0 /\ JobAnswered(a, "ok").asks = "none"
    BY <1>1 DEF FileAtHand, JobAnswered
  <2> QED BY <1>1, <1>3, <2>1, <2>2, Answering, JobStep
<1> QED BY <1>2, <1>3

LEMMA NotAnalyzedKeeps == ASSUME BaseInv, NEW a \in Admins, NotAnalyzed(a) PROVE BaseInv'
  BY FailsEarly DEF NotAnalyzed, tablesOfBaselines, historyOfBaselines, Replies

LEMMA RaisesKeeps == ASSUME BaseInv, NEW a \in Admins, Raises(a) PROVE BaseInv'
<1>1. /\ UNCHANGED <<onCamera, versions, pointer, scenes, attempts, status, marred, stray, unsure>>
      /\ jobs[a].pc \in {"model", "store"} /\ jobs[a].file = 0
      /\ JobAnswers(a, "raised") /\ "raised" \in Replies
  BY JobFacts DEF Raises, tablesOfBaselines, historyOfBaselines, Stage, Replies
<1>2. FileAtHand(JobAnswered(a, "raised")) /\ JobAnswered(a, "raised").file = 0 /\ JobAnswered(a, "raised").asks = "none"
  BY <1>1 DEF FileAtHand, JobAnswered
<1> QED BY <1>1, <1>2, Answering, JobStep

LEMMA NoteFailureKeeps == ASSUME BaseInv, NEW a \in Admins, NoteFailure(a) PROVE BaseInv'
<1> DEFINE answer == jobs[a].answer
<1>1. /\ UNCHANGED <<onCamera, versions, pointer, scenes, attempts, status, marred, stray, unsure>>
      /\ jobs[a].pc = "note" /\ jobs[a] \in Jobs /\ FileAtHand(jobs[a]) /\ Stage(jobs[a])
      /\ JobAnswers(a, answer)
  BY JobFacts DEF NoteFailure, historyOfBaselines
<1>2. answer \in Replies /\ answer # "ok"
  BY <1>1 DEF Jobs, Stage
<1>3. MayDiscard(jobs[a].file) \/ jobs[a].file \in unsure
  BY <1>1 DEF FileAtHand
<1> HIDE DEF answer
<1>4. /\ FileAtHand(JobAnswered(a, answer)) /\ JobAnswered(a, answer).file = jobs[a].file
      /\ JobAnswered(a, answer).asks = "none"
  BY <1>2, <1>3 DEF FileAtHand, JobAnswered
<1> QED BY <1>1, <1>2, <1>4, Answering, JobStep

\* The end of a commit that failed: the file is removed or stays.
LEMMA DiscardUnsureKeeps == ASSUME BaseInv, NEW a \in Admins, DiscardUnsure(a) PROVE BaseInv'
<1>1. /\ UNCHANGED <<onCamera, versions, pointer, scenes, attempts, status, marred, unsure>>
      /\ jobs[a].pc = "discard" /\ FileAtHand(jobs[a]) /\ FailsWith(a, "unavailable")
      /\ stray' = stray \cup {jobs[a].file} /\ "unavailable" \in Replies \ {"ok"}
  BY JobFacts DEF DiscardUnsure, tablesOfBaselines, Replies
<1>2. PICK j \in Jobs :
         /\ jobs' = [jobs EXCEPT ![a] = j] /\ Stage(j) /\ j.file = jobs[a].file
         /\ j.pc \in {"note", "idle"} /\ j.answer # "ok" /\ building' \in BOOLEAN
         /\ j.asks = "baseline" => building' /\ jobs[a].asks = "baseline"
         /\ building /\ jobs[a].asks # "baseline" => building'
  BY <1>1, Failing
<1>3. FileAtHand(j)
  BY <1>1, <1>2 DEF FileAtHand
<1> QED BY <1>1, <1>2, <1>3, JobStep

LEMMA DiscardKeeps == ASSUME BaseInv, NEW a \in Admins, Discard(a) PROVE BaseInv'
<1> DEFINE t == jobs[a].file
<1>1. /\ UNCHANGED <<onCamera, versions, pointer, attempts, status, marred, stray, unsure>>
      /\ jobs[a].pc = "discard" /\ FileAtHand(jobs[a]) /\ FailsWith(a, "unavailable")
      /\ scenes' = IF MayDiscard(t) THEN [scenes EXCEPT ![t] = 0] ELSE scenes
      /\ "unavailable" \in Replies \ {"ok"} /\ t \in 1..MaxAttempts
  BY JobFacts DEF Discard, tablesOfBaselines, historyOfBaselines, Replies, Stage
<1>2. PICK j \in Jobs :
         /\ jobs' = [jobs EXCEPT ![a] = j] /\ Stage(j) /\ j.file = jobs[a].file
         /\ j.pc \in {"note", "idle"} /\ j.answer # "ok" /\ building' \in BOOLEAN
         /\ j.asks = "baseline" => building' /\ jobs[a].asks = "baseline"
         /\ building /\ jobs[a].asks # "baseline" => building'
  BY <1>1, Failing
<1>3. FileAtHand(j)
  BY <1>1, <1>2 DEF FileAtHand
<1>4. CASE ~MayDiscard(t)
  BY <1>1, <1>2, <1>3, <1>4, JobStep
<1>5. CASE MayDiscard(t)
  <2>1. /\ scenes' \in [1..MaxAttempts -> Int] /\ scenes'[t] = 0
        /\ \A u \in 1..MaxAttempts : u # t => scenes'[u] = scenes[u]
    BY <1>1, <1>5 DEF BaseInv, BaseShape
  <2>2. jobs'[a] = j /\ \A b \in Admins : b # a => jobs'[b] = jobs[b] /\ jobs[b].file # t
    BY <1>1, <1>2, JobFacts DEF BaseInv, BaseShape, NamesOnce
  <2>3. BaseShape'
    BY <1>1, <1>2, <2>1 DEF BaseInv, BaseShape
  <2>4. \A b \in Admins : jobs'[b].file = jobs[b].file
    BY <1>2, <2>2
  <2>5. NamesOnce'
    BY <1>1, <2>1, <2>4 DEF BaseInv, NamesOnce
  <2>6. \A u : MayDiscard(u)' <=> MayDiscard(u)
    BY <1>1 DEF MayDiscard
  <2>7. ASSUME NEW b \in Admins
        PROVE  /\ Stage(jobs'[b]) /\ (jobs'[b].asks = "baseline" => building')
               /\ jobs'[b].asks = "baseline" => jobs[b].asks = "baseline"
    <3>1. CASE b = a
      BY <1>2, <2>2, <3>1
    <3>2. CASE b # a
      <4>1. jobs'[b] = jobs[b] /\ Stage(jobs[b]) /\ (jobs[b].asks = "baseline" => building)
        BY <2>2, <3>2, JobFacts
      <4>2. jobs[b].asks = "baseline" => jobs[a].asks # "baseline"
        BY <3>2 DEF BaseInv, JobsHonest
      <4> QED BY <1>2, <4>1, <4>2
    <3> QED BY <3>1, <3>2
  <2>8. ASSUME NEW b \in Admins PROVE FileAtHand(jobs[b])'
    <3>1. CASE b = a
      BY <1>1, <1>2, <1>3, <2>2, <2>6, <3>1 DEF FileAtHand
    <3>2. CASE b # a
      <4>1. jobs'[b] = jobs[b] /\ jobs[b].file # t /\ FileAtHand(jobs[b]) /\ Stage(jobs[b])
        BY <2>2, <3>2, JobFacts
      <4>2. jobs[b].pc = "commit" => jobs[b].file \in 1..MaxAttempts
        BY <4>1, JobFacts DEF Stage
      <4> QED BY <1>1, <2>1, <2>6, <4>1, <4>2 DEF FileAtHand, Shows
    <3> QED BY <3>1, <3>2
  <2>9. JobsHonest'
    <3>1. \A b \in Admins : Stage(jobs[b])'
      BY <2>7 DEF Stage
    <3> QED BY <2>7, <2>8, <3>1 DEF JobsHonest, BaseInv
  <2>10. FilesAccounted'
    BY <1>1, <2>1, <2>2, <2>6 DEF BaseInv, FilesAccounted, Accounted
  <2>11. StatusKnows'
    BY <1>1, <2>6 DEF BaseInv, StatusKnows
  <2>12. VersionsKept'
    <3>1. \A i \in 1..Len(versions) : scenes'[versions[i].file] = scenes[versions[i].file]
      BY <1>5, <2>1, VersionFacts DEF MayDiscard
    <3> QED BY <1>1, <3>1 DEF BaseInv, VersionsKept
  <2> QED BY <2>3, <2>5, <2>9, <2>10, <2>11, <2>12 DEF BaseInv
<1> QED BY <1>4, <1>5


\* A name of its own: no version has it, no other request, and there is no file of it.
LEMMA StoreSceneKeeps == ASSUME BaseInv, NEW a \in Admins, StoreScene(a) PROVE BaseInv'
<1> DEFINE n == attempts + 1
           j == [jobs[a] EXCEPT !.pc = "commit", !.file = n]
<1>1. /\ UNCHANGED <<onCamera, versions, pointer, building, status, marred, stray, unsure>>
      /\ jobs[a].pc = "store" /\ attempts < MaxAttempts /\ attempts' = n
      /\ scenes' = [scenes EXCEPT ![n] = jobs[a].scene] /\ jobs' = [jobs EXCEPT ![a] = j]
  BY DEF StoreScene, tablesOfBaselines, historyOfBaselines, Job
<1>2. n \in Nat /\ n \in 1..MaxAttempts /\ n # 0 /\ n > attempts /\ attempts \in Nat /\ n \in 0..MaxAttempts
  <2>1. attempts \in Nat /\ MaxAttempts \in Nat
    BY JobFacts
  <2> QED BY <1>1, <2>1
<1>3. j \in Jobs /\ j.pc = "commit" /\ j.file = n /\ j.scene = jobs[a].scene /\ j.asks = jobs[a].asks
  BY <1>2, JobFacts DEF Jobs
<1>4. jobs[a].scene \in Nat /\ jobs[a].scene > 0 /\ jobs[a].asks = "baseline" /\ jobs[a].file = 0
  BY <1>1, JobFacts DEF Stage
<1> HIDE DEF j
<1>5. Stage(j)
  BY <1>2, <1>3, <1>4 DEF Stage
<1>6. jobs'[a] = j /\ \A b \in Admins : b # a => jobs'[b] = jobs[b]
  BY <1>1 DEF BaseInv, BaseShape
<1>7. scenes'[n] = jobs[a].scene /\ \A u \in 1..MaxAttempts : u # n => scenes'[u] = scenes[u]
  BY <1>1, <1>2 DEF BaseInv, BaseShape
<1>8. \A i \in 1..Len(versions) : versions[i].file # n
  <2>1. \A i \in 1..Len(versions) : versions[i].file <= attempts /\ versions[i].file \in Nat
    BY VersionFacts
  <2> QED BY <1>2, <2>1
<1>9. \A b \in Admins : jobs[b].file # n /\ jobs[b].file \in Nat /\ jobs[b].file <= attempts
  <2> SUFFICES ASSUME NEW b \in Admins PROVE jobs[b].file # n /\ jobs[b].file \in Nat /\ jobs[b].file <= attempts
    OBVIOUS
  <2>1. jobs[b].file \in 0..attempts
    BY JobFacts
  <2> QED BY <1>2, <2>1
<1>10. MayDiscard(n) /\ \A u : MayDiscard(u)' <=> MayDiscard(u)
  BY <1>1, <1>8 DEF MayDiscard
<1>11. BaseShape'
  BY <1>1, <1>2, <1>3, <1>4 DEF BaseInv, BaseShape
<1>12. NamesOnce'
  <2>1. \A i \in 1..Len(versions) : versions[i].file <= n
    <3>1. \A i \in 1..Len(versions) : versions[i].file <= attempts /\ versions[i].file \in Nat
      BY VersionFacts
    <3> QED BY <1>2, <3>1
  <2>2. \A t \in 1..MaxAttempts : t > n => scenes'[t] = 0
    BY <1>2, <1>7 DEF BaseInv, NamesOnce
  <2>3. \A b \in Admins : jobs'[b].file <= n
    BY <1>2, <1>3, <1>6, <1>9
  <2>4. \A b, c \in Admins : jobs'[b].file = jobs'[c].file /\ jobs'[b].file # 0 => b = c
    BY <1>3, <1>6, <1>9 DEF BaseInv, NamesOnce
  <2> QED BY <1>1, <2>1, <2>2, <2>3, <2>4 DEF BaseInv, NamesOnce
<1>13. JobsHonest'
  <2>1. ASSUME NEW b \in Admins PROVE Stage(jobs[b])' /\ FileAtHand(jobs[b])'
    <3>1. CASE b = a
      BY <1>1, <1>3, <1>5, <1>6, <1>7, <1>10, <3>1 DEF FileAtHand, Stage, Shows
    <3>2. CASE b # a
      <4>1. jobs'[b] = jobs[b] /\ FileAtHand(jobs[b]) /\ Stage(jobs[b])
        BY <1>6, <3>2, JobFacts
      <4>2. jobs[b].pc = "commit" => jobs[b].file \in 1..MaxAttempts /\ jobs[b].file # n
        BY <1>9, <4>1, JobFacts DEF Stage
      <4> QED BY <1>1, <1>7, <1>10, <4>1, <4>2 DEF FileAtHand, Stage, Shows
    <3> QED BY <3>1, <3>2
  <2>2. \A b \in Admins : jobs'[b].asks = jobs[b].asks
    BY <1>3, <1>6
  <2> QED BY <1>1, <2>1, <2>2 DEF BaseInv, JobsHonest
<1>14. FilesAccounted'
  <2>1. ASSUME NEW t \in 1..MaxAttempts, scenes'[t] # 0, MayDiscard(t)
        PROVE  t \in stray \/ \E b \in Admins : jobs'[b].file = t /\ jobs'[b].pc \in {"commit", "discard"}
    <3>1. CASE t = n
      BY <1>3, <1>6, <3>1
    <3>2. CASE t # n
      <4>1. t \in stray \/ \E b \in Admins : jobs[b].file = t /\ jobs[b].pc \in {"commit", "discard"}
        BY <1>7, <2>1, <3>2 DEF BaseInv, FilesAccounted, Accounted
      <4> QED BY <1>1, <1>6, <4>1
    <3> QED BY <3>1, <3>2
  <2> QED BY <1>1, <1>10, <2>1 DEF FilesAccounted, Accounted
<1>15. StatusKnows'
  BY <1>1, <1>10 DEF BaseInv, StatusKnows
<1>16. VersionsKept'
  <2>1. \A i \in 1..Len(versions) : scenes'[versions[i].file] = scenes[versions[i].file]
    BY <1>7, <1>8, VersionFacts
  <2> QED BY <1>1, <2>1 DEF BaseInv, VersionsKept
<1> QED BY <1>11, <1>12, <1>13, <1>14, <1>15, <1>16 DEF BaseInv

\* The version that is added: the ones before keep their file and scene.
LEMMA Adding ==
  ASSUME BaseInv, NEW a \in Admins, jobs[a].pc = "commit", Versioned(a)
  PROVE  /\ versions' \in Seq(FileRows) /\ Len(versions)' = Len(versions) + 1
         /\ pointer' = Len(versions) + 1
         /\ versions'[Len(versions) + 1] = [file |-> jobs[a].file, scene |-> jobs[a].scene, valid |-> TRUE]
         /\ \A i \in 1..Len(versions) : /\ versions'[i].file = versions[i].file
                                        /\ versions'[i].scene = versions[i].scene
                                        /\ versions'[i].valid = FALSE
         /\ \A t : MayDiscard(t)' <=> MayDiscard(t) /\ t # jobs[a].file
<1> DEFINE n == Len(versions)
           old == [i \in 1..n |-> [versions[i] EXCEPT !.valid = FALSE]]
           new == [file |-> jobs[a].file, scene |-> jobs[a].scene, valid |-> TRUE]
<1>1. versions' = Append(old, new) /\ pointer' = n + 1
  BY DEF Versioned
<1>2. n \in Nat /\ \A i \in 1..n : versions[i] \in FileRows
  BY VersionFacts
<1>3. \A i \in 1..n : /\ [versions[i] EXCEPT !.valid = FALSE] \in FileRows
                      /\ [versions[i] EXCEPT !.valid = FALSE].file = versions[i].file
                      /\ [versions[i] EXCEPT !.valid = FALSE].scene = versions[i].scene
                      /\ [versions[i] EXCEPT !.valid = FALSE].valid = FALSE
  BY <1>2 DEF FileRows
<1>4. jobs[a].file \in 1..MaxAttempts /\ jobs[a].scene \in Nat
  BY JobFacts DEF Stage
<1>5. new \in FileRows
  BY <1>4 DEF FileRows
<1>6. old \in Seq(FileRows) /\ Len(old) = n
  <2>1. old \in [1..n -> FileRows]
    BY <1>2, <1>3
  <2> HIDE DEF old
  <2>2. old \in Seq(FileRows) /\ DOMAIN old = 1..n
    BY <1>2, <2>1, SeqDef
  <2> HIDE DEF n
  <2>3. Len(old) \in Nat /\ DOMAIN old = 1..Len(old)
    BY <2>2, LenProperties
  <2> QED BY <1>2, <2>2, <2>3
<1>7. \A i \in 1..n : old[i] = [versions[i] EXCEPT !.valid = FALSE]
  OBVIOUS
<1> HIDE DEF old, new
<1>8. /\ versions' \in Seq(FileRows) /\ Len(versions') = n + 1 /\ versions'[n + 1] = new
      /\ \A i \in 1..n : versions'[i] = old[i]
  BY <1>1, <1>2, <1>5, <1>6
<1>9. \A i \in 1..n : versions'[i].file = versions[i].file /\ versions'[i].scene = versions[i].scene
                      /\ versions'[i].valid = FALSE
  BY <1>3, <1>7, <1>8
<1>10. versions'[n + 1].file = jobs[a].file
  BY <1>8 DEF new
<1>11. \A t : MayDiscard(t)' <=> MayDiscard(t) /\ t # jobs[a].file
  <2> SUFFICES ASSUME NEW t PROVE MayDiscard(t)' <=> MayDiscard(t) /\ t # jobs[a].file
    OBVIOUS
  <2>1. 1..Len(versions') = (1..n) \cup {n + 1}
    BY <1>2, <1>8
  <2> QED BY <1>9, <1>10, <2>1 DEF MayDiscard
<1> QED BY <1>1, <1>8, <1>9, <1>11 DEF new


\* A commit that is done, answered or reported as failed.
LEMMA CommitDone ==
  ASSUME BaseInv, NEW a \in Admins, NEW j \in Jobs, jobs[a].pc = "commit", Versioned(a),
         jobs' = [jobs EXCEPT ![a] = j], j.file = jobs[a].file, Stage(j),
         (j.pc = "idle" /\ j.answer = "ok") \/ (j.pc = "discard" /\ j.file \in unsure'),
         UNCHANGED <<onCamera, scenes, attempts, status, marred, stray>>,
         unsure \subseteq unsure', building' \in BOOLEAN,
         j.asks = "baseline" => building' /\ jobs[a].asks = "baseline",
         building /\ jobs[a].asks # "baseline" => building'
  PROVE  BaseInv'
<1> DEFINE n == Len(versions)
           t == jobs[a].file
<1>1. /\ versions' \in Seq(FileRows) /\ Len(versions') = n + 1 /\ pointer' = n + 1
      /\ versions'[n + 1] = [file |-> t, scene |-> jobs[a].scene, valid |-> TRUE]
      /\ \A i \in 1..n : /\ versions'[i].file = versions[i].file /\ versions'[i].scene = versions[i].scene
                         /\ versions'[i].valid = FALSE
      /\ \A u : MayDiscard(u)' <=> MayDiscard(u) /\ u # t
  BY Adding
<1>2. /\ n \in Nat /\ t \in 1..MaxAttempts /\ t # 0 /\ t <= attempts /\ jobs[a].scene \in Nat /\ jobs[a].scene > 0
      /\ MayDiscard(t) /\ Shows(t, jobs[a].scene)
  <2>1. /\ t \in 0..attempts /\ attempts \in Nat /\ jobs[a].scene \in Nat /\ Stage(jobs[a]) /\ FileAtHand(jobs[a])
        /\ t # 0 => t \in 1..MaxAttempts
    BY JobFacts
  <2>2. t # 0 /\ jobs[a].scene > 0 /\ MayDiscard(t) /\ Shows(t, jobs[a].scene)
    BY <2>1 DEF Stage, FileAtHand
  <2>3. n \in Nat
    BY VersionFacts
  <2> HIDE DEF n, t
  <2> QED BY <2>1, <2>2, <2>3
<1>3. versions'[n + 1].file = t /\ versions'[n + 1].scene = jobs[a].scene /\ versions'[n + 1].valid = TRUE
  BY <1>1
<1>4. \A i \in 1..(n + 1) : i \in 1..n \/ i = n + 1
  BY <1>2
<1>5. jobs'[a] = j /\ \A b \in Admins : b # a => jobs'[b] = jobs[b] /\ jobs[b].file # t
  BY <1>2, JobFacts DEF BaseInv, BaseShape, NamesOnce
<1> HIDE DEF n, t
<1>6. BaseShape'
  BY <1>1 DEF BaseInv, BaseShape
<1>7. \A b \in Admins : jobs'[b].file = jobs[b].file
  BY <1>5 DEF t
<1>8. NamesOnce'
  <2>1. \A i \in 1..(n + 1) : versions'[i].file <= attempts /\ versions'[i].scene > 0
    <3> SUFFICES ASSUME NEW i \in 1..(n + 1) PROVE versions'[i].file <= attempts /\ versions'[i].scene > 0
      OBVIOUS
    <3>1. CASE i \in 1..n
      BY <1>1, <3>1, VersionFacts DEF n
    <3>2. CASE i = n + 1
      BY <1>2, <1>3, <3>2
    <3> QED BY <1>4, <3>1, <3>2
  <2> QED BY <1>1, <1>7, <2>1 DEF BaseInv, NamesOnce
<1>9. ASSUME NEW b \in Admins
      PROVE  /\ Stage(jobs'[b]) /\ (jobs'[b].asks = "baseline" => building')
             /\ jobs'[b].asks = "baseline" => jobs[b].asks = "baseline"
  <2>1. CASE b = a
    BY <1>5, <2>1
  <2>2. CASE b # a
    <3>1. jobs'[b] = jobs[b] /\ Stage(jobs[b]) /\ (jobs[b].asks = "baseline" => building)
      BY <1>5, <2>2, JobFacts
    <3>2. jobs[b].asks = "baseline" => jobs[a].asks # "baseline"
      BY <2>2 DEF BaseInv, JobsHonest
    <3> QED BY <3>1, <3>2
  <2> QED BY <2>1, <2>2
<1>10. ASSUME NEW b \in Admins PROVE FileAtHand(jobs[b])'
  <2>1. CASE b = a
    <3>1. jobs'[b] = j /\ j.file = t
      BY <1>5, <2>1 DEF t
    <3>2. ~MayDiscard(j.file)'
      BY <1>1, <3>1
    <3>3. j.pc = "idle" \/ (j.pc = "discard" /\ j.file \in unsure')
      OBVIOUS
    <3>4. j.pc = "idle" => j.answer = "ok"
      OBVIOUS
    <3> QED BY <3>1, <3>2, <3>3, <3>4 DEF FileAtHand
  <2>2. CASE b # a
    <3>1. jobs'[b] = jobs[b] /\ jobs[b].file # t /\ FileAtHand(jobs[b])
      BY <1>5, <2>2, JobFacts
    <3>2. MayDiscard(jobs[b].file)' <=> MayDiscard(jobs[b].file)
      BY <1>1, <1>5, <2>2
    <3> QED BY <3>1, <3>2 DEF FileAtHand, Shows
  <2> QED BY <2>1, <2>2
<1>11. JobsHonest'
  <2>1. \A b \in Admins : Stage(jobs[b])'
    BY <1>9 DEF Stage
  <2> QED BY <1>9, <1>10, <2>1 DEF JobsHonest, BaseInv
<1>12. FilesAccounted'
  <2>1. ASSUME NEW u \in 1..MaxAttempts, scenes[u] # 0, MayDiscard(u), u # t
        PROVE  u \in stray \/ \E b \in Admins : jobs'[b].file = u /\ jobs'[b].pc \in {"commit", "discard"}
    <3>1. u \in stray \/ \E b \in Admins : jobs[b].file = u /\ jobs[b].pc \in {"commit", "discard"}
      BY <2>1 DEF BaseInv, FilesAccounted, Accounted
    <3>2. \A b \in Admins : jobs[b].file = u => b # a
      BY <2>1 DEF t
    <3> QED BY <1>5, <3>1, <3>2
  <2> QED BY <1>1, <2>1 DEF FilesAccounted, Accounted
<1>13. StatusKnows'
  <2>1. status.begun <= n + 1 /\ (Len(versions) > status.begun => n + 1 > status.begun)
    BY <1>2 DEF BaseInv, BaseShape, StatusKnows, n
  <2> QED BY <1>1, <2>1 DEF BaseInv, StatusKnows
<1>14. VersionsKept'
  <2>1. ASSUME NEW i \in 1..(n + 1)
        PROVE  /\ versions'[i].valid <=> i = n + 1
               /\ versions'[i].file \in marred \/ scenes[versions'[i].file] = versions'[i].scene
               /\ \A k \in 1..(n + 1) : versions'[k].file = versions'[i].file => k = i
    <3>1. \A k \in 1..n : versions'[k].file # t
      BY <1>1, <1>2 DEF MayDiscard, n
    <3>2. CASE i \in 1..n
      <4>1. versions[i].file \in marred \/ scenes[versions[i].file] = versions[i].scene
        BY <3>2 DEF BaseInv, VersionsKept, n
      <4>2. \A k \in 1..n : versions[k].file = versions[i].file => k = i
        BY <3>2 DEF BaseInv, VersionsKept, n
      <4>3. i # n + 1 /\ versions'[i].valid = FALSE
        BY <1>1, <1>2, <3>2
      <4>4. \A k \in 1..(n + 1) : versions'[k].file = versions'[i].file => k = i
        BY <1>1, <1>3, <1>4, <3>1, <3>2, <4>2
      <4> QED BY <1>1, <3>2, <4>1, <4>3, <4>4
    <3>3. CASE i = n + 1
      <4>1. \A k \in 1..(n + 1) : versions'[k].file = versions'[i].file => k = i
        BY <1>3, <1>4, <3>1, <3>3
      <4> QED BY <1>2, <1>3, <3>3, <4>1 DEF Shows
    <3> QED BY <1>4, <3>2, <3>3
  <2> QED BY <1>1, <2>1 DEF VersionsKept
<1> QED BY <1>6, <1>8, <1>11, <1>12, <1>13, <1>14 DEF BaseInv

LEMMA EstablishKeeps == ASSUME BaseInv, NEW a \in Admins, Establish(a) PROVE BaseInv'
<1> DEFINE j == JobAnswered(a, "ok")
<1>1. /\ UNCHANGED <<onCamera, scenes, attempts, status, marred, stray, unsure>>
      /\ jobs[a].pc = "commit" /\ Versioned(a) /\ JobAnswers(a, "ok") /\ "ok" \in Replies
  BY DEF Establish, historyOfBaselines, Replies
<1>2. j.file = jobs[a].file /\ j.asks = "none" /\ j.pc = "idle" /\ j.answer = "ok"
  BY DEF JobAnswered
<1>3. /\ jobs' = [jobs EXCEPT ![a] = j] /\ j \in Jobs /\ Stage(j)
      /\ building' \in BOOLEAN /\ (building /\ jobs[a].asks # "baseline" => building')
  BY <1>1, Answering
<1> HIDE DEF j
<1>4. /\ (j.pc = "idle" /\ j.answer = "ok") \/ (j.pc = "discard" /\ j.file \in unsure')
      /\ j.asks = "baseline" => building' /\ jobs[a].asks = "baseline"
      /\ unsure \subseteq unsure'
  BY <1>1, <1>2
<1> QED BY <1>1, <1>2, <1>3, <1>4, CommitDone

LEMMA EstablishFailsKeeps == ASSUME BaseInv, NEW a \in Admins, EstablishFails(a) PROVE BaseInv'
<1> DEFINE j == [jobs[a] EXCEPT !.pc = "discard"]
<1>1. /\ UNCHANGED <<onCamera, scenes, attempts, building, status, marred, stray>>
      /\ jobs[a].pc = "commit" /\ jobs' = [jobs EXCEPT ![a] = j]
      /\ \/ UNCHANGED <<versions, pointer, failure, unsure>>
         \/ Versioned(a) /\ unsure' = unsure \cup {jobs[a].file}
  BY DEF EstablishFails, JobGoes, Job
<1>2. /\ jobs[a].scene > 0 /\ jobs[a].asks = "baseline" /\ jobs[a].file # 0 /\ MayDiscard(jobs[a].file)
      /\ building /\ building \in BOOLEAN
  BY <1>1, JobFacts DEF Stage, FileAtHand, BaseInv, BaseShape
<1>3. j \in Jobs /\ j.pc = "discard" /\ j.file = jobs[a].file /\ j.scene = jobs[a].scene /\ j.asks = "baseline"
  BY <1>2, JobFacts DEF Jobs
<1> HIDE DEF j
<1>4. Stage(j)
  BY <1>2, <1>3 DEF Stage
<1>5. CASE UNCHANGED <<versions, pointer, failure, unsure>>
  <2>1. FileAtHand(j)
    BY <1>2, <1>3 DEF FileAtHand
  <2> QED BY <1>1, <1>2, <1>3, <1>4, <1>5, <2>1, JobStep
<1>6. CASE Versioned(a) /\ unsure' = unsure \cup {jobs[a].file}
  BY <1>1, <1>2, <1>3, <1>4, <1>6, CommitDone
<1> QED BY <1>1, <1>5, <1>6


\* The reader of the state: it alone moves.
LEMMA StatusStep ==
  ASSUME BaseInv,
         UNCHANGED <<onCamera, versions, pointer, scenes, attempts, building, jobs, marred, stray, unsure>>,
         status' \in [pc : {"idle", "row", "file"}, version : Nat, file : Nat, begun : Nat,
                      answer : {"none", "failed", "required", "ready", "broken"}],
         StatusKnows'
  PROVE  BaseInv'
<1>1. \A t : MayDiscard(t)' <=> MayDiscard(t)
  BY DEF MayDiscard
<1>2. BaseShape' /\ NamesOnce' /\ VersionsKept'
  BY DEF BaseInv, BaseShape, NamesOnce, VersionsKept
<1>3. JobsHonest' /\ FilesAccounted'
  BY <1>1 DEF BaseInv, JobsHonest, Stage, FileAtHand, Shows, FilesAccounted, Accounted
<1> QED BY <1>2, <1>3 DEF BaseInv

StatusRecords == [pc : {"idle", "row", "file"}, version : Nat, file : Nat, begun : Nat,
                  answer : {"none", "failed", "required", "ready", "broken"}]
LEMMA ReadPointerKeeps == ASSUME BaseInv, ReadPointer PROVE BaseInv'
<1>1. UNCHANGED <<onCamera, versions, pointer, scenes, attempts, building, jobs, marred, stray, unsure>>
  BY DEF ReadPointer, tablesOfBaselines, historyOfBaselines
<1>2. pointer = Len(versions) /\ Len(versions) \in Nat
  BY VersionFacts
<1>3. CASE pointer = 0
  <2> DEFINE word == IF failure THEN "failed" ELSE "required"
  <2>1. status' = [NoStatus EXCEPT !.answer = word]
    BY <1>3 DEF ReadPointer
  <2>2. word \in {"failed", "required"}
    OBVIOUS
  <2> HIDE DEF word
  <2>3. status' = [pc |-> "idle", version |-> 0, file |-> 0, answer |-> word, begun |-> 0]
    BY <2>1 DEF NoStatus
  <2> QED BY <1>1, <1>2, <2>2, <2>3, StatusStep DEF StatusKnows
<1>4. CASE pointer # 0
  <2>1. status' = [NoStatus EXCEPT !.pc = "row", !.version = pointer, !.begun = Len(versions)]
    BY <1>4 DEF ReadPointer
  <2>2. status' = [pc |-> "row", version |-> pointer, file |-> 0, answer |-> "none", begun |-> Len(versions)]
    BY <2>1 DEF NoStatus
  <2> QED BY <1>1, <1>2, <1>4, <2>2, StatusStep DEF StatusKnows
<1> QED BY <1>3, <1>4

LEMMA StatusFacts ==
  ASSUME BaseInv
  PROVE  /\ status \in StatusRecords /\ StatusKnows /\ status.begun \in Nat
  BY DEF BaseInv, BaseShape, StatusRecords

\* The version it saw in force is not in force any more, or its file can be looked at.
LEMMA ReadVersionKeeps == ASSUME BaseInv, ReadVersion PROVE BaseInv'
<1>1. /\ UNCHANGED <<onCamera, versions, pointer, scenes, attempts, building, jobs, marred, stray, unsure>>
      /\ status.pc = "row"
  BY DEF ReadVersion, tablesOfBaselines, historyOfBaselines
<1>2. /\ status.version = status.begun /\ status.version \in 1..Len(versions) /\ status.answer = "none"
      /\ status.begun \in Nat /\ pointer = Len(versions) /\ Len(versions) \in Nat
      /\ status.begun <= Len(versions) /\ status.begun # 0
  BY <1>1, StatusFacts, VersionFacts DEF StatusKnows
<1>3. CASE versions[status.version].valid
  <2> DEFINE t == versions[status.version].file
  <2>1. status' = [status EXCEPT !.pc = "file", !.file = t]
    BY <1>3 DEF ReadVersion
  <2>2. t \in Nat /\ ~MayDiscard(t)
    BY <1>2, VersionFacts DEF MayDiscard
  <2> HIDE DEF t
  <2>3. /\ status' \in StatusRecords /\ status'.pc = "file" /\ status'.file = t
        /\ status'.begun = status.begun /\ status'.answer = "none"
    BY <1>2, <2>1, <2>2, StatusFacts DEF StatusRecords
  <2>5. StatusKnows'
    BY <1>1, <1>2, <2>2, <2>3 DEF StatusKnows, MayDiscard
  <2> QED BY <1>1, <2>3, <2>5, StatusStep DEF StatusRecords
<1>4. CASE ~versions[status.version].valid
  <2>1. status' = [status EXCEPT !.pc = "idle", !.answer = "required"]
    BY <1>4 DEF ReadVersion, StatusIs
  <2>2. /\ status' \in StatusRecords /\ status'.pc = "idle" /\ status'.begun = status.begun
        /\ status'.answer = "required"
    BY <2>1, StatusFacts DEF StatusRecords
  <2>3. status.version # Len(versions)
    BY <1>2, <1>4 DEF BaseInv, VersionsKept
  <2>4. StatusKnows'
    BY <1>1, <1>2, <2>2, <2>3 DEF StatusKnows
  <2> QED BY <1>1, <2>2, <2>4, StatusStep DEF StatusRecords
<1> QED BY <1>3, <1>4

LEMMA ReadSceneKeeps == ASSUME BaseInv, ReadScene PROVE BaseInv'
<1> DEFINE word == IF scenes[status.file] > 0 THEN "ready" ELSE "broken"
<1>1. /\ UNCHANGED <<onCamera, versions, pointer, scenes, attempts, building, jobs, marred, stray, unsure>>
      /\ status.pc = "file" /\ status' = [status EXCEPT !.pc = "idle", !.answer = word]
  BY DEF ReadScene, StatusIs, tablesOfBaselines, historyOfBaselines
<1>2. word \in {"ready", "broken"} /\ (word = "broken" => ~(scenes[status.file] > 0))
  OBVIOUS
<1> HIDE DEF word
<1>3. word = "broken" => status.file \in marred
  <2>1. PICK i \in 1..Len(versions) : versions[i].file = status.file
    BY <1>1, StatusFacts DEF StatusKnows, MayDiscard
  <2>2. versions[i].scene > 0
    BY VersionFacts
  <2>3. status.file \in marred \/ scenes[status.file] > 0
    BY <2>1, <2>2 DEF BaseInv, VersionsKept
  <2> QED BY <1>2, <2>3
<1>4. /\ status' \in StatusRecords /\ status'.pc = "idle" /\ status'.begun = status.begun
      /\ status'.file = status.file /\ status'.answer = word
  BY <1>1, <1>2, StatusFacts DEF StatusRecords
<1>5. StatusKnows'
  BY <1>1, <1>2, <1>3, <1>4, StatusFacts DEF StatusKnows
<1> QED BY <1>1, <1>4, <1>5, StatusStep DEF StatusRecords

LEMMA SceneChangesKeeps == ASSUME BaseInv, SceneChanges PROVE BaseInv'
<1>1. /\ UNCHANGED <<versions, pointer, scenes, attempts, building, jobs, status, marred, stray, unsure>>
      /\ onCamera' = onCamera + 1
  BY DEF SceneChanges, tablesOfBaselines, memoryOfBaselines, historyOfBaselines
<1>2. \A t : MayDiscard(t)' <=> MayDiscard(t)
  BY <1>1 DEF MayDiscard
<1>3. BaseShape'
  <2>1. onCamera' \in Nat
    BY <1>1 DEF BaseInv, BaseShape
  <2> QED BY <1>1, <2>1 DEF BaseInv, BaseShape
<1>4. NamesOnce' /\ VersionsKept'
  BY <1>1 DEF BaseInv, NamesOnce, VersionsKept
<1>5. StatusKnows'
  BY <1>1, <1>2 DEF BaseInv, StatusKnows
<1>6. JobsHonest' /\ FilesAccounted'
  BY <1>1, <1>2 DEF BaseInv, JobsHonest, Stage, FileAtHand, Shows, FilesAccounted, Accounted
<1> QED BY <1>3, <1>4, <1>5, <1>6 DEF BaseInv

\* A file is harmed from outside: the history remembers it.
LEMMA HarmSceneKeeps ==
  ASSUME BaseInv, NEW t \in 1..MaxAttempts, NEW how \in {0, -1}, HarmScene(t, how) PROVE BaseInv'
<1>1. /\ UNCHANGED <<onCamera, versions, pointer, attempts, building, jobs, status, stray, unsure>>
      /\ scenes[t] > 0 /\ scenes' = [scenes EXCEPT ![t] = how] /\ marred' = marred \cup {t}
  BY DEF HarmScene, tablesOfBaselines, memoryOfBaselines
<1>2. \A u : MayDiscard(u)' <=> MayDiscard(u)
  BY <1>1 DEF MayDiscard
<1>3. /\ scenes' \in [1..MaxAttempts -> Int] /\ scenes[t] # 0
      /\ \A u \in 1..MaxAttempts : u = t \/ scenes'[u] = scenes[u]
  BY <1>1 DEF BaseInv, BaseShape
<1>4. BaseShape' /\ StatusKnows'
  BY <1>1, <1>2, <1>3 DEF BaseInv, BaseShape, StatusKnows
<1>5. NamesOnce'
  BY <1>1, <1>3 DEF BaseInv, NamesOnce
<1>6. JobsHonest'
  <2>1. ASSUME NEW a \in Admins PROVE Stage(jobs[a])' /\ FileAtHand(jobs[a])'
    <3>1. Stage(jobs[a]) /\ FileAtHand(jobs[a])
      BY JobFacts
    <3>2. jobs[a].pc = "commit" => jobs[a].file \in 1..MaxAttempts
      BY <3>1, JobFacts DEF Stage
    <3> QED BY <1>1, <1>2, <1>3, <3>1, <3>2 DEF FileAtHand, Stage, Shows
  <2> QED BY <1>1, <2>1 DEF BaseInv, JobsHonest
<1>7. FilesAccounted'
  BY <1>1, <1>2, <1>3 DEF BaseInv, FilesAccounted, Accounted
<1>8. VersionsKept'
  <2>1. \A i \in 1..Len(versions) :
           versions[i].file \in marred' \/ scenes'[versions[i].file] = versions[i].scene
    BY <1>1, <1>3, VersionFacts DEF BaseInv, VersionsKept
  <2> QED BY <1>1, <2>1 DEF BaseInv, VersionsKept
<1> QED BY <1>4, <1>5, <1>6, <1>7, <1>8 DEF BaseInv

LEMMA RestartKeeps == ASSUME BaseInv, Restart PROVE BaseInv'
<1>1. /\ UNCHANGED <<onCamera, versions, pointer, scenes, attempts, marred, unsure>>
      /\ building' = FALSE /\ jobs' = [a \in Admins |-> JobDone("none")] /\ status' = NoStatus
      /\ stray' = stray \cup {jobs[a].file :
                                a \in {b \in Admins : jobs[b].pc \in {"commit", "discard"}}}
  BY DEF Restart, tablesOfBaselines
<1>2. \A a \in Admins : jobs'[a] = [pc |-> "idle", asks |-> "none", scene |-> 0, file |-> 0,
                                    answer |-> "none"]
  BY <1>1 DEF JobDone
<1>3. status' = [pc |-> "idle", version |-> 0, file |-> 0, answer |-> "none", begun |-> 0]
  BY <1>1 DEF NoStatus
<1>4. \A u : MayDiscard(u)' <=> MayDiscard(u)
  BY <1>1 DEF MayDiscard
<1>5. BaseShape'
  <2>1. jobs' \in [Admins -> Jobs]
    BY <1>1 DEF JobDone, Jobs, Replies
  <2>2. status' \in [pc : {"idle", "row", "file"}, version : Nat, file : Nat, begun : Nat,
                     answer : {"none", "failed", "required", "ready", "broken"}]
    BY <1>3
  <2> QED BY <1>1, <2>1, <2>2 DEF BaseInv, BaseShape
<1>6. NamesOnce'
  <2>1. attempts \in Nat /\ 0 <= attempts
    BY BaselineAssumption DEF BaseInv, BaseShape
  <2> QED BY <1>1, <1>2, <2>1 DEF BaseInv, NamesOnce
<1>7. JobsHonest'
  BY <1>1, <1>2 DEF JobsHonest, Stage, FileAtHand
<1>8. FilesAccounted'
  <2>1. ASSUME NEW t \in 1..MaxAttempts, scenes[t] # 0, MayDiscard(t) PROVE t \in stray'
    BY <1>1, <2>1 DEF BaseInv, FilesAccounted, Accounted
  <2> QED BY <1>1, <1>4, <2>1 DEF FilesAccounted, Accounted
<1>9. StatusKnows'
  BY <1>1, <1>3, VersionFacts DEF StatusKnows
<1>10. VersionsKept'
  BY <1>1 DEF BaseInv, VersionsKept
<1> QED BY <1>5, <1>6, <1>7, <1>8, <1>9, <1>10 DEF BaseInv

LEMMA BaselinesStep == BaseInv /\ [BaselineNext]_baselinevars => BaseInv'
<1> SUFFICES ASSUME BaseInv, [BaselineNext]_baselinevars PROVE BaseInv'
  OBVIOUS
<1>1. ASSUME NEW a \in Admins,
             \/ AskBaseline(a) \/ AskProfile(a) \/ CopyFrame(a) \/ Analyzed(a) \/ NotAnalyzed(a)
             \/ StoreScene(a) \/ Raises(a)
      PROVE  BaseInv'
  BY <1>1, AskBaselineKeeps, AskProfileKeeps, CopyFrameKeeps, AnalyzedKeeps, NotAnalyzedKeeps,
     StoreSceneKeeps, RaisesKeeps
<1>2. ASSUME NEW a \in Admins,
             \/ Establish(a) \/ EstablishFails(a) \/ Discard(a) \/ DiscardUnsure(a) \/ NoteFailure(a)
      PROVE  BaseInv'
  BY <1>2, EstablishKeeps, EstablishFailsKeeps, DiscardKeeps, DiscardUnsureKeeps, NoteFailureKeeps
<1>3. CASE ReadPointer \/ ReadVersion \/ ReadScene \/ SceneChanges \/ Restart
  BY <1>3, ReadPointerKeeps, ReadVersionKeeps, ReadSceneKeeps, SceneChangesKeeps, RestartKeeps
<1>4. ASSUME NEW t \in 1..MaxAttempts, NEW how \in {0, -1}, HarmScene(t, how) PROVE BaseInv'
  BY <1>4, HarmSceneKeeps
<1>5. CASE UNCHANGED baselinevars
  <2>1. UNCHANGED <<onCamera, versions, pointer, scenes, attempts, building, jobs, status, marred, stray,
                    unsure>>
    BY <1>5 DEF baselinevars, tablesOfBaselines, memoryOfBaselines, historyOfBaselines
  <2>2. status' \in [pc : {"idle", "row", "file"}, version : Nat, file : Nat, begun : Nat,
                     answer : {"none", "failed", "required", "ready", "broken"}] /\ StatusKnows'
    BY <2>1 DEF BaseInv, BaseShape, StatusKnows, MayDiscard
  <2> QED BY <2>1, <2>2, StatusStep
<1> QED BY <1>1, <1>2, <1>3, <1>4, <1>5 DEF BaselineNext

\* The baselines of a camera stay honest (server.py, environment.py): the last version, and
\* no other, is in force and shows the scene it was made of, one attempt is made at a time,
\* its file is of a version, at hand or left by a failure, and who asked was told what is
\* so: BaselinesHonest in every state, for any administrators, scenes, attempts and faults.
THEOREM BaselinesStayHonest == BaselineSpec => []BaselinesHonest
<1>1. BaselineInit => BaseInv
  BY BaselineBegin
<1>2. BaseInv /\ [BaselineNext]_baselinevars => BaseInv'
  BY BaselinesStep
<1>3. BaseInv => BaselinesHonest
  BY BaselinesFollow
<1> QED BY <1>1, <1>2, <1>3, PTL DEF BaselineSpec

-------------------------------------------------------------------------------
(* UnderstandingStore: what a reader of a camera's history gets. *)

\* A list as the store keeps it: short, in order, of records that were made.
Listed(s, n) ==
    /\ s \in Seq(Nat) /\ Len(s) <= PerCamera
    /\ \A i, j \in 1..Len(s) : i < j => s[i] < s[j]
    /\ \A i \in 1..Len(s) : s[i] <= n
\* What a list still has of some records, or has had to give up for newer ones.
Keeps(old, s) ==
    \A r \in old : \/ r \in ToSet(s)
                   \/ Len(s) = PerCamera /\ \A q \in ToSet(s) : r < q
StoreShape ==
    /\ recordsMade \in Nat /\ readIn \subseteq StoreCams /\ blind \subseteq StoreCams
    /\ known \in Seq(StoreCams) /\ Len(known) <= KnownCams /\ readIn \subseteq ToSet(known)
    /\ memory \in [StoreCams -> Seq(Nat)] /\ file \in [StoreCams -> Seq(Nat)]
    /\ saved \in [StoreCams -> Seq(Nat)]
StoreInv ==
    /\ StoreShape
    /\ \A c \in StoreCams :
          /\ Listed(memory[c], recordsMade) /\ Listed(file[c], recordsMade)
          /\ \A r \in ToSet(saved[c]) : r \in Nat /\ r <= recordsMade
          /\ c \notin blind => /\ Keeps(ToSet(saved[c]), file[c])
                               /\ c \in readIn => Keeps(ToSet(saved[c]), memory[c])


LEMMA StoreConstants == PerCamera \in Nat /\ PerCamera >= 1 /\ KnownCams \in Nat /\ KnownCams >= 1
  BY StoreAssumption

LEMMA ToSetOf ==
  ASSUME NEW S, NEW s \in Seq(S)
  PROVE  /\ ToSet(s) = {s[i] : i \in 1..Len(s)} /\ ToSet(s) \subseteq S /\ Len(s) \in Nat
  BY DEF ToSet

\* The bound on a list with a newer record: the list is as long as the one before and that
\* record, up to the bound, and lacks at most the first of them.
LEMMA NewestList ==
  ASSUME NEW s, NEW m \in Nat, NEW n \in Nat, Listed(s, m), m < n
  PROVE  /\ Listed(Newest(Append(s, n)), n) /\ n \in ToSet(Newest(Append(s, n)))
         /\ \A r \in ToSet(s) : \/ r \in ToSet(Newest(Append(s, n)))
                                \/ /\ Len(Newest(Append(s, n))) = PerCamera
                                   /\ \A q \in ToSet(Newest(Append(s, n))) : r < q
         /\ Len(s) = PerCamera => /\ Len(Newest(Append(s, n))) = PerCamera
                                  /\ \A q \in ToSet(Newest(Append(s, n))) : q \in ToSet(s) \/ q = n
<1> DEFINE L == Len(s)
           a == Append(s, n)
           w == Newest(a)
<1>1. s \in Seq(Nat) /\ L \in Nat /\ L <= PerCamera /\ PerCamera \in Nat /\ PerCamera >= 1
  BY StoreConstants DEF Listed
<1>2. a \in Seq(Nat) /\ Len(a) = L + 1 /\ a[L + 1] = n /\ \A i \in 1..L : a[i] = s[i]
  BY <1>1
<1>3. \A i \in 1..L : s[i] \in Nat /\ s[i] <= m /\ s[i] < n
  BY <1>1 DEF Listed
<1>4. \A i, j \in 1..(L + 1) : i < j => a[i] < a[j]
  <2> SUFFICES ASSUME NEW i \in 1..(L + 1), NEW j \in 1..(L + 1), i < j PROVE a[i] < a[j]
    OBVIOUS
  <2>1. i \in 1..L
    BY <1>1
  <2>2. CASE j \in 1..L
    BY <1>2, <2>1, <2>2 DEF Listed
  <2>3. CASE j = L + 1
    BY <1>2, <1>3, <2>1, <2>3
  <2> QED BY <1>1, <2>2, <2>3
<1>5. ToSet(s) = {s[i] : i \in 1..L}
  BY <1>1, ToSetOf
<1>6. CASE L < PerCamera
  <2>1. w = a
    BY <1>1, <1>2, <1>6 DEF Newest
  <2>2. Listed(w, n)
    BY <1>1, <1>2, <1>3, <1>4, <1>6, <2>1 DEF Listed
  <2>3. ToSet(w) = {a[i] : i \in 1..(L + 1)}
    BY <1>2, <2>1, ToSetOf
  <2>4. n \in ToSet(w) /\ \A r \in ToSet(s) : r \in ToSet(w)
    BY <1>1, <1>2, <1>5, <2>3
  <2> QED BY <1>6, <2>2, <2>4
<1>7. CASE L = PerCamera
  <2>1. w = SubSeq(a, 2, L + 1)
    BY <1>1, <1>2, <1>7 DEF Newest
  <2>2. w \in Seq(Nat) /\ Len(w) = L /\ \A i \in 1..L : w[i] = a[i + 1]
    BY <1>1, <1>2, <2>1
  <2> HIDE DEF w, a
  <2>3. ToSet(w) = {w[i] : i \in 1..L}
    BY <2>2, ToSetOf
  <2>4. \A i \in 1..L : i + 1 \in 1..(L + 1) /\ (i < L => w[i] = s[i + 1]) /\ (i = L => w[i] = n)
    BY <1>1, <1>2, <2>2
  <2>5. \A i \in 1..L : w[i] <= n /\ (w[i] = n \/ w[i] \in ToSet(s))
    <3> SUFFICES ASSUME NEW i \in 1..L PROVE w[i] <= n /\ (w[i] = n \/ w[i] \in ToSet(s))
      OBVIOUS
    <3>1. CASE i = L
      BY <2>4, <3>1
    <3>2. CASE i < L
      <4>1. i + 1 \in 1..L /\ w[i] = s[i + 1]
        BY <1>1, <2>4, <3>2
      <4> QED BY <1>3, <1>5, <4>1
    <3> QED BY <1>1, <3>1, <3>2
  <2>6. \A i, j \in 1..L : i < j => w[i] < w[j]
    <3> SUFFICES ASSUME NEW i \in 1..L, NEW j \in 1..L, i < j PROVE w[i] < w[j]
      OBVIOUS
    <3>1. i + 1 \in 1..(L + 1) /\ j + 1 \in 1..(L + 1) /\ i + 1 < j + 1
      BY <1>1
    <3> QED BY <1>4, <2>2, <3>1
  <2>7. Listed(w, n)
    BY <1>1, <2>2, <2>5, <2>6 DEF Listed
  <2>8. n \in ToSet(w)
    BY <1>1, <1>7, <2>3, <2>4
  <2>9. ASSUME NEW r \in ToSet(s), r \notin ToSet(w) PROVE \A q \in ToSet(w) : r < q
    <3>1. PICK k \in 1..L : r = s[k]
      BY <1>5
    <3>2. k = 1
      <4> SUFFICES ASSUME k # 1 PROVE FALSE
        OBVIOUS
      <4>1. k - 1 \in 1..L /\ k - 1 < L /\ (k - 1) + 1 = k
        BY <1>1
      <4>2. w[k - 1] = s[k]
        BY <2>4, <4>1
      <4> QED BY <2>3, <2>9, <3>1, <4>1, <4>2
    <3>3. r = a[1] /\ 1 \in 1..(L + 1)
      BY <1>1, <1>2, <3>1, <3>2
    <3>4. \A i \in 1..L : r < w[i]
      BY <1>1, <1>4, <2>2, <2>4, <3>3
    <3> QED BY <2>3, <3>4
  <2>10. /\ \A r \in ToSet(s) : r \in ToSet(w) \/ (Len(w) = PerCamera /\ \A q \in ToSet(w) : r < q)
         /\ \A q \in ToSet(w) : q \in ToSet(s) \/ q = n
    BY <1>7, <2>2, <2>3, <2>5, <2>9
  <2> QED BY <1>7, <2>2, <2>7, <2>8, <2>10 DEF w, a
<1> QED BY <1>1, <1>6, <1>7

\* A list that keeps records goes on keeping them, and the one that is appended.
LEMMA NewestKeeps ==
  ASSUME NEW s, NEW m \in Nat, NEW n \in Nat, Listed(s, m), m < n,
         NEW old, \A r \in old : r \in Nat /\ r <= m, Keeps(old, s)
  PROVE  Keeps(old \cup {n}, Newest(Append(s, n)))
<1> DEFINE w == Newest(Append(s, n))
<1>1. /\ n \in ToSet(w)
      /\ \A r \in ToSet(s) : r \in ToSet(w) \/ (Len(w) = PerCamera /\ \A q \in ToSet(w) : r < q)
      /\ Len(s) = PerCamera => Len(w) = PerCamera /\ \A q \in ToSet(w) : q \in ToSet(s) \/ q = n
  BY NewestList
<1> HIDE DEF w
<1>2. ASSUME NEW r \in old PROVE r \in ToSet(w) \/ (Len(w) = PerCamera /\ \A q \in ToSet(w) : r < q)
  <2>1. CASE r \in ToSet(s)
    BY <1>1, <2>1
  <2>2. CASE Len(s) = PerCamera /\ \A q \in ToSet(s) : r < q
    <3>1. r < n
      <4>1. r \in Nat /\ r <= m
        OBVIOUS
      <4> QED BY <4>1
    <3> QED BY <1>1, <2>2, <3>1
  <2> QED BY <1>2, <2>1, <2>2 DEF Keeps
<1> QED BY <1>1, <1>2 DEF Keeps, w

LEMMA EmptyList ==
  ASSUME NEW m \in Nat
  PROVE  Listed(<<>>, m) /\ Keeps({}, <<>>) /\ ToSet(<<>>) = {}
  BY StoreConstants DEF Listed, Keeps, ToSet


LEMMA StoreFacts ==
  ASSUME StoreInv, NEW c \in StoreCams
  PROVE  /\ memory[c] \in Seq(Nat) /\ file[c] \in Seq(Nat) /\ saved[c] \in Seq(Nat) /\ recordsMade \in Nat
         /\ Listed(memory[c], recordsMade) /\ Listed(file[c], recordsMade)
         /\ \A r \in ToSet(saved[c]) : r \in Nat /\ r <= recordsMade
         /\ c \notin blind => /\ Keeps(ToSet(saved[c]), file[c])
                              /\ c \in readIn => Keeps(ToSet(saved[c]), memory[c])
  BY DEF StoreInv, StoreShape

\* Who is in the memory: the cameras known, that are not more than it may know.
LEMMA Admitting ==
  ASSUME StoreInv, NEW c \in StoreCams
  PROVE  /\ Left(c) \in Seq(StoreCams) /\ Len(Left(c)) <= KnownCams /\ c \in ToSet(Left(c))
         /\ readIn \ Gone(c) \subseteq ToSet(Left(c)) /\ c \notin Gone(c)
<1>1. known \in Seq(StoreCams) /\ Len(known) \in Nat /\ Len(known) <= KnownCams /\ readIn \subseteq ToSet(known)
  BY DEF StoreInv, StoreShape
<1>2. ToSet(known) \subseteq ToSet(Admitted(c)) /\ Admitted(c) \in Seq(StoreCams) /\ c \in ToSet(Admitted(c))
  <2>1. CASE c \in ToSet(known)
    BY <1>1, <2>1 DEF Admitted
  <2>2. CASE c \notin ToSet(known)
    <3>1. Admitted(c) = Append(known, c)
      BY <2>2 DEF Admitted
    <3>2. /\ Append(known, c) \in Seq(StoreCams) /\ Len(Append(known, c)) = Len(known) + 1
          /\ \A i \in 1..Len(known) : Append(known, c)[i] = known[i]
          /\ Append(known, c)[Len(known) + 1] = c
      BY <1>1
    <3>3. ToSet(Append(known, c)) = {Append(known, c)[i] : i \in 1..(Len(known) + 1)}
      BY <3>2, ToSetOf
    <3>4. ToSet(known) = {known[i] : i \in 1..Len(known)}
      BY <1>1, ToSetOf
    <3> QED BY <1>1, <3>1, <3>2, <3>3, <3>4
  <2> QED BY <2>1, <2>2
<1>3. CASE Len(Admitted(c)) <= KnownCams
  <2>1. Left(c) = Admitted(c)
    BY <1>2, <1>3, StoreConstants DEF Left
  <2> QED BY <1>1, <1>2, <1>3, <2>1 DEF Gone
<1>4. CASE ~(Len(Admitted(c)) <= KnownCams)
  <2>1. Admitted(c) = Append(known, c) /\ Len(known) = KnownCams
    BY <1>1, <1>4, StoreConstants DEF Admitted
  <2>2. Left(c) = Tail(Append(known, c))
    BY <1>1, <1>4, <2>1, StoreConstants DEF Left
  <2>3. /\ Left(c) \in Seq(StoreCams) /\ Len(Left(c)) = KnownCams
        /\ Left(c)[KnownCams] = c
    BY <1>1, <2>1, <2>2, StoreConstants
  <2>4. c \in ToSet(Left(c))
    <3>1. ToSet(Left(c)) = {Left(c)[i] : i \in 1..Len(Left(c))}
      BY <2>3, ToSetOf
    <3> QED BY <2>3, <3>1, StoreConstants
  <2> QED BY <1>1, <1>2, <2>3, <2>4, StoreConstants DEF Gone
<1> QED BY <1>3, <1>4

LEMMA Touching ==
  ASSUME StoreInv, NEW c \in StoreCams
  PROVE  /\ Touched(c) \in Seq(StoreCams) /\ Len(Touched(c)) <= KnownCams
         /\ ToSet(Left(c)) \subseteq ToSet(Touched(c))
<1> DEFINE s == Left(c)
           n == Len(s)
           i == CHOOSE k \in 1..n : s[k] = c
<1>1. s \in Seq(StoreCams) /\ n \in Nat /\ n <= KnownCams /\ c \in ToSet(s)
  BY Admitting
<1>2. ToSet(s) = {s[k] : k \in 1..n}
  BY <1>1, ToSetOf
<1>3. i \in 1..n /\ s[i] = c
  BY <1>1, <1>2
<1>4. Touched(c) = Append(SubSeq(s, 1, i - 1) \o SubSeq(s, i + 1, n), c)
  BY DEF Touched, RemoveAt
<1> HIDE DEF i, s
<1>5. /\ SubSeq(s, 1, i - 1) \in Seq(StoreCams) /\ Len(SubSeq(s, 1, i - 1)) = i - 1
      /\ \A k \in 1..(i - 1) : SubSeq(s, 1, i - 1)[k] = s[k]
  BY <1>1, <1>3
<1>6. /\ SubSeq(s, i + 1, n) \in Seq(StoreCams) /\ Len(SubSeq(s, i + 1, n)) = n - i
      /\ \A k \in 1..(n - i) : SubSeq(s, i + 1, n)[k] = s[i + k]
  BY <1>1, <1>3
<1> DEFINE p == SubSeq(s, 1, i - 1)
           q == SubSeq(s, i + 1, n)
           t == p \o q
<1> HIDE DEF p, q, n
<1>7. /\ t \in Seq(StoreCams) /\ Len(t) = n - 1
      /\ \A k \in 1..(i - 1) : t[k] = s[k]
      /\ \A k \in (i + 1)..n : t[k - 1] = s[k]
  <2>1. p \in Seq(StoreCams) /\ q \in Seq(StoreCams) /\ Len(p) = i - 1 /\ Len(q) = n - i
    BY <1>5, <1>6 DEF p, q
  <2>2. t \in Seq(StoreCams) /\ Len(t) = n - 1
    BY <1>1, <1>3, <2>1
  <2>3. \A k \in 1..(i - 1) : t[k] = s[k]
    BY <1>1, <1>3, <1>5, <2>1 DEF p
  <2>4. ASSUME NEW k \in (i + 1)..n PROVE t[k - 1] = s[k]
    <3>1. k - i \in 1..(n - i) /\ k - 1 = Len(p) + (k - i) /\ i + (k - i) = k
      BY <1>1, <1>3, <2>1
    <3>2. t[Len(p) + (k - i)] = q[k - i]
      BY <1>1, <1>3, <2>1, <3>1
    <3>3. q[k - i] = s[i + (k - i)]
      BY <1>6, <3>1 DEF q
    <3> QED BY <3>1, <3>2, <3>3
  <2> QED BY <2>2, <2>3, <2>4
<1> HIDE DEF t
<1>8. /\ Append(t, c) \in Seq(StoreCams) /\ Len(Append(t, c)) = n /\ Append(t, c)[n] = c
      /\ \A k \in 1..(n - 1) : Append(t, c)[k] = t[k]
  BY <1>1, <1>3, <1>7
<1>9. ToSet(Append(t, c)) = {Append(t, c)[k] : k \in 1..n}
  BY <1>8, ToSetOf
<1>10. ASSUME NEW k \in 1..n PROVE s[k] \in ToSet(Append(t, c))
  <2>1. CASE k = i
    BY <1>1, <1>3, <1>8, <1>9, <2>1
  <2>2. CASE k < i
    <3>1. k \in 1..(i - 1) /\ k \in 1..(n - 1) /\ k \in 1..n
      BY <1>1, <1>3, <2>2
    <3>2. Append(t, c)[k] = s[k]
      BY <1>7, <1>8, <3>1
    <3> QED BY <1>9, <3>1, <3>2
  <2>3. CASE k > i
    <3>1. k - 1 \in 1..(n - 1) /\ k \in (i + 1)..n /\ k - 1 \in 1..n
      BY <1>1, <1>3, <2>3
    <3>2. Append(t, c)[k - 1] = s[k]
      BY <1>7, <1>8, <3>1
    <3> QED BY <1>9, <3>1, <3>2
  <2> QED BY <1>1, <1>3, <2>1, <2>2, <2>3
<1>11. Touched(c) = Append(t, c)
  BY <1>4 DEF t, p, q
<1> QED BY <1>1, <1>2, <1>8, <1>10, <1>11 DEF s, n


\* A camera's list is what the memory has of it, or what its file can be read to hold.
LEMMA ListReading ==
  ASSUME StoreInv, NEW c \in StoreCams, NEW good \in BOOLEAN
  PROVE  /\ Listed(Read(c, good), recordsMade)
         /\ c \notin blind /\ (c \in readIn \/ good) => Keeps(ToSet(saved[c]), Read(c, good))
<1>1. c \notin Gone(c) /\ Newest(file[c]) = file[c]
  BY Admitting, StoreFacts, StoreConstants DEF Newest, Listed
<1>2. CASE c \in readIn
  BY <1>1, <1>2, StoreFacts DEF Read
<1>3. CASE c \notin readIn /\ good
  BY <1>1, <1>3, StoreFacts DEF Read
<1>4. CASE c \notin readIn /\ ~good
  BY <1>4, StoreFacts, EmptyList DEF Read
<1> QED BY <1>2, <1>3, <1>4

\* The lists after a step: the one of its camera, that is written to its file or not, none
\* of a camera that left the memory, and those of the others as they were.
LEMMA StoreStep ==
  ASSUME StoreInv, NEW c \in StoreCams, NEW list, NEW m \in Nat,
         recordsMade' = m, recordsMade <= m, Listed(list, m),
         known' \in Seq(StoreCams), Len(known') <= KnownCams, ToSet(Left(c)) \subseteq ToSet(known'),
         memory' = [d \in StoreCams |-> IF d = c THEN list ELSE IF d \in Gone(c) THEN <<>> ELSE memory[d]],
         readIn' = readIn \ Gone(c) \/ readIn' = (readIn \ Gone(c)) \cup {c},
         blind \subseteq blind', blind' \subseteq blind \cup {c},
         \/ file' = file /\ saved' = saved
         \/ /\ file' = [file EXCEPT ![c] = list] /\ saved' = [saved EXCEPT ![c] = Append(@, m)]
            /\ c \notin blind' => Keeps(ToSet(saved[c]) \cup {m}, list),
         c \notin blind' /\ c \in readIn' => Keeps(ToSet(saved[c]), list)
  PROVE  StoreInv'
<1>1. list \in Seq(Nat) /\ m \in Nat
  BY DEF Listed
<1>2. /\ recordsMade \in Nat /\ memory \in [StoreCams -> Seq(Nat)] /\ file \in [StoreCams -> Seq(Nat)]
      /\ saved \in [StoreCams -> Seq(Nat)] /\ readIn \subseteq StoreCams /\ blind \subseteq StoreCams
  BY DEF StoreInv, StoreShape
<1>3. memory' \in [StoreCams -> Seq(Nat)]
  BY <1>1, <1>2
<1>4. file' \in [StoreCams -> Seq(Nat)] /\ saved' \in [StoreCams -> Seq(Nat)]
  <2>1. Append(saved[c], m) \in Seq(Nat)
    BY <1>1, <1>2
  <2> QED BY <1>1, <1>2, <2>1
<1>5. readIn' \subseteq ToSet(known')
  BY Admitting
<1>6. StoreShape'
  BY <1>1, <1>2, <1>3, <1>4, <1>5 DEF StoreShape
<1>7. \A s : Listed(s, recordsMade) => Listed(s, m)
  <2> SUFFICES ASSUME NEW s, Listed(s, recordsMade) PROVE Listed(s, m)
    OBVIOUS
  <2>1. ASSUME NEW i \in 1..Len(s) PROVE s[i] <= m
    <3>1. s[i] <= recordsMade /\ s[i] \in Nat
      BY DEF Listed
    <3> QED BY <1>1, <1>2, <3>1
  <2> QED BY <2>1 DEF Listed
<1>8. ASSUME NEW d \in StoreCams, d # c
      PROVE  /\ file'[d] = file[d] /\ saved'[d] = saved[d]
             /\ memory'[d] = memory[d] \/ memory'[d] = <<>>
             /\ d \in readIn' => d \in readIn /\ memory'[d] = memory[d]
             /\ d \notin blind' => d \notin blind
  BY <1>2, <1>8
<1>9. /\ memory'[c] = list /\ (c \notin blind' => c \notin blind)
      /\ \/ file'[c] = file[c] /\ saved'[c] = saved[c]
         \/ /\ file'[c] = list /\ saved'[c] = Append(saved[c], m)
            /\ c \notin blind' => Keeps(ToSet(saved[c]) \cup {m}, list)
  BY <1>2
<1>10. ToSet(Append(saved[c], m)) = ToSet(saved[c]) \cup {m}
  <2>1. /\ Append(saved[c], m) \in Seq(Nat) /\ Len(Append(saved[c], m)) = Len(saved[c]) + 1
        /\ Append(saved[c], m)[Len(saved[c]) + 1] = m /\ Len(saved[c]) \in Nat
        /\ \A i \in 1..Len(saved[c]) : Append(saved[c], m)[i] = saved[c][i]
    BY <1>1, <1>2
  <2>2. ToSet(Append(saved[c], m)) = {Append(saved[c], m)[i] : i \in 1..(Len(saved[c]) + 1)}
    BY <2>1, ToSetOf
  <2>3. ToSet(saved[c]) = {saved[c][i] : i \in 1..Len(saved[c])}
    BY <1>2, ToSetOf
  <2>4. \A i \in 1..(Len(saved[c]) + 1) : i \in 1..Len(saved[c]) \/ i = Len(saved[c]) + 1
    BY <2>1
  <2>5. 1..Len(saved[c]) \subseteq 1..(Len(saved[c]) + 1) /\ Len(saved[c]) + 1 \in 1..(Len(saved[c]) + 1)
    BY <2>1
  <2>6. \A x \in ToSet(Append(saved[c], m)) : x \in ToSet(saved[c]) \cup {m}
    BY <2>1, <2>2, <2>3, <2>4
  <2>7. \A x \in ToSet(saved[c]) \cup {m} : x \in ToSet(Append(saved[c], m))
    BY <2>1, <2>2, <2>3, <2>5
  <2> QED BY <2>6, <2>7
<1>11. ASSUME NEW d \in StoreCams
       PROVE  /\ Listed(memory'[d], m) /\ Listed(file'[d], m)
              /\ \A r \in ToSet(saved'[d]) : r \in Nat /\ r <= m
              /\ d \notin blind' => /\ Keeps(ToSet(saved'[d]), file'[d])
                                    /\ d \in readIn' => Keeps(ToSet(saved'[d]), memory'[d])
  <2>1. \A r \in ToSet(saved[d]) : r \in Nat /\ r <= m
    BY <1>1, <1>2, StoreFacts
  <2>2. CASE d # c
    BY <1>1, <1>7, <1>8, <2>1, <2>2, StoreFacts, EmptyList
  <2>3. CASE d = c /\ file'[c] = file[c] /\ saved'[c] = saved[c]
    BY <1>7, <1>9, <2>1, <2>3, StoreFacts
  <2>4. CASE /\ d = c /\ file'[c] = list /\ saved'[c] = Append(saved[c], m)
             /\ c \notin blind' => Keeps(ToSet(saved[c]) \cup {m}, list)
    <3>1. \A r \in ToSet(saved'[c]) : r \in Nat /\ r <= m
      BY <1>1, <1>10, <2>1, <2>4
    <3> QED BY <1>9, <1>10, <2>4, <3>1
  <2> QED BY <1>9, <2>2, <2>3, <2>4
<1>12. ASSUME NEW d \in StoreCams
       PROVE  /\ Listed(memory[d], recordsMade)' /\ Listed(file[d], recordsMade)'
              /\ d \notin blind' => /\ Keeps(ToSet(saved[d]), file[d])'
                                    /\ d \in readIn' => Keeps(ToSet(saved[d]), memory[d])'
  BY <1>11 DEF Listed, Keeps
<1> QED BY <1>6, <1>11, <1>12 DEF StoreInv

LEMMA AppendRecordKeeps ==
  ASSUME StoreInv, NEW c \in StoreCams, NEW good \in BOOLEAN, NEW kept \in BOOLEAN,
         AppendRecordOf(c, good, kept)
  PROVE  StoreInv'
<1> DEFINE m == recordsMade + 1
           old == Read(c, good)
           list == Newest(Append(old, m))
<1>1. /\ recordsMade' = m /\ known' = Touched(c)
      /\ memory' = [d \in StoreCams |-> IF d = c THEN list ELSE IF d \in Gone(c) THEN <<>> ELSE memory[d]]
      /\ file' = IF kept THEN [file EXCEPT ![c] = list] ELSE file
      /\ saved' = IF kept THEN [saved EXCEPT ![c] = Append(@, m)] ELSE saved
      /\ readIn' = (readIn \ Gone(c)) \cup {c}
      /\ blind' = IF c \in readIn \/ good THEN blind ELSE blind \cup {c}
  BY DEF AppendRecordOf, ReadMarks
<1>2. recordsMade \in Nat /\ m \in Nat /\ recordsMade <= m /\ recordsMade < m
  BY StoreFacts
<1>3. Listed(old, recordsMade) /\ (c \notin blind /\ (c \in readIn \/ good) => Keeps(ToSet(saved[c]), old))
  BY ListReading
<1>4. \A r \in ToSet(saved[c]) : r \in Nat /\ r <= recordsMade
  BY StoreFacts
<1>5. known' \in Seq(StoreCams) /\ Len(known') <= KnownCams /\ ToSet(Left(c)) \subseteq ToSet(known')
  BY <1>1, Touching
<1> HIDE DEF old, m
<1>6. Listed(list, m)
  BY <1>2, <1>3, NewestList
<1>7. c \notin blind' => Keeps(ToSet(saved[c]) \cup {m}, list)
  BY <1>1, <1>2, <1>3, <1>4, NewestKeeps
<1> HIDE DEF list
<1>8. c \notin blind' => Keeps(ToSet(saved[c]), list)
  BY <1>7 DEF Keeps
<1>9. /\ blind \subseteq blind' /\ blind' \subseteq blind \cup {c}
      /\ \/ file' = file /\ saved' = saved
         \/ /\ file' = [file EXCEPT ![c] = list] /\ saved' = [saved EXCEPT ![c] = Append(@, m)]
            /\ c \notin blind' => Keeps(ToSet(saved[c]) \cup {m}, list)
  BY <1>1, <1>7
<1> QED BY <1>1, <1>2, <1>5, <1>6, <1>8, <1>9, StoreStep

LEMMA RefuseRecordKeeps ==
  ASSUME StoreInv, NEW c \in StoreCams, RefuseRecord(c) PROVE StoreInv'
<1>1. /\ recordsMade' = recordsMade + 1 /\ known' = Touched(c)
      /\ memory' = [d \in StoreCams |-> IF d \in Gone(c) THEN <<>> ELSE memory[d]]
      /\ readIn' = readIn \ Gone(c) /\ UNCHANGED <<file, saved, blind>>
  BY DEF RefuseRecord
<1>2. recordsMade \in Nat /\ recordsMade + 1 \in Nat /\ recordsMade <= recordsMade + 1 /\ c \notin Gone(c)
  BY StoreFacts, Admitting
<1>3. memory' = [d \in StoreCams |-> IF d = c THEN memory[c] ELSE IF d \in Gone(c) THEN <<>> ELSE memory[d]]
  BY <1>1, <1>2
<1>4. Listed(memory[c], recordsMade + 1)
  <2>1. Listed(memory[c], recordsMade) /\ memory[c] \in Seq(Nat)
    BY StoreFacts
  <2>2. \A i \in 1..Len(memory[c]) : memory[c][i] \in Nat
    BY <2>1
  <2> QED BY <1>2, <2>1, <2>2 DEF Listed
<1>5. c \notin blind' /\ c \in readIn' => Keeps(ToSet(saved[c]), memory[c])
  BY <1>1, StoreFacts
<1>6. known' \in Seq(StoreCams) /\ Len(known') <= KnownCams /\ ToSet(Left(c)) \subseteq ToSet(known')
  BY <1>1, Touching
<1> QED BY <1>1, <1>2, <1>3, <1>4, <1>5, <1>6, StoreStep

LEMMA ReadHistoryKeeps ==
  ASSUME StoreInv, NEW c \in StoreCams, NEW good \in BOOLEAN, ReadHistory(c, good) PROVE StoreInv'
<1> DEFINE list == Read(c, good)
<1>1. /\ recordsMade' = recordsMade /\ known' = Left(c) /\ file' = file /\ saved' = saved
      /\ memory' = [d \in StoreCams |-> IF d = c THEN list ELSE IF d \in Gone(c) THEN <<>> ELSE memory[d]]
      /\ readIn' = (readIn \ Gone(c)) \cup {c}
      /\ blind' = IF c \in readIn \/ good THEN blind ELSE blind \cup {c}
  BY DEF ReadHistory, ReadMarks
<1>2. recordsMade \in Nat /\ recordsMade <= recordsMade
  BY StoreFacts
<1>3. Listed(list, recordsMade) /\ (c \notin blind' => Keeps(ToSet(saved[c]), list))
  BY <1>1, ListReading
<1>4. known' \in Seq(StoreCams) /\ Len(known') <= KnownCams /\ ToSet(Left(c)) \subseteq ToSet(known')
  BY <1>1, Admitting
<1> HIDE DEF list
<1>5. blind \subseteq blind' /\ blind' \subseteq blind \cup {c}
  BY <1>1
<1> QED BY <1>1, <1>2, <1>3, <1>4, <1>5, StoreStep

LEMMA StoreBegin == ASSUME UnderstandingInit PROVE StoreInv
<1>1. StoreShape
  BY StoreConstants DEF UnderstandingInit, StoreShape
<1>2. \A c \in StoreCams : memory[c] = <<>> /\ file[c] = <<>> /\ saved[c] = <<>>
  BY DEF UnderstandingInit
<1>3. recordsMade = 0 /\ readIn = {}
  BY DEF UnderstandingInit
<1> QED BY <1>1, <1>2, <1>3, EmptyList DEF StoreInv

LEMMA StartStoreKeeps == ASSUME StoreInv, StartStore PROVE StoreInv'
<1>1. /\ memory' = [c \in StoreCams |-> <<>>] /\ readIn' = {} /\ known' = <<>>
      /\ UNCHANGED <<file, recordsMade, saved, blind>>
  BY DEF StartStore
<1>2. StoreShape'
  BY <1>1, StoreConstants DEF StoreInv, StoreShape
<1>3. ASSUME NEW c \in StoreCams
      PROVE  /\ Listed(memory[c], recordsMade)' /\ Listed(file[c], recordsMade)'
             /\ c \notin blind => Keeps(ToSet(saved[c]), file[c])'
  <2>1. Listed(file[c], recordsMade) /\ (c \notin blind => Keeps(ToSet(saved[c]), file[c]))
    BY StoreFacts
  <2>2. memory'[c] = <<>> /\ Listed(<<>>, recordsMade)
    BY <1>1, StoreFacts, EmptyList
  <2> QED BY <1>1, <2>1, <2>2 DEF Listed, Keeps
<1> QED BY <1>1, <1>2, <1>3 DEF StoreInv

LEMMA StoreSteps == StoreInv /\ [UnderstandingNext]_storevars => StoreInv'
<1> SUFFICES ASSUME StoreInv, [UnderstandingNext]_storevars PROVE StoreInv'
  OBVIOUS
<1>1. CASE StartStore
  BY <1>1, StartStoreKeeps
<1>2. ASSUME NEW c \in StoreCams, NEW good \in BOOLEAN,
             (\E kept \in BOOLEAN : AppendRecordOf(c, good, kept)) \/ ReadHistory(c, good)
      PROVE  StoreInv'
  BY <1>2, AppendRecordKeeps, ReadHistoryKeeps
<1>3. ASSUME NEW c \in StoreCams, RefuseRecord(c) PROVE StoreInv'
  BY <1>3, RefuseRecordKeeps
<1>4. CASE UNCHANGED storevars
  <2>1. UNCHANGED <<memory, readIn, known, file, recordsMade, saved, blind>>
    BY <1>4 DEF storevars
  <2>2. StoreShape'
    BY <2>1 DEF StoreInv, StoreShape
  <2> QED BY <2>1, <2>2 DEF StoreInv, Listed, Keeps
<1> QED BY <1>1, <1>2, <1>3, <1>4 DEF UnderstandingNext

\* What was understood is kept (win11_understanding_store.py): a record that append said it
\* stored is what a reader gets, in order, across evictions, failed writes and starts, until
\* newer ones fill the list or the file cannot be read: UnderstandingKept in every state,
\* for any cameras, bounds, number of records and of starts.
THEOREM UnderstandingStaysKept == UnderstandingSpec => []UnderstandingKept
<1>1. UnderstandingInit => StoreInv
  BY StoreBegin
<1>2. StoreInv /\ [UnderstandingNext]_storevars => StoreInv'
  BY StoreSteps
<1>3. StoreInv => UnderstandingKept
  <2> SUFFICES ASSUME StoreInv, NEW c \in StoreCams
               PROVE  /\ \A i, j \in 1..Len(Served(c)) : i < j => Served(c)[i] < Served(c)[j]
                      /\ c \notin blind =>
                           \A r \in ToSet(saved[c]) :
                              \/ r \in ToSet(Served(c))
                              \/ Len(Served(c)) = PerCamera /\ \A q \in ToSet(Served(c)) : r < q
    BY DEF UnderstandingKept
  <2>1. Newest(file[c]) = file[c]
    BY StoreFacts, StoreConstants DEF Newest, Listed
  <2>2. (Served(c) = memory[c] /\ c \in readIn) \/ Served(c) = file[c]
    BY <2>1 DEF Served
  <2>3. Listed(Served(c), recordsMade) /\ (c \notin blind => Keeps(ToSet(saved[c]), Served(c)))
    BY <2>2, StoreFacts
  <2> QED BY <2>3 DEF Listed, Keeps
<1> QED BY <1>1, <1>2, <1>3, PTL DEF UnderstandingSpec

-------------------------------------------------------------------------------
(* Recording: the segments ffmpeg writes, the cleaning and the clips. *)

\* Segments have names of their own and were written since they began.
SegmentsShape ==
    /\ IsFiniteSet(segments)
    /\ \A s \in segments : /\ s = [start |-> s.start, dir |-> s.dir, mtime |-> s.mtime]
                           /\ s.start \in Nat /\ s.mtime \in Nat
                           /\ s.start <= s.mtime /\ s.mtime <= time
    /\ \A s, t \in segments : s.start = t.start => s = t
Clips == [file : {"none", "good", "bad"}, cut : SUBSET Nat,
          row : {"none", "available", "missing", "corrupt"}]
RecShape ==
    /\ time \in Nat /\ SegmentsShape /\ clips \in [Reviews -> Clips]
    /\ recorder = [proc |-> recorder.proc, day |-> recorder.day, writing |-> recorder.writing]
    /\ recorder.proc \in {"none", "runs", "hangs", "dead"} /\ recorder.writing \in Int
    /\ minder \in [pc : {"wait", "protect", "age", "capacity", "reviews", "export", "cut", "register"},
                   at : Nat, protected : Int, queue : Seq(Nat), total : Nat, failed : BOOLEAN,
                   todo : Seq(Reviews)]
    /\ minder.at <= time
\* What ffmpeg has open is the last segment there is, and its file is of now while it runs.
Going == recorder.proc \in {"runs", "hangs"}
OpenIsLast ==
    Going => /\ \E s \in segments : s.start = recorder.writing
             /\ recorder.writing <= time
             /\ \A s \in segments : /\ s.start <= recorder.writing
                                    /\ recorder.proc = "runs" /\ s.start = recorder.writing => s.mtime = time
\* While it is cleaned up: the queue names segments, each once; the open one is protected,
\* or was written to since.
Cleaning == minder.pc \in {"age", "capacity"}
Queued(s) == \E i \in 1..Len(minder.queue) : minder.queue[i] = s.start
QueueFits ==
    Cleaning =>
        /\ \A i \in 1..Len(minder.queue) : \E s \in Fenced : s.start = minder.queue[i]
        /\ \A i, j \in 1..Len(minder.queue) : i < j => minder.queue[i] # minder.queue[j]
        /\ Going => \A s \in Fenced : s.start = recorder.writing =>
                       s.start = minder.protected \/ s.mtime > minder.at
\* The segments there were when the round began; those that are too old.
Past == {s \in Fenced : s.start <= minder.at}
Beyond(s) == s.mtime < minder.at - Retention
AgeFits ==
    /\ minder.pc \in {"protect", "age"} => minder.total = 0
    /\ minder.pc = "age" =>
          /\ \A i, j \in 1..Len(minder.queue) : \A s, t \in Fenced :
                i < j /\ s.start = minder.queue[i] /\ t.start = minder.queue[j] /\ Beyond(t) => Beyond(s)
          /\ ~minder.failed => \A s \in Past : Skips(s) \/ Queued(s)
CapacityFits ==
    minder.pc = "capacity" =>
        /\ Cardinality(Past) <= minder.total
        /\ ~minder.failed => \A s \in Past : (Skips(s) \/ Queued(s)) /\ (Beyond(s) => Skips(s))
RoundFits ==
    minder.pc = "reviews" /\ ~minder.failed =>
        /\ \A s \in Past : Beyond(s) => Skips(s)
        /\ Cardinality(Past) <= Capacity \/ \A s \in Past : Skips(s)
\* A clip at hand is of a review whose end was recorded; one that is cut is whole.
AtWork(r) == minder.pc = "register" /\ r = Head(minder.todo)
ClipsFit ==
    /\ minder.pc \in {"cut", "register"} => minder.todo # <<>> /\ Until(Head(minder.todo)) <= time
    /\ \A r \in Reviews : clips[r].row # "none" \/ AtWork(r) =>
          /\ Until(r) <= time
          /\ \A s \in segments : s.start < Until(r) /\ s.start + SegmentLength > From(r)
                => s.start \in clips[r].cut
          /\ clips[r].file = "good" \/ r \in spoilt
    /\ \A r \in Reviews : clips[r].row \notin {"none", "available"} => r \in spoilt
RecInv ==
    RecShape /\ OpenIsLast /\ QueueFits /\ AgeFits /\ CapacityFits /\ RoundFits /\ ClipsFit


LEMMA RecConstants ==
  /\ SegmentLength \in Nat /\ Retention \in Nat /\ MinAge \in Nat /\ Capacity \in Nat /\ Pre \in Nat /\ Post \in Nat
  /\ ReviewLimit \in Nat /\ IsFiniteSet(Reviews) /\ \A r \in Reviews : From(r) \in Int /\ Until(r) \in Nat
<1>1. Retention \in Nat /\ MinAge \in Nat /\ Capacity \in Nat /\ Pre \in Nat /\ Post \in Nat
  BY RecordingAssumption
<1>2. \A r \in Reviews : r.start \in Nat /\ r.end \in Nat
  BY RecordingAssumption
<1> QED BY <1>1, <1>2, RecordingAssumption DEF From, Until

LEMMA SegmentFacts ==
  ASSUME RecInv, NEW s \in segments
  PROVE  /\ s = [start |-> s.start, dir |-> s.dir, mtime |-> s.mtime]
         /\ s.start \in Nat /\ s.mtime \in Nat /\ s.start <= s.mtime /\ s.mtime <= time
         /\ \A t \in segments : s.start = t.start => s = t
         /\ FileOf(s.start) = s
<1>1. /\ s = [start |-> s.start, dir |-> s.dir, mtime |-> s.mtime]
      /\ s.start \in Nat /\ s.mtime \in Nat /\ s.start <= s.mtime /\ s.mtime <= time
      /\ \A t \in segments : s.start = t.start => s = t
  BY DEF RecInv, RecShape, SegmentsShape
<1>2. FileOf(s.start) \in segments /\ FileOf(s.start).start = s.start
  BY DEF FileOf
<1> QED BY <1>1, <1>2

LEMMA RecFacts ==
  ASSUME RecInv
  PROVE  /\ time \in Nat /\ minder.at \in Nat /\ minder.at <= time /\ minder.protected \in Int
         /\ minder.queue \in Seq(Nat) /\ minder.total \in Nat /\ minder.failed \in BOOLEAN
         /\ minder.todo \in Seq(Reviews) /\ Fenced \subseteq segments /\ Past \subseteq Fenced
         /\ IsFiniteSet(segments) /\ IsFiniteSet(Fenced) /\ IsFiniteSet(Past)
         /\ Cardinality(Fenced) \in Nat /\ Cardinality(Past) \in Nat
         /\ Cardinality(Past) <= Cardinality(Fenced)
<1>1. Fenced \subseteq segments /\ Past \subseteq Fenced
  BY DEF Fenced, Past
<1>2. IsFiniteSet(segments)
  BY DEF RecInv, RecShape, SegmentsShape
<1>3. IsFiniteSet(Fenced) /\ IsFiniteSet(Past) /\ Cardinality(Past) <= Cardinality(Fenced)
  BY <1>1, <1>2, FS_Subset
<1>4. Cardinality(Fenced) \in Nat /\ Cardinality(Past) \in Nat
  BY <1>3, FS_CardinalityType
<1> QED BY <1>1, <1>2, <1>3, <1>4 DEF RecInv, RecShape

LEMMA RecordingBegin == ASSUME RecordingInit PROVE RecInv
<1>1. /\ time = 0 /\ segments = {} /\ spoilt = {}
      /\ recorder = [proc |-> "none", day |-> -1, writing |-> -1]
      /\ minder = [pc |-> "wait", at |-> 0, protected |-> -1, queue |-> <<>>, total |-> 0,
                   failed |-> FALSE, todo |-> <<>>]
  BY DEF RecordingInit, NoProcess, Sleeping
<1>2. clips \in [Reviews -> Clips] /\ \A r \in Reviews : clips[r].row = "none"
  BY DEF RecordingInit, NoClip, Clips
<1>3. SegmentsShape
  BY <1>1, FS_EmptySet DEF SegmentsShape
<1>4. minder \in [pc : {"wait", "protect", "age", "capacity", "reviews", "export", "cut", "register"},
                  at : Nat, protected : Int, queue : Seq(Nat), total : Nat, failed : BOOLEAN,
                  todo : Seq(Reviews)]
  BY <1>1
<1>5. RecShape
  BY <1>1, <1>2, <1>3, <1>4 DEF RecShape
<1>6. OpenIsLast /\ QueueFits /\ AgeFits /\ CapacityFits /\ RoundFits
  BY <1>1 DEF OpenIsLast, Going, QueueFits, Cleaning, AgeFits, CapacityFits, RoundFits
<1>7. ClipsFit
  BY <1>1, <1>2 DEF ClipsFit, AtWork
<1> QED BY <1>5, <1>6, <1>7 DEF RecInv

\* The segments stay: so do what is said of them, and of the open one unless ffmpeg ends.
LEMMA SegmentsStay ==
  ASSUME RecInv, time' = time, segments' = segments, recorder' = recorder \/ recorder' = NoProcess
  PROVE  /\ SegmentsShape' /\ OpenIsLast' /\ Fenced' = Fenced
         /\ recorder' = [proc |-> recorder'.proc, day |-> recorder'.day, writing |-> recorder'.writing]
         /\ recorder'.proc \in {"none", "runs", "hangs", "dead"} /\ recorder'.writing \in Int
<1>1. SegmentsShape' /\ Fenced' = Fenced
  BY DEF RecInv, RecShape, SegmentsShape, Fenced
<1>2. CASE recorder' = recorder
  BY <1>1, <1>2 DEF RecInv, RecShape, OpenIsLast, Going
<1>3. CASE recorder' = NoProcess
  <2>1. recorder' = [proc |-> "none", day |-> -1, writing |-> -1]
    BY <1>3 DEF NoProcess
  <2> QED BY <1>1, <2>1 DEF OpenIsLast, Going
<1> QED BY <1>2, <1>3

MinderRecords ==
    [pc : {"wait", "protect", "age", "capacity", "reviews", "export", "cut", "register"},
     at : Nat, protected : Int, queue : Seq(Nat), total : Nat, failed : BOOLEAN, todo : Seq(Reviews)]
\* The thread does something else than to clean up, or only looks.
LEMMA MinderMoves ==
  ASSUME RecInv, time' = time, segments' = segments, recorder' = recorder \/ recorder' = NoProcess,
         minder' \in MinderRecords, minder'.at <= time, clips' \in [Reviews -> Clips], ClipsFit',
         minder'.pc \notin {"protect", "age", "capacity"},
         minder'.pc = "reviews" => minder'.failed
  PROVE  RecInv'
<1>1. RecShape'
  BY SegmentsStay DEF RecInv, RecShape, MinderRecords
<1>2. QueueFits' /\ AgeFits' /\ CapacityFits' /\ RoundFits'
  BY DEF QueueFits, Cleaning, AgeFits, CapacityFits, RoundFits
<1> QED BY <1>1, <1>2, SegmentsStay DEF RecInv

LEMMA ClipsStay ==
  ASSUME RecInv, UNCHANGED <<time, segments, clips, spoilt>>, minder'.pc \notin {"cut", "register"}
  PROVE  ClipsFit'
<1>1. \A r \in Reviews : AtWork(r)' = FALSE
  BY DEF AtWork
<1> QED BY <1>1 DEF RecInv, ClipsFit, AtWork, From, Until

LEMMA AsleepFacts ==
  /\ Sleeping \in MinderRecords /\ Sleeping.pc = "wait" /\ Sleeping.at = 0 /\ Sleeping.total = 0
  BY DEF Sleeping, MinderRecords

LEMMA RecorderFailsKeeps == ASSUME RecInv, RecorderFails PROVE RecInv'
<1>1. /\ recorder' = NoProcess /\ UNCHANGED <<time, segments, clips, spoilt>>
      /\ minder' = [Sleeping EXCEPT !.pc = "reviews", !.failed = TRUE]
  BY DEF RecorderFails
<1>2. minder' \in MinderRecords /\ minder'.pc = "reviews" /\ minder'.failed /\ minder'.at = 0
  BY <1>1, AsleepFacts DEF MinderRecords
<1>3. ClipsFit'
  BY <1>1, <1>2, ClipsStay
<1>4. clips' \in [Reviews -> Clips] /\ minder'.at <= time
  BY <1>1, <1>2, RecFacts DEF RecInv, RecShape
<1> QED BY <1>1, <1>2, <1>3, <1>4, MinderMoves

LEMMA RecorderCrashKeeps == ASSUME RecInv, RecorderCrash PROVE RecInv'
<1>1. recorder' = NoProcess /\ UNCHANGED <<time, segments, clips, spoilt>> /\ minder' = Sleeping
  BY DEF RecorderCrash
<1>2. minder' \in MinderRecords /\ minder'.pc = "wait" /\ minder'.at = 0
  BY <1>1, AsleepFacts
<1>3. ClipsFit'
  BY <1>1, <1>2, ClipsStay
<1>4. clips' \in [Reviews -> Clips] /\ minder'.at <= time
  BY <1>1, <1>2, RecFacts DEF RecInv, RecShape
<1> QED BY <1>1, <1>2, <1>3, <1>4, MinderMoves

LEMMA ListReviewsKeeps == ASSUME RecInv, ListReviews PROVE RecInv'
<1>1. PICK some \in NewestReviews : minder' = [Sleeping EXCEPT !.pc = "export", !.at = time, !.todo = some]
  BY DEF ListReviews
<1>2. UNCHANGED <<time, recorder, segments, clips, spoilt>> /\ time \in Nat
  BY RecFacts DEF ListReviews
<1>3. some \in Seq(Reviews)
  <2> DEFINE n == IF Cardinality(Ended) < ReviewLimit THEN Cardinality(Ended) ELSE ReviewLimit
  <2>1. Ended \subseteq Reviews /\ Cardinality(Ended) \in Nat
    BY RecConstants, FS_Subset, FS_CardinalityType DEF Ended
  <2>2. n \in Nat
    BY <2>1, RecConstants
  <2>3. some \in [1..n -> Ended]
    BY DEF NewestReviews
  <2> HIDE DEF n
  <2> QED BY <2>1, <2>2, <2>3
<1>4. minder' \in MinderRecords /\ minder'.pc = "export" /\ minder'.at = time
  BY <1>1, <1>2, <1>3, AsleepFacts DEF MinderRecords
<1>5. ClipsFit'
  BY <1>2, <1>4, ClipsStay
<1>6. clips' \in [Reviews -> Clips] /\ minder'.at <= time
  BY <1>2, <1>4 DEF RecInv, RecShape
<1> QED BY <1>2, <1>4, <1>5, <1>6, MinderMoves

LEMMA ExportKeeps == ASSUME RecInv, Export PROVE RecInv'
<1>1. /\ minder.pc = "export" /\ UNCHANGED <<time, recorder, segments, clips, spoilt>>
      /\ clips' \in [Reviews -> Clips] /\ minder \in MinderRecords /\ time \in Nat
  BY RecFacts DEF Export, RecInv, RecShape, MinderRecords
<1>2. CASE minder.todo = <<>>
  <2>1. minder' = Sleeping
    BY <1>2 DEF Export
  <2>2. ClipsFit'
    BY <1>1, <2>1, AsleepFacts, ClipsStay
  <2> QED BY <1>1, <2>1, <2>2, AsleepFacts, MinderMoves
<1>3. CASE minder.todo # <<>>
  <2> DEFINE r == Head(minder.todo)
  <2>1. r \in Reviews /\ Tail(minder.todo) \in Seq(Reviews)
    BY <1>3, RecFacts
  <2>2. CASE Ready(r) /\ clips[r].row = "none" /\ Found(r) # {}
    <3>1. minder' = [minder EXCEPT !.pc = "cut"]
      BY <1>3, <2>2 DEF Export
    <3>2. /\ minder' \in MinderRecords /\ minder'.pc = "cut" /\ minder'.at = minder.at
          /\ minder'.todo = minder.todo
      BY <1>1, <3>1 DEF MinderRecords
    <3>3. Until(r) <= time
      BY <2>1, <2>2, RecFacts, RecConstants DEF Ready
    <3>4. ClipsFit'
      <4>1. \A x \in Reviews : ~AtWork(x)'
        BY <3>2 DEF AtWork
      <4> QED BY <1>1, <1>3, <3>2, <3>3, <4>1 DEF RecInv, ClipsFit, From, Until
    <3> QED BY <1>1, <3>2, <3>4, RecFacts, MinderMoves
  <2>3. CASE ~(Ready(r) /\ clips[r].row = "none" /\ Found(r) # {})
    <3>1. minder' = [minder EXCEPT !.todo = Tail(@)]
      BY <1>3, <2>3 DEF Export
    <3>2. minder' \in MinderRecords /\ minder'.pc = "export" /\ minder'.at = minder.at
      BY <1>1, <2>1, <3>1 DEF MinderRecords
    <3>3. ClipsFit'
      BY <1>1, <3>2, ClipsStay
    <3> QED BY <1>1, <3>2, <3>3, RecFacts, MinderMoves
  <2> QED BY <2>2, <2>3
<1> QED BY <1>2, <1>3


\* What the thread is about to do is all that changes: the round is not judged yet, or
\* the segments are as they were.
LEMMA FfmpegFailsKeeps == ASSUME RecInv, NEW how \in {"hangs", "dead"}, FfmpegFails(how) PROVE RecInv'
<1>1. /\ recorder.proc \in {"runs", "hangs"} /\ recorder' = [recorder EXCEPT !.proc = how]
      /\ UNCHANGED <<time, segments, minder, clips, spoilt>>
  BY DEF FfmpegFails
<1>2. recorder = [proc |-> recorder.proc, day |-> recorder.day, writing |-> recorder.writing]
  BY DEF RecInv, RecShape
<1>3. /\ recorder' = [proc |-> recorder'.proc, day |-> recorder'.day, writing |-> recorder'.writing]
      /\ recorder'.proc = how /\ recorder'.writing = recorder.writing
  BY <1>1, <1>2
<1>4. Fenced' = Fenced /\ Past' = Past /\ SegmentsShape'
  BY <1>1 DEF Fenced, Past, RecInv, RecShape, SegmentsShape
<1>5. RecShape'
  BY <1>1, <1>3, <1>4 DEF RecInv, RecShape
<1>6. OpenIsLast'
  BY <1>1, <1>3 DEF RecInv, OpenIsLast, Going
<1>7. QueueFits'
  BY <1>1, <1>3, <1>4 DEF RecInv, QueueFits, Going, Cleaning
<1>8. AgeFits' /\ CapacityFits' /\ RoundFits'
  BY <1>1, <1>4 DEF RecInv, AgeFits, CapacityFits, RoundFits, Beyond, Skips, Queued
<1>9. ClipsFit'
  BY <1>1 DEF RecInv, ClipsFit, AtWork, From, Until
<1> QED BY <1>5, <1>6, <1>7, <1>8, <1>9 DEF RecInv

\* What is read or done to a clip leaves the rest alone.
LEMMA ClipsAlone ==
  ASSUME RecInv, UNCHANGED <<time, recorder, segments, minder>>, clips' \in [Reviews -> Clips], ClipsFit'
  PROVE  RecInv'
<1>1. Fenced' = Fenced /\ Past' = Past /\ SegmentsShape'
  BY DEF Fenced, Past, RecInv, RecShape, SegmentsShape
<1>2. RecShape' /\ OpenIsLast'
  BY <1>1 DEF RecInv, RecShape, OpenIsLast, Going
<1>3. QueueFits' /\ AgeFits' /\ CapacityFits' /\ RoundFits'
  BY <1>1 DEF RecInv, QueueFits, Going, Cleaning, AgeFits, CapacityFits, RoundFits, Beyond, Skips, Queued
<1> QED BY <1>2, <1>3 DEF RecInv

LEMMA ReadClipKeeps == ASSUME RecInv, NEW r \in Reviews, ReadClip(r) PROVE RecInv'
<1> DEFINE found == CASE clips[r].file = "good" -> "available"
                      [] clips[r].file = "none" -> "missing"
                      [] OTHER -> "corrupt"
<1>1. /\ clips[r].row # "none" /\ clips' = [clips EXCEPT ![r].row = found]
      /\ UNCHANGED <<time, recorder, segments, minder, spoilt>>
  BY DEF ReadClip
<1>2. /\ found \in {"available", "missing", "corrupt"}
      /\ found # "available" => clips[r].file # "good"
  OBVIOUS
<1> HIDE DEF found
<1>3. clips \in [Reviews -> Clips] /\ clips[r] \in Clips
  BY DEF RecInv, RecShape
<1> DEFINE new == [clips[r] EXCEPT !.row = found]
<1>4. new \in Clips /\ new.file = clips[r].file /\ new.cut = clips[r].cut /\ new.row = found
  BY <1>2, <1>3 DEF Clips
<1> HIDE DEF new
<1>5. clips' = [clips EXCEPT ![r] = new]
  BY <1>1, <1>3 DEF new
<1>6. clips' \in [Reviews -> Clips] /\ clips'[r] = new /\ \A x \in Reviews \ {r} : clips'[x] = clips[x]
  BY <1>3, <1>4, <1>5
<1>7. \A x \in Reviews : AtWork(x)' = AtWork(x)
  BY <1>1 DEF AtWork
<1>8. ClipsFit'
  <2>1. minder'.pc \in {"cut", "register"} => minder'.todo # <<>> /\ Until(Head(minder'.todo)) <= time'
    BY <1>1 DEF RecInv, ClipsFit
  <2>2. \A x \in Reviews : clips'[x].row # "none" \/ AtWork(x)' =>
          /\ Until(x) <= time'
          /\ \A s \in segments' : s.start < Until(x) /\ s.start + SegmentLength > From(x)
                => s.start \in clips'[x].cut
          /\ clips'[x].file = "good" \/ x \in spoilt'
    BY <1>1, <1>4, <1>6, <1>7 DEF RecInv, ClipsFit
  <2>3. \A x \in Reviews : clips'[x].row \notin {"none", "available"} => x \in spoilt'
    BY <1>1, <1>2, <1>4, <1>6 DEF RecInv, ClipsFit
  <2> QED BY <2>1, <2>2, <2>3 DEF ClipsFit, From, Until
<1> QED BY <1>1, <1>6, <1>8, ClipsAlone

LEMMA HarmClipKeeps ==
  ASSUME RecInv, NEW r \in Reviews, NEW how \in {"none", "bad"}, HarmClip(r, how) PROVE RecInv'
<1>1. /\ clips' = [clips EXCEPT ![r].file = how] /\ spoilt' = spoilt \cup {r}
      /\ UNCHANGED <<time, recorder, segments, minder>>
  BY DEF HarmClip
<1>2. clips \in [Reviews -> Clips] /\ clips[r] \in Clips
  BY DEF RecInv, RecShape
<1> DEFINE new == [clips[r] EXCEPT !.file = how]
<1>3. new \in Clips /\ new.cut = clips[r].cut /\ new.row = clips[r].row
  BY <1>2 DEF Clips
<1> HIDE DEF new
<1>4. clips' = [clips EXCEPT ![r] = new]
  BY <1>1, <1>2 DEF new
<1>5. clips' \in [Reviews -> Clips] /\ clips'[r] = new /\ \A x \in Reviews \ {r} : clips'[x] = clips[x]
  BY <1>2, <1>3, <1>4
<1>6. \A x \in Reviews : AtWork(x)' = AtWork(x)
  BY <1>1 DEF AtWork
<1>7. ClipsFit'
  <2>1. minder'.pc \in {"cut", "register"} => minder'.todo # <<>> /\ Until(Head(minder'.todo)) <= time'
    BY <1>1 DEF RecInv, ClipsFit
  <2>2. \A x \in Reviews : clips'[x].row # "none" \/ AtWork(x)' =>
          /\ Until(x) <= time'
          /\ \A s \in segments' : s.start < Until(x) /\ s.start + SegmentLength > From(x)
                => s.start \in clips'[x].cut
          /\ clips'[x].file = "good" \/ x \in spoilt'
    BY <1>1, <1>3, <1>5, <1>6 DEF RecInv, ClipsFit
  <2>3. \A x \in Reviews : clips'[x].row \notin {"none", "available"} => x \in spoilt'
    BY <1>1, <1>3, <1>5 DEF RecInv, ClipsFit
  <2> QED BY <2>1, <2>2, <2>3 DEF ClipsFit, From, Until
<1> QED BY <1>1, <1>5, <1>7, ClipsAlone

\* The review at hand.
LEMMA ReviewAtHand ==
  ASSUME RecInv, minder.pc \in {"cut", "register"}
  PROVE  /\ Head(minder.todo) \in Reviews /\ Tail(minder.todo) \in Seq(Reviews)
         /\ Until(Head(minder.todo)) <= time
  BY RecFacts DEF RecInv, ClipsFit

LEMMA CutKeeps == ASSUME RecInv, Cut PROVE RecInv'
<1> DEFINE r == Head(minder.todo)
           names == {s.start : s \in Found(r)}
<1>1. /\ minder.pc = "cut" /\ minder' = [minder EXCEPT !.pc = "register"]
      /\ clips' = [clips EXCEPT ![r] = [@ EXCEPT !.file = "good", !.cut = names]]
      /\ UNCHANGED <<time, recorder, segments, spoilt>>
  BY DEF Cut
<1>2. r \in Reviews /\ Until(r) <= time /\ minder \in MinderRecords
  BY <1>1, ReviewAtHand DEF RecInv, RecShape, MinderRecords
<1>3. names \subseteq Nat
  BY SegmentFacts DEF Found
<1>4. \A s \in segments : s.start < Until(r) /\ s.start + SegmentLength > From(r) => s.start \in names
  <2> SUFFICES ASSUME NEW s \in segments, s.start < Until(r), s.start + SegmentLength > From(r)
               PROVE  s \in Found(r)
    OBVIOUS
  <2>1. s.start \in Nat /\ Until(r) \in Nat /\ From(r) \in Int /\ SegmentLength \in Nat
    BY <1>2, SegmentFacts, RecConstants
  <2> QED BY <2>1 DEF Found
<1> HIDE DEF names
<1>5. clips \in [Reviews -> Clips] /\ clips[r] \in Clips
  BY <1>2 DEF RecInv, RecShape
<1> DEFINE new == [clips[r] EXCEPT !.file = "good", !.cut = names]
<1>6. new \in Clips /\ new.file = "good" /\ new.cut = names /\ new.row = clips[r].row
  BY <1>3, <1>5 DEF Clips
<1> HIDE DEF new
<1>7. clips' = [clips EXCEPT ![r] = new]
  BY <1>1, <1>2, <1>5 DEF new
<1>8. clips' \in [Reviews -> Clips] /\ clips'[r] = new /\ \A x \in Reviews \ {r} : clips'[x] = clips[x]
  BY <1>2, <1>5, <1>6, <1>7
<1>9. minder' \in MinderRecords /\ minder'.pc = "register" /\ minder'.todo = minder.todo /\ minder'.at = minder.at
  BY <1>1, <1>2 DEF MinderRecords
<1>10. ClipsFit'
  <2>1. minder'.pc \in {"cut", "register"} => minder'.todo # <<>> /\ Until(Head(minder'.todo)) <= time'
    BY <1>1, <1>2, <1>9 DEF RecInv, ClipsFit
  <2>2. \A x \in Reviews : clips'[x].row # "none" \/ AtWork(x)' =>
          /\ Until(x) <= time'
          /\ \A s \in segments' : s.start < Until(x) /\ s.start + SegmentLength > From(x)
                => s.start \in clips'[x].cut
          /\ clips'[x].file = "good" \/ x \in spoilt'
    <3> SUFFICES ASSUME NEW x \in Reviews, clips'[x].row # "none" \/ AtWork(x)'
                 PROVE  /\ Until(x) <= time'
                        /\ \A s \in segments' : s.start < Until(x) /\ s.start + SegmentLength > From(x)
                              => s.start \in clips'[x].cut
                        /\ clips'[x].file = "good" \/ x \in spoilt'
      OBVIOUS
    <3>1. CASE x = r
      BY <1>1, <1>2, <1>4, <1>6, <1>8, <3>1
    <3>2. CASE x # r
      <4>1. clips[x].row # "none"
        BY <1>8, <1>9, <3>2 DEF AtWork
      <4> QED BY <1>1, <1>8, <3>2, <4>1 DEF RecInv, ClipsFit
    <3> QED BY <3>1, <3>2
  <2>3. \A x \in Reviews : clips'[x].row \notin {"none", "available"} => x \in spoilt'
    BY <1>1, <1>6, <1>8 DEF RecInv, ClipsFit
  <2> QED BY <2>1, <2>2, <2>3 DEF ClipsFit, From, Until
<1> QED BY <1>1, <1>8, <1>9, <1>10, RecFacts, MinderMoves

LEMMA RegisterKeeps == ASSUME RecInv, Register PROVE RecInv'
<1> DEFINE r == Head(minder.todo)
           row == IF clips[r].row # "none" THEN clips[r].row
                  ELSE IF clips[r].file = "none" THEN "missing" ELSE "available"
<1>1. /\ minder.pc = "register" /\ minder' = [minder EXCEPT !.pc = "export", !.todo = Tail(@)]
      /\ UNCHANGED <<time, recorder, segments, spoilt>>
  BY DEF Register
<1>2. r \in Reviews /\ Until(r) <= time /\ minder \in MinderRecords /\ Tail(minder.todo) \in Seq(Reviews)
  BY <1>1, ReviewAtHand DEF RecInv, RecShape, MinderRecords
<1>3. clips \in [Reviews -> Clips] /\ clips[r] \in Clips
  BY <1>2 DEF RecInv, RecShape
<1>4. clips' = [clips EXCEPT ![r].row = row]
  BY DEF Register
<1>5. /\ row \in {"none", "available", "missing", "corrupt"} /\ row # "none"
      /\ row # "available" => row = clips[r].row \/ clips[r].file = "none"
  BY <1>3 DEF Clips
<1> HIDE DEF row
<1> DEFINE new == [clips[r] EXCEPT !.row = row]
<1>6. new \in Clips /\ new.file = clips[r].file /\ new.cut = clips[r].cut /\ new.row = row
  BY <1>3, <1>5 DEF Clips
<1> HIDE DEF new
<1>7. clips' = [clips EXCEPT ![r] = new]
  BY <1>2, <1>3, <1>4 DEF new
<1>8. clips' \in [Reviews -> Clips] /\ clips'[r] = new /\ \A x \in Reviews \ {r} : clips'[x] = clips[x]
  BY <1>2, <1>3, <1>6, <1>7
<1>9. minder' \in MinderRecords /\ minder'.pc = "export" /\ minder'.at = minder.at
  BY <1>1, <1>2 DEF MinderRecords
<1>10. AtWork(r)
  BY <1>1 DEF AtWork
<1>11. ClipsFit'
  <2>1. minder'.pc \in {"cut", "register"} => minder'.todo # <<>> /\ Until(Head(minder'.todo)) <= time'
    BY <1>9
  <2>2. \A x \in Reviews : clips'[x].row # "none" \/ AtWork(x)' =>
          /\ Until(x) <= time'
          /\ \A s \in segments' : s.start < Until(x) /\ s.start + SegmentLength > From(x)
                => s.start \in clips'[x].cut
          /\ clips'[x].file = "good" \/ x \in spoilt'
    <3> SUFFICES ASSUME NEW x \in Reviews, clips'[x].row # "none" \/ AtWork(x)'
                 PROVE  /\ Until(x) <= time'
                        /\ \A s \in segments' : s.start < Until(x) /\ s.start + SegmentLength > From(x)
                              => s.start \in clips'[x].cut
                        /\ clips'[x].file = "good" \/ x \in spoilt'
      OBVIOUS
    <3>1. CASE x = r
      BY <1>1, <1>2, <1>6, <1>8, <1>10, <3>1 DEF RecInv, ClipsFit
    <3>2. CASE x # r
      <4>1. clips[x].row # "none"
        BY <1>8, <1>9, <3>2 DEF AtWork
      <4> QED BY <1>1, <1>8, <3>2, <4>1 DEF RecInv, ClipsFit
    <3> QED BY <3>1, <3>2
  <2>3. \A x \in Reviews : clips'[x].row \notin {"none", "available"} => x \in spoilt'
    <3> SUFFICES ASSUME NEW x \in Reviews, clips'[x].row \notin {"none", "available"} PROVE x \in spoilt'
      OBVIOUS
    <3>1. CASE x = r
      <4>1. row # "available"
        BY <1>6, <1>8, <3>1
      <4>2. CASE row = clips[r].row
        BY <1>1, <1>2, <1>6, <1>8, <3>1, <4>2 DEF RecInv, ClipsFit
      <4>3. CASE clips[r].file = "none"
        BY <1>1, <1>2, <1>10, <3>1, <4>3 DEF RecInv, ClipsFit
      <4> QED BY <1>5, <4>1, <4>2, <4>3
    <3>2. CASE x # r
      BY <1>1, <1>8, <3>2 DEF RecInv, ClipsFit
    <3> QED BY <3>1, <3>2
  <2> QED BY <2>1, <2>2, <2>3 DEF ClipsFit, From, Until
<1> QED BY <1>1, <1>8, <1>9, <1>11, RecFacts, MinderMoves

LEMMA ExportFailsKeeps == ASSUME RecInv, ExportFails PROVE RecInv'
<1> DEFINE r == Head(minder.todo)
<1>1. /\ minder.pc \in {"cut", "register"} /\ minder' = Sleeping /\ clips' = [clips EXCEPT ![r] = NoClip]
      /\ UNCHANGED <<time, recorder, segments, spoilt>>
  BY DEF ExportFails
<1>2. r \in Reviews
  BY <1>1, ReviewAtHand
<1>3. clips \in [Reviews -> Clips] /\ NoClip \in Clips /\ NoClip.row = "none"
  BY DEF RecInv, RecShape, NoClip, Clips
<1>4. clips' \in [Reviews -> Clips] /\ clips'[r] = NoClip /\ \A x \in Reviews \ {r} : clips'[x] = clips[x]
  BY <1>1, <1>2, <1>3
<1>5. minder' \in MinderRecords /\ minder'.pc = "wait" /\ minder'.at <= time
  BY <1>1, AsleepFacts, RecFacts
<1>6. ClipsFit'
  <2>1. \A x \in Reviews : ~AtWork(x)'
    BY <1>5 DEF AtWork
  <2>2. \A x \in Reviews : clips'[x].row # "none" \/ AtWork(x)' =>
          /\ Until(x) <= time'
          /\ \A s \in segments' : s.start < Until(x) /\ s.start + SegmentLength > From(x)
                => s.start \in clips'[x].cut
          /\ clips'[x].file = "good" \/ x \in spoilt'
    BY <1>1, <1>3, <1>4, <2>1 DEF RecInv, ClipsFit
  <2>3. \A x \in Reviews : clips'[x].row \notin {"none", "available"} => x \in spoilt'
    BY <1>1, <1>3, <1>4 DEF RecInv, ClipsFit
  <2> QED BY <1>5, <2>2, <2>3 DEF ClipsFit, From, Until
<1> QED BY <1>1, <1>4, <1>5, <1>6, MinderMoves


\* The thread goes on with the round, and the segments stay.
LEMMA RoundMoves ==
  ASSUME RecInv, UNCHANGED <<time, recorder, segments, clips, spoilt>>, minder' \in MinderRecords,
         minder'.at <= time, minder'.pc \notin {"cut", "register"},
         QueueFits', AgeFits', CapacityFits', RoundFits'
  PROVE  RecInv'
<1>1. ClipsFit'
  BY ClipsStay
<1>2. RecShape'
  BY SegmentsStay DEF RecInv, RecShape, MinderRecords
<1> QED BY <1>1, <1>2, SegmentsStay DEF RecInv

\* The names of the segments, each once, the oldest file first.
LEMMA ByAgeFacts ==
  ASSUME RecInv, NEW names \in ByAge
  PROVE  /\ names \in Seq(Nat)
         /\ \A i \in 1..Len(names) : \E s \in Fenced : s.start = names[i]
         /\ \A s \in Fenced : \E i \in 1..Len(names) : names[i] = s.start
         /\ \A i, j \in 1..Len(names) : i < j => names[i] # names[j]
         /\ \A i, j \in 1..Len(names) : \A s, t \in Fenced :
               i < j /\ s.start = names[i] /\ t.start = names[j] => s.mtime <= t.mtime
<1> DEFINE n == Cardinality(Fenced)
           orders == {q \in [1..n -> Fenced] :
                        /\ \A s \in Fenced : \E i \in 1..n : q[i] = s
                        /\ \A i, j \in 1..n : i < j => q[i] # q[j] /\ q[i].mtime <= q[j].mtime}
<1>1. PICK q \in orders : names = [i \in 1..n |-> q[i].start]
  BY DEF ByAge
<1>2. /\ n \in Nat /\ Fenced \subseteq segments
  BY RecFacts
<1>3. /\ q \in [1..n -> Fenced]
      /\ \A s \in Fenced : \E i \in 1..n : q[i] = s
      /\ \A i, j \in 1..n : i < j => q[i] # q[j] /\ q[i].mtime <= q[j].mtime
  OBVIOUS
<1> HIDE DEF n, orders
<1>4. \A s, t \in Fenced : s.start \in Nat /\ (s.start = t.start => s = t)
  BY <1>2, SegmentFacts
<1>5. names \in [1..n -> Nat] /\ \A i \in 1..n : names[i] = q[i].start /\ q[i] \in Fenced
  BY <1>1, <1>3, <1>4
<1>6. names \in Seq(Nat) /\ Len(names) = n
  BY <1>2, <1>5
<1>7. /\ \A i \in 1..Len(names) : \E s \in Fenced : s.start = names[i]
      /\ \A s \in Fenced : \E i \in 1..Len(names) : names[i] = s.start
  BY <1>3, <1>5, <1>6
<1>8. \A i, j \in 1..Len(names) : i < j => names[i] # names[j]
  BY <1>3, <1>4, <1>5, <1>6
<1>9. \A i \in 1..n : \A s \in Fenced : s.start = names[i] => s = q[i]
  BY <1>4, <1>5
<1>10. \A i, j \in 1..Len(names) : \A s, t \in Fenced :
         i < j /\ s.start = names[i] /\ t.start = names[j] => s.mtime <= t.mtime
  BY <1>3, <1>6, <1>9
<1> QED BY <1>6, <1>7, <1>8, <1>10

\* The greatest of some numbers that are bounded.
LEMMA GreatestOf ==
  ASSUME NEW S \in SUBSET Nat, S # {}, NEW n \in Nat, \A x \in S : x <= n
  PROVE  Max(S) \in S /\ \A y \in S : Max(S) >= y
<1> DEFINE R == OpToRel(<, Nat)
           T == {n - x : x \in S}
<1>1. IsWellFoundedOn(R, Nat)
  BY NatLessThanWellFounded
<1>2. \A x, y \in Nat : <<y, x>> \notin R => x <= y
  BY DEF OpToRel
<1>3. T \subseteq Nat /\ T # {}
  <2>1. \A x \in S : n - x \in Nat
    OBVIOUS
  <2> QED BY <2>1
<1>4. \A t \in T : \E x \in S : t = n - x
  OBVIOUS
<1>5. \A x \in S : n - x \in T
  OBVIOUS
<1> HIDE DEF R, T
<1>6. PICK t \in T : \A u \in T : <<u, t>> \notin R
  BY <1>1, <1>3, WFMin
<1>7. PICK x \in S : t = n - x
  BY <1>4
<1>8. \A y \in S : x >= y
  <2> SUFFICES ASSUME NEW y \in S PROVE x >= y
    OBVIOUS
  <2>1. t <= n - y
    BY <1>2, <1>3, <1>5, <1>6
  <2> QED BY <1>7, <2>1
<1> QED BY <1>8 DEF Max

LEMMA ProtectKeeps == ASSUME RecInv, Protect PROVE RecInv'
<1>1. PICK names \in ByAge :
         minder' = [minder EXCEPT !.pc = "age", !.at = time, !.protected = Protects, !.queue = names]
  BY DEF Protect
<1>2. minder.pc = "protect" /\ UNCHANGED <<time, recorder, segments, clips, spoilt>>
  BY DEF Protect
<1>3. minder \in MinderRecords /\ time \in Nat /\ minder.total = 0
  BY <1>2, RecFacts DEF RecInv, RecShape, MinderRecords, AgeFits
<1>4. names \in Seq(Nat)
  BY ByAgeFacts
<1>5. Current \in Int /\ \A s \in Fenced : (\A t \in segments : t.start <= s.start) => Current = s.start
  <2>1. CASE Fenced = {}
    BY <2>1 DEF Current
  <2>2. CASE Fenced # {}
    <3> DEFINE S == {s.start : s \in Fenced}
    <3>1. S \subseteq Nat /\ S # {} /\ \A x \in S : x <= time
      <4>1. \A s \in Fenced : s.start \in Nat /\ s.mtime \in Nat /\ s.start <= s.mtime /\ s.mtime <= time
        BY RecFacts, SegmentFacts
      <4> QED BY <1>3, <2>2, <4>1
    <3>2. Max(S) \in S /\ \A y \in S : Max(S) >= y
      <4> HIDE DEF S
      <4> QED BY <1>3, <3>1, GreatestOf
    <3>3. Current = Max(S)
      BY <2>2 DEF Current
    <3>4. \A s \in Fenced : s.start \in S /\ s \in segments
      BY RecFacts
    <3> SUFFICES ASSUME NEW s \in Fenced, \A t \in segments : t.start <= s.start PROVE Max(S) = s.start
      BY <3>1, <3>2, <3>3
    <3>5. Max(S) <= s.start
      BY <3>2, RecFacts
    <3>6. Max(S) \in Nat /\ s.start \in Nat /\ s.start \in S
      BY <3>1, <3>2, <3>4
    <3> HIDE DEF S
    <3> QED BY <3>2, <3>5, <3>6
  <2> QED BY <2>1, <2>2
<1>6. /\ minder' \in MinderRecords /\ minder'.pc = "age" /\ minder'.at = time /\ minder'.protected = Current
      /\ minder'.queue = names /\ minder'.total = 0
  BY <1>1, <1>3, <1>4, <1>5 DEF MinderRecords, Protects
<1>7. Fenced' = Fenced /\ Past' \subseteq Fenced
  BY <1>2 DEF Fenced, Past
<1>8. QueueFits'
  <2>1. ASSUME Going', NEW s \in Fenced', s.start = recorder'.writing PROVE s.start = minder'.protected
    <3>1. \A t \in segments : t.start <= s.start
      BY <1>2, <2>1 DEF RecInv, OpenIsLast, Going
    <3> QED BY <1>5, <1>6, <1>7, <2>1, <3>1
  <2> QED BY <1>6, <1>7, <2>1, ByAgeFacts DEF QueueFits
<1>9. AgeFits'
  <2>1. ASSUME NEW i \in 1..Len(names), NEW j \in 1..Len(names), NEW s \in Fenced, NEW t \in Fenced,
               i < j, s.start = names[i], t.start = names[j], Beyond(t)'
        PROVE  Beyond(s)'
    <3>1. s.mtime <= t.mtime
      BY <2>1, ByAgeFacts
    <3>2. s.mtime \in Nat /\ t.mtime \in Nat /\ Retention \in Nat
      BY RecFacts, SegmentFacts, RecConstants
    <3> QED BY <1>3, <1>6, <2>1, <3>1, <3>2 DEF Beyond
  <2>2. \A s \in Past' : Queued(s)'
    BY <1>6, <1>7, ByAgeFacts DEF Queued
  <2> QED BY <1>6, <1>7, <2>1, <2>2 DEF AgeFits
<1>10. CapacityFits' /\ RoundFits'
  BY <1>6 DEF CapacityFits, RoundFits
<1> QED BY <1>2, <1>3, <1>6, <1>8, <1>9, <1>10, RoundMoves

\* Once the head of the queue is young enough, what is too old was passed over.
LEMMA OldSkipped ==
  ASSUME RecInv, minder.pc = "age", AgeOver, ~minder.failed, NEW s \in Past, Beyond(s)
  PROVE  Skips(s)
<1> SUFFICES ASSUME ~Skips(s) PROVE FALSE
  OBVIOUS
<1>1. PICK i \in 1..Len(minder.queue) : minder.queue[i] = s.start
  BY DEF RecInv, AgeFits, Queued
<1>2. minder.queue \in Seq(Nat) /\ minder.queue # <<>> /\ 1 \in 1..Len(minder.queue)
      /\ Head(minder.queue) = minder.queue[1]
  BY <1>1, RecFacts
<1>3. PICK h \in Fenced : h.start = minder.queue[1]
  BY <1>2 DEF RecInv, QueueFits, Cleaning
<1>4. h \in segments /\ s \in segments /\ s \in Fenced
  BY RecFacts
<1>5. FileOf(Head(minder.queue)) = h
  BY <1>2, <1>3, <1>4, SegmentFacts
<1>6. ~Beyond(h)
  <2>1. h.mtime >= minder.at - Retention
    BY <1>2, <1>5 DEF AgeOver
  <2>2. h.mtime \in Nat /\ minder.at \in Nat /\ Retention \in Nat
    BY <1>4, SegmentFacts, RecFacts, RecConstants
  <2> QED BY <2>1, <2>2 DEF Beyond
<1>7. CASE i = 1
  BY <1>1, <1>3, <1>4, <1>6, <1>7, SegmentFacts
<1>8. CASE i # 1
  BY <1>1, <1>2, <1>3, <1>4, <1>6, <1>8 DEF RecInv, AgeFits
<1> QED BY <1>7, <1>8

LEMMA BeginCapacityKeeps == ASSUME RecInv, BeginCapacity PROVE RecInv'
<1>1. /\ minder.pc = "age" /\ AgeOver /\ UNCHANGED <<time, recorder, segments, clips, spoilt>>
      /\ minder \in MinderRecords
  BY DEF BeginCapacity, RecInv, RecShape, MinderRecords
<1>2. Fenced' = Fenced /\ Cardinality(Fenced) \in Nat /\ Cardinality(Past) <= Cardinality(Fenced)
      /\ Cardinality(Past) \in Nat /\ Capacity \in Nat
  BY <1>1, RecFacts, RecConstants DEF Fenced
<1>3. CASE Cardinality(Fenced) > Capacity
  <2>1. PICK names \in ByAge : minder' = [minder EXCEPT !.pc = "capacity", !.queue = names,
                                                        !.total = Cardinality(Fenced)]
    BY <1>3 DEF BeginCapacity
  <2>2. names \in Seq(Nat)
    BY ByAgeFacts
  <2>3. /\ minder' \in MinderRecords /\ minder'.pc = "capacity" /\ minder'.queue = names
        /\ minder'.total = Cardinality(Fenced) /\ minder'.at = minder.at
        /\ minder'.protected = minder.protected /\ minder'.failed = minder.failed
    BY <1>1, <1>2, <2>1, <2>2 DEF MinderRecords
  <2>4. Past' = Past /\ \A s \in Past : Skips(s)' = Skips(s) /\ Beyond(s)' = Beyond(s)
    BY <1>2, <2>3 DEF Past, Skips, Beyond
  <2>5. QueueFits'
    BY <1>1, <1>2, <2>3, ByAgeFacts DEF RecInv, QueueFits, Cleaning, Going
  <2>6. CapacityFits'
    <3>1. \A s \in Past : Queued(s)'
      BY <2>3, RecFacts, ByAgeFacts DEF Queued
    <3>2. ~minder.failed => \A s \in Past : Beyond(s) => Skips(s)
      BY <1>1, OldSkipped
    <3> QED BY <1>2, <2>3, <2>4, <3>1, <3>2 DEF CapacityFits
  <2>7. AgeFits' /\ RoundFits'
    BY <2>3 DEF AgeFits, RoundFits
  <2> QED BY <1>1, <2>3, <2>5, <2>6, <2>7, RecFacts, RoundMoves
<1>4. CASE ~(Cardinality(Fenced) > Capacity)
  <2>1. minder' = [minder EXCEPT !.pc = "reviews", !.queue = <<>>]
    BY <1>4 DEF BeginCapacity
  <2>2. /\ minder' \in MinderRecords /\ minder'.pc = "reviews" /\ minder'.at = minder.at
        /\ minder'.protected = minder.protected /\ minder'.failed = minder.failed
    <3>1. <<>> \in Seq(Nat)
      OBVIOUS
    <3> QED BY <1>1, <2>1, <3>1 DEF MinderRecords
  <2>3. Past' = Past /\ \A s \in Past : Skips(s)' = Skips(s) /\ Beyond(s)' = Beyond(s)
    BY <1>2, <2>2 DEF Past, Skips, Beyond
  <2>4. RoundFits'
    <3>1. ~minder.failed => \A s \in Past : Beyond(s) => Skips(s)
      BY <1>1, OldSkipped
    <3> QED BY <1>2, <1>4, <2>2, <2>3, <3>1 DEF RoundFits
  <2>5. QueueFits' /\ AgeFits' /\ CapacityFits'
    BY <2>2 DEF QueueFits, Cleaning, AgeFits, CapacityFits
  <2> QED BY <1>1, <2>2, <2>4, <2>5, RecFacts, RoundMoves
<1> QED BY <1>3, <1>4

LEMMA EndCapacityKeeps == ASSUME RecInv, EndCapacity PROVE RecInv'
<1>1. /\ minder.pc = "capacity" /\ CapacityOver /\ UNCHANGED <<time, recorder, segments, clips, spoilt>>
      /\ minder \in MinderRecords /\ minder' = [minder EXCEPT !.pc = "reviews", !.queue = <<>>, !.total = 0]
  BY DEF EndCapacity, RecInv, RecShape, MinderRecords
<1>2. /\ minder' \in MinderRecords /\ minder'.pc = "reviews" /\ minder'.at = minder.at
      /\ minder'.protected = minder.protected /\ minder'.failed = minder.failed
  <2>1. <<>> \in Seq(Nat) /\ 0 \in Nat
    OBVIOUS
  <2> QED BY <1>1, <2>1 DEF MinderRecords
<1>3. Past' = Past /\ \A s \in Past : Skips(s)' = Skips(s) /\ Beyond(s)' = Beyond(s)
  BY <1>1, <1>2 DEF Past, Fenced, Skips, Beyond
<1>4. RoundFits'
  <2> SUFFICES ASSUME ~minder.failed
               PROVE  /\ \A s \in Past : Beyond(s) => Skips(s)
                      /\ Cardinality(Past) <= Capacity \/ \A s \in Past : Skips(s)
    BY <1>2, <1>3 DEF RoundFits
  <2>1. /\ Cardinality(Past) <= minder.total
        /\ \A s \in Past : (Skips(s) \/ Queued(s)) /\ (Beyond(s) => Skips(s))
    BY <1>1 DEF RecInv, CapacityFits
  <2>2. CASE minder.queue = <<>>
    BY <2>1, <2>2 DEF Queued
  <2>3. CASE minder.total <= Capacity
    BY <2>1, <2>3, RecFacts, RecConstants
  <2> QED BY <1>1, <2>1, <2>2, <2>3 DEF CapacityOver
<1>5. QueueFits' /\ AgeFits' /\ CapacityFits'
  BY <1>2 DEF QueueFits, Cleaning, AgeFits, CapacityFits
<1> QED BY <1>1, <1>2, <1>4, <1>5, RecFacts, RoundMoves

LEMMA MaintainKeeps == ASSUME RecInv, Maintain PROVE RecInv'
<1>1. /\ minder.pc = "wait" /\ minder' = [Sleeping EXCEPT !.pc = "protect"]
      /\ UNCHANGED <<time, clips, spoilt>> /\ time \in Nat
  BY RecFacts DEF Maintain
<1>2. minder' \in MinderRecords /\ minder'.pc = "protect" /\ minder'.at = 0 /\ minder'.total = 0
  BY <1>1, AsleepFacts DEF MinderRecords
<1>3. QueueFits' /\ AgeFits' /\ CapacityFits' /\ RoundFits'
  BY <1>2 DEF QueueFits, Cleaning, AgeFits, CapacityFits, RoundFits
<1>4. CASE RunsToday
  <2>1. UNCHANGED <<recorder, segments>>
    BY <1>4 DEF Maintain
  <2> QED BY <1>1, <1>2, <1>3, <2>1, RoundMoves
<1>5. CASE ~RunsToday
  <2> DEFINE new == [start |-> time, dir |-> Day(time), mtime |-> time]
  <2>1. /\ recorder' = [proc |-> "runs", day |-> Day(time), writing |-> time]
        /\ segments' = {s \in segments : s.start # time} \cup {new}
    BY <1>5 DEF Maintain
  <2>2. SegmentsShape'
    <3>1. IsFiniteSet(segments')
      BY <2>1, RecFacts, FS_Subset, FS_AddElement
    <3>2. \A s \in segments' : /\ s = [start |-> s.start, dir |-> s.dir, mtime |-> s.mtime]
                               /\ s.start \in Nat /\ s.mtime \in Nat
                               /\ s.start <= s.mtime /\ s.mtime <= time'
      BY <1>1, <2>1, SegmentFacts
    <3>3. \A s, t \in segments' : s.start = t.start => s = t
      BY <2>1, SegmentFacts
    <3> QED BY <3>1, <3>2, <3>3 DEF SegmentsShape
  <2>3. OpenIsLast'
    <3>1. \A s \in segments' : s.start <= time /\ (s.start = time => s = new)
      <4>1. \A s \in segments : s.start \in Nat /\ s.mtime \in Nat /\ s.start <= s.mtime /\ s.mtime <= time
        BY SegmentFacts
      <4>2. new.start = time
        OBVIOUS
      <4> HIDE DEF new
      <4> SUFFICES ASSUME NEW s \in segments' PROVE s.start <= time /\ (s.start = time => s = new)
        OBVIOUS
      <4>3. CASE s = new
        BY <1>1, <4>2, <4>3
      <4>4. CASE s # new
        BY <1>1, <2>1, <4>1, <4>4
      <4> QED BY <4>3, <4>4
    <3>2. new \in segments' /\ new.start = time /\ new.mtime = time
      BY <2>1
    <3> HIDE DEF new
    <3> QED BY <1>1, <2>1, <3>1, <3>2 DEF OpenIsLast, Going
  <2>4. ClipsFit'
    <3>1. \A x \in Reviews : ~AtWork(x) /\ ~AtWork(x)'
      BY <1>1, <1>2 DEF AtWork
    <3>2. \A x \in Reviews : Until(x) \in Nat
      BY RecConstants
    <3>3. \A x \in Reviews : clips'[x].row # "none" \/ AtWork(x)' =>
            /\ Until(x) <= time'
            /\ \A s \in segments' : s.start < Until(x) /\ s.start + SegmentLength > From(x)
                  => s.start \in clips'[x].cut
            /\ clips'[x].file = "good" \/ x \in spoilt'
      BY <1>1, <2>1, <3>1, <3>2 DEF RecInv, ClipsFit
    <3>4. \A x \in Reviews : clips'[x].row \notin {"none", "available"} => x \in spoilt'
      BY <1>1 DEF RecInv, ClipsFit
    <3> QED BY <1>2, <3>3, <3>4 DEF ClipsFit, From, Until
  <2>5. RecShape'
    BY <1>1, <1>2, <2>1, <2>2 DEF RecInv, RecShape, MinderRecords
  <2> QED BY <1>3, <2>3, <2>4, <2>5 DEF RecInv
<1> QED BY <1>4, <1>5


\* The file at the head of the queue.
LEMMA HeadFile ==
  ASSUME RecInv, Cleaning, minder.queue # <<>>
  PROVE  LET s == FileOf(Head(minder.queue))
         IN  /\ s \in Fenced /\ s \in segments /\ s.start = minder.queue[1]
             /\ Tail(minder.queue) \in Seq(Nat) /\ Len(Tail(minder.queue)) = Len(minder.queue) - 1
             /\ \A i \in 1..Len(Tail(minder.queue)) :
                   i + 1 \in 1..Len(minder.queue) /\ Tail(minder.queue)[i] = minder.queue[i + 1]
             /\ \A t \in Fenced : Queued(t) =>
                   t = s \/ \E i \in 1..Len(Tail(minder.queue)) : Tail(minder.queue)[i] = t.start
<1>1. /\ minder.queue \in Seq(Nat) /\ 1 \in 1..Len(minder.queue) /\ Head(minder.queue) = minder.queue[1]
      /\ Tail(minder.queue) \in Seq(Nat) /\ Len(Tail(minder.queue)) = Len(minder.queue) - 1
  BY RecFacts
<1>2. \A i \in 1..Len(Tail(minder.queue)) :
         i + 1 \in 1..Len(minder.queue) /\ Tail(minder.queue)[i] = minder.queue[i + 1]
  BY <1>1
<1>3. PICK s \in Fenced : s.start = minder.queue[1]
  BY <1>1 DEF RecInv, QueueFits
<1>4. s \in segments /\ FileOf(Head(minder.queue)) = s
  BY <1>1, <1>3, RecFacts, SegmentFacts
<1>5. \A t \in Fenced : Queued(t) =>
         t = s \/ \E i \in 1..Len(Tail(minder.queue)) : Tail(minder.queue)[i] = t.start
  <2> SUFFICES ASSUME NEW t \in Fenced, NEW i \in 1..Len(minder.queue), minder.queue[i] = t.start, t # s
               PROVE  \E j \in 1..Len(Tail(minder.queue)) : Tail(minder.queue)[j] = t.start
    BY DEF Queued
  <2>1. i # 1
    BY <1>3, <1>4, RecFacts, SegmentFacts
  <2>2. i - 1 \in 1..Len(Tail(minder.queue)) /\ (i - 1) + 1 = i
    BY <1>1, <2>1
  <2> QED BY <1>2, <2>2
<1> QED BY <1>1, <1>2, <1>3, <1>4, <1>5

\* The queue goes on: each of its names is a segment's still.
LEMMA QueueGoesOn ==
  ASSUME RecInv, Cleaning, minder.queue # <<>>, minder'.queue = Tail(minder.queue),
         minder'.at = minder.at, minder'.protected = minder.protected, recorder' = recorder,
         Fenced' = Fenced \/ Fenced' = Fenced \ {FileOf(Head(minder.queue))}
  PROVE  QueueFits'
<1> DEFINE s == FileOf(Head(minder.queue))
           rest == Tail(minder.queue)
<1>1. /\ s.start = minder.queue[1] /\ \A i \in 1..Len(rest) : i + 1 \in 1..Len(minder.queue)
                                                            /\ rest[i] = minder.queue[i + 1]
      /\ 1 \in 1..Len(minder.queue)
  BY HeadFile, RecFacts
<1> HIDE DEF s, rest
<1>2. \A i, j \in 1..Len(minder.queue) : i < j => minder.queue[i] # minder.queue[j]
  BY DEF RecInv, QueueFits
<1>3. \A i \in 1..Len(rest) : rest[i] # s.start
  BY <1>1, <1>2
<1>4. \A i, j \in 1..Len(rest) : i < j => rest[i] # rest[j]
  BY <1>1, <1>2
<1>5. \A i \in 1..Len(rest) : \E t \in Fenced : t.start = rest[i]
  BY <1>1 DEF RecInv, QueueFits
<1>6. \A i \in 1..Len(rest) : \E t \in Fenced' : t.start = rest[i]
  BY <1>3, <1>5 DEF s
<1>7. Going' => \A t \in Fenced' : t.start = recorder'.writing => t.start = minder'.protected \/ t.mtime > minder'.at
  BY DEF RecInv, QueueFits, Going
<1>8. minder'.queue = rest
  BY DEF rest
<1> QED BY <1>4, <1>6, <1>7, <1>8 DEF QueueFits

LEMMA CleanNextKeeps == ASSUME RecInv, NEW fails \in BOOLEAN, CleanNext(fails) PROVE RecInv'
<1> DEFINE s == FileOf(Head(minder.queue))
           rest == Tail(minder.queue)
<1>1. /\ Cleaning /\ minder.queue # <<>> /\ UNCHANGED <<time, recorder, clips, spoilt>>
      /\ minder \in MinderRecords
  BY DEF CleanNext, Cleaning, AgeOver, CapacityOver, RecInv, RecShape, MinderRecords
<1>2. /\ s \in Fenced /\ s \in segments /\ rest \in Seq(Nat) /\ Len(rest) = Len(minder.queue) - 1
      /\ \A i \in 1..Len(rest) : i + 1 \in 1..Len(minder.queue) /\ rest[i] = minder.queue[i + 1]
      /\ \A t \in Fenced : Queued(t) => t = s \/ \E i \in 1..Len(rest) : rest[i] = t.start
  BY <1>1, HeadFile
<1>3. /\ IF Skips(s) THEN ~fails /\ UNCHANGED segments /\ minder' = [minder EXCEPT !.queue = rest]
         ELSE /\ minder' = [minder EXCEPT !.queue = rest, !.failed = @ \/ fails,
                                  !.total = IF fails \/ @ = 0 THEN @ ELSE @ - 1]
              /\ IF fails THEN UNCHANGED segments ELSE segments' = segments \ {s}
  BY DEF CleanNext
<1>4. minder.total \in Nat /\ minder.failed \in BOOLEAN /\ minder.at <= time
  BY RecFacts
<1> HIDE DEF s, rest
<1>5. Skips(s) \/ fails => segments' = segments
  BY <1>3
<1>6. ~(Skips(s) \/ fails) => segments' = segments \ {s}
  BY <1>3
<1>7. /\ minder' \in MinderRecords /\ minder'.queue = rest /\ minder'.pc = minder.pc /\ minder'.at = minder.at
      /\ minder'.protected = minder.protected
      /\ ~minder'.failed => ~minder.failed /\ (Skips(s) \/ segments' = segments \ {s})
      /\ minder'.total = IF Skips(s) \/ fails \/ minder.total = 0 THEN minder.total ELSE minder.total - 1
  <2>1. CASE Skips(s)
    BY <1>1, <1>2, <1>3, <2>1 DEF MinderRecords
  <2>2. CASE ~Skips(s)
    <3> DEFINE total == IF fails \/ minder.total = 0 THEN minder.total ELSE minder.total - 1
               failed == minder.failed \/ fails
    <3>1. total \in Nat /\ failed \in BOOLEAN
      BY <1>4
    <3>2. minder' = [minder EXCEPT !.queue = rest, !.failed = failed, !.total = total]
      BY <1>3, <2>2
    <3>3. /\ ~failed => ~minder.failed /\ ~fails
          /\ total = IF Skips(s) \/ fails \/ minder.total = 0 THEN minder.total ELSE minder.total - 1
      BY <2>2
    <3> HIDE DEF total, failed
    <3>4. /\ minder' \in MinderRecords /\ minder'.queue = rest /\ minder'.pc = minder.pc
          /\ minder'.at = minder.at /\ minder'.protected = minder.protected
          /\ minder'.failed = failed /\ minder'.total = total
      BY <1>1, <1>2, <3>1, <3>2 DEF MinderRecords
    <3> QED BY <1>6, <2>2, <3>3, <3>4
  <2> QED BY <2>1, <2>2
<1>8. /\ segments' \subseteq segments /\ segments \ {s} \subseteq segments'
      /\ Fenced' \subseteq Fenced /\ Fenced \ {s} \subseteq Fenced'
      /\ Past' \subseteq Past /\ Past' = Past \cap segments'
      /\ Fenced' = Fenced \/ Fenced' = Fenced \ {s}
  BY <1>2, <1>5, <1>6, <1>7 DEF Fenced, Past
<1>9. QueueFits'
  BY <1>1, <1>7, <1>8, QueueGoesOn DEF s, rest
<1>10. \A t \in Past : /\ Skips(t)' = Skips(t) /\ Beyond(t)' = Beyond(t)
                       /\ Queued(t) => t = s \/ Queued(t)'
  BY <1>2, <1>7, RecFacts DEF Skips, Beyond, Queued
<1>11. ~minder'.failed => \A t \in Past' : Skips(t) \/ Queued(t) => Skips(t)' \/ Queued(t)'
  BY <1>7, <1>8, <1>10
<1>12. RecShape'
  <2>1. IsFiniteSet(segments')
    BY <1>8, RecFacts, FS_Subset
  <2>2. SegmentsShape'
    BY <1>1, <1>8, <2>1 DEF RecInv, RecShape, SegmentsShape
  <2> QED BY <1>1, <1>4, <1>7, <2>2 DEF RecInv, RecShape, MinderRecords
<1>13. ~(Skips(s) \/ fails) => s \in Past /\ s.mtime <= minder.at /\ s.start # minder.protected
  <2>1. /\ s.start \in Nat /\ s.mtime \in Nat /\ s.start <= s.mtime /\ minder.at \in Nat /\ MinAge \in Nat
    BY <1>2, SegmentFacts, RecFacts, RecConstants
  <2> QED BY <1>2, <2>1 DEF Skips, Past
<1>14. OpenIsLast'
  <2>1. Going /\ ~(Skips(s) \/ fails) => s.start # recorder.writing
    <3>1. s.mtime \in Nat /\ minder.at \in Nat
      BY <1>2, SegmentFacts, RecFacts
    <3> QED BY <1>1, <1>2, <1>13, <3>1 DEF RecInv, QueueFits
  <2>2. Going => \E t \in segments' : t.start = recorder.writing
    BY <1>5, <1>6, <2>1 DEF RecInv, OpenIsLast
  <2> QED BY <1>1, <1>8, <2>2 DEF RecInv, OpenIsLast, Going
<1>15. ClipsFit'
  <2>1. \A x \in Reviews : ~AtWork(x) /\ ~AtWork(x)'
    BY <1>1, <1>7 DEF AtWork, Cleaning
  <2> QED BY <1>1, <1>7, <1>8, <2>1 DEF RecInv, ClipsFit, From, Until, Cleaning
<1>16. AgeFits'
  <2>1. minder'.pc \in {"protect", "age"} => minder'.total = 0
    BY <1>7 DEF RecInv, AgeFits
  <2>2. ASSUME minder'.pc = "age"
        PROVE  \A i, j \in 1..Len(rest) : \A x, t \in Fenced' :
                 i < j /\ x.start = rest[i] /\ t.start = rest[j] /\ Beyond(t) => Beyond(x)
    <3>1. \A i, j \in 1..Len(minder.queue) : \A x, t \in Fenced :
             i < j /\ x.start = minder.queue[i] /\ t.start = minder.queue[j] /\ Beyond(t) => Beyond(x)
      BY <1>7, <2>2 DEF RecInv, AgeFits
    <3> SUFFICES ASSUME NEW i \in 1..Len(rest), NEW j \in 1..Len(rest), NEW x \in Fenced', NEW t \in Fenced',
                        i < j, x.start = rest[i], t.start = rest[j], Beyond(t)
                 PROVE  Beyond(x)
      OBVIOUS
    <3>2. /\ i + 1 \in 1..Len(minder.queue) /\ j + 1 \in 1..Len(minder.queue) /\ i + 1 < j + 1
          /\ x.start = minder.queue[i + 1] /\ t.start = minder.queue[j + 1] /\ x \in Fenced /\ t \in Fenced
      BY <1>2, <1>8
    <3> QED BY <3>1, <3>2
  <2>3. \A x : Beyond(x)' = Beyond(x)
    BY <1>7 DEF Beyond
  <2>4. minder'.pc = "age" /\ ~minder'.failed => \A t \in Past' : Skips(t)' \/ Queued(t)'
    BY <1>7, <1>8, <1>11 DEF RecInv, AgeFits
  <2> QED BY <1>7, <2>1, <2>2, <2>3, <2>4 DEF AgeFits
<1>17. CapacityFits'
  <2> SUFFICES ASSUME minder.pc = "capacity"
               PROVE  /\ Cardinality(Past') <= minder'.total
                      /\ ~minder'.failed => \A t \in Past' : (Skips(t)' \/ Queued(t)') /\ (Beyond(t)' => Skips(t)')
    BY <1>7 DEF CapacityFits
  <2>1. Cardinality(Past) <= minder.total
    BY DEF RecInv, CapacityFits
  <2>2. Cardinality(Past') <= minder'.total
    <3>1. CASE Skips(s) \/ fails
      BY <1>5, <1>7, <1>8, <2>1, <3>1, RecFacts DEF Past
    <3>2. CASE ~(Skips(s) \/ fails)
      <4>1. Past' = Past \ {s} /\ s \in Past
        BY <1>6, <1>8, <1>13, <3>2, RecFacts
      <4>2. Cardinality(Past') = Cardinality(Past) - 1
        BY <4>1, RecFacts, FS_RemoveElement
      <4>3. Cardinality(Past) # 0
        BY <4>1, RecFacts, FS_EmptySet
      <4> QED BY <1>4, <1>7, <2>1, <3>2, <4>2, <4>3, RecFacts
    <3> QED BY <3>1, <3>2
  <2>3. ~minder'.failed => \A t \in Past' : (Skips(t)' \/ Queued(t)') /\ (Beyond(t)' => Skips(t)')
    BY <1>7, <1>8, <1>10, <1>11 DEF RecInv, CapacityFits
  <2> QED BY <2>2, <2>3
<1>18. RoundFits'
  BY <1>1, <1>7 DEF RoundFits, Cleaning
<1> QED BY <1>9, <1>12, <1>14, <1>15, <1>16, <1>17, <1>18 DEF RecInv


\* ffmpeg writes: the segment it has open goes on, or the next one begins.
LEMMA Writes ==
  ASSUME RecInv, Passes, recorder.proc = "runs"
  PROVE  \E new :
           /\ new = [start |-> new.start, dir |-> new.dir, mtime |-> time']
           /\ segments' = {s \in segments : s.start # new.start} \cup {new}
           /\ recorder' = [recorder EXCEPT !.writing = new.start]
           /\ \A s \in segments : /\ s.start <= new.start
                                  /\ s.start = new.start => s.dir = new.dir /\ s.mtime = time
           /\ \/ new.start = time'
              \/ new.start <= time /\ \E s \in segments : s.start = new.start
<1> DEFINE w == recorder.writing
           start == IF time' - w >= SegmentLength THEN time' ELSE w
           dir == IF start = w THEN (CHOOSE s \in segments : s.start = w).dir ELSE recorder.day
           new == [start |-> start, dir |-> dir, mtime |-> time']
<1>1. /\ time' = time + 1 /\ time \in Nat
      /\ segments' = {s \in segments : s.start # start} \cup {new}
      /\ recorder' = [recorder EXCEPT !.writing = start]
  BY RecFacts DEF Passes, WrittenTo
<1>2. PICK o \in segments : o.start = w
  BY DEF RecInv, OpenIsLast, Going
<1>3. /\ w \in Nat /\ w <= time /\ o.mtime = time
      /\ \A s \in segments : s.start <= w /\ s.start \in Nat /\ (s.start = w => s = o)
  BY <1>2, SegmentFacts DEF RecInv, OpenIsLast, Going
<1>4. start = w => dir = o.dir
  BY <1>2, <1>3
<1>5. start = w \/ start = time'
  OBVIOUS
<1> HIDE DEF start, dir
<1>6. \A s \in segments : /\ s.start <= start
                          /\ s.start = start => s.dir = dir /\ s.mtime = time
  BY <1>1, <1>3, <1>4, <1>5
<1>7. start = time' \/ (start <= time /\ \E s \in segments : s.start = start)
  BY <1>2, <1>3, <1>5
<1>8. new.start = start /\ new.dir = dir /\ new.mtime = time'
  OBVIOUS
<1> WITNESS new
<1> HIDE DEF new
<1>9. new = [start |-> new.start, dir |-> new.dir, mtime |-> time']
  BY <1>8 DEF new
<1> QED BY <1>1, <1>6, <1>7, <1>8, <1>9

LEMMA WritesKeeps == ASSUME RecInv, Passes, recorder.proc = "runs" PROVE RecInv'
<1>1. PICK new :
           /\ new = [start |-> new.start, dir |-> new.dir, mtime |-> time']
           /\ segments' = {s \in segments : s.start # new.start} \cup {new}
           /\ recorder' = [recorder EXCEPT !.writing = new.start]
           /\ \A s \in segments : /\ s.start <= new.start
                                  /\ s.start = new.start => s.dir = new.dir /\ s.mtime = time
           /\ \/ new.start = time'
              \/ new.start <= time /\ \E s \in segments : s.start = new.start
  BY Writes
<1>2. /\ time' = time + 1 /\ time \in Nat /\ time' \in Nat /\ UNCHANGED <<minder, clips, spoilt>>
      /\ minder.at \in Nat /\ minder.at <= time
  BY RecFacts DEF Passes
<1>3. \A s \in segments : /\ s = [start |-> s.start, dir |-> s.dir, mtime |-> s.mtime]
                          /\ s.start \in Nat /\ s.mtime \in Nat /\ s.start <= s.mtime /\ s.mtime <= time
                          /\ \A t \in segments : s.start = t.start => s = t
  BY SegmentFacts
<1>4. new.start \in Nat /\ new.start <= time' /\ new.mtime = time' /\ new \in segments'
  BY <1>1, <1>2, <1>3
<1>5. \A s \in segments' : s = new \/ (s \in segments /\ s.start # new.start)
  BY <1>1
<1>6. \A s \in segments : s.start # new.start => s \in segments'
  BY <1>1
<1>7. SegmentsShape'
  <2>1. IsFiniteSet(segments')
    BY <1>1, RecFacts, FS_Subset, FS_AddElement
  <2>2. \A s \in segments' : /\ s = [start |-> s.start, dir |-> s.dir, mtime |-> s.mtime]
                             /\ s.start \in Nat /\ s.mtime \in Nat
                             /\ s.start <= s.mtime /\ s.mtime <= time'
    <3> SUFFICES ASSUME NEW s \in segments'
                 PROVE  /\ s = [start |-> s.start, dir |-> s.dir, mtime |-> s.mtime]
                        /\ s.start \in Nat /\ s.mtime \in Nat
                        /\ s.start <= s.mtime /\ s.mtime <= time'
      OBVIOUS
    <3>1. CASE s = new
      BY <1>1, <1>2, <1>4, <3>1
    <3>2. CASE s # new
      BY <1>2, <1>3, <1>5, <3>2
    <3> QED BY <3>1, <3>2
  <2>3. \A s, t \in segments' : s.start = t.start => s = t
    BY <1>3, <1>5
  <2> QED BY <2>1, <2>2, <2>3 DEF SegmentsShape
<1>8. /\ recorder' = [proc |-> recorder'.proc, day |-> recorder'.day, writing |-> recorder'.writing]
      /\ recorder'.proc = "runs" /\ recorder'.writing = new.start
  <2>1. recorder = [proc |-> recorder.proc, day |-> recorder.day, writing |-> recorder.writing]
        /\ recorder.proc = "runs"
    BY DEF RecInv, RecShape, Passes
  <2> QED BY <1>1, <2>1
<1>9. RecShape'
  BY <1>2, <1>4, <1>7, <1>8 DEF RecInv, RecShape
<1>10. OpenIsLast'
  <2>1. \A s \in segments' : s.start <= new.start /\ (s.start = new.start => s.mtime = time')
    BY <1>1, <1>4, <1>5
  <2> QED BY <1>4, <1>8, <2>1 DEF OpenIsLast, Going
\* The new file is young, and stands for the one it takes the place of.
<1>11. /\ Skips(new)' /\ ~Beyond(new)'
       /\ \A s : Skips(s)' = Skips(s) /\ Beyond(s)' = Beyond(s) /\ Queued(s)' = Queued(s)
  <2>1. MinAge \in Nat /\ Retention \in Nat
    BY RecConstants
  <2>2. minder'.at - new.mtime < 0 /\ minder'.at \in Nat /\ new.mtime \in Nat /\ minder'.at < new.mtime
    BY <1>2, <1>4
  <2>3. minder'.at - new.mtime < MinAge /\ ~(new.mtime < minder'.at - Retention)
    BY <2>1, <2>2
  <2>4. minder' = minder
    BY <1>2
  <2> QED BY <2>3, <2>4 DEF Skips, Beyond, Queued
<1>12. Fenced = {s \in segments : s.dir = Day(s.start)}
       /\ Fenced' = {s \in segments' : s.dir = Day(s.start)}
  BY DEF Fenced, Day
<1>13. \A s \in Fenced' : s = new \/ (s \in Fenced /\ s.start # new.start)
  BY <1>5, <1>12
<1>14. \A s \in Fenced : IF s.start = new.start THEN new \in Fenced' /\ ~Beyond(s) ELSE s \in Fenced'
  <2> SUFFICES ASSUME NEW s \in Fenced
               PROVE  IF s.start = new.start THEN new \in Fenced' /\ ~Beyond(s) ELSE s \in Fenced'
    OBVIOUS
  <2>1. s \in segments /\ s.dir = Day(s.start)
    BY <1>12
  <2>2. CASE s.start = new.start
    <3>1. s.dir = new.dir /\ s.mtime = time
      BY <1>1, <2>1, <2>2
    <3>2. ~Beyond(s)
      BY <1>2, <3>1, RecConstants DEF Beyond
    <3> QED BY <1>4, <1>12, <2>1, <2>2, <3>1, <3>2
  <2>3. CASE s.start # new.start
    BY <1>6, <1>12, <2>1, <2>3
  <2> QED BY <2>2, <2>3
<1>15. \A s \in Past' : s = new \/ (s \in Past /\ s.start # new.start)
  BY <1>2, <1>13 DEF Past
<1>16. Cardinality(Past') <= Cardinality(Past)
  <2>1. CASE new \notin Past'
    <3>1. Past' \subseteq Past
      BY <1>15, <2>1
    <3> QED BY <3>1, RecFacts, FS_Subset
  <2>2. CASE new \in Past'
    <3>1. new.start <= minder.at /\ new.dir = Day(new.start)
      BY <1>2, <1>12, <2>2 DEF Past
    <3>2. PICK o \in segments : o.start = new.start
      BY <1>1, <1>2, <3>1
    <3>3. o \in Past
      BY <1>1, <1>12, <3>1, <3>2 DEF Past
    <3>4. Past' \subseteq (Past \ {o}) \cup {new}
      BY <1>15, <3>2
    <3>5. IsFiniteSet(Past) /\ IsFiniteSet(Past \ {o}) /\ Cardinality(Past \ {o}) = Cardinality(Past) - 1
          /\ Cardinality(Past) \in Nat
      BY <3>3, RecFacts, FS_RemoveElement
    <3>6. IsFiniteSet((Past \ {o}) \cup {new}) /\ Cardinality((Past \ {o}) \cup {new}) <= Cardinality(Past)
      <4> DEFINE P == Past \ {o}
      <4>1. IsFiniteSet(P \cup {new}) /\ (Cardinality(P \cup {new}) = Cardinality(P)
               \/ Cardinality(P \cup {new}) = Cardinality(P) + 1)
        <5> HIDE DEF P
        <5>1. IsFiniteSet(P)
          BY <3>5 DEF P
        <5>2. CASE new \in P
          <6>1. P \cup {new} = P
            BY <5>2
          <6> QED BY <5>1, <6>1
        <5>3. CASE new \notin P
          BY <5>1, <5>3, FS_AddElement
        <5> QED BY <5>2, <5>3
      <4> QED BY <3>5, <4>1
    <3>7. Cardinality(Past') <= Cardinality((Past \ {o}) \cup {new}) /\ Cardinality(Past') \in Nat
          /\ Cardinality((Past \ {o}) \cup {new}) \in Nat
      BY <3>4, <3>6, FS_Subset, FS_CardinalityType
    <3> QED BY <3>5, <3>6, <3>7
  <2> QED BY <2>1, <2>2
<1>17. QueueFits'
  <2> SUFFICES ASSUME Cleaning PROVE QueueFits'
    BY <1>2 DEF QueueFits, Cleaning
  <2>1. \A i \in 1..Len(minder.queue) : \E s \in Fenced' : s.start = minder.queue[i]
    <3> SUFFICES ASSUME NEW i \in 1..Len(minder.queue) PROVE \E s \in Fenced' : s.start = minder.queue[i]
      OBVIOUS
    <3>1. PICK s \in Fenced : s.start = minder.queue[i]
      BY DEF RecInv, QueueFits
    <3> QED BY <1>14, <3>1
  <2>2. \A i, j \in 1..Len(minder.queue) : i < j => minder.queue[i] # minder.queue[j]
    BY DEF RecInv, QueueFits
  <2>3. \A s \in Fenced' : s.start = recorder'.writing => s.mtime > minder'.at
    BY <1>2, <1>4, <1>8, <1>13
  <2>4. minder'.queue = minder.queue
    BY <1>2
  <2> QED BY <2>1, <2>2, <2>3, <2>4 DEF QueueFits
<1>18. AgeFits'
  <2>1. minder'.pc \in {"protect", "age"} => minder'.total = 0
    BY <1>2 DEF RecInv, AgeFits
  <2>2. ASSUME minder.pc = "age"
        PROVE  \A i, j \in 1..Len(minder.queue) : \A x, t \in Fenced' :
                 i < j /\ x.start = minder.queue[i] /\ t.start = minder.queue[j] /\ Beyond(t) => Beyond(x)
    <3> SUFFICES ASSUME NEW i \in 1..Len(minder.queue), NEW j \in 1..Len(minder.queue),
                        NEW x \in Fenced', NEW t \in Fenced', i < j, x.start = minder.queue[i],
                        t.start = minder.queue[j], Beyond(t)
                 PROVE  Beyond(x)
      OBVIOUS
    <3>1. t \in Fenced
      BY <1>11, <1>13
    <3>2. PICK o \in Fenced : o.start = minder.queue[i]
      BY <2>2 DEF RecInv, QueueFits, Cleaning
    <3>3. Beyond(o)
      BY <2>2, <3>1, <3>2 DEF RecInv, AgeFits
    <3>4. o.start # new.start
      BY <1>14, <3>3
    <3>5. x \in Fenced
      BY <1>13, <3>2, <3>4
    <3>6. x = o
      BY <1>3, <1>12, <3>2, <3>5
    <3> QED BY <3>3, <3>6
  <2>3. minder.pc = "age" /\ ~minder.failed => \A s \in Past' : Skips(s)' \/ Queued(s)'
    BY <1>11, <1>15 DEF RecInv, AgeFits
  <2> QED BY <1>2, <1>11, <2>1, <2>2, <2>3 DEF AgeFits
<1>19. CapacityFits'
  <2> SUFFICES ASSUME minder.pc = "capacity"
               PROVE  /\ Cardinality(Past') <= minder.total
                      /\ ~minder.failed => \A s \in Past' : (Skips(s)' \/ Queued(s)') /\ (Beyond(s)' => Skips(s)')
    BY <1>2 DEF CapacityFits
  <2>1. /\ Cardinality(Past) <= minder.total
        /\ ~minder.failed => \A s \in Past : (Skips(s) \/ Queued(s)) /\ (Beyond(s) => Skips(s))
    BY DEF RecInv, CapacityFits
  <2>2. Cardinality(Past') \in Nat
    <3>1. IsFiniteSet(segments') /\ Past' \subseteq segments'
      BY <1>7, <1>12 DEF SegmentsShape, Past
    <3> QED BY <3>1, FS_Subset, FS_CardinalityType
  <2> QED BY <1>11, <1>15, <1>16, <2>1, <2>2, RecFacts
<1>20. RoundFits'
  <2> SUFFICES ASSUME minder.pc = "reviews", ~minder.failed
               PROVE  /\ \A s \in Past' : Beyond(s)' => Skips(s)'
                      /\ Cardinality(Past') <= Capacity \/ \A s \in Past' : Skips(s)'
    BY <1>2 DEF RoundFits
  <2>1. /\ \A s \in Past : Beyond(s) => Skips(s)
        /\ Cardinality(Past) <= Capacity \/ \A s \in Past : Skips(s)
    BY DEF RecInv, RoundFits
  <2>2. Cardinality(Past') \in Nat
    <3>1. IsFiniteSet(segments') /\ Past' \subseteq segments'
      BY <1>7, <1>12 DEF SegmentsShape, Past
    <3> QED BY <3>1, FS_Subset, FS_CardinalityType
  <2> QED BY <1>11, <1>15, <1>16, <2>1, <2>2, RecFacts, RecConstants
<1>21. ClipsFit'
  <2>1. \A x \in Reviews : AtWork(x)' = AtWork(x) /\ Until(x) \in Nat /\ From(x) \in Int
    BY <1>2, RecConstants DEF AtWork
  <2>2. minder'.pc \in {"cut", "register"} => minder'.todo # <<>> /\ Until(Head(minder'.todo)) <= time'
    <3> SUFFICES ASSUME minder.pc \in {"cut", "register"} PROVE Until(Head(minder.todo)) <= time'
      BY <1>2 DEF RecInv, ClipsFit
    <3>1. Head(minder.todo) \in Reviews /\ Until(Head(minder.todo)) <= time
      BY ReviewAtHand
    <3> QED BY <1>2, <2>1, <3>1
  <2>3. \A x \in Reviews : clips'[x].row # "none" \/ AtWork(x)' =>
          /\ Until(x) <= time'
          /\ \A s \in segments' : s.start < Until(x) /\ s.start + SegmentLength > From(x)
                => s.start \in clips'[x].cut
          /\ clips'[x].file = "good" \/ x \in spoilt'
    <3> SUFFICES ASSUME NEW x \in Reviews, clips[x].row # "none" \/ AtWork(x)
                 PROVE  /\ Until(x) <= time'
                        /\ \A s \in segments' : s.start < Until(x) /\ s.start + SegmentLength > From(x)
                              => s.start \in clips[x].cut
                        /\ clips[x].file = "good" \/ x \in spoilt
      BY <1>2, <2>1
    <3>1. /\ Until(x) <= time
          /\ \A s \in segments : s.start < Until(x) /\ s.start + SegmentLength > From(x)
                => s.start \in clips[x].cut
          /\ clips[x].file = "good" \/ x \in spoilt
      BY DEF RecInv, ClipsFit
    <3>2. new.start < Until(x) => \E s \in segments : s.start = new.start
      BY <1>1, <1>2, <2>1, <3>1
    <3>3. \A s \in segments' : s.start < Until(x) => \E t \in segments : t.start = s.start
      BY <1>5, <3>2
    <3> QED BY <1>2, <2>1, <3>1, <3>3
  <2>4. \A x \in Reviews : clips'[x].row \notin {"none", "available"} => x \in spoilt'
    BY <1>2 DEF RecInv, ClipsFit
  <2> QED BY <2>2, <2>3, <2>4 DEF ClipsFit, From, Until
<1> QED BY <1>9, <1>10, <1>17, <1>18, <1>19, <1>20, <1>21 DEF RecInv

LEMMA PassesKeeps == ASSUME RecInv, Passes PROVE RecInv'
<1>1. CASE recorder.proc = "runs"
  BY <1>1, WritesKeeps
<1>2. CASE recorder.proc # "runs"
  <2>1. /\ time' = time + 1 /\ time \in Nat /\ time' \in Nat
        /\ UNCHANGED <<recorder, segments, minder, clips, spoilt>>
    BY <1>2, RecFacts DEF Passes
  <2>2. SegmentsShape'
    <3>1. \A s \in segments' : /\ s = [start |-> s.start, dir |-> s.dir, mtime |-> s.mtime]
                               /\ s.start \in Nat /\ s.mtime \in Nat
                               /\ s.start <= s.mtime /\ s.mtime <= time'
      BY <2>1, SegmentFacts
    <3> QED BY <2>1, <3>1 DEF RecInv, RecShape, SegmentsShape
  <2>3. minder.at \in Nat /\ minder.at <= time'
    BY <2>1, RecFacts
  <2>4. RecShape'
    BY <2>1, <2>2, <2>3 DEF RecInv, RecShape
  <2>5. OpenIsLast'
    <3>1. recorder.writing \in Int
      BY DEF RecInv, RecShape
    <3> QED BY <1>2, <2>1, <3>1 DEF RecInv, OpenIsLast, Going
  <2>6. QueueFits' /\ AgeFits' /\ CapacityFits' /\ RoundFits'
    BY <2>1 DEF RecInv, QueueFits, Going, Cleaning, AgeFits, CapacityFits, RoundFits, Beyond, Skips, Queued,
                Fenced, Past
  <2>7. ClipsFit'
    <3>1. \A x \in Reviews : AtWork(x)' = AtWork(x) /\ Until(x) \in Nat
      BY <2>1, RecConstants DEF AtWork
    <3>2. minder'.pc \in {"cut", "register"} => minder'.todo # <<>> /\ Until(Head(minder'.todo)) <= time'
      <4> SUFFICES ASSUME minder.pc \in {"cut", "register"} PROVE Until(Head(minder.todo)) <= time'
        BY <2>1 DEF RecInv, ClipsFit
      <4>1. Head(minder.todo) \in Reviews /\ Until(Head(minder.todo)) <= time
        BY ReviewAtHand
      <4> QED BY <2>1, <3>1, <4>1
    <3>3. \A x \in Reviews : clips'[x].row # "none" \/ AtWork(x)' =>
            /\ Until(x) <= time'
            /\ \A s \in segments' : s.start < Until(x) /\ s.start + SegmentLength > From(x)
                  => s.start \in clips'[x].cut
            /\ clips'[x].file = "good" \/ x \in spoilt'
      BY <2>1, <3>1 DEF RecInv, ClipsFit
    <3>4. \A x \in Reviews : clips'[x].row \notin {"none", "available"} => x \in spoilt'
      BY <2>1 DEF RecInv, ClipsFit
    <3> QED BY <3>2, <3>3, <3>4 DEF ClipsFit, From, Until
  <2> QED BY <2>4, <2>5, <2>6, <2>7 DEF RecInv
<1> QED BY <1>1, <1>2

LEMMA RecStep == ASSUME RecInv, RecordingNext PROVE RecInv'
<1>1. ASSUME NEW fails \in BOOLEAN, CleanNext(fails) PROVE RecInv'
  BY <1>1, CleanNextKeeps
<1>2. ASSUME NEW r \in Reviews, ReadClip(r) PROVE RecInv'
  BY <1>2, ReadClipKeeps
<1>3. ASSUME NEW r \in Reviews, NEW how \in {"none", "bad"}, HarmClip(r, how) PROVE RecInv'
  BY <1>3, HarmClipKeeps
<1>4. ASSUME NEW how \in {"hangs", "dead"}, FfmpegFails(how) PROVE RecInv'
  BY <1>4, FfmpegFailsKeeps
<1> QED BY <1>1, <1>2, <1>3, <1>4, PassesKeeps, MaintainKeeps, RecorderFailsKeeps, ProtectKeeps,
           BeginCapacityKeeps, EndCapacityKeeps, ListReviewsKeeps, ExportKeeps, CutKeeps, RegisterKeeps,
           ExportFailsKeeps, RecorderCrashKeeps
        DEF RecordingNext

LEMMA RecStutter == ASSUME RecInv, UNCHANGED recvars PROVE RecInv'
<1>1. UNCHANGED <<time, recorder, segments, minder, clips, spoilt>>
  BY DEF recvars
<1>2. SegmentsShape' /\ Fenced' = Fenced /\ Past' = Past
  BY <1>1 DEF RecInv, RecShape, SegmentsShape, Fenced, Past
<1>3. RecShape' /\ OpenIsLast'
  BY <1>1, <1>2 DEF RecInv, RecShape, OpenIsLast, Going
<1>4. QueueFits' /\ AgeFits' /\ CapacityFits' /\ RoundFits'
  BY <1>1, <1>2 DEF RecInv, QueueFits, Going, Cleaning, AgeFits, CapacityFits, RoundFits, Beyond, Skips, Queued
<1>5. ClipsFit'
  BY <1>1 DEF RecInv, ClipsFit, AtWork, From, Until
<1> QED BY <1>3, <1>4, <1>5 DEF RecInv

LEMMA RecordingsFollow == ASSUME RecInv PROVE RecordingsHonest
<1>1. OpenSegmentKept
  BY DEF OpenSegmentKept, RecInv, OpenIsLast, Going
<1>2. CleanedUp
  BY DEF CleanedUp, RecInv, RoundFits, Past, Beyond
<1>3. ClipWhole
  BY DEF ClipWhole, RecInv, ClipsFit
<1> QED BY <1>1, <1>2, <1>3 DEF RecordingsHonest

\* The recordings of any camera, for every length of a segment and of a day, retention,
\* age and capacity, every set of reviews and every number of faults: the segment ffmpeg
\* writes is never removed, a round in which nothing failed leaves nothing behind that it
\* should have removed, and a clip that has its row is whole, or was harmed from outside.
THEOREM RecordingsStayHonest == RecordingSpec => []RecordingsHonest
<1>1. RecordingSpec => []RecInv
  BY RecordingBegin, RecStep, RecStutter, PTL DEF RecordingSpec
<1>2. RecInv => RecordingsHonest
  BY RecordingsFollow
<1> QED BY <1>1, <1>2, PTL

-------------------------------------------------------------------------------
(* The parts together. *)

\* Whatever is kept of a camera is what it was said to be, in every behaviour in which each
\* part does what its own module says, however their steps fall together.
THEOREM RecordsStayKept == RecordsSpec => []RecordsKept
  BY UnderstandingStaysKept, FramesStayHonest, BaselinesStayHonest, ReviewsStayHonest,
     RecordingsStayHonest, PTL
     DEF RecordsSpec, RecordsKept
================================================================================
