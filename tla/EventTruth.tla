------------------------------ MODULE EventTruth ------------------------------
(***************************************************************************)
(* The life of an event fact: one camera's Monitor (monitor.py) writing    *)
(* through SqliteSink (sinks.py) into the SQLite tables of db.py, with the *)
(* boot-time recovery and backfill of nvr.py, the semantic updater's       *)
(* publication and the workbench's receipts on connections of their own.   *)
(*                                                                         *)
(* Every action of the camera thread is at most one committed transaction, *)
(* so that a crash or another connection can fall between any two commits  *)
(* of a handler; pc is the call it makes next.  The outcome of a write is  *)
(* a member of Results.                                                    *)
(***************************************************************************)
EXTENDS Naturals, Sequences, FiniteSets

CONSTANTS
    Tracks,     \* the tracker's identities within one run of the process
    MaxRuns,    \* bound: number of process starts
    MaxOcc,     \* bound: appearances of one track, i.e. events per track
    MaxTime,    \* bound: the clock
    MaxDesc,    \* bound: description versions of one event
    Grace       \* startup_grace_s: 0 for linux-nvr, positive for win11

ASSUME BoundsAssumption ==
    /\ MaxRuns \in Nat \ {0}
    /\ MaxOcc \in Nat \ {0}
    /\ MaxTime \in Nat
    /\ MaxDesc \in Nat
    /\ Grace \in Nat

VARIABLES
    (* the database *)
    obj,        \* tracked_objects: per <<run, track>> none, open or closed
    fact,       \* event_facts.state; recovered is closed by boot recovery
    tLast,      \* event_facts.t_last
    tEnd,       \* event_facts.t_end, meaningful once the row is closed
    desc,       \* event_descriptions: the source of version 1, 2, ...
    notif,      \* event_notifications(initial_fact).state
    (* the process *)
    up,         \* the process is running
    run,        \* how often it has started: the run_id
    now,        \* the clock
    trk,        \* Tracker: new, live (confirmed) or gone, per track of this run
    occ,        \* Monitor._event_occurrence
    entry,      \* Monitor._event_facts[track].state, none when absent
    born,       \* entry t_start, per event
    last,       \* entry["last"].t_last, per event: the last credible observation
    pend,       \* Monitor._event_close_pending: the next stage of each item
    pc,         \* the sink call the camera thread is about to make
    closing,    \* tracks the loop of on_stream_lost / close_all still has to close
    stopping,   \* close_all_event_facts has begun: no more frames
    snap        \* snapshot_pending_recovery: rows left for the delayed review

db == <<obj, fact, tLast, tEnd, desc, notif>>
mem == <<trk, occ, entry, born, last, pend, pc, closing, stopping, snap>>
vars == <<obj, fact, tLast, tEnd, desc, notif, up, run, now,
          trk, occ, entry, born, last, pend, pc, closing, stopping, snap>>

Runs == 1 .. MaxRuns
Occs == 1 .. MaxOcc
Times == 0 .. MaxTime
Objects == Runs \X Tracks
Events == Runs \X Tracks \X Occs

ObjectOf(e) == <<e[1], e[2]>>
\* _event_fact_id: camera:run:event:track, with the occurrence from the 2nd on
EventOf(t) == <<run, t, occ[t]>>
\* a row of the startup snapshot: the event and its t_last then
Snapshots == Events \X Times
\* e is the event the entry of its track stands for
Current(e) == e[1] = run /\ entry[e[2]] # "none" /\ e[3] = occ[e[2]]

\* A write commits and returns, raises with nothing committed, or raises and
\* commits all the same (commit() fails, a later commit on this connection
\* takes the open transaction with it).
Results == {"done", "failed", "torn"}
Wrote(r) == r # "failed"
Ok(r) == r = "done"

NoTask == [op |-> "idle"]
Task(op, e) == [op |-> op, ev |-> e]
Tasks == [op : {"fact", "desc", "notif", "update", "close"}, ev : Events]
Idle == up /\ pc = NoTask
\* the thread is between two frames: no loop of closings in progress
Ready == Idle /\ closing = {}

Later(a, b) == IF a >= b THEN a ELSE b
Paired(e) == desc[e] # <<>> /\ notif[e] # "none"
Closed(e) == fact[e] \in {"closed", "recovered"}

StoreTypeOK ==
    /\ obj \in [Objects -> {"none", "open", "closed"}]
    /\ fact \in [Events -> {"none", "open", "closed", "recovered"}]
    /\ tLast \in [Events -> Times]
    /\ tEnd \in [Events -> Times]
    /\ desc \in [Events -> Seq({"initial_observation", "vlm"})]
    /\ notif \in [Events -> {"none", "generated", "available", "acknowledged"}]

ThreadTypeOK ==
    /\ up \in BOOLEAN
    /\ run \in 0 .. MaxRuns
    /\ up => run \in Runs
    /\ now \in Times
    /\ trk \in [Tracks -> {"new", "live", "gone"}]
    /\ occ \in [Tracks -> 0 .. MaxOcc]
    /\ entry \in [Tracks -> {"none", "pending-object", "pending-open", "open"}]
    /\ closing \subseteq Tracks
    /\ stopping \in BOOLEAN

ItemsTypeOK ==
    /\ born \in [Events -> Times]
    /\ last \in [Events -> Times]
    /\ pend \in [Events -> {"no", "object", "open", "update", "close"}]
    /\ pc \in {NoTask} \cup Tasks
    /\ snap \subseteq Snapshots

TypeOK == StoreTypeOK /\ ThreadTypeOK /\ ItemsTypeOK

Init ==
    /\ obj = [o \in Objects |-> "none"]
    /\ fact = [e \in Events |-> "none"]
    /\ tLast = [e \in Events |-> 0]
    /\ tEnd = [e \in Events |-> 0]
    /\ desc = [e \in Events |-> <<>>]
    /\ notif = [e \in Events |-> "none"]
    /\ up = FALSE
    /\ run = 0
    /\ now = 0
    /\ trk = [t \in Tracks |-> "new"]
    /\ occ = [t \in Tracks |-> 0]
    /\ entry = [t \in Tracks |-> "none"]
    /\ born = [e \in Events |-> 0]
    /\ last = [e \in Events |-> 0]
    /\ pend = [e \in Events |-> "no"]
    /\ pc = NoTask
    /\ closing = {}
    /\ stopping = FALSE
    /\ snap = {}

(***************************************************************************)
(* Process start, recovery, crash and clock.                               *)
(***************************************************************************)
\* recover_stale_records closes the rows silent for the grace window at their
\* own t_last; snapshot_pending_recovery keeps the fresher ones for later.  Each
\* reads the clock for itself: a row whose grace runs out between the two
\* readings is too young for the one and too old for the other.
StaleBefore(e) == fact[e] = "open" /\ tLast[e] + Grace < now       \* mutant
Stale(e) == fact[e] = "open" /\ tLast[e] + Grace <= now
FreshAt(e, time) == fact[e] = "open" /\ tLast[e] + Grace > time

\* The t_last of an object is not modelled: with a grace window, any of the
\* open ones may be stale, and any may slip through between the readings.
OldObjects == {o \in Objects : obj[o] = "open" /\ o[1] < run}

Boot ==
    /\ ~up
    /\ run < MaxRuns
    /\ up' = TRUE
    /\ run' = run + 1
    /\ now' \in now .. MaxTime
    /\ \E kept \in SUBSET {o \in Objects : obj[o] = "open"} :
         /\ Grace = 0 => kept = {}
         /\ obj' = [o \in Objects |-> IF obj[o] = "open" /\ o \notin kept
                                        THEN "closed" ELSE obj[o]]
    /\ fact' = [e \in Events |-> IF Stale(e) THEN "recovered" ELSE fact[e]]
    /\ tEnd' = [e \in Events |-> IF Stale(e) THEN tLast[e] ELSE tEnd[e]]
    /\ snap' = {<<e, tLast[e]>> : e \in {x \in Events : FreshAt(x, now')}}
    /\ UNCHANGED <<tLast, desc, notif, trk, occ, entry, born, last, pend, pc,
                   closing, stopping>>

\* the one-shot recheck of the snapshot, by compare-and-swap on t_last, longer
\* than the grace window after the start; when it fails the rows wait for the
\* next start
RecheckDue == snap # {} /\ \A s \in snap : s[2] + Grace <= now
Unmoved(e) == fact[e] = "open" /\ <<e, tLast[e]>> \in snap

FinalizeRecovery(r) ==
    /\ up
    /\ RecheckDue
    /\ IF Wrote(r)
         THEN /\ fact' = [e \in Events |->
                            IF Unmoved(e) THEN "recovered" ELSE fact[e]]
              /\ tEnd' = [e \in Events |->
                            IF Unmoved(e) THEN tLast[e] ELSE tEnd[e]]
              /\ \E missed \in SUBSET OldObjects :
                   obj' = [o \in Objects |->
                             IF o \in OldObjects \ missed THEN "closed"
                                                          ELSE obj[o]]
         ELSE UNCHANGED <<fact, tEnd, obj>>
    /\ snap' = {}
    /\ UNCHANGED <<tLast, desc, notif, up, run, now, trk, occ, entry, born,
                   last, pend, pc, closing, stopping>>

\* mutant: a restarted camera thread finds the entries of the old one
ForgetButEntries ==
    /\ up' = FALSE
    /\ trk' = [t \in Tracks |-> "new"]
    /\ occ' = [t \in Tracks |-> 0]
    /\ pend' = [e \in Events |-> "no"]
    /\ pc' = NoTask
    /\ closing' = {}
    /\ stopping' = FALSE
    /\ snap' = {}
    /\ UNCHANGED <<obj, fact, tLast, tEnd, desc, notif, run, now, entry, born,
                   last>>

\* the memory of the process is gone; a new run has new track identities
Forget ==
    /\ up' = FALSE
    /\ trk' = [t \in Tracks |-> "new"]
    /\ occ' = [t \in Tracks |-> 0]
    /\ entry' = [t \in Tracks |-> "none"]
    /\ pend' = [e \in Events |-> "no"]
    /\ pc' = NoTask
    /\ closing' = {}
    /\ stopping' = FALSE
    /\ snap' = {}
    /\ UNCHANGED <<obj, fact, tLast, tEnd, desc, notif, run, now, born, last>>

Crash == up /\ Forget

Tick ==
    /\ now < MaxTime
    /\ now' = now + 1
    /\ UNCHANGED <<db, up, run, mem>>

(***************************************************************************)
(* One frame in which the tracker reports a confirmed track.               *)
(***************************************************************************)
Appear(t) ==
    /\ Ready /\ ~stopping
    /\ trk[t] = "new"
    /\ trk' = [trk EXCEPT ![t] = "live"]
    /\ UNCHANGED <<db, up, run, now, occ, entry, born, last, pend, pc,
                   closing, stopping, snap>>

\* observe_object; a closed row is left as it is, and the call succeeds
ObserveObject(o, r) ==
    obj' = IF Wrote(r) /\ obj[o] = "none" THEN [obj EXCEPT ![o] = "open"]
                                          ELSE obj

\* What _event_fact_step does with the entry before its first event write.
\* due: the retry interval of a pending-open entry has passed.
NextWriteBlind(state, ok, due) ==      \* mutant: does not wait for the object
    IF state = "open" THEN "update" ELSE IF due THEN "fact" ELSE "idle"

NextWrite(state, ok, due) ==
    IF state = "open" THEN "update"
    ELSE IF state = "pending-open" THEN IF due THEN "fact" ELSE "idle"
    ELSE IF ok THEN "fact" ELSE "idle"

EntryAfter(state, ok) ==
    IF state \in {"none", "pending-object"}
      THEN IF ok THEN "pending-open" ELSE "pending-object"
      ELSE state

Observe(t, r) ==
    /\ Ready /\ ~stopping
    /\ trk[t] = "live"
    /\ LET fresh == entry[t] = "none"
           o == IF fresh THEN occ[t] + 1 ELSE occ[t]
           e == <<run, t, o>>
       IN /\ o <= MaxOcc
          /\ ObserveObject(<<run, t>>, r)
          /\ occ' = [occ EXCEPT ![t] = o]
          /\ IF fresh
               THEN \E b \in 0 .. now : born' = [born EXCEPT ![e] = b]
               ELSE born' = born
          /\ last' = [last EXCEPT ![e] = now]
          /\ entry' = [entry EXCEPT ![t] = EntryAfter(entry[t], Ok(r))]
          /\ \E due \in BOOLEAN :
               LET op == NextWrite(entry[t], Ok(r), due)
               IN pc' = IF op = "idle" THEN NoTask ELSE Task(op, e)
    /\ UNCHANGED <<fact, tLast, tEnd, desc, notif, up, run, now, trk, pend,
                   closing, stopping, snap>>

(***************************************************************************)
(* The calls of a frame and of a retry, one transaction each.              *)
(***************************************************************************)
\* open_event_fact: the guard trigger refuses an event without its object,
\* and a closed row is not reopened; both report False
Establishes(e) == obj[ObjectOf(e)] # "none" /\ fact[e] \in {"none", "open"}

OpenFact(r) ==
    /\ up /\ pc.op = "fact"
    /\ LET e == pc.ev
           stored == Wrote(r) /\ Establishes(e)
       IN /\ fact' = IF stored THEN [fact EXCEPT ![e] = "open"] ELSE fact
          /\ tLast' = IF stored
                        THEN [tLast EXCEPT ![e] = Later(tLast[e], born[e])]
                        ELSE tLast
          /\ pc' = IF Ok(r) /\ Establishes(e) THEN Task("desc", e) ELSE NoTask
    /\ UNCHANGED <<obj, tEnd, desc, notif, up, run, now, trk, occ, entry,
                   born, last, pend, closing, stopping, snap>>

\* ensure_initial_description: INSERT OR IGNORE of version 1
WithInitialDescription(e) ==
    IF desc[e] = <<>> THEN [desc EXCEPT ![e] = <<"initial_observation">>]
                      ELSE desc

EnsureInitialDescription(r) ==
    /\ up /\ pc.op = "desc"
    /\ desc' = IF Wrote(r) THEN WithInitialDescription(pc.ev) ELSE desc
    /\ pc' = IF Ok(r) THEN Task("notif", pc.ev) ELSE NoTask
    /\ UNCHANGED <<obj, fact, tLast, tEnd, notif, up, run, now, trk, occ,
                   entry, born, last, pend, closing, stopping, snap>>

\* ensure_initial_notification: INSERT OR IGNORE of the one initial_fact.
\* An item goes on with its last observation; the mutant skips it.
WithInitialNotification(e) ==
    IF notif[e] = "none" THEN [notif EXCEPT ![e] = "generated"] ELSE notif

SkipUpdate(state) == IF state = "open" THEN "close" ELSE state      \* mutant
ItemOpened(state) == IF state = "open" THEN "update" ELSE state

EnsureInitialNotification(r) ==
    /\ up /\ pc.op = "notif"
    /\ LET e == pc.ev
       IN /\ notif' = IF Wrote(r) THEN WithInitialNotification(e) ELSE notif
          /\ pend' = IF Ok(r) THEN [pend EXCEPT ![e] = ItemOpened(pend[e])]
                              ELSE pend
          /\ pc' = IF Ok(r) /\ pend[e] = "no" THEN Task("update", e)
                                             ELSE NoTask
    /\ UNCHANGED <<obj, fact, tLast, tEnd, desc, up, run, now, trk, occ,
                   entry, born, last, closing, stopping, snap>>

\* update_event_fact: only while the row is open.  It turns the entry into a
\* stored fact, or back into one that has to be written again.
EntryStaysOpen(good) == "open"                                    \* mutant
EntryOnUpdate(good) == IF good THEN "open" ELSE "pending-open"

UpdateFact(r) ==
    /\ up /\ pc.op = "update"
    /\ LET e == pc.ev
           held == fact[e] = "open"
           good == Ok(r) /\ held
       IN /\ tLast' = IF Wrote(r) /\ held
                        THEN [tLast EXCEPT ![e] = Later(tLast[e], last[e])]
                        ELSE tLast
          /\ IF pend[e] = "no"
               THEN /\ entry' = [entry EXCEPT ![e[2]] = EntryOnUpdate(good)]
                    /\ UNCHANGED pend
               ELSE /\ pend' = IF good THEN [pend EXCEPT ![e] = "close"]
                                       ELSE pend
                    /\ UNCHANGED entry
    /\ pc' = NoTask
    /\ UNCHANGED <<obj, fact, tEnd, desc, notif, up, run, now, trk, occ,
                   born, last, closing, stopping, snap>>

\* close_event_fact: t_end is the t_last of the row.  The entry is popped
\* before the call; what did not close stays on the list.
ForgetUnclosed(closed) == "no"                                    \* mutant
ItemOnClose(closed) == IF closed THEN "no" ELSE "close"

CloseFact(r) ==
    /\ up /\ pc.op = "close"
    /\ LET e == pc.ev
           held == fact[e] = "open"
       IN /\ fact' = IF Wrote(r) /\ held THEN [fact EXCEPT ![e] = "closed"]
                                         ELSE fact
          /\ tEnd' = IF Wrote(r) /\ held THEN [tEnd EXCEPT ![e] = tLast[e]]
                                         ELSE tEnd
          /\ pend' = [pend EXCEPT ![e] = ItemOnClose(Ok(r) /\ held)]
    /\ pc' = NoTask
    /\ UNCHANGED <<obj, tLast, desc, notif, up, run, now, trk, occ, entry,
                   born, last, closing, stopping, snap>>

(***************************************************************************)
(* The end of an event.                                                    *)
(***************************************************************************)
\* _close_event_fact: a stored event is closed at once, one still to be
\* written becomes an item with everything needed to write it
EndEvent(t) ==
    LET e == EventOf(t)
    IN /\ entry' = [entry EXCEPT ![t] = "none"]
       /\ pc' = IF entry[t] = "open" THEN Task("close", e) ELSE NoTask
       /\ pend' = IF entry[t] \in {"pending-object", "pending-open"}
                    THEN [pend EXCEPT ![e] = "object"] ELSE pend

\* track-lost, and the detection-lost watchdog: the object row is closed
\* without a look at the result, then the event
TrackLost(t, r) ==
    /\ Ready /\ ~stopping
    /\ trk[t] = "live"
    /\ trk' = [trk EXCEPT ![t] = "gone"]
    /\ LET o == <<run, t>>
       IN obj' = IF Wrote(r) /\ obj[o] = "open"
                   THEN [obj EXCEPT ![o] = "closed"] ELSE obj
    /\ EndEvent(t)
    /\ UNCHANGED <<fact, tLast, tEnd, desc, notif, up, run, now, occ, born,
                   last, closing, stopping, snap>>

\* on_stream_lost past its grace: every open event ends, the tracks live on
StreamLost ==
    /\ Ready /\ ~stopping
    /\ closing' = {t \in Tracks : entry[t] # "none"}
    /\ closing' # {}
    /\ UNCHANGED <<db, up, run, now, trk, occ, entry, born, last, pend, pc,
                   stopping, snap>>

\* close_all_event_facts, when the camera thread leaves
Stop ==
    /\ Ready /\ ~stopping
    /\ stopping' = TRUE
    /\ closing' = {t \in Tracks : entry[t] # "none"}
    /\ UNCHANGED <<db, up, run, now, trk, occ, entry, born, last, pend, pc,
                   snap>>

CloseNext(t) ==
    /\ Idle
    /\ t \in closing
    /\ closing' = closing \ {t}
    /\ EndEvent(t)
    /\ UNCHANGED <<db, up, run, now, trk, occ, born, last, stopping, snap>>

\* after the last forced retry; what is left on the list is reported unsaved
Exit == Ready /\ stopping /\ Forget

(***************************************************************************)
(* _retry_one_event_close: object, event, last observation, closing, each  *)
(* stage kept once it is done.  A stage the call reaches and fails at is   *)
(* where the next call resumes, so that the stages of one call and of      *)
(* several are the same steps.                                             *)
(***************************************************************************)
RetryObserve(e, r) ==
    /\ Ready
    /\ pend[e] = "object"
    /\ obj[ObjectOf(e)] = "none"
    /\ ObserveObject(ObjectOf(e), r)
    /\ UNCHANGED <<fact, tLast, tEnd, desc, notif, up, run, now, mem>>

RetryObject(e, r) ==
    /\ Ready
    /\ pend[e] = "object"
    /\ obj[ObjectOf(e)] # "none"
    /\ obj' = IF Wrote(r) THEN [obj EXCEPT ![ObjectOf(e)] = "closed"] ELSE obj
    /\ pend' = IF Ok(r) THEN [pend EXCEPT ![e] = "open"] ELSE pend
    /\ UNCHANGED <<fact, tLast, tEnd, desc, notif, up, run, now, trk, occ,
                   entry, born, last, pc, closing, stopping, snap>>

NoRetryOfClose(e) == pend[e] \in {"open", "update"}                \* mutant
EventStage(e) == pend[e] \in {"open", "update", "close"}

RetryEvent(e) ==
    /\ Ready
    /\ EventStage(e)
    /\ pc' = Task(IF pend[e] = "open" THEN "fact" ELSE pend[e], e)
    /\ UNCHANGED <<db, up, run, now, trk, occ, entry, born, last, pend,
                   closing, stopping, snap>>

(***************************************************************************)
(* Connections other than the camera thread's.                             *)
(***************************************************************************)
\* backfill_initial_fact_pairs for one event: the rows that miss a version 1
\* or an initial_fact; its two inserts commit one by one
Missing(e) == fact[e] # "none" /\ (desc[e] = <<>> \/ notif[e] = "none")

BackfillDescription(e) ==
    /\ up
    /\ Missing(e)
    /\ desc' = WithInitialDescription(e)
    /\ UNCHANGED <<obj, fact, tLast, tEnd, notif, up, run, now, mem>>

BackfillNotification(e) ==
    /\ up
    /\ Missing(e) /\ desc[e] # <<>>
    /\ notif' = WithInitialNotification(e)
    /\ UNCHANGED <<obj, fact, tLast, tEnd, desc, up, run, now, mem>>

\* publish_semantic_update appends version MAX + 1, whatever that is
PublishSemanticUpdate(e) ==
    /\ up
    /\ fact[e] # "none"
    /\ Len(desc[e]) < MaxDesc
    /\ desc' = [desc EXCEPT ![e] = Append(@, "vlm")]
    /\ UNCHANGED <<obj, fact, tLast, tEnd, notif, up, run, now, mem>>

AnyReceipt(e) == notif[e] # "none"                                \* mutant
Unread(e) == notif[e] = "generated"

MarkAvailable(e) ==
    /\ up
    /\ Unread(e)
    /\ notif' = [notif EXCEPT ![e] = "available"]
    /\ UNCHANGED <<obj, fact, tLast, tEnd, desc, up, run, now, mem>>

Acknowledge(e) ==
    /\ up
    /\ notif[e] \in {"generated", "available"}
    /\ notif' = [notif EXCEPT ![e] = "acknowledged"]
    /\ UNCHANGED <<obj, fact, tLast, tEnd, desc, up, run, now, mem>>

(***************************************************************************)
(* The specification.                                                      *)
(***************************************************************************)
Process == Boot \/ Crash \/ Exit \/ \E r \in Results : FinalizeRecovery(r)

Frame ==
    \E t \in Tracks :
      \/ Appear(t)
      \/ CloseNext(t)
      \/ \E r \in Results : Observe(t, r) \/ TrackLost(t, r)

CallWith(r) ==
    \/ OpenFact(r)
    \/ EnsureInitialDescription(r)
    \/ EnsureInitialNotification(r)
    \/ UpdateFact(r)
    \/ CloseFact(r)

Call == \E r \in Results : CallWith(r)

Retry ==
    \E e \in Events :
      \/ RetryEvent(e)
      \/ \E r \in Results : RetryObserve(e, r) \/ RetryObject(e, r)

Others ==
    \E e \in Events :
      \/ BackfillDescription(e)
      \/ BackfillNotification(e)
      \/ PublishSemanticUpdate(e)
      \/ MarkAvailable(e)
      \/ Acknowledge(e)

Next == Process \/ Tick \/ Frame \/ StreamLost \/ Stop \/ Call \/ Retry \/ Others

Spec == Init /\ [][Next]_vars

\* The calls of a step are made one after the other, every frame and every
\* failed read retries the list, and a thread that stops comes to its end.
\* Frames, the clock, starts, crashes and the other connections are under no
\* obligation.  The store may fail at will, but not for ever.
On(e) == pc # NoTask /\ pc.ev = e

RetryStep(e) ==
    RetryEvent(e) \/ RetryObserve(e, "done") \/ RetryObject(e, "done")

WriteStep(r) ==
    \/ CallWith(r)
    \/ \E e \in Events : RetryObserve(e, r) \/ RetryObject(e, r)

\* a step that only a failing write can make
Fault == WriteStep("failed") \/ WriteStep("torn")
FaultFree == WriteStep("done") \/ ~Fault

Fairness ==
    /\ WF_vars(CallWith("done"))
    /\ \A t \in Tracks : WF_vars(CloseNext(t))
    /\ \A e \in Events : SF_vars(RetryStep(e))
    /\ SF_vars(Exit)
    /\ <>[][FaultFree]_vars

FairSpec == Spec /\ Fairness

(***************************************************************************)
(* What the camera thread and the store promise.                           *)
(***************************************************************************)
\* the events this run has seen begin
Seen(e) == up /\ e[1] = run /\ e[3] <= occ[e[2]]
Ended(e) == Seen(e) /\ ~Current(e)

\* persistence_state: not degraded as far as event facts are concerned
Healthy ==
    /\ \A t \in Tracks : entry[t] \in {"none", "open"}
    /\ \A e \in Events : pend[e] = "no"

StoredOpen(e) == fact[e] = "open" /\ tLast[e] = last[e] /\ Paired(e)
StoredClosed(e) == fact[e] = "closed" /\ tEnd[e] = last[e] /\ Paired(e)

\* A camera thread that reports no degradation has every event of its run in
\* the store: the current ones open and up to date, the ended ones closed at
\* their last observation, all with their description and notification.
HealthyIsStored ==
    Ready /\ Healthy =>
      \A e \in Events : Seen(e) =>
        IF Current(e) THEN StoredOpen(e) ELSE StoredClosed(e)

\* An open row of this run always has somebody who will close it: the entry
\* of its track, an item of the retry list, or the call being made.
NoOrphanOpen ==
    \A e \in Events :
      up /\ e[1] = run /\ fact[e] = "open" =>
        Current(e) \/ pend[e] # "no" \/ On(e)

\* A closed event ends at the last credible observation of its target, never
\* at the time a retry got through; a recovered one not after it.
ClosedAtLastSeen ==
    \A e \in Events :
      /\ fact[e] = "closed" => tEnd[e] = last[e]
      /\ fact[e] = "recovered" => born[e] <= tEnd[e] /\ tEnd[e] <= last[e]

\* An event is opened only once its object row is stored: the guard trigger
\* of the database never has to refuse one.
ObjectFirst ==
    pc # NoTask /\ pc.op = "fact" => obj[ObjectOf(pc.ev)] # "none"

\* The comment in main() (no row the start left open may hang) as far as the
\* code keeps it.  What a start leaves open is in the snapshot that is
\* rechecked once its grace is over, or its grace ran out between the start's
\* two readings of the clock.  And an open row of an earlier run that is not,
\* or no longer, in the snapshot is overdue: the next start closes it.
Slipped(e) == tLast[e] + Grace \in now + 1 .. now'

RecoveryCoversAll ==
    [][\A e \in Events :
         fact'[e] = "open" /\ <<e, tLast'[e]>> \notin snap' =>
           /\ ~up /\ up' => Slipped(e)
           /\ up' /\ e[1] < run' => tLast'[e] + Grace <= now']_vars

\* An event whose target is gone is closed in the end, unless the process
\* goes down first, whatever failed on the way.
EndedIsClosed ==
    \A e \in Events : Ended(e) ~> (fact[e] = "closed" \/ ~up)

\* The ledger a reader of the tables sees (EventLedger): rows open once, move
\* forward, close once; descriptions are appended; receipts do not regress.
Ledger == INSTANCE EventLedger WITH
            Keys <- Events, Times <- Times,
            state <- [e \in Events |-> IF fact[e] = "recovered" THEN "closed"
                                                               ELSE fact[e]]
LedgerSpec == Ledger!Spec

\* The doc of semantic_updater.py: version 1, the initial observation, is
\* immutable and the chain only appends v(n+1) to it.
VersionOneIsInitial ==
    \A e \in Events : desc[e] # <<>> => desc[e][1] = "initial_observation"

\* The doc of _close_event_fact: a row that is already closed settles the
\* item, it is no failure.
ClosedItemSettles ==
    \A e \in Events :
      (pend[e] = "close" /\ fact[e] = "closed") ~> (pend[e] = "no")
=============================================================================
