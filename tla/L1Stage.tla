-------------------------------- MODULE L1Stage --------------------------------
(***************************************************************************)
(* L1Pipeline composed with the camera threads that feed it and consume    *)
(* its results: the frame loop of nvr._run_camera and the asynchronous     *)
(* half of Monitor (monitor.py), for one followed object and one zone per  *)
(* camera, while the workbench reconfigures the zones.                     *)
(*                                                                         *)
(* A frame is Read (take the result, check whose it is), Select (new       *)
(* zones, hand material over), Consume (check again, advance the facts)    *)
(* and, when no observation came, Watch (the detection-lost watchdog): the *)
(* pipeline's other threads run in between.                                *)
(***************************************************************************)
EXTENDS L1Pipeline

CONSTANTS
    MaxAge,         \* DETECTION_MAX_AGE_MS
    Wait,           \* RESULT_WAIT_MS
    Gap,            \* CONTINUITY_MAX_GAP_MS
    Lost,           \* DETECTION_LOST_MS
    KeepAge,        \* CONFIRMED_MAX_AGE of the tracker
    Followed,       \* cameras whose Monitor is modelled; the others only
                    \* submit and take
    Venues,         \* sets of cameras to look at together
    StopTimes       \* bound: the times at which a stop may be asked for

ASSUME StageAssumption ==
    /\ Followed \subseteq Cams
    /\ Venues \subseteq SUBSET Cams
    /\ {MaxAge, Wait, Gap, Lost, KeepAge} \subseteq Nat
    /\ StopTimes \subseteq Nat
    /\ None \notin Nat

VARIABLES
    on,             \* cameras whose source opens
    pc,             \* read, select, consume, watch
    pending,        \* _pending_result
    rev,            \* zone_revision
    wanted,         \* the revision last requested; ahead of rev while pending
    applied,        \* _last_applied_capture_ms
    consumed,       \* _last_consumed_frame_id, 0 at first
    answered,       \* _last_result_ms: capture of the last observation
    failing,        \* l1_health is in a failed state
    moving,         \* _material_in_motion
    seenAt,         \* the object's track: when it was last observed
    enter,          \* ZoneRuntime: when the object entered the zone
    snap,           \* _dwell_snapshot
    broken,         \* _dwell_interrupted
    switched        \* history: when the current zones came into force

monVars == <<on, pc, pending, rev, wanted, applied, consumed, answered, failing,
             moving, seenAt, enter, snap, broken, switched>>
facts == <<answered, seenAt, enter, snap, broken>>
vars == <<pipeVars, monVars>>

All(v) == [c \in Followed |-> v]

StageInit ==
    /\ Init
    /\ on \in Venues
    /\ pc = All("read")
    /\ pending = All(None)
    /\ rev = All(0) /\ wanted = All(0)
    /\ applied = All(0) /\ consumed = All(0) /\ answered = All(None)
    /\ failing = All(FALSE) /\ moving = All(FALSE)
    /\ seenAt = All(None) /\ enter = All(None) /\ snap = All(None)
    /\ broken = All(FALSE) /\ switched = All(0)

\* The workbench saves new zones: request_zone_update.
Reconfigure(c) ==
    /\ wanted[c] + 1 \in Revisions
    /\ wanted' = [wanted EXCEPT ![c] = @ + 1]
    /\ UNCHANGED <<on, pipeVars, pc, pending, rev, applied, consumed, failing,
                   moving, switched, facts>>

\* take_result and apply_detection_result: whose result is it, and is it older
\* than one already applied.
Read(c) ==
    /\ pc[c] = "read"
    /\ ~stop
    /\ pc' = [pc EXCEPT ![c] = "select"]
    /\ TakeResult(c)
    /\ LET r == result[c]
       IN  IF r # None /\ r.task.cfg = rev[c] /\ r.task.at >= applied[c]
           THEN /\ pending' = [pending EXCEPT ![c] = r]
                /\ applied' = [applied EXCEPT ![c] = r.task.at]
           ELSE UNCHANGED <<pending, applied>>
    /\ UNCHANGED <<on, rev, wanted, consumed, failing, moving, switched, facts>>

ZonesKeepEntry(c) ==   \* mutant of Zones: the zone runtime goes on
    IF wanted[c] = rev[c] THEN UNCHANGED <<rev, enter, snap, switched, pending>>
    ELSE /\ rev' = [rev EXCEPT ![c] = wanted[c]]
         /\ UNCHANGED enter
         /\ snap' = [snap EXCEPT ![c] = None]
         /\ switched' = [switched EXCEPT ![c] = clock]
         /\ pending' = [pending EXCEPT ![c] = None]

\* _apply_pending_zones; a result of the old zones is given up later on in
\* the same step.
Zones(c) ==
    IF wanted[c] = rev[c] THEN UNCHANGED <<rev, enter, snap, switched, pending>>
    ELSE /\ rev' = [rev EXCEPT ![c] = wanted[c]]
         /\ enter' = [enter EXCEPT ![c] = None]
         /\ snap' = [snap EXCEPT ![c] = None]
         /\ switched' = [switched EXCEPT ![c] = clock]
         /\ pending' = [pending EXCEPT ![c] = None]

\* _select_material: the first frame of a motion, one of its later frames, a
\* patrol frame, or, by the cadence, nothing.
Material(c, motion) ==
    \/ motion /\ ~moving[c] /\ Submit(c, "change_start", rev'[c])
    \/ motion /\ moving[c] /\ Submit(c, "latest", rev'[c])
    \/ ~motion /\ Submit(c, "patrol", rev'[c])
    \/ (motion => moving[c] \/ frames[c] = MaxFrame[c]) /\ UNCHANGED pipeVars

Select(c) ==
    /\ pc[c] = "select"
    /\ pc' = [pc EXCEPT ![c] = "consume"]
    /\ Zones(c)
    /\ \E motion \in BOOLEAN : /\ Material(c, motion)
                               /\ moving' = [moving EXCEPT ![c] = motion]
    /\ UNCHANGED <<on, wanted, applied, consumed, answered, failing, seenAt,
                   broken>>
-------------------------------------------------------------------------------
(* _step_async. *)

UsableAnyOrder(c) ==   \* mutant of Usable: no look at the frame number
    /\ pending[c] # None
    /\ pending[c].task.cfg = rev[c]
    /\ clock - pending[c].task.at <= MaxAge

\* _recheck_result: the order of frames and the age of the result.
Usable(c) ==
    /\ pending[c] # None
    /\ pending[c].task.cfg = rev[c]
    /\ clock - pending[c].task.at <= MaxAge
    /\ pending[c].task.frame > consumed[c]

Continuous(c, t) ==
    answered[c] # None /\ t - answered[c] <= Gap /\ ~broken[c]

\* Tracker.update: a track ends when it has not been observed for KeepAge.
Tracked(c, st, t) ==
    IF st \in {"seen_inside", "seen_outside"} THEN t
    ELSE IF seenAt[c] # None /\ t - seenAt[c] > KeepAge THEN None ELSE seenAt[c]

AdvancedBack(c, st, t) ==   \* mutant of Advanced: the difference the wrong way
    IF st = "seen_inside" /\ snap[c] # None /\ ~Continuous(c, t)
    THEN snap[c] - t ELSE enter[c]

\* _advance_dwell_continuity: after a gap nobody watched, a pair seen in its
\* zone goes on from the dwell of the snapshot.
Advanced(c, st, t) ==
    IF st = "seen_inside" /\ snap[c] # None /\ ~Continuous(c, t)
    THEN t - snap[c] ELSE enter[c]

\* _post_detection on the zone: it is entered, left, or the track ends.
Entered(c, st, t) ==
    IF st = "seen_inside"
    THEN IF Advanced(c, st, t) = None THEN t ELSE Advanced(c, st, t)
    ELSE IF st = "seen_outside" \/ Tracked(c, st, t) = None THEN None
    ELSE enter[c]

\* The snapshot of a track that has ended is never used again: a new track has
\* a new id.
Observe(c, st, t) ==
    /\ answered' = [answered EXCEPT ![c] = t]
    /\ failing' = [failing EXCEPT ![c] = FALSE]
    /\ seenAt' = [seenAt EXCEPT ![c] = Tracked(c, st, t)]
    /\ enter' = [enter EXCEPT ![c] = Entered(c, st, t)]
    /\ broken' = [broken EXCEPT ![c] = (st = "empty")]
    /\ snap' = [snap EXCEPT ![c] = IF enter'[c] = None THEN None
                                   ELSE IF st = "empty" THEN snap[c]
                                   ELSE t - enter'[c]]

ConsumeObservation(c) ==
    LET r == pending[c] IN
    /\ pc[c] = "consume" /\ Usable(c)
    /\ r.status \notin {"model_unavailable", "infer_failed"}
    /\ Observe(c, r.status, r.task.at)
    /\ consumed' = [consumed EXCEPT ![c] = r.task.frame]
    /\ pending' = [pending EXCEPT ![c] = None]
    /\ pc' = [pc EXCEPT ![c] = "read"]
    /\ UNCHANGED <<on, pipeVars, rev, wanted, applied, moving, switched>>

ConsumeFailure(c) ==
    LET r == pending[c] IN
    /\ pc[c] = "consume" /\ Usable(c)
    /\ r.status \in {"model_unavailable", "infer_failed"}
    /\ failing' = [failing EXCEPT ![c] = TRUE]
    /\ broken' = [broken EXCEPT ![c] = TRUE]
    /\ consumed' = [consumed EXCEPT ![c] = r.task.frame]
    /\ pending' = [pending EXCEPT ![c] = None]
    /\ pc' = [pc EXCEPT ![c] = "watch"]
    /\ UNCHANGED <<on, pipeVars, rev, wanted, applied, moving, switched, answered,
                   seenAt, enter, snap>>

ConsumeNothing(c) ==
    /\ pc[c] = "consume"
    /\ ~Usable(c)
    /\ pending' = [pending EXCEPT ![c] = None]
    /\ pc' = [pc EXCEPT ![c] = "watch"]
    /\ UNCHANGED <<on, pipeVars, rev, wanted, applied, consumed, failing, moving,
                   switched, facts>>

\* _detection_lost_watchdog: no observation for too long, and either the model
\* fails or the camera's oldest unfinished task is too old.
Blind(c) ==
    /\ seenAt[c] # None /\ answered[c] # None
    /\ clock - answered[c] > Lost
    /\ failing[c] \/ Older(c, Wait)

Watch(c) ==
    /\ pc[c] = "watch"
    /\ pc' = [pc EXCEPT ![c] = "read"]
    /\ IF Blind(c)
       THEN /\ seenAt' = [seenAt EXCEPT ![c] = None]
            /\ enter' = [enter EXCEPT ![c] = None]
            /\ snap' = [snap EXCEPT ![c] = None]
       ELSE UNCHANGED <<seenAt, enter, snap>>
    /\ UNCHANGED <<on, pipeVars, pending, rev, wanted, applied, consumed, answered,
                   failing, moving, broken, switched>>
-------------------------------------------------------------------------------
\* What the detector can report of camera c: of the others it does not matter.
Verdicts(c) ==
    IF c \in Followed THEN Statuses ELSE {"empty", "model_unavailable"}

Other(c) ==
    /\ ~stop
    /\ (result[c] # None /\ TakeResult(c)) \/ \E r \in Reasons : Submit(c, r, 0)
    /\ UNCHANGED monVars

\* A tick is longer than a frame of any camera; nothing depends on the time
\* once a stop was asked for.
StageTick ==
    /\ Tick
    /\ ~stop /\ \A c \in Followed : pc[c] = "read"
    /\ UNCHANGED monVars

\* nvr.main closes the pipelines when stop_event is set.
MainThread ==
    /\ Start \/ (clock \in StopTimes /\ Stop) \/ (stop /\ Close) \/ CloseLate \/ CloseDone \/ Snapshot
    /\ UNCHANGED monVars

Thread(c) ==
    \/ Read(c) \/ Select(c)
    \/ ConsumeObservation(c) \/ ConsumeFailure(c) \/ ConsumeNothing(c)
    \/ Watch(c)

WorkerStep ==
    /\ \/ Check \/ Idle \/ Leave \/ Settle \/ Exit
       \/ \E c \in Cams : Pick(c) \/ \E st \in Verdicts(c) : Finish(c, st)
    /\ UNCHANGED monVars

StageNext ==
    \/ WorkerStep
    \/ MainThread
    \/ StageTick
    \/ \E c \in Followed \cap on : Thread(c) \/ Reconfigure(c)
    \/ \E c \in on \ Followed : Other(c)

StageSpec == StageInit /\ [][StageNext]_vars

\* The worker's loop runs, an inference ends, and close() is called after a
\* stop and returns.  Cameras, operators and time owe nothing.
FairStage ==
    /\ StageSpec
    /\ WF_vars(WorkerStep)
    /\ WF_vars(stop /\ Close /\ UNCHANGED monVars)
    /\ WF_vars(CloseDone /\ UNCHANGED monVars)
-------------------------------------------------------------------------------
MaybeTime == Nat \cup {None}

\* Every variable of the monitors holds a value of its type.
MonTypeOK ==
    /\ on \subseteq Cams
    /\ pc \in [Followed -> {"read", "select", "consume", "watch"}]
    /\ pending \in [Followed -> Results \cup {None}]
    /\ rev \in [Followed -> Revisions] /\ wanted \in [Followed -> Revisions]
    /\ applied \in [Followed -> Nat]
    /\ consumed \in [Followed -> Nat]
    /\ answered \in [Followed -> MaybeTime]
    /\ failing \in [Followed -> BOOLEAN] /\ moving \in [Followed -> BOOLEAN]
    /\ broken \in [Followed -> BOOLEAN]
    /\ seenAt \in [Followed -> MaybeTime] /\ enter \in [Followed -> MaybeTime]
    /\ snap \in [Followed -> MaybeTime] /\ switched \in [Followed -> Nat]

\* Both halves of the stage are well typed.
StageTypeOK == TypeOK /\ MonTypeOK

\* The facts of a camera only move forward: no frame is consumed twice or after
\* a later one, and the time of the last observation never goes back, although
\* the worker serves the displaced picture after later ones, results overtake
\* zone changes and several frames may carry one time (_recheck_result).
FactsForward ==
    [][\A c \in Followed :
          /\ consumed'[c] >= consumed[c]
          /\ answered[c] # None => answered'[c] # None /\ answered'[c] >= answered[c]
          /\ answered'[c] # answered[c] => consumed'[c] > consumed[c]]_vars

\* A dwell belongs to a live track and to the zones in force: it began after
\* they were switched and no later than the last observation, whatever results
\* of the old zones were still queued, in flight or pending
\* (_apply_pending_zones, restore_pair, _detection_lost_watchdog).
ZoneDwell ==
    \A c \in Followed : enter[c] # None =>
        /\ seenAt[c] # None
        /\ switched[c] <= enter[c]
        /\ enter[c] <= answered[c]

\* After a stop the pipeline ends up stopped, whether or not close() gave up on
\* the worker before (_run, close).
StopSettles == stop ~> (lifecycle = "stopped" /\ closer = "idle")
===============================================================================
