------------------------------ MODULE L1Pipeline ------------------------------
(***************************************************************************)
(* L1Pipeline (win11_pipeline.py): one worker thread runs the detector for *)
(* all cameras of a group.  Each camera has one place for the earliest     *)
(* change, one for the latest picture, one for a displaced picture and one *)
(* for a result; the camera thread submits and takes, the worker serves    *)
(* the cameras in turn, the main thread stops and closes.                  *)
(*                                                                         *)
(* Every action is one critical section of the pipeline's lock, or the     *)
(* steps of one thread between two of them.  stop_event is set without the *)
(* lock: a stop that comes after a section has looked at it is ordered     *)
(* after the section.                                                      *)
(***************************************************************************)
EXTENDS Integers, FiniteSets

CONSTANTS
    Cams,           \* camera ids, numbered in their sorted order
    Protected,      \* latest_protected_slots
    Ttl,            \* task_ttl_s
    MaxFrame,       \* bound: materials each camera hands over
    MaxRev,         \* bound: zone configurations saved after the first
    MaxTime,        \* bound: the clock
    None            \* an empty place

Revisions == 0 .. MaxRev
Places == {"change_start", "latest", "protected_latest"}
Reasons == {"change_start", "latest", "patrol"}
Statuses == {"seen_inside", "seen_outside", "seen_others",  \* the three are ok
             "empty", "model_unavailable", "infer_failed"}
\* at: the clock when the frame was captured and, in the same step of the
\* camera, submitted
Tasks == [frame : Nat \ {0}, at : Nat, cfg : Revisions]
Results == [task : Tasks, status : Statuses]

ASSUME PipelineAssumption ==
    /\ Cams \subseteq Nat /\ IsFiniteSet(Cams)
    /\ Protected \in {0, 1}
    /\ Ttl \in Nat /\ MaxTime \in Nat /\ MaxRev \in Nat
    /\ MaxFrame \in [Cams -> Nat]
    /\ None \notin Tasks /\ None \notin Results

VARIABLES
    clock,          \* time.monotonic
    frames,         \* materials handed over so far, per camera
    stop,           \* stop_event
    closed,         \* _close_evt
    known,          \* cameras that have slots
    slot,           \* _slots
    inflight,       \* _in_flight
    result,         \* _results
    turn,           \* _last_served_index
    loaded,         \* _detector is not None
    worker,         \* where the worker thread is
    closer,         \* idle, or joining: close() waits for the worker
    lifecycle,      \* _lifecycle
    bypassed        \* history: services of others while a camera has waited

pipeVars == <<clock, frames, stop, closed, known, slot, inflight, result, turn,
              loaded, worker, closer, lifecycle, bypassed>>

NoSlots == [k \in Places |-> None]

Init ==
    /\ clock = 0
    /\ frames = [c \in Cams |-> 0]
    /\ stop = FALSE
    /\ closed = FALSE
    /\ known = {}
    /\ slot = [c \in Cams |-> NoSlots]
    /\ inflight = [c \in Cams |-> None]
    /\ result = [c \in Cams |-> None]
    /\ turn = 0
    /\ loaded = FALSE
    /\ worker = "new"
    /\ closer = "idle"
    /\ lifecycle = "running"
    /\ bypassed = [c \in Cams |-> 0]

Halted == stop \/ closed
Alive == worker \notin {"new", "dead"}
-------------------------------------------------------------------------------
(* The camera threads.  nvr.py starts them after the worker. *)

\* What reading or refusing makes of the lifecycle.
Refreshed ==
    IF ~Halted \/ lifecycle = "stopped" THEN lifecycle
    ELSE IF ~Alive THEN "stopped"
    ELSE IF lifecycle = "running" THEN "closing" ELSE lifecycle

DisplacedLatest(s, k) ==   \* mutant of Displaced: takes the wrong task
    IF s[k] = None \/ Protected = 0 THEN s
    ELSE [s EXCEPT !["protected_latest"] = s["latest"]]

\* The slots s without the task at k, which moves to the shared place if there
\* is one, over whatever that holds.
Displaced(s, k) ==
    IF s[k] = None \/ Protected = 0 THEN s
    ELSE [s EXCEPT !["protected_latest"] = s[k]]

\* The first change is kept and later ones are merged into it, unless there is
\* a place for the one displaced.
WithChange(s, t) ==
    IF s["change_start"] # None /\ Protected = 0 THEN s
    ELSE [Displaced(s, "change_start") EXCEPT !["change_start"] = t]

WithLatest(s, t) == [Displaced(s, "latest") EXCEPT !["latest"] = t]

\* A patrol does not take the place of a change.
WithPatrol(s, t) ==
    IF s["change_start"] # None \/ s["latest"] # None THEN s
    ELSE [s EXCEPT !["latest"] = t]

Filled(s, t, reason) ==
    IF reason = "change_start" THEN WithChange(s, t)
    ELSE IF reason = "patrol" THEN WithPatrol(s, t)
    ELSE WithLatest(s, t)

AcceptAlways(c, t, reason) ==   \* mutant of Accept: no look at the stop
    /\ known' = known \cup {c}
    /\ slot' = [slot EXCEPT ![c] = Filled(slot[c], t, reason)]
    /\ UNCHANGED lifecycle

Accept(c, t, reason) ==
    /\ ~Halted
    /\ known' = known \cup {c}
    /\ slot' = [slot EXCEPT ![c] = Filled(slot[c], t, reason)]
    /\ UNCHANGED lifecycle

Refuse ==
    /\ Halted
    /\ lifecycle' = Refreshed
    /\ UNCHANGED <<known, slot>>

Submit(c, reason, cfg) ==
    /\ worker # "new"
    /\ frames[c] < MaxFrame[c]
    /\ frames' = [frames EXCEPT ![c] = @ + 1]
    /\ \/ Accept(c, [frame |-> frames[c] + 1, at |-> clock, cfg |-> cfg],
                 reason)
       \/ Refuse
    /\ UNCHANGED <<clock, stop, closed, inflight, result, turn, loaded,
                   worker, closer, bypassed>>

TakeResult(c) ==
    /\ worker # "new"
    /\ result' = [result EXCEPT ![c] = None]
    /\ UNCHANGED <<clock, frames, stop, closed, known, slot, inflight, turn,
                   loaded, worker, closer, lifecycle, bypassed>>

\* snapshot: the health page reads the lifecycle.
Snapshot ==
    /\ lifecycle' = Refreshed
    /\ UNCHANGED <<clock, frames, stop, closed, known, slot, inflight, result,
                   turn, loaded, worker, closer, bypassed>>

\* oldest_unfinished_age_ms
Unfinished(c) == ({slot[c][k] : k \in Places} \cup {inflight[c]}) \ {None}
Older(c, age) == \E t \in Unfinished(c) : clock - t.at > age
-------------------------------------------------------------------------------
(* The worker thread. *)

Start ==
    /\ worker = "new"
    /\ ~Halted
    /\ lifecycle \notin {"stop_incomplete", "stopped"}
    /\ worker' = "check"
    /\ UNCHANGED <<clock, frames, stop, closed, known, slot, inflight, result,
                   turn, loaded, closer, lifecycle, bypassed>>

\* The head of the loop; a stop may come right after it.
Check ==
    /\ worker = "check"
    /\ worker' = IF Halted THEN "leaving" ELSE "next"
    /\ UNCHANGED <<clock, frames, stop, closed, known, slot, inflight, result,
                   turn, loaded, closer, lifecycle, bypassed>>

Expired(t) == t # None /\ t.at + Ttl < clock
Swept == [c \in Cams |->
            [k \in Places |-> IF Expired(slot[c][k]) THEN None ELSE slot[c][k]]]
Waits(s) == \E k \in Places : s[k] # None
\* The place served next, and the camera's distance from the one whose turn
\* it is among those that have slots.
Front(s) ==
    IF s["change_start"] # None THEN "change_start"
    ELSE IF s["latest"] # None THEN "latest" ELSE "protected_latest"
Index(c) == Cardinality({d \in known : d < c})
DistanceFixed(c) == Index(c)   \* mutant of Distance: always from the first
Distance(c) == (Index(c) - turn) % Cardinality(known)
ItsTurn(c) ==
    /\ Waits(Swept[c])
    /\ \A d \in known : Waits(Swept[d]) => Distance(c) <= Distance(d)

\* _next_task finds a task.
Pick(c) ==
    /\ worker = "next"
    /\ c \in known
    /\ ItsTurn(c)
    /\ slot' = [Swept EXCEPT ![c] = [Swept[c] EXCEPT ![Front(Swept[c])] = None]]
    /\ inflight' = [inflight EXCEPT ![c] = Swept[c][Front(Swept[c])]]
    /\ turn' = (Index(c) + 1) % Cardinality(known)
    /\ worker' = "busy"
    /\ bypassed' = [d \in Cams |-> IF d # c /\ Waits(Swept[d])
                                   THEN bypassed[d] + 1 ELSE 0]
    /\ UNCHANGED <<clock, frames, stop, closed, known, result, loaded, closer,
                   lifecycle>>

IdleWaits ==   \* mutant of Idle: waits for a task without looking at the stop
    /\ worker = "next"
    /\ \A c \in known : ~Waits(Swept[c])
    /\ slot' = Swept
    /\ worker' = worker
    /\ bypassed' = [c \in Cams |-> 0]
    /\ UNCHANGED <<clock, frames, stop, closed, known, inflight, result, turn,
                   loaded, closer, lifecycle>>

\* _next_task finds none.
Idle ==
    /\ worker = "next"
    /\ \A c \in known : ~Waits(Swept[c])
    /\ slot' = Swept
    /\ worker' = "check"
    /\ bypassed' = [c \in Cams |-> 0]
    /\ UNCHANGED <<clock, frames, stop, closed, known, inflight, result, turn,
                   loaded, closer, lifecycle>>

\* _process and _produce: the detector was loaded once or could not be, and
\* what came out is published unless a stop was asked for meanwhile.
Finish(c, st) ==
    /\ worker = "busy"
    /\ inflight[c] # None
    /\ st = "model_unavailable" => ~loaded
    /\ loaded' = (st # "model_unavailable")
    /\ result' = IF Halted THEN result
                 ELSE [result EXCEPT ![c] = [task |-> inflight[c], status |-> st]]
    /\ inflight' = [inflight EXCEPT ![c] = None]
    /\ worker' = "check"
    /\ UNCHANGED <<clock, frames, stop, closed, known, slot, turn, closer,
                   lifecycle, bypassed>>

Drain ==
    /\ known' = {}
    /\ slot' = [c \in Cams |-> NoSlots]
    /\ result' = [c \in Cams |-> None]
    /\ inflight' = [c \in Cams |-> None]
    /\ bypassed' = [c \in Cams |-> 0]

\* The finally of _run, in its two critical sections, and the end of the thread.
Leave ==
    /\ worker = "leaving"
    /\ Drain
    /\ worker' = "drained"
    /\ UNCHANGED <<clock, frames, stop, closed, turn, loaded, closer, lifecycle>>

Settle ==
    /\ worker = "drained"
    /\ lifecycle' = IF Halted THEN "stopped" ELSE lifecycle
    /\ worker' = "exiting"
    /\ UNCHANGED <<clock, frames, stop, closed, known, slot, inflight, result,
                   turn, loaded, closer, bypassed>>

Exit ==
    /\ worker = "exiting"
    /\ worker' = "dead"
    /\ UNCHANGED <<clock, frames, stop, closed, known, slot, inflight, result,
                   turn, loaded, closer, lifecycle, bypassed>>
-------------------------------------------------------------------------------
(* The main thread and time. *)

Stop ==
    /\ ~stop
    /\ stop' = TRUE
    /\ UNCHANGED <<clock, frames, closed, known, slot, inflight, result, turn,
                   loaded, worker, closer, lifecycle, bypassed>>

Close ==
    /\ closer = "idle"
    /\ lifecycle # "stopped" \/ ~closed
    /\ closer' = "joining"
    /\ closed' = TRUE
    /\ lifecycle' = IF ~closed /\ lifecycle = "running" THEN "closing"
                    ELSE lifecycle
    /\ UNCHANGED <<clock, frames, stop, known, slot, inflight, result, turn,
                   loaded, worker, bypassed>>

CloseLateBlind ==   \* mutant of CloseLate: the worker may have ended since
    /\ closer = "joining"
    /\ Alive
    /\ closer' = "idle"
    /\ lifecycle' = "stop_incomplete"
    /\ UNCHANGED <<clock, frames, stop, closed, known, slot, inflight, result,
                   turn, loaded, worker, bypassed>>

\* join gives up.
CloseLate ==
    /\ closer = "joining"
    /\ Alive
    /\ closer' = "idle"
    /\ lifecycle' = IF lifecycle # "stopped" THEN "stop_incomplete"
                    ELSE lifecycle
    /\ UNCHANGED <<clock, frames, stop, closed, known, slot, inflight, result,
                   turn, loaded, worker, bypassed>>

CloseDone ==
    /\ closer = "joining"
    /\ ~Alive
    /\ closer' = "idle"
    /\ Drain
    /\ lifecycle' = "stopped"
    /\ UNCHANGED <<clock, frames, stop, closed, turn, loaded, worker>>

Tick ==
    /\ clock < MaxTime
    /\ clock' = clock + 1
    /\ UNCHANGED <<frames, stop, closed, known, slot, inflight, result, turn,
                   loaded, worker, closer, lifecycle, bypassed>>

Work == \/ Check \/ Idle \/ Leave \/ Settle \/ Exit
        \/ \E c \in Cams : Pick(c) \/ \E st \in Statuses : Finish(c, st)
Main == Start \/ Stop \/ Close \/ CloseLate \/ CloseDone
Next ==
    \/ Work \/ Main \/ Snapshot \/ Tick
    \/ \E c \in Cams : TakeResult(c)
    \/ \E c \in Cams, r \in Reasons, v \in Revisions : Submit(c, r, v)

Spec == Init /\ [][Next]_pipeVars
-------------------------------------------------------------------------------
MaybeTask == Tasks \cup {None}
Workers == {"new", "check", "next", "busy", "leaving", "drained", "exiting",
            "dead"}
Lifecycles == {"running", "closing", "stop_incomplete", "stopped"}

\* Every variable holds a value of its type.
TypeOK ==
    /\ clock \in Nat
    /\ frames \in [Cams -> Nat]
    /\ stop \in BOOLEAN /\ closed \in BOOLEAN /\ loaded \in BOOLEAN
    /\ known \subseteq Cams
    /\ slot \in [Cams -> [Places -> MaybeTask]]
    /\ inflight \in [Cams -> MaybeTask]
    /\ result \in [Cams -> Results \cup {None}]
    /\ turn \in Nat
    /\ worker \in Workers
    /\ closer \in {"idle", "joining"}
    /\ lifecycle \in Lifecycles
    /\ bypassed \in [Cams -> Nat]

\* A pipeline that says it is stopped holds no picture any more and never will:
\* no task in a slot that nobody serves, none in flight, no result (R3 in the
\* head of win11_pipeline.py, close, the finally of _run).
QuietAfterStop ==
    lifecycle = "stopped" =>
        \A c \in Cams : /\ slot[c] = NoSlots
                        /\ inflight[c] = None
                        /\ result[c] = None

\* Stopped is final, also for a close() that gives up while the worker ends,
\* and from the moment a stop is asked for no result is published (D5b/R3).
HaltedForGood ==
    [][/\ lifecycle = "stopped" => lifecycle' = "stopped"
       /\ Halted => \A c \in Cams : result'[c] \in {result[c], None}]_pipeVars

FrameAt(c, h) ==
    IF h \in Places THEN IF slot[c][h] = None THEN 0 ELSE slot[c][h].frame
    ELSE IF h = "inflight"
         THEN IF inflight[c] = None THEN 0 ELSE inflight[c].frame
    ELSE IF result[c] = None THEN 0 ELSE result[c].task.frame
Homes == Places \cup {"inflight", "result"}

\* A picture is in one place: it is not served twice, and what is displaced,
\* served or published leaves its place (submit, _retain_displaced_locked,
\* _next_task, _produce).
OneHome ==
    \A c \in Cams : \A g, h \in Homes :
        g # h /\ FrameAt(c, g) # 0 => FrameAt(c, g) # FrameAt(c, h)

\* While a camera has a task waiting, the others are served at most twice each
\* before it, however much they submit: once in its round, and once more for the
\* cameras that join meanwhile, because _last_served_index is an index and a
\* camera that joins in front of it moves the turn back by one (_next_task).
BoundedBypass ==
    \A c \in known : bypassed[c] <= 2 * (Cardinality(known) - 1)
===============================================================================
