------------------------------- MODULE Admission -------------------------------
(***************************************************************************)
(* Whether a window of a camera deserves understanding: decide of           *)
(* win11_admission.py compares what a material shows with the reference of  *)
(* the scene, and L2Runtime keeps the reference, admits the window, and     *)
(* takes the reference back when the window ends without a task of its own. *)
(*                                                                         *)
(* One camera: the references of the cameras are independent. A signature   *)
(* is the place of what it shows; the thresholds of the geometry are        *)
(* abstracted to "one place away is the same".                              *)
(***************************************************************************)
EXTENDS Integers, Sequences, FiniteSets, SequencesExt

CONSTANTS
    Spots,          \* places of an object
    Boxes,          \* places of a box of changes
    Idents,         \* identities the camera may have
    WindowLen,      \* bound: materials of a window
    MaxShots        \* bound: materials in all

ASSUME AdmissionAssumption == /\ Spots \subseteq Int /\ Boxes \subseteq Int
                              /\ IsFiniteSet(Spots \cup Boxes) /\ IsFiniteSet(Idents)
                              /\ WindowLen \in Nat /\ MaxShots \in Nat

LEAVE_CONFIRM_COUNT == 3
ADMIT_RETRY_MAX == 2
Nowhere == -100     \* no signature
Slots == {1, 2}     \* windows under way: the next one may start when the hold of
                    \* the scheduler on the last one runs out before its end

VARIABLES
    scene,          \* _last_admission of the camera, with what it stands on (story)
    admittedWin,    \* _admitted_windows
    slotState,      \* the windows: free, cut (L2 at work), sealed
    scan,           \* the window whose materials are being looked at
    shots           \* materials so far
avars == <<scene, admittedWin, slotState, scan, shots>>

\* What a material shows: what the L1 saw, and the box of changes of the gate.
Shots == [det : {"unavailable", "confirmed_empty"}, at : {Nowhere}, change : Boxes \cup {Nowhere}]
         \cup [det : {"detected"}, at : Spots, change : Boxes \cup {Nowhere}]

\* What really was observed, as far as the reference goes back: how many empty
\* observations stand last in a row, whether three in a row came since the object was
\* last seen, where it was at the last admission and where it was seen last.
NoStory == [empties |-> 0, gone |-> FALSE, understood |-> Nowhere, seen |-> Nowhere]
NoScene == [ident |-> "none", change |-> Nowhere, det |-> Nowhere, status |-> "unavailable",
            leave |-> 0, left |-> FALSE, retry |-> 0, by |-> 0, story |-> NoStory]
NoScan == [w |-> 0, ident |-> "none", ref |-> NoScene, before |-> NoScene, seen |-> 0,
           admitted |-> FALSE]
NotAdmitted == [on |-> FALSE, enqueued |-> FALSE, retry |-> 0, prev |-> NoScene]

AInit ==
    /\ scene = NoScene
    /\ admittedWin = [w \in Slots |-> NotAdmitted]
    /\ slotState = [w \in Slots |-> "free"]
    /\ scan = NoScan
    /\ shots = 0
-------------------------------------------------------------------------------
(* decide *)

\* _both_present_moved
Apart(a, b) == a - b > 1 \/ b - a > 1

\* The object, against the reference: come back, appeared, moved, gone.
Appeared(r, s) == s.det = "detected" /\ ~r.left /\ (r.det = Nowhere \/ r.status # "detected")
Drifted(r, s) == s.det = "detected" /\ ~r.left /\ r.det # Nowhere /\ r.status = "detected"
                 /\ Apart(r.det, s.at)
\* Mutant: a failure between two empty observations does not begin the count anew.
MutantEmpties(r, s) ==
    IF s.det = "confirmed_empty" /\ ~r.left /\ r.det # Nowhere THEN r.leave + 1
    ELSE IF s.det = "detected" THEN 0 ELSE r.leave

Empties(r, s) ==
    IF s.det = "confirmed_empty" /\ ~r.left /\ r.det # Nowhere THEN r.leave + 1
    ELSE IF s.det = "confirmed_empty" /\ r.left THEN r.leave ELSE 0
Leaves(r, s) == s.det = "confirmed_empty" /\ ~r.left /\ Empties(r, s) >= LEAVE_CONFIRM_COUNT
DetMoved(r, s) == (s.det = "detected" /\ r.left) \/ Appeared(r, s) \/ Drifted(r, s) \/ Leaves(r, s)

\* The box of changes: a new edge, or a change elsewhere.
ChangeMoved(r, s) ==
    s.change # Nowhere /\ (r.change = Nowhere \/ Apart(r.change, s.change))

\* A reference of another identity is of no use; a failure makes no new one.
Unusable(r, id) == r.ident # id
NothingSeen(s) == s.det = "unavailable" /\ s.change = Nowhere

\* admit_initial, admit_change; the rest is suppressed.
Admits(r, id, s) ==
    IF Unusable(r, id) THEN ~NothingSeen(s) ELSE DetMoved(r, s) \/ ChangeMoved(r, s)

Told(g, s, fresh, admits) ==
    LET old == IF fresh THEN NoStory ELSE g
        run == IF s.det = "confirmed_empty"
               THEN IF old.empties < LEAVE_CONFIRM_COUNT THEN old.empties + 1 ELSE old.empties
               ELSE 0
    IN [empties |-> run,
        gone |-> s.det # "detected" /\ (old.gone \/ run = LEAVE_CONFIRM_COUNT),
        understood |-> IF admits /\ s.det # "unavailable" THEN s.at ELSE old.understood,
        seen |-> IF s.det = "detected" THEN s.at ELSE Nowhere]

\* The reference that decide returns for material s of window w.
Decided(r, id, s, w) ==
    LET admits == Admits(r, id, s)
        left == (r.left /\ s.det # "detected") \/ Leaves(r, s)
        story == Told(r.story, s, Unusable(r, id), admits)
    IN IF Unusable(r, id)
       THEN IF NothingSeen(s) THEN r
            ELSE [ident |-> id, change |-> s.change, det |-> s.at, status |-> s.det,
                  leave |-> 0, left |-> FALSE, retry |-> r.retry, by |-> w, story |-> story]
       ELSE [ident |-> id,
             change |-> IF admits \/ (r.change # Nowhere /\ s.change = Nowhere) THEN s.change
                        ELSE r.change,
             det |-> IF s.det = "confirmed_empty" /\ (admits \/ left) THEN Nowhere
                     ELSE IF s.det = "detected" /\ admits THEN s.at ELSE r.det,
             status |-> IF s.det = "unavailable"
                           \/ (s.det = "confirmed_empty" /\ r.det # Nowhere /\ ~Leaves(r, s))
                        THEN r.status ELSE s.det,
             leave |-> IF Leaves(r, s) THEN 0 ELSE Empties(r, s),
             left |-> left, retry |-> r.retry, by |-> w, story |-> story]
-------------------------------------------------------------------------------
(* L2Runtime *)

\* _admit_window takes the reference ...
ScanWindow(w, id) ==
    /\ scan = NoScan /\ \A v \in Slots : slotState[v] # "cut"
    /\ slotState[w] = "free" /\ \A v \in Slots : v < w => slotState[v] # "free"
    /\ scan' = [NoScan EXCEPT !.w = w, !.ident = id, !.ref = scene, !.before = scene]
    /\ UNCHANGED <<scene, admittedWin, slotState, shots>>

\* ... shows it the materials one by one, without those too old or of another
\* identity ...
ScanShot(s) ==
    /\ scan # NoScan /\ scan.seen < WindowLen /\ shots < MaxShots
    /\ scan' = [scan EXCEPT !.ref = Decided(@, scan.ident, s, scan.w), !.seen = @ + 1,
                            !.admitted = @ \/ Admits(scan.ref, scan.ident, s)]
    /\ shots' = shots + 1
    /\ UNCHANGED <<scene, admittedWin, slotState>>

\* ... and puts it back. A window that is admitted remembers the reference it replaces.
\* Only the window whose reference is in force can ever give it back, so the others
\* need not remember theirs, and of a window that was not admitted nothing is left.
AdmitWindow ==
    /\ scan # NoScan
    /\ LET others == IF scan.ref = scene THEN admittedWin
                     ELSE [v \in Slots |-> [admittedWin[v] EXCEPT !.prev = NoScene]]
       IN  /\ scene' = IF scan.admitted \/ scan.ref.by # scan.w THEN scan.ref
                       ELSE [scan.ref EXCEPT !.by = 0]
           /\ admittedWin' =
                IF scan.admitted
                THEN [others EXCEPT ![scan.w] = [on |-> TRUE, enqueued |-> FALSE,
                                                 retry |-> scan.before.retry,
                                                 prev |-> scan.before]]
                ELSE others
           /\ slotState' = [slotState EXCEPT ![scan.w] = IF scan.admitted THEN "cut" ELSE "free"]
    /\ scan' = NoScan
    /\ UNCHANGED shots

\* _enqueue_l3_task: a task of the window got its place; the first one clears the
\* count of retries.
EnqueueTask(w) ==
    /\ slotState[w] = "cut" /\ ~admittedWin[w].enqueued
    /\ admittedWin' = [admittedWin EXCEPT ![w].enqueued = TRUE]
    /\ scene' = IF scene.by = w THEN [scene EXCEPT !.retry = 0] ELSE scene
    /\ UNCHANGED <<slotState, scan, shots>>

\* _process_handle: the end of the production.
SealCut(w) ==
    /\ slotState[w] = "cut"
    /\ slotState' = [slotState EXCEPT ![w] = "sealed"]
    /\ UNCHANGED <<scene, admittedWin, scan, shots>>

\* The end of a window (settled, expired, closed by stop) with
\* _rollback_admission_if_unfulfilled.
Unfulfilled(w) ==
    /\ admittedWin[w].on /\ ~admittedWin[w].enqueued
    /\ admittedWin[w].retry < ADMIT_RETRY_MAX /\ scene.by = w
EndWindow(w) ==
    /\ slotState[w] # "free"
    /\ slotState' = [slotState EXCEPT ![w] = "free"]
    /\ admittedWin' = [admittedWin EXCEPT ![w] = NotAdmitted]
    /\ scene' = IF Unfulfilled(w)
                THEN [admittedWin[w].prev EXCEPT !.retry = admittedWin[w].retry + 1, !.by = 0]
                ELSE IF scene.by = w THEN [scene EXCEPT !.by = 0] ELSE scene
    /\ UNCHANGED <<scan, shots>>

ANext ==
    \/ \E w \in Slots, id \in Idents : ScanWindow(w, id)
    \/ \E s \in Shots : ScanShot(s)
    \/ AdmitWindow
    \/ \E w \in Slots : EnqueueTask(w) \/ SealCut(w) \/ EndWindow(w)
-------------------------------------------------------------------------------
(* Properties *)

ATypeOK ==
    /\ scene.ident \in Idents \cup {"none"}
    /\ scene.change \in Boxes \cup {Nowhere} /\ scene.det \in Spots \cup {Nowhere}
    /\ scene.leave \in 0..(LEAVE_CONFIRM_COUNT - 1) /\ scene.retry \in 0..ADMIT_RETRY_MAX
    /\ \A w \in Slots : admittedWin[w].retry \in 0..ADMIT_RETRY_MAX
    /\ slotState \in [Slots -> {"free", "cut", "sealed"}]
    /\ shots \in 0..MaxShots

\* The reference of a scene is true to the observations it stands on, with those of a
\* window taken back when the window was. An object is counted as gone only when three
\* empty observations came in a row since it was last seen, no failure among them; and
\* an object in sight is never further than the threshold from where it was when the
\* scene was last understood, however small the steps it made there.
SceneHonest ==
    /\ scene.left => scene.story.gone
    /\ scene.leave <= scene.story.empties
    /\ scene.story.seen # Nowhere =>
        /\ scene.story.understood # Nowhere
        /\ ~Apart(scene.story.seen, scene.story.understood)

===============================================================================
