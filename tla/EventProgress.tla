---------------------------- MODULE EventProgress ----------------------------
(***************************************************************************)
(* The bridge from understanding to events (win11_event_progress.py). The  *)
(* camera thread leaves, for each frame, which objects were seen and which *)
(* event of each was open (record_conclusion). A fusion names frames and   *)
(* an object; its frames are frozen when it is submitted, and a worker     *)
(* appends its text to the one event they all belong to, as the database   *)
(* knows it by then, or refuses. Material packages ask the same registry   *)
(* by two resolvers.                                                       *)
(*                                                                         *)
(* One camera, one identity. Frames are numbered, and their number is      *)
(* their time. The facts of the Monitor and their rows are those of        *)
(* EventTruth, reduced to what is read here.                               *)
(***************************************************************************)
EXTENDS Naturals, Sequences, FiniteSets, SequencesExt, Ascending

CONSTANTS
    Objs,           \* object ids of the tracker
    Stored,         \* bound: the objects whose event writes may succeed
    MaxShot,        \* bound: frames
    MaxOccurrence,  \* bound: events of an object
    FrameCap,       \* max_frames
    FusionCap,      \* max_queue
    MaxFusions      \* bound: fusions submitted

ASSUME ProgressAssumption ==
    /\ IsFiniteSet(Objs) /\ Stored \subseteq Objs /\ MaxShot \in Nat /\ MaxOccurrence \in Nat /\ MaxFusions \in Nat
    /\ FrameCap \in Nat \ {0} /\ FusionCap \in Nat \ {0}

VARIABLES
    shot,           \* the last frame
    facts,          \* Monitor._event_facts: occurrence, state, and the track's bornAt
    rows,           \* event_facts and version 1 of event_descriptions
    seen,           \* what each frame showed: its snapshot, also after it was evicted
    frames,         \* _frames: the frames still in the registry, oldest first
    episodes,       \* _events: event and interval, least recently seen first
    fusions,        \* _queue
    fused,          \* bound: fusions submitted so far
    story           \* the ledger: versions appended to events

eprogvars == <<shot, facts, rows, seen, frames, episodes, fusions, fused, story>>
cameraFacts == <<shot, facts, rows, seen>>
progressRegistry == <<frames, episodes>>

Episodes == Objs \X (1..MaxOccurrence)
NoRow == [start |-> 0, end |-> 0, first |-> FALSE]
Inside(t, i) == i.start <= t /\ t <= i.end

ProgressInit ==
    /\ shot = 0
    /\ facts = [o \in Objs |-> [occ |-> 0, state |-> "none", born |-> 0, last |-> 0]]
    /\ rows = [e \in Episodes |-> NoRow]
    /\ seen = <<>>
    /\ frames = <<>> /\ episodes = <<>> /\ fusions = <<>> /\ fused = 0 /\ story = {}
-------------------------------------------------------------------------------
(* The camera thread. *)

\* An entry after a frame that shows its object: a new one takes the birth of its
\* track for its start; it is open once both writes were made, and pending again
\* when one fails.
FactAfter(f, t, good) ==
    [occ |-> IF f.state = "none" THEN f.occ + 1 ELSE f.occ,
     state |-> IF good THEN "open" ELSE "pending",
     born |-> IF f.born = 0 THEN t ELSE f.born,
     last |-> t]

\* _record_conclusion: the frame with its objects and their open events; the events
\* as they stand; what is over the limit goes, the oldest first.
Bindings(refs, after) ==
    [o \in refs |-> IF after[o].state = "open" THEN after[o].occ ELSE 0]
Latest(s, n) == IF Len(s) > n THEN SubSeq(s, Len(s) - n + 1, Len(s)) ELSE s
\* What stays in its place: the episodes that this frame does not move.
Unmoved(events) ==
    LET places == Ascending({i \in 1..Len(episodes) : episodes[i].event \notin events})
    IN  [k \in DOMAIN places |-> episodes[places[k]]]
Recorded(refs, after) ==
    LET open == {o \in refs : after[o].state = "open"}
        line == SetToSeq(open)
    IN  Unmoved({<<o, after[o].occ>> : o \in open})
          \o [k \in 1..Len(line) |-> [event |-> <<line[k], after[line[k]].occ>>,
                                       start |-> after[line[k]].born, end |-> after[line[k]].last]]

\* One frame: Monitor.step, then record_conclusion of what it concluded.
ShowFrame(refs, good) ==
    /\ shot < MaxShot /\ good \subseteq refs \cap Stored
    /\ \A o \in refs : facts[o].state = "none" => facts[o].occ < MaxOccurrence
    \* Bound: an object whose event is never written has one event.
    /\ \A o \in refs \ Stored : facts[o].state = "none" => facts[o].occ = 0
    /\ LET t == shot + 1
           after == [o \in Objs |-> IF o \in refs THEN FactAfter(facts[o], t, o \in good)
                                    ELSE facts[o]]
       IN  /\ shot' = t
           /\ facts' = after
           /\ \E firsts \in SUBSET good :      \* version 1 is a write of its own
                rows' = [e \in Episodes |->
                    IF e[1] \in good /\ e[2] = after[e[1]].occ
                    THEN [start |-> after[e[1]].born, end |-> t,
                          first |-> rows[e].first \/ e[1] \in firsts]
                    ELSE rows[e]]
           /\ seen' = Append(seen, [refs |-> refs, bind |-> Bindings(refs, after)])
           /\ frames' = Latest(Append(frames, t), FrameCap)
           /\ episodes' = Latest(Recorded(refs, after), FrameCap)
    /\ UNCHANGED <<fusions, fused, story>>

\* The stream is lost for longer than its grace: the events end, the tracks stay.
LoseStream ==
    /\ \E o \in Objs : facts[o].state # "none"
    /\ facts' = [o \in Objs |-> [facts[o] EXCEPT !.state = "none"]]
    /\ UNCHANGED <<shot, rows, seen, progressRegistry, fusions, fused, story>>

\* A row (bound: before the object is seen again), or version 1, whose write had
\* failed is written later.
WriteLate(e) ==
    /\ e[1] \in Stored /\ e[2] <= facts[e[1]].occ /\ ~rows[e].first
    /\ \/ /\ rows[e] = NoRow /\ e[2] = facts[e[1]].occ /\ facts[e[1]].state = "none"
          /\ rows' = [rows EXCEPT ![e] = [start |-> facts[e[1]].born, end |-> facts[e[1]].last,
                                          first |-> FALSE]]
       \/ rows[e] # NoRow /\ rows' = [rows EXCEPT ![e].first = TRUE]
    /\ UNCHANGED <<shot, facts, seen, progressRegistry, fusions, fused, story>>
-------------------------------------------------------------------------------
(* The registry. *)

\* _snapshot_frames: an object without an event at that frame takes the one event
\* whose interval holds the frame.
EventsAt(o, t, about) == {b.event[2] : b \in {c \in ToSet(about) : c.event[1] = o /\ Inside(t, c)}}
FrozenBinding(o, t, about) ==
    LET own == seen[t].bind[o]
    IN IF own = 0 /\ Cardinality(EventsAt(o, t, about)) = 1
       THEN CHOOSE k \in EventsAt(o, t, about) : TRUE ELSE own
Frozen(fs, kept, about) ==
    [t \in fs |-> IF t \in ToSet(kept)
                  THEN [known |-> TRUE, bind |-> [o \in seen[t].refs |-> FrozenBinding(o, t, about)]]
                  ELSE [known |-> FALSE, bind |-> <<>>]]

\* submit: a fusion of some frames about one object; a full queue refuses it. What
\* is past the retention goes first (_prune_bindings_locked), the oldest first.
SubmitFusion(fs, o) ==
    /\ fused < MaxFusions /\ fs # {} /\ Len(fusions) < FusionCap
    /\ \E n \in 0..Len(frames), m \in 0..Len(episodes) :
        /\ frames' = Latest(frames, n) /\ episodes' = Latest(episodes, m)
        /\ fusions' = Append(fusions, [about |-> o, snap |-> Frozen(fs, frames', episodes')])
    /\ fused' = fused + 1
    /\ UNCHANGED <<cameraFacts, story>>

\* Mutant: frames that show another object as well are not refused.
MutantAssociated(f) ==
    LET with == {t \in DOMAIN f.snap : f.about \in DOMAIN f.snap[t].bind}
        ks == {f.snap[t].bind[f.about] : t \in with}
    IN IF /\ \A t \in DOMAIN f.snap : f.snap[t].known
          /\ Cardinality(ks) = 1 /\ 0 \notin ks
       THEN {<<f.about, k>> : k \in ks} ELSE {}

\* _associate: every frame is known and shows no other object; those that show it
\* have an event, and the same one.
Associated(f) ==
    LET with == {t \in DOMAIN f.snap : f.about \in DOMAIN f.snap[t].bind}
        ks == {f.snap[t].bind[f.about] : t \in with}
    IN IF /\ \A t \in DOMAIN f.snap : f.snap[t].known /\ DOMAIN f.snap[t].bind \subseteq {f.about}
          /\ Cardinality(ks) = 1 /\ 0 \notin ks
       THEN {<<f.about, k>> : k \in ks} ELSE {}

\* attach_understanding: the row exists, holds the frames, and has its version 1.
Attachable(e, f) ==
    /\ e \in DOMAIN rows /\ rows[e] # NoRow /\ rows[e].first
    /\ \A t \in DOMAIN f.snap : DOMAIN f.snap[t].bind # {} => Inside(t, rows[e])

\* The worker: published once, or refused for good.
PublishFusion ==
    /\ fusions # <<>>
    /\ LET f == Head(fusions)
       IN story' = story \cup {[event |-> e, frames |-> DOMAIN f.snap] :
                                 e \in {d \in Associated(f) : Attachable(d, f)}}
    /\ fusions' = Tail(fusions)
    /\ UNCHANGED <<cameraFacts, progressRegistry, fused>>

ProgressNext ==
    \/ \E refs \in SUBSET Objs, good \in SUBSET Objs : ShowFrame(refs, good)
    \/ LoseStream \/ PublishFusion
    \/ \E e \in Episodes : WriteLate(e)
    \/ \E fs \in SUBSET (1..shot), o \in Objs : SubmitFusion(fs, o)
-------------------------------------------------------------------------------
(* What material packages are told. *)

\* _classify_frame_row_locked and _frame_binding_selfconsistent: a frame is bound by
\* its own snapshot only.
ClassifyFrame(t) ==
    IF t \notin ToSet(frames) THEN "ambiguous"
    ELSE IF seen[t].refs = {} THEN "context"
    ELSE IF Cardinality(seen[t].refs) > 1 THEN "ambiguous"
    ELSE IF \A o \in seen[t].refs : seen[t].bind[o] = 0 THEN "context" ELSE "bound"

EventOfFrame(t) == {<<o, seen[t].bind[o]>> : o \in seen[t].refs}

\* _frame_binding_result: the event of a package when its bound frames agree.
FrameBindings(fs) ==
    LET bound == {t \in fs : ClassifyFrame(t) = "bound"}
        events == UNION {EventOfFrame(t) : t \in bound}
    IN IF Cardinality(events) = 1 THEN events ELSE {}

\* resolve_material_binding: the event of a package when all its frames agree.
MaterialBinding(fs, o) ==
    IF /\ fs # {} /\ fs \subseteq ToSet(frames)
       /\ \A t \in fs : seen[t].refs = {o} /\ seen[t].bind[o] # 0
       /\ Cardinality({seen[t].bind[o] : t \in fs}) = 1
    THEN {<<o, seen[t].bind[o]>> : t \in fs} ELSE {}
\* What the strict one calls unique, the other binds to the same event.
ResolversAgree ==
    \A fs \in SUBSET (1..shot), o \in Objs :
        MaterialBinding(fs, o) # {} => FrameBindings(fs) = MaterialBinding(fs, o)
-------------------------------------------------------------------------------
\* What each part of the state may hold.
ProgressTypeOK ==
    /\ shot \in 0..MaxShot /\ Len(seen) = shot
    /\ \A o \in Objs : /\ facts[o].occ \in 0..MaxOccurrence
                       /\ facts[o].state \in {"none", "pending", "open"}
    /\ \A e \in Episodes : rows[e].start <= rows[e].end /\ rows[e].end <= shot
    /\ ToSet(frames) \subseteq 1..shot /\ Len(frames) <= FrameCap
    /\ \A b \in ToSet(episodes) : b.event \in Episodes
    /\ Len(fusions) <= FusionCap

\* What is appended to an event rests on frames of that event: none shows another
\* object, each lies in the interval the database holds, and where an event of the
\* object was open at a frame it was this one; and no version precedes version 1.
\* Eviction, expiry, a lost stream and late writes may refuse it, not change it. And
\* the two resolvers never contradict each other.
ProgressHonest ==
    /\ ResolversAgree
    /\ \A s \in story :
        LET o == s.event[1]
        IN  /\ rows[s.event].first
            /\ \E t \in s.frames : o \in seen[t].refs
            /\ \A t \in s.frames :
                /\ seen[t].refs \subseteq {o}
                /\ o \in seen[t].refs => /\ Inside(t, rows[s.event])
                                         /\ seen[t].bind[o] \in {0, s.event[2]}
===============================================================================
