----------------------------- MODULE MaterialPool -----------------------------
(***************************************************************************)
(* EventMaterialPool (win11_event_materials.py): key frames of the events   *)
(* of a camera, kept across windows under three caps. The L2 thread shows   *)
(* it the frames of a package: the source says to which one event they      *)
(* belong, and each is copied outside the lock against a reservation made   *)
(* under it. The same thread plans the frames of a task and seals windows.  *)
(* stop() closes the pool and releases the pixels meanwhile.                *)
(*                                                                         *)
(* Every frame is of one size, so the pixels and the bytes are a number of  *)
(* frames. The pool runs in the mode per frame, the only one of nvr.py.     *)
(***************************************************************************)
EXTENDS Naturals, Sequences, FiniteSets, FiniteSetsExt, Functions

CONSTANTS
    EventKeys,      \* identity, event and object
    PoolFrames,     \* frames, 1..n in the order of their capture
    Turning,        \* those with the reason change_start: never a victim of the total
    PoolWins,       \* windows
    MaxEvents, MaxPerEvent, MaxHeld,    \* the caps of the pool
    SealedCap,      \* sealed_window_cap
    PlanLimit,      \* frames of a task
    MaxShown        \* bound: calls of observe

ASSUME PoolAssumption ==
    /\ IsFiniteSet(PoolFrames) /\ PoolFrames = 1..Cardinality(PoolFrames)
    /\ Turning \subseteq PoolFrames
    /\ {MaxEvents, MaxPerEvent, MaxHeld, SealedCap, PlanLimit} \subseteq Nat \ {0}
    /\ MaxShown \in Nat

NoEvent == "no event"
NoPlan == [key |-> NoEvent, frames |-> {}]

VARIABLES
    live,           \* _events: the frames of each event, with the call that brought them
    lastShown,      \* last_mono_ms of each event
    book,           \* _held_pixels
    reserved,       \* _reserved_temp_pixels, _live_reservations
    shown,          \* the clock: calls of observe
    windowEvent,    \* _window_events
    sealedWins,     \* _sealed_windows, oldest first
    observer,       \* the L2 thread
    plan,           \* the plan of the package in hand
    poolState       \* open, closed (close_begin), released (release_pixels)
pvars == <<live, lastShown, book, reserved, shown, windowEvent, sealedWins, observer,
           plan, poolState>>

Events == DOMAIN live
\* The entries of a pool, each with its event, and their number.
EntriesOf(pool) == UNION {{k} \X pool[k] : k \in DOMAIN pool}
PixelsOf(pool) == Cardinality(EntriesOf(pool))
\* What a walk over the entries finds; a released frame has no pixels.
HeldPixels == IF poolState = "released" THEN 0 ELSE PixelsOf(live)
Without(k) == [e \in Events \ {k} |-> live[e]]

PoolInit ==
    /\ live = [k \in {} |-> {}] /\ lastShown = [k \in EventKeys |-> 0]
    /\ book = 0 /\ reserved = 0 /\ shown = 0
    /\ windowEvent = [w \in PoolWins |-> NoEvent] /\ sealedWins = <<>>
    /\ observer = [pc |-> "idle", key |-> NoEvent, rows |-> {}]
    /\ plan = NoPlan
    /\ poolState = "open"
-------------------------------------------------------------------------------
(* observe *)

\* _evict_events_locked: a new event drives out the one shown longest ago.
Oldest == CHOOSE k \in Events : \A e \in Events : lastShown[k] <= lastShown[e]
AfterCreation(k) ==
    IF k \in Events THEN live
    ELSE LET kept == IF Cardinality(Events) < MaxEvents THEN live ELSE Without(Oldest)
         IN [e \in DOMAIN kept \cup {k} |-> IF e = k THEN {} ELSE kept[e]]

\* _observe_frame_level: the source binds the rows to one event, or the package stays
\* with its window. The entry is found or made.
Show(w, k, rows) ==
    /\ observer.pc = "idle" /\ poolState = "open" /\ shown < MaxShown
    /\ shown' = shown + 1
    /\ live' = AfterCreation(k)
    /\ book' = book - (PixelsOf(live) - PixelsOf(live'))
    /\ lastShown' = [lastShown EXCEPT ![k] = shown + 1]
    /\ windowEvent' = [windowEvent EXCEPT ![w] = k]
    /\ observer' = [pc |-> "store", key |-> k, rows |-> rows]
    /\ plan' = NoPlan
    /\ UNCHANGED <<reserved, sealedWins, poolState>>

\* _capacity_victim_locked: the frame shown longest ago that is no turning point.
VictimAge(k, x) == x.at * (Cardinality(PoolFrames) + 1) + x.id
Evictable == {v \in EntriesOf(live) : v[2].id \notin Turning}
Victim == CHOOSE v \in Evictable :
            \A u \in Evictable : VictimAge(v[1], v[2]) <= VictimAge(u[1], u[2])

\* _make_room_locked, one frame of room: the event that loses its last frame goes.
Full == PixelsOf(live) + reserved + 1 > MaxHeld
Roomy ==
    IF ~Full THEN live
    ELSE LET k == Victim[1]
             rest == live[k] \ {Victim[2]}
         IN IF rest = {} THEN Without(k) ELSE [live EXCEPT ![k] = rest]

\* _store_row, first half: a frame known is not stored again; a frame that cannot be
\* planned, a closed pool, an event no longer there and a pool full of turning points
\* refuse it; else room is reserved for its copy.
StoreRow ==
    /\ observer.pc = "store" /\ observer.rows # {}
    /\ LET f == Min(observer.rows)
           k == observer.key
           skip == observer' = [observer EXCEPT !.rows = @ \ {f}]
       IN  \/ skip /\ UNCHANGED <<live, book, reserved>>
           \/ /\ poolState = "open" /\ k \in Events /\ \A x \in live[k] : x.id # f
              /\ Full => Evictable # {}
              /\ live' = Roomy
              /\ book' = book - (PixelsOf(live) - PixelsOf(live'))
              /\ reserved' = reserved + 1
              /\ observer' = [observer EXCEPT !.pc = "copy"]
    /\ UNCHANGED <<lastShown, shown, windowEvent, sealedWins, plan, poolState>>

\* _trim_event_locked: beyond its cap an event loses a middle frame, of two the first.
InOrder(s, f) == \A x \in s : f.id <= x.id
Trimmed(s) ==
    IF Cardinality(s) <= MaxPerEvent THEN s
    ELSE LET first == CHOOSE x \in s : InOrder(s, x)
             last == CHOOSE x \in s : \A y \in s : y.id <= x.id
             inner == s \ {first, last}
             middle == {x \in inner : x.id \notin Turning}
             from == IF Cardinality(s) <= 2 THEN s ELSE IF middle # {} THEN middle ELSE inner
         IN s \ {CHOOSE x \in from : InOrder(from, x)}

\* Mutant: the pool is not asked again after the copy.
MutantCopyRow ==
    /\ observer.pc = "copy"
    /\ LET f == Min(observer.rows)
           k == observer.key
       IN  /\ \/ UNCHANGED <<live, book>>
              \/ /\ k \in Events
                 /\ live' = [live EXCEPT ![k] = @ \cup {[id |-> f, at |-> shown]}]
                 /\ book' = book + 1
           /\ observer' = [observer EXCEPT !.pc = "store", !.rows = @ \ {f}]
    /\ reserved' = reserved - 1
    /\ UNCHANGED <<lastShown, shown, windowEvent, sealedWins, plan, poolState>>

\* _store_row, second half: the copy failed, or is put in its place unless the pool
\* was closed or the event evicted meanwhile.
CopyRow ==
    /\ observer.pc = "copy"
    /\ LET f == Min(observer.rows)
           k == observer.key
       IN  /\ \/ UNCHANGED <<live, book>>
              \/ /\ poolState = "open" /\ k \in Events
                 /\ live' = [live EXCEPT ![k] = Trimmed(@ \cup {[id |-> f, at |-> shown]})]
                 /\ book' = book + 1 - (Cardinality(live[k]) + 1 - Cardinality(live'[k]))
           /\ observer' = [observer EXCEPT !.pc = "store", !.rows = @ \ {f}]
    /\ reserved' = reserved - 1
    /\ UNCHANGED <<lastShown, shown, windowEvent, sealedWins, plan, poolState>>

ShowEnd ==
    /\ observer.pc = "store" /\ observer.rows = {}
    /\ observer' = [observer EXCEPT !.pc = "idle", !.key = NoEvent]
    /\ UNCHANGED <<live, lastShown, book, reserved, shown, windowEvent, sealedWins, plan,
                   poolState>>
-------------------------------------------------------------------------------
(* plan_frames and forget_window *)

\* _merge_and_bound: within the limit all stay; else the earliest, the latest and as
\* many turning points as there is room for, and then some of the others.
Bounded(frames, turning, chosen) ==
    LET ends == {Min(frames), Max(frames)}
        turns == turning \ ends
        size == IF PlanLimit > Cardinality(ends) THEN PlanLimit ELSE Cardinality(ends)
        room == size - Cardinality(ends)
    IN IF Cardinality(frames) <= PlanLimit THEN chosen = frames
       ELSE /\ ends \subseteq chosen
            /\ Cardinality(chosen) = size
            /\ {u \in turns : Cardinality({v \in turns : v <= u}) <= room} \subseteq chosen

\* plan_frames: the primary frames of a package with those of its event, found by a
\* query of the source or by the index of the window. A closed pool, a sealed window
\* and an event without frames leave the package with its own.
PlanFrames(w, primary) ==
    /\ observer.pc = "idle" /\ plan = NoPlan
    /\ \/ plan' = [key |-> NoEvent, frames |-> primary]
       \/ /\ poolState = "open" /\ w \notin Range(sealedWins)
          /\ \E k \in {e \in Events : live[e] # {}} :
                LET carried == {x.id : x \in live[k]}
                IN \E chosen \in SUBSET (primary \cup carried) :
                    /\ Bounded(primary \cup carried, carried \cap Turning, chosen)
                    /\ plan' = [key |-> k, frames |-> chosen]
    /\ UNCHANGED <<live, lastShown, book, reserved, shown, windowEvent, sealedWins,
                   observer, poolState>>

\* forget_window: a window is sealed; the memory of the sealed ones is bounded.
ForgetWindow(w) ==
    /\ observer.pc = "idle"
    /\ windowEvent' = [windowEvent EXCEPT ![w] = NoEvent]
    /\ sealedWins' = IF w \in Range(sealedWins) THEN sealedWins
                     ELSE IF Len(sealedWins) < SealedCap THEN Append(sealedWins, w)
                     ELSE Append(Tail(sealedWins), w)
    /\ plan' = NoPlan
    /\ UNCHANGED <<live, lastShown, book, reserved, shown, observer, poolState>>
-------------------------------------------------------------------------------
(* The end of the pool, in stop() *)

PoolClose ==
    /\ poolState = "open"
    /\ poolState' = "closed"
    /\ UNCHANGED <<live, lastShown, book, reserved, shown, windowEvent, sealedWins,
                   observer, plan>>

\* The L2 thread ends when it is told to stop, after the package in its hands.
ObserverEnds ==
    /\ observer.pc = "idle" /\ poolState # "open"
    /\ observer' = [observer EXCEPT !.pc = "ended"]
    /\ UNCHANGED <<live, lastShown, book, reserved, shown, windowEvent, sealedWins, plan,
                   poolState>>

\* release_pixels: after close_begin, with no reservation open, and only when stop()
\* has seen the threads and the models end (dependencies_done).
Releasable == poolState = "closed" /\ reserved = 0 /\ observer.pc = "ended"
ReleasePixels ==
    /\ Releasable
    /\ book' = book - HeldPixels
    /\ poolState' = "released"
    /\ UNCHANGED <<live, lastShown, reserved, shown, windowEvent, sealedWins, observer,
                   plan>>

PoolNext ==
    \/ \E w \in PoolWins, rows \in SUBSET PoolFrames \ {{}} :
        \/ \E k \in EventKeys : Show(w, k, rows)
        \/ PlanFrames(w, rows)
    \/ StoreRow \/ CopyRow \/ ShowEnd
    \/ \E w \in PoolWins : ForgetWindow(w)
    \/ PoolClose \/ ObserverEnds \/ ReleasePixels
-------------------------------------------------------------------------------
(* Properties *)

PoolTypeOK ==
    /\ Events \subseteq EventKeys
    /\ \A k \in Events : live[k] \subseteq [id : PoolFrames, at : 1..MaxShown]
    /\ book \in Nat /\ reserved \in 0..1 /\ shown \in 0..MaxShown
    /\ windowEvent \in [PoolWins -> EventKeys \cup {NoEvent}]
    /\ Range(sealedWins) \subseteq PoolWins /\ Len(sealedWins) <= SealedCap
    /\ observer.pc \in {"idle", "store", "copy", "ended"}
    /\ plan.frames \subseteq PoolFrames
    /\ poolState \in {"open", "closed", "released"}

\* The book of the pool is what its events hold, to the frame, with the reservation of
\* the copy in progress on top and never beyond the caps, whatever was evicted,
\* closed or refused between the reservation and the end of its copy. After the
\* release the pool holds nothing, and no copy is under way that could still come.
PoolAccounted ==
    /\ book = HeldPixels
    /\ reserved = IF observer.pc = "copy" THEN 1 ELSE 0
    /\ HeldPixels + reserved <= MaxHeld
    /\ Cardinality(Events) <= MaxEvents
    /\ \A k \in Events :
        /\ Cardinality(live[k]) <= MaxPerEvent
        /\ \A x, y \in live[k] : x.id = y.id => x = y
    /\ poolState = "released" => book = 0 /\ reserved = 0

===============================================================================
