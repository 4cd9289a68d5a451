------------------------------ MODULE L2Runtime ------------------------------
(***************************************************************************)
(* The material windows of the Win11 path: WindowScheduler                 *)
(* (win11_windows.py), which turns the materials of the cameras into       *)
(* windows, and L2Runtime (win11_l2_runtime.py), whose L2 thread cuts a    *)
(* window into branches, whose L3 thread understands them one by one from  *)
(* a common bounded queue, and whose stop() closes what is left.           *)
(*                                                                         *)
(* Time is abstracted: wherever the code compares an age with a limit, the *)
(* model takes either outcome. Inference is a choice of its outcomes. What *)
(* is written at one place outside the locks is one step of its thread.    *)
(***************************************************************************)
EXTENDS Naturals, Sequences, FiniteSets, SequencesExt

CONSTANTS
    L2Cams,         \* cameras, 1..n in the order of their rotation
    Branches,       \* what windows may be cut into
    QueueCap,       \* l3_max_queue
    MaxWin,         \* bound: windows
    L2Bounds        \* bounds of the instances: materials (pkg), changes of identity
                    \* (changes) and branches of a window (cut), of each camera;
                    \* whether max_window_hold_s can be reached (hold)

ASSUME L2Assumption ==
    /\ IsFiniteSet(L2Cams) /\ L2Cams = 1..Cardinality(L2Cams) /\ L2Cams # {}
    /\ IsFiniteSet(Branches)
    /\ QueueCap \in Nat \ {0}
    /\ MaxWin \in Nat
    /\ \A i \in L2Bounds : /\ i.pkg \in [L2Cams -> Nat] /\ i.changes \in [L2Cams -> Nat]
                           /\ i.cut \in [L2Cams -> SUBSET Branches] /\ i.hold \in BOOLEAN

VARIABLES
    bounds,         \* the instance, chosen at the start
    mats,           \* per camera: the identity of each material made for it
    taken,          \* per camera: how many of them the scheduler has taken
    waiting,        \* cam["pending"]: materials of the next window
    leased,         \* materials taken and not yet returned to the store
    frozen,         \* windows that still occupy their camera
    cursor,         \* _cursor: the camera served last
    made,           \* _window_seq
    win,            \* the windows: handle and entry of _open_windows
    queue,          \* _l3_queues
    rotor,          \* _l3_rr: the camera the next task is looked for at first
    registry,       \* _registry: the identity in force
    epoch,          \* _identity_epoch
    stopping,       \* _stop
    committed,      \* stop was committed: _commit_epoch moved, _l3_stop set
    l2, l3,         \* the two threads
    stopper,        \* the thread in stop()
    history,        \* L3 records appended
    versions        \* L4 versions appended for branches understood

l2vars == <<bounds, mats, taken, waiting, leased, frozen, cursor, made, win, queue,
            rotor, registry, epoch, stopping, committed, l2, l3, stopper,
            history, versions>>
materials == <<bounds, mats, taken, waiting, leased, frozen, cursor, made>>
authority == <<registry, epoch, stopping, committed>>
published == <<history, versions>>

Wins == 1..MaxWin
\* A task is known by its branch: window and branch kind.
L2Tasks == [w : Wins, b : Branches]
\* understood; failed or refused by the model; given up (too old, of another identity,
\* evicted, cut by the budget, cancelled by stop).
Terminals == {"ok", "failed", "gap"}
NoTask == [w |-> 0, b |-> "none"]

CamOf(t) == win[t.w].cam
IdentityOk(w) == registry[win[w].cam] = win[w].id
\* _open_windows: what stop(), expiry and the publication look at.
Listed(w) == win[w].st \in {"producing", "sealed"}
Pending(w, b) == Listed(w) /\ win[w].br[b] = "pending"

L2Init ==
    /\ bounds \in L2Bounds
    /\ mats = [c \in L2Cams |-> <<>>]
    /\ taken = [c \in L2Cams |-> 0]
    /\ waiting = [c \in L2Cams |-> <<>>]
    /\ leased = [c \in L2Cams |-> {}]
    /\ frozen = {} /\ cursor = 0 /\ made = 0
    /\ win = [w \in Wins |-> [cam |-> 1, mats |-> {}, id |-> 0, st |-> "unused",
                              done |-> FALSE, br |-> [b \in Branches |-> "none"]]]
    /\ queue = [c \in L2Cams |-> <<>>]
    /\ rotor = 1
    /\ registry = [c \in L2Cams |-> 1] /\ epoch = 0
    /\ stopping = FALSE /\ committed = FALSE
    /\ l2 = [pc |-> "idle", at |-> NoTask, victims |-> {}]
    /\ l3 = [pc |-> "idle", at |-> NoTask, good |-> TRUE, epoch |-> 0]
    /\ stopper = [pc |-> "none", tasks |-> {}, keys |-> {}, at |-> 0]
    /\ history = {} /\ versions = {}
-------------------------------------------------------------------------------
(* The store makes materials ready; identities change. *)

\* Materials are looked at by a turn of the L2 thread, so they may as well come there.
Arrive(c) ==
    /\ l2.pc = "turn"
    /\ Len(mats[c]) < bounds.pkg[c]
    /\ mats' = [mats EXCEPT ![c] = Append(@, registry[c])]
    /\ UNCHANGED <<bounds, taken, waiting, leased, frozen, cursor, made, win, queue, rotor,
                   authority, l2, l3, stopper, published>>

\* set_camera_identity: under _publish_lock, which the L3 thread holds from the
\* gate of a publication to its grant.
SetIdentity(c) ==
    /\ registry[c] <= bounds.changes[c]
    /\ l3.pc # "grant"
    /\ registry' = [registry EXCEPT ![c] = @ + 1]
    /\ epoch' = epoch + 1
    /\ UNCHANGED <<materials, win, queue, rotor, stopping, committed, l2, l3,
                   stopper, published>>
-------------------------------------------------------------------------------
(* WindowScheduler.acquire, atomic under the lock of the scheduler. Its     *)
(* default of two pending materials per camera and one window in flight is  *)
(* the only one the program uses.                                          *)

\* The part of a line in S, in its order.
Kept(line, S) ==
    LET in == {i \in DOMAIN line : line[i] \in S}
        place(i) == Cardinality({j \in in : j <= i})
    IN  [k \in 1..Cardinality(in) |-> line[CHOOSE i \in in : place(i) = k]]

\* Materials ready in the store, in their order.
Fresh(c) == [i \in 1..(Len(mats[c]) - taken[c]) |-> taken[c] + i]
Live(c, line, dead) == Kept(line, {n \in ToSet(line) : <<c, n>> \notin dead})

\* _absorb_pending_locked: a full waiting line keeps its start and the latest.
Absorbed(line) == IF Len(line) <= 2 THEN line ELSE <<Head(line), line[Len(line)]>>

\* _harvest_locked: an occupied camera's materials join its waiting line.
Harvested(c, dead) == Absorbed(waiting[c] \o Live(c, Fresh(c), dead))

\* _promote_locked, else _fresh_window_locked: what a free camera would offer.
Offer(c, dead) ==
    IF waiting[c] # <<>>
    THEN Live(c, waiting[c], dead)
    ELSE LET alive == Live(c, Fresh(c), dead)
         IN IF Len(alive) <= 2 THEN alive ELSE SubSeq(alive, 1, 2)

\* Where the store stands after the camera was looked at.
TakenBy(c, dead) ==
    IF waiting[c] # <<>> THEN taken[c]
    ELSE IF Len(Offer(c, dead)) = 2 THEN Offer(c, dead)[2] ELSE Len(mats[c])

\* The rotation begins behind the camera served last.
TurnOf(c) == IF c > cursor THEN c ELSE c + Cardinality(L2Cams)

\* One call: windows past their age are lifted, busy cameras harvest, and the
\* first free camera in rotation that has something gets a window. "dead" are the
\* materials found too old; they go back to the store.
Acquire ==
    /\ l2.pc = "turn" /\ stopper.pc # "closed"
    /\ \E lifted \in SUBSET IF bounds.hold THEN frozen ELSE {},
          dead \in SUBSET UNION {{<<c, n>> : n \in ToSet(waiting[c] \o Fresh(c))} : c \in L2Cams} :
        LET still == frozen \ lifted
            busy == {win[w].cam : w \in still}
            free == L2Cams \ busy
            offering == {c \in free : Offer(c, dead) # <<>>}
            served == {c \in offering : \A d \in offering : TurnOf(c) <= TurnOf(d)}
            visited == {d \in free : \A c \in served : TurnOf(d) <= TurnOf(c)}
            line == [c \in L2Cams |-> IF c \in busy THEN Harvested(c, dead)
                                      ELSE IF c \in visited THEN <<>>
                                      ELSE waiting[c]]
        IN  /\ served # {} => made < MaxWin
            /\ taken' = [c \in L2Cams |-> IF c \in busy THEN Len(mats[c])
                                          ELSE IF c \in visited THEN TakenBy(c, dead)
                                          ELSE taken[c]]
            /\ waiting' = line
            /\ leased' = [c \in L2Cams |->
                            (leased[c] \ ToSet(waiting[c])) \cup ToSet(line[c])
                              \cup IF c \in served THEN ToSet(Offer(c, dead)) ELSE {}]
            /\ \/ /\ served = {}
                  /\ frozen' = still
                  /\ l2' = [l2 EXCEPT !.pc = "idle"]
                  /\ UNCHANGED <<cursor, made, win>>
               \/ \E c \in served :
                    /\ made' = made + 1
                    /\ frozen' = still \cup {made + 1}
                    /\ cursor' = c
                    /\ win' = [win EXCEPT ![made + 1] =
                                 [@ EXCEPT !.cam = c, !.st = "held",
                                           !.mats = ToSet(Offer(c, dead))]]
                    /\ l2' = [l2 EXCEPT !.pc = "register", !.at = [w |-> made + 1, b |-> "none"]]
    /\ UNCHANGED <<bounds, mats, queue, rotor, authority, l3, stopper, published>>

\* A scheduler that was closed offers nothing.
AcquireClosed ==
    /\ l2.pc = "turn" /\ stopper.pc = "closed"
    /\ l2' = [l2 EXCEPT !.pc = "idle"]
    /\ UNCHANGED <<materials, win, queue, rotor, authority, l3, stopper, published>>

\* _run: a turn of the L2 thread; it first sweeps the windows past their lifetime.
Turn ==
    /\ l2.pc = "idle" /\ ~stopping
    /\ l2' = [l2 EXCEPT !.pc = "turn"]
    /\ UNCHANGED <<materials, win, queue, rotor, authority, l3, stopper, published>>
-------------------------------------------------------------------------------
(* Windows and their branches. *)

\* handle.release (returns the lease) and mark_window_settled (frees the camera).
Returned(w) == [leased EXCEPT ![win[w].cam] = @ \ win[w].mats]

\* _maybe_settle_window: a sealed window without a pending branch is done.
Settleable(e) ==
    e.st = "sealed" /\ ~e.done /\ \A b \in Branches : e.br[b] # "pending"
SettleNow(w, e) ==
    /\ win' = [win EXCEPT ![w] = IF Settleable(e) THEN [e EXCEPT !.st = "gone"] ELSE e]
    /\ frozen' = IF Settleable(e) THEN frozen \ {w} ELSE frozen
MaybeSettle(w) == SettleNow(w, win[w])

\* _settle_branch_terminal: a pending branch gets its terminal state, once.
Judge(w, b, terminal) ==
    IF Pending(w, b)
    THEN SettleNow(w, [win[w] EXCEPT !.br[b] = terminal])
    ELSE UNCHANGED <<win, frozen>>

\* Several branches of windows that need not be sealed, one after the other.
JudgeAll(tasks, terminal) ==
    LET hit(w) == {b \in Branches : [w |-> w, b |-> b] \in tasks /\ Pending(w, b)}
        entry(w) == [win[w] EXCEPT !.br = [b \in Branches |->
                        IF b \in hit(w) THEN terminal ELSE win[w].br[b]]]
        over == {w \in Wins : hit(w) # {} /\ Settleable(entry(w))}
    IN  /\ win' = [w \in Wins |-> IF w \in over THEN [entry(w) EXCEPT !.st = "gone"]
                                  ELSE entry(w)]
        /\ frozen' = frozen \ over

\* _register_window: materials of one identity, the one in force; else back.
RegisterWindow ==
    /\ l2.pc = "register"
    /\ LET w == l2.at.w
           c == win[w].cam
           ids == {mats[c][n] : n \in win[w].mats}
       IN  \/ /\ ids # {registry[c]}
              /\ leased' = Returned(w)
              /\ frozen' = frozen \ {w}
              /\ win' = [win EXCEPT ![w].st = "gone"]
              /\ l2' = [l2 EXCEPT !.pc = "idle", !.at = NoTask]
           \/ /\ ids = {registry[c]}
              /\ win' = [win EXCEPT ![w] = [@ EXCEPT !.st = "producing", !.id = registry[c]]]
              /\ l2' = [l2 EXCEPT !.pc = "process"]
              /\ UNCHANGED <<leased, frozen>>
    /\ UNCHANGED <<bounds, mats, taken, waiting, cursor, made, queue, rotor, authority, l3,
                   stopper, published>>

\* _process_handle: each material is detected and cut in branches
\* (_enqueue_l3_fallback, _maybe_enqueue_l3).
CutOf(w) == bounds.cut[win[w].cam]

\* A branch is registered while the window is being produced ...
Producing(b) ==
    /\ l2.pc = "process" /\ b \in CutOf(l2.at.w)
    /\ LET e == win[l2.at.w] IN e.st = "producing" /\ ~e.done /\ e.br[b] = "none"

RegisterBranch(b) ==
    /\ Producing(b)
    /\ win' = [win EXCEPT ![l2.at.w].br[b] = "pending"]
    /\ l2' = [l2 EXCEPT !.pc = "check", !.at.b = b]
    /\ UNCHANGED <<materials, queue, rotor, authority, l3, stopper, published>>

\* ... or, refused by the budget of the window, registered and settled
\* (_settle_l3_plan).
DropBranch(b) ==
    /\ Producing(b)
    /\ win' = [win EXCEPT ![l2.at.w].br[b] = "gap"]
    /\ UNCHANGED <<materials, queue, rotor, authority, l2, l3, stopper, published>>

\* _enqueue_l3_task before the lock: identity, stop and age.
CheckTask ==
    /\ l2.pc = "check"
    /\ LET w == l2.at.w
           b == l2.at.b
       IN  \/ /\ ~IdentityOk(w) /\ Judge(w, b, "gap")
              /\ l2' = [l2 EXCEPT !.pc = "process"]
           \/ /\ IdentityOk(w) /\ stopping /\ Judge(w, b, "gap")
              /\ l2' = [l2 EXCEPT !.pc = "process"]
           \/ /\ IdentityOk(w) /\ ~stopping /\ Judge(w, b, "gap")
              /\ l2' = [l2 EXCEPT !.pc = "process"]
           \/ /\ IdentityOk(w) /\ ~stopping
              /\ l2' = [l2 EXCEPT !.pc = "insert"]
              /\ UNCHANGED <<win, frozen>>
    /\ UNCHANGED <<bounds, mats, taken, waiting, leased, cursor, made, queue, rotor,
                   authority, l3, stopper, published>>

Queued == UNION {ToSet(queue[c]) : c \in L2Cams}

\* Mutant: nothing leaves a full queue.
MutantVictims(w) == {}

\* _evict_for_capacity_locked: the oldest other window as a whole, else the
\* oldest task of the same window. Windows enter the queue in their order.
Victims(w) ==
    IF Cardinality(Queued) < QueueCap THEN {}
    ELSE LET others == {t.w : t \in Queued} \ {w}
         IN IF others # {}
            THEN {t \in Queued : t.w = CHOOSE o \in others : \A p \in others : o <= p}
            ELSE {Head(queue[win[w].cam])}

\* Mutant: what was evicted is not settled.
MutantInsertTask ==
    /\ l2.pc = "insert"
    /\ LET w == l2.at.w
           c == win[w].cam
       IN  IF ~stopping /\ Pending(w, l2.at.b) /\ ~win[w].done
           THEN queue' = [d \in L2Cams |->
                    LET rest == Kept(queue[d], Queued \ Victims(w))
                    IN IF d = c THEN Append(rest, l2.at) ELSE rest] /\ UNCHANGED <<win, frozen>>
           ELSE UNCHANGED queue /\ Judge(w, l2.at.b, "gap")
    /\ l2' = [l2 EXCEPT !.pc = "process"]
    /\ UNCHANGED <<bounds, mats, taken, waiting, leased, cursor, made, rotor, authority, l3,
                   stopper, published>>

\* Mutant: neither stop nor the window is checked again under the lock.
MutantInsertUnchecked ==
    /\ l2.pc = "insert"
    /\ LET out == Victims(l2.at.w)
       IN  /\ queue' = [d \in L2Cams |->
                LET rest == Kept(queue[d], Queued \ out)
                IN IF d = CamOf(l2.at) THEN Append(rest, l2.at) ELSE rest]
           /\ l2' = [l2 EXCEPT !.pc = IF out = {} THEN "process" ELSE "evict", !.victims = out]
    /\ UNCHANGED <<bounds, mats, taken, waiting, leased, frozen, cursor, made, win, rotor,
                   authority, l3, stopper, published>>

\* _enqueue_l3_task under _l3_lock: stop and the window are checked again.
InsertTask ==
    /\ l2.pc = "insert"
    /\ LET w == l2.at.w
           b == l2.at.b
           c == win[w].cam
           out == Victims(w)
       IN  \/ /\ stopping
              /\ Judge(w, b, "gap")
              /\ l2' = [l2 EXCEPT !.pc = "process"]
              /\ UNCHANGED queue
           \/ /\ ~stopping /\ (~Pending(w, b) \/ win[w].done)
              /\ l2' = [l2 EXCEPT !.pc = "process"]
              /\ UNCHANGED <<win, frozen, queue>>
           \/ /\ ~stopping /\ Pending(w, b) /\ ~win[w].done
              /\ queue' = [d \in L2Cams |->
                    LET rest == Kept(queue[d], Queued \ out)
                    IN IF d = c THEN Append(rest, [w |-> w, b |-> b]) ELSE rest]
              /\ l2' = [l2 EXCEPT !.pc = IF out = {} THEN "process" ELSE "evict",
                                  !.victims = out]
              /\ UNCHANGED <<win, frozen>>
    /\ UNCHANGED <<bounds, mats, taken, waiting, leased, cursor, made, rotor, authority, l3,
                   stopper, published>>

\* After the lock: what was evicted is settled.
SettleEvicted ==
    /\ l2.pc = "evict"
    /\ JudgeAll(l2.victims, "gap")
    /\ l2' = [l2 EXCEPT !.pc = "process", !.victims = {}]
    /\ UNCHANGED <<bounds, mats, taken, waiting, leased, cursor, made, queue, rotor,
                   authority, l3, stopper, published>>

\* The end of _process_handle, after all branches, none, or a stop between two
\* materials: the lease goes back and the window is sealed (_seal_window).
SealWindow ==
    /\ l2.pc = "process"
    /\ leased' = Returned(l2.at.w)
    /\ LET w == l2.at.w
       IN IF Listed(w) THEN SettleNow(w, [win[w] EXCEPT !.st = "sealed"])
          ELSE UNCHANGED <<win, frozen>>
    /\ l2' = [l2 EXCEPT !.pc = "idle", !.at = NoTask]
    /\ UNCHANGED <<bounds, mats, taken, waiting, cursor, made, queue, rotor, authority, l3,
                   stopper, published>>

\* Mutant: every branch gets the terminal state, whatever it had.
MutantClosed(w, terminal) ==
    /\ win' = [win EXCEPT ![w] =
                  [@ EXCEPT !.st = "gone",
                            !.br = [b \in Branches |->
                               IF win[w].br[b] = "none" THEN "none" ELSE terminal]]]
    /\ leased' = Returned(w)
    /\ frozen' = frozen \ {w}

\* A window taken off the books: what is pending gets the terminal state, the
\* lease and the camera are given back.
Closed(w, terminal) ==
    /\ win' = [win EXCEPT ![w] =
                  [@ EXCEPT !.st = "gone",
                            !.br = [b \in Branches |->
                               IF win[w].br[b] = "pending" THEN terminal ELSE win[w].br[b]]]]
    /\ leased' = Returned(w)
    /\ frozen' = frozen \ {w}

\* Mutant: only a window nothing was heard of is found too old.
MutantExpireWindow(w) ==
    /\ l2.pc = "turn"
    /\ Listed(w) /\ ~win[w].done /\ \A b \in Branches : win[w].br[b] \notin {"pending", "failed"}
    /\ win' = [win EXCEPT ![w].done = TRUE]
    /\ l2' = [l2 EXCEPT !.pc = "expire", !.at = [w |-> w, b |-> "none"]]
    /\ UNCHANGED <<materials, queue, rotor, authority, l3, stopper, published>>

\* _sweep_open_windows and _expire_window: a window past its lifetime. It is
\* marked first; then its branches are settled and its tasks leave the queue.
ExpireWindow(w) ==
    /\ l2.pc = "turn"
    /\ Listed(w) /\ ~win[w].done
    /\ win' = [win EXCEPT ![w].done = TRUE]
    /\ l2' = [l2 EXCEPT !.pc = "expire", !.at = [w |-> w, b |-> "none"]]
    /\ UNCHANGED <<materials, queue, rotor, authority, l3, stopper, published>>

ExpireEnd ==
    /\ l2.pc = "expire"
    /\ Closed(l2.at.w, "gap")
    /\ queue' = [c \in L2Cams |-> Kept(queue[c], {t \in Queued : t.w # l2.at.w})]
    /\ l2' = [l2 EXCEPT !.pc = "turn", !.at = NoTask]
    /\ UNCHANGED <<bounds, mats, taken, waiting, cursor, made, rotor, authority, l3, stopper,
                   published>>

L2Work ==
    \/ Turn \/ Acquire \/ AcquireClosed \/ RegisterWindow \/ CheckTask \/ InsertTask \/ SettleEvicted
    \/ SealWindow \/ ExpireEnd
    \/ \E b \in Branches : RegisterBranch(b) \/ DropBranch(b)
    \/ \E w \in Wins : ExpireWindow(w)
-------------------------------------------------------------------------------
(* The L3 thread. *)

\* _l3_dequeue: the cameras in turn, from the one after the last served.
Dequeue ==
    /\ l3.pc = "idle" /\ ~committed
    /\ \E c \in L2Cams :
        LET n == Cardinality(L2Cams)
            distance(d) == (d + n - rotor) % n
        IN  /\ queue[c] # <<>>
            /\ \A d \in L2Cams : queue[d] # <<>> => distance(c) <= distance(d)
            /\ queue' = [queue EXCEPT ![c] = Tail(@)]
            /\ rotor' = (c % n) + 1
            /\ l3' = [l3 EXCEPT !.pc = "gate", !.at = Head(queue[c])]
    /\ UNCHANGED <<materials, win, authority, l2, stopper, published>>

L3Idle == l3' = [l3 EXCEPT !.pc = "idle", !.at = NoTask, !.good = TRUE, !.epoch = 0]

\* _l3_process_entry before the model: stop, identity and the time in the queue.
L3Gate ==
    /\ l3.pc = "gate"
    /\ LET w == l3.at.w
           b == l3.at.b
       IN  \/ stopping /\ Judge(w, b, "gap") /\ L3Idle
           \/ ~stopping /\ ~IdentityOk(w) /\ Judge(w, b, "gap") /\ L3Idle
           \/ ~stopping /\ IdentityOk(w) /\ Judge(w, b, "gap") /\ L3Idle
           \/ /\ ~stopping /\ IdentityOk(w)
              /\ l3' = [l3 EXCEPT !.pc = "model"]
              /\ UNCHANGED <<win, frozen>>
    /\ UNCHANGED <<bounds, mats, taken, waiting, leased, cursor, made, queue, rotor,
                   authority, l2, stopper, published>>

\* The model raised, failed (its branch is settled at once, the window later), or
\* answered.
Understand ==
    /\ l3.pc = "model"
    /\ LET w == l3.at.w
           b == l3.at.b
       IN  \/ Judge(w, b, "failed") /\ L3Idle
           \/ /\ Pending(w, b)
              /\ win' = [win EXCEPT ![w].br[b] = "failed"]
              /\ l3' = [l3 EXCEPT !.pc = "publish", !.good = FALSE]
              /\ UNCHANGED frozen
           \/ ~Pending(w, b) /\ L3Idle /\ UNCHANGED <<win, frozen>>
           \/ /\ l3' = [l3 EXCEPT !.pc = "publish"]
              /\ UNCHANGED <<win, frozen>>
    /\ UNCHANGED <<bounds, mats, taken, waiting, leased, cursor, made, queue, rotor,
                   authority, l2, stopper, published>>

\* _publish_l3_record, the gate.
PublishGate ==
    /\ l3.pc = "publish"
    /\ LET w == l3.at.w
           b == l3.at.b
       IN  \/ stopping /\ Judge(w, b, "gap") /\ L3Idle
           \/ ~stopping /\ ~IdentityOk(w) /\ Judge(w, b, "gap") /\ L3Idle
           \/ ~stopping /\ IdentityOk(w) /\ Judge(w, b, "gap") /\ L3Idle
           \/ /\ ~stopping /\ IdentityOk(w)
              /\ l3' = [l3 EXCEPT !.pc = IF l3.good THEN "grant" ELSE "append"]
              /\ UNCHANGED <<win, frozen>>
    /\ UNCHANGED <<bounds, mats, taken, waiting, leased, cursor, made, queue, rotor,
                   authority, l2, stopper, published>>

\* _publish_l3_record under _l3_lock and _win_lock: stop, window and age again,
\* then the branch is understood.
Grant ==
    /\ l3.pc = "grant"
    /\ LET w == l3.at.w
           b == l3.at.b
       IN  \/ (~Pending(w, b) \/ win[w].done) /\ MaybeSettle(w) /\ L3Idle
           \/ /\ Pending(w, b) /\ ~win[w].done /\ committed
              /\ Judge(w, b, "gap") /\ L3Idle
           \/ /\ Pending(w, b) /\ ~win[w].done /\ ~committed
              /\ Judge(w, b, "gap") /\ L3Idle
           \/ /\ Pending(w, b) /\ ~win[w].done /\ ~committed
              /\ win' = [win EXCEPT ![w].br[b] = "ok"]
              /\ l3' = [l3 EXCEPT !.pc = "append"]
              /\ UNCHANGED frozen
    /\ UNCHANGED <<bounds, mats, taken, waiting, leased, cursor, made, queue, rotor,
                   authority, l2, stopper, published>>

\* The record is saved; an understood branch goes on to the fusion.
AppendRecord ==
    /\ l3.pc = "append"
    /\ history' = history \cup {[w |-> l3.at.w, b |-> l3.at.b, good |-> l3.good]}
    /\ \/ l3.good /\ l3' = [l3 EXCEPT !.pc = "fuse"] /\ UNCHANGED <<win, frozen>>
       \/ ~l3.good /\ MaybeSettle(l3.at.w) /\ L3Idle
    /\ UNCHANGED <<bounds, mats, taken, waiting, leased, cursor, made, queue, rotor,
                   authority, l2, stopper, versions>>

\* _accumulate_branch_result: the identity is read before the fusion ...
Fuse ==
    /\ l3.pc = "fuse"
    /\ \/ /\ IdentityOk(l3.at.w)
          /\ l3' = [l3 EXCEPT !.pc = "authorize", !.epoch = epoch]
          /\ UNCHANGED <<win, frozen>>
       \/ ~IdentityOk(l3.at.w) /\ MaybeSettle(l3.at.w) /\ L3Idle
    /\ UNCHANGED <<bounds, mats, taken, waiting, leased, cursor, made, queue, rotor,
                   authority, l2, stopper, published>>

\* ... and _authorize_l4_write compares it with the one in force after it.
WriteVersion ==
    /\ l3.pc = "authorize"
    /\ versions' = IF epoch = l3.epoch /\ IdentityOk(l3.at.w)
                   THEN versions \cup {l3.at} ELSE versions
    /\ MaybeSettle(l3.at.w) /\ L3Idle
    /\ UNCHANGED <<bounds, mats, taken, waiting, leased, cursor, made, queue, rotor,
                   authority, l2, stopper, history>>

L3Work == \/ Dequeue \/ L3Gate \/ Understand \/ PublishGate \/ Grant
          \/ AppendRecord \/ Fuse \/ WriteVersion
-------------------------------------------------------------------------------
(* stop(): the flag, the commit under _l3_lock, the join that may time out, *)
(* the queue, the windows and the scheduler.                               *)

L2Stop ==
    /\ stopper.pc = "none"
    /\ stopping' = TRUE
    /\ stopper' = [stopper EXCEPT !.pc = "commit"]
    /\ UNCHANGED <<materials, win, queue, rotor, registry, epoch, committed, l2, l3,
                   published>>

CommitStop ==
    /\ stopper.pc = "commit"
    /\ committed' = TRUE
    /\ stopper' = [stopper EXCEPT !.pc = "join"]
    /\ UNCHANGED <<materials, win, queue, rotor, registry, epoch, stopping, l2, l3,
                   published>>

\* The threads have ended, or the join gave up; then the queue is emptied.
DrainQueue ==
    /\ stopper.pc = "join"
    /\ queue' = [c \in L2Cams |-> <<>>]
    /\ stopper' = [stopper EXCEPT !.pc = "drain", !.tasks = Queued]
    /\ UNCHANGED <<materials, win, rotor, authority, l2, l3, published>>

SettleDrained ==
    /\ stopper.pc = "drain"
    /\ JudgeAll(stopper.tasks, "gap")
    /\ stopper' = [stopper EXCEPT !.pc = "windows", !.tasks = {},
                    !.keys = {w \in Wins : Listed(w) /\ ~win[w].done}]
    /\ UNCHANGED <<bounds, mats, taken, waiting, leased, cursor, made, queue, rotor,
                   authority, l2, l3, published>>

\* _close_all_windows_on_stop: a window nobody has marked yet is marked ...
CloseWindow(w) ==
    /\ stopper.pc = "windows" /\ w \in stopper.keys /\ \A v \in stopper.keys : w <= v
    /\ IF Listed(w) /\ ~win[w].done
       THEN /\ win' = [win EXCEPT ![w].done = TRUE]
            /\ stopper' = [stopper EXCEPT !.pc = "closing", !.keys = @ \ {w}, !.at = w]
       ELSE /\ stopper' = [stopper EXCEPT !.keys = @ \ {w}]
            /\ UNCHANGED win
    /\ UNCHANGED <<materials, queue, rotor, authority, l2, l3, published>>

\* ... and then closed.
CloseEnd ==
    /\ stopper.pc = "closing"
    /\ Closed(stopper.at, "gap")
    /\ stopper' = [stopper EXCEPT !.pc = "windows", !.at = 0]
    /\ UNCHANGED <<bounds, mats, taken, waiting, cursor, made, queue, rotor, authority, l2,
                   l3, published>>

\* WindowScheduler.close: what waits goes back to the store; the rest of stop()
\* closes the models and the material pool.
CloseScheduler ==
    /\ stopper.pc = "windows" /\ stopper.keys = {}
    /\ leased' = [c \in L2Cams |-> leased[c] \ ToSet(waiting[c])]
    /\ waiting' = [c \in L2Cams |-> <<>>]
    /\ stopper' = [stopper EXCEPT !.pc = "closed"]
    /\ UNCHANGED <<bounds, mats, taken, frozen, cursor, made, win, queue, rotor, authority,
                   l2, l3, published>>

StopWork == \/ CommitStop \/ DrainQueue \/ SettleDrained \/ CloseEnd \/ CloseScheduler
            \/ \E w \in Wins : CloseWindow(w)

L2Next ==
    \/ \E c \in L2Cams : Arrive(c) \/ SetIdentity(c)
    \/ L2Work \/ L3Work \/ L2Stop \/ StopWork

\* The three threads go on; time passes, so a sweep finds an old window in the end.
\* Nothing obliges a material to come, an identity to change or anybody to stop.
L2Fair ==
    /\ WF_l2vars(L2Work) /\ WF_l2vars(L3Work) /\ WF_l2vars(StopWork)
    /\ SF_l2vars(\E w \in Wins : ExpireWindow(w))
L2Spec == L2Init /\ [][L2Next]_l2vars /\ L2Fair
-------------------------------------------------------------------------------
(* Properties *)

\* What each part of the state may hold.
L2TypeOK ==
    /\ \A c \in L2Cams : mats[c] \in Seq(1..(bounds.changes[c] + 1))
    /\ \A c \in L2Cams : taken[c] \in 0..Len(mats[c]) /\ Len(waiting[c]) <= 2
    /\ leased \in [L2Cams -> SUBSET Nat]
    /\ frozen \subseteq Wins /\ cursor \in {0} \cup L2Cams /\ made \in 0..MaxWin
    /\ \A w \in Wins :
        /\ win[w].st \in {"unused", "held", "producing", "sealed", "gone"}
        /\ win[w].br \in [Branches -> {"none", "pending"} \cup Terminals]
        /\ win[w].mats \subseteq 1..Len(mats[win[w].cam])
    /\ Queued \subseteq L2Tasks /\ Cardinality(Queued) <= QueueCap
    /\ rotor \in L2Cams /\ epoch \in Nat
    /\ l2.pc \in {"idle", "turn", "register", "process", "check", "insert", "evict",
                  "expire"}
    /\ l3.pc \in {"idle", "gate", "model", "publish", "grant", "append", "fuse",
                  "authorize"}
    /\ l3.at \in L2Tasks \cup {NoTask}
    /\ stopper.pc \in {"none", "commit", "join", "drain", "windows", "closing", "closed"}

\* A pending branch of a window on the books always has somebody who will settle
\* it: it is in the queue, in the hands of the L2 thread that cuts it or has
\* evicted it, of the L3 thread, of the drain of stop(), or its window is being
\* closed. (The queue, the books and the threads are updated under different locks.)
InHands(t) ==
    \/ t \in Queued
    \/ l2.pc \in {"check", "insert"} /\ l2.at = t
    \/ t \in l2.victims
    \/ l3.pc \in {"gate", "model", "publish", "grant"} /\ l3.at = t
    \/ t \in stopper.tasks
    \/ win[t.w].done
Owned == \A t \in L2Tasks : Pending(t.w, t.b) => InHands(t)

\* The records of the L3 history say what became of their branch: a good one that
\* it was understood, any other that it failed or was refused; a version of the
\* fusion rests on a branch that was understood. No later expiry, eviction, change
\* of identity or stop takes this back.
HistoryHonest ==
    /\ \A r \in history :
        win[r.w].br[r.b] = IF r.good THEN "ok" ELSE "failed"
    /\ \A v \in versions : win[v.w].br[v.b] = "ok"

\* After stop() has closed the scheduler and both threads have come to their end,
\* even when the join had timed out, no material is leased, no window is on the
\* books or occupies a camera, no task is queued and no branch is left pending.
L2Ended == stopper.pc = "closed" /\ l2.pc = "idle" /\ l3.pc = "idle"
AllReturned ==
    L2Ended => /\ \A c \in L2Cams : leased[c] = {} /\ queue[c] = <<>>
               /\ frozen = {}
               /\ \A w \in Wins : ~Listed(w) /\ \A b \in Branches : win[w].br[b] # "pending"

\* Every window put on the books leaves them: its branches are settled, or its
\* lifetime ends, or stop() closes it.
WindowsEnd == \A w \in Wins : Listed(w) ~> win[w].st = "gone"

===============================================================================
